-------------------------- MODULE FlowEngineProofs --------------------------
(***************************************************************************)
(* Proofs about FlowEngine, for every graph of nodes, every set of events  *)
(* and any number of threads: types, one execution per node, and that a    *)
(* node never passes its wait without an event of its own.                 *)
(***************************************************************************)
EXTENDS FlowEngine, SequenceTheorems, TLAPS

Thread == [kind : {"free", "new", "flow", "child"}, current : Nodes \cup {NoNode},
           stack : Seq(Frame)]

\* Places a call reaches before it turns to its children.
Early == {"enter", "arm", "wait", "disarm", "clear", "pre", "action"}

\* A call counts its children from the first one, and never past the last one.
FrameOK(f) ==
  /\ f \in Frame
  /\ f.at \in Early => f.child = 1
  /\ f.at \in {"spawn", "child"} => f.child \in DOMAIN Children[f.node]

\* The calls below the innermost one are all in the loop over their children.
StackOK(s) ==
  /\ s \in Seq(Frame)
  /\ \A i \in 1 .. Len(s) : FrameOK(s[i]) /\ (i < Len(s) => s[i].at = "child")

ThreadOK(th) == th \in Thread /\ StackOK(th.stack)

ControlOK ==
  /\ running \in BOOLEAN /\ app \in {"up", "joining", "stopped"}
  /\ todo \in [flows : Seq(Nodes), publish : 0 .. MaxPublish]
ThreadsOK == thread \in [Threads -> Thread] /\ \A t \in Threads : ThreadOK(thread[t])
NodesOK ==
  executing \in [Nodes -> BOOLEAN] /\ waiting \in [Nodes -> BOOLEAN] /\ received \in [Nodes -> BOOLEAN]
EventsOK ==
  /\ callbacks \in [Nodes -> [fresh : Nat, tested : Nat]]
  /\ hist \in [published : [Nodes -> Nat], passes : [Nodes -> Nat]]

TypeInv == ControlOK /\ ThreadsOK /\ NodesOK /\ EventsOK

-----------------------------------------------------------------------------
(* Operations on the stack of a thread.                                    *)

LEMMA LastFrame ==
  ASSUME NEW s, StackOK(s), s # << >>
  PROVE  /\ Len(s) \in Nat \ {0} /\ Last(s) = s[Len(s)] /\ Last(s) \in Frame /\ FrameOK(Last(s))
<1>1. s \in Seq(Frame) BY DEF StackOK
<1>2. Len(s) \in Nat \ {0} BY <1>1
<1>3. Last(s) = s[Len(s)] BY DEF Last
<1> QED BY <1>2, <1>3 DEF StackOK, FrameOK

\* A stack without its innermost call.
LEMMA FrontAt ==
  ASSUME NEW S, NEW s \in Seq(S), s # << >>
  PROVE  /\ Front(s) \in Seq(S) /\ Len(Front(s)) = Len(s) - 1 /\ Len(s) \in Nat \ {0}
         /\ \A i \in 1 .. Len(s) - 1 : Front(s)[i] = s[i]
<1>1. Len(s) \in Nat \ {0} /\ Front(s) = SubSeq(s, 1, Len(s) - 1)
  BY DEF Front
<1>2. \A i \in 1 .. Len(s) - 1 : s[i] \in S
  BY <1>1
<1> DEFINE n == Len(s) - 1
<1>3. n \in Int /\ n >= 0 BY <1>1
<1> DEFINE r == SubSeq(s, 1, n)
<1>4. r \in Seq(S) /\ Len(r) = (IF 1 <= n THEN n - 1 + 1 ELSE 0)
      /\ \A i \in 1 .. n - 1 + 1 : r[i] = s[1 + i - 1]
  BY <1>2, <1>3, SubSeqProperties
<1> HIDE DEF r, n
<1>5. Len(r) = n BY <1>3, <1>4
<1>6. \A i \in 1 .. n : r[i] = s[i] BY <1>3, <1>4
<1> QED BY <1>1, <1>4, <1>5, <1>6 DEF r, n

\* The innermost call goes on.
LEMMA TopStack ==
  ASSUME NEW s, StackOK(s), s # << >>, NEW f, FrameOK(f)
  PROVE  LET s2 == Append(Front(s), f)
         IN  /\ StackOK(s2) /\ Len(s2) = Len(s) /\ s2[Len(s)] = f
             /\ \A i \in 1 .. Len(s) - 1 : s2[i] = s[i]
<1> DEFINE r == Front(s)
<1> DEFINE s2 == Append(r, f)
<1>0. s \in Seq(Frame) /\ Len(s) \in Nat \ {0} /\ f \in Frame
  BY LastFrame DEF StackOK, FrameOK
<1>1. r \in Seq(Frame) /\ Len(r) = Len(s) - 1 /\ \A i \in 1 .. Len(s) - 1 : r[i] = s[i]
  BY <1>0, FrontAt
<1> HIDE DEF r
<1>2. /\ s2 \in Seq(Frame) /\ Len(s2) = Len(s) /\ s2[Len(s)] = f
      /\ \A i \in 1 .. Len(s) - 1 : s2[i] = s[i]
  BY <1>0, <1>1
<1> HIDE DEF s2
<1>3. ASSUME NEW i \in 1 .. Len(s2)
      PROVE  FrameOK(s2[i]) /\ (i < Len(s2) => s2[i].at = "child")
  <2>1. CASE i = Len(s) BY <1>2, <2>1
  <2>2. CASE i # Len(s)
    <3>1. i \in 1 .. Len(s) - 1 /\ i \in 1 .. Len(s) /\ i < Len(s) BY <1>0, <1>2, <2>2
    <3> QED BY <1>2, <3>1 DEF StackOK
  <2> QED BY <2>1, <2>2
<1>4. StackOK(s2) BY <1>2, <1>3 DEF StackOK
<1> QED BY <1>2, <1>4 DEF s2, r

\* A call of execute from the loop over children.
LEMMA PushStack ==
  ASSUME NEW s, StackOK(s), s # << >> => Last(s).at = "child", NEW f, FrameOK(f)
  PROVE  LET s2 == Append(s, f)
         IN  /\ StackOK(s2) /\ Len(s) \in Nat /\ Len(s2) = Len(s) + 1 /\ s2[Len(s) + 1] = f
             /\ \A i \in 1 .. Len(s) : s2[i] = s[i]
<1> DEFINE s2 == Append(s, f)
<1>0. s \in Seq(Frame) /\ Len(s) \in Nat /\ f \in Frame
  BY DEF StackOK, FrameOK
<1>1. /\ s2 \in Seq(Frame) /\ Len(s2) = Len(s) + 1 /\ s2[Len(s) + 1] = f
      /\ \A i \in 1 .. Len(s) : s2[i] = s[i]
  BY <1>0
<1> HIDE DEF s2
<1>2. ASSUME NEW i \in 1 .. Len(s2)
      PROVE  FrameOK(s2[i]) /\ (i < Len(s2) => s2[i].at = "child")
  <2>1. CASE i = Len(s) + 1 BY <1>0, <1>1, <2>1
  <2>2. CASE i # Len(s) + 1
    <3>1. i \in 1 .. Len(s) /\ s2[i] = s[i] BY <1>0, <1>1, <2>2
    <3>2. CASE i = Len(s)
      <4>1. s # << >> /\ s[i] = Last(s) BY <1>0, <3>1, <3>2 DEF Last
      <4> QED BY <3>1, <4>1 DEF StackOK
    <3>3. CASE i # Len(s)
      <4>1. i < Len(s) BY <1>0, <3>1, <3>3
      <4> QED BY <3>1, <4>1 DEF StackOK
    <3> QED BY <3>2, <3>3
  <2> QED BY <2>1, <2>2
<1>3. StackOK(s2) BY <1>1, <1>2 DEF StackOK
<1> QED BY <1>0, <1>1, <1>3 DEF s2

\* The call that gets a result goes on with its next child or after the last.
LEMMA ResumeOK ==
  ASSUME NEW f, FrameOK(f), f.at = "child", NEW r \in Results
  PROVE  /\ FrameOK(ResumeParent(f, r)) /\ ResumeParent(f, r).node = f.node
         /\ ResumeParent(f, r).at \in {"child", "post"}
<1>0. /\ f \in Frame /\ f.node \in Nodes /\ f.child \in Nat /\ Children[f.node] \in Seq(Nodes)
      /\ f.child \in 1 .. Len(Children[f.node]) /\ Len(Children[f.node]) \in Nat
  BY FlowAssumption DEF FrameOK, Frame
<1>1. CASE r = "failure" \/ f.child = Len(Children[f.node])
  <2>1. ResumeParent(f, r) = [f EXCEPT !.at = "post", !.result = r] BY <1>1 DEF ResumeParent
  <2> QED BY <1>0, <2>1 DEF FrameOK, Frame, Places, Early, Results
<1>2. CASE ~(r = "failure" \/ f.child = Len(Children[f.node]))
  <2>1. ResumeParent(f, r) = [f EXCEPT !.child = @ + 1] BY <1>2 DEF ResumeParent
  <2>2. f.child + 1 \in 1 .. Len(Children[f.node]) BY <1>0, <1>2
  <2>3. DOMAIN Children[f.node] = 1 .. Len(Children[f.node]) BY <1>0
  <2> DEFINE g == [f EXCEPT !.child = @ + 1]
  <2>4. g \in Frame /\ g.at = "child" /\ g.node = f.node /\ g.child = f.child + 1
    BY <1>0 DEF Frame
  <2> HIDE DEF g
  <2>5. FrameOK(g) BY <2>2, <2>3, <2>4 DEF FrameOK, Early
  <2> QED BY <2>1, <2>4, <2>5 DEF g
<1> QED BY <1>1, <1>2

\* A call returns: the caller below it, if there is one, goes on.
LEMMA ReturnedOK ==
  ASSUME NEW th, ThreadOK(th), th.stack # << >>, NEW r \in Results
  PROVE  LET s == th.stack
             s2 == Returned(th, r).stack
         IN  /\ ThreadOK(Returned(th, r)) /\ Len(s) \in Nat \ {0} /\ Len(s2) = Len(s) - 1
             /\ \A i \in 1 .. Len(s) - 1 :
                  s2[i].node = s[i].node /\ s[i].at = "child" /\ s2[i].at \in {"child", "post"}
<1> DEFINE s == th.stack
<1> DEFINE rest == Front(s)
<1> DEFINE new == Returned(th, r)
<1>0. StackOK(s) /\ th \in Thread /\ Len(s) \in Nat \ {0} /\ s \in Seq(Frame)
  BY LastFrame DEF ThreadOK, StackOK
<1>1. rest \in Seq(Frame) /\ Len(rest) = Len(s) - 1 /\ \A i \in 1 .. Len(s) - 1 : rest[i] = s[i]
  BY <1>0, FrontAt
<1>2. \A i \in 1 .. Len(s) - 1 : i \in 1 .. Len(s) /\ i < Len(s) BY <1>0
<1>3. \A i \in 1 .. Len(s) - 1 : FrameOK(s[i]) /\ s[i].at = "child"
  BY <1>0, <1>2 DEF StackOK
<1> HIDE DEF rest
<1>4. CASE rest # << >>
  <2> DEFINE g == ResumeParent(Last(rest), r)
  <2> DEFINE s2 == Append(Front(rest), g)
  <2>1. StackOK(rest)
    BY <1>0, <1>1, <1>2, <1>3 DEF StackOK
  <2>2. Last(rest) = s[Len(s) - 1] /\ Len(s) - 1 \in 1 .. Len(s) - 1 /\ Len(rest) \in Nat \ {0}
    <3>1. Last(rest) = rest[Len(rest)] /\ Len(rest) \in Nat \ {0} BY <1>4, <2>1, LastFrame
    <3> HIDE DEF s
    <3>2. Len(s) - 1 \in 1 .. Len(s) - 1 BY <1>0, <1>1, <3>1
    <3> QED BY <1>1, <3>1, <3>2
  <2>3. FrameOK(g) /\ g.node = Last(rest).node /\ g.at \in {"child", "post"}
    BY <1>3, <2>2, ResumeOK
  <2> HIDE DEF g
  <2>4. /\ StackOK(s2) /\ Len(s2) = Len(rest) /\ s2[Len(rest)] = g
        /\ \A i \in 1 .. Len(rest) - 1 : s2[i] = rest[i]
    BY <1>4, <2>1, <2>3, TopStack
  <2>5. new = [th EXCEPT !.stack = s2]
    BY <1>4 DEF Returned, rest, g
  <2> HIDE DEF s2
  <2>6. new \in Thread /\ new.stack = s2
    BY <1>0, <2>4, <2>5 DEF Thread, StackOK
  <2>7. ASSUME NEW i \in 1 .. Len(s) - 1
        PROVE  s2[i].node = s[i].node /\ s2[i].at \in {"child", "post"}
    <3>1. CASE i = Len(s) - 1 BY <1>1, <2>2, <2>3, <2>4, <3>1
    <3>2. CASE i # Len(s) - 1
      <4>1. i \in 1 .. Len(rest) - 1 BY <1>0, <1>1, <3>2
      <4> QED BY <1>1, <1>3, <2>4, <4>1
    <3> QED BY <3>1, <3>2
  <2> QED BY <1>0, <1>1, <1>3, <2>4, <2>6, <2>7 DEF ThreadOK
<1>5. CASE rest = << >>
  <2>1. new.stack = << >> /\ new \in Thread
    <3>1. CASE th.kind = "flow"
      <4>1. new = [th EXCEPT !.stack = << >>, !.current = NextNode(Last(s).node, r)]
        BY <1>5, <3>1 DEF Returned, rest
      <4>2. Last(s).node \in Nodes BY <1>0, LastFrame DEF Frame
      <4>3. NextNode(Last(s).node, r) \in Nodes \cup {NoNode}
        BY <4>2, FlowAssumption DEF NextNode, Link
      <4> DEFINE n == NextNode(Last(s).node, r)
      <4> HIDE DEF n
      <4>4. << >> \in Seq(Frame) BY DEF Frame
      <4> QED BY <1>0, <4>1, <4>3, <4>4 DEF Thread, n
    <3>2. CASE th.kind # "flow"
      <4>1. new = FreeThread BY <1>5, <3>2 DEF Returned, rest
      <4> QED BY <4>1 DEF FreeThread, Thread
    <3> QED BY <3>1, <3>2
  <2>2. Len(s) = 1
    <3> HIDE DEF s
    <3>1. Len(rest) = 0 /\ Len(s) \in Nat BY <1>0, <1>5
    <3> QED BY <1>1, <3>1
  <2>3. StackOK(<< >>) BY DEF StackOK
  <2>4. ThreadOK(new) BY <2>1, <2>3 DEF ThreadOK
  <2> HIDE DEF s, new
  <2>5. Len(s) \in Nat \ {0} /\ Len(new.stack) = Len(s) - 1 BY <2>1, <2>2
  <2>6. \A i \in 1 .. Len(s) - 1 : FALSE BY <2>2
  <2> QED BY <2>4, <2>5, <2>6 DEF s, new
<1> QED BY <1>4, <1>5

-----------------------------------------------------------------------------
(* The invariants.                                                         *)

\* A call in progress that got past the test of _is_executing, and one that has
\* been woken and has not yet cleared the event.
Live(s, i, n) == i \in 1 .. Len(s) /\ s[i].at # "enter" /\ s[i].node = n
Woken(s, i, n) == i \in 1 .. Len(s) /\ s[i].at \in {"disarm", "clear"} /\ s[i].node = n

OneLive ==
  \A n \in Nodes : \A t, u \in Threads : \A i, j \in Nat :
    Live(thread[t].stack, i, n) /\ Live(thread[u].stack, j, n) => t = u /\ i = j

IsLive(n) == \E t \in Threads : \E i \in Nat : Live(thread[t].stack, i, n)
IsWoken(n) == \E t \in Threads : \E i \in Nat : Woken(thread[t].stack, i, n)

Marked == \A n \in Nodes : executing[n] <=> IsLive(n)

\* An event that is set is worth one pass, unless the call it woke is counted
\* and about to clear it.
Credit(n) == IF received[n] /\ ~IsWoken(n) THEN 1 ELSE 0

\* Passes, callbacks under way and a set event: each stands for an event of its own.
EventsSuffice ==
  \A n \in Nodes :
    hist.passes[n] + callbacks[n].fresh + callbacks[n].tested + Credit(n) <= hist.published[n]

FlowInv == TypeInv /\ OneLive /\ Marked /\ EventsSuffice

LEMMA TypesFollow == TypeInv => TypeOK
<1> SUFFICES ASSUME TypeInv PROVE TypeOK
  OBVIOUS
<1>1. ASSUME NEW t \in Threads, NEW i \in DOMAIN thread[t].stack
      PROVE  thread[t].stack[i].at \in {"spawn", "child"} =>
               thread[t].stack[i].child \in DOMAIN Children[thread[t].stack[i].node]
  <2>1. StackOK(thread[t].stack) BY DEF TypeInv, ThreadsOK, ThreadOK
  <2>2. DOMAIN thread[t].stack = 1 .. Len(thread[t].stack) BY <2>1 DEF StackOK
  <2> QED BY <2>1, <2>2 DEF StackOK, FrameOK
<1> QED BY <1>1 DEF TypeOK, TypeInv, ControlOK, ThreadsOK, NodesOK, EventsOK, Thread

\* The innermost call of a thread.
LEMMA AtTop ==
  ASSUME ThreadsOK, NEW t \in Threads, NEW p, At(t, p)
  PROVE  /\ thread[t].stack # << >> /\ StackOK(thread[t].stack)
         /\ Top(t) = thread[t].stack[Len(thread[t].stack)]
         /\ Top(t) \in Frame /\ FrameOK(Top(t)) /\ Top(t).at = p /\ Top(t).node \in Nodes
         /\ Len(thread[t].stack) \in Nat \ {0}
<1>1. thread[t].stack # << >> /\ StackOK(thread[t].stack) /\ Top(t).at = p
  BY DEF At, ThreadsOK, ThreadOK
<1> QED BY <1>1, LastFrame DEF Top, Frame

\* What may happen to the calls that are live, and to those that are woken.
LiveSame ==
  \A u \in Threads : \A i \in Nat : \A n \in Nodes :
    Live(thread'[u].stack, i, n) <=> Live(thread[u].stack, i, n)
WokenSame ==
  \A u \in Threads : \A i \in Nat : \A n \in Nodes :
    Woken(thread'[u].stack, i, n) <=> Woken(thread[u].stack, i, n)

LEMMA SameLive ==
  ASSUME OneLive, Marked, LiveSame, executing' = executing
  PROVE  OneLive' /\ Marked'
  BY DEF OneLive, Marked, LiveSame, IsLive

LEMMA SameEvents ==
  ASSUME EventsSuffice, WokenSame, UNCHANGED <<received, callbacks, hist>>
  PROVE  EventsSuffice'
<1>1. \A n \in Nodes : IsWoken(n)' <=> IsWoken(n) BY DEF WokenSame, IsWoken
<1>2. \A n \in Nodes : Credit(n)' = Credit(n) BY <1>1 DEF Credit
<1> QED BY <1>2 DEF EventsSuffice

\* A thread changes, the others stay.
LEMMA OneThread ==
  ASSUME ThreadsOK, NEW t \in Threads, NEW th, ThreadOK(th), thread' = [thread EXCEPT ![t] = th]
  PROVE  /\ ThreadsOK' /\ thread'[t] = th
         /\ \A u \in Threads \ {t} : thread'[u] = thread[u]
  BY DEF ThreadsOK, ThreadOK

LEMMA TopEffect ==
  ASSUME ThreadsOK, NEW t \in Threads, NEW p, At(t, p), NEW f, FrameOK(f), SetTop(t, f)
  PROVE  LET s == thread[t].stack
             s2 == thread'[t].stack
         IN  /\ ThreadsOK' /\ Len(s2) = Len(s) /\ s2[Len(s)] = f
             /\ \A i \in 1 .. Len(s) - 1 : s2[i] = s[i]
             /\ \A u \in Threads \ {t} : thread'[u] = thread[u]
<1> DEFINE s == thread[t].stack
<1> DEFINE s2 == Append(Front(s), f)
<1> DEFINE th == [thread[t] EXCEPT !.stack = s2]
<1>0. thread[t] \in Thread /\ thread \in [Threads -> Thread] BY DEF ThreadsOK
<1>1. StackOK(s) /\ s # << >> BY AtTop
<1> HIDE DEF s
<1>2. /\ StackOK(s2) /\ Len(s2) = Len(s) /\ s2[Len(s)] = f
      /\ \A i \in 1 .. Len(s) - 1 : s2[i] = s[i]
  BY <1>1, TopStack
<1>3. thread' = [thread EXCEPT ![t] = th] BY <1>0 DEF SetTop, s
<1> HIDE DEF s2
<1>4. th.stack = s2 /\ ThreadOK(th) BY <1>0, <1>2 DEF ThreadOK, Thread, StackOK
<1> HIDE DEF th
<1>5. /\ ThreadsOK' /\ thread'[t] = th
      /\ \A u \in Threads \ {t} : thread'[u] = thread[u]
  BY <1>3, <1>4, OneThread
<1> QED BY <1>2, <1>4, <1>5 DEF s

\* The innermost call goes on within the same call of execute.
LEMMA TopStays ==
  ASSUME ThreadsOK, NEW t \in Threads, NEW p, At(t, p), NEW f, FrameOK(f), SetTop(t, f),
         f.node = Top(t).node, p # "enter", f.at # "enter"
  PROVE  /\ ThreadsOK' /\ LiveSame
         /\ (p \in {"disarm", "clear"} <=> f.at \in {"disarm", "clear"}) => WokenSame
<1> DEFINE s == thread[t].stack
<1> DEFINE s2 == thread'[t].stack
<1>1. /\ Len(s) \in Nat \ {0} /\ s[Len(s)] = Top(t) /\ Top(t).at = p
  BY AtTop
<1>2. /\ ThreadsOK' /\ Len(s2) = Len(s) /\ s2[Len(s)] = f
      /\ \A i \in 1 .. Len(s) - 1 : s2[i] = s[i]
      /\ \A u \in Threads \ {t} : thread'[u] = thread[u]
  BY TopEffect
<1> HIDE DEF s, s2
<1>3. ASSUME NEW i \in Nat, NEW n \in Nodes
      PROVE  /\ Live(s2, i, n) <=> Live(s, i, n)
             /\ (p \in {"disarm", "clear"} <=> f.at \in {"disarm", "clear"}) =>
                  (Woken(s2, i, n) <=> Woken(s, i, n))
  <2>1. CASE i \in 1 .. Len(s) - 1 BY <1>1, <1>2, <2>1 DEF Live, Woken
  <2>2. CASE i = Len(s) BY <1>1, <1>2, <2>2 DEF Live, Woken
  <2>3. CASE i \notin 1 .. Len(s)
    BY <1>2, <2>3 DEF Live, Woken
  <2> QED BY <1>1, <2>1, <2>2, <2>3
<1>4. LiveSame BY <1>2, <1>3 DEF LiveSame, s, s2
<1>5. (p \in {"disarm", "clear"} <=> f.at \in {"disarm", "clear"}) => WokenSame
  BY <1>2, <1>3 DEF WokenSame, s, s2
<1> QED BY <1>2, <1>4, <1>5

\* The same, when only the place changes.
LEMMA PlaceStays ==
  ASSUME ThreadsOK, NEW t \in Threads, NEW p \in Places, At(t, p),
         NEW q \in Places \ {"enter", "spawn", "child"}, Goto(t, q),
         p # "enter", q \in Early => p \in Early
  PROVE  /\ ThreadsOK' /\ LiveSame
         /\ (p \in {"disarm", "clear"} <=> q \in {"disarm", "clear"}) => WokenSame
<1> DEFINE f == [Top(t) EXCEPT !.at = q]
<1>1. Top(t) \in Frame /\ FrameOK(Top(t)) /\ Top(t).at = p BY AtTop
<1>2. f \in Frame /\ f.at = q /\ f.node = Top(t).node /\ f.child = Top(t).child
  BY <1>1 DEF Frame
<1>3. SetTop(t, f) BY DEF Goto
<1> HIDE DEF f
<1>4. FrameOK(f) BY <1>1, <1>2 DEF FrameOK
<1> QED BY <1>2, <1>3, <1>4, TopStays

\* A call returns: it is not live any more, the others stay as they are.
LEMMA ReturnEffect ==
  ASSUME ThreadsOK, NEW t \in Threads, NEW p, At(t, p), p \notin {"disarm", "clear"},
         NEW r \in Results, Return(t, r)
  PROVE  /\ ThreadsOK' /\ WokenSame
         /\ \A u \in Threads : \A i \in Nat : \A n \in Nodes :
              Live(thread'[u].stack, i, n) <=>
                Live(thread[u].stack, i, n) /\ ~(u = t /\ i = Len(thread[t].stack))
<1> DEFINE s == thread[t].stack
<1> DEFINE s2 == thread'[t].stack
<1>0. thread \in [Threads -> Thread] /\ ThreadOK(thread[t]) /\ s # << >>
  BY AtTop DEF ThreadsOK
<1>1. /\ Len(s) \in Nat \ {0} /\ s[Len(s)].at = p BY AtTop
<1>2. thread' = [thread EXCEPT ![t] = Returned(thread[t], r)] BY DEF Return
<1>3. /\ ThreadOK(Returned(thread[t], r)) /\ Len(Returned(thread[t], r).stack) = Len(s) - 1
      /\ \A i \in 1 .. Len(s) - 1 :
           /\ Returned(thread[t], r).stack[i].node = s[i].node /\ s[i].at = "child"
           /\ Returned(thread[t], r).stack[i].at \in {"child", "post"}
  BY <1>0, ReturnedOK
<1>4. ThreadsOK' /\ thread'[t] = Returned(thread[t], r) /\ \A u \in Threads \ {t} : thread'[u] = thread[u]
  BY <1>2, <1>3, OneThread
<1>5. /\ Len(s2) = Len(s) - 1
      /\ \A i \in 1 .. Len(s) - 1 :
           s2[i].node = s[i].node /\ s[i].at = "child" /\ s2[i].at \in {"child", "post"}
  BY <1>3, <1>4
<1> HIDE DEF s, s2
<1>6. ASSUME NEW i \in Nat, NEW n \in Nodes
      PROVE  /\ Live(s2, i, n) <=> Live(s, i, n) /\ i # Len(s)
             /\ Woken(s2, i, n) <=> Woken(s, i, n)
  <2>1. CASE i \in 1 .. Len(s) - 1
    <3>1. i \in 1 .. Len(s) /\ i # Len(s) BY <1>1, <2>1
    <3> QED BY <1>5, <2>1, <3>1 DEF Live, Woken
  <2>2. CASE i = Len(s)
    <3>1. i \notin 1 .. Len(s) - 1 /\ i \in 1 .. Len(s) BY <1>1, <2>2
    <3> QED BY <1>1, <1>5, <2>2, <3>1 DEF Live, Woken
  <2>3. CASE i \notin 1 .. Len(s)
    <3>1. i \notin 1 .. Len(s) - 1 BY <1>1, <2>3
    <3> QED BY <1>5, <2>3, <3>1 DEF Live, Woken
  <2>4. i \in 1 .. Len(s) - 1 \/ i = Len(s) \/ i \notin 1 .. Len(s) BY <1>1
  <2> QED BY <2>1, <2>2, <2>3, <2>4
<1>7. WokenSame BY <1>4, <1>6 DEF WokenSame, s, s2
<1> QED BY <1>4, <1>6, <1>7 DEF s, s2

\* A thread whose stack is empty, before and after, has no live call.
LEMMA EmptyStack ==
  ASSUME NEW i, NEW n
  PROVE  ~Live(<< >>, i, n) /\ ~Woken(<< >>, i, n)
  BY DEF Live, Woken

LEMMA NewFrameOK ==
  ASSUME NEW n \in Nodes
  PROVE  /\ FrameOK(NewFrame(n)) /\ NewFrame(n).at = "enter"
         /\ StackOK(<<NewFrame(n)>>)
<1>1. FrameOK(NewFrame(n)) /\ NewFrame(n).at = "enter"
  BY DEF FrameOK, NewFrame, Frame, Places, Early, Results
<1>2. NewFrame(n) \in Frame BY <1>1 DEF FrameOK
<1> HIDE DEF NewFrame
<1>3. <<NewFrame(n)>> \in Seq(Frame) /\ Len(<<NewFrame(n)>>) = 1 /\ <<NewFrame(n)>>[1] = NewFrame(n)
  BY <1>2
<1> QED BY <1>1, <1>3 DEF StackOK

LEMMA OneEntering ==
  ASSUME NEW n \in Nodes, NEW i, NEW m
  PROVE  ~Live(<<NewFrame(n)>>, i, m) /\ ~Woken(<<NewFrame(n)>>, i, m)
<1>1. NewFrame(n).at = "enter" BY NewFrameOK
<1>2. Len(<<NewFrame(n)>>) = 1 /\ <<NewFrame(n)>>[1] = NewFrame(n) OBVIOUS
<1> HIDE DEF NewFrame
<1>3. i \in 1 .. 1 => i = 1 OBVIOUS
<1> QED BY <1>1, <1>2, <1>3 DEF Live, Woken

\* Steps that leave the nodes and the events alone.
LEMMA QuietStep ==
  ASSUME FlowInv, ThreadsOK', LiveSame, WokenSame, ControlOK',
         UNCHANGED <<nodeState, callbacks, hist>>
  PROVE  FlowInv'
<1>1. OneLive' /\ Marked' BY SameLive DEF FlowInv, nodeState
<1>2. EventsSuffice' BY SameEvents DEF FlowInv, nodeState
<1> QED BY <1>1, <1>2 DEF FlowInv, TypeInv, NodesOK, EventsOK, nodeState

\* Node.execute up to the wait.
LEMMA EnterPreserves ==
  ASSUME FlowInv, NEW t \in Threads, Enter(t)
  PROVE  FlowInv'
<1> DEFINE n == Top(t).node
<1> DEFINE L == Len(thread[t].stack)
<1>0. /\ ThreadsOK /\ ControlOK /\ NodesOK /\ EventsOK /\ OneLive /\ Marked /\ EventsSuffice
      /\ At(t, "enter") /\ UNCHANGED <<running, app, todo, waiting, received, callbacks, hist>>
  BY DEF FlowInv, TypeInv, Enter
<1>1. /\ Top(t) \in Frame /\ FrameOK(Top(t)) /\ Top(t).at = "enter" /\ n \in Nodes
      /\ L \in Nat \ {0} /\ thread[t].stack[L] = Top(t)
  BY <1>0, AtTop
<1>2. CASE executing[n]
  <2>1. Return(t, "failure") /\ executing' = executing BY <1>2 DEF Enter
  <2>2. /\ ThreadsOK' /\ WokenSame
        /\ \A u \in Threads : \A i \in Nat : \A m \in Nodes :
             Live(thread'[u].stack, i, m) <=> Live(thread[u].stack, i, m) /\ ~(u = t /\ i = L)
    BY <1>0, <2>1, ReturnEffect DEF Results
  <2>3. \A m \in Nodes : ~Live(thread[t].stack, L, m) BY <1>1 DEF Live
  <2>4. LiveSame BY <2>2, <2>3 DEF LiveSame
  <2>5. ControlOK' BY <1>0 DEF ControlOK
  <2> QED BY <1>0, <2>1, <2>2, <2>4, <2>5, QuietStep DEF nodeState
<1>3. CASE ~executing[n]
  <2> DEFINE q == IF SubEvent[n] = NoEvent THEN "pre" ELSE "arm"
  <2> DEFINE f == [Top(t) EXCEPT !.at = q]
  <2>1. SetTop(t, f) /\ executing' = [executing EXCEPT ![n] = TRUE]
    BY <1>3 DEF Enter, Goto
  <2>2. f \in Frame /\ f.at = q /\ f.node = n /\ f.child = Top(t).child
    BY <1>1 DEF Frame, Places
  <2>3. q \in {"pre", "arm"} OBVIOUS
  <2> HIDE DEF f, q
  <2>4. FrameOK(f) BY <1>1, <2>2, <2>3 DEF FrameOK, Early
  <2>5. /\ ThreadsOK' /\ Len(thread'[t].stack) = L /\ thread'[t].stack[L] = f
        /\ \A i \in 1 .. L - 1 : thread'[t].stack[i] = thread[t].stack[i]
        /\ \A u \in Threads \ {t} : thread'[u] = thread[u]
    BY <1>0, <2>1, <2>4, TopEffect
  <2>6. ASSUME NEW u \in Threads, NEW i \in Nat, NEW m \in Nodes
        PROVE  /\ Live(thread'[u].stack, i, m) <=>
                    Live(thread[u].stack, i, m) \/ (u = t /\ i = L /\ m = n)
               /\ Woken(thread'[u].stack, i, m) <=> Woken(thread[u].stack, i, m)
    <3>1. CASE u # t BY <2>5, <3>1
    <3>2. CASE u = t /\ i = L
      BY <1>1, <2>2, <2>3, <2>5, <3>2 DEF Live, Woken
    <3>3. CASE u = t /\ i \in 1 .. L - 1
      <4>1. i \in 1 .. L /\ i # L BY <1>1, <3>3
      <4>2. thread'[u].stack[i] = thread[u].stack[i] /\ Len(thread'[u].stack) = Len(thread[u].stack)
        BY <2>5, <3>3
      <4> QED BY <4>1, <4>2 DEF Live, Woken
    <3>4. CASE u = t /\ i \notin 1 .. L
      BY <1>1, <2>5, <3>4 DEF Live, Woken
    <3>5. i = L \/ i \in 1 .. L - 1 \/ i \notin 1 .. L BY <1>1
    <3> QED BY <3>1, <3>2, <3>3, <3>4, <3>5
  <2>7. ~IsLive(n) BY <1>0, <1>1, <1>3 DEF Marked
  <2>8. OneLive'
    <3> SUFFICES ASSUME NEW m \in Nodes, NEW u \in Threads, NEW v \in Threads,
                        NEW i \in Nat, NEW j \in Nat,
                        Live(thread'[u].stack, i, m), Live(thread'[v].stack, j, m)
                 PROVE  u = v /\ i = j
      BY DEF OneLive
    <3>1. /\ Live(thread[u].stack, i, m) \/ (u = t /\ i = L /\ m = n)
          /\ Live(thread[v].stack, j, m) \/ (v = t /\ j = L /\ m = n)
      BY <2>6
    <3>2. CASE m = n BY <2>7, <3>1, <3>2 DEF IsLive
    <3>3. CASE m # n BY <1>0, <3>1, <3>3 DEF OneLive
    <3> QED BY <3>2, <3>3
  <2>9. Marked'
    <3> SUFFICES ASSUME NEW m \in Nodes PROVE executing'[m] <=> IsLive(m)'
      BY DEF Marked
    <3>1. CASE m = n
      <4>1. executing'[m] BY <1>0, <1>1, <2>1, <3>1 DEF NodesOK
      <4>2. IsLive(m)' BY <1>1, <2>6, <3>1 DEF IsLive
      <4> QED BY <4>1, <4>2
    <3>2. CASE m # n
      <4>1. executing'[m] = executing[m] BY <1>0, <2>1, <3>2 DEF NodesOK
      <4>2. IsLive(m)' <=> IsLive(m) BY <2>6, <3>2 DEF IsLive
      <4> QED BY <1>0, <4>1, <4>2 DEF Marked
    <3> QED BY <3>1, <3>2
  <2>10. EventsSuffice' BY <1>0, <2>6, SameEvents DEF WokenSame
  <2>11. ControlOK' /\ NodesOK' /\ EventsOK'
    BY <1>0, <1>1, <2>1 DEF ControlOK, NodesOK, EventsOK
  <2> QED BY <2>5, <2>8, <2>9, <2>10, <2>11 DEF FlowInv, TypeInv
<1> QED BY <1>2, <1>3

\* The wait for an event. Arming, and the steps after the wake-up that do not clear.
LEMMA WaitPreserves ==
  ASSUME FlowInv, NEW t \in Threads, Arm(t) \/ Disarm(t)
  PROVE  FlowInv'
<1>0. /\ ThreadsOK /\ ControlOK /\ NodesOK /\ EventsOK /\ OneLive /\ Marked /\ EventsSuffice
      /\ UNCHANGED <<running, app, todo, executing, received, callbacks, hist>>
  BY DEF FlowInv, TypeInv, Arm, Disarm
<1>1. PICK p \in {"arm", "disarm"} :
        /\ At(t, p) /\ Goto(t, IF p = "arm" THEN "wait" ELSE "clear")
        /\ waiting' = [waiting EXCEPT ![Top(t).node] = (p = "arm")]
  BY DEF Arm, Disarm
<1>2. ThreadsOK' /\ LiveSame /\ WokenSame
  <2>1. CASE p = "arm"
    <3>1. At(t, "arm") /\ Goto(t, "wait") BY <1>1, <2>1
    <3> QED BY <1>0, <3>1, PlaceStays DEF Places, Early
  <2>2. CASE p = "disarm"
    <3>1. At(t, "disarm") /\ Goto(t, "clear") BY <1>1, <2>2
    <3> QED BY <1>0, <3>1, PlaceStays DEF Places, Early
  <2> QED BY <2>1, <2>2
<1>3. waiting' \in [Nodes -> BOOLEAN] BY <1>0, <1>1 DEF NodesOK
<1>4. OneLive' /\ Marked' BY <1>0, <1>2, SameLive
<1>5. EventsSuffice' BY <1>0, <1>2, SameEvents
<1>6. ControlOK' /\ NodesOK' /\ EventsOK' BY <1>0, <1>3 DEF ControlOK, NodesOK, EventsOK
<1> QED BY <1>2, <1>4, <1>5, <1>6 DEF FlowInv, TypeInv

\* A thread that goes past a wait, or clears the event: the wake-ups change.
LEMMA WokenEffect ==
  ASSUME ThreadsOK, NEW t \in Threads, NEW p \in {"wait", "clear"}, At(t, p),
         Goto(t, IF p = "wait" THEN "disarm" ELSE "pre")
  PROVE  /\ ThreadsOK' /\ LiveSame
         /\ \A u \in Threads : \A i \in Nat : \A m \in Nodes :
              ~(u = t /\ i = Len(thread[t].stack)) =>
                (Woken(thread'[u].stack, i, m) <=> Woken(thread[u].stack, i, m))
         /\ \A m \in Nodes :
              /\ Woken(thread[t].stack, Len(thread[t].stack), m) <=> p = "clear" /\ m = Top(t).node
              /\ Woken(thread'[t].stack, Len(thread[t].stack), m) <=> p = "wait" /\ m = Top(t).node
<1> DEFINE q == IF p = "wait" THEN "disarm" ELSE "pre"
<1> DEFINE f == [Top(t) EXCEPT !.at = q]
<1> DEFINE L == Len(thread[t].stack)
<1>0. p \in Places /\ q \in Places \ {"enter", "spawn", "child"} /\ p # "enter" /\ p \in Early
  BY DEF Places, Early
<1>1. ThreadsOK' /\ LiveSame BY <1>0, PlaceStays
<1>2. Top(t) \in Frame /\ FrameOK(Top(t)) /\ Top(t).at = p /\ L \in Nat \ {0}
      /\ thread[t].stack[L] = Top(t)
  BY AtTop
<1>3. f \in Frame /\ f.at = q /\ f.node = Top(t).node /\ f.child = Top(t).child
  BY <1>0, <1>2 DEF Frame
<1>4. SetTop(t, f) BY DEF Goto
<1> HIDE DEF f
<1>5. FrameOK(f) BY <1>0, <1>2, <1>3 DEF FrameOK
<1>6. /\ Len(thread'[t].stack) = L /\ thread'[t].stack[L] = f
      /\ \A i \in 1 .. L - 1 : thread'[t].stack[i] = thread[t].stack[i]
      /\ \A u \in Threads \ {t} : thread'[u] = thread[u]
  BY <1>4, <1>5, TopEffect
<1>7. ASSUME NEW i \in Nat, NEW m \in Nodes, i # L
      PROVE  Woken(thread'[t].stack, i, m) <=> Woken(thread[t].stack, i, m)
  <2>1. CASE i \in 1 .. L
    <3>1. i \in 1 .. L - 1 BY <1>2, <1>7, <2>1
    <3> QED BY <1>6, <2>1, <3>1 DEF Woken
  <2>2. CASE i \notin 1 .. L BY <1>6, <2>2 DEF Woken
  <2> QED BY <2>1, <2>2
<1>8. ASSUME NEW m \in Nodes
      PROVE  /\ Woken(thread[t].stack, L, m) <=> p = "clear" /\ m = Top(t).node
             /\ Woken(thread'[t].stack, L, m) <=> p = "wait" /\ m = Top(t).node
  BY <1>2, <1>3, <1>6 DEF Woken
<1> QED BY <1>1, <1>6, <1>7, <1>8

\* A woken call is live, so there is at most one for a node.
LEMMA WokenIsLive ==
  ASSUME NEW s, NEW i, NEW n, Woken(s, i, n)
  PROVE  Live(s, i, n)
  BY DEF Woken, Live

LEMMA CreditBit ==
  ASSUME NEW n
  PROVE  Credit(n) \in {0, 1} /\ Credit(n)' \in {0, 1}
  BY DEF Credit

LEMMA WakePreserves ==
  ASSUME FlowInv, NEW t \in Threads, Wake(t)
  PROVE  FlowInv'
<1>0. /\ ThreadsOK /\ ControlOK /\ NodesOK /\ EventsOK /\ OneLive /\ Marked /\ EventsSuffice
      /\ At(t, "wait") /\ Goto(t, "disarm")
      /\ UNCHANGED <<running, app, todo, nodeState, callbacks>>
  BY DEF FlowInv, TypeInv, Wake
<1>a. Top(t).node \in Nodes BY <1>0, AtTop
<1>b. PICK n \in Nodes : n = Top(t).node BY <1>a
<1>c. PICK L \in Nat \ {0} : L = Len(thread[t].stack) BY <1>0, AtTop
<1>d. received[n] /\ hist' = [hist EXCEPT !.passes[n] = @ + 1] BY <1>b DEF Wake
<1>1. Top(t).at = "wait" /\ thread[t].stack[L] = Top(t)
  BY <1>0, <1>c, AtTop
<1>2. /\ ThreadsOK' /\ LiveSame
      /\ \A u \in Threads : \A i \in Nat : \A m \in Nodes :
           ~(u = t /\ i = L) => (Woken(thread'[u].stack, i, m) <=> Woken(thread[u].stack, i, m))
      /\ \A m \in Nodes :
           /\ ~Woken(thread[t].stack, L, m)
           /\ Woken(thread'[t].stack, L, m) <=> m = n
  <2>1. Goto(t, IF "wait" = "wait" THEN "disarm" ELSE "pre") BY <1>0
  <2> QED BY <1>0, <1>b, <1>c, <2>1, WokenEffect
<1>3. OneLive' /\ Marked' BY <1>0, <1>2, SameLive DEF nodeState
<1>4. Live(thread[t].stack, L, n) BY <1>1, <1>b, <1>c DEF Live
<1>5. ~IsWoken(n)
  <2> SUFFICES ASSUME NEW u \in Threads, NEW i \in Nat, Woken(thread[u].stack, i, n) PROVE FALSE
    BY DEF IsWoken
  <2>1. Live(thread[u].stack, i, n) BY WokenIsLive
  <2>2. u = t /\ i = L BY <1>0, <1>4, <2>1 DEF OneLive
  <2> QED BY <1>2, <2>2
<1>6. Credit(n) = 1 BY <1>d, <1>5 DEF Credit
<1>7. IsWoken(n)' BY <1>2 DEF IsWoken
<1>8. Credit(n)' = 0 BY <1>7 DEF Credit
<1>9. \A m \in Nodes \ {n} : Credit(m)' = Credit(m)
  <2>1. ASSUME NEW m \in Nodes \ {n} PROVE IsWoken(m)' <=> IsWoken(m)
    BY <1>2 DEF IsWoken
  <2>2. received' = received BY <1>0 DEF nodeState
  <2> QED BY <2>1, <2>2 DEF Credit
<1>10. /\ hist' \in [published : [Nodes -> Nat], passes : [Nodes -> Nat]]
       /\ hist'.published = hist.published
       /\ \A m \in Nodes : hist'.passes[m] = IF m = n THEN hist.passes[m] + 1 ELSE hist.passes[m]
  <2>1. /\ hist.published \in [Nodes -> Nat] /\ hist.passes \in [Nodes -> Nat]
        /\ hist = [published |-> hist.published, passes |-> hist.passes]
    BY <1>0 DEF EventsOK
  <2> DEFINE passes == [hist.passes EXCEPT ![n] = @ + 1]
  <2>2. passes \in [Nodes -> Nat] BY <2>1
  <2>3. \A m \in Nodes : passes[m] = IF m = n THEN hist.passes[m] + 1 ELSE hist.passes[m]
    BY <2>1
  <2>4. hist' = [hist EXCEPT !.passes = passes] BY <1>d
  <2> HIDE DEF passes
  <2>5. hist' = [published |-> hist.published, passes |-> passes] BY <2>1, <2>4
  <2> QED BY <2>1, <2>2, <2>3, <2>5
<1>11. EventsSuffice'
  <2> SUFFICES ASSUME NEW m \in Nodes
               PROVE  hist'.passes[m] + callbacks'[m].fresh + callbacks'[m].tested + Credit(m)'
                        <= hist'.published[m]
    BY DEF EventsSuffice
  <2>1. hist.passes[m] + callbacks[m].fresh + callbacks[m].tested + Credit(m) <= hist.published[m]
    BY <1>0 DEF EventsSuffice
  <2>2. callbacks' = callbacks BY <1>0
  <2>3. callbacks[m].fresh \in Nat /\ callbacks[m].tested \in Nat /\ hist.passes[m] \in Nat
        /\ hist.published[m] \in Nat
    BY <1>0 DEF EventsOK
  <2>4. CASE m = n
    <3>1. hist'.passes[m] = hist.passes[m] + 1 /\ Credit(m) = 1 /\ Credit(m)' = 0
      BY <1>6, <1>8, <1>10, <2>4
    <3> QED BY <1>10, <2>1, <2>2, <2>3, <3>1
  <2>5. CASE m # n
    <3>1. hist'.passes[m] = hist.passes[m] /\ Credit(m)' = Credit(m)
      BY <1>9, <1>10, <2>5
    <3> QED BY <1>10, <2>1, <2>2, <3>1
  <2> QED BY <2>4, <2>5
<1>12. ControlOK' /\ NodesOK' /\ EventsOK'
  BY <1>0, <1>10 DEF ControlOK, NodesOK, EventsOK, nodeState
<1> QED BY <1>2, <1>3, <1>11, <1>12 DEF FlowInv, TypeInv

LEMMA ClearPreserves ==
  ASSUME FlowInv, NEW t \in Threads, Clear(t)
  PROVE  FlowInv'
<1>0. /\ ThreadsOK /\ ControlOK /\ NodesOK /\ EventsOK /\ OneLive /\ Marked /\ EventsSuffice
      /\ At(t, "clear") /\ Goto(t, "pre")
      /\ UNCHANGED <<running, app, todo, executing, waiting, callbacks, hist>>
  BY DEF FlowInv, TypeInv, Clear
<1>a. Top(t).node \in Nodes BY <1>0, AtTop
<1>b. PICK n \in Nodes : n = Top(t).node BY <1>a
<1>c. PICK L \in Nat \ {0} : L = Len(thread[t].stack) BY <1>0, AtTop
<1>1. Top(t).at = "clear" /\ thread[t].stack[L] = Top(t)
  BY <1>0, <1>c, AtTop
<1>2. /\ ThreadsOK' /\ LiveSame
      /\ \A u \in Threads : \A i \in Nat : \A m \in Nodes :
           ~(u = t /\ i = L) => (Woken(thread'[u].stack, i, m) <=> Woken(thread[u].stack, i, m))
      /\ \A m \in Nodes :
           /\ Woken(thread[t].stack, L, m) <=> m = n
           /\ ~Woken(thread'[t].stack, L, m)
  <2>1. Goto(t, IF "clear" = "wait" THEN "disarm" ELSE "pre") BY <1>0
  <2> QED BY <1>0, <1>b, <1>c, <2>1, WokenEffect
<1>3. OneLive' /\ Marked' BY <1>0, <1>2, SameLive
<1>4. received' = [received EXCEPT ![n] = FALSE] BY <1>b DEF Clear
<1>5. received' \in [Nodes -> BOOLEAN] /\ ~received'[n]
      /\ \A m \in Nodes \ {n} : received'[m] = received[m]
  BY <1>0, <1>4 DEF NodesOK
<1>6. Credit(n)' = 0 BY <1>5 DEF Credit
<1>7. \A m \in Nodes \ {n} : Credit(m)' = Credit(m)
  <2>1. ASSUME NEW m \in Nodes \ {n} PROVE IsWoken(m)' <=> IsWoken(m)
    BY <1>2 DEF IsWoken
  <2> QED BY <1>5, <2>1 DEF Credit
<1>8. EventsSuffice'
  <2> SUFFICES ASSUME NEW m \in Nodes
               PROVE  hist'.passes[m] + callbacks'[m].fresh + callbacks'[m].tested + Credit(m)'
                        <= hist'.published[m]
    BY DEF EventsSuffice
  <2>1. hist.passes[m] + callbacks[m].fresh + callbacks[m].tested + Credit(m) <= hist.published[m]
    BY <1>0 DEF EventsSuffice
  <2>2. callbacks[m].fresh \in Nat /\ callbacks[m].tested \in Nat /\ hist.passes[m] \in Nat
        /\ hist.published[m] \in Nat
    BY <1>0 DEF EventsOK
  <2>3. callbacks' = callbacks /\ hist' = hist BY <1>0
  <2>4. Credit(m)' <= Credit(m) /\ Credit(m)' \in {0, 1} /\ Credit(m) \in {0, 1}
    <3>1. CASE m = n BY <1>6, <3>1, CreditBit
    <3>2. CASE m # n BY <1>7, <3>2, CreditBit
    <3> QED BY <3>1, <3>2
  <2> QED BY <2>1, <2>2, <2>3, <2>4
<1>9. ControlOK' /\ NodesOK' /\ EventsOK'
  BY <1>0, <1>5 DEF ControlOK, NodesOK, EventsOK
<1> QED BY <1>2, <1>3, <1>8, <1>9 DEF FlowInv, TypeInv

\* Publication is paid for before a callback thread takes it up.
LEMMA PublishPays ==
  ASSUME EventsOK, EventsSuffice, NEW e, Publish(e) \/ UNCHANGED <<callbacks, hist>>,
         WokenSame, received' = received
  PROVE  EventsOK' /\ EventsSuffice'
<1>1. CASE UNCHANGED <<callbacks, hist>>
  <2>1. EventsSuffice' BY <1>1, SameEvents
  <2> QED BY <1>1, <2>1 DEF EventsOK
<1>2. CASE Publish(e)
  <2> DEFINE subscribed == {n \in Nodes : SubEvent[n] = e}
  <2> DEFINE cb == [n \in Nodes |->
               IF n \in subscribed THEN [callbacks[n] EXCEPT !.fresh = @ + 1] ELSE callbacks[n]]
  <2> DEFINE pub == [n \in Nodes |->
               IF n \in subscribed THEN hist.published[n] + 1 ELSE hist.published[n]]
  <2>1. callbacks' = cb /\ hist' = [hist EXCEPT !.published = pub]
    BY <1>2 DEF Publish
  <2>2. /\ hist.published \in [Nodes -> Nat] /\ hist.passes \in [Nodes -> Nat]
        /\ hist = [published |-> hist.published, passes |-> hist.passes]
    BY DEF EventsOK
  <2>3. \A n \in Nodes :
          /\ callbacks[n] \in [fresh : Nat, tested : Nat]
          /\ callbacks[n].fresh \in Nat /\ callbacks[n].tested \in Nat
    BY DEF EventsOK
  <2>4. pub \in [Nodes -> Nat] BY <2>2
  <2>5. hist' = [published |-> pub, passes |-> hist.passes]
    <3> HIDE DEF pub
    <3> QED BY <2>1, <2>2
  <2>6. \A n \in Nodes :
          /\ pub[n] = hist.published[n] + (IF n \in subscribed THEN 1 ELSE 0)
          /\ cb[n] \in [fresh : Nat, tested : Nat]
          /\ cb[n].fresh = callbacks[n].fresh + (IF n \in subscribed THEN 1 ELSE 0)
          /\ cb[n].tested = callbacks[n].tested
    BY <2>2, <2>3
  <2>7. cb \in [Nodes -> [fresh : Nat, tested : Nat]] BY <2>6
  <2> HIDE DEF cb, pub, subscribed
  <2>8. EventsOK' BY <2>1, <2>2, <2>4, <2>5, <2>7 DEF EventsOK
  <2>9. \A n \in Nodes : Credit(n)' = Credit(n)
    <3>1. \A n \in Nodes : IsWoken(n)' <=> IsWoken(n) BY DEF WokenSame, IsWoken
    <3> QED BY <3>1 DEF Credit
  <2>10. EventsSuffice'
    <3> SUFFICES ASSUME NEW m \in Nodes
                 PROVE  hist'.passes[m] + callbacks'[m].fresh + callbacks'[m].tested + Credit(m)'
                          <= hist'.published[m]
      BY DEF EventsSuffice
    <3>1. hist.passes[m] + callbacks[m].fresh + callbacks[m].tested + Credit(m) <= hist.published[m]
      BY DEF EventsSuffice
    <3>2. callbacks[m].fresh \in Nat /\ callbacks[m].tested \in Nat /\ hist.passes[m] \in Nat
          /\ hist.published[m] \in Nat /\ Credit(m) \in {0, 1}
      BY <2>2, <2>3, CreditBit
    <3> DEFINE d == IF m \in subscribed THEN 1 ELSE 0
    <3>3. d \in {0, 1} OBVIOUS
    <3>4. /\ hist'.passes[m] = hist.passes[m] /\ hist'.published[m] = hist.published[m] + d
          /\ callbacks'[m].fresh = callbacks[m].fresh + d /\ callbacks'[m].tested = callbacks[m].tested
          /\ Credit(m)' = Credit(m)
      BY <2>1, <2>5, <2>6, <2>9
    <3> HIDE DEF d
    <3> QED BY <3>1, <3>2, <3>3, <3>4
  <2> QED BY <2>8, <2>10
<1> QED BY <1>1, <1>2

LEMMA PublishStepPreserves ==
  ASSUME FlowInv, NEW t \in Threads, PublishPre(t) \/ PublishResult(t)
  PROVE  FlowInv'
<1>0. /\ ThreadsOK /\ ControlOK /\ NodesOK /\ EventsOK /\ OneLive /\ Marked /\ EventsSuffice
      /\ UNCHANGED <<running, app, todo, nodeState>>
  BY DEF FlowInv, TypeInv, PublishPre, PublishResult
<1>1. PICK e : Publish(e) \/ UNCHANGED <<callbacks, hist>>
  BY DEF PublishPre, PublishResult, PublishIfSet
<1>2. ThreadsOK' /\ LiveSame /\ WokenSame
  <2>1. CASE PublishPre(t)
    <3>1. At(t, "pre") /\ Goto(t, "action") BY <2>1 DEF PublishPre
    <3> QED BY <1>0, <3>1, PlaceStays DEF Places, Early
  <2>2. CASE PublishResult(t)
    <3>1. At(t, "post") /\ Goto(t, "leave") BY <2>2 DEF PublishResult
    <3> QED BY <1>0, <3>1, PlaceStays DEF Places, Early
  <2> QED BY <2>1, <2>2
<1>3. OneLive' /\ Marked' BY <1>0, <1>2, SameLive DEF nodeState
<1>4. EventsOK' /\ EventsSuffice' BY <1>0, <1>1, <1>2, PublishPays DEF nodeState
<1>5. ControlOK' /\ NodesOK' BY <1>0 DEF ControlOK, NodesOK, nodeState
<1> QED BY <1>2, <1>3, <1>4, <1>5 DEF FlowInv, TypeInv

\* The action of a node and its children.
LEMMA ActPreserves ==
  ASSUME FlowInv, NEW t \in Threads, Act(t)
  PROVE  FlowInv'
<1>0. ThreadsOK /\ ControlOK /\ At(t, "action")
      /\ UNCHANGED <<running, app, todo, nodeState, callbacks, hist>>
  BY DEF FlowInv, TypeInv, Act
<1>1. Top(t) \in Frame /\ FrameOK(Top(t)) /\ Top(t).at = "action" /\ Top(t).node \in Nodes
  BY <1>0, AtTop
<1>2. PICK q \in {"post", "spawn", "child"}, r \in Results :
        /\ SetTop(t, [Top(t) EXCEPT !.at = q, !.result = r])
        /\ q # "post" => Children[Top(t).node] # << >>
  BY DEF Act
<1> DEFINE f == [Top(t) EXCEPT !.at = q, !.result = r]
<1>3. f \in Frame /\ f.at = q /\ f.node = Top(t).node /\ f.child = 1
  BY <1>1 DEF Frame, FrameOK, Early, Places
<1> HIDE DEF f
<1>4. q # "post" => 1 \in DOMAIN Children[Top(t).node]
  BY <1>1, <1>2, FlowAssumption
<1>5. FrameOK(f) BY <1>3, <1>4 DEF FrameOK, Early
<1>6. ThreadsOK' /\ LiveSame /\ WokenSame
  <2>1. SetTop(t, f) BY <1>2 DEF f
  <2> QED BY <1>0, <1>3, <1>5, <2>1, TopStays
<1>7. ControlOK' BY <1>0 DEF ControlOK
<1> QED BY <1>0, <1>6, <1>7, QuietStep

LEMMA CallChildPreserves ==
  ASSUME FlowInv, NEW t \in Threads, CallChild(t)
  PROVE  FlowInv'
<1> DEFINE s == thread[t].stack
<1> DEFINE child == Children[Top(t).node][Top(t).child]
<1> DEFINE s2 == Append(s, NewFrame(child))
<1> DEFINE th == [thread[t] EXCEPT !.stack = s2]
<1>0. ThreadsOK /\ ControlOK /\ At(t, "child")
      /\ UNCHANGED <<running, app, todo, nodeState, callbacks, hist>>
  BY DEF FlowInv, TypeInv, CallChild
<1>1. /\ s # << >> /\ StackOK(s) /\ Top(t) = Last(s) /\ FrameOK(Top(t)) /\ Top(t).at = "child"
      /\ Top(t).node \in Nodes
  BY <1>0, AtTop DEF Top
<1>2. child \in Nodes
  BY <1>1, FlowAssumption DEF FrameOK
<1>3. FrameOK(NewFrame(child)) /\ NewFrame(child).at = "enter"
  BY <1>2, NewFrameOK
<1>4. thread[t] \in Thread /\ thread \in [Threads -> Thread] BY <1>0 DEF ThreadsOK
<1>5. thread' = [thread EXCEPT ![t] = th] BY <1>4 DEF CallChild
<1> DEFINE f == NewFrame(child)
<1> HIDE DEF f, s
<1>6. /\ StackOK(s2) /\ Len(s) \in Nat /\ Len(s2) = Len(s) + 1 /\ s2[Len(s) + 1] = f
      /\ \A i \in 1 .. Len(s) : s2[i] = s[i]
  BY <1>1, <1>3, PushStack DEF f
<1> HIDE DEF s2
<1>7. th.stack = s2 /\ ThreadOK(th) BY <1>4, <1>6 DEF ThreadOK, Thread, StackOK
<1> HIDE DEF th
<1>8. ThreadsOK' /\ thread'[t] = th /\ \A u \in Threads \ {t} : thread'[u] = thread[u]
  BY <1>0, <1>5, <1>7, OneThread
<1>9. ASSUME NEW i \in Nat, NEW n \in Nodes
      PROVE  (Live(s2, i, n) <=> Live(s, i, n)) /\ (Woken(s2, i, n) <=> Woken(s, i, n))
  <2>1. CASE i \in 1 .. Len(s)
    <3>1. i \in 1 .. Len(s2) BY <1>6, <2>1
    <3> QED BY <1>6, <2>1, <3>1 DEF Live, Woken
  <2>2. CASE i = Len(s) + 1
    <3>1. i \notin 1 .. Len(s) /\ s2[i].at = "enter" BY <1>3, <1>6, <2>2 DEF f
    <3> QED BY <3>1 DEF Live, Woken
  <2>3. CASE i \notin 1 .. Len(s) + 1
    <3>1. i \notin 1 .. Len(s) BY <1>6, <2>3
    <3> QED BY <1>6, <2>3, <3>1 DEF Live, Woken
  <2> QED BY <2>1, <2>2, <2>3, <1>6
<1>10. LiveSame /\ WokenSame BY <1>7, <1>8, <1>9 DEF LiveSame, WokenSame, s
<1>11. ControlOK' BY <1>0 DEF ControlOK
<1> QED BY <1>0, <1>8, <1>10, <1>11, QuietStep

LEMMA NewThreadFree ==
  ASSUME Unused # {}
  PROVE  NewThread \in Threads /\ thread[NewThread] = FreeThread /\ thread[NewThread].stack = << >>
<1>1. NewThread \in Unused BY DEF NewThread
<1> QED BY <1>1 DEF Unused, FreeThread

LEMMA EmptyOK ==
  ASSUME NEW k \in {"free", "new", "flow", "child"}, NEW c \in Nodes \cup {NoNode}
  PROVE  ThreadOK([kind |-> k, current |-> c, stack |-> << >>])
<1>1. StackOK(<< >>) BY DEF StackOK
<1>2. << >> \in Seq(Frame) OBVIOUS
<1> QED BY <1>1, <1>2 DEF ThreadOK, Thread

LEMMA SpawnPreserves ==
  ASSUME FlowInv, NEW t \in Threads, Spawn(t)
  PROVE  FlowInv'
<1> DEFINE s == thread[t].stack
<1>0. /\ ThreadsOK /\ ControlOK /\ At(t, "spawn") /\ Unused # {}
      /\ UNCHANGED <<running, app, todo, nodeState, callbacks, hist>>
  BY DEF FlowInv, TypeInv, Spawn
<1>1. /\ s # << >> /\ StackOK(s) /\ s[Len(s)] = Top(t) /\ Len(s) \in Nat \ {0}
      /\ Top(t) \in Frame /\ FrameOK(Top(t)) /\ Top(t).at = "spawn" /\ Top(t).node \in Nodes
  BY <1>0, AtTop
<1>2. PICK u \in Threads : u = NewThread /\ thread[u].stack = << >> BY <1>0, NewThreadFree
<1>3. u # t BY <1>1, <1>2
<1> DEFINE C == Children[Top(t).node]
<1> DEFINE k == Top(t).child
<1>4. C \in Seq(Nodes) /\ k \in 1 .. Len(C) /\ C[k] \in Nodes /\ k \in Nat /\ Len(C) \in Nat
  BY <1>1, FlowAssumption DEF FrameOK, Frame
<1> DEFINE top == IF k < Len(C) THEN [Top(t) EXCEPT !.child = k + 1] ELSE [Top(t) EXCEPT !.at = "post"]
<1>5. /\ FrameOK(top) /\ top.node = Top(t).node
      /\ top.at \in {"spawn", "post"}
  <2>1. CASE k < Len(C)
    <3> DEFINE g == [Top(t) EXCEPT !.child = k + 1]
    <3>1. g \in Frame /\ g.at = "spawn" /\ g.node = Top(t).node /\ g.child = k + 1
      BY <1>1, <1>4 DEF Frame
    <3>2. k + 1 \in 1 .. Len(C) /\ DOMAIN C = 1 .. Len(C) BY <1>4, <2>1
    <3>3. top = g BY <2>1
    <3> HIDE DEF g, top
    <3>4. FrameOK(g) BY <3>1, <3>2 DEF FrameOK, Early
    <3> QED BY <3>1, <3>3, <3>4
  <2>2. CASE ~(k < Len(C))
    <3> DEFINE g == [Top(t) EXCEPT !.at = "post"]
    <3>1. g \in Frame /\ g.at = "post" /\ g.node = Top(t).node
      BY <1>1 DEF Frame, Places
    <3>2. top = g BY <2>2
    <3> HIDE DEF g, top
    <3>3. FrameOK(g) BY <3>1 DEF FrameOK, Early
    <3> QED BY <3>1, <3>2, <3>3
  <2> QED BY <2>1, <2>2
<1> DEFINE new == [FreeThread EXCEPT !.kind = "child", !.stack = <<NewFrame(C[k])>>]
<1> DEFINE s2 == Append(Front(s), top)
<1> DEFINE th == [thread[t] EXCEPT !.stack = s2]
<1>6. thread[t] \in Thread /\ thread \in [Threads -> Thread] BY <1>0 DEF ThreadsOK
<1>7. thread' = [thread EXCEPT ![NewThread] = new, ![t].stack = Append(Front(@), top)]
  BY <1>0 DEF Spawn
<1>8. thread' = [thread EXCEPT ![u] = new, ![t] = th]
  <2> HIDE DEF new, top
  <2> QED BY <1>2, <1>3, <1>6, <1>7
<1>9. ThreadOK(new) /\ new.stack = <<NewFrame(C[k])>>
  <2>1. StackOK(<<NewFrame(C[k])>>) BY <1>4, NewFrameOK
  <2> DEFINE q == <<NewFrame(C[k])>>
  <2> HIDE DEF q
  <2>2. FreeThread \in Thread BY EmptyOK DEF FreeThread, ThreadOK
  <2>3. StackOK(q) BY <2>1 DEF q
  <2>4. q \in Seq(Frame) BY <2>3 DEF StackOK
  <2> DEFINE made == [FreeThread EXCEPT !.kind = "child", !.stack = q]
  <2>5. made \in Thread /\ made.stack = q BY <2>2, <2>4 DEF Thread
  <2>6. new = made BY DEF q
  <2> HIDE DEF made, new
  <2> QED BY <2>3, <2>5, <2>6 DEF ThreadOK, q
<1> HIDE DEF top, s
<1>10. /\ StackOK(s2) /\ Len(s2) = Len(s) /\ s2[Len(s)] = top
       /\ \A i \in 1 .. Len(s) - 1 : s2[i] = s[i]
  BY <1>1, <1>5, TopStack
<1> HIDE DEF s2
<1>11. th.stack = s2 /\ ThreadOK(th) BY <1>6, <1>10 DEF ThreadOK, Thread, StackOK
<1> HIDE DEF th, new
<1>12. /\ thread'[u] = new /\ thread'[t] = th
       /\ \A v \in Threads \ {t, u} : thread'[v] = thread[v]
  BY <1>3, <1>6, <1>8
<1>13. ThreadsOK'
  <2>1. \A v \in Threads : ThreadOK(thread'[v]) BY <1>0, <1>9, <1>11, <1>12 DEF ThreadsOK
  <2>2. new \in Thread /\ th \in Thread BY <1>9, <1>11 DEF ThreadOK
  <2>3. thread' \in [Threads -> Thread] BY <1>6, <1>8, <2>2
  <2> QED BY <2>1, <2>3 DEF ThreadsOK
<1>14. ASSUME NEW i \in Nat, NEW n \in Nodes
       PROVE  (Live(s2, i, n) <=> Live(s, i, n)) /\ (Woken(s2, i, n) <=> Woken(s, i, n))
  <2>1. CASE i \in 1 .. Len(s) - 1
    BY <1>1, <1>10, <2>1 DEF Live, Woken
  <2>2. CASE i = Len(s)
    BY <1>1, <1>5, <1>10, <2>2 DEF Live, Woken
  <2>3. CASE i \notin 1 .. Len(s) BY <1>10, <2>3 DEF Live, Woken
  <2> QED BY <1>1, <2>1, <2>2, <2>3
<1>15. ASSUME NEW i \in Nat, NEW n \in Nodes
       PROVE  /\ ~Live(thread[u].stack, i, n) /\ ~Woken(thread[u].stack, i, n)
              /\ ~Live(thread'[u].stack, i, n) /\ ~Woken(thread'[u].stack, i, n)
  <2>1. thread'[u].stack = <<NewFrame(C[k])>> BY <1>9, <1>12
  <2> QED BY <1>2, <1>4, <2>1, EmptyStack, OneEntering
<1>16. LiveSame /\ WokenSame
  <2> SUFFICES ASSUME NEW v \in Threads, NEW i \in Nat, NEW n \in Nodes
               PROVE  /\ Live(thread'[v].stack, i, n) <=> Live(thread[v].stack, i, n)
                      /\ Woken(thread'[v].stack, i, n) <=> Woken(thread[v].stack, i, n)
    BY DEF LiveSame, WokenSame
  <2>1. CASE v = t BY <1>11, <1>12, <1>14, <2>1 DEF s
  <2>2. CASE v = u BY <1>15, <2>2
  <2>3. CASE v \notin {t, u} BY <1>12, <2>3
  <2> QED BY <2>1, <2>2, <2>3
<1>17. ControlOK' BY <1>0 DEF ControlOK
<1> QED BY <1>0, <1>13, <1>16, <1>17, QuietStep

\* The finally clause: the call that leaves is the one that marked the node.
LEMMA LeavePreserves ==
  ASSUME FlowInv, NEW t \in Threads, Leave(t)
  PROVE  FlowInv'
<1>0. /\ ThreadsOK /\ ControlOK /\ NodesOK /\ EventsOK /\ OneLive /\ Marked /\ EventsSuffice
      /\ At(t, "leave") /\ Return(t, Top(t).result)
      /\ UNCHANGED <<running, app, todo, waiting, received, callbacks, hist>>
  BY DEF FlowInv, TypeInv, Leave
<1>1. /\ Top(t).node \in Nodes /\ Top(t).result \in Results /\ Top(t).at = "leave"
      /\ Top(t) = thread[t].stack[Len(thread[t].stack)] /\ Len(thread[t].stack) \in Nat \ {0}
  BY <1>0, AtTop DEF Frame
<1>a. PICK n \in Nodes : n = Top(t).node BY <1>1
<1>b. PICK L \in Nat \ {0} : L = Len(thread[t].stack) BY <1>1
<1>2. executing' = [executing EXCEPT ![n] = FALSE] BY <1>a DEF Leave
<1>3. /\ ThreadsOK' /\ WokenSame
      /\ \A u \in Threads : \A i \in Nat : \A m \in Nodes :
           Live(thread'[u].stack, i, m) <=> Live(thread[u].stack, i, m) /\ ~(u = t /\ i = L)
  BY <1>0, <1>1, <1>b, ReturnEffect
<1>4. Live(thread[t].stack, L, n) BY <1>1, <1>a, <1>b DEF Live
<1>5. OneLive' BY <1>0, <1>3 DEF OneLive
<1>6. Marked'
  <2> SUFFICES ASSUME NEW m \in Nodes PROVE executing'[m] <=> IsLive(m)'
    BY DEF Marked
  <2>1. CASE m = n
    <3>1. ~executing'[m] BY <1>0, <1>2, <2>1 DEF NodesOK
    <3>2. ASSUME NEW u \in Threads, NEW i \in Nat, Live(thread'[u].stack, i, n) PROVE FALSE
      <4>1. Live(thread[u].stack, i, n) /\ ~(u = t /\ i = L) BY <1>3, <3>2
      <4> QED BY <1>0, <1>4, <4>1 DEF OneLive
    <3> QED BY <2>1, <3>1, <3>2 DEF IsLive
  <2>2. CASE m # n
    <3>1. executing'[m] = executing[m] BY <1>0, <1>2, <2>2 DEF NodesOK
    <3>2. ~Live(thread[t].stack, L, m) BY <1>1, <1>a, <1>b, <2>2 DEF Live
    <3>3. IsLive(m)' <=> IsLive(m) BY <1>3, <3>2 DEF IsLive
    <3> QED BY <1>0, <3>1, <3>3 DEF Marked
  <2> QED BY <2>1, <2>2
<1>7. EventsSuffice' BY <1>0, <1>3, SameEvents
<1>8. ControlOK' /\ NodesOK' /\ EventsOK'
  BY <1>0, <1>2 DEF ControlOK, NodesOK, EventsOK
<1> QED BY <1>3, <1>5, <1>6, <1>7, <1>8 DEF FlowInv, TypeInv

\* A flow begins, goes round its loop, or ends: no call past its test begins or ends.
LEMMA IdleThread ==
  ASSUME FlowInv, NEW t \in Threads, thread[t].stack = << >>, NEW th, ThreadOK(th),
         th.stack = << >> \/ \E n \in Nodes : th.stack = <<NewFrame(n)>>,
         thread' = [thread EXCEPT ![t] = th]
  PROVE  ThreadsOK' /\ LiveSame /\ WokenSame
<1>1. ThreadsOK BY DEF FlowInv, TypeInv
<1>2. ThreadsOK' /\ thread'[t] = th /\ \A u \in Threads \ {t} : thread'[u] = thread[u]
  BY <1>1, OneThread
<1>3. ASSUME NEW i \in Nat, NEW n \in Nodes
      PROVE  /\ ~Live(thread[t].stack, i, n) /\ ~Woken(thread[t].stack, i, n)
             /\ ~Live(th.stack, i, n) /\ ~Woken(th.stack, i, n)
  BY EmptyStack, OneEntering
<1> QED BY <1>2, <1>3 DEF LiveSame, WokenSame

LEMMA StartFlowPreserves ==
  ASSUME FlowInv, StartFlow
  PROVE  FlowInv'
<1>0. /\ ThreadsOK /\ ControlOK /\ Unused # {} /\ todo.flows # << >>
      /\ UNCHANGED <<running, nodeState, callbacks, hist>>
  BY DEF FlowInv, TypeInv, StartFlow
<1>1. PICK u \in Threads : u = NewThread /\ thread[u].stack = << >> BY <1>0, NewThreadFree
<1>2. todo.flows \in Seq(Nodes) /\ todo.publish \in 0 .. MaxPublish BY <1>0 DEF ControlOK
<1>3. Head(todo.flows) \in Nodes /\ Tail(todo.flows) \in Seq(Nodes) BY <1>0, <1>2
<1> DEFINE th == [kind |-> "new", current |-> Head(todo.flows), stack |-> << >>]
<1>4. ThreadOK(th) /\ th.stack = << >> BY <1>3, EmptyOK
<1>5. thread' = [thread EXCEPT ![u] = th] BY <1>1 DEF StartFlow
<1> HIDE DEF th
<1>6. ThreadsOK' /\ LiveSame /\ WokenSame BY <1>1, <1>4, <1>5, IdleThread
<1>7. ControlOK'
  <2> DEFINE rest == Tail(todo.flows)
  <2>1. todo' = [todo EXCEPT !.flows = rest] /\ app' = "up" BY DEF StartFlow
  <2>2. rest \in Seq(Nodes) BY <1>3
  <2> HIDE DEF rest
  <2> QED BY <1>0, <2>1, <2>2 DEF ControlOK
<1> QED BY <1>0, <1>6, <1>7, QuietStep

LEMMA FlowStepPreserves ==
  ASSUME FlowInv, NEW t \in Threads, BeginFlow(t) \/ FlowLoop(t)
  PROVE  FlowInv'
<1>0. ThreadsOK /\ ControlOK /\ UNCHANGED <<app, todo, nodeState, callbacks, hist>>
      /\ running' \in BOOLEAN
  BY DEF FlowInv, TypeInv, BeginFlow, FlowLoop, ControlOK
<1>1. ControlOK' BY <1>0 DEF ControlOK
<1>2. ThreadOK(thread[t]) /\ thread[t] \in Thread BY <1>0 DEF ThreadsOK
<1>3. CASE BeginFlow(t)
  <2> DEFINE th == [thread[t] EXCEPT !.kind = "flow"]
  <2>1. thread' = [thread EXCEPT ![t] = th] BY <1>0, <1>3 DEF BeginFlow, ThreadsOK
  <2>2. ThreadOK(th) /\ th.stack = thread[t].stack BY <1>2 DEF ThreadOK, Thread
  <2> HIDE DEF th
  <2>3. ThreadsOK' /\ thread'[t] = th /\ \A u \in Threads \ {t} : thread'[u] = thread[u]
    BY <1>0, <2>1, <2>2, OneThread
  <2>4. LiveSame /\ WokenSame BY <2>2, <2>3 DEF LiveSame, WokenSame
  <2> QED BY <1>0, <1>1, <2>3, <2>4, QuietStep
<1>4. CASE FlowLoop(t)
  <2> DEFINE n == thread[t].current
  <2> DEFINE th == IF n # NoNode /\ running THEN [thread[t] EXCEPT !.stack = <<NewFrame(n)>>] ELSE FreeThread
  <2>1. thread[t].stack = << >> /\ thread' = [thread EXCEPT ![t] = th]
    BY <1>0, <1>4 DEF FlowLoop, ThreadsOK
  <2>2. CASE n # NoNode /\ running
    <3> DEFINE q == <<NewFrame(n)>>
    <3>1. n \in Nodes BY <1>2, <2>2 DEF Thread
    <3>2. StackOK(q) BY <3>1, NewFrameOK
    <3>3. th = [thread[t] EXCEPT !.stack = q] BY <2>2
    <3> HIDE DEF q, th
    <3>4. ThreadOK(th) /\ th.stack = q BY <1>2, <3>2, <3>3 DEF ThreadOK, Thread, StackOK
    <3>5. \E m \in Nodes : th.stack = <<NewFrame(m)>> BY <3>1, <3>4 DEF q
    <3>6. ThreadsOK' /\ LiveSame /\ WokenSame BY <2>1, <3>4, <3>5, IdleThread
    <3> QED BY <1>0, <1>1, <3>6, QuietStep
  <2>3. CASE ~(n # NoNode /\ running)
    <3>1. th = FreeThread BY <2>3
    <3> HIDE DEF th
    <3>2. ThreadOK(th) /\ th.stack = << >> BY <3>1, EmptyOK DEF FreeThread
    <3>3. ThreadsOK' /\ LiveSame /\ WokenSame BY <2>1, <3>2, IdleThread
    <3> QED BY <1>0, <1>1, <3>3, QuietStep
  <2> QED BY <2>2, <2>3
<1> QED BY <1>3, <1>4

\* The application, apart from the flows it starts.
LEMMA AppPreserves ==
  ASSUME FlowInv, PublishEvent \/ StopCalled \/ StopReturns \/ UNCHANGED vars
  PROVE  FlowInv'
<1>0. /\ ThreadsOK /\ ControlOK /\ NodesOK /\ EventsOK /\ OneLive /\ Marked /\ EventsSuffice
      /\ UNCHANGED <<thread, nodeState>>
  BY DEF FlowInv, TypeInv, PublishEvent, StopCalled, StopReturns, vars, nodeState
<1>1. ThreadsOK' /\ LiveSame /\ WokenSame BY <1>0 DEF ThreadsOK, LiveSame, WokenSame
<1>2. CASE PublishEvent
  <2>1. PICK e \in Events : Publish(e) BY <1>2 DEF PublishEvent
  <2>2. todo.publish > 0 /\ todo' = [todo EXCEPT !.publish = @ - 1] /\ UNCHANGED <<running, app>>
    BY <1>2 DEF PublishEvent
  <2>3. todo.publish - 1 \in 0 .. MaxPublish
    BY <1>0, <2>2, FlowAssumption DEF ControlOK
  <2>4. ControlOK' BY <1>0, <2>2, <2>3 DEF ControlOK
  <2>5. EventsOK' /\ EventsSuffice' BY <1>0, <1>1, <2>1, PublishPays DEF nodeState
  <2>6. OneLive' /\ Marked' BY <1>0, <1>1, SameLive DEF nodeState
  <2>7. NodesOK' BY <1>0 DEF NodesOK, nodeState
  <2> QED BY <1>1, <2>4, <2>5, <2>6, <2>7 DEF FlowInv, TypeInv
<1>3. CASE StopCalled \/ StopReturns \/ UNCHANGED vars
  <2>1. ControlOK' BY <1>0, <1>3 DEF StopCalled, StopReturns, vars, ControlOK
  <2>2. UNCHANGED <<callbacks, hist>> BY <1>3 DEF StopCalled, StopReturns, vars
  <2> QED BY <1>0, <1>1, <2>1, <2>2, QuietStep
<1> QED BY <1>2, <1>3

\* A callback thread tests whether the node waits, and sets its event after that.
LEMMA CallbackPreserves ==
  ASSUME FlowInv, NEW n \in Nodes, CallbackStep(n)
  PROVE  FlowInv'
<1>0. /\ ThreadsOK /\ ControlOK /\ NodesOK /\ EventsOK /\ OneLive /\ Marked /\ EventsSuffice
      /\ UNCHANGED <<running, app, todo, thread, executing, waiting, hist>>
  BY DEF FlowInv, TypeInv, CallbackStep, CallbackTests, CallbackSets, nodeState
<1>1. ThreadsOK' /\ LiveSame /\ WokenSame BY <1>0 DEF ThreadsOK, LiveSame, WokenSame
<1>2. OneLive' /\ Marked' BY <1>0, <1>1, SameLive
<1>3. \A m \in Nodes :
        /\ callbacks[m] \in [fresh : Nat, tested : Nat]
        /\ callbacks[m].fresh \in Nat /\ callbacks[m].tested \in Nat
        /\ hist.passes[m] \in Nat /\ hist.published[m] \in Nat
  BY <1>0 DEF EventsOK
<1>4. PICK c \in [fresh : Nat, tested : Nat] :
        /\ callbacks' = [callbacks EXCEPT ![n] = c]
        /\ \/ received' = received /\ c.fresh + c.tested <= callbacks[n].fresh + callbacks[n].tested
           \/ /\ received' = [received EXCEPT ![n] = TRUE]
              /\ c.fresh + c.tested + 1 = callbacks[n].fresh + callbacks[n].tested
  <2> DEFINE x == callbacks[n].fresh
  <2> DEFINE y == callbacks[n].tested
  <2>0. callbacks[n] = [fresh |-> x, tested |-> y] /\ x \in Nat /\ y \in Nat BY <1>3
  <2>1. CASE CallbackTests(n)
    <3> DEFINE z == IF waiting[n] THEN y + 1 ELSE y
    <3> DEFINE c == [fresh |-> x - 1, tested |-> z]
    <3>1. callbacks' = [callbacks EXCEPT ![n] = c] /\ received' = received /\ x > 0
      BY <1>0, <2>1 DEF CallbackTests, nodeState, EventsOK
    <3>2. z \in Nat /\ x - 1 \in Nat /\ x - 1 + z <= x + y
      <4> HIDE DEF x, y
      <4> QED BY <2>0, <3>1
    <3>3. c \in [fresh : Nat, tested : Nat] /\ c.fresh = x - 1 /\ c.tested = z BY <3>2
    <3> HIDE DEF c
    <3> QED BY <3>1, <3>2, <3>3
  <2>2. CASE CallbackSets(n)
    <3> DEFINE c == [fresh |-> x, tested |-> y - 1]
    <3>1. y > 0 /\ received' = [received EXCEPT ![n] = TRUE]
          /\ callbacks' = [callbacks EXCEPT ![n].tested = @ - 1]
      BY <2>2 DEF CallbackSets
    <3>2. [callbacks[n] EXCEPT !.tested = @ - 1] = c
      BY <2>0
    <3>3. callbacks' = [callbacks EXCEPT ![n] = c]
      <4>1. callbacks' = [callbacks EXCEPT ![n] = [callbacks[n] EXCEPT !.tested = @ - 1]]
        BY <1>0, <3>1 DEF EventsOK
      <4> QED BY <3>2, <4>1
    <3>4. y - 1 \in Nat /\ x + (y - 1) + 1 = x + y
      <4> HIDE DEF x, y
      <4> QED BY <2>0, <3>1
    <3>5. c \in [fresh : Nat, tested : Nat] /\ c.fresh = x /\ c.tested = y - 1 BY <2>0, <3>4
    <3> HIDE DEF c
    <3> QED BY <3>1, <3>3, <3>4, <3>5
  <2> QED BY <2>1, <2>2 DEF CallbackStep
<1>5. NodesOK' /\ EventsOK' BY <1>0, <1>4 DEF NodesOK, EventsOK
<1>6. \A m \in Nodes : IsWoken(m)' <=> IsWoken(m) BY <1>1 DEF WokenSame, IsWoken
<1>7. EventsSuffice'
  <2> SUFFICES ASSUME NEW m \in Nodes
               PROVE  hist'.passes[m] + callbacks'[m].fresh + callbacks'[m].tested + Credit(m)'
                        <= hist'.published[m]
    BY DEF EventsSuffice
  <2>1. hist.passes[m] + callbacks[m].fresh + callbacks[m].tested + Credit(m) <= hist.published[m]
    BY <1>0 DEF EventsSuffice
  <2>2. hist' = hist BY <1>0
  <2>3. CASE m # n
    <3>1. callbacks'[m] = callbacks[m] /\ received'[m] = received[m]
      BY <1>0, <1>4, <2>3 DEF EventsOK, NodesOK
    <3>2. Credit(m)' = Credit(m) BY <1>6, <3>1 DEF Credit
    <3> QED BY <2>1, <2>2, <3>1, <3>2
  <2>4. CASE m = n
    <3>1. callbacks'[n] = c BY <1>0, <1>4 DEF EventsOK
    <3>2. c.fresh \in Nat /\ c.tested \in Nat BY <1>4
    <3>3. c.fresh + c.tested + Credit(n)' <= callbacks[n].fresh + callbacks[n].tested + Credit(n)
      <4>1. CASE received' = received /\ c.fresh + c.tested <= callbacks[n].fresh + callbacks[n].tested
        <5>1. Credit(n)' = Credit(n) BY <1>6, <4>1 DEF Credit
        <5> QED BY <1>3, <3>2, <4>1, <5>1, CreditBit
      <4>2. CASE c.fresh + c.tested + 1 = callbacks[n].fresh + callbacks[n].tested
        <5>1. Credit(n) \in {0, 1} /\ Credit(n)' \in {0, 1} BY CreditBit
        <5> QED BY <1>3, <3>2, <4>2, <5>1
      <4> QED BY <1>4, <4>1, <4>2
    <3>4. Credit(n) \in {0, 1} /\ Credit(n)' \in {0, 1} BY CreditBit
    <3> QED BY <1>3, <2>1, <2>2, <2>4, <3>1, <3>2, <3>3, <3>4
  <2> QED BY <2>3, <2>4
<1>8. ControlOK' BY <1>0 DEF ControlOK
<1> QED BY <1>1, <1>2, <1>5, <1>7, <1>8 DEF FlowInv, TypeInv

-----------------------------------------------------------------------------
LEMMA InitHolds == Init => FlowInv
<1> SUFFICES ASSUME Init PROVE FlowInv
  OBVIOUS
<1>1. \A t \in Threads : thread[t].stack = << >> BY DEF Init, FreeThread
<1>2. \A t \in Threads : \A i \in Nat : \A n \in Nodes :
        ~Live(thread[t].stack, i, n) /\ ~Woken(thread[t].stack, i, n)
  BY <1>1, EmptyStack
<1>3. ThreadOK(FreeThread) BY EmptyOK DEF FreeThread
<1>4. ThreadsOK BY <1>3 DEF Init, ThreadsOK, ThreadOK
<1>5. ControlOK
  <2>1. Flows \in Seq(Nodes) /\ MaxPublish \in 0 .. MaxPublish BY FlowAssumption
  <2>2. todo = [flows |-> Flows, publish |-> MaxPublish] BY DEF Init
  <2>3. todo \in [flows : Seq(Nodes), publish : 0 .. MaxPublish] BY <2>1, <2>2, Zenon
  <2> QED BY <2>3 DEF Init, ControlOK
<1>6. NodesOK /\ EventsOK BY DEF Init, NodesOK, EventsOK
<1>7. OneLive BY <1>2 DEF OneLive
<1>8. Marked BY <1>2 DEF Marked, IsLive, Init
<1>9. EventsSuffice
  <2>1. \A n \in Nodes : Credit(n) = 0 BY DEF Init, Credit
  <2> QED BY <2>1 DEF EventsSuffice, Init
<1> QED BY <1>4, <1>5, <1>6, <1>7, <1>8, <1>9 DEF FlowInv, TypeInv

LEMMA StepPreserves == FlowInv /\ [Next]_vars => FlowInv'
<1> SUFFICES ASSUME FlowInv, [Next]_vars PROVE FlowInv'
  OBVIOUS
<1>1. CASE StartFlow BY <1>1, StartFlowPreserves
<1>2. CASE PublishEvent \/ StopCalled \/ StopReturns \/ UNCHANGED vars BY <1>2, AppPreserves
<1>3. ASSUME NEW t \in Threads, ThreadStep(t) PROVE FlowInv'
  <2>1. CASE BeginFlow(t) \/ FlowLoop(t) BY <2>1, FlowStepPreserves
  <2>2. CASE Enter(t) BY <2>2, EnterPreserves
  <2>3. CASE Arm(t) \/ Disarm(t) BY <2>3, WaitPreserves
  <2>4. CASE Wake(t) BY <2>4, WakePreserves
  <2>5. CASE Clear(t) BY <2>5, ClearPreserves
  <2>6. CASE PublishPre(t) \/ PublishResult(t) BY <2>6, PublishStepPreserves
  <2>7. CASE Act(t) BY <2>7, ActPreserves
  <2>8. CASE Spawn(t) BY <2>8, SpawnPreserves
  <2>9. CASE CallChild(t) BY <2>9, CallChildPreserves
  <2>10. CASE Leave(t) BY <2>10, LeavePreserves
  <2> QED
    BY <1>3, <2>1, <2>2, <2>3, <2>4, <2>5, <2>6, <2>7, <2>8, <2>9, <2>10 DEF ThreadStep
<1>4. ASSUME NEW n \in Nodes, CallbackStep(n) PROVE FlowInv'
  BY <1>4, CallbackPreserves
<1> QED BY <1>1, <1>2, <1>3, <1>4 DEF Next

LEMMA Invariance == Spec => []FlowInv
<1> QED BY InitHolds, StepPreserves, PTL DEF Spec

\* The engine, its threads, its nodes and its events keep to their types, and no
\* loop over children counts past the last one (execute, _execute_children).
THEOREM TypeCorrect == Spec => []TypeOK
<1>1. FlowInv => TypeOK BY TypesFollow DEF FlowInv
<1> QED BY Invariance, <1>1, PTL

\* A node is executed by one call at a time and marked for exactly as long, for
\* every graph, cycles and shared children included (Node.execute, its finally).
THEOREM OneExecution == Spec => []OneExecutionPerNode
<1>1. FlowInv => OneExecutionPerNode
  <2> SUFFICES ASSUME FlowInv PROVE OneExecutionPerNode
    OBVIOUS
  <2>1. ThreadsOK /\ OneLive /\ Marked BY DEF FlowInv, TypeInv
  <2>2. ASSUME NEW t \in Threads, NEW i, NEW n \in Nodes
        PROVE  i \in Inside(t) /\ thread[t].stack[i].node = n <=>
                 i \in Nat /\ Live(thread[t].stack, i, n)
    <3>1. thread[t].stack \in Seq(Frame) BY <2>1 DEF ThreadsOK, ThreadOK, StackOK
    <3>2. DOMAIN thread[t].stack = 1 .. Len(thread[t].stack) /\ Len(thread[t].stack) \in Nat
      BY <3>1
    <3> QED BY <3>2 DEF Inside, Live
  <2>3. ASSUME NEW t \in Threads, NEW i \in Inside(t)
        PROVE  thread[t].stack[i].node \in Nodes
    <3>1. thread[t].stack \in Seq(Frame) BY <2>1 DEF ThreadsOK, ThreadOK, StackOK
    <3>2. i \in DOMAIN thread[t].stack BY DEF Inside
    <3>3. thread[t].stack[i] \in Frame BY <3>1, <3>2
    <3> QED BY <3>3 DEF Frame
  <2>4. ASSUME NEW t \in Threads, NEW u \in Threads, NEW i \in Inside(t), NEW j \in Inside(u),
               thread[t].stack[i].node = thread[u].stack[j].node
        PROVE  t = u /\ i = j
    <3> DEFINE n == thread[t].stack[i].node
    <3>1. n \in Nodes BY <2>3
    <3>2. i \in Nat /\ j \in Nat /\ Live(thread[t].stack, i, n) /\ Live(thread[u].stack, j, n)
      BY <2>2, <2>4, <3>1
    <3> QED BY <2>1, <3>1, <3>2 DEF OneLive
  <2>5. ASSUME NEW n \in Nodes
        PROVE  executing[n] <=> \E t \in Threads : \E i \in Inside(t) : thread[t].stack[i].node = n
    BY <2>1, <2>2 DEF Marked, IsLive
  <2> QED BY <2>4, <2>5 DEF OneExecutionPerNode
<1> QED BY Invariance, <1>1, PTL

\* A node passes its wait at most once for each publication of its event, late
\* callback threads or not (_on_event_received, execute).
THEOREM PassesBacked == Spec => []PassesBackedByEvents
<1>1. FlowInv => PassesBackedByEvents
  <2> SUFFICES ASSUME FlowInv, NEW n \in Nodes PROVE hist.passes[n] <= hist.published[n]
    BY DEF PassesBackedByEvents
  <2>1. hist.passes[n] + callbacks[n].fresh + callbacks[n].tested + Credit(n) <= hist.published[n]
    BY DEF FlowInv, EventsSuffice
  <2>2. callbacks[n].fresh \in Nat /\ callbacks[n].tested \in Nat /\ hist.passes[n] \in Nat
        /\ hist.published[n] \in Nat
    BY DEF FlowInv, TypeInv, EventsOK
  <2>3. Credit(n) \in {0, 1} BY CreditBit
  <2> QED BY <2>1, <2>2, <2>3
<1> QED BY Invariance, <1>1, PTL
=============================================================================
