------------------------- MODULE LighthouseTxProofs -------------------------
(***************************************************************************)
(* Proofs about LighthouseTx, for every queue limit, fragment size, id     *)
(* range and mix of messages, with and without the callback: types, what   *)
(* pre-emption may lose, the counters in spite of it, the completions, and *)
(* that a polled port implements the abstract queue.                       *)
(***************************************************************************)
EXTENDS LighthouseTx, FiniteSetTheorems, TLAPS

Cnt == [Counters \cup {"direct"} -> Nat]
Local == [snap : Stats, grew : BOOLEAN, failed : BOOLEAN, done : BOOLEAN,
          frame : Frame \cup {NoFrame}, reg : Nat]
Build == [op : {"none", "wait", "frag"}, id : 0 .. IdMod - 1, total : Nat, index : Nat]
Hist == [accepted : Seq(Frame), air : Seq(Frame), discarded : Seq(Frame)]

\* Labels at which main queues and counts fragments, and at which a context works
\* on the frame it has fetched from the head of the queue.
Enqueueing == {"enq", "enqdrop", "enqapp"}
Queueing == Enqueueing \cup Increment["queued"]
Holding == {"send", "drop", "pop", "sent", "sent+", "mark"}

\* The label at which a counter is stored.
StoreLabel == [queued |-> "queued+", sent |-> "sent+", ok |-> "ok+", failed |-> "failed+",
               timeout |-> "timeout+"]

\* What the program counters say about the locals: a fragment under construction
\* is one of its message, the overflow test still holds at the append, what the
\* pump works on is a fragment, and the callback queues none.
LocalsOK ==
  /\ pc["main"] \in Queueing => build.total \in 2 .. MaxTotal
  /\ pc["main"] \in Enqueueing => build.index < build.total
  /\ pc["main"] = "enqapp" => Len(txQueue) < QueueMax
  /\ \A c \in Ctx : pc[c] \in Holding => loc[c].frame \in Frame
  /\ pc["irq"] \notin Queueing

TypeInv == TypeOK /\ LocalsOK

-----------------------------------------------------------------------------
(* What each piece of the code does.                                       *)

LEMMA Constants ==
  /\ QueueMax \in Nat \ {0} /\ MaxTotal \in Nat \ {0} /\ IdMod \in Nat \ {0}
  /\ FragPayload \in Nat \ {0} /\ \A n \in Lengths : n \in Nat /\ n > FragPayload
  /\ 0 \in 0 .. IdMod - 1
  BY TxAssumption

\* TypeOK by named parts.
LEMMA TypeParts ==
  TypeOK <=>
    /\ txQueue \in Seq(Frame) /\ Len(txQueue) <= QueueMax
    /\ inflight \in Frame \cup {NoFrame} /\ late \in BOOLEAN
    /\ stat \in Stats /\ drv \in Stats /\ msgId \in 0 .. IdMod - 1
    /\ cnt \in Cnt /\ runAlive \in BOOLEAN /\ pc \in [Ctx -> Labels]
    /\ loc \in [Ctx -> Local] /\ build \in Build
    /\ outstanding \in Seq(Frame \cup {Direct}) /\ hist \in Hist
    /\ torn \subseteq {"sent", "stats"}
  BY DEF TypeOK, Cnt, Local, Build, Hist

LEMMA LocalTypes ==
  /\ "main" \in Ctx /\ "irq" \in Ctx /\ Ctx = {"main", "irq"} /\ NoLocals \in Local
  /\ NoLocals.reg = 0 /\ NoLocals.frame = NoFrame /\ ~NoLocals.failed
  BY DEF Ctx, NoLocals, Local, Stats

\* Context c moves from label l to label m; the other one stays as it is.
Moves(c, l, m) ==
  /\ pc[c] = l /\ pc'[c] = m /\ (c = "main" => pc["irq"] = "idle")
  /\ pc' \in [Ctx -> Labels] /\ loc' \in [Ctx -> Local]
  /\ \A d \in Ctx \ {c} : pc'[d] = pc[d] /\ loc'[d] = loc[d]

\* Nothing but control and locals changes.
Quiet == UNCHANGED <<core, driver, hist, build>>

LEMMA MoveKept ==
  ASSUME TypeInv, NEW c \in Ctx, NEW l, NEW m \in Labels,
         At(c, l), Goto(c, m), loc' = loc
  PROVE  Moves(c, l, m) /\ loc'[c] = loc[c]
<1>1. pc \in [Ctx -> Labels] /\ loc \in [Ctx -> Local] BY TypeParts DEF TypeInv
<1> QED BY <1>1 DEF At, Goto, Moves

LEMMA MoveContinue ==
  ASSUME TypeInv, NEW c \in Ctx, NEW l, NEW m \in Labels,
         At(c, l), Continue(c, m)
  PROVE  Moves(c, l, m) /\ loc'[c] = loc[c]
  BY MoveKept DEF Continue

LEMMA MoveSet ==
  ASSUME TypeInv, NEW c \in Ctx, NEW l, NEW m \in Labels, NEW v \in Local,
         At(c, l), Goto(c, m), loc' = [loc EXCEPT ![c] = v]
  PROVE  Moves(c, l, m) /\ loc'[c] = v
<1>1. pc \in [Ctx -> Labels] /\ loc \in [Ctx -> Local] BY TypeParts DEF TypeInv
<1> QED BY <1>1 DEF At, Goto, Moves

LEMMA MoveProceed ==
  ASSUME TypeInv, NEW c \in Ctx, NEW l, NEW m \in Labels, At(c, l), Proceed(c, m)
  PROVE  Moves(c, l, m) /\ loc'[c] = NoLocals
  BY MoveSet, LocalTypes DEF Proceed

LEMMA MoveOut ==
  ASSUME TypeInv, NEW c \in Ctx, NEW l, At(c, l), Raise(c) \/ Return(c)
  PROVE  Moves(c, l, "idle") /\ loc'[c] = NoLocals
<1>1. "idle" \in Labels BY DEF Labels
<1> QED BY <1>1, MoveSet, LocalTypes DEF Raise, Return, Leave

\* The locals of a context, one of them replaced.
LEMMA LocalReplaced ==
  ASSUME NEW v \in Local
  PROVE  /\ \A s \in Stats : LET w == [v EXCEPT !.snap = s] IN
              w \in Local /\ w.snap = s /\ w.grew = v.grew /\ w.failed = v.failed
                /\ w.frame = v.frame /\ w.reg = v.reg
         /\ \A b \in BOOLEAN : LET w == [v EXCEPT !.grew = b] IN
              w \in Local /\ w.grew = b /\ w.snap = v.snap /\ w.failed = v.failed
                /\ w.frame = v.frame /\ w.reg = v.reg
         /\ \A b \in BOOLEAN : LET w == [v EXCEPT !.failed = b] IN
              w \in Local /\ w.failed = b /\ w.snap = v.snap /\ w.grew = v.grew
                /\ w.frame = v.frame /\ w.reg = v.reg
         /\ \A b \in BOOLEAN : LET w == [v EXCEPT !.done = b] IN
              w \in Local /\ w.failed = v.failed /\ w.snap = v.snap /\ w.grew = v.grew
                /\ w.frame = v.frame /\ w.reg = v.reg
         /\ \A f \in Frame : LET w == [v EXCEPT !.frame = f] IN
              w \in Local /\ w.frame = f /\ w.reg = v.reg
         /\ \A n \in Nat : LET w == [v EXCEPT !.reg = n] IN
              w \in Local /\ w.reg = n /\ w.frame = v.frame /\ w.failed = v.failed
  BY DEF Local

LEMMA LabelsOK ==
  /\ \A l \in {"idle", "stats", "delta", "deltafail", "settle", "settlefail", "test", "take",
               "clear", "check", "elapsed", "expire", "lapse", "nonempty", "peek"} :
       l \in Labels /\ l \notin Queueing /\ l \notin Holding
  /\ \A l \in Queueing : l \in Labels /\ l \notin Holding
  /\ \A l \in Holding : l \in Labels /\ l \notin Queueing
  /\ \A k \in Counters : k \in Labels /\ StoreLabel[k] \in Labels
  BY DEF Labels, Enqueueing, Queueing, Increment, Holding, Counters, StoreLabel

\* Reading and comparing the statistics.
LEMMA ReadStatsDoes ==
  ASSUME TypeInv, NEW c \in Ctx, ReadStats(c)
  PROVE  Quiet /\ Moves(c, "stats", "delta") /\ loc'[c] = [loc[c] EXCEPT !.snap = drv]
<1>1. loc \in [Ctx -> Local] /\ drv \in Stats BY TypeParts DEF TypeInv
<1>2. [loc[c] EXCEPT !.snap = drv] \in Local BY <1>1, LocalReplaced
<1>3. loc' = [loc EXCEPT ![c] = [loc[c] EXCEPT !.snap = drv]] BY <1>1 DEF ReadStats
<1>4. At(c, "stats") /\ Goto(c, "delta") /\ Quiet BY DEF ReadStats, Quiet
<1> QED BY <1>2, <1>3, <1>4, MoveSet, LabelsOK

LEMMA CompareResponsesDoes ==
  ASSUME TypeInv, NEW c \in Ctx, CompareResponses(c)
  PROVE  /\ Quiet /\ Moves(c, "delta", "deltafail")
         /\ loc'[c] = [loc[c] EXCEPT !.grew = loc[c].snap.resp > stat.resp]
<1> DEFINE b == loc[c].snap.resp > stat.resp
<1>1. loc \in [Ctx -> Local] /\ b \in BOOLEAN BY TypeParts DEF TypeInv
<1>2. [loc[c] EXCEPT !.grew = b] \in Local BY <1>1, LocalReplaced
<1>3. loc' = [loc EXCEPT ![c] = [loc[c] EXCEPT !.grew = b]] BY <1>1 DEF CompareResponses
<1>4. At(c, "delta") /\ Goto(c, "deltafail") /\ Quiet BY DEF CompareResponses, Quiet
<1> QED BY <1>2, <1>3, <1>4, MoveSet, LabelsOK

LEMMA CompareFailuresDoes ==
  ASSUME TypeInv, NEW c \in Ctx, CompareFailures(c)
  PROVE  LET failed == loc[c].snap.fail > stat.fail
         IN  /\ Quiet
             /\ \/ /\ loc[c].grew \/ failed
                   /\ Moves(c, "deltafail", "settle")
                   /\ loc'[c] = [loc[c] EXCEPT !.failed = failed]
                \/ /\ ~(loc[c].grew \/ failed)
                   /\ Moves(c, "deltafail", "check") /\ loc'[c] = NoLocals
<1> DEFINE failed == loc[c].snap.fail > stat.fail
<1>1. loc \in [Ctx -> Local] /\ failed \in BOOLEAN BY TypeParts DEF TypeInv
<1>2. [loc[c] EXCEPT !.failed = failed] \in Local BY <1>1, LocalReplaced
<1>3. At(c, "deltafail") /\ Quiet BY DEF CompareFailures, Quiet
<1>4. CASE loc[c].grew \/ failed
  <2>1. loc' = [loc EXCEPT ![c] = [loc[c] EXCEPT !.failed = failed]] /\ Goto(c, "settle")
    BY <1>1, <1>4 DEF CompareFailures
  <2> QED BY <1>2, <1>3, <1>4, <2>1, MoveSet, LabelsOK
<1>5. CASE ~(loc[c].grew \/ failed)
  <2>1. Proceed(c, "check") BY <1>5 DEF CompareFailures
  <2> QED BY <1>3, <1>5, <2>1, MoveProceed, LabelsOK
<1> QED BY <1>4, <1>5

LEMMA RememberResponsesDoes ==
  ASSUME TypeInv, NEW c \in Ctx, RememberResponses(c)
  PROVE  /\ Moves(c, "settle", "settlefail") /\ loc'[c] = loc[c]
         /\ stat' = [stat EXCEPT !.resp = loc[c].snap.resp]
         /\ UNCHANGED <<txQueue, inflight, late, msgId, cnt, build, driver, hist>>
  BY MoveContinue, LabelsOK DEF RememberResponses

LEMMA RememberFailuresDoes ==
  ASSUME TypeInv, NEW c \in Ctx, RememberFailures(c)
  PROVE  /\ Moves(c, "settlefail", "test")
         /\ loc'[c] = [NoLocals EXCEPT !.failed = loc[c].failed]
         /\ stat' = [stat EXCEPT !.fail = loc[c].snap.fail]
         /\ UNCHANGED <<txQueue, inflight, late, msgId, cnt, build, driver, hist>>
<1>1. loc[c].failed \in BOOLEAN BY TypeParts DEF TypeInv, Local
<1>2. [NoLocals EXCEPT !.failed = loc[c].failed] \in Local BY <1>1, LocalReplaced, LocalTypes
<1> QED BY <1>2, MoveSet, LabelsOK DEF RememberFailures

\* Crediting the frame in flight.
LEMMA TestCreditedDoes ==
  ASSUME TypeInv, NEW c \in Ctx, TestCredited(c)
  PROVE  /\ Quiet
         /\ \/ inflight = NoFrame /\ Moves(c, "test", "check") /\ loc'[c] = NoLocals
            \/ inflight # NoFrame /\ Moves(c, "test", "take") /\ loc'[c] = loc[c]
<1>1. At(c, "test") /\ Quiet BY DEF TestCredited, Quiet
<1>2. CASE inflight = NoFrame
  BY <1>1, <1>2, MoveProceed, LabelsOK DEF TestCredited
<1>3. CASE inflight # NoFrame
  BY <1>1, <1>3, MoveContinue, LabelsOK DEF TestCredited
<1> QED BY <1>2, <1>3

LEMMA TakeDoes ==
  ASSUME TypeInv, NEW c \in Ctx, Take(c)
  PROVE  /\ Quiet /\ (Moves(c, "take", "clear") \/ Moves(c, "expire", "lapse"))
         /\ loc'[c] = [loc[c] EXCEPT !.done = inflight # NoFrame]
<1> DEFINE b == inflight # NoFrame
<1>1. loc \in [Ctx -> Local] /\ b \in BOOLEAN BY TypeParts DEF TypeInv
<1>2. [loc[c] EXCEPT !.done = b] \in Local BY <1>1, LocalReplaced
<1>3. loc' = [loc EXCEPT ![c] = [loc[c] EXCEPT !.done = b]] /\ Quiet BY <1>1 DEF Take, Quiet
<1>4. (At(c, "take") /\ Goto(c, "clear")) \/ (At(c, "expire") /\ Goto(c, "lapse")) BY DEF Take
<1> QED BY <1>2, <1>3, <1>4, MoveSet, LabelsOK

LEMMA ClearDoes ==
  ASSUME TypeInv, NEW c \in Ctx, Clear(c)
  PROVE  /\ inflight' = NoFrame /\ late' = FALSE
         /\ UNCHANGED <<txQueue, stat, msgId, cnt, build, driver, hist>>
         /\ \/ Moves(c, "clear", "failed") /\ loc[c].failed /\ loc'[c] = loc[c]
            \/ Moves(c, "clear", "ok") /\ ~loc[c].failed /\ loc'[c] = NoLocals
            \/ Moves(c, "lapse", "timeout") /\ loc'[c] = loc[c]
<1>1. "failed" \in Labels /\ "ok" \in Labels /\ "timeout" \in Labels BY DEF Labels
<1>2. CASE At(c, "clear") /\ loc[c].failed /\ Continue(c, "failed")
  BY <1>1, <1>2, MoveContinue DEF Clear
<1>3. CASE At(c, "clear") /\ ~loc[c].failed /\ Proceed(c, "ok")
  BY <1>1, <1>3, MoveProceed DEF Clear
<1>4. CASE At(c, "lapse") /\ Continue(c, "timeout")
  BY <1>1, <1>4, MoveContinue DEF Clear
<1> QED BY <1>2, <1>3, <1>4 DEF Clear

\* Counting, in two pieces.
LEMMA CountLoadDoes ==
  ASSUME TypeInv, NEW c \in Ctx, CountLoad(c)
  PROVE  /\ Quiet
         /\ \E k \in Counters : /\ Moves(c, k, StoreLabel[k])
                                /\ loc'[c] = [loc[c] EXCEPT !.reg = cnt[k]]
<1>1. PICK k \in Counters : Load(c, k, StoreLabel[k])
  BY DEF CountLoad, Counters, StoreLabel
<1>2. loc \in [Ctx -> Local] /\ cnt[k] \in Nat BY TypeParts DEF TypeInv, Cnt
<1>3. [loc[c] EXCEPT !.reg = cnt[k]] \in Local BY <1>2, LocalReplaced
<1>4. loc' = [loc EXCEPT ![c] = [loc[c] EXCEPT !.reg = cnt[k]]] BY <1>1, <1>2 DEF Load
<1>5. At(c, k) /\ Goto(c, StoreLabel[k]) /\ StoreLabel[k] \in Labels BY <1>1, LabelsOK DEF Load
<1>6. Moves(c, k, StoreLabel[k]) /\ loc'[c] = [loc[c] EXCEPT !.reg = cnt[k]]
  BY <1>3, <1>4, <1>5, MoveSet
<1> QED BY <1>6 DEF CountLoad, Quiet

\* A counter is stored; the pump, or main in _send_fragmented, goes on.
Stores(c, k) ==
  /\ pc[c] = StoreLabel[k] /\ pc'[c] # StoreLabel[k]
  /\ cnt' = [cnt EXCEPT ![k] = loc[c].reg + 1]
  /\ UNCHANGED <<txQueue, inflight, late, stat, msgId, build, driver, hist>>

LEMMA CreditOkDoes ==
  ASSUME TypeInv, NEW c \in Ctx, CreditOk(c)
  PROVE  Stores(c, "ok") /\ Moves(c, "ok+", "check") /\ loc'[c] = NoLocals
<1>1. At(c, "ok+") /\ Proceed(c, "check") BY DEF CreditOk
<1>2. Moves(c, "ok+", "check") /\ loc'[c] = NoLocals BY <1>1, MoveProceed, LabelsOK
<1> QED BY <1>2 DEF CreditOk, Store, Stores, Moves, StoreLabel

LEMMA CreditFailedDoes ==
  ASSUME TypeInv, NEW c \in Ctx, CreditFailed(c)
  PROVE  /\ Stores(c, "failed") /\ loc'[c] = NoLocals
         /\ Moves(c, "failed+", "check") \/ Moves(c, "failed+", "idle")
<1>1. At(c, "failed+") /\ (Proceed(c, "check") \/ Raise(c)) BY DEF CreditFailed
<1>2. (Moves(c, "failed+", "check") \/ Moves(c, "failed+", "idle")) /\ loc'[c] = NoLocals
  BY <1>1, MoveProceed, MoveOut, LabelsOK
<1> QED BY <1>2 DEF CreditFailed, Store, Stores, Moves, StoreLabel

LEMMA CountTimeoutDoes ==
  ASSUME TypeInv, NEW c \in Ctx, CountTimeout(c)
  PROVE  /\ Stores(c, "timeout") /\ loc'[c] = NoLocals
         /\ Moves(c, "timeout+", "nonempty") \/ Moves(c, "timeout+", "idle")
<1>1. At(c, "timeout+") /\ (Proceed(c, "nonempty") \/ Raise(c)) BY DEF CountTimeout
<1>2. (Moves(c, "timeout+", "nonempty") \/ Moves(c, "timeout+", "idle")) /\ loc'[c] = NoLocals
  BY <1>1, MoveProceed, MoveOut, LabelsOK
<1> QED BY <1>2 DEF CountTimeout, Store, Stores, Moves, StoreLabel

LEMMA CountSentDoes ==
  ASSUME TypeInv, NEW c \in Ctx, CountSent(c)
  PROVE  /\ Stores(c, "sent") /\ Moves(c, "sent+", "mark")
         /\ loc'[c] = [loc[c] EXCEPT !.reg = 0]
<1>1. loc \in [Ctx -> Local] BY TypeParts DEF TypeInv
<1>2. [loc[c] EXCEPT !.reg = 0] \in Local BY <1>1, LocalReplaced
<1>3. loc' = [loc EXCEPT ![c] = [loc[c] EXCEPT !.reg = 0]] BY <1>1 DEF CountSent
<1>4. At(c, "sent+") /\ Goto(c, "mark") /\ "mark" \in Labels BY DEF CountSent, Labels
<1>5. Moves(c, "sent+", "mark") /\ loc'[c] = [loc[c] EXCEPT !.reg = 0]
  BY <1>2, <1>3, <1>4, MoveSet
<1> QED BY <1>5 DEF CountSent, Store, Stores, Moves, StoreLabel

LEMMA EnqCountedDoes ==
  ASSUME TypeInv, EnqCounted
  PROVE  /\ Stores("main", "queued") /\ loc'["main"] = NoLocals
         /\ \/ build.index < build.total /\ Moves("main", "queued+", "enq")
            \/ Moves("main", "queued+", "stats")
<1>1. At("main", "queued+")
      /\ Proceed("main", IF build.index < build.total THEN "enq" ELSE "stats")
  BY DEF EnqCounted
<1>2. "enq" \in Labels /\ "stats" \in Labels BY DEF Labels
<1>3. /\ loc'["main"] = NoLocals
      /\ Moves("main", "queued+", IF build.index < build.total THEN "enq" ELSE "stats")
  BY <1>1, <1>2, MoveProceed, LocalTypes
<1> QED BY <1>3 DEF EnqCounted, Store, Stores, Moves, StoreLabel

\* Waiting for the frame in flight, and for a frame to send.
LEMMA TestInflightDoes ==
  ASSUME TypeInv, NEW c \in Ctx, TestInflight(c)
  PROVE  /\ Quiet /\ loc'[c] = loc[c]
         /\ \/ inflight = NoFrame /\ Moves(c, "check", "nonempty")
            \/ inflight # NoFrame /\ Moves(c, "check", "elapsed")
<1>1. /\ At(c, "check") /\ Quiet /\ loc' = loc
      /\ Goto(c, IF inflight = NoFrame THEN "nonempty" ELSE "elapsed")
  BY DEF TestInflight, Quiet
<1> QED BY <1>1, MoveKept, LabelsOK

LEMMA TestElapsedDoes ==
  ASSUME TypeInv, NEW c \in Ctx, TestElapsed(c)
  PROVE  /\ Quiet
         /\ \/ inflight # NoFrame /\ Moves(c, "elapsed", "expire") /\ loc'[c] = loc[c]
            \/ Moves(c, "elapsed", "idle") /\ loc'[c] = NoLocals
<1>1. /\ At(c, "elapsed") /\ Quiet
      /\ \/ inflight # NoFrame /\ Continue(c, "expire")
         \/ Raise(c) \/ Return(c)
  BY DEF TestElapsed, Quiet
<1> QED BY <1>1, MoveContinue, MoveOut, LabelsOK

LEMMA TestQueueDoes ==
  ASSUME TypeInv, NEW c \in Ctx, TestQueue(c)
  PROVE  /\ Quiet
         /\ \/ txQueue # << >> /\ Moves(c, "nonempty", "peek") /\ loc'[c] = loc[c]
            \/ Moves(c, "nonempty", "idle") /\ loc'[c] = NoLocals
<1>1. /\ At(c, "nonempty") /\ Quiet
      /\ \/ txQueue # << >> /\ Continue(c, "peek")
         \/ Return(c)
  BY DEF TestQueue, Quiet
<1> QED BY <1>1, MoveContinue, MoveOut, LabelsOK

LEMMA PeekDoes ==
  ASSUME TypeInv, NEW c \in Ctx, Peek(c)
  PROVE  /\ Quiet
         /\ \/ /\ txQueue # << >> /\ Moves(c, "peek", "send") /\ Head(txQueue) \in Frame
               /\ loc'[c] = [loc[c] EXCEPT !.frame = Head(txQueue)]
            \/ txQueue = << >> /\ Moves(c, "peek", "idle") /\ loc'[c] = NoLocals
<1>1. At(c, "peek") /\ Quiet BY DEF Peek, Quiet
<1>2. CASE txQueue = << >>
  BY <1>1, <1>2, MoveOut DEF Peek
<1>3. CASE txQueue # << >>
  <2>1. loc \in [Ctx -> Local] /\ Head(txQueue) \in Frame BY <1>3, TypeParts DEF TypeInv
  <2>2. [loc[c] EXCEPT !.frame = Head(txQueue)] \in Local BY <2>1, LocalReplaced
  <2>3. loc' = [loc EXCEPT ![c] = [loc[c] EXCEPT !.frame = Head(txQueue)]] /\ Goto(c, "send")
    BY <1>3, <2>1 DEF Peek
  <2>4. "send" \in Labels BY DEF Labels
  <2> QED BY <1>1, <1>3, <2>1, <2>2, <2>3, <2>4, MoveSet
<1> QED BY <1>2, <1>3

LEMMA SendTakenDoes ==
  ASSUME TypeInv, NEW c \in Ctx, SendTaken(c)
  PROVE  /\ Moves(c, "send", "pop") /\ loc'[c] = loc[c] /\ loc[c].frame \in Frame
         /\ outstanding' = Append(outstanding, loc[c].frame)
         /\ hist'.accepted = hist.accepted /\ hist'.discarded = hist.discarded
         /\ hist'.air = Append(hist.air, loc[c].frame) /\ hist' \in Hist
         /\ UNCHANGED <<core, build, drv, irqOn, torn>>
<1>1. At(c, "send") /\ Goto(c, "pop") /\ loc' = loc
      /\ hist' = [hist EXCEPT !.air = Append(@, loc[c].frame)]
      /\ outstanding' = Append(outstanding, loc[c].frame)
      /\ UNCHANGED <<core, build, drv, irqOn, torn>>
  BY DEF SendTaken
<1>2. loc[c].frame \in Frame BY <1>1 DEF TypeInv, LocalsOK, At, Holding
<1>3. hist \in Hist BY TypeParts DEF TypeInv
<1>4. Append(hist.air, loc[c].frame) \in Seq(Frame) BY <1>2, <1>3 DEF Hist
<1>5. /\ hist'.accepted = hist.accepted /\ hist'.discarded = hist.discarded
      /\ hist'.air = Append(hist.air, loc[c].frame) /\ hist' \in Hist
  BY <1>1, <1>3, <1>4 DEF Hist
<1>6. "pop" \in Labels BY DEF Labels
<1> QED BY <1>1, <1>2, <1>5, <1>6, MoveKept

LEMMA SendRaisesDoes ==
  ASSUME TypeInv, NEW c \in Ctx, SendRaises(c)
  PROVE  Quiet /\ Moves(c, "send", "drop") /\ loc'[c] = loc[c]
<1>1. "drop" \in Labels BY DEF Labels
<1> QED BY <1>1, MoveKept DEF SendRaises, Quiet

\* The head of the queue is dropped with a log line.
Discards ==
  /\ txQueue # << >> /\ txQueue' = Tail(txQueue) /\ hist' \in Hist
  /\ hist'.accepted = hist.accepted /\ hist'.air = hist.air
  /\ hist'.discarded = Append(hist.discarded, Head(txQueue))

LEMMA DiscardDoes ==
  ASSUME TypeInv, txQueue # << >>, txQueue' = Tail(txQueue),
         hist' = [hist EXCEPT !.discarded = Append(@, Head(txQueue))]
  PROVE  Discards
<1>1. hist \in Hist /\ Head(txQueue) \in Frame BY TypeParts DEF TypeInv
<1>2. Append(hist.discarded, Head(txQueue)) \in Seq(Frame) BY <1>1 DEF Hist
<1> QED BY <1>1, <1>2 DEF Discards, Hist

LEMMA DropRefusedDoes ==
  ASSUME TypeInv, NEW c \in Ctx, DropRefused(c)
  PROVE  /\ Moves(c, "drop", "idle") /\ loc'[c] = NoLocals
         /\ UNCHANGED <<inflight, late, stat, msgId, cnt, build, driver>>
         /\ Discards \/ UNCHANGED <<txQueue, hist>>
  BY MoveOut, DiscardDoes DEF DropRefused

LEMMA PopDoes ==
  ASSUME TypeInv, NEW c \in Ctx, Pop(c)
  PROVE  /\ UNCHANGED <<inflight, late, stat, msgId, cnt, build, driver, hist>>
         /\ \/ /\ txQueue = << >> /\ txQueue' = txQueue
               /\ Moves(c, "pop", "idle") /\ loc'[c] = NoLocals
            \/ /\ txQueue # << >> /\ txQueue' = Tail(txQueue)
               /\ Moves(c, "pop", "sent") /\ loc'[c] = loc[c]
<1>1. "sent" \in Labels BY DEF Labels
<1> QED BY <1>1, MoveContinue, MoveOut DEF Pop

LEMMA MarkInflightDoes ==
  ASSUME TypeInv, NEW c \in Ctx, MarkInflight(c)
  PROVE  /\ Moves(c, "mark", "idle") /\ loc'[c] = NoLocals
         /\ inflight' = loc[c].frame /\ loc[c].frame \in Frame /\ late' = FALSE
         /\ UNCHANGED <<txQueue, stat, msgId, cnt, build, driver, hist>>
<1>1. loc[c].frame \in Frame BY DEF MarkInflight, TypeInv, LocalsOK, At, Holding
<1> QED BY <1>1, MoveOut DEF MarkInflight

\* The ways into the code, and _enqueue_tx_frame.
LEMMA WaitPumpDoes ==
  ASSUME TypeInv, WaitPump
  PROVE  /\ Moves("main", "idle", "stats") /\ loc'["main"] = loc["main"]
         /\ build' = [build EXCEPT !.op = "wait"] /\ UNCHANGED <<core, driver, hist>>
  BY MoveKept, LabelsOK, LocalTypes DEF WaitPump

LEMMA IrqPumpDoes ==
  ASSUME TypeInv, IrqPump
  PROVE  /\ irqOn /\ Moves("irq", "idle", "stats") /\ loc'["irq"] = loc["irq"]
         /\ torn' = torn \cup Tearing
         /\ UNCHANGED <<core, build, drv, outstanding, irqOn, hist>>
  BY MoveKept, LabelsOK, LocalTypes DEF IrqPump

\* A message longer than a payload has at least two fragments (_send_fragmented).
LEMMA AtLeastTwo ==
  ASSUME NEW len \in Lengths
  PROVE  FragTotal(len) \in Nat /\ FragTotal(len) >= 2
<1> DEFINE a == len + FragPayload - 1
<1> DEFINE q == a \div FragPayload
<1>1. a \in Nat /\ FragPayload \in Nat \ {0} /\ a >= 2 * FragPayload
  BY Constants
<1>2. q \in Int /\ FragPayload * q <= a /\ a < FragPayload * (q + 1)
  BY <1>1, Z3
<1>3. q >= 2
  BY <1>1, <1>2
<1> QED
  BY <1>2, <1>3 DEF FragTotal

LEMMA SendFragmentedDoes ==
  ASSUME TypeInv, SendFragmented
  PROVE  /\ Moves("main", "idle", "enq") /\ loc'["main"] = loc["main"]
         /\ msgId' \in 0 .. IdMod - 1 /\ build' \in Build
         /\ build'.total \in 2 .. MaxTotal /\ build'.index < build'.total
         /\ UNCHANGED <<txQueue, inflight, late, stat, cnt, driver, hist>>
<1>1. PICK len \in Lengths :
        /\ FragTotal(len) <= MaxTotal /\ msgId' = (msgId + 1) % IdMod
        /\ build' = [op |-> "frag", id |-> (msgId + 1) % IdMod, total |-> FragTotal(len),
                     index |-> 0]
  BY DEF SendFragmented
<1>2. FragTotal(len) \in 2 .. MaxTotal BY <1>1, AtLeastTwo, Constants
<1>3. (msgId + 1) % IdMod \in 0 .. IdMod - 1 BY TypeParts, Constants DEF TypeInv
<1>4. build' \in Build /\ build'.total \in 2 .. MaxTotal /\ build'.index < build'.total
  BY <1>1, <1>2, <1>3 DEF Build
<1>5. "enq" \in Labels BY DEF Labels
<1>6. Moves("main", "idle", "enq") /\ loc'["main"] = loc["main"]
  BY <1>5, MoveKept, LocalTypes DEF SendFragmented
<1> QED BY <1>1, <1>3, <1>4, <1>6 DEF SendFragmented

LEMMA EnqTestDoes ==
  ASSUME TypeInv, EnqTest
  PROVE  /\ Quiet /\ loc'["main"] = loc["main"]
         /\ \/ Moves("main", "enq", "enqdrop")
            \/ Len(txQueue) < QueueMax /\ Moves("main", "enq", "enqapp")
<1>1. /\ At("main", "enq") /\ Quiet /\ loc' = loc
      /\ Goto("main", IF Len(txQueue) >= QueueMax THEN "enqdrop" ELSE "enqapp")
  BY DEF EnqTest, Quiet
<1>2. "enqdrop" \in Labels /\ "enqapp" \in Labels BY DEF Labels
<1>3. ~(Len(txQueue) >= QueueMax) => Len(txQueue) < QueueMax
  BY Constants, TypeParts DEF TypeInv
<1> QED BY <1>1, <1>2, <1>3, MoveKept, LocalTypes

LEMMA EnqDropOldestDoes ==
  ASSUME TypeInv, EnqDropOldest
  PROVE  /\ UNCHANGED <<inflight, late, stat, msgId, cnt, build, driver>>
         /\ \/ /\ UNCHANGED <<txQueue, hist>>
               /\ Moves("main", "enqdrop", "idle") /\ loc'["main"] = NoLocals
            \/ /\ Discards
               /\ Moves("main", "enqdrop", "enqapp") /\ loc'["main"] = loc["main"]
<1>1. "enqapp" \in Labels /\ At("main", "enqdrop") BY DEF Labels, EnqDropOldest
<1>2. CASE txQueue = << >>
  BY <1>1, <1>2, MoveOut, LocalTypes DEF EnqDropOldest
<1>3. CASE txQueue # << >>
  BY <1>1, <1>3, MoveContinue, DiscardDoes, LocalTypes DEF EnqDropOldest
<1> QED BY <1>2, <1>3

\* A fragment is accepted.
Accepts ==
  /\ hist' \in Hist
  /\ \E f \in Frame :
       /\ txQueue' = Append(txQueue, f)
       /\ hist'.accepted = Append(hist.accepted, f)
       /\ hist'.air = hist.air /\ hist'.discarded = hist.discarded

LEMMA EnqAppendDoes ==
  ASSUME TypeInv, EnqAppend
  PROVE  /\ Moves("main", "enqapp", "queued") /\ loc'["main"] = loc["main"]
         /\ Len(txQueue) < QueueMax /\ Accepts
         /\ build' \in Build /\ build'.total = build.total /\ build.total \in 2 .. MaxTotal
         /\ UNCHANGED <<inflight, late, stat, msgId, cnt, driver>>
<1> DEFINE frame == [id |-> build.id, total |-> build.total, index |-> build.index]
<1>1. /\ At("main", "enqapp") /\ txQueue' = Append(txQueue, frame)
      /\ hist' = [hist EXCEPT !.accepted = Append(@, frame)]
      /\ build' = [build EXCEPT !.index = @ + 1] /\ Continue("main", "queued")
      /\ UNCHANGED <<inflight, late, stat, msgId, cnt, driver>>
  BY DEF EnqAppend
<1>2. build \in Build /\ hist \in Hist BY TypeParts DEF TypeInv
<1>3. /\ build.total \in 2 .. MaxTotal /\ build.index < build.total /\ Len(txQueue) < QueueMax
      /\ build.id \in 0 .. IdMod - 1 /\ build.index \in Nat
  BY <1>1, <1>2 DEF At, TypeInv, LocalsOK, Enqueueing, Queueing, Build
<1>4. frame \in Frame BY <1>3, Constants DEF Frame
<1> HIDE DEF frame
<1>5. Append(hist.accepted, frame) \in Seq(Frame) BY <1>2, <1>4 DEF Hist
<1>6. Accepts BY <1>1, <1>2, <1>4, <1>5 DEF Accepts, Hist
<1>7. build' \in Build /\ build'.total = build.total BY <1>1, <1>2 DEF Build
<1>8. "queued" \in Labels BY DEF Labels
<1> QED BY <1>1, <1>3, <1>6, <1>7, <1>8, MoveContinue, LocalTypes

-----------------------------------------------------------------------------
(* Types.                                                                  *)

LEMMA InitType == Init => TypeInv
<1> SUFFICES ASSUME Init PROVE TypeInv
  OBVIOUS
<1> USE Constants DEF Init
<1>1. txQueue \in Seq(Frame) /\ Len(txQueue) <= QueueMax
  OBVIOUS
<1>2. stat \in Stats /\ drv \in Stats /\ cnt \in Cnt
  BY DEF Stats, Cnt
<1>3. pc \in [Ctx -> Labels] /\ loc \in [Ctx -> Local]
  BY LocalTypes, LabelsOK
<1>4. build \in Build /\ hist \in Hist
  BY DEF Build, Hist
<1>5. irqOn \in BOOLEAN /\ runAlive \in BOOLEAN
  BY TxAssumption
<1>6. LocalsOK
  BY DEF LocalsOK, Enqueueing, Queueing, Increment, Holding, Ctx
<1>7. inflight \in Frame \cup {NoFrame}
  OBVIOUS
<1>8. late \in BOOLEAN
  OBVIOUS
<1>9. msgId \in 0 .. IdMod - 1
  OBVIOUS
<1>10. outstanding \in Seq(Frame \cup {Direct}) /\ torn \subseteq {"sent", "stats"}
  OBVIOUS
<1>11. TypeOK
  BY <1>1, <1>2, <1>3, <1>4, <1>5, <1>7, <1>8, <1>9, <1>10, TypeParts, Zenon
<1> QED
  BY <1>6, <1>11 DEF TypeInv

LEMMA RunAliveType == TypeInv /\ [Next]_vars => runAlive' \in BOOLEAN
<1> SUFFICES ASSUME TypeInv, [Next]_vars PROVE runAlive' \in BOOLEAN
  OBVIOUS
<1>1. runAlive \in BOOLEAN BY TypeParts DEF TypeInv
<1>2. \A c \in Ctx : Raise(c) \/ Return(c) => runAlive' \in BOOLEAN BY <1>1 DEF Raise, Return
<1>3. ASSUME NEW c \in Ctx, PumpStep(c) PROVE runAlive' \in BOOLEAN
  BY <1>1, <1>2, <1>3 DEF PumpStep, ReadStats, CompareResponses, CompareFailures,
       RememberResponses, RememberFailures, TestCredited, Take, Clear, CountLoad, CreditOk,
       CreditFailed, TestInflight, TestElapsed, CountTimeout, TestQueue, Peek, SendTaken,
       SendRaises, DropRefused, Pop, CountSent, MarkInflight, Continue, Proceed
<1>4. CASE EnqTest \/ EnqDropOldest \/ EnqAppend \/ EnqCounted
  BY <1>1, <1>2, <1>4, LocalTypes DEF EnqTest, EnqDropOldest, EnqAppend, EnqCounted, Continue, Proceed
<1>5. CASE \/ WaitPump \/ IrqPump \/ SendDirect \/ SendFragmented \/ TimePasses
           \/ DriverAnswers \/ UNCHANGED vars
  BY <1>1, <1>5 DEF WaitPump, IrqPump, SendDirect, SendFragmented, TimePasses, DriverAnswers, vars
<1> QED BY <1>3, <1>4, <1>5, LocalTypes DEF Next, MainStep

\* What a step leaves of the data.
DataOK ==
  /\ txQueue \in Seq(Frame) /\ inflight \in Frame \cup {NoFrame} /\ late \in BOOLEAN
  /\ stat \in Stats /\ drv \in Stats /\ msgId \in 0 .. IdMod - 1
  /\ cnt \in Cnt /\ build \in Build
  /\ outstanding \in Seq(Frame \cup {Direct}) /\ hist \in Hist
  /\ torn \subseteq {"sent", "stats"}

LEMMA TypeData ==
  TypeInv => /\ DataOK /\ Len(txQueue) \in Nat /\ Len(txQueue) <= QueueMax
             /\ pc \in [Ctx -> Labels] /\ loc \in [Ctx -> Local] /\ LocalsOK
  BY TypeParts DEF TypeInv, DataOK

\* One counter is replaced.
LEMMA CountType ==
  ASSUME cnt \in Cnt, NEW k \in Counters \cup {"direct"}, NEW n \in Nat,
         cnt' = [cnt EXCEPT ![k] = n]
  PROVE  /\ cnt' \in Cnt /\ cnt'[k] = n
         /\ \A j \in (Counters \cup {"direct"}) \ {k} : cnt'[j] = cnt[j]
  BY DEF Cnt

LEMMA StoreData ==
  ASSUME TypeInv, NEW c \in Ctx, NEW k \in Counters, Stores(c, k)
  PROVE  DataOK' /\ txQueue' = txQueue /\ build' = build
<1>1. loc[c].reg + 1 \in Nat /\ DataOK BY TypeData DEF Local
<1>2. cnt' \in Cnt BY <1>1, CountType DEF Stores, DataOK
<1> QED BY <1>1, <1>2 DEF Stores, driver, DataOK

LEMMA DiscardData ==
  ASSUME TypeInv, Discards
  PROVE  hist' \in Hist /\ txQueue' \in Seq(Frame) /\ Len(txQueue') = Len(txQueue) - 1
  BY TypeData DEF Discards, DataOK

LEMMA PumpData ==
  ASSUME TypeInv, NEW c \in Ctx, PumpStep(c)
  PROVE  DataOK' /\ Len(txQueue') <= Len(txQueue) /\ build' = build
<1>0. DataOK /\ Len(txQueue) \in Nat /\ loc \in [Ctx -> Local]
  BY TypeData
<1>k. "ok" \in Counters /\ "failed" \in Counters /\ "timeout" \in Counters /\ "sent" \in Counters
  BY DEF Counters
<1>1. CASE Quiet
  BY <1>0, <1>1 DEF Quiet, core, driver, DataOK
<1>2. CASE RememberResponses(c) \/ RememberFailures(c)
  <2>1. loc[c].snap \in Stats /\ stat \in Stats BY <1>0 DEF Local, DataOK
  <2>2. stat' \in Stats
    BY <1>2, <2>1, RememberResponsesDoes, RememberFailuresDoes DEF Stats
  <2>3. UNCHANGED <<txQueue, inflight, late, msgId, cnt, build, driver, hist>>
    BY <1>2, RememberResponsesDoes, RememberFailuresDoes
  <2> QED BY <1>0, <2>2, <2>3 DEF driver, DataOK
<1>3. CASE Clear(c)
  <2>1. inflight' \in Frame \cup {NoFrame} /\ late' \in BOOLEAN
        /\ UNCHANGED <<txQueue, stat, msgId, cnt, build, driver, hist>>
    BY <1>3, ClearDoes
  <2> QED BY <1>0, <2>1 DEF driver, DataOK
<1>4. CASE CreditOk(c) \/ CreditFailed(c) \/ CountTimeout(c) \/ CountSent(c)
  <2>1. \E k \in Counters : Stores(c, k)
    BY <1>4, <1>k, CreditOkDoes, CreditFailedDoes, CountTimeoutDoes, CountSentDoes
  <2> QED BY <1>0, <2>1, StoreData
<1>5. CASE SendTaken(c)
  <2>1. hist' \in Hist /\ loc[c].frame \in Frame
        /\ outstanding' = Append(outstanding, loc[c].frame)
        /\ UNCHANGED <<core, build, drv, irqOn, torn>>
    BY <1>5, SendTakenDoes
  <2>2. outstanding' \in Seq(Frame \cup {Direct}) BY <1>0, <2>1 DEF DataOK
  <2> QED BY <1>0, <2>1, <2>2 DEF core, DataOK
<1>6. CASE DropRefused(c)
  <2>1. UNCHANGED <<inflight, late, stat, msgId, cnt, build, driver>>
        /\ (Discards \/ UNCHANGED <<txQueue, hist>>)
    BY <1>6, DropRefusedDoes
  <2> QED BY <1>0, <2>1, DiscardData DEF driver, DataOK
<1>7. CASE Pop(c)
  <2>1. UNCHANGED <<inflight, late, stat, msgId, cnt, build, driver, hist>>
        /\ (txQueue' = txQueue \/ (txQueue # << >> /\ txQueue' = Tail(txQueue)))
    BY <1>7, PopDoes
  <2>2. CASE txQueue' = txQueue
    BY <1>0, <2>1, <2>2 DEF driver, DataOK
  <2>3. CASE txQueue # << >> /\ txQueue' = Tail(txQueue)
    <3>1. txQueue' \in Seq(Frame) /\ Len(txQueue') <= Len(txQueue) BY <1>0, <2>3 DEF DataOK
    <3> QED BY <1>0, <2>1, <3>1 DEF driver, DataOK
  <2> QED BY <2>1, <2>2, <2>3
<1>8. CASE MarkInflight(c)
  <2>1. inflight' \in Frame \cup {NoFrame} /\ late' \in BOOLEAN
        /\ UNCHANGED <<txQueue, stat, msgId, cnt, build, driver, hist>>
    BY <1>8, MarkInflightDoes
  <2> QED BY <1>0, <2>1 DEF driver, DataOK
<1>9. CASE \/ ReadStats(c) \/ CompareResponses(c) \/ CompareFailures(c) \/ TestCredited(c)
           \/ Take(c) \/ CountLoad(c) \/ TestInflight(c) \/ TestElapsed(c) \/ TestQueue(c)
           \/ Peek(c) \/ SendRaises(c)
  BY <1>1, <1>9, ReadStatsDoes, CompareResponsesDoes, CompareFailuresDoes, TestCreditedDoes,
     TakeDoes, CountLoadDoes, TestInflightDoes, TestElapsedDoes, TestQueueDoes, PeekDoes,
     SendRaisesDoes
<1> QED BY <1>2, <1>3, <1>4, <1>5, <1>6, <1>7, <1>8, <1>9 DEF PumpStep

\* What a step of the pump does to control: c moves, holding a fragment where it
\* must, and from no other label to one at which main queues fragments.
PumpMoves(c) ==
  /\ pc' \in [Ctx -> Labels] /\ loc' \in [Ctx -> Local]
  /\ (c = "main" => pc["irq"] = "idle")
  /\ pc'[c] \in Queueing => pc[c] \in Queueing /\ pc'[c] = "queued+"
  /\ pc'[c] \in Holding => loc'[c].frame \in Frame
  /\ \A d \in Ctx \ {c} : pc'[d] = pc[d] /\ loc'[d] = loc[d]

LEMMA MovesAside ==
  ASSUME NEW c \in Ctx, NEW l,
         NEW m \in {"idle", "stats", "delta", "deltafail", "settle", "settlefail", "test", "take",
                    "clear", "check", "elapsed", "expire", "lapse", "nonempty", "peek",
                    "ok", "failed", "timeout"},
         Moves(c, l, m)
  PROVE  PumpMoves(c)
<1>1. m \notin Holding /\ m \notin Queueing
  BY DEF Holding, Queueing, Enqueueing, Increment
<1> QED BY <1>1 DEF Moves, PumpMoves

LEMMA MovesHolding ==
  ASSUME TypeInv, NEW c \in Ctx, NEW l, NEW m \in Holding, Moves(c, l, m), loc'[c].frame \in Frame
  PROVE  PumpMoves(c)
<1>1. m \notin Queueing BY LabelsOK
<1> QED BY <1>1 DEF Moves, PumpMoves

LEMMA PumpControl ==
  ASSUME TypeInv, NEW c \in Ctx, PumpStep(c)
  PROVE  PumpMoves(c)
<1>0. loc \in [Ctx -> Local] /\ (pc[c] \in Holding => loc[c].frame \in Frame)
  BY TypeData DEF LocalsOK
<1>h. \A l \in {"send", "drop", "pop", "sent", "sent+", "mark"} : l \in Holding
  BY DEF Holding
<1>1. CASE \/ ReadStats(c) \/ CompareResponses(c) \/ RememberResponses(c) \/ RememberFailures(c)
           \/ TestCredited(c) \/ Take(c) \/ Clear(c)
  BY <1>1, MovesAside, ReadStatsDoes, CompareResponsesDoes, RememberResponsesDoes,
     RememberFailuresDoes, TestCreditedDoes, TakeDoes, ClearDoes
<1>2. CASE CompareFailures(c)
  BY <1>2, MovesAside, CompareFailuresDoes
<1>3. CASE CreditOk(c) \/ CreditFailed(c) \/ CountTimeout(c)
  BY <1>3, MovesAside, CreditOkDoes, CreditFailedDoes, CountTimeoutDoes
<1>4. CASE TestInflight(c) \/ TestElapsed(c) \/ TestQueue(c) \/ DropRefused(c) \/ MarkInflight(c)
  BY <1>4, MovesAside, TestInflightDoes, TestElapsedDoes, TestQueueDoes, DropRefusedDoes,
     MarkInflightDoes
<1>5. CASE CountLoad(c)
  <2>1. PICK k \in Counters : /\ Moves(c, k, StoreLabel[k])
                              /\ loc'[c] = [loc[c] EXCEPT !.reg = cnt[k]]
    BY <1>5, CountLoadDoes
  <2>2. cnt[k] \in Nat BY TypeData DEF DataOK, Cnt
  <2>3. loc'[c].frame = loc[c].frame BY <1>0, <2>1, <2>2, LocalReplaced
  <2>4. CASE k = "sent"
    <3>1. Moves(c, "sent", "sent+") BY <2>1, <2>4 DEF StoreLabel
    <3>2. loc'[c].frame \in Frame BY <1>0, <1>h, <2>3, <3>1 DEF Moves
    <3> QED BY <1>h, <3>1, <3>2, MovesHolding
  <2>5. CASE k = "queued"
    <3>1. Moves(c, "queued", "queued+") BY <2>1, <2>5 DEF StoreLabel
    <3> QED BY <3>1 DEF Moves, PumpMoves, Queueing, Increment, Enqueueing, Holding
  <2>6. CASE k \in {"ok", "failed", "timeout"}
    <3>1. StoreLabel[k] \notin Queueing /\ StoreLabel[k] \notin Holding
      BY <2>6 DEF StoreLabel, Queueing, Increment, Enqueueing, Holding
    <3> QED BY <2>1, <3>1 DEF Moves, PumpMoves
  <2> QED BY <2>4, <2>5, <2>6 DEF Counters
<1>6. CASE Peek(c)
  <2>1. CASE Moves(c, "peek", "idle") BY <2>1, MovesAside
  <2>2. CASE /\ Moves(c, "peek", "send") /\ Head(txQueue) \in Frame
             /\ loc'[c] = [loc[c] EXCEPT !.frame = Head(txQueue)]
    <3>1. loc'[c].frame \in Frame BY <1>0, <2>2, LocalReplaced
    <3> QED BY <1>h, <2>2, <3>1, MovesHolding
  <2> QED BY <1>6, <2>1, <2>2, PeekDoes
<1>7. CASE SendTaken(c) \/ SendRaises(c)
  <2>1. pc[c] = "send" /\ loc'[c] = loc[c] /\ (Moves(c, "send", "pop") \/ Moves(c, "send", "drop"))
    BY <1>7, SendTakenDoes, SendRaisesDoes DEF Moves
  <2> QED BY <1>0, <1>h, <2>1, MovesHolding
<1>8. CASE Pop(c)
  <2>1. CASE Moves(c, "pop", "idle") BY <2>1, MovesAside
  <2>2. CASE Moves(c, "pop", "sent") /\ loc'[c] = loc[c]
    <3>1. pc[c] = "pop" BY <2>2 DEF Moves
    <3> QED BY <1>0, <1>h, <2>2, <3>1, MovesHolding
  <2> QED BY <1>8, <2>1, <2>2, PopDoes
<1>9. CASE CountSent(c)
  <2>1. Moves(c, "sent+", "mark") /\ loc'[c] = [loc[c] EXCEPT !.reg = 0]
    BY <1>9, CountSentDoes
  <2>2. loc'[c].frame = loc[c].frame /\ pc[c] = "sent+" BY <1>0, <2>1, LocalReplaced DEF Moves
  <2> QED BY <1>0, <1>h, <2>1, <2>2, MovesHolding
<1> QED
  BY <1>1, <1>2, <1>3, <1>4, <1>5, <1>6, <1>7, <1>8, <1>9 DEF PumpStep

LEMMA PumpType ==
  ASSUME TypeInv, NEW c \in Ctx, PumpStep(c)
  PROVE  TypeInv'
<1>1. PumpMoves(c) BY PumpControl
<1>2. DataOK' /\ Len(txQueue') <= Len(txQueue) /\ build' = build BY PumpData
<1>3. Len(txQueue) \in Nat /\ Len(txQueue) <= QueueMax /\ Len(txQueue') \in Nat /\ LocalsOK
  BY <1>2, TypeData DEF DataOK
<1>4. TypeOK'
  <2>1. Len(txQueue') <= QueueMax BY <1>2, <1>3, Constants
  <2>2. runAlive' \in BOOLEAN BY RunAliveType, LocalTypes DEF Next, MainStep
  <2> QED BY <1>1, <1>2, <2>1, <2>2 DEF PumpMoves, DataOK, TypeOK, Cnt, Local, Build, Hist
<1>5. \A d \in Ctx : pc'[d] \in Holding => loc'[d].frame \in Frame
  BY <1>1, <1>3 DEF PumpMoves, LocalsOK
<1>6. \A d \in Ctx : pc'[d] \in Queueing => pc[d] \in Queueing
  BY <1>1 DEF PumpMoves
<1>7. \A l \in Enqueueing : pc'["main"] = l => pc["main"] = l
  <2>1. "queued+" \notin Enqueueing /\ Enqueueing \subseteq Queueing
    BY DEF Enqueueing, Queueing
  <2> QED BY <1>1, <2>1, LocalTypes DEF PumpMoves
<1>8. LocalsOK'
  <2>1. "enqapp" \in Enqueueing BY DEF Enqueueing
  <2>2. pc'["main"] = "enqapp" => Len(txQueue') < QueueMax
    BY <1>2, <1>3, <1>7, <2>1, Constants DEF LocalsOK
  <2>3. pc'["main"] \in Queueing => build'.total \in 2 .. MaxTotal
    BY <1>2, <1>3, <1>6, LocalTypes DEF LocalsOK
  <2>4. pc'["main"] \in Enqueueing => build'.index < build'.total
    BY <1>2, <1>3, <1>7 DEF LocalsOK
  <2>5. pc'["irq"] \notin Queueing BY <1>3, <1>6, LocalTypes DEF LocalsOK
  <2> QED BY <1>5, <2>2, <2>3, <2>4, <2>5 DEF LocalsOK
<1> QED BY <1>4, <1>8 DEF TypeInv

\* main enters the code, and queues the fragments of a message.
LEMMA MainType ==
  ASSUME TypeInv,
         WaitPump \/ SendFragmented \/ EnqTest \/ EnqDropOldest \/ EnqAppend \/ EnqCounted
  PROVE  TypeInv'
<1>0. /\ DataOK /\ Len(txQueue) \in Nat /\ Len(txQueue) <= QueueMax /\ LocalsOK
      /\ pc \in [Ctx -> Labels] /\ loc \in [Ctx -> Local] /\ QueueMax \in Nat
  BY TypeData, Constants
<1>r. runAlive' \in BOOLEAN BY RunAliveType DEF Next, MainStep
<1>l. /\ "main" \in Ctx /\ "irq" \in Ctx \ {"main"} /\ Ctx = {"main", "irq"}
      /\ Queueing = {"enq", "enqdrop", "enqapp", "queued", "queued+"}
      /\ Enqueueing = {"enq", "enqdrop", "enqapp"}
      /\ Holding = {"send", "drop", "pop", "sent", "sent+", "mark"}
  BY DEF Ctx, Queueing, Enqueueing, Increment, Holding
<1> SUFFICES /\ DataOK' /\ Len(txQueue') <= QueueMax /\ LocalsOK'
             /\ pc' \in [Ctx -> Labels] /\ loc' \in [Ctx -> Local]
  BY <1>r DEF TypeInv, DataOK, TypeOK, Cnt, Local, Build, Hist
<1> DEFINE l == pc["main"]
<1> DEFINE m == pc'["main"]
<1>m. ASSUME Moves("main", l, m), m \notin Holding, Len(txQueue') <= QueueMax, DataOK',
             m \in Queueing => build'.total \in 2 .. MaxTotal,
             m \in Enqueueing => build'.index < build'.total,
             m = "enqapp" => Len(txQueue') < QueueMax
      PROVE  /\ DataOK' /\ Len(txQueue') <= QueueMax /\ LocalsOK'
             /\ pc' \in [Ctx -> Labels] /\ loc' \in [Ctx -> Local]
  <2>1. pc'["irq"] = pc["irq"] /\ loc'["irq"] = loc["irq"] BY <1>l, <1>m DEF Moves
  <2>2. LocalsOK' BY <1>0, <1>l, <1>m, <2>1 DEF LocalsOK
  <2> QED BY <1>m, <2>2 DEF Moves
<1>1. CASE WaitPump
  <2>1. /\ Moves("main", "idle", "stats") /\ build' = [build EXCEPT !.op = "wait"]
        /\ UNCHANGED <<core, driver, hist>>
    BY <1>1, WaitPumpDoes
  <2>2. build' \in Build BY <1>0, <2>1 DEF DataOK, Build
  <2>3. DataOK' BY <1>0, <2>1, <2>2 DEF core, driver, DataOK
  <2>4. l = "idle" /\ m = "stats" BY <2>1 DEF Moves
  <2>5. Len(txQueue') <= QueueMax BY <1>0, <2>1 DEF core
  <2> QED BY <1>l, <1>m, <2>1, <2>3, <2>4, <2>5
<1>2. CASE SendFragmented
  <2>1. /\ Moves("main", "idle", "enq") /\ msgId' \in 0 .. IdMod - 1 /\ build' \in Build
        /\ build'.total \in 2 .. MaxTotal /\ build'.index < build'.total
        /\ UNCHANGED <<txQueue, inflight, late, stat, cnt, driver, hist>>
    BY <1>2, SendFragmentedDoes
  <2>2. DataOK' BY <1>0, <2>1 DEF driver, DataOK
  <2>3. l = "idle" /\ m = "enq" BY <2>1 DEF Moves
  <2> QED BY <1>0, <1>l, <1>m, <2>1, <2>2, <2>3
<1>3. CASE EnqTest
  <2>1. /\ Quiet
        /\ \/ Moves("main", "enq", "enqdrop")
           \/ Len(txQueue) < QueueMax /\ Moves("main", "enq", "enqapp")
    BY <1>3, EnqTestDoes
  <2>2. DataOK' /\ build' = build /\ txQueue' = txQueue BY <1>0, <2>1 DEF Quiet, core, driver, DataOK
  <2>3. l = "enq" /\ Moves("main", l, m)
        /\ (m = "enqdrop" \/ (m = "enqapp" /\ Len(txQueue) < QueueMax))
    BY <2>1 DEF Moves
  <2>4. build.total \in 2 .. MaxTotal /\ build.index < build.total
    BY <1>0, <1>l, <2>3 DEF LocalsOK
  <2> QED BY <1>0, <1>l, <1>m, <2>2, <2>3, <2>4
<1>4. CASE EnqDropOldest
  <2>1. UNCHANGED <<inflight, late, stat, msgId, cnt, build, driver>> /\ l = "enqdrop"
        /\ Moves("main", l, m) /\ (m = "idle" \/ (m = "enqapp" /\ Discards))
        /\ (Discards \/ UNCHANGED <<txQueue, hist>>)
    BY <1>4, EnqDropOldestDoes DEF Moves
  <2>2. DataOK' BY <1>0, <2>1, DiscardData DEF driver, DataOK
  <2>3. build.total \in 2 .. MaxTotal /\ build.index < build.total
    BY <1>0, <1>l, <2>1 DEF LocalsOK
  <2>4. Len(txQueue') <= QueueMax /\ (m = "enqapp" => Len(txQueue') < QueueMax)
    BY <1>0, <2>1, DiscardData
  <2> QED BY <1>l, <1>m, <2>1, <2>2, <2>3, <2>4
<1>5. CASE EnqAppend
  <2>1. /\ Moves("main", "enqapp", "queued") /\ Len(txQueue) < QueueMax /\ Accepts
        /\ build' \in Build /\ build'.total \in 2 .. MaxTotal
        /\ UNCHANGED <<inflight, late, stat, msgId, cnt, driver>>
    BY <1>5, EnqAppendDoes
  <2>2. txQueue' \in Seq(Frame) /\ hist' \in Hist /\ Len(txQueue') <= QueueMax
    BY <1>0, <2>1 DEF Accepts, DataOK
  <2>3. DataOK' BY <1>0, <2>1, <2>2 DEF driver, DataOK
  <2>4. l = "enqapp" /\ m = "queued" BY <2>1 DEF Moves
  <2> QED BY <1>l, <1>m, <2>1, <2>2, <2>3, <2>4
<1>6. CASE EnqCounted
  <2>1. /\ Stores("main", "queued") /\ l = "queued+" /\ Moves("main", l, m)
        /\ (m = "stats" \/ (m = "enq" /\ build.index < build.total))
    BY <1>6, EnqCountedDoes DEF Moves
  <2>2. DataOK' /\ txQueue' = txQueue /\ build' = build
    BY <1>l, <2>1, StoreData DEF Counters
  <2>3. build.total \in 2 .. MaxTotal BY <1>0, <1>l, <2>1 DEF LocalsOK
  <2> QED BY <1>0, <1>l, <1>m, <2>1, <2>2, <2>3
<1> QED BY <1>1, <1>2, <1>3, <1>4, <1>5, <1>6

\* The callback begins, an unfragmented message goes out, the clock and the driver.
LEMMA EnvironmentType ==
  ASSUME TypeInv, IrqPump \/ SendDirect \/ TimePasses \/ DriverAnswers \/ UNCHANGED vars
  PROVE  TypeInv'
<1>0. /\ DataOK /\ Len(txQueue) \in Nat /\ Len(txQueue) <= QueueMax /\ LocalsOK
      /\ pc \in [Ctx -> Labels] /\ loc \in [Ctx -> Local]
  BY TypeData
<1>r. runAlive' \in BOOLEAN BY RunAliveType DEF Next
<1> SUFFICES /\ DataOK' /\ Len(txQueue') <= QueueMax /\ LocalsOK'
             /\ pc' \in [Ctx -> Labels] /\ loc' \in [Ctx -> Local]
  BY <1>r DEF TypeInv, DataOK, TypeOK, Cnt, Local, Build, Hist
<1>1. CASE IrqPump
  <2>1. /\ Moves("irq", "idle", "stats") /\ torn' = torn \cup Tearing
        /\ UNCHANGED <<core, build, drv, outstanding, irqOn, hist>>
    BY <1>1, IrqPumpDoes
  <2>2. torn' \subseteq {"sent", "stats"} BY <1>0, <2>1 DEF Tearing, DataOK
  <2>3. DataOK' BY <1>0, <2>1, <2>2 DEF core, DataOK
  <2>4. /\ pc'["irq"] = "stats" /\ pc'["main"] = pc["main"] /\ loc'["main"] = loc["main"]
        /\ txQueue' = txQueue /\ build' = build
    BY <2>1, LocalTypes DEF Moves, core
  <2>5. LocalsOK' BY <1>0, <2>4, LabelsOK, LocalTypes DEF LocalsOK
  <2> QED BY <1>0, <2>1, <2>3, <2>4, <2>5 DEF Moves
<1>2. CASE SendDirect
  <2>1. /\ outstanding' = Append(outstanding, Direct)
        /\ cnt' = [cnt EXCEPT !["direct"] = cnt["direct"] + 1]
        /\ UNCHANGED <<txQueue, inflight, late, stat, msgId, pc, loc, build, drv, hist, torn>>
    BY <1>2 DEF SendDirect
  <2>2. cnt["direct"] + 1 \in Nat BY <1>0 DEF DataOK, Cnt
  <2>3. cnt' \in Cnt BY <1>0, <2>1, <2>2, CountType DEF DataOK
  <2>4. outstanding' \in Seq(Frame \cup {Direct}) BY <1>0, <2>1 DEF DataOK
  <2>5. DataOK' BY <1>0, <2>1, <2>3, <2>4 DEF DataOK
  <2>6. LocalsOK' BY <1>0, <2>1 DEF LocalsOK
  <2> QED BY <1>0, <2>1, <2>5, <2>6
<1>3. CASE TimePasses
  <2>1. late' = TRUE /\ UNCHANGED <<txQueue, inflight, stat, msgId, cnt, pc, loc, build, driver, hist>>
    BY <1>3 DEF TimePasses
  <2>2. DataOK' BY <1>0, <2>1 DEF driver, DataOK
  <2>3. LocalsOK' BY <1>0, <2>1 DEF LocalsOK
  <2> QED BY <1>0, <2>1, <2>2, <2>3
<1>4. CASE DriverAnswers
  <2>1. /\ outstanding # << >> /\ outstanding' = Tail(outstanding)
        /\ UNCHANGED <<core, irqOn, pc, loc, build, hist, torn>>
    BY <1>4 DEF DriverAnswers
  <2>2. drv' \in Stats BY <1>0, <1>4 DEF DriverAnswers, DataOK, Stats
  <2>3. outstanding' \in Seq(Frame \cup {Direct}) BY <1>0, <2>1 DEF DataOK
  <2>4. DataOK' BY <1>0, <2>1, <2>2, <2>3 DEF core, DataOK
  <2>5. LocalsOK' BY <1>0, <2>1 DEF core, LocalsOK
  <2> QED BY <1>0, <2>1, <2>4, <2>5 DEF core
<1>5. CASE UNCHANGED vars
  BY <1>0, <1>5 DEF DataOK, LocalsOK, vars
<1> QED BY <1>1, <1>2, <1>3, <1>4, <1>5

LEMMA NextType == TypeInv /\ [Next]_vars => TypeInv'
  BY PumpType, MainType, EnvironmentType, LocalTypes DEF Next, MainStep

\* Every variable keeps to its type and the queue to its limit, whichever context
\* runs (LighthouseMesh.__init__, _enqueue_tx_frame).
THEOREM TypeCorrect == Spec => []TypeOK
<1>1. TypeInv => TypeOK BY DEF TypeInv
<1> QED BY <1>1, InitType, NextType, PTL DEF Spec

-----------------------------------------------------------------------------
(* Fragments by their place in the order of acceptance.                    *)

\* The fragments that have left the queue.
Removed == Len(hist.accepted) - Len(txQueue)
Position == 1 .. Len(hist.accepted)

\* The queue is what is left of the accepted fragments, in their order.
QueueIsRest ==
  /\ Removed \in Nat
  /\ \A i \in 1 .. Len(txQueue) : txQueue[i] = hist.accepted[Removed + i]

\* The frame a context holds left the queue before, or is its head.
HeldWasHead ==
  \A c \in Ctx : pc[c] \in Holding =>
    \E k \in Position : k <= Removed + 1 /\ hist.accepted[k] = loc[c].frame

\* Where the frame a context holds has been sent but not yet popped.
Unpopped(c) == pc[c] = "pop"
UnpoppedCount == (IF Unpopped("main") THEN 1 ELSE 0) + (IF Unpopped("irq") THEN 1 ELSE 0)

\* A fragment that was handled has left the queue, or a context is about to pop.
HandledLeaves ==
  \A f \in Range(hist.air) \cup Range(hist.discarded) :
    \/ \E k \in Position : k <= Removed /\ hist.accepted[k] = f
    \/ \E c \in Ctx : Unpopped(c) /\ loc[c].frame = f

\* Every fragment that left the queue was preceded by a transmission or a log line
\* of its own, and so will be the pops to come.
AirCount == Len(hist.air)
DropCount == Len(hist.discarded)
LeavesAreHandled == AirCount + DropCount >= Removed + UnpoppedCount

LossInv == QueueIsRest /\ HeldWasHead /\ HandledLeaves /\ LeavesAreHandled

\* What a step may do to the queue and the histories.
Keeps == UNCHANGED <<txQueue, hist>>
Pops ==
  /\ txQueue # << >> /\ txQueue' = Tail(txQueue) /\ UNCHANGED hist
  /\ \E c \in Ctx : pc[c] = "pop" /\ pc'[c] # "pop"
Sends(c) ==
  /\ pc[c] = "send" /\ pc'[c] = "pop" /\ loc'[c] = loc[c]
  /\ txQueue' = txQueue
  /\ hist'.accepted = hist.accepted /\ hist'.discarded = hist.discarded
  /\ hist'.air = Append(hist.air, loc[c].frame)

\* What a context holds, it held before or fetches from the head of the queue, and
\* between a transmission and its pop nothing else happens to it.
Holds(c) ==
  /\ pc'[c] \in Holding =>
       \/ pc[c] \in Holding /\ loc'[c].frame = loc[c].frame
       \/ pc'[c] = "send" /\ Keeps /\ txQueue # << >> /\ loc'[c].frame = Head(txQueue)
  /\ pc[c] = "pop" /\ pc'[c] # "pop" => Pops \/ (Keeps /\ txQueue = << >>)
  /\ pc'[c] = "pop" /\ pc[c] # "pop" => Sends(c)

Rests(c) == pc'[c] = pc[c] /\ loc'[c] = loc[c]

\* Both contexts, of which at most one does something.
Contexts == \A c \in Ctx : Holds(c) /\ \A d \in Ctx \ {c} : Rests(c) \/ Rests(d)

LEMMA RestHolds ==
  ASSUME NEW c, Rests(c)
  PROVE  Holds(c)
  BY DEF Rests, Holds

\* A context that moves between labels at which it holds nothing.
LEMMA AsideHolds ==
  ASSUME NEW c, NEW l, NEW m, Moves(c, l, m), m \notin Holding, l # "pop"
  PROVE  Holds(c)
<1>1. "pop" \in Holding BY DEF Holding
<1> QED BY <1>1 DEF Moves, Holds

LEMMA MovesRests ==
  ASSUME NEW c \in Ctx, NEW l, NEW m, Moves(c, l, m)
  PROVE  \A d \in Ctx \ {c} : Rests(d)
  BY DEF Moves, Rests

\* A step of the pump does one thing to the queue.
LEMMA PumpQueue ==
  ASSUME TypeInv, NEW c \in Ctx, PumpStep(c)
  PROVE  (Keeps \/ Discards \/ Pops \/ Sends(c)) /\ Holds(c)
<1>0. loc \in [Ctx -> Local] BY TypeData
<1>h. Holding = {"send", "drop", "pop", "sent", "sent+", "mark"} BY DEF Holding
<1>q. Quiet => Keeps BY DEF Quiet, core, Keeps
<1>1. CASE ReadStats(c) \/ CompareResponses(c) \/ TestCredited(c) \/ Take(c)
  <2>1. /\ Keeps
        /\ \/ Moves(c, "stats", "delta") \/ Moves(c, "delta", "deltafail")
           \/ Moves(c, "test", "check") \/ Moves(c, "test", "take")
           \/ Moves(c, "take", "clear") \/ Moves(c, "expire", "lapse")
    BY <1>1, <1>q, ReadStatsDoes, CompareResponsesDoes, TestCreditedDoes, TakeDoes
  <2> QED BY <1>h, <2>1, AsideHolds
<1>2. CASE CompareFailures(c)
  <2>1. Keeps /\ (Moves(c, "deltafail", "settle") \/ Moves(c, "deltafail", "check"))
    BY <1>2, <1>q, CompareFailuresDoes
  <2> QED BY <1>h, <2>1, AsideHolds
<1>3. CASE RememberResponses(c) \/ RememberFailures(c) \/ Clear(c)
  <2>1. Keeps BY <1>3, RememberResponsesDoes, RememberFailuresDoes, ClearDoes DEF Keeps
  <2> QED BY <1>3, <1>h, <2>1, AsideHolds, RememberResponsesDoes, RememberFailuresDoes, ClearDoes
<1>4. CASE CreditOk(c) \/ CreditFailed(c) \/ CountTimeout(c)
  <2>1. Keeps BY <1>4, CreditOkDoes, CreditFailedDoes, CountTimeoutDoes DEF Keeps, Stores
  <2> QED BY <1>4, <1>h, <2>1, AsideHolds, CreditOkDoes, CreditFailedDoes, CountTimeoutDoes
<1>5. CASE TestInflight(c) \/ TestElapsed(c) \/ TestQueue(c)
  BY <1>5, <1>h, <1>q, AsideHolds, TestInflightDoes, TestElapsedDoes, TestQueueDoes
<1>6. CASE CountLoad(c)
  <2>1. PICK k \in Counters : /\ Moves(c, k, StoreLabel[k])
                              /\ loc'[c] = [loc[c] EXCEPT !.reg = cnt[k]]
    BY <1>6, CountLoadDoes
  <2>2. Keeps BY <1>6, <1>q, CountLoadDoes
  <2>3. cnt[k] \in Nat BY TypeData DEF DataOK, Cnt
  <2>4. loc'[c].frame = loc[c].frame BY <1>0, <2>1, <2>3, LocalReplaced
  <2>5. pc[c] = k /\ pc'[c] = StoreLabel[k] BY <2>1 DEF Moves
  <2>6. /\ StoreLabel[k] # "pop" /\ k # "pop"
        /\ StoreLabel[k] \in Holding => k \in Holding
    BY <1>h DEF StoreLabel, Counters
  <2> QED BY <2>2, <2>4, <2>5, <2>6 DEF Holds
<1>7. CASE Peek(c)
  <2>1. Keeps BY <1>7, <1>q, PeekDoes
  <2>2. CASE Moves(c, "peek", "idle") BY <1>h, <2>1, <2>2, AsideHolds
  <2>3. CASE /\ txQueue # << >> /\ Moves(c, "peek", "send") /\ Head(txQueue) \in Frame
             /\ loc'[c] = [loc[c] EXCEPT !.frame = Head(txQueue)]
    <3>1. loc'[c].frame = Head(txQueue) BY <1>0, <2>3, LocalReplaced
    <3> QED BY <2>1, <2>3, <3>1 DEF Holds, Moves
  <2> QED BY <1>7, <2>1, <2>2, <2>3, PeekDoes
<1>8. CASE SendTaken(c)
  <2>1. pc[c] = "send" /\ pc'[c] = "pop" /\ loc'[c] = loc[c]
    BY <1>8, SendTakenDoes DEF Moves
  <2>2. Sends(c) BY <1>8, <2>1, SendTakenDoes DEF Sends, core
  <2> QED BY <1>h, <2>1, <2>2 DEF Holds
<1>9. CASE SendRaises(c)
  <2>1. Keeps /\ Moves(c, "send", "drop") /\ loc'[c] = loc[c] BY <1>9, <1>q, SendRaisesDoes
  <2> QED BY <1>h, <2>1 DEF Holds, Moves
<1>10. CASE DropRefused(c)
  <2>1. Moves(c, "drop", "idle") /\ (Discards \/ Keeps) BY <1>10, DropRefusedDoes DEF Keeps
  <2> QED BY <1>h, <2>1, AsideHolds
<1>11. CASE Pop(c)
  <2>1. UNCHANGED hist BY <1>11, PopDoes
  <2>2. CASE txQueue = << >> /\ txQueue' = txQueue /\ Moves(c, "pop", "idle")
    BY <1>h, <2>1, <2>2 DEF Keeps, Holds, Moves
  <2>3. CASE /\ txQueue # << >> /\ txQueue' = Tail(txQueue)
             /\ Moves(c, "pop", "sent") /\ loc'[c] = loc[c]
    <3>1. pc[c] = "pop" /\ pc'[c] = "sent" BY <2>3 DEF Moves
    <3>2. Pops BY <2>1, <2>3, <3>1 DEF Pops
    <3> QED BY <1>h, <2>3, <3>1, <3>2 DEF Holds
  <2> QED BY <1>11, <2>2, <2>3, PopDoes
<1>12. CASE CountSent(c)
  <2>1. /\ Stores(c, "sent") /\ Moves(c, "sent+", "mark")
        /\ loc'[c] = [loc[c] EXCEPT !.reg = 0]
    BY <1>12, CountSentDoes
  <2>2. loc'[c].frame = loc[c].frame BY <1>0, <2>1, LocalReplaced
  <2> QED BY <1>h, <2>1, <2>2 DEF Stores, Keeps, Holds, Moves
<1>13. CASE MarkInflight(c)
  <2>1. Keeps /\ Moves(c, "mark", "idle") BY <1>13, MarkInflightDoes DEF Keeps
  <2> QED BY <1>h, <2>1, AsideHolds
<1> QED BY <1>1, <1>2, <1>3, <1>4, <1>5, <1>6, <1>7, <1>8, <1>9, <1>10, <1>11, <1>12, <1>13
        DEF PumpStep

LEMMA StepQueue ==
  ASSUME TypeInv, [Next]_vars
  PROVE  (Keeps \/ Accepts \/ Discards \/ Pops \/ \E c \in Ctx : Sends(c)) /\ Contexts
<1>c. "main" \in Ctx /\ "irq" \in Ctx /\ Ctx = {"main", "irq"} BY LocalTypes
<1>q. Quiet => Keeps BY DEF Quiet, core, Keeps
<1>h. Holding = {"send", "drop", "pop", "sent", "sent+", "mark"} BY DEF Holding
<1>1. ASSUME NEW c \in Ctx, PumpStep(c)
      PROVE  (Keeps \/ Accepts \/ Discards \/ Pops \/ \E d \in Ctx : Sends(d)) /\ Contexts
  <2>1. \A d \in Ctx \ {c} : Rests(d) BY <1>1, PumpControl DEF PumpMoves, Rests
  <2>2. Contexts BY <1>1, <2>1, PumpQueue, RestHolds DEF Contexts
  <2> QED BY <1>1, <2>2, PumpQueue
<1>m. ASSUME NEW c \in Ctx, NEW l, NEW m, Moves(c, l, m), m \notin Holding, l # "pop"
      PROVE  Contexts
  <2>1. Holds(c) /\ \A d \in Ctx \ {c} : Rests(d) BY <1>m, AsideHolds, MovesRests
  <2> QED BY <2>1, RestHolds DEF Contexts
<1>2. CASE WaitPump
  <2>1. Keeps /\ Moves("main", "idle", "stats") BY <1>2, WaitPumpDoes DEF core, Keeps
  <2> QED BY <1>c, <1>h, <1>m, <2>1
<1>3. CASE SendFragmented
  <2>1. Keeps /\ Moves("main", "idle", "enq") BY <1>3, SendFragmentedDoes DEF Keeps
  <2> QED BY <1>c, <1>h, <1>m, <2>1
<1>4. CASE EnqTest
  <2>1. Keeps /\ (Moves("main", "enq", "enqdrop") \/ Moves("main", "enq", "enqapp"))
    BY <1>4, <1>q, EnqTestDoes
  <2> QED BY <1>c, <1>h, <1>m, <2>1
<1>5. CASE EnqDropOldest
  <2>1. /\ Keeps \/ Discards
        /\ Moves("main", "enqdrop", "idle") \/ Moves("main", "enqdrop", "enqapp")
    BY <1>5, EnqDropOldestDoes DEF Keeps
  <2> QED BY <1>c, <1>h, <1>m, <2>1
<1>6. CASE EnqAppend
  <2>1. Accepts /\ Moves("main", "enqapp", "queued") BY <1>6, EnqAppendDoes
  <2> QED BY <1>c, <1>h, <1>m, <2>1
<1>7. CASE EnqCounted
  <2>1. /\ Keeps
        /\ Moves("main", "queued+", "enq") \/ Moves("main", "queued+", "stats")
    BY <1>7, EnqCountedDoes DEF Stores, Keeps
  <2> QED BY <1>c, <1>h, <1>m, <2>1
<1>8. CASE IrqPump
  <2>1. Keeps /\ Moves("irq", "idle", "stats") BY <1>8, IrqPumpDoes DEF core, Keeps
  <2> QED BY <1>c, <1>h, <1>m, <2>1
<1>9. CASE SendDirect \/ TimePasses \/ DriverAnswers \/ UNCHANGED vars
  <2>1. UNCHANGED <<txQueue, hist, pc, loc>>
    BY <1>9 DEF SendDirect, TimePasses, DriverAnswers, vars, core
  <2>2. \A c \in Ctx : Rests(c) BY <2>1 DEF Rests
  <2> QED BY <2>1, <2>2, RestHolds DEF Keeps, Contexts
<1> QED BY <1>c, <1>1, <1>2, <1>3, <1>4, <1>5, <1>6, <1>7, <1>8, <1>9 DEF Next, MainStep

\* The head of a queue, and what is left without it.
LEMMA TailAt ==
  ASSUME NEW S, NEW s \in Seq(S), s # << >>
  PROVE  /\ Len(s) \in Nat \ {0} /\ Head(s) = s[1] /\ Tail(s) \in Seq(S)
         /\ Len(Tail(s)) = Len(s) - 1
         /\ \A i \in 1 .. Len(s) - 1 : Tail(s)[i] = s[i + 1]
  OBVIOUS

LEMMA AppendAt ==
  ASSUME NEW S, NEW s \in Seq(S), NEW e \in S
  PROVE  /\ Append(s, e) \in Seq(S) /\ Len(s) \in Nat /\ Len(Append(s, e)) = Len(s) + 1
         /\ \A i \in 1 .. Len(s) : Append(s, e)[i] = s[i]
         /\ Append(s, e)[Len(s) + 1] = e
  OBVIOUS

LEMMA TypeQueue ==
  TypeInv => /\ txQueue \in Seq(Frame) /\ hist.accepted \in Seq(Frame)
             /\ hist.air \in Seq(Frame) /\ hist.discarded \in Seq(Frame)
             /\ Removed \in Int /\ Len(txQueue) \in Nat /\ Len(hist.accepted) \in Nat
             /\ AirCount \in Nat /\ DropCount \in Nat
  BY TypeData DEF DataOK, Hist, Removed, AirCount, DropCount

LEMMA TypeQueueNext ==
  TypeInv' => /\ hist'.accepted \in Seq(Frame) /\ hist'.air \in Seq(Frame)
              /\ hist'.discarded \in Seq(Frame)
              /\ Removed' \in Int /\ Len(txQueue') \in Nat /\ Len(hist'.accepted) \in Nat
              /\ AirCount' \in Nat /\ DropCount' \in Nat
<1> SUFFICES ASSUME TypeInv' PROVE TypeQueueNext!2
  OBVIOUS
<1>1. /\ hist' \in [accepted : Seq(Frame), air : Seq(Frame), discarded : Seq(Frame)]
      /\ txQueue' \in Seq(Frame)
  BY DEF TypeInv, TypeOK
<1> QED BY <1>1 DEF Removed, AirCount, DropCount

\* The fragments that left the queue are counted one by one, at its head.
LEMMA RemovedGrows ==
  ASSUME TypeInv, Discards \/ Pops
  PROVE  Removed' = Removed + 1
<1>1. txQueue # << >> /\ txQueue' = Tail(txQueue) /\ hist'.accepted = hist.accepted
  BY DEF Discards, Pops
<1>2. Len(txQueue') = Len(txQueue) - 1 BY <1>1, TypeQueue, TailAt
<1> QED BY <1>1, <1>2, TypeQueue DEF Removed

LEMMA RemovedStays ==
  ASSUME TypeInv, Keeps \/ Accepts \/ \E c \in Ctx : Sends(c)
  PROVE  Removed' = Removed
<1>1. CASE Keeps \/ \E c \in Ctx : Sends(c)
  BY <1>1 DEF Keeps, Sends, Removed
<1>2. CASE Accepts
  <2>1. PICK f \in Frame : /\ txQueue' = Append(txQueue, f)
                           /\ hist'.accepted = Append(hist.accepted, f)
    BY <1>2 DEF Accepts
  <2>2. Len(txQueue') = Len(txQueue) + 1 /\ Len(hist'.accepted) = Len(hist.accepted) + 1
    BY <2>1, TypeQueue, AppendAt
  <2> QED BY <2>2, TypeQueue DEF Removed
<1> QED BY <1>1, <1>2

\* A queue that is the rest of a sequence from some place on stays so when both
\* grow by the same element, and when its head is taken from it.
IsRest(q, a, r) ==
  /\ Len(a) = Len(q) + r
  /\ \A i \in 1 .. Len(q) : q[i] = a[r + i]

LEMMA RestGrows ==
  ASSUME NEW S, NEW q \in Seq(S), NEW a \in Seq(S), NEW r \in Nat, NEW e \in S, IsRest(q, a, r)
  PROVE  IsRest(Append(q, e), Append(a, e), r)
<1> DEFINE q2 == Append(q, e)
<1> DEFINE a2 == Append(a, e)
<1>1. /\ Len(q2) = Len(q) + 1 /\ q2[Len(q) + 1] = e /\ Len(q) \in Nat
      /\ \A i \in 1 .. Len(q) : q2[i] = q[i]
  BY AppendAt
<1>2. /\ Len(a2) = Len(a) + 1 /\ a2[Len(a) + 1] = e /\ Len(a) \in Nat
      /\ \A i \in 1 .. Len(a) : a2[i] = a[i]
  BY AppendAt
<1> HIDE DEF q2, a2
<1>3. Len(a) = Len(q) + r /\ \A i \in 1 .. Len(q) : q[i] = a[r + i]
  BY DEF IsRest
<1>4. ASSUME NEW i \in 1 .. Len(q2)
      PROVE  q2[i] = a2[r + i]
  <2>1. CASE i = Len(q) + 1
    <3>1. r + i = Len(a) + 1 BY <1>1, <1>2, <1>3, <2>1
    <3> QED BY <1>1, <1>2, <2>1, <3>1
  <2>2. CASE i # Len(q) + 1
    <3>1. i \in 1 .. Len(q) /\ r + i \in 1 .. Len(a) BY <1>1, <1>2, <1>3, <2>2
    <3> QED BY <1>1, <1>2, <1>3, <3>1
  <2> QED BY <2>1, <2>2
<1>5. Len(a2) = Len(q2) + r BY <1>1, <1>2, <1>3
<1>6. IsRest(q2, a2, r) BY <1>4, <1>5 DEF IsRest
<1> QED BY <1>6 DEF q2, a2

LEMMA RestShrinks ==
  ASSUME NEW S, NEW q \in Seq(S), q # << >>, NEW a, NEW r \in Nat, IsRest(q, a, r)
  PROVE  IsRest(Tail(q), a, r + 1)
<1> DEFINE q2 == Tail(q)
<1>1. /\ Len(q) \in Nat \ {0} /\ Len(q2) = Len(q) - 1
      /\ \A i \in 1 .. Len(q) - 1 : q2[i] = q[i + 1]
  BY TailAt
<1> HIDE DEF q2
<1>2. Len(a) = Len(q) + r /\ \A i \in 1 .. Len(q) : q[i] = a[r + i]
  BY DEF IsRest
<1>3. ASSUME NEW i \in 1 .. Len(q2)
      PROVE  q2[i] = a[r + 1 + i]
  <2>1. i \in 1 .. Len(q) - 1 /\ i + 1 \in 1 .. Len(q) /\ r + 1 + i = r + (i + 1)
    BY <1>1
  <2> QED BY <1>1, <1>2, <2>1
<1>4. Len(a) = Len(q2) + (r + 1) BY <1>1, <1>2
<1>5. IsRest(q2, a, r + 1) BY <1>3, <1>4 DEF IsRest
<1> QED BY <1>5 DEF q2

LEMMA RestOfQueue ==
  TypeInv => (QueueIsRest <=> Removed \in Nat /\ IsRest(txQueue, hist.accepted, Removed))
  BY TypeQueue DEF QueueIsRest, IsRest, Removed

LEMMA QueuePreserved ==
  ASSUME TypeInv, TypeInv', QueueIsRest, [Next]_vars
  PROVE  QueueIsRest'
<1>0. Removed \in Nat /\ IsRest(txQueue, hist.accepted, Removed)
  BY RestOfQueue
<1> SUFFICES Removed' \in Nat /\ IsRest(txQueue', hist'.accepted, Removed')
  BY DEF QueueIsRest, IsRest
<1>1. CASE Keeps \/ \E c \in Ctx : Sends(c)
  <2>1. Removed' = Removed /\ txQueue' = txQueue /\ hist'.accepted = hist.accepted
    BY <1>1, RemovedStays DEF Keeps, Sends
  <2> QED BY <1>0, <2>1
<1>2. CASE Accepts
  <2>1. PICK f \in Frame : /\ txQueue' = Append(txQueue, f)
                           /\ hist'.accepted = Append(hist.accepted, f)
    BY <1>2 DEF Accepts
  <2>2. Removed' = Removed BY <1>2, RemovedStays
  <2> QED BY <1>0, <2>1, <2>2, RestGrows, TypeQueue
<1>3. CASE Discards \/ Pops
  <2>1. txQueue # << >> /\ txQueue' = Tail(txQueue) /\ hist'.accepted = hist.accepted
    BY <1>3 DEF Discards, Pops
  <2>2. Removed' = Removed + 1 BY <1>3, RemovedGrows
  <2> QED BY <1>0, <2>1, <2>2, RestShrinks, TypeQueue
<1> QED BY <1>1, <1>2, <1>3, StepQueue

\* The position of an accepted fragment does not change, and what has left the
\* queue has left it for good.
LEMMA PositionsStay ==
  ASSUME TypeInv, TypeInv', QueueIsRest, QueueIsRest', [Next]_vars
  PROVE  /\ Removed' \in Nat /\ Removed \in Nat /\ Removed' >= Removed
         /\ \A k \in Position : k \in Position' /\ hist'.accepted[k] = hist.accepted[k]
<1>0. Removed' \in Nat /\ Removed \in Nat BY DEF QueueIsRest
<1>1. CASE Keeps \/ \E c \in Ctx : Sends(c)
  BY <1>0, <1>1, RemovedStays DEF Keeps, Sends, Position
<1>2. CASE Accepts
  <2>1. PICK f \in Frame : hist'.accepted = Append(hist.accepted, f)
    BY <1>2 DEF Accepts
  <2> QED BY <1>0, <1>2, <2>1, RemovedStays, TypeQueue, AppendAt DEF Position
<1>3. CASE Discards \/ Pops
  BY <1>0, <1>3, RemovedGrows DEF Discards, Pops, Position
<1> QED BY <1>1, <1>2, <1>3, StepQueue

\* The head of the queue is the first fragment that has not left it.
LEMMA HeadPosition ==
  ASSUME TypeInv, QueueIsRest, txQueue # << >>
  PROVE  Removed + 1 \in Position /\ hist.accepted[Removed + 1] = Head(txQueue)
<1>1. Len(txQueue) \in Nat \ {0} /\ Head(txQueue) = txQueue[1]
  BY TypeQueue, TailAt
<1>2. /\ Len(hist.accepted) = Len(txQueue) + Removed
      /\ \A i \in 1 .. Len(txQueue) : txQueue[i] = hist.accepted[Removed + i]
  BY RestOfQueue DEF IsRest
<1>3. Removed \in Nat BY DEF QueueIsRest
<1> QED BY <1>1, <1>2, <1>3 DEF Position

LEMMA HeldPreserved ==
  ASSUME TypeInv, TypeInv', QueueIsRest, QueueIsRest', HeldWasHead, [Next]_vars
  PROVE  HeldWasHead'
<1> SUFFICES ASSUME NEW c \in Ctx, pc'[c] \in Holding
             PROVE  \E k \in Position' : k <= Removed' + 1 /\ hist'.accepted[k] = loc'[c].frame
  BY DEF HeldWasHead
<1>0. Holds(c) BY StepQueue DEF Contexts
<1>1. \A k \in Position : k \in Nat BY TypeQueue DEF Position
<1>2. CASE pc[c] \in Holding /\ loc'[c].frame = loc[c].frame
  <2>1. PICK k \in Position : k <= Removed + 1 /\ hist.accepted[k] = loc[c].frame
    BY <1>2 DEF HeldWasHead
  <2>2. k \in Position' /\ hist'.accepted[k] = loc'[c].frame /\ k <= Removed' + 1
    BY <1>1, <1>2, <2>1, PositionsStay
  <2> QED BY <2>2
<1>3. CASE txQueue # << >> /\ loc'[c].frame = Head(txQueue)
  <2>1. Removed + 1 \in Position /\ hist.accepted[Removed + 1] = Head(txQueue)
    BY <1>3, HeadPosition
  <2>2. Removed + 1 \in Position' /\ hist'.accepted[Removed + 1] = loc'[c].frame
        /\ Removed + 1 <= Removed' + 1
    BY <1>3, <2>1, PositionsStay
  <2> QED BY <2>2
<1> QED BY <1>0, <1>2, <1>3 DEF Holds

LEMMA HandledPreserved ==
  ASSUME TypeInv, TypeInv', QueueIsRest, QueueIsRest', HeldWasHead, HandledLeaves, [Next]_vars
  PROVE  HandledLeaves'
<1> SUFFICES ASSUME NEW f \in Range(hist'.air) \cup Range(hist'.discarded),
                    ~ \E k \in Position' : k <= Removed' /\ hist'.accepted[k] = f
             PROVE  \E c \in Ctx : Unpopped(c)' /\ loc'[c].frame = f
  BY DEF HandledLeaves
<1>0. \A k \in Position : k \in Nat BY TypeQueue DEF Position
<1>1. ~ \E k \in Position : k <= Removed /\ hist.accepted[k] = f
  BY <1>0, PositionsStay
<1>2. CASE f \in Range(hist.air) \cup Range(hist.discarded)
  <2>1. PICK c \in Ctx : pc[c] = "pop" /\ loc[c].frame = f
    BY <1>1, <1>2 DEF HandledLeaves, Unpopped
  <2>2. pc[c] \in Holding BY <2>1 DEF Holding
  <2>3. PICK k \in Position : k <= Removed + 1 /\ hist.accepted[k] = f
    BY <2>1, <2>2 DEF HeldWasHead
  <2>4. Holds(c) /\ c \in Ctx BY StepQueue DEF Contexts
  <2>5. CASE pc'[c] = "pop"
    <3>1. loc'[c].frame = loc[c].frame
      BY <2>1, <2>2, <2>4, <2>5 DEF Holds, Holding
    <3> QED BY <2>1, <2>5, <3>1 DEF Unpopped
  <2>6. CASE pc'[c] # "pop"
    <3>1. CASE Pops
      <4>1. Removed' = Removed + 1 BY <3>1, RemovedGrows
      <4> QED BY <2>3, <4>1, PositionsStay
    <3>2. CASE Keeps /\ txQueue = << >>
      <4>1. Removed' = Removed BY <3>2, RemovedStays
      <4>2. k <= Removed
        BY <2>3, <3>2, TypeQueue DEF Position, Removed
      <4> QED BY <2>3, <4>1, <4>2, PositionsStay
    <3> QED BY <2>1, <2>4, <2>6, <3>1, <3>2 DEF Holds
  <2> QED BY <2>5, <2>6
<1>3. CASE f \notin Range(hist.air) \cup Range(hist.discarded)
  <2>1. CASE Keeps \/ Accepts \/ Pops
    BY <1>3, <2>1 DEF Keeps, Accepts, Pops
  <2>2. CASE Discards
    <3>1. f = Head(txQueue) BY <1>3, <2>2, TypeQueue, TailAt DEF Discards, Range
    <3>2. Removed + 1 \in Position /\ hist.accepted[Removed + 1] = f /\ Removed' = Removed + 1
      BY <2>2, <3>1, HeadPosition, RemovedGrows DEF Discards
    <3> QED BY <3>2, PositionsStay
  <2>3. ASSUME NEW c \in Ctx, Sends(c) PROVE \E d \in Ctx : Unpopped(d)' /\ loc'[d].frame = f
    <3>1. loc[c].frame \in Frame BY <2>3 DEF Sends, TypeInv, LocalsOK, Holding
    <3>2. f = loc[c].frame BY <1>3, <2>3, <3>1, TypeQueue DEF Sends, Range
    <3> QED BY <2>3, <3>2 DEF Sends, Unpopped
  <2> QED BY <2>1, <2>2, <2>3, StepQueue
<1> QED BY <1>2, <1>3

\* A context comes to the pop only from a transmission of its own.
LEMMA PopFollowsSend ==
  ASSUME TypeInv, [Next]_vars, hist'.air = hist.air, NEW c \in Ctx, pc'[c] = "pop"
  PROVE  pc[c] = "pop"
<1> SUFFICES ASSUME Sends(c) PROVE FALSE
  BY StepQueue DEF Contexts, Holds
<1>1. loc[c].frame \in Frame BY DEF Sends, TypeInv, LocalsOK, Holding
<1>2. Len(Append(hist.air, loc[c].frame)) = Len(hist.air) + 1 /\ Len(hist.air) \in Nat
  BY <1>1, TypeQueue, AppendAt
<1> QED BY <1>2 DEF Sends

LEMMA LeavesPreserved ==
  ASSUME TypeInv, TypeInv', LeavesAreHandled, [Next]_vars
  PROVE  LeavesAreHandled'
<1>p. PICK a2 \in Nat, d2 \in Nat : a2 = AirCount' /\ d2 = DropCount'
  BY TypeQueueNext
<1> DEFINE handled == AirCount + DropCount
<1> DEFINE handled2 == a2 + d2
<1> DEFINE u == UnpoppedCount
<1> DEFINE u2 == UnpoppedCount'
<1>u. /\ u2 = (IF pc'["main"] = "pop" THEN 1 ELSE 0) + (IF pc'["irq"] = "pop" THEN 1 ELSE 0)
      /\ u = (IF pc["main"] = "pop" THEN 1 ELSE 0) + (IF pc["irq"] = "pop" THEN 1 ELSE 0)
      /\ Ctx = {"main", "irq"}
  BY LocalTypes DEF UnpoppedCount, Unpopped
<1>r. AirCount \in Nat /\ DropCount \in Nat /\ Removed \in Int /\ Removed' \in Int
  BY TypeQueue, TypeQueueNext
<1>h. handled \in Nat /\ handled2 \in Nat BY <1>r
<1>v. u \in Nat /\ u2 \in Nat BY <1>u
<1>0. handled >= Removed + u BY DEF LeavesAreHandled
<1>n. (\A c \in Ctx : pc'[c] = "pop" => pc[c] = "pop") => u2 <= u
  BY <1>u
<1>a. ASSUME hist'.air = hist.air, hist'.discarded = hist.discarded
      PROVE  handled2 = handled
  BY <1>a, <1>p DEF AirCount, DropCount
<1>b. ASSUME hist'.air = hist.air, Len(hist'.discarded) = Len(hist.discarded) + 1
      PROVE  handled2 = handled + 1
  <2>1. AirCount' = AirCount /\ DropCount' = DropCount + 1 BY <1>b DEF AirCount, DropCount
  <2> QED BY <1>p, <2>1, TypeQueue
<1>c. ASSUME Len(hist'.air) = Len(hist.air) + 1, hist'.discarded = hist.discarded
      PROVE  handled2 = handled + 1
  <2>1. AirCount' = AirCount + 1 /\ DropCount' = DropCount BY <1>c DEF AirCount, DropCount
  <2> QED BY <1>p, <2>1, TypeQueue
<1>s. handled2 >= Removed' + u2 => LeavesAreHandled'
  BY <1>p DEF LeavesAreHandled
<1> HIDE DEF handled, handled2, u, u2
<1>1. CASE Keeps \/ Accepts
  <2>1. hist'.air = hist.air /\ hist'.discarded = hist.discarded /\ Removed' = Removed
    BY <1>1, RemovedStays DEF Keeps, Accepts
  <2>2. u2 <= u BY <1>n, <2>1, PopFollowsSend
  <2>3. handled2 = handled BY <1>a, <2>1
  <2> QED BY <1>0, <1>h, <1>r, <1>s, <1>v, <2>1, <2>2, <2>3
<1>2. CASE Discards
  <2>1. hist'.air = hist.air /\ Removed' = Removed + 1 BY <1>2, RemovedGrows DEF Discards
  <2>2. Head(txQueue) \in Frame BY <1>2, TypeQueue, TailAt DEF Discards
  <2>3. Len(hist'.discarded) = Len(hist.discarded) + 1
    BY <1>2, <2>2, TypeQueue, AppendAt DEF Discards
  <2>4. u2 <= u BY <1>n, <2>1, PopFollowsSend
  <2>5. handled2 = handled + 1 BY <1>b, <2>1, <2>3
  <2> QED BY <1>0, <1>h, <1>r, <1>s, <1>v, <2>1, <2>4, <2>5
<1>3. CASE Pops
  <2>1. /\ hist'.air = hist.air /\ hist'.discarded = hist.discarded /\ Removed' = Removed + 1
        /\ \E c \in Ctx : pc[c] = "pop" /\ pc'[c] # "pop"
    BY <1>3, RemovedGrows DEF Pops
  <2>2. \A c \in Ctx : pc'[c] = "pop" => pc[c] = "pop" BY <2>1, PopFollowsSend
  <2>3. u2 + 1 <= u BY <1>u, <2>1, <2>2
  <2>4. handled2 = handled BY <1>a, <2>1
  <2> QED BY <1>0, <1>h, <1>r, <1>s, <1>v, <2>1, <2>3, <2>4
<1>4. ASSUME NEW c \in Ctx, Sends(c)
      PROVE  LeavesAreHandled'
  <2>1. pc[c] = "send" /\ pc'[c] = "pop" /\ hist'.discarded = hist.discarded
    BY <1>4 DEF Sends
  <2>2. loc[c].frame \in Frame BY <2>1 DEF TypeInv, LocalsOK, Holding
  <2>3. Len(hist'.air) = Len(hist.air) + 1 BY <1>4, <2>2, TypeQueue, AppendAt DEF Sends
  <2>4. \A d \in Ctx \ {c} : pc'[d] = pc[d]
    BY <2>1, StepQueue DEF Contexts, Rests
  <2>5. u2 = u + 1 BY <1>u, <2>1, <2>4
  <2>6. handled2 = handled + 1 BY <1>c, <2>1, <2>3
  <2>7. Removed' = Removed BY <1>4, RemovedStays
  <2> QED BY <1>0, <1>h, <1>r, <1>s, <1>v, <2>5, <2>6, <2>7
<1> QED BY <1>1, <1>2, <1>3, <1>4, StepQueue

LEMMA InitLoss == Init => LossInv
<1> SUFFICES ASSUME Init PROVE LossInv
  OBVIOUS
<1>1. Removed = 0 BY DEF Init, Removed
<1>2. QueueIsRest BY <1>1 DEF Init, QueueIsRest
<1>3. HeldWasHead BY DEF Init, HeldWasHead, Holding, Ctx
<1>4. HandledLeaves BY DEF Init, HandledLeaves, Range
<1>5. LeavesAreHandled BY <1>1 DEF Init, LeavesAreHandled, AirCount, DropCount, UnpoppedCount, Unpopped, Ctx
<1> QED BY <1>2, <1>3, <1>4, <1>5 DEF LossInv

LEMMA NextLoss == TypeInv /\ LossInv /\ [Next]_vars => LossInv'
  BY NextType, QueuePreserved, HeldPreserved, HandledPreserved, LeavesPreserved DEF LossInv

\* The elements at the first r places of a sequence are at most r.
LEMMA FirstPlaces ==
  ASSUME NEW a, NEW r \in Nat
  PROVE  LET W == {a[k] : k \in 1 .. r} IN IsFiniteSet(W) /\ Cardinality(W) <= r
<1> DEFINE W == {a[k] : k \in 1 .. r}
<1> DEFINE f == [k \in 1 .. r |-> a[k]]
<1>1. f \in Surjection(1 .. r, W) BY DEF Surjection
<1>2. IsFiniteSet(1 .. r) /\ Cardinality(1 .. r) = r BY FS_Interval
<1> HIDE DEF f, W
<1>3. IsFiniteSet(W) /\ Cardinality(W) <= r BY <1>1, <1>2, FS_Surjection
<1> QED BY <1>3 DEF W

\* One more element makes a set larger by at most one.
LEMMA OneMore ==
  ASSUME NEW S, IsFiniteSet(S), NEW x, NEW b \in BOOLEAN
  PROVE  LET T == S \cup (IF b THEN {x} ELSE {})
         IN  /\ IsFiniteSet(T) /\ Cardinality(T) \in Nat
             /\ Cardinality(T) <= Cardinality(S) + (IF b THEN 1 ELSE 0)
<1>1. Cardinality(S) \in Nat BY FS_CardinalityType
<1>2. CASE b
  <2>1. IsFiniteSet(S \cup {x}) /\ Cardinality(S \cup {x}) <= Cardinality(S) + 1
    BY <1>1, FS_AddElement
  <2>2. Cardinality(S \cup {x}) \in Nat BY <2>1, FS_CardinalityType
  <2> QED BY <1>2, <2>1, <2>2
<1>3. CASE ~b
  <2>1. S \cup (IF b THEN {x} ELSE {}) = S BY <1>3
  <2> QED BY <1>1, <1>3, <2>1
<1> QED BY <1>2, <1>3

LEMMA ConcatRange ==
  ASSUME NEW S, NEW s \in Seq(S), NEW t \in Seq(S)
  PROVE  /\ Len(s \o t) = Len(s) + Len(t)
         /\ Range(s \o t) \subseteq Range(s) \cup Range(t)
<1>1. /\ s \o t \in Seq(S) /\ Len(s \o t) = Len(s) + Len(t) /\ Len(s) \in Nat /\ Len(t) \in Nat
      /\ \A i \in 1 .. Len(s) + Len(t) :
           (s \o t)[i] = IF i <= Len(s) THEN s[i] ELSE t[i - Len(s)]
  OBVIOUS
<1>2. DOMAIN (s \o t) = 1 .. Len(s) + Len(t) /\ DOMAIN s = 1 .. Len(s) /\ DOMAIN t = 1 .. Len(t)
  BY <1>1
<1>3. ASSUME NEW i \in 1 .. Len(s) + Len(t)
      PROVE  (s \o t)[i] \in Range(s) \cup Range(t)
  <2>1. CASE i <= Len(s)
    BY <1>1, <1>2, <2>1 DEF Range
  <2>2. CASE ~(i <= Len(s))
    <3>1. i - Len(s) \in 1 .. Len(t) BY <1>1, <2>2
    <3> QED BY <1>1, <1>2, <2>2, <3>1 DEF Range
  <2> QED BY <2>1, <2>2
<1> QED BY <1>1, <1>2, <1>3 DEF Range

\* What was lost and what was handled has left the queue or is about to, and there
\* are no more such fragments than pops, discards and pops to come.
LEMMA LossBound == TypeInv /\ LossInv => LossesArePaidFor
<1> SUFFICES ASSUME TypeInv, LossInv PROVE LossesArePaidFor
  OBVIOUS
<1> DEFINE W == {hist.accepted[k] : k \in 1 .. Removed}
<1> DEFINE M == W \cup (IF Unpopped("main") THEN {loc["main"].frame} ELSE {})
<1> DEFINE Gone == M \cup (IF Unpopped("irq") THEN {loc["irq"].frame} ELSE {})
<1> DEFINE handled == hist.air \o hist.discarded
<1> DEFINE H == Range(handled)
<1> DEFINE sent == AirCount
<1> DEFINE dropped == DropCount
<1>0. Removed \in Nat BY DEF LossInv, QueueIsRest
<1>1. Len(handled) = sent + dropped
      /\ H \subseteq Range(hist.air) \cup Range(hist.discarded)
  BY ConcatRange, TypeQueue DEF AirCount, DropCount
<1>2. H \subseteq Gone
  <2> SUFFICES ASSUME NEW f \in Range(hist.air) \cup Range(hist.discarded) PROVE f \in Gone
    BY <1>1
  <2>1. CASE \E k \in Position : k <= Removed /\ hist.accepted[k] = f
    <3>1. PICK k \in Position : k <= Removed /\ hist.accepted[k] = f BY <2>1
    <3>2. k \in 1 .. Removed BY <1>0, <3>1, TypeQueue DEF Position
    <3> QED BY <3>1, <3>2
  <2>2. CASE \E c \in Ctx : Unpopped(c) /\ loc[c].frame = f
    BY <2>2 DEF Ctx
  <2> QED BY <2>1, <2>2 DEF LossInv, HandledLeaves
<1>3. SilentlyLost \subseteq Gone
  <2> SUFFICES ASSUME NEW f \in Range(hist.accepted), f \notin Range(txQueue) PROVE f \in Gone
    BY DEF SilentlyLost
  <2>1. DOMAIN hist.accepted = 1 .. Len(hist.accepted) /\ DOMAIN txQueue = 1 .. Len(txQueue)
        /\ Len(hist.accepted) \in Nat /\ Len(txQueue) \in Nat
    BY TypeQueue
  <2>2. PICK k \in 1 .. Len(hist.accepted) : hist.accepted[k] = f
    BY <2>1 DEF Range
  <2>3. /\ Len(hist.accepted) = Len(txQueue) + Removed
        /\ \A i \in 1 .. Len(txQueue) : txQueue[i] = hist.accepted[Removed + i]
    BY RestOfQueue DEF LossInv, IsRest
  <2>4. k <= Removed
    <3> SUFFICES ASSUME k > Removed PROVE FALSE
      BY <1>0, <2>1, <2>2
    <3> HIDE DEF W, M, Gone, H, handled
    <3>1. k - Removed \in 1 .. Len(txQueue) /\ Removed + (k - Removed) = k
      <4>1. k \in Nat /\ k <= Len(txQueue) + Removed BY <2>1, <2>2, <2>3
      <4> QED BY <1>0, <2>1, <4>1
    <3>2. txQueue[k - Removed] = f BY <2>2, <2>3, <3>1
    <3> QED BY <2>1, <3>1, <3>2 DEF Range
  <2> QED BY <1>0, <2>1, <2>2, <2>4
<1>4. IsFiniteSet(Gone) /\ Cardinality(Gone) \in Nat /\ Cardinality(Gone) <= Removed + UnpoppedCount
  <2>1. IsFiniteSet(W) /\ Cardinality(W) <= Removed BY <1>0, FirstPlaces
  <2>2. Cardinality(W) \in Nat BY <2>1, FS_CardinalityType
  <2>3. Unpopped("main") \in BOOLEAN /\ Unpopped("irq") \in BOOLEAN BY DEF Unpopped
  <2> HIDE DEF W
  <2>4. IsFiniteSet(M) /\ Cardinality(M) \in Nat
        /\ Cardinality(M) <= Cardinality(W) + (IF Unpopped("main") THEN 1 ELSE 0)
    BY <2>1, <2>3, OneMore
  <2> HIDE DEF M
  <2>5. IsFiniteSet(Gone) /\ Cardinality(Gone) \in Nat
        /\ Cardinality(Gone) <= Cardinality(M) + (IF Unpopped("irq") THEN 1 ELSE 0)
    BY <2>3, <2>4, OneMore
  <2> HIDE DEF Gone
  <2> QED BY <1>0, <2>1, <2>2, <2>4, <2>5 DEF UnpoppedCount
<1>5. SilentlyLost \cap H = {} BY <1>1 DEF SilentlyLost
<1>6. sent \in Nat /\ dropped \in Nat
  BY TypeQueue
<1>7. sent + dropped >= Removed + UnpoppedCount
  BY DEF LossInv, LeavesAreHandled
<1> HIDE DEF Gone, H, handled, sent, dropped
<1>8. /\ IsFiniteSet(SilentlyLost) /\ IsFiniteSet(H) /\ IsFiniteSet(SilentlyLost \cup H)
      /\ Cardinality(SilentlyLost \cup H) <= Cardinality(Gone)
  BY <1>2, <1>3, <1>4, FS_Subset
<1>9. /\ Cardinality(SilentlyLost) \in Nat /\ Cardinality(H) \in Nat /\ UnpoppedCount \in Nat
      /\ Cardinality(SilentlyLost \cup H) = Cardinality(SilentlyLost) + Cardinality(H)
  <2>1. Cardinality(SilentlyLost) \in Nat /\ Cardinality(H) \in Nat BY <1>8, FS_CardinalityType
  <2>2. Cardinality(SilentlyLost \cup H)
          = Cardinality(SilentlyLost) + Cardinality(H) - Cardinality(SilentlyLost \cap H)
    BY <1>8, FS_Union
  <2>3. Cardinality(SilentlyLost \cap H) = 0 BY <1>5, FS_EmptySet, Zenon
  <2>4. UnpoppedCount \in Nat BY DEF UnpoppedCount
  <2> QED BY <2>1, <2>2, <2>3, <2>4
<1>10. Cardinality(SilentlyLost) <= Len(handled) - Cardinality(H)
  BY <1>0, <1>1, <1>4, <1>6, <1>7, <1>8, <1>9
<1> QED BY <1>10 DEF LossesArePaidFor, H, handled

LEMMA LossInvariant == Spec => [](TypeInv /\ LossInv)
<1>1. Init => TypeInv /\ LossInv BY InitType, InitLoss
<1>2. (TypeInv /\ LossInv) /\ [Next]_vars => (TypeInv /\ LossInv)' BY NextType, NextLoss
<1> QED BY <1>1, <1>2, PTL DEF Spec

\* A fragment that disappears in silence under the pre-empting callback is paid for:
\* another one was handled twice (_pump_tx_queue in both contexts).
THEOREM LossesPaid == Spec => []LossesArePaidFor
  BY LossBound, LossInvariant, PTL

-----------------------------------------------------------------------------
(* The counters, each incremented by a load and a store.                   *)

CountLabels == {"queued", "queued+", "sent", "sent+", "ok", "ok+", "failed", "failed+",
                "timeout", "timeout+"}

\* Context c moves, and the other one stands where it is.
Alone(c) == (c = "main" => pc["irq"] = "idle") /\ \A d \in Ctx \ {c} : Rests(d)
SameCounts == \A k \in Counters : cnt'[k] = cnt[k]

\* What a step may do to the counters: none is touched, context c comes to an
\* increment, loads the counter, or stores it.
NoCount ==
  /\ SameCounts
  /\ \A c \in Ctx : Rests(c) \/ (pc[c] \notin CountLabels /\ pc'[c] \notin CountLabels)
Begins(c, k) == Alone(c) /\ SameCounts /\ pc[c] \notin CountLabels /\ pc'[c] = k
Loads(c, k) ==
  /\ Alone(c) /\ SameCounts /\ pc[c] = k /\ pc'[c] = StoreLabel[k] /\ loc'[c].reg = cnt[k]
Saves(c, k) ==
  /\ Alone(c) /\ pc[c] = StoreLabel[k] /\ pc'[c] \notin CountLabels
  /\ cnt'[k] = loc[c].reg + 1 /\ \A j \in Counters \ {k} : cnt'[j] = cnt[j]

\* The head leaves the queue, in a pop.
TakesHead == txQueue # << >> /\ txQueue' = Tail(txQueue) /\ UNCHANGED hist

\* Every fragment that enters the queue is about to be counted, and so is every
\* one that a pop takes from it.
StepCounts ==
  \/ NoCount /\ (Keeps \/ Discards \/ \E c \in Ctx : Sends(c))
  \/ \E c \in Ctx : Begins(c, "queued") /\ Accepts
  \/ \E c \in Ctx : Begins(c, "sent") /\ TakesHead
  \/ \E c \in Ctx, k \in {"ok", "failed", "timeout"} : Begins(c, k) /\ Keeps
  \/ \E c \in Ctx, k \in Counters : (Loads(c, k) \/ Saves(c, k)) /\ Keeps

LEMMA MovesAlone ==
  ASSUME NEW c \in Ctx, NEW l, NEW m, Moves(c, l, m)
  PROVE  Alone(c) /\ pc[c] = l /\ pc'[c] = m
  BY DEF Moves, Alone, Rests

LEMMA MovesNoCount ==
  ASSUME NEW c \in Ctx, NEW l, NEW m, Moves(c, l, m), SameCounts,
         l \notin CountLabels, m \notin CountLabels
  PROVE  NoCount
  BY MovesAlone DEF Alone, NoCount

LEMMA QuietCounts ==
  /\ Quiet => Keeps /\ SameCounts
  /\ UNCHANGED cnt => SameCounts
  BY DEF Quiet, core, Keeps, SameCounts

LEMMA StoresSaves ==
  ASSUME TypeInv, NEW c \in Ctx, NEW k \in Counters, Stores(c, k), Alone(c),
         pc'[c] \notin CountLabels
  PROVE  Saves(c, k) /\ Keeps
<1>1. cnt \in Cnt /\ loc[c].reg + 1 \in Nat BY TypeData DEF DataOK, Local
<1>2. k \in Counters \cup {"direct"} /\ Counters \subseteq Counters \cup {"direct"}
  OBVIOUS
<1>3. cnt'[k] = loc[c].reg + 1 /\ \A j \in Counters \ {k} : cnt'[j] = cnt[j]
  BY <1>1, <1>2, CountType DEF Stores
<1> QED BY <1>3 DEF Stores, Saves, Keeps

LEMMA PumpCounts ==
  ASSUME TypeInv, NEW c \in Ctx, PumpStep(c)
  PROVE  StepCounts
<1>0. loc \in [Ctx -> Local] BY TypeData
<1>s. ASSUME NEW l, NEW m, Moves(c, l, m), SameCounts, l \notin CountLabels,
             m \notin CountLabels, Keeps \/ Discards \/ Sends(c)
      PROVE  StepCounts
  BY <1>s, MovesNoCount DEF StepCounts
<1>l. CountLabels = {"queued", "queued+", "sent", "sent+", "ok", "ok+", "failed", "failed+",
                     "timeout", "timeout+"}
  BY DEF CountLabels
<1>1. CASE ReadStats(c) \/ CompareResponses(c) \/ TestCredited(c) \/ Take(c)
  <2>1. /\ Keeps /\ SameCounts
        /\ \/ Moves(c, "stats", "delta") \/ Moves(c, "delta", "deltafail")
           \/ Moves(c, "test", "check") \/ Moves(c, "test", "take")
           \/ Moves(c, "take", "clear") \/ Moves(c, "expire", "lapse")
    BY <1>1, QuietCounts, ReadStatsDoes, CompareResponsesDoes, TestCreditedDoes, TakeDoes
  <2> QED BY <1>l, <1>s, <2>1
<1>2. CASE CompareFailures(c)
  <2>1. /\ Keeps /\ SameCounts
        /\ Moves(c, "deltafail", "settle") \/ Moves(c, "deltafail", "check")
    BY <1>2, QuietCounts, CompareFailuresDoes
  <2> QED BY <1>l, <1>s, <2>1
<1>3. CASE RememberResponses(c) \/ RememberFailures(c)
  <2>1. UNCHANGED <<txQueue, cnt, hist>>
        /\ (Moves(c, "settle", "settlefail") \/ Moves(c, "settlefail", "test"))
    BY <1>3, RememberResponsesDoes, RememberFailuresDoes
  <2>2. Keeps /\ SameCounts BY <2>1, QuietCounts DEF Keeps
  <2> QED BY <1>l, <1>s, <2>1, <2>2
<1>4. CASE Clear(c)
  <2>1. UNCHANGED <<txQueue, cnt, hist>>
        /\ \/ Moves(c, "clear", "failed") \/ Moves(c, "clear", "ok")
           \/ Moves(c, "lapse", "timeout")
    BY <1>4, ClearDoes
  <2>2. Keeps /\ SameCounts BY <2>1, QuietCounts DEF Keeps
  <2>3. \E k \in {"ok", "failed", "timeout"} : Begins(c, k)
    BY <1>l, <2>1, <2>2, MovesAlone DEF Begins
  <2> QED BY <2>2, <2>3 DEF StepCounts
<1>5. CASE CreditOk(c) \/ CreditFailed(c) \/ CountTimeout(c) \/ CountSent(c)
  <2>1. \E k \in Counters : Stores(c, k)
    BY <1>5, CreditOkDoes, CreditFailedDoes, CountTimeoutDoes, CountSentDoes DEF Counters
  <2>2. \/ Moves(c, "ok+", "check") \/ Moves(c, "failed+", "check")
        \/ Moves(c, "failed+", "idle") \/ Moves(c, "timeout+", "nonempty")
        \/ Moves(c, "timeout+", "idle") \/ Moves(c, "sent+", "mark")
    BY <1>5, CreditOkDoes, CreditFailedDoes, CountTimeoutDoes, CountSentDoes
  <2>3. Alone(c) /\ pc'[c] \notin CountLabels BY <1>l, <2>2, MovesAlone
  <2> QED BY <2>1, <2>3, StoresSaves DEF StepCounts
<1>6. CASE CountLoad(c)
  <2>1. PICK k \in Counters : /\ Moves(c, k, StoreLabel[k])
                              /\ loc'[c] = [loc[c] EXCEPT !.reg = cnt[k]]
    BY <1>6, CountLoadDoes
  <2>2. Keeps /\ SameCounts BY <1>6, QuietCounts, CountLoadDoes
  <2>3. cnt[k] \in Nat BY TypeData DEF DataOK, Cnt
  <2>4. loc'[c].reg = cnt[k] BY <1>0, <2>1, <2>3, LocalReplaced
  <2>5. Loads(c, k) BY <2>1, <2>2, <2>4, MovesAlone DEF Loads
  <2> QED BY <2>2, <2>5 DEF StepCounts
<1>7. CASE TestInflight(c) \/ TestElapsed(c) \/ TestQueue(c)
  <2>1. /\ Keeps /\ SameCounts
        /\ \/ Moves(c, "check", "nonempty") \/ Moves(c, "check", "elapsed")
           \/ Moves(c, "elapsed", "expire") \/ Moves(c, "elapsed", "idle")
           \/ Moves(c, "nonempty", "peek") \/ Moves(c, "nonempty", "idle")
    BY <1>7, QuietCounts, TestInflightDoes, TestElapsedDoes, TestQueueDoes
  <2> QED BY <1>l, <1>s, <2>1
<1>8. CASE Peek(c) \/ SendRaises(c)
  <2>1. /\ Keeps /\ SameCounts
        /\ \/ Moves(c, "peek", "send") \/ Moves(c, "peek", "idle")
           \/ Moves(c, "send", "drop")
    BY <1>8, QuietCounts, PeekDoes, SendRaisesDoes
  <2> QED BY <1>l, <1>s, <2>1
<1>9. CASE SendTaken(c)
  <2>1. Moves(c, "send", "pop") /\ UNCHANGED core BY <1>9, SendTakenDoes
  <2>2. SameCounts BY <2>1, QuietCounts DEF core
  <2>3. Sends(c) BY <1>9, <2>1, SendTakenDoes DEF Sends, Moves, core
  <2> QED BY <1>l, <1>s, <2>1, <2>2, <2>3
<1>10. CASE DropRefused(c)
  <2>1. /\ Moves(c, "drop", "idle") /\ (Discards \/ Keeps) /\ SameCounts
    BY <1>10, QuietCounts, DropRefusedDoes DEF Keeps
  <2> QED BY <1>l, <1>s, <2>1
<1>11. CASE Pop(c)
  <2>1. UNCHANGED hist /\ SameCounts BY <1>11, QuietCounts, PopDoes
  <2>2. CASE txQueue' = txQueue /\ Moves(c, "pop", "idle")
    <3>1. Keeps BY <2>1, <2>2 DEF Keeps
    <3> QED BY <1>l, <1>s, <2>1, <2>2, <3>1
  <2>3. CASE txQueue # << >> /\ txQueue' = Tail(txQueue) /\ Moves(c, "pop", "sent")
    <3>1. Begins(c, "sent") BY <1>l, <2>1, <2>3, MovesAlone DEF Begins
    <3>2. TakesHead BY <2>1, <2>3 DEF TakesHead
    <3> QED BY <3>1, <3>2 DEF StepCounts
  <2> QED BY <1>11, <2>2, <2>3, PopDoes
<1>12. CASE MarkInflight(c)
  <2>1. Keeps /\ SameCounts /\ Moves(c, "mark", "idle")
    BY <1>12, QuietCounts, MarkInflightDoes DEF Keeps
  <2> QED BY <1>l, <1>s, <2>1
<1> QED BY <1>1, <1>2, <1>3, <1>4, <1>5, <1>6, <1>7, <1>8, <1>9, <1>10, <1>11, <1>12
        DEF PumpStep

LEMMA NextCounts ==
  ASSUME TypeInv, [Next]_vars
  PROVE  StepCounts
<1>c. "main" \in Ctx /\ "irq" \in Ctx BY LocalTypes
<1>s. ASSUME NEW c \in Ctx, NEW l, NEW m, Moves(c, l, m), SameCounts, l \notin CountLabels,
             m \notin CountLabels, Keeps \/ Discards
      PROVE  StepCounts
  BY <1>s, MovesNoCount DEF StepCounts
<1>l. CountLabels = {"queued", "queued+", "sent", "sent+", "ok", "ok+", "failed", "failed+",
                     "timeout", "timeout+"}
  BY DEF CountLabels
<1>1. CASE WaitPump
  <2>1. Keeps /\ SameCounts /\ Moves("main", "idle", "stats")
    BY <1>1, QuietCounts, WaitPumpDoes DEF core, Keeps
  <2> QED BY <1>c, <1>l, <1>s, <2>1
<1>2. CASE SendFragmented
  <2>1. Keeps /\ SameCounts /\ Moves("main", "idle", "enq")
    BY <1>2, QuietCounts, SendFragmentedDoes DEF Keeps
  <2> QED BY <1>c, <1>l, <1>s, <2>1
<1>3. CASE EnqTest
  <2>1. /\ Keeps /\ SameCounts
        /\ Moves("main", "enq", "enqdrop") \/ Moves("main", "enq", "enqapp")
    BY <1>3, QuietCounts, EnqTestDoes
  <2> QED BY <1>c, <1>l, <1>s, <2>1
<1>4. CASE EnqDropOldest
  <2>1. /\ Keeps \/ Discards
        /\ SameCounts
        /\ Moves("main", "enqdrop", "idle") \/ Moves("main", "enqdrop", "enqapp")
    BY <1>4, QuietCounts, EnqDropOldestDoes DEF Keeps
  <2> QED BY <1>c, <1>l, <1>s, <2>1
<1>5. CASE EnqAppend
  <2>1. Accepts /\ SameCounts /\ Moves("main", "enqapp", "queued")
    BY <1>5, QuietCounts, EnqAppendDoes
  <2>2. Begins("main", "queued") BY <1>c, <1>l, <2>1, MovesAlone DEF Begins
  <2> QED BY <1>c, <2>1, <2>2 DEF StepCounts
<1>6. CASE EnqCounted
  <2>1. /\ Stores("main", "queued")
        /\ Moves("main", "queued+", "enq") \/ Moves("main", "queued+", "stats")
    BY <1>6, EnqCountedDoes
  <2>2. Alone("main") /\ pc'["main"] \notin CountLabels /\ "queued" \in Counters
    BY <1>c, <1>l, <2>1, MovesAlone DEF Counters
  <2> QED BY <1>c, <2>1, <2>2, StoresSaves DEF StepCounts
<1>7. CASE IrqPump
  <2>1. Keeps /\ SameCounts /\ Moves("irq", "idle", "stats")
    BY <1>7, QuietCounts, IrqPumpDoes DEF core, Keeps
  <2> QED BY <1>c, <1>l, <1>s, <2>1
<1>8. CASE SendDirect
  <2>1. /\ cnt' = [cnt EXCEPT !["direct"] = cnt["direct"] + 1]
        /\ UNCHANGED <<txQueue, hist, pc, loc>> /\ cnt \in Cnt
    BY <1>8, TypeData DEF SendDirect, DataOK
  <2>2. SameCounts BY <2>1 DEF SameCounts, Cnt, Counters
  <2> QED BY <2>1, <2>2 DEF Keeps, NoCount, Rests, StepCounts
<1>9. CASE TimePasses \/ DriverAnswers \/ UNCHANGED vars
  <2>1. UNCHANGED <<txQueue, hist, pc, loc, cnt>>
    BY <1>9 DEF TimePasses, DriverAnswers, vars, core
  <2> QED BY <2>1 DEF Keeps, NoCount, Rests, SameCounts, StepCounts
<1> QED BY <1>c, <1>1, <1>2, <1>3, <1>4, <1>5, <1>6, <1>7, <1>8, <1>9, PumpCounts
        DEF Next, MainStep

\* The port does not change, and what the callback tears is remembered.
LEMMA PumpBusy ==
  ASSUME NEW c \in Ctx, PumpStep(c)
  PROVE  pc[c] # "idle" /\ UNCHANGED <<irqOn, torn>>
<1>1. CASE \/ ReadStats(c) \/ CompareResponses(c) \/ CompareFailures(c)
           \/ RememberResponses(c) \/ RememberFailures(c) \/ TestCredited(c)
           \/ Take(c) \/ Clear(c) \/ CountLoad(c) \/ CreditOk(c) \/ CreditFailed(c)
  BY <1>1 DEF ReadStats, CompareResponses, CompareFailures, RememberResponses, RememberFailures,
       TestCredited, Take, Clear, CountLoad, Load, CreditOk, CreditFailed, Store, At, driver
<1>2. CASE \/ TestInflight(c) \/ TestElapsed(c) \/ CountTimeout(c)
           \/ TestQueue(c) \/ Peek(c) \/ SendTaken(c) \/ SendRaises(c)
           \/ DropRefused(c) \/ Pop(c) \/ CountSent(c) \/ MarkInflight(c)
  BY <1>2 DEF TestInflight, TestElapsed, CountTimeout, TestQueue, Peek, SendTaken, SendRaises,
       DropRefused, Pop, CountSent, MarkInflight, Store, At, driver
<1> QED BY <1>1, <1>2 DEF PumpStep

LEMMA StepTorn ==
  ASSUME TypeInv, [Next]_vars
  PROVE  /\ irqOn' = irqOn /\ torn \subseteq torn'
         /\ torn' # torn => irqOn
         /\ pc["irq"] = "idle" /\ pc'["irq"] # "idle" => /\ irqOn /\ torn' = torn \cup Tearing
                                                          /\ Rests("main")
<1>c. "main" \in Ctx /\ "irq" \in Ctx /\ Ctx = {"main", "irq"} /\ "irq" \in Ctx \ {"main"}
      /\ "main" \in Ctx \ {"irq"}
  BY LocalTypes
<1>1. CASE IrqPump
  BY <1>1, <1>c, IrqPumpDoes DEF Moves, Rests
<1>2. CASE PumpStep("irq")
  BY <1>2, <1>c, PumpBusy
<1>3. CASE PumpStep("main")
  <2>1. pc'["irq"] = pc["irq"] BY <1>3, <1>c, PumpControl DEF PumpMoves
  <2> QED BY <1>3, <1>c, <2>1, PumpBusy
<1>4. CASE EnqTest \/ EnqDropOldest \/ EnqAppend \/ EnqCounted \/ WaitPump \/ SendFragmented
  <2>1. UNCHANGED <<irqOn, torn>>
    BY <1>4 DEF EnqTest, EnqDropOldest, EnqAppend, EnqCounted, WaitPump, SendFragmented, Store,
         driver
  <2>2. \E l, m : Moves("main", l, m)
    BY <1>4, EnqTestDoes, EnqDropOldestDoes, EnqAppendDoes, EnqCountedDoes, WaitPumpDoes,
       SendFragmentedDoes
  <2>3. pc'["irq"] = pc["irq"] BY <1>c, <2>2 DEF Moves
  <2> QED BY <2>1, <2>3
<1>5. CASE SendDirect \/ TimePasses \/ DriverAnswers \/ UNCHANGED vars
  BY <1>5 DEF SendDirect, TimePasses, DriverAnswers, driver, vars
<1> QED BY <1>1, <1>2, <1>3, <1>4, <1>5 DEF Next, MainStep

\* The count a context has loaded: nothing comes between the callback's load and its
\* store; main's may be behind, but not that of a counter only main increments, nor
\* that of the transmissions unless the callback has come between.
Loaded(c, k) == pc[c] = StoreLabel[k]
Current(c, k) == loc[c].reg = cnt[k]
RegInv ==
  /\ \A k \in Counters : Loaded("irq", k) => Current("irq", k)
  /\ \A k \in Counters : Loaded("main", k) => loc["main"].reg <= cnt[k]
  /\ Loaded("main", "queued") => Current("main", "queued")
  /\ Loaded("main", "sent") /\ "sent" \notin torn =>
       Current("main", "sent") /\ pc["irq"] = "idle"
  /\ ~irqOn => /\ pc["irq"] = "idle" /\ torn = {}
               /\ \A k \in Counters : Loaded("main", k) => Current("main", k)

LEMMA StoreLabels ==
  /\ \A k \in Counters : StoreLabel[k] \in CountLabels /\ k \in CountLabels
                         /\ StoreLabel[k] \notin Counters
  /\ \A j, k \in Counters : StoreLabel[j] = StoreLabel[k] => j = k
  /\ StoreLabel["queued"] = "queued+" /\ StoreLabel["sent"] = "sent+"
  /\ "queued" \in Counters /\ "sent" \in Counters /\ "idle" \notin CountLabels
  /\ {"ok", "failed", "timeout"} \subseteq Counters
  BY DEF StoreLabel, CountLabels, Counters

LEMMA RegTypes ==
  TypeInv => \A k \in Counters, c \in Ctx : cnt[k] \in Nat /\ loc[c].reg \in Nat
  BY TypeData DEF DataOK, Cnt, Local

\* Who has loaded a counter has just done so, or stands still while the counters
\* stay, or while the other one stores one of them.
LEMMA StillLoaded ==
  ASSUME TypeInv, StepCounts, NEW c \in Ctx, NEW k \in Counters, Loaded(c, k)'
  PROVE  \/ Loads(c, k)
         \/ Rests(c) /\ Loaded(c, k) /\ SameCounts
         \/ \E d \in Ctx \ {c}, j \in Counters :
              Saves(d, j) /\ Rests(c) /\ Loaded(c, k)
<1>1. pc'[c] = StoreLabel[k] BY DEF Loaded
<1>2. CASE NoCount
  BY <1>1, <1>2, StoreLabels DEF NoCount, Rests, Loaded
<1>3. ASSUME NEW d \in Ctx, NEW j \in Counters, Begins(d, j)
      PROVE  Rests(c) /\ Loaded(c, k) /\ SameCounts
  <2>1. c # d BY <1>1, <1>3, StoreLabels DEF Begins
  <2> QED BY <1>1, <1>3, <2>1 DEF Begins, Alone, Rests, Loaded
<1>4. ASSUME NEW d \in Ctx, NEW j \in Counters, Loads(d, j)
      PROVE  Loads(c, k) \/ (Rests(c) /\ Loaded(c, k) /\ SameCounts)
  <2>1. CASE c = d
    <3>1. j = k BY <1>1, <1>4, <2>1, StoreLabels DEF Loads
    <3> QED BY <1>4, <2>1, <3>1
  <2>2. CASE c # d
    BY <1>1, <1>4, <2>2 DEF Loads, Alone, Rests, Loaded
  <2> QED BY <2>1, <2>2
<1>5. ASSUME NEW d \in Ctx, NEW j \in Counters, Saves(d, j)
      PROVE  d # c /\ Rests(c) /\ Loaded(c, k)
  <2>1. c # d BY <1>1, <1>5, StoreLabels DEF Saves
  <2> QED BY <1>1, <1>5, <2>1 DEF Saves, Alone, Rests, Loaded
<1> QED BY <1>2, <1>3, <1>4, <1>5, StoreLabels DEF StepCounts

LEMMA RegPreserved ==
  ASSUME TypeInv, RegInv, [Next]_vars
  PROVE  RegInv'
<1>c. /\ "main" \in Ctx /\ "irq" \in Ctx /\ Ctx \ {"main"} = {"irq"} /\ Ctx \ {"irq"} = {"main"}
      /\ StepCounts
  BY LocalTypes, NextCounts
<1>t. \A k \in Counters, c \in Ctx : cnt[k] \in Nat /\ loc[c].reg \in Nat BY RegTypes
<1>q. pc["irq"] # "queued+" BY TypeData DEF LocalsOK, Queueing, Increment
\* The callback runs only where main stands still.
<1>1. ASSUME NEW k \in Counters, Loaded("irq", k)' PROVE Current("irq", k)'
  <2>1. CASE Loads("irq", k)
    BY <2>1 DEF Loads, SameCounts, Current
  <2>2. CASE Rests("irq") /\ Loaded("irq", k) /\ SameCounts
    BY <2>2 DEF RegInv, Rests, SameCounts, Current
  <2>3. ASSUME NEW j \in Counters, Saves("main", j), Loaded("irq", k) PROVE FALSE
    BY <2>3, StoreLabels DEF Saves, Alone, Loaded
  <2> QED BY <1>1, <1>c, <2>1, <2>2, <2>3, StillLoaded
<1>2. ASSUME NEW k \in Counters, Loaded("main", k)'
      PROVE  \/ Current("main", k)' /\ Loads("main", k)
             \/ Rests("main") /\ Loaded("main", k) /\ cnt'[k] = cnt[k]
             \/ /\ Rests("main") /\ Loaded("main", k) /\ cnt'[k] = cnt[k] + 1 /\ irqOn
                /\ Loaded("irq", k)
  <2>1. CASE Loads("main", k)
    BY <2>1 DEF Loads, SameCounts, Current
  <2>2. CASE Rests("main") /\ Loaded("main", k) /\ SameCounts
    BY <2>2 DEF SameCounts
  <2>3. ASSUME NEW j \in Counters, Saves("irq", j), Rests("main"), Loaded("main", k)
        PROVE  \/ Rests("main") /\ Loaded("main", k) /\ cnt'[k] = cnt[k]
               \/ /\ Rests("main") /\ Loaded("main", k) /\ cnt'[k] = cnt[k] + 1 /\ irqOn
                  /\ Loaded("irq", k)
    <3>1. CASE j = k
      <4>1. Loaded("irq", k) /\ Current("irq", k) BY <2>3, <3>1 DEF Saves, Loaded, RegInv
      <4>2. irqOn BY <4>1, StoreLabels DEF RegInv, Loaded
      <4>3. cnt'[k] = cnt[k] + 1 BY <2>3, <3>1, <4>1 DEF Saves, Current
      <4> QED BY <2>3, <4>1, <4>2, <4>3
    <3>2. CASE j # k
      BY <2>3, <3>2 DEF Saves
    <3> QED BY <3>1, <3>2
  <2> QED BY <1>2, <1>c, <2>1, <2>2, <2>3, StillLoaded
<1>3. ASSUME NEW k \in Counters, Loaded("main", k)' PROVE loc'["main"].reg <= cnt'[k]
  <2>1. CASE Current("main", k)' /\ Loads("main", k)
    BY <1>c, <1>t, <2>1 DEF Current, Loads, SameCounts
  <2>2. CASE Rests("main") /\ Loaded("main", k) /\ (cnt'[k] = cnt[k] \/ cnt'[k] = cnt[k] + 1)
    <3>1. loc["main"].reg <= cnt[k] /\ loc'["main"].reg = loc["main"].reg
      BY <2>2 DEF RegInv, Rests
    <3> QED BY <1>c, <1>t, <2>2, <3>1
  <2> QED BY <1>2, <1>3, <2>1, <2>2
<1>4. Loaded("main", "queued")' => Current("main", "queued")'
  <2>1. ~Loaded("irq", "queued") BY <1>q, StoreLabels DEF Loaded
  <2> QED BY <1>2, <2>1, StoreLabels DEF RegInv, Rests, Current
<1>5. ASSUME Loaded("main", "sent")', "sent" \notin torn'
      PROVE  Current("main", "sent")' /\ pc'["irq"] = "idle"
  <2>1. "sent" \notin torn BY <1>5, StepTorn
  <2>2. CASE Current("main", "sent")' /\ Loads("main", "sent")
    BY <1>c, <2>2 DEF Loads, Alone, Rests
  <2>3. CASE Rests("main") /\ Loaded("main", "sent")
    <3>1. Current("main", "sent") /\ pc["irq"] = "idle" BY <2>1, <2>3 DEF RegInv
    <3>2. ~Loaded("irq", "sent") BY <3>1, StoreLabels DEF Loaded
    <3>3. Current("main", "sent")'
      BY <1>2, <1>5, <2>3, <3>1, <3>2, StoreLabels DEF Current, Rests
    <3>4. pc'["irq"] = "idle"
      <4>1. pc["main"] = "sent+" BY <2>3, StoreLabels DEF Loaded
      <4>2. "sent" \in Tearing BY <4>1 DEF Tearing
      <4> QED BY <1>5, <3>1, <4>2, StepTorn
    <3> QED BY <3>3, <3>4
  <2> QED BY <1>2, <1>5, <2>2, <2>3, StoreLabels
<1>6. ASSUME ~irqOn'
      PROVE  /\ pc'["irq"] = "idle" /\ torn' = {}
             /\ \A k \in Counters : Loaded("main", k)' => Current("main", k)'
  <2>1. ~irqOn BY <1>6, StepTorn
  <2>2. pc["irq"] = "idle" /\ torn = {} BY <2>1 DEF RegInv
  <2>3. pc'["irq"] = "idle" /\ torn' = {} BY <2>1, <2>2, StepTorn
  <2>4. ASSUME NEW k \in Counters, Loaded("main", k)' PROVE Current("main", k)'
    BY <1>2, <2>1, <2>4 DEF RegInv, Rests, Current
  <2> QED BY <2>3, <2>4
<1> QED BY <1>1, <1>3, <1>4, <1>5, <1>6 DEF RegInv

\* Whether a context at label l is about to have counted with counter k.
One(l, k) == IF l = k \/ l = StoreLabel[k] THEN 1 ELSE 0

LEMMA CountedIs ==
  ASSUME NEW k \in Counters
  PROVE  /\ Counted(k) = cnt[k] + One(pc["main"], k) + One(pc["irq"], k)
         /\ Counted(k)' = cnt'[k] + One(pc'["main"], k) + One(pc'["irq"], k)
<1>1. \A l : l \in Increment[k] <=> l = k \/ l = StoreLabel[k]
  BY DEF Increment, StoreLabel, Counters
<1>2. Counted(k) = cnt[k] + One(pc["main"], k) + One(pc["irq"], k)
  BY <1>1 DEF Counted, Counting, One
<1>3. Counted(k)' = cnt'[k] + One(pc'["main"], k) + One(pc'["irq"], k)
  BY <1>1 DEF Counted, Counting, One
<1> QED BY <1>2, <1>3

LEMMA OneIs ==
  /\ \A l, k : One(l, k) \in {0, 1}
  /\ \A k \in Counters : One(k, k) = 1 /\ One(StoreLabel[k], k) = 1
  /\ \A l, k \in Counters : l # k => One(l, k) = 0 /\ One(StoreLabel[l], k) = 0
  /\ \A l : \A k \in Counters : l \notin CountLabels => One(l, k) = 0
  BY StoreLabels DEF One

LEMMA CountedNat ==
  /\ TypeInv => \A k \in Counters : Counted(k) \in Nat
  /\ TypeInv' => \A k \in Counters : Counted(k)' \in Nat
<1>1. ASSUME NEW k \in Counters, TypeInv PROVE Counted(k) \in Nat
  <2>1. cnt[k] \in Nat BY <1>1, RegTypes, LocalTypes
  <2> QED BY <2>1, CountedIs, OneIs
<1>2. ASSUME NEW k \in Counters, TypeInv' PROVE Counted(k)' \in Nat
  <2>1. cnt' \in [Counters \cup {"direct"} -> Nat] BY <1>2 DEF TypeInv, TypeOK
  <2>2. cnt'[k] \in Nat BY <2>1
  <2> QED BY <2>2, CountedIs, OneIs
<1> QED BY <1>1, <1>2

\* What the steps make of a counter and the increments of it under way.
LEMMA NoneCounted ==
  ASSUME TypeInv, NoCount, NEW k \in Counters
  PROVE  Counted(k)' = Counted(k)
<1>1. \A c \in Ctx : One(pc'[c], k) = One(pc[c], k) BY OneIs DEF NoCount, Rests
<1> QED BY <1>1, CountedIs, LocalTypes DEF NoCount, SameCounts

LEMMA BegunCounted ==
  ASSUME TypeInv, NEW c \in Ctx, NEW j \in Counters, Begins(c, j), NEW k \in Counters
  PROVE  Counted(k)' = Counted(k) + (IF k = j THEN 1 ELSE 0)
<1>1. /\ One(pc[c], k) = 0 /\ One(pc'[c], k) = (IF k = j THEN 1 ELSE 0)
      /\ cnt'[k] = cnt[k] /\ \A d \in Ctx \ {c} : pc'[d] = pc[d]
  BY OneIs DEF Begins, SameCounts, Alone, Rests
<1>2. cnt[k] \in Nat BY RegTypes, LocalTypes
<1>3. CASE c = "main"
  <2>1. pc'["irq"] = pc["irq"] BY <1>1, <1>3, LocalTypes
  <2> QED BY <1>1, <1>2, <1>3, <2>1, CountedIs, OneIs
<1>4. CASE c = "irq"
  <2>1. pc'["main"] = pc["main"] BY <1>1, <1>4, LocalTypes
  <2> QED BY <1>1, <1>2, <1>4, <2>1, CountedIs, OneIs
<1> QED BY <1>3, <1>4 DEF Ctx

LEMMA LoadedCounted ==
  ASSUME TypeInv, NEW c \in Ctx, NEW j \in Counters, Loads(c, j), NEW k \in Counters
  PROVE  Counted(k)' = Counted(k)
<1>1. /\ One(pc[c], k) = One(pc'[c], k) /\ cnt'[k] = cnt[k]
      /\ \A d \in Ctx \ {c} : pc'[d] = pc[d]
  BY OneIs DEF Loads, SameCounts, Alone, Rests
<1>2. \A d \in Ctx : One(pc'[d], k) = One(pc[d], k) BY <1>1
<1> QED BY <1>1, <1>2, CountedIs, LocalTypes

LEMMA SavedCounted ==
  ASSUME TypeInv, TypeInv', RegInv, NEW c \in Ctx, NEW j \in Counters, Saves(c, j),
         NEW k \in Counters
  PROVE  /\ Counted(k)' <= Counted(k)
         /\ k # j \/ Current(c, j) => Counted(k)' = Counted(k)
<1>1. /\ One(pc'[c], k) = 0 /\ One(pc[c], k) = (IF k = j THEN 1 ELSE 0)
      /\ \A d \in Ctx \ {c} : pc'[d] = pc[d]
      /\ cnt'[k] = (IF k = j THEN loc[c].reg + 1 ELSE cnt[k])
  BY OneIs DEF Saves, Alone, Rests
<1>2. cnt[k] \in Nat /\ loc[c].reg \in Nat BY RegTypes
<1>3. loc[c].reg <= cnt[j]
  <2>1. Loaded(c, j) BY DEF Saves, Loaded
  <2>2. CASE c = "main" BY <2>1, <2>2 DEF RegInv
  <2>3. CASE c = "irq"
    <3>1. loc[c].reg = cnt[j] BY <2>1, <2>3 DEF RegInv, Current
    <3>2. cnt[j] \in Nat BY RegTypes
    <3> QED BY <3>1, <3>2
  <2> QED BY <2>2, <2>3 DEF Ctx
<1>4. /\ cnt'[k] + One(pc'[c], k) <= cnt[k] + One(pc[c], k)
      /\ k # j \/ Current(c, j) => cnt'[k] + One(pc'[c], k) = cnt[k] + One(pc[c], k)
      /\ cnt'[k] \in Nat
  BY <1>1, <1>2, <1>3 DEF Current
<1>5. CASE c = "main"
  <2>1. One(pc'["irq"], k) = One(pc["irq"], k) BY <1>1, <1>5, LocalTypes
  <2> QED BY <1>2, <1>4, <1>5, <2>1, CountedIs, OneIs
<1>6. CASE c = "irq"
  <2>1. One(pc'["main"], k) = One(pc["main"], k) BY <1>1, <1>6, LocalTypes
  <2> QED BY <1>2, <1>4, <1>6, <2>1, CountedIs, OneIs
<1> QED BY <1>5, <1>6 DEF Ctx

\* The queue, what was taken from it and what was put into it.
QueueCount == Len(txQueue)
AcceptedCount == Len(hist.accepted)
CountInv ==
  /\ Counted("queued") = AcceptedCount
  /\ QueueCount + Counted("sent") + DropCount <= AcceptedCount
  /\ "sent" \notin torn => QueueCount + Counted("sent") + DropCount = AcceptedCount

\* What a step makes of the lengths.
LEMMA LengthStep ==
  ASSUME TypeInv
  PROVE  /\ Keeps \/ (\E c \in Ctx : Sends(c)) =>
              QueueCount' = QueueCount /\ AcceptedCount' = AcceptedCount /\ DropCount' = DropCount
         /\ Discards => QueueCount' = QueueCount - 1 /\ AcceptedCount' = AcceptedCount
                        /\ DropCount' = DropCount + 1
         /\ Accepts => QueueCount' = QueueCount + 1 /\ AcceptedCount' = AcceptedCount + 1
                       /\ DropCount' = DropCount
         /\ TakesHead => QueueCount' = QueueCount - 1 /\ AcceptedCount' = AcceptedCount
                         /\ DropCount' = DropCount
<1>1. ASSUME Keeps \/ \E c \in Ctx : Sends(c)
      PROVE  QueueCount' = QueueCount /\ AcceptedCount' = AcceptedCount /\ DropCount' = DropCount
  BY <1>1 DEF Keeps, Sends, QueueCount, AcceptedCount, DropCount
<1>2. ASSUME Discards
      PROVE  QueueCount' = QueueCount - 1 /\ AcceptedCount' = AcceptedCount
             /\ DropCount' = DropCount + 1
  <2>1. Head(txQueue) \in Frame /\ Len(Tail(txQueue)) = Len(txQueue) - 1
    BY <1>2, TypeQueue, TailAt DEF Discards
  <2>2. Len(Append(hist.discarded, Head(txQueue))) = Len(hist.discarded) + 1
    BY <2>1, TypeQueue, AppendAt
  <2> QED BY <1>2, <2>1, <2>2 DEF Discards, QueueCount, AcceptedCount, DropCount
<1>3. ASSUME Accepts
      PROVE  QueueCount' = QueueCount + 1 /\ AcceptedCount' = AcceptedCount + 1
             /\ DropCount' = DropCount
  <2>1. PICK f \in Frame :
          /\ txQueue' = Append(txQueue, f) /\ hist'.accepted = Append(hist.accepted, f)
          /\ hist'.discarded = hist.discarded
    BY <1>3 DEF Accepts
  <2>2. Len(txQueue') = Len(txQueue) + 1 /\ Len(hist'.accepted) = Len(hist.accepted) + 1
    BY <2>1, TypeQueue, AppendAt
  <2> QED BY <2>1, <2>2 DEF QueueCount, AcceptedCount, DropCount
<1>4. ASSUME TakesHead
      PROVE  QueueCount' = QueueCount - 1 /\ AcceptedCount' = AcceptedCount
             /\ DropCount' = DropCount
  <2>1. Len(Tail(txQueue)) = Len(txQueue) - 1
    BY <1>4, TypeQueue, TailAt DEF TakesHead
  <2> QED BY <1>4, <2>1 DEF TakesHead, QueueCount, AcceptedCount, DropCount
<1> QED BY <1>1, <1>2, <1>3, <1>4

LEMMA CountPreserved ==
  ASSUME TypeInv, TypeInv', RegInv, CountInv, [Next]_vars
  PROVE  CountInv'
<1>k. "queued" \in Counters /\ "sent" \in Counters /\ "queued" # "sent" BY StoreLabels
<1>p. PICK u2 \in Nat, s2 \in Nat : u2 = Counted("queued")' /\ s2 = Counted("sent")'
  BY <1>k, CountedNat
<1>t. /\ Counted("queued") \in Nat /\ Counted("sent") \in Nat
      /\ QueueCount \in Nat /\ AcceptedCount \in Nat /\ DropCount \in Nat
  BY <1>k, CountedNat, TypeQueue DEF QueueCount, AcceptedCount
<1> DEFINE u == Counted("queued")
<1> DEFINE s == Counted("sent")
<1> HIDE DEF u, s
<1>i. /\ u \in Nat /\ s \in Nat
      /\ u = AcceptedCount /\ QueueCount + s + DropCount <= AcceptedCount
      /\ "sent" \notin torn' => QueueCount + s + DropCount = AcceptedCount
  BY <1>t, StepTorn DEF CountInv, u, s
<1>g. ASSUME NEW q2 \in Int, NEW a2 \in Int, NEW d2 \in Int,
             q2 = QueueCount', a2 = AcceptedCount', d2 = DropCount',
             u2 = a2, q2 + s2 + d2 <= a2, "sent" \notin torn' => q2 + s2 + d2 = a2
      PROVE  CountInv'
  BY <1>g, <1>p DEF CountInv
<1>1. CASE /\ u2 = u /\ s2 = s
           /\ QueueCount' = QueueCount /\ AcceptedCount' = AcceptedCount /\ DropCount' = DropCount
  BY <1>g, <1>i, <1>t, <1>1
<1>2. ASSUME NoCount, Keeps \/ Discards \/ \E c \in Ctx : Sends(c)
      PROVE  CountInv'
  <2>1. u2 = u /\ s2 = s BY <1>2, <1>k, <1>p, NoneCounted DEF u, s
  <2>2. CASE Keeps \/ \E c \in Ctx : Sends(c)
    BY <1>1, <2>1, <2>2, LengthStep
  <2>3. CASE Discards
    <3>1. QueueCount' = QueueCount - 1 /\ AcceptedCount' = AcceptedCount
          /\ DropCount' = DropCount + 1
      BY <2>3, LengthStep
    <3> QED BY <1>g, <1>i, <1>t, <2>1, <3>1
  <2> QED BY <1>2, <2>2, <2>3
<1>3. ASSUME NEW c \in Ctx, Begins(c, "queued"), Accepts
      PROVE  CountInv'
  <2>1. u2 = u + 1 /\ s2 = s
    <3>1. Counted("queued")' = Counted("queued") + 1 BY <1>k, <1>3, BegunCounted
    <3>2. Counted("sent")' = Counted("sent") + 0 BY <1>k, <1>3, BegunCounted
    <3> QED BY <1>p, <1>t, <3>1, <3>2 DEF u, s
  <2>2. QueueCount' = QueueCount + 1 /\ AcceptedCount' = AcceptedCount + 1
        /\ DropCount' = DropCount
    BY <1>3, LengthStep
  <2> QED BY <1>g, <1>i, <1>t, <2>1, <2>2
<1>4. ASSUME NEW c \in Ctx, Begins(c, "sent"), TakesHead
      PROVE  CountInv'
  <2>1. u2 = u /\ s2 = s + 1
    <3>1. Counted("sent")' = Counted("sent") + 1 BY <1>k, <1>4, BegunCounted
    <3>2. Counted("queued")' = Counted("queued") + 0 BY <1>k, <1>4, BegunCounted
    <3> QED BY <1>p, <1>t, <3>1, <3>2 DEF u, s
  <2>2. QueueCount' = QueueCount - 1 /\ AcceptedCount' = AcceptedCount
        /\ DropCount' = DropCount
    BY <1>4, LengthStep
  <2> QED BY <1>g, <1>i, <1>t, <2>1, <2>2
<1>5. ASSUME NEW c \in Ctx, NEW k \in {"ok", "failed", "timeout"}, Begins(c, k), Keeps
      PROVE  CountInv'
  <2>1. k \in Counters /\ k # "queued" /\ k # "sent" BY StoreLabels
  <2>2. Counted("queued")' = Counted("queued") + 0 /\ Counted("sent")' = Counted("sent") + 0
    BY <1>k, <1>5, <2>1, BegunCounted
  <2>3. u2 = u /\ s2 = s BY <1>p, <1>t, <2>2 DEF u, s
  <2> QED BY <1>1, <1>5, <2>3, LengthStep
<1>6. ASSUME NEW c \in Ctx, NEW k \in Counters, Loads(c, k), Keeps
      PROVE  CountInv'
  <2>1. u2 = u /\ s2 = s BY <1>6, <1>k, <1>p, LoadedCounted DEF u, s
  <2> QED BY <1>1, <1>6, <2>1, LengthStep
<1>7. ASSUME NEW c \in Ctx, NEW k \in Counters, Saves(c, k), Keeps
      PROVE  CountInv'
  <2>0. Loaded(c, k) /\ (c = "main" \/ c = "irq") /\ (c = "main" => pc["irq"] = "idle")
    BY <1>7 DEF Saves, Alone, Loaded, Ctx
  <2>1. k = "queued" => Current(c, k)
    <3>1. pc["irq"] # "queued+" BY TypeData DEF LocalsOK, Queueing, Increment
    <3> QED BY <2>0, <3>1, StoreLabels DEF RegInv, Loaded
  <2>2. k = "sent" /\ "sent" \notin torn' => Current(c, k)
    <3>1. "sent" \notin torn' => "sent" \notin torn BY StepTorn
    <3> QED BY <2>0, <3>1 DEF RegInv
  <2>3. u2 = u BY <1>7, <1>k, <1>p, <2>1, SavedCounted DEF u
  <2>4. s2 <= s /\ ("sent" \notin torn' => s2 = s)
    BY <1>7, <1>k, <1>p, <2>2, SavedCounted DEF s
  <2>5. QueueCount' = QueueCount /\ AcceptedCount' = AcceptedCount /\ DropCount' = DropCount
    BY <1>7, LengthStep
  <2> QED BY <1>g, <1>i, <1>t, <2>3, <2>4, <2>5
<1> QED BY <1>2, <1>3, <1>4, <1>5, <1>6, <1>7, NextCounts DEF StepCounts

LEMMA InitCounts == Init => RegInv /\ CountInv
<1> SUFFICES ASSUME Init PROVE RegInv /\ CountInv
  OBVIOUS
<1>1. \A k \in Counters : cnt[k] = 0 BY DEF Init
<1>2. pc["main"] = "idle" /\ pc["irq"] = "idle" BY LocalTypes DEF Init
<1>3. RegInv BY <1>2, StoreLabels DEF Init, RegInv, Loaded
<1>4. "queued" \in Counters /\ "sent" \in Counters BY StoreLabels
<1>5. \A k \in Counters : One("idle", k) = 0 BY OneIs, StoreLabels
<1>6. Counted("queued") = 0 /\ Counted("sent") = 0 BY <1>1, <1>2, <1>4, <1>5, CountedIs
<1>7. QueueCount = 0 /\ AcceptedCount = 0 /\ DropCount = 0
  BY DEF Init, QueueCount, AcceptedCount, DropCount
<1>8. CountInv BY <1>6, <1>7 DEF CountInv
<1> QED BY <1>3, <1>8

LEMMA CountInvariant == Spec => [](TypeInv /\ RegInv /\ CountInv)
<1>1. Init => TypeInv /\ RegInv /\ CountInv BY InitType, InitCounts
<1>2. (TypeInv /\ RegInv /\ CountInv) /\ [Next]_vars => (TypeInv /\ RegInv /\ CountInv)'
  BY NextType, RegPreserved, CountPreserved
<1> QED BY <1>1, <1>2, PTL DEF Spec

\* The counters of the queue count nothing that did not happen, although both
\* contexts increment them in two pieces, and they lose nothing unless the callback
\* comes between the pieces of main's _tx_sent_frames += 1 (_pump_tx_queue).
THEOREM FramesAccounted == Spec => []FramesAccountedFor
<1>1. TypeInv /\ CountInv => FramesAccountedFor
  BY DEF CountInv, FramesAccountedFor, QueueCount, AcceptedCount, DropCount
<1> QED BY <1>1, CountInvariant, PTL

-----------------------------------------------------------------------------
(* Completions: the statistics the driver counts, those last seen, and the *)
(* snapshots of them in between.                                           *)

\* Statistics b are those of a or later ones: a failure is a response too.
NotOlder(a, b) == /\ a.resp <= b.resp /\ a.fail <= b.fail
                  /\ b.fail - a.fail <= b.resp - a.resp

\* A context compares its snapshot with the statistics last seen, works on a snapshot
\* at all, and is to credit a response, or a failure, already seen.
Comparing == {"delta", "deltafail"}
WithSnapshot == {"delta", "deltafail", "settle", "settlefail"}
Crediting == {"test", "take", "clear"}
Owes(c) == IF pc[c] \in Crediting \cup {"settlefail"} THEN 1 ELSE 0
FailsOwed(c) == IF pc[c] \in Crediting /\ loc[c].failed THEN 1 ELSE 0

\* Nobody is between the two stores of the statistics seen.
Whole == \A c \in Ctx : pc[c] # "settlefail"

\* Credits given and due never exceed the statistics seen.
Books == /\ Counted("ok") + Counted("failed") + Owes("main") + Owes("irq") <= stat.resp
         /\ Counted("failed") + FailsOwed("main") + FailsOwed("irq") <= stat.fail

\* What context c knows of its snapshot.
Snapshot(c) ==
  LET snap == loc[c].snap IN
  /\ pc[c] \in WithSnapshot => NotOlder(snap, drv)
  /\ pc[c] \in Comparing /\ Whole => NotOlder(stat, snap) \/ NotOlder(snap, stat)
  /\ pc[c] = "deltafail" => loc[c].grew = (snap.resp > stat.resp)
  /\ pc[c] = "settle" => /\ NotOlder(stat, snap) /\ snap.resp > stat.resp
                         /\ loc[c].failed => snap.fail > stat.fail
  /\ pc[c] = "settlefail" => /\ stat.resp = snap.resp /\ stat.fail <= snap.fail
                             /\ loc[c].failed => snap.fail > stat.fail

\* The callback comes nowhere between main's comparison and its last store, the
\* statistics seen are not newer than the driver's, and a snapshot of the callback
\* is not older than the one main stands with.
Untorn ==
  /\ pc["irq"] # "idle" => pc["main"] \notin {"deltafail", "settle", "settlefail"}
  /\ stat.resp <= drv.resp /\ stat.fail <= drv.fail
  /\ Whole => NotOlder(stat, drv)
  /\ pc["main"] = "delta" /\ pc["irq"] \in WithSnapshot =>
       NotOlder(loc["main"].snap, loc["irq"].snap)

CredInv == "stats" \notin torn => Books /\ Untorn /\ \A c \in Ctx : Snapshot(c)

LEMMA CredTypes ==
  TypeInv => /\ stat \in Stats /\ drv \in Stats /\ loc \in [Ctx -> Local]
             /\ stat.resp \in Nat /\ stat.fail \in Nat /\ drv.resp \in Nat /\ drv.fail \in Nat
             /\ \A c \in Ctx : /\ loc[c].snap \in Stats /\ loc[c].failed \in BOOLEAN
                               /\ loc[c].snap.resp \in Nat /\ loc[c].snap.fail \in Nat
             /\ Counted("ok") \in Nat /\ Counted("failed") \in Nat
<1>1. "ok" \in Counters /\ "failed" \in Counters BY StoreLabels
<1>2. TypeInv => Counted("ok") \in Nat /\ Counted("failed") \in Nat BY <1>1, CountedNat
<1> QED BY <1>2, TypeData DEF DataOK, Local, Stats

LEMMA NotOlderTwice ==
  ASSUME NEW a \in Stats, NEW b \in Stats, NEW c \in Stats
  PROVE  NotOlder(a, a) /\ (NotOlder(a, b) /\ NotOlder(b, c) => NotOlder(a, c))
  BY DEF NotOlder, Stats

\* One context moves, and the credits it gives or comes to owe are seen.
LEMMA BooksMove ==
  ASSUME TypeInv, Books, NEW c \in Ctx, \A d \in Ctx \ {c} : Rests(d),
         NEW x \in Nat, x = Counted("ok")', NEW y \in Nat, y = Counted("failed")',
         NEW r \in Nat, r = stat'.resp, NEW q \in Nat, q = stat'.fail,
         NEW o \in {0, 1}, o = Owes(c)', NEW p \in {0, 1}, p = FailsOwed(c)',
         x + y + o - r <= Counted("ok") + Counted("failed") + Owes(c) - stat.resp,
         y + p - q <= Counted("failed") + FailsOwed(c) - stat.fail
  PROVE  Books'
<1>1. \A d \in Ctx : Owes(d) \in {0, 1} /\ FailsOwed(d) \in {0, 1}
  BY DEF Owes, FailsOwed
<1>2. \A d \in Ctx \ {c} : Owes(d)' = Owes(d) /\ FailsOwed(d)' = FailsOwed(d)
  BY DEF Rests, Owes, FailsOwed
<1>3. PICK mo \in {0, 1}, io \in {0, 1}, mp \in {0, 1}, ip \in {0, 1} :
        mo = Owes("main") /\ io = Owes("irq") /\ mp = FailsOwed("main") /\ ip = FailsOwed("irq")
  BY <1>1, LocalTypes
<1>4. /\ Counted("ok") + Counted("failed") + mo + io <= stat.resp
      /\ Counted("failed") + mp + ip <= stat.fail
  BY <1>3 DEF Books
<1>t. /\ stat.resp \in Nat /\ stat.fail \in Nat /\ Counted("ok") \in Nat
      /\ Counted("failed") \in Nat
  BY CredTypes
<1>5. CASE c = "main"
  <2>1. Owes("irq")' = io /\ FailsOwed("irq")' = ip BY <1>2, <1>3, <1>5, LocalTypes
  <2>2. Owes("main")' = o /\ FailsOwed("main")' = p BY <1>5
  <2>3. x + y + o + io <= r /\ y + p + ip <= q BY <1>3, <1>4, <1>5, <1>t
  <2> QED BY <2>1, <2>2, <2>3 DEF Books
<1>6. CASE c = "irq"
  <2>1. Owes("main")' = mo /\ FailsOwed("main")' = mp BY <1>2, <1>3, <1>6, LocalTypes
  <2>2. Owes("irq")' = o /\ FailsOwed("irq")' = p BY <1>6
  <2>3. x + y + mo + o <= r /\ y + mp + p <= q BY <1>3, <1>4, <1>6, <1>t
  <2> QED BY <2>1, <2>2, <2>3 DEF Books
<1> QED BY <1>5, <1>6 DEF Ctx

\* Steps that leave the statistics seen alone and give no credit: what a context
\* may do meanwhile is to stop short of crediting, or to give up a comparison.
CreditLabels == WithSnapshot \cup Crediting
BeginsCredit == \E c \in Ctx : pc'[c] \in {"ok", "failed"} /\ pc[c] # pc'[c]
Elsewhere ==
  /\ stat' = stat /\ NotOlder(drv, drv')
  /\ \A c \in Ctx : Rests(c) \/ (pc[c] # "settlefail" /\ pc'[c] \notin CreditLabels)
  /\ ~BeginsCredit

LEMMA NoCredit ==
  ASSUME TypeInv, TypeInv', RegInv, StepCounts, ~BeginsCredit
  PROVE  Counted("ok")' <= Counted("ok") /\ Counted("failed")' <= Counted("failed")
<1> SUFFICES ASSUME NEW k \in {"ok", "failed"} PROVE Counted(k)' <= Counted(k)
  OBVIOUS
<1>t. k \in Counters /\ Counted(k) \in Nat BY CredTypes, StoreLabels
<1>1. CASE NoCount BY <1>1, <1>t, NoneCounted
<1>2. ASSUME NEW c \in Ctx, NEW j \in Counters, Begins(c, j) PROVE Counted(k)' <= Counted(k)
  <2>1. j # k BY <1>2, StoreLabels DEF Begins, BeginsCredit
  <2>2. Counted(k)' = Counted(k) + 0 BY <1>2, <1>t, <2>1, BegunCounted
  <2> QED BY <1>t, <2>2
<1>3. ASSUME NEW c \in Ctx, NEW j \in Counters, Loads(c, j) PROVE Counted(k)' <= Counted(k)
  BY <1>3, <1>t, LoadedCounted
<1>4. ASSUME NEW c \in Ctx, NEW j \in Counters, Saves(c, j) PROVE Counted(k)' <= Counted(k)
  BY <1>4, <1>t, SavedCounted
<1> QED BY <1>1, <1>2, <1>3, <1>4, StoreLabels DEF StepCounts

LEMMA ElsewhereKeeps ==
  ASSUME TypeInv, TypeInv', RegInv, CredInv, [Next]_vars, Elsewhere
  PROVE  CredInv'
<1> SUFFICES ASSUME "stats" \notin torn' PROVE Books' /\ Untorn' /\ \A c \in Ctx : Snapshot(c)'
  BY DEF CredInv
<1>0. "stats" \notin torn /\ Books /\ Untorn /\ \A c \in Ctx : Snapshot(c)
  BY StepTorn DEF CredInv
<1>c. "main" \in Ctx /\ "irq" \in Ctx BY LocalTypes
<1>t. /\ stat \in Stats /\ drv \in Stats /\ drv' \in Stats /\ stat' = stat
      /\ NotOlder(drv, drv') /\ stat.resp \in Nat /\ stat.fail \in Nat
      /\ drv.resp \in Nat /\ drv.fail \in Nat /\ drv'.resp \in Nat /\ drv'.fail \in Nat
      /\ \A c \in Ctx : loc[c].snap \in Stats
  BY CredTypes DEF Elsewhere, TypeInv, TypeOK, Stats
<1>r. \A c \in Ctx : Rests(c) \/ (pc[c] # "settlefail" /\ pc'[c] \notin CreditLabels)
  BY DEF Elsewhere
<1>1. Books'
  <2>1. PICK x \in Nat, y \in Nat : x = Counted("ok")' /\ y = Counted("failed")'
    BY StoreLabels, CountedNat
  <2>2. x <= Counted("ok") /\ y <= Counted("failed")
    BY <2>1, NextCounts, NoCredit DEF Elsewhere
  <2>3. \A c \in Ctx : /\ Owes(c) \in {0, 1} /\ FailsOwed(c) \in {0, 1}
                       /\ Owes(c)' = Owes(c) \/ Owes(c)' = 0
                       /\ FailsOwed(c)' = FailsOwed(c) \/ FailsOwed(c)' = 0
    BY <1>r DEF Rests, Owes, FailsOwed, CreditLabels, WithSnapshot
  <2>4. PICK mo \in {0, 1}, io \in {0, 1}, mp \in {0, 1}, ip \in {0, 1} :
          mo = Owes("main")' /\ io = Owes("irq")' /\ mp = FailsOwed("main")'
          /\ ip = FailsOwed("irq")'
    BY <1>c, <2>3
  <2>5. /\ mo <= Owes("main") /\ io <= Owes("irq") /\ mp <= FailsOwed("main")
        /\ ip <= FailsOwed("irq")
    BY <1>c, <2>3, <2>4
  <2>6. x + y + mo + io <= stat.resp /\ y + mp + ip <= stat.fail
    BY <1>0, <1>c, <1>t, <2>2, <2>3, <2>5, CredTypes DEF Books
  <2> QED BY <1>t, <2>1, <2>4, <2>6 DEF Books
<1>w. Whole' => Whole
  BY <1>r DEF Whole, Rests, CreditLabels, WithSnapshot
<1>2. Untorn'
  <2>1. pc'["irq"] # "idle" => pc'["main"] \notin {"deltafail", "settle", "settlefail"}
    <3>1. CASE pc["irq"] = "idle" /\ pc'["irq"] # "idle"
      <4>1. "stats" \notin Tearing /\ Rests("main") BY <3>1, StepTorn
      <4> QED BY <4>1 DEF Tearing, Rests
    <3>2. CASE pc["irq"] # "idle"
      <4>1. pc["main"] \notin {"deltafail", "settle", "settlefail"} BY <1>0, <3>2 DEF Untorn
      <4> QED BY <1>c, <1>r, <4>1 DEF Rests, CreditLabels, WithSnapshot
    <3> QED BY <3>1, <3>2
  <2>2. stat.resp <= drv'.resp /\ stat.fail <= drv'.fail
    BY <1>0, <1>t DEF Untorn, NotOlder
  <2>3. Whole' => NotOlder(stat, drv')
    BY <1>0, <1>t, <1>w, NotOlderTwice DEF Untorn
  <2>4. ASSUME pc'["main"] = "delta", pc'["irq"] \in WithSnapshot
        PROVE  NotOlder(loc'["main"].snap, loc'["irq"].snap)
    BY <1>0, <1>c, <1>r, <2>4 DEF Untorn, Rests, CreditLabels, WithSnapshot
  <2>5. NotOlder(loc["main"].snap, loc["irq"].snap)'
          <=> NotOlder(loc'["main"].snap, loc'["irq"].snap)
    BY DEF NotOlder
  <2>6. NotOlder(stat, drv)' <=> NotOlder(stat, drv')
    BY <1>t DEF NotOlder
  <2> QED BY <1>t, <2>1, <2>2, <2>3, <2>4, <2>5, <2>6 DEF Untorn
<1>3. ASSUME NEW c \in Ctx PROVE Snapshot(c)'
  <2>1. CASE pc'[c] \notin CreditLabels
    BY <2>1 DEF Snapshot, CreditLabels, WithSnapshot, Comparing
  <2>2. CASE Rests(c)
    <3>1. NotOlder(loc[c].snap, drv) => NotOlder(loc[c].snap, drv')
      BY <1>t, NotOlderTwice
    <3>2. /\ NotOlder(loc[c].snap, drv)' <=> NotOlder(loc[c].snap, drv')
          /\ NotOlder(stat, loc[c].snap)' <=> NotOlder(stat, loc[c].snap)
          /\ NotOlder(loc[c].snap, stat)' <=> NotOlder(loc[c].snap, stat)
      BY <1>t, <2>2 DEF NotOlder, Rests
    <3> QED BY <1>0, <1>t, <1>w, <2>2, <3>1, <3>2 DEF Snapshot, Rests
  <2> QED BY <1>r, <2>1, <2>2
<1> QED BY <1>1, <1>2, <1>3

\* The steps of a context from its snapshot to its credit.
LEMMA OneMoves ==
  ASSUME NEW c \in Ctx, NEW l, NEW m, Moves(c, l, m)
  PROVE  /\ pc[c] = l /\ pc'[c] = m /\ \A d \in Ctx \ {c} : Rests(d)
         /\ c = "main" => pc["irq"] = "idle" /\ pc'["irq"] = "idle"
         /\ c = "irq" => Rests("main")
         /\ c = "main" \/ c = "irq"
  BY LocalTypes DEF Moves, Rests

LEMMA BooksChain ==
  ASSUME TypeInv, TypeInv', Books, NEW c \in Ctx, NEW l, NEW m, Moves(c, l, m), cnt' = cnt,
         l \notin CountLabels, m \notin CountLabels,
         NEW r \in Nat, r = stat'.resp, NEW q \in Nat, q = stat'.fail,
         NEW o \in {0, 1}, o = Owes(c)', NEW p \in {0, 1}, p = FailsOwed(c)',
         o - r <= Owes(c) - stat.resp, p - q <= FailsOwed(c) - stat.fail
  PROVE  Books'
<1>1. "ok" \in Counters /\ "failed" \in Counters BY StoreLabels
<1>2. NoCount BY MovesNoCount DEF SameCounts
<1>3. PICK x \in Nat, y \in Nat : x = Counted("ok")' /\ y = Counted("failed")'
  BY <1>1, CountedNat
<1>4. x = Counted("ok") /\ y = Counted("failed") BY <1>1, <1>2, <1>3, NoneCounted
<1>5. Owes(c) \in Int /\ FailsOwed(c) \in Int BY DEF Owes, FailsOwed
<1>6. \A d \in Ctx \ {c} : Rests(d) BY OneMoves
<1> QED BY <1>3, <1>4, <1>5, <1>6, CredTypes, BooksMove

LEMMA SnapshotRests ==
  ASSUME TypeInv, NEW d \in Ctx, Rests(d), stat' = stat, drv' = drv, Whole' => Whole, Snapshot(d)
  PROVE  Snapshot(d)'
  BY DEF Snapshot, Rests, NotOlder

LEMMA ReadKeeps ==
  ASSUME TypeInv, TypeInv', Books, Untorn, \A d \in Ctx : Snapshot(d), NEW c \in Ctx, ReadStats(c)
  PROVE  Books' /\ Untorn' /\ \A d \in Ctx : Snapshot(d)'
<1>1. /\ Moves(c, "stats", "delta") /\ loc'[c] = [loc[c] EXCEPT !.snap = drv]
      /\ stat' = stat /\ drv' = drv /\ cnt' = cnt
  BY ReadStatsDoes DEF Quiet, core, driver
<1>t. stat \in Stats /\ drv \in Stats /\ loc[c] \in Local BY CredTypes
<1>2. loc'[c].snap = drv BY <1>1, <1>t, LocalReplaced
<1>3. pc[c] = "stats" /\ pc'[c] = "delta" BY <1>1, OneMoves
<1>w. Whole' <=> Whole BY <1>1, <1>3, OneMoves DEF Whole, Rests
<1>4. Books'
  BY <1>1, <1>3, CredTypes, BooksChain DEF Owes, FailsOwed, Crediting, CountLabels
<1>5. Untorn'
  <2>1. pc'["irq"] # "idle" => pc'["main"] \notin {"deltafail", "settle", "settlefail"}
    BY <1>1, <1>3, OneMoves DEF Untorn, Rests
  <2>2. ASSUME pc'["main"] = "delta", pc'["irq"] \in WithSnapshot
        PROVE  NotOlder(loc'["main"].snap, loc'["irq"].snap)
    <3>1. c = "irq" /\ Rests("main") BY <1>1, <2>2, OneMoves DEF WithSnapshot
    <3>2. NotOlder(loc["main"].snap, drv)
      BY <2>2, <3>1, LocalTypes DEF Snapshot, Rests, WithSnapshot
    <3> QED BY <1>2, <3>1, <3>2 DEF Rests
  <2>3. NotOlder(loc["main"].snap, loc["irq"].snap)'
          <=> NotOlder(loc'["main"].snap, loc'["irq"].snap)
    BY DEF NotOlder
  <2>4. NotOlder(stat, drv)' <=> NotOlder(stat, drv) BY <1>1 DEF NotOlder
  <2> QED BY <1>1, <1>w, <2>1, <2>2, <2>3, <2>4 DEF Untorn
<1>6. Snapshot(c)'
  <2>1. NotOlder(drv, drv) /\ (Whole' => NotOlder(stat, drv))
    BY <1>t, <1>w, NotOlderTwice DEF Untorn
  <2>2. NotOlder(loc[c].snap, drv)' /\ (NotOlder(stat, loc[c].snap)' <=> NotOlder(stat, drv))
    BY <1>1, <1>2, <2>1 DEF NotOlder
  <2> QED BY <1>3, <2>1, <2>2 DEF Snapshot
<1> QED BY <1>1, <1>4, <1>5, <1>6, <1>w, OneMoves, SnapshotRests

LEMMA CompareKeeps ==
  ASSUME TypeInv, TypeInv', Books, Untorn, \A d \in Ctx : Snapshot(d), NEW c \in Ctx,
         \/ CompareResponses(c)
         \/ CompareFailures(c) /\ pc'[c] = "settle"
  PROVE  Books' /\ Untorn' /\ \A d \in Ctx : Snapshot(d)'
<1>t. stat \in Stats /\ drv \in Stats /\ loc[c] \in Local /\ loc[c].snap \in Stats BY CredTypes
<1>1. /\ stat' = stat /\ drv' = drv /\ cnt' = cnt
      /\ \/ /\ Moves(c, "delta", "deltafail")
            /\ loc'[c] = [loc[c] EXCEPT !.grew = loc[c].snap.resp > stat.resp]
         \/ /\ Moves(c, "deltafail", "settle")
            /\ loc[c].grew \/ loc[c].snap.fail > stat.fail
            /\ loc'[c] = [loc[c] EXCEPT !.failed = loc[c].snap.fail > stat.fail]
  BY CompareResponsesDoes, CompareFailuresDoes DEF Quiet, core, driver, Moves
<1>2. /\ loc'[c].snap = loc[c].snap
      /\ pc'[c] = "deltafail" => loc'[c].grew = (loc[c].snap.resp > stat.resp)
      /\ pc'[c] = "settle" => loc'[c].failed = (loc[c].snap.fail > stat.fail)
  <2> DEFINE a == loc[c].snap.resp > stat.resp
  <2> DEFINE b == loc[c].snap.fail > stat.fail
  <2>1. a \in BOOLEAN /\ b \in BOOLEAN
    OBVIOUS
  <2>2. \/ pc'[c] = "deltafail" /\ loc'[c] = [loc[c] EXCEPT !.grew = a]
        \/ pc'[c] = "settle" /\ loc'[c] = [loc[c] EXCEPT !.failed = b]
    BY <1>1, OneMoves
  <2> HIDE DEF a, b
  <2>3. /\ loc'[c].snap = loc[c].snap
        /\ pc'[c] = "deltafail" => loc'[c].grew = a
        /\ pc'[c] = "settle" => loc'[c].failed = b
    <3>1. CASE pc'[c] = "deltafail" /\ loc'[c] = [loc[c] EXCEPT !.grew = a]
      BY <1>t, <2>1, <3>1, LocalReplaced
    <3>2. CASE pc'[c] = "settle" /\ loc'[c] = [loc[c] EXCEPT !.failed = b]
      BY <1>t, <2>1, <3>2, LocalReplaced
    <3> QED BY <2>2, <3>1, <3>2
  <2> QED BY <2>3 DEF a, b
<1>3. \/ pc[c] = "delta" /\ pc'[c] = "deltafail"
      \/ pc[c] = "deltafail" /\ pc'[c] = "settle"
  BY <1>1, OneMoves
<1>m. PICK l, m : Moves(c, l, m) /\ l \in Comparing /\ m \in {"deltafail", "settle"}
  BY <1>1 DEF Comparing
<1>w. Whole' <=> Whole BY <1>m, <1>3, OneMoves DEF Whole, Rests
<1>4. Books'
  BY <1>1, <1>3, <1>m, CredTypes, BooksChain
     DEF Owes, FailsOwed, Crediting, CountLabels, Comparing
<1>5. Untorn'
  <2>1. pc'["irq"] # "idle" => pc'["main"] \notin {"deltafail", "settle", "settlefail"}
    BY <1>m, <1>3, OneMoves DEF Untorn, Rests
  <2>2. ASSUME pc'["main"] = "delta", pc'["irq"] \in WithSnapshot
        PROVE  NotOlder(loc'["main"].snap, loc'["irq"].snap)
    <3>1. c = "irq" /\ Rests("main") BY <1>m, <2>2, OneMoves DEF WithSnapshot
    <3> QED BY <1>2, <1>3, <2>2, <3>1 DEF Untorn, Rests, WithSnapshot
  <2>3. NotOlder(loc["main"].snap, loc["irq"].snap)'
          <=> NotOlder(loc'["main"].snap, loc'["irq"].snap)
    BY DEF NotOlder
  <2>4. NotOlder(stat, drv)' <=> NotOlder(stat, drv) BY <1>1 DEF NotOlder
  <2> QED BY <1>1, <1>w, <2>1, <2>2, <2>3, <2>4 DEF Untorn
<1>6. Snapshot(c)'
  <2>1. NotOlder(loc[c].snap, drv) BY <1>3 DEF Snapshot, WithSnapshot
  <2>2. Whole => NotOlder(stat, loc[c].snap) \/ NotOlder(loc[c].snap, stat)
    BY <1>3 DEF Snapshot, Comparing
  <2>3. /\ NotOlder(loc[c].snap, drv)' <=> NotOlder(loc[c].snap, drv)
        /\ NotOlder(stat, loc[c].snap)' <=> NotOlder(stat, loc[c].snap)
        /\ NotOlder(loc[c].snap, stat)' <=> NotOlder(loc[c].snap, stat)
    BY <1>1, <1>2 DEF NotOlder
  <2>4. CASE pc'[c] = "deltafail"
    BY <1>1, <1>2, <1>w, <2>1, <2>2, <2>3, <2>4 DEF Snapshot
  <2>5. CASE pc'[c] = "settle"
    <3>1. pc[c] = "deltafail" /\ (loc[c].grew \/ loc[c].snap.fail > stat.fail)
      BY <1>1, <1>3, <2>5, OneMoves
    <3>2. Whole BY <1>3, <1>m, <3>1, OneMoves, LocalTypes DEF Whole, Untorn, Rests
    <3>3. loc[c].grew = (loc[c].snap.resp > stat.resp) BY <3>1 DEF Snapshot
    <3>4. loc[c].snap.resp > stat.resp \/ loc[c].snap.fail > stat.fail BY <3>1, <3>3
    <3>5. NotOlder(stat, loc[c].snap) /\ loc[c].snap.resp > stat.resp
      BY <1>t, <2>2, <3>2, <3>4 DEF NotOlder, Stats
    <3> QED BY <1>1, <1>2, <2>1, <2>3, <2>5, <3>5 DEF Snapshot
  <2> QED BY <1>3, <2>4, <2>5
<1> QED BY <1>1, <1>m, <1>4, <1>5, <1>6, <1>w, OneMoves, SnapshotRests

\* The statistics seen are stored one by one.
LEMMA RememberResponsesKeeps ==
  ASSUME TypeInv, TypeInv', Books, Untorn, \A d \in Ctx : Snapshot(d), NEW c \in Ctx,
         RememberResponses(c)
  PROVE  Books' /\ Untorn' /\ \A d \in Ctx : Snapshot(d)'
<1>t. /\ stat \in Stats /\ drv \in Stats /\ loc[c].snap \in Stats
      /\ loc[c].snap.resp \in Nat /\ loc[c].snap.fail \in Nat
  BY CredTypes
<1>1. /\ Moves(c, "settle", "settlefail") /\ loc'[c] = loc[c] /\ drv' = drv /\ cnt' = cnt
      /\ stat' = [stat EXCEPT !.resp = loc[c].snap.resp]
  BY RememberResponsesDoes DEF driver
<1>2. stat'.resp = loc[c].snap.resp /\ stat'.fail = stat.fail BY <1>1, <1>t DEF Stats
<1>3. pc[c] = "settle" /\ pc'[c] = "settlefail" BY <1>1, OneMoves
<1>4. /\ NotOlder(stat, loc[c].snap) /\ loc[c].snap.resp > stat.resp
      /\ loc[c].failed => loc[c].snap.fail > stat.fail
      /\ NotOlder(loc[c].snap, drv)
  BY <1>3 DEF Snapshot, WithSnapshot
<1>5. Books'
  <2>1. Owes(c) = 0 /\ Owes(c)' = 1 /\ FailsOwed(c) = 0 /\ FailsOwed(c)' = 0
    BY <1>3 DEF Owes, FailsOwed, Crediting
  <2>2. 1 - loc[c].snap.resp <= 0 - stat.resp /\ 0 - stat.fail <= 0 - stat.fail
    BY <1>4, <1>t, CredTypes
  <2> QED BY <1>1, <1>2, <1>t, <2>1, <2>2, CredTypes, BooksChain DEF CountLabels
<1>6. Untorn'
  <2>1. pc'["irq"] # "idle" => pc'["main"] \notin {"deltafail", "settle", "settlefail"}
    BY <1>1, <1>3, OneMoves DEF Untorn, Rests
  <2>2. ~Whole' BY <1>3 DEF Whole
  <2>3. stat'.resp <= drv.resp /\ stat'.fail <= drv.fail
    BY <1>2, <1>4 DEF Untorn, NotOlder
  <2>4. ASSUME pc'["main"] = "delta", pc'["irq"] \in WithSnapshot
        PROVE  NotOlder(loc["main"].snap, loc["irq"].snap)'
    <3>1. c = "irq" /\ Rests("main") BY <1>1, <2>4, OneMoves DEF WithSnapshot
    <3> QED BY <1>1, <1>3, <2>4, <3>1 DEF Untorn, Rests, WithSnapshot, NotOlder
  <2> QED BY <1>1, <2>1, <2>2, <2>3, <2>4 DEF Untorn
<1>7. Snapshot(c)'
  <2>1. NotOlder(loc[c].snap, drv)' BY <1>1, <1>4 DEF NotOlder
  <2>2. stat'.resp = loc'[c].snap.resp /\ stat'.fail <= loc'[c].snap.fail
    BY <1>1, <1>2, <1>4 DEF NotOlder
  <2> QED BY <1>1, <1>2, <1>3, <1>4, <2>1, <2>2 DEF Snapshot, Comparing
<1>8. ASSUME NEW d \in Ctx \ {c} PROVE Snapshot(d)'
  <2>1. ~Whole' BY <1>3 DEF Whole
  <2>2. Rests(d) BY <1>1, OneMoves
  <2>3. pc[d] \notin {"deltafail", "settle", "settlefail"}
    BY <1>1, <1>3, OneMoves, LocalTypes DEF Untorn
  <2>4. NotOlder(loc[d].snap, drv)' <=> NotOlder(loc[d].snap, drv)
    BY <1>1, <2>2 DEF NotOlder, Rests
  <2> QED BY <2>1, <2>2, <2>3, <2>4 DEF Snapshot, Rests
<1> QED BY <1>5, <1>6, <1>7, <1>8

LEMMA RememberFailuresKeeps ==
  ASSUME TypeInv, TypeInv', Books, Untorn, \A d \in Ctx : Snapshot(d), NEW c \in Ctx,
         RememberFailures(c)
  PROVE  Books' /\ Untorn' /\ \A d \in Ctx : Snapshot(d)'
<1>t. /\ stat \in Stats /\ drv \in Stats /\ loc[c].snap \in Stats /\ loc[c].failed \in BOOLEAN
      /\ loc[c].snap.resp \in Nat /\ loc[c].snap.fail \in Nat
  BY CredTypes
<1>1. /\ Moves(c, "settlefail", "test") /\ drv' = drv /\ cnt' = cnt
      /\ loc'[c] = [NoLocals EXCEPT !.failed = loc[c].failed]
      /\ stat' = [stat EXCEPT !.fail = loc[c].snap.fail]
  BY RememberFailuresDoes DEF driver
<1>2. stat'.fail = loc[c].snap.fail /\ stat'.resp = stat.resp BY <1>1, <1>t DEF Stats
<1>3. pc[c] = "settlefail" /\ pc'[c] = "test" BY <1>1, OneMoves
<1>4. /\ stat.resp = loc[c].snap.resp /\ stat.fail <= loc[c].snap.fail
      /\ loc[c].failed => loc[c].snap.fail > stat.fail
      /\ NotOlder(loc[c].snap, drv)
  BY <1>3 DEF Snapshot, WithSnapshot
<1>f. loc'[c].failed = loc[c].failed BY <1>1, <1>t, LocalReplaced, LocalTypes
<1>5. Books'
  <2>1. /\ Owes(c) = 1 /\ Owes(c)' = 1 /\ FailsOwed(c) = 0
        /\ FailsOwed(c)' = (IF loc[c].failed THEN 1 ELSE 0)
    BY <1>3, <1>f DEF Owes, FailsOwed, Crediting
  <2>2. /\ 1 - stat.resp <= 1 - stat.resp
        /\ (IF loc[c].failed THEN 1 ELSE 0) - loc[c].snap.fail <= 0 - stat.fail
    BY <1>4, <1>t, CredTypes
  <2>3. (IF loc[c].failed THEN 1 ELSE 0) \in {0, 1} OBVIOUS
  <2> QED BY <1>1, <1>2, <1>t, <2>1, <2>2, <2>3, CredTypes, BooksChain DEF CountLabels
<1>s. \A a : /\ NotOlder(stat', a) <=> NotOlder(loc[c].snap, a)
             /\ NotOlder(a, stat') <=> NotOlder(a, loc[c].snap)
  BY <1>2, <1>4 DEF NotOlder
<1>6. Untorn'
  <2>1. pc'["irq"] # "idle" => pc'["main"] \notin {"deltafail", "settle", "settlefail"}
    BY <1>1, <1>3, OneMoves DEF Untorn, Rests
  <2>2. NotOlder(stat', drv) BY <1>4, <1>s
  <2>3. NotOlder(stat, drv)' BY <1>1, <2>2 DEF NotOlder
  <2>4. stat'.resp <= drv.resp /\ stat'.fail <= drv.fail BY <2>2 DEF NotOlder
  <2>5. ~(pc'["main"] = "delta" /\ pc'["irq"] \in WithSnapshot)
    BY <1>1, <1>3, OneMoves DEF WithSnapshot
  <2> QED BY <1>1, <2>1, <2>3, <2>4, <2>5 DEF Untorn
<1>7. Snapshot(c)' BY <1>3 DEF Snapshot, WithSnapshot, Comparing
<1>8. ASSUME NEW d \in Ctx \ {c} PROVE Snapshot(d)'
  <2>1. Rests(d) BY <1>1, OneMoves
  <2>2. CASE d = "main"
    <3>1. c = "irq" /\ pc["main"] \notin {"deltafail", "settle", "settlefail"}
      BY <1>1, <1>3, <2>2, OneMoves DEF Untorn
    <3>2. pc["main"] = "delta" => NotOlder(loc["main"].snap, stat')
      BY <1>3, <1>s, <3>1 DEF Untorn, WithSnapshot
    <3>3. pc["main"] = "delta" => NotOlder(loc["main"].snap, stat)'
      BY <2>1, <2>2, <3>2 DEF Rests, NotOlder
    <3>4. NotOlder(loc[d].snap, drv)' <=> NotOlder(loc[d].snap, drv)
      BY <1>1, <2>1 DEF NotOlder, Rests
    <3> QED BY <2>1, <2>2, <3>1, <3>3, <3>4 DEF Snapshot, Rests, Comparing
  <2>3. CASE d = "irq"
    <3>1. pc'["irq"] = "idle" BY <1>1, <2>3, OneMoves
    <3> QED BY <2>3, <3>1 DEF Snapshot, WithSnapshot, Comparing
  <2> QED BY <2>2, <2>3 DEF Ctx
<1> QED BY <1>5, <1>6, <1>7, <1>8

\* The frame is fetched, and credited.
LEMMA CreditingKeeps ==
  ASSUME TypeInv, TypeInv', Books, Untorn, \A d \in Ctx : Snapshot(d), NEW c \in Ctx,
         pc'[c] \in {"take", "clear"} \/ pc[c] = "clear",
         TestCredited(c) \/ Take(c) \/ Clear(c)
  PROVE  Books' /\ Untorn' /\ \A d \in Ctx : Snapshot(d)'
<1>t. stat \in Stats /\ drv \in Stats /\ loc[c] \in Local BY CredTypes
<1>1. /\ stat' = stat /\ drv' = drv /\ cnt' = cnt
      /\ \/ Moves(c, "test", "take") /\ loc'[c] = loc[c]
         \/ Moves(c, "take", "clear") /\ loc'[c].failed = loc[c].failed
         \/ Moves(c, "clear", "failed") /\ loc[c].failed
         \/ Moves(c, "clear", "ok") /\ ~loc[c].failed
  <2>1. CASE TestCredited(c)
    BY <2>1, TestCreditedDoes, OneMoves DEF Quiet, core, driver
  <2>2. CASE Take(c)
    <3>1. loc'[c] = [loc[c] EXCEPT !.done = inflight # NoFrame] BY <2>2, TakeDoes
    <3>2. loc'[c].failed = loc[c].failed BY <1>t, <3>1, LocalReplaced
    <3>3. Moves(c, "take", "clear") \/ Moves(c, "expire", "lapse") BY <2>2, TakeDoes
    <3>4. ~Moves(c, "expire", "lapse") BY OneMoves
    <3> QED BY <2>2, <3>2, <3>3, <3>4, TakeDoes DEF Quiet, core, driver
  <2>3. CASE Clear(c)
    <3>1. ~Moves(c, "lapse", "timeout") BY OneMoves
    <3> QED BY <2>3, <3>1, ClearDoes DEF driver
  <2> QED BY <2>1, <2>2, <2>3
<1>m. PICK l, m : Moves(c, l, m) /\ l \in Crediting /\ m \notin WithSnapshot
  BY <1>1 DEF Crediting, WithSnapshot
<1>w. Whole' <=> Whole BY <1>m, OneMoves DEF Whole, Rests, Crediting, WithSnapshot
<1>4. Books'
  <2>1. CASE Moves(c, "test", "take") \/ Moves(c, "take", "clear")
    <3>1. PICK a \in Crediting, b \in Crediting :
            Moves(c, a, b) /\ a \notin CountLabels /\ b \notin CountLabels
      BY <2>1 DEF Crediting, CountLabels
    <3>2. loc'[c].failed = loc[c].failed BY <1>1, <2>1, OneMoves
    <3>3. Owes(c) = 1 /\ Owes(c)' = 1 /\ FailsOwed(c)' = FailsOwed(c) /\ FailsOwed(c) \in {0, 1}
      BY <3>1, <3>2, OneMoves DEF Owes, FailsOwed
    <3> QED BY <1>1, <1>t, <3>1, <3>3, CredTypes, BooksChain
  <2>2. ASSUME NEW k \in {"ok", "failed"}, Moves(c, "clear", k), loc[c].failed = (k = "failed")
        PROVE  Books'
    <3>1. k \in Counters /\ "ok" \in Counters /\ "failed" \in Counters BY StoreLabels
    <3>2. Begins(c, k) BY <1>1, <2>2, MovesAlone DEF Begins, SameCounts, CountLabels
    <3>3. PICK x \in Nat, y \in Nat : x = Counted("ok")' /\ y = Counted("failed")'
      BY <3>1, CountedNat
    <3>4. /\ x = Counted("ok") + (IF k = "ok" THEN 1 ELSE 0)
          /\ y = Counted("failed") + (IF k = "failed" THEN 1 ELSE 0)
      BY <3>1, <3>2, <3>3, BegunCounted
    <3>5. /\ Owes(c) = 1 /\ Owes(c)' = 0 /\ FailsOwed(c)' = 0
          /\ FailsOwed(c) = (IF k = "failed" THEN 1 ELSE 0)
      <4>1. pc[c] = "clear" /\ pc'[c] = k BY <2>2, OneMoves
      <4>2. CASE k = "ok" BY <2>2, <4>1, <4>2 DEF Owes, FailsOwed, Crediting
      <4>3. CASE k = "failed" BY <2>2, <4>1, <4>3 DEF Owes, FailsOwed, Crediting
      <4> QED BY <4>2, <4>3
    <3>6. \A d \in Ctx \ {c} : Rests(d) BY <2>2, OneMoves
    <3>7. /\ x + y + 0 - stat.resp <= Counted("ok") + Counted("failed") + 1 - stat.resp
          /\ y + 0 - stat.fail <= Counted("failed") + (IF k = "failed" THEN 1 ELSE 0) - stat.fail
      BY <3>4, CredTypes
    <3> QED BY <1>1, <3>3, <3>5, <3>6, <3>7, CredTypes, BooksMove
  <2> QED BY <1>1, <1>t, <2>1, <2>2 DEF Local
<1>5. Untorn'
  <2>1. pc'["irq"] # "idle" => pc'["main"] \notin {"deltafail", "settle", "settlefail"}
    BY <1>m, OneMoves DEF Untorn, Rests, Crediting, WithSnapshot
  <2>2. ~(pc'["main"] = "delta" /\ pc'["irq"] \in WithSnapshot)
    BY <1>m, OneMoves DEF WithSnapshot
  <2>3. NotOlder(stat, drv)' <=> NotOlder(stat, drv) BY <1>1 DEF NotOlder
  <2> QED BY <1>1, <1>w, <2>1, <2>2, <2>3 DEF Untorn
<1>6. Snapshot(c)' BY <1>m, OneMoves DEF Snapshot, WithSnapshot, Comparing
<1> QED BY <1>1, <1>m, <1>4, <1>5, <1>6, <1>w, OneMoves, SnapshotRests

\* Every other step leaves the statistics seen alone and credits nothing.
LEMMA MovesElsewhere ==
  ASSUME TypeInv, NEW c \in Ctx, NEW l, NEW m, Moves(c, l, m), stat' = stat, drv' = drv,
         l # "settlefail", m \notin CreditLabels, m \notin {"ok", "failed"}
  PROVE  Elsewhere
<1>1. NotOlder(drv, drv') BY CredTypes, NotOlderTwice
<1>2. ~BeginsCredit BY OneMoves DEF BeginsCredit, Rests
<1> QED BY <1>1, <1>2, OneMoves DEF Elsewhere

LEMMA PumpElsewhere ==
  ASSUME TypeInv, NEW c \in Ctx, PumpStep(c)
  PROVE  \/ Elsewhere
         \/ ReadStats(c) \/ CompareResponses(c)
         \/ CompareFailures(c) /\ pc'[c] = "settle"
         \/ RememberResponses(c) \/ RememberFailures(c)
         \/ /\ pc'[c] \in {"take", "clear"} \/ pc[c] = "clear"
            /\ TestCredited(c) \/ Take(c) \/ Clear(c)
<1>l. CreditLabels = {"delta", "deltafail", "settle", "settlefail", "test", "take", "clear"}
  BY DEF CreditLabels, WithSnapshot, Crediting
<1>1. CASE CompareFailures(c) /\ pc'[c] # "settle"
  <2>1. ~Moves(c, "deltafail", "settle") BY <1>1, OneMoves
  <2>2. UNCHANGED <<stat, drv>> BY <1>1, CompareFailuresDoes DEF Quiet, core, driver
  <2>3. Moves(c, "deltafail", "check") BY <1>1, <2>1, CompareFailuresDoes
  <2> QED BY <1>l, <2>2, <2>3, MovesElsewhere
<1>2. CASE TestCredited(c) /\ pc'[c] # "take"
  <2>1. Moves(c, "test", "check") /\ UNCHANGED <<stat, drv>>
    BY <1>2, TestCreditedDoes, OneMoves DEF Quiet, core, driver
  <2> QED BY <1>l, <2>1, MovesElsewhere
<1>3. CASE Take(c) /\ pc'[c] # "clear"
  <2>1. ~Moves(c, "take", "clear") BY <1>3, OneMoves
  <2>2. Moves(c, "expire", "lapse") /\ UNCHANGED <<stat, drv>>
    BY <1>3, <2>1, TakeDoes DEF Quiet, core, driver
  <2> QED BY <1>l, <2>2, MovesElsewhere
<1>4. CASE Clear(c) /\ pc[c] # "clear"
  <2>1. ~Moves(c, "clear", "ok") /\ ~Moves(c, "clear", "failed") BY <1>4, OneMoves
  <2>2. Moves(c, "lapse", "timeout") /\ UNCHANGED <<stat, drv>>
    BY <1>4, <2>1, ClearDoes DEF driver
  <2> QED BY <1>l, <2>2, MovesElsewhere
<1>5. CASE CountLoad(c)
  <2>1. PICK k \in Counters : Moves(c, k, StoreLabel[k])
    BY <1>5, CountLoadDoes
  <2>2. UNCHANGED <<stat, drv>> BY <1>5, CountLoadDoes DEF Quiet, core, driver
  <2>3. /\ k # "settlefail" /\ StoreLabel[k] \notin CreditLabels
        /\ StoreLabel[k] \notin {"ok", "failed"}
    BY <1>l DEF Counters, StoreLabel
  <2> QED BY <2>1, <2>2, <2>3, MovesElsewhere
<1>6. CASE CreditOk(c) \/ CreditFailed(c) \/ CountTimeout(c) \/ CountSent(c)
  <2>1. UNCHANGED <<stat, drv>>
    BY <1>6, CreditOkDoes, CreditFailedDoes, CountTimeoutDoes, CountSentDoes DEF Stores, driver
  <2>2. \/ Moves(c, "ok+", "check") \/ Moves(c, "failed+", "check")
        \/ Moves(c, "failed+", "idle") \/ Moves(c, "timeout+", "nonempty")
        \/ Moves(c, "timeout+", "idle") \/ Moves(c, "sent+", "mark")
    BY <1>6, CreditOkDoes, CreditFailedDoes, CountTimeoutDoes, CountSentDoes
  <2> QED BY <1>l, <2>1, <2>2, MovesElsewhere
<1>7. CASE TestInflight(c) \/ TestElapsed(c) \/ TestQueue(c)
  <2>1. UNCHANGED <<stat, drv>>
    BY <1>7, TestInflightDoes, TestElapsedDoes, TestQueueDoes DEF Quiet, core, driver
  <2>2. \/ Moves(c, "check", "nonempty") \/ Moves(c, "check", "elapsed")
        \/ Moves(c, "elapsed", "expire") \/ Moves(c, "elapsed", "idle")
        \/ Moves(c, "nonempty", "peek") \/ Moves(c, "nonempty", "idle")
    BY <1>7, TestInflightDoes, TestElapsedDoes, TestQueueDoes
  <2> QED BY <1>l, <2>1, <2>2, MovesElsewhere
<1>8. CASE Peek(c) \/ SendTaken(c) \/ SendRaises(c) \/ DropRefused(c) \/ Pop(c) \/ MarkInflight(c)
  <2>1. UNCHANGED <<stat, drv>>
    BY <1>8, PeekDoes, SendTakenDoes, SendRaisesDoes, DropRefusedDoes, PopDoes, MarkInflightDoes
       DEF Quiet, core, driver
  <2>2. \/ Moves(c, "peek", "send") \/ Moves(c, "peek", "idle") \/ Moves(c, "send", "pop")
        \/ Moves(c, "send", "drop") \/ Moves(c, "drop", "idle") \/ Moves(c, "pop", "idle")
        \/ Moves(c, "pop", "sent") \/ Moves(c, "mark", "idle")
    BY <1>8, PeekDoes, SendTakenDoes, SendRaisesDoes, DropRefusedDoes, PopDoes, MarkInflightDoes
  <2> QED BY <1>l, <2>1, <2>2, MovesElsewhere
<1> QED BY <1>1, <1>2, <1>3, <1>4, <1>5, <1>6, <1>7, <1>8 DEF PumpStep

LEMMA OutsideElsewhere ==
  ASSUME TypeInv, TypeInv',
         \/ EnqTest \/ EnqDropOldest \/ EnqAppend \/ EnqCounted \/ WaitPump \/ SendFragmented
         \/ IrqPump \/ SendDirect \/ TimePasses \/ DriverAnswers \/ UNCHANGED vars
  PROVE  Elsewhere
<1>c. "main" \in Ctx /\ "irq" \in Ctx BY LocalTypes
<1>l. CreditLabels = {"delta", "deltafail", "settle", "settlefail", "test", "take", "clear"}
  BY DEF CreditLabels, WithSnapshot, Crediting
<1>1. CASE EnqTest \/ EnqDropOldest \/ EnqAppend \/ EnqCounted \/ WaitPump \/ SendFragmented
  <2>1. UNCHANGED <<stat, drv>>
    BY <1>1 DEF EnqTest, EnqDropOldest, EnqAppend, EnqCounted, WaitPump, SendFragmented, Store,
         core, driver
  <2>2. \/ Moves("main", "enq", "enqdrop") \/ Moves("main", "enq", "enqapp")
        \/ Moves("main", "enqdrop", "idle") \/ Moves("main", "enqdrop", "enqapp")
        \/ Moves("main", "enqapp", "queued") \/ Moves("main", "queued+", "enq")
        \/ Moves("main", "queued+", "stats") \/ Moves("main", "idle", "stats")
        \/ Moves("main", "idle", "enq")
    BY <1>1, EnqTestDoes, EnqDropOldestDoes, EnqAppendDoes, EnqCountedDoes, WaitPumpDoes,
       SendFragmentedDoes
  <2> QED BY <1>c, <1>l, <2>1, <2>2, MovesElsewhere
<1>2. CASE IrqPump
  BY <1>2, <1>c, <1>l, IrqPumpDoes, MovesElsewhere DEF core
<1>3. CASE SendDirect \/ TimePasses \/ UNCHANGED vars
  <2>1. UNCHANGED <<stat, drv, pc, loc>> BY <1>3 DEF SendDirect, TimePasses, driver, vars
  <2> QED BY <2>1, CredTypes, NotOlderTwice DEF Elsewhere, Rests, BeginsCredit
<1>4. CASE DriverAnswers
  <2>1. UNCHANGED <<stat, pc, loc>> BY <1>4 DEF DriverAnswers, core
  <2>2. PICK failed \in {0, 1} : drv' = [resp |-> drv.resp + 1, fail |-> drv.fail + failed]
    BY <1>4 DEF DriverAnswers
  <2>3. NotOlder(drv, drv') BY <2>2, CredTypes DEF NotOlder
  <2> QED BY <2>1, <2>3 DEF Elsewhere, Rests, BeginsCredit
<1> QED BY <1>1, <1>2, <1>3, <1>4

LEMMA CredPreserved ==
  ASSUME TypeInv, TypeInv', RegInv, CredInv, [Next]_vars
  PROVE  CredInv'
<1>1. CASE Elsewhere BY <1>1, ElsewhereKeeps
<1>2. ASSUME NEW c \in Ctx, PumpStep(c), ~Elsewhere PROVE CredInv'
  <2> SUFFICES ASSUME "stats" \notin torn'
               PROVE  Books' /\ Untorn' /\ \A d \in Ctx : Snapshot(d)'
    BY DEF CredInv
  <2>1. Books /\ Untorn /\ \A d \in Ctx : Snapshot(d) BY StepTorn DEF CredInv
  <2> QED BY <1>2, <2>1, PumpElsewhere, ReadKeeps, CompareKeeps, RememberResponsesKeeps,
             RememberFailuresKeeps, CreditingKeeps
<1> QED BY <1>1, <1>2, OutsideElsewhere, LocalTypes DEF Next, MainStep

LEMMA InitCred == Init => CredInv
<1> SUFFICES ASSUME Init PROVE Books /\ Untorn /\ \A c \in Ctx : Snapshot(c)
  BY DEF CredInv
<1>1. \A c \in Ctx : pc[c] = "idle" BY DEF Init
<1>2. "ok" \in Counters /\ "failed" \in Counters BY StoreLabels
<1>3. \A k \in Counters : cnt[k] = 0 BY DEF Init
<1>4. \A k \in Counters : One("idle", k) = 0 BY OneIs, StoreLabels
<1>5. Counted("ok") = 0 /\ Counted("failed") = 0
  BY <1>1, <1>2, <1>3, <1>4, CountedIs, LocalTypes
<1>6. \A c \in Ctx : Owes(c) = 0 /\ FailsOwed(c) = 0
  BY <1>1 DEF Owes, FailsOwed, Crediting
<1>7. stat.resp = 0 /\ stat.fail = 0 /\ drv.resp = 0 /\ drv.fail = 0 BY DEF Init
<1>8. Books BY <1>5, <1>6, <1>7, LocalTypes DEF Books
<1>9. Untorn BY <1>1, <1>7, LocalTypes DEF Untorn, NotOlder
<1>10. \A c \in Ctx : Snapshot(c) BY <1>1 DEF Snapshot, WithSnapshot, Comparing
<1> QED BY <1>8, <1>9, <1>10

\* On every port, no completion is invented, unless the callback has come between
\* main's comparison of the statistics and its last store of them
\* (_update_tx_completion).
THEOREM CompletionsAreBacked == Spec => []CompletionsBacked
<1>1. TypeInv /\ CredInv => CompletionsBacked
  <2> SUFFICES ASSUME TypeInv, CredInv, "stats" \notin torn
               PROVE  /\ Counted("ok") + Counted("failed") <= stat.resp
                      /\ Counted("failed") <= stat.fail
                      /\ stat.resp <= drv.resp /\ stat.fail <= drv.fail
    BY DEF CompletionsBacked
  <2>1. \A c \in Ctx : Owes(c) \in {0, 1} /\ FailsOwed(c) \in {0, 1} BY DEF Owes, FailsOwed
  <2> QED BY <2>1, CredTypes, LocalTypes DEF CredInv, Books, Untorn
<1>2. Init => CredInv BY InitCred
<1>3. (TypeInv /\ RegInv /\ CountInv) /\ (TypeInv /\ RegInv /\ CountInv)' /\ CredInv
        /\ [Next]_vars => CredInv'
  BY CredPreserved
<1> QED BY <1>1, <1>2, <1>3, CountInvariant, PTL DEF Spec

-----------------------------------------------------------------------------
(* The polled port, where main is alone.                                   *)

InFlight == IF inflight = NoFrame THEN 0 ELSE 1
Marking == IF pc["main"] \in {"sent", "sent+", "mark"} THEN 1 ELSE 0
Popping == IF pc["main"] = "pop" THEN 1 ELSE 0
HeldCount == Len(outstanding)

\* What main knows at each label about the frame in flight and the queue's head.
MainKnows ==
  /\ pc["main"] \in {"take", "clear", "elapsed", "expire", "lapse"} => inflight # NoFrame
  /\ pc["main"] \in {"timeout", "timeout+", "nonempty", "peek"} \cup Holding =>
       inflight = NoFrame
  /\ pc["main"] \in {"peek", "send", "drop", "pop"} => txQueue # << >>
  /\ pc["main"] \in {"send", "drop", "pop"} => loc["main"].frame = Head(txQueue)
  /\ pc["main"] = "pop" => loc["main"].frame \in Range(hist.air)

\* What was sent is settled or in flight, but for the frame main is about to mark.
Settled ==
  Counted("sent") = Counted("ok") + Counted("failed") + Counted("timeout") + InFlight + Marking

\* Transmissions are counted, and each is answered or still with the driver.
OnAir ==
  /\ AirCount = Counted("sent") + Popping
  /\ AirCount + cnt["direct"] = HeldCount + drv.resp

NothingLost ==
  Range(hist.accepted) \subseteq Range(txQueue) \cup Range(hist.air) \cup Range(hist.discarded)

Polled == MainKnows /\ Settled /\ OnAir /\ NothingLost
PolledInv == ~irqOn => Polled

\* The types the steps of main need.
LEMMA PolledTypes ==
  TypeInv => /\ hist \in Hist /\ loc \in [Ctx -> Local] /\ "main" \in Ctx /\ "irq" \in Ctx
             /\ txQueue \in Seq(Frame) /\ outstanding \in Seq(Frame \cup {Direct})
             /\ hist.accepted \in Seq(Frame) /\ hist.air \in Seq(Frame)
             /\ hist.discarded \in Seq(Frame) /\ AirCount \in Nat /\ HeldCount \in Nat
             /\ cnt["direct"] \in Nat /\ drv.resp \in Nat
             /\ \A k \in Counters : Counted(k) \in Nat
             /\ {"sent", "ok", "failed", "timeout"} \subseteq Counters
             /\ InFlight \in {0, 1} /\ Marking \in {0, 1} /\ Popping \in {0, 1}
<1>1. {"sent", "ok", "failed", "timeout"} \subseteq Counters BY DEF Counters
<1>2. InFlight \in {0, 1} /\ Marking \in {0, 1} /\ Popping \in {0, 1}
  BY DEF InFlight, Marking, Popping
<1> SUFFICES ASSUME TypeInv
             PROVE  /\ hist \in Hist /\ loc \in [Ctx -> Local] /\ "main" \in Ctx /\ "irq" \in Ctx
                    /\ txQueue \in Seq(Frame) /\ outstanding \in Seq(Frame \cup {Direct})
                    /\ hist.accepted \in Seq(Frame) /\ hist.air \in Seq(Frame)
                    /\ hist.discarded \in Seq(Frame) /\ AirCount \in Nat /\ HeldCount \in Nat
                    /\ cnt["direct"] \in Nat /\ drv.resp \in Nat
                    /\ \A k \in Counters : Counted(k) \in Nat
  BY <1>1, <1>2
<1>3. /\ hist \in Hist /\ loc \in [Ctx -> Local] /\ txQueue \in Seq(Frame)
      /\ outstanding \in Seq(Frame \cup {Direct}) /\ cnt \in Cnt /\ drv \in Stats
  BY TypeData DEF DataOK
<1>4. cnt["direct"] \in Nat /\ drv.resp \in Nat BY <1>3 DEF Cnt, Stats
<1> QED BY <1>3, <1>4, LocalTypes, CountedNat DEF Hist, AirCount, HeldCount

\* Main alone moves, and the counters with it.
LEMMA CountsStay ==
  ASSUME TypeInv, TypeInv', RegInv, ~irqOn, [Next]_vars,
         pc'["main"] \notin Counters \/ pc'["main"] = pc["main"]
  PROVE  \A k \in Counters : Counted(k)' = Counted(k)
<1> SUFFICES ASSUME NEW k \in Counters PROVE Counted(k)' = Counted(k)
  OBVIOUS
<1>i. pc["irq"] = "idle" /\ pc'["irq"] = "idle" BY StepTorn DEF RegInv
<1>n. "idle" \notin CountLabels BY StoreLabels
<1>1. CASE NoCount BY <1>1, NoneCounted
<1>2. ASSUME NEW c \in Ctx, NEW j \in Counters, Begins(c, j) PROVE FALSE
  BY <1>2, <1>i, <1>n, StoreLabels DEF Begins, Ctx
<1>3. ASSUME NEW c \in Ctx, NEW j \in Counters, Loads(c, j) PROVE Counted(k)' = Counted(k)
  BY <1>3, LoadedCounted
<1>4. ASSUME NEW c \in Ctx, NEW j \in Counters, Saves(c, j) PROVE Counted(k)' = Counted(k)
  <2>1. c = "main" BY <1>4, <1>i, <1>n, StoreLabels DEF Saves, Ctx
  <2>2. Current(c, j) BY <1>4, <2>1 DEF RegInv, Saves, Loaded
  <2> QED BY <1>4, <2>2, SavedCounted
<1> QED BY <1>1, <1>2, <1>3, <1>4, NextCounts, StoreLabels DEF StepCounts

LEMMA CountsBegin ==
  ASSUME TypeInv, NEW k \in Counters, NEW l, l \notin CountLabels, Moves("main", l, k),
         cnt' = cnt, NEW j \in Counters
  PROVE  Counted(j)' = Counted(j) + (IF j = k THEN 1 ELSE 0)
<1>1. Begins("main", k) BY MovesAlone, LocalTypes DEF Begins, SameCounts
<1> QED BY <1>1, BegunCounted, LocalTypes

\* A step that touches neither the queue nor a frame nor the driver.
Calm == /\ UNCHANGED <<txQueue, inflight, outstanding, hist>>
        /\ cnt'["direct"] = cnt["direct"] /\ drv'.resp = drv.resp
        /\ Marking' = Marking /\ Popping' = Popping

LEMMA CalmKeeps ==
  ASSUME TypeInv, TypeInv', RegInv, ~irqOn, [Next]_vars, Polled, Calm,
         pc'["main"] \notin Counters \/ pc'["main"] = pc["main"], MainKnows'
  PROVE  Polled'
<1>1. \A k \in Counters : Counted(k)' = Counted(k) BY CountsStay
<1>2. /\ Counted("sent")' = Counted("sent") /\ Counted("ok")' = Counted("ok")
      /\ Counted("failed")' = Counted("failed") /\ Counted("timeout")' = Counted("timeout")
  BY <1>1, PolledTypes
<1>3. InFlight' = InFlight /\ HeldCount' = HeldCount /\ AirCount' = AirCount
  BY DEF Calm, InFlight, HeldCount, AirCount
<1>4. Settled' BY <1>2, <1>3 DEF Polled, Settled, Calm
<1>5. OnAir' BY <1>2, <1>3 DEF Polled, OnAir, Calm
<1>6. NothingLost' BY DEF Polled, NothingLost, Calm
<1> QED BY <1>4, <1>5, <1>6 DEF Polled

\* Labels at which main knows nothing of the frame in flight and of the queue.
Knowing == {"take", "clear", "elapsed", "expire", "lapse", "timeout", "timeout+", "nonempty",
            "peek"} \cup Holding

LEMMA KnowsLittle ==
  ASSUME pc'["main"] \notin Knowing
  PROVE  MainKnows'
  BY DEF MainKnows, Knowing, Holding

LEMMA KnowsStill ==
  ASSUME MainKnows, UNCHANGED <<txQueue, inflight, hist>>, Rests("main")
  PROVE  MainKnows'
  BY DEF MainKnows, Rests

LEMMA PolledCalm ==
  ASSUME TypeInv, TypeInv', RegInv, ~irqOn, [Next]_vars, Polled,
         \/ WaitPump \/ SendFragmented \/ EnqTest \/ EnqCounted
         \/ ReadStats("main") \/ CompareResponses("main") \/ CompareFailures("main")
         \/ RememberResponses("main") \/ RememberFailures("main") \/ TestCredited("main")
         \/ Take("main") \/ CountLoad("main") \/ CreditOk("main") \/ CreditFailed("main")
         \/ TestInflight("main") \/ TestElapsed("main") \/ CountTimeout("main")
         \/ TestQueue("main") \/ Peek("main") \/ SendRaises("main") \/ CountSent("main")
         \/ TimePasses \/ UNCHANGED vars
  PROVE  Polled'
<1>0. MainKnows /\ loc \in [Ctx -> Local] /\ cnt \in Cnt /\ "main" \in Ctx
  BY TypeData, LocalTypes DEF Polled, DataOK
<1>k. Knowing = {"take", "clear", "elapsed", "expire", "lapse", "timeout", "timeout+", "nonempty",
                 "peek", "send", "drop", "pop", "sent", "sent+", "mark"}
  BY DEF Knowing, Holding
\* Main goes from a label to another one, and nothing a fragment is in changes.
<1>g. ASSUME NEW l, NEW m, Moves("main", l, m),
             UNCHANGED <<txQueue, inflight, outstanding, drv, hist>>,
             cnt'["direct"] = cnt["direct"], m \notin Counters, MainKnows',
             l \in {"sent", "sent+", "mark"} <=> m \in {"sent", "sent+", "mark"},
             l # "pop", m # "pop"
      PROVE  Polled'
  <2>1. Calm BY <1>g, MovesAlone, LocalTypes DEF Calm, Marking, Popping
  <2>2. pc'["main"] \notin Counters BY <1>g, MovesAlone, LocalTypes
  <2> QED BY <1>g, <2>1, <2>2, CalmKeeps
<1>q. ASSUME NEW l, NEW m, Moves("main", l, m), Quiet \/ UNCHANGED <<core, driver, hist>>,
             m \notin Counters, MainKnows',
             l \in {"sent", "sent+", "mark"} <=> m \in {"sent", "sent+", "mark"},
             l # "pop", m # "pop"
      PROVE  Polled'
  BY <1>g, <1>q DEF Quiet, core, driver
<1>c. Counters = {"queued", "sent", "ok", "failed", "timeout"} BY DEF Counters
<1>m. \A l, m : Moves("main", l, m) => pc["main"] = l /\ pc'["main"] = m
  BY MovesAlone, LocalTypes
<1>1. CASE WaitPump
  <2>1. Moves("main", "idle", "stats") /\ UNCHANGED <<core, driver, hist>>
    BY <1>1, WaitPumpDoes
  <2> QED BY <1>c, <1>k, <1>m, <1>q, <2>1, KnowsLittle
<1>2. CASE SendFragmented
  <2>1. Moves("main", "idle", "enq")
        /\ UNCHANGED <<txQueue, inflight, outstanding, drv, cnt, hist>>
    BY <1>2, SendFragmentedDoes DEF driver
  <2> QED BY <1>c, <1>k, <1>m, <1>g, <2>1, KnowsLittle
<1>3. CASE EnqTest
  <2>1. Quiet /\ (Moves("main", "enq", "enqdrop") \/ Moves("main", "enq", "enqapp"))
    BY <1>3, EnqTestDoes
  <2> QED BY <1>c, <1>k, <1>m, <1>q, <2>1, KnowsLittle
<1>s. ASSUME NEW k \in Counters, Stores("main", k)
      PROVE  /\ UNCHANGED <<txQueue, inflight, outstanding, drv, hist>>
             /\ cnt'["direct"] = cnt["direct"]
  BY <1>0, <1>c, <1>s DEF Stores, driver, Cnt
<1>4. CASE EnqCounted \/ CreditOk("main") \/ CreditFailed("main")
  <2>1. \E k \in Counters : Stores("main", k)
    BY <1>4, <1>c, <1>0, EnqCountedDoes, CreditOkDoes, CreditFailedDoes
  <2>2. \/ Moves("main", "queued+", "enq") \/ Moves("main", "queued+", "stats")
        \/ Moves("main", "ok+", "check") \/ Moves("main", "failed+", "check")
        \/ Moves("main", "failed+", "idle")
    BY <1>4, <1>0, EnqCountedDoes, CreditOkDoes, CreditFailedDoes
  <2> QED BY <1>c, <1>k, <1>m, <1>g, <1>s, <2>1, <2>2, KnowsLittle
<1>5. CASE CountTimeout("main")
  <2>1. Stores("main", "timeout") BY <1>5, <1>0, CountTimeoutDoes
  <2>2. Moves("main", "timeout+", "nonempty") \/ Moves("main", "timeout+", "idle")
    BY <1>5, <1>0, CountTimeoutDoes
  <2>3. /\ UNCHANGED <<txQueue, inflight, outstanding, drv, hist>>
        /\ cnt'["direct"] = cnt["direct"]
    BY <1>c, <1>s, <2>1
  <2>4. MainKnows' BY <1>0, <1>m, <2>2, <2>3 DEF MainKnows, Holding
  <2> QED BY <1>c, <1>g, <2>2, <2>3, <2>4
<1>6. CASE CountSent("main")
  <2>1. Stores("main", "sent") /\ Moves("main", "sent+", "mark") BY <1>6, <1>0, CountSentDoes
  <2>2. /\ UNCHANGED <<txQueue, inflight, outstanding, drv, hist>>
        /\ cnt'["direct"] = cnt["direct"]
    BY <1>c, <1>s, <2>1
  <2>3. MainKnows' BY <1>0, <1>m, <2>1, <2>2 DEF MainKnows, Holding
  <2> QED BY <1>c, <1>g, <2>1, <2>2, <2>3
<1>7. CASE CountLoad("main")
  <2>1. PICK k \in Counters : Moves("main", k, StoreLabel[k]) BY <1>7, <1>0, CountLoadDoes
  <2>2. Quiet BY <1>7, <1>0, CountLoadDoes
  <2>3. /\ k # "pop" /\ StoreLabel[k] # "pop" /\ StoreLabel[k] \notin Counters
        /\ k \in {"sent", "sent+", "mark"} <=> StoreLabel[k] \in {"sent", "sent+", "mark"}
        /\ StoreLabel[k] \in Knowing => k \in {"sent", "timeout"}
        /\ StoreLabel[k] = (IF k = "sent" THEN "sent+" ELSE IF k = "timeout" THEN "timeout+"
                            ELSE StoreLabel[k])
    BY <1>c, <1>k DEF StoreLabel, Counters
  <2>4. MainKnows'
    <3>1. CASE k \notin {"sent", "timeout"} BY <1>m, <2>1, <2>3, <3>1, KnowsLittle
    <3>2. CASE k \in {"sent", "timeout"}
      <4>1. inflight = NoFrame /\ inflight' = inflight
        BY <1>0, <1>m, <2>1, <2>2, <3>2 DEF MainKnows, Holding, Quiet, core
      <4>2. pc'["main"] \in {"sent+", "timeout+"} BY <1>m, <2>1, <2>3, <3>2
      <4> QED BY <4>1, <4>2 DEF MainKnows, Holding
    <3> QED BY <3>1, <3>2
  <2> QED BY <1>q, <2>1, <2>2, <2>3, <2>4
<1>8. CASE ReadStats("main") \/ CompareResponses("main") \/ CompareFailures("main")
  <2>1. Quiet BY <1>8, <1>0, ReadStatsDoes, CompareResponsesDoes, CompareFailuresDoes
  <2>2. \/ Moves("main", "stats", "delta") \/ Moves("main", "delta", "deltafail")
        \/ Moves("main", "deltafail", "settle") \/ Moves("main", "deltafail", "check")
    BY <1>8, <1>0, ReadStatsDoes, CompareResponsesDoes, CompareFailuresDoes
  <2> QED BY <1>c, <1>k, <1>m, <1>q, <2>1, <2>2, KnowsLittle
<1>9. CASE RememberResponses("main") \/ RememberFailures("main")
  <2>1. UNCHANGED <<txQueue, inflight, outstanding, drv, cnt, hist>>
    BY <1>9, <1>0, RememberResponsesDoes, RememberFailuresDoes DEF driver
  <2>2. Moves("main", "settle", "settlefail") \/ Moves("main", "settlefail", "test")
    BY <1>9, <1>0, RememberResponsesDoes, RememberFailuresDoes
  <2> QED BY <1>c, <1>k, <1>m, <1>g, <2>1, <2>2, KnowsLittle
<1>10. CASE TestCredited("main") \/ Take("main") \/ TestInflight("main") \/ TestElapsed("main")
  <2>1. Quiet BY <1>10, <1>0, TestCreditedDoes, TakeDoes, TestInflightDoes, TestElapsedDoes
  <2>2. \/ Moves("main", "test", "check")
        \/ inflight # NoFrame /\ Moves("main", "test", "take")
        \/ Moves("main", "take", "clear") \/ Moves("main", "expire", "lapse")
        \/ inflight = NoFrame /\ Moves("main", "check", "nonempty")
        \/ inflight # NoFrame /\ Moves("main", "check", "elapsed")
        \/ inflight # NoFrame /\ Moves("main", "elapsed", "expire")
        \/ Moves("main", "elapsed", "idle")
    <3>1. CASE TestCredited("main")
      BY <3>1, <1>0, TestCreditedDoes
    <3>2. CASE Take("main") BY <3>2, <1>0, TakeDoes
    <3>3. CASE TestInflight("main") BY <3>3, <1>0, TestInflightDoes
    <3>4. CASE TestElapsed("main") BY <3>4, <1>0, TestElapsedDoes
    <3> QED BY <1>10, <3>1, <3>2, <3>3, <3>4
  <2>3. inflight' = inflight BY <2>1 DEF Quiet, core
  <2>4. MainKnows' BY <1>0, <1>m, <2>2, <2>3 DEF MainKnows, Holding
  <2> QED BY <1>c, <1>q, <2>1, <2>2, <2>4
<1>11. CASE TestQueue("main") \/ SendRaises("main")
  <2>1. Quiet BY <1>11, <1>0, TestQueueDoes, SendRaisesDoes
  <2>2. \/ txQueue # << >> /\ Moves("main", "nonempty", "peek")
        \/ Moves("main", "nonempty", "idle")
        \/ loc'["main"] = loc["main"] /\ Moves("main", "send", "drop")
    BY <1>11, <1>0, TestQueueDoes, SendRaisesDoes
  <2>3. inflight' = inflight /\ txQueue' = txQueue BY <2>1 DEF Quiet, core
  <2>4. MainKnows' BY <1>0, <1>m, <2>2, <2>3 DEF MainKnows, Holding
  <2> QED BY <1>c, <1>q, <2>1, <2>2, <2>4
<1>12. CASE Peek("main")
  <2>1. Quiet BY <1>12, <1>0, PeekDoes
  <2>2. inflight' = inflight /\ txQueue' = txQueue BY <2>1 DEF Quiet, core
  <2>3. CASE /\ txQueue # << >> /\ Moves("main", "peek", "send") /\ Head(txQueue) \in Frame
             /\ loc'["main"] = [loc["main"] EXCEPT !.frame = Head(txQueue)]
    <3>1. loc["main"] \in Local BY <1>0
    <3>2. loc'["main"].frame = Head(txQueue) BY <2>3, <3>1, LocalReplaced
    <3>3. MainKnows' BY <1>0, <1>m, <2>2, <2>3, <3>2 DEF MainKnows, Holding
    <3> QED BY <1>c, <1>q, <2>1, <2>3, <3>3
  <2>4. CASE Moves("main", "peek", "idle")
    BY <1>c, <1>k, <1>m, <1>q, <2>1, <2>4, KnowsLittle
  <2> QED BY <1>12, <1>0, <2>3, <2>4, PeekDoes
<1>13. CASE TimePasses
  <2>1. UNCHANGED <<txQueue, inflight, cnt, pc, loc, drv, outstanding, hist>>
    BY <1>13 DEF TimePasses, driver
  <2> QED BY <1>0, <2>1, KnowsStill, CalmKeeps DEF Calm, Marking, Popping, Rests
<1>14. CASE UNCHANGED vars
  <2>1. UNCHANGED <<txQueue, inflight, cnt, pc, loc, drv, outstanding, hist>>
    BY <1>14 DEF vars
  <2> QED BY <1>0, <2>1, KnowsStill, CalmKeeps DEF Calm, Marking, Popping, Rests
<1> QED BY <1>1, <1>2, <1>3, <1>4, <1>5, <1>6, <1>7, <1>8, <1>9, <1>10, <1>11, <1>12, <1>13,
           <1>14

\* What a sequence holds after an append, and besides its head.
LEMMA RangeAppend ==
  ASSUME NEW S, NEW s \in Seq(S), NEW e \in S
  PROVE  Range(Append(s, e)) = Range(s) \cup {e}
<1> DEFINE t == Append(s, e)
<1>1. /\ t \in Seq(S) /\ Len(s) \in Nat /\ Len(t) = Len(s) + 1 /\ t[Len(s) + 1] = e
      /\ \A i \in 1 .. Len(s) : t[i] = s[i]
  BY AppendAt
<1>2. DOMAIN s = 1 .. Len(s) /\ DOMAIN t = 1 .. Len(s) + 1 BY <1>1
<1> HIDE DEF t
<1>3. 1 .. Len(s) + 1 = (1 .. Len(s)) \cup {Len(s) + 1} BY <1>1
<1> QED BY <1>1, <1>2, <1>3 DEF Range, t

LEMMA RangeTail ==
  ASSUME NEW S, NEW s \in Seq(S), s # << >>
  PROVE  Range(s) = Range(Tail(s)) \cup {Head(s)}
<1> DEFINE t == Tail(s)
<1>1. /\ t \in Seq(S) /\ Len(s) \in Nat \ {0} /\ Len(t) = Len(s) - 1 /\ Head(s) = s[1]
      /\ \A i \in 1 .. Len(s) - 1 : t[i] = s[i + 1]
  BY TailAt
<1>2. DOMAIN s = 1 .. Len(s) /\ DOMAIN t = 1 .. Len(s) - 1 BY <1>1
<1> HIDE DEF t
<1>3. ASSUME NEW f \in Range(s) PROVE f \in Range(t) \cup {Head(s)}
  <2>1. PICK k \in 1 .. Len(s) : s[k] = f BY <1>2 DEF Range
  <2>2. CASE k = 1 BY <1>1, <2>1, <2>2
  <2>3. CASE k # 1
    <3>1. k - 1 \in 1 .. Len(s) - 1 /\ (k - 1) + 1 = k BY <1>1, <2>3
    <3>2. t[k - 1] = f BY <1>1, <2>1, <3>1
    <3> QED BY <1>2, <3>1, <3>2 DEF Range
  <2> QED BY <2>2, <2>3
<1>4. ASSUME NEW f \in Range(t) PROVE f \in Range(s)
  <2>1. PICK k \in 1 .. Len(s) - 1 : t[k] = f BY <1>2 DEF Range
  <2>2. k + 1 \in 1 .. Len(s) BY <1>1
  <2> QED BY <1>1, <1>2, <2>1, <2>2 DEF Range
<1>5. Head(s) \in Range(s)
  <2>1. 1 \in 1 .. Len(s) BY <1>1
  <2> QED BY <1>1, <1>2, <2>1 DEF Range
<1> QED BY <1>3, <1>4, <1>5 DEF t

\* _update_tx_completion and the timeout: the frame in flight is let go.
LEMMA PolledClear ==
  ASSUME TypeInv, TypeInv', RegInv, ~irqOn, [Next]_vars, Polled, Clear("main")
  PROVE  Polled'
<1>0. MainKnows /\ Settled /\ OnAir /\ NothingLost BY DEF Polled
<1>1. /\ inflight' = NoFrame /\ UNCHANGED <<txQueue, cnt, outstanding, drv, hist>>
      /\ \E k \in {"ok", "failed", "timeout"} :
           Moves("main", "clear", k) \/ Moves("main", "lapse", k)
  BY PolledTypes, ClearDoes DEF driver
<1>2. PICK k \in {"ok", "failed", "timeout"}, l \in {"clear", "lapse"} : Moves("main", l, k)
  BY <1>1
<1>3. pc["main"] = l /\ pc'["main"] = k BY <1>2, MovesAlone, PolledTypes
<1>4. MainKnows' BY <1>1, <1>3 DEF MainKnows, Holding
<1>5. \A j \in Counters : Counted(j)' = Counted(j) + (IF j = k THEN 1 ELSE 0)
  <2>1. k \in Counters /\ l \notin CountLabels BY DEF Counters, CountLabels
  <2> QED BY <1>1, <1>2, <2>1, CountsBegin
<1>6. PICK s \in Nat, o \in Nat, f \in Nat, t \in Nat :
        /\ s = Counted("sent")' /\ o = Counted("ok")' /\ f = Counted("failed")'
        /\ t = Counted("timeout")'
  BY CountedNat, PolledTypes
<1>7. /\ s = Counted("sent") /\ o = Counted("ok") + (IF k = "ok" THEN 1 ELSE 0)
      /\ f = Counted("failed") + (IF k = "failed" THEN 1 ELSE 0)
      /\ t = Counted("timeout") + (IF k = "timeout" THEN 1 ELSE 0)
  <2>1. /\ s = Counted("sent") + (IF "sent" = k THEN 1 ELSE 0)
        /\ o = Counted("ok") + (IF "ok" = k THEN 1 ELSE 0)
        /\ f = Counted("failed") + (IF "failed" = k THEN 1 ELSE 0)
        /\ t = Counted("timeout") + (IF "timeout" = k THEN 1 ELSE 0)
    BY <1>5, <1>6, PolledTypes, Zenon
  <2>2. Counted("sent") \in Nat BY PolledTypes
  <2> QED BY <2>1, <2>2
<1>8. /\ InFlight = 1 /\ InFlight' = 0 /\ Marking = 0 /\ Marking' = 0
      /\ Popping = 0 /\ Popping' = 0
  BY <1>0, <1>1, <1>3 DEF MainKnows, InFlight, Marking, Popping
<1>9. Settled'
  <2>1. Counted("sent") = Counted("ok") + Counted("failed") + Counted("timeout") + 1 + 0
    BY <1>0, <1>8 DEF Settled
  <2>2. /\ Counted("sent") \in Nat /\ Counted("ok") \in Nat /\ Counted("failed") \in Nat
        /\ Counted("timeout") \in Nat
    BY PolledTypes
  <2>3. s = o + f + t + 0 + 0 BY <1>2, <1>7, <2>1, <2>2
  <2> QED BY <1>6, <1>8, <2>3 DEF Settled
<1>10. OnAir'
  <2>1. AirCount' = AirCount /\ HeldCount' = HeldCount BY <1>1 DEF AirCount, HeldCount
  <2>2. AirCount = s + 0 /\ AirCount + cnt["direct"] = HeldCount + drv.resp
    BY <1>0, <1>7, <1>8 DEF OnAir
  <2> QED BY <1>1, <1>6, <1>8, <2>1, <2>2 DEF OnAir
<1>11. NothingLost' BY <1>0, <1>1 DEF NothingLost
<1> QED BY <1>4, <1>9, <1>10, <1>11 DEF Polled

\* _pump_tx_queue: the driver takes the head of the queue.
LEMMA PolledSend ==
  ASSUME TypeInv, TypeInv', RegInv, ~irqOn, [Next]_vars, Polled, SendTaken("main")
  PROVE  Polled'
<1>0. MainKnows /\ Settled /\ OnAir /\ NothingLost BY DEF Polled
<1> DEFINE f == loc["main"].frame
<1>1. /\ Moves("main", "send", "pop") /\ loc'["main"] = loc["main"] /\ f \in Frame
      /\ outstanding' = Append(outstanding, f) /\ hist'.air = Append(hist.air, f)
      /\ hist'.accepted = hist.accepted /\ hist'.discarded = hist.discarded
      /\ UNCHANGED <<txQueue, inflight, cnt, drv>>
  BY PolledTypes, SendTakenDoes DEF core
<1>2. pc["main"] = "send" /\ pc'["main"] = "pop" BY <1>1, MovesAlone, PolledTypes
<1>3. f = Head(txQueue) /\ txQueue # << >> /\ inflight = NoFrame
  BY <1>0, <1>2 DEF MainKnows, Holding
<1>4. Range(hist'.air) = Range(hist.air) \cup {f} BY <1>1, PolledTypes, RangeAppend
<1>5. MainKnows' BY <1>1, <1>2, <1>3, <1>4 DEF MainKnows, Holding
<1>6. \A k \in Counters : Counted(k)' = Counted(k) BY <1>2, CountsStay DEF Counters
<1>7. /\ Counted("sent")' = Counted("sent") /\ Counted("ok")' = Counted("ok")
      /\ Counted("failed")' = Counted("failed") /\ Counted("timeout")' = Counted("timeout")
  BY <1>6, PolledTypes
<1>8. InFlight' = InFlight /\ Marking' = Marking /\ Popping = 0 /\ Popping' = 1
  BY <1>1, <1>2 DEF InFlight, Marking, Popping
<1>9. Settled' BY <1>0, <1>7, <1>8 DEF Settled
<1>10. OnAir'
  <2>1. AirCount' = AirCount + 1
    <3>1. Len(Append(hist.air, f)) = Len(hist.air) + 1 BY <1>1, PolledTypes, AppendAt
    <3> QED BY <1>1, <3>1 DEF AirCount
  <2>2. HeldCount' = HeldCount + 1
    <3>1. f \in Frame \cup {Direct} BY <1>1
    <3> QED BY <1>1, <3>1, PolledTypes, AppendAt DEF HeldCount
  <2>3. PICK a \in Nat, h \in Nat : a = AirCount' /\ h = HeldCount'
    BY <2>1, <2>2, PolledTypes
  <2>4. AirCount = Counted("sent") /\ AirCount + cnt["direct"] = HeldCount + drv.resp
    BY <1>0, <1>8, PolledTypes DEF OnAir
  <2>5. a = Counted("sent") + 1 /\ a + cnt["direct"] = h + drv.resp
    <3>1. /\ AirCount \in Nat /\ HeldCount \in Nat /\ cnt["direct"] \in Nat /\ drv.resp \in Nat
          /\ a = AirCount + 1 /\ h = HeldCount + 1
      BY <2>1, <2>2, <2>3, PolledTypes
    <3> QED BY <2>4, <3>1
  <2> QED BY <1>1, <1>7, <1>8, <2>3, <2>5 DEF OnAir
<1>11. NothingLost' BY <1>0, <1>1, <1>4 DEF NothingLost
<1> QED BY <1>5, <1>9, <1>10, <1>11 DEF Polled

\* A fragment is dropped with a log line, or accepted.
LEMMA PolledQueue ==
  ASSUME TypeInv, TypeInv', RegInv, ~irqOn, [Next]_vars, Polled,
         DropRefused("main") \/ EnqDropOldest \/ EnqAppend
  PROVE  Polled'
<1>0. MainKnows /\ Settled /\ OnAir /\ NothingLost BY DEF Polled
<1>1. /\ UNCHANGED <<inflight, cnt, drv, outstanding>>
      /\ Discards \/ Accepts \/ UNCHANGED <<txQueue, hist>>
  BY PolledTypes, DropRefusedDoes, EnqDropOldestDoes, EnqAppendDoes DEF driver
<1>2. \/ Moves("main", "drop", "idle") \/ Moves("main", "enqdrop", "idle")
      \/ Moves("main", "enqdrop", "enqapp") \/ Moves("main", "enqapp", "queued")
  BY PolledTypes, DropRefusedDoes, EnqDropOldestDoes, EnqAppendDoes
<1>3. PICK l, m : Moves("main", l, m) /\ l \in {"drop", "enqdrop", "enqapp"}
                  /\ m \in {"idle", "enqapp", "queued"}
  BY <1>2
<1>4. pc["main"] = l /\ pc'["main"] = m BY <1>3, MovesAlone, PolledTypes
<1>5. MainKnows' BY <1>3, <1>4, KnowsLittle DEF Knowing, Holding
<1>6. /\ Counted("sent")' = Counted("sent") /\ Counted("ok")' = Counted("ok")
      /\ Counted("failed")' = Counted("failed") /\ Counted("timeout")' = Counted("timeout")
  <2>1. CASE m = "queued"
    <3>1. "queued" \in Counters /\ l \notin CountLabels
      BY <1>3 DEF Counters, CountLabels
    <3>2. \A j \in Counters : Counted(j)' = Counted(j) + (IF j = "queued" THEN 1 ELSE 0)
      BY <1>1, <1>3, <2>1, <3>1, CountsBegin
    <3>3. /\ Counted("sent")' = Counted("sent") + 0 /\ Counted("ok")' = Counted("ok") + 0
          /\ Counted("failed")' = Counted("failed") + 0
          /\ Counted("timeout")' = Counted("timeout") + 0
      BY <3>2, PolledTypes
    <3>4. \A n \in Nat : n + 0 = n OBVIOUS
    <3>5. /\ Counted("sent") \in Nat /\ Counted("ok") \in Nat /\ Counted("failed") \in Nat
          /\ Counted("timeout") \in Nat
      BY PolledTypes
    <3> QED BY <3>3, <3>4, <3>5, Zenon
  <2>2. CASE m # "queued"
    <3>1. pc'["main"] \notin Counters BY <1>3, <1>4, <2>2 DEF Counters
    <3>2. \A j \in Counters : Counted(j)' = Counted(j) BY <3>1, CountsStay
    <3> QED BY <3>2, PolledTypes
  <2> QED BY <2>1, <2>2
<1>7. InFlight' = InFlight /\ Marking' = Marking /\ Popping' = Popping
  BY <1>1, <1>3, <1>4 DEF InFlight, Marking, Popping
<1>8. Settled' BY <1>0, <1>6, <1>7 DEF Settled
<1>9. hist'.air = hist.air BY <1>1 DEF Discards, Accepts
<1>10. OnAir' BY <1>0, <1>1, <1>6, <1>7, <1>9 DEF OnAir, AirCount, HeldCount
<1>11. NothingLost'
  <2>1. CASE UNCHANGED <<txQueue, hist>> BY <1>0, <2>1 DEF NothingLost
  <2>2. CASE Discards
    <3>1. Range(txQueue) = Range(txQueue') \cup {Head(txQueue)}
      BY <2>2, PolledTypes, RangeTail DEF Discards
    <3>2. Head(txQueue) \in Frame BY <2>2, PolledTypes, TailAt DEF Discards
    <3>3. Range(hist'.discarded) = Range(hist.discarded) \cup {Head(txQueue)}
      BY <2>2, <3>2, PolledTypes, RangeAppend DEF Discards
    <3> QED BY <1>0, <1>9, <2>2, <3>1, <3>3 DEF NothingLost, Discards
  <2>3. CASE Accepts
    <3>1. PICK f \in Frame :
            /\ txQueue' = Append(txQueue, f) /\ hist'.accepted = Append(hist.accepted, f)
            /\ hist'.discarded = hist.discarded
      BY <2>3 DEF Accepts
    <3>2. Range(txQueue') = Range(txQueue) \cup {f} BY <3>1, PolledTypes, RangeAppend
    <3>3. Range(hist'.accepted) = Range(hist.accepted) \cup {f}
      BY <3>1, PolledTypes, RangeAppend
    <3> QED BY <1>0, <1>9, <3>1, <3>2, <3>3 DEF NothingLost
  <2> QED BY <1>1, <2>1, <2>2, <2>3
<1> QED BY <1>5, <1>8, <1>10, <1>11 DEF Polled

LEMMA PolledPop ==
  ASSUME TypeInv, TypeInv', RegInv, ~irqOn, [Next]_vars, Polled, Pop("main")
  PROVE  Polled'
<1>0. MainKnows /\ Settled /\ OnAir /\ NothingLost BY DEF Polled
<1>1. /\ UNCHANGED <<inflight, cnt, drv, outstanding, hist>>
      /\ \/ txQueue = << >> /\ Moves("main", "pop", "idle")
         \/ /\ txQueue # << >> /\ txQueue' = Tail(txQueue)
            /\ Moves("main", "pop", "sent") /\ loc'["main"] = loc["main"]
  BY PolledTypes, PopDoes DEF driver
<1>2. pc["main"] = "pop" BY <1>1, MovesAlone, PolledTypes
<1>3. txQueue # << >> /\ inflight = NoFrame /\ Head(txQueue) \in Range(hist.air)
  BY <1>0, <1>2 DEF MainKnows, Holding
<1>4. Moves("main", "pop", "sent") /\ txQueue' = Tail(txQueue) /\ pc'["main"] = "sent"
  BY <1>1, <1>3, MovesAlone, PolledTypes
<1>5. MainKnows' BY <1>1, <1>3, <1>4 DEF MainKnows, Holding
<1>6. \A j \in Counters : Counted(j)' = Counted(j) + (IF j = "sent" THEN 1 ELSE 0)
  BY <1>1, <1>4, CountsBegin DEF Counters, CountLabels
<1>7. PICK s \in Nat, o \in Nat, f \in Nat, t \in Nat :
        /\ s = Counted("sent")' /\ o = Counted("ok")' /\ f = Counted("failed")'
        /\ t = Counted("timeout")'
  BY CountedNat, PolledTypes
<1>8. /\ s = Counted("sent") + 1 /\ o = Counted("ok")
      /\ f = Counted("failed") /\ t = Counted("timeout")
  <2>1. /\ s = Counted("sent") + 1 /\ o = Counted("ok") + 0
        /\ f = Counted("failed") + 0 /\ t = Counted("timeout") + 0
    BY <1>6, <1>7, PolledTypes
  <2>2. Counted("ok") \in Nat /\ Counted("failed") \in Nat /\ Counted("timeout") \in Nat
    BY PolledTypes
  <2> QED BY <2>1, <2>2
<1>9. /\ InFlight = 0 /\ InFlight' = 0 /\ Marking = 0 /\ Marking' = 1
      /\ Popping = 1 /\ Popping' = 0
  BY <1>1, <1>2, <1>3, <1>4 DEF InFlight, Marking, Popping
<1>10. Settled'
  <2>1. s = o + f + t + 0 + 1 BY <1>0, <1>8, <1>9, PolledTypes DEF Settled
  <2> QED BY <1>7, <1>9, <2>1 DEF Settled
<1>11. OnAir'
  <2>1. AirCount' = AirCount /\ HeldCount' = HeldCount BY <1>1 DEF AirCount, HeldCount
  <2>2. AirCount = s + 0 /\ AirCount + cnt["direct"] = HeldCount + drv.resp
    BY <1>0, <1>8, <1>9, PolledTypes DEF OnAir
  <2> QED BY <1>1, <1>7, <1>9, <2>1, <2>2 DEF OnAir
<1>12. NothingLost'
  <2>1. Range(txQueue) = Range(txQueue') \cup {Head(txQueue)}
    BY <1>3, <1>4, PolledTypes, RangeTail
  <2> QED BY <1>0, <1>1, <1>3, <2>1 DEF NothingLost
<1> QED BY <1>5, <1>10, <1>11, <1>12 DEF Polled

LEMMA PolledMark ==
  ASSUME TypeInv, TypeInv', RegInv, ~irqOn, [Next]_vars, Polled, MarkInflight("main")
  PROVE  Polled'
<1>0. MainKnows /\ Settled /\ OnAir /\ NothingLost BY DEF Polled
<1>1. /\ Moves("main", "mark", "idle") /\ inflight' = loc["main"].frame
      /\ loc["main"].frame \in Frame /\ UNCHANGED <<txQueue, cnt, drv, outstanding, hist>>
  BY PolledTypes, MarkInflightDoes DEF driver
<1>2. pc["main"] = "mark" /\ pc'["main"] = "idle" BY <1>1, MovesAlone, PolledTypes
<1>3. inflight = NoFrame /\ inflight' # NoFrame
  BY <1>0, <1>1, <1>2, Constants DEF MainKnows, Holding, Frame, NoFrame
<1>4. MainKnows' BY <1>2, KnowsLittle DEF Knowing, Holding
<1>5. \A k \in Counters : Counted(k)' = Counted(k) BY <1>2, CountsStay DEF Counters
<1>6. /\ Counted("sent")' = Counted("sent") /\ Counted("ok")' = Counted("ok")
      /\ Counted("failed")' = Counted("failed") /\ Counted("timeout")' = Counted("timeout")
  BY <1>5, PolledTypes
<1>7. /\ InFlight = 0 /\ InFlight' = 1 /\ Marking = 1 /\ Marking' = 0
      /\ Popping = 0 /\ Popping' = 0
  BY <1>2, <1>3 DEF InFlight, Marking, Popping
<1>8. Settled'
  <2>1. Counted("sent") = Counted("ok") + Counted("failed") + Counted("timeout") + 1 + 0
    BY <1>0, <1>7, PolledTypes DEF Settled
  <2> QED BY <1>6, <1>7, <2>1 DEF Settled
<1>9. OnAir' BY <1>0, <1>1, <1>6, <1>7 DEF OnAir, AirCount, HeldCount
<1>10. NothingLost' BY <1>0, <1>1 DEF NothingLost
<1> QED BY <1>4, <1>8, <1>9, <1>10 DEF Polled

\* send_raw of an unfragmented message, and the driver's answers.
LEMMA PolledOutside ==
  ASSUME TypeInv, TypeInv', RegInv, ~irqOn, [Next]_vars, Polled, SendDirect \/ DriverAnswers
  PROVE  Polled'
<1>0. MainKnows /\ Settled /\ OnAir /\ NothingLost BY DEF Polled
<1>1. UNCHANGED <<txQueue, inflight, pc, loc, hist>>
  BY DEF SendDirect, DriverAnswers, core
<1>2. MainKnows' BY <1>0, <1>1, KnowsStill DEF Rests
<1>3. \A k \in Counters : Counted(k)' = Counted(k) BY <1>1, CountsStay
<1>4. /\ Counted("sent")' = Counted("sent") /\ Counted("ok")' = Counted("ok")
      /\ Counted("failed")' = Counted("failed") /\ Counted("timeout")' = Counted("timeout")
  BY <1>3, PolledTypes
<1>5. InFlight' = InFlight /\ Marking' = Marking /\ Popping' = Popping /\ AirCount' = AirCount
  BY <1>1 DEF InFlight, Marking, Popping, AirCount
<1>6. Settled' BY <1>0, <1>4, <1>5 DEF Settled
<1>7. /\ AirCount = Counted("sent") + Popping
      /\ AirCount + cnt["direct"] = HeldCount + drv.resp
  BY <1>0 DEF OnAir
<1>8. OnAir'
  <2>1. CASE SendDirect
    <3>1. /\ outstanding' = Append(outstanding, Direct) /\ drv' = drv
          /\ cnt' = [cnt EXCEPT !["direct"] = cnt["direct"] + 1] /\ cnt \in Cnt
      BY <2>1, TypeData DEF SendDirect, DataOK
    <3>2. cnt'["direct"] = cnt["direct"] + 1 BY <3>1 DEF Cnt
    <3>3. HeldCount' = HeldCount + 1
      <4>1. Direct \in Frame \cup {Direct} OBVIOUS
      <4> QED BY <3>1, <4>1, PolledTypes, AppendAt DEF HeldCount
    <3>4. PICK h \in Nat, n \in Nat : h = HeldCount' /\ n = cnt'["direct"]
      BY <3>2, <3>3, PolledTypes
    <3>5. AirCount + n = h + drv.resp
      <4>1. /\ AirCount \in Nat /\ HeldCount \in Nat /\ cnt["direct"] \in Nat
            /\ drv.resp \in Nat /\ n = cnt["direct"] + 1 /\ h = HeldCount + 1
        BY <3>2, <3>3, <3>4, PolledTypes
      <4> QED BY <1>7, <4>1
    <3> QED BY <1>4, <1>5, <1>7, <3>1, <3>4, <3>5 DEF OnAir
  <2>2. CASE DriverAnswers
    <3>1. outstanding # << >> /\ outstanding' = Tail(outstanding) /\ cnt' = cnt
      BY <2>2 DEF DriverAnswers, core
    <3>2. drv'.resp = drv.resp + 1 BY <2>2 DEF DriverAnswers
    <3>3. HeldCount' = HeldCount - 1 /\ HeldCount \in Nat \ {0}
      BY <3>1, PolledTypes, TailAt DEF HeldCount
    <3>n. HeldCount - 1 \in Nat /\ drv.resp + 1 \in Nat BY <3>3, PolledTypes
    <3>4. PICK h \in Nat, n \in Nat : h = HeldCount' /\ n = drv'.resp
      BY <3>2, <3>3, <3>n
    <3>5. AirCount + cnt["direct"] = h + n
      <4>1. /\ AirCount \in Nat /\ HeldCount \in Nat /\ cnt["direct"] \in Nat
            /\ drv.resp \in Nat /\ n = drv.resp + 1 /\ h = HeldCount - 1
        BY <3>2, <3>3, <3>4, PolledTypes
      <4> QED BY <1>7, <4>1
    <3> QED BY <1>4, <1>5, <1>7, <3>1, <3>4, <3>5 DEF OnAir
  <2> QED BY <2>1, <2>2
<1>9. NothingLost' BY <1>0, <1>1 DEF NothingLost
<1> QED BY <1>2, <1>6, <1>8, <1>9 DEF Polled

\* On a polled port the callback never runs, and main is all there is.
LEMMA PumpAwake ==
  ASSUME NEW c \in Ctx, PumpStep(c)
  PROVE  pc[c] # "idle"
  BY PumpBusy

LEMMA PolledPreserved ==
  ASSUME TypeInv, TypeInv', RegInv, PolledInv, [Next]_vars
  PROVE  PolledInv'
<1>1. irqOn' = irqOn BY StepTorn
<1> SUFFICES ASSUME ~irqOn PROVE Polled'
  BY <1>1 DEF PolledInv
<1>2. Polled /\ pc["irq"] = "idle" /\ "irq" \in Ctx BY LocalTypes DEF PolledInv, RegInv
<1>3. ~IrqPump BY DEF IrqPump
<1>4. ~PumpStep("irq") BY <1>2, PumpAwake
<1>5. CASE PumpStep("main")
  BY <1>2, <1>5, PolledCalm, PolledClear, PolledSend, PolledQueue, PolledPop, PolledMark
     DEF PumpStep
<1>6. CASE EnqTest \/ EnqDropOldest \/ EnqAppend \/ EnqCounted \/ WaitPump \/ SendFragmented
  BY <1>2, <1>6, PolledCalm, PolledQueue
<1>7. CASE SendDirect \/ TimePasses \/ DriverAnswers \/ UNCHANGED vars
  BY <1>2, <1>7, PolledCalm, PolledOutside
<1> QED BY <1>3, <1>4, <1>5, <1>6, <1>7 DEF Next, MainStep

LEMMA InitPolled == Init => PolledInv
<1> SUFFICES ASSUME Init PROVE Polled
  BY DEF PolledInv
<1>0. pc["main"] = "idle" /\ pc["irq"] = "idle" BY LocalTypes DEF Init
<1>1. MainKnows BY <1>0 DEF MainKnows, Holding
<1>2. \A k \in Counters : Counted(k) = 0
  <2>1. \A k \in Counters : cnt[k] = 0 /\ One("idle", k) = 0 BY OneIs, StoreLabels DEF Init
  <2> QED BY <1>0, <2>1, CountedIs
<1>3. /\ Counted("sent") = 0 /\ Counted("ok") = 0 /\ Counted("failed") = 0
      /\ Counted("timeout") = 0
  BY <1>2 DEF Counters
<1>4. InFlight = 0 /\ Marking = 0 /\ Popping = 0
  BY <1>0 DEF Init, InFlight, Marking, Popping
<1>5. Settled BY <1>3, <1>4 DEF Settled
<1>6. AirCount = 0 /\ HeldCount = 0 /\ cnt["direct"] = 0 /\ drv.resp = 0
  BY DEF Init, AirCount, HeldCount
<1>7. OnAir BY <1>3, <1>4, <1>6 DEF OnAir
<1>8. NothingLost BY DEF Init, NothingLost, Range
<1> QED BY <1>1, <1>5, <1>7, <1>8 DEF Polled

LEMMA PolledInvariant == Spec => [](TypeInv /\ RegInv /\ PolledInv)
<1>1. Init => PolledInv BY InitPolled
<1>2. (TypeInv /\ RegInv /\ CountInv) /\ (TypeInv /\ RegInv /\ CountInv)' /\ PolledInv
        /\ [Next]_vars => PolledInv'
  BY PolledPreserved
<1> QED BY <1>1, <1>2, CountInvariant, PTL DEF Spec

\* On a polled port, no fragment disappears in silence: what was accepted is
\* queued, was on the air, or was dropped with a log line (_pump_tx_queue).
THEOREM NothingLostPolled == Spec => []NoSilentLoss
<1>1. TypeInv /\ PolledInv => NoSilentLoss
  BY DEF PolledInv, Polled, NothingLost, NoSilentLoss, SilentlyLost
<1> QED BY <1>1, PolledInvariant, PTL

\* On a polled port, every transmission is acknowledged, failed, timed out or in
\* flight, and counted once (_pump_tx_queue, _update_tx_completion).
THEOREM SentSettled == Spec => []SentIsSettled
<1>1. TypeInv /\ RegInv /\ PolledInv => SentIsSettled
  <2> SUFFICES ASSUME TypeInv, RegInv, PolledInv, ~irqOn, pc["main"] # "mark",
                      ~Counting("main", "sent")
               PROVE  Counted("sent") = Counted("ok") + Counted("failed") + Counted("timeout")
                                          + (IF inflight = NoFrame THEN 0 ELSE 1)
    BY DEF SentIsSettled
  <2>1. Settled BY DEF PolledInv, Polled
  <2>2. Marking = 0 BY DEF Marking, Counting, Increment
  <2>3. /\ Counted("sent") \in Nat /\ Counted("ok") \in Nat /\ Counted("failed") \in Nat
        /\ Counted("timeout") \in Nat /\ InFlight \in {0, 1}
    BY PolledTypes
  <2>4. Counted("sent") = Counted("ok") + Counted("failed") + Counted("timeout") + InFlight
    BY <2>1, <2>2, <2>3 DEF Settled
  <2> QED BY <2>4 DEF InFlight
<1> QED BY <1>1, PolledInvariant, PTL

\* On a polled port, the driver holds one unanswered fragment at a time, besides
\* the expired ones and the unfragmented messages (_pump_tx_queue, send_raw).
THEOREM OneOutstanding == Spec => []OneFragmentOutstanding
<1>1. TypeInv /\ RegInv /\ PolledInv /\ CompletionsBacked => OneFragmentOutstanding
  <2> SUFFICES ASSUME TypeInv, RegInv, PolledInv, CompletionsBacked, ~irqOn
               PROVE  HeldCount <= 1 + cnt["timeout"] + cnt["direct"]
    BY DEF OneFragmentOutstanding, HeldCount
  <2> DEFINE expiring == One(pc["main"], "timeout")
  <2>1. /\ MainKnows /\ Settled /\ AirCount = Counted("sent") + Popping
        /\ AirCount + cnt["direct"] = HeldCount + drv.resp
    BY DEF PolledInv, Polled, OnAir
  <2>t. /\ Counted("sent") \in Nat /\ Counted("ok") \in Nat /\ Counted("failed") \in Nat
        /\ Counted("timeout") \in Nat /\ AirCount \in Nat /\ HeldCount \in Nat
        /\ cnt["direct"] \in Nat /\ drv.resp \in Nat /\ cnt["timeout"] \in Nat
        /\ InFlight \in {0, 1} /\ Marking \in {0, 1} /\ Popping \in {0, 1}
    BY PolledTypes, RegTypes
  <2>2. /\ expiring \in {0, 1}
        /\ expiring = 1 => pc["main"] \in {"timeout", "timeout+"}
    BY DEF One, StoreLabel
  <2>3. Counted("timeout") = cnt["timeout"] + expiring
    <3>1. One(pc["irq"], "timeout") = 0 BY OneIs, StoreLabels DEF RegInv
    <3>2. Counted("timeout") = cnt["timeout"] + expiring + One(pc["irq"], "timeout")
      BY CountedIs, PolledTypes
    <3> QED BY <2>t, <2>2, <3>1, <3>2
  <2> HIDE DEF expiring
  <2>4. Popping + InFlight + Marking + expiring <= 1
    BY <2>1, <2>2 DEF Popping, InFlight, Marking, MainKnows, Holding
  <2>5. Counted("ok") + Counted("failed") <= drv.resp
    <3>1. stat.resp \in Nat BY CredTypes
    <3>2. Counted("ok") + Counted("failed") <= stat.resp /\ stat.resp <= drv.resp
      BY DEF CompletionsBacked, RegInv
    <3> QED BY <2>t, <3>1, <3>2
  <2>6. Counted("sent") = Counted("ok") + Counted("failed") + Counted("timeout") + InFlight + Marking
    BY <2>1 DEF Settled
  <2> QED BY <2>1, <2>t, <2>2, <2>3, <2>4, <2>5, <2>6
<1> QED BY <1>1, CompletionsAreBacked, PolledInvariant, PTL

-----------------------------------------------------------------------------
(* The polled port implements the abstract queue.                          *)

\* The refinement mapping, before and after a step.
LEMMA MapIs ==
  /\ irqOn => PendingFrames = << >> /\ Air = << >>
  /\ ~irqOn => /\ PendingFrames = (IF pc["main"] = "pop" THEN Tail(txQueue) ELSE txQueue)
               /\ Air = hist.air
  BY DEF PendingFrames, Air

LEMMA MapIsNext ==
  ASSUME irqOn' = irqOn
  PROVE  /\ irqOn => PendingFrames' = << >> /\ Air' = << >>
         /\ ~irqOn => /\ PendingFrames' = (IF pc'["main"] = "pop" THEN Tail(txQueue') ELSE txQueue')
                      /\ Air' = hist'.air
  BY DEF PendingFrames, Air

\* Every step is a step of the abstract queue, or none: the append accepts, the
\* hand-over to the driver transmits, a drop gives up, and the pop has been seen.
LEMMA FifoStep ==
  ASSUME TypeInv, RegInv, PolledInv, [Next]_vars
  PROVE  [Fifo!Next]_<<PendingFrames, Air>>
<1>0. irqOn' = irqOn BY StepTorn
<1>1. CASE irqOn
  BY <1>0, <1>1, MapIs, MapIsNext
<1>2. CASE ~irqOn
  <2>0. MainKnows /\ pc["irq"] = "idle" /\ "irq" \in Ctx /\ "main" \in Ctx
    BY <1>2, LocalTypes DEF PolledInv, Polled, RegInv
  <2>1. /\ PendingFrames = (IF pc["main"] = "pop" THEN Tail(txQueue) ELSE txQueue)
        /\ PendingFrames' = (IF pc'["main"] = "pop" THEN Tail(txQueue') ELSE txQueue')
        /\ Air = hist.air /\ Air' = hist'.air
    BY <1>0, <1>2, MapIs, MapIsNext
  <2>2. ASSUME UNCHANGED <<txQueue, hist>>, pc["main"] # "pop" \/ pc' = pc
        PROVE  UNCHANGED <<PendingFrames, Air>>
    <3>1. pc'["main"] = "pop" <=> pc["main"] = "pop"
      BY <2>0, <2>2, PopFollowsSend
    <3> QED BY <2>1, <2>2, <3>1
  <2>3. CASE SendTaken("main")
    <3>1. /\ Moves("main", "send", "pop") /\ hist'.air = Append(hist.air, loc["main"].frame)
          /\ txQueue' = txQueue
      BY <2>0, <2>3, SendTakenDoes DEF core
    <3>2. pc["main"] = "send" /\ pc'["main"] = "pop" BY <2>0, <3>1, MovesAlone
    <3>3. txQueue # << >> /\ loc["main"].frame = Head(txQueue) BY <2>0, <3>2 DEF MainKnows
    <3>4. Fifo!Transmit BY <2>1, <3>1, <3>2, <3>3 DEF Fifo!Transmit
    <3> QED BY <3>4 DEF Fifo!Next
  <2>4. CASE Pop("main")
    <3>1. pc["main"] = "pop" /\ txQueue # << >> BY <2>0, <2>4 DEF Pop, At, MainKnows
    <3>2. Moves("main", "pop", "sent") /\ txQueue' = Tail(txQueue) /\ hist' = hist
      BY <2>0, <2>4, <3>1, PopDoes
    <3>3. pc'["main"] = "sent" BY <2>0, <3>2, MovesAlone
    <3> QED BY <2>1, <3>1, <3>2, <3>3
  <2>5. CASE DropRefused("main") \/ EnqDropOldest
    <3>1. PICK l \in {"drop", "enqdrop"}, m \in {"idle", "enqapp"} : Moves("main", l, m)
      BY <2>0, <2>5, DropRefusedDoes, EnqDropOldestDoes
    <3>2. pc["main"] = l /\ pc'["main"] = m BY <2>0, <3>1, MovesAlone
    <3>3. Discards \/ UNCHANGED <<txQueue, hist>>
      BY <2>0, <2>5, DropRefusedDoes, EnqDropOldestDoes
    <3>4. CASE UNCHANGED <<txQueue, hist>> BY <2>2, <3>2, <3>4
    <3>5. CASE Discards
      <4>1. Fifo!GiveUp BY <2>1, <3>2, <3>5 DEF Discards, Fifo!GiveUp
      <4> QED BY <4>1 DEF Fifo!Next
    <3> QED BY <3>3, <3>4, <3>5
  <2>6. CASE EnqAppend
    <3>1. Accepts /\ Moves("main", "enqapp", "queued") BY <2>6, EnqAppendDoes
    <3>2. pc["main"] = "enqapp" /\ pc'["main"] = "queued" BY <2>0, <3>1, MovesAlone
    <3>3. Fifo!Accept BY <2>1, <3>1, <3>2 DEF Fifo!Accept, Accepts
    <3> QED BY <3>3 DEF Fifo!Next
  <2>7. CASE \/ EnqTest \/ EnqCounted \/ WaitPump \/ SendDirect \/ SendFragmented
             \/ ReadStats("main") \/ CompareResponses("main") \/ CompareFailures("main")
             \/ RememberResponses("main") \/ RememberFailures("main") \/ TestCredited("main")
             \/ Take("main") \/ Clear("main") \/ CountLoad("main") \/ CreditOk("main")
             \/ CreditFailed("main") \/ TestInflight("main") \/ TestElapsed("main")
             \/ CountTimeout("main") \/ TestQueue("main") \/ Peek("main") \/ SendRaises("main")
             \/ CountSent("main") \/ MarkInflight("main")
    <3>1. UNCHANGED <<txQueue, hist>>
      BY <2>7 DEF EnqTest, EnqCounted, WaitPump, SendDirect, SendFragmented, ReadStats,
           CompareResponses, CompareFailures, RememberResponses, RememberFailures, TestCredited,
           Take, Clear, CountLoad, Store, CreditOk, CreditFailed, TestInflight, TestElapsed,
           CountTimeout, TestQueue, Peek, SendRaises, CountSent, MarkInflight, core
    <3>2. pc["main"] # "pop"
      BY <2>7 DEF EnqTest, EnqCounted, WaitPump, SendDirect, SendFragmented, ReadStats,
           CompareResponses, CompareFailures, RememberResponses, RememberFailures, TestCredited,
           Take, Clear, CountLoad, Load, CreditOk, CreditFailed, TestInflight, TestElapsed,
           CountTimeout, TestQueue, Peek, SendRaises, CountSent, MarkInflight, At
    <3> QED BY <2>2, <3>1, <3>2
  <2>8. CASE TimePasses \/ DriverAnswers \/ UNCHANGED vars
    BY <2>2, <2>8 DEF TimePasses, DriverAnswers, vars, core
  <2>9. ~IrqPump BY <1>2 DEF IrqPump
  <2>10. ~PumpStep("irq") BY <2>0, PumpAwake
  <2> QED BY <2>3, <2>4, <2>5, <2>6, <2>7, <2>8, <2>9, <2>10 DEF Next, MainStep, PumpStep
<1> QED BY <1>1, <1>2

\* On a polled port, fragments go on the air in the order of their queueing and
\* each at most once (_enqueue_tx_frame, _pump_tx_queue).
THEOREM ImplementsFifo == Spec => SendsInOrder
<1>1. Init => Fifo!Init
  BY DEF Init, Fifo!Init, PendingFrames, Air, Ctx
<1>2. TypeInv /\ RegInv /\ PolledInv /\ [Next]_vars => [Fifo!Next]_<<PendingFrames, Air>>
  BY FifoStep
<1>3. Spec => Init /\ [][Next]_vars BY DEF Spec
<1>4. SendsInOrder <=> Fifo!Init /\ [][Fifo!Next]_<<PendingFrames, Air>>
  BY DEF SendsInOrder, Fifo!Spec
<1> QED BY <1>1, <1>2, <1>3, <1>4, PolledInvariant, PTL
=============================================================================
