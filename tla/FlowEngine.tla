----------------------------- MODULE FlowEngine -----------------------------
(***************************************************************************)
(* The classic execution engine (executionEngine.py): flows of linked      *)
(* nodes, each flow in a worker thread, nodes that wait for an event, and  *)
(* the event manager, which starts a thread for every subscriber of a      *)
(* published event.                                                        *)
(*                                                                         *)
(* A thread is a stack of frames, one per call of Node.execute: a node     *)
(* with sequential children calls theirs on the same thread, a node with   *)
(* parallel children starts a thread for each.  Threads interleave at      *)
(* every access to shared state; the test of _is_executing and the         *)
(* publication of an event are made under a lock and are one action each.  *)
(*                                                                         *)
(* External: what the action of a node returns or raises, and how long it  *)
(* takes; the application, which starts flows, publishes and stops.        *)
(***************************************************************************)
EXTENDS Integers, Sequences, SequencesExt

CONSTANTS
  Nodes, NoNode,
  Success,      \* success_node of each node, or NoNode
  Failure,      \* failure_node of each node, or NoNode
  Children,     \* child_nodes of each node, a sequence
  Parallel,     \* the nodes with parallel_execution
  Events, NoEvent,
  SubEvent,     \* subscribed_event of each node, or NoEvent
  PreEvent,     \* pre_execution_event
  SuccessEvent, \* success_event
  FailureEvent, \* failure_event
  Threads,      \* bound: worker threads alive at once
  Flows,        \* bound: the start nodes the application passes to execute_flow_async
  MaxPublish    \* bound: events the application publishes

Link == [Nodes -> Nodes \cup {NoNode}]
EventOf == [Nodes -> Events \cup {NoEvent}]

ASSUME FlowAssumption ==
  /\ NoNode \notin Nodes /\ NoEvent \notin Events
  /\ Success \in Link /\ Failure \in Link
  /\ Children \in [Nodes -> Seq(Nodes)] /\ Parallel \subseteq Nodes
  /\ SubEvent \in EventOf /\ PreEvent \in EventOf
  /\ SuccessEvent \in EventOf /\ FailureEvent \in EventOf
  /\ Flows \in Seq(Nodes) /\ MaxPublish \in Nat

VARIABLES
  running,      \* ExecutionEngine._running
  app,          \* the application: "up", in stop() "joining", or "stopped"
  todo,         \* flows it will start, events it will publish
  thread,       \* the worker threads
  executing,    \* _is_executing of each node
  waiting,      \* _waiting_for_event of each node
  received,     \* _event_received of each node
  callbacks,    \* callback threads of each node, before and after their test
  hist          \* history: events published to each node, waits it has passed

nodeState == <<executing, waiting, received>>
vars == <<running, app, todo, thread, executing, waiting, received, callbacks, hist>>

Results == {"success", "failure"}
Places == {"enter", "arm", "wait", "disarm", "clear", "pre", "action",
           "spawn", "child", "post", "leave"}
Frame == [node : Nodes, at : Places, child : Nat, result : Results]
NewFrame(n) == [node |-> n, at |-> "enter", child |-> 1, result |-> "success"]
FreeThread == [kind |-> "free", current |-> NoNode, stack |-> << >>]

-----------------------------------------------------------------------------
Init ==
  /\ running = FALSE
  /\ app = "up"
  /\ todo = [flows |-> Flows, publish |-> MaxPublish]
  /\ thread = [t \in Threads |-> FreeThread]
  /\ executing = [n \in Nodes |-> FALSE]
  /\ waiting = executing
  /\ received = executing
  /\ callbacks = [n \in Nodes |-> [fresh |-> 0, tested |-> 0]]
  /\ hist = [published |-> [n \in Nodes |-> 0], passes |-> [n \in Nodes |-> 0]]

\* The innermost call of a thread, and where it stands.
Top(t) == Last(thread[t].stack)
At(t, place) == thread[t].stack # << >> /\ Top(t).at = place
SetTop(t, frame) == thread' = [thread EXCEPT ![t].stack = Append(Front(@), frame)]
Goto(t, place) == SetTop(t, [Top(t) EXCEPT !.at = place])

\* threading.Thread: an identity no living thread has.
Unused == {t \in Threads : thread[t] = FreeThread}
NewThread == CHOOSE t \in Unused : TRUE

\* get_next_node
NextNode(n, result) == IF result = "success" THEN Success[n] ELSE Failure[n]

\* A call of execute returns to the loop over sequential children, to the loop
\* of execute_flow, or ends the thread of a parallel child.
\* Mutant of it: the loop runs one child too far.
ResumeParentTooFar(frame, result) ==
  IF result = "failure" \/ frame.child > Len(Children[frame.node])
    THEN [frame EXCEPT !.at = "post", !.result = result]
    ELSE [frame EXCEPT !.child = @ + 1]

ResumeParent(frame, result) ==
  IF result = "failure" \/ frame.child = Len(Children[frame.node])
    THEN [frame EXCEPT !.at = "post", !.result = result]
    ELSE [frame EXCEPT !.child = @ + 1]

Returned(th, result) ==
  LET rest == Front(th.stack)
  IN IF rest # << >>
       THEN [th EXCEPT !.stack = Append(Front(rest), ResumeParent(Last(rest), result))]
       ELSE IF th.kind = "flow"
              THEN [th EXCEPT !.stack = << >>, !.current = NextNode(Last(th.stack).node, result)]
              ELSE FreeThread

Return(t, result) == thread' = [thread EXCEPT ![t] = Returned(@, result)]

\* EventManager.publish, under its lock: one thread for every subscriber.
Publish(e) ==
  LET subscribed == {n \in Nodes : SubEvent[n] = e}
  IN /\ callbacks' = [n \in Nodes |->
          IF n \in subscribed THEN [callbacks[n] EXCEPT !.fresh = @ + 1] ELSE callbacks[n]]
     /\ hist' = [hist EXCEPT !.published = [n \in Nodes |->
          IF n \in subscribed THEN @[n] + 1 ELSE @[n]]]

PublishIfSet(e) ==
  IF e = NoEvent THEN UNCHANGED <<callbacks, hist>> ELSE Publish(e)

-----------------------------------------------------------------------------
(* Node.execute                                                            *)

\* Mutant: the test of _is_executing is missing.
EnterUnchecked(t) ==
  /\ At(t, "enter")
  /\ executing' = [executing EXCEPT ![Top(t).node] = TRUE]
  /\ Goto(t, IF SubEvent[Top(t).node] = NoEvent THEN "pre" ELSE "arm")
  /\ UNCHANGED <<running, app, todo, waiting, received, callbacks, hist>>

\* A node that is already executing fails at once.
Enter(t) ==
  /\ At(t, "enter")
  /\ LET n == Top(t).node
     IN IF executing[n]
          THEN Return(t, "failure") /\ UNCHANGED executing
          ELSE /\ executing' = [executing EXCEPT ![n] = TRUE]
               /\ Goto(t, IF SubEvent[n] = NoEvent THEN "pre" ELSE "arm")
  /\ UNCHANGED <<running, app, todo, waiting, received, callbacks, hist>>

Arm(t) ==
  /\ At(t, "arm")
  /\ waiting' = [waiting EXCEPT ![Top(t).node] = TRUE]
  /\ Goto(t, "wait")
  /\ UNCHANGED <<running, app, todo, executing, received, callbacks, hist>>

\* wait() has no timeout.
Wake(t) ==
  /\ At(t, "wait")
  /\ received[Top(t).node]
  /\ hist' = [hist EXCEPT !.passes[Top(t).node] = @ + 1]
  /\ Goto(t, "disarm")
  /\ UNCHANGED <<running, app, todo, nodeState, callbacks>>

Disarm(t) ==
  /\ At(t, "disarm")
  /\ waiting' = [waiting EXCEPT ![Top(t).node] = FALSE]
  /\ Goto(t, "clear")
  /\ UNCHANGED <<running, app, todo, executing, received, callbacks, hist>>

\* Mutant: the event is left set.
ClearForgotten(t) ==
  /\ At(t, "clear")
  /\ Goto(t, "pre")
  /\ UNCHANGED <<running, app, todo, nodeState, callbacks, hist>>

Clear(t) ==
  /\ At(t, "clear")
  /\ received' = [received EXCEPT ![Top(t).node] = FALSE]
  /\ Goto(t, "pre")
  /\ UNCHANGED <<running, app, todo, executing, waiting, callbacks, hist>>

PublishPre(t) ==
  /\ At(t, "pre")
  /\ PublishIfSet(PreEvent[Top(t).node])
  /\ Goto(t, "action")
  /\ UNCHANGED <<running, app, todo, nodeState>>

\* The action ends, well or badly; then the children, if there are any.
Act(t) ==
  /\ At(t, "action")
  /\ LET n == Top(t).node
         next == CASE Children[n] = << >> -> "post"
                   [] Children[n] # << >> /\ n \in Parallel -> "spawn"
                   [] OTHER -> "child"
     IN \E r \in Results : SetTop(t, [Top(t) EXCEPT !.at = next, !.result = r])
  /\ UNCHANGED <<running, app, todo, nodeState, callbacks, hist>>

\* _execute_children, parallel: start a thread for the next child, wait for none.
Spawn(t) ==
  /\ At(t, "spawn")
  /\ LET children == Children[Top(t).node]
         i == Top(t).child
         top == IF i < Len(children) THEN [Top(t) EXCEPT !.child = i + 1]
                                     ELSE [Top(t) EXCEPT !.at = "post"]
     IN /\ Unused # {}
        /\ thread' = [thread EXCEPT
             ![NewThread] = [FreeThread EXCEPT !.kind = "child", !.stack = <<NewFrame(children[i])>>],
             ![t].stack = Append(Front(@), top)]
  /\ UNCHANGED <<running, app, todo, nodeState, callbacks, hist>>

\* _execute_children, sequential: call the next child on this thread.
CallChild(t) ==
  /\ At(t, "child")
  /\ LET child == Children[Top(t).node][Top(t).child]
     IN thread' = [thread EXCEPT ![t].stack = Append(@, NewFrame(child))]
  /\ UNCHANGED <<running, app, todo, nodeState, callbacks, hist>>

PublishResult(t) ==
  /\ At(t, "post")
  /\ PublishIfSet(IF Top(t).result = "success" THEN SuccessEvent[Top(t).node]
                                               ELSE FailureEvent[Top(t).node])
  /\ Goto(t, "leave")
  /\ UNCHANGED <<running, app, todo, nodeState>>

\* Mutant: a node that failed is not released.
LeaveOnSuccess(t) ==
  /\ At(t, "leave")
  /\ executing' = [executing EXCEPT ![Top(t).node] = Top(t).result = "failure"]
  /\ Return(t, Top(t).result)
  /\ UNCHANGED <<running, app, todo, waiting, received, callbacks, hist>>

\* The finally clause, then the return.
Leave(t) ==
  /\ At(t, "leave")
  /\ executing' = [executing EXCEPT ![Top(t).node] = FALSE]
  /\ Return(t, Top(t).result)
  /\ UNCHANGED <<running, app, todo, waiting, received, callbacks, hist>>

-----------------------------------------------------------------------------
(* Node._on_event_received, in a thread of its own.                        *)

\* Mutant: the callback looks at the execution instead of the wait.
CallbackTestsExecuting(n) ==
  /\ callbacks[n].fresh > 0
  /\ callbacks' = [callbacks EXCEPT ![n] =
       [fresh |-> @.fresh - 1, tested |-> IF executing[n] THEN @.tested ELSE @.tested + 1]]
  /\ UNCHANGED <<running, app, todo, thread, nodeState, hist>>

CallbackTests(n) ==
  /\ callbacks[n].fresh > 0
  /\ callbacks' = [callbacks EXCEPT ![n] =
       [fresh |-> @.fresh - 1, tested |-> IF waiting[n] THEN @.tested + 1 ELSE @.tested]]
  /\ UNCHANGED <<running, app, todo, thread, nodeState, hist>>

CallbackSets(n) ==
  /\ callbacks[n].tested > 0
  /\ callbacks' = [callbacks EXCEPT ![n].tested = @ - 1]
  /\ received' = [received EXCEPT ![n] = TRUE]
  /\ UNCHANGED <<running, app, todo, thread, executing, waiting, hist>>

-----------------------------------------------------------------------------
(* ExecutionEngine                                                         *)

\* execute_flow_async: the thread exists, but has not run yet.
StartFlow ==
  /\ app # "joining"
  /\ todo.flows # << >>
  /\ Unused # {}
  /\ thread' = [thread EXCEPT ![NewThread] =
       [kind |-> "new", current |-> Head(todo.flows), stack |-> << >>]]
  /\ todo' = [todo EXCEPT !.flows = Tail(@)]
  /\ app' = "up"
  /\ UNCHANGED <<running, nodeState, callbacks, hist>>

\* execute_flow sets _running itself, whatever happened since the call.
BeginFlow(t) ==
  /\ thread[t].kind = "new"
  /\ running' = TRUE
  /\ thread' = [thread EXCEPT ![t].kind = "flow"]
  /\ UNCHANGED <<app, todo, nodeState, callbacks, hist>>

\* The loop of execute_flow between two nodes.
FlowLoop(t) ==
  /\ thread[t].kind = "flow" /\ thread[t].stack = << >>
  /\ LET n == thread[t].current
     IN thread' = [thread EXCEPT ![t] =
          IF n # NoNode /\ running THEN [@ EXCEPT !.stack = <<NewFrame(n)>>] ELSE FreeThread]
  /\ UNCHANGED <<running, app, todo, nodeState, callbacks, hist>>

PublishEvent ==
  /\ todo.publish > 0
  /\ \E e \in Events : Publish(e)
  /\ todo' = [todo EXCEPT !.publish = @ - 1]
  /\ UNCHANGED <<running, app, thread, nodeState>>

StopCalled ==
  /\ app = "up"
  /\ running' = FALSE
  /\ app' = "joining"
  /\ UNCHANGED <<todo, thread, nodeState, callbacks, hist>>

\* stop gives each flow a second: those that are still alive after it are in
\* the action of a node, which may be long, or wait for an event.
StopReturns ==
  /\ app = "joining"
  /\ \A t \in Threads :
       thread[t].kind \in {"new", "flow"} => At(t, "action") \/ At(t, "wait")
  /\ app' = "stopped"
  /\ UNCHANGED <<running, todo, thread, nodeState, callbacks, hist>>

-----------------------------------------------------------------------------
ThreadStep(t) ==
  \/ BeginFlow(t) \/ FlowLoop(t)
  \/ Enter(t) \/ Arm(t) \/ Wake(t) \/ Disarm(t) \/ Clear(t) \/ PublishPre(t)
  \/ Act(t) \/ Spawn(t) \/ CallChild(t) \/ PublishResult(t) \/ Leave(t)

CallbackStep(n) == CallbackTests(n) \/ CallbackSets(n)

Next ==
  \/ StartFlow \/ PublishEvent \/ StopCalled \/ StopReturns
  \/ \E t \in Threads : ThreadStep(t)
  \/ \E n \in Nodes : CallbackStep(n)

Spec == Init /\ [][Next]_vars

\* Threads are scheduled fairly and actions end.  Nothing is assumed of the
\* application.
Fairness ==
  /\ \A t \in Threads : WF_vars(ThreadStep(t))
  /\ \A n \in Nodes : WF_vars(CallbackStep(n))

FairSpec == Spec /\ Fairness

-----------------------------------------------------------------------------
(* Properties.                                                             *)

\* The engine, the nodes and the threads keep to their types, and the loops over
\* children to the children there are.
TypeOK ==
  /\ running \in BOOLEAN
  /\ app \in {"up", "joining", "stopped"}
  /\ todo \in [flows : Seq(Nodes), publish : 0 .. MaxPublish]
  /\ thread \in [Threads -> [kind : {"free", "new", "flow", "child"},
                             current : Nodes \cup {NoNode}, stack : Seq(Frame)]]
  /\ \A t \in Threads : \A i \in DOMAIN thread[t].stack :
       LET f == thread[t].stack[i]
       IN f.at \in {"spawn", "child"} => f.child \in DOMAIN Children[f.node]
  /\ executing \in [Nodes -> BOOLEAN]
  /\ waiting \in [Nodes -> BOOLEAN]
  /\ received \in [Nodes -> BOOLEAN]
  /\ callbacks \in [Nodes -> [fresh : Nat, tested : Nat]]
  /\ hist \in [published : [Nodes -> Nat], passes : [Nodes -> Nat]]

\* Calls of execute that got past the test of _is_executing.
Inside(t) == {i \in DOMAIN thread[t].stack : thread[t].stack[i].at # "enter"}

\* A node is executed by one call at a time, on whichever thread, and it is
\* marked as executing exactly as long: no call leaves it marked for ever
\* (Node.execute, its lock and its finally clause).
OneExecutionPerNode ==
  /\ \A t, u \in Threads : \A i \in Inside(t), j \in Inside(u) :
       thread[t].stack[i].node = thread[u].stack[j].node => t = u /\ i = j
  /\ \A n \in Nodes :
       executing[n] <=> \E t \in Threads : \E i \in Inside(t) : thread[t].stack[i].node = n

\* A node never passes its wait more often than its event was published, however
\* late the callback threads of those events run (_on_event_received, execute).
PassesBackedByEvents == \A n \in Nodes : hist.passes[n] <= hist.published[n]

\* An event published while a node waits makes it go on: its callback finds the
\* node waiting, and no other step takes the wake-up away.
WaiterIsWoken ==
  \A n \in {m \in Nodes : SubEvent[m] # NoEvent} :
    LET blocked == \E t \in Threads : At(t, "wait") /\ Top(t).node = n
    IN (blocked /\ callbacks[n].fresh > 0) ~> ~blocked

\* Nodes never wait for one another: a node that executes is released, unless it
\* or a child it calls waits for an event (a busy node fails, it does not block).
NodesAreReleased ==
  \A n \in Nodes :
    executing[n] ~>
      \/ ~executing[n]
      \/ \E t \in Threads :
           At(t, "wait") /\ \E i \in Inside(t) : thread[t].stack[i].node = n

\* README.md of the engine: "stop() stops flow execution and joins worker
\* threads."  Once stop has returned, and until the application starts another
\* flow, no thread enters a node.
StoppedStays ==
  [][app = "stopped" /\ app' = "stopped" =>
       \A t \in Threads : Len(thread'[t].stack) <= Len(thread[t].stack)]_vars
=============================================================================
