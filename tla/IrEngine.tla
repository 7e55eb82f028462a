------------------------------ MODULE IrEngine ------------------------------
(***************************************************************************)
(* The IR execution engine (IrExecutionEngine of executionEngine.py): a    *)
(* workflow is parsed, compiled and validated, then run with one thread    *)
(* for each entry node; threads wait for events, for the first of several  *)
(* events and timeouts, call action handlers and publish events.           *)
(*                                                                         *)
(* Threads interleave at every access to shared state.  Every wait makes a *)
(* new box for the event it receives and subscribes a callback that writes *)
(* to this box, name by name; publishing starts a thread for each callback *)
(* subscribed at that moment, which may run long after the wait has ended. *)
(* PARALLEL runs its branches one after the other on its own thread, so a  *)
(* thread is a stack of calls of _run_ir_graph.                            *)
(*                                                                         *)
(* run_ir asks the payload itself for entry_nodes.  A dict or ExecutionIr, *)
(* such as the compiler returns, has them one level down, under graph, and *)
(* run_ir raises; only a subclass of ExecutionIr that passes them on runs. *)
(*                                                                         *)
(* External: the application and what its action handlers return or raise. *)
(***************************************************************************)
EXTENDS DslToIr, FiniteSets

CONSTANTS
  Sources,      \* a sequence of texts, of rules as data, and of graphs
  Payloads,     \* does the payload pass entry_nodes on? (a set of answers)
  Handlers,     \* the action names that have a handler
  Slots,        \* bound: threads alive at once
  MaxMs,        \* bound: the largest ms of a timeout
  Calls         \* bound, per source: calls of run_ir, and events published

\* A source has the types that str.split, the callers and the models give it.
TypedSource(src) ==
  /\ DOMAIN src \in {{"text"}, {"rules"}, {"graph"}}
  /\ "text"  \in DOMAIN src => TypedText(src.text)
  /\ "rules" \in DOMAIN src => TypedRules(src.rules)
  /\ "graph" \in DOMAIN src => TypedGraph(src.graph)

ASSUME IrAssumption ==
  /\ \A i \in DOMAIN Sources : TypedSource(Sources[i])
  /\ IsFiniteSet(Slots)
  /\ Calls \in [DOMAIN Sources -> [runs : Nat, publish : Nat]]
  /\ Payloads \subseteq BOOLEAN
  /\ MaxMs \in Nat

VARIABLES
  source,      \* which of the sources the application has
  app,         \* the application: "ready", in stop() "joining", "stopped"
  todo,        \* calls of run_ir and events to publish that are left
  refused,     \* run_ir has raised
  running,     \* _running
  runningIr,   \* _running_ir
  th,          \* the threads of _ir_threads
  box,         \* the event in the box of each thread's last wait
  subs,        \* _subscribers: pairs of a thread and an event name
  callbacks,   \* callback threads that have not run yet
  hist         \* history: events published; per thread, waits begun and the
               \* number of events published when the last one began

application == <<source, app, todo, refused>>
flags == <<running, runningIr>>
events == <<box, subs, callbacks>>
vars == <<source, app, todo, refused, running, runningIr, th, box, subs, callbacks, hist>>

\* Events are numbered in the order of their publication.
NoEvent == [name |-> Blank, no |-> 0]
Nowhere == << >>

Places == {"free", "loop", "multi", "subscribe", "wait", "unsubscribe", "act"}
Idle == [at |-> "free", stack |-> << >>, names |-> {}, got |-> NoEvent, age |-> 0, tries |-> 0]
Call(id) == [node |-> id, branch |-> 0]

-----------------------------------------------------------------------------
\* The graph that validation, after the compiler or without it, makes of a source.
GraphOf(src) ==
  CASE "text"  \in DOMAIN src -> CompileDslToIr(ParseDsl(src.text))
    [] "rules" \in DOMAIN src -> CompileDslToIr(src.rules)
    [] "graph" \in DOMAIN src -> ValidateExecutionIr(src.graph)
Graphs == [i \in DOMAIN Sources |-> GraphOf(Sources[i])]
NodeMaps == [i \in DOMAIN Sources |-> [id \in Ids(Graphs[i]) |-> NodeOf(Graphs[i], id)]]

graph == Graphs[source]
nodes == NodeMaps[source]

Init ==
  /\ source \in DOMAIN Sources
  /\ app = "ready"
  /\ todo = Calls[source]
  /\ refused = FALSE
  /\ running = FALSE /\ runningIr = FALSE
  /\ th = [s \in Slots |-> Idle]
  /\ box = [s \in Slots |-> NoEvent]
  /\ subs = {} /\ callbacks = {}
  /\ hist = [published |-> 0, waits |-> [s \in Slots |-> 0], since |-> [s \in Slots |-> 0]]

\* The innermost call of a thread, and the node it has come to.
Top(s) == Last(th[s].stack)
At(s, place) == th[s].at = place
Node(s) == nodes[Top(s).node]
With(t, id) == [t EXCEPT !.at = "loop", !.stack = Append(Front(@), [Last(@) EXCEPT !.node = id, !.branch = 0])]
Become(s, t) == th' = [th EXCEPT ![s] = t]
GoTo(s, id) == Become(s, With([Idle EXCEPT !.stack = th[s].stack], id))
Move(s, place) == Become(s, [th[s] EXCEPT !.at = place])

\* An exception that leaves _run_ir_graph ends the thread, whatever calls it is in.
Dies(s) == Become(s, Idle)

\* A call of _run_ir_graph returns: to the loop over the branches, or the thread ends.
Returns(s) ==
  LET rest == Front(th[s].stack)
  IN Become(s, IF rest = << >> THEN Idle ELSE [Idle EXCEPT !.at = "loop", !.stack = rest])

\* _transition_target raises where there is neither the status nor a default.
TransitionTarget(node, status) ==
  LET fits(on) == {i \in DOMAIN node.transitions : node.transitions[i].on = on}
      first(on) == node.transitions[Min(fits(on))].to
  IN CASE fits(status) # {} -> first(status)
       [] fits(status) = {} /\ fits("default") # {} -> first("default")
       [] OTHER -> Nowhere

Follow(s, status) ==
  LET to == TransitionTarget(Node(s), status)
  IN IF to = Nowhere THEN Dies(s) ELSE GoTo(s, to)

\* EventManager.publish, under its lock: one thread for every callback.
Publish(name) ==
  LET no == hist.published + 1
      called == {s \in Slots : <<s, name>> \in subs}
  IN /\ hist' = [hist EXCEPT !.published = no]
     /\ callbacks' = callbacks \cup
          {[thread |-> s, wait |-> hist.waits[s], event |-> [name |-> name, no |-> no]] : s \in called}

-----------------------------------------------------------------------------
(* The application.                                                        *)

Free == {s \in Slots : At(s, "free")}

CanRun ==
  /\ app \in {"ready", "stopped"}
  /\ graph.accepted /\ todo.runs > 0

\* graph.entry_nodes of a payload that keeps them under graph, as everything does
\* that the compiler or the validator returns: AttributeError.
RunIrRaises ==
  /\ CanRun /\ FALSE \in Payloads
  /\ refused' = TRUE
  /\ todo' = [todo EXCEPT !.runs = @ - 1]
  /\ UNCHANGED <<source, app, flags, th, events, hist>>

\* run_ir, without block: a thread for each entry.
RunIr ==
  /\ CanRun /\ TRUE \in Payloads
  /\ Cardinality(Free) >= Len(Entries(graph))
  /\ LET slots == SubSeq(SetToSeq(Free), 1, Len(Entries(graph)))
         called(s) == Entries(graph)[CHOOSE i \in DOMAIN slots : slots[i] = s]
     IN th' = [s \in Slots |->
          IF s \in Range(slots) THEN [Idle EXCEPT !.at = "loop", !.stack = <<Call(called(s))>>]
                                ELSE th[s]]
  /\ running' = TRUE /\ runningIr' = TRUE
  /\ app' = "ready"
  /\ todo' = [todo EXCEPT !.runs = @ - 1]
  /\ UNCHANGED <<source, refused, events, hist>>

PublishEvent ==
  /\ todo.publish > 0
  /\ \E name \in Namespaced : Publish(name)
  /\ todo' = [todo EXCEPT !.publish = @ - 1]
  /\ UNCHANGED <<source, app, refused, flags, th, box, subs>>

\* stop clears the flag of the IR runtime, and gives each thread a second.
StopCalled ==
  /\ app = "ready"
  /\ runningIr' = FALSE
  /\ app' = "joining"
  /\ UNCHANGED <<source, todo, refused, running, th, events, hist>>

\* Threads still alive after it are in a handler or in a wait.
StopReturns ==
  /\ app = "joining"
  /\ \A s \in Slots : th[s].at \in {"free", "wait", "act"}
  /\ running' = FALSE
  /\ app' = "stopped"
  /\ UNCHANGED <<source, todo, refused, runningIr, th, events, hist>>

-----------------------------------------------------------------------------
(* _run_ir_graph: the test of the loop, and what it does for each kind of node. *)

InLoop(s) == At(s, "loop") /\ running /\ runningIr /\ Top(s).node \in DOMAIN nodes
Reaches(s, kind) == InLoop(s) /\ Node(s).kind = kind

LoopEnds(s) ==
  /\ At(s, "loop")
  /\ ~InLoop(s) \/ Reaches(s, "END")
  /\ Returns(s)
  /\ UNCHANGED <<application, flags, events, hist>>

\* The options of a WAIT_MULTI by kind, and the names a node waits for: each is
\* the set of their places in the list.
TimeoutsOf(node) == {i \in DOMAIN node.options : node.options[i].kind = "TIMEOUT"}
EventsOf(node) == {i \in DOMAIN node.options : node.options[i].kind = "EVENT"}
NamesOf(node) == IF node.kind = "WAIT_EVENT" THEN DOMAIN node.on ELSE EventsOf(node)
NameAt(node, i) == IF node.kind = "WAIT_EVENT" THEN node.on[i] ELSE node.options[i].event

\* _wait_for_events: a new box, subscribed under every name, one after another.
OpenWait(s) ==
  /\ Become(s, [th[s] EXCEPT !.at = "subscribe", !.names = NamesOf(Node(s))])
  /\ box' = [box EXCEPT ![s] = NoEvent]
  /\ hist' = [hist EXCEPT !.waits[s] = @ + 1, !.since[s] = hist.published]

\* Without names there is nothing to wait for, and WAIT_EVENT raises.
WaitEvent(s) ==
  /\ Reaches(s, "WAIT_EVENT")
  /\ IF NamesOf(Node(s)) = {} THEN Dies(s) /\ UNCHANGED <<box, hist>> ELSE OpenWait(s)
  /\ UNCHANGED <<application, flags, subs, callbacks>>

Action(s) ==
  /\ Reaches(s, "ACTION")
  /\ Move(s, "act")
  /\ UNCHANGED <<application, flags, events, hist>>

Emit(s) ==
  /\ Reaches(s, "EMIT")
  /\ Publish(Node(s).event)
  /\ Follow(s, "ok")
  /\ UNCHANGED <<application, flags, box, subs>>

\* Each branch is called and runs to its end; then the thread goes on at join.
Parallel(s) ==
  /\ Reaches(s, "PARALLEL")
  /\ LET k == Top(s).branch + 1
         branches == Node(s).branches
     IN IF k > Len(branches)
          THEN GoTo(s, Node(s).join)
          ELSE Become(s, [th[s] EXCEPT
                 !.stack = Append(Append(Front(@), [Last(@) EXCEPT !.branch = k]), Call(branches[k]))])
  /\ UNCHANGED <<application, flags, events, hist>>

-----------------------------------------------------------------------------
(* _execute_action: the handler is called up to three times, with fewer    *)
(* arguments each time, as long as it raises TypeError.                    *)

\* A handler returns False or FAILURE, or raises, or there is none.
ActionFails(s) ==
  /\ At(s, "act")
  /\ Follow(s, "error")
  /\ UNCHANGED <<application, flags, events, hist>>

ActionSucceeds(s) ==
  /\ At(s, "act") /\ Node(s).action \in Handlers
  /\ Follow(s, "ok")
  /\ UNCHANGED <<application, flags, events, hist>>

\* Other exceptions count as failures in the first call, and end the thread
\* in the later ones, as a third TypeError does.
ActionRaises(s) ==
  /\ At(s, "act") /\ Node(s).action \in Handlers
  /\ \/ th[s].tries < 2 /\ Become(s, [th[s] EXCEPT !.tries = @ + 1])
     \/ th[s].tries > 0 /\ Dies(s)
  /\ UNCHANGED <<application, flags, events, hist>>

-----------------------------------------------------------------------------
(* Waiting.                                                                *)

\* max takes the first of those with the highest priority.
Best(options, places) ==
  LET highest == {i \in places : \A j \in places : options[j].priority <= options[i].priority}
  IN options[Min(highest)]

Due(s) == {i \in TimeoutsOf(Node(s)) : Node(s).options[i].ms <= th[s].age}
TimedOut(s) == Node(s).kind = "WAIT_MULTI" /\ Due(s) # {}

\* _wait_for_multi_options begins; the clock of the wait starts.
WaitMulti(s) ==
  /\ Reaches(s, "WAIT_MULTI")
  /\ Become(s, [th[s] EXCEPT !.at = "multi", !.age = 0])
  /\ UNCHANGED <<application, flags, events, hist>>

\* Its loop: stop, take a timeout that is due, or wait for the events.  Without
\* events it spins until a timeout is due.
MultiLoop(s) ==
  /\ At(s, "multi")
  /\ CASE ~(running /\ runningIr) -> Returns(s) /\ UNCHANGED <<box, hist>>
       [] running /\ runningIr /\ TimedOut(s) -> GoTo(s, Best(Node(s).options, Due(s)).to) /\ UNCHANGED <<box, hist>>
       [] OTHER -> NamesOf(Node(s)) # {} /\ OpenWait(s)
  /\ UNCHANGED <<application, flags, subs, callbacks>>

Subscribe(s) ==
  /\ At(s, "subscribe")
  /\ LET next == Min(th[s].names)
         names == th[s].names \ {next}
     IN /\ subs' = subs \cup {<<s, NameAt(Node(s), next)>>}
        /\ Become(s, [th[s] EXCEPT !.names = names, !.at = IF names = {} THEN "wait" ELSE @])
  /\ UNCHANGED <<application, flags, box, callbacks, hist>>

\* Mutant: the wait has no timeout.
WakeOnEvent(s) ==
  /\ At(s, "wait")
  /\ box[s] # NoEvent
  /\ Become(s, [th[s] EXCEPT !.at = "unsubscribe", !.got = box[s]])
  /\ UNCHANGED <<application, flags, events, hist>>

\* done.wait returns when a callback has run, or in time for a timeout; what is
\* in the box by then is the event.
Wake(s) ==
  /\ At(s, "wait")
  /\ box[s] # NoEvent \/ TimedOut(s)
  /\ Become(s, [th[s] EXCEPT !.at = "unsubscribe", !.got = box[s]])
  /\ UNCHANGED <<application, flags, events, hist>>

\* The finally clause, then the step that follows the wait.
Unsubscribe(s) ==
  /\ At(s, "unsubscribe")
  /\ subs' = {x \in subs : x[1] # s}
  /\ LET options == Node(s).options
         candidates == {i \in EventsOf(Node(s)) : options[i].event = th[s].got.name}
     IN CASE Node(s).kind = "WAIT_EVENT" -> Follow(s, "ok")
          [] Node(s).kind = "WAIT_MULTI" /\ th[s].got = NoEvent -> Move(s, "multi")
          [] OTHER -> GoTo(s, Best(options, candidates).to)
  /\ box' = [box EXCEPT ![s] = NoEvent]
  /\ UNCHANGED <<application, flags, callbacks, hist>>

\* Mutant: the box belongs to the thread, not to the wait.
CallbackSharedBox(s) ==
  \E c \in callbacks :
    /\ c.thread = s
    /\ callbacks' = callbacks \ {c}
    /\ box' = [box EXCEPT ![s] = c.event]
    /\ UNCHANGED <<application, flags, th, subs, hist>>

\* on_event, in a thread of its own: it writes to the box of the wait that
\* subscribed it, which nobody reads once that wait has returned.
Callback(s) ==
  \E c \in callbacks :
    /\ c.thread = s
    /\ callbacks' = callbacks \ {c}
    /\ box' = IF c.wait = hist.waits[s] /\ th[s].at \in {"subscribe", "wait"}
                THEN [box EXCEPT ![s] = c.event]
                ELSE box
    /\ UNCHANGED <<application, flags, th, subs, hist>>

\* A millisecond for every WAIT_MULTI.
InMulti(s) == th[s].stack # << >> /\ ~At(s, "loop") /\ Node(s).kind = "WAIT_MULTI"
Tick ==
  /\ \E s \in Slots : InMulti(s) /\ th[s].age < MaxMs
  /\ th' = [s \in Slots |->
       IF InMulti(s) /\ th[s].age < MaxMs THEN [th[s] EXCEPT !.age = @ + 1] ELSE th[s]]
  /\ UNCHANGED <<application, flags, events, hist>>
-----------------------------------------------------------------------------
ThreadStep(s) ==
  \/ LoopEnds(s) \/ WaitEvent(s) \/ Action(s) \/ WaitMulti(s) \/ Emit(s) \/ Parallel(s)
  \/ ActionFails(s) \/ ActionSucceeds(s) \/ ActionRaises(s)
  \/ MultiLoop(s) \/ Subscribe(s) \/ Wake(s) \/ Unsubscribe(s)

Next ==
  \/ RunIrRaises \/ RunIr \/ PublishEvent \/ StopCalled \/ StopReturns
  \/ \E s \in Slots : ThreadStep(s) \/ Callback(s)
  \/ Tick

Spec == Init /\ [][Next]_vars

\* Threads are scheduled, handlers return, and time passes.  Nothing is assumed
\* of the application.
Fairness ==
  /\ \A s \in Slots : WF_vars(ThreadStep(s)) /\ WF_vars(Callback(s))
  /\ WF_vars(Tick)

FairSpec == Spec /\ Fairness

-----------------------------------------------------------------------------
(* Properties.                                                             *)

Waits == {"subscribe", "wait", "unsubscribe"}
NamesAwaited(s) == {NameAt(Node(s), i) : i \in NamesOf(Node(s))}

\* The engine keeps to its types; a thread stands at a node that exists, since
\* validation saw to that; and the event manager holds no subscription but those
\* of waits that are under way (_run_ir_graph, _wait_for_events).
TypeOK ==
  /\ app \in {"ready", "joining", "stopped"}
  /\ todo \in [runs : 0 .. Calls[source].runs, publish : 0 .. Calls[source].publish]
  /\ refused \in BOOLEAN /\ running \in BOOLEAN /\ runningIr \in BOOLEAN
  /\ \A s \in Slots :
       /\ th[s].at \in Places /\ th[s].age \in 0 .. MaxMs /\ th[s].tries \in 0 .. 2
       /\ th[s].stack = << >> <=> At(s, "free")
       /\ \A call \in Range(th[s].stack) : call.node \in DOMAIN nodes
  /\ \A x \in subs : th[x[1]].at \in Waits /\ x[2] \in NamesAwaited(x[1])
  /\ hist.published \in Nat

\* The lines of a text that belong to its i-th rule, and what those that begin with
\* a keyword name first.
RuleLines(text, i) ==
  {m \in DOMAIN text : Cardinality({k \in 1 .. m : text[k].keyword = "RULE"}) = i}
Named(text, lines, keyword) ==
  {Head(text[m].payload) : m \in {k \in lines : text[k].keyword = keyword}}
ActionsOf(ids) == {nodes[i].action : i \in {j \in ids : nodes[j].kind = "ACTION"}}

\* What the lines of a rule ask for: its STOP actions only follow an UNTIL ON, and
\* its TIMEOUT actions only an UNTIL TIMEOUT or no UNTIL at all.
Asked(text, lines) ==
  LET until == Named(text, lines, "UNTIL")
      listed(keyword) == IF Named(text, lines, keyword) = {} THEN {"stepper.stop"}
                         ELSE Named(text, lines, keyword)
  IN Named(text, lines, "START")
       \cup (IF "ON" \in until THEN listed("STOP") ELSE {})
       \cup (IF until = {"ON"} THEN {} ELSE listed("TIMEOUT"))

\* Rules that share one graph do not run into one another: from the entry of a
\* rule only its own nodes are reached, among them exactly the actions its lines
\* ask for, and what follows an event and what follows a timeout have nothing in
\* common but the end (parse_dsl, compile_rule, and validate_graph, which refuses
\* rules whose generated ids collide).
RulesRunApart ==
  todo = Calls[source] /\ graph.accepted /\ "text" \in DOMAIN Sources[source] =>
    LET text == Sources[source].text
        entries == Entries(graph)
        reach(i) == Reach(graph, entries[i])
        waits(i) == {n \in Range(graph.nodes) : n.id \in reach(i) /\ n.kind = "WAIT_MULTI"}
    IN \A i \in DOMAIN entries :
         /\ \A j \in DOMAIN entries : reach(i) \cap reach(j) # {} => i = j
         /\ ActionsOf(reach(i)) = Asked(text, RuleLines(text, i))
         /\ \A n \in waits(i) : \A o, p \in Range(n.options) :
              o.kind # p.kind =>
                \A id \in Reach(graph, o.to) \cap Reach(graph, p.to) : nodes[id].kind = "END"

\* What makes a wait return was published after this wait began, under a name it
\* waits for, however late the callbacks of earlier waits run (_wait_for_events).
TriggerIsFresh ==
  \A s \in Slots :
    th[s].got # NoEvent => th[s].got.no > hist.since[s] /\ th[s].got.name \in NamesAwaited(s)

\* A wait with a callback on its way returns, and a WAIT_MULTI with a timeout is
\* left even if no event ever comes (_wait_for_multi_options).
Called(s) == \E c \in callbacks : c.thread = s /\ c.wait = hist.waits[s]
InTimedWait(s) == InMulti(s) /\ TimeoutsOf(Node(s)) # {}
WaitsEnd ==
  \A s \in Slots :
    /\ At(s, "wait") /\ Called(s) ~> ~At(s, "wait")
    /\ InTimedWait(s) ~> ~InTimedWait(s)
=============================================================================
