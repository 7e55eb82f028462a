------------------------------ MODULE Gateway ------------------------------
(***************************************************************************)
(* The REST gateway (RestInterface.py) between the mesh and the web UI     *)
(* server (server.js).                                                     *)
(*                                                                         *)
(* On the gateway one thread runs everything: a request handler, or the    *)
(* mesh task from one await to the next, is one action.  Handlers first    *)
(* poll pending payloads into the registry; only the mesh task passes them *)
(* to the message log, which GET /messages empties.                        *)
(*                                                                         *)
(* In the web UI server each browser has a stream with a timer; a poll     *)
(* asks for the status, the nodes and the messages at once, and a new one  *)
(* starts whether or not the last has ended.  The answers may be lost      *)
(* before or after the gateway has handled the request.                    *)
(*                                                                         *)
(* The gateway may be stopped and started again; its log and its registry  *)
(* stay.                                                                   *)
(*                                                                         *)
(* External: the mesh that delivers payloads (LighthouseRx), the HTTP      *)
(* server library, which may or may not leave the mesh task time to run,   *)
(* and the network.                                                        *)
(***************************************************************************)
EXTENDS FiniteSetsExt, Registry

CONSTANTS
  Payloads,      \* payloads the mesh delivers
  LogMax,        \* _max_message_log (250)
  StatusDrain,   \* max_messages of /status and /nodes (32)
  MessagesDrain, \* max_messages of /messages (128)
  Clients,       \* browsers
  Polls,         \* bound: polls a client has under way at once
  RxMax,         \* bound: payloads waiting in the mesh
  MaxArrivals,   \* bound: payloads in one behaviour
  MaxTroubles    \* bound: stops of the gateway, and requests that fail while it is up

ASSUME GatewayAssumption ==
  /\ LogMax \in Nat \ {0} /\ StatusDrain \in Nat \ {0} /\ MessagesDrain \in Nat \ {0}
  /\ RxMax \in Nat /\ MaxArrivals \in Nat /\ MaxTroubles \in Nat

\* The messages of the model name its nodes, services and hashes.
ASSUME PayloadAssumption ==
  \A m \in {payload.object : payload \in {x \in Payloads : Validate(x)}} :
    /\ m.n.string \in NodeIds
    /\ m.t.string \in {"a", "p"} => m.h.string \in Hashes
    /\ m.t.string = "a" => AdvertisedIds(m) \subseteq Services
    /\ m.t.string = "p" => ProfiledIds(m) \subseteq Services \cup {NoId}

VARIABLES
  up,        \* the gateway has been started, and not stopped since
  rx,        \* what the payloads that nobody has polled yet decode to
  reg,       \* endpoint.registry
  log,       \* ids of the entries in _message_log
  seq,       \* _message_seq
  ui,        \* per client: its stream, and the nodes it was last sent
  poll,      \* per client: the polls under way
  troubles,  \* stops, and requests that failed while the gateway was up
  hist       \* history: payloads arrived, and ids sent to browsers in this order

gateway == <<up, rx, reg, log, seq>>
vars == <<up, rx, reg, log, seq, ui, poll, troubles, hist>>

Endpoints == {"status", "nodes", "messages"}
NodeReport == [node : NodeIds, hash : Hashes \cup {"none"},
               ids : SUBSET (Services \cup {NoId})]

\* GET /nodes: a profile's services come before the ids of an advertisement.
Report(r) ==
  {[node |-> n, hash |-> r.nodes[n].hash,
    ids |-> IF r.nodes[n].profiled THEN r.nodes[n].services ELSE r.nodes[n].ids] :
     n \in {m \in NodeIds : r.nodes[m].known}}

IdlePoll == [at |-> "idle", req |-> [e \in Endpoints |-> "none"],
             nodes |-> {}, msgs |-> << >>]

-----------------------------------------------------------------------------
Init ==
  /\ up = TRUE
  /\ rx = << >>
  /\ reg = EmptyRegistry
  /\ log = << >> /\ seq = 0
  /\ ui = [c \in Clients |-> [stream |-> "new", nodes |-> {}]]
  /\ poll = [c \in Clients |-> [p \in Polls |-> IdlePoll]]
  /\ troubles = 0
  /\ hist = [arrived |-> 0, sent |-> << >>]

\* start, after a stop.  Neither way to create the mesh task may work, and the
\* server starts anyhow: the same as a task that never runs.
Start ==
  /\ ~up
  /\ up' = TRUE
  /\ UNCHANGED <<rx, reg, log, seq, ui, poll, troubles, hist>>

\* stop, between two requests: the mesh task, at an await, is cancelled.
Stop ==
  /\ up /\ troubles < MaxTroubles
  /\ up' = FALSE
  /\ troubles' = troubles + 1
  /\ UNCHANGED <<rx, reg, log, seq, ui, poll, hist>>

\* A payload reaches the mesh's receive queue.
Arrive ==
  /\ hist.arrived < MaxArrivals /\ Len(rx) < RxMax
  /\ \E payload \in Payloads : rx' = Append(rx, Decode(payload))
  /\ hist' = [hist EXCEPT !.arrived = @ + 1]
  /\ UNCHANGED <<up, reg, log, seq, ui, poll, troubles>>

\* Mutants: the log drops its newest entry; its limit is tested too early.
CaptureDropsNewest(entries, id) ==
  LET longer == Append(entries, id)
  IN IF Len(longer) > LogMax THEN Front(longer) ELSE longer
CaptureOffByOne(entries, id) ==
  LET longer == Append(entries, id)
  IN IF Len(entries) > LogMax THEN Tail(longer) ELSE longer

\* _capture_message
Capture(entries, id) ==
  LET longer == Append(entries, id)
  IN IF Len(longer) > LogMax THEN Tail(longer) ELSE longer

\* The log after k messages more.
CaptureAll(k) ==
  LET after[i \in 0 .. k] == IF i = 0 THEN log ELSE Capture(after[i - 1], seq + i)
  IN after[k]

IsMessage(m) == m # Refused

\* The mesh task between two awaits: it polls and captures until nothing is
\* left, or until a payload cannot be decoded.
MeshTaskRuns ==
  /\ up
  /\ rx # << >>
  /\ LET bad == {i \in DOMAIN rx : ~IsMessage(rx[i])}
         n == IF bad = {} THEN Len(rx) ELSE Min(bad)
         k == IF bad = {} THEN n ELSE n - 1
     IN /\ rx' = SubSeq(rx, n + 1, Len(rx))
        /\ reg' = RegisterAll(reg, SubSeq(rx, 1, n))
        /\ seq' = seq + k
        /\ log' = CaptureAll(k)
  /\ UNCHANGED <<up, ui, poll, troubles, hist>>

-----------------------------------------------------------------------------
(* The request handlers.                                                   *)

\* _drain_pending_messages: polls, and goes on after a payload it cannot decode.
Drain(max) ==
  LET n == Min({max, Len(rx)})
  IN /\ rx' = SubSeq(rx, n + 1, Len(rx))
     /\ reg' = RegisterAll(reg, SubSeq(rx, 1, n))
     /\ UNCHANGED up

\* Mutant: reading the messages leaves them in the log.
GetMessagesKeeps == Drain(MessagesDrain) /\ UNCHANGED <<log, seq>>

GetStatusOrNodes == Drain(StatusDrain) /\ UNCHANGED <<log, seq>>
GetMessages == Drain(MessagesDrain) /\ log' = << >> /\ UNCHANGED seq

Handle(e) ==
  /\ up
  /\ \/ e \in {"status", "nodes"} /\ GetStatusOrNodes
     \/ e = "messages" /\ GetMessages

-----------------------------------------------------------------------------
(* The web UI server.                                                      *)

\* GET /api/events
OpenStream(c) ==
  /\ ui[c].stream = "new"
  /\ ui' = [ui EXCEPT ![c].stream = "open"]
  /\ UNCHANGED <<gateway, poll, troubles, hist>>

CloseStream(c) ==
  /\ ui[c].stream = "open"
  /\ ui' = [ui EXCEPT ![c].stream = "closed"]
  /\ UNCHANGED <<gateway, poll, troubles, hist>>

Idle(c) == {p \in Polls : poll[c][p].at = "idle"}

\* The timer: three requests go out together.
StartPoll(c) ==
  /\ ui[c].stream = "open"
  /\ Idle(c) # {}
  /\ poll' = [poll EXCEPT ![c][CHOOSE p \in Idle(c) : TRUE] =
       [IdlePoll EXCEPT !.at = "open", !.req = [e \in Endpoints |-> "sent"]]]
  /\ UNCHANGED <<gateway, ui, troubles, hist>>

\* What is left of a rejected poll: the requests that are still under way, whose
\* answers are ignored.
Rejected(pl) ==
  LET sent == {e \in Endpoints : pl.req[e] = "sent"}
  IN IF sent = {} THEN IdlePoll
     ELSE [IdlePoll EXCEPT !.at = "rejected",
                           !.req = [e \in Endpoints |-> IF e \in sent THEN "sent" ELSE "none"]]

\* The gateway handles a request, and the answer arrives.
Answer(c, p, e) ==
  /\ poll[c][p].req[e] = "sent"
  /\ Handle(e)
  /\ LET pl == [poll[c][p] EXCEPT
           !.req[e] = "answered",
           !.nodes = IF e = "nodes" THEN Report(reg') ELSE @,
           !.msgs = IF e = "messages" THEN log ELSE @]
     IN poll' = [poll EXCEPT ![c][p] = IF pl.at = "open" THEN pl ELSE Rejected(pl)]
  /\ UNCHANGED <<ui, troubles, hist>>

\* A request fails, and Promise.all rejects at once: because there is no server,
\* or, before or after it was handled, on its way.
RequestFails(c, p, e) ==
  /\ poll[c][p].req[e] = "sent"
  /\ \/ ~up /\ UNCHANGED <<gateway, troubles>>
     \/ /\ up /\ troubles < MaxTroubles
        /\ troubles' = troubles + 1
        /\ UNCHANGED gateway \/ Handle(e)
  /\ poll' = [poll EXCEPT ![c][p] = Rejected([@ EXCEPT !.req[e] = "failed"])]
  /\ UNCHANGED <<ui, hist>>

\* Mutant: nodes are only sent along with messages.
ResolveWithMessages(c, p) ==
  LET pl == poll[c][p]
      open == ui[c].stream = "open"
  IN /\ pl.at = "open" /\ \A e \in Endpoints : pl.req[e] = "answered"
     /\ ui' = IF open /\ pl.msgs # << >> THEN [ui EXCEPT ![c].nodes = pl.nodes] ELSE ui
     /\ hist' = IF open THEN [hist EXCEPT !.sent = @ \o pl.msgs] ELSE hist
     /\ poll' = [poll EXCEPT ![c][p] = IdlePoll]
     /\ UNCHANGED <<gateway, troubles>>

\* Promise.all resolves: nodes are sent when they differ from the last ones
\* sent, every message is; nothing is sent on a closed stream.
Resolve(c, p) ==
  LET pl == poll[c][p]
      open == ui[c].stream = "open"
  IN /\ pl.at = "open" /\ \A e \in Endpoints : pl.req[e] = "answered"
     /\ ui' = IF open THEN [ui EXCEPT ![c].nodes = pl.nodes] ELSE ui
     /\ hist' = IF open THEN [hist EXCEPT !.sent = @ \o pl.msgs] ELSE hist
     /\ poll' = [poll EXCEPT ![c][p] = IdlePoll]
     /\ UNCHANGED <<gateway, troubles>>

-----------------------------------------------------------------------------
PollStep(c, p) ==
  \/ \E e \in Endpoints : Answer(c, p, e) \/ RequestFails(c, p, e)
  \/ Resolve(c, p)

Next ==
  \/ Start \/ Stop \/ Arrive \/ MeshTaskRuns
  \/ \E c \in Clients : OpenStream(c) \/ CloseStream(c) \/ StartPoll(c)
  \/ \E c \in Clients, p \in Polls : PollStep(c, p)

Spec == Init /\ [][Next]_vars

\* The timer of an open stream fires again and again, and every request ends
\* some time, well or badly.  Nothing is assumed of
\* the mesh task: src/ does not show whether the server leaves it time to run.
Fairness ==
  \A c \in Clients :
    /\ WF_vars(StartPoll(c))
    /\ \A p \in Polls : WF_vars(PollStep(c, p))

FairSpec == Spec /\ Fairness

-----------------------------------------------------------------------------
(* Properties.                                                             *)

\* The gateway and the web UI server keep to their types, and the log to its
\* limit.
TypeOK ==
  /\ up \in BOOLEAN
  /\ rx \in Seq({Decode(payload) : payload \in Payloads})
  /\ reg \in RegistryType
  /\ log \in Seq(Nat) /\ Len(log) <= LogMax /\ seq \in Nat
  /\ ui \in [Clients -> [stream : {"new", "open", "closed"}, nodes : SUBSET NodeReport]]
  /\ poll \in [Clients -> [Polls ->
       [at : {"idle", "open", "rejected"}, req : [Endpoints -> {"none", "sent", "answered"}],
        nodes : SUBSET NodeReport, msgs : Seq(Nat)]]]
  /\ hist \in [arrived : Nat, sent : Seq(Nat)]
  /\ troubles \in Nat

\* What overflow discards is always the oldest: the log holds the latest
\* captures without a gap, so a gap in the ids a browser sees tells it that
\* messages were lost (_capture_message, get_messages).
LogHasNoGap == log = [i \in 1 .. Len(log) |-> seq - Len(log) + i]

\* A message is sent to at most one browser and once, however many browsers
\* poll, polls overlap or requests fail (get_messages, the poll of server.js).
SentOnce == \A i, j \in DOMAIN hist.sent : hist.sent[i] = hist.sent[j] => i = j

\* The two halves of the registry agree: a node is found under every service it
\* announced last, and nodes found under a service are known ones: no message that
\* passes validation is registered by half, and get_nodes finds the id of every
\* service it looks up (validate, register_advertisement, register_profile).
ServicesFindNodes ==
  /\ \A n \in NodeIds : \A s \in reg.nodes[n].ids \cup reg.nodes[n].services :
       s \in Services /\ n \in FindService(reg, s)
  /\ \A s \in Services : FindService(reg, s) = reg.providers[s]

\* Old answers can arrive after new ones, but not for ever: once the mesh is
\* quiet and the gateway is left running, an open browser ends up with the nodes
\* the registry holds, and nothing is left in the mesh's queue.
BrowsersCatchUp ==
  \A c \in Clients :
    <>[](up /\ ui[c].stream = "open" => ui[c].nodes = Report(reg) /\ rx = << >>)
=============================================================================
