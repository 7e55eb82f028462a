---------------------------- MODULE LighthouseRx ----------------------------
(***************************************************************************)
(* The receive side of LighthouseMesh: the ESP-NOW callback that drains    *)
(* the driver into a bounded queue, the run loop that takes packets from   *)
(* that queue or, when it is empty, straight from the driver, and the      *)
(* reassembly of fragments, which both of them run on the same buffers.    *)
(*                                                                         *)
(* As in LighthouseTx, "irq" pre-empts "main" anywhere and runs to its     *)
(* end.  A buffer is an object: a context keeps its reference to one while *)
(* the other may unlink it, so buffers live in a heap of slots.            *)
(*                                                                         *)
(* External: the driver's FIFO and the radio, which loses packets, repeats *)
(* them (LighthouseTx can send a fragment twice) and delivers in any order *)
(* (unfragmented messages overtake queued fragments).                      *)
(***************************************************************************)
EXTENDS Integers, Sequences, FiniteSets

CONSTANTS
  Msgs,         \* the messages peers send: [src, era, id, total]
  RxMax,        \* _max_rx_queue (32)
  Timeout,      \* _FRAG_REASSEMBLY_TIMEOUT_MS (30000) in clock steps
  TicksPeriod,  \* ticks_ms counts modulo this
  IrqPorts,     \* the ports considered: is the callback delivered?
  Endpoints,    \* the programs considered: is run given an endpoint?
  Slots,        \* bound: buffer objects that exist at once
  NoSlot,       \* no buffer object
  MaxAge,       \* bound: ages of buffers told apart, in clock steps
  MaxDups,      \* bound: packets the radio repeats
  FifoMax       \* bound: packets waiting in the driver

\* A message with total = 0 stands for a malformed fragment, one with total = 1
\* for an unfragmented payload.  A sender counts its message ids from 1 again in
\* every era (each boot, or re-run of __init__) and does not repeat one within.
ASSUME RxAssumption ==
  /\ \A m \in Msgs : m = [src |-> m.src, era |-> m.era, id |-> m.id, total |-> m.total]
  /\ \A m \in Msgs : m.total \in Nat /\ m.era \in Nat
  /\ \A m, n \in Msgs : m.src = n.src /\ m.era = n.era /\ m.id = n.id => m = n
  /\ RxMax \in Nat \ {0}
  /\ Timeout \in Nat /\ TicksPeriod \in Nat \ {0} /\ MaxAge \in Nat
  /\ IrqPorts \subseteq BOOLEAN /\ Endpoints \subseteq BOOLEAN
  /\ IsFiniteSet(Slots) /\ NoSlot \notin Slots
  /\ MaxDups \in Nat /\ FifoMax \in Nat

VARIABLES
  rxQueue,    \* _rx_queue, as the sequence of payloads
  buffers,    \* _fragment_buffers: key -> slot, NoSlot when absent
  heap,       \* the buffer objects: total, parts and the age of updated_ms
  irqOn,      \* the callback is delivered
  endpoint,   \* run was given an endpoint
  pc,         \* where each context is
  loc,        \* _ingest_rx_packet's locals in each context
  fifo,       \* external: packets in the driver
  arrived,    \* external: packets that reached this node
  dups,       \* external: repetitions so far
  era,        \* external: the era each peer is in
  delivered,  \* history: payloads handed to the application
  twice,      \* history: some payload was handed over twice
  gone        \* history: packets discarded on purpose

store == <<rxQueue, buffers, heap>>
radio == <<fifo, arrived, dups, era>>
history == <<delivered, twice, gone>>
vars == <<rxQueue, buffers, heap, irqOn, endpoint, pc, loc, fifo, arrived, dups, era,
          delivered, twice, gone>>

Ctx == {"main", "irq"}
\* "dead": an exception has ended run.
Labels == {"idle", "wait", "take", "irecv", "collect", "purge", "lookup", "create",
           "store", "test", "finish", "dead"}

Srcs == {m.src : m \in Msgs}
Packet == {[msg |-> m, index |-> 0] : m \in Msgs}
            \cup UNION {{[msg |-> m, index |-> i] : i \in 0 .. m.total - 1} : m \in Msgs}
NoPacket == [msg |-> [src |-> "none", era |-> 0, id |-> 0, total |-> 0], index |-> 0]
Keys == {<<m.src, m.id>> : m \in Msgs}

\* Mutant: the key of a buffer leaves out the sender.
KeyWithoutSender(p) == CHOOSE k \in Keys : k[2] = p.msg.id
\* The key of a fragment's buffer.
Key(p) == <<p.msg.src, p.msg.id>>

\* A payload is the set of parts it was put together from.
Payload == SUBSET Packet

NewBuffer(total) == [total |-> total, parts |-> {}, age |-> 0]
NoBuffer == NewBuffer(0)
NoLocals == [pkt |-> NoPacket, stale |-> {}, slot |-> NoSlot]

-----------------------------------------------------------------------------
(* Pure parts of the code.                                                 *)

\* _ticks_diff of the present and a buffer's updated_ms: ticks wrap, and the
\* difference is taken to be the nearest one.
TicksDiff(age) == ((age + TicksPeriod \div 2) % TicksPeriod) - (TicksPeriod \div 2)

\* _parse_fragment: a payload that is no fragment, and a fragment it rejects.
IsRaw(p) == p.msg.total = 1
IsMalformed(p) == p.index >= p.msg.total

\* Mutant: parts are appended, not put at their index.
PutPartAppends(parts, p) == parts \cup {p}
\* entry["parts"][index] = part: a part takes the place of one with its index.
PutPart(parts, p) == {q \in parts : q.index # p.index} \cup {p}

\* Mutant: a buffer lives one clock step too long.
StaleKeysLater ==
  {k \in Keys : buffers[k] # NoSlot /\ TicksDiff(heap[buffers[k]].age) > Timeout + 1}
\* The buffers not updated for longer than the timeout, as far as ticks tell.
StaleKeys ==
  {k \in Keys : buffers[k] # NoSlot /\ TicksDiff(heap[buffers[k]].age) > Timeout}

\* Objects no reference reaches are forgotten.
Reachable(h, b, l) ==
  [s \in Slots |->
     IF s \in {b[k] : k \in Keys} \cup {l[c].slot : c \in Ctx} THEN h[s] ELSE NoBuffer]
FreeSlots == Slots \ ({buffers[k] : k \in Keys} \cup {loc[c].slot : c \in Ctx})

-----------------------------------------------------------------------------
Init ==
  /\ rxQueue = << >>
  /\ buffers = [k \in Keys |-> NoSlot]
  /\ heap = [s \in Slots |-> NoBuffer]
  /\ irqOn \in IrqPorts /\ endpoint \in Endpoints
  /\ pc = [main |-> "wait", irq |-> "idle"]
  /\ loc = [c \in Ctx |-> NoLocals]
  /\ fifo = << >> /\ arrived = {} /\ dups = 0
  /\ era = [s \in Srcs |-> 0]
  /\ delivered = {} /\ twice = FALSE /\ gone = {}

\* Context c stands at label l and may run: main does not run under the irq.
At(c, l) == pc[c] = l /\ (c = "main" => pc["irq"] = "idle")
Goto(c, l) == pc' = [pc EXCEPT ![c] = l]

\* End of one packet in context c: its locals go, and with them what only they
\* reached once buffers are b.
EndPacket(c, b, l) ==
  /\ Goto(c, l)
  /\ loc' = [loc EXCEPT ![c] = NoLocals]
  /\ buffers' = b
  /\ heap' = Reachable(heap, b, [loc EXCEPT ![c] = NoLocals])

\* recv_raw hands a payload to the run loop, or to the endpoint it was given.
HandOver(item) ==
  /\ delivered' = delivered \cup {item}
  /\ twice' = (twice \/ item \in delivered)

\* The loop then calls again; but over a payload the endpoint cannot decode, poll
\* raises, and the loop logs that and waits.
AfterPayload == IF endpoint THEN {"take", "wait"} ELSE {"take"}

\* _ingest_rx_packet returns None: the run loop waits, the drain goes on.
Nothing(c, b) ==
  /\ EndPacket(c, b, IF c = "main" THEN "wait" ELSE "irecv")
  /\ UNCHANGED <<rxQueue, delivered, twice>>

\* Mutant: the overflow test is off by one.
EnqueueOffByOne(item) ==
  IF Len(rxQueue) > RxMax
    THEN rxQueue' = Append(Tail(rxQueue), item) /\ gone' = gone \cup Head(rxQueue)
    ELSE rxQueue' = Append(rxQueue, item) /\ UNCHANGED gone
\* The drain queues a payload, dropping the oldest one of a full queue.
Enqueue(item) ==
  IF Len(rxQueue) >= RxMax
    THEN rxQueue' = Append(Tail(rxQueue), item) /\ gone' = gone \cup Head(rxQueue)
    ELSE rxQueue' = Append(rxQueue, item) /\ UNCHANGED gone

\* _ingest_rx_packet returns a payload: the run loop has it, the drain queues it.
Something(c, b, item) ==
  \/ /\ c = "main"
     /\ \E l \in AfterPayload : EndPacket(c, b, l)
     /\ HandOver(item)
     /\ UNCHANGED <<rxQueue, gone>>
  \/ /\ c = "irq"
     /\ EndPacket(c, b, "irecv")
     /\ Enqueue(item)
     /\ UNCHANGED <<delivered, twice>>

\* An exception leaves recv_raw or the drain.  From the endpoint's poll the run loop
\* logs it and waits; its own call of recv_raw is in no try, so the exception ends
\* the loop.  The port prints the callback's.
AfterException == IF endpoint THEN "wait" ELSE "dead"
Raise(c, b) ==
  /\ EndPacket(c, b, IF c = "main" THEN AfterException ELSE "idle")
  /\ UNCHANGED <<rxQueue, delivered, twice>>

-----------------------------------------------------------------------------
(* The run loop, recv_raw and the callback.                                *)

\* Mutant: only queued payloads end the wait, there is no poll interval.
WaitOverByQueue ==
  /\ At("main", "wait") /\ rxQueue # << >>
  /\ Goto("main", "take")
  /\ UNCHANGED <<store, irqOn, endpoint, loc, radio, history>>

\* _wait_for_rx ends: the queue holds something, the event was set, or at the
\* latest when poll_ms are over.
WaitOver ==
  /\ At("main", "wait")
  /\ Goto("main", "take")
  /\ UNCHANGED <<store, irqOn, endpoint, loc, radio, history>>

\* The pump that begins and ends the wait raises, as it may when the callback runs
\* it too (LighthouseTx), and no try surrounds it.
PumpRaises ==
  /\ irqOn
  /\ At("main", "wait")
  /\ Goto("main", "dead")
  /\ UNCHANGED <<store, irqOn, endpoint, loc, radio, history>>

RecvQueued ==
  /\ At("main", "take") /\ rxQueue # << >>
  /\ rxQueue' = Tail(rxQueue)
  /\ HandOver(Head(rxQueue))
  /\ \E l \in AfterPayload : Goto("main", l)
  /\ UNCHANGED <<buffers, heap, irqOn, endpoint, loc, radio, gone>>

RecvFallback ==
  /\ At("main", "take") /\ rxQueue = << >>
  /\ Goto("main", "irecv")
  /\ UNCHANGED <<store, irqOn, endpoint, loc, radio, history>>

IrqEnter ==
  /\ irqOn /\ fifo # << >>
  /\ At("irq", "idle")
  /\ Goto("irq", "irecv")
  /\ UNCHANGED <<store, irqOn, endpoint, loc, radio, history>>

Irecv(c) ==
  /\ At(c, "irecv") /\ fifo # << >>
  /\ loc' = [loc EXCEPT ![c].pkt = Head(fifo)]
  /\ fifo' = Tail(fifo)
  /\ Goto(c, "collect")
  /\ UNCHANGED <<store, irqOn, endpoint, arrived, dups, era, history>>

IrecvNothing(c) ==
  /\ At(c, "irecv") /\ fifo = << >>
  /\ Goto(c, IF c = "main" THEN "wait" ELSE "idle")
  /\ UNCHANGED <<store, irqOn, endpoint, loc, radio, history>>

-----------------------------------------------------------------------------
(* _ingest_rx_packet.                                                      *)

\* _expire_fragment_buffers collects the stale keys ...
ExpireCollect(c) ==
  /\ At(c, "collect")
  /\ loc' = [loc EXCEPT ![c].stale = StaleKeys]
  /\ Goto(c, IF StaleKeys = {} THEN "lookup" ELSE "purge")
  /\ UNCHANGED <<store, irqOn, endpoint, radio, history>>

\* ... and deletes them one by one, which raises when the other context was
\* faster; keys before the missing one are deleted.
ExpirePurge(c) ==
  /\ At(c, "purge")
  /\ \E del \in SUBSET {k \in loc[c].stale : buffers[k] # NoSlot} :
       LET left == [k \in Keys |-> IF k \in del THEN NoSlot ELSE buffers[k]]
       IN /\ gone' = gone \cup UNION {heap[buffers[k]].parts : k \in del}
          /\ IF del = loc[c].stale
               THEN /\ Goto(c, "lookup")
                    /\ loc' = [loc EXCEPT ![c].stale = {}]
                    /\ buffers' = left
                    /\ heap' = Reachable(heap, left, loc)
                    /\ UNCHANGED <<rxQueue, delivered, twice>>
               ELSE /\ \E k \in loc[c].stale : buffers[k] = NoSlot
                    /\ Raise(c, left)
  /\ UNCHANGED <<irqOn, endpoint, radio>>

\* _parse_fragment: not a fragment, or one to reject.
TakeRaw(c) ==
  /\ At(c, "lookup") /\ IsRaw(loc[c].pkt)
  /\ Something(c, buffers, {loc[c].pkt})
  /\ UNCHANGED <<irqOn, endpoint, radio>>

Reject(c) ==
  /\ At(c, "lookup") /\ ~IsRaw(loc[c].pkt) /\ IsMalformed(loc[c].pkt)
  /\ Nothing(c, buffers)
  /\ gone' = gone \cup {loc[c].pkt}
  /\ UNCHANGED <<irqOn, endpoint, radio>>

\* Mutant: every fragment begins a new buffer.
LookupNever(c) ==
  /\ At(c, "lookup") /\ ~IsRaw(loc[c].pkt) /\ ~IsMalformed(loc[c].pkt)
  /\ Goto(c, "create")
  /\ UNCHANGED <<store, irqOn, endpoint, loc, radio, history>>

\* A fragment: look for its buffer, which must expect as many parts.
Lookup(c) ==
  LET p == loc[c].pkt
      slot == buffers[Key(p)]
  IN /\ At(c, "lookup") /\ ~IsRaw(p) /\ ~IsMalformed(p)
     /\ IF slot = NoSlot \/ heap[slot].total # p.msg.total
          THEN Goto(c, "create") /\ UNCHANGED loc
          ELSE Goto(c, "store") /\ loc' = [loc EXCEPT ![c].slot = slot]
     /\ UNCHANGED <<store, irqOn, endpoint, radio, history>>

\* A new buffer takes the key's place, whatever stands there by now.
Create(c) ==
  /\ At(c, "create")
  /\ LET p == loc[c].pkt
         old == buffers[Key(p)]
         s == CHOOSE t \in FreeSlots : TRUE
     IN /\ FreeSlots # {}
        /\ buffers' = [buffers EXCEPT ![Key(p)] = s]
        /\ loc' = [loc EXCEPT ![c].slot = s]
        /\ heap' = Reachable([heap EXCEPT ![s] = NewBuffer(p.msg.total)], buffers', loc')
        /\ gone' = IF old # NoSlot /\ heap[old].total # p.msg.total
                     THEN gone \cup heap[old].parts ELSE gone
  /\ Goto(c, "store")
  /\ UNCHANGED <<rxQueue, irqOn, endpoint, radio, delivered, twice>>

Store(c) ==
  /\ At(c, "store")
  /\ LET p == loc[c].pkt
         old == heap[loc[c].slot].parts
     IN /\ heap' = [heap EXCEPT ![loc[c].slot].parts = PutPart(old, p),
                                ![loc[c].slot].age = 0]
        /\ gone' = gone \cup (old \ PutPart(old, p))
  /\ Goto(c, "test")
  /\ UNCHANGED <<rxQueue, buffers, irqOn, endpoint, loc, radio, delivered, twice>>

Incomplete(c) ==
  /\ At(c, "test")
  /\ Cardinality(heap[loc[c].slot].parts) < heap[loc[c].slot].total
  /\ Nothing(c, buffers)
  /\ UNCHANGED <<irqOn, endpoint, radio, gone>>

Complete(c) ==
  /\ At(c, "test")
  /\ Cardinality(heap[loc[c].slot].parts) >= heap[loc[c].slot].total
  /\ Goto(c, "finish")
  /\ UNCHANGED <<store, irqOn, endpoint, loc, radio, history>>

\* A part is missing although the count is right: the log line and None.
PartMissing(c) ==
  \E i \in 0 .. loc[c].pkt.msg.total - 1 :
    \A q \in heap[loc[c].slot].parts : q.index # i

\* Mutant: a key that is already gone is tolerated.
AssembleTolerant(c) ==
  /\ At(c, "finish")
  /\ Something(c, [buffers EXCEPT ![Key(loc[c].pkt)] = NoSlot], heap[loc[c].slot].parts)
  /\ UNCHANGED <<irqOn, endpoint, radio>>

\* Put the parts together and delete the key, which raises when it is gone.
Assemble(c) ==
  /\ At(c, "finish")
  /\ LET key == Key(loc[c].pkt)
         left == [buffers EXCEPT ![key] = NoSlot]
     IN IF PartMissing(c)
          THEN Nothing(c, buffers) /\ UNCHANGED gone
          ELSE IF buffers[key] = NoSlot
            THEN Raise(c, buffers) /\ UNCHANGED gone
            ELSE Something(c, left, heap[loc[c].slot].parts)
  /\ UNCHANGED <<irqOn, endpoint, radio>>

-----------------------------------------------------------------------------
(* The environment.                                                        *)

Arrive ==
  /\ Len(fifo) < FifoMax
  /\ \E p \in Packet :
       /\ p.msg.era = era[p.msg.src]
       /\ fifo' = Append(fifo, p)
       /\ \/ p \notin arrived /\ arrived' = arrived \cup {p} /\ UNCHANGED dups
          \/ p \in arrived /\ dups < MaxDups /\ dups' = dups + 1 /\ UNCHANGED arrived
  /\ UNCHANGED <<store, irqOn, endpoint, pc, loc, era, history>>

\* A peer restarts: what it had not sent is lost, its message ids begin again.
PeerRestarts ==
  /\ \E s \in Srcs :
       /\ \E m \in Msgs : m.src = s /\ m.era > era[s]
       /\ era' = [era EXCEPT ![s] = @ + 1]
  /\ UNCHANGED <<store, irqOn, endpoint, pc, loc, fifo, arrived, dups, history>>

\* A clock step: handling a packet takes a small fraction of one.
Tick ==
  /\ pc["main"] \in {"wait", "dead"} /\ pc["irq"] = "idle"
  /\ \E k \in Keys : buffers[k] # NoSlot /\ heap[buffers[k]].age < MaxAge
  /\ heap' = [s \in Slots |->
       IF heap[s] # NoBuffer /\ heap[s].age < MaxAge
         THEN [heap[s] EXCEPT !.age = @ + 1] ELSE heap[s]]
  /\ UNCHANGED <<rxQueue, buffers, irqOn, endpoint, pc, loc, radio, history>>

-----------------------------------------------------------------------------
Ingest(c) ==
  \/ ExpireCollect(c) \/ ExpirePurge(c) \/ TakeRaw(c) \/ Reject(c) \/ Lookup(c)
  \/ Create(c) \/ Store(c) \/ Incomplete(c) \/ Complete(c) \/ Assemble(c)

MainStep ==
  \/ WaitOver \/ RecvQueued \/ RecvFallback
  \/ Irecv("main") \/ IrecvNothing("main") \/ Ingest("main")

IrqStep == Irecv("irq") \/ IrecvNothing("irq") \/ Ingest("irq")

Next == MainStep \/ PumpRaises \/ IrqEnter \/ IrqStep \/ Arrive \/ PeerRestarts \/ Tick

Spec == Init /\ [][Next]_vars

\* The run loop runs as long as no exception has ended it: its wait is bounded by
\* poll_ms.  A callback that has begun ends.  That one begins is not assumed.
FairSpec == Spec /\ WF_vars(MainStep) /\ WF_vars(IrqStep)

-----------------------------------------------------------------------------
(* Properties.                                                             *)

\* Every variable keeps to its type, whichever context runs: the receive queue
\* to its limit, every reference to an existing buffer (recv_raw,
\* _drain_incoming, _ingest_rx_packet).
TypeOK ==
  /\ rxQueue \in Seq(Payload) /\ Len(rxQueue) <= RxMax
  /\ buffers \in [Keys -> Slots \cup {NoSlot}]
  /\ heap \in [Slots -> [total : Nat, parts : Payload, age : Nat]]
  /\ irqOn \in BOOLEAN /\ endpoint \in BOOLEAN
  /\ pc \in [Ctx -> Labels]
  /\ loc \in [Ctx -> [pkt : Packet \cup {NoPacket}, stale : SUBSET Keys,
                      slot : Slots \cup {NoSlot}]]
  /\ fifo \in Seq(Packet) /\ arrived \subseteq Packet /\ dups \in Nat
  /\ era \in [Srcs -> Nat]
  /\ delivered \subseteq Payload /\ twice \in BOOLEAN /\ gone \subseteq Packet

\* A buffer that counts as full has every part: the branch of _ingest_rx_packet
\* that logs a missing index cannot be reached, not even when the callback
\* changes the buffer between the count and the assembly.
FullMeansWhole == \A c \in Ctx : pc[c] = "finish" => ~PartMissing(c)

\* Every payload the application can get is whole, its parts carry one sender,
\* message id and count, and unless the sender restarted in between and counted
\* its ids from 1 again they are parts of one message (_ingest_rx_packet in both
\* contexts, with repeated, lost and reordered fragments).
SoundPayload(d) ==
  d # {} /\ \A p \in d :
    /\ {q.index : q \in d} = 0 .. p.msg.total - 1
    /\ \A q \in d : /\ q.msg.src = p.msg.src /\ q.msg.id = p.msg.id
                     /\ q.msg.total = p.msg.total
                     /\ (q.index = p.index => q = p)
                     /\ (q.msg.era = p.msg.era => q.msg = p.msg)
PayloadsSound ==
  /\ \A d \in delivered : SoundPayload(d)
  /\ \A i \in 1 .. Len(rxQueue) : SoundPayload(rxQueue[i])

\* A part only ever joins a buffer that was used within the timeout, or so long
\* ago that the tick counter has wrapped half way round and the age looks
\* negative (_expire_fragment_buffers, _ticks_diff).
JoinsFreshBuffer ==
  \A c \in Ctx : pc[c] = "store" =>
    LET age == heap[loc[c].slot].age
    IN age <= Timeout \/ age >= TicksPeriod \div 2

\* Unless the radio repeats a packet or a peer restarts, no payload reaches the
\* application twice, even when both contexts find the same buffer full: the
\* slower one fails to delete the key (_ingest_rx_packet).
AtMostOnce == twice => dups > 0 \/ \E s \in Srcs : era[s] > 0

\* While the run loop is the only one to receive, no packet vanishes: what
\* arrived waits in the driver, is being handled, is kept in a buffer, was
\* handed over, or was discarded for one of the code's reasons.
NoPacketVanishes ==
  ~irqOn =>
    arrived \subseteq {fifo[i] : i \in 1 .. Len(fifo)} \cup {loc["main"].pkt}
      \cup (UNION {heap[s].parts : s \in Slots}) \cup (UNION delivered) \cup gone

\* While the run loop is the only one to receive, no exception of the reassembly
\* ends it, with or without an endpoint: the keys it deletes are still there (run).
\* On such ports ReceiverCatchesUp depends on it.
RunLoopSurvives == ~irqOn => pc["main"] # "dead"

\* The run loop keeps up although no wait of it relies on the callback: again
\* and again the driver's FIFO and the queue are both empty (run, _wait_for_rx:
\* "timed-out waits allow recv polling").  Only on a port that does deliver the
\* callback can an exception end the loop before.
ReceiverCatchesUp ==
  []<>(\/ fifo = << >> /\ rxQueue = << >>
       \/ irqOn /\ pc["main"] = "dead")
=============================================================================
