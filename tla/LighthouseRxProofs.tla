------------------------- MODULE LighthouseRxProofs -------------------------
(***************************************************************************)
(* Proofs about LighthouseRx, for every set of messages, queue limit,      *)
(* timeout and number of buffer objects, with and without the callback.    *)
(***************************************************************************)
EXTENDS LighthouseRx, FiniteSetTheorems, TLAPS

\* Labels at which a context holds a reference to a buffer, and at which it
\* handles a packet.
Busy == {"store", "test", "finish"}
Handling == {"collect", "purge", "lookup", "create"} \cup Busy

Buffer == [total : Nat, parts : Payload, age : Nat]
Local == [pkt : Packet \cup {NoPacket}, stale : SUBSET Keys, slot : Slots \cup {NoSlot}]

\* What the program counter of a context says about its locals.
LocalsOK ==
  \A c \in Ctx :
    /\ pc[c] \in Handling => loc[c].pkt \in Packet
    /\ pc[c] \in Busy \cup {"create"} =>
         ~IsRaw(loc[c].pkt) /\ ~IsMalformed(loc[c].pkt)
    /\ pc[c] \in Busy <=> loc[c].slot # NoSlot

TypeInv == TypeOK /\ LocalsOK

LEMMA PacketType ==
  ASSUME NEW p \in Packet
  PROVE  /\ p.msg \in Msgs /\ p.index \in Nat
         /\ Key(p) \in Keys /\ p.msg.total \in Nat /\ p.msg.era \in Nat
         /\ p.msg.src \in Srcs
BY RxAssumption DEF Packet, Key, Keys, Srcs


LEMMA InitType == Init => TypeInv
<1> SUFFICES ASSUME Init PROVE TypeInv
  OBVIOUS
<1> USE DEF Init
<1>1. rxQueue \in Seq(Payload) /\ Len(rxQueue) <= RxMax
  BY RxAssumption
<1>2. buffers \in [Keys -> Slots \cup {NoSlot}]
  OBVIOUS
<1>3. heap \in [Slots -> [total : Nat, parts : Payload, age : Nat]]
  BY DEF NoBuffer, NewBuffer, Payload
<1>4. irqOn \in BOOLEAN /\ endpoint \in BOOLEAN
  BY RxAssumption
<1>5. pc \in [Ctx -> Labels]
  BY DEF Ctx, Labels
<1>6. loc \in [Ctx -> Local]
  BY DEF Local, NoLocals
<1>7. fifo \in Seq(Packet) /\ arrived \subseteq Packet /\ dups \in Nat
  OBVIOUS
<1>8. era \in [Srcs -> Nat]
  OBVIOUS
<1>9. delivered \subseteq Payload /\ twice \in BOOLEAN /\ gone \subseteq Packet
  OBVIOUS
<1>10. LocalsOK
  BY DEF LocalsOK, NoLocals, Busy, Handling, Ctx
<1> QED
  BY <1>1, <1>2, <1>3, <1>4, <1>5, <1>6, <1>7, <1>8, <1>9, <1>10 DEF TypeInv, TypeOK, Local

Buffers == [Keys -> Slots \cup {NoSlot}]
Heap == [Slots -> Buffer]

LEMMA ReachableType ==
  ASSUME NEW h \in Heap, NEW b, NEW l
  PROVE  Reachable(h, b, l) \in Heap
BY DEF Reachable, Heap, Buffer, NoBuffer, NewBuffer, Payload

LEMMA EndPacketType ==
  ASSUME TypeInv, NEW c \in Ctx, NEW b \in Buffers, NEW l \in Labels \ (Handling \cup {"create"}),
         EndPacket(c, b, l)
  PROVE  /\ buffers' \in Buffers /\ heap' \in Heap
         /\ pc' \in [Ctx -> Labels] /\ loc' \in [Ctx -> Local]
         /\ LocalsOK'
<1>1. heap \in Heap
  BY DEF TypeInv, TypeOK, Heap, Buffer
<1>2. heap' \in Heap
  BY <1>1, ReachableType DEF EndPacket
<1>3. /\ buffers' \in Buffers /\ pc' \in [Ctx -> Labels] /\ loc' \in [Ctx -> Local]
  BY DEF EndPacket, Goto, TypeInv, TypeOK, Local, NoLocals
<1>4. \A d \in Ctx : /\ d = c => pc'[d] = l /\ loc'[d] = NoLocals
                     /\ d # c => pc'[d] = pc[d] /\ loc'[d] = loc[d]
  BY DEF EndPacket, Goto, TypeInv, TypeOK
<1>5. LocalsOK'
  BY <1>4 DEF LocalsOK, TypeInv, Handling, Busy, NoLocals, IsRaw, IsMalformed
<1> QED
  BY <1>2, <1>3, <1>5

\* The queue and the history, as far as handling a packet touches them.
QueueOK ==
  /\ rxQueue \in Seq(Payload) /\ Len(rxQueue) <= RxMax
  /\ delivered \subseteq Payload /\ twice \in BOOLEAN /\ gone \subseteq Packet

LEMMA NothingType ==
  ASSUME TypeInv, NEW c \in Ctx, NEW b \in Buffers, Nothing(c, b), gone' \subseteq Packet
  PROVE  /\ buffers' \in Buffers /\ heap' \in Heap
         /\ pc' \in [Ctx -> Labels] /\ loc' \in [Ctx -> Local]
         /\ LocalsOK' /\ QueueOK'
<1>1. QueueOK'
  BY DEF Nothing, QueueOK, TypeInv, TypeOK
<1> DEFINE l == IF c = "main" THEN "wait" ELSE "irecv"
<1>2. l \in Labels \ (Handling \cup {"create"})
  BY DEF Labels, Handling, Busy
<1>3. EndPacket(c, b, l)
  BY DEF Nothing
<1> QED
  BY <1>1, <1>2, <1>3, EndPacketType

LEMMA RaiseType ==
  ASSUME TypeInv, NEW c \in Ctx, NEW b \in Buffers, Raise(c, b), gone' \subseteq Packet
  PROVE  /\ buffers' \in Buffers /\ heap' \in Heap
         /\ pc' \in [Ctx -> Labels] /\ loc' \in [Ctx -> Local]
         /\ LocalsOK' /\ QueueOK'
<1>1. QueueOK'
  BY DEF Raise, QueueOK, TypeInv, TypeOK
<1> DEFINE l == IF c = "main" THEN AfterException ELSE "idle"
<1>2. l \in Labels \ (Handling \cup {"create"})
  BY DEF Labels, Handling, Busy, AfterException
<1>3. EndPacket(c, b, l)
  BY DEF Raise
<1> QED
  BY <1>1, <1>2, <1>3, EndPacketType

LEMMA EnqueueType ==
  ASSUME TypeInv, NEW item \in Payload, Enqueue(item), UNCHANGED <<delivered, twice>>
  PROVE  QueueOK'
<1>1. rxQueue \in Seq(Payload) /\ Len(rxQueue) \in Nat /\ Len(rxQueue) <= RxMax
      /\ gone \subseteq Packet /\ RxMax \in Nat \ {0}
  BY RxAssumption DEF TypeInv, TypeOK
<1>2. delivered' \subseteq Payload /\ twice' \in BOOLEAN
  BY DEF TypeInv, TypeOK
<1>3. CASE Len(rxQueue) >= RxMax
  <2>1. rxQueue # << >>
    BY <1>1, <1>3
  <2>2. Head(rxQueue) \in Payload /\ Tail(rxQueue) \in Seq(Payload)
        /\ Len(Tail(rxQueue)) = Len(rxQueue) - 1
    BY <1>1, <2>1
  <2>3. rxQueue' = Append(Tail(rxQueue), item) /\ gone' = gone \cup Head(rxQueue)
    BY <1>3 DEF Enqueue
  <2>4. rxQueue' \in Seq(Payload) /\ Len(rxQueue') = Len(Tail(rxQueue)) + 1
    BY <2>2, <2>3
  <2>5. gone' \subseteq Packet
    BY <1>1, <2>2, <2>3 DEF Payload
  <2> QED
    BY <1>1, <1>2, <2>2, <2>4, <2>5 DEF QueueOK
<1>4. CASE ~(Len(rxQueue) >= RxMax)
  <2>1. rxQueue' = Append(rxQueue, item) /\ gone' = gone
    BY <1>4 DEF Enqueue
  <2>2. rxQueue' \in Seq(Payload) /\ Len(rxQueue') = Len(rxQueue) + 1
    BY <1>1, <2>1
  <2> QED
    BY <1>1, <1>2, <1>4, <2>1, <2>2 DEF QueueOK
<1> QED
  BY <1>3, <1>4

LEMMA HandOverType ==
  ASSUME TypeInv, NEW item \in Payload, HandOver(item)
  PROVE  delivered' \subseteq Payload /\ twice' \in BOOLEAN
<1>1. delivered' \subseteq Payload
  BY DEF HandOver, TypeInv, TypeOK
<1>2. twice' \in BOOLEAN
  BY Zenon DEF HandOver, TypeInv, TypeOK
<1> QED
  BY <1>1, <1>2

LEMMA SomethingType ==
  ASSUME TypeInv, NEW c \in Ctx, NEW b \in Buffers, NEW item \in Payload, Something(c, b, item)
  PROVE  /\ buffers' \in Buffers /\ heap' \in Heap
         /\ pc' \in [Ctx -> Labels] /\ loc' \in [Ctx -> Local]
         /\ LocalsOK' /\ QueueOK'
<1>1. CASE /\ c = "main" /\ \E l \in AfterPayload : EndPacket(c, b, l)
           /\ HandOver(item) /\ UNCHANGED <<rxQueue, gone>>
  <2>1. QueueOK'
    BY <1>1, HandOverType DEF QueueOK, TypeInv, TypeOK
  <2>2. PICK l \in AfterPayload : EndPacket(c, b, l)
    BY <1>1
  <2>3. l \in Labels \ (Handling \cup {"create"})
    BY DEF AfterPayload, Labels, Handling, Busy
  <2> QED
    BY <2>1, <2>2, <2>3, EndPacketType
<1>2. CASE c = "irq" /\ EndPacket(c, b, "irecv") /\ Enqueue(item) /\ UNCHANGED <<delivered, twice>>
  <2>1. QueueOK'
    BY <1>2, EnqueueType
  <2>2. "irecv" \in Labels \ (Handling \cup {"create"})
    BY DEF Labels, Handling, Busy
  <2> QED
    BY <1>2, <2>1, <2>2, EndPacketType
<1> QED
  BY <1>1, <1>2 DEF Something

RadioOK ==
  /\ fifo \in Seq(Packet) /\ arrived \subseteq Packet /\ dups \in Nat
  /\ era \in [Srcs -> Nat]

\* The type invariant, taken apart.
LEMMA TypeParts ==
  TypeInv <=> /\ buffers \in Buffers /\ heap \in Heap
              /\ irqOn \in BOOLEAN /\ endpoint \in BOOLEAN
              /\ pc \in [Ctx -> Labels] /\ loc \in [Ctx -> Local]
              /\ QueueOK /\ RadioOK /\ LocalsOK
BY DEF TypeInv, TypeOK, Buffers, Heap, Buffer, Local, QueueOK, RadioOK

LEMMA NextTypeParts ==
  ASSUME buffers' \in Buffers, heap' \in Heap, irqOn' \in BOOLEAN, endpoint' \in BOOLEAN,
         pc' \in [Ctx -> Labels], loc' \in [Ctx -> Local], QueueOK', RadioOK', LocalsOK'
  PROVE  TypeInv'
BY DEF TypeInv, TypeOK, Buffers, Heap, Buffer, Local, QueueOK, RadioOK

\* A step of a context that only moves on, to a label that asks no more of its
\* locals than the one it leaves.
LEMMA GotoType ==
  ASSUME TypeInv, NEW c \in Ctx, NEW l \in Labels, Goto(c, l), loc' = loc,
         \/ l \notin Handling /\ pc[c] \notin Busy
         \/ pc[c] \in Handling \ (Busy \cup {"create"}) /\ l \in Handling \ (Busy \cup {"create"})
         \/ pc[c] \in Busy /\ l \in Busy
  PROVE  pc' \in [Ctx -> Labels] /\ LocalsOK'
<1>1. pc' \in [Ctx -> Labels]
  BY TypeParts DEF Goto
<1>2. \A d \in Ctx : (d = c => pc'[d] = l) /\ (d # c => pc'[d] = pc[d])
  BY TypeParts DEF Goto
<1>3. LocalsOK'
  BY <1>2 DEF LocalsOK, TypeInv, Handling, Busy, IsRaw, IsMalformed
<1> QED
  BY <1>1, <1>3

\* After a queued payload the loop takes the next or waits.
LEMMA RecvQueuedMoves ==
  ASSUME TypeInv, RecvQueued
  PROVE  /\ pc["main"] = "take" /\ pc'["main"] \in {"take", "wait"} /\ pc' \in [Ctx -> Labels]
         /\ \A c \in Ctx : c # "main" => pc'[c] = pc[c]
<1>1. PICK l \in {"take", "wait"} : Goto("main", l)
  BY DEF RecvQueued, AfterPayload
<1>2. pc["main"] = "take" /\ "main" \in Ctx /\ l \in Labels
  BY DEF RecvQueued, At, Ctx, Labels
<1> QED
  BY <1>1, <1>2, TypeParts DEF Goto

LEMMA MainLoopType ==
  ASSUME TypeInv, WaitOver \/ PumpRaises \/ RecvQueued \/ RecvFallback \/ IrqEnter
  PROVE  TypeInv'
<1>0. "main" \in Ctx /\ "irq" \in Ctx
  BY DEF Ctx
<1>1. CASE WaitOver
  <2>1. pc["main"] = "wait" /\ Goto("main", "take") /\ loc' = loc
    BY <1>1 DEF WaitOver, At
  <2>2. pc' \in [Ctx -> Labels] /\ LocalsOK'
    BY <1>0, <2>1, GotoType DEF Labels, Handling, Busy
  <2> QED
    BY NextTypeParts, <1>1, <2>2, TypeParts
       DEF WaitOver, store, radio, history, QueueOK, RadioOK
<1>2. CASE RecvQueued
  <2>1. rxQueue \in Seq(Payload) /\ rxQueue # << >> /\ Len(rxQueue) <= RxMax /\ gone \subseteq Packet
    BY <1>2 DEF RecvQueued, TypeInv, TypeOK
  <2>2. Head(rxQueue) \in Payload /\ Tail(rxQueue) \in Seq(Payload)
        /\ Len(Tail(rxQueue)) = Len(rxQueue) - 1
    BY <2>1
  <2>3. delivered' \subseteq Payload /\ twice' \in BOOLEAN
    BY <1>2, <2>2, HandOverType DEF RecvQueued
  <2>4. Len(rxQueue) \in Nat /\ RxMax \in Nat
    BY <2>1, RxAssumption
  <2>5. QueueOK'
    BY <1>2, <2>1, <2>2, <2>3, <2>4 DEF RecvQueued, QueueOK
  <2>6. pc' \in [Ctx -> Labels] /\ LocalsOK'
    <3>1. \A c \in Ctx : pc'[c] # pc[c] => pc[c] \notin Handling /\ pc'[c] \notin Handling
      BY <1>2, RecvQueuedMoves DEF Handling, Busy
    <3>2. loc' = loc /\ Busy \cup {"create"} \subseteq Handling
      BY <1>2 DEF RecvQueued, Handling
    <3>3. LocalsOK'
      BY <3>1, <3>2 DEF TypeInv, LocalsOK, IsRaw, IsMalformed
    <3> QED
      BY <1>2, <3>3, RecvQueuedMoves
  <2> QED
    BY NextTypeParts, <1>2, <2>5, <2>6, TypeParts DEF RecvQueued, radio, RadioOK
<1>3. CASE RecvFallback
  <2>1. pc["main"] = "take" /\ Goto("main", "irecv") /\ loc' = loc
    BY <1>3 DEF RecvFallback, At
  <2>2. pc' \in [Ctx -> Labels] /\ LocalsOK'
    BY <1>0, <2>1, GotoType DEF Labels, Handling, Busy
  <2> QED
    BY NextTypeParts, <1>3, <2>2, TypeParts
       DEF RecvFallback, store, radio, history, QueueOK, RadioOK
<1>4. CASE IrqEnter
  <2>1. pc["irq"] = "idle" /\ Goto("irq", "irecv") /\ loc' = loc
    BY <1>4 DEF IrqEnter, At
  <2>2. pc' \in [Ctx -> Labels] /\ LocalsOK'
    BY <1>0, <2>1, GotoType DEF Labels, Handling, Busy
  <2> QED
    BY NextTypeParts, <1>4, <2>2, TypeParts
       DEF IrqEnter, store, radio, history, QueueOK, RadioOK
<1>5. CASE PumpRaises
  <2>1. pc["main"] = "wait" /\ Goto("main", "dead") /\ loc' = loc
    BY <1>5 DEF PumpRaises, At
  <2>2. pc' \in [Ctx -> Labels] /\ LocalsOK'
    BY <1>0, <2>1, GotoType DEF Labels, Handling, Busy
  <2> QED
    BY NextTypeParts, <1>5, <2>2, TypeParts
       DEF PumpRaises, store, radio, history, QueueOK, RadioOK
<1> QED
  BY <1>1, <1>2, <1>3, <1>4, <1>5

LEMMA IrecvType ==
  ASSUME TypeInv, NEW c \in Ctx, Irecv(c) \/ IrecvNothing(c)
  PROVE  TypeInv'
<1>1. CASE Irecv(c)
  <2>1. fifo \in Seq(Packet) /\ fifo # << >>
    BY <1>1 DEF Irecv, TypeInv, TypeOK
  <2>2. Head(fifo) \in Packet /\ Tail(fifo) \in Seq(Packet)
    BY <2>1
  <2>3. /\ pc[c] = "irecv" /\ pc' = [pc EXCEPT ![c] = "collect"]
        /\ loc' = [loc EXCEPT ![c].pkt = Head(fifo)]
    BY <1>1 DEF Irecv, At, Goto
  <2>4. pc' \in [Ctx -> Labels] /\ loc' \in [Ctx -> Local]
    BY <2>2, <2>3, TypeParts DEF Labels, Local
  <2>5. \A d \in Ctx : /\ d = c => /\ pc'[d] = "collect" /\ loc'[d].pkt = Head(fifo)
                                   /\ loc'[d].slot = loc[d].slot
                       /\ d # c => pc'[d] = pc[d] /\ loc'[d] = loc[d]
    BY <2>3, TypeParts DEF Local
  <2>6. LocalsOK'
    BY <2>2, <2>3, <2>5 DEF LocalsOK, TypeInv, Handling, Busy, IsRaw, IsMalformed
  <2>7. RadioOK'
    BY <1>1, <2>2, TypeParts DEF RadioOK, Irecv
  <2> QED
    BY NextTypeParts, <1>1, <2>4, <2>6, <2>7, TypeParts DEF Irecv, store, history, QueueOK
<1>2. CASE IrecvNothing(c)
  <2> DEFINE l == IF c = "main" THEN "wait" ELSE "idle"
  <2>1. pc[c] = "irecv" /\ Goto(c, l) /\ loc' = loc
    BY <1>2 DEF IrecvNothing, At
  <2>2. pc' \in [Ctx -> Labels] /\ LocalsOK'
    BY <2>1, GotoType DEF Labels, Handling, Busy
  <2> QED
    BY NextTypeParts, <1>2, <2>2, TypeParts DEF IrecvNothing, store, radio, history, QueueOK, RadioOK
<1> QED
  BY <1>1, <1>2

LEMMA ExpireType ==
  ASSUME TypeInv, NEW c \in Ctx, ExpireCollect(c) \/ ExpirePurge(c)
  PROVE  TypeInv'
<1>1. CASE ExpireCollect(c)
  <2> DEFINE l == IF StaleKeys = {} THEN "lookup" ELSE "purge"
  <2>1. /\ pc[c] = "collect" /\ pc' = [pc EXCEPT ![c] = l]
        /\ loc' = [loc EXCEPT ![c].stale = StaleKeys]
    BY <1>1 DEF ExpireCollect, At, Goto
  <2>2. StaleKeys \in SUBSET Keys
    BY DEF StaleKeys
  <2>3. pc' \in [Ctx -> Labels] /\ loc' \in [Ctx -> Local]
    BY <2>1, <2>2, TypeParts DEF Labels, Local
  <2>4. \A d \in Ctx : /\ d = c => /\ pc'[d] = l /\ loc'[d].pkt = loc[d].pkt
                                   /\ loc'[d].slot = loc[d].slot
                       /\ d # c => pc'[d] = pc[d] /\ loc'[d] = loc[d]
    BY <2>1, TypeParts DEF Local
  <2>5. LocalsOK'
    BY <2>1, <2>4 DEF LocalsOK, TypeInv, Handling, Busy, IsRaw, IsMalformed
  <2> QED
    BY NextTypeParts, <1>1, <2>3, <2>5, TypeParts
       DEF ExpireCollect, store, radio, history, QueueOK, RadioOK
<1>2. CASE ExpirePurge(c)
  <2>1. PICK del \in SUBSET {k \in loc[c].stale : buffers[k] # NoSlot} :
          LET left == [k \in Keys |-> IF k \in del THEN NoSlot ELSE buffers[k]]
          IN /\ gone' = gone \cup UNION {heap[buffers[k]].parts : k \in del}
             /\ IF del = loc[c].stale
                  THEN /\ Goto(c, "lookup")
                       /\ loc' = [loc EXCEPT ![c].stale = {}]
                       /\ buffers' = left
                       /\ heap' = Reachable(heap, left, loc)
                       /\ UNCHANGED <<rxQueue, delivered, twice>>
                  ELSE /\ \E k \in loc[c].stale : buffers[k] = NoSlot
                       /\ Raise(c, left)
    BY <1>2 DEF ExpirePurge
  <2> DEFINE left == [k \in Keys |-> IF k \in del THEN NoSlot ELSE buffers[k]]
  <2>2. left \in Buffers
    BY TypeParts DEF Buffers
  <2>3. del \subseteq Keys /\ \A k \in del : buffers[k] \in Slots
    BY <2>1, TypeParts DEF Buffers, Local
  <2>4. \A k \in del : heap[buffers[k]].parts \subseteq Packet
    BY <2>3, TypeParts DEF Heap, Buffer, Payload
  <2>5. gone' \subseteq Packet
    BY <2>1, <2>4, TypeParts DEF QueueOK
  <2>6. pc[c] = "purge" /\ irqOn' = irqOn /\ endpoint' = endpoint /\ RadioOK'
    BY <1>2, TypeParts DEF ExpirePurge, At, radio, RadioOK
  <2>7. CASE del = loc[c].stale
    <3>1. /\ pc' = [pc EXCEPT ![c] = "lookup"] /\ loc' = [loc EXCEPT ![c].stale = {}]
          /\ buffers' = left /\ heap' = Reachable(heap, left, loc)
          /\ UNCHANGED <<rxQueue, delivered, twice>>
      BY <2>1, <2>7 DEF Goto
    <3>2. heap' \in Heap /\ buffers' \in Buffers
      BY <3>1, <2>2, ReachableType, TypeParts
    <3>3. pc' \in [Ctx -> Labels] /\ loc' \in [Ctx -> Local]
      BY <3>1, TypeParts DEF Labels, Local
    <3>4. \A d \in Ctx : /\ d = c => /\ pc'[d] = "lookup" /\ loc'[d].pkt = loc[d].pkt
                                     /\ loc'[d].slot = loc[d].slot
                         /\ d # c => pc'[d] = pc[d] /\ loc'[d] = loc[d]
      BY <3>1, TypeParts DEF Local
    <3>5. LocalsOK'
      BY <2>6, <3>4 DEF LocalsOK, TypeInv, Handling, Busy, IsRaw, IsMalformed
    <3>6. QueueOK'
      BY <3>1, <2>5, TypeParts DEF QueueOK
    <3> QED
      BY <2>6, <3>2, <3>3, <3>5, <3>6, TypeParts, NextTypeParts
  <2>8. CASE del # loc[c].stale
    <3>1. Raise(c, left)
      BY <2>1, <2>8
    <3>2. /\ buffers' \in Buffers /\ heap' \in Heap
          /\ pc' \in [Ctx -> Labels] /\ loc' \in [Ctx -> Local]
          /\ LocalsOK' /\ QueueOK'
      BY <3>1, <2>2, <2>5, RaiseType
    <3> QED
      BY <2>6, <3>2, TypeParts, NextTypeParts
  <2> QED
    BY <2>7, <2>8
<1> QED
  BY <1>1, <1>2

LEMMA LookupType ==
  ASSUME TypeInv, NEW c \in Ctx, TakeRaw(c) \/ Reject(c) \/ Lookup(c)
  PROVE  TypeInv'
<1>0. pc[c] = "lookup" /\ loc[c].pkt \in Packet
  BY DEF TakeRaw, Reject, Lookup, At, TypeInv, LocalsOK, Handling
<1>1. buffers \in Buffers /\ gone \subseteq Packet
  BY TypeParts DEF QueueOK
<1>2. CASE TakeRaw(c)
  <2>1. {loc[c].pkt} \in Payload /\ Something(c, buffers, {loc[c].pkt})
    BY <1>0, <1>2 DEF Payload, TakeRaw
  <2> QED
    BY <1>1, <1>2, <2>1, SomethingType, TypeParts, NextTypeParts DEF TakeRaw, radio, RadioOK
<1>3. CASE Reject(c)
  <2>1. gone' \subseteq Packet /\ Nothing(c, buffers)
    BY <1>0, <1>1, <1>3 DEF Reject
  <2> QED
    BY <1>1, <1>3, <2>1, NothingType, TypeParts, NextTypeParts DEF Reject, radio, RadioOK
<1>4. CASE Lookup(c)
  <2> DEFINE p == loc[c].pkt
             slot == buffers[Key(p)]
  <2>1. Key(p) \in Keys /\ slot \in Slots \cup {NoSlot}
    BY <1>0, <1>1, PacketType DEF Buffers
  <2>2. ~IsRaw(p) /\ ~IsMalformed(p)
    BY <1>4 DEF Lookup
  <2>3. CASE slot = NoSlot \/ heap[slot].total # p.msg.total
    <3>1. pc' = [pc EXCEPT ![c] = "create"] /\ loc' = loc
      BY <1>4, <2>3 DEF Lookup, Goto
    <3>2. pc' \in [Ctx -> Labels]
      BY <3>1, TypeParts DEF Labels
    <3>3. LocalsOK'
      BY <1>0, <2>2, <3>1, TypeParts DEF LocalsOK, Handling, Busy, IsRaw, IsMalformed
    <3> QED
      BY <1>4, <3>1, <3>2, <3>3, TypeParts, NextTypeParts
         DEF Lookup, store, radio, history, QueueOK, RadioOK
  <2>4. CASE ~(slot = NoSlot \/ heap[slot].total # p.msg.total)
    <3>1. pc' = [pc EXCEPT ![c] = "store"] /\ loc' = [loc EXCEPT ![c].slot = slot]
      BY <1>4, <2>4 DEF Lookup, Goto
    <3>2. pc' \in [Ctx -> Labels] /\ loc' \in [Ctx -> Local]
      BY <2>1, <3>1, TypeParts DEF Labels, Local
    <3>3. \A d \in Ctx : /\ d = c => /\ pc'[d] = "store" /\ loc'[d].pkt = p
                                     /\ loc'[d].slot = slot
                         /\ d # c => pc'[d] = pc[d] /\ loc'[d] = loc[d]
      BY <3>1, TypeParts DEF Local
    <3>4. LocalsOK'
      BY <1>0, <2>2, <2>4, <3>3, TypeParts DEF LocalsOK, Handling, Busy, IsRaw, IsMalformed
    <3> QED
      BY <1>4, <3>2, <3>4, TypeParts, NextTypeParts
         DEF Lookup, store, radio, history, QueueOK, RadioOK
  <2> QED
    BY <2>3, <2>4
<1> QED
  BY <1>2, <1>3, <1>4

LEMMA FreeSlotType ==
  ASSUME TypeInv, FreeSlots # {}
  PROVE  LET s == CHOOSE t \in FreeSlots : TRUE
         IN /\ s \in Slots /\ s # NoSlot
            /\ \A k \in Keys : buffers[k] # s
            /\ \A c \in Ctx : loc[c].slot # s
<1>1. (CHOOSE t \in FreeSlots : TRUE) \in FreeSlots
  OBVIOUS
<1> QED
  BY <1>1, RxAssumption DEF FreeSlots

LEMMA CreateType ==
  ASSUME TypeInv, NEW c \in Ctx, Create(c)
  PROVE  TypeInv'
<1> DEFINE p == loc[c].pkt
           old == buffers[Key(p)]
           s == CHOOSE t \in FreeSlots : TRUE
<1>1. /\ pc[c] = "create" /\ pc' = [pc EXCEPT ![c] = "store"]
      /\ FreeSlots # {}
      /\ buffers' = [buffers EXCEPT ![Key(p)] = s]
      /\ loc' = [loc EXCEPT ![c].slot = s]
      /\ heap' = Reachable([heap EXCEPT ![s] = NewBuffer(p.msg.total)], buffers', loc')
      /\ gone' = IF old # NoSlot /\ heap[old].total # p.msg.total
                   THEN gone \cup heap[old].parts ELSE gone
      /\ UNCHANGED <<rxQueue, irqOn, endpoint, radio, delivered, twice>>
  BY DEF Create, At, Goto
<1>2. p \in Packet /\ ~IsRaw(p) /\ ~IsMalformed(p)
  BY <1>1 DEF TypeInv, LocalsOK, Handling
<1>3. Key(p) \in Keys /\ p.msg.total \in Nat
  BY <1>2, PacketType
<1>4. s \in Slots /\ s # NoSlot
  BY <1>1, FreeSlotType
<1>5. buffers' \in Buffers
  BY <1>1, <1>4, TypeParts DEF Buffers
<1>6. [heap EXCEPT ![s] = NewBuffer(p.msg.total)] \in Heap
  BY <1>3, <1>4, TypeParts DEF Heap, Buffer, NewBuffer, Payload
<1>7. heap' \in Heap
  BY <1>1, <1>6, ReachableType
<1>8. pc' \in [Ctx -> Labels] /\ loc' \in [Ctx -> Local]
  BY <1>1, <1>4, TypeParts DEF Labels, Local
<1>9. \A d \in Ctx : /\ d = c => pc'[d] = "store" /\ loc'[d].pkt = p /\ loc'[d].slot = s
                     /\ d # c => pc'[d] = pc[d] /\ loc'[d] = loc[d]
  BY <1>1, TypeParts DEF Local
<1>10. LocalsOK'
  BY <1>2, <1>4, <1>9, TypeParts DEF LocalsOK, Handling, Busy, IsRaw, IsMalformed
<1>11. gone' \subseteq Packet
  <2>1. old # NoSlot => old \in Slots
    BY <1>3, TypeParts DEF Buffers
  <2>2. old # NoSlot => heap[old].parts \subseteq Packet
    BY <2>1, TypeParts DEF Heap, Buffer, Payload
  <2> QED
    BY <1>1, <2>2, TypeParts DEF QueueOK
<1> QED
  BY <1>1, <1>5, <1>7, <1>8, <1>10, <1>11, TypeParts, NextTypeParts
     DEF radio, QueueOK, RadioOK

LEMMA StoreType ==
  ASSUME TypeInv, NEW c \in Ctx, Store(c)
  PROVE  TypeInv'
<1> DEFINE p == loc[c].pkt
           slot == loc[c].slot
           old == heap[slot].parts
<1>1. /\ pc[c] = "store" /\ Goto(c, "test")
      /\ heap' = [heap EXCEPT ![slot].parts = PutPart(old, p), ![slot].age = 0]
      /\ gone' = gone \cup (old \ PutPart(old, p))
      /\ UNCHANGED <<rxQueue, buffers, irqOn, endpoint, loc, radio, delivered, twice>>
  BY DEF Store, At
<1>2. p \in Packet /\ slot \in Slots
  BY <1>1, TypeParts DEF LocalsOK, Handling, Busy, Local
<1>3. old \subseteq Packet
  BY <1>2, TypeParts DEF Heap, Buffer, Payload
<1>4. PutPart(old, p) \in Payload
  BY <1>2, <1>3 DEF PutPart, Payload
<1>5. heap' \in Heap
  BY <1>1, <1>4, TypeParts DEF Heap, Buffer
<1>6. gone' \subseteq Packet
  BY <1>1, <1>3, TypeParts DEF QueueOK
<1>7. pc' \in [Ctx -> Labels] /\ LocalsOK'
  BY <1>1, GotoType DEF Labels, Busy, Handling
<1> QED
  BY <1>1, <1>5, <1>6, <1>7, TypeParts, NextTypeParts DEF radio, QueueOK, RadioOK

LEMMA AssembleType ==
  ASSUME TypeInv, NEW c \in Ctx, Incomplete(c) \/ Complete(c) \/ Assemble(c)
  PROVE  TypeInv'
<1>1. buffers \in Buffers /\ gone \subseteq Packet
  BY TypeParts DEF QueueOK
<1>2. CASE Incomplete(c)
  <2>1. Nothing(c, buffers) /\ gone' \subseteq Packet
    BY <1>1, <1>2 DEF Incomplete
  <2> QED
    BY <1>1, <1>2, <2>1, NothingType, TypeParts, NextTypeParts DEF Incomplete, radio, RadioOK
<1>3. CASE Complete(c)
  <2>1. pc[c] = "test" /\ Goto(c, "finish") /\ loc' = loc
    BY <1>3 DEF Complete, At
  <2>2. pc' \in [Ctx -> Labels] /\ LocalsOK'
    BY <2>1, GotoType DEF Labels, Busy, Handling
  <2> QED
    BY <1>3, <2>2, TypeParts, NextTypeParts DEF Complete, store, radio, history, QueueOK, RadioOK
<1>4. CASE Assemble(c)
  <2> DEFINE key == Key(loc[c].pkt)
             left == [buffers EXCEPT ![key] = NoSlot]
             parts == heap[loc[c].slot].parts
  <2>1. pc[c] = "finish" /\ UNCHANGED <<irqOn, endpoint, radio>>
    BY <1>4 DEF Assemble, At
  <2>2. loc[c].slot \in Slots /\ left \in Buffers
    BY <2>1, TypeParts DEF LocalsOK, Busy, Local, Buffers
  <2>3. parts \in Payload
    BY <2>2, TypeParts DEF Heap, Buffer
  <2>4. CASE Nothing(c, buffers) /\ UNCHANGED gone
    BY <1>1, <2>1, <2>4, NothingType, TypeParts, NextTypeParts DEF radio, RadioOK
  <2>5. CASE Raise(c, buffers) /\ UNCHANGED gone
    BY <1>1, <2>1, <2>5, RaiseType, TypeParts, NextTypeParts DEF radio, RadioOK
  <2>6. CASE Something(c, left, parts)
    BY <2>1, <2>2, <2>3, <2>6, SomethingType, TypeParts, NextTypeParts DEF radio, RadioOK
  <2> QED
    BY <1>4, <2>4, <2>5, <2>6 DEF Assemble
<1> QED
  BY <1>2, <1>3, <1>4

LEMMA EnvironmentType ==
  ASSUME TypeInv, Arrive \/ PeerRestarts \/ Tick
  PROVE  TypeInv'
<1>1. CASE Arrive
  <2>1. PICK p \in Packet :
          /\ fifo' = Append(fifo, p)
          /\ \/ arrived' = arrived \cup {p} /\ UNCHANGED dups
             \/ dups' = dups + 1 /\ UNCHANGED arrived
    BY <1>1 DEF Arrive
  <2>2. RadioOK'
    BY <1>1, <2>1, TypeParts DEF Arrive, RadioOK
  <2> QED
    BY <1>1, <2>2, TypeParts, NextTypeParts DEF Arrive, store, history, QueueOK, LocalsOK, IsRaw, IsMalformed
<1>2. CASE PeerRestarts
  <2>1. RadioOK'
    BY <1>2, TypeParts DEF PeerRestarts, RadioOK
  <2> QED
    BY <1>2, <2>1, TypeParts, NextTypeParts
       DEF PeerRestarts, store, history, QueueOK, LocalsOK, IsRaw, IsMalformed
<1>3. CASE Tick
  <2>1. heap' \in Heap
    BY <1>3, TypeParts DEF Tick, Heap, Buffer
  <2> QED
    BY <1>3, <2>1, TypeParts, NextTypeParts
       DEF Tick, radio, history, QueueOK, RadioOK, LocalsOK, IsRaw, IsMalformed
<1> QED
  BY <1>1, <1>2, <1>3

LEMMA NextType == TypeInv /\ [Next]_vars => TypeInv'
<1> SUFFICES ASSUME TypeInv, [Next]_vars PROVE TypeInv'
  OBVIOUS
<1>0. "main" \in Ctx /\ "irq" \in Ctx
  BY DEF Ctx
<1>1. ASSUME NEW c \in Ctx, Ingest(c) PROVE TypeInv'
  BY <1>1, ExpireType, LookupType, CreateType, StoreType, AssembleType DEF Ingest
<1>2. CASE MainStep
  BY <1>0, <1>1, <1>2, MainLoopType, IrecvType DEF MainStep
<1>3. CASE PumpRaises \/ IrqEnter \/ IrqStep
  BY <1>0, <1>1, <1>3, MainLoopType, IrecvType DEF IrqStep
<1>4. CASE Arrive \/ PeerRestarts \/ Tick
  BY <1>4, EnvironmentType
<1>5. CASE UNCHANGED vars
  BY <1>5, TypeParts, NextTypeParts DEF vars, QueueOK, RadioOK, LocalsOK, IsRaw, IsMalformed
<1> QED
  BY <1>2, <1>3, <1>4, <1>5 DEF Next

\* Whatever peers send and however the callback interleaves, the receive side
\* keeps to its types and its queue to its limit (_drain_incoming).
THEOREM TypeCorrect == Spec => []TypeOK
<1>1. TypeInv => TypeOK
  BY DEF TypeInv
<1> QED
  BY <1>1, InitType, NextType, PTL DEF Spec

-----------------------------------------------------------------------------
(* The reassembly buffers.                                                 *)

\* In a buffer, parts fit its count, and no two have one index.
BuffersFit ==
  \A s \in Slots :
    /\ IsFiniteSet(heap[s].parts)
    /\ \A q \in heap[s].parts : q.index < heap[s].total /\ q.msg.total = heap[s].total
    /\ \A q, r \in heap[s].parts : q.index = r.index => q = r

\* A buffer has one key, whoever refers to it: the table and the contexts agree
\* on it, and its parts carry it.
KeyOfSlot(s, k) ==
  \/ buffers[k] = s
  \/ \E c \in Ctx : loc[c].slot = s /\ Key(loc[c].pkt) = k
OneKey ==
  \A s \in Slots : \A k \in Keys : KeyOfSlot(s, k) =>
    /\ \A l \in Keys : KeyOfSlot(s, l) => l = k
    /\ \A q \in heap[s].parts : Key(q) = k

\* The buffer a context refers to expects as many parts as the packet it holds.
CountsAgree ==
  \A c \in Ctx : pc[c] \in Busy => heap[loc[c].slot].total = loc[c].pkt.msg.total

BufferInv == BuffersFit /\ OneKey /\ CountsAgree /\ FullMeansWhole

\* A step that drops references, forgets unreachable buffers and lets a context
\* leave the code, but fills no buffer.
LEMMA DropsPreserve ==
  ASSUME TypeInv, TypeInv', BufferInv,
         \A k \in Keys : buffers'[k] \in {buffers[k], NoSlot},
         \A s \in Slots :
           \/ heap'[s] = NoBuffer
           \/ heap'[s].parts = heap[s].parts /\ heap'[s].total = heap[s].total,
         \A s \in Slots :
           (\E k \in Keys : buffers'[k] = s) \/ (\E c \in Ctx : loc'[c].slot = s)
             => heap'[s].parts = heap[s].parts /\ heap'[s].total = heap[s].total,
         \A c \in Ctx : pc'[c] \in Busy =>
           /\ pc[c] \in Busy /\ loc'[c].pkt = loc[c].pkt /\ loc'[c].slot = loc[c].slot
           /\ pc'[c] = "finish" => pc[c] = "finish"
  PROVE  BufferInv'
<1>0. \A c \in Ctx : /\ pc[c] \in Busy <=> loc[c].slot # NoSlot
                     /\ pc'[c] \in Busy <=> loc'[c].slot # NoSlot
                     /\ loc'[c].slot \in Slots \cup {NoSlot}
  BY TypeParts DEF TypeInv, TypeOK, LocalsOK
<1>1. BuffersFit'
  <2>1. NoBuffer.parts = {} /\ IsFiniteSet({})
    BY FS_EmptySet DEF NoBuffer, NewBuffer
  <2>2. ASSUME NEW s \in Slots
        PROVE  \/ heap'[s].parts = {}
               \/ heap'[s].parts = heap[s].parts /\ heap'[s].total = heap[s].total
    BY <2>1
  <2> QED
    BY <2>1, <2>2 DEF BufferInv, BuffersFit
<1>2. ASSUME NEW s \in Slots, NEW k \in Keys, KeyOfSlot(s, k)'
      PROVE  KeyOfSlot(s, k) /\ heap'[s].parts = heap[s].parts
  <2>1. CASE buffers'[k] = s
    BY <2>1, RxAssumption DEF KeyOfSlot
  <2>2. CASE \E c \in Ctx : loc'[c].slot = s /\ Key(loc'[c].pkt) = k
    BY <1>0, <2>2, RxAssumption DEF KeyOfSlot
  <2> QED
    BY <1>2, <2>1, <2>2 DEF KeyOfSlot, Key
<1>3. OneKey'
  BY <1>2 DEF BufferInv, OneKey, Key
<1>4. CountsAgree'
  BY <1>0 DEF BufferInv, CountsAgree
<1>5. FullMeansWhole'
  BY <1>0 DEF BufferInv, FullMeansWhole, PartMissing, Busy
<1> QED
  BY <1>1, <1>3, <1>4, <1>5 DEF BufferInv

LEMMA EndPacketPreserves ==
  ASSUME TypeInv, TypeInv', BufferInv, NEW c \in Ctx, NEW b \in Buffers, NEW l \in Labels \ Busy,
         \A k \in Keys : b[k] \in {buffers[k], NoSlot}, EndPacket(c, b, l)
  PROVE  BufferInv'
<1>1. \A d \in Ctx : /\ d = c => pc'[d] = l /\ loc'[d] = NoLocals
                     /\ d # c => pc'[d] = pc[d] /\ loc'[d] = loc[d]
  BY TypeParts DEF EndPacket, Goto
<1>2. \A s \in Slots : heap'[s] = heap[s] \/ heap'[s] = NoBuffer
  BY DEF EndPacket, Reachable
<1>3. \A s \in Slots :
        (\E k \in Keys : buffers'[k] = s) \/ (\E d \in Ctx : loc'[d].slot = s)
          => heap'[s] = heap[s]
  BY DEF EndPacket, Reachable
<1>4. buffers' = b
  BY DEF EndPacket
<1> QED
  BY <1>1, <1>2, <1>3, <1>4, DropsPreserve

LEMMA LeavingPreserves ==
  ASSUME TypeInv, TypeInv', BufferInv, NEW c \in Ctx, NEW b \in Buffers,
         \A k \in Keys : b[k] \in {buffers[k], NoSlot},
         Nothing(c, b) \/ Raise(c, b) \/ \E item \in Payload : Something(c, b, item)
  PROVE  BufferInv'
<1>1. PICK l \in {"wait", "irecv", "idle", "take", "dead"} : EndPacket(c, b, l)
  BY DEF Nothing, Raise, Something, AfterException, AfterPayload
<1>2. l \in Labels \ Busy
  BY DEF Labels, Busy
<1> QED
  BY <1>1, <1>2, EndPacketPreserves

\* A step after which every context is where it was, or at a label that refers to
\* no buffer, with the buffers as they were.
LEMMA QuietPreserves ==
  ASSUME TypeInv, TypeInv', BufferInv, UNCHANGED <<buffers, heap>>,
         \A c \in Ctx : pc'[c] \in Busy =>
           /\ pc[c] = pc'[c] /\ loc'[c].pkt = loc[c].pkt /\ loc'[c].slot = loc[c].slot
  PROVE  BufferInv'
BY DropsPreserve

LEMMA MainLoopPreserves ==
  ASSUME TypeInv, TypeInv', BufferInv,
         \/ WaitOver \/ PumpRaises \/ RecvQueued \/ RecvFallback \/ IrqEnter
         \/ \E c \in Ctx : Irecv(c) \/ IrecvNothing(c)
         \/ Arrive \/ PeerRestarts \/ UNCHANGED vars
  PROVE  BufferInv'
<1>0. pc \in [Ctx -> Labels] /\ loc \in [Ctx -> Local]
  BY TypeParts
<1>1. CASE WaitOver \/ PumpRaises \/ RecvFallback \/ IrqEnter
  BY <1>0, <1>1, QuietPreserves
     DEF WaitOver, PumpRaises, RecvFallback, IrqEnter, Goto, store, Busy
<1>2. CASE Arrive \/ PeerRestarts \/ UNCHANGED vars
  BY <1>2, QuietPreserves DEF Arrive, PeerRestarts, vars, store
<1>5. CASE RecvQueued
  BY <1>5, RecvQueuedMoves, QuietPreserves DEF RecvQueued, Busy
<1>3. ASSUME NEW c \in Ctx, Irecv(c) PROVE BufferInv'
  <2>1. \A d \in Ctx : /\ d = c => pc'[d] = "collect"
                       /\ d # c => pc'[d] = pc[d] /\ loc'[d] = loc[d]
    BY <1>0, <1>3 DEF Irecv, Goto
  <2> QED
    BY <1>3, <2>1, QuietPreserves DEF Irecv, Busy, store
<1>4. ASSUME NEW c \in Ctx, IrecvNothing(c) PROVE BufferInv'
  <2>1. \A d \in Ctx : /\ d = c => pc'[d] \in {"wait", "idle"}
                       /\ d # c => pc'[d] = pc[d]
    BY <1>0, <1>4 DEF IrecvNothing, Goto
  <2> QED
    BY <1>4, <2>1, QuietPreserves DEF IrecvNothing, Busy, store
<1> QED
  BY <1>1, <1>2, <1>3, <1>4, <1>5

LEMMA TickPreserves ==
  ASSUME TypeInv, TypeInv', BufferInv, Tick
  PROVE  BufferInv'
<1>1. \A s \in Slots : heap'[s].parts = heap[s].parts /\ heap'[s].total = heap[s].total
  BY TypeParts DEF Tick, Heap, Buffer
<1> QED
  BY <1>1, DropsPreserve DEF Tick

LEMMA ExpirePreserves ==
  ASSUME TypeInv, TypeInv', BufferInv, NEW c \in Ctx, ExpireCollect(c) \/ ExpirePurge(c)
  PROVE  BufferInv'
<1>0. pc \in [Ctx -> Labels] /\ loc \in [Ctx -> Local]
  BY TypeParts
<1>1. CASE ExpireCollect(c)
  <2>1. \A d \in Ctx : /\ d = c => pc'[d] \in {"lookup", "purge"}
                       /\ d # c => pc'[d] = pc[d] /\ loc'[d] = loc[d]
    BY <1>0, <1>1 DEF ExpireCollect, Goto
  <2> QED
    BY <1>1, <2>1, QuietPreserves DEF ExpireCollect, Busy, store
<1>2. CASE ExpirePurge(c)
  <2>1. PICK del \in SUBSET {k \in loc[c].stale : buffers[k] # NoSlot} :
          LET left == [k \in Keys |-> IF k \in del THEN NoSlot ELSE buffers[k]]
          IN IF del = loc[c].stale
               THEN /\ Goto(c, "lookup")
                    /\ loc' = [loc EXCEPT ![c].stale = {}]
                    /\ buffers' = left
                    /\ heap' = Reachable(heap, left, loc)
               ELSE Raise(c, left)
    BY <1>2 DEF ExpirePurge
  <2> DEFINE left == [k \in Keys |-> IF k \in del THEN NoSlot ELSE buffers[k]]
  <2>2. left \in Buffers /\ \A k \in Keys : left[k] \in {buffers[k], NoSlot}
    BY TypeParts DEF Buffers
  <2>3. CASE Raise(c, left)
    BY <2>2, <2>3, LeavingPreserves
  <2>4. CASE /\ Goto(c, "lookup") /\ loc' = [loc EXCEPT ![c].stale = {}]
             /\ buffers' = left /\ heap' = Reachable(heap, left, loc)
    <3>1. \A d \in Ctx : /\ d = c => pc'[d] = "lookup"
                         /\ d # c => pc'[d] = pc[d] /\ loc'[d] = loc[d]
                         /\ loc'[d].slot = loc[d].slot
      BY <1>0, <2>4 DEF Goto, Local
    <3>2. \A s \in Slots : heap'[s] = heap[s] \/ heap'[s] = NoBuffer
      BY <2>4 DEF Reachable
    <3>3. \A s \in Slots :
            (\E k \in Keys : buffers'[k] = s) \/ (\E d \in Ctx : loc'[d].slot = s)
              => heap'[s] = heap[s]
      BY <2>4, <3>1 DEF Reachable
    <3> QED
      BY <2>2, <2>4, <3>1, <3>2, <3>3, DropsPreserve DEF Busy
  <2> QED
    BY <2>1, <2>3, <2>4
<1> QED
  BY <1>1, <1>2

LEMMA LookupPreserves ==
  ASSUME TypeInv, TypeInv', BufferInv, NEW c \in Ctx, TakeRaw(c) \/ Reject(c) \/ Lookup(c)
  PROVE  BufferInv'
<1>0. pc \in [Ctx -> Labels] /\ loc \in [Ctx -> Local] /\ buffers \in Buffers
  BY TypeParts
<1>1. pc[c] = "lookup" /\ loc[c].pkt \in Packet
  BY DEF TakeRaw, Reject, Lookup, At, TypeInv, LocalsOK, Handling
<1>2. CASE TakeRaw(c)
  <2>1. {loc[c].pkt} \in Payload
    BY <1>1 DEF Payload
  <2> QED
    BY <1>0, <1>2, <2>1, LeavingPreserves DEF TakeRaw
<1>3. CASE Reject(c)
  BY <1>0, <1>3, LeavingPreserves DEF Reject
<1>4. CASE Lookup(c)
  <2> DEFINE p == loc[c].pkt
             slot == buffers[Key(p)]
  <2>1. Key(p) \in Keys
    BY <1>1, PacketType
  <2>2. UNCHANGED <<buffers, heap>>
    BY <1>4 DEF Lookup, store
  <2>3. CASE slot = NoSlot \/ heap[slot].total # p.msg.total
    <3>1. \A d \in Ctx : /\ d = c => pc'[d] = "create"
                         /\ d # c => pc'[d] = pc[d]
                         /\ loc' = loc
      BY <1>0, <1>4, <2>3 DEF Lookup, Goto
    <3> QED
      BY <2>2, <3>1, QuietPreserves DEF Busy
  <2>4. CASE slot # NoSlot /\ heap[slot].total = p.msg.total
    <3>1. \A d \in Ctx : /\ d = c => /\ pc'[d] = "store" /\ loc'[d].pkt = p
                                     /\ loc'[d].slot = slot
                         /\ d # c => pc'[d] = pc[d] /\ loc'[d] = loc[d]
      BY <1>0, <1>4, <2>4 DEF Lookup, Goto, Local
    <3>2. BuffersFit'
      BY <2>2 DEF BufferInv, BuffersFit
    <3>3. ASSUME NEW s \in Slots, NEW k \in Keys, KeyOfSlot(s, k)'
          PROVE  KeyOfSlot(s, k)
      <4>1. CASE buffers[k] = s
        BY <4>1 DEF KeyOfSlot
      <4>2. CASE loc'[c].slot = s /\ Key(loc'[c].pkt) = k
        BY <3>1, <4>2 DEF KeyOfSlot
      <4>3. CASE \E d \in Ctx \ {c} : loc'[d].slot = s /\ Key(loc'[d].pkt) = k
        BY <3>1, <4>3 DEF KeyOfSlot
      <4> QED
        BY <2>2, <3>3, <4>1, <4>2, <4>3 DEF KeyOfSlot, Key
    <3>4. OneKey'
      BY <2>2, <3>3 DEF BufferInv, OneKey, Key
    <3>5. CountsAgree'
      BY <2>2, <2>4, <3>1 DEF BufferInv, CountsAgree
    <3>6. FullMeansWhole'
      BY <2>2, <3>1 DEF BufferInv, FullMeansWhole, PartMissing
    <3> QED
      BY <3>2, <3>4, <3>5, <3>6 DEF BufferInv
  <2> QED
    BY <2>3, <2>4
<1> QED
  BY <1>2, <1>3, <1>4

LEMMA CreatePreserves ==
  ASSUME TypeInv, TypeInv', BufferInv, NEW c \in Ctx, Create(c)
  PROVE  BufferInv'
<1> DEFINE p == loc[c].pkt
           s == CHOOSE t \in FreeSlots : TRUE
           h == [heap EXCEPT ![s] = NewBuffer(p.msg.total)]
<1>0. pc \in [Ctx -> Labels] /\ loc \in [Ctx -> Local] /\ heap \in Heap /\ buffers \in Buffers
  BY TypeParts
<1>1. /\ pc[c] = "create" /\ pc' = [pc EXCEPT ![c] = "store"]
      /\ FreeSlots # {}
      /\ buffers' = [buffers EXCEPT ![Key(p)] = s]
      /\ loc' = [loc EXCEPT ![c].slot = s]
      /\ heap' = Reachable(h, buffers', loc')
  BY DEF Create, At, Goto
<1>2. p \in Packet /\ Key(p) \in Keys
  BY <1>1, PacketType DEF TypeInv, LocalsOK, Handling
<1>3. /\ s \in Slots /\ s # NoSlot
      /\ \A k \in Keys : buffers[k] # s
      /\ \A d \in Ctx : loc[d].slot # s
  BY <1>1, FreeSlotType
<1>4. \A d \in Ctx : /\ d = c => pc'[d] = "store" /\ loc'[d].pkt = p /\ loc'[d].slot = s
                     /\ d # c => pc'[d] = pc[d] /\ loc'[d] = loc[d]
  BY <1>0, <1>1 DEF Local
<1>5. /\ heap'[s].total = p.msg.total /\ heap'[s].parts = {}
  BY <1>0, <1>1, <1>2, <1>3 DEF Reachable, NewBuffer, Heap
<1>6. \A t \in Slots \ {s} : heap'[t] = heap[t] \/ heap'[t].parts = {}
  BY <1>0, <1>1, <1>3 DEF Reachable, NewBuffer, NoBuffer, Heap
<1>7. \A d \in Ctx : loc'[d].slot \in Slots => heap'[loc'[d].slot] = h[loc'[d].slot]
  BY <1>1 DEF Reachable
<1>8. BuffersFit'
  <2>1. IsFiniteSet({})
    BY FS_EmptySet
  <2> QED
    BY <1>3, <1>5, <1>6, <2>1 DEF BufferInv, BuffersFit
<1>9. OneKey'
  <2>1. ASSUME NEW t \in Slots, NEW k \in Keys, KeyOfSlot(t, k)'
        PROVE  IF t = s THEN k = Key(p) ELSE KeyOfSlot(t, k)
    <3>1. CASE buffers'[k] = t
      BY <1>0, <1>1, <1>3, <3>1 DEF KeyOfSlot, Buffers
    <3>2. CASE \E d \in Ctx : loc'[d].slot = t /\ Key(loc'[d].pkt) = k
      BY <1>3, <1>4, <3>2 DEF KeyOfSlot
    <3> QED
      BY <2>1, <3>1, <3>2 DEF KeyOfSlot, Key
  <2>2. ASSUME NEW t \in Slots, NEW k \in Keys, KeyOfSlot(t, k)'
        PROVE  /\ \A l \in Keys : KeyOfSlot(t, l)' => l = k
               /\ \A q \in heap'[t].parts : Key(q) = k
    <3>1. CASE t = s
      BY <1>5, <2>1, <2>2, <3>1
    <3>2. CASE t # s
      BY <1>6, <2>1, <2>2, <3>2 DEF BufferInv, OneKey
    <3> QED
      BY <3>1, <3>2
  <2> QED
    BY <2>2 DEF OneKey, Key
<1>10. \A d \in Ctx : d # c /\ pc[d] \in Busy =>
         heap'[loc'[d].slot] = heap[loc[d].slot]
  <2> SUFFICES ASSUME NEW d \in Ctx, d # c, pc[d] \in Busy
               PROVE  heap'[loc'[d].slot] = heap[loc[d].slot]
    OBVIOUS
  <2>1. loc'[d] = loc[d] /\ loc[d].slot \in Slots /\ loc[d].slot # s
    BY <1>0, <1>3, <1>4 DEF TypeInv, LocalsOK, Local
  <2>2. heap'[loc[d].slot] = h[loc[d].slot]
    BY <1>7, <2>1
  <2> QED
    BY <1>0, <1>3, <2>1, <2>2 DEF Heap
<1>11. CountsAgree'
  BY <1>4, <1>5, <1>10 DEF BufferInv, CountsAgree
<1>12. FullMeansWhole'
  BY <1>4, <1>10 DEF BufferInv, FullMeansWhole, PartMissing, Busy
<1> QED
  BY <1>8, <1>9, <1>11, <1>12 DEF BufferInv

LEMMA StorePreserves ==
  ASSUME TypeInv, TypeInv', BufferInv, NEW c \in Ctx, Store(c)
  PROVE  BufferInv'
<1> DEFINE p == loc[c].pkt
           s == loc[c].slot
           old == heap[s].parts
<1>0. pc \in [Ctx -> Labels] /\ loc \in [Ctx -> Local] /\ heap \in Heap /\ buffers \in Buffers
  BY TypeParts
<1>1. /\ pc[c] = "store" /\ pc' = [pc EXCEPT ![c] = "test"]
      /\ heap' = [heap EXCEPT ![s].parts = PutPart(old, p), ![s].age = 0]
      /\ UNCHANGED <<buffers, loc>>
  BY DEF Store, At, Goto
<1>2. p \in Packet /\ s \in Slots /\ p.index < p.msg.total /\ p.index \in Nat
  BY <1>1, TypeParts, PacketType DEF LocalsOK, Handling, Busy, Local, IsMalformed
<1>3. /\ heap'[s].parts = PutPart(old, p)
      /\ \A t \in Slots : heap'[t].total = heap[t].total
      /\ \A t \in Slots \ {s} : heap'[t].parts = heap[t].parts
  BY <1>0, <1>1, <1>2 DEF Heap, Buffer
<1>4. heap[s].total = p.msg.total
  BY <1>1 DEF BufferInv, CountsAgree, Busy
<1>5. IsFiniteSet(PutPart(old, p))
  <2>1. IsFiniteSet(old)
    BY <1>2 DEF BufferInv, BuffersFit
  <2>2. IsFiniteSet({q \in old : q.index # p.index})
    BY <2>1, FS_Subset
  <2> QED
    BY <2>2, FS_AddElement DEF PutPart
<1>6. BuffersFit'
  <2>1. \A q \in PutPart(old, p) : q.index < heap[s].total /\ q.msg.total = heap[s].total
    BY <1>2, <1>4 DEF BufferInv, BuffersFit, PutPart
  <2>2. \A q, r \in PutPart(old, p) : q.index = r.index => q = r
    BY <1>2 DEF BufferInv, BuffersFit, PutPart
  <2> QED
    BY <1>3, <1>5, <2>1, <2>2 DEF BufferInv, BuffersFit
<1>7. OneKey'
  <2>1. \A t \in Slots, k \in Keys : KeyOfSlot(t, k)' <=> KeyOfSlot(t, k)
    BY <1>1 DEF KeyOfSlot, Key
  <2>2. KeyOfSlot(s, Key(p)) /\ Key(p) \in Keys
    BY <1>2, PacketType DEF KeyOfSlot
  <2>3. ASSUME NEW t \in Slots, NEW k \in Keys, KeyOfSlot(t, k), NEW q \in heap'[t].parts
        PROVE  Key(q) = k
    <3>1. CASE t = s
      <4>1. k = Key(p)
        BY <2>2, <2>3, <3>1 DEF BufferInv, OneKey
      <4> QED
        BY <1>3, <2>3, <3>1, <4>1 DEF BufferInv, OneKey, PutPart
    <3>2. CASE t # s
      BY <1>3, <2>3, <3>2 DEF BufferInv, OneKey
    <3> QED
      BY <3>1, <3>2
  <2> QED
    BY <2>1, <2>3 DEF BufferInv, OneKey, Key
<1>8. CountsAgree'
  <2> SUFFICES ASSUME NEW d \in Ctx, pc'[d] \in Busy
               PROVE  heap'[loc[d].slot].total = loc[d].pkt.msg.total
    BY <1>1 DEF CountsAgree
  <2>1. pc[d] \in Busy
    BY <1>0, <1>1 DEF Busy
  <2>2. loc[d].slot \in Slots
    BY <1>0, <2>1 DEF TypeInv, LocalsOK, Local
  <2> QED
    BY <1>3, <2>1, <2>2 DEF BufferInv, CountsAgree
<1>9. FullMeansWhole'
  <2> SUFFICES ASSUME NEW d \in Ctx, pc'[d] = "finish", PartMissing(d)'
               PROVE  FALSE
    BY DEF FullMeansWhole
  <2>1. pc[d] = "finish" /\ loc[d].slot \in Slots
    BY <1>0, <1>1 DEF TypeInv, LocalsOK, Local, Busy
  <2>2. PICK i \in 0 .. loc[d].pkt.msg.total - 1 :
          \A q \in heap'[loc[d].slot].parts : q.index # i
    BY <1>1 DEF PartMissing
  <2>3. PICK q \in heap[loc[d].slot].parts : q.index = i
    BY <2>1 DEF BufferInv, FullMeansWhole, PartMissing
  <2>4. \E r \in heap'[loc[d].slot].parts : r.index = i
    <3>1. CASE loc[d].slot # s
      BY <1>3, <2>1, <2>3, <3>1
    <3>2. CASE loc[d].slot = s
      BY <1>3, <2>3, <3>2 DEF PutPart
    <3> QED
      BY <3>1, <3>2
  <2> QED
    BY <2>2, <2>4
<1> QED
  BY <1>6, <1>7, <1>8, <1>9 DEF BufferInv

\* Counting: in a buffer with as many parts as expected, none is missing.
LEMMA FullIsWhole ==
  ASSUME NEW P, NEW n \in Nat, IsFiniteSet(P), Cardinality(P) >= n,
         \A q \in P : q.index \in 0 .. n - 1,
         \A q, r \in P : q.index = r.index => q = r
  PROVE  \A i \in 0 .. n - 1 : \E q \in P : q.index = i
<1> DEFINE T == 0 .. n - 1
           f == [q \in P |-> q.index]
<1>1. IsFiniteSet(T) /\ Cardinality(T) = n
  BY FS_Interval
<1>2. f \in Injection(P, T)
  BY DEF Injection, IsInjective
<1>3. Cardinality(P) <= n /\ Cardinality(P) \in Nat
  BY <1>1, <1>2, FS_Injection, FS_CardinalityType
<1>4. f \in Surjection(P, T)
  BY <1>1, <1>2, <1>3, FS_Injection
<1> QED
  BY <1>4 DEF Surjection

LEMMA AssemblyPreserves ==
  ASSUME TypeInv, TypeInv', BufferInv, NEW c \in Ctx,
         Incomplete(c) \/ Complete(c) \/ Assemble(c)
  PROVE  BufferInv'
<1>0. pc \in [Ctx -> Labels] /\ loc \in [Ctx -> Local] /\ heap \in Heap /\ buffers \in Buffers
  BY TypeParts
<1>1. CASE Incomplete(c)
  BY <1>0, <1>1, LeavingPreserves DEF Incomplete
<1>2. CASE Complete(c)
  <2> DEFINE s == loc[c].slot
             P == heap[s].parts
             n == heap[s].total
  <2>1. /\ pc[c] = "test" /\ pc' = [pc EXCEPT ![c] = "finish"] /\ Cardinality(P) >= n
        /\ UNCHANGED <<buffers, heap, loc>>
    BY <1>2 DEF Complete, At, Goto, store
  <2>2. s \in Slots /\ n \in Nat /\ P \subseteq Packet
    BY <1>0, <2>1 DEF TypeInv, LocalsOK, Busy, Local, Heap, Buffer, Payload
  <2>3. n = loc[c].pkt.msg.total
    BY <2>1 DEF BufferInv, CountsAgree, Busy
  <2>4. \A q \in P : q.index \in 0 .. n - 1
    BY <2>2, PacketType DEF BufferInv, BuffersFit
  <2>5. \A i \in 0 .. n - 1 : \E q \in P : q.index = i
    BY <2>1, <2>2, <2>4, FullIsWhole DEF BufferInv, BuffersFit
  <2>6. ~PartMissing(c)
    BY <2>3, <2>5 DEF PartMissing
  <2>7. \A d \in Ctx : pc'[d] = "finish" => d = c \/ pc[d] = "finish"
    BY <1>0, <2>1
  <2>8. FullMeansWhole'
    BY <2>1, <2>6, <2>7 DEF BufferInv, FullMeansWhole, PartMissing
  <2>9. CountsAgree'
    BY <1>0, <2>1 DEF BufferInv, CountsAgree, Busy
  <2>10. BuffersFit' /\ OneKey'
    BY <2>1 DEF BufferInv, BuffersFit, OneKey, KeyOfSlot, Key
  <2> QED
    BY <2>8, <2>9, <2>10 DEF BufferInv
<1>3. CASE Assemble(c)
  <2> DEFINE left == [buffers EXCEPT ![Key(loc[c].pkt)] = NoSlot]
  <2>1. heap[loc[c].slot].parts \in Payload
    BY <1>0, <1>3 DEF Assemble, At, TypeInv, LocalsOK, Busy, Local, Heap, Buffer
  <2>2. left \in Buffers /\ \A k \in Keys : left[k] \in {buffers[k], NoSlot}
    BY <1>0 DEF Buffers
  <2>3. \/ Nothing(c, buffers) \/ Raise(c, buffers)
        \/ Something(c, left, heap[loc[c].slot].parts)
    BY <1>3 DEF Assemble
  <2> QED
    BY <1>0, <2>1, <2>2, <2>3, LeavingPreserves
<1> QED
  BY <1>1, <1>2, <1>3

LEMMA InitBuffers == Init => BufferInv
<1> SUFFICES ASSUME Init PROVE BufferInv
  OBVIOUS
<1>1. BuffersFit
  BY FS_EmptySet DEF Init, BuffersFit, NoBuffer, NewBuffer
<1>2. OneKey
  BY RxAssumption DEF Init, OneKey, KeyOfSlot, NoLocals
<1>3. CountsAgree /\ FullMeansWhole
  BY DEF Init, CountsAgree, FullMeansWhole, Busy, Ctx
<1> QED
  BY <1>1, <1>2, <1>3 DEF BufferInv

LEMMA NextBuffers == TypeInv /\ BufferInv /\ [Next]_vars => BufferInv'
<1> SUFFICES ASSUME TypeInv, BufferInv, [Next]_vars PROVE BufferInv'
  OBVIOUS
<1>0. "main" \in Ctx /\ "irq" \in Ctx /\ TypeInv'
  BY NextType DEF Ctx
<1>1. ASSUME NEW c \in Ctx, Ingest(c) PROVE BufferInv'
  BY <1>0, <1>1, ExpirePreserves, LookupPreserves, CreatePreserves, StorePreserves,
     AssemblyPreserves DEF Ingest
<1>2. CASE MainStep \/ PumpRaises \/ IrqEnter \/ IrqStep
  BY <1>0, <1>1, <1>2, MainLoopPreserves DEF MainStep, IrqStep
<1>3. CASE Arrive \/ PeerRestarts \/ Tick \/ UNCHANGED vars
  BY <1>0, <1>3, MainLoopPreserves, TickPreserves
<1> QED
  BY <1>2, <1>3 DEF Next

\* A buffer with as many parts as it expects has every one of them, whatever the
\* peers send and however the two contexts interleave on it (_ingest_rx_packet).
THEOREM FullBuffersWhole == Spec => []FullMeansWhole
<1>1. TypeInv /\ BufferInv => FullMeansWhole
  BY DEF BufferInv
<1>2. TypeInv /\ BufferInv /\ [Next]_vars => (TypeInv /\ BufferInv)'
  BY NextType, NextBuffers
<1> QED
  BY <1>1, <1>2, InitType, InitBuffers, PTL DEF Spec

-----------------------------------------------------------------------------
(* What the application gets.                                              *)

LEMMA RawSound ==
  ASSUME NEW p \in Packet, IsRaw(p)
  PROVE  SoundPayload({p})
<1>1. p.index = 0 /\ p.msg.total = 1
  BY RxAssumption DEF Packet, IsRaw
<1> QED
  BY <1>1 DEF SoundPayload

LEMMA AssembledSound ==
  ASSUME TypeInv, BufferInv, NEW c \in Ctx, pc[c] = "finish"
  PROVE  SoundPayload(heap[loc[c].slot].parts)
<1> DEFINE s == loc[c].slot
           P == heap[s].parts
           n == heap[s].total
           key == Key(loc[c].pkt)
<1>1. s \in Slots /\ n \in Nat /\ P \subseteq Packet /\ key \in Keys
  BY TypeParts, PacketType DEF LocalsOK, Busy, Handling, Local, Heap, Buffer, Payload
<1>2. \A q \in P : Key(q) = key
  <2>1. KeyOfSlot(s, key)
    BY DEF KeyOfSlot
  <2> QED
    BY <1>1, <2>1 DEF BufferInv, OneKey
<1>3. n = loc[c].pkt.msg.total
  BY DEF BufferInv, CountsAgree, Busy
<1>4. \A q \in P : q.index \in 0 .. n - 1 /\ q.msg.total = n
  BY <1>1, PacketType DEF BufferInv, BuffersFit
<1>5. \A i \in 0 .. n - 1 : \E q \in P : q.index = i
  BY <1>3 DEF BufferInv, FullMeansWhole, PartMissing
<1>6. {q.index : q \in P} = 0 .. n - 1
  BY <1>4, <1>5
<1>7. \A q, r \in P : q.msg.src = r.msg.src /\ q.msg.id = r.msg.id
  BY <1>2 DEF Key
<1>8. \A q, r \in P : q.msg.era = r.msg.era => q.msg = r.msg
  BY <1>1, <1>7, PacketType, RxAssumption
<1>9. \A q, r \in P : q.index = r.index => q = r
  BY <1>1 DEF BufferInv, BuffersFit
<1>10. P # {}
  <2>1. loc[c].pkt \in Packet /\ ~IsMalformed(loc[c].pkt)
    BY DEF TypeInv, LocalsOK, Busy, Handling
  <2>2. 0 \in 0 .. n - 1
    BY <1>1, <1>3, <2>1, PacketType DEF IsMalformed
  <2> QED
    BY <1>5, <2>2
<1> QED
  BY <1>4, <1>6, <1>7, <1>8, <1>9, <1>10 DEF SoundPayload

LEMMA SomethingSound ==
  ASSUME TypeInv, PayloadsSound, NEW c \in Ctx, NEW b \in Buffers, NEW item \in Payload,
         SoundPayload(item), Something(c, b, item)
  PROVE  PayloadsSound'
<1>1. CASE c = "main"
  BY <1>1 DEF Something, HandOver, PayloadsSound
<1>2. CASE c = "irq"
  <2>1. rxQueue \in Seq(Payload) /\ RxMax \in Nat \ {0}
    BY RxAssumption, TypeParts DEF QueueOK
  <2>2. delivered' = delivered /\ Enqueue(item)
    BY <1>2 DEF Something
  <2>3. CASE Len(rxQueue) >= RxMax
    <3>1. rxQueue' = Append(Tail(rxQueue), item) /\ rxQueue # << >>
      BY <2>1, <2>2, <2>3 DEF Enqueue
    <3>2. \A i \in 1 .. Len(rxQueue') : rxQueue'[i] = item \/ rxQueue'[i] = rxQueue[i + 1]
      BY <2>1, <3>1
    <3>3. \A i \in 1 .. Len(rxQueue') : rxQueue'[i] # item => i + 1 \in 1 .. Len(rxQueue)
      BY <2>1, <3>1
    <3> QED
      BY <2>2, <3>2, <3>3 DEF PayloadsSound
  <2>4. CASE Len(rxQueue) < RxMax
    BY <2>1, <2>2, <2>4 DEF Enqueue, PayloadsSound
  <2> QED
    BY <2>1, <2>3, <2>4
<1> QED
  BY <1>1, <1>2 DEF Ctx

LEMMA IngestSound ==
  ASSUME TypeInv, BufferInv, PayloadsSound, NEW c \in Ctx, Ingest(c)
  PROVE  PayloadsSound'
<1>0. buffers \in Buffers
  BY TypeParts
<1>1. CASE TakeRaw(c)
  <2>1. loc[c].pkt \in Packet /\ IsRaw(loc[c].pkt)
    BY <1>1, TypeParts DEF TakeRaw, At, LocalsOK, Handling
  <2>2. {loc[c].pkt} \in Payload
    BY <2>1 DEF Payload
  <2> QED
    BY <1>0, <1>1, <2>1, <2>2, RawSound, SomethingSound DEF TakeRaw
<1>2. CASE Assemble(c)
  <2> DEFINE P == heap[loc[c].slot].parts
             left == [buffers EXCEPT ![Key(loc[c].pkt)] = NoSlot]
  <2>1. pc[c] = "finish" /\ left \in Buffers
    BY <1>0, <1>2 DEF Assemble, At, Buffers
  <2>2. P \in Payload /\ SoundPayload(P)
    BY <2>1, AssembledSound, TypeParts DEF LocalsOK, Busy, Local, Heap, Buffer
  <2>3. CASE Something(c, left, P)
    BY <2>1, <2>2, <2>3, SomethingSound
  <2>4. CASE Nothing(c, buffers) \/ Raise(c, buffers)
    BY <2>4 DEF Nothing, Raise, PayloadsSound
  <2> QED
    BY <1>2, <2>3, <2>4 DEF Assemble
<1>3. CASE ExpireCollect(c) \/ ExpirePurge(c) \/ Reject(c) \/ Lookup(c) \/ Create(c)
           \/ Store(c) \/ Incomplete(c) \/ Complete(c)
  <2>1. UNCHANGED <<rxQueue, delivered>>
    BY <1>3 DEF ExpireCollect, ExpirePurge, Reject, Lookup, Create, Store, Incomplete,
                Complete, Nothing, Raise, store, history
  <2> QED
    BY <2>1 DEF PayloadsSound
<1> QED
  BY <1>1, <1>2, <1>3 DEF Ingest

LEMMA NextSound == TypeInv /\ BufferInv /\ PayloadsSound /\ [Next]_vars => PayloadsSound'
<1> SUFFICES ASSUME TypeInv, BufferInv, PayloadsSound, [Next]_vars PROVE PayloadsSound'
  OBVIOUS
<1>0. "main" \in Ctx /\ "irq" \in Ctx
  BY DEF Ctx
<1>1. CASE RecvQueued
  <2>1. rxQueue \in Seq(Payload) /\ rxQueue # << >>
    BY <1>1, TypeParts DEF RecvQueued, QueueOK
  <2>2. rxQueue' = Tail(rxQueue) /\ delivered' = delivered \cup {Head(rxQueue)}
    BY <1>1 DEF RecvQueued, HandOver
  <2>3. \A i \in 1 .. Len(rxQueue') :
          rxQueue'[i] = rxQueue[i + 1] /\ i + 1 \in 1 .. Len(rxQueue)
    BY <2>1, <2>2
  <2>4. SoundPayload(Head(rxQueue))
    BY <2>1 DEF PayloadsSound
  <2> QED
    BY <2>2, <2>3, <2>4 DEF PayloadsSound
<1>2. ASSUME NEW c \in Ctx, Irecv(c) \/ IrecvNothing(c) PROVE PayloadsSound'
  BY <1>2 DEF Irecv, IrecvNothing, store, history, PayloadsSound
<1>3. CASE \/ WaitOver \/ PumpRaises \/ RecvFallback \/ IrqEnter \/ Arrive \/ PeerRestarts \/ Tick
           \/ UNCHANGED vars
  <2>1. UNCHANGED <<rxQueue, delivered>>
    BY <1>3 DEF WaitOver, PumpRaises, RecvFallback, IrqEnter, Arrive, PeerRestarts, Tick, store, history,
                vars
  <2> QED
    BY <2>1 DEF PayloadsSound
<1> QED
  BY <1>0, <1>1, <1>2, <1>3, IngestSound DEF Next, MainStep, IrqStep

\* Every payload the application can get is whole and of one sender, message id
\* and count, with fragments lost, repeated and reordered and both contexts at
\* work on the buffers (_ingest_rx_packet, _drain_incoming, recv_raw).
THEOREM OnlySoundPayloads == Spec => []PayloadsSound
<1>1. Init => PayloadsSound
  BY DEF Init, PayloadsSound
<1>2. TypeInv /\ BufferInv /\ [Next]_vars => (TypeInv /\ BufferInv)'
  BY NextType, NextBuffers
<1> QED
  BY <1>1, <1>2, InitType, InitBuffers, NextSound, PTL DEF Spec

-----------------------------------------------------------------------------
(* Parts join fresh buffers.                                               *)

Fresh(s) == heap[s].age <= Timeout \/ heap[s].age >= TicksPeriod \div 2

\* From its collection of stale keys until it stores the part, a context may rely
\* on the other buffers: none ages meanwhile, and the other context only adds new
\* ones.
FreshInv ==
  \A c \in Ctx :
    /\ pc[c] = "purge" =>
         \A k \in Keys \ loc[c].stale : buffers[k] # NoSlot => Fresh(buffers[k])
    /\ pc[c] = "lookup" => \A k \in Keys : buffers[k] # NoSlot => Fresh(buffers[k])
    /\ pc[c] = "store" => Fresh(loc[c].slot)

\* What ticks tell of an age.
LEMMA NotStale ==
  ASSUME NEW age \in Nat, TicksDiff(age) <= Timeout
  PROVE  age <= Timeout \/ age >= TicksPeriod \div 2
<1>1. TicksPeriod \in Nat /\ TicksPeriod > 0 /\ Timeout \in Nat BY RxAssumption
<1>2. PICK half \in Nat : half = TicksPeriod \div 2 /\ half + half <= TicksPeriod
  <2>1. TicksPeriod \div 2 \in Nat /\ 2 * (TicksPeriod \div 2) <= TicksPeriod BY <1>1
  <2> QED BY <2>1
<1>3. ASSUME age < half PROVE age <= Timeout
  <2>1. age + half < TicksPeriod /\ age + half \in Nat BY <1>1, <1>2, <1>3
  <2>2. (age + half) % TicksPeriod = age + half BY <1>1, <2>1
  <2>3. TicksDiff(age) = ((age + half) % TicksPeriod) - half BY <1>2 DEF TicksDiff
  <2>4. TicksDiff(age) = age BY <2>2, <2>3
  <2> QED BY <2>4
<1> QED BY <1>2, <1>3

\* A step in which no buffer ages, references are dropped or lead to new buffers,
\* and contexts come to the labels of FreshInv only from there.
LEMMA FreshKept ==
  ASSUME TypeInv, FreshInv,
         \A s \in Slots : heap'[s].age \in {heap[s].age, 0},
         \A k \in Keys : buffers'[k] # NoSlot =>
           buffers'[k] = buffers[k] \/ heap'[buffers'[k]].age = 0,
         \A k \in Keys : buffers'[k] \in Slots \cup {NoSlot},
         \A c \in Ctx :
           /\ pc'[c] = "purge" => pc[c] = "purge" /\ loc'[c].stale = loc[c].stale
           /\ pc'[c] = "lookup" => pc[c] = "lookup"
           /\ pc'[c] = "store" => \/ pc[c] = "store" /\ loc'[c].slot = loc[c].slot
                                  \/ heap'[loc'[c].slot].age = 0
  PROVE  FreshInv'
<1>1. Timeout \in Nat BY RxAssumption
<1>2. \A s \in Slots : Fresh(s) => Fresh(s)' BY <1>1 DEF Fresh
<1>3. \A c \in Ctx : pc[c] = "store" => loc[c].slot \in Slots
  BY DEF TypeInv, TypeOK, LocalsOK, Busy
<1>4. \A s : heap'[s].age = 0 => Fresh(s)' BY <1>1 DEF Fresh
<1>5. ASSUME NEW c \in Ctx, NEW k \in Keys, buffers'[k] # NoSlot,
             pc'[c] = "lookup" \/ (pc'[c] = "purge" /\ k \notin loc'[c].stale)
      PROVE  Fresh(buffers[k])'
  <2>1. CASE heap'[buffers'[k]].age = 0 BY <1>4, <2>1 DEF Fresh
  <2>2. CASE buffers'[k] = buffers[k]
    <3>1. Fresh(buffers[k]) /\ buffers[k] \in Slots
      BY <1>5, <2>2 DEF FreshInv
    <3>2. \A s \in Slots : s = buffers[k] => (heap'[s].age <= Timeout \/ heap'[s].age >= TicksPeriod \div 2)
      BY <1>2, <3>1 DEF Fresh
    <3> QED BY <2>2, <3>1, <3>2 DEF Fresh
  <2> QED BY <1>5, <2>1, <2>2
<1>6. ASSUME NEW c \in Ctx, pc'[c] = "store" PROVE Fresh(loc[c].slot)'
  <2>1. CASE heap'[loc'[c].slot].age = 0 BY <1>1, <2>1 DEF Fresh
  <2>2. CASE pc[c] = "store" /\ loc'[c].slot = loc[c].slot
    <3>1. Fresh(loc[c].slot) /\ loc[c].slot \in Slots BY <1>3, <2>2 DEF FreshInv
    <3>2. \A s \in Slots : s = loc[c].slot => (heap'[s].age <= Timeout \/ heap'[s].age >= TicksPeriod \div 2)
      BY <1>2, <3>1 DEF Fresh
    <3> QED BY <2>2, <3>1, <3>2 DEF Fresh
  <2> QED BY <1>6, <2>1, <2>2
<1> QED BY <1>5, <1>6 DEF FreshInv

\* The labels at which FreshInv says something.
Trusting == {"purge", "lookup", "store"}

\* Leaving the code, with or without a payload.
LEMMA FreshLeaving ==
  ASSUME TypeInv, TypeInv', FreshInv, NEW c \in Ctx, NEW b \in Buffers, NEW l \in Labels \ Trusting,
         \A k \in Keys : b[k] \in {buffers[k], NoSlot}, EndPacket(c, b, l)
  PROVE  FreshInv'
<1>1. \A d \in Ctx : /\ d = c => pc'[d] = l
                     /\ d # c => pc'[d] = pc[d] /\ loc'[d] = loc[d]
  BY TypeParts DEF EndPacket, Goto
<1>2. \A s \in Slots : heap'[s].age \in {heap[s].age, 0}
  BY DEF EndPacket, Reachable, NoBuffer, NewBuffer
<1>3. buffers' = b BY DEF EndPacket
<1>4. \A k \in Keys : buffers'[k] \in Slots \cup {NoSlot} BY <1>3 DEF Buffers
<1> QED BY <1>1, <1>2, <1>3, <1>4, FreshKept DEF Trusting

\* A step that leaves the buffers alone, and brings no context to such a label.
LEMMA FreshQuiet ==
  ASSUME TypeInv, TypeInv', FreshInv, UNCHANGED <<buffers, heap>>,
         \A c \in Ctx : pc'[c] \in Trusting => pc'[c] = pc[c] /\ loc'[c] = loc[c]
  PROVE  FreshInv'
<1>1. \A k \in Keys : buffers'[k] \in Slots \cup {NoSlot} BY TypeParts DEF Buffers
<1> QED BY <1>1, FreshKept DEF Trusting

LEMMA FreshMainLoop ==
  ASSUME TypeInv, TypeInv', FreshInv,
         \/ WaitOver \/ PumpRaises \/ RecvQueued \/ RecvFallback \/ IrqEnter
         \/ \E c \in Ctx : Irecv(c) \/ IrecvNothing(c) \/ Complete(c)
         \/ Arrive \/ PeerRestarts \/ UNCHANGED vars
  PROVE  FreshInv'
<1>0. pc \in [Ctx -> Labels] /\ loc \in [Ctx -> Local]
  BY TypeParts
<1>1. CASE WaitOver \/ PumpRaises \/ RecvFallback \/ IrqEnter
  BY <1>0, <1>1, FreshQuiet DEF WaitOver, PumpRaises, RecvFallback, IrqEnter, Goto, store, Trusting
<1>2. CASE Arrive \/ PeerRestarts \/ UNCHANGED vars
  BY <1>2, FreshQuiet DEF Arrive, PeerRestarts, vars, store
<1>5. CASE RecvQueued
  BY <1>5, RecvQueuedMoves, FreshQuiet DEF RecvQueued, Trusting
<1>3. ASSUME NEW c \in Ctx, Irecv(c) PROVE FreshInv'
  <2>1. \A d \in Ctx : /\ d = c => pc'[d] = "collect"
                       /\ d # c => pc'[d] = pc[d] /\ loc'[d] = loc[d]
    BY <1>0, <1>3 DEF Irecv, Goto
  <2> QED BY <1>3, <2>1, FreshQuiet DEF Irecv, Trusting, store
<1>4. ASSUME NEW c \in Ctx, IrecvNothing(c) \/ Complete(c) PROVE FreshInv'
  <2>1. \A d \in Ctx : /\ d = c => pc'[d] \in {"wait", "idle", "finish"}
                       /\ d # c => pc'[d] = pc[d]
    BY <1>0, <1>4 DEF IrecvNothing, Complete, Goto
  <2> QED BY <1>4, <2>1, FreshQuiet DEF IrecvNothing, Complete, Trusting, store
<1> QED BY <1>1, <1>2, <1>3, <1>4, <1>5

LEMMA FreshExpire ==
  ASSUME TypeInv, TypeInv', FreshInv, NEW c \in Ctx, ExpireCollect(c) \/ ExpirePurge(c)
  PROVE  FreshInv'
<1>0. pc \in [Ctx -> Labels] /\ loc \in [Ctx -> Local] /\ heap \in Heap /\ buffers \in Buffers
  BY TypeParts
<1>1. CASE ExpireCollect(c)
  <2>1. /\ buffers' = buffers /\ heap' = heap
        /\ \A d \in Ctx : /\ d = c => /\ pc'[d] \in {"lookup", "purge"} /\ loc'[d].stale = StaleKeys
                                      /\ pc'[d] = "lookup" => StaleKeys = {}
                          /\ d # c => pc'[d] = pc[d] /\ loc'[d] = loc[d]
    BY <1>0, <1>1 DEF ExpireCollect, Goto, store, Local
  <2>2. ASSUME NEW k \in Keys \ StaleKeys, buffers[k] # NoSlot
        PROVE  Fresh(buffers[k])
    <3>1. PICK s \in Slots : s = buffers[k] BY <1>0, <2>2 DEF Buffers
    <3>2. heap[s].age \in Nat BY <1>0 DEF Heap, Buffer
    <3>3. ~(TicksDiff(heap[s].age) > Timeout) BY <2>2, <3>1 DEF StaleKeys
    <3>4. TicksDiff(heap[s].age) \in Int /\ Timeout \in Int
      <4>1. TicksPeriod \in Nat /\ TicksPeriod > 0 /\ Timeout \in Nat BY RxAssumption
      <4>2. TicksPeriod \div 2 \in Nat BY <4>1
      <4>3. (heap[s].age + TicksPeriod \div 2) % TicksPeriod \in Int BY <3>2, <4>1, <4>2
      <4> QED BY <4>1, <4>2, <4>3 DEF TicksDiff
    <3>5. TicksDiff(heap[s].age) <= Timeout BY <3>3, <3>4
    <3> QED BY <3>1, <3>2, <3>5, NotStale DEF Fresh
  <2>3. \A d \in Ctx : /\ pc'[d] = "purge" => \A k \in Keys \ loc'[d].stale :
                            buffers[k] # NoSlot => Fresh(buffers[k])
                       /\ pc'[d] = "lookup" => \A k \in Keys : buffers[k] # NoSlot => Fresh(buffers[k])
    BY <2>1, <2>2 DEF FreshInv
  <2>4. \A d \in Ctx : pc'[d] = "store" => Fresh(loc'[d].slot)
    BY <2>1 DEF FreshInv
  <2> QED BY <2>1, <2>3, <2>4 DEF FreshInv, Fresh
<1>2. CASE ExpirePurge(c)
  <2>1. PICK del \in SUBSET {k \in loc[c].stale : buffers[k] # NoSlot} :
          LET left == [k \in Keys |-> IF k \in del THEN NoSlot ELSE buffers[k]]
          IN IF del = loc[c].stale
               THEN /\ Goto(c, "lookup")
                    /\ loc' = [loc EXCEPT ![c].stale = {}]
                    /\ buffers' = left
                    /\ heap' = Reachable(heap, left, loc)
               ELSE Raise(c, left)
    BY <1>2 DEF ExpirePurge
  <2> DEFINE left == [k \in Keys |-> IF k \in del THEN NoSlot ELSE buffers[k]]
  <2>2. left \in Buffers /\ \A k \in Keys : left[k] \in {buffers[k], NoSlot}
    BY TypeParts DEF Buffers
  <2>3. CASE Raise(c, left)
    <3>1. PICK l \in {"wait", "idle", "dead"} : EndPacket(c, left, l)
      BY <2>3 DEF Raise, AfterException
    <3>2. l \in Labels \ Trusting BY DEF Labels, Trusting
    <3> QED BY <2>2, <3>1, <3>2, FreshLeaving
  <2>4. CASE /\ del = loc[c].stale
             /\ Goto(c, "lookup") /\ loc' = [loc EXCEPT ![c].stale = {}]
             /\ buffers' = left /\ heap' = Reachable(heap, left, loc)
    <3>1. \A d \in Ctx : /\ d = c => pc'[d] = "lookup"
                         /\ d # c => pc'[d] = pc[d] /\ loc'[d] = loc[d]
                         /\ loc'[d].slot = loc[d].slot
      BY <1>0, <2>4 DEF Goto, Local
    <3>2. \A s \in Slots : heap'[s].age \in {heap[s].age, 0}
      BY <2>4 DEF Reachable, NoBuffer, NewBuffer
    <3>3. Timeout \in Nat BY RxAssumption
    <3>4. \A s \in Slots : Fresh(s) => heap'[s].age <= Timeout \/ heap'[s].age >= TicksPeriod \div 2
      BY <3>2, <3>3 DEF Fresh
    <3>5. ASSUME NEW k \in Keys, left[k] # NoSlot, Fresh(buffers[k])
          PROVE  heap'[left[k]].age <= Timeout \/ heap'[left[k]].age >= TicksPeriod \div 2
      <4>1. left[k] = buffers[k] /\ buffers[k] \in Slots BY <1>0, <3>5 DEF Buffers
      <4> QED BY <3>4, <3>5, <4>1
    <3>6. pc[c] = "purge" BY <1>2 DEF ExpirePurge, At
    <3>7. ASSUME NEW k \in Keys, left[k] # NoSlot, NEW d \in Ctx,
                 pc'[d] = "lookup" \/ (pc'[d] = "purge" /\ k \notin loc'[d].stale)
          PROVE  Fresh(buffers[k])
      <4>1. CASE d = c
        <5>1. k \notin loc[c].stale BY <2>4, <3>7
        <5> QED BY <3>6, <3>7, <5>1 DEF FreshInv
      <4>2. CASE d # c BY <3>1, <3>7, <4>2 DEF FreshInv
      <4> QED BY <4>1, <4>2
    <3>8. ASSUME NEW k \in Keys, left[k] # NoSlot, NEW d \in Ctx,
                 pc'[d] = "lookup" \/ (pc'[d] = "purge" /\ k \notin loc'[d].stale)
          PROVE  heap'[left[k]].age <= Timeout \/ heap'[left[k]].age >= TicksPeriod \div 2
      BY <3>5, <3>7, <3>8
    <3>9. ASSUME NEW d \in Ctx, pc'[d] = "store"
          PROVE  heap'[loc'[d].slot].age <= Timeout \/ heap'[loc'[d].slot].age >= TicksPeriod \div 2
      <4>1. d # c /\ pc[d] = "store" /\ loc'[d] = loc[d] BY <3>1, <3>9
      <4>2. loc[d].slot \in Slots /\ Fresh(loc[d].slot)
        BY <1>0, <4>1 DEF FreshInv, TypeInv, LocalsOK, Busy, Local
      <4> QED BY <3>4, <4>1, <4>2
    <3> HIDE DEF left
    <3> QED BY <2>4, <3>8, <3>9 DEF FreshInv, Fresh
  <2> QED BY <2>1, <2>3, <2>4
<1> QED BY <1>1, <1>2

LEMMA FreshIngest ==
  ASSUME TypeInv, TypeInv', FreshInv, NEW c \in Ctx,
         \/ TakeRaw(c) \/ Reject(c) \/ Lookup(c) \/ Create(c) \/ Store(c) \/ Incomplete(c)
         \/ Assemble(c)
  PROVE  FreshInv'
<1>0. pc \in [Ctx -> Labels] /\ loc \in [Ctx -> Local] /\ heap \in Heap /\ buffers \in Buffers
  BY TypeParts
<1>1. ASSUME NEW b \in Buffers, \A k \in Keys : b[k] \in {buffers[k], NoSlot},
             \/ Nothing(c, b) \/ Raise(c, b)
             \/ \E item : Something(c, b, item)
      PROVE  FreshInv'
  <2>1. PICK l \in {"wait", "irecv", "idle", "take", "dead"} : EndPacket(c, b, l)
    BY <1>1 DEF Nothing, Raise, Something, AfterException, AfterPayload
  <2>2. l \in Labels \ Trusting BY DEF Labels, Trusting
  <2> QED BY <1>1, <2>1, <2>2, FreshLeaving
<1>2. CASE TakeRaw(c) \/ Reject(c) \/ Incomplete(c)
  BY <1>0, <1>1, <1>2 DEF TakeRaw, Reject, Incomplete
<1>3. CASE Assemble(c)
  <2> DEFINE left == [buffers EXCEPT ![Key(loc[c].pkt)] = NoSlot]
  <2>1. left \in Buffers /\ \A k \in Keys : left[k] \in {buffers[k], NoSlot}
    BY <1>0 DEF Buffers
  <2>2. \/ Nothing(c, buffers) \/ Raise(c, buffers)
        \/ Something(c, left, heap[loc[c].slot].parts)
    BY <1>3 DEF Assemble
  <2> QED BY <1>0, <1>1, <2>1, <2>2
<1>4. CASE Lookup(c)
  <2> DEFINE p == loc[c].pkt
             slot == buffers[Key(p)]
  <2>1. pc[c] = "lookup" /\ p \in Packet
    BY <1>4 DEF Lookup, At, TypeInv, LocalsOK, Handling
  <2>2. Key(p) \in Keys BY <2>1, PacketType
  <2>3. UNCHANGED <<buffers, heap>> BY <1>4 DEF Lookup, store
  <2>4. CASE slot = NoSlot \/ heap[slot].total # p.msg.total
    <3>1. \A d \in Ctx : /\ d = c => pc'[d] = "create"
                         /\ d # c => pc'[d] = pc[d]
                         /\ loc' = loc
      BY <1>0, <1>4, <2>4 DEF Lookup, Goto
    <3> QED BY <2>3, <3>1, FreshQuiet DEF Trusting
  <2>5. CASE slot # NoSlot /\ heap[slot].total = p.msg.total
    <3>1. \A d \in Ctx : /\ d = c => pc'[d] = "store" /\ loc'[d].slot = slot
                         /\ d # c => pc'[d] = pc[d] /\ loc'[d] = loc[d]
      BY <1>0, <1>4, <2>5 DEF Lookup, Goto, Local
    <3>2. Fresh(slot) BY <2>1, <2>2, <2>5 DEF FreshInv
    <3> HIDE DEF slot
    <3> QED BY <2>3, <3>1, <3>2 DEF FreshInv, Fresh
  <2> QED BY <2>4, <2>5
<1>5. CASE Create(c)
  <2> DEFINE p == loc[c].pkt
             s == CHOOSE t \in FreeSlots : TRUE
             h == [heap EXCEPT ![s] = NewBuffer(p.msg.total)]
  <2>1. /\ pc[c] = "create" /\ pc' = [pc EXCEPT ![c] = "store"]
        /\ FreeSlots # {}
        /\ buffers' = [buffers EXCEPT ![Key(p)] = s]
        /\ loc' = [loc EXCEPT ![c].slot = s]
        /\ heap' = Reachable(h, buffers', loc')
    BY <1>5 DEF Create, At, Goto
  <2>2. s \in Slots BY <2>1, FreeSlotType
  <2> HIDE DEF s
  <2>3. \A d \in Ctx : /\ d = c => pc'[d] = "store" /\ loc'[d].slot = s
                       /\ d # c => pc'[d] = pc[d] /\ loc'[d] = loc[d]
    BY <1>0, <2>1 DEF Local
  <2>4. \A t \in Slots : h[t].age = (IF t = s THEN 0 ELSE heap[t].age)
    BY <1>0, <2>2 DEF NewBuffer, Heap
  <2>5. \A t \in Slots : heap'[t].age \in {heap[t].age, 0} /\ heap'[s].age = 0
    BY <2>1, <2>2, <2>4 DEF Reachable, NoBuffer, NewBuffer
  <2>6. \A k \in Keys : buffers'[k] \in {buffers[k], s} /\ buffers'[k] \in Slots \cup {NoSlot}
    BY <1>0, <2>1, <2>2 DEF Buffers
  <2> HIDE DEF h
  <2> QED BY <2>2, <2>3, <2>5, <2>6, FreshKept
<1>6. CASE Store(c)
  <2> DEFINE s == loc[c].slot
             parts == PutPart(heap[s].parts, loc[c].pkt)
  <2>1. /\ pc[c] = "store" /\ pc' = [pc EXCEPT ![c] = "test"]
        /\ heap' = [heap EXCEPT ![s].parts = parts, ![s].age = 0]
        /\ UNCHANGED <<buffers, loc>>
    BY <1>6 DEF Store, At, Goto
  <2> HIDE DEF parts
  <2>2. \A t \in Slots : heap'[t].age \in {heap[t].age, 0}
    BY <1>0, <2>1 DEF Heap, Buffer
  <2>3. \A k \in Keys : buffers'[k] \in Slots \cup {NoSlot} BY <1>0, <2>1 DEF Buffers
  <2>4. \A d \in Ctx : pc'[d] \in {pc[d], "test"} BY <1>0, <2>1
  <2> QED BY <2>1, <2>2, <2>3, <2>4, FreshKept
<1> QED BY <1>2, <1>3, <1>4, <1>5, <1>6

LEMMA NextFresh == TypeInv /\ FreshInv /\ [Next]_vars => FreshInv'
<1> SUFFICES ASSUME TypeInv, FreshInv, [Next]_vars PROVE FreshInv'
  OBVIOUS
<1>0. "main" \in Ctx /\ "irq" \in Ctx /\ TypeInv'
  BY NextType DEF Ctx
<1>1. ASSUME NEW c \in Ctx, Ingest(c) PROVE FreshInv'
  BY <1>0, <1>1, FreshExpire, FreshIngest, FreshMainLoop DEF Ingest
<1>2. CASE MainStep \/ PumpRaises \/ IrqEnter \/ IrqStep
  BY <1>0, <1>1, <1>2, FreshMainLoop DEF MainStep, IrqStep
<1>3. CASE Arrive \/ PeerRestarts \/ UNCHANGED vars
  BY <1>0, <1>3, FreshMainLoop
<1>4. CASE Tick
  <2>1. \A c \in Ctx : pc'[c] \in {"wait", "dead", "idle"} BY <1>4 DEF Tick, Ctx
  <2> QED BY <2>1 DEF FreshInv
<1> QED BY <1>1, <1>2, <1>3, <1>4 DEF Next

\* A part only joins a buffer used within the timeout, as far as ticks tell, though
\* the other context may purge and create buffers between the check and the store
\* (_expire_fragment_buffers, _ticks_diff, _ingest_rx_packet).
THEOREM PartsJoinFresh == Spec => []JoinsFreshBuffer
<1>1. Init => FreshInv BY DEF Init, FreshInv, Ctx
<1>2. FreshInv => JoinsFreshBuffer BY DEF FreshInv, JoinsFreshBuffer, Fresh
<1> QED BY <1>1, <1>2, InitType, NextType, NextFresh, PTL DEF Spec

-----------------------------------------------------------------------------
(* The run loop alone.                                                     *)

\* Where a packet is that has not vanished.
Kept(p) ==
  \/ \E i \in 1 .. Len(fifo) : fifo[i] = p
  \/ pc["main"] \in Handling /\ loc["main"].pkt = p
  \/ \E s \in Slots : p \in heap[s].parts
  \/ \E d \in delivered : p \in d
  \/ p \in gone

\* Without the callback the run loop finds everything as it left it: keys are not
\* deleted under it, the buffer it fills is the one of the key, and a buffer with
\* parts is in the table.
AloneInv ==
  ~irqOn =>
    /\ pc["irq"] = "idle" /\ loc["irq"].slot = NoSlot
    /\ pc["main"] # "dead"
    /\ pc["main"] = "purge" => \A k \in loc["main"].stale : buffers[k] # NoSlot
    /\ pc["main"] = "create" =>
         LET slot == buffers[Key(loc["main"].pkt)]
         IN slot = NoSlot \/ heap[slot].total # loc["main"].pkt.msg.total
    /\ pc["main"] \in Busy => loc["main"].slot = buffers[Key(loc["main"].pkt)]
    /\ pc["main"] \in {"test", "finish"} => loc["main"].pkt \in heap[loc["main"].slot].parts
    /\ \A s \in Slots : heap[s].parts # {} => \E k \in Keys : buffers[k] = s
    /\ rxQueue = << >>
    /\ \A p \in arrived : Kept(p)

\* The run loop is done with a packet, which went elsewhere, as did the parts of
\* the buffers it deleted.
LEMMA AloneLeaving ==
  ASSUME TypeInv, ~irqOn, AloneInv, NEW b \in Buffers, NEW l \in Labels \ (Handling \cup {"dead"}),
         EndPacket("main", b, l),
         UNCHANGED <<rxQueue, irqOn, fifo, arrived>>,
         delivered \subseteq delivered', gone \subseteq gone',
         \A k \in Keys : b[k] = buffers[k] \/
           (b[k] = NoSlot /\ \A p \in heap[buffers[k]].parts : p \in gone' \/ \E d \in delivered' : p \in d),
         \/ \E s \in Slots : loc["main"].pkt \in heap[s].parts
         \/ \E d \in delivered' : loc["main"].pkt \in d
         \/ loc["main"].pkt \in gone'
  PROVE  AloneInv'
<1>0. pc \in [Ctx -> Labels] /\ loc \in [Ctx -> Local] /\ buffers \in Buffers BY TypeParts
<1>1. /\ pc' = [pc EXCEPT !["main"] = l] /\ loc' = [loc EXCEPT !["main"] = NoLocals]
      /\ buffers' = b /\ heap' = Reachable(heap, b, loc')
  BY DEF EndPacket, Goto
<1>2. pc'["main"] = l /\ pc'["irq"] = "idle" /\ loc'["main"] = NoLocals /\ loc'["irq"].slot = NoSlot
  BY <1>0, <1>1 DEF AloneInv, Ctx
<1>3. \A c \in Ctx : loc'[c].slot = NoSlot BY <1>2 DEF Ctx, NoLocals
<1>4. \A s \in Slots : heap'[s] = IF \E k \in Keys : b[k] = s THEN heap[s] ELSE NoBuffer
  BY <1>1, <1>3, RxAssumption DEF Reachable
<1>5. \A s \in Slots : heap'[s].parts # {} => \E k \in Keys : buffers'[k] = s
  <2>1. NoBuffer.parts = {} BY DEF NoBuffer, NewBuffer
  <2> QED BY <1>1, <1>4, <2>1
<1>6. ASSUME NEW s \in Slots, NEW p \in heap[s].parts
      PROVE  (\E t \in Slots : p \in heap'[t].parts) \/ p \in gone' \/ \E d \in delivered' : p \in d
  <2>1. PICK k \in Keys : buffers[k] = s BY <1>6 DEF AloneInv
  <2>2. CASE b[k] = buffers[k]
    <3>1. heap'[s] = heap[s] BY <1>4, <2>1, <2>2
    <3> QED BY <1>6, <3>1
  <2>3. CASE b[k] # buffers[k] BY <1>6, <2>1, <2>3
  <2> QED BY <2>2, <2>3
<1>7. ASSUME NEW p \in arrived' PROVE Kept(p)'
  <2>1. Kept(p) BY <1>7 DEF AloneInv
  <2>2. CASE \E i \in 1 .. Len(fifo) : fifo[i] = p BY <2>2 DEF Kept
  <2>3. CASE pc["main"] \in Handling /\ loc["main"].pkt = p BY <1>6, <2>3 DEF Kept
  <2>4. CASE \E s \in Slots : p \in heap[s].parts BY <1>6, <2>4 DEF Kept
  <2>5. CASE (\E d \in delivered : p \in d) \/ p \in gone BY <2>5 DEF Kept
  <2> QED BY <2>1, <2>2, <2>3, <2>4, <2>5 DEF Kept
<1>8. l \notin {"dead", "purge", "create", "test", "finish"} /\ l \notin Busy
  BY DEF Handling, Busy
<1> QED BY <1>2, <1>5, <1>7, <1>8 DEF AloneInv

\* A step that touches no buffer.
LEMMA AloneQuiet ==
  ASSUME TypeInv, ~irqOn, AloneInv, UNCHANGED <<rxQueue, irqOn, buffers, heap>>,
         delivered \subseteq delivered', gone \subseteq gone',
         pc'["irq"] = "idle" /\ loc'["irq"] = loc["irq"],
         \/ pc'["main"] = pc["main"] /\ loc'["main"] = loc["main"]
         \/ pc'["main"] \notin Busy \cup {"purge", "create", "dead"},
         \A p \in arrived' : Kept(p)'
  PROVE  AloneInv'
BY DEF AloneInv, Busy

LEMMA AloneMainLoop ==
  ASSUME TypeInv, ~irqOn, AloneInv,
         \/ WaitOver \/ RecvFallback \/ Irecv("main") \/ IrecvNothing("main")
         \/ Arrive \/ PeerRestarts \/ UNCHANGED vars
  PROVE  AloneInv'
<1>0. /\ pc \in [Ctx -> Labels] /\ loc \in [Ctx -> Local] /\ fifo \in Seq(Packet)
      /\ "main" \in Ctx /\ "irq" \in Ctx /\ arrived \subseteq Packet
  BY TypeParts DEF TypeInv, TypeOK, Ctx
<1>1. pc["irq"] = "idle" /\ \A p \in arrived : Kept(p) BY DEF AloneInv
<1>2. CASE WaitOver \/ RecvFallback \/ IrecvNothing("main")
  <2>1. /\ pc["main"] \in {"wait", "take", "irecv"}
        /\ \E l \in {"take", "irecv", "wait"} : pc' = [pc EXCEPT !["main"] = l]
        /\ UNCHANGED <<rxQueue, irqOn, buffers, heap, loc, fifo, arrived, delivered, gone>>
    BY <1>2 DEF WaitOver, RecvFallback, IrecvNothing, At, Goto, store, radio, history
  <2>2. pc'["main"] \in {"take", "irecv", "wait"} /\ pc'["irq"] = "idle" BY <1>0, <1>1, <2>1
  <2>3. \A p \in arrived' : Kept(p)' BY <1>1, <2>1, <2>2 DEF Kept, Handling, Busy
  <2> QED BY <2>1, <2>2, <2>3, AloneQuiet DEF Busy
<1>3. CASE Irecv("main")
  <2>1. /\ pc["main"] = "irecv" /\ fifo # << >>
        /\ pc' = [pc EXCEPT !["main"] = "collect"]
        /\ loc' = [loc EXCEPT !["main"].pkt = Head(fifo)]
        /\ fifo' = Tail(fifo)
        /\ UNCHANGED <<rxQueue, irqOn, buffers, heap, arrived, delivered, gone>>
    BY <1>3 DEF Irecv, At, Goto, store, history
  <2>2. pc'["main"] = "collect" /\ pc'["irq"] = "idle" /\ loc'["irq"] = loc["irq"]
        /\ loc'["main"].pkt = fifo[1]
    BY <1>0, <1>1, <2>1 DEF Local
  <2>3. ASSUME NEW p \in arrived' PROVE Kept(p)'
    <3>1. Kept(p) BY <1>1, <2>1, <2>3
    <3>2. CASE \E i \in 1 .. Len(fifo) : fifo[i] = p
      <4>1. PICK i \in 1 .. Len(fifo) : fifo[i] = p BY <3>2
      <4>2. CASE i = 1 BY <2>2, <4>1, <4>2 DEF Kept, Handling
      <4>3. CASE i # 1
        <5>1. i - 1 \in 1 .. Len(fifo') /\ fifo'[i - 1] = p BY <1>0, <2>1, <4>1, <4>3
        <5> QED BY <5>1 DEF Kept
      <4> QED BY <4>2, <4>3
    <3>3. CASE (\E s \in Slots : p \in heap[s].parts) \/ (\E d \in delivered : p \in d) \/ p \in gone
      BY <2>1, <3>3 DEF Kept
    <3> QED BY <2>1, <3>1, <3>2, <3>3 DEF Kept, Handling, Busy
  <2> QED BY <2>1, <2>2, <2>3, AloneQuiet DEF Busy
<1>4. CASE Arrive
  <2>1. PICK q \in Packet : /\ fifo' = Append(fifo, q)
                            /\ arrived' \subseteq arrived \cup {q}
    BY <1>4 DEF Arrive
  <2>2. UNCHANGED <<rxQueue, irqOn, buffers, heap, pc, loc, delivered, gone>>
    BY <1>4 DEF Arrive, store, history
  <2>3. ASSUME NEW p \in arrived' PROVE Kept(p)'
    <3>1. CASE p = q
      <4>1. Len(fifo) + 1 \in 1 .. Len(fifo') /\ fifo'[Len(fifo) + 1] = q BY <1>0, <2>1
      <4> QED BY <3>1, <4>1 DEF Kept
    <3>2. CASE p # q
      <4>1. Kept(p) BY <1>1, <2>1, <2>3, <3>2
      <4>2. \A i \in 1 .. Len(fifo) : i \in 1 .. Len(fifo') /\ fifo'[i] = fifo[i] BY <1>0, <2>1
      <4> QED BY <2>2, <4>1, <4>2 DEF Kept
    <3> QED BY <3>1, <3>2
  <2> QED BY <1>1, <2>2, <2>3, AloneQuiet
<1>5. CASE PeerRestarts \/ UNCHANGED vars
  <2>1. UNCHANGED <<rxQueue, irqOn, buffers, heap, pc, loc, fifo, arrived, delivered, gone>>
    BY <1>5 DEF PeerRestarts, vars, store, history
  <2>2. \A p \in arrived' : Kept(p)' BY <1>1, <2>1 DEF Kept
  <2> QED BY <1>1, <2>1, <2>2, AloneQuiet
<1> QED BY <1>2, <1>3, <1>4, <1>5

LEMMA AloneExpire ==
  ASSUME TypeInv, ~irqOn, AloneInv, ExpireCollect("main") \/ ExpirePurge("main")
  PROVE  AloneInv'
<1>0. /\ pc \in [Ctx -> Labels] /\ loc \in [Ctx -> Local] /\ buffers \in Buffers
      /\ "main" \in Ctx /\ "irq" \in Ctx
  BY TypeParts DEF Ctx
<1>1. pc["irq"] = "idle" /\ loc["irq"].slot = NoSlot /\ \A p \in arrived : Kept(p) BY DEF AloneInv
<1>2. CASE ExpireCollect("main")
  <2>1. /\ pc["main"] = "collect"
        /\ loc' = [loc EXCEPT !["main"].stale = StaleKeys]
        /\ pc' = [pc EXCEPT !["main"] = IF StaleKeys = {} THEN "lookup" ELSE "purge"]
        /\ UNCHANGED <<rxQueue, irqOn, buffers, heap, fifo, arrived, delivered, gone>>
    BY <1>2 DEF ExpireCollect, At, Goto, store, radio, history
  <2>2. /\ pc'["main"] \in {"lookup", "purge"} /\ pc'["irq"] = "idle" /\ loc'["irq"] = loc["irq"]
        /\ loc'["main"].stale = StaleKeys /\ loc'["main"].pkt = loc["main"].pkt
    BY <1>0, <1>1, <2>1 DEF Local
  <2>3. \A p \in arrived' : Kept(p)' BY <1>1, <2>1, <2>2 DEF Kept, Handling, Busy
  <2>4. \A k \in StaleKeys : buffers[k] # NoSlot BY DEF StaleKeys
  <2> QED BY <2>1, <2>2, <2>3, <2>4 DEF AloneInv, Busy
<1>3. CASE ExpirePurge("main")
  <2>1. PICK del \in SUBSET {k \in loc["main"].stale : buffers[k] # NoSlot} :
          LET left == [k \in Keys |-> IF k \in del THEN NoSlot ELSE buffers[k]]
          IN /\ gone' = gone \cup UNION {heap[buffers[k]].parts : k \in del}
             /\ IF del = loc["main"].stale
                  THEN /\ Goto("main", "lookup")
                       /\ loc' = [loc EXCEPT !["main"].stale = {}]
                       /\ buffers' = left
                       /\ heap' = Reachable(heap, left, loc)
                       /\ UNCHANGED <<rxQueue, delivered, twice>>
                  ELSE /\ \E k \in loc["main"].stale : buffers[k] = NoSlot
                       /\ Raise("main", left)
    BY <1>3 DEF ExpirePurge
  <2> DEFINE left == [k \in Keys |-> IF k \in del THEN NoSlot ELSE buffers[k]]
  <2>2. pc["main"] = "purge" /\ UNCHANGED <<irqOn, fifo, arrived>>
    BY <1>3 DEF ExpirePurge, At, radio
  <2>3. /\ pc' = [pc EXCEPT !["main"] = "lookup"]
        /\ loc' = [loc EXCEPT !["main"].stale = {}]
        /\ buffers' = left /\ heap' = Reachable(heap, left, loc)
        /\ UNCHANGED <<rxQueue, delivered>>
        /\ gone' = gone \cup UNION {heap[buffers[k]].parts : k \in del}
    BY <2>1, <2>2 DEF AloneInv, Goto
  <2>4. /\ pc'["main"] = "lookup" /\ pc'["irq"] = "idle" /\ loc'["irq"] = loc["irq"]
        /\ loc'["main"].pkt = loc["main"].pkt /\ loc["main"].slot = NoSlot
    BY <1>0, <1>1, <2>2, <2>3 DEF Local, TypeInv, LocalsOK, Busy
  <2>5. \A c \in Ctx : loc[c].slot = NoSlot BY <1>1, <2>4 DEF Ctx
  <2>6. \A s \in Slots : heap'[s] = IF \E k \in Keys : left[k] = s THEN heap[s] ELSE NoBuffer
    BY <2>3, <2>5, RxAssumption DEF Reachable
  <2>7. \A s \in Slots : heap'[s].parts # {} => \E k \in Keys : buffers'[k] = s
    <3>1. NoBuffer.parts = {} BY DEF NoBuffer, NewBuffer
    <3> QED BY <2>3, <2>6, <3>1
  <2>8. ASSUME NEW s \in Slots, NEW p \in heap[s].parts
        PROVE  (\E t \in Slots : p \in heap'[t].parts) \/ p \in gone'
    <3>1. PICK k \in Keys : buffers[k] = s BY <2>8 DEF AloneInv
    <3>2. CASE k \in del BY <2>3, <2>8, <3>1, <3>2
    <3>3. CASE k \notin del
      <4>1. left[k] = s BY <3>1, <3>3
      <4> QED BY <2>6, <2>8, <4>1
    <3> QED BY <3>2, <3>3
  <2>9. \A p \in arrived' : Kept(p)' BY <1>1, <2>2, <2>3, <2>4, <2>8 DEF Kept, Handling, Busy
  <2>10. rxQueue' = << >> BY <2>3 DEF AloneInv
  <2> QED BY <1>1, <2>4, <2>7, <2>9, <2>10 DEF AloneInv, Busy
<1> QED BY <1>2, <1>3

LEMMA AloneLookup ==
  ASSUME TypeInv, ~irqOn, AloneInv, TakeRaw("main") \/ Reject("main") \/ Lookup("main")
  PROVE  AloneInv'
<1>0. /\ pc \in [Ctx -> Labels] /\ loc \in [Ctx -> Local] /\ buffers \in Buffers
      /\ "main" \in Ctx /\ "irq" \in Ctx
  BY TypeParts DEF Ctx
<1>1. pc["irq"] = "idle" /\ loc["irq"].slot = NoSlot /\ \A p \in arrived : Kept(p) BY DEF AloneInv
<1> DEFINE p == loc["main"].pkt
           slot == buffers[Key(p)]
<1>2. CASE TakeRaw("main")
  <2>1. /\ \E l \in {"take", "wait"} : EndPacket("main", buffers, l)
        /\ delivered' = delivered \cup {{p}} /\ gone' = gone
        /\ UNCHANGED <<rxQueue, irqOn, fifo, arrived>>
    BY <1>2 DEF TakeRaw, Something, AfterPayload, HandOver, radio
  <2>2. {"take", "wait"} \subseteq Labels \ (Handling \cup {"dead"}) BY DEF Labels, Handling, Busy
  <2>3. \E d \in delivered' : p \in d BY <2>1
  <2> QED BY <1>0, <2>1, <2>2, <2>3, AloneLeaving
<1>3. CASE Reject("main")
  <2>1. /\ EndPacket("main", buffers, "wait")
        /\ delivered' = delivered /\ gone' = gone \cup {p}
        /\ UNCHANGED <<rxQueue, irqOn, fifo, arrived>>
    BY <1>3 DEF Reject, Nothing, radio
  <2>2. "wait" \in Labels \ (Handling \cup {"dead"}) BY DEF Labels, Handling, Busy
  <2> QED BY <1>0, <2>1, <2>2, AloneLeaving
<1>4. CASE Lookup("main")
  <2>1. /\ pc["main"] = "lookup"
        /\ UNCHANGED <<rxQueue, irqOn, buffers, heap, fifo, arrived, delivered, gone>>
    BY <1>4 DEF Lookup, At, store, radio, history
  <2>2. CASE slot = NoSlot \/ heap[slot].total # p.msg.total
    <3>1. loc' = loc /\ pc' = [pc EXCEPT !["main"] = "create"] BY <1>4, <2>2 DEF Lookup, Goto
    <3>2. pc'["main"] = "create" /\ pc'["irq"] = "idle" BY <1>0, <1>1, <3>1
    <3>3. \A q \in arrived' : Kept(q)' BY <1>1, <2>1, <3>1, <3>2 DEF Kept, Handling, Busy
    <3> QED BY <2>1, <2>2, <3>1, <3>2, <3>3 DEF AloneInv, Busy
  <2>3. CASE slot # NoSlot /\ heap[slot].total = p.msg.total
    <3>1. /\ loc' = [loc EXCEPT !["main"].slot = slot]
          /\ pc' = [pc EXCEPT !["main"] = "store"]
      BY <1>4, <2>3 DEF Lookup, Goto
    <3>2. /\ pc'["main"] = "store" /\ pc'["irq"] = "idle" /\ loc'["irq"] = loc["irq"]
          /\ loc'["main"].slot = slot /\ loc'["main"].pkt = p
      BY <1>0, <1>1, <3>1 DEF Local
    <3>3. \A q \in arrived' : Kept(q)' BY <1>1, <2>1, <3>2 DEF Kept, Handling, Busy
    <3> QED BY <2>1, <3>2, <3>3 DEF AloneInv, Busy
  <2> QED BY <2>2, <2>3
<1> QED BY <1>2, <1>3, <1>4

LEMMA AloneCreate ==
  ASSUME TypeInv, ~irqOn, AloneInv, Create("main") PROVE AloneInv'
<1> DEFINE p == loc["main"].pkt
           old == buffers[Key(p)]
           s == CHOOSE t \in FreeSlots : TRUE
           h == [heap EXCEPT ![s] = NewBuffer(p.msg.total)]
<1>0. /\ pc \in [Ctx -> Labels] /\ loc \in [Ctx -> Local] /\ heap \in Heap /\ buffers \in Buffers
      /\ "main" \in Ctx /\ "irq" \in Ctx
  BY TypeParts DEF Ctx
<1>1. pc["irq"] = "idle" /\ loc["irq"].slot = NoSlot /\ \A q \in arrived : Kept(q) BY DEF AloneInv
<1>2. /\ pc["main"] = "create" /\ pc' = [pc EXCEPT !["main"] = "store"]
      /\ FreeSlots # {}
      /\ buffers' = [buffers EXCEPT ![Key(p)] = s]
      /\ loc' = [loc EXCEPT !["main"].slot = s]
      /\ heap' = Reachable(h, buffers', loc')
      /\ gone' = IF old # NoSlot /\ heap[old].total # p.msg.total
                   THEN gone \cup heap[old].parts ELSE gone
      /\ UNCHANGED <<rxQueue, irqOn, fifo, arrived, delivered>>
  BY DEF Create, At, Goto, radio
<1>3. p \in Packet /\ Key(p) \in Keys
  <2>1. p \in Packet BY <1>0, <1>2 DEF TypeInv, LocalsOK, Handling
  <2> QED BY <2>1, PacketType
<1>4. s \in Slots /\ s # NoSlot /\ \A k \in Keys : buffers[k] # s
  BY <1>2, FreeSlotType
<1> HIDE DEF s, h
<1>5. /\ pc'["main"] = "store" /\ pc'["irq"] = "idle" /\ loc'["irq"] = loc["irq"]
      /\ loc'["main"].slot = s /\ loc'["main"].pkt = p
  BY <1>0, <1>1, <1>2 DEF Local
<1>6. \A k \in Keys : buffers'[k] = IF k = Key(p) THEN s ELSE buffers[k]
  BY <1>0, <1>2 DEF Buffers
<1>7. \A t \in Slots : \/ heap'[t].parts = {}
                       \/ t # s /\ heap'[t].parts = heap[t].parts /\ \E k \in Keys : buffers'[k] = t
  <2>1. NoBuffer.parts = {} /\ NewBuffer(p.msg.total).parts = {} BY DEF NoBuffer, NewBuffer
  <2>2. h[s].parts = {} /\ \A t \in Slots \ {s} : h[t] = heap[t]
    BY <1>0, <1>4, <2>1 DEF h, Heap
  <2>3. \A c \in Ctx : loc'[c].slot \in {s, NoSlot} BY <1>1, <1>5 DEF Ctx
  <2>4. ASSUME NEW t \in Slots
        PROVE  \/ heap'[t].parts = {}
               \/ t # s /\ heap'[t].parts = heap[t].parts /\ \E k \in Keys : buffers'[k] = t
    <3>1. CASE t = s
      <4>1. heap'[t] \in {h[t], NoBuffer} BY <1>2 DEF Reachable
      <4> QED BY <2>1, <2>2, <3>1, <4>1
    <3>2. CASE t # s
      <4>1. \A c \in Ctx : loc'[c].slot # t BY <2>3, <3>2, RxAssumption
      <4>2. heap'[t] = IF \E k \in Keys : buffers'[k] = t THEN h[t] ELSE NoBuffer
        BY <1>2, <4>1 DEF Reachable
      <4> QED BY <2>1, <2>2, <3>2, <4>2
    <3> QED BY <3>1, <3>2
  <2> QED BY <2>4
<1>8. \A t \in Slots : heap'[t].parts # {} => \E k \in Keys : buffers'[k] = t
  BY <1>7
<1>9. ASSUME NEW t \in Slots, NEW q \in heap[t].parts
      PROVE  (\E u \in Slots : q \in heap'[u].parts) \/ q \in gone'
  <2>1. PICK k \in Keys : buffers[k] = t BY <1>9 DEF AloneInv
  <2>2. CASE k = Key(p)
    <3>1. old = t BY <2>1, <2>2
    <3>2. old # NoSlot BY <3>1, RxAssumption
    <3>3. heap[old].total # p.msg.total BY <1>2, <3>2 DEF AloneInv
    <3> QED BY <1>2, <1>9, <3>1, <3>2, <3>3
  <2>3. CASE k # Key(p)
    <3>1. t # s BY <1>4, <2>1
    <3>2. buffers'[k] = t BY <1>6, <2>1, <2>3
    <3>3. heap'[t] = h[t] BY <1>2, <3>2 DEF Reachable
    <3>4. h[t] = heap[t] BY <1>0, <3>1 DEF h, Heap
    <3> QED BY <1>9, <3>3, <3>4
  <2> QED BY <2>2, <2>3
<1>10. \A q \in arrived' : Kept(q)'
  <2> SUFFICES ASSUME NEW q \in arrived' PROVE Kept(q)' OBVIOUS
  <2>1. Kept(q) BY <1>1, <1>2
  <2>2. CASE \E t \in Slots : q \in heap[t].parts BY <1>9, <2>2 DEF Kept
  <2>3. CASE ~\E t \in Slots : q \in heap[t].parts
    <3>1. gone \subseteq gone' BY <1>2
    <3> QED BY <1>2, <1>5, <2>1, <2>3, <3>1 DEF Kept, Handling, Busy
  <2> QED BY <2>2, <2>3
<1>11. buffers'[Key(p)] = s BY <1>3, <1>6
<1>12. rxQueue' = << >> BY <1>2 DEF AloneInv
<1> QED BY <1>1, <1>5, <1>8, <1>10, <1>11, <1>12 DEF AloneInv, Busy

LEMMA AloneStore ==
  ASSUME TypeInv, ~irqOn, AloneInv, Store("main") PROVE AloneInv'
<1> DEFINE p == loc["main"].pkt
           s == loc["main"].slot
           old == heap[s].parts
           new == PutPart(old, p)
<1>0. /\ pc \in [Ctx -> Labels] /\ loc \in [Ctx -> Local] /\ heap \in Heap
      /\ "main" \in Ctx /\ "irq" \in Ctx
  BY TypeParts DEF Ctx
<1>1. pc["irq"] = "idle" /\ loc["irq"].slot = NoSlot /\ \A q \in arrived : Kept(q) BY DEF AloneInv
<1>2. /\ pc["main"] = "store" /\ pc' = [pc EXCEPT !["main"] = "test"]
      /\ heap' = [heap EXCEPT ![s].parts = new, ![s].age = 0]
      /\ gone' = gone \cup (old \ new)
      /\ UNCHANGED <<rxQueue, irqOn, buffers, loc, fifo, arrived, delivered>>
  BY DEF Store, At, Goto, radio
<1>3. pc'["main"] = "test" /\ pc'["irq"] = "idle" BY <1>0, <1>1, <1>2
<1>4. s \in Slots /\ p \in Packet /\ Key(p) \in Keys
  <2>1. pc["main"] \in Busy BY <1>2 DEF Busy
  <2>2. p \in Packet /\ s # NoSlot BY <1>0, <2>1 DEF TypeInv, LocalsOK, Handling
  <2> QED BY <1>0, <2>2, PacketType DEF Local
<1>5. s = buffers[Key(p)] BY <1>2 DEF AloneInv, Busy
<1>6. p \in new BY DEF PutPart
<1> HIDE DEF new
<1>7. heap'[s].parts = new /\ \A t \in Slots \ {s} : heap'[t].parts = heap[t].parts
  BY <1>0, <1>2, <1>4 DEF Heap, Buffer
<1>8. ASSUME NEW t \in Slots, NEW q \in heap[t].parts
      PROVE  q \in heap'[t].parts \/ q \in gone'
  <2>1. CASE t = s BY <1>2, <1>7, <1>8, <2>1
  <2>2. CASE t # s BY <1>7, <1>8, <2>2
  <2> QED BY <2>1, <2>2
<1>9. ASSUME NEW q \in arrived' PROVE Kept(q)'
  <2>1. Kept(q) BY <1>1, <1>2, <1>9
  <2>2. CASE \E t \in Slots : q \in heap[t].parts BY <1>8, <2>2 DEF Kept
  <2>3. CASE ~\E t \in Slots : q \in heap[t].parts
    <3>1. gone \subseteq gone' BY <1>2
    <3> QED BY <1>2, <1>3, <2>1, <2>3, <3>1 DEF Kept, Handling, Busy
  <2> QED BY <2>2, <2>3
<1>10. \A t \in Slots : heap'[t].parts # {} => \E k \in Keys : buffers'[k] = t
  BY <1>2, <1>4, <1>5, <1>7 DEF AloneInv
<1>11. rxQueue' = << >> BY <1>2 DEF AloneInv
<1>12. loc'["main"].pkt \in heap'[loc'["main"].slot].parts BY <1>2, <1>6, <1>7
<1> QED BY <1>1, <1>2, <1>3, <1>5, <1>9, <1>10, <1>11, <1>12 DEF AloneInv, Busy

LEMMA AloneAssembly ==
  ASSUME TypeInv, BufferInv, ~irqOn, AloneInv,
         Incomplete("main") \/ Complete("main") \/ Assemble("main")
  PROVE  AloneInv'
<1> DEFINE p == loc["main"].pkt
           s == loc["main"].slot
<1>0. /\ pc \in [Ctx -> Labels] /\ loc \in [Ctx -> Local] /\ heap \in Heap /\ buffers \in Buffers
      /\ "main" \in Ctx /\ "irq" \in Ctx
  BY TypeParts DEF Ctx
<1>1. pc["irq"] = "idle" /\ \A q \in arrived : Kept(q) BY DEF AloneInv
<1>2. pc["main"] \in {"test", "finish"} BY DEF Incomplete, Complete, Assemble, At
<1>3. p \in heap[s].parts /\ s = buffers[Key(p)] BY <1>2 DEF AloneInv, Busy
<1>4. s \in Slots /\ p \in Packet /\ Key(p) \in Keys
  <2>1. pc["main"] \in Busy BY <1>2 DEF Busy
  <2>2. p \in Packet /\ s # NoSlot BY <1>0, <2>1 DEF TypeInv, LocalsOK, Handling
  <2> QED BY <1>0, <2>2, PacketType DEF Local
<1>5. CASE Incomplete("main")
  <2>1. /\ EndPacket("main", buffers, "wait")
        /\ UNCHANGED <<rxQueue, irqOn, fifo, arrived, delivered, gone>>
    BY <1>5 DEF Incomplete, Nothing, radio
  <2>2. "wait" \in Labels \ (Handling \cup {"dead"}) BY DEF Labels, Handling, Busy
  <2> QED BY <1>0, <1>3, <1>4, <2>1, <2>2, AloneLeaving
<1>6. CASE Complete("main")
  <2>1. /\ pc["main"] = "test" /\ pc' = [pc EXCEPT !["main"] = "finish"]
        /\ UNCHANGED <<rxQueue, irqOn, buffers, heap, loc, fifo, arrived, delivered, gone>>
    BY <1>6 DEF Complete, At, Goto, store, radio, history
  <2>2. pc'["main"] = "finish" /\ pc'["irq"] = "idle" BY <1>0, <1>1, <2>1
  <2>3. \A q \in arrived' : Kept(q)' BY <1>1, <2>1, <2>2 DEF Kept, Handling, Busy
  <2> QED BY <1>3, <2>1, <2>2, <2>3 DEF AloneInv, Busy
<1>7. CASE Assemble("main")
  <2> DEFINE left == [buffers EXCEPT ![Key(p)] = NoSlot]
  <2>1. ~PartMissing("main") BY <1>0, <1>7 DEF Assemble, At, BufferInv, FullMeansWhole
  <2>2. buffers[Key(p)] # NoSlot BY <1>3, <1>4, RxAssumption
  <2>3. Something("main", left, heap[s].parts) /\ UNCHANGED <<irqOn, endpoint, radio>>
    BY <1>7, <2>1, <2>2 DEF Assemble
  <2>4. /\ \E l \in {"take", "wait"} : EndPacket("main", left, l)
        /\ delivered' = delivered \cup {heap[s].parts} /\ gone' = gone
        /\ UNCHANGED <<rxQueue, irqOn, fifo, arrived>>
    BY <2>3 DEF Something, AfterPayload, HandOver, radio
  <2>5. {"take", "wait"} \subseteq Labels \ (Handling \cup {"dead"}) BY DEF Labels, Handling, Busy
  <2>6. left \in Buffers /\ \A k \in Keys : left[k] = IF k = Key(p) THEN NoSlot ELSE buffers[k]
    BY <1>0 DEF Buffers
  <2>7. \A k \in Keys : left[k] = buffers[k] \/
          (left[k] = NoSlot /\ \A q \in heap[buffers[k]].parts : q \in gone' \/ \E d \in delivered' : q \in d)
    BY <1>3, <2>4, <2>6
  <2> HIDE DEF left
  <2> QED BY <1>3, <1>4, <2>4, <2>5, <2>6, <2>7, AloneLeaving
<1> QED BY <1>5, <1>6, <1>7

LEMMA AloneTick == ASSUME TypeInv, ~irqOn, AloneInv, Tick PROVE AloneInv'
<1>1. /\ pc["main"] \in {"wait", "dead"}
      /\ UNCHANGED <<rxQueue, buffers, irqOn, pc, loc, fifo, arrived, delivered, gone>>
  BY DEF Tick, radio, history
<1>2. \A s \in Slots : heap'[s].parts = heap[s].parts
  BY TypeParts DEF Tick, Heap, Buffer
<1>3. \A p \in arrived' : Kept(p)' BY <1>1, <1>2 DEF AloneInv, Kept
<1> QED BY <1>1, <1>2, <1>3 DEF AloneInv, Busy

LEMMA NextAlone == TypeInv /\ BufferInv /\ AloneInv /\ [Next]_vars => AloneInv'
<1> SUFFICES ASSUME TypeInv, BufferInv, AloneInv, [Next]_vars, ~irqOn' PROVE AloneInv'
  BY DEF AloneInv
<1>0. irqOn' = irqOn
  BY DEF Next, MainStep, IrqStep, Ingest, WaitOver, PumpRaises, RecvQueued, RecvFallback, IrqEnter, Irecv,
         IrecvNothing, ExpireCollect, ExpirePurge, TakeRaw, Reject, Lookup, Create, Store,
         Incomplete, Complete, Assemble, Arrive, PeerRestarts, Tick, vars
<1>1. ~irqOn /\ pc["irq"] = "idle" /\ rxQueue = << >> BY <1>0 DEF AloneInv
<1>2. CASE IrqEnter \/ IrqStep
  BY <1>1, <1>2 DEF IrqEnter, IrqStep, Irecv, IrecvNothing, Ingest, ExpireCollect, ExpirePurge,
     TakeRaw, Reject, Lookup, Create, Store, Incomplete, Complete, Assemble, At
<1>3. CASE RecvQueued \/ PumpRaises BY <1>1, <1>3 DEF RecvQueued, PumpRaises
<1>4. CASE Ingest("main")
  BY <1>1, <1>4, AloneExpire, AloneLookup, AloneCreate, AloneStore, AloneAssembly DEF Ingest
<1>5. CASE MainStep
  BY <1>1, <1>3, <1>4, <1>5, AloneMainLoop DEF MainStep
<1>6. CASE Arrive \/ PeerRestarts \/ Tick \/ UNCHANGED vars
  BY <1>1, <1>6, AloneMainLoop, AloneTick
<1> QED BY <1>2, <1>3, <1>5, <1>6 DEF Next

LEMMA InitAlone == Init => AloneInv
<1> SUFFICES ASSUME Init PROVE AloneInv OBVIOUS
<1>1. \A s \in Slots : heap[s].parts = {} BY DEF Init, NoBuffer, NewBuffer
<1>2. loc["irq"].slot = NoSlot BY DEF Init, Ctx, NoLocals
<1> QED BY <1>1, <1>2 DEF Init, AloneInv, Busy

\* While the run loop is the only one to receive, no packet vanishes: it waits in
\* the driver, is being handled, is kept in a buffer, was handed over or was
\* discarded for one of the code's reasons (recv_raw, _ingest_rx_packet,
\* _expire_fragment_buffers).
THEOREM NothingVanishes == Spec => []NoPacketVanishes
<1>1. AloneInv => NoPacketVanishes
  <2> SUFFICES ASSUME AloneInv, ~irqOn, NEW p \in arrived
               PROVE  p \in {fifo[i] : i \in 1 .. Len(fifo)} \cup {loc["main"].pkt}
                        \cup (UNION {heap[s].parts : s \in Slots}) \cup (UNION delivered)
                        \cup gone
    BY DEF NoPacketVanishes
  <2>1. Kept(p) BY DEF AloneInv
  <2>2. CASE pc["main"] \in Handling /\ loc["main"].pkt = p BY <2>2
  <2>3. CASE \E s \in Slots : p \in heap[s].parts BY <2>3
  <2>4. CASE \E i \in 1 .. Len(fifo) : fifo[i] = p BY <2>4
  <2>5. CASE \E d \in delivered : p \in d BY <2>5
  <2>6. CASE p \in gone BY <2>6
  <2> QED BY <2>1, <2>2, <2>3, <2>4, <2>5, <2>6 DEF Kept
<1>2. TypeInv /\ BufferInv /\ [Next]_vars => (TypeInv /\ BufferInv)'
  BY NextType, NextBuffers
<1> QED BY <1>1, <1>2, InitType, InitBuffers, InitAlone, NextAlone, PTL DEF Spec

\* While the run loop is the only one to receive, no exception of the reassembly ends
\* it: the stale keys it deletes, and the key of a buffer it assembled, are still in
\* the table (run, _expire_fragment_buffers, _ingest_rx_packet).
THEOREM LoopSurvives == Spec => []RunLoopSurvives
<1>1. AloneInv => RunLoopSurvives
  BY DEF AloneInv, RunLoopSurvives
<1>2. TypeInv /\ BufferInv /\ [Next]_vars => (TypeInv /\ BufferInv)'
  BY NextType, NextBuffers
<1> QED BY <1>1, <1>2, InitType, InitBuffers, InitAlone, NextAlone, PTL DEF Spec

-----------------------------------------------------------------------------
(* No payload is handed over twice.                                        *)

\* Labels at which the packet of a context is in no buffer yet.
Held == {"collect", "purge", "lookup", "create", "store"}

InHand(c, p) == pc[c] \in Held /\ loc[c].pkt = p
Waits(p) == \E i \in 1 .. Len(fifo) : fifo[i] = p
Used(p) ==
  \/ \E d \in delivered : p \in d
  \/ \E i \in 1 .. Len(rxQueue) : p \in rxQueue[i]

\* Without repeated packets and restarts a packet is in one place only: in the
\* driver, in the hands of one context, or stored or used.
Apart ==
  /\ \A i, j \in 1 .. Len(fifo) : fifo[i] = fifo[j] => i = j
  /\ \A p \in Packet :
       Waits(p) \/ (\E c \in Ctx : InHand(c, p)) =>
         p \in arrived /\ ~Used(p) /\ \A s \in Slots : p \notin heap[s].parts
  /\ \A p \in Packet : \A c \in Ctx : InHand(c, p) =>
       ~Waits(p) /\ \A d \in Ctx : InHand(d, p) => c = d
  /\ \A s \in Slots : \A p \in heap[s].parts : p \in arrived /\ ~IsRaw(p)

\* Payloads have no part in common.
PayloadsApart ==
  /\ ~twice
  /\ \A i, j \in 1 .. Len(rxQueue) : \A p \in rxQueue[i] : p \in rxQueue[j] => i = j
  /\ \A i \in 1 .. Len(rxQueue) : \A p \in rxQueue[i] : \A d \in delivered : p \notin d

\* The key of a payload is gone from the table: no buffer of it can fill again.
KeysGone ==
  \A p \in Packet : Used(p) =>
    p \in arrived /\ (~IsRaw(p) => buffers[Key(p)] = NoSlot)

OnceInv ==
  /\ \A p \in arrived : p.msg.era = 0
  /\ Apart /\ PayloadsApart /\ KeysGone

Pristine == dups = 0 /\ \A s \in Srcs : era[s] = 0
Once == Pristine => OnceInv

LEMMA UsedType == ASSUME TypeInv, NEW p, Used(p) PROVE p \in Packet
<1>1. rxQueue \in Seq(Payload) /\ delivered \subseteq Payload BY TypeParts DEF QueueOK
<1> QED BY <1>1 DEF Used, Payload

\* A step after which packets are in fewer places than before, except that item
\* may be used now.
LEMMA OnceFrame ==
  ASSUME TypeInv, TypeInv', OnceInv, UNCHANGED <<arrived, fifo>>, PayloadsApart',
         NEW item \in Payload,
         \A p \in Packet : Used(p)' => Used(p) \/ p \in item,
         \A p \in item :
           /\ p \in arrived /\ ~Waits(p) /\ \A c \in Ctx : ~InHand(c, p)'
           /\ ~IsRaw(p) => buffers'[Key(p)] = NoSlot,
         \A c \in Ctx : \A p \in Packet : InHand(c, p)' => InHand(c, p),
         \A s \in Slots : heap'[s].parts \subseteq heap[s].parts,
         \A k \in Keys : buffers'[k] \in {buffers[k], NoSlot}
  PROVE  OnceInv'
<1>1. \A p \in Packet : Waits(p)' <=> Waits(p) BY DEF Waits
<1>2. Apart'
  <2>1. \A i, j \in 1 .. Len(fifo') : fifo'[i] = fifo'[j] => i = j BY DEF OnceInv, Apart
  <2>2. \A p \in Packet : Waits(p)' \/ (\E c \in Ctx : InHand(c, p)') =>
          p \in arrived' /\ ~Used(p)' /\ \A s \in Slots : p \notin heap'[s].parts
    BY <1>1 DEF OnceInv, Apart
  <2>3. \A p \in Packet : \A c \in Ctx : InHand(c, p)' =>
          ~Waits(p)' /\ \A d \in Ctx : InHand(d, p)' => c = d
    BY <1>1 DEF OnceInv, Apart
  <2>4. \A s \in Slots : \A p \in heap'[s].parts : p \in arrived' /\ ~IsRaw(p)
    BY DEF OnceInv, Apart
  <2> QED BY <2>1, <2>2, <2>3, <2>4 DEF Apart
<1>3. KeysGone'
  <2>1. \A p \in Packet : Key(p) \in Keys BY PacketType
  <2> QED BY <2>1 DEF OnceInv, KeysGone
<1>4. \A p \in arrived' : p.msg.era = 0 BY DEF OnceInv
<1> QED BY <1>2, <1>3, <1>4 DEF OnceInv

\* A step that hands nothing over.
LEMMA OnceQuiet ==
  ASSUME TypeInv, TypeInv', OnceInv, UNCHANGED <<arrived, fifo, rxQueue, delivered, twice>>,
         \A c \in Ctx : pc'[c] \in Held => pc[c] \in Held /\ loc'[c].pkt = loc[c].pkt,
         \A s \in Slots : heap'[s].parts \subseteq heap[s].parts,
         \A k \in Keys : buffers'[k] \in {buffers[k], NoSlot}
  PROVE  OnceInv'
<1>1. \A p \in Packet : Used(p)' <=> Used(p) BY DEF Used
<1>2. PayloadsApart' BY DEF OnceInv, PayloadsApart
<1>3. \A c \in Ctx : \A p \in Packet : InHand(c, p)' => InHand(c, p) BY DEF InHand
<1> DEFINE none == {}
<1>4. none \in Payload /\ \A p \in Packet : Used(p)' => Used(p) \/ p \in none
  BY <1>1 DEF Payload
<1>5. \A p \in none : /\ p \in arrived /\ ~Waits(p) /\ \A c \in Ctx : ~InHand(c, p)'
                      /\ ~IsRaw(p) => buffers'[Key(p)] = NoSlot
  OBVIOUS
<1> HIDE DEF none
<1> QED BY <1>2, <1>3, <1>4, <1>5, OnceFrame

\* A payload of unused packets is passed on.
LEMMA OncePassed ==
  ASSUME TypeInv, OnceInv, NEW c \in Ctx, NEW b, NEW item \in Payload, SoundPayload(item),
         Something(c, b, item), \A p \in item : ~Used(p)
  PROVE  /\ PayloadsApart'
         /\ \A p \in Packet : Used(p)' => Used(p) \/ p \in item
<1>0. /\ rxQueue \in Seq(Payload) /\ RxMax \in Nat /\ RxMax # 0
      /\ \A i, j \in 1 .. Len(rxQueue) : \A p \in rxQueue[i] : p \in rxQueue[j] => i = j
      /\ \A i \in 1 .. Len(rxQueue) : \A p \in rxQueue[i] : \A d \in delivered : p \notin d
      /\ ~twice
  BY RxAssumption, TypeParts DEF QueueOK, OnceInv, PayloadsApart
<1>1. CASE c = "main"
  <2>1. /\ rxQueue' = rxQueue /\ delivered' = delivered \cup {item}
        /\ twice' = (twice \/ item \in delivered)
    BY <1>1 DEF Something, HandOver
  <2>2. item \notin delivered BY DEF SoundPayload, Used
  <2>3. PayloadsApart'
    <3>1. ~twice' BY <1>0, <2>1, <2>2
    <3>2. \A i \in 1 .. Len(rxQueue) : \A p \in rxQueue[i] : \A d \in delivered' : p \notin d
      BY <1>0, <2>1 DEF Used
    <3> QED BY <1>0, <2>1, <3>1, <3>2 DEF PayloadsApart
  <2> QED BY <2>1, <2>3 DEF Used
<1>2. CASE c = "irq"
  <2>1. delivered' = delivered /\ twice' = twice /\ Enqueue(item)
    BY <1>2 DEF Something
  <2>2. PICK k \in {0, 1} :
          \A i \in 1 .. Len(rxQueue') :
             \/ rxQueue'[i] = item /\ i = Len(rxQueue')
             \/ i + k \in 1 .. Len(rxQueue) /\ rxQueue'[i] = rxQueue[i + k]
    <3>1. CASE Len(rxQueue) >= RxMax
      <4>1. rxQueue' = Append(Tail(rxQueue), item) /\ rxQueue # << >>
        BY <1>0, <2>1, <3>1 DEF Enqueue
      <4>2. \A i \in 1 .. Len(rxQueue') :
              \/ rxQueue'[i] = item /\ i = Len(rxQueue')
              \/ i + 1 \in 1 .. Len(rxQueue) /\ rxQueue'[i] = rxQueue[i + 1]
        BY <1>0, <4>1
      <4> QED BY <4>2
    <3>2. CASE ~(Len(rxQueue) >= RxMax)
      <4>1. rxQueue' = Append(rxQueue, item) BY <2>1, <3>2 DEF Enqueue
      <4>2. \A i \in 1 .. Len(rxQueue') :
              \/ rxQueue'[i] = item /\ i = Len(rxQueue')
              \/ i + 0 \in 1 .. Len(rxQueue) /\ rxQueue'[i] = rxQueue[i + 0]
        BY <1>0, <4>1
      <4> QED BY <4>2
    <3> QED BY <3>1, <3>2
  <2>3. \A i, j \in 1 .. Len(rxQueue') : \A p \in rxQueue'[i] : p \in rxQueue'[j] => i = j
    <3> SUFFICES ASSUME NEW i \in 1 .. Len(rxQueue'), NEW j \in 1 .. Len(rxQueue'),
                        NEW p, p \in rxQueue'[i], p \in rxQueue'[j]
                 PROVE  i = j
      OBVIOUS
    <3>1. i \in Int /\ j \in Int /\ k \in Int OBVIOUS
    <3>2. CASE rxQueue'[i] = item /\ i = Len(rxQueue')
      <4>1. ~Used(p) BY <3>2
      <4>2. ~(j + k \in 1 .. Len(rxQueue) /\ rxQueue'[j] = rxQueue[j + k]) BY <4>1 DEF Used
      <4> QED BY <2>2, <3>2, <4>2
    <3>3. CASE i + k \in 1 .. Len(rxQueue) /\ rxQueue'[i] = rxQueue[i + k]
      <4>1. Used(p) BY <3>3 DEF Used
      <4>2. p \notin item BY <4>1
      <4>3. j + k \in 1 .. Len(rxQueue) /\ rxQueue'[j] = rxQueue[j + k] BY <2>2, <4>2
      <4>4. i + k = j + k BY <1>0, <3>3, <4>3
      <4> QED BY <3>1, <4>4
    <3> QED BY <2>2, <3>2, <3>3
  <2>4. \A i \in 1 .. Len(rxQueue') : \A p \in rxQueue'[i] : \A d \in delivered' : p \notin d
    BY <1>0, <2>1, <2>2 DEF Used
  <2>5. PayloadsApart' BY <1>0, <2>1, <2>3, <2>4 DEF PayloadsApart
  <2> QED BY <2>1, <2>2, <2>5 DEF Used
<1> QED BY <1>1, <1>2 DEF Ctx

\* Leaving the code: the places of packets only get fewer.
LEMMA OnceLeaving ==
  ASSUME TypeInv, NEW c \in Ctx, NEW b \in Buffers, NEW l \in Labels \ Held,
         \A k \in Keys : b[k] \in {buffers[k], NoSlot}, EndPacket(c, b, l)
  PROVE  /\ \A d \in Ctx : pc'[d] \in Held => /\ d # c /\ pc[d] \in Held
                                              /\ loc'[d].pkt = loc[d].pkt
         /\ \A s \in Slots : heap'[s].parts \subseteq heap[s].parts
         /\ \A k \in Keys : buffers'[k] \in {buffers[k], NoSlot}
         /\ buffers' = b
<1>1. \A d \in Ctx : /\ d = c => pc'[d] = l
                     /\ d # c => pc'[d] = pc[d] /\ loc'[d] = loc[d]
  BY TypeParts DEF EndPacket, Goto
<1>2. \A s \in Slots : heap'[s].parts \subseteq heap[s].parts
  BY DEF EndPacket, Reachable, NoBuffer, NewBuffer
<1>3. buffers' = b BY DEF EndPacket
<1> QED BY <1>1, <1>2, <1>3

LEMMA OnceMainLoop ==
  ASSUME TypeInv, TypeInv', OnceInv,
         \/ WaitOver \/ PumpRaises \/ RecvFallback \/ IrqEnter \/ Tick \/ UNCHANGED vars
         \/ \E c \in Ctx : \/ IrecvNothing(c) \/ ExpireCollect(c) \/ Lookup(c) \/ Complete(c)
  PROVE  OnceInv'
<1>0. pc \in [Ctx -> Labels] /\ loc \in [Ctx -> Local] /\ heap \in Heap BY TypeParts
<1>1. CASE WaitOver \/ PumpRaises \/ RecvFallback \/ IrqEnter \/ UNCHANGED vars
  <2>1. /\ UNCHANGED <<arrived, fifo, rxQueue, delivered, twice, heap, buffers, loc>>
        /\ \A d \in Ctx : pc'[d] \in Held => pc'[d] = pc[d]
    BY <1>0, <1>1 DEF WaitOver, PumpRaises, RecvFallback, IrqEnter, Goto, vars, store, radio, history, Held
  <2> QED BY <2>1, OnceQuiet
<1>2. CASE Tick
  <2>1. \A s \in Slots : heap'[s].parts = heap[s].parts BY <1>0, <1>2 DEF Tick, Heap, Buffer
  <2>2. UNCHANGED <<arrived, fifo, rxQueue, delivered, twice, buffers, pc, loc>>
    BY <1>2 DEF Tick, radio, history
  <2> QED BY <2>1, <2>2, OnceQuiet
<1>3. ASSUME NEW c \in Ctx, IrecvNothing(c) \/ ExpireCollect(c) \/ Lookup(c) \/ Complete(c)
      PROVE  OnceInv'
  <2>1. UNCHANGED <<arrived, fifo, rxQueue, delivered, twice, heap, buffers>>
    BY <1>3 DEF IrecvNothing, ExpireCollect, Lookup, Complete, store, radio, history
  <2>2. CASE IrecvNothing(c) \/ Complete(c)
    <3>1. loc' = loc /\ \A d \in Ctx : pc'[d] \in Held => pc'[d] = pc[d]
      BY <1>0, <2>2 DEF IrecvNothing, Complete, Goto, Held
    <3> QED BY <2>1, <3>1, OnceQuiet
  <2>3. CASE ExpireCollect(c) \/ Lookup(c)
    <3>1. /\ pc[c] \in Held
          /\ \A d \in Ctx : loc'[d].pkt = loc[d].pkt /\ (d # c => pc'[d] = pc[d])
      BY <1>0, <2>3 DEF ExpireCollect, Lookup, At, Goto, Held, Local
    <3> QED BY <2>1, <3>1, OnceQuiet
  <2> QED BY <1>3, <2>2, <2>3
<1> QED BY <1>1, <1>2, <1>3

LEMMA OncePurge ==
  ASSUME TypeInv, TypeInv', OnceInv, NEW c \in Ctx, ExpirePurge(c)
  PROVE  OnceInv'
<1>0. pc \in [Ctx -> Labels] /\ loc \in [Ctx -> Local] /\ buffers \in Buffers BY TypeParts
<1>1. PICK del \in SUBSET {k \in loc[c].stale : buffers[k] # NoSlot} :
        LET left == [k \in Keys |-> IF k \in del THEN NoSlot ELSE buffers[k]]
        IN IF del = loc[c].stale
             THEN /\ Goto(c, "lookup")
                  /\ loc' = [loc EXCEPT ![c].stale = {}]
                  /\ buffers' = left
                  /\ heap' = Reachable(heap, left, loc)
                  /\ UNCHANGED <<rxQueue, delivered, twice>>
             ELSE Raise(c, left)
  BY DEF ExpirePurge
<1> DEFINE left == [k \in Keys |-> IF k \in del THEN NoSlot ELSE buffers[k]]
<1>2. left \in Buffers /\ \A k \in Keys : left[k] \in {buffers[k], NoSlot}
  BY <1>0 DEF Buffers
<1>3. UNCHANGED <<arrived, fifo>> BY DEF ExpirePurge, radio
<1>4. CASE Raise(c, left)
  <2>1. PICK l \in {"wait", "idle", "dead"} : EndPacket(c, left, l)
    BY <1>4 DEF Raise, AfterException
  <2>2. l \in Labels \ Held BY DEF Labels, Held
  <2>3. UNCHANGED <<rxQueue, delivered, twice>> BY <1>4 DEF Raise
  <2> QED BY <1>2, <1>3, <2>1, <2>2, <2>3, OnceLeaving, OnceQuiet
<1>5. CASE /\ Goto(c, "lookup")
           /\ loc' = [loc EXCEPT ![c].stale = {}]
           /\ buffers' = left
           /\ heap' = Reachable(heap, left, loc)
           /\ UNCHANGED <<rxQueue, delivered, twice>>
  <2>1. \A s \in Slots : heap'[s].parts \subseteq heap[s].parts
    BY <1>5 DEF Reachable, NoBuffer, NewBuffer
  <2>2. pc[c] = "purge" BY DEF ExpirePurge, At
  <2>3. \A d \in Ctx : loc'[d].pkt = loc[d].pkt /\ (d # c => pc'[d] = pc[d])
    BY <1>0, <1>5 DEF Goto, Local
  <2> QED BY <1>2, <1>3, <1>5, <2>1, <2>2, <2>3, OnceQuiet DEF Held
<1> QED BY <1>1, <1>4, <1>5

LEMMA OnceIrecv ==
  ASSUME TypeInv, TypeInv', OnceInv, NEW c \in Ctx, Irecv(c)
  PROVE  OnceInv'
<1>0. pc \in [Ctx -> Labels] /\ loc \in [Ctx -> Local] /\ fifo \in Seq(Packet)
  BY TypeParts DEF RadioOK
<1>1. /\ fifo # << >> /\ fifo' = Tail(fifo)
      /\ pc' = [pc EXCEPT ![c] = "collect"] /\ loc' = [loc EXCEPT ![c].pkt = Head(fifo)]
      /\ UNCHANGED <<arrived, rxQueue, delivered, twice, heap, buffers>>
  BY DEF Irecv, Goto, store, history
<1> DEFINE q == fifo[1]
<1>2. /\ q \in Packet /\ Waits(q) /\ 1 \in 1 .. Len(fifo)
      /\ \A i \in 1 .. Len(fifo') : /\ i + 1 \in 1 .. Len(fifo) /\ i + 1 # 1
                                    /\ fifo'[i] = fifo[i + 1]
  BY <1>0, <1>1 DEF Waits
<1>3. \A p \in Packet : Waits(p)' => Waits(p) /\ p # q
  BY <1>2 DEF Waits, OnceInv, Apart
<1>4. \A d \in Ctx : /\ d = c => loc'[d].pkt = q
                     /\ d # c => pc'[d] = pc[d] /\ loc'[d] = loc[d]
  BY <1>0, <1>1 DEF Local
<1>5. \A p \in Packet : \A d \in Ctx : InHand(d, p)' =>
        (d = c /\ p = q) \/ (d # c /\ p # q /\ InHand(d, p))
  BY <1>2, <1>4 DEF InHand, OnceInv, Apart
<1>6. \A p \in Packet : Used(p)' <=> Used(p) BY <1>1 DEF Used
<1>7. Apart'
  <2>1. \A i, j \in 1 .. Len(fifo') : fifo'[i] = fifo'[j] => i = j
    <3> SUFFICES ASSUME NEW i \in 1 .. Len(fifo'), NEW j \in 1 .. Len(fifo'),
                        fifo'[i] = fifo'[j]
                 PROVE  i = j
      OBVIOUS
    <3>1. i + 1 = j + 1 BY <1>2 DEF OnceInv, Apart
    <3> QED BY <3>1
  <2>2. \A p \in Packet : Waits(p)' \/ (\E d \in Ctx : InHand(d, p)') =>
          p \in arrived' /\ ~Used(p)' /\ \A s \in Slots : p \notin heap'[s].parts
    BY <1>1, <1>2, <1>3, <1>5, <1>6 DEF OnceInv, Apart
  <2>3. \A p \in Packet : \A d \in Ctx : InHand(d, p)' =>
          ~Waits(p)' /\ \A e \in Ctx : InHand(e, p)' => d = e
    BY <1>3, <1>5 DEF OnceInv, Apart
  <2>4. \A s \in Slots : \A p \in heap'[s].parts : p \in arrived' /\ ~IsRaw(p)
    BY <1>1 DEF OnceInv, Apart
  <2> QED BY <2>1, <2>2, <2>3, <2>4 DEF Apart
<1>8. PayloadsApart' BY <1>1 DEF OnceInv, PayloadsApart
<1>9. KeysGone' BY <1>1, <1>6 DEF OnceInv, KeysGone
<1> QED BY <1>1, <1>7, <1>8, <1>9 DEF OnceInv

LEMMA OnceRecvQueued ==
  ASSUME TypeInv, TypeInv', PayloadsSound, OnceInv, RecvQueued
  PROVE  OnceInv'
<1>0. rxQueue \in Seq(Payload) BY TypeParts DEF QueueOK
<1> DEFINE head == rxQueue[1]
<1>1. /\ rxQueue # << >> /\ rxQueue' = Tail(rxQueue)
      /\ delivered' = delivered \cup {head} /\ twice' = (twice \/ head \in delivered)
      /\ UNCHANGED <<arrived, fifo, buffers, heap, loc>>
      /\ \A c \in Ctx : pc'[c] # pc[c] => pc[c] \notin Held /\ pc'[c] \notin Held
  BY <1>0, RecvQueuedMoves DEF RecvQueued, HandOver, radio, Held
<1>2. /\ 1 \in 1 .. Len(rxQueue)
      /\ \A i \in 1 .. Len(rxQueue') : /\ i \in Int /\ i + 1 \in 1 .. Len(rxQueue) /\ i + 1 # 1
                                       /\ rxQueue'[i] = rxQueue[i + 1]
  BY <1>0, <1>1
<1>3. \E p \in head : TRUE BY <1>2 DEF PayloadsSound, SoundPayload
<1>4. head \notin delivered BY <1>2, <1>3 DEF OnceInv, PayloadsApart
<1>5. \A p : Used(p)' => Used(p) BY <1>1, <1>2 DEF Used
<1>6. PayloadsApart'
  <2>1. \A i, j \in 1 .. Len(rxQueue') : \A p \in rxQueue'[i] : p \in rxQueue'[j] => i = j
    <3> SUFFICES ASSUME NEW i \in 1 .. Len(rxQueue'), NEW j \in 1 .. Len(rxQueue'),
                        NEW p \in rxQueue'[i], p \in rxQueue'[j]
                 PROVE  i = j
      OBVIOUS
    <3>1. i + 1 = j + 1 BY <1>2 DEF OnceInv, PayloadsApart
    <3> QED BY <1>2, <3>1
  <2>2. \A i \in 1 .. Len(rxQueue') : \A p \in rxQueue'[i] : \A d \in delivered' : p \notin d
    BY <1>1, <1>2 DEF OnceInv, PayloadsApart
  <2>3. ~twice' BY <1>1, <1>4 DEF OnceInv, PayloadsApart
  <2> QED BY <2>1, <2>2, <2>3 DEF PayloadsApart
<1>7. Apart'
  <2>1. \A p \in Packet : Waits(p)' <=> Waits(p) BY <1>1 DEF Waits
  <2>2. \A p \in Packet : \A c \in Ctx : InHand(c, p)' <=> InHand(c, p) BY <1>1 DEF InHand
  <2> QED BY <1>1, <1>5, <2>1, <2>2 DEF OnceInv, Apart
<1>8. KeysGone' BY <1>1, <1>5 DEF OnceInv, KeysGone
<1> QED BY <1>1, <1>6, <1>7, <1>8 DEF OnceInv

\* A packet that arrives is new: nothing is repeated.
LEMMA OnceArrive ==
  ASSUME TypeInv, TypeInv', OnceInv, Pristine, dups' = dups, Arrive
  PROVE  OnceInv'
<1>0. fifo \in Seq(Packet) /\ dups \in Nat BY TypeParts DEF RadioOK
<1>1. PICK q \in Packet :
        /\ q.msg.era = era[q.msg.src] /\ fifo' = Append(fifo, q)
        /\ \/ q \notin arrived /\ arrived' = arrived \cup {q}
           \/ dups' = dups + 1
  BY DEF Arrive
<1>2. UNCHANGED <<rxQueue, delivered, twice, buffers, heap, pc, loc>>
  BY DEF Arrive, store, history
<1>3. q \notin arrived /\ arrived' = arrived \cup {q}
  <2>1. dups' # dups + 1 BY <1>0
  <2> QED BY <1>1, <2>1
<1>4. q.msg.era = 0 BY <1>1, PacketType DEF Pristine
<1>5. ~Used(q) /\ ~Waits(q) /\ (\A c \in Ctx : ~InHand(c, q))
      /\ \A s \in Slots : q \notin heap[s].parts
  BY <1>3 DEF OnceInv, Apart, KeysGone
<1>6. /\ Len(fifo') = Len(fifo) + 1 /\ fifo'[Len(fifo')] = q
      /\ \A i \in 1 .. Len(fifo') : \/ i \in 1 .. Len(fifo) /\ fifo'[i] = fifo[i]
                                    \/ i = Len(fifo') /\ fifo'[i] = q
  BY <1>0, <1>1
<1>7. \A p \in Packet : Waits(p)' => p = q \/ Waits(p) BY <1>6 DEF Waits
<1>8. \A p \in Packet : Used(p)' <=> Used(p) BY <1>2 DEF Used
<1>9. \A p \in Packet : \A c \in Ctx : InHand(c, p)' <=> InHand(c, p) BY <1>2 DEF InHand
<1>10. Apart'
  <2>1. \A i, j \in 1 .. Len(fifo') : fifo'[i] = fifo'[j] => i = j
    BY <1>5, <1>6 DEF OnceInv, Apart, Waits
  <2>2. \A p \in Packet : Waits(p)' \/ (\E d \in Ctx : InHand(d, p)') =>
          p \in arrived' /\ ~Used(p)' /\ \A s \in Slots : p \notin heap'[s].parts
    BY <1>2, <1>3, <1>5, <1>7, <1>8, <1>9 DEF OnceInv, Apart
  <2>3. \A p \in Packet : \A d \in Ctx : InHand(d, p)' =>
          ~Waits(p)' /\ \A e \in Ctx : InHand(e, p)' => d = e
    BY <1>5, <1>7, <1>9 DEF OnceInv, Apart
  <2>4. \A s \in Slots : \A p \in heap'[s].parts : p \in arrived' /\ ~IsRaw(p)
    BY <1>2, <1>3 DEF OnceInv, Apart
  <2> QED BY <2>1, <2>2, <2>3, <2>4 DEF Apart
<1>11. PayloadsApart' BY <1>2 DEF OnceInv, PayloadsApart
<1>12. KeysGone' BY <1>2, <1>3, <1>8 DEF OnceInv, KeysGone
<1> QED BY <1>3, <1>4, <1>10, <1>11, <1>12 DEF OnceInv

\* The packet of a new buffer is not used, so no payload has its key: a payload
\* of the same key would be of the same message, and whole.
LEMMA KeyUnused ==
  ASSUME TypeInv, PayloadsSound, OnceInv, NEW c \in Ctx, NEW p \in Packet, InHand(c, p),
         NEW q \in Packet, Used(q), ~IsRaw(q)
  PROVE  Key(q) # Key(p)
<1>1. p \in arrived /\ ~Used(p) /\ q \in arrived BY DEF OnceInv, Apart, KeysGone
<1>2. p.msg.era = 0 /\ q.msg.era = 0 BY <1>1 DEF OnceInv
<1> SUFFICES ASSUME Key(q) = Key(p) PROVE FALSE
  OBVIOUS
<1>3. q.msg = p.msg BY <1>2, PacketType, RxAssumption DEF Key
<1>4. PICK d \in Payload : q \in d /\ SoundPayload(d) /\ \A r \in d : Used(r)
  <2>1. rxQueue \in Seq(Payload) /\ delivered \subseteq Payload BY TypeParts DEF QueueOK
  <2>2. CASE \E d \in delivered : q \in d BY <2>1, <2>2 DEF PayloadsSound, Used
  <2>3. CASE \E i \in 1 .. Len(rxQueue) : q \in rxQueue[i]
    <3>1. PICK i \in 1 .. Len(rxQueue) : q \in rxQueue[i] BY <2>3
    <3>2. rxQueue[i] \in Payload /\ SoundPayload(rxQueue[i]) /\ \A r \in rxQueue[i] : Used(r)
      BY <2>1 DEF PayloadsSound, Used
    <3> QED BY <3>1, <3>2
  <2> QED BY <2>2, <2>3 DEF Used
<1>5. p.index \in {r.index : r \in d}
  <2>1. {r.index : r \in d} = 0 .. q.msg.total - 1 BY <1>4 DEF SoundPayload
  <2>2. p.index \in 0 .. p.msg.total - 1 \/ p.index = 0
    BY DEF Packet
  <2>3. 0 \in 0 .. q.msg.total - 1
    <3>1. q.index \in 0 .. q.msg.total - 1 BY <1>4, <2>1
    <3> QED BY <3>1, PacketType
  <2> QED BY <1>3, <2>1, <2>2, <2>3
<1>6. PICK r \in d : r.index = p.index BY <1>5
<1>7. r.msg = p.msg
  <2>1. Key(r) = Key(q) BY <1>4, <1>6 DEF SoundPayload, Key
  <2>2. Used(r) /\ r \in Packet BY <1>4, <1>6 DEF Payload
  <2>3. r.msg.era = 0 BY <2>2 DEF OnceInv, KeysGone
  <2> QED BY <1>2, <2>1, <2>2, <2>3, PacketType, RxAssumption DEF Key
<1>8. r = p
  <2>1. r \in Packet BY <1>4, <1>6 DEF Payload
  <2>2. \A x \in Packet : x = [msg |-> x.msg, index |-> x.index] BY DEF Packet
  <2> QED BY <1>6, <1>7, <2>1, <2>2
<1> QED BY <1>1, <1>4, <1>8

LEMMA OnceCreate ==
  ASSUME TypeInv, TypeInv', PayloadsSound, OnceInv, NEW c \in Ctx, Create(c)
  PROVE  OnceInv'
<1> DEFINE p == loc[c].pkt
           s == CHOOSE t \in FreeSlots : TRUE
<1>0. pc \in [Ctx -> Labels] /\ loc \in [Ctx -> Local] /\ heap \in Heap /\ buffers \in Buffers
  BY TypeParts
<1>1. /\ pc[c] = "create" /\ pc' = [pc EXCEPT ![c] = "store"]
      /\ FreeSlots # {} /\ buffers' = [buffers EXCEPT ![Key(p)] = s]
      /\ loc' = [loc EXCEPT ![c].slot = s]
      /\ heap' = Reachable([heap EXCEPT ![s] = NewBuffer(p.msg.total)], buffers', loc')
      /\ UNCHANGED <<rxQueue, arrived, fifo, delivered, twice>>
  BY DEF Create, At, Goto, radio
<1>2. s \in Slots BY <1>1, FreeSlotType
<1> HIDE DEF s
<1>3. p \in Packet /\ InHand(c, p)
  BY <1>1 DEF TypeInv, LocalsOK, Handling, InHand, Held
<1>4. \A t \in Slots : heap'[t].parts \subseteq heap[t].parts
  BY <1>0, <1>1, <1>2 DEF Reachable, Heap, NewBuffer, NoBuffer
<1>5. \A d \in Ctx : loc'[d].pkt = loc[d].pkt /\ (d # c => pc'[d] = pc[d])
  BY <1>0, <1>1 DEF Local
<1>6. \A d \in Ctx : \A q \in Packet : InHand(d, q)' => InHand(d, q)
  BY <1>1, <1>5 DEF InHand, Held
<1>7. \A q \in Packet : (Used(q)' <=> Used(q)) /\ (Waits(q)' <=> Waits(q))
  BY <1>1 DEF Used, Waits
<1>8. Apart' BY <1>1, <1>4, <1>6, <1>7 DEF OnceInv, Apart
<1>9. PayloadsApart' BY <1>1 DEF OnceInv, PayloadsApart
<1>10. KeysGone'
  <2> SUFFICES ASSUME NEW q \in Packet, Used(q)'
               PROVE  q \in arrived' /\ (~IsRaw(q) => buffers'[Key(q)] = NoSlot)
    BY DEF KeysGone
  <2>1. q \in arrived /\ (~IsRaw(q) => buffers[Key(q)] = NoSlot)
    BY <1>7 DEF OnceInv, KeysGone
  <2>2. ~IsRaw(q) => Key(q) # Key(p) BY <1>3, <1>7, KeyUnused
  <2> QED BY <1>1, <2>1, <2>2
<1> QED BY <1>1, <1>8, <1>9, <1>10 DEF OnceInv

LEMMA OnceStore ==
  ASSUME TypeInv, TypeInv', OnceInv, NEW c \in Ctx, Store(c)
  PROVE  OnceInv'
<1> DEFINE p == loc[c].pkt
           s == loc[c].slot
           new == PutPart(heap[s].parts, p)
<1>0. pc \in [Ctx -> Labels] /\ loc \in [Ctx -> Local] /\ heap \in Heap
  BY TypeParts
<1>1. /\ pc[c] = "store" /\ pc' = [pc EXCEPT ![c] = "test"]
      /\ heap' = [heap EXCEPT ![s].parts = new, ![s].age = 0]
      /\ UNCHANGED <<rxQueue, arrived, fifo, delivered, twice, buffers, loc>>
  BY DEF Store, At, Goto, radio
<1>2. s \in Slots /\ p \in Packet /\ ~IsRaw(p) /\ InHand(c, p)
  BY <1>0, <1>1 DEF TypeInv, LocalsOK, Busy, Handling, Local, InHand, Held
<1>3. new \subseteq heap[s].parts \cup {p} BY DEF PutPart
<1> HIDE DEF new
<1>4. \A t \in Slots : heap'[t].parts \subseteq heap[t].parts \cup {p}
  BY <1>0, <1>1, <1>3 DEF Heap, Buffer
<1>5. \A d \in Ctx : \A q \in Packet : InHand(d, q)' => d # c /\ InHand(d, q)
  BY <1>0, <1>1 DEF InHand, Held
<1>6. \A q \in Packet : (Used(q)' <=> Used(q)) /\ (Waits(q)' <=> Waits(q))
  BY <1>1 DEF Used, Waits
<1>7. p \in arrived /\ ~Waits(p) /\ \A d \in Ctx : InHand(d, p) => d = c
  BY <1>2 DEF OnceInv, Apart
<1>8. Apart'
  <2>1. \A i, j \in 1 .. Len(fifo') : fifo'[i] = fifo'[j] => i = j
    BY <1>1 DEF OnceInv, Apart
  <2>2. \A q \in Packet : Waits(q)' \/ (\E d \in Ctx : InHand(d, q)') => q # p
    BY <1>5, <1>6, <1>7
  <2>3. \A q \in Packet : Waits(q)' \/ (\E d \in Ctx : InHand(d, q)') =>
          q \in arrived' /\ ~Used(q)' /\ \A t \in Slots : q \notin heap'[t].parts
    BY <1>1, <1>4, <1>5, <1>6, <2>2 DEF OnceInv, Apart
  <2>4. \A q \in Packet : \A d \in Ctx : InHand(d, q)' =>
          ~Waits(q)' /\ \A e \in Ctx : InHand(e, q)' => d = e
    BY <1>5, <1>6 DEF OnceInv, Apart
  <2>5. \A t \in Slots : \A q \in heap'[t].parts : q \in arrived' /\ ~IsRaw(q)
    BY <1>1, <1>2, <1>4, <1>7 DEF OnceInv, Apart
  <2> QED BY <2>1, <2>3, <2>4, <2>5 DEF Apart
<1>9. PayloadsApart' BY <1>1 DEF OnceInv, PayloadsApart
<1>10. KeysGone' BY <1>1, <1>6 DEF OnceInv, KeysGone
<1> QED BY <1>1, <1>8, <1>9, <1>10 DEF OnceInv

LEMMA OnceNothing ==
  ASSUME TypeInv, TypeInv', OnceInv, NEW c \in Ctx, Nothing(c, buffers) \/ Raise(c, buffers),
         UNCHANGED <<arrived, fifo>>
  PROVE  OnceInv'
<1>1. PICK l \in {"wait", "irecv", "idle", "dead"} : EndPacket(c, buffers, l)
  BY DEF Nothing, Raise, AfterException
<1>2. l \in Labels \ Held /\ buffers \in Buffers BY TypeParts DEF Labels, Held
<1>3. UNCHANGED <<rxQueue, delivered, twice>> BY DEF Nothing, Raise
<1> QED BY <1>1, <1>2, <1>3, OnceLeaving, OnceQuiet

\* A payload of packets that are not used, nowhere else, and of a deleted key.
LEMMA OnceSomething ==
  ASSUME TypeInv, TypeInv', OnceInv, NEW c \in Ctx, NEW b \in Buffers, NEW item \in Payload,
         Something(c, b, item), SoundPayload(item), UNCHANGED <<arrived, fifo>>,
         \A k \in Keys : b[k] \in {buffers[k], NoSlot},
         \A p \in item :
           /\ p \in arrived /\ ~Used(p) /\ ~Waits(p)
           /\ \A d \in Ctx : d # c => ~InHand(d, p)
           /\ ~IsRaw(p) => b[Key(p)] = NoSlot
  PROVE  OnceInv'
<1>1. PICK l \in {"take", "wait", "irecv"} : EndPacket(c, b, l)
  BY DEF Something, AfterPayload
<1>2. l \in Labels \ Held BY DEF Labels, Held
<1>3. /\ PayloadsApart'
      /\ \A p \in Packet : Used(p)' => Used(p) \/ p \in item
  BY OncePassed
<1>4. /\ \A d \in Ctx : pc'[d] \in Held => /\ d # c /\ pc[d] \in Held
                                           /\ loc'[d].pkt = loc[d].pkt
      /\ \A s \in Slots : heap'[s].parts \subseteq heap[s].parts
      /\ \A k \in Keys : buffers'[k] \in {buffers[k], NoSlot}
      /\ buffers' = b
  BY <1>1, <1>2, OnceLeaving
<1>5. \A d \in Ctx : \A p \in Packet : InHand(d, p)' => d # c /\ InHand(d, p)
  BY <1>4 DEF InHand
<1>6. \A p \in item :
        /\ p \in arrived /\ ~Waits(p) /\ \A d \in Ctx : ~InHand(d, p)'
        /\ ~IsRaw(p) => buffers'[Key(p)] = NoSlot
  BY <1>4, <1>5 DEF Payload
<1> QED BY <1>3, <1>4, <1>5, <1>6, OnceFrame

LEMMA OnceIngest ==
  ASSUME TypeInv, TypeInv', BufferInv, PayloadsSound, OnceInv, NEW c \in Ctx, Ingest(c)
  PROVE  OnceInv'
<1>0. /\ pc \in [Ctx -> Labels] /\ loc \in [Ctx -> Local] /\ heap \in Heap /\ buffers \in Buffers
      /\ \A k \in Keys : buffers[k] \in {buffers[k], NoSlot}
  BY TypeParts
<1>1. CASE TakeRaw(c)
  <2> DEFINE p == loc[c].pkt
  <2>1. p \in Packet /\ IsRaw(p) /\ InHand(c, p)
    BY <1>1 DEF TakeRaw, At, TypeInv, LocalsOK, Handling, InHand, Held
  <2>2. /\ Something(c, buffers, {p}) /\ UNCHANGED <<arrived, fifo>>
        /\ {p} \in Payload /\ SoundPayload({p})
    BY <1>1, <2>1, RawSound DEF TakeRaw, radio, Payload
  <2>3. \A q \in {p} : /\ q \in arrived /\ ~Used(q) /\ ~Waits(q)
                       /\ \A d \in Ctx : d # c => ~InHand(d, q)
                       /\ ~IsRaw(q) => buffers[Key(q)] = NoSlot
    BY <2>1 DEF OnceInv, Apart
  <2> QED BY <1>0, <2>2, <2>3, OnceSomething
<1>2. CASE Assemble(c)
  <2> DEFINE key == Key(loc[c].pkt)
             s == loc[c].slot
             P == heap[s].parts
             left == [buffers EXCEPT ![key] = NoSlot]
  <2>1. /\ pc[c] = "finish" /\ UNCHANGED <<arrived, fifo>>
        /\ \/ Nothing(c, buffers) \/ Raise(c, buffers)
           \/ buffers[key] # NoSlot /\ Something(c, left, P)
    BY <1>2 DEF Assemble, At, radio
  <2>2. CASE Nothing(c, buffers) \/ Raise(c, buffers) BY <2>1, <2>2, OnceNothing
  <2>3. CASE buffers[key] # NoSlot /\ Something(c, left, P)
    <3>1. SoundPayload(P) BY <2>1, AssembledSound
    <3>2. s \in Slots /\ loc[c].pkt \in Packet
      BY <1>0, <2>1 DEF TypeInv, LocalsOK, Busy, Handling, Local
    <3>3. P \in Payload /\ key \in Keys BY <1>0, <3>2, PacketType DEF Heap, Buffer
    <3>4. left \in Buffers /\ \A k \in Keys : left[k] \in {buffers[k], NoSlot}
      BY <1>0, <3>3 DEF Buffers
    <3>5. left[key] = NoSlot BY <1>0, <3>3 DEF Buffers
    <3>6. ASSUME NEW p \in P
          PROVE  /\ p \in arrived /\ ~Used(p) /\ ~Waits(p)
                 /\ \A d \in Ctx : ~InHand(d, p)
                 /\ left[Key(p)] = NoSlot
      <4>1. p \in Packet /\ p \in arrived /\ ~IsRaw(p)
        BY <3>2, <3>3, <3>6 DEF OnceInv, Apart, Payload
      <4>2. Key(p) = key
        <5>1. KeyOfSlot(s, key) BY DEF KeyOfSlot
        <5> QED BY <3>2, <3>3, <3>6, <5>1 DEF BufferInv, OneKey
      <4>3. ~Used(p) BY <2>3, <4>1, <4>2 DEF OnceInv, KeysGone
      <4>4. ~Waits(p) /\ \A d \in Ctx : ~InHand(d, p)
        BY <3>2, <3>6, <4>1 DEF OnceInv, Apart
      <4> QED BY <3>5, <4>1, <4>2, <4>3, <4>4
    <3> HIDE DEF left, P, key
    <3> QED BY <2>1, <2>3, <3>1, <3>3, <3>4, <3>6, OnceSomething
  <2> QED BY <2>1, <2>2, <2>3
<1>3. CASE Reject(c) \/ Incomplete(c)
  <2>1. Nothing(c, buffers) /\ UNCHANGED <<arrived, fifo>>
    BY <1>3 DEF Reject, Incomplete, radio
  <2> QED BY <2>1, OnceNothing
<1> QED BY <1>1, <1>2, <1>3, OnceMainLoop, OncePurge, OnceCreate, OnceStore DEF Ingest

LEMMA NextOnce ==
  TypeInv /\ BufferInv /\ PayloadsSound /\ Once /\ [Next]_vars => Once'
<1> SUFFICES ASSUME TypeInv, BufferInv, PayloadsSound, Once, [Next]_vars, Pristine'
             PROVE  OnceInv'
  BY DEF Once
<1>1. TypeInv' BY NextType
<1>2. Pristine /\ UNCHANGED <<dups, era>>
  <2>1. CASE PeerRestarts
    <3>1. PICK s \in Srcs : era' = [era EXCEPT ![s] = @ + 1] BY <2>1 DEF PeerRestarts
    <3>2. era \in [Srcs -> Nat] BY TypeParts DEF RadioOK
    <3>3. era[s] \in Nat /\ era'[s] = era[s] + 1 /\ era'[s] = 0 BY <3>1, <3>2 DEF Pristine
    <3> QED BY <3>3
  <2>2. CASE Arrive
    <3>1. era' = era /\ dups' \in {dups, dups + 1} BY <2>2 DEF Arrive
    <3>2. dups \in Nat /\ dups' = 0 BY TypeParts DEF RadioOK, Pristine
    <3> QED BY <3>1, <3>2 DEF Pristine
  <2>3. CASE UNCHANGED <<dups, era>> BY <2>3 DEF Pristine
  <2>4. ASSUME NEW c \in Ctx, Irecv(c) \/ IrecvNothing(c) \/ Ingest(c)
        PROVE  UNCHANGED <<dups, era>>
    BY <2>4 DEF Irecv, IrecvNothing, Ingest, ExpireCollect, ExpirePurge, TakeRaw, Reject, Lookup,
       Create, Store, Incomplete, Complete, Assemble, radio
  <2>5. CASE WaitOver \/ PumpRaises \/ RecvQueued \/ RecvFallback \/ IrqEnter \/ Tick
    <3>1. UNCHANGED <<dups, era>>
      BY <2>5 DEF WaitOver, PumpRaises, RecvQueued, RecvFallback, IrqEnter, Tick, radio
    <3> QED BY <2>3, <3>1
  <2>6. CASE UNCHANGED vars
    <3>1. UNCHANGED <<dups, era>> BY <2>6 DEF vars
    <3> QED BY <2>3, <3>1
  <2> QED BY <2>1, <2>2, <2>3, <2>4, <2>5, <2>6 DEF Next, MainStep, IrqStep, Ctx
<1>3. OnceInv BY <1>2 DEF Once
<1>4. ASSUME NEW c \in Ctx, Irecv(c) \/ IrecvNothing(c) \/ Ingest(c) PROVE OnceInv'
  BY <1>1, <1>3, <1>4, OnceIrecv, OnceMainLoop, OnceIngest
<1>5. CASE \/ WaitOver \/ PumpRaises \/ RecvQueued \/ RecvFallback \/ IrqEnter \/ Tick \/ Arrive
           \/ UNCHANGED vars
  BY <1>1, <1>2, <1>3, <1>5, OnceMainLoop, OnceRecvQueued, OnceArrive
<1>6. CASE PeerRestarts
  <2>1. PICK s \in Srcs : era' = [era EXCEPT ![s] = @ + 1] BY <1>6 DEF PeerRestarts
  <2>2. era \in [Srcs -> Nat] BY TypeParts DEF RadioOK
  <2>3. era[s] \in Nat /\ era'[s] = era[s] + 1 BY <2>1, <2>2
  <2> QED BY <1>2, <2>3
<1> QED BY <1>4, <1>5, <1>6 DEF Next, MainStep, IrqStep, Ctx

\* Without repeated packets and restarts no payload is handed over twice, although
\* both contexts can find the same buffer full: the key is deleted with the first
\* payload, the slower context fails to delete it, and no fragment of the message
\* is left to make a new buffer (_ingest_rx_packet).
THEOREM DeliveredOnce == Spec => []AtMostOnce
<1>1. Init => Once
  BY DEF Init, Once, OnceInv, Apart, PayloadsApart, KeysGone, Used, Waits, InHand, Held, Ctx,
         NoBuffer, NewBuffer
<1>2. TypeInv /\ Once => AtMostOnce
  <2> SUFFICES ASSUME TypeInv, OnceInv \/ ~Pristine, twice
               PROVE  dups > 0 \/ \E s \in Srcs : era[s] > 0
    BY DEF Once, AtMostOnce
  <2>1. dups \in Nat /\ era \in [Srcs -> Nat] BY TypeParts DEF RadioOK
  <2>2. ~Pristine BY DEF OnceInv, PayloadsApart
  <2> QED BY <2>1, <2>2 DEF Pristine
<1>3. Init => PayloadsSound BY DEF Init, PayloadsSound
<1>4. TypeInv /\ BufferInv /\ PayloadsSound /\ [Next]_vars
        => (TypeInv /\ BufferInv /\ PayloadsSound)'
  BY NextType, NextBuffers, NextSound
<1> QED BY <1>1, <1>2, <1>3, <1>4, InitType, InitBuffers, NextOnce, PTL DEF Spec
=============================================================================
