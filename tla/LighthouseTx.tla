---------------------------- MODULE LighthouseTx ----------------------------
(***************************************************************************)
(* The transmit side of LighthouseMesh: the queue of fragments, the pump   *)
(* that hands them to the ESP-NOW driver one at a time, and the completion *)
(* tracking that reads the driver's statistics.                            *)
(*                                                                         *)
(* Two contexts run this code.  "main" is the asyncio thread: it sends     *)
(* messages and pumps from the run loop.  "irq" is the ESP-NOW callback,   *)
(* which the port schedules between two bytecodes of main: it pre-empts    *)
(* main anywhere, is never nested, and main stands still while it runs.    *)
(* The code is therefore cut at every access of shared state, and each     *)
(* piece is one action of either context: a counter's += is a load and a   *)
(* store, and the statistics are compared and remembered one by one.       *)
(*                                                                         *)
(* External: the driver, which takes a frame (or raises) and later may or  *)
(* may not count a response and perhaps a failure for it.                  *)
(***************************************************************************)
EXTENDS Integers, Sequences, FiniteSets, SequencesExt

CONSTANTS
  QueueMax,     \* _TX_QUEUE_MAX_FRAMES (96)
  FragPayload,  \* _FRAG_PAYLOAD_MAX_BYTES (233)
  MaxTotal,     \* the largest fragment count the header's byte allows (255)
  IdMod,        \* message ids are counted modulo this (2^16)
  Lengths,      \* lengths of the fragmented messages the application sends
  IrqPorts,     \* the ports considered: is the receive callback delivered?
  RunLoop,      \* is LighthouseMesh.run a task of this program?
  MaxFrames,    \* bound, per port: fragments accepted in one behaviour
  MaxDirect,    \* bound, per port: unfragmented messages sent in one behaviour
  MaxFails      \* bound: failed deliveries in one behaviour

ASSUME TxAssumption ==
  /\ QueueMax \in Nat \ {0}
  /\ FragPayload \in Nat \ {0}
  /\ MaxTotal \in Nat \ {0}
  /\ IdMod \in Nat \ {0}
  /\ Lengths \subseteq {n \in Nat : n > FragPayload}
  /\ IrqPorts \subseteq BOOLEAN
  /\ RunLoop \in BOOLEAN
  /\ MaxFrames \in [BOOLEAN -> Nat]
  /\ MaxDirect \in [BOOLEAN -> Nat]
  /\ MaxFails \in Nat

VARIABLES
  txQueue,      \* _tx_queue
  inflight,     \* _tx_inflight, NoFrame for None
  late,         \* more than _TX_ACK_TIMEOUT_MS have passed since it was sent
  stat,         \* _tx_stat_tx_responses and _tx_stat_tx_failures
  msgId,        \* _tx_message_id
  cnt,          \* the _tx_* counters, and how many unfragmented messages were sent
  irqOn,        \* the callback is delivered
  runAlive,     \* the run-loop task exists and has not died of an exception
  pc,           \* where each context is
  loc,          \* the pump's locals in each context
  build,        \* locals of send_raw and _send_fragmented; op tells who called the pump
  drv,          \* external: the driver's response and failure counters
  outstanding,  \* external: frames the driver holds, unanswered so far
  hist,         \* history: fragments accepted, on the air, discarded with a log line
  torn          \* history: what the callback has found main in the middle of

core == <<txQueue, inflight, late, stat, msgId, cnt>>
driver == <<drv, outstanding, irqOn, torn>>
vars == <<txQueue, inflight, late, stat, msgId, cnt, irqOn, runAlive, pc, loc, build,
          drv, outstanding, hist, torn>>

Ctx == {"main", "irq"}
Counters == {"queued", "sent", "ok", "failed", "timeout"}
\* At the label of a counter it is loaded, at the one with a + it is stored.
Labels == {"idle", "enq", "enqdrop", "enqapp", "queued", "queued+",
           "stats", "delta", "deltafail", "settle", "settlefail", "test", "take", "clear",
           "ok", "ok+", "failed", "failed+",
           "check", "elapsed", "expire", "lapse", "timeout", "timeout+",
           "nonempty", "peek", "send", "drop", "pop", "sent", "sent+", "mark"}

Frame == [id : 0 .. IdMod - 1, total : 2 .. MaxTotal, index : 0 .. MaxTotal - 1]
NoFrame == [id |-> 0, total |-> 0, index |-> 0]
Direct == [id |-> 0, total |-> 1, index |-> 0]   \* an unfragmented message
Stats == [resp : Nat, fail : Nat]
\* The statistics read, whether either of them grew, whether there was a frame in
\* flight to take, the frame to send, and the value of a counter.
NoLocals == [snap |-> [resp |-> 0, fail |-> 0], grew |-> FALSE, failed |-> FALSE,
             done |-> FALSE, frame |-> NoFrame, reg |-> 0]

\* Number of fragments of a payload of len bytes.
FragTotal(len) == (len + FragPayload - 1) \div FragPayload

-----------------------------------------------------------------------------
Init ==
  /\ txQueue = << >>
  /\ inflight = NoFrame
  /\ late = FALSE
  /\ drv = [resp |-> 0, fail |-> 0] /\ stat = drv
  /\ msgId = 0
  /\ cnt = [k \in Counters \cup {"direct"} |-> 0]
  /\ irqOn \in IrqPorts
  /\ runAlive = RunLoop
  /\ pc = [c \in Ctx |-> "idle"]
  /\ loc = [c \in Ctx |-> NoLocals]
  /\ build = [op |-> "none", id |-> 0, total |-> 0, index |-> 0]
  /\ outstanding = << >>
  /\ hist = [accepted |-> << >>, air |-> << >>, discarded |-> << >>]
  /\ torn = {}

\* Context c stands at label l and may run: main does not run under the irq.
At(c, l) == pc[c] = l /\ (c = "main" => pc["irq"] = "idle")
Goto(c, l) == pc' = [pc EXCEPT ![c] = l]

\* Go on at label l, and leave the code: its locals are gone.
Continue(c, l) == Goto(c, l) /\ UNCHANGED <<runAlive, loc>>
Leave(c) == Goto(c, "idle") /\ loc' = [loc EXCEPT ![c] = NoLocals]
Return(c) == Leave(c) /\ UNCHANGED runAlive

\* An exception leaves the pump.  In the callback the port prints it; send_raw
\* logs it and passes it to its caller; nothing catches it in the run loop.
Raise(c) ==
  /\ Leave(c)
  /\ runAlive' = (runAlive /\ ~(c = "main" /\ build.op = "wait"))

-----------------------------------------------------------------------------
(* The ways into the code.                                                 *)

\* One of the two pump calls of _wait_for_rx, in the run loop.
WaitPump ==
  /\ At("main", "idle") /\ runAlive
  /\ Goto("main", "stats")
  /\ build' = [build EXCEPT !.op = "wait"]
  /\ UNCHANGED <<core, runAlive, loc, driver, hist>>

\* Main stands between the load and the store of _tx_sent_frames, or between the
\* comparison of the statistics and the last store of what it has seen.
Tearing ==
  (IF pc["main"] = "sent+" THEN {"sent"} ELSE {})
    \cup (IF pc["main"] \in {"deltafail", "settle", "settlefail"} THEN {"stats"} ELSE {})

\* The ESP-NOW callback, after its drain of the receive FIFO (LighthouseRx).
IrqPump ==
  /\ irqOn
  /\ At("irq", "idle")
  /\ Goto("irq", "stats")
  /\ torn' = torn \cup Tearing
  /\ UNCHANGED <<core, runAlive, loc, build, drv, outstanding, irqOn, hist>>

\* send_raw of a payload that fits one packet: it goes around the queue.
SendDirect ==
  /\ At("main", "idle")
  /\ cnt["direct"] < MaxDirect[irqOn]
  /\ outstanding' = Append(outstanding, Direct)
  /\ cnt' = [cnt EXCEPT !["direct"] = @ + 1]
  /\ UNCHANGED <<txQueue, inflight, late, stat, msgId, runAlive, pc, loc, build, drv, irqOn,
                 hist, torn>>

\* send_raw of a longer payload: take a message id and start queueing.
SendFragmented ==
  /\ At("main", "idle")
  /\ \E len \in Lengths :
       LET total == FragTotal(len)
           id == (msgId + 1) % IdMod
       IN /\ total <= MaxTotal
          /\ Len(hist.accepted) + total <= MaxFrames[irqOn]
          /\ msgId' = id
          /\ build' = [op |-> "frag", id |-> id, total |-> total, index |-> 0]
  /\ Goto("main", "enq")
  /\ UNCHANGED <<txQueue, inflight, late, stat, cnt, runAlive, loc, driver, hist>>

-----------------------------------------------------------------------------
(* self.<counter> += 1, in two pieces.                                     *)

\* Load counter k, which label k stands for, and go on at l to store it.
Load(c, k, l) ==
  /\ At(c, k)
  /\ loc' = [loc EXCEPT ![c].reg = cnt[k]]
  /\ Goto(c, l)

CountLoad(c) ==
  /\ \/ Load(c, "queued", "queued+") \/ Load(c, "sent", "sent+") \/ Load(c, "ok", "ok+")
     \/ Load(c, "failed", "failed+") \/ Load(c, "timeout", "timeout+")
  /\ UNCHANGED <<core, runAlive, build, driver, hist>>

Store(c, k) ==
  /\ cnt' = [cnt EXCEPT ![k] = loc[c].reg + 1]
  /\ UNCHANGED <<txQueue, inflight, late, stat, msgId, build, driver, hist>>

\* Go on at label l with locals that are no longer used gone.
Proceed(c, l) == Goto(c, l) /\ loc' = [loc EXCEPT ![c] = NoLocals] /\ UNCHANGED runAlive

-----------------------------------------------------------------------------
(* _enqueue_tx_frame: test for overflow, drop the oldest, append, count.   *)

\* Mutant: the overflow test is off by one.
EnqTestOffByOne ==
  /\ At("main", "enq")
  /\ Goto("main", IF Len(txQueue) > QueueMax THEN "enqdrop" ELSE "enqapp")
  /\ UNCHANGED <<core, runAlive, loc, build, driver, hist>>

EnqTest ==
  /\ At("main", "enq")
  /\ Goto("main", IF Len(txQueue) >= QueueMax THEN "enqdrop" ELSE "enqapp")
  /\ UNCHANGED <<core, runAlive, loc, build, driver, hist>>

EnqDropOldest ==
  /\ At("main", "enqdrop")
  /\ IF txQueue = << >>
       THEN Raise("main") /\ UNCHANGED <<txQueue, hist>>
       ELSE /\ txQueue' = Tail(txQueue)
            /\ hist' = [hist EXCEPT !.discarded = Append(@, Head(txQueue))]
            /\ Continue("main", "enqapp")
  /\ UNCHANGED <<inflight, late, stat, msgId, cnt, build, driver>>

EnqAppend ==
  /\ At("main", "enqapp")
  /\ LET frame == [id |-> build.id, total |-> build.total, index |-> build.index]
     IN /\ txQueue' = Append(txQueue, frame)
        /\ hist' = [hist EXCEPT !.accepted = Append(@, frame)]
  /\ build' = [build EXCEPT !.index = @ + 1]
  /\ Continue("main", "queued")
  /\ UNCHANGED <<inflight, late, stat, msgId, cnt, driver>>

\* Back in _send_fragmented: the next fragment, or the pump.
EnqCounted ==
  /\ At("main", "queued+")
  /\ Store("main", "queued")
  /\ Proceed("main", IF build.index < build.total THEN "enq" ELSE "stats")

-----------------------------------------------------------------------------
(* _update_tx_completion: read the statistics, compare them with the last  *)
(* ones seen, and credit whatever they grew by to the frame in flight.     *)

ReadStats(c) ==
  /\ At(c, "stats")
  /\ loc' = [loc EXCEPT ![c].snap = drv]
  /\ Goto(c, "delta")
  /\ UNCHANGED <<core, runAlive, build, driver, hist>>

\* Negative deltas count as zero, so only growth is a completion.
CompareResponses(c) ==
  /\ At(c, "delta")
  /\ loc' = [loc EXCEPT ![c].grew = loc[c].snap.resp > stat.resp]
  /\ Goto(c, "deltafail")
  /\ UNCHANGED <<core, runAlive, build, driver, hist>>

CompareFailures(c) ==
  LET failed == loc[c].snap.fail > stat.fail
  IN /\ At(c, "deltafail")
     /\ \/ /\ loc[c].grew \/ failed
           /\ loc' = [loc EXCEPT ![c].failed = failed]
           /\ Goto(c, "settle") /\ UNCHANGED runAlive
        \/ /\ ~(loc[c].grew \/ failed)
           /\ Proceed(c, "check")
     /\ UNCHANGED <<core, build, driver, hist>>

\* Mutant: the responses seen are not remembered.
RememberNoResponses(c) ==
  /\ At(c, "settle")
  /\ Continue(c, "settlefail")
  /\ UNCHANGED <<core, build, driver, hist>>

RememberResponses(c) ==
  /\ At(c, "settle")
  /\ stat' = [stat EXCEPT !.resp = loc[c].snap.resp]
  /\ Continue(c, "settlefail")
  /\ UNCHANGED <<txQueue, inflight, late, msgId, cnt, build, driver, hist>>

RememberFailures(c) ==
  /\ At(c, "settlefail")
  /\ stat' = [stat EXCEPT !.fail = loc[c].snap.fail]
  /\ loc' = [loc EXCEPT ![c] = [NoLocals EXCEPT !.failed = loc[c].failed]]
  /\ Goto(c, "test")
  /\ UNCHANGED <<txQueue, inflight, late, msgId, cnt, runAlive, build, driver, hist>>

TestCredited(c) ==
  /\ At(c, "test")
  /\ IF inflight = NoFrame THEN Proceed(c, "check") ELSE Continue(c, "take")
  /\ UNCHANGED <<core, build, driver, hist>>

\* Fetch the frame in flight, here or at its timeout: the irq may have taken it.
Take(c) ==
  /\ \/ At(c, "take") /\ Goto(c, "clear")
     \/ At(c, "expire") /\ Goto(c, "lapse")
  /\ loc' = [loc EXCEPT ![c].done = inflight # NoFrame]
  /\ UNCHANGED <<core, runAlive, build, driver, hist>>

Clear(c) ==
  /\ \/ At(c, "clear") /\ loc[c].failed /\ Continue(c, "failed")
     \/ At(c, "clear") /\ ~loc[c].failed /\ Proceed(c, "ok")
     \/ At(c, "lapse") /\ Continue(c, "timeout")
  /\ inflight' = NoFrame
  /\ late' = FALSE
  /\ UNCHANGED <<txQueue, stat, msgId, cnt, build, driver, hist>>

CreditOk(c) ==
  /\ At(c, "ok+")
  /\ Store(c, "ok")
  /\ Proceed(c, "check")

\* The log line of a failure subscripts the frame, which may be None.
CreditFailed(c) ==
  /\ At(c, "failed+")
  /\ Store(c, "failed")
  /\ IF loc[c].done THEN Proceed(c, "check") ELSE Raise(c)

-----------------------------------------------------------------------------
(* _pump_tx_queue after the completion update.                             *)

\* Mutant: the pump does not wait for the frame in flight.
TestInflightIgnored(c) ==
  /\ At(c, "check")
  /\ Goto(c, "nonempty")
  /\ UNCHANGED <<core, runAlive, loc, build, driver, hist>>

TestInflight(c) ==
  /\ At(c, "check")
  /\ Goto(c, IF inflight = NoFrame THEN "nonempty" ELSE "elapsed")
  /\ UNCHANGED <<core, runAlive, loc, build, driver, hist>>

\* Mutant: no timeout, the pump waits for the driver's answer.
TestElapsedNever(c) ==
  /\ At(c, "elapsed")
  /\ IF inflight = NoFrame THEN Raise(c) ELSE Return(c)
  /\ UNCHANGED <<core, build, driver, hist>>

\* A frame that is neither answered nor late ends the pump.
TestElapsed(c) ==
  /\ At(c, "elapsed")
  /\ IF inflight = NoFrame
       THEN Raise(c)
       ELSE IF late THEN Continue(c, "expire") ELSE Return(c)
  /\ UNCHANGED <<core, build, driver, hist>>

\* So does that of a timeout, after Take and Clear.
CountTimeout(c) ==
  /\ At(c, "timeout+")
  /\ Store(c, "timeout")
  /\ IF loc[c].done THEN Proceed(c, "nonempty") ELSE Raise(c)

TestQueue(c) ==
  /\ At(c, "nonempty")
  /\ IF txQueue = << >> THEN Return(c) ELSE Continue(c, "peek")
  /\ UNCHANGED <<core, build, driver, hist>>

Peek(c) ==
  /\ At(c, "peek")
  /\ IF txQueue = << >>
       THEN Raise(c)
       ELSE /\ loc' = [loc EXCEPT ![c].frame = Head(txQueue)]
            /\ Goto(c, "send")
            /\ UNCHANGED runAlive
  /\ UNCHANGED <<core, build, driver, hist>>

\* espnow.send takes the frame, or raises.
SendTaken(c) ==
  /\ At(c, "send")
  /\ outstanding' = Append(outstanding, loc[c].frame)
  /\ hist' = [hist EXCEPT !.air = Append(@, loc[c].frame)]
  /\ Goto(c, "pop")
  /\ UNCHANGED <<core, runAlive, loc, build, drv, irqOn, torn>>

\* Mutant: the exception is swallowed and the pump goes on as if it had sent.
SendRaisesSwallowed(c) ==
  /\ At(c, "send")
  /\ Goto(c, "pop")
  /\ UNCHANGED <<core, runAlive, loc, build, driver, hist>>

SendRaises(c) ==
  /\ At(c, "send")
  /\ Goto(c, "drop")
  /\ UNCHANGED <<core, runAlive, loc, build, driver, hist>>

\* What is dropped is the head of the queue, whichever frame that is by now.
DropRefused(c) ==
  /\ At(c, "drop")
  /\ IF txQueue = << >>
       THEN Raise(c) /\ UNCHANGED <<txQueue, hist>>
       ELSE /\ txQueue' = Tail(txQueue)
            /\ hist' = [hist EXCEPT !.discarded = Append(@, Head(txQueue))]
            /\ Return(c)
  /\ UNCHANGED <<inflight, late, stat, msgId, cnt, build, driver>>

\* Mutants: the newest frame is popped; an empty queue is tolerated.
PopNewest(c) ==
  /\ At(c, "pop")
  /\ IF txQueue = << >>
       THEN Raise(c) /\ UNCHANGED txQueue
       ELSE txQueue' = Front(txQueue) /\ Continue(c, "sent")
  /\ UNCHANGED <<inflight, late, stat, msgId, cnt, build, driver, hist>>
PopTolerant(c) ==
  /\ At(c, "pop")
  /\ txQueue' = IF txQueue = << >> THEN << >> ELSE Tail(txQueue)
  /\ Continue(c, "sent")
  /\ UNCHANGED <<inflight, late, stat, msgId, cnt, build, driver, hist>>

Pop(c) ==
  /\ At(c, "pop")
  /\ IF txQueue = << >>
       THEN Raise(c) /\ UNCHANGED txQueue
       ELSE txQueue' = Tail(txQueue) /\ Continue(c, "sent")
  /\ UNCHANGED <<inflight, late, stat, msgId, cnt, build, driver, hist>>

CountSent(c) ==
  /\ At(c, "sent+")
  /\ Store(c, "sent")
  /\ Goto(c, "mark")
  /\ loc' = [loc EXCEPT ![c].reg = 0]
  /\ UNCHANGED runAlive

MarkInflight(c) ==
  /\ At(c, "mark")
  /\ inflight' = loc[c].frame
  /\ late' = FALSE
  /\ Return(c)
  /\ UNCHANGED <<txQueue, stat, msgId, cnt, build, driver, hist>>

-----------------------------------------------------------------------------
(* The environment.                                                        *)

\* _TX_ACK_TIMEOUT_MS pass while a frame is in flight.
TimePasses ==
  /\ inflight # NoFrame /\ ~late
  /\ late' = TRUE
  /\ UNCHANGED <<txQueue, inflight, stat, msgId, cnt, runAlive, pc, loc, build, driver, hist>>

\* The send callback of the oldest unanswered frame: every answer counts as a
\* response, a failed delivery counts as a failure too.
DriverAnswers ==
  /\ outstanding # << >>
  /\ outstanding' = Tail(outstanding)
  /\ \E failed \in {0, 1} :
       /\ drv.fail + failed <= MaxFails
       /\ drv' = [resp |-> drv.resp + 1, fail |-> drv.fail + failed]
  /\ UNCHANGED <<core, irqOn, runAlive, pc, loc, build, hist, torn>>

-----------------------------------------------------------------------------
PumpStep(c) ==
  \/ ReadStats(c) \/ CompareResponses(c) \/ CompareFailures(c)
  \/ RememberResponses(c) \/ RememberFailures(c) \/ TestCredited(c)
  \/ Take(c) \/ Clear(c) \/ CountLoad(c) \/ CreditOk(c) \/ CreditFailed(c)
  \/ TestInflight(c) \/ TestElapsed(c) \/ CountTimeout(c)
  \/ TestQueue(c) \/ Peek(c) \/ SendTaken(c) \/ SendRaises(c)
  \/ DropRefused(c) \/ Pop(c) \/ CountSent(c) \/ MarkInflight(c)

MainStep == EnqTest \/ EnqDropOldest \/ EnqAppend \/ EnqCounted \/ PumpStep("main")

Next ==
  \/ WaitPump \/ IrqPump \/ SendDirect \/ SendFragmented
  \/ MainStep \/ PumpStep("irq")
  \/ TimePasses \/ DriverAnswers

Spec == Init /\ [][Next]_vars

\* Code that has been entered runs on, the callback runs to its end, the clock
\* advances, and the run loop comes back to its pump: its wait is bounded by
\* poll_ms.  Nothing is assumed of the driver, the callback or the application.
Fairness ==
  /\ WF_vars(MainStep)
  /\ WF_vars(PumpStep("irq"))
  /\ WF_vars(TimePasses)
  /\ SF_vars(WaitPump)

FairSpec == Spec /\ Fairness

-----------------------------------------------------------------------------
(* Properties.                                                             *)

\* Every variable of the transmit side keeps to its type, and the queue to its
\* limit, whichever context runs (LighthouseMesh.__init__, _enqueue_tx_frame).
TypeOK ==
  /\ txQueue \in Seq(Frame) /\ Len(txQueue) <= QueueMax
  /\ inflight \in Frame \cup {NoFrame}
  /\ late \in BOOLEAN
  /\ stat \in Stats /\ drv \in Stats
  /\ msgId \in 0 .. IdMod - 1
  /\ cnt \in [Counters \cup {"direct"} -> Nat]
  /\ runAlive \in BOOLEAN
  /\ pc \in [Ctx -> Labels]
  /\ loc \in [Ctx -> [snap : Stats, grew : BOOLEAN, failed : BOOLEAN, done : BOOLEAN,
                      frame : Frame \cup {NoFrame}, reg : Nat]]
  /\ build \in [op : {"none", "wait", "frag"}, id : 0 .. IdMod - 1, total : Nat, index : Nat]
  /\ outstanding \in Seq(Frame \cup {Direct})
  /\ hist \in [accepted : Seq(Frame), air : Seq(Frame), discarded : Seq(Frame)]
  /\ torn \subseteq {"sent", "stats"}

\* Context c is between the event that counter k counts and the store of k.
Increment == [queued |-> {"queued", "queued+"}, sent |-> {"sent", "sent+"}, ok |-> {"ok", "ok+"},
              failed |-> {"failed", "failed+"}, timeout |-> {"timeout", "timeout+"}]
Counting(c, k) == pc[c] \in Increment[k]

\* Counter k with the increments under way.
Counted(k) ==
  cnt[k] + (IF Counting("main", k) THEN 1 ELSE 0) + (IF Counting("irq", k) THEN 1 ELSE 0)

\* The counters of the queue count nothing that did not happen: every fragment
\* accepted is counted as queued, and it is still in the queue, counted as sent, or
\* dropped with a log line.  On a port with the callback a fragment may leave the
\* queue uncounted, but only after the callback has come between the load and the
\* store of main's _tx_sent_frames += 1 (_enqueue_tx_frame, _pump_tx_queue).
FramesAccountedFor ==
  LET known == Len(txQueue) + Counted("sent") + Len(hist.discarded)
  IN /\ Counted("queued") = Len(hist.accepted)
     /\ known <= Counted("queued")
     /\ "sent" \notin torn => known = Counted("queued")

\* Fragments that left the queue with neither a transmission nor a log line.
SilentlyLost ==
  Range(hist.accepted)
    \ (Range(txQueue) \cup Range(hist.air) \cup Range(hist.discarded))

\* When main is pre-empted between fetching the head of the queue and popping
\* it, the pop can hit a fragment nobody sent.  Such a loss is always paid for:
\* for every fragment lost in silence, another one was handled twice
\* (_pump_tx_queue in both contexts).
LossesArePaidFor ==
  LET handled == hist.air \o hist.discarded
  IN Cardinality(SilentlyLost) <= Len(handled) - Cardinality(Range(handled))

\* On a polled port, no fragment disappears in silence: what was
\* accepted is queued, was on the air, or was dropped with a log line.
NoSilentLoss == ~irqOn => SilentlyLost = {}

\* On a polled port, every transmission is accounted for exactly once:
\* acknowledged, failed, timed out, or still in flight (_pump_tx_queue,
\* _update_tx_completion).
SentIsSettled ==
  ~irqOn /\ pc["main"] # "mark" /\ ~Counting("main", "sent") =>
    Counted("sent") = Counted("ok") + Counted("failed") + Counted("timeout")
                        + (IF inflight = NoFrame THEN 0 ELSE 1)

\* No completion is invented: every fragment counted as acknowledged or failed is
\* backed by a response of its own that the driver counted.  With the callback the
\* one place where a response can be credited twice, or the statistics seen can go
\* backwards, is between main's comparison of the statistics and its last store of
\* them; wherever else the callback comes, it does no harm (_update_tx_completion).
CompletionsBacked ==
  "stats" \notin torn => /\ Counted("ok") + Counted("failed") <= stat.resp
                         /\ Counted("failed") <= stat.fail
                         /\ stat.resp <= drv.resp /\ stat.fail <= drv.fail

\* On a polled port, the driver holds one unanswered fragment at a
\* time; only an expired one and an unfragmented message, whose answer is taken
\* for the fragment's, let one more in (_pump_tx_queue, send_raw).
OneFragmentOutstanding ==
  ~irqOn => Len(outstanding) <= 1 + cnt["timeout"] + cnt["direct"]

\* The queue and the air of a polled port, read as the abstract queue: between
\* the hand-over to the driver and the pop the head is already on the air.
PendingFrames ==
  CASE irqOn -> << >>
    [] ~irqOn /\ pc["main"] = "pop" -> Tail(txQueue)
    [] OTHER -> txQueue
Air == IF irqOn THEN << >> ELSE hist.air
Fifo == INSTANCE FragmentFifo WITH pending <- PendingFrames, air <- Air

\* On a polled port, fragments go on the air in the order of their
\* queueing and each at most once (_enqueue_tx_frame, _pump_tx_queue).
SendsInOrder == Fifo!Spec

\* Whatever the driver does, and even if it never answers, a queue that holds
\* fragments becomes empty (_pump_tx_queue: "Timeout protection", "so queue can
\* continue draining").
QueueDrains == RunLoop => []<>(txQueue = << >>)

\* On a polled port it does, with the run loop as the only pump.
PolledQueueDrains == ~irqOn => QueueDrains
=============================================================================
