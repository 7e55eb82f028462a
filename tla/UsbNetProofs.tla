---------------------------- MODULE UsbNetProofs ----------------------------
(***************************************************************************)
(* Proofs about UsbNet: types, the life of the pending flag, the empty     *)
(* slot of a stopped interface, and that the slot implements a mailbox,    *)
(* for every length, limit and interleaving of the three tasks.            *)
(***************************************************************************)
EXTENDS UsbNet, TLAPS

\* What TypeOK leaves open: a call of start has not been counted yet.
StartsLeft == app.pc = "reset" => app.starts < MaxStarts

TypeInv == TypeOK /\ StartsLeft

-----------------------------------------------------------------------------
(* The records of the state under the updates the code makes.              *)

\* The constants are natural numbers (their declaration in UsbNet).
LEMMA Constants == MaxLen \in Nat \ {0} /\ MaxTries \in Nat \ {0} /\ MaxStarts \in Nat
  BY UsbAssumption

\* app moves to another label.
LEMMA AppMoves ==
  ASSUME app \in AppState, NEW from, NEW to \in AppLabels, AppGoes(from, to)
  PROVE  app' \in AppState /\ app'.pc = to /\ app'.starts = app.starts
  BY DEF AppState, AppGoes

\* usb moves to another label.
LEMMA UsbMoves ==
  ASSUME usb \in UsbState, NEW from, NEW to \in UsbLabels, UsbGoes(from, to)
  PROVE  usb' \in UsbState
  BY DEF UsbState, UsbGoes

\* A flag is set or cleared.
LEMMA FlagsSet ==
  ASSUME net \in Flags, NEW b \in BOOLEAN
  PROVE  /\ [net EXCEPT !.up = b] \in Flags
         /\ [net EXCEPT !.running = b] \in Flags
         /\ [net EXCEPT !.netif = b] \in Flags
         /\ [net EXCEPT !.started = b] \in Flags
         /\ [net EXCEPT !.renew = b] \in Flags
  BY DEF Flags

\* A field of the slot is set.
LEMMA SlotSet ==
  ASSUME slot \in SlotState, NEW b \in BOOLEAN
  PROVE  /\ [slot EXCEPT !.queued = b] \in SlotState
         /\ [slot EXCEPT !.pending = b] \in SlotState
         /\ [slot EXCEPT !.len = 0] \in SlotState
         /\ [slot EXCEPT !.queued = FALSE, !.pending = FALSE, !.len = 0] \in SlotState
<1>1. [slot EXCEPT !.queued = b] \in SlotState BY DEF SlotState
<1>2. [slot EXCEPT !.pending = b] \in SlotState BY DEF SlotState
<1>3. \A s \in SlotState : [s EXCEPT !.len = 0] \in SlotState
  BY Constants DEF SlotState
<1>4. [slot EXCEPT !.queued = FALSE, !.pending = FALSE] \in SlotState BY DEF SlotState
<1>5. [slot EXCEPT !.queued = FALSE, !.pending = FALSE, !.len = 0]
        = [[slot EXCEPT !.queued = FALSE, !.pending = FALSE] EXCEPT !.len = 0]
  BY DEF SlotState
<1> QED BY <1>1, <1>2, <1>3, <1>4, <1>5

\* An endpoint changes its state, or the link does.
LEMMA HostSet ==
  ASSUME host \in HostState
  PROVE  /\ \A b \in BOOLEAN : [host EXCEPT !.armed = b] \in HostState
         /\ \A b \in BOOLEAN : [host EXCEPT !.free = b] \in HostState
         /\ \A l \in Links : [host EXCEPT !.link = l] \in HostState
  BY DEF HostState

\* lwIP begins to send a frame, and tries again.
LEMMA LwipSet ==
  ASSUME lwip \in LwipState
  PROVE  /\ \A f \in Frame : [lwip EXCEPT !.frame = f, !.tries = 0] \in LwipState
         /\ \A t \in 0 .. MaxTries : [lwip EXCEPT !.tries = t] \in LwipState
<1>1. ASSUME NEW f \in Frame PROVE [lwip EXCEPT !.frame = f, !.tries = 0] \in LwipState
  <2>1. 0 \in 0 .. MaxTries BY Constants
  <2> QED BY <2>1 DEF LwipState
<1>2. ASSUME NEW t \in 0 .. MaxTries PROVE [lwip EXCEPT !.tries = t] \in LwipState
  BY DEF LwipState
<1> QED BY <1>1, <1>2

-----------------------------------------------------------------------------
(* Types.                                                                  *)

\* Nothing is running at the beginning (static initializers of the plugin).
LEMMA InitType == Init => TypeInv
<1> SUFFICES ASSUME Init PROVE TypeInv
  OBVIOUS
<1> USE Constants DEF Init
<1>1. app \in AppState BY DEF AppState, AppLabels
<1>2. net \in Flags BY DEF Flags
<1>3. slot \in SlotState BY DEF SlotState
<1>4. usb \in UsbState BY DEF UsbState, UsbLabels
<1>5. lwip \in LwipState BY DEF LwipState, NoTx, NoFrame, Frame
<1>6. host \in HostState BY DEF HostState, Links
<1>7. wire \in Seq(Nat) OBVIOUS
<1> QED BY <1>1, <1>2, <1>3, <1>4, <1>5, <1>6, <1>7 DEF TypeInv, TypeOK, StartsLeft

LEMMA LabelsOK ==
  /\ \A l \in {"idle", "reset", "mark", "attach", "run", "address", "down", "pending",
               "queued", "len", "unmark", "detach", "destroy"} : l \in AppLabels
  /\ \A l \in {"idle", "recv", "check", "deliver", "renew", "hookpending", "hookrenew",
               "hookclear", "try", "look", "claim", "xmit", "copy", "recover"} : l \in UsbLabels
  BY DEF AppLabels, UsbLabels

\* The steps of start and stop keep the types (mp_usbnet_start, mp_usbnet_stop).
LEMMA AppType ==
  ASSUME TypeInv, Start \/ Stop \/ AppStep
  PROVE  TypeInv'
<1> USE DEF TypeInv, TypeOK, StartsLeft
<1>1. CASE Start
  <2>1. app' \in AppState BY <1>1, AppMoves, LabelsOK DEF Start
  <2>2. app'.starts < MaxStarts BY <1>1, AppMoves, LabelsOK DEF Start
  <2> QED BY <1>1, <2>1, <2>2 DEF Start
<1>2. CASE Stop
  <2>1. app' \in AppState /\ app'.pc = "down" BY <1>2, AppMoves, LabelsOK DEF Stop
  <2> QED BY <1>2, <2>1 DEF Stop
<1>3. CASE StartReset
  <2>1. app' \in AppState /\ app'.pc = "mark"
    BY <1>3, Constants, LabelsOK DEF StartReset, StartCounted, InHook, AppState
  <2>2. slot' \in SlotState BY <1>3, SlotSet DEF StartReset
  <2>3. net' \in Flags BY <1>3, FlagsSet DEF StartReset
  <2> QED BY <1>3, <2>1, <2>2, <2>3 DEF StartReset
<1>4. CASE StartMark
  <2>1. app' \in AppState /\ app'.pc = "attach" BY <1>4, AppMoves, LabelsOK DEF StartMark
  <2>2. net' \in Flags BY <1>4, FlagsSet DEF StartMark
  <2> QED BY <1>4, <2>1, <2>2 DEF StartMark
<1>5. CASE StartAttach
  <2>1. app' \in AppState /\ app'.pc = "run" BY <1>5, AppMoves, LabelsOK DEF StartAttach
  <2>2. net' \in Flags BY <1>5, FlagsSet DEF StartAttach
  <2>3. lwip' \in LwipState BY <1>5 DEF StartAttach, LwipState
  <2> QED BY <1>5, <2>1, <2>2, <2>3 DEF StartAttach
<1>6. CASE StartRun
  <2>1. app' \in AppState /\ app'.pc = "address" BY <1>6, AppMoves, LabelsOK DEF StartRun
  <2>2. net' \in Flags BY <1>6, FlagsSet DEF StartRun
  <2> QED BY <1>6, <2>1, <2>2 DEF StartRun
<1>7. CASE StartDone
  <2>1. app' \in AppState /\ app'.pc = "idle" BY <1>7, AppMoves, LabelsOK DEF StartDone
  <2>2. net' \in Flags BY <1>7, FlagsSet DEF StartDone
  <2> QED BY <1>7, <2>1, <2>2 DEF StartDone
<1>8. CASE StartFails
  <2>1. app' \in AppState /\ app'.pc = "down" BY <1>8, AppMoves, LabelsOK DEF StartFails
  <2> QED BY <1>8, <2>1 DEF StartFails
<1>9. CASE StopDown
  <2>1. app' \in AppState /\ app'.pc = "pending" BY <1>9, AppMoves, LabelsOK DEF StopDown
  <2>2. lwip' \in LwipState
    BY <1>9, Constants DEF StopDown, LwipState, NoTx, NoFrame, Frame
  <2> QED BY <1>9, <2>1, <2>2 DEF StopDown
<1>10. CASE StopPending
  <2>1. app' \in AppState /\ app'.pc = "queued" BY <1>10, AppMoves, LabelsOK DEF StopPending
  <2>2. slot' \in SlotState BY <1>10, SlotSet DEF StopPending
  <2> QED BY <1>10, <2>1, <2>2 DEF StopPending
<1>11. CASE StopQueued
  <2>1. app' \in AppState /\ app'.pc = "len" BY <1>11, AppMoves, LabelsOK DEF StopQueued
  <2>2. slot' \in SlotState BY <1>11, SlotSet DEF StopQueued
  <2> QED BY <1>11, <2>1, <2>2 DEF StopQueued
<1>12. CASE StopLen
  <2>1. app' \in AppState /\ app'.pc = "unmark" BY <1>12, AppMoves, LabelsOK DEF StopLen
  <2>2. slot' \in SlotState BY <1>12, SlotSet DEF StopLen
  <2>3. net' \in Flags BY <1>12, FlagsSet DEF StopLen
  <2> QED BY <1>12, <2>1, <2>2, <2>3 DEF StopLen
<1>13. CASE StopUnmark
  <2>1. app' \in AppState /\ app'.pc = "detach" BY <1>13, AppMoves, LabelsOK DEF StopUnmark
  <2>2. net' \in Flags BY <1>13, FlagsSet DEF StopUnmark
  <2> QED BY <1>13, <2>1, <2>2 DEF StopUnmark
<1>14. CASE StopDetach
  <2>1. app' \in AppState /\ app'.pc = "destroy" BY <1>14, AppMoves, LabelsOK DEF StopDetach
  <2>2. net' \in Flags BY <1>14, FlagsSet DEF StopDetach
  <2> QED BY <1>14, <2>1, <2>2 DEF StopDetach
<1>15. CASE StopDestroy
  <2>1. app' \in AppState /\ app'.pc = "idle" BY <1>15, AppMoves, LabelsOK DEF StopDestroy
  <2>2. net' \in Flags BY <1>15 DEF StopDestroy, Flags
  <2> QED BY <1>15, <2>1, <2>2 DEF StopDestroy
<1> QED BY <1>1, <1>2, <1>3, <1>4, <1>5, <1>6, <1>7, <1>8, <1>9, <1>10, <1>11, <1>12,
           <1>13, <1>14, <1>15 DEF AppStep

\* The callbacks and the hook keep the types (usb_netif_port.c).
LEMMA UsbType ==
  ASSUME TypeInv, RecvCallback \/ HookTest \/ UsbStep
  PROVE  TypeInv'
<1> USE DEF TypeInv, TypeOK, StartsLeft
<1>1. CASE RecvCallback
  <2>1. usb' \in UsbState BY <1>1, UsbMoves, LabelsOK DEF RecvCallback
  <2>2. host' \in HostState BY <1>1, HostSet DEF RecvCallback
  <2> QED BY <1>1, <2>1, <2>2 DEF RecvCallback
<1>2. CASE HookTest \/ HookPending
  <2>1. usb' \in UsbState BY <1>2, UsbMoves, LabelsOK DEF HookTest, HookPending
  <2> QED BY <1>2, <2>1 DEF HookTest, HookPending
<1>3. CASE RecvSuspend \/ RecvPass \/ RecvCheck \/ RecvDeliver
  <2>1. usb' \in UsbState
    BY <1>3, UsbMoves, LabelsOK DEF RecvSuspend, RecvPass, RecvCheck, RecvDeliver
  <2> QED BY <1>3, <2>1 DEF RecvSuspend, RecvPass, RecvCheck, RecvDeliver
<1>4. CASE RecvRenew \/ HookRenew
  <2>1. usb' \in UsbState BY <1>4, UsbMoves, LabelsOK DEF RecvRenew, HookRenew
  <2>2. host' \in HostState BY <1>4, HostSet DEF RecvRenew, HookRenew, Renew
  <2> QED BY <1>4, <2>1, <2>2 DEF RecvRenew, HookRenew
<1>5. CASE HookClear
  <2>1. usb' \in UsbState BY <1>5, UsbMoves, LabelsOK DEF HookClear
  <2>2. net' \in Flags BY <1>5, FlagsSet DEF HookClear
  <2> QED BY <1>5, <2>1, <2>2 DEF HookClear
<1>6. CASE TryTest
  <2>1. usb' \in UsbState BY <1>6, UsbMoves, LabelsOK DEF TryTest
  <2> QED BY <1>6, <2>1 DEF TryTest
<1>7. CASE TryLook
  <2>1. usb' \in UsbState BY <1>7, LabelsOK DEF TryLook, UsbState, SlotState
  <2> QED BY <1>7, <2>1 DEF TryLook
<1>8. CASE TryClaim
  <2>1. usb' \in UsbState BY <1>8, LabelsOK DEF TryClaim, UsbState
  <2>2. slot' \in SlotState BY <1>8, SlotSet DEF TryClaim
  <2> QED BY <1>8, <2>1, <2>2 DEF TryClaim
<1>9. CASE XmitCalls \/ XmitNoCallback
  <2>1. usb' \in UsbState BY <1>9, UsbMoves, LabelsOK DEF XmitCalls, XmitNoCallback
  <2> QED BY <1>9, <2>1 DEF XmitCalls, XmitNoCallback
<1>10. CASE XmitEmpty
  <2>1. usb' \in UsbState BY <1>10, UsbMoves, LabelsOK DEF XmitEmpty
  <2>2. host' \in HostState BY <1>10, HostSet DEF XmitEmpty
  <2> QED BY <1>10, <2>1, <2>2 DEF XmitEmpty
<1>11. CASE XmitCopy
  <2>1. usb' \in UsbState BY <1>11, UsbMoves, LabelsOK DEF XmitCopy
  <2>2. host' \in HostState BY <1>11, HostSet DEF XmitCopy
  <2>3. slot' \in SlotState BY <1>11, SlotSet DEF XmitCopy
  <2>4. slot.n \in Nat BY DEF SlotState
  <2>5. wire' \in Seq(Nat) BY <1>11, <2>4 DEF XmitCopy
  <2> QED BY <1>11, <2>1, <2>2, <2>3, <2>5 DEF XmitCopy
<1>12. CASE Recover
  <2>1. usb' \in UsbState BY <1>12, UsbMoves, LabelsOK DEF Recover
  <2>2. slot' \in SlotState BY <1>12, SlotSet DEF Recover
  <2> QED BY <1>12, <2>1, <2>2 DEF Recover
<1> QED BY <1>1, <1>2, <1>3, <1>4, <1>5, <1>6, <1>7, <1>8, <1>9, <1>10, <1>11, <1>12
    DEF UsbStep

\* Transmission by lwIP and the doings of the host keep the types.
LEMMA OtherType ==
  ASSUME TypeInv, Tx \/ LwipStep \/ HostActs \/ UNCHANGED vars
  PROVE  TypeInv'
<1> USE DEF TypeInv, TypeOK, StartsLeft
<1>0. [NoTx EXCEPT !.up = lwip.up] \in LwipState
  BY Constants DEF LwipState, NoTx, NoFrame, Frame
<1>1. CASE Tx
  <2>1. PICK len \in Lens :
          /\ Fits(len)
          /\ lwip' = [lwip EXCEPT !.frame = [n |-> slot.n + 1, len |-> len], !.tries = 0]
    BY <1>1 DEF Tx
  <2>2. [n |-> slot.n + 1, len |-> len] \in Frame
    BY <2>1, UsbAssumption DEF SlotState, Frame, Fits
  <2>3. lwip' \in LwipState BY <2>1, <2>2, LwipSet
  <2> QED BY <1>1, <2>3 DEF Tx
<1>2. CASE TxPut
  <2>1. slot' \in SlotState BY <1>2 DEF TxPut, SlotState, LwipState, Frame
  <2> QED BY <1>0, <1>2, <2>1 DEF TxPut
<1>3. CASE TxWait
  <2>1. lwip.tries \in 0 .. MaxTries BY DEF LwipState
  <2>2. lwip.tries + 1 < MaxTries => lwip.tries + 1 \in 0 .. MaxTries BY <2>1, Constants
  <2>3. lwip.tries + 1 < MaxTries => [lwip EXCEPT !.tries = lwip.tries + 1] \in LwipState
    BY <2>2, LwipSet
  <2> QED BY <1>0, <1>3, <2>3 DEF TxWait
<1>4. CASE HostActs
  <2>1. /\ [link |-> "active", armed |-> TRUE, free |-> TRUE] \in HostState
        /\ [link |-> "away", armed |-> FALSE, free |-> FALSE] \in HostState
    BY DEF HostState, Links
  <2>2. host' \in HostState
    BY <1>4, <2>1, HostSet DEF HostActs, HostStep, HostAttaches, HostActivates, HostSleeps,
         HostWakes, HostDetaches, HostTakes, Links
  <2> QED
    BY <1>4, <2>2 DEF HostActs, HostStep, HostAttaches, HostActivates, HostSleeps,
         HostWakes, HostDetaches, HostTakes
<1>5. CASE UNCHANGED vars BY <1>5 DEF vars
<1> QED BY <1>1, <1>2, <1>3, <1>4, <1>5 DEF LwipStep

LEMMA NextType == TypeInv /\ [Next]_vars => TypeInv'
  BY AppType, UsbType, OtherType DEF Next

\* Types and limits hold, whatever the tasks do: in particular no frame is ever
\* longer than the buffer (mp_usbnet_tinyusb_net_tx).
THEOREM TypeCorrect == Spec => []TypeOK
<1>1. TypeInv => TypeOK BY DEF TypeInv
<1> QED BY InitType, NextType, <1>1, PTL DEF Spec

-----------------------------------------------------------------------------
(* The slot.                                                               *)

\* lwIP sends only while the interface is up, which it is not while app resets
\* the slot or has reset it; the frame it sends is the next one.
Quiet ==
  \/ app.pc \in {"unmark", "detach", "destroy", "reset", "mark", "attach"}
  \/ app.pc = "idle" /\ ~net.up
SendInv ==
  /\ lwip.frame # NoFrame =>
       lwip.up /\ lwip.frame.n = slot.n + 1 /\ lwip.frame.len > 0
  /\ lwip.up => \/ app.pc \in {"run", "address", "down"}
                \/ app.pc = "idle" /\ net.up
  /\ app.pc = "len" \/ Quiet => ~slot.queued
  /\ Quiet => slot.len = 0

SlotInv == PendingIsClaimed /\ SendInv

\* usb moves to another label, and app moves while usb does not.
LEMMA UsbAt ==
  ASSUME usb \in UsbState, NEW from, NEW to, UsbGoes(from, to)
  PROVE  usb.pc = from /\ usb'.pc = to
  BY DEF UsbState, UsbGoes

\* The slot after each of the updates the code makes.
LEMMA SlotFields ==
  ASSUME slot \in SlotState
  PROVE  /\ \A b \in BOOLEAN : /\ [slot EXCEPT !.pending = b].pending = b
                               /\ [slot EXCEPT !.pending = b].queued = slot.queued
                               /\ [slot EXCEPT !.pending = b].len = slot.len
                               /\ [slot EXCEPT !.pending = b].n = slot.n
         /\ [slot EXCEPT !.queued = FALSE].pending = slot.pending
         /\ [slot EXCEPT !.queued = FALSE].queued = FALSE
         /\ [slot EXCEPT !.queued = FALSE].len = slot.len
         /\ [slot EXCEPT !.queued = FALSE].n = slot.n
         /\ [slot EXCEPT !.len = 0].pending = slot.pending
         /\ [slot EXCEPT !.len = 0].queued = slot.queued
         /\ [slot EXCEPT !.len = 0].len = 0
         /\ [slot EXCEPT !.len = 0].n = slot.n
         /\ [slot EXCEPT !.queued = FALSE, !.pending = FALSE, !.len = 0].pending = FALSE
         /\ [slot EXCEPT !.queued = FALSE, !.pending = FALSE, !.len = 0].queued = FALSE
         /\ [slot EXCEPT !.queued = FALSE, !.pending = FALSE, !.len = 0].len = 0
         /\ [slot EXCEPT !.queued = FALSE, !.pending = FALSE, !.len = 0].n = slot.n
  BY DEF SlotState

\* The claim: only the hook sets it, and each way out of the hook clears it
\* (usbnet_raw_try_xmit_queued, tud_network_xmit_cb).
LEMMA PendingStep ==
  ASSUME TypeInv, PendingIsClaimed, [Next]_vars
  PROVE  PendingIsClaimed'
<1> USE DEF TypeInv, TypeOK, PendingIsClaimed
<1>1. CASE Start \/ Stop \/ AppStep
  <2>1. usb' = usb
    BY <1>1 DEF AppStep, Start, Stop, StartReset, StartMark, StartAttach, StartRun, StartDone,
         StartFails, StopDown, StopPending, StopQueued, StopLen, StopUnmark, StopDetach,
         StopDestroy
  <2>2. slot'.pending => slot.pending
    BY <1>1, SlotFields DEF AppStep, Start, Stop, StartReset, StartMark, StartAttach, StartRun,
         StartDone, StartFails, StopDown, StopPending, StopQueued, StopLen, StopUnmark,
         StopDetach, StopDestroy
  <2> QED BY <2>1, <2>2
<1>2. CASE RecvCallback \/ RecvSuspend \/ RecvPass \/ RecvCheck \/ RecvDeliver \/ RecvRenew
           \/ HookTest \/ HookPending \/ HookRenew \/ HookClear \/ TryTest
  <2>1. slot' = slot
    BY <1>2 DEF RecvCallback, RecvSuspend, RecvPass, RecvCheck, RecvDeliver, RecvRenew,
         HookTest, HookPending, HookRenew, HookClear, TryTest
  <2>2. usb.pc \notin {"xmit", "copy", "recover"}
    BY <1>2, UsbAt DEF RecvCallback, RecvSuspend, RecvPass, RecvCheck, RecvDeliver, RecvRenew,
         HookTest, HookPending, HookRenew, HookClear, TryTest
  <2> QED BY <2>1, <2>2
<1>3. CASE TryLook
  BY <1>3 DEF TryLook
<1>4. CASE TryClaim
  <2>1. CASE Sendable /\ slot.len = usb.len
    <3>1. usb'.pc = "xmit" BY <1>4, <2>1 DEF TryClaim, UsbState
    <3> QED BY <3>1
  <2>2. CASE ~(Sendable /\ slot.len = usb.len)
    <3>1. slot' = slot /\ usb.pc = "claim" BY <1>4, <2>2 DEF TryClaim
    <3> QED BY <3>1
  <2> QED BY <2>1, <2>2
<1>5. CASE XmitCalls \/ XmitEmpty \/ XmitNoCallback
  <2>1. usb'.pc \in {"copy", "recover"}
    BY <1>5, UsbAt DEF XmitCalls, XmitEmpty, XmitNoCallback
  <2> QED BY <2>1
<1>6. CASE XmitCopy \/ Recover
  <2>1. ~slot'.pending BY <1>6, SlotFields DEF XmitCopy, Recover
  <2> QED BY <2>1
<1>7. CASE Tx \/ TxWait \/ HostActs
  <2>1. slot' = slot /\ usb' = usb
    BY <1>7 DEF Tx, TxWait, HostActs, HostStep, HostAttaches, HostActivates, HostSleeps,
         HostWakes, HostDetaches, HostTakes
  <2> QED BY <2>1
<1>8. CASE TxPut
  <2>1. ~slot'.pending BY <1>8 DEF TxPut
  <2> QED BY <2>1
<1>9. CASE UNCHANGED vars BY <1>9 DEF vars
<1> QED BY <1>1, <1>2, <1>3, <1>4, <1>5, <1>6, <1>7, <1>8, <1>9 DEF Next, UsbStep, LwipStep

\* The interface and the frame of a transmission after each of the updates.
LEMMA LwipFields ==
  ASSUME lwip \in LwipState
  PROVE  /\ NoTx.up = FALSE /\ NoTx.frame = NoFrame
         /\ \A u : [NoTx EXCEPT !.up = u].up = u /\ [NoTx EXCEPT !.up = u].frame = NoFrame
         /\ [lwip EXCEPT !.up = TRUE].up = TRUE
         /\ [lwip EXCEPT !.up = TRUE].frame = lwip.frame
         /\ \A t : /\ [lwip EXCEPT !.tries = t].up = lwip.up
                   /\ [lwip EXCEPT !.tries = t].frame = lwip.frame
         /\ \A f : /\ [lwip EXCEPT !.frame = f, !.tries = 0].up = lwip.up
                   /\ [lwip EXCEPT !.frame = f, !.tries = 0].frame = f
<1>1. NoTx.up = FALSE /\ NoTx.frame = NoFrame BY DEF NoTx
<1>2. \A u : [NoTx EXCEPT !.up = u].up = u /\ [NoTx EXCEPT !.up = u].frame = NoFrame
  BY DEF NoTx
<1>3. \A t : [lwip EXCEPT !.tries = t].up = lwip.up /\ [lwip EXCEPT !.tries = t].frame = lwip.frame
  BY DEF LwipState
<1>4. \A f : /\ [lwip EXCEPT !.frame = f, !.tries = 0].up = lwip.up
             /\ [lwip EXCEPT !.frame = f, !.tries = 0].frame = f
  BY DEF LwipState
<1>5. [lwip EXCEPT !.up = TRUE].up = TRUE /\ [lwip EXCEPT !.up = TRUE].frame = lwip.frame
  BY DEF LwipState
<1> QED BY <1>1, <1>2, <1>3, <1>4, <1>5

\* Only the ends of start and stop change s_up.
LEMMA UpKept ==
  ASSUME net \in Flags
  PROVE  /\ \A b \in BOOLEAN : /\ [net EXCEPT !.running = b].up = net.up
                               /\ [net EXCEPT !.netif = b].up = net.up
                               /\ [net EXCEPT !.started = b].up = net.up
                               /\ [net EXCEPT !.renew = b].up = net.up
         /\ [net EXCEPT !.up = TRUE].up = TRUE
         /\ [net EXCEPT !.running = FALSE, !.up = FALSE].up = FALSE
  BY DEF Flags

\* The invariant at the beginning.
LEMMA InitSlot == Init => SlotInv
  BY DEF Init, SlotInv, PendingIsClaimed, SendInv, Quiet, NoTx

\* start and stop: the interface is down before the slot is reset, and the slot is
\* reset before it is up again (mp_usbnet_start, mp_usbnet_stop).
LEMMA SendApp ==
  ASSUME TypeInv, SendInv, Start \/ Stop \/ AppStep
  PROVE  SendInv'
<1> USE DEF TypeInv, TypeOK, SendInv, Quiet
<1>1. CASE Start
  <2>1. app.pc = "idle" /\ app'.pc = "reset" /\ ~net.up
    BY <1>1, AppMoves, LabelsOK DEF Start, AppGoes
  <2> QED BY <1>1, <2>1 DEF Start
<1>2. CASE Stop
  <2>1. app.pc = "idle" /\ app'.pc = "down" /\ net.up
    BY <1>2, AppMoves, LabelsOK DEF Stop, AppGoes
  <2> QED BY <1>2, <2>1 DEF Stop
<1>3. CASE StartReset
  <2>1. app.pc = "reset" /\ app'.pc = "mark" BY <1>3 DEF StartReset, StartCounted
  <2>2. ~slot'.queued /\ slot'.len = 0 /\ slot'.n = slot.n BY <1>3, SlotFields DEF StartReset
  <2> QED BY <1>3, <2>1, <2>2 DEF StartReset
<1>4. CASE StartMark
  <2>1. app.pc = "mark" /\ app'.pc = "attach" BY <1>4, AppMoves, LabelsOK DEF StartMark, AppGoes
  <2> QED BY <1>4, <2>1 DEF StartMark
<1>5. CASE StartAttach
  <2>1. app.pc = "attach" /\ app'.pc = "run"
    BY <1>5, AppMoves, LabelsOK DEF StartAttach, AppGoes
  <2>2. lwip.frame = NoFrame BY <2>1
  <2>3. lwip'.frame = NoFrame BY <1>5, <2>2, LwipFields DEF StartAttach
  <2> QED BY <2>1, <2>3
<1>6. CASE StartRun
  <2>1. app.pc = "run" /\ app'.pc = "address" BY <1>6, AppMoves, LabelsOK DEF StartRun, AppGoes
  <2> QED BY <1>6, <2>1 DEF StartRun
<1>7. CASE StartDone
  <2>1. app.pc = "address" /\ app'.pc = "idle"
    BY <1>7, AppMoves, LabelsOK DEF StartDone, AppGoes
  <2>2. net'.up BY <1>7, UpKept DEF StartDone
  <2> QED BY <1>7, <2>1, <2>2 DEF StartDone
<1>8. CASE StartFails
  <2>1. app.pc = "address" /\ app'.pc = "down"
    BY <1>8, AppMoves, LabelsOK DEF StartFails, AppGoes
  <2> QED BY <1>8, <2>1 DEF StartFails
<1>9. CASE StopDown
  <2>1. app'.pc = "pending" BY <1>9, AppMoves, LabelsOK DEF StopDown
  <2>2. ~lwip'.up /\ lwip'.frame = NoFrame BY <1>9, LwipFields DEF StopDown
  <2> QED BY <2>1, <2>2
<1>10. CASE StopPending
  <2>1. app.pc = "pending" /\ app'.pc = "queued"
    BY <1>10, AppMoves, LabelsOK DEF StopPending, AppGoes
  <2>2. slot'.n = slot.n BY <1>10, SlotFields DEF StopPending
  <2> QED BY <1>10, <2>1, <2>2 DEF StopPending
<1>11. CASE StopQueued
  <2>1. app.pc = "queued" /\ app'.pc = "len"
    BY <1>11, AppMoves, LabelsOK DEF StopQueued, AppGoes
  <2>2. slot'.n = slot.n /\ ~slot'.queued BY <1>11, SlotFields DEF StopQueued
  <2> QED BY <1>11, <2>1, <2>2 DEF StopQueued
<1>12. CASE StopLen
  <2>1. app.pc = "len" /\ app'.pc = "unmark" BY <1>12, AppMoves, LabelsOK DEF StopLen, AppGoes
  <2>2. slot'.n = slot.n /\ slot'.queued = slot.queued /\ slot'.len = 0
    BY <1>12, SlotFields DEF StopLen
  <2> QED BY <1>12, <2>1, <2>2 DEF StopLen
<1>13. CASE StopUnmark
  <2>1. app.pc = "unmark" /\ app'.pc = "detach"
    BY <1>13, AppMoves, LabelsOK DEF StopUnmark, AppGoes
  <2> QED BY <1>13, <2>1 DEF StopUnmark
<1>14. CASE StopDetach
  <2>1. app.pc = "detach" /\ app'.pc = "destroy"
    BY <1>14, AppMoves, LabelsOK DEF StopDetach, AppGoes
  <2> QED BY <1>14, <2>1 DEF StopDetach
<1>15. CASE StopDestroy
  <2>1. app.pc = "destroy" /\ app'.pc = "idle"
    BY <1>15, AppMoves, LabelsOK DEF StopDestroy, AppGoes
  <2> QED BY <1>15, <2>1 DEF StopDestroy
<1> QED BY <1>1, <1>2, <1>3, <1>4, <1>5, <1>6, <1>7, <1>8, <1>9, <1>10, <1>11, <1>12,
           <1>13, <1>14, <1>15 DEF AppStep

\* The other tasks: the hook only empties the slot, and lwIP fills it only while the
\* interface is up (usb_netif_port.c).
LEMMA SendOthers ==
  ASSUME TypeInv, SendInv,
         RecvCallback \/ HookTest \/ UsbStep \/ Tx \/ LwipStep \/ HostActs \/ UNCHANGED vars
  PROVE  SendInv'
<1> USE DEF TypeInv, TypeOK, SendInv, Quiet
<1>1. CASE RecvCallback \/ RecvSuspend \/ RecvPass \/ RecvCheck \/ RecvDeliver \/ RecvRenew
           \/ HookTest \/ HookPending \/ HookRenew \/ TryTest \/ TryLook \/ XmitCalls \/ XmitEmpty
           \/ XmitNoCallback \/ HostActs \/ UNCHANGED vars
  <2>1. UNCHANGED <<app, net, slot, lwip>>
    BY <1>1 DEF RecvCallback, RecvSuspend, RecvPass, RecvCheck, RecvDeliver, RecvRenew,
         HookTest, HookPending, HookRenew, TryTest, TryLook, XmitCalls, XmitEmpty, XmitNoCallback,
         HostActs, HostStep, HostAttaches, HostActivates, HostSleeps, HostWakes,
         HostDetaches, HostTakes, vars
  <2> QED BY <2>1
<1>2. CASE HookClear
  <2>1. net'.up = net.up BY <1>2, UpKept DEF HookClear
  <2> QED BY <1>2, <2>1 DEF HookClear
<1>3. CASE TryClaim \/ Recover
  <2>1. slot'.queued = slot.queued /\ slot'.len = slot.len /\ slot'.n = slot.n
    BY <1>3, SlotFields DEF TryClaim, Recover
  <2> QED BY <1>3, <2>1 DEF TryClaim, Recover
<1>4. CASE XmitCopy
  <2>1. ~slot'.queued /\ slot'.len = 0 /\ slot'.n = slot.n BY <1>4, SlotFields DEF XmitCopy
  <2> QED BY <1>4, <2>1 DEF XmitCopy
<1>5. CASE Tx
  <2>1. PICK len \in Lens :
          lwip' = [lwip EXCEPT !.frame = [n |-> slot.n + 1, len |-> len], !.tries = 0]
    BY <1>5 DEF Tx
  <2>2. lwip'.up = lwip.up /\ lwip'.frame = [n |-> slot.n + 1, len |-> len]
    BY <2>1, LwipFields
  <2>3. len > 0 BY UsbAssumption
  <2>4. lwip.up BY <1>5 DEF Tx
  <2>5. lwip'.up /\ lwip'.frame.n = slot.n + 1 /\ lwip'.frame.len > 0 BY <2>2, <2>3, <2>4
  <2> QED BY <1>5, <2>4, <2>5 DEF Tx
<1>6. CASE TxPut
  <2>1. lwip'.frame = NoFrame /\ lwip'.up = lwip.up BY <1>6, LwipFields DEF TxPut
  <2>2. lwip.up BY <1>6 DEF TxPut
  <2>3. ~(app.pc = "len" \/ Quiet) BY <2>2
  <2> QED BY <1>6, <2>1, <2>3 DEF TxPut
<1>7. CASE TxWait
  <2>1. /\ lwip'.up = lwip.up
        /\ lwip'.frame \in {lwip.frame, NoFrame}
    BY <1>7, LwipFields DEF TxWait
  <2> QED BY <1>7, <2>1 DEF TxWait
<1> QED BY <1>1, <1>2, <1>3, <1>4, <1>5, <1>6, <1>7 DEF UsbStep, LwipStep

LEMMA SlotStep == TypeInv /\ SlotInv /\ [Next]_vars => SlotInv'
  BY PendingStep, SendApp, SendOthers DEF SlotInv, Next

\* The slot invariant together with the types is inductive.
LEMMA SlotAlways == Spec => [](TypeInv /\ SlotInv)
  BY InitType, InitSlot, NextType, SlotStep, PTL DEF Spec

\* The slot is never blocked except between a claim and its recovery
\* (usbnet_raw_try_xmit_queued).
THEOREM SlotNeverStuck == Spec => []PendingIsClaimed
<1>1. SlotInv => PendingIsClaimed BY DEF SlotInv
<1> QED BY SlotAlways, <1>1, PTL

\* After stop nothing is left to send (mp_usbnet_tinyusb_net_stop).
THEOREM NothingOutlivesStop == Spec => []StoppedIsEmpty
<1>1. SlotInv => StoppedIsEmpty BY DEF SlotInv, SendInv, Quiet, StoppedIsEmpty
<1> QED BY SlotAlways, <1>1, PTL

-----------------------------------------------------------------------------
(* The slot implements the mailbox: only the copy of a frame transmits,   *)
(* only TxPut puts, and a reset of a full slot discards.                   *)

Full == (slot.queued \/ usb.pc = "copy") /\ slot.len > 0
MailboxStep == [Slot!Next]_<<slot.n, Full, wire>>

LEMMA InitMailbox == Init => Slot!Init
  BY DEF Init, Slot!Init

\* Numbers stay, nothing goes out, and the slot is emptied or left as it is.
LEMMA Emptied ==
  ASSUME slot'.n = slot.n, wire' = wire, Full' => Full
  PROVE  MailboxStep
<1>1. Full \in BOOLEAN /\ Full' \in BOOLEAN BY DEF Full
<1>2. CASE Full' = Full BY <1>2 DEF MailboxStep
<1>3. CASE Full /\ ~Full' BY <1>3 DEF MailboxStep, Full, Slot!Next, Slot!Discard
<1> QED BY <1>1, <1>2, <1>3

LEMMA AppMailbox ==
  ASSUME TypeInv, Start \/ Stop \/ AppStep
  PROVE  MailboxStep
<1> USE DEF TypeInv, TypeOK
<1>1. usb' = usb /\ wire' = wire
  BY DEF AppStep, Start, Stop, StartReset, StartMark, StartAttach, StartRun, StartDone,
       StartFails, StopDown, StopPending, StopQueued, StopLen, StopUnmark, StopDetach,
       StopDestroy
<1>2. /\ slot'.n = slot.n
      /\ slot'.queued => slot.queued
      /\ slot'.len = slot.len \/ slot'.len = 0
  <2>1. CASE StartReset BY <2>1, SlotFields DEF StartReset
  <2>2. CASE StopPending BY <2>2, SlotFields DEF StopPending
  <2>3. CASE StopQueued BY <2>3, SlotFields DEF StopQueued
  <2>4. CASE StopLen BY <2>4, SlotFields DEF StopLen
  <2>5. CASE ~(StartReset \/ StopPending \/ StopQueued \/ StopLen)
    <3>1. slot' = slot
      BY <2>5 DEF AppStep, Start, Stop, StartMark, StartAttach, StartRun, StartDone,
           StartFails, StopDown, StopUnmark, StopDetach, StopDestroy
    <3> QED BY <3>1
  <2> QED BY <2>1, <2>2, <2>3, <2>4, <2>5
<1>3. Full' => Full BY <1>1, <1>2 DEF Full
<1> QED BY <1>1, <1>2, <1>3, Emptied

LEMMA UsbMailbox ==
  ASSUME TypeInv, RecvCallback \/ HookTest \/ UsbStep
  PROVE  MailboxStep
<1> USE DEF TypeInv, TypeOK
<1>1. CASE RecvCallback \/ RecvSuspend \/ RecvPass \/ RecvCheck \/ RecvDeliver \/ RecvRenew
           \/ HookTest \/ HookPending \/ HookRenew \/ HookClear \/ TryTest \/ XmitEmpty
           \/ XmitNoCallback
  <2>1. slot' = slot /\ wire' = wire
    BY <1>1 DEF RecvCallback, RecvSuspend, RecvPass, RecvCheck, RecvDeliver, RecvRenew,
         HookTest, HookPending, HookRenew, HookClear, TryTest, XmitEmpty, XmitNoCallback
  <2>2. usb'.pc # "copy"
    BY <1>1, UsbAt DEF RecvCallback, RecvSuspend, RecvPass, RecvCheck, RecvDeliver, RecvRenew,
         HookTest, HookPending, HookRenew, HookClear, TryTest, XmitEmpty, XmitNoCallback
  <2> QED BY <2>1, <2>2, Emptied DEF Full
<1>2. CASE TryLook
  <2>1. slot' = slot /\ wire' = wire BY <1>2 DEF TryLook
  <2>2. usb'.pc # "copy" BY <1>2 DEF TryLook, UsbState
  <2> QED BY <2>1, <2>2, Emptied DEF Full
<1>3. CASE TryClaim
  <2>1. usb'.pc # "copy" BY <1>3 DEF TryClaim, UsbState
  <2>2. /\ slot'.queued = slot.queued /\ slot'.len = slot.len /\ slot'.n = slot.n
        /\ wire' = wire
    BY <1>3, SlotFields DEF TryClaim
  <2> QED BY <2>1, <2>2, Emptied DEF Full
<1>4. CASE XmitCalls
  <2>1. slot' = slot /\ wire' = wire BY <1>4 DEF XmitCalls
  <2>2. Full BY <1>4 DEF XmitCalls, Full
  <2> QED BY <2>1, <2>2, Emptied
<1>5. CASE XmitCopy
  <2>1. usb.pc = "copy" /\ usb'.pc = "recover" BY <1>5, UsbAt DEF XmitCopy
  <2>2. ~slot'.queued /\ slot'.len = 0 /\ slot'.n = slot.n BY <1>5, SlotFields DEF XmitCopy
  <2>3. ~Full' BY <2>1, <2>2 DEF Full
  <2>4. CASE slot.len > 0
    <3>1. wire' = Append(wire, slot.n) BY <1>5, <2>4 DEF XmitCopy
    <3>2. Full BY <2>1, <2>4 DEF Full
    <3>3. Slot!Transmit BY <2>2, <2>3, <3>1, <3>2 DEF Slot!Transmit, Full
    <3> QED BY <3>3 DEF MailboxStep, Slot!Next
  <2>5. CASE ~(slot.len > 0)
    <3>1. wire' = wire BY <1>5, <2>5 DEF XmitCopy
    <3> QED BY <2>2, <2>3, <3>1, Emptied
  <2> QED BY <2>4, <2>5
<1>6. CASE Recover
  <2>1. usb'.pc # "copy" BY <1>6, UsbAt DEF Recover
  <2>2. /\ slot'.queued = slot.queued /\ slot'.len = slot.len /\ slot'.n = slot.n
        /\ wire' = wire
    BY <1>6, SlotFields DEF Recover
  <2> QED BY <2>1, <2>2, Emptied DEF Full
<1> QED BY <1>1, <1>2, <1>3, <1>4, <1>5, <1>6 DEF UsbStep

LEMMA OtherMailbox ==
  ASSUME TypeInv, SlotInv, Tx \/ LwipStep \/ HostActs \/ UNCHANGED vars
  PROVE  MailboxStep
<1>1. CASE Tx \/ TxWait \/ HostActs \/ UNCHANGED vars
  <2>1. UNCHANGED <<slot, usb, wire>>
    BY <1>1 DEF Tx, TxWait, HostActs, HostStep, HostAttaches, HostActivates, HostSleeps,
         HostWakes, HostDetaches, HostTakes, vars
  <2> QED BY <2>1, Emptied DEF Full
<1>2. CASE TxPut
  <2>1. lwip.frame.n = slot.n + 1 /\ lwip.frame.len > 0
    BY <1>2 DEF TxPut, SlotInv, SendInv
  <2>2. slot'.n = slot.n + 1 /\ slot'.queued /\ slot'.len > 0 /\ wire' = wire
    BY <1>2, <2>1 DEF TxPut
  <2>3. Full' = TRUE BY <2>2 DEF Full
  <2>4. Slot!Put BY <2>2, <2>3 DEF Slot!Put, Full
  <2> QED BY <2>4 DEF MailboxStep, Slot!Next
<1> QED BY <1>1, <1>2 DEF LwipStep

LEMMA StepMailbox == TypeInv /\ SlotInv /\ [Next]_vars => MailboxStep
  BY AppMailbox, UsbMailbox, OtherMailbox DEF Next

\* What goes out is the newest frame accepted, at most once: the detailed slot
\* implements the mailbox (mp_usbnet_tinyusb_net_tx, tud_network_xmit_cb).
THEOREM ImplementsMailbox == Spec => NewestIsSent
<1>1. TypeInv /\ SlotInv /\ [Next]_vars => [Slot!Next]_<<slot.n, Full, wire>>
  BY StepMailbox DEF MailboxStep
<1>2. Slot!Spec <=> Slot!Init /\ [][Slot!Next]_<<slot.n, Full, wire>>
  BY DEF Slot!Spec, Full
<1> QED BY InitMailbox, SlotAlways, <1>1, <1>2, PTL DEF Spec, NewestIsSent
=============================================================================
