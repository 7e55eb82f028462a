------------------------------- MODULE UsbNet -------------------------------
(***************************************************************************)
(* The USB network plugin (mp_usbnet.c, usb_netif_glue.c, and the raw      *)
(* TinyUSB backend of usb_netif_port.c).  Three tasks run it:              *)
(*                                                                         *)
(*   app   the program that calls usbnet.start and usbnet.stop;            *)
(*   usb   a loop, as in the probe's usb_device_task: tud_task, which      *)
(*         calls back for received frames and for the frame to send, and   *)
(*         then mp_usbd_post_task_hook;                                    *)
(*   lwip  the TCP/IP task, which hands over frames to send.               *)
(*                                                                         *)
(* The tasks share flags without a lock, except for the slot of the frame  *)
(* to send: usb and lwip use it under s_raw_lock, app resets it without.   *)
(* The code is cut wherever another task can tell the difference.          *)
(*                                                                         *)
(* External: TinyUSB and the host behind it; esp_netif, whose start and    *)
(* stop run in the TCP/IP task, so never while lwip sends a frame.         *)
(***************************************************************************)
EXTENDS Integers, Sequences

CONSTANTS
  Lens,       \* lengths of the IPv4 and ARP frames lwIP sends
  MaxLen,     \* sizeof(s_raw_tx_frame) (1514)
  MaxTries,   \* attempts of a transmission (50)
  MaxStarts,  \* bound: calls of start
  MaxFrames   \* bound: frames lwIP sends

ASSUME UsbAssumption ==
  /\ Lens \subseteq Nat \ {0} /\ MaxLen \in Nat \ {0}
  /\ MaxTries \in Nat \ {0} /\ MaxStarts \in Nat /\ MaxFrames \in Nat

VARIABLES
  app,     \* where app is, how often it has called start; history: its last start overtook the hook
  net,     \* s_up, s_running, the glue's s_netif, s_tinyusb_net_started, s_raw_rx_renew_pending
  slot,    \* s_raw_tx_queued, s_raw_tx_pending, s_raw_tx_len; n numbers the frame
  usb,     \* where usb is, and the length it has seen
  lwip,    \* external: the interface is up; the frame being sent, and its attempts
  host,    \* external: the link, the endpoint out is armed, the endpoint in is free
  wire     \* history: frames sent to the host

vars == <<app, net, slot, usb, lwip, host, wire>>

Links == {"away", "mounted", "active", "asleep"}
AppLabels == {"idle", "reset", "mark", "attach", "run", "address",
              "down", "pending", "queued", "len", "unmark", "detach", "destroy"}
UsbLabels == {"idle", "recv", "check", "deliver", "renew",
              "hookpending", "hookrenew", "hookclear",
               "try", "look", "claim", "xmit", "copy", "recover"}
Frame == [n : Nat, len : 0 .. MaxLen]

AppState == [pc : AppLabels, starts : 0 .. MaxStarts, overtook : BOOLEAN]
Flags == [up : BOOLEAN, running : BOOLEAN, netif : BOOLEAN, started : BOOLEAN, renew : BOOLEAN]
SlotState == [queued : BOOLEAN, pending : BOOLEAN, len : 0 .. MaxLen, n : Nat]
UsbState == [pc : UsbLabels, len : 0 .. MaxLen]
LwipState == [up : BOOLEAN, frame : Frame, tries : 0 .. MaxTries]
HostState == [link : Links, armed : BOOLEAN, free : BOOLEAN]
NoFrame == [n |-> 0, len |-> 0]
NoTx == [up |-> FALSE, frame |-> NoFrame, tries |-> 0]

TudReady == host.link \in {"mounted", "active"}
\* tud_network_recv_renew, which is too early before the host activates the interface.
Renew == host' = [host EXCEPT !.armed = host.link = "active"]

Init ==
  /\ app = [pc |-> "idle", starts |-> 0, overtook |-> FALSE]
  /\ net = [up |-> FALSE, running |-> FALSE, netif |-> FALSE, started |-> FALSE, renew |-> FALSE]
  /\ slot = [queued |-> FALSE, pending |-> FALSE, len |-> 0, n |-> 0]
  /\ usb = [pc |-> "idle", len |-> 0]
  /\ lwip = NoTx
  /\ host = [link |-> "away", armed |-> FALSE, free |-> FALSE]
  /\ wire = << >>

AppGoes(from, to) == app.pc = from /\ app' = [app EXCEPT !.pc = to]
UsbGoes(from, to) == usb.pc = from /\ usb' = [usb EXCEPT !.pc = to]

-----------------------------------------------------------------------------
(* mp_usbnet_start; a step of it that fails before the glue is started      *)
(* changes nothing.                                                         *)

Start ==
  /\ ~net.up /\ app.starts < MaxStarts
  /\ AppGoes("idle", "reset")
  /\ UNCHANGED <<net, slot, usb, lwip, host, wire>>

\* Between its test of s_tinyusb_net_started and the clearing of the other flag.
InHook == usb.pc \in {"hookpending", "hookrenew", "hookclear"}
StartCounted == app' = [pc |-> "mark", starts |-> app.starts + 1, overtook |-> InHook]

\* Mutant: the suspended endpoint is forgotten.
StartResetForgetsRenew ==
  /\ app.pc = "reset" /\ StartCounted
  /\ slot' = [slot EXCEPT !.queued = FALSE, !.pending = FALSE, !.len = 0]
  /\ UNCHANGED <<net, usb, lwip, host, wire>>

\* mp_usbnet_tinyusb_net_start
StartReset ==
  /\ app.pc = "reset" /\ StartCounted
  /\ slot' = [slot EXCEPT !.queued = FALSE, !.pending = FALSE, !.len = 0]
  /\ net' = [net EXCEPT !.renew = TRUE]
  /\ UNCHANGED <<usb, lwip, host, wire>>

StartMark ==
  /\ AppGoes("mark", "attach")
  /\ net' = [net EXCEPT !.started = TRUE]
  /\ UNCHANGED <<slot, usb, lwip, host, wire>>

\* usb_netif_glue_start brings the interface up before it is s_running.
StartAttach ==
  /\ AppGoes("attach", "run")
  /\ net' = [net EXCEPT !.netif = TRUE]
  /\ lwip' = [lwip EXCEPT !.up = TRUE]
  /\ UNCHANGED <<slot, usb, host, wire>>

StartRun ==
  /\ AppGoes("run", "address")
  /\ net' = [net EXCEPT !.running = TRUE]
  /\ UNCHANGED <<slot, usb, lwip, host, wire>>

StartDone ==
  /\ AppGoes("address", "idle")
  /\ net' = [net EXCEPT !.up = TRUE]
  /\ UNCHANGED <<slot, usb, lwip, host, wire>>

\* The address cannot be set again: the glue is stopped, and start fails.
StartFails ==
  /\ AppGoes("address", "down")
  /\ UNCHANGED <<net, slot, usb, lwip, host, wire>>

-----------------------------------------------------------------------------
(* mp_usbnet_stop, usb_netif_glue_stop, mp_usbnet_tinyusb_net_stop          *)

Stop ==
  /\ net.up
  /\ AppGoes("idle", "down")
  /\ UNCHANGED <<net, slot, usb, lwip, host, wire>>

\* esp_netif_action_stop waits for a transmission that is under way.
StopDown ==
  /\ lwip.frame = NoFrame
  /\ AppGoes("down", "pending")
  /\ lwip' = NoTx
  /\ UNCHANGED <<net, slot, usb, host, wire>>

StopPending ==
  /\ AppGoes("pending", "queued")
  /\ slot' = [slot EXCEPT !.pending = FALSE]
  /\ UNCHANGED <<net, usb, lwip, host, wire>>

\* Mutant: the frame is left in the slot.
StopQueuedKeeps ==
  /\ AppGoes("queued", "len")
  /\ UNCHANGED <<net, slot, usb, lwip, host, wire>>

StopQueued ==
  /\ AppGoes("queued", "len")
  /\ slot' = [slot EXCEPT !.queued = FALSE]
  /\ UNCHANGED <<net, usb, lwip, host, wire>>

StopLen ==
  /\ AppGoes("len", "unmark")
  /\ slot' = [slot EXCEPT !.len = 0]
  /\ net' = [net EXCEPT !.renew = FALSE]
  /\ UNCHANGED <<usb, lwip, host, wire>>

StopUnmark ==
  /\ AppGoes("unmark", "detach")
  /\ net' = [net EXCEPT !.started = FALSE]
  /\ UNCHANGED <<slot, usb, lwip, host, wire>>

StopDetach ==
  /\ AppGoes("detach", "destroy")
  /\ net' = [net EXCEPT !.netif = FALSE]
  /\ UNCHANGED <<slot, usb, lwip, host, wire>>

\* Not running any more, the interface destroyed, and down.
StopDestroy ==
  /\ AppGoes("destroy", "idle")
  /\ net' = [net EXCEPT !.running = FALSE, !.up = FALSE]
  /\ UNCHANGED <<slot, usb, lwip, host, wire>>

-----------------------------------------------------------------------------
(* usb: a frame from the host.                                              *)

RecvCallback ==
  /\ host.armed /\ host.link = "active"
  /\ UsbGoes("idle", "recv")
  /\ host' = [host EXCEPT !.armed = FALSE]
  /\ UNCHANGED <<app, net, slot, lwip, wire>>

\* Not started: the endpoint is left as it is, which holds the host back.
RecvSuspend ==
  /\ ~net.started
  /\ UsbGoes("recv", "idle")
  /\ UNCHANGED <<app, net, slot, lwip, host, wire>>

\* Started: a frame that is not IPv4 or ARP is ignored, another one is passed on.
RecvPass ==
  /\ net.started
  /\ UsbGoes("recv", "renew") \/ UsbGoes("recv", "check")
  /\ UNCHANGED <<app, net, slot, lwip, host, wire>>

\* usb_netif_glue_on_usb_rx: the test; its copy of the frame may fail.
RecvCheck ==
  /\ \/ UsbGoes("check", "renew")
     \/ net.running /\ net.netif /\ UsbGoes("check", "deliver")
  /\ UNCHANGED <<app, net, slot, lwip, host, wire>>

\* esp_netif_receive, by now perhaps on an interface that stop has destroyed.
RecvDeliver ==
  /\ UsbGoes("deliver", "renew")
  /\ UNCHANGED <<app, net, slot, lwip, host, wire>>

RecvRenew ==
  /\ UsbGoes("renew", "idle")
  /\ Renew
  /\ UNCHANGED <<app, net, slot, lwip, wire>>

-----------------------------------------------------------------------------
(* usb: mp_usbd_post_task_hook and usbnet_raw_try_xmit_queued.              *)

\* The hook reads one flag, then the other; app may write both in between.
HookTest ==
  /\ UsbGoes("idle", IF net.started THEN "hookpending" ELSE "try")
  /\ UNCHANGED <<app, net, slot, lwip, host, wire>>

HookPending ==
  /\ UsbGoes("hookpending", IF net.renew /\ TudReady THEN "hookrenew" ELSE "try")
  /\ UNCHANGED <<app, net, slot, lwip, host, wire>>

HookRenew ==
  /\ UsbGoes("hookrenew", "hookclear")
  /\ Renew
  /\ UNCHANGED <<app, net, slot, lwip, wire>>

HookClear ==
  /\ UsbGoes("hookclear", "try")
  /\ net' = [net EXCEPT !.renew = FALSE]
  /\ UNCHANGED <<app, slot, lwip, host, wire>>

TryTest ==
  /\ UsbGoes("try", IF net.started /\ TudReady THEN "look" ELSE "idle")
  /\ UNCHANGED <<app, net, slot, lwip, host, wire>>

Sendable == slot.queued /\ ~slot.pending

TryLook ==
  /\ usb.pc = "look"
  /\ usb' = IF Sendable /\ slot.len > 0 /\ host.free
              THEN [pc |-> "claim", len |-> slot.len] ELSE [usb EXCEPT !.pc = "idle"]
  /\ UNCHANGED <<app, net, slot, lwip, host, wire>>

\* Another frame may be in the slot by now; one of the same length is as good.
TryClaim ==
  /\ usb.pc = "claim"
  /\ IF Sendable /\ slot.len = usb.len
       THEN usb' = [usb EXCEPT !.pc = "xmit"] /\ slot' = [slot EXCEPT !.pending = TRUE]
       ELSE usb' = [usb EXCEPT !.pc = "idle"] /\ UNCHANGED slot
  /\ UNCHANGED <<app, net, lwip, host, wire>>

\* tud_network_xmit calls tud_network_xmit_cb, which takes s_raw_lock.
XmitCalls ==
  /\ slot.pending /\ slot.queued /\ slot.len > 0
  /\ UsbGoes("xmit", "copy")
  /\ UNCHANGED <<app, net, slot, lwip, host, wire>>

\* app has reset the slot in between: an empty packet goes out.
XmitEmpty ==
  /\ ~(slot.pending /\ slot.queued /\ slot.len > 0)
  /\ UsbGoes("xmit", "recover")
  /\ host' = [host EXCEPT !.free = FALSE]
  /\ UNCHANGED <<app, net, slot, lwip, wire>>

\* TinyUSB may fail to call back.
XmitNoCallback ==
  /\ UsbGoes("xmit", "recover")
  /\ UNCHANGED <<app, net, slot, lwip, host, wire>>

\* Mutant: the frame stays in the slot.
XmitCopyKeeps ==
  /\ UsbGoes("copy", "recover")
  /\ wire' = IF slot.len > 0 THEN Append(wire, slot.n) ELSE wire
  /\ slot' = [slot EXCEPT !.pending = FALSE]
  /\ host' = [host EXCEPT !.free = FALSE]
  /\ UNCHANGED <<app, net, lwip>>

\* The copy, still under the lock, which app does not take.
XmitCopy ==
  /\ UsbGoes("copy", "recover")
  /\ wire' = IF slot.len > 0 THEN Append(wire, slot.n) ELSE wire
  /\ slot' = [slot EXCEPT !.queued = FALSE, !.pending = FALSE, !.len = 0]
  /\ host' = [host EXCEPT !.free = FALSE]
  /\ UNCHANGED <<app, net, lwip>>

\* Mutant: a stale pending state is not recovered.
RecoverNever ==
  /\ UsbGoes("recover", "idle")
  /\ UNCHANGED <<app, net, slot, lwip, host, wire>>

Recover ==
  /\ UsbGoes("recover", "idle")
  /\ slot' = [slot EXCEPT !.pending = FALSE]
  /\ UNCHANGED <<app, net, lwip, host, wire>>

-----------------------------------------------------------------------------
(* lwip: usb_netif_glue_on_lwip_tx and mp_usbnet_tinyusb_net_tx             *)

\* Mutant: the length of a frame is not tested.
FitsAny(len) == TRUE
Fits(len) == len <= MaxLen

\* A frame that is too long, comes too early, or is neither IPv4 nor ARP changes
\* nothing.
Tx ==
  /\ lwip.up /\ lwip.frame = NoFrame
  /\ net.running /\ net.netif /\ net.started
  /\ slot.n < MaxFrames
  /\ \E len \in Lens :
       /\ Fits(len)
       /\ lwip' = [lwip EXCEPT !.frame = [n |-> slot.n + 1, len |-> len], !.tries = 0]
  /\ UNCHANGED <<app, net, slot, usb, host, wire>>

\* Unless a frame is about to go out, the new one takes the slot.
TxPut ==
  /\ lwip.frame # NoFrame /\ usb.pc # "copy" /\ ~slot.pending
  /\ slot' = [queued |-> TRUE, pending |-> FALSE, len |-> lwip.frame.len, n |-> lwip.frame.n]
  /\ lwip' = [NoTx EXCEPT !.up = lwip.up]
  /\ UNCHANGED <<app, net, usb, host, wire>>

\* Otherwise it waits a tick, and in the end gives the frame up.
TxWait ==
  /\ lwip.frame # NoFrame /\ usb.pc # "copy" /\ slot.pending
  /\ lwip' = IF lwip.tries + 1 < MaxTries THEN [lwip EXCEPT !.tries = @ + 1]
                                          ELSE [NoTx EXCEPT !.up = lwip.up]
  /\ UNCHANGED <<app, net, slot, usb, host, wire>>

-----------------------------------------------------------------------------
(* The host, whose doings TinyUSB learns of in tud_task.                    *)

HostStep(link, h) ==
  /\ usb.pc = "idle" /\ host.link \in link /\ host' = h
  /\ UNCHANGED <<app, net, slot, usb, lwip, wire>>

\* SET_CONFIGURATION, SET_INTERFACE (TinyUSB then arms the endpoint itself),
\* suspend, resume, and the end of a transfer to the host.
HostAttaches == HostStep({"away"}, [host EXCEPT !.link = "mounted"])
HostActivates == HostStep({"mounted"}, [link |-> "active", armed |-> TRUE, free |-> TRUE])
HostSleeps == HostStep({"active"}, [host EXCEPT !.link = "asleep"])
HostWakes == HostStep({"asleep"}, [host EXCEPT !.link = "active"])
HostDetaches == HostStep(Links \ {"away"}, [link |-> "away", armed |-> FALSE, free |-> FALSE])
HostTakes == ~host.free /\ HostStep({"active"}, [host EXCEPT !.free = TRUE])

-----------------------------------------------------------------------------
AppStep ==
  \/ StartReset \/ StartMark \/ StartAttach \/ StartRun \/ StartDone \/ StartFails
  \/ StopDown \/ StopPending \/ StopQueued \/ StopLen \/ StopUnmark \/ StopDetach \/ StopDestroy

UsbStep ==
  \/ RecvSuspend \/ RecvPass \/ RecvCheck \/ RecvDeliver \/ RecvRenew
  \/ HookPending \/ HookRenew \/ HookClear \/ TryTest \/ TryLook \/ TryClaim
  \/ XmitCalls \/ XmitEmpty \/ XmitNoCallback \/ XmitCopy \/ Recover

LwipStep == TxPut \/ TxWait

HostActs ==
  HostAttaches \/ HostActivates \/ HostSleeps \/ HostWakes \/ HostDetaches \/ HostTakes

Next ==
  \/ Start \/ Stop \/ AppStep
  \/ RecvCallback \/ HookTest \/ UsbStep
  \/ Tx \/ LwipStep
  \/ HostActs

Spec == Init /\ [][Next]_vars

\* Each task goes on with what it has begun; tud_task returns, so the hook runs
\* again and again; a host that stays active takes what is sent; TinyUSB does not
\* refuse to call back for ever.  Nothing else is assumed of the host, the program
\* or lwIP.
Fairness ==
  /\ WF_vars(AppStep) /\ WF_vars(UsbStep) /\ WF_vars(LwipStep)
  /\ SF_vars(HookTest) /\ SF_vars(HostTakes) /\ SF_vars(XmitCalls)

FairSpec == Spec /\ Fairness

-----------------------------------------------------------------------------
(* Properties.                                                             *)

\* The flags, the slot and the three tasks keep to their types, and a frame to
\* the size of the buffer.
TypeOK ==
  /\ app \in AppState
  /\ net \in Flags
  /\ slot \in SlotState
  /\ usb \in UsbState
  /\ lwip \in LwipState
  /\ host \in HostState
  /\ wire \in Seq(Nat)

\* The slot is only ever blocked while usb is between the claim of a frame and
\* its recovery, so a waiting transmission is let in, although app resets the
\* slot without the lock (usbnet_raw_try_xmit_queued, mp_usbnet_tinyusb_net_stop).
PendingIsClaimed == slot.pending => usb.pc \in {"xmit", "copy", "recover"}

\* Once the program's stop has returned, nothing is left to send: whatever usb
\* was doing meanwhile, no frame of a session reaches the next one
\* (mp_usbnet_tinyusb_net_stop, mp_usbnet_tinyusb_net_start).
StoppedIsEmpty == app.pc = "idle" /\ ~net.up => ~slot.queued /\ slot.len = 0

\* The slot as a mailbox: a frame that is being copied is still there.
Slot == INSTANCE Mailbox WITH
  newest <- slot.n,
  full <- (slot.queued \/ usb.pc = "copy") /\ slot.len > 0

\* What goes out is the newest frame accepted, at most once: frames replaced in
\* the slot between the two locked parts of the hook, resets and retries neither
\* repeat a frame nor bring back an old one (mp_usbnet_tinyusb_net_tx: "replace
\* it with the newest frame").
NewestIsSent == Slot!Spec

\* While the interface is up and the host active, a queued frame is not stuck: it
\* is sent, or the link or the interface goes (usbnet_raw_try_xmit_queued: "so
\* future retries can proceed").
QueuedIsSent == slot.queued ~> ~slot.queued \/ ~net.up \/ host.link # "active"

\* The host is held back only while the interface is not started: once it stays
\* up and the link active, the endpoint is armed again and again, also when a
\* frame came before start.  Excluded is a start that resets the flags while the
\* hook stands anywhere between its first test and the clearing of its flag
\* (ResumesAfterStart; tud_network_recv_cb, mp_usbd_post_task_hook).
ReceivingResumes ==
  <>[](net.up /\ host.link = "active" /\ ~app.overtook) => []<>host.armed

\* "suspended until usbnet.start": without that exclusion (tud_network_recv_cb).
ResumesAfterStart == <>[](net.up /\ host.link = "active") => []<>host.armed
=============================================================================
