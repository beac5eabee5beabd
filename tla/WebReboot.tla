----------------------------- MODULE WebReboot -----------------------------
(***************************************************************************)
(* The browser's reboot button: the status word that web_terminal.cpp on   *)
(* core 1 and the supervisor of main.c on core 0 both change, each with a  *)
(* deadline of its own, and the USB setup's reboot that shares the         *)
(* supervisor's flags.  Every access of the word is a step of its own; a   *)
(* deadline may be over at any time.  The orderly stop itself is module    *)
(* Supervisor: here it may end, or fail, at any turn of service_run.       *)
(***************************************************************************)
EXTENDS Naturals

CONSTANTS MaxFrames   \* bound: how many REBOOT frames the browser sends

VARIABLE wr

Idle == "idle"
Active == {"requested", "flushing", "restarting"}

Init == wr =
  [status |-> Idle, deadline |-> FALSE, reported |-> "unknown", ready |-> FALSE,
   frames |-> 0,                                         \* core 1
   at |-> "requested", web |-> FALSE, after |-> FALSE, restart |-> FALSE,
   stop |-> FALSE, running |-> TRUE, clean |-> FALSE, commands |-> 0,  \* core 0
   fatal |-> FALSE, rebooted |-> FALSE,
   usb |-> FALSE, expired |-> FALSE]                     \* ghosts

-----------------------------------------------------------------------------
(* Core 1.                                                                  *)

BrowserReady(on) == /\ wr.ready # on
  /\ wr' = [wr EXCEPT !.ready = on, !.reported = "unknown"]

(* on_message: a REBOOT frame.                                              *)
RebootFrame == /\ wr.ready /\ wr.frames < MaxFrames
  /\ wr' = IF wr.status \in Active \cup {"timeout"}
           THEN [wr EXCEPT !.frames = @ + 1, !.reported = "unknown"]
           ELSE [wr EXCEPT !.frames = @ + 1, !.reported = "unknown",
                           !.status = "requested", !.deadline = TRUE]

check_reboot_deadline == /\ wr.deadline
  /\ \/ wr.status \in Active /\ wr' = [wr EXCEPT !.status = "timeout", !.deadline = FALSE]
     \/ wr.status \notin Active /\ wr' = [wr EXCEPT !.deadline = FALSE]

report_reboot_status == /\ wr.ready /\ wr.status # wr.reported
  /\ wr' = [wr EXCEPT !.reported = wr.status, !.ready = wr.status # "restarting"]

-----------------------------------------------------------------------------
(* Core 0: z80_web_terminal_set_reboot_status, begin_reboot.                *)

set_always(w, status) == [w EXCEPT !.status = status]    \* mutant: over a time-out

set_reboot_status(w, status) ==
  CASE status = "ready"   -> IF w.status = Idle THEN [w EXCEPT !.status = status] ELSE w
    [] w.status = "timeout" -> w
    [] OTHER              -> [w EXCEPT !.status = status]

begin_reboot(w) ==
  IF w.status # "requested" THEN w
  ELSE [w EXCEPT !.status = "flushing", !.web = TRUE, !.after = TRUE, !.stop = TRUE]

Cancelled(w) == [w EXCEPT !.web = FALSE, !.after = FALSE, !.restart = FALSE, !.usb = FALSE]

Goto(w, at) == [w EXCEPT !.at = at]
At(at) == wr.at = at /\ ~wr.rebooted

(* service_control, one look at the word at a time.                         *)
requested == /\ At("requested")
  /\ wr' = Goto(wr, IF wr.status # "requested" THEN "timeout"
                    ELSE IF \/ wr.after \/ wr.restart \/ wr.stop \/ ~wr.running \/ wr.fatal
                    THEN "reject" ELSE "begin")

reject == /\ At("reject") /\ wr' = Goto(set_reboot_status(wr, "rejected"), "timeout")

begin == /\ At("begin") /\ wr' = Goto(begin_reboot(wr), "timeout")

timeout == /\ At("timeout")
  /\ wr' = [Goto(IF wr.web /\ wr.status = "timeout" THEN Cancelled(wr) ELSE wr, "storage")
              EXCEPT !.expired = wr.status = "timeout"]

storage == /\ At("storage")
  /\ wr' = Goto(IF wr.web /\ wr.fatal
                THEN set_reboot_status(Cancelled(wr), "storage error") ELSE wr, "deadline")

webDeadline == /\ At("deadline")
  /\ \/ wr.web /\ wr' = Goto(set_reboot_status(Cancelled(wr), "timeout"), "reset")
     \/ wr' = Goto(wr, "reset")

watchdog_reboot == /\ At("reset") /\ wr.restart
  /\ wr' = [wr EXCEPT !.restart = FALSE, !.rebooted = TRUE]

noReset == /\ At("reset") /\ wr' = Goto(wr, "command")

command == /\ At("command")
  /\ wr' = IF wr.commands = 0 THEN Goto(wr, "run")
           ELSE IF ~wr.running \/ wr.fatal THEN Goto([wr EXCEPT !.commands = 0], "run")
           ELSE Goto([wr EXCEPT !.commands = 0, !.after = TRUE, !.stop = TRUE,
                                !.usb = TRUE], "run")

(* service_run                                                              *)
Held(w) == [w EXCEPT !.running = FALSE, !.stop = FALSE]

runFails == /\ At("run") /\ wr.running /\ wr.fatal
  /\ LET w == Held([wr EXCEPT !.after = FALSE, !.usb = FALSE, !.web = FALSE]) IN
     wr' = Goto(IF wr.web THEN set_reboot_status(w, "storage error") ELSE w, "requested")

runReady == /\ At("run") /\ wr.running /\ ~wr.fatal /\ ~wr.stop
  /\ wr' = Goto(set_reboot_status(wr, "ready"), "requested")

runOn == /\ At("run")
  /\ \/ ~wr.running /\ wr' = Goto(wr, "requested")
     \/ wr.running /\ ~wr.fatal /\ wr' = Goto(wr, "requested")
     \/ wr.stop /\ wr.running /\ ~wr.fatal /\ wr' = Goto(Held(wr), "requested")  \* the bus fails

runStopped == /\ At("run") /\ wr.running /\ ~wr.fatal /\ wr.stop
  /\ LET w == [Held(wr) EXCEPT !.clean = TRUE] IN
     wr' = IF ~wr.after THEN Goto(w, "requested")
           ELSE LET r == [w EXCEPT !.after = FALSE, !.restart = TRUE] IN
                Goto(IF wr.web THEN set_reboot_status(r, "restarting") ELSE r, "requested")

(* The USB setup queues its reboot; the operator asks for a stop; core 1    *)
(* meets a fatal storage error.                                             *)
USB_CONFIG_REBOOT == /\ ~wr.rebooted /\ wr.commands = 0 /\ wr.running
  /\ wr' = [wr EXCEPT !.commands = 1]
OperatorStop == /\ At("command") /\ wr.running /\ ~wr.after /\ ~wr.stop
  /\ wr' = [wr EXCEPT !.stop = TRUE]
StorageFails == /\ ~wr.fatal /\ ~wr.clean /\ ~wr.rebooted /\ wr' = [wr EXCEPT !.fatal = TRUE]

Core1 == \/ RebootFrame \/ check_reboot_deadline \/ report_reboot_status
         \/ \E on \in BOOLEAN : BrowserReady(on)
Core0 == \/ requested \/ reject \/ begin \/ timeout \/ storage \/ webDeadline
         \/ watchdog_reboot \/ noReset \/ command \/ runFails \/ runReady \/ runOn
         \/ runStopped
Next == ~wr.rebooted /\ (Core1 \/ Core0 \/ USB_CONFIG_REBOOT \/ OperatorStop \/ StorageFails)

-----------------------------------------------------------------------------
(* The board restarts by itself only after an orderly stop, never after a   *)
(* storage error, and never for a request that had expired when core 0 last *)
(* looked: an expired request starts or resumes nothing.  What the browser  *)
(* is told is true: "flushing" while the supervisor works on its request,   *)
(* "restarting" once the CPU is held, and a time-out is never taken back.   *)
RebootAgrees ==
  /\ wr.rebooted => wr.clean /\ ~wr.running /\ ~wr.fatal /\ (wr.expired => wr.usb)
  /\ wr.status = "flushing" => wr.web /\ ~wr.restart
  /\ wr.status = "restarting" => wr.clean /\ ~wr.running
  /\ wr.web => wr.status \in {"flushing", "restarting", "timeout"}
  /\ wr.reported = "timeout" => wr.status = "timeout"
=============================================================================
