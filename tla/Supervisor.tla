----------------------------- MODULE Supervisor -----------------------------
(***************************************************************************)
(* Stopping and rebooting a running CP/M: the supervisor loop on core 0 and *)
(* the service loop on core 1 (stage09_flash_storage/main.c), the reboot    *)
(* service (common/io_service.c) and the disk controller they both settle   *)
(* (common/disk_device.c).                                                  *)
(*                                                                         *)
(* Four activities interleave: the Z80, whose OUTs the PIO completes ahead  *)
(* of core 0 and queues; core 0's port trap, which applies them in order;   *)
(* core 0's loop; core 1's loop.  The disk controller appears at the        *)
(* granularity of whole port accesses and service calls (DiskDevice has the *)
(* interleavings inside them), the service transport as the right to submit *)
(* a reboot when none is pending (IoService).                               *)
(***************************************************************************)
EXTENDS Naturals, Sequences, SequencesExt

CONSTANTS
  FifoDepth,    \* OUTs the PIO holds for core 0
  Outs,         \* bound: the disk OUTs the Z80 makes
  FlushFaults,  \* may a backend flush fail?
  StopTwice,    \* may the operator ask to stop while a stop is under way?
  RebootTwice   \* may the Z80 ask to reboot before its last request is settled?

ASSUME FifoAssumption == FifoDepth \in Nat \ {0}
ASSUME OutsAssumption ==
  Outs \subseteq {"CLEAR", "READ", "WRITE", "LAST", "FLUSH", "BAD", "REBOOT"}
ASSUME SwitchAssumption ==
  FlushFaults \in BOOLEAN /\ StopTwice \in BOOLEAN /\ RebootTwice \in BOOLEAN

VARIABLES
  outs,                 \* the PIO's queue of completed OUTs
  port,                 \* what a port access changes: disk status, gate, job
  disk_fatal_error, supervisor_flush, dirty,          \* disk_device.c
  reboot_requested,                                   \* io_service.c
  flash_pause_request, flash_paused,                  \* main.c, both cores
  c0_pc, held, stop_requested, flush_submitted, flash_resuming,
  reboot_after_stop,    \* config_reboot_after_stop
  reboot_ready,         \* config_reboot_ready
  c1_pc, c1_pausing

storage == <<disk_fatal_error, supervisor_flush, dirty>>
handshake == <<flash_pause_request, flash_paused>>
core0 == <<c0_pc, held, stop_requested, flush_submitted, flash_resuming,
           reboot_after_stop, reboot_ready>>
core1 == <<c1_pc, c1_pausing>>
vars == <<outs, port, storage, reboot_requested, handshake, core0, core1>>

running == held = "no"

Init ==
  /\ outs = <<>>
  /\ port = [status |-> "READY", write_enabled |-> TRUE, pending |-> FALSE]
  /\ disk_fatal_error = FALSE
  /\ supervisor_flush = FALSE
  /\ dirty = FALSE
  /\ reboot_requested = FALSE
  /\ flash_pause_request = FALSE
  /\ flash_paused = FALSE
  /\ c0_pc = "reboot"
  /\ held = "no"
  /\ stop_requested = FALSE
  /\ flush_submitted = FALSE
  /\ flash_resuming = FALSE
  /\ reboot_after_stop = FALSE
  /\ reboot_ready = FALSE
  /\ c1_pc = "loop"
  /\ c1_pausing = FALSE

-----------------------------------------------------------------------------
(* The Z80 and the port trap.                                               *)

(* A reboot request is queued, being served or granted. *)
RebootUnderWay == Contains(outs, "REBOOT") \/ port.pending \/ reboot_requested

FifoRoom == Len(outs) < FifoDepth

(* The PIO completes an OUT and queues it; a full queue holds the Z80. *)
Z80Out(out) ==
  /\ running
  /\ FifoRoom
  /\ out = "REBOOT" => RebootTwice \/ ~RebootUnderWay
  /\ outs' = Append(outs, out)
  /\ UNCHANGED <<port, storage, reboot_requested, handshake, core0, core1>>

(* What applying an OUT does: z80_io_service_submit of a confirmed reboot,  *)
(* or z80_flash_disk_io_write.  LAST is a record's last data byte.          *)
Status(out) ==
  CASE out = "CLEAR" -> "READY"
    [] out = "READ" -> "DATA_READY"
    [] out = "WRITE" -> "DATA_ROOM"
    [] out \in {"LAST", "FLUSH"} -> "BUSY"
    [] out = "BAD" -> "ERROR"

ApplyOut(p, out) ==
  IF out = "REBOOT"
    THEN [p EXCEPT !.write_enabled = p.pending /\ @, !.pending = TRUE]
    ELSE IF \/ ~p.write_enabled
            \/ p.status = "BUSY"
            \/ out = "LAST" /\ p.status # "DATA_ROOM"
           THEN p
           ELSE [p EXCEPT !.status =
                   IF disk_fatal_error /\ out # "LAST" THEN "ERROR" ELSE Status(out)]

(* service_fifo: every OUT the PIO has completed, in bus order. *)
Drained ==
  LET applied[n \in 0 .. Len(outs)] ==
        IF n = 0 THEN port ELSE ApplyOut(applied[n - 1], outs[n])
  IN  applied[Len(outs)]

Trap ==
  /\ running
  /\ outs # <<>>
  /\ port' = ApplyOut(port, Head(outs))
  /\ outs' = Tail(outs)
  /\ UNCHANGED <<storage, reboot_requested, handshake, core0, core1>>

(* An IN waits for every earlier OUT; the record's last byte ends the read. *)
Z80In ==
  /\ running
  /\ outs = <<>>
  /\ port.status = "DATA_READY"
  /\ port' = [port EXCEPT !.status = "READY"]
  /\ UNCHANGED <<outs, storage, reboot_requested, handshake, core0, core1>>

QuiescentUnflushed(p) ==  \* mutant: the cache is not looked at
  ~supervisor_flush /\ p.status = "READY"

(* z80_flash_disk_quiescent *)
Quiescent(p) == ~supervisor_flush /\ p.status = "READY" /\ ~dirty

-----------------------------------------------------------------------------
(* Core 0's loop: reboot check, service_control, service_run.               *)

Restart ==
  /\ outs' = <<>>
  /\ port' = [status |-> "READY", write_enabled |-> TRUE, pending |-> FALSE]
  /\ disk_fatal_error' = FALSE
  /\ supervisor_flush' = FALSE
  /\ dirty' = FALSE
  /\ reboot_requested' = FALSE
  /\ flash_pause_request' = FALSE
  /\ flash_paused' = FALSE
  /\ c0_pc' = "reboot"
  /\ held' = "no"
  /\ stop_requested' = FALSE
  /\ flush_submitted' = FALSE
  /\ flash_resuming' = FALSE
  /\ reboot_after_stop' = FALSE
  /\ reboot_ready' = FALSE
  /\ c1_pc' = "loop"
  /\ c1_pausing' = FALSE

(* z80_io_ports_reboot_requested: hold_cpu and watchdog_reboot. *)
GrantedReboot ==
  /\ c0_pc = "reboot"
  /\ reboot_requested
  /\ Restart

NoReboot ==
  /\ c0_pc = "reboot"
  /\ ~reboot_requested
  /\ c0_pc' = "control"
  /\ UNCHANGED <<outs, port, storage, reboot_requested, handshake, held,
                 stop_requested, flush_submitted, flash_resuming,
                 reboot_after_stop, reboot_ready, core1>>

(* service_control: the second after a stop for a configuration is over. *)
ReadyReboot ==
  /\ c0_pc = "control"
  /\ reboot_ready
  /\ Restart

(* Ctrl-] r, refused while CP/M runs or stops. *)
OperatorReboot ==
  /\ c0_pc = "control"
  /\ ~running /\ ~stop_requested /\ ~reboot_ready
  /\ Restart

OrderlyStopUnpaused ==     \* mutant: core 1 is not asked to pause
  /\ stop_requested' = TRUE
  /\ UNCHANGED <<flush_submitted, flash_pause_request>>

(* diagnostic_command('x') while CP/M runs *)
OrderlyStop ==
  /\ stop_requested' = TRUE
  /\ flush_submitted' = FALSE
  /\ flash_pause_request' = TRUE

(* Ctrl-] x, or a configuration reboot, which rejects any other stop but    *)
(* joins one that is under way.  The boot timeout stops like Ctrl-] x.      *)
OperatorStop(reboot) ==
  /\ c0_pc = "control"
  /\ running
  /\ ~reboot_after_stop
  /\ reboot => ~disk_fatal_error
  /\ reboot \/ StopTwice \/ ~stop_requested
  /\ \/ /\ ~reboot \/ ~stop_requested
        /\ OrderlyStop
     \/ /\ reboot /\ stop_requested
        /\ UNCHANGED <<stop_requested, flush_submitted, flash_pause_request>>
  /\ reboot_after_stop' = reboot
  /\ c0_pc' = "run"
  /\ UNCHANGED <<outs, port, storage, reboot_requested, flash_paused, held,
                 flash_resuming, reboot_ready, core1>>

(* A web reboot that took too long is cancelled; the stop goes on. *)
CancelReboot ==
  /\ c0_pc = "control"
  /\ reboot_after_stop \/ reboot_ready
  /\ reboot_after_stop' = FALSE
  /\ reboot_ready' = FALSE
  /\ UNCHANGED <<outs, port, storage, reboot_requested, handshake, c0_pc, held,
                 stop_requested, flush_submitted, flash_resuming, core1>>

NoCommand ==
  /\ c0_pc = "control"
  /\ c0_pc' = "run"
  /\ UNCHANGED <<outs, port, storage, reboot_requested, handshake, held,
                 stop_requested, flush_submitted, flash_resuming,
                 reboot_after_stop, reboot_ready, core1>>

(* hold_cpu, which drains the queue; the reason is kept for the properties. *)
Hold(reason) ==
  /\ held' = reason
  /\ port' = Drained
  /\ outs' = <<>>
  /\ stop_requested' = FALSE
  /\ c0_pc' = "reboot"

RunUnchanged == UNCHANGED <<storage, reboot_requested, flash_paused, core1>>

RunIdle ==
  /\ c0_pc = "run"
  /\ ~running \/ (~disk_fatal_error /\ ~stop_requested)
  /\ c0_pc' = "reboot"
  /\ UNCHANGED <<outs, port, flash_pause_request, held, stop_requested,
                 flush_submitted, flash_resuming, reboot_after_stop, reboot_ready>>
  /\ RunUnchanged

RunFatal ==
  /\ c0_pc = "run"
  /\ running /\ disk_fatal_error
  /\ Hold("failed")
  /\ reboot_after_stop' = FALSE
  /\ UNCHANGED <<flash_pause_request, flush_submitted, flash_resuming, reboot_ready>>
  /\ RunUnchanged

Stopping == c0_pc = "run" /\ running /\ ~disk_fatal_error /\ stop_requested

(* Core 1 has seen the request withdrawn: ask it to pause again. *)
RunResuming ==
  /\ Stopping
  /\ flash_resuming
  /\ \/ /\ ~flash_paused
        /\ flash_resuming' = FALSE
        /\ flush_submitted' = FALSE
        /\ flash_pause_request' = TRUE
     \/ /\ flash_paused
        /\ UNCHANGED <<flash_resuming, flush_submitted, flash_pause_request>>
  /\ c0_pc' = "reboot"
  /\ UNCHANGED <<outs, port, held, stop_requested, reboot_after_stop, reboot_ready>>
  /\ RunUnchanged

(* The Z80 is parked and every completed OUT applied before the disk is     *)
(* looked at; then it is held, or released and core 1 resumed.              *)
RunPaused ==
  /\ Stopping
  /\ ~flash_resuming
  /\ flash_paused
  /\ \/ /\ Quiescent(Drained)
        /\ Hold("stopped")
        /\ reboot_ready' = reboot_after_stop
        /\ reboot_after_stop' = FALSE
        /\ UNCHANGED <<flash_pause_request, flash_resuming>>
     \/ /\ ~Quiescent(Drained)
        /\ port' = Drained
        /\ outs' = <<>>
        /\ flash_resuming' = TRUE
        /\ flash_pause_request' = FALSE
        /\ c0_pc' = "reboot"
        /\ UNCHANGED <<held, stop_requested, reboot_ready, reboot_after_stop>>
     \/ /\ Hold("failed")      \* the Z80 does not give or take the bus
        /\ UNCHANGED <<flash_pause_request, flash_resuming, reboot_ready, reboot_after_stop>>
  /\ UNCHANGED flush_submitted
  /\ RunUnchanged

(* Not paused yet: the flush is requested once. *)
RunWaiting ==
  /\ Stopping
  /\ ~flash_resuming
  /\ ~flash_paused
  /\ c0_pc' = IF flush_submitted THEN "reboot" ELSE "request_flush"
  /\ UNCHANGED <<outs, port, flash_pause_request, held, stop_requested,
                 flush_submitted, flash_resuming, reboot_after_stop, reboot_ready>>
  /\ RunUnchanged

RequestFlush ==
  /\ c0_pc = "request_flush"
  /\ supervisor_flush' = TRUE
  /\ flush_submitted' = TRUE
  /\ c0_pc' = "reboot"
  /\ UNCHANGED <<outs, port, disk_fatal_error, dirty, reboot_requested, handshake,
                 held, stop_requested, flash_resuming, reboot_after_stop,
                 reboot_ready, core1>>

-----------------------------------------------------------------------------
(* Core 1: z80_flash_core1_service.                                         *)

FlushFails ==
  /\ FlushFaults
  /\ disk_fatal_error' = TRUE
  /\ port' = [port EXCEPT !.status = "ERROR"]
  /\ UNCHANGED dirty

(* The pending command, else the supervisor's flush, else an overdue cache. *)
CommandService ==
  /\ port.status = "BUSY"
  /\ \/ /\ port' = [port EXCEPT !.status = "READY"]
        /\ dirty' \in BOOLEAN
        /\ UNCHANGED disk_fatal_error
     \/ FlushFails
  /\ UNCHANGED supervisor_flush

FlushService ==
  /\ port.status # "BUSY"
  /\ supervisor_flush \/ dirty
  /\ \/ dirty' = FALSE /\ UNCHANGED <<port, disk_fatal_error>>
     \/ dirty /\ FlushFails
  /\ supervisor_flush' = FALSE

NothingDue ==
  /\ disk_fatal_error \/ (port.status # "BUSY" /\ ~supervisor_flush)
  /\ UNCHANGED <<port, storage>>

DiskService ==
  \/ ~disk_fatal_error /\ (CommandService \/ FlushService)
  \/ NothingDue

-----------------------------------------------------------------------------
(* Core 1: core1_service.                                                   *)

Core1Unchanged == UNCHANGED <<outs, flash_pause_request, core0>>

Core1LoopRestless ==      \* mutant: a paused core 1 goes on serving
  /\ c1_pc = "loop"
  /\ flash_paused' = (flash_paused /\ flash_pause_request)
  /\ c1_pc' = "disk"
  /\ c1_pausing' = flash_pause_request
  /\ UNCHANGED <<port, storage, reboot_requested>>
  /\ Core1Unchanged

Core1Loop ==
  /\ c1_pc = "loop"
  /\ \/ /\ flash_pause_request
        /\ c1_pc' = IF flash_paused THEN "loop" ELSE "disk"
        /\ UNCHANGED flash_paused
     \/ /\ ~flash_pause_request
        /\ flash_paused' = FALSE
        /\ c1_pc' = "disk"
  /\ c1_pausing' = flash_pause_request
  /\ UNCHANGED <<port, storage, reboot_requested>>
  /\ Core1Unchanged

Core1Disk ==
  /\ c1_pc = "disk"
  /\ DiskService
  /\ c1_pc' = "job"
  /\ UNCHANGED <<reboot_requested, flash_paused, c1_pausing>>
  /\ Core1Unchanged

AfterJob == IF c1_pausing THEN "settle" ELSE "loop"

Core1Job ==
  /\ c1_pc = "job"
  /\ c1_pc' = IF port.pending THEN "service1" ELSE AfterJob
  /\ UNCHANGED <<port, storage, reboot_requested, flash_paused, c1_pausing>>
  /\ Core1Unchanged

(* The disk and the services at rest: then the pause is announced. *)
Core1Settle ==
  /\ c1_pc = "settle"
  /\ c1_pc' = IF Quiescent(port) /\ ~port.pending THEN "pause" ELSE "loop"
  /\ UNCHANGED <<port, storage, reboot_requested, flash_paused, c1_pausing>>
  /\ Core1Unchanged

Core1Pause ==
  /\ c1_pc = "pause"
  /\ flash_paused' = TRUE
  /\ c1_pc' = "loop"
  /\ UNCHANGED <<port, storage, reboot_requested, c1_pausing>>
  /\ Core1Unchanged

(* utility_service operation 2: serve the disk twice, flush, check. *)
RebootDiskService ==
  /\ c1_pc \in {"service1", "service2"}
  /\ DiskService
  /\ c1_pc' = IF c1_pc = "service1" THEN "service2" ELSE "flush"
  /\ UNCHANGED <<reboot_requested, flash_paused, c1_pausing>>
  /\ Core1Unchanged

FinishOpen(granted) ==    \* mutant: the gate opens again whatever the outcome
  /\ port' = [port EXCEPT !.pending = FALSE, !.write_enabled = TRUE]
  /\ reboot_requested' = (reboot_requested \/ granted)
  /\ c1_pc' = AfterJob

(* The gate opens again when the reboot is refused. *)
Finish(granted) ==
  /\ port' = [port EXCEPT !.pending = FALSE, !.write_enabled = @ \/ ~granted]
  /\ reboot_requested' = (reboot_requested \/ granted)
  /\ c1_pc' = AfterJob

(* z80_flash_backend_flush, which neither sees nor sets the fatal error. *)
RebootFlush ==
  /\ c1_pc = "flush"
  /\ \/ /\ dirty' = FALSE
        /\ c1_pc' = "check"
        /\ UNCHANGED <<port, reboot_requested>>
     \/ /\ FlushFaults /\ dirty
        /\ Finish(FALSE)
        /\ UNCHANGED dirty
  /\ UNCHANGED <<disk_fatal_error, supervisor_flush, flash_paused, c1_pausing>>
  /\ Core1Unchanged

RebootCheck ==
  /\ c1_pc = "check"
  /\ Finish(Quiescent(port))
  /\ UNCHANGED <<storage, flash_paused, c1_pausing>>
  /\ Core1Unchanged

-----------------------------------------------------------------------------
Core0Loop ==
  \/ GrantedReboot \/ NoReboot
  \/ ReadyReboot \/ NoCommand
  \/ RunIdle \/ RunFatal \/ RunResuming \/ RunPaused \/ RunWaiting \/ RequestFlush

Core1Step ==
  \/ Core1Loop \/ Core1Disk \/ Core1Job \/ Core1Settle \/ Core1Pause
  \/ RebootDiskService \/ RebootFlush \/ RebootCheck

Next ==
  \/ \E out \in Outs : Z80Out(out)
  \/ Z80In
  \/ Trap
  \/ Core0Loop
  \/ OperatorReboot
  \/ CancelReboot
  \/ \E reboot \in BOOLEAN : OperatorStop(reboot)
  \/ Core1Step

(* Both loops and the trap keep running; the Z80 and the operator need not. *)
(* Time passes: a cache that stays dirty becomes overdue.                   *)
Fairness ==
  /\ WF_vars(Core0Loop)
  /\ WF_vars(Trap)
  /\ WF_vars(Core1Step)
  /\ SF_vars(Core1Disk /\ ~disk_fatal_error /\ FlushService)

Spec == Init /\ [][Next]_vars
FairSpec == Spec /\ Fairness

-----------------------------------------------------------------------------
(* Properties.                                                              *)

(* "Disk quiescent; RESET held LOW" is true: when an orderly stop has held  *)
(* the Z80, every write it completed, even one still in the PIO's queue     *)
(* when the stop was decided, is in flash, and core 1 leaves it so.         *)
StoppedIsDurable ==
  held = "stopped" => /\ outs = <<>>
                      /\ port.status = "READY"
                      /\ ~dirty

(* When the supervisor has been told to reboot, every write the Z80 has     *)
(* completed is in flash, and no new one can be: the gate stays closed.     *)
RebootIsSafe ==
  reboot_requested => ~port.write_enabled /\ port.status # "BUSY" /\ ~dirty

(* Core 1 touches no storage between announcing the pause and seeing the    *)
(* request withdrawn, so core 0's check of the parked Z80 is not a race.    *)
PauseIsQuiet ==
  [][flash_paused /\ flash_paused' => UNCHANGED <<dirty, disk_fatal_error, reboot_requested>>]_vars

(* The Z80 leaves the disk alone: nothing queued, no transfer under way. *)
Calm == outs = <<>> /\ port.status \in {"READY", "BUSY"}

(* Core 0 saw no pause and asked for a flush, but core 1 had found the disk *)
(* at rest and paused: the flush nobody serves makes the stop retry.        *)
LateFlush == flash_paused /\ supervisor_flush

(* Once the Z80 leaves the disk alone an orderly stop ends: the retry after *)
(* a write that slipped in between pause and check does not go on forever,  *)
(* unless core 0 loses the race for the flush request in every round.       *)
StopEnds == <>[](Calm /\ ~LateFlush) => (stop_requested ~> ~stop_requested)

(* "check disk quiescence, then reset or resume": a stop that found the     *)
(* disk in use resumes core 1, or ends with the Z80 held.                   *)
StopResumes == flash_resuming ~> (~flash_resuming \/ ~running)

(* Both: a stop neither goes on for ever nor leaves core 1 paused.          *)
StopSettles == StopEnds /\ StopResumes
=============================================================================
