----------------------------- MODULE IoService ------------------------------
(***************************************************************************)
(* src/common/io_ports.c and src/common/io_service.c: the service transport *)
(* the Z80 sees on ports 0x40-0x42 and the worker on core 1 behind it, with *)
(* the write gate a reboot request closes.                                  *)
(*                                                                         *)
(* A port access is one atomic handler on core 0: of the state it shares,   *)
(* core 1 changes only work_state from PENDING to DONE.  A worker's job is  *)
(* several steps.  Payloads are abstracted to their group and length, error *)
(* codes to the fact of an error; whether the disk lets a reboot go ahead   *)
(* is a free choice here (Supervisor has the flush and its checks).         *)
(***************************************************************************)
EXTENDS Naturals

CONSTANTS
  MaxPayload,         \* IO_SERVICE_MAX_PAYLOAD
  GenerationModulus   \* the generation is an unsigned word

ASSUME PayloadAssumption == MaxPayload \in Nat /\ MaxPayload >= 2
ASSUME GenerationAssumption == GenerationModulus \in Nat \ {0}

\* Timers and stopwatches; clock, environment, weather, chat and the other
\* utilities; the confirmed reboot request.
Groups == {"local", "remote", "reboot"}
Commands == Groups \cup {"RESET", "ACK", "IDENTIFY", "unknown"}
Generations == 0 .. GenerationModulus - 1
Lengths == 0 .. MaxPayload
Jobs == [group : Groups \ {"local"}, generation : Generations]
Results == [generation : Generations, error : BOOLEAN,
            has_response : BOOLEAN, length : Lengths]

VARIABLES
  transport,           \* io_ports.c: struct transport
  work_state, request, result, reboot_requested,      \* io_service.c
  c1_pc,               \* where core 1 is in z80_io_ports_core1_service
  disk_write_enabled   \* disk_device.c: the write gate

vars == <<transport, work_state, request, result, reboot_requested, c1_pc,
          disk_write_enabled>>

Transports ==
  [status : {"READY", "COLLECTING", "BUSY", "RESPONSE_READY", "COMPLETE", "ERROR"},
   command : Groups,
   length_bytes : 0 .. 2,
   request_length : Lengths,
   request_position : Lengths,
   response : {"local_response", "result"},   \* where the pointer points
   response_length : Lengths,
   response_position : 0 .. MaxPayload + 2,
   generation : Generations,
   reset_required : BOOLEAN]

TypeOK ==
  /\ transport \in Transports
  /\ work_state \in {"IDLE", "PENDING", "DONE"}
  /\ request \in Jobs
  /\ result \in Results
  /\ reboot_requested \in BOOLEAN
  /\ c1_pc \in {"idle", "run"}
  /\ disk_write_enabled \in BOOLEAN
  /\ transport.response_position <= transport.response_length + 2
  /\ transport.status = "COLLECTING" /\ transport.length_bytes = 2 =>
       transport.request_position < transport.request_length

-----------------------------------------------------------------------------
(* io_ports.c: what the helpers make of a transport t.                      *)

NextGeneration(t) == (t.generation + 1) % GenerationModulus

ResetTransport(t) ==
  [t EXCEPT !.generation = NextGeneration(t),
            !.status = "READY",
            !.length_bytes = 0,
            !.request_length = 0,
            !.request_position = 0,
            !.response_length = 0,
            !.response_position = 0,
            !.response = "local_response",
            !.reset_required = FALSE]

Fail(t, reset_required) ==
  [t EXCEPT !.generation = NextGeneration(t),
            !.response = "local_response",
            !.response_length = 1,
            !.response_position = 0,
            !.reset_required = @ \/ reset_required,
            !.status = "ERROR"]

Respond(t, where, length, has_response) ==
  [t EXCEPT !.response = where,
            !.response_length = length,
            !.response_position = 0,
            !.status = IF has_response THEN "RESPONSE_READY" ELSE "COMPLETE"]

PollServiceStale(t) ==       \* mutant: the generation and the status are not compared
  IF work_state # "DONE"
    THEN t
    ELSE IF result.error THEN Fail(t, FALSE)
         ELSE Respond(t, "result", result.length, result.has_response)

PollServiceErrorLost(t) ==   \* mutant: a failed job is taken and forgotten
  IF \/ work_state # "DONE"
     \/ result.generation # t.generation
     \/ t.status # "BUSY"
     \/ result.error
    THEN t
    ELSE Respond(t, "result", result.length, result.has_response)

(* poll_service: a finished job is always taken, and used only by the       *)
(* transport that waits for it.                                             *)
PollService(t) ==
  IF \/ work_state # "DONE"
     \/ result.generation # t.generation
     \/ t.status # "BUSY"
    THEN t
    ELSE IF result.error THEN Fail(t, FALSE)
         ELSE Respond(t, "result", result.length, result.has_response)

PolledWork == IF work_state = "DONE" THEN "IDLE" ELSE work_state

-----------------------------------------------------------------------------
(* Core 0: port accesses.                                                   *)

NoSubmit == UNCHANGED <<request, disk_write_enabled>>
Core1Unchanged == UNCHANGED <<result, reboot_requested, c1_pc>>

(* OUT 0x40 *)
AfterCommand(t, command) ==
  CASE command = "RESET" -> ResetTransport(t)
    [] command = "ACK" ->
         IF /\ ~t.reset_required
            /\ \/ t.status = "COMPLETE"
               \/ t.status = "ERROR" /\ t.response_position = t.response_length + 2
           THEN ResetTransport(t)
           ELSE Fail(t, t.reset_required)
    [] command \notin {"RESET", "ACK"} /\ t.status # "READY" -> Fail(t, TRUE)
    [] command = "IDENTIFY" /\ t.status = "READY" ->
         Respond(t, "local_response", MaxPayload, TRUE)
    [] command \in Groups /\ t.status = "READY" ->
         [t EXCEPT !.command = command,
                   !.length_bytes = 0,
                   !.request_length = 0,
                   !.request_position = 0,
                   !.status = "COLLECTING"]
    [] command = "unknown" /\ t.status = "READY" -> Fail(t, FALSE)

CommandOut(command) ==
  /\ transport' = AfterCommand(PollService(transport), command)
  /\ work_state' = PolledWork
  /\ NoSubmit
  /\ Core1Unchanged

(* OUT 0x41 when no request is being collected. *)
RequestOutRefused ==
  /\ transport.status # "COLLECTING"
  /\ LET t == PollService(transport) IN transport' = Fail(t, t.status = "BUSY")
  /\ work_state' = PolledWork
  /\ NoSubmit
  /\ Core1Unchanged

(* OUT 0x41: the two length bytes; length 0 stands for every bad length. *)
LengthOut(length) ==
  /\ transport.status = "COLLECTING"
  /\ transport.length_bytes < 2
  /\ LET n == transport.length_bytes + 1
         t == [transport EXCEPT !.length_bytes = n,
                                !.request_length = IF n = 2 THEN length ELSE 0]
     IN transport' = IF n = 2 /\ length = 0 THEN Fail(t, FALSE) ELSE t
  /\ UNCHANGED work_state
  /\ NoSubmit
  /\ Core1Unchanged

Collected == [transport EXCEPT !.request_position = @ + 1]
Collects ==
  /\ transport.status = "COLLECTING"
  /\ transport.length_bytes = 2

(* OUT 0x41: a payload byte that is not the last. *)
PayloadOut ==
  /\ Collects
  /\ Collected.request_position # transport.request_length
  /\ transport' = Collected
  /\ UNCHANGED work_state
  /\ NoSubmit
  /\ Core1Unchanged

(* OUT 0x41: the last payload byte of a timer or stopwatch request, which   *)
(* core 0 serves itself.                                                    *)
TimerService ==
  /\ Collects
  /\ transport.command = "local"
  /\ Collected.request_position = transport.request_length
  /\ \/ transport' = Fail(Collected, FALSE)
     \/ transport' = Respond(Collected, "local_response", 0, FALSE)
     \/ transport' = Respond(Collected, "local_response", MaxPayload, TRUE)
  /\ work_state' = PolledWork
  /\ NoSubmit
  /\ Core1Unchanged

(* The confirmed reboot request is two bytes long; any other is an ordinary *)
(* request, which the utility service will refuse.                          *)
SubmittedGroup ==
  IF transport.command = "reboot" /\ transport.request_length = 2 THEN "reboot" ELSE "remote"

(* OUT 0x41: the last payload byte of a job for core 1.  The reboot request *)
(* closes the disk write gate before core 1 can see it.                     *)
Submit ==
  /\ Collects
  /\ transport.command # "local"
  /\ Collected.request_position = transport.request_length
  /\ \/ /\ PolledWork = "IDLE"
        /\ transport' = [Collected EXCEPT !.status = "BUSY"]
        /\ request' = [group |-> SubmittedGroup, generation |-> transport.generation]
        /\ disk_write_enabled' = (disk_write_enabled /\ SubmittedGroup # "reboot")
        /\ work_state' = "PENDING"
     \/ /\ PolledWork # "IDLE"
        /\ transport' = Fail(Collected, TRUE)
        /\ UNCHANGED <<request, disk_write_enabled, work_state>>
  /\ Core1Unchanged

(* IN 0x40 *)
StatusIn ==
  /\ transport' = PollService(transport)
  /\ work_state' = PolledWork
  /\ NoSubmit
  /\ Core1Unchanged

AfterResponseUnbounded(t) == \* mutant: an error's response has no end
  LET read == [t EXCEPT !.response_position = @ + 1]
  IN IF t.status \notin {"RESPONSE_READY", "ERROR"}
       THEN Fail(t, t.status = "BUSY")
       ELSE IF t.status = "RESPONSE_READY" /\ read.response_position = t.response_length + 2
              THEN ResetTransport(read)
              ELSE read

(* IN 0x42: two length bytes, then the response. *)
AfterResponse(t) ==
  LET read == [t EXCEPT !.response_position = @ + 1]
  IN IF \/ t.status \notin {"RESPONSE_READY", "ERROR"}
        \/ t.response_position >= t.response_length + 2
       THEN Fail(t, t.status = "BUSY")
       ELSE IF t.status = "RESPONSE_READY" /\ read.response_position = t.response_length + 2
              THEN ResetTransport(read)
              ELSE read

ResponseIn ==
  /\ \/ /\ transport.status = "BUSY"
        /\ transport' = AfterResponse(PollService(transport))
        /\ work_state' = PolledWork
     \/ /\ transport.status # "BUSY"
        /\ transport' = AfterResponse(transport)
        /\ UNCHANGED work_state
  /\ NoSubmit
  /\ Core1Unchanged

-----------------------------------------------------------------------------
(* Core 1: z80_io_ports_core1_service.                                      *)

StartJob ==
  /\ c1_pc = "idle"
  /\ work_state = "PENDING"
  /\ result' = [generation |-> request.generation, error |-> FALSE,
                has_response |-> FALSE, length |-> 0]
  /\ c1_pc' = "run"
  /\ UNCHANGED <<transport, work_state, request, reboot_requested, disk_write_enabled>>

Finish(error, has_response, length) ==
  /\ c1_pc = "run"
  /\ result' = [result EXCEPT !.error = error, !.has_response = has_response,
                              !.length = length]
  /\ work_state' = "DONE"
  /\ c1_pc' = "idle"
  /\ UNCHANGED <<transport, request>>

(* clock, environment, weather, chat and the other utilities *)
FinishJob ==
  /\ request.group = "remote"
  /\ \E error, has_response \in BOOLEAN, length \in Lengths :
       Finish(error, has_response, length)
  /\ UNCHANGED <<reboot_requested, disk_write_enabled>>

FinishRebootLocked ==        \* mutant: a refused reboot leaves the gate closed
  /\ request.group = "reboot"
  /\ \/ Finish(FALSE, FALSE, 0) /\ reboot_requested' = TRUE
     \/ Finish(TRUE, FALSE, 0) /\ UNCHANGED reboot_requested
  /\ UNCHANGED disk_write_enabled

(* utility_service operation 2: granted, or refused and the gate reopened. *)
FinishReboot ==
  /\ request.group = "reboot"
  /\ \/ /\ Finish(FALSE, FALSE, 0)
        /\ reboot_requested' = TRUE
        /\ UNCHANGED disk_write_enabled
     \/ /\ Finish(TRUE, FALSE, 0)
        /\ disk_write_enabled' = TRUE
        /\ UNCHANGED reboot_requested

-----------------------------------------------------------------------------
(* transport before z80_io_ports_init *)
Blank == [status |-> "READY", command |-> "local", length_bytes |-> 0,
          request_length |-> 0, request_position |-> 0,
          response |-> "local_response", response_length |-> 0,
          response_position |-> 0, generation |-> 0, reset_required |-> FALSE]

NoJob == [group |-> "remote", generation |-> 0]
NoResult == [generation |-> 0, error |-> FALSE, has_response |-> FALSE, length |-> 0]

Init ==
  /\ transport = ResetTransport(Blank)
  /\ work_state = "IDLE"
  /\ request = NoJob
  /\ result = NoResult
  /\ reboot_requested = FALSE
  /\ c1_pc = "idle"
  /\ disk_write_enabled = TRUE

(* The main loop: z80_io_ports_reboot_requested, then hold_cpu and reset. *)
Reboot ==
  /\ reboot_requested
  /\ transport' = ResetTransport(Blank)
  /\ work_state' = "IDLE"
  /\ request' = NoJob
  /\ result' = NoResult
  /\ reboot_requested' = FALSE
  /\ c1_pc' = "idle"
  /\ disk_write_enabled' = TRUE

Core0Access ==
  \/ \E command \in Commands : CommandOut(command)
  \/ RequestOutRefused
  \/ \E length \in Lengths : LengthOut(length)
  \/ PayloadOut
  \/ TimerService
  \/ Submit
  \/ StatusIn
  \/ ResponseIn

Job == StartJob \/ FinishJob \/ FinishReboot

Next ==
  \/ Core0Access
  \/ Reboot
  \/ Job

(* Core 1 finishes the jobs it is given, core 0's loop looks for a reboot,  *)
(* the Z80 polls the status port while it waits.                            *)
Fairness == WF_vars(Job) /\ WF_vars(Reboot) /\ WF_vars(StatusIn)

Spec == Init /\ [][Next]_vars
FairSpec == Spec /\ Fairness

-----------------------------------------------------------------------------
(* Properties.                                                              *)

(* A transport that shows BUSY has its own job with the worker: no reset,   *)
(* error or late result leaves the Z80 polling a BUSY that cannot end, or   *)
(* waiting for somebody else's answer.                                      *)
BusyOwnsJob ==
  transport.status = "BUSY" =>
    /\ work_state \in {"PENDING", "DONE"}
    /\ request.generation = transport.generation
    /\ work_state = "DONE" => result.generation = transport.generation

(* What a transport waits for is its own job, and a response is read in     *)
(* place from the worker's result: while one is offered the worker is idle  *)
(* and the result is the answer to the request this transport sent.         *)
ResponseIsOwn ==
  /\ BusyOwnsJob
  /\ transport.status = "RESPONSE_READY" /\ transport.response = "result" =>
       /\ work_state = "IDLE"
       /\ c1_pc = "idle"
       /\ result.generation = transport.generation
       /\ transport.response_length = result.length

(* The gate is closed only for a reboot request that is still being served  *)
(* or was granted: a refused one never leaves the disk locked.              *)
GateHasOwner ==
  ~disk_write_enabled =>
    reboot_requested \/ (work_state = "PENDING" /\ request.group = "reboot")

(* A Z80 that keeps polling the status port sees every request end: the     *)
(* worker finishes it, and its result is taken by the transport that waits. *)
BusyEnds == transport.status = "BUSY" ~> transport.status # "BUSY"
=============================================================================
