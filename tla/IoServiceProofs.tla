--------------------------- MODULE IoServiceProofs ---------------------------
(***************************************************************************)
(* Proofs about IoService for any payload bound and any generation modulus, *)
(* even 1: ownership of a job does not rest on generations being fresh, but *)
(* on a transport turning BUSY only when the worker is idle.                *)
(***************************************************************************)
EXTENDS IoService, TLAPS

(* A transport whose counters are in order: a response is read to two bytes *)
(* past its length at most, and a request's bytes are counted from 0.       *)
Sound(t) ==
  /\ t \in Transports
  /\ t.response_position <= t.response_length + 2
  /\ t.status = "COLLECTING" =>
       IF t.length_bytes = 2 THEN t.request_position < t.request_length
                             ELSE t.request_position = 0

Statuses == {"READY", "COLLECTING", "BUSY", "RESPONSE_READY", "COMPLETE", "ERROR"}

(* The rest of what the two cores have for sure. *)
Shared ==
  /\ work_state \in {"IDLE", "PENDING", "DONE"}
  /\ request \in Jobs
  /\ result \in Results
  /\ reboot_requested \in BOOLEAN
  /\ c1_pc \in {"idle", "run"}
  /\ disk_write_enabled \in BOOLEAN

(* Core 1 works on the submitted job only, and stamps the result with the   *)
(* job's generation before it publishes it.                                 *)
WorkerOwnsJob ==
  /\ c1_pc = "run" => work_state = "PENDING" /\ result.generation = request.generation
  /\ work_state = "DONE" => result.generation = request.generation

IInv == Sound(transport) /\ Shared /\ WorkerOwnsJob /\ ResponseIsOwn /\ GateHasOwner

(* The bytes of an offered response: ResponseIsOwn's second part of a given *)
(* transport and worker state.                                              *)
Offers(t, state) ==
  t.status = "RESPONSE_READY" /\ t.response = "result" =>
    /\ state = "IDLE"
    /\ c1_pc = "idle"
    /\ result.generation = t.generation
    /\ t.response_length = result.length

-----------------------------------------------------------------------------
(* The helpers of io_ports.c.                                               *)

LEMMA GenerationType ==
  ASSUME NEW t \in Transports
  PROVE  NextGeneration(t) \in Generations
<1>1. t.generation \in Nat
  BY GenerationAssumption DEF Transports, Generations
<1> QED
  BY <1>1, GenerationAssumption DEF NextGeneration, Generations

(* A transport stays one when its fields are set to values of their types.  *)
LEMMA FieldsType ==
  ASSUME NEW t \in Transports, NEW g \in Generations, NEW s \in Statuses, NEW n \in 0 .. 2,
         NEW l \in Lengths, NEW p \in Lengths, NEW rl \in Lengths,
         NEW rp \in 0 .. MaxPayload + 2, NEW r \in {"local_response", "result"},
         NEW b \in BOOLEAN
  PROVE  [t EXCEPT !.generation = g, !.status = s, !.length_bytes = n,
                   !.request_length = l, !.request_position = p,
                   !.response_length = rl, !.response_position = rp,
                   !.response = r, !.reset_required = b] \in Transports
  BY DEF Transports, Statuses

LEMMA CollectingType ==
  ASSUME NEW t \in Transports, NEW c \in Groups, NEW n \in 0 .. 2, NEW l \in Lengths,
         NEW p \in Lengths
  PROVE  [t EXCEPT !.command = c, !.length_bytes = n, !.request_length = l,
                   !.request_position = p, !.status = "COLLECTING"] \in Transports
  BY DEF Transports

LEMMA ResetSound ==
  ASSUME NEW t \in Transports
  PROVE  Sound(ResetTransport(t)) /\ ResetTransport(t).status = "READY"
<1> DEFINE r == ResetTransport(t)
<1>1. NextGeneration(t) \in Generations /\ 0 \in Lengths /\ 0 \in 0 .. MaxPayload + 2
  BY GenerationType, PayloadAssumption DEF Lengths
<1>2. 0 \in 0 .. 2 /\ FALSE \in BOOLEAN /\ "READY" \in Statuses
  BY DEF Statuses
<1>3. "local_response" \in {"local_response", "result"}
  OBVIOUS
<1>4. r \in Transports
  BY <1>1, <1>2, <1>3, FieldsType, Zenon DEF ResetTransport
<1>5. r.status = "READY" /\ r.response_position = 0 /\ r.response_length = 0
  BY DEF ResetTransport, Transports
<1> QED
  BY <1>4, <1>5 DEF Sound

LEMMA FailSound ==
  ASSUME NEW t \in Transports, NEW required \in BOOLEAN
  PROVE  Sound(Fail(t, required)) /\ Fail(t, required).status = "ERROR"
<1>1. 1 \in Lengths /\ 0 \in 0 .. MaxPayload + 2
  BY PayloadAssumption DEF Lengths
<1> DEFINE f == Fail(t, required)
<1>2. (t.reset_required \/ required) \in BOOLEAN
  OBVIOUS
<1>3. NextGeneration(t) \in Generations
  BY GenerationType
<1>4. f \in Transports
  BY <1>1, <1>2, <1>3 DEF Fail, Transports
<1>5. f.status = "ERROR" /\ f.response_position = 0 /\ f.response_length = 1
  BY DEF Fail, Transports
<1> QED
  BY <1>4, <1>5 DEF Sound

LEMMA RespondSound ==
  ASSUME NEW t \in Transports, NEW where \in {"local_response", "result"},
         NEW length \in Lengths, NEW has_response \in BOOLEAN
  PROVE  LET r == Respond(t, where, length, has_response)
         IN /\ Sound(r)
            /\ r.status \in {"RESPONSE_READY", "COMPLETE"}
            /\ r.response = where
            /\ r.response_length = length
            /\ r.generation = t.generation
<1> DEFINE r == Respond(t, where, length, has_response)
<1>1. 0 \in 0 .. MaxPayload + 2
  BY PayloadAssumption
<1>2. r \in Transports
  BY <1>1 DEF Respond, Transports
<1>3. /\ r.status \in {"RESPONSE_READY", "COMPLETE"}
      /\ r.response = where
      /\ r.response_length = length
      /\ r.response_position = 0
      /\ r.generation = t.generation
  BY DEF Respond, Transports
<1>4. length \in Nat
  BY PayloadAssumption DEF Lengths
<1> QED
  BY <1>2, <1>3, <1>4 DEF Sound

(* A response core 0 makes itself. *)
LEMMA RespondLocal ==
  ASSUME NEW t \in Transports, NEW length \in Lengths, NEW has_response \in BOOLEAN
  PROVE  LET r == Respond(t, "local_response", length, has_response)
         IN /\ Sound(r)
            /\ r.status # "BUSY"
            /\ r.status = "RESPONSE_READY" => r.response # "result"
<1>1. "local_response" \in {"local_response", "result"}
  OBVIOUS
<1>2. LET r == Respond(t, "local_response", length, has_response)
      IN /\ Sound(r)
         /\ r.status \in {"RESPONSE_READY", "COMPLETE"}
         /\ r.response = "local_response"
  <2>1. \A w \in {"local_response", "result"} :
          LET r == Respond(t, w, length, has_response)
          IN Sound(r) /\ r.status \in {"RESPONSE_READY", "COMPLETE"} /\ r.response = w
    BY RespondSound
  <2> QED
    BY <1>1, <2>1, Zenon
<1> QED
  BY <1>2

(* poll_service leaves a sound transport, and an offered result is its own. *)
LEMMA PollSound ==
  ASSUME IInv
  PROVE  /\ Sound(PollService(transport))
         /\ Offers(PollService(transport), PolledWork)
         /\ PollService(transport).status = "BUSY" =>
              /\ work_state = "PENDING"
              /\ PollService(transport) = transport
         /\ PolledWork \in {"IDLE", "PENDING"}
         /\ PolledWork = "PENDING" <=> work_state = "PENDING"
<1> DEFINE taken == /\ work_state = "DONE"
                    /\ result.generation = transport.generation
                    /\ transport.status = "BUSY"
<1>1. PolledWork \in {"IDLE", "PENDING"} /\ (PolledWork = "PENDING" <=> work_state = "PENDING")
  BY DEF IInv, Shared, PolledWork
<1>2. CASE ~taken
  <2>1. PollService(transport) = transport
    BY <1>2 DEF PollService
  <2>2. Offers(transport, PolledWork)
    BY DEF IInv, ResponseIsOwn, Offers, PolledWork
  <2>3. transport.status = "BUSY" => work_state = "PENDING"
    BY <1>2 DEF IInv, ResponseIsOwn, BusyOwnsJob
  <2> QED
    BY <1>1, <2>1, <2>2, <2>3 DEF IInv
<1>3. CASE taken /\ result.error
  <2>1. PollService(transport) = Fail(transport, FALSE)
    BY <1>3 DEF PollService
  <2> QED
    BY <1>1, <2>1, FailSound DEF IInv, Sound, Offers
<1>4. CASE taken /\ ~result.error
  <2>1. PollService(transport) = Respond(transport, "result", result.length, result.has_response)
    BY <1>4 DEF PollService
  <2>2. result.length \in Lengths /\ result.has_response \in BOOLEAN
    BY DEF IInv, Shared, Results
  <2>3. PolledWork = "IDLE" /\ c1_pc = "idle"
    BY <1>4 DEF PolledWork, IInv, Shared, WorkerOwnsJob
  <2> QED
    BY <1>1, <1>4, <2>1, <2>2, <2>3, RespondSound DEF IInv, Sound, Offers
<1> QED
  BY <1>2, <1>3, <1>4

(* A port access that submits nothing keeps the invariant when it leaves a  *)
(* sound transport that waits only for a job it already waited for.         *)
LEMMA AccessKeeps ==
  ASSUME IInv, NoSubmit, Core1Unchanged,
         Sound(transport'), Offers(transport', work_state'),
         transport'.status = "BUSY" => transport' = transport /\ work_state = "PENDING",
         work_state' \in {work_state, PolledWork}
  PROVE  IInv'
<1>1. Sound(transport)' /\ Shared'
  BY DEF IInv, Shared, Sound, NoSubmit, Core1Unchanged, PolledWork
<1>2. work_state' = "DONE" => work_state = "DONE"
  BY DEF PolledWork
<1>3. work_state = "PENDING" <=> work_state' = "PENDING"
  BY DEF PolledWork
<1>4. WorkerOwnsJob'
  BY <1>2, <1>3 DEF IInv, WorkerOwnsJob, NoSubmit, Core1Unchanged
<1>5. BusyOwnsJob'
  BY <1>3 DEF IInv, ResponseIsOwn, BusyOwnsJob, NoSubmit, Core1Unchanged
<1>6. ResponseIsOwn'
  BY <1>5 DEF ResponseIsOwn, Offers, Core1Unchanged
<1>7. GateHasOwner'
  BY <1>3 DEF IInv, GateHasOwner, NoSubmit, Core1Unchanged
<1> QED
  BY <1>1, <1>4, <1>6, <1>7 DEF IInv, Sound

-----------------------------------------------------------------------------
(* One lemma per port access and per step of core 1.                        *)

(* What an OUT to 0x40 makes of a sound transport: it never waits, and a    *)
(* response it offers is core 0's own.                                      *)
LEMMA AfterCommandSound ==
  ASSUME NEW t, Sound(t), NEW command \in Commands
  PROVE  LET n == AfterCommand(t, command)
         IN Sound(n) /\ n.status # "BUSY"
            /\ (n.status = "RESPONSE_READY" => n.response # "result")
<1> DEFINE n == AfterCommand(t, command)
           c == [t EXCEPT !.command = command, !.length_bytes = 0, !.request_length = 0,
                          !.request_position = 0, !.status = "COLLECTING"]
<1>1. t \in Transports /\ t.status \in Statuses
  BY DEF Sound, Transports, Statuses
<1>2. t.reset_required \in BOOLEAN
  BY <1>1 DEF Transports
<1>3. CASE command = "RESET"
  <2>1. n = ResetTransport(t)
    BY <1>3 DEF AfterCommand, Groups
  <2> QED
    BY <1>1, <2>1, ResetSound
<1>4. CASE command = "ACK"
  <2>1. n = ResetTransport(t) \/ n = Fail(t, t.reset_required)
    BY <1>4 DEF AfterCommand, Groups
  <2> QED
    BY <1>1, <1>2, <2>1, ResetSound, FailSound
<1>5. CASE command \notin {"RESET", "ACK"} /\ t.status # "READY"
  <2>1. n = Fail(t, TRUE)
    BY <1>5 DEF AfterCommand, Groups
  <2> QED
    BY <1>1, <2>1, FailSound
<1>6. CASE command = "IDENTIFY" /\ t.status = "READY"
  <2>1. n = Respond(t, "local_response", MaxPayload, TRUE)
    BY <1>6 DEF AfterCommand, Groups
  <2>2. MaxPayload \in Lengths
    BY PayloadAssumption DEF Lengths
  <2> QED
    BY <1>1, <2>1, <2>2, RespondLocal
<1>7. CASE command = "unknown" /\ t.status = "READY"
  <2>1. n = Fail(t, FALSE)
    BY <1>7, Zenon DEF AfterCommand, Groups
  <2> QED
    BY <1>1, <2>1, FailSound
<1>8. CASE command \in Groups /\ t.status = "READY"
  <2>1. n = c
    BY <1>8 DEF AfterCommand, Groups
  <2>2. 0 \in Lengths /\ 0 \in 0 .. 2
    BY PayloadAssumption DEF Lengths
  <2>3. c \in Transports
    BY <1>1, <1>8, <2>2, CollectingType, Zenon
  <2>4. /\ c.status = "COLLECTING"
        /\ c.length_bytes = 0
        /\ c.request_position = 0
        /\ c.response_position = t.response_position
        /\ c.response_length = t.response_length
    BY <1>1 DEF Transports
  <2>5. Sound(c)
    BY <2>3, <2>4 DEF Sound
  <2> QED
    BY <2>1, <2>4, <2>5
<1> QED
  BY <1>3, <1>4, <1>5, <1>6, <1>7, <1>8 DEF Commands

LEMMA CommandOutKeeps ==
  ASSUME IInv, NEW command \in Commands, CommandOut(command)
  PROVE  IInv'
<1>1. /\ transport' = AfterCommand(PollService(transport), command)
      /\ work_state' = PolledWork /\ NoSubmit /\ Core1Unchanged
  BY DEF CommandOut
<1>2. /\ Sound(transport') /\ transport'.status # "BUSY"
      /\ (transport'.status = "RESPONSE_READY" => transport'.response # "result")
  BY <1>1, PollSound, AfterCommandSound
<1> QED
  BY <1>1, <1>2, AccessKeeps DEF Offers

LEMMA RequestOutRefusedKeeps ==
  ASSUME IInv, RequestOutRefused
  PROVE  IInv'
<1> DEFINE t == PollService(transport)
<1>1. t \in Transports
  BY PollSound DEF Sound
<1>2. /\ transport' = Fail(t, t.status = "BUSY")
      /\ work_state' = PolledWork /\ NoSubmit /\ Core1Unchanged
  BY DEF RequestOutRefused
<1>3. (t.status = "BUSY") \in BOOLEAN
  OBVIOUS
<1> QED
  BY <1>1, <1>2, <1>3, FailSound, AccessKeeps DEF Offers

LEMMA LengthOutKeeps ==
  ASSUME IInv, NEW length \in Lengths, LengthOut(length)
  PROVE  IInv'
<1> DEFINE n == transport.length_bytes + 1
           l == IF n = 2 THEN length ELSE 0
           t == [transport EXCEPT !.length_bytes = n, !.request_length = l]
<1>1. transport \in Transports /\ transport.status = "COLLECTING" /\ n \in 1 .. 2 /\ l \in Lengths
  BY PayloadAssumption DEF LengthOut, IInv, Sound, Transports, Lengths
<1>2. /\ transport' = IF n = 2 /\ length = 0 THEN Fail(t, FALSE) ELSE t
      /\ work_state' = work_state /\ NoSubmit /\ Core1Unchanged
  BY DEF LengthOut
<1>3. t \in Transports
  <2>1. n \in 0 .. 2
    BY <1>1
  <2> QED
    BY <1>1, <2>1 DEF Transports
<1>4. /\ t.status = "COLLECTING"
      /\ t.length_bytes = n
      /\ t.request_length = l
      /\ t.request_position = 0
      /\ t.response_position = transport.response_position
      /\ t.response_length = transport.response_length
  <2>1. transport.length_bytes # 2
    BY DEF LengthOut
  <2>2. transport.request_position = 0
    BY <1>1, <2>1 DEF IInv, Sound
  <2> QED
    BY <1>1, <2>2 DEF Transports
<1>5. CASE n = 2 /\ length = 0
  BY <1>2, <1>3, <1>5, FailSound, AccessKeeps DEF Offers
<1>6. CASE ~(n = 2 /\ length = 0)
  <2>1. n = 2 => 0 < l
    BY <1>1, <1>6, PayloadAssumption DEF Lengths
  <2>2. Sound(t)
    BY <1>1, <1>3, <1>4, <2>1 DEF IInv, Sound
  <2> QED
    BY <1>2, <1>4, <1>6, <2>2, AccessKeeps DEF Offers
<1> QED
  BY <1>5, <1>6

(* What a payload byte leaves before anything else is done with it. *)
LEMMA CollectedType ==
  ASSUME IInv, Collects
  PROVE  /\ Collected \in Transports
         /\ Collected.status = "COLLECTING" /\ Collected.length_bytes = 2
         /\ Collected.request_position = transport.request_position + 1
         /\ Collected.request_position <= transport.request_length
         /\ Collected.request_length = transport.request_length
         /\ Collected.response_position = transport.response_position
         /\ Collected.response_length = transport.response_length
         /\ Collected.generation = transport.generation
<1> DEFINE p == transport.request_position + 1
<1>1. /\ transport \in Transports
      /\ transport.status = "COLLECTING" /\ transport.length_bytes = 2
      /\ transport.request_position < transport.request_length
  BY DEF Collects, IInv, Sound
<1>2. transport.request_position \in Lengths /\ transport.request_length \in Lengths
  BY <1>1 DEF Transports
<1>3. p \in Lengths /\ p <= transport.request_length
  BY <1>1, <1>2, PayloadAssumption DEF Lengths
<1>4. Collected = [transport EXCEPT !.request_position = p]
  BY DEF Collected
<1>5. Collected \in Transports
  BY <1>1, <1>3, <1>4 DEF Transports
<1> QED
  BY <1>1, <1>3, <1>4, <1>5 DEF Transports

LEMMA PayloadOutKeeps ==
  ASSUME IInv, PayloadOut
  PROVE  IInv'
<1>1. /\ Collects
      /\ Collected.request_position # transport.request_length
      /\ transport' = Collected
      /\ work_state' = work_state /\ NoSubmit /\ Core1Unchanged
  BY DEF PayloadOut
<1>2. transport.request_position \in Nat /\ transport.request_length \in Nat
  BY PayloadAssumption DEF IInv, Sound, Transports, Lengths
<1>3. Sound(transport') /\ transport'.status = "COLLECTING"
  BY <1>1, <1>2, CollectedType DEF IInv, Sound
<1> QED
  BY <1>1, <1>3, AccessKeeps DEF Offers

LEMMA TimerServiceKeeps ==
  ASSUME IInv, TimerService
  PROVE  IInv'
<1>1. /\ Collected \in Transports
      /\ work_state' = PolledWork /\ NoSubmit /\ Core1Unchanged
      /\ \/ transport' = Fail(Collected, FALSE)
         \/ transport' = Respond(Collected, "local_response", 0, FALSE)
         \/ transport' = Respond(Collected, "local_response", MaxPayload, TRUE)
  BY CollectedType DEF TimerService
<1>2. 0 \in Lengths /\ MaxPayload \in Lengths
  BY PayloadAssumption DEF Lengths
<1>3. /\ Sound(transport') /\ transport'.status # "BUSY"
      /\ transport'.status = "RESPONSE_READY" => transport'.response # "result"
  BY <1>1, <1>2, FailSound, RespondLocal
<1> QED
  BY <1>1, <1>3, AccessKeeps DEF Offers

(* The job goes to an idle worker, stamped with the transport's generation; *)
(* a reboot request closes the gate it then owns.                           *)
LEMMA SubmitKeeps ==
  ASSUME IInv, Submit
  PROVE  IInv'
<1>1. Collects /\ Collected \in Transports /\ Collected.generation = transport.generation
  BY CollectedType DEF Submit
<1>2. Core1Unchanged
  BY DEF Submit
<1>3. CASE PolledWork = "IDLE"
  <2>1. /\ transport' = [Collected EXCEPT !.status = "BUSY"]
        /\ request' = [group |-> SubmittedGroup, generation |-> transport.generation]
        /\ disk_write_enabled' = (disk_write_enabled /\ SubmittedGroup # "reboot")
        /\ work_state' = "PENDING"
    BY <1>3 DEF Submit
  <2>2. SubmittedGroup \in Groups \ {"local"} /\ transport.generation \in Generations
    BY DEF SubmittedGroup, Groups, IInv, Sound, Transports
  <2>3. work_state # "PENDING"
    BY <1>3, PollSound
  <2>4. c1_pc = "idle"
    BY <2>3 DEF IInv, Shared, WorkerOwnsJob
  <2>5. /\ transport' \in Transports /\ transport'.status = "BUSY"
        /\ transport'.generation = transport.generation
        /\ transport'.response_position = transport.response_position
        /\ transport'.response_length = transport.response_length
    BY <1>1, <2>1, CollectedType DEF Transports
  <2>6. Sound(transport)'
    BY <2>5 DEF IInv, Sound, Transports
  <2>7. Shared'
    BY <1>2, <2>1, <2>2 DEF IInv, Shared, Jobs, Core1Unchanged
  <2>8. WorkerOwnsJob'
    BY <1>2, <2>1, <2>4 DEF WorkerOwnsJob, Core1Unchanged
  <2>9. ResponseIsOwn'
    BY <2>1, <2>5 DEF ResponseIsOwn, BusyOwnsJob
  <2>10. GateHasOwner'
    BY <1>2, <2>1, <2>3 DEF IInv, GateHasOwner, Core1Unchanged
  <2> QED
    BY <2>6, <2>7, <2>8, <2>9, <2>10 DEF IInv
<1>4. CASE PolledWork # "IDLE"
  <2>1. /\ transport' = Fail(Collected, TRUE)
        /\ NoSubmit /\ work_state' = work_state
    BY <1>4 DEF Submit, NoSubmit
  <2> QED
    BY <1>1, <1>2, <2>1, FailSound, AccessKeeps DEF Offers
<1> QED
  BY <1>3, <1>4

LEMMA StatusInKeeps ==
  ASSUME IInv, StatusIn
  PROVE  IInv'
  BY PollSound, AccessKeeps DEF StatusIn

(* What an IN from 0x42 makes of a sound transport. *)
LEMMA AfterResponseSound ==
  ASSUME NEW t, Sound(t)
  PROVE  LET n == AfterResponse(t)
         IN /\ Sound(n)
            /\ n.status # "BUSY"
            /\ n.status = "RESPONSE_READY" /\ n.response = "result" =>
                 /\ t.status = "RESPONSE_READY" /\ t.response = "result"
                 /\ n.generation = t.generation
                 /\ n.response_length = t.response_length
<1> DEFINE n == AfterResponse(t)
           p == t.response_position + 1
           read == [t EXCEPT !.response_position = p]
<1>1. t \in Transports /\ (t.status = "BUSY") \in BOOLEAN
  BY DEF Sound
<1>2. CASE \/ t.status \notin {"RESPONSE_READY", "ERROR"}
           \/ t.response_position >= t.response_length + 2
  <2>1. n = Fail(t, t.status = "BUSY")
    BY <1>2 DEF AfterResponse
  <2> QED
    BY <1>1, <2>1, FailSound
<1>3. CASE /\ t.status \in {"RESPONSE_READY", "ERROR"}
           /\ ~(t.response_position >= t.response_length + 2)
  <2>1. t.response_position \in Nat /\ t.response_length \in Nat /\ t.response_length <= MaxPayload
    BY <1>1, PayloadAssumption DEF Transports, Lengths
  <2>2. p \in 0 .. MaxPayload + 2 /\ p <= t.response_length + 2
    BY <1>3, <2>1, PayloadAssumption
  <2>3. /\ read \in Transports
        /\ read.response_position = p
        /\ read.response_length = t.response_length
        /\ read.status = t.status
        /\ read.response = t.response
        /\ read.generation = t.generation
    BY <1>1, <2>2 DEF Transports
  <2>4. n = ResetTransport(read) \/ n = read
    BY <1>3 DEF AfterResponse
  <2>5. Sound(read)
    BY <1>3, <2>2, <2>3 DEF Sound
  <2> QED
    BY <1>3, <2>3, <2>4, <2>5, ResetSound
<1> QED
  BY <1>2, <1>3

LEMMA ResponseInKeeps ==
  ASSUME IInv, ResponseIn
  PROVE  IInv'
<1>1. NoSubmit /\ Core1Unchanged
  BY DEF ResponseIn
<1>2. CASE transport.status = "BUSY"
  <2>1. transport' = AfterResponse(PollService(transport)) /\ work_state' = PolledWork
    BY <1>2 DEF ResponseIn
  <2> QED
    BY <1>1, <2>1, PollSound, AfterResponseSound, AccessKeeps DEF Offers
<1>3. CASE transport.status # "BUSY"
  <2>1. transport' = AfterResponse(transport) /\ work_state' = work_state
    BY <1>3 DEF ResponseIn
  <2>2. Sound(transport) /\ Offers(transport, work_state)
    BY DEF IInv, ResponseIsOwn, Offers
  <2> QED
    BY <1>1, <2>1, <2>2, AfterResponseSound, AccessKeeps DEF Offers
<1> QED
  BY <1>2, <1>3

LEMMA StartJobKeeps ==
  ASSUME IInv, StartJob
  PROVE  IInv'
<1>1. work_state = "PENDING"
  BY DEF StartJob
<1>2. result' \in Results /\ result'.generation = request.generation
  BY PayloadAssumption DEF StartJob, Results, Lengths, IInv, Shared, Jobs
<1>3. Sound(transport)' /\ Shared' /\ WorkerOwnsJob'
  BY <1>1, <1>2 DEF StartJob, IInv, Sound, Shared, WorkerOwnsJob
<1>4. ResponseIsOwn'
  BY <1>1 DEF StartJob, IInv, ResponseIsOwn, BusyOwnsJob
<1>5. GateHasOwner'
  BY DEF StartJob, IInv, GateHasOwner
<1> QED
  BY <1>3, <1>4, <1>5 DEF IInv

(* The worker publishes its result, whoever waits for it. *)
LEMMA FinishKeeps ==
  ASSUME IInv, NEW error \in BOOLEAN, NEW has_response \in BOOLEAN, NEW length \in Lengths,
         Finish(error, has_response, length),
         reboot_requested' \in BOOLEAN, disk_write_enabled' \in BOOLEAN
  PROVE  Sound(transport)' /\ Shared' /\ WorkerOwnsJob' /\ ResponseIsOwn'
<1>1. c1_pc = "run" /\ work_state = "PENDING" /\ result.generation = request.generation
  BY DEF Finish, IInv, WorkerOwnsJob
<1>2. result' \in Results /\ result'.generation = result.generation
  BY DEF Finish, Results, IInv, Shared
<1>3. work_state' = "DONE" /\ c1_pc' = "idle" /\ transport' = transport /\ request' = request
  BY DEF Finish
<1>4. Sound(transport)' /\ Shared' /\ WorkerOwnsJob'
  BY <1>1, <1>2, <1>3 DEF IInv, Sound, Shared, WorkerOwnsJob
<1>5. ResponseIsOwn'
  BY <1>1, <1>2, <1>3 DEF IInv, ResponseIsOwn, BusyOwnsJob
<1> QED
  BY <1>4, <1>5

LEMMA FinishJobKeeps ==
  ASSUME IInv, FinishJob
  PROVE  IInv'
<1>1. PICK error \in BOOLEAN, has_response \in BOOLEAN, length \in Lengths :
        Finish(error, has_response, length)
  BY DEF FinishJob
<1>2. /\ request.group = "remote"
      /\ reboot_requested' = reboot_requested /\ disk_write_enabled' = disk_write_enabled
  BY DEF FinishJob
<1>3. Sound(transport)' /\ Shared' /\ WorkerOwnsJob' /\ ResponseIsOwn'
  BY <1>1, <1>2, FinishKeeps DEF IInv, Shared
<1>4. GateHasOwner'
  BY <1>2 DEF IInv, GateHasOwner
<1> QED
  BY <1>3, <1>4 DEF IInv

LEMMA FinishRebootKeeps ==
  ASSUME IInv, FinishReboot
  PROVE  IInv'
<1>1. 0 \in Lengths
  BY PayloadAssumption DEF Lengths
<1>2. \/ Finish(FALSE, FALSE, 0) /\ reboot_requested' = TRUE /\ UNCHANGED disk_write_enabled
      \/ Finish(TRUE, FALSE, 0) /\ disk_write_enabled' = TRUE /\ UNCHANGED reboot_requested
  BY DEF FinishReboot
<1>3. Sound(transport)' /\ Shared' /\ WorkerOwnsJob' /\ ResponseIsOwn'
  BY <1>1, <1>2, FinishKeeps DEF IInv, Shared
<1>4. GateHasOwner'
  BY <1>2 DEF IInv, GateHasOwner
<1> QED
  BY <1>3, <1>4 DEF IInv

(* Power-up, and the board's own reset after a granted reboot. *)
LEMMA ResetKeeps ==
  ASSUME NEW t, t = ResetTransport(Blank)
  PROVE  Sound(t) /\ t.status = "READY" /\ NoJob \in Jobs /\ NoResult \in Results
<1>1. 0 \in Lengths /\ 0 \in Generations /\ 0 \in 0 .. MaxPayload + 2
  BY PayloadAssumption, GenerationAssumption DEF Lengths, Generations
<1>2. Blank \in Transports
  BY <1>1 DEF Blank, Transports, Groups
<1>3. NoJob \in Jobs /\ NoResult \in Results
  BY <1>1 DEF NoJob, NoResult, Jobs, Results, Groups
<1> QED
  BY <1>2, <1>3, ResetSound

LEMMA InitIInv == Init => IInv
<1> SUFFICES ASSUME Init PROVE IInv
  OBVIOUS
<1>1. Sound(transport) /\ transport.status = "READY" /\ request \in Jobs /\ result \in Results
  BY ResetKeeps DEF Init
<1> QED
  BY <1>1 DEF Init, IInv, Shared, WorkerOwnsJob, ResponseIsOwn, BusyOwnsJob, GateHasOwner

LEMMA RebootKeeps ==
  ASSUME Reboot
  PROVE  IInv'
<1>1. /\ Sound(transport') /\ transport'.status = "READY"
      /\ request' \in Jobs /\ result' \in Results
  BY ResetKeeps DEF Reboot
<1> QED
  BY <1>1 DEF Reboot, IInv, Sound, Shared, WorkerOwnsJob, ResponseIsOwn, BusyOwnsJob,
     GateHasOwner

-----------------------------------------------------------------------------
(* Every access of the Z80, every step of the worker and every reset keep   *)
(* the invariant.                                                           *)
LEMMA NextIInv == IInv /\ [Next]_vars => IInv'
<1> SUFFICES ASSUME IInv, [Next]_vars PROVE IInv'
  OBVIOUS
<1>1. CASE Core0Access
  BY <1>1, CommandOutKeeps, RequestOutRefusedKeeps, LengthOutKeeps, PayloadOutKeeps,
     TimerServiceKeeps, SubmitKeeps, StatusInKeeps, ResponseInKeeps DEF Core0Access
<1>2. CASE Reboot
  BY <1>2, RebootKeeps
<1>3. CASE Job
  BY <1>3, StartJobKeeps, FinishJobKeeps, FinishRebootKeeps DEF Job
<1>4. CASE UNCHANGED vars
  BY <1>4 DEF vars, IInv, Sound, Shared, WorkerOwnsJob, ResponseIsOwn, BusyOwnsJob, GateHasOwner
<1> QED
  BY <1>1, <1>2, <1>3, <1>4 DEF Next

LEMMA Invariance == Spec => []IInv
  BY InitIInv, NextIInv, PTL DEF Spec

(* The types of the transport and the worker, and the two bounds the buffer *)
(* accesses of io_ports.c rest on: a payload byte is stored inside the      *)
(* request, a response byte read inside the response.                       *)
THEOREM TypeCorrect == Spec => []TypeOK
<1>1. IInv => TypeOK
  BY DEF IInv, Sound, Shared, TypeOK
<1> QED
  BY <1>1, Invariance, PTL

(* The Z80 waits only for its own job and is only ever offered its own      *)
(* answer, whatever resets, errors and late results come between            *)
(* (poll_service, z80_io_service_try_submit, z80_io_ports_core1_service).   *)
THEOREM ResponseOwnership == Spec => []ResponseIsOwn
<1>1. IInv => ResponseIsOwn
  BY DEF IInv
<1> QED
  BY <1>1, Invariance, PTL

(* The disk stays locked only for a reboot that is pending or granted       *)
(* (try_submit closes the gate, utility_service reopens it).                *)
THEOREM GateOwnership == Spec => []GateHasOwner
<1>1. IInv => GateHasOwner
  BY DEF IInv
<1> QED
  BY <1>1, Invariance, PTL
=============================================================================
