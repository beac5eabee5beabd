-------------------------- MODULE SupervisorProofs --------------------------
(***************************************************************************)
(* Proofs about Supervisor for any depth of the PIO's queue, any set of     *)
(* OUTs, with and without failing flushes and repeated stops.               *)
(*                                                                         *)
(* Drained is a recursive function over the queue.  What it computes is     *)
(* proved by induction on the queue's positions; induction is taken from    *)
(* the well-founded order of the naturals, for a set of numbers.            *)
(***************************************************************************)
EXTENDS Supervisor, WellFoundedInduction, TLAPS

LEMMA SetInduction ==
  ASSUME NEW S, 0 \in S, \A n \in Nat : n \in S => n + 1 \in S
  PROVE  \A n \in Nat : n \in S
<1> SUFFICES ASSUME NEW k \in Nat, k \notin S PROVE FALSE
  OBVIOUS
<1> DEFINE R == OpToRel(<, Nat)
           T == {n \in Nat : n \notin S}
<1>1. IsWellFoundedOn(R, Nat)
  BY NatLessThanWellFounded, Zenon
<1>2. T \subseteq Nat /\ T # {}
  OBVIOUS
<1>3. \A a, b \in Nat : a < b => <<a, b>> \in R
  BY DEF OpToRel
<1> HIDE DEF R
<1>4. PICK x \in T : \A y \in T : ~(<<y, x>> \in R)
  BY <1>1, <1>2, WFMin, Zenon
<1>5. x # 0 /\ x \in Nat /\ x \notin S
  OBVIOUS
<1>6. x - 1 \in Nat /\ x - 1 \notin S /\ x - 1 < x
  BY <1>5
<1> QED
  BY <1>3, <1>4, <1>5, <1>6

(* f starts with b and takes the step F from each number to the next. *)
StepsFrom(f, b, m, F) == f[0] = b /\ \A n \in 0 .. m : n # 0 => f[n] = F[<<f[n - 1], n>>]

(* A step function on a set, applied to 0, 1, ..., m - 1 in turn, defines a *)
(* function on 0 .. m.                                                      *)
LEMMA StepsDefineFunction ==
  ASSUME NEW S, NEW b \in S, NEW m \in Nat, NEW F \in [S \X Nat -> S]
  PROVE  \E f \in [0 .. m -> S] : StepsFrom(f, b, m, F)
<1> USE DEF StepsFrom
<1> DEFINE Def(f, k) == StepsFrom(f, b, k, F)
           D == {k \in Nat : \E f \in [0 .. k -> S] : Def(f, k)}
<1>1. 0 \in D
  <2>1. [n \in 0 .. 0 |-> b] \in [0 .. 0 -> S] /\ Def([n \in 0 .. 0 |-> b], 0)
    OBVIOUS
  <2> QED
    BY <2>1
<1>2. ASSUME NEW k \in Nat, k \in D PROVE k + 1 \in D
  <2>1. PICK f \in [0 .. k -> S] : Def(f, k)
    BY <1>2
  <2> DEFINE g == [n \in 0 .. k + 1 |-> IF n = k + 1 THEN F[<<f[k], k + 1>>] ELSE f[n]]
  <2>2. F[<<f[k], k + 1>>] \in S
    <3>1. f[k] \in S
      OBVIOUS
    <3> QED
      BY <3>1
  <2>3. \A n \in 0 .. k + 1 : n # k + 1 => n \in 0 .. k
    OBVIOUS
  <2>4. g \in [0 .. k + 1 -> S]
    BY <2>2, <2>3
  <2>5. \A n \in 0 .. k : g[n] = f[n]
    OBVIOUS
  <2>6. g[k + 1] = F[<<f[k], k + 1>>]
    OBVIOUS
  <2> HIDE DEF g
  <2>7. ASSUME NEW n \in 0 .. k + 1, n # 0 PROVE g[n] = F[<<g[n - 1], n>>]
    <3>1. CASE n = k + 1
      <4>1. n - 1 = k /\ g[n - 1] = f[k]
        BY <3>1, <2>5
      <4> QED
        BY <3>1, <4>1, <2>6
    <3>2. CASE n # k + 1
      <4>1. n \in 0 .. k /\ n - 1 \in 0 .. k
        BY <2>7, <3>2
      <4> QED
        BY <2>1, <2>5, <2>7, <4>1
    <3> QED
      BY <3>1, <3>2
  <2>8. Def(g, k + 1)
    BY <2>1, <2>5, <2>7
  <2> QED
    BY <2>4, <2>8
<1> HIDE DEF D
<1>3. m \in D
  BY <1>1, <1>2, SetInduction
<1> QED
  BY <1>3 DEF D

-----------------------------------------------------------------------------
(* The invariant.                                                           *)

PortStates ==
  [status : {"READY", "DATA_READY", "DATA_ROOM", "BUSY", "ERROR"},
   write_enabled : BOOLEAN, pending : BOOLEAN]

PortsAreTyped == outs \in Seq(Outs) /\ port \in PortStates

(* A paused core 1 spins at the top of its loop. *)
PausedSpins == flash_paused => c1_pc = "loop"

StopInv == PortsAreTyped /\ PausedSpins /\ StoppedIsDurable

-----------------------------------------------------------------------------
(* Applying OUTs.                                                           *)

LEMMA ApplyOutType ==
  ASSUME NEW p \in PortStates, NEW out \in Outs
  PROVE  ApplyOut(p, out) \in PortStates
<1>1. out \in {"CLEAR", "READ", "WRITE", "LAST", "FLUSH", "BAD", "REBOOT"}
  BY OutsAssumption
<1>2. CASE out = "REBOOT"
  BY <1>2 DEF ApplyOut, PortStates
<1>3. CASE out # "REBOOT"
  <2>1. Status(out) \in {"READY", "DATA_READY", "DATA_ROOM", "BUSY", "ERROR"}
    BY <1>1, <1>3 DEF Status
  <2> HIDE DEF Status
  <2> QED
    BY <1>3, <2>1 DEF ApplyOut, PortStates
<1> QED
  BY <1>2, <1>3

(* What every OUT of the queue keeps holds of the drained ports. *)
LEMMA DrainedStays ==
  ASSUME NEW J, port \in J, outs \in Seq(Outs),
         \A p \in J : \A n \in 1 .. Len(outs) : ApplyOut(p, outs[n]) \in J
  PROVE  Drained \in J
<1> DEFINE m == Len(outs)
           F == [x \in J \X Nat |-> IF x[2] \in 1 .. m THEN ApplyOut(x[1], outs[x[2]]) ELSE x[1]]
           Applied(f) == f = [n \in 0 .. m |-> IF n = 0 THEN port ELSE ApplyOut(f[n - 1], outs[n])]
           h == CHOOSE f : Applied(f)
<1>1. m \in Nat
  OBVIOUS
<1>2. F \in [J \X Nat -> J]
  OBVIOUS
<1>3. \A p \in J, n \in 1 .. m : F[<<p, n>>] = ApplyOut(p, outs[n])
  BY <1>1
<1> HIDE DEF m, F, Applied, h
<1>4. PICK f \in [0 .. m -> J] : StepsFrom(f, port, m, F)
  BY <1>1, <1>2, StepsDefineFunction, Zenon
<1>5. Applied(f)
  <2>1. ASSUME NEW n \in 0 .. m, n # 0 PROVE f[n] = ApplyOut(f[n - 1], outs[n])
    <3>1. n - 1 \in 0 .. m /\ n \in 1 .. m
      BY <1>1, <2>1
    <3>2. f[n - 1] \in J
      BY <3>1
    <3> QED
      BY <1>3, <1>4, <2>1, <3>1, <3>2 DEF StepsFrom
  <2> QED
    BY <1>4, <2>1 DEF Applied, StepsFrom
<1>6. Applied(h)
  BY <1>5 DEF h
<1>7. Drained = h[m]
  BY DEF Drained, m, h, Applied
<1>8. h[0] = port /\ \A n \in 0 .. m : n # 0 => h[n] = ApplyOut(h[n - 1], outs[n])
  BY <1>1, <1>6 DEF Applied
<1> DEFINE D == {n \in Nat : n \in 0 .. m => h[n] \in J}
<1>9. 0 \in D
  BY <1>8
<1>10. ASSUME NEW n \in Nat, n \in D PROVE n + 1 \in D
  <2> SUFFICES ASSUME n + 1 \in 0 .. m PROVE h[n + 1] \in J
    OBVIOUS
  <2>1. n \in 0 .. m /\ n + 1 \in 1 .. m /\ n + 1 # 0 /\ (n + 1) - 1 = n
    BY <1>1
  <2>2. h[n] \in J
    BY <1>10, <2>1
  <2>3. h[n + 1] = ApplyOut(h[n], outs[n + 1])
    BY <1>8, <2>1
  <2> QED
    BY <2>1, <2>2, <2>3 DEF m
<1> HIDE DEF D
<1>11. m \in D
  BY <1>1, <1>9, <1>10, SetInduction
<1> QED
  BY <1>1, <1>7, <1>11 DEF D

LEMMA DrainedType ==
  ASSUME PortsAreTyped PROVE Drained \in PortStates
<1>1. \A p \in PortStates : \A n \in 1 .. Len(outs) : ApplyOut(p, outs[n]) \in PortStates
  <2>1. \A n \in 1 .. Len(outs) : outs[n] \in Outs
    BY DEF PortsAreTyped
  <2> QED
    BY <2>1, ApplyOutType
<1> QED
  BY <1>1, DrainedStays DEF PortsAreTyped

-----------------------------------------------------------------------------
(* The stop.                                                                *)

LEMMA InitStopInv == Init => StopInv
  BY DEF Init, StopInv, PortsAreTyped, PortStates, PausedSpins, StoppedIsDurable

LEMMA StatusUpdate ==
  ASSUME NEW p \in PortStates, NEW s \in {"READY", "DATA_READY", "DATA_ROOM", "BUSY", "ERROR"}
  PROVE  /\ [p EXCEPT !.status = s] \in PortStates
         /\ [p EXCEPT !.status = s].status = s
         /\ [p EXCEPT !.status = s].write_enabled = p.write_enabled
         /\ [p EXCEPT !.status = s].pending = p.pending
  BY DEF PortStates

LEMMA GateUpdate ==
  ASSUME NEW p \in PortStates, NEW w \in BOOLEAN, NEW g \in BOOLEAN
  PROVE  /\ [p EXCEPT !.pending = g, !.write_enabled = w] \in PortStates
         /\ [p EXCEPT !.pending = g, !.write_enabled = w].status = p.status
         /\ [p EXCEPT !.pending = g, !.write_enabled = w].write_enabled = w
         /\ [p EXCEPT !.pending = g, !.write_enabled = w].pending = g
  BY DEF PortStates

LEMMA Z80Stops ==
  ASSUME StopInv, (\E out \in Outs : Z80Out(out)) \/ Z80In \/ Trap
  PROVE  StopInv'
<1>0. PortsAreTyped /\ PausedSpins /\ StoppedIsDurable
  BY DEF StopInv
<1>1. PausedSpins'
  BY <1>0 DEF Z80Out, Z80In, Trap, core1, handshake, PausedSpins
<1>2. StoppedIsDurable'
  BY DEF Z80Out, Z80In, Trap, core0, running, StoppedIsDurable
<1>3. PortsAreTyped'
  <2>1. ASSUME NEW out \in Outs, Z80Out(out) PROVE PortsAreTyped'
    BY <1>0, <2>1 DEF Z80Out, PortsAreTyped
  <2>2. CASE Z80In
    BY <1>0, <2>2, StatusUpdate DEF Z80In, PortsAreTyped
  <2>3. CASE Trap
    BY <1>0, <2>3, ApplyOutType DEF Trap, PortsAreTyped
  <2> QED
    BY <2>1, <2>2, <2>3
<1> QED
  BY <1>1, <1>2, <1>3 DEF StopInv

LEMMA RestartStops ==
  ASSUME Restart PROVE StopInv'
  BY DEF Restart, StopInv, PortsAreTyped, PortStates, PausedSpins, StoppedIsDurable

LEMMA Core0Stops ==
  ASSUME StopInv, Core0Loop \/ OperatorReboot \/ CancelReboot
                  \/ \E reboot \in BOOLEAN : OperatorStop(reboot)
  PROVE  StopInv'
<1>0. PortsAreTyped /\ PausedSpins /\ StoppedIsDurable
  BY DEF StopInv
<1>1. CASE GrantedReboot \/ ReadyReboot \/ OperatorReboot
  BY <1>1, RestartStops DEF GrantedReboot, ReadyReboot, OperatorReboot
<1>2. CASE NoReboot \/ NoCommand \/ CancelReboot
  BY <1>0, <1>2 DEF NoReboot, NoCommand, CancelReboot, StopInv, PortsAreTyped, PausedSpins,
     StoppedIsDurable, storage, handshake, core1
<1>3. ASSUME NEW reboot \in BOOLEAN, OperatorStop(reboot) PROVE StopInv'
  BY <1>0, <1>3 DEF OperatorStop, StopInv, PortsAreTyped, PausedSpins, StoppedIsDurable,
     storage,
     core1
<1>4. CASE RunIdle \/ RunWaiting \/ RunResuming \/ RequestFlush
  BY <1>0, <1>4 DEF RunIdle, RunWaiting, RunResuming, RequestFlush, RunUnchanged, StopInv,
     PortsAreTyped, PausedSpins, StoppedIsDurable, storage, handshake, core1
<1>5. ASSUME RunFatal \/ RunPaused PROVE PortsAreTyped' /\ PausedSpins'
  <2>1. Drained \in PortStates
    BY <1>0, DrainedType
  <2>2. PausedSpins'
    BY <1>0, <1>5 DEF RunFatal, RunPaused, RunUnchanged, PausedSpins, core1
  <2>3. port' = Drained /\ outs' = <<>>
    BY <1>5 DEF RunFatal, RunPaused, Hold
  <2> QED
    BY <2>1, <2>2, <2>3 DEF PortsAreTyped
<1>6. CASE RunFatal
  BY <1>5, <1>6 DEF RunFatal, Hold, StopInv, StoppedIsDurable
<1>7. CASE RunPaused
  <2>1. StoppedIsDurable'
    BY <1>7 DEF RunPaused, Hold, Stopping, running, RunUnchanged, storage, Quiescent,
       StoppedIsDurable
  <2> QED
    BY <1>5, <1>7, <2>1 DEF StopInv
<1> QED
  BY <1>1, <1>2, <1>3, <1>4, <1>6, <1>7 DEF Core0Loop

(* What core 1's disk service does to a held disk, and to any. *)
LEMMA ServiceStops ==
  ASSUME StopInv, DiskService, UNCHANGED <<outs, held>>
  PROVE  PortsAreTyped' /\ StoppedIsDurable'
<1>0. PortsAreTyped /\ StoppedIsDurable
  BY DEF StopInv
<1>1. CASE CommandService
  <2>1. port.status = "BUSY" /\ port' \in PortStates
    BY <1>0, <1>1, StatusUpdate DEF CommandService, FlushFails, PortsAreTyped
  <2> QED
    BY <1>0, <2>1 DEF PortsAreTyped, StoppedIsDurable
<1>2. CASE FlushService
  <2>1. port' \in PortStates
    BY <1>0, <1>2, StatusUpdate DEF FlushService, FlushFails, PortsAreTyped
  <2>2. (port' = port /\ dirty' = FALSE) \/ dirty
    BY <1>2 DEF FlushService
  <2> QED
    BY <1>0, <2>1, <2>2 DEF PortsAreTyped, StoppedIsDurable
<1>3. CASE NothingDue
  BY <1>0, <1>3 DEF NothingDue, storage, PortsAreTyped, StoppedIsDurable
<1> QED
  BY <1>1, <1>2, <1>3 DEF DiskService

(* What the end of a reboot job does to the ports. *)
LEMMA FinishPorts ==
  ASSUME StopInv, NEW granted \in BOOLEAN, Finish(granted)
  PROVE  /\ port' \in PortStates /\ port'.status = port.status
         /\ port'.pending = FALSE /\ port'.write_enabled = (port.write_enabled \/ ~granted)
         /\ c1_pc' \in {"settle", "loop"}
<1>1. port \in PortStates /\ (port.write_enabled \/ ~granted) \in BOOLEAN
  BY DEF StopInv, PortsAreTyped, PortStates
<1>2. port' = [port EXCEPT !.pending = FALSE, !.write_enabled = port.write_enabled \/ ~granted]
  BY DEF Finish
<1>3. FALSE \in BOOLEAN
  OBVIOUS
<1>4. c1_pc' \in {"settle", "loop"}
  BY DEF Finish, AfterJob
<1> QED
  BY <1>1, <1>2, <1>3, <1>4, GateUpdate, Zenon

LEMMA Core1Stops ==
  ASSUME StopInv, Core1Step
  PROVE  StopInv'
<1>0. PortsAreTyped /\ PausedSpins /\ StoppedIsDurable /\ UNCHANGED <<outs, held>>
  BY DEF StopInv, Core1Step, Core1Loop, Core1Disk, Core1Job, Core1Settle, Core1Pause,
     RebootDiskService, RebootFlush, RebootCheck, Core1Unchanged, core0
<1>1. CASE Core1Loop
  BY <1>0, <1>1 DEF Core1Loop, StopInv, PortsAreTyped, PausedSpins, StoppedIsDurable, storage
<1>2. CASE Core1Disk \/ RebootDiskService
  <2>1. PortsAreTyped' /\ StoppedIsDurable'
    BY <1>0, <1>2, ServiceStops DEF Core1Disk, RebootDiskService
  <2>2. PausedSpins'
    BY <1>0, <1>2 DEF Core1Disk, RebootDiskService, PausedSpins
  <2> QED
    BY <2>1, <2>2 DEF StopInv
<1>3. CASE Core1Job \/ Core1Settle \/ Core1Pause
  BY <1>0, <1>3 DEF Core1Job, Core1Settle, Core1Pause, AfterJob, StopInv, PortsAreTyped,
     PausedSpins, StoppedIsDurable, storage
<1>4. CASE RebootFlush
  <2>1. FALSE \in BOOLEAN
    OBVIOUS
  <2>2. port' \in PortStates /\ port'.status = port.status
    BY <1>0, <1>4, <2>1, FinishPorts DEF RebootFlush, PortsAreTyped
  <2>3. PausedSpins'
    BY <1>0, <1>4 DEF RebootFlush, PausedSpins
  <2>4. StoppedIsDurable'
    BY <1>0, <1>4, <2>2 DEF RebootFlush, StoppedIsDurable
  <2> QED
    BY <1>0, <2>2, <2>3, <2>4 DEF StopInv, PortsAreTyped
<1>5. CASE RebootCheck
  <2>1. Quiescent(port) \in BOOLEAN
    BY DEF Quiescent
  <2>2. port' \in PortStates /\ port'.status = port.status
    BY <1>5, <2>1, FinishPorts DEF RebootCheck
  <2>3. PausedSpins'
    BY <1>0, <1>5 DEF RebootCheck, PausedSpins
  <2>4. StoppedIsDurable'
    BY <1>0, <1>5, <2>2 DEF RebootCheck, StoppedIsDurable, storage
  <2> QED
    BY <1>0, <2>2, <2>3, <2>4 DEF StopInv, PortsAreTyped
<1> QED
  BY <1>1, <1>2, <1>3, <1>4, <1>5 DEF Core1Step

LEMMA NextStopInv == StopInv /\ [Next]_vars => StopInv'
<1> SUFFICES ASSUME StopInv, [Next]_vars PROVE StopInv'
  OBVIOUS
<1>1. CASE UNCHANGED vars
  BY <1>1 DEF vars, StopInv, PortsAreTyped, storage, handshake, core0, core1, PausedSpins,
     StoppedIsDurable
<1> QED
  BY <1>1, Z80Stops, Core0Stops, Core1Stops DEF Next

LEMMA StopInvariance == Spec => []StopInv
  BY InitStopInv, NextStopInv, PTL DEF Spec

(* An orderly stop leaves nothing behind (service_run, hold_cpu): when it   *)
(* has held the Z80 the queue is empty and the cache clean, and stays so,   *)
(* however deep the queue and however often the operator asks to stop.      *)
THEOREM StopIsDurable == Spec => []StoppedIsDurable
<1>1. StopInv => StoppedIsDurable
  BY DEF StopInv
<1> QED
  BY <1>1, StopInvariance, PTL

(* From the announcement of the pause to its withdrawal core1_service does  *)
(* not touch the storage.                                                   *)
THEOREM PauseHolds == Spec => PauseIsQuiet
<1>1. ASSUME StopInv, [Next]_vars
      PROVE  [flash_paused /\ flash_paused' =>
                UNCHANGED <<dirty, disk_fatal_error, reboot_requested>>]_vars
  <2> SUFFICES ASSUME Next, flash_paused, flash_paused'
               PROVE  UNCHANGED <<dirty, disk_fatal_error, reboot_requested>>
    BY <1>1
  <2>1. c1_pc = "loop"
    BY <1>1 DEF StopInv, PausedSpins
  <2> USE <2>1 DEF storage, handshake, core0, core1
  <2>2. CASE (\E out \in Outs : Z80Out(out)) \/ Z80In \/ Trap
    BY <2>2 DEF Z80Out, Z80In, Trap
  <2>3. CASE Core0Loop \/ OperatorReboot
    BY <2>3 DEF Core0Loop, OperatorReboot, GrantedReboot, ReadyReboot, Restart, NoReboot,
       NoCommand,
       RunIdle, RunFatal, RunResuming, RunPaused, RunWaiting, RequestFlush, RunUnchanged
  <2>4. CASE CancelReboot \/ \E reboot \in BOOLEAN : OperatorStop(reboot)
    BY <2>4 DEF CancelReboot, OperatorStop
  <2>5. CASE Core1Step
    BY <2>5 DEF Core1Step, Core1Loop, Core1Disk, Core1Job, Core1Settle, Core1Pause,
       RebootDiskService, RebootFlush, RebootCheck
  <2> QED
    BY <2>2, <2>3, <2>4, <2>5 DEF Next
<1> QED
  BY <1>1, StopInvariance, PTL DEF Spec, PauseIsQuiet

-----------------------------------------------------------------------------
(* The reboot request.                                                      *)

RebootSteps == {"service1", "service2", "flush", "check"}

(* One request at a time: queued, being served, or granted. *)
RequestIsAlone ==
  /\ \A i, j \in 1 .. Len(outs) : outs[i] = "REBOOT" /\ outs[j] = "REBOOT" => i = j
  /\ port.pending \/ reboot_requested => \A i \in 1 .. Len(outs) : outs[i] # "REBOOT"
  /\ ~(port.pending /\ reboot_requested)

(* The gate is closed from the request to its refusal, or for good. *)
GateIsClosed == port.pending \/ reboot_requested => ~port.write_enabled

JobIsPending == c1_pc \in RebootSteps => port.pending

RebootInv == RequestIsAlone /\ GateIsClosed /\ JobIsPending /\ RebootIsSafe

LEMMA ApplyOutFacts ==
  ASSUME NEW p \in PortStates, NEW out \in Outs
  PROVE  /\ out = "REBOOT" => /\ ApplyOut(p, out).write_enabled = (p.pending /\ p.write_enabled)
                              /\ ApplyOut(p, out).pending
                              /\ ApplyOut(p, out).status = p.status
         /\ out # "REBOOT" => /\ ApplyOut(p, out).write_enabled = p.write_enabled
                              /\ ApplyOut(p, out).pending = p.pending
                              /\ ~p.write_enabled => ApplyOut(p, out) = p
<1>1. out = "REBOOT" => /\ ApplyOut(p, out).write_enabled = (p.pending /\ p.write_enabled)
                        /\ ApplyOut(p, out).pending
                        /\ ApplyOut(p, out).status = p.status
  BY DEF ApplyOut, PortStates
<1>2. out # "REBOOT" => /\ ApplyOut(p, out).write_enabled = p.write_enabled
                        /\ ApplyOut(p, out).pending = p.pending
                        /\ ~p.write_enabled => ApplyOut(p, out) = p
  BY DEF ApplyOut, PortStates
<1> QED
  BY <1>1, <1>2

(* Draining the queue does what its OUTs do: a pending or granted request   *)
(* is left alone, and a new one closes the gate.                            *)
LEMMA DrainedFacts ==
  ASSUME StopInv, RebootInv
  PROVE  /\ Drained.pending => ~Drained.write_enabled
         /\ port.pending \/ reboot_requested => Drained = port
<1>0. PortsAreTyped /\ RequestIsAlone /\ GateIsClosed
  BY DEF StopInv, RebootInv
<1> DEFINE J == {p \in PortStates : /\ p.pending => ~p.write_enabled
                                    /\ port.pending \/ reboot_requested => p = port}
<1>1. port \in J
  BY <1>0 DEF PortsAreTyped, GateIsClosed
<1>2. ASSUME NEW p \in J, NEW n \in 1 .. Len(outs) PROVE ApplyOut(p, outs[n]) \in J
  <2>1. outs[n] \in Outs /\ p \in PortStates
    BY <1>0 DEF PortsAreTyped
  <2>2. ApplyOut(p, outs[n]) \in PortStates
    BY <2>1, ApplyOutType
  <2>3. CASE port.pending \/ reboot_requested
    <3>1. outs[n] # "REBOOT" /\ p = port /\ ~p.write_enabled
      BY <1>0, <2>3 DEF RequestIsAlone, GateIsClosed
    <3>2. ApplyOut(p, outs[n]) = p
      BY <2>1, <3>1, ApplyOutFacts
    <3> QED
      BY <3>2
  <2>4. CASE ~(port.pending \/ reboot_requested)
    <3>1. ApplyOut(p, outs[n]).pending => ~ApplyOut(p, outs[n]).write_enabled
      BY <2>1, ApplyOutFacts
    <3> QED
      BY <2>2, <2>4, <3>1
  <2> QED
    BY <2>3, <2>4
<1> HIDE DEF J
<1>3. Drained \in J
  BY <1>0, <1>1, <1>2, DrainedStays DEF PortsAreTyped
<1> QED
  BY <1>3 DEF J

LEMMA InitRebootInv == Init => RebootInv
  BY DEF Init, RebootInv, RequestIsAlone, GateIsClosed, JobIsPending, RebootSteps, RebootIsSafe

(* Steps that leave the queue, the ports and the request alone. *)
LEMMA RequestUntouched ==
  ASSUME RebootInv, UNCHANGED <<outs, port, reboot_requested>>,
         ~reboot_requested \/ dirty' = dirty \/ ~dirty',
         c1_pc' \in RebootSteps => port.pending
  PROVE  RebootInv'
<1>1. RequestIsAlone' /\ GateIsClosed'
  BY DEF RebootInv, RequestIsAlone, GateIsClosed
<1>2. JobIsPending' /\ RebootIsSafe'
  BY DEF RebootInv, JobIsPending, RebootIsSafe
<1> QED
  BY <1>1, <1>2 DEF RebootInv

LEMMA Z80Reboots ==
  ASSUME RebootTwice = FALSE, StopInv, RebootInv,
         (\E out \in Outs : Z80Out(out)) \/ Z80In \/ Trap
  PROVE  RebootInv'
<1>0. /\ PortsAreTyped /\ RequestIsAlone /\ GateIsClosed /\ JobIsPending /\ RebootIsSafe
      /\ UNCHANGED <<dirty, c1_pc, reboot_requested>>
  BY DEF StopInv, RebootInv, Z80Out, Z80In, Trap, storage, core1
<1>1. ASSUME NEW out \in Outs, Z80Out(out) PROVE RebootInv'
  <2>1. /\ outs' = Append(outs, out) /\ port' = port /\ outs \in Seq(Outs)
        /\ out = "REBOOT" => ~RebootUnderWay
    BY <1>0, <1>1 DEF Z80Out, PortsAreTyped
  <2>2. /\ Len(outs') = Len(outs) + 1 /\ Len(outs) \in Nat /\ outs'[Len(outs) + 1] = out
        /\ \A i \in 1 .. Len(outs) : outs'[i] = outs[i]
    BY <2>1
  <2>3. \A i \in 1 .. Len(outs') : i \in 1 .. Len(outs) \/ (i = Len(outs) + 1 /\ outs'[i] = out)
    BY <2>2
  <2>4. out = "REBOOT" => /\ ~port.pending /\ ~reboot_requested
                          /\ \A i \in 1 .. Len(outs) : outs[i] # "REBOOT"
    BY <2>1 DEF RebootUnderWay, Contains
  <2>5. RequestIsAlone'
    <3>1. ASSUME NEW i \in 1 .. Len(outs'), NEW j \in 1 .. Len(outs'),
                 outs'[i] = "REBOOT", outs'[j] = "REBOOT"
          PROVE  i = j
      BY <1>0, <2>2, <2>3, <2>4, <3>1 DEF RequestIsAlone
    <3>2. port.pending \/ reboot_requested => \A i \in 1 .. Len(outs') : outs'[i] # "REBOOT"
      BY <1>0, <2>2, <2>3, <2>4 DEF RequestIsAlone
    <3> QED
      BY <1>0, <2>1, <3>1, <3>2 DEF RequestIsAlone
  <2> QED
    BY <1>0, <2>1, <2>5 DEF RebootInv, GateIsClosed, JobIsPending, RebootIsSafe
<1>2. CASE Z80In
  <2>1. /\ outs' = outs /\ port'.status = "READY" /\ port'.pending = port.pending
        /\ port'.write_enabled = port.write_enabled
    BY <1>0, <1>2, StatusUpdate DEF Z80In, PortsAreTyped
  <2> QED
    BY <1>0, <2>1 DEF RebootInv, RequestIsAlone, GateIsClosed, JobIsPending, RebootIsSafe
<1>3. CASE Trap
  <2>1. /\ outs \in Seq(Outs) /\ outs # <<>> /\ outs' = Tail(outs)
        /\ port' = ApplyOut(port, outs[1]) /\ port \in PortStates
    BY <1>0, <1>3 DEF Trap, PortsAreTyped
  <2>2. /\ Len(outs) \in Nat /\ Len(outs) >= 1 /\ Len(outs') = Len(outs) - 1 /\ outs[1] \in Outs
        /\ \A i \in 1 .. Len(outs') : outs'[i] = outs[i + 1]
    BY <2>1
  <2>3. \A i \in 1 .. Len(outs') : i + 1 \in 1 .. Len(outs) /\ i + 1 # 1
    BY <2>2
  <2>4. \A i, j \in 1 .. Len(outs') : outs'[i] = "REBOOT" /\ outs'[j] = "REBOOT" => i = j
    <3> SUFFICES ASSUME NEW i \in 1 .. Len(outs'), NEW j \in 1 .. Len(outs'),
                        outs'[i] = "REBOOT", outs'[j] = "REBOOT"
                 PROVE  i = j
      OBVIOUS
    <3>1. i + 1 = j + 1
      BY <1>0, <2>2, <2>3 DEF RequestIsAlone
    <3> QED
      BY <3>1, <2>2
  <2>5. CASE outs[1] = "REBOOT"
    <3>1. ~port.pending /\ ~reboot_requested
      BY <1>0, <2>2, <2>5 DEF RequestIsAlone
    <3>2. port'.pending /\ ~port'.write_enabled
      BY <2>1, <2>2, <2>5, <3>1, ApplyOutFacts
    <3>3. \A i \in 1 .. Len(outs') : outs'[i] # "REBOOT"
      BY <1>0, <2>2, <2>3, <2>5 DEF RequestIsAlone
    <3> QED
      BY <1>0, <2>4, <3>1, <3>2, <3>3 DEF RebootInv, RequestIsAlone, GateIsClosed, JobIsPending,
         RebootIsSafe
  <2>6. CASE outs[1] # "REBOOT"
    <3>1. /\ port'.write_enabled = port.write_enabled /\ port'.pending = port.pending
          /\ ~port.write_enabled => port' = port
      BY <2>1, <2>2, <2>6, ApplyOutFacts
    <3>2. port'.pending \/ reboot_requested => \A i \in 1 .. Len(outs') : outs'[i] # "REBOOT"
      BY <1>0, <2>2, <2>3, <3>1 DEF RequestIsAlone
    <3> QED
      BY <1>0, <2>4, <3>1, <3>2 DEF RebootInv, RequestIsAlone, GateIsClosed, JobIsPending,
         RebootIsSafe
  <2> QED
    BY <2>5, <2>6
<1> QED
  BY <1>1, <1>2, <1>3

LEMMA RestartReboots ==
  ASSUME Restart PROVE RebootInv'
  BY DEF Restart, RebootInv, RequestIsAlone, GateIsClosed, JobIsPending, RebootSteps,
     RebootIsSafe

LEMMA Core0Reboots ==
  ASSUME StopInv, RebootInv,
         Core0Loop \/ OperatorReboot \/ CancelReboot \/ \E reboot \in BOOLEAN : OperatorStop(reboot)
  PROVE  RebootInv'
<1>1. CASE GrantedReboot \/ ReadyReboot \/ OperatorReboot
  BY <1>1, RestartReboots DEF GrantedReboot, ReadyReboot, OperatorReboot
<1>2. CASE \/ NoReboot \/ NoCommand \/ CancelReboot \/ \E reboot \in BOOLEAN : OperatorStop(reboot)
           \/ RunIdle \/ RunWaiting \/ RunResuming \/ RequestFlush
  <2>1. UNCHANGED <<outs, port, reboot_requested, dirty, c1_pc>>
    BY <1>2 DEF NoReboot, NoCommand, CancelReboot, OperatorStop, RunIdle, RunWaiting,
       RunResuming,
       RequestFlush, RunUnchanged, storage, core1
  <2>2. c1_pc' \in RebootSteps => port.pending
    BY <2>1 DEF RebootInv, JobIsPending
  <2> QED
    BY <2>1, <2>2, RequestUntouched
<1>3. CASE RunFatal \/ RunPaused
  <2>1. port' = Drained /\ outs' = <<>> /\ UNCHANGED <<reboot_requested, dirty, c1_pc>>
    BY <1>3 DEF RunFatal, RunPaused, Hold, RunUnchanged, storage, core1
  <2>2. /\ port'.pending => ~port'.write_enabled
        /\ port.pending \/ reboot_requested => port' = port
    BY <2>1, DrainedFacts
  <2>3. Len(outs') = 0
    BY <2>1
  <2> QED
    BY <2>1, <2>2, <2>3 DEF RebootInv, RequestIsAlone, GateIsClosed, JobIsPending, RebootIsSafe
<1> QED
  BY <1>1, <1>2, <1>3 DEF Core0Loop

(* A disk service moves neither the gate nor the request, and a rebooting   *)
(* disk has nothing left to serve.                                          *)
LEMMA ServiceReboots ==
  ASSUME StopInv, RebootInv, DiskService, UNCHANGED <<outs, reboot_requested>>,
         c1_pc' \in RebootSteps => port.pending
  PROVE  RebootInv'
<1>0. PortsAreTyped /\ RequestIsAlone /\ GateIsClosed /\ JobIsPending /\ RebootIsSafe
  BY DEF StopInv, RebootInv
<1>1. /\ port'.write_enabled = port.write_enabled /\ port'.pending = port.pending
      /\ reboot_requested => port'.status # "BUSY" /\ ~dirty'
  <2>1. CASE CommandService
    <3>1. PICK s \in {"READY", "DATA_READY", "DATA_ROOM", "BUSY", "ERROR"} :
            port' = [port EXCEPT !.status = s]
      BY <2>1 DEF CommandService, FlushFails
    <3>2. port'.write_enabled = port.write_enabled /\ port'.pending = port.pending
      BY <1>0, <3>1, StatusUpdate, Zenon DEF PortsAreTyped
    <3>3. ~reboot_requested
      BY <1>0, <2>1 DEF CommandService, RebootIsSafe
    <3> QED
      BY <3>2, <3>3
  <2>2. CASE FlushService
    <3>1. port'.write_enabled = port.write_enabled /\ port'.pending = port.pending
      <4>1. CASE port' = port
        BY <4>1
      <4>2. CASE port' = [port EXCEPT !.status = "ERROR"]
        <5>1. "ERROR" \in {"READY", "DATA_READY", "DATA_ROOM", "BUSY", "ERROR"}
          OBVIOUS
        <5> QED
          BY <1>0, <4>2, <5>1, StatusUpdate, Zenon DEF PortsAreTyped
      <4> QED
        BY <2>2, <4>1, <4>2 DEF FlushService, FlushFails
    <3>2. (port' = port /\ ~dirty') \/ dirty
      BY <2>2 DEF FlushService
    <3> QED
      BY <1>0, <3>1, <3>2 DEF RebootIsSafe
  <2>3. CASE NothingDue
    BY <1>0, <2>3 DEF NothingDue, storage, RebootIsSafe
  <2> QED
    BY <2>1, <2>2, <2>3 DEF DiskService
<1> QED
  BY <1>0, <1>1 DEF RebootInv, RequestIsAlone, GateIsClosed, JobIsPending, RebootIsSafe

LEMMA Core1Reboots ==
  ASSUME StopInv, RebootInv, Core1Step
  PROVE  RebootInv'
<1>0. /\ PortsAreTyped /\ RequestIsAlone /\ GateIsClosed /\ JobIsPending /\ RebootIsSafe
      /\ outs' = outs
  BY DEF StopInv, RebootInv, Core1Step, Core1Loop, Core1Disk, Core1Job, Core1Settle, Core1Pause,
     RebootDiskService, RebootFlush, RebootCheck, Core1Unchanged
<1>1. CASE Core1Loop \/ Core1Job \/ Core1Settle \/ Core1Pause
  <2>1. /\ UNCHANGED <<port, reboot_requested, dirty>>
        /\ c1_pc' \in {"loop", "disk", "settle", "pause"} \/ port.pending
    BY <1>1 DEF Core1Loop, Core1Job, Core1Settle, Core1Pause, AfterJob, storage
  <2>2. c1_pc' \in RebootSteps => port.pending
    BY <2>1 DEF RebootSteps
  <2> QED
    BY <1>0, <2>1, <2>2, RequestUntouched
<1>2. CASE Core1Disk
  BY <1>0, <1>2, ServiceReboots DEF Core1Disk, RebootSteps
<1>3. CASE RebootDiskService
  <2>1. port.pending
    BY <1>0, <1>3 DEF RebootDiskService, JobIsPending, RebootSteps
  <2> QED
    BY <1>0, <1>3, <2>1, ServiceReboots DEF RebootDiskService
<1>4. ASSUME NEW granted \in BOOLEAN, Finish(granted), c1_pc \in RebootSteps,
             granted => port.status # "BUSY" /\ ~dirty'
      PROVE  RebootInv'
  <2>1. /\ port.pending /\ ~reboot_requested /\ ~port.write_enabled
        /\ \A i \in 1 .. Len(outs) : outs[i] # "REBOOT"
    BY <1>0, <1>4 DEF JobIsPending, RequestIsAlone, GateIsClosed
  <2>2. /\ port'.status = port.status /\ port'.pending = FALSE
        /\ port'.write_enabled = (port.write_enabled \/ ~granted)
        /\ c1_pc' \in {"settle", "loop"}
    BY <1>4, FinishPorts
  <2>3. reboot_requested' <=> granted
    BY <1>4, <2>1 DEF Finish
  <2>4. RequestIsAlone'
    BY <1>0, <2>1, <2>2 DEF RequestIsAlone
  <2>5. GateIsClosed' /\ JobIsPending' /\ RebootIsSafe'
    BY <1>4, <2>1, <2>2, <2>3 DEF GateIsClosed, JobIsPending, RebootSteps, RebootIsSafe
  <2> QED
    BY <2>4, <2>5 DEF RebootInv
<1>5. CASE RebootFlush
  <2>1. CASE c1_pc' = "check" /\ dirty' = FALSE /\ UNCHANGED <<port, reboot_requested>>
    <3>1. port.pending
      BY <1>0, <1>5 DEF RebootFlush, JobIsPending, RebootSteps
    <3> QED
      BY <1>0, <2>1, <3>1, RequestUntouched
  <2>2. CASE Finish(FALSE)
    <3>1. c1_pc \in RebootSteps
      BY <1>5 DEF RebootFlush, RebootSteps
    <3> QED
      BY <1>4, <2>2, <3>1
  <2> QED
    BY <1>5, <2>1, <2>2 DEF RebootFlush
<1>6. CASE RebootCheck
  <2>1. /\ Quiescent(port) \in BOOLEAN /\ c1_pc \in RebootSteps /\ dirty' = dirty
        /\ Quiescent(port) => port.status # "BUSY" /\ ~dirty
    BY <1>6 DEF RebootCheck, RebootSteps, Quiescent, storage
  <2> QED
    BY <1>4, <1>6, <2>1 DEF RebootCheck
<1> QED
  BY <1>1, <1>2, <1>3, <1>5, <1>6 DEF Core1Step

LEMMA NextRebootInv ==
  ASSUME RebootTwice = FALSE, StopInv, RebootInv, [Next]_vars PROVE RebootInv'
<1>1. CASE UNCHANGED vars
  BY <1>1 DEF vars, storage, core1, RebootInv, RequestIsAlone, GateIsClosed, JobIsPending,
     RebootIsSafe
<1> QED
  BY <1>1, Z80Reboots, Core0Reboots, Core1Reboots DEF Next

(* A Z80 that waits for the answer to its reboot request is rebooted only   *)
(* with every completed write in flash, and the gate z80_io_service_submit  *)
(* closes stays closed from the grant on.                                   *)
THEOREM GrantedRebootIsSafe ==
  ASSUME RebootTwice = FALSE PROVE Spec => []RebootIsSafe
<1>1. Init => RebootInv
  BY InitRebootInv
<1>2. StopInv /\ RebootInv /\ [Next]_vars => RebootInv'
  BY NextRebootInv
<1>3. RebootInv => RebootIsSafe
  BY DEF RebootInv
<1> QED
  BY <1>1, <1>2, <1>3, StopInvariance, PTL DEF Spec

=============================================================================
