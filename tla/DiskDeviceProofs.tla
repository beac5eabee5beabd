-------------------------- MODULE DiskDeviceProofs --------------------------
(***************************************************************************)
(* Proofs about DiskDevice for any geometry, record size, number of slots,  *)
(* sequence modulus and command set: the handshake of the two cores, and,   *)
(* in the second part, what a READ returns.                                 *)
(***************************************************************************)
EXTENDS DiskDevice, Integers, TLAPS

ReadSteps == {"take", "key", "copy", "check", "flash", "hint"}
PublishSteps == {"odd", "key", "word", "even"}

(* Core 1 is somewhere in a command it took from the mailbox. *)
InCommand ==
  /\ c1_job = "command"
  /\ c1_pc \in {"flush", "odd", "key", "even", "write", "fatal", "clear", "ready"}

(* BUSY has an owner.  A published command finds the device busy and core 0 *)
(* out of its handlers; only a fatal error may have ended the BUSY early,   *)
(* and then every further handler ends in an error.                         *)
MailboxIsGuarded ==
  /\ disk_status = Busy => c0_pc = "pending" \/ disk_pending # CLEAR \/ c1_pc = "ready"
  /\ disk_pending # CLEAR =>
       \/ disk_status = Busy /\ c0_pc = "idle"
       \/ /\ disk_fatal_error /\ disk_status = ReadyError
          /\ c0_pc = "idle" \/ (c0_pc = "store" /\ c0_status = ReadyError)
  /\ c0_pc = "pending" => disk_status = Busy \/ (disk_fatal_error /\ disk_status = ReadyError)
  /\ c0_pc = "busy" /\ c0_command # FLUSH => disk_status \in {DataRoom, ReadyError}
  /\ c0_status # Busy

(* What core 0's handlers hand over. *)
HandlersAreSound ==
  /\ write_command # CLEAR =>
       write_addr \in Keys /\ write_command \in WRITE_NORMAL .. WRITE_UNALLOCATED
  /\ disk_status = DataRoom \/ c0_status = DataRoom => write_command # CLEAR
  /\ disk_pending \notin {CLEAR, FLUSH} => write_addr \in Keys
  /\ c0_pc \in {"busy", "pending"} =>
       c0_command # CLEAR /\ (c0_command # FLUSH => write_addr \in Keys)
  /\ c0_pc \in ReadSteps => disk_addr \in Keys /\ disk_data_index = 0
  /\ c0_pc = "store" /\ c0_status \in {DataReady, DataRoom} => disk_data_index < RecordWords
  /\ c0_word < RecordWords

(* While core 1 serves a command nothing else moves: the device is busy and *)
(* core 0 is out of its handlers.                                           *)
CommandIsAlone ==
  InCommand => /\ disk_status = Busy
               /\ c0_pc = "idle"
               /\ disk_pending # CLEAR <=> c1_pc # "ready"

(* Which job core 1 is on at each of its steps. *)
JobIsRight ==
  /\ c1_pc \in {"write", "clear"} => c1_job = "command"
  /\ c1_pc \in {"scan", "word"} => c1_job = "prefetch"
  /\ c1_pc \in {"odd", "key", "even"} => c1_job \in {"command", "prefetch"}
  /\ c1_pc \in {"flush", "fatal", "ready"} => c1_job # "prefetch"
  /\ c1_pc = "supervisor_done" => c1_job = "supervisor"
  /\ c1_pc = "fatal" => ~c1_ok
  /\ c1_pc = "ready" /\ c1_job # "command" => ~c1_ok
  /\ c1_pc \in {"clear", "ready"} /\ ~c1_ok => disk_fatal_error
  /\ disk_fatal_error => c1_pc = "idle" \/ (c1_pc \in {"clear", "ready"} /\ ~c1_ok)

(* The slot core 1 publishes, or the one it invalidates for a write. *)
PublishIsSound ==
  /\ c1_job = "command" /\ c1_pc \in {"odd", "key", "even", "write"} =>
       c1_key = NoKey /\ c1_ahead = 0 /\ write_addr \in Keys
  /\ c1_job = "prefetch" /\ c1_pc \in PublishSteps =>
       c1_ahead \in 1 .. SlotCount /\ c1_key \in Keys /\ c1_key = Ahead(c1_ahead)
  /\ c1_pc \in PublishSteps \cup {"scan"} /\ c1_job = "prefetch" => c1_hint \in Keys
  /\ c1_pc \notin PublishSteps \cup {"scan"} => c1_key = NoKey /\ c1_ahead = 0
  /\ c1_word < RecordWords

IInv ==
  /\ TypeOK
  /\ MailboxIsGuarded
  /\ HandlersAreSound
  /\ CommandIsAlone
  /\ JobIsRight
  /\ PublishIsSound

-----------------------------------------------------------------------------
(* Values.                                                                  *)

LEMMA StatusFacts ==
  /\ \A s \in Statuses : /\ "BUSY" \in s <=> s = Busy
                         /\ "DATA_ROOM" \in s <=> s = DataRoom
                         /\ "DATA_READY" \in s <=> s = DataReady
  /\ {Ready, ReadyError, Busy, DataReady, DataRoom} \subseteq Statuses
  /\ Busy \notin {Ready, ReadyError, DataReady, DataRoom}
  /\ DataRoom \notin {Ready, ReadyError, Busy, DataReady}
  /\ DataReady \notin {Ready, ReadyError, Busy, DataRoom}
  /\ Ready # ReadyError
  BY DEF Statuses, Busy, DataRoom, DataReady, Ready, ReadyError

LEMMA CommandFacts ==
  /\ CLEAR # FLUSH
  /\ CLEAR \notin WRITE_NORMAL .. WRITE_UNALLOCATED
  /\ FLUSH \notin WRITE_NORMAL .. WRITE_UNALLOCATED
  BY DEF CLEAR, FLUSH, WRITE_NORMAL, WRITE_UNALLOCATED

LEMMA KeyFacts ==
  /\ NoKey \notin Keys
  /\ \A a \in Addresses : Valid(a) => a \in Keys
  /\ \A k \in Keys : k = <<k[1], k[2]>> /\ k[1] \in Nat /\ k[2] \in Nat /\ Valid(k)
  /\ \A k \in Keys : SlotOf(k) \in Slots
<1>1. NoKey \notin Keys
  BY DEF NoKey, Keys
<1>2. ASSUME NEW a \in Addresses, Valid(a) PROVE a \in Keys
  <2>1. a \in Nat \X Nat
    BY InputAssumption
  <2>2. a[1] \in 0 .. DriveCount - 1 /\ a[2] \in 0 .. RecordCount - 1
    BY <1>2, <2>1, GeometryAssumption DEF Valid
  <2> QED
    BY <2>1, <2>2 DEF Keys
<1>3. ASSUME NEW k \in Keys
      PROVE  k = <<k[1], k[2]>> /\ k[1] \in Nat /\ k[2] \in Nat /\ Valid(k) /\ SlotOf(k) \in Slots
  <2>1. k = <<k[1], k[2]>> /\ k[1] \in 0 .. DriveCount - 1 /\ k[2] \in 0 .. RecordCount - 1
    BY DEF Keys
  <2>2. k[1] \in Nat /\ k[2] \in Nat /\ k[1] < DriveCount /\ k[2] < RecordCount
    BY <2>1, GeometryAssumption
  <2>3. k[2] % SlotCount \in 0 .. SlotCount - 1
    BY <2>2, GeometryAssumption
  <2> QED
    BY <2>1, <2>2, <2>3 DEF Valid, SlotOf, Slots
<1> QED
  BY <1>1, <1>2, <1>3

(* Setting a word of a record leaves a record. *)
LEMMA RecordUpdate ==
  ASSUME NEW r \in Records, NEW i \in Index, NEW w \in Words
  PROVE  [r EXCEPT ![i] = w] \in Records
  BY DEF Records

-----------------------------------------------------------------------------
LEMMA InitIInv == Init => IInv
<1> SUFFICES ASSUME Init PROVE IInv
  OBVIOUS
<1>1. TypeOK
  <2>1. view \in [Keys -> Records] /\ disk_record \in Records
    BY InputAssumption DEF Init
  <2>2. 2 % SequenceModulus \in 0 .. SequenceModulus - 1 /\ 0 \in 0 .. SequenceModulus - 1
    BY SequenceAssumption
  <2>3. 0 \in 0 .. RecordWords /\ 0 \in 0 .. SlotCount
    BY GeometryAssumption
  <2> QED
    BY <2>1, <2>2, <2>3, StatusFacts DEF Init, TypeOK, C0Steps, C1Steps, Jobs, Checks
<1>2. MailboxIsGuarded /\ HandlersAreSound
  BY StatusFacts, GeometryAssumption DEF Init, MailboxIsGuarded, HandlersAreSound, ReadSteps
<1>3. CommandIsAlone /\ JobIsRight /\ PublishIsSound
  BY GeometryAssumption DEF Init, CommandIsAlone, InCommand, JobIsRight, PublishIsSound,
     PublishSteps
<1> QED
  BY <1>1, <1>2, <1>3 DEF IInv

-----------------------------------------------------------------------------
(* Core 0.                                                                  *)

LEMMA StatusStoreKeeps ==
  ASSUME IInv, StatusStore
  PROVE  IInv'
<1> USE StatusFacts DEF IInv, StatusStore, mailbox, switches, quiescing, slots, registers, backend,
        core1, c1_locals
<1>1. TypeOK'
  BY DEF TypeOK, C0Steps, HandlersAreSound
<1>2. MailboxIsGuarded' /\ HandlersAreSound'
  BY DEF MailboxIsGuarded, HandlersAreSound, ReadSteps
<1>3. CommandIsAlone'
  BY DEF CommandIsAlone, InCommand
<1>4. JobIsRight' /\ PublishIsSound'
  BY DEF JobIsRight, PublishIsSound, Ahead
<1> QED
  BY <1>1, <1>2, <1>3, <1>4
LEMMA SubmitBusyKeeps ==
  ASSUME IInv, SubmitBusy
  PROVE  IInv'
<1> USE StatusFacts, CommandFacts DEF IInv, SubmitBusy,
        mailbox, switches, quiescing, slots, registers, c0_locals, core0, backend,
        c1_locals, core1
<1>1. TypeOK'
  BY DEF TypeOK, C0Steps, C1Steps, Jobs, MailboxIsGuarded, HandlersAreSound
<1>2. MailboxIsGuarded' /\ HandlersAreSound'
  BY DEF TypeOK, MailboxIsGuarded, HandlersAreSound, CommandIsAlone, InCommand, ReadSteps
<1>3. CommandIsAlone'
  BY DEF TypeOK, CommandIsAlone, InCommand
<1>4. JobIsRight' /\ PublishIsSound'
  BY DEF JobIsRight, PublishIsSound, Ahead
<1> QED
  BY <1>1, <1>2, <1>3, <1>4

LEMMA SubmitPendingKeeps ==
  ASSUME IInv, SubmitPending
  PROVE  IInv'
<1> USE StatusFacts, CommandFacts DEF IInv, SubmitPending,
        mailbox, switches, quiescing, slots, registers, c0_locals, core0, backend,
        c1_locals, core1
<1>1. TypeOK'
  BY DEF TypeOK, C0Steps, C1Steps, Jobs, MailboxIsGuarded, HandlersAreSound
<1>2. MailboxIsGuarded' /\ HandlersAreSound'
  BY DEF TypeOK, MailboxIsGuarded, HandlersAreSound, CommandIsAlone, InCommand, ReadSteps
<1>3. CommandIsAlone'
  BY DEF TypeOK, CommandIsAlone, InCommand
<1>4. JobIsRight' /\ PublishIsSound'
  BY DEF JobIsRight, PublishIsSound, Ahead
<1> QED
  BY <1>1, <1>2, <1>3, <1>4

LEMMA SelectAddressKeeps ==
  ASSUME IInv, NEW a \in Addresses, SelectAddress(a)
  PROVE  IInv'
<1> USE StatusFacts, CommandFacts DEF IInv, SelectAddress, Accepts,
        mailbox, switches, quiescing, slots, registers, c0_locals, core0, backend,
        c1_locals, core1
<1>1. TypeOK'
  BY DEF TypeOK, C0Steps, C1Steps, Jobs, MailboxIsGuarded, HandlersAreSound
<1>2. MailboxIsGuarded' /\ HandlersAreSound'
  BY DEF TypeOK, MailboxIsGuarded, HandlersAreSound, CommandIsAlone, InCommand, ReadSteps
<1>3. CommandIsAlone'
  BY DEF TypeOK, CommandIsAlone, InCommand
<1>4. JobIsRight' /\ PublishIsSound'
  BY DEF JobIsRight, PublishIsSound, Ahead
<1> QED
  BY <1>1, <1>2, <1>3, <1>4

LEMMA StartCommandKeeps ==
  ASSUME IInv, NEW command \in Commands, StartCommand(command)
  PROVE  IInv'
<1> USE StatusFacts, CommandFacts DEF IInv, StartCommand, Accepts, Overtakes, Store,
        Submit, mailbox, switches, quiescing, slots, registers, c0_locals, core0, backend,
        c1_locals, core1
<1>1. TypeOK'
  BY KeyFacts, GeometryAssumption DEF TypeOK, C0Steps, C1Steps, Jobs, MailboxIsGuarded,
     HandlersAreSound
<1>2. MailboxIsGuarded' /\ HandlersAreSound'
  BY KeyFacts, GeometryAssumption DEF TypeOK, MailboxIsGuarded, HandlersAreSound,
     CommandIsAlone, InCommand, ReadSteps
<1>3. CommandIsAlone'
  BY DEF TypeOK, CommandIsAlone, InCommand
<1>4. JobIsRight' /\ PublishIsSound'
  BY DEF TypeOK, CommandIsAlone, InCommand, JobIsRight, PublishIsSound, Ahead
<1> QED
  BY <1>1, <1>2, <1>3, <1>4

LEMMA DataOutKeeps ==
  ASSUME IInv, NEW word \in Words, DataOut(word)
  PROVE  IInv'
<1> USE StatusFacts, CommandFacts DEF IInv, DataOut, Accepts, Overtakes, Submit,
        mailbox, switches, quiescing, slots, registers, c0_locals, core0, backend,
        c1_locals, core1
<1>0. /\ disk_data_index \in 0 .. RecordWords - 1 /\ disk_data_index + 1 \in Index
      /\ disk_data_index + 1 \in 0 .. RecordWords
      /\ disk_data_index + 1 # RecordWords => disk_data_index + 1 < RecordWords
  BY GeometryAssumption DEF TypeOK, Index
<1>5. disk_record' \in Records
  BY <1>0, RecordUpdate DEF TypeOK
<1>1. TypeOK'
  BY <1>0, <1>5 DEF TypeOK, C0Steps, C1Steps, Jobs, MailboxIsGuarded, HandlersAreSound
<1>2. MailboxIsGuarded' /\ HandlersAreSound'
  BY <1>0 DEF TypeOK, MailboxIsGuarded, HandlersAreSound, CommandIsAlone, InCommand, ReadSteps
<1>3. CommandIsAlone'
  BY DEF TypeOK, CommandIsAlone, InCommand
<1>4. JobIsRight' /\ PublishIsSound'
  BY DEF JobIsRight, PublishIsSound, Ahead
<1> QED
  BY <1>1, <1>2, <1>3, <1>4

LEMMA DataInKeeps ==
  ASSUME IInv, DataIn
  PROVE  IInv'
<1> USE StatusFacts, CommandFacts DEF IInv, DataIn, Store,
        mailbox, switches, quiescing, slots, registers, c0_locals, core0, backend,
        c1_locals, core1
<1>0. /\ disk_data_index \in 0 .. RecordWords - 1 /\ disk_data_index + 1 \in 0 .. RecordWords
      /\ disk_data_index + 1 # RecordWords => disk_data_index + 1 < RecordWords
  BY GeometryAssumption DEF TypeOK
<1>1. TypeOK'
  BY <1>0 DEF TypeOK, C0Steps, C1Steps, Jobs, MailboxIsGuarded, HandlersAreSound
<1>2. MailboxIsGuarded' /\ HandlersAreSound'
  BY <1>0 DEF TypeOK, MailboxIsGuarded, HandlersAreSound, CommandIsAlone, InCommand, ReadSteps
<1>3. CommandIsAlone'
  BY DEF TypeOK, CommandIsAlone, InCommand
<1>4. JobIsRight' /\ PublishIsSound'
  BY DEF JobIsRight, PublishIsSound, Ahead
<1> QED
  BY <1>1, <1>2, <1>3, <1>4

LEMMA TakeSequenceKeeps ==
  ASSUME IInv, TakeSequence
  PROVE  IInv'
<1> USE StatusFacts, CommandFacts DEF IInv, TakeSequence, ReadUnchanged, Store,
        mailbox, switches, quiescing, slots, registers, c0_locals, core0, backend,
        c1_locals, core1
<1>0. disk_addr \in Keys /\ slot0 \in Slots
  BY KeyFacts DEF HandlersAreSound, ReadSteps, slot0
<1>1. TypeOK'
  BY <1>0, SequenceAssumption, GeometryAssumption DEF TypeOK, C0Steps, C1Steps, Jobs,
     MailboxIsGuarded, HandlersAreSound, ReadSteps
<1>2. MailboxIsGuarded' /\ HandlersAreSound'
  BY GeometryAssumption DEF TypeOK, MailboxIsGuarded, HandlersAreSound, CommandIsAlone,
     InCommand, ReadSteps
<1>3. CommandIsAlone'
  BY DEF TypeOK, CommandIsAlone, InCommand
<1>4. JobIsRight' /\ PublishIsSound'
  BY DEF JobIsRight, PublishIsSound, Ahead
<1> QED
  BY <1>1, <1>2, <1>3, <1>4

LEMMA TakeKeyKeeps ==
  ASSUME IInv, TakeKey
  PROVE  IInv'
<1> USE StatusFacts, CommandFacts DEF IInv, TakeKey, ReadUnchanged, Store,
        mailbox, switches, quiescing, slots, registers, c0_locals, core0, backend,
        c1_locals, core1
<1>0. disk_addr \in Keys /\ slot0 \in Slots
  BY KeyFacts DEF HandlersAreSound, ReadSteps, slot0
<1>1. TypeOK'
  BY <1>0, SequenceAssumption, GeometryAssumption DEF TypeOK, C0Steps, C1Steps, Jobs,
     MailboxIsGuarded, HandlersAreSound, ReadSteps
<1>2. MailboxIsGuarded' /\ HandlersAreSound'
  BY GeometryAssumption DEF TypeOK, MailboxIsGuarded, HandlersAreSound, CommandIsAlone,
     InCommand, ReadSteps
<1>3. CommandIsAlone'
  BY DEF TypeOK, CommandIsAlone, InCommand
<1>4. JobIsRight' /\ PublishIsSound'
  BY DEF JobIsRight, PublishIsSound, Ahead
<1> QED
  BY <1>1, <1>2, <1>3, <1>4

LEMMA TakeCheckKeeps ==
  ASSUME IInv, TakeCheck
  PROVE  IInv'
<1> USE StatusFacts, CommandFacts DEF IInv, TakeCheck, ReadUnchanged, Store,
        mailbox, switches, quiescing, slots, registers, c0_locals, core0, backend,
        c1_locals, core1
<1>0. disk_addr \in Keys /\ slot0 \in Slots
  BY KeyFacts DEF HandlersAreSound, ReadSteps, slot0
<1>1. TypeOK'
  BY <1>0, SequenceAssumption, GeometryAssumption DEF TypeOK, C0Steps, C1Steps, Jobs,
     MailboxIsGuarded, HandlersAreSound, ReadSteps
<1>2. MailboxIsGuarded' /\ HandlersAreSound'
  BY GeometryAssumption DEF TypeOK, MailboxIsGuarded, HandlersAreSound, CommandIsAlone,
     InCommand, ReadSteps
<1>3. CommandIsAlone'
  BY DEF TypeOK, CommandIsAlone, InCommand
<1>4. JobIsRight' /\ PublishIsSound'
  BY DEF JobIsRight, PublishIsSound, Ahead
<1> QED
  BY <1>1, <1>2, <1>3, <1>4

LEMMA PublishHintKeeps ==
  ASSUME IInv, PublishHint
  PROVE  IInv'
<1> USE StatusFacts, CommandFacts DEF IInv, PublishHint, ReadUnchanged, Store,
        mailbox, switches, quiescing, slots, registers, c0_locals, core0, backend,
        c1_locals, core1
<1>0. disk_addr \in Keys /\ slot0 \in Slots
  BY KeyFacts DEF HandlersAreSound, ReadSteps, slot0
<1>1. TypeOK'
  BY <1>0, SequenceAssumption, GeometryAssumption DEF TypeOK, C0Steps, C1Steps, Jobs,
     MailboxIsGuarded, HandlersAreSound, ReadSteps
<1>2. MailboxIsGuarded' /\ HandlersAreSound'
  BY GeometryAssumption DEF TypeOK, MailboxIsGuarded, HandlersAreSound, CommandIsAlone,
     InCommand, ReadSteps
<1>3. CommandIsAlone'
  BY DEF TypeOK, CommandIsAlone, InCommand
<1>4. JobIsRight' /\ PublishIsSound'
  BY DEF JobIsRight, PublishIsSound, Ahead
<1> QED
  BY <1>1, <1>2, <1>3, <1>4

LEMMA TakeWordKeeps ==
  ASSUME IInv, TakeWord
  PROVE  IInv'
<1> USE StatusFacts, CommandFacts DEF IInv, TakeWord, ReadUnchanged,
        mailbox, switches, quiescing, slots, registers, c0_locals, core0, backend,
        c1_locals, core1
<1>0. disk_addr \in Keys /\ slot0 \in Slots
  BY KeyFacts DEF HandlersAreSound, ReadSteps, slot0
<1>5. c0_word + 1 \in Index /\ c0_word + 1 \in 0 .. RecordWords
  BY GeometryAssumption DEF TypeOK, HandlersAreSound, Index
<1>6. /\ disk_record' \in Records
      /\ c0_pc' \in C0Steps /\ c0_pc' \in ReadSteps
      /\ c0_word' \in 0 .. RecordWords /\ c0_word' < RecordWords
  <2>1. PICK w \in Words : disk_record' = [disk_record EXCEPT ![c0_word + 1] = w]
    <3>1. slot_words[slot0][c0_word + 1] \in Words
      BY <1>0, <1>5 DEF TypeOK, Records
    <3>2. disk_record' = [disk_record EXCEPT ![c0_word + 1] = slot_words[slot0][c0_word + 1]]
      BY <1>5 DEF CopyWord
    <3> QED
      BY <3>1, <3>2
  <2>2. disk_record' \in Records
    BY <1>5, <2>1, RecordUpdate DEF TypeOK
  <2> QED
    BY <1>5, <2>2, GeometryAssumption DEF CopyWord, C0Steps, ReadSteps, Index, TypeOK
<1>1. TypeOK'
  BY <1>0, <1>5, <1>6, SequenceAssumption DEF TypeOK, C0Steps, C1Steps, Jobs,
     MailboxIsGuarded, HandlersAreSound, ReadSteps
<1>2. MailboxIsGuarded' /\ HandlersAreSound'
  BY <1>5, <1>6 DEF TypeOK, MailboxIsGuarded, HandlersAreSound, CommandIsAlone, InCommand,
     ReadSteps
<1>3. CommandIsAlone'
  BY <1>6 DEF TypeOK, CommandIsAlone, InCommand
<1>4. JobIsRight' /\ PublishIsSound'
  BY DEF JobIsRight, PublishIsSound, Ahead
<1> QED
  BY <1>1, <1>2, <1>3, <1>4

LEMMA ReadFlashKeeps ==
  ASSUME IInv, ReadFlash
  PROVE  IInv'
<1> USE StatusFacts, CommandFacts DEF IInv, ReadFlash, ReadUnchanged,
        mailbox, switches, quiescing, slots, registers, c0_locals, core0, backend,
        c1_locals, core1
<1>0. disk_addr \in Keys /\ slot0 \in Slots
  BY KeyFacts DEF HandlersAreSound, ReadSteps, slot0
<1>5. c0_word + 1 \in Index /\ c0_word + 1 \in 0 .. RecordWords
  BY GeometryAssumption DEF TypeOK, HandlersAreSound, Index
<1>6. /\ disk_record' \in Records
      /\ c0_pc' \in C0Steps /\ c0_pc' \in ReadSteps
      /\ c0_word' \in 0 .. RecordWords /\ c0_word' < RecordWords
  <2>1. PICK w \in Words : disk_record' = [disk_record EXCEPT ![c0_word + 1] = w]
    <3>1. view[disk_addr][c0_word + 1] \in Words
      BY <1>0, <1>5 DEF TypeOK, Records
    <3>2. PICK w \in (IF c1_pc = "write" THEN Words ELSE {view[disk_addr][c0_word + 1]}) :
            disk_record' = [disk_record EXCEPT ![c0_word + 1] = w]
      BY <1>5 DEF CopyWord
    <3> QED
      BY <3>1, <3>2
  <2>2. disk_record' \in Records
    BY <1>5, <2>1, RecordUpdate DEF TypeOK
  <2> QED
    BY <1>5, <2>2, GeometryAssumption DEF CopyWord, C0Steps, ReadSteps, Index, TypeOK
<1>1. TypeOK'
  BY <1>0, <1>5, <1>6, SequenceAssumption DEF TypeOK, C0Steps, C1Steps, Jobs,
     MailboxIsGuarded, HandlersAreSound, ReadSteps
<1>2. MailboxIsGuarded' /\ HandlersAreSound'
  BY <1>5, <1>6 DEF TypeOK, MailboxIsGuarded, HandlersAreSound, CommandIsAlone, InCommand,
     ReadSteps
<1>3. CommandIsAlone'
  BY <1>6 DEF TypeOK, CommandIsAlone, InCommand
<1>4. JobIsRight' /\ PublishIsSound'
  BY DEF JobIsRight, PublishIsSound, Ahead
<1> QED
  BY <1>1, <1>2, <1>3, <1>4

LEMMA RequestFlushKeeps ==
  ASSUME IInv, RequestFlush
  PROVE  IInv'
<1> USE StatusFacts, CommandFacts DEF IInv, RequestFlush, CoresUnchanged,
        mailbox, switches, quiescing, slots, registers, c0_locals, core0, backend,
        c1_locals, core1
<1>1. TypeOK'
  BY DEF TypeOK, C0Steps, C1Steps, Jobs, MailboxIsGuarded, HandlersAreSound
<1>2. MailboxIsGuarded' /\ HandlersAreSound'
  BY DEF TypeOK, MailboxIsGuarded, HandlersAreSound, CommandIsAlone, InCommand, ReadSteps
<1>3. CommandIsAlone'
  BY DEF TypeOK, CommandIsAlone, InCommand
<1>4. JobIsRight' /\ PublishIsSound'
  BY DEF JobIsRight, PublishIsSound, Ahead
<1> QED
  BY <1>1, <1>2, <1>3, <1>4

LEMMA SetWriteEnabledKeeps ==
  ASSUME IInv, NEW enabled \in BOOLEAN, SetWriteEnabled(enabled)
  PROVE  IInv'
<1> USE StatusFacts, CommandFacts DEF IInv, SetWriteEnabled, CoresUnchanged,
        mailbox, switches, quiescing, slots, registers, c0_locals, core0, backend,
        c1_locals, core1
<1>1. TypeOK'
  BY DEF TypeOK, C0Steps, C1Steps, Jobs, MailboxIsGuarded, HandlersAreSound
<1>2. MailboxIsGuarded' /\ HandlersAreSound'
  BY DEF TypeOK, MailboxIsGuarded, HandlersAreSound, CommandIsAlone, InCommand, ReadSteps
<1>3. CommandIsAlone'
  BY DEF TypeOK, CommandIsAlone, InCommand
<1>4. JobIsRight' /\ PublishIsSound'
  BY DEF JobIsRight, PublishIsSound, Ahead
<1> QED
  BY <1>1, <1>2, <1>3, <1>4

(* z80_flash_disk_quiescent only loads.                                     *)
Quiescing == QuiescentFlush \/ CheckStep

LEMMA QuiescingKeeps ==
  ASSUME IInv, Quiescing
  PROVE  IInv'
<1>1. CheckUnchanged /\ check' \in Checks /\ overtaken' \in BOOLEAN
  BY DEF Quiescing, CheckStep, QuiescentFlush, QuiescentStatus, QuiescentCache, QuiescentDone,
     Checks, IInv, TypeOK
<1> USE <1>1 DEF IInv, CheckUnchanged, mailbox, slots, registers, c0_locals, core0, backend,
        c1_locals, core1
<1>2. TypeOK'
  BY DEF TypeOK
<1>3. MailboxIsGuarded' /\ HandlersAreSound'
  BY DEF MailboxIsGuarded, HandlersAreSound
<1>4. CommandIsAlone'
  BY DEF CommandIsAlone, InCommand
<1>5. JobIsRight' /\ PublishIsSound'
  BY DEF JobIsRight, PublishIsSound, Ahead
<1> QED
  BY <1>2, <1>3, <1>4, <1>5

-----------------------------------------------------------------------------
(* Core 1.                                                                  *)

LEMMA ServiceKeeps ==
  ASSUME IInv, Service
  PROVE  IInv'
<1> USE StatusFacts, CommandFacts DEF IInv, Service, Serves, SharedUnchanged,
        mailbox, switches, quiescing, slots, registers, c0_locals, core0, backend,
        c1_locals, core1
<1>1. TypeOK'
  BY DEF TypeOK, C1Steps, Jobs
<1>2. MailboxIsGuarded' /\ HandlersAreSound'
  BY DEF TypeOK, MailboxIsGuarded, HandlersAreSound, CommandIsAlone, InCommand, JobIsRight
<1>3. CommandIsAlone'
  BY DEF TypeOK, CommandIsAlone, InCommand, JobIsRight, MailboxIsGuarded
<1>4. JobIsRight'
  BY DEF TypeOK, JobIsRight, CommandIsAlone, InCommand
<1>5. PublishIsSound'
  BY DEF TypeOK, JobIsRight, PublishIsSound, HandlersAreSound, PublishSteps, Ahead
<1> QED
  BY <1>1, <1>2, <1>3, <1>4, <1>5

LEMMA BackendFlushKeeps ==
  ASSUME IInv, BackendFlush
  PROVE  IInv'
<1> USE StatusFacts, CommandFacts DEF IInv, BackendFlush, CacheCommitted, CacheNotCommitted,
        SharedUnchanged, mailbox, switches, quiescing, slots, registers, c0_locals, core0, backend,
        c1_locals, core1
<1>0. c1_job \in {"command", "supervisor", "idle"}
  BY DEF TypeOK, Jobs, JobIsRight
<1>6. c1_ok' \in BOOLEAN /\ dirty' \in BOOLEAN /\ io_trap' \in BOOLEAN
  BY Zenon DEF TypeOK
<1>7. \/ c1_job = "supervisor" /\ c1_pc' = "supervisor_done"
      \/ c1_job # "supervisor" /\ ~c1_ok' /\ c1_pc' = "fatal"
      \/ c1_job = "command" /\ c1_ok' /\ c1_pc' = "clear"
      \/ c1_job = "idle" /\ c1_ok' /\ c1_pc' = "prefetch"
  BY <1>0, <1>6
<1>1. TypeOK'
  BY <1>6, <1>7 DEF TypeOK, C1Steps, Jobs
<1>2. MailboxIsGuarded' /\ HandlersAreSound'
  BY DEF TypeOK, MailboxIsGuarded, HandlersAreSound, CommandIsAlone, InCommand, JobIsRight
<1>3. CommandIsAlone'
  BY DEF TypeOK, CommandIsAlone, InCommand, JobIsRight, MailboxIsGuarded
<1>4. JobIsRight'
  BY <1>0, <1>6, <1>7 DEF TypeOK, JobIsRight, CommandIsAlone, InCommand
<1>5. PublishIsSound'
  BY DEF TypeOK, JobIsRight, PublishIsSound, PublishSteps, Ahead
<1> QED
  BY <1>1, <1>2, <1>3, <1>4, <1>5

LEMMA BackendWriteKeeps ==
  ASSUME IInv, BackendWrite
  PROVE  IInv'
<1> USE StatusFacts, CommandFacts DEF IInv, BackendWrite, CacheCommitted, CacheNotCommitted,
        SharedUnchanged, mailbox, switches, quiescing, slots, registers, c0_locals, core0, backend,
        c1_locals, core1
<1>0. view' \in [Keys -> Records]
  <2>1. write_addr \in Keys
    BY DEF JobIsRight, PublishIsSound
  <2>2. view' = view \/ view' = [view EXCEPT ![write_addr] = disk_record]
    OBVIOUS
  <2> QED
    BY <2>1, <2>2 DEF TypeOK
<1>6. c1_ok' \in BOOLEAN /\ dirty' \in BOOLEAN /\ io_trap' \in BOOLEAN
  BY Zenon DEF TypeOK
<1>7. c1_pc' \in {"clear", "fatal"}
  OBVIOUS
<1>1. TypeOK'
  BY <1>0, <1>6, <1>7 DEF TypeOK, C1Steps, Jobs
<1>2. MailboxIsGuarded' /\ HandlersAreSound'
  BY DEF TypeOK, MailboxIsGuarded, HandlersAreSound, CommandIsAlone, InCommand, JobIsRight
<1>3. CommandIsAlone'
  BY DEF TypeOK, CommandIsAlone, InCommand, JobIsRight, MailboxIsGuarded
<1>4. JobIsRight'
  BY DEF TypeOK, JobIsRight, CommandIsAlone, InCommand
<1>5. PublishIsSound'
  BY DEF TypeOK, JobIsRight, PublishIsSound, PublishSteps, Ahead
<1> QED
  BY <1>1, <1>2, <1>3, <1>4, <1>5

LEMMA SupervisorDoneKeeps ==
  ASSUME IInv, SupervisorDone
  PROVE  IInv'
<1> USE StatusFacts, CommandFacts DEF IInv, SupervisorDone, SharedUnchanged,
        mailbox, switches, quiescing, slots, registers, c0_locals, core0, backend,
        c1_locals, core1
<1>0. c1_pc' \in {"prefetch", "fatal"} /\ supervisor_flush' \in BOOLEAN
  OBVIOUS
<1>1. TypeOK'
  BY <1>0 DEF TypeOK, C1Steps, Jobs
<1>2. MailboxIsGuarded' /\ HandlersAreSound'
  BY DEF TypeOK, MailboxIsGuarded, HandlersAreSound, CommandIsAlone, InCommand, JobIsRight
<1>3. CommandIsAlone'
  BY DEF TypeOK, CommandIsAlone, InCommand, JobIsRight, MailboxIsGuarded
<1>4. JobIsRight'
  BY DEF TypeOK, JobIsRight, CommandIsAlone, InCommand
<1>5. PublishIsSound'
  BY DEF TypeOK, JobIsRight, PublishIsSound, PublishSteps, Ahead
<1> QED
  BY <1>1, <1>2, <1>3, <1>4, <1>5

LEMMA LatchFatalKeeps ==
  ASSUME IInv, LatchFatal
  PROVE  IInv'
<1> USE StatusFacts, CommandFacts DEF IInv, LatchFatal, SharedUnchanged,
        mailbox, switches, quiescing, slots, registers, c0_locals, core0, backend,
        c1_locals, core1
<1>1. TypeOK'
  BY DEF TypeOK, C1Steps, Jobs
<1>2. MailboxIsGuarded' /\ HandlersAreSound'
  BY DEF TypeOK, MailboxIsGuarded, HandlersAreSound, CommandIsAlone, InCommand, JobIsRight
<1>3. CommandIsAlone'
  BY DEF TypeOK, CommandIsAlone, InCommand, JobIsRight, MailboxIsGuarded
<1>4. JobIsRight'
  BY DEF TypeOK, JobIsRight, CommandIsAlone, InCommand
<1>5. PublishIsSound'
  BY DEF TypeOK, JobIsRight, PublishIsSound, PublishSteps, Ahead
<1> QED
  BY <1>1, <1>2, <1>3, <1>4, <1>5

LEMMA ClearPendingKeeps ==
  ASSUME IInv, ClearPending
  PROVE  IInv'
<1> USE StatusFacts, CommandFacts DEF IInv, ClearPending, SharedUnchanged,
        mailbox, switches, quiescing, slots, registers, c0_locals, core0, backend,
        c1_locals, core1
<1>1. TypeOK'
  BY DEF TypeOK, C1Steps, Jobs
<1>2. MailboxIsGuarded' /\ HandlersAreSound'
  BY DEF TypeOK, MailboxIsGuarded, HandlersAreSound, CommandIsAlone, InCommand, JobIsRight
<1>3. CommandIsAlone'
  BY DEF TypeOK, CommandIsAlone, InCommand, JobIsRight, MailboxIsGuarded
<1>4. JobIsRight'
  BY DEF TypeOK, JobIsRight, CommandIsAlone, InCommand
<1>5. PublishIsSound'
  BY DEF TypeOK, JobIsRight, PublishIsSound, PublishSteps, Ahead
<1> QED
  BY <1>1, <1>2, <1>3, <1>4, <1>5

LEMMA PublishReadyKeeps ==
  ASSUME IInv, PublishReady
  PROVE  IInv'
<1> USE StatusFacts, CommandFacts DEF IInv, PublishReady, Completion, SharedUnchanged,
        mailbox, switches, quiescing, slots, registers, c0_locals, core0, backend,
        c1_locals, core1
<1>1. TypeOK'
  BY DEF TypeOK, C1Steps, Jobs
<1>2. MailboxIsGuarded' /\ HandlersAreSound'
  BY DEF TypeOK, MailboxIsGuarded, HandlersAreSound, CommandIsAlone, InCommand, JobIsRight
<1>3. CommandIsAlone'
  BY DEF TypeOK, CommandIsAlone, InCommand, JobIsRight, MailboxIsGuarded
<1>4. JobIsRight'
  BY DEF TypeOK, JobIsRight, CommandIsAlone, InCommand
<1>5. PublishIsSound'
  BY DEF TypeOK, JobIsRight, PublishIsSound, PublishSteps, Ahead
<1> QED
  BY <1>1, <1>2, <1>3, <1>4, <1>5

LEMMA PrefetchStartKeeps ==
  ASSUME IInv, PrefetchStart
  PROVE  IInv'
<1> USE StatusFacts, CommandFacts DEF IInv, PrefetchStart, SharedUnchanged,
        mailbox, switches, quiescing, slots, registers, c0_locals, core0, backend,
        c1_locals, core1
<1>1. TypeOK'
  BY DEF TypeOK, C1Steps, Jobs
<1>2. MailboxIsGuarded' /\ HandlersAreSound'
  BY DEF TypeOK, MailboxIsGuarded, HandlersAreSound, CommandIsAlone, InCommand, JobIsRight
<1>3. CommandIsAlone'
  BY DEF TypeOK, CommandIsAlone, InCommand, JobIsRight, MailboxIsGuarded
<1>4. JobIsRight'
  BY DEF TypeOK, JobIsRight, CommandIsAlone, InCommand
<1>5. PublishIsSound'
  BY DEF TypeOK, JobIsRight, PublishIsSound, PublishSteps, Ahead
<1> QED
  BY <1>1, <1>2, <1>3, <1>4, <1>5

LEMMA PrefetchScanKeeps ==
  ASSUME IInv, PrefetchScan
  PROVE  IInv'
<1> USE StatusFacts, CommandFacts DEF IInv, PrefetchScan, SharedUnchanged,
        mailbox, switches, quiescing, slots, registers, c0_locals, core0, backend,
        c1_locals, core1
<1>0. \A n \in 1 .. SlotCount : Missing(n) => Ahead(n) \in Keys /\ n \in 0 .. SlotCount
  <2> SUFFICES ASSUME NEW n \in 1 .. SlotCount, Missing(n)
               PROVE  Ahead(n) \in Keys /\ n \in 0 .. SlotCount
    OBVIOUS
  <2>1. c1_hint \in Keys
    BY DEF JobIsRight, PublishIsSound
  <2>2. c1_hint[1] \in 0 .. DriveCount - 1 /\ c1_hint[2] \in Nat
    BY <2>1, GeometryAssumption DEF Keys
  <2>3. c1_hint[2] + n \in 0 .. RecordCount - 1
    BY <2>2, GeometryAssumption DEF Missing, Ahead
  <2> QED
    BY <2>2, <2>3, GeometryAssumption DEF Ahead, Keys
<1>6. /\ c1_ahead' \in 0 .. SlotCount /\ c1_key' \in Keys \cup {NoKey}
      /\ c1_hint' \in Keys \cup {NoKey} /\ c1_pc' \in {"odd", "idle"}
  BY <1>0, GeometryAssumption DEF TypeOK
<1>1. TypeOK'
  BY <1>6 DEF TypeOK, C1Steps, Jobs
<1>2. MailboxIsGuarded' /\ HandlersAreSound'
  BY DEF TypeOK, MailboxIsGuarded, HandlersAreSound, CommandIsAlone, InCommand, JobIsRight
<1>3. CommandIsAlone'
  BY DEF TypeOK, CommandIsAlone, InCommand, JobIsRight, MailboxIsGuarded
<1>4. JobIsRight'
  BY DEF TypeOK, JobIsRight, CommandIsAlone, InCommand
<1>5. PublishIsSound'
  BY <1>0 DEF TypeOK, JobIsRight, PublishIsSound, PublishSteps, Ahead
<1> QED
  BY <1>1, <1>2, <1>3, <1>4, <1>5

LEMMA PublishOddKeeps ==
  ASSUME IInv, PublishOdd
  PROVE  IInv'
<1> USE StatusFacts, CommandFacts DEF IInv, PublishOdd, PublishUnchanged, SharedUnchanged,
        mailbox, switches, quiescing, slots, registers, c0_locals, core0, backend,
        c1_locals, core1
<1>0. slot1 \in Slots
  BY KeyFacts DEF slot1, TypeOK, JobIsRight, PublishIsSound, PublishSteps
<1>6. slot_sequence' \in [Slots -> 0 .. SequenceModulus - 1]
  <2>1. (slot_sequence[slot1] + 1) % SequenceModulus \in 0 .. SequenceModulus - 1
    BY <1>0, SequenceAssumption DEF TypeOK
  <2> QED
    BY <1>0, <2>1 DEF Advance, TypeOK
<1>1. TypeOK'
  BY <1>6 DEF TypeOK, C1Steps, Jobs
<1>2. MailboxIsGuarded' /\ HandlersAreSound'
  BY DEF TypeOK, MailboxIsGuarded, HandlersAreSound, CommandIsAlone, InCommand, JobIsRight
<1>3. CommandIsAlone'
  BY DEF TypeOK, CommandIsAlone, InCommand, JobIsRight, MailboxIsGuarded
<1>4. JobIsRight'
  BY DEF TypeOK, JobIsRight, CommandIsAlone, InCommand
<1>5. PublishIsSound'
  BY DEF TypeOK, JobIsRight, PublishIsSound, PublishSteps, Ahead
<1> QED
  BY <1>1, <1>2, <1>3, <1>4, <1>5

LEMMA PublishEvenKeeps ==
  ASSUME IInv, PublishEven
  PROVE  IInv'
<1> USE StatusFacts, CommandFacts DEF IInv, PublishEven, PublishUnchanged, SharedUnchanged,
        mailbox, switches, quiescing, slots, registers, c0_locals, core0, backend,
        c1_locals, core1
<1>0. slot1 \in Slots
  BY KeyFacts DEF slot1, TypeOK, JobIsRight, PublishIsSound, PublishSteps
<1>6. slot_sequence' \in [Slots -> 0 .. SequenceModulus - 1]
  <2>1. (slot_sequence[slot1] + 1) % SequenceModulus \in 0 .. SequenceModulus - 1
    BY <1>0, SequenceAssumption DEF TypeOK
  <2> QED
    BY <1>0, <2>1 DEF Advance, TypeOK
<1>1. TypeOK'
  BY <1>6 DEF TypeOK, C1Steps, Jobs
<1>2. MailboxIsGuarded' /\ HandlersAreSound'
  BY DEF TypeOK, MailboxIsGuarded, HandlersAreSound, CommandIsAlone, InCommand, JobIsRight
<1>3. CommandIsAlone'
  BY DEF TypeOK, CommandIsAlone, InCommand, JobIsRight, MailboxIsGuarded
<1>4. JobIsRight'
  BY DEF TypeOK, JobIsRight, CommandIsAlone, InCommand
<1>5. PublishIsSound'
  BY DEF TypeOK, JobIsRight, PublishIsSound, PublishSteps, Ahead
<1> QED
  BY <1>1, <1>2, <1>3, <1>4, <1>5

LEMMA PublishKeyKeeps ==
  ASSUME IInv, PublishKey
  PROVE  IInv'
<1> USE StatusFacts, CommandFacts DEF IInv, PublishKey, PublishUnchanged, SharedUnchanged,
        mailbox, switches, quiescing, slots, registers, c0_locals, core0, backend,
        c1_locals, core1
<1>0. slot1 \in Slots
  BY KeyFacts DEF slot1, TypeOK, JobIsRight, PublishIsSound, PublishSteps
<1>1. TypeOK'
  BY <1>0 DEF TypeOK, C1Steps, Jobs
<1>2. MailboxIsGuarded' /\ HandlersAreSound'
  BY KeyFacts DEF TypeOK, MailboxIsGuarded, HandlersAreSound, CommandIsAlone, InCommand,
     JobIsRight
<1>3. CommandIsAlone'
  BY KeyFacts DEF TypeOK, CommandIsAlone, InCommand, JobIsRight, PublishIsSound, PublishSteps
<1>4. JobIsRight'
  BY KeyFacts DEF TypeOK, JobIsRight, PublishIsSound, PublishSteps
<1>5. PublishIsSound'
  BY DEF TypeOK, JobIsRight, PublishIsSound, PublishSteps, Ahead
<1> QED
  BY <1>1, <1>2, <1>3, <1>4, <1>5

LEMMA PublishWordKeeps ==
  ASSUME IInv, PublishWord
  PROVE  IInv'
<1> USE StatusFacts, CommandFacts DEF IInv, PublishWord, PublishUnchanged, SharedUnchanged,
        mailbox, switches, quiescing, slots, registers, c0_locals, core0, backend,
        c1_locals, core1
<1>0. slot1 \in Slots
  BY KeyFacts DEF slot1, TypeOK, JobIsRight, PublishIsSound, PublishSteps
<1>6. c1_key \in Keys /\ c1_word + 1 \in Index
  BY GeometryAssumption DEF TypeOK, JobIsRight, PublishIsSound, PublishSteps, Index
<1>7. slot_words' \in [Slots -> Records]
  <2>1. view[c1_key][c1_word + 1] \in Words
    BY <1>6 DEF TypeOK, Records
  <2>2. [slot_words[slot1] EXCEPT ![c1_word + 1] = view[c1_key][c1_word + 1]] \in Records
    BY <1>0, <1>6, <2>1, RecordUpdate DEF TypeOK
  <2> QED
    BY <1>0, <2>2 DEF TypeOK
<1>8. c1_word' \in 0 .. RecordWords /\ c1_word' < RecordWords
  BY <1>6, GeometryAssumption DEF Index
<1>1. TypeOK'
  BY <1>7, <1>8 DEF TypeOK, C1Steps, Jobs
<1>2. MailboxIsGuarded' /\ HandlersAreSound'
  BY DEF TypeOK, MailboxIsGuarded, HandlersAreSound, CommandIsAlone, InCommand, JobIsRight
<1>3. CommandIsAlone'
  BY DEF TypeOK, CommandIsAlone, InCommand, JobIsRight, MailboxIsGuarded
<1>4. JobIsRight'
  BY DEF TypeOK, JobIsRight, CommandIsAlone, InCommand
<1>5. PublishIsSound'
  BY <1>8 DEF TypeOK, JobIsRight, PublishIsSound, PublishSteps, Ahead
<1> QED
  BY <1>1, <1>2, <1>3, <1>4, <1>5

-----------------------------------------------------------------------------
(* A word the Z80 may write next is a word. *)
LEMMA NextWordsType ==
  ASSUME IInv, disk_data_index < RecordWords
  PROVE  NextWords \subseteq Words
<1>1. disk_data_index + 1 \in Index
  BY GeometryAssumption DEF IInv, TypeOK, Index
<1> QED
  BY <1>1, InputAssumption DEF NextWords, Records

(* Every port access, every step of a handler, of the supervisor and of     *)
(* core 1 keep the invariant.                                               *)
LEMMA NextIInv == IInv /\ [Next]_vars => IInv'
<1> SUFFICES ASSUME IInv, [Next]_vars PROVE IInv'
  OBVIOUS
<1>1. CASE PortAccess
  BY <1>1, SelectAddressKeeps, StartCommandKeeps, DataOutKeeps, DataInKeeps, NextWordsType
     DEF PortAccess
<1>2. CASE HandlerStep
  BY <1>2, StatusStoreKeeps, SubmitBusyKeeps, SubmitPendingKeeps, TakeSequenceKeeps,
     TakeKeyKeeps,
     TakeWordKeeps, TakeCheckKeeps, ReadFlashKeeps, PublishHintKeeps DEF HandlerStep
<1>3. CASE RequestFlush \/ \E enabled \in BOOLEAN : SetWriteEnabled(enabled)
  BY <1>3, RequestFlushKeeps, SetWriteEnabledKeeps
<1>4. CASE Core1Step
  BY <1>4, ServiceKeeps, BackendFlushKeeps, BackendWriteKeeps, SupervisorDoneKeeps,
     LatchFatalKeeps,
     ClearPendingKeeps, PublishReadyKeeps, PrefetchStartKeeps, PrefetchScanKeeps,
     PublishOddKeeps,
     PublishKeyKeeps, PublishWordKeeps, PublishEvenKeeps DEF Core1Step
<1>5. CASE UNCHANGED vars
  BY <1>5 DEF vars, mailbox, switches, quiescing, slots, registers, c0_locals, core0, backend, c1_locals,
     core1, IInv, TypeOK, MailboxIsGuarded, HandlersAreSound, CommandIsAlone, InCommand,
     JobIsRight, PublishIsSound, Ahead
<1>6. CASE Quiescing
  BY <1>6, QuiescingKeeps
<1> QED
  BY <1>1, <1>2, <1>3, <1>4, <1>5, <1>6 DEF Next, Quiescing

LEMMA Invariance == Spec => []IInv
  BY InitIInv, NextIInv, PTL DEF Spec

-----------------------------------------------------------------------------
(* The registers, the mailbox and the slots keep their types, and a data    *)
(* port access of disk_device.c stays inside the record buffer.             *)
THEOREM TypeCorrect == Spec => []TypeOK
<1>1. IInv => TypeOK
  BY DEF IInv
<1> QED
  BY <1>1, Invariance, PTL

(* Whatever flush fails and whenever, until the error is latched BUSY and   *)
(* the mailbox of disk_submit and z80_flash_core1_service agree in every     *)
(* order of their stores: BUSY has a command behind it, and a command that   *)
(* waits or is served keeps the device busy and core 0 out of its handlers.  *)
THEOREM HandshakeSoundness == Spec => []HandshakeIsSound
<1>1. IInv => HandshakeIsSound
  BY StatusFacts DEF IInv, TypeOK, MailboxIsGuarded, HandshakeIsSound
<1> QED
  BY <1>1, Invariance, PTL

(* Where z80_flash_disk_quiescent is, between two services.                 *)
CheckInv ==
  /\ check # "none" => c1_pc = "idle"
  /\ check \in {"cache", "quiet"} => overtaken \/ Settled
  /\ check = "quiet" => ~dirty

LEMMA CheckStepKeeps ==
  ASSUME IInv, CheckInv, Quiescing
  PROVE  CheckInv'
<1> USE DEF CheckInv, CheckUnchanged, mailbox, slots, registers, c0_locals, core0, backend,
        c1_locals, core1, Settled
<1>1. CASE QuiescentFlush
  BY <1>1 DEF QuiescentFlush
<1>2. CASE QuiescentStatus
  <2>1. disk_status = Ready => Settled
    BY StatusFacts, CommandFacts DEF IInv, TypeOK, MailboxIsGuarded
  <2> QED
    BY <1>2, <2>1 DEF QuiescentStatus
<1>3. CASE QuiescentCache
  BY <1>3 DEF QuiescentCache
<1>4. CASE QuiescentDone
  BY <1>4 DEF QuiescentDone
<1> QED
  BY <1>1, <1>2, <1>3, <1>4 DEF Quiescing, CheckStep

(* While core 1 asks, only core 0 moves; a new command marks the question   *)
(* overtaken, and what was on its way before is at most a FLUSH.            *)
LEMMA CheckKeeps ==
  ASSUME IInv, CheckInv, [Next]_vars
  PROVE  CheckInv'
<1> USE DEF mailbox, switches, quiescing, slots, registers, c0_locals, core0, backend, c1_locals,
        core1
<1>1. CASE PortAccess
  <2>1. UNCHANGED <<check, c1_pc, dirty, disk_pending>>
    BY <1>1 DEF PortAccess, SelectAddress, StartCommand, DataOut, DataIn, Overtakes
  <2>2. check # "none" =>
          \/ overtaken' = TRUE
          \/ overtaken' = overtaken /\ c0_pc' \notin {"busy", "pending"}
    BY <1>1 DEF PortAccess, SelectAddress, StartCommand, DataOut, DataIn, Overtakes, Accepts, Store
  <2> QED
    BY <2>1, <2>2 DEF CheckInv, Settled
<1>2. CASE HandlerStep
  <2>1. UNCHANGED <<check, overtaken, c1_pc, dirty>>
    BY <1>2 DEF HandlerStep, StatusStore, SubmitBusy, SubmitPending, TakeSequence, TakeKey,
       TakeWord, TakeCheck, ReadFlash, PublishHint, ReadUnchanged
  <2>2. Settled => Settled'
    BY <1>2 DEF HandlerStep, StatusStore, SubmitBusy, SubmitPending, TakeSequence, TakeKey,
       TakeWord, TakeCheck, ReadFlash, PublishHint, ReadUnchanged, CopyWord, Store, Settled
  <2> QED
    BY <2>1, <2>2 DEF CheckInv
<1>3. CASE RequestFlush \/ \E enabled \in BOOLEAN : SetWriteEnabled(enabled)
  BY <1>3 DEF RequestFlush, SetWriteEnabled, CoresUnchanged, CheckInv, Settled
<1>4. CASE Core1Step
  <2>1. check = "none"
    BY <1>4 DEF CheckInv, Core1Step, Service, Serves, BackendFlush, BackendWrite, SupervisorDone,
       LatchFatal, ClearPending, PublishReady, PrefetchStart, PrefetchScan, PublishOdd,
       PublishKey, PublishWord, PublishEven
  <2>2. check' = check
    BY <1>4 DEF Core1Step, Service, BackendFlush, BackendWrite, SupervisorDone, LatchFatal,
       ClearPending, PublishReady, PrefetchStart, PrefetchScan, PublishOdd, PublishKey,
       PublishWord, PublishEven, SharedUnchanged, PublishUnchanged
  <2> QED
    BY <2>1, <2>2 DEF CheckInv
<1>5. CASE UNCHANGED vars
  BY <1>5 DEF vars, CheckInv, Settled
<1>6. CASE Quiescing
  BY <1>6, CheckStepKeeps
<1> QED
  BY <1>1, <1>2, <1>3, <1>4, <1>5, <1>6 DEF Next, Quiescing

(* When the three loads of z80_flash_disk_quiescent say yes, whatever core 0 *)
(* did between them, every write completed before the first is durable, and *)
(* a write is on its way only if the Z80 used the ports since.              *)
THEOREM QuiescenceIsSettled == Spec => []QuiescentIsSettled
<1>1. Init => CheckInv
  BY DEF Init, CheckInv
<1>2. IInv /\ CheckInv /\ [Next]_vars => CheckInv'
  BY CheckKeeps
<1>3. CheckInv => QuiescentIsSettled
  BY DEF CheckInv, QuiescentIsSettled
<1> QED
  BY <1>1, <1>2, <1>3, Invariance, PTL DEF Spec

(* The unlocked cache is never read by core 0 while core 1 rewrites it: the *)
(* write of a record runs only while the device shows BUSY and no handler   *)
(* is under way.                                                            *)
THEOREM CacheIsExclusive == Spec => []NoCacheRace
<1>1. IInv => NoCacheRace
  BY DEF IInv, JobIsRight, CommandIsAlone, InCommand, NoCacheRace
<1> QED
  BY <1>1, Invariance, PTL

(* After the first failed flush neither a queued write nor a background     *)
(* flush touches the disk, and the error is not forgotten.                  *)
THEOREM FatalFinality == Spec => FatalIsFinal
<1>1. ASSUME IInv, [Next]_vars
      PROVE  [disk_fatal_error => disk_fatal_error' /\ UNCHANGED <<view, dirty>>]_vars
  <2> SUFFICES ASSUME disk_fatal_error, Next PROVE disk_fatal_error' /\ UNCHANGED <<view, dirty>>
    BY <1>1
  <2>1. c1_pc \in {"idle", "clear", "ready"}
    BY <1>1 DEF IInv, JobIsRight
  <2> USE <2>1 DEF mailbox, switches, quiescing, slots, registers, c0_locals, core0, backend, c1_locals,
          core1
  <2>2. CASE PortAccess
    BY <2>2 DEF PortAccess, SelectAddress, StartCommand, DataOut, DataIn
  <2>3. CASE HandlerStep
    BY <2>3 DEF HandlerStep, StatusStore, SubmitBusy, SubmitPending, TakeSequence, TakeKey,
       TakeWord,
       TakeCheck, ReadFlash, PublishHint, ReadUnchanged
  <2>4. CASE RequestFlush \/ \E enabled \in BOOLEAN : SetWriteEnabled(enabled)
    BY <2>4 DEF RequestFlush, SetWriteEnabled, CoresUnchanged
  <2>5. CASE Core1Step
    BY <2>5 DEF Core1Step, Service, Serves, BackendFlush, BackendWrite, SupervisorDone,
       LatchFatal,
       ClearPending, PublishReady, PrefetchStart, PrefetchScan, PublishOdd, PublishKey,
       PublishWord,
       PublishEven
  <2>6. CASE Quiescing
    BY <2>6 DEF Quiescing, CheckStep, QuiescentFlush, QuiescentStatus, QuiescentCache,
       QuiescentDone, CheckUnchanged
  <2> QED
    BY <2>2, <2>3, <2>4, <2>5, <2>6 DEF Next, Quiescing
<1> QED
  BY <1>1, Invariance, PTL DEF Spec, FatalIsFinal

-----------------------------------------------------------------------------
(* The record a READ returns is the record last written, for any geometry,  *)
(* any number of read-ahead slots and any sequence modulus above 4.         *)
(*                                                                         *)
(* The slots are sequence locks whose sequence wraps.  A reader that sees   *)
(* the same even sequence before and after its copy is right only if the    *)
(* slot cannot be published often enough in between to bring the sequence   *)
(* round again.  While core 0 is in a handler no command is pending, so     *)
(* core 1 publishes at most what it still has to do for the hint it works   *)
(* on and then what the last hint asks for: a slot at most twice, which is  *)
(* four increments.                                                         *)

(* The sequence d increments after q. *)
Later(q, d) == IF q + d < SequenceModulus THEN q + d ELSE q + d - SequenceModulus

(* The modulus no slot can wrap around within one READ. *)
LargeSequence == SequenceModulus > 4

(* Core 1 is between the odd and the even sequence of slot s. *)
Publishing(s) == c1_pc \in {"key", "word", "even"} /\ slot1 = s

(* A slot's sequence is odd just while it is published; otherwise it is     *)
(* empty or holds what the backend would return.                            *)
SlotsAreSound ==
  \A s \in Slots :
    /\ slot_sequence[s] % 2 = IF Publishing(s) THEN 1 ELSE 0
    /\ slot_key[s] # NoKey => SlotOf(slot_key[s]) = s
    /\ slot_key[s] # NoKey /\ ~Publishing(s) => slot_words[s] = view[slot_key[s]]

(* How far core 1 got with the slot it publishes. *)
PublishIsOrderly ==
  /\ c1_pc \in {"word", "even"} => slot_key[slot1] = c1_key
  /\ c1_pc = "word" => \A i \in 1 .. c1_word : slot_words[slot1][i] = view[c1_key][i]
  /\ c1_pc = "even" /\ c1_key # NoKey => slot_words[slot1] = view[c1_key]
  /\ c1_pc # "word" => c1_word = 0
  /\ c1_pc = "write" => slot_key[SlotOf(write_addr)] # write_addr

(* The key of the n-th record after the last hint. *)
HintedKey(n) == <<prefetch_hint[1], prefetch_hint[2] + n>>

(* A scan for an older hint has nothing left for the reader's slot. *)
OldScanPassed ==
  c1_pc \in PublishSteps \cup {"scan"} /\ c1_hint # prefetch_hint =>
    \A n \in 1 .. SlotCount :
      n > c1_ahead \/ (n = c1_ahead /\ c1_pc = "odd") => SlotOf(Ahead(n)) # slot0

(* Core 1 works on the last hint, if it works on one at all. *)
OnLastHint ==
  /\ c1_pc \in PublishSteps \cup {"scan"} => c1_hint = prefetch_hint
  /\ c1_pc = "odd" => slot1 # slot0

(* The reader's slot holds what the last hint asks for. *)
HintServed ==
  \A n \in 1 .. SlotCount : SlotOf(HintedKey(n)) = slot0 => slot_key[slot0] = HintedKey(n)

(* Nobody has touched the slot since core 0 read its sequence. *)
Untouched ==
  /\ slot_sequence[slot0] = c0_sequence
  /\ c0_pc = "copy" => slot_key[slot0] = disk_addr

(* The slot was published d/2 times since, and core 1 can publish it no     *)
(* more than twice in all.                                                  *)
Overtaken(d) ==
  /\ slot_sequence[slot0] = Later(c0_sequence, d)
  /\ d \in {1, 2} => OldScanPassed
  /\ d \in {3, 4} => OnLastHint
  /\ d = 4 => HintServed

(* Core 0's copy is good as long as the slot is untouched, and a touched    *)
(* slot is noticed.                                                         *)
TakeIsSound ==
  c0_pc \in {"key", "copy", "check"} =>
    /\ c0_sequence % 2 = 0
    /\ \/ /\ Untouched
          /\ c0_pc = "copy" => \A i \in 1 .. c0_word : disk_record[i] = view[disk_addr][i]
          /\ c0_pc = "check" => disk_record = view[disk_addr]
       \/ \E d \in 1 .. 4 : Overtaken(d)

(* What the read handler has in the record buffer. *)
ReadIsSound ==
  /\ c0_pc = "flash" => \A i \in 1 .. c0_word : disk_record[i] = view[disk_addr][i]
  /\ c0_pc = "hint" => disk_record = view[disk_addr]
  /\ c0_pc = "store" /\ c0_status = DataReady => disk_record = view[prefetch_hint]
  /\ c0_pc \notin {"copy", "flash"} => c0_word = 0

ReadInv ==
  /\ SlotsAreSound
  /\ PublishIsOrderly
  /\ TakeIsSound
  /\ ReadIsSound
  /\ ReadReturnsLatest

-----------------------------------------------------------------------------
(* Arithmetic.                                                              *)

LEMMA SequenceFacts ==
  ASSUME LargeSequence, NEW q \in 0 .. SequenceModulus - 1
  PROVE  /\ (q + 1) % SequenceModulus = Later(q, 1)
         /\ \A d \in 1 .. 4 : Later(q, d) # q /\ Later(q, d) \in 0 .. SequenceModulus - 1
         /\ \A d \in 1 .. 3 : Later(Later(q, d), 1) = Later(q, d + 1)
         /\ \A d \in 1 .. 4 : q % 2 = 0 => Later(q, d) % 2 = d % 2
         /\ Later(q, 1) % 2 = 1 - (q % 2)
<1>0. SequenceModulus \in Nat /\ SequenceModulus > 4 /\ SequenceModulus % 2 = 0 /\ q \in Nat
      /\ q < SequenceModulus
  BY SequenceAssumption DEF LargeSequence
<1>1. (q + 1) % SequenceModulus = Later(q, 1)
  <2>1. CASE q + 1 < SequenceModulus
    BY <1>0, <2>1 DEF Later
  <2>2. CASE q + 1 = SequenceModulus
    BY <1>0, <2>2 DEF Later
  <2> QED
    BY <1>0, <2>1, <2>2
<1>2. \A d \in 1 .. 4 : Later(q, d) # q /\ Later(q, d) \in 0 .. SequenceModulus - 1
  BY <1>0 DEF Later
<1>3. \A d \in 1 .. 3 : Later(Later(q, d), 1) = Later(q, d + 1)
  BY <1>0 DEF Later
<1>4. \A d \in 1 .. 4 : q % 2 = 0 => Later(q, d) % 2 = d % 2
  BY <1>0 DEF Later
<1>5. Later(q, 1) % 2 = 1 - (q % 2)
  BY <1>0 DEF Later
<1> QED
  BY <1>1, <1>2, <1>3, <1>4, <1>5

(* Two records ahead of the same hint share a slot only if they are one.    *)
LEMMA AheadSlotsDiffer ==
  ASSUME NEW x \in Nat, NEW n \in 1 .. SlotCount, NEW m \in 1 .. SlotCount,
         (x + n) % SlotCount = (x + m) % SlotCount
  PROVE  n = m
<1>0. SlotCount \in Nat /\ SlotCount > 0
  BY GeometryAssumption
<1> DEFINE a == (x + n) \div SlotCount
           b == (x + m) \div SlotCount
<1>1. a \in Int /\ b \in Int
  BY <1>0
<1>2. \A y \in Int : y % SlotCount = y - SlotCount * (y \div SlotCount)
  BY <1>0
<1>3. (x + n) - SlotCount * a = (x + m) - SlotCount * b
  BY <1>2
<1> HIDE DEF a, b
<1>4. n - m = SlotCount * a - SlotCount * b
  BY <1>0, <1>1, <1>3
<1>5. ASSUME NEW i \in Int, NEW j \in Int, i > j PROVE SlotCount * i - SlotCount * j >= SlotCount
  <2>1. SlotCount * i - SlotCount * j = SlotCount * (i - j)
    BY <1>0
  <2>2. i - j >= 1 /\ i - j \in Int
    BY <1>5
  <2>3. \A k \in Int : k >= 1 => SlotCount * k >= SlotCount
    BY <1>0
  <2> QED
    BY <1>0, <2>1, <2>2, <2>3
<1>6. ~(a > b) /\ ~(b > a)
  BY <1>0, <1>1, <1>4, <1>5
<1> QED
  BY <1>0, <1>1, <1>4, <1>6

-----------------------------------------------------------------------------
(* The slots under core 0's steps.                                          *)

(* While core 1 publishes, slot1 is a slot, and its key is missing only     *)
(* when a write is being prepared.                                          *)
LEMMA PublishedSlot ==
  ASSUME IInv, c1_pc \in PublishSteps
  PROVE  /\ slot1 \in Slots
         /\ c1_key # NoKey => /\ slot1 = SlotOf(c1_key) /\ c1_key \in Keys /\ c1_job = "prefetch"
                              /\ c1_ahead \in 1 .. SlotCount /\ c1_key = Ahead(c1_ahead)
                              /\ c1_hint \in Keys
         /\ c1_key = NoKey => slot1 = SlotOf(write_addr) /\ write_addr \in Keys /\ InCommand
<1>1. c1_job \in {"command", "prefetch"} /\ (c1_pc = "word" => c1_job = "prefetch")
  BY DEF IInv, JobIsRight, PublishSteps
<1>2. CASE c1_job = "prefetch"
  BY <1>2, KeyFacts DEF IInv, PublishIsSound, slot1
<1>3. CASE c1_job = "command"
  BY <1>1, <1>3, KeyFacts DEF IInv, PublishIsSound, slot1, InCommand, PublishSteps
<1> QED
  BY <1>1, <1>2, <1>3

(* A step of core 0 that leaves the slots, the backend and core 1 alone,    *)
(* and the address of a write under way.                                    *)
LEMMA SlotsUntouched ==
  ASSUME IInv, SlotsAreSound, PublishIsOrderly,
         UNCHANGED <<slot_sequence, slot_key, slot_words, view, c1_pc, c1_key, c1_word>>,
         InCommand => write_addr' = write_addr
  PROVE  SlotsAreSound' /\ PublishIsOrderly'
<1>1. c1_pc \in PublishSteps => slot1' = slot1
  BY PublishedSlot DEF slot1
<1>2. \A x \in Slots : Publishing(x)' <=> Publishing(x)
  BY <1>1 DEF Publishing, PublishSteps
<1>3. SlotsAreSound'
  BY <1>2 DEF SlotsAreSound
<1>4. c1_pc = "write" => write_addr' = write_addr
  BY DEF IInv, JobIsRight, InCommand
<1> QED
  BY <1>1, <1>3, <1>4 DEF PublishIsOrderly, PublishSteps

(* Core 0 in a handler that is not a READ: the buffer still holds what an   *)
(* offered record must be.                                                  *)
LEMMA OfferKept ==
  ASSUME IInv, ReadInv,
         UNCHANGED <<slot_sequence, slot_key, slot_words, view, c1_pc, c1_key, c1_word,
                     prefetch_hint, c0_word>>,
         InCommand => write_addr' = write_addr,
         c0_pc' \in {"idle", "store", "busy", "pending", "take"},
         c0_pc \in {"idle", "store", "busy", "pending"},
         disk_status' = DataReady /\ c0_pc' \in {"idle", "store"} =>
           /\ disk_record' = disk_record
           /\ \/ disk_status = DataReady /\ c0_pc \in {"idle", "store"}
              \/ c0_pc = "store" /\ c0_status = DataReady,
         c0_pc' = "store" => c0_status' # DataReady
  PROVE  ReadInv'
<1>1. SlotsAreSound' /\ PublishIsOrderly'
  BY SlotsUntouched DEF ReadInv
<1>2. TakeIsSound'
  BY DEF TakeIsSound
<1>3. ReadIsSound' /\ ReadReturnsLatest'
  BY DEF ReadInv, ReadIsSound, ReadReturnsLatest
<1> QED
  BY <1>1, <1>2, <1>3 DEF ReadInv

LEMMA StatusStoreReads ==
  ASSUME IInv, ReadInv, StatusStore
  PROVE  ReadInv'
  BY OfferKept, StatusFacts DEF IInv, TypeOK, CommandIsAlone, StatusStore, mailbox, slots,
     registers,
     c0_locals, backend, core1, c1_locals

LEMMA SubmitBusyReads ==
  ASSUME IInv, ReadInv, SubmitBusy
  PROVE  ReadInv'
  BY OfferKept, StatusFacts DEF IInv, TypeOK, CommandIsAlone, SubmitBusy, mailbox, slots,
     registers,
     c0_locals, backend, core1, c1_locals

LEMMA SubmitPendingReads ==
  ASSUME IInv, ReadInv, SubmitPending
  PROVE  ReadInv'
  BY OfferKept, StatusFacts DEF IInv, TypeOK, CommandIsAlone, SubmitPending, MailboxIsGuarded,
     mailbox, slots, registers,
     c0_locals, backend, core1, c1_locals

LEMMA SelectAddressReads ==
  ASSUME IInv, ReadInv, NEW a, SelectAddress(a)
  PROVE  ReadInv'
<1>1. /\ UNCHANGED <<slot_sequence, slot_key, slot_words, view, c1_pc, c1_key, c1_word,
                     prefetch_hint, c0_word, disk_record, disk_status>>
      /\ c0_pc = "idle"
      /\ c0_pc' \in {"idle", "store", "busy", "take"}
      /\ c0_pc' = "store" => c0_status' # DataReady
  BY StatusFacts DEF SelectAddress, Accepts, mailbox, slots, registers, c0_locals, backend,
     core1, c1_locals
<1>2. InCommand => write_addr' = write_addr
  BY StatusFacts DEF IInv, CommandIsAlone, SelectAddress, Accepts, mailbox, Busy
<1> QED
  BY <1>1, <1>2, OfferKept

LEMMA StartCommandReads ==
  ASSUME IInv, ReadInv, NEW command, StartCommand(command)
  PROVE  ReadInv'
<1>1. /\ UNCHANGED <<slot_sequence, slot_key, slot_words, view, c1_pc, c1_key, c1_word,
                     prefetch_hint, c0_word, disk_record, disk_status>>
      /\ c0_pc = "idle"
      /\ c0_pc' \in {"idle", "store", "busy", "take"}
      /\ c0_pc' = "store" => c0_status' # DataReady
  BY StatusFacts DEF StartCommand, Accepts, Store, Submit, mailbox, slots, registers,
     c0_locals, backend, core1, c1_locals
<1>2. InCommand => write_addr' = write_addr
  BY StatusFacts DEF IInv, CommandIsAlone, StartCommand, Accepts, Store, Submit, mailbox, Busy
<1> QED
  BY <1>1, <1>2, OfferKept

LEMMA DataOutReads ==
  ASSUME IInv, ReadInv, NEW word, DataOut(word)
  PROVE  ReadInv'
  BY OfferKept, StatusFacts DEF IInv, TypeOK, CommandIsAlone, DataOut, Accepts, Submit,
     mailbox, slots, registers,
     c0_locals, backend, core1, c1_locals

LEMMA DataInReads ==
  ASSUME IInv, ReadInv, DataIn
  PROVE  ReadInv'
<1>1. /\ UNCHANGED <<slot_sequence, slot_key, slot_words, view, c1_pc, c1_key, c1_word,
                     prefetch_hint, c0_word, disk_record, disk_status>>
      /\ c0_pc = "idle"
      /\ c0_pc' \in {"idle", "store", "busy", "take"}
      /\ c0_pc' = "store" => c0_status' # DataReady
  BY StatusFacts DEF DataIn, Store, mailbox, slots, registers, c0_locals, backend, core1,
     c1_locals
<1>2. InCommand => write_addr' = write_addr
  BY StatusFacts DEF IInv, CommandIsAlone, DataIn, Store, mailbox, Busy
<1> QED
  BY <1>1, <1>2, OfferKept

LEMMA SupervisorReads ==
  ASSUME IInv, ReadInv,
         RequestFlush \/ Quiescing \/ \E enabled \in BOOLEAN : SetWriteEnabled(enabled)
  PROVE  ReadInv'
<1>1. c0_pc' = c0_pc /\ UNCHANGED <<slot_sequence, slot_key, slot_words, view, c1_pc, c1_key,
        c1_word, c1_ahead, c1_hint, prefetch_hint, c0_word, write_addr, disk_addr,
        disk_record, disk_status,
        c0_status, c0_sequence>>
  BY DEF RequestFlush, SetWriteEnabled, CoresUnchanged, Quiescing, CheckStep, QuiescentFlush,
     QuiescentStatus, QuiescentCache, QuiescentDone, CheckUnchanged, mailbox, slots, registers,
     c0_locals, core0, backend, core1, c1_locals
<1> QED
  BY <1>1 DEF ReadInv, SlotsAreSound, Publishing, slot1, PublishIsOrderly, TakeIsSound,
     Untouched,
     Overtaken, OldScanPassed, OnLastHint, HintServed, HintedKey, Ahead, slot0, ReadIsSound,
     ReadReturnsLatest

-----------------------------------------------------------------------------
(* Core 0's READ.                                                           *)

(* Copying the next word of r extends the copied part, and the last word    *)
(* makes the buffer equal to r.                                             *)
LEMMA CopyExtends ==
  ASSUME NEW r, r \in Records, disk_record \in Records, c0_word \in Nat, c0_word < RecordWords,
         \A i \in 1 .. c0_word : disk_record[i] = r[i],
         disk_record' = [disk_record EXCEPT ![c0_word + 1] = r[c0_word + 1]]
  PROVE  /\ \A i \in 1 .. c0_word + 1 : disk_record'[i] = r[i]
         /\ c0_word + 1 = RecordWords => disk_record' = r
<1>1. c0_word + 1 \in Index
  BY GeometryAssumption DEF Index
<1>2. \A i \in 1 .. c0_word + 1 : i \in Index /\ (i = c0_word + 1 \/ i \in 1 .. c0_word)
  BY GeometryAssumption DEF Index
<1>3. \A i \in 1 .. c0_word + 1 : disk_record'[i] = r[i]
  BY <1>1, <1>2 DEF Records
<1>4. ASSUME c0_word + 1 = RecordWords PROVE disk_record' = r
  <2>1. \A i \in Index : disk_record'[i] = r[i]
    BY <1>3, <1>4 DEF Index
  <2>2. disk_record' \in Records
    BY <1>1 DEF Records
  <2> QED
    BY <2>1, <2>2 DEF Records
<1> QED
  BY <1>3, <1>4

(* What every step of a READ leaves alone. *)
LEMMA ReadStepFacts ==
  ASSUME IInv, ReadInv, ReadUnchanged, c0_pc \in ReadSteps
  PROVE  /\ SlotsAreSound' /\ PublishIsOrderly'
         /\ disk_addr \in Keys /\ slot0 \in Slots /\ slot0' = slot0
         /\ view[disk_addr] \in Records
         /\ c0_word \in Nat /\ c0_word < RecordWords /\ disk_record \in Records
         /\ c1_pc # "write"
         /\ UNCHANGED <<slot_sequence, slot_key, slot_words, view, disk_addr, disk_status,
                        c1_pc, c1_key, c1_ahead, c1_hint, write_addr>>
<1>1. UNCHANGED <<slot_sequence, slot_key, slot_words, view, c1_pc, c1_key, c1_word, write_addr,
                  disk_addr, disk_status, c1_ahead, c1_hint>>
  BY DEF ReadUnchanged, mailbox, slots, registers, backend, core1, c1_locals
<1>2. SlotsAreSound' /\ PublishIsOrderly'
  BY <1>1, SlotsUntouched DEF ReadInv
<1>3. disk_addr \in Keys /\ c0_word \in Nat /\ c0_word < RecordWords /\ disk_record \in Records
  BY GeometryAssumption DEF IInv, HandlersAreSound, TypeOK
<1>4. slot0 \in Slots /\ view[disk_addr] \in Records
  BY <1>3, KeyFacts DEF slot0, IInv, TypeOK
<1>5. slot0' = slot0
  BY <1>1 DEF slot0
<1>6. c1_pc # "write"
  BY DEF IInv, JobIsRight, CommandIsAlone, InCommand, ReadSteps
<1> QED
  BY <1>1, <1>2, <1>3, <1>4, <1>5, <1>6

(* An overtaken reader stays overtaken by steps of core 0. *)
LEMMA OvertakenKept ==
  ASSUME NEW d, Overtaken(d), slot0' = slot0,
         UNCHANGED <<slot_sequence, slot_key, c1_pc, c1_key, c1_ahead, c1_hint, write_addr,
                     prefetch_hint, c0_sequence>>
  PROVE  Overtaken(d)'
  BY DEF Overtaken, Later, OldScanPassed, OnLastHint, HintServed, HintedKey, Ahead, slot1

LEMMA TakeSequenceReads ==
  ASSUME IInv, ReadInv, TakeSequence
  PROVE  ReadInv'
<1>1. c0_pc = "take" /\ ReadUnchanged /\ c0_word' = c0_word /\ c0_word = 0
  BY DEF TakeSequence, ReadInv, ReadIsSound
<1>2. c0_pc \in ReadSteps
  BY <1>1 DEF ReadSteps
<1>3. TakeIsSound'
  BY <1>1, <1>2, ReadStepFacts DEF TakeSequence, TakeIsSound, Untouched
<1>4. c0_pc' \in {"flash", "key"}
  BY DEF TakeSequence
<1>5. ReadIsSound' /\ ReadReturnsLatest'
  BY <1>1, <1>4 DEF ReadIsSound, ReadReturnsLatest
<1> QED
  BY <1>1, <1>2, <1>3, <1>5, ReadStepFacts DEF ReadInv

LEMMA TakeKeyReads ==
  ASSUME IInv, ReadInv, TakeKey
  PROVE  ReadInv'
<1>1. c0_pc = "key" /\ ReadUnchanged /\ c0_word' = c0_word /\ c0_word = 0
      /\ UNCHANGED <<disk_record, prefetch_hint, c0_sequence>>
  BY DEF TakeKey, ReadInv, ReadIsSound
<1>2. c0_pc \in ReadSteps
  BY <1>1 DEF ReadSteps
<1>3. TakeIsSound'
  <2>1. CASE \E d \in 1 .. 4 : Overtaken(d)
    BY <1>1, <1>2, <2>1, ReadStepFacts, OvertakenKept DEF ReadInv, TakeIsSound
  <2>2. CASE Untouched
    BY <1>1, <1>2, <2>2, ReadStepFacts DEF ReadInv, TakeIsSound, Untouched, TakeKey
  <2> QED
    BY <1>1, <2>1, <2>2 DEF ReadInv, TakeIsSound
<1>4. c0_pc' \in {"flash", "copy"}
  BY DEF TakeKey
<1>5. ReadIsSound' /\ ReadReturnsLatest'
  BY <1>1, <1>4 DEF ReadIsSound, ReadReturnsLatest
<1> QED
  BY <1>1, <1>2, <1>3, <1>5, ReadStepFacts DEF ReadInv

(* An untouched slot under the reader's key holds the backend's record. *)
LEMMA UntouchedIsLatest ==
  ASSUME IInv, ReadInv, c0_pc = "copy", Untouched
  PROVE  slot_words[slot0] = view[disk_addr]
<1>1. slot0 \in Slots /\ disk_addr \in Keys
  BY KeyFacts DEF IInv, HandlersAreSound, ReadSteps, slot0
<1>2. slot_sequence[slot0] % 2 = 0 /\ slot_key[slot0] = disk_addr
  BY DEF Untouched, ReadInv, TakeIsSound
<1>3. ~Publishing(slot0)
  BY <1>1, <1>2 DEF ReadInv, SlotsAreSound
<1> QED
  BY <1>1, <1>2, <1>3, KeyFacts DEF ReadInv, SlotsAreSound

LEMMA TakeWordReads ==
  ASSUME IInv, ReadInv, TakeWord
  PROVE  ReadInv'
<1>1. c0_pc = "copy" /\ ReadUnchanged /\ UNCHANGED <<prefetch_hint, c0_sequence>>
  BY DEF TakeWord
<1>2. c0_pc \in ReadSteps
  BY <1>1 DEF ReadSteps
<1>3. c0_word \in Nat /\ c0_word < RecordWords /\ c0_word + 1 \in Index
  BY <1>1, <1>2, ReadStepFacts, GeometryAssumption DEF Index
<1>4. /\ disk_record' = [disk_record EXCEPT ![c0_word + 1] = slot_words[slot0][c0_word + 1]]
      /\ \/ c0_word + 1 < RecordWords /\ c0_word' = c0_word + 1 /\ c0_pc' = "copy"
         \/ c0_word + 1 = RecordWords /\ c0_word' = 0 /\ c0_pc' = "check"
  BY <1>1, <1>3 DEF TakeWord, CopyWord
<1>5. TakeIsSound'
  <2>1. CASE \E d \in 1 .. 4 : Overtaken(d)
    BY <1>1, <1>2, <1>4, <2>1, ReadStepFacts, OvertakenKept DEF ReadInv, TakeIsSound
  <2>2. CASE Untouched /\ \A i \in 1 .. c0_word : disk_record[i] = view[disk_addr][i]
    <3>1. slot_words[slot0] = view[disk_addr]
      BY <1>1, <2>2, UntouchedIsLatest
    <3>2. /\ \A i \in 1 .. c0_word + 1 : disk_record'[i] = view[disk_addr][i]
          /\ c0_word + 1 = RecordWords => disk_record' = view[disk_addr]
      <4>1. disk_record \in Records /\ view[disk_addr] \in Records
        BY <1>1, <1>2, ReadStepFacts
      <4>2. disk_record' = [disk_record EXCEPT ![c0_word + 1] = view[disk_addr][c0_word + 1]]
        BY <1>4, <3>1
      <4> QED
        BY <1>3, <2>2, <4>1, <4>2, CopyExtends, Zenon
    <3> QED
      BY <1>1, <1>2, <1>4, <2>2, <3>2, ReadStepFacts DEF ReadInv, TakeIsSound, Untouched
  <2> QED
    BY <1>1, <2>1, <2>2 DEF ReadInv, TakeIsSound
<1>6. ReadIsSound' /\ ReadReturnsLatest'
  BY <1>4 DEF ReadIsSound, ReadReturnsLatest
<1> QED
  BY <1>1, <1>2, <1>5, <1>6, ReadStepFacts DEF ReadInv

(* The second look at the sequence is enough: an overtaken slot shows       *)
(* another one.                                                             *)
LEMMA TakeCheckReads ==
  ASSUME LargeSequence, IInv, ReadInv, TakeCheck
  PROVE  ReadInv'
<1>1. c0_pc = "check" /\ ReadUnchanged /\ UNCHANGED <<prefetch_hint, disk_record, c0_word>>
      /\ c0_word = 0
  BY DEF TakeCheck, ReadInv, ReadIsSound
<1>2. c0_pc \in ReadSteps
  BY <1>1 DEF ReadSteps
<1>3. c0_pc' = IF slot_sequence[slot0] = c0_sequence THEN "hint" ELSE "flash"
  BY DEF TakeCheck
<1>4. ASSUME slot_sequence[slot0] = c0_sequence PROVE disk_record = view[disk_addr]
  <2>1. \A d \in 1 .. 4 : ~Overtaken(d)
    BY <1>4, SequenceFacts DEF Overtaken, IInv, TypeOK
  <2> QED
    BY <1>1, <2>1 DEF ReadInv, TakeIsSound
<1>5. TakeIsSound'
  BY <1>3 DEF TakeIsSound
<1>6. ReadIsSound' /\ ReadReturnsLatest'
  BY <1>1, <1>2, <1>3, <1>4, ReadStepFacts DEF ReadIsSound, ReadReturnsLatest
<1> QED
  BY <1>1, <1>2, <1>5, <1>6, ReadStepFacts DEF ReadInv

LEMMA ReadFlashReads ==
  ASSUME IInv, ReadInv, ReadFlash
  PROVE  ReadInv'
<1>1. c0_pc = "flash" /\ ReadUnchanged /\ UNCHANGED <<prefetch_hint>>
  BY DEF ReadFlash
<1>2. c0_pc \in ReadSteps
  BY <1>1 DEF ReadSteps
<1>3. c0_word \in Nat /\ c0_word < RecordWords /\ c0_word + 1 \in Index /\ c1_pc # "write"
  BY <1>1, <1>2, ReadStepFacts, GeometryAssumption DEF Index
<1>4. /\ disk_record' = [disk_record EXCEPT ![c0_word + 1] = view[disk_addr][c0_word + 1]]
      /\ \/ c0_word + 1 < RecordWords /\ c0_word' = c0_word + 1 /\ c0_pc' = "flash"
         \/ c0_word + 1 = RecordWords /\ c0_word' = 0 /\ c0_pc' = "hint"
  BY <1>1, <1>3 DEF ReadFlash, CopyWord
<1>5. /\ \A i \in 1 .. c0_word + 1 : disk_record'[i] = view[disk_addr][i]
      /\ c0_word + 1 = RecordWords => disk_record' = view[disk_addr]
  <2>1. \A i \in 1 .. c0_word : disk_record[i] = view[disk_addr][i]
    BY <1>1 DEF ReadInv, ReadIsSound
  <2>2. QED
    <3>1. disk_record \in Records /\ view[disk_addr] \in Records
      BY <1>1, <1>2, ReadStepFacts
    <3> QED
      BY <1>3, <1>4, <2>1, <3>1, CopyExtends, Zenon
<1>6. TakeIsSound'
  BY <1>4 DEF TakeIsSound
<1>7. ReadIsSound' /\ ReadReturnsLatest'
  BY <1>1, <1>2, <1>4, <1>5, ReadStepFacts DEF ReadIsSound, ReadReturnsLatest
<1> QED
  BY <1>1, <1>2, <1>6, <1>7, ReadStepFacts DEF ReadInv

LEMMA PublishHintReads ==
  ASSUME IInv, ReadInv, PublishHint
  PROVE  ReadInv'
<1>1. c0_pc = "hint" /\ ReadUnchanged /\ UNCHANGED <<disk_record, c0_word>> /\ c0_word = 0
      /\ disk_record = view[disk_addr] /\ prefetch_hint' = disk_addr /\ c0_pc' = "store"
  BY DEF PublishHint, Store, ReadInv, ReadIsSound
<1>2. c0_pc \in ReadSteps
  BY <1>1 DEF ReadSteps
<1>3. TakeIsSound'
  BY <1>1 DEF TakeIsSound
<1>4. ReadIsSound' /\ ReadReturnsLatest'
  BY <1>1, <1>2, ReadStepFacts DEF ReadIsSound, ReadReturnsLatest
<1> QED
  BY <1>1, <1>2, <1>3, <1>4, ReadStepFacts DEF ReadInv

-----------------------------------------------------------------------------
(* Core 1.                                                                  *)

(* What core 1 never touches but in a write. *)
LEMMA BufferKept ==
  ASSUME ReadInv, disk_status' = disk_status \/ disk_status' # DataReady,
         UNCHANGED <<c0_pc, c0_status, c0_word, disk_record, disk_addr, prefetch_hint, view>>
  PROVE  ReadIsSound' /\ ReadReturnsLatest'
  BY DEF ReadInv, ReadIsSound, ReadReturnsLatest

(* A step of core 1 outside prefetch_publish leaves the slots as they are,  *)
(* and an overtaken reader needs the scan to be where it was.               *)
LEMMA OtherStepKeeps ==
  ASSUME IInv, ReadInv,
         UNCHANGED <<slot_sequence, slot_key, slot_words, view, c0_pc, c0_status, c0_word,
                     c0_sequence, disk_record, disk_addr, prefetch_hint, c1_word, write_addr>>,
         disk_status' = disk_status \/ disk_status' # DataReady,
         c1_pc \notin PublishSteps, c1_pc' \notin {"key", "word", "even"},
         c1_pc' = "write" => slot_key[SlotOf(write_addr)] # write_addr,
         \/ c1_pc' \notin PublishSteps \cup {"scan"}
         \/ c1_pc' = "scan" /\ c1_hint' = prefetch_hint
         \/ c0_pc = "idle"
  PROVE  ReadInv'
<1>1. ReadIsSound' /\ ReadReturnsLatest'
  BY BufferKept
<1>2. SlotsAreSound'
  BY DEF ReadInv, SlotsAreSound, Publishing, PublishSteps
<1>3. PublishIsOrderly'
  BY DEF ReadInv, PublishIsOrderly, PublishSteps
<1>4. TakeIsSound'
  <2> SUFFICES ASSUME c0_pc \in {"key", "copy", "check"} PROVE TakeIsSound'
    BY DEF TakeIsSound
  <2>1. slot0' = slot0
    BY DEF slot0
  <2>2. Untouched => Untouched'
    BY <2>1 DEF Untouched
  <2>3. ASSUME NEW d \in 1 .. 4, Overtaken(d) PROVE Overtaken(d)'
    <3>1. OldScanPassed' /\ OnLastHint'
      BY DEF OldScanPassed, OnLastHint, PublishSteps
    <3>2. HintServed => HintServed'
      BY <2>1 DEF HintServed, HintedKey
    <3> QED
      BY <2>1, <2>3, <3>1, <3>2 DEF Overtaken, Later
  <2> QED
    BY <2>2, <2>3 DEF ReadInv, TakeIsSound
<1> QED
  BY <1>1, <1>2, <1>3, <1>4 DEF ReadInv

LEMMA ServiceReads ==
  ASSUME IInv, ReadInv, Service
  PROVE  ReadInv'
<1>1. /\ UNCHANGED <<slot_sequence, slot_key, slot_words, view, c0_pc, c0_status, c0_word,
                     c0_sequence, disk_record, disk_addr, prefetch_hint, c1_word, write_addr,
                     disk_status>>
      /\ c1_pc = "idle" /\ c1_pc' \in {"flush", "odd", "write", "prefetch"}
      /\ c1_pc' = "write" => slot_key[SlotOf(write_addr)] # write_addr
  BY DEF Service, Serves, SharedUnchanged, mailbox, slots, registers, c0_locals, core0, backend,
     core1, c1_locals
<1>2. c1_pc' \in {"odd", "write"} => c0_pc = "idle"
  BY CommandFacts DEF Service, Serves, IInv, MailboxIsGuarded
<1> QED
  BY <1>1, <1>2, OtherStepKeeps DEF PublishSteps

LEMMA BackendFlushReads ==
  ASSUME IInv, ReadInv, BackendFlush
  PROVE  ReadInv'
<1>0. c1_job \in {"command", "supervisor", "idle"}
  BY DEF BackendFlush, IInv, TypeOK, Jobs, JobIsRight
<1>1. /\ UNCHANGED <<slot_sequence, slot_key, slot_words, view, c0_pc, c0_status, c0_word,
                     c0_sequence, disk_record, disk_addr, prefetch_hint, c1_word, write_addr>>
      /\ disk_status' = disk_status \/ disk_status' # DataReady
      /\ c1_pc = "flush" /\ c1_pc' \in {"supervisor_done", "fatal", "clear", "prefetch"}
  BY <1>0, StatusFacts DEF BackendFlush, SharedUnchanged, mailbox, slots, registers,
     c0_locals, core0,
     backend, core1, c1_locals
<1> QED
  BY <1>1, OtherStepKeeps DEF PublishSteps

LEMMA SupervisorDoneReads ==
  ASSUME IInv, ReadInv, SupervisorDone
  PROVE  ReadInv'
<1>1. /\ UNCHANGED <<slot_sequence, slot_key, slot_words, view, c0_pc, c0_status, c0_word,
                     c0_sequence, disk_record, disk_addr, prefetch_hint, c1_word, write_addr>>
      /\ disk_status' = disk_status \/ disk_status' # DataReady
      /\ c1_pc = "supervisor_done" /\ c1_pc' \in {"prefetch", "fatal"}
  BY StatusFacts DEF SupervisorDone, SharedUnchanged, mailbox, slots, registers, c0_locals,
     core0,
     backend, core1, c1_locals
<1> QED
  BY <1>1, OtherStepKeeps DEF PublishSteps

LEMMA LatchFatalReads ==
  ASSUME IInv, ReadInv, LatchFatal
  PROVE  ReadInv'
<1>1. /\ UNCHANGED <<slot_sequence, slot_key, slot_words, view, c0_pc, c0_status, c0_word,
                     c0_sequence, disk_record, disk_addr, prefetch_hint, c1_word, write_addr>>
      /\ disk_status' = disk_status \/ disk_status' # DataReady
      /\ c1_pc = "fatal" /\ c1_pc' \in {"clear", "ready"}
  BY StatusFacts DEF LatchFatal, SharedUnchanged, mailbox, slots, registers, c0_locals, core0,
     backend, core1, c1_locals
<1> QED
  BY <1>1, OtherStepKeeps DEF PublishSteps

LEMMA ClearPendingReads ==
  ASSUME IInv, ReadInv, ClearPending
  PROVE  ReadInv'
<1>1. /\ UNCHANGED <<slot_sequence, slot_key, slot_words, view, c0_pc, c0_status, c0_word,
                     c0_sequence, disk_record, disk_addr, prefetch_hint, c1_word, write_addr>>
      /\ disk_status' = disk_status \/ disk_status' # DataReady
      /\ c1_pc = "clear" /\ c1_pc' \in {"ready"}
  BY StatusFacts DEF ClearPending, SharedUnchanged, mailbox, slots, registers, c0_locals, core0,
     backend, core1, c1_locals
<1> QED
  BY <1>1, OtherStepKeeps DEF PublishSteps

LEMMA PublishReadyReads ==
  ASSUME IInv, ReadInv, PublishReady
  PROVE  ReadInv'
<1>1. /\ UNCHANGED <<slot_sequence, slot_key, slot_words, view, c0_pc, c0_status, c0_word,
                     c0_sequence, disk_record, disk_addr, prefetch_hint, c1_word, write_addr>>
      /\ disk_status' = disk_status \/ disk_status' # DataReady
      /\ c1_pc = "ready" /\ c1_pc' \in {"prefetch", "idle"}
  BY StatusFacts DEF PublishReady, Completion, SharedUnchanged, mailbox, slots, registers,
     c0_locals, core0,
     backend, core1, c1_locals
<1> QED
  BY <1>1, OtherStepKeeps DEF PublishSteps

LEMMA PrefetchStartReads ==
  ASSUME IInv, ReadInv, PrefetchStart
  PROVE  ReadInv'
<1>1. /\ UNCHANGED <<slot_sequence, slot_key, slot_words, view, c0_pc, c0_status, c0_word,
                     c0_sequence, disk_record, disk_addr, prefetch_hint, c1_word, write_addr,
                     disk_status>>
      /\ c1_pc = "prefetch" /\ c1_pc' \in {"idle", "scan"} /\ c1_hint' = prefetch_hint
  BY DEF PrefetchStart, SharedUnchanged, mailbox, slots, registers, c0_locals, core0, backend,
     core1, c1_locals
<1> QED
  BY <1>1, OtherStepKeeps DEF PublishSteps

(* The write finds its slot invalidated and no other slot with its key. *)
LEMMA BackendWriteReads ==
  ASSUME IInv, ReadInv, BackendWrite
  PROVE  ReadInv'
<1>1. /\ UNCHANGED <<slot_sequence, slot_key, slot_words, c0_pc, c0_word, disk_status, c1_word,
                     write_addr>>
      /\ c1_pc = "write" /\ c1_pc' \in {"clear", "fatal"}
      /\ view' = view \/ view' = [view EXCEPT ![write_addr] = disk_record]
  BY DEF BackendWrite, SharedUnchanged, mailbox, slots, registers, c0_locals, core0, backend,
     core1, c1_locals
<1>2. c0_pc = "idle" /\ disk_status = Busy /\ write_addr \in Keys
  BY <1>1 DEF IInv, JobIsRight, CommandIsAlone, InCommand, PublishIsSound
<1>3. \A x \in Slots : slot_key[x] # NoKey =>
        slot_key[x] # write_addr /\ slot_key[x] \in Keys /\ view'[slot_key[x]] = view[slot_key[x]]
  <2> SUFFICES ASSUME NEW x \in Slots, slot_key[x] # NoKey
               PROVE  /\ slot_key[x] # write_addr /\ slot_key[x] \in Keys
                      /\ view'[slot_key[x]] = view[slot_key[x]]
    OBVIOUS
  <2>1. slot_key[x] \in Keys /\ SlotOf(slot_key[x]) = x
    BY DEF IInv, TypeOK, ReadInv, SlotsAreSound
  <2>2. slot_key[x] # write_addr
    BY <1>1, <2>1 DEF ReadInv, PublishIsOrderly
  <2> QED
    BY <1>1, <1>2, <2>1, <2>2 DEF IInv, TypeOK
<1>4. SlotsAreSound'
  BY <1>1, <1>3 DEF ReadInv, SlotsAreSound, Publishing
<1>5. PublishIsOrderly'
  BY <1>1 DEF ReadInv, PublishIsOrderly
<1>6. TakeIsSound' /\ ReadIsSound' /\ ReadReturnsLatest'
  BY <1>1, <1>2, StatusFacts DEF ReadInv, TakeIsSound, ReadIsSound, ReadReturnsLatest
<1> QED
  BY <1>4, <1>5, <1>6 DEF ReadInv

(* A reader keeps core 1 off the commands: what is published is read-ahead. *)
LEMMA ReaderMeetsPrefetch ==
  ASSUME IInv, c0_pc \in {"key", "copy", "check"}
  PROVE  /\ slot0 \in Slots /\ ~InCommand
         /\ c0_sequence \in 0 .. SequenceModulus - 1
         /\ slot_sequence[slot0] \in 0 .. SequenceModulus - 1
         /\ c1_pc \in PublishSteps => c1_key # NoKey
<1>1. disk_addr \in Keys
  BY DEF IInv, HandlersAreSound, ReadSteps
<1>2. slot0 \in Slots
  BY <1>1, KeyFacts DEF slot0
<1>3. ~InCommand
  BY DEF IInv, CommandIsAlone
<1> QED
  BY <1>2, <1>3, PublishedSlot DEF IInv, TypeOK

(* The parity of the sequence tells how an overtaken reader stands. *)
LEMMA OvertakenParity ==
  ASSUME LargeSequence, IInv, ReadInv, c0_pc \in {"key", "copy", "check"},
         NEW d \in 1 .. 4, Overtaken(d)
  PROVE  Publishing(slot0) <=> d \in {1, 3}
<1>1. c0_sequence % 2 = 0 /\ slot_sequence[slot0] = Later(c0_sequence, d)
  BY DEF ReadInv, TakeIsSound, Overtaken
<1>2. slot_sequence[slot0] % 2 = d % 2
  BY <1>1, SequenceFacts, ReaderMeetsPrefetch
<1>3. slot_sequence[slot0] % 2 = IF Publishing(slot0) THEN 1 ELSE 0
  BY ReaderMeetsPrefetch DEF ReadInv, SlotsAreSound
<1> QED
  BY <1>2, <1>3

LEMMA UntouchedParity ==
  ASSUME IInv, ReadInv, c0_pc \in {"key", "copy", "check"}, Untouched
  PROVE  ~Publishing(slot0)
<1>1. slot_sequence[slot0] % 2 = 0
  BY DEF ReadInv, TakeIsSound, Untouched
<1> QED
  BY <1>1, ReaderMeetsPrefetch DEF ReadInv, SlotsAreSound

(* The scan goes on to a record it has not looked at yet, and not to one    *)
(* that is already in its slot.                                             *)
LEMMA PrefetchScanReads ==
  ASSUME LargeSequence, IInv, ReadInv, PrefetchScan
  PROVE  ReadInv'
<1>1. /\ UNCHANGED <<c0_pc, c0_status, c0_word, c0_sequence, disk_record, disk_addr,
                     prefetch_hint, view, write_addr, disk_status>>
      /\ UNCHANGED <<slot_sequence, slot_key, slot_words, c1_word>>
      /\ c1_pc = "scan" /\ c1_pc' \in {"idle", "odd"}
  BY DEF PrefetchScan, SharedUnchanged, mailbox, slots, registers, c0_locals, core0, backend,
     core1, c1_locals
<1>2. CASE c1_pc' = "idle"
  BY <1>1, <1>2, OtherStepKeeps DEF PublishSteps
<1>3. CASE c1_pc' = "odd"
  <2>1. PICK n \in 1 .. SlotCount : Missing(n) /\ c1_ahead' = n /\ c1_key' = Ahead(n)
                                    /\ c1_hint' = c1_hint
    BY <1>3 DEF PrefetchScan
  <2>2. SlotsAreSound' /\ PublishIsOrderly'
    BY <1>1, <1>3 DEF ReadInv, SlotsAreSound, Publishing, PublishIsOrderly
  <2>3. ReadIsSound' /\ ReadReturnsLatest'
    BY <1>1, BufferKept
  <2>4. TakeIsSound'
    <3> SUFFICES ASSUME c0_pc \in {"key", "copy", "check"} PROVE TakeIsSound'
      BY <1>1 DEF TakeIsSound
    <3>1. slot0' = slot0
      BY <1>1 DEF slot0
    <3>2. Untouched => Untouched'
      BY <1>1, <3>1 DEF Untouched
    <3>3. n > c1_ahead /\ c1_hint \in Keys /\ c1_ahead \in Nat
      <4>1. c1_ahead \in Nat
        BY GeometryAssumption DEF IInv, TypeOK
      <4> QED
        BY <1>1, <2>1, <4>1 DEF Missing, IInv, JobIsRight, PublishIsSound
    <3>4. ASSUME NEW d \in 1 .. 4, Overtaken(d) PROVE Overtaken(d)'
      <4>1. d \in {2, 4}
        BY <1>1, <3>4, OvertakenParity DEF Publishing
      <4>2. ASSUME d = 2 PROVE OldScanPassed'
        <5>1. OldScanPassed
          BY <3>4, <4>2 DEF Overtaken
        <5>2. \A m \in 1 .. SlotCount : m >= n => m > c1_ahead
          BY <3>3, GeometryAssumption
        <5>3. \A m \in 1 .. SlotCount : Ahead(m)' = Ahead(m)
          BY <2>1 DEF Ahead
        <5>4. \A m \in 1 .. SlotCount : m > n \/ m = n => m >= n
          BY GeometryAssumption
        <5> QED
          BY <1>1, <1>3, <2>1, <3>1, <5>1, <5>2, <5>3, <5>4 DEF OldScanPassed, PublishSteps
      <4>3. ASSUME d = 4 PROVE OnLastHint' /\ HintServed'
        <5>1. OnLastHint /\ HintServed
          BY <3>4, <4>3 DEF Overtaken
        <5>2. c1_hint = prefetch_hint
          BY <1>1, <5>1 DEF OnLastHint
        <5>3. SlotOf(Ahead(n)) # slot0
          BY <2>1, <5>1, <5>2 DEF HintServed, HintedKey, Ahead, Missing
        <5>4. c1_key' # NoKey
          BY <2>1 DEF Ahead, NoKey
        <5>5. slot1' = SlotOf(Ahead(n))
          BY <2>1, <5>4 DEF slot1
        <5>6. HintServed'
          BY <1>1, <3>1, <5>1 DEF HintServed, HintedKey
        <5> QED
          BY <1>1, <2>1, <3>1, <5>2, <5>3, <5>5, <5>6 DEF OnLastHint
      <4> QED
        BY <1>1, <3>1, <3>4, <4>1, <4>2, <4>3 DEF Overtaken, Later
    <3> QED
      BY <1>1, <3>2, <3>4 DEF ReadInv, TakeIsSound
  <2> QED
    BY <2>2, <2>3, <2>4 DEF ReadInv
<1> QED
  BY <1>1, <1>2, <1>3

(* A publication of another slot does not change how an overtaken reader    *)
(* stands.                                                                  *)
LEMMA OvertakenElsewhere ==
  ASSUME NEW d \in 1 .. 4, Overtaken(d), slot1 # slot0, slot0' = slot0, slot1' = slot1,
         slot_sequence'[slot0] = slot_sequence[slot0], slot_key'[slot0] = slot_key[slot0],
         c1_pc \in PublishSteps, c1_pc' \in PublishSteps \cup {"scan"}, c1_pc' # "odd",
         UNCHANGED <<c1_hint, c1_ahead, prefetch_hint, c0_sequence>>
  PROVE  Overtaken(d)'
<1>1. OldScanPassed => OldScanPassed'
  BY DEF OldScanPassed, Ahead, PublishSteps
<1>2. OnLastHint => OnLastHint'
  BY DEF OnLastHint, PublishSteps
<1>3. HintServed => HintServed'
  BY DEF HintServed, HintedKey
<1> QED
  BY <1>1, <1>2, <1>3 DEF Overtaken, Later

(* Core 1 touches the slot: an untouched reader is overtaken for the first  *)
(* time, and one that was overtaken by an older hint's scan is overtaken by *)
(* the last hint's.                                                         *)
LEMMA PublishOddReads ==
  ASSUME LargeSequence, IInv, ReadInv, PublishOdd
  PROVE  ReadInv'
<1>1. /\ UNCHANGED <<c0_pc, c0_status, c0_word, c0_sequence, disk_record, disk_addr,
                     prefetch_hint, view, write_addr, disk_status, c1_key, c1_hint, c1_ahead>>
      /\ UNCHANGED <<slot_key, slot_words, c1_word>>
      /\ c1_pc = "odd" /\ c1_pc' = "key" /\ slot_sequence' = Advance
  BY DEF PublishOdd, PublishUnchanged, SharedUnchanged, mailbox, slots, registers, c0_locals,
     core0,
     backend, core1, c1_locals
<1>2. slot1 \in Slots /\ slot1' = slot1 /\ slot0' = slot0
  BY <1>1, PublishedSlot DEF PublishSteps, slot1, slot0
<1>3. /\ slot_sequence[slot1] \in 0 .. SequenceModulus - 1
      /\ slot_sequence'[slot1] = Later(slot_sequence[slot1], 1)
      /\ \A x \in Slots : x # slot1 => slot_sequence'[x] = slot_sequence[x]
  <2>1. slot_sequence \in [Slots -> 0 .. SequenceModulus - 1]
    BY DEF IInv, TypeOK
  <2>2. slot_sequence[slot1] \in 0 .. SequenceModulus - 1
    BY <1>2, <2>1
  <2>3. (slot_sequence[slot1] + 1) % SequenceModulus = Later(slot_sequence[slot1], 1)
    BY <2>2, SequenceFacts
  <2> QED
    BY <1>1, <1>2, <2>1, <2>2, <2>3 DEF Advance
<1>4. SlotsAreSound'
  <2>1. ~Publishing(slot1) /\ Publishing(slot1)'
    BY <1>1, <1>2 DEF Publishing
  <2>2. slot_sequence'[slot1] % 2 = 1
    BY <1>2, <1>3, <2>1, SequenceFacts DEF ReadInv, SlotsAreSound
  <2>3. \A x \in Slots : x # slot1 => ~Publishing(x) /\ ~Publishing(x)'
    BY <1>1, <1>2 DEF Publishing
  <2> QED
    BY <1>1, <1>2, <1>3, <2>1, <2>2, <2>3 DEF ReadInv, SlotsAreSound
<1>5. PublishIsOrderly'
  BY <1>1 DEF ReadInv, PublishIsOrderly
<1>6. ReadIsSound' /\ ReadReturnsLatest'
  BY <1>1, BufferKept
<1>7. TakeIsSound'
  <2> SUFFICES ASSUME c0_pc \in {"key", "copy", "check"} PROVE TakeIsSound'
    BY <1>1 DEF TakeIsSound
  <2>1. /\ slot0 \in Slots /\ c0_sequence \in 0 .. SequenceModulus - 1
        /\ slot1 = SlotOf(Ahead(c1_ahead)) /\ c1_hint[2] \in Nat /\ c1_ahead \in 1 .. SlotCount
    BY <1>1, ReaderMeetsPrefetch, PublishedSlot, KeyFacts DEF PublishSteps
  <2>2. CASE slot1 # slot0
    <3>1. slot_sequence'[slot0] = slot_sequence[slot0]
      BY <1>3, <2>1, <2>2
    <3>2. Untouched => Untouched'
      BY <1>1, <1>2, <3>1 DEF Untouched
    <3>3. \A d \in 1 .. 4 : Overtaken(d) => Overtaken(d)'
      BY <1>1, <1>2, <2>2, <3>1, OvertakenElsewhere DEF PublishSteps
    <3> QED
      BY <1>1, <3>2, <3>3 DEF ReadInv, TakeIsSound
  <2>3. CASE slot1 = slot0 /\ Untouched
    <3>1. slot_sequence'[slot0] = Later(c0_sequence, 1)
      BY <1>3, <2>3 DEF Untouched
    <3>2. \A n \in 1 .. SlotCount : n > c1_ahead => SlotOf(Ahead(n)) # slot0
      <4> SUFFICES ASSUME NEW n \in 1 .. SlotCount, n > c1_ahead, SlotOf(Ahead(n)) = slot0
                   PROVE  FALSE
        OBVIOUS
      <4>1. (c1_hint[2] + n) % SlotCount = (c1_hint[2] + c1_ahead) % SlotCount
        BY <2>1, <2>3 DEF SlotOf, Ahead
      <4>2. n = c1_ahead
        BY <2>1, <4>1, AheadSlotsDiffer
      <4> QED
        BY <2>1, <4>2, GeometryAssumption
    <3>3. OldScanPassed'
      BY <1>1, <1>2, <3>2 DEF OldScanPassed, Ahead
    <3>4. Overtaken(1)'
      BY <1>1, <1>2, <3>1, <3>3 DEF Overtaken, Later
    <3> QED
      BY <1>1, <3>4 DEF ReadInv, TakeIsSound
  <2>4. CASE slot1 = slot0 /\ \E d \in 1 .. 4 : Overtaken(d)
    <3>1. PICK d \in 1 .. 4 : Overtaken(d)
      BY <2>4
    <3>2. d \in {2, 4}
      BY <1>1, <3>1, OvertakenParity DEF Publishing
    <3>3. d # 4
      BY <1>1, <2>4, <3>1 DEF Overtaken, OnLastHint
    <3>4. d = 2
      BY <3>2, <3>3
    <3>5. c1_hint = prefetch_hint
      BY <1>1, <2>1, <2>4, <3>1, <3>4 DEF Overtaken, OldScanPassed, PublishSteps
    <3>6. slot_sequence'[slot0] = Later(c0_sequence, 3)
      <4>1. Later(Later(c0_sequence, 2), 1) = Later(c0_sequence, 2 + 1)
        BY <2>1, SequenceFacts
      <4> QED
        BY <1>3, <2>4, <3>1, <3>4, <4>1 DEF Overtaken
    <3>7. Overtaken(3)'
      BY <1>1, <1>2, <3>5, <3>6 DEF Overtaken, OnLastHint, Later
    <3> QED
      BY <1>1, <3>7 DEF ReadInv, TakeIsSound
  <2> QED
    BY <2>2, <2>3, <2>4 DEF ReadInv, TakeIsSound
<1> QED
  BY <1>4, <1>5, <1>6, <1>7 DEF ReadInv

(* The key and the words of a slot change only under an odd sequence. *)
LEMMA PublishKeyReads ==
  ASSUME LargeSequence, IInv, ReadInv, PublishKey
  PROVE  ReadInv'
<1>1. /\ UNCHANGED <<c0_pc, c0_status, c0_word, c0_sequence, disk_record, disk_addr,
                     prefetch_hint, view, write_addr, disk_status, c1_key, c1_hint, c1_ahead>>
      /\ UNCHANGED <<slot_sequence, slot_words, c1_word>>
      /\ c1_pc = "key" /\ c1_pc' = (IF c1_key = NoKey THEN "even" ELSE "word")
      /\ slot_key' = [slot_key EXCEPT ![slot1] = c1_key]
  BY DEF PublishKey, PublishUnchanged, SharedUnchanged, mailbox, slots, registers, c0_locals,
     core0,
     backend, core1, c1_locals
<1>2. slot1 \in Slots /\ slot1' = slot1 /\ slot0' = slot0
  BY <1>1, PublishedSlot DEF PublishSteps, slot1, slot0
<1>3. /\ slot_key'[slot1] = c1_key /\ (c1_key # NoKey => SlotOf(c1_key) = slot1)
      /\ \A x \in Slots : x # slot1 => slot_key'[x] = slot_key[x]
  BY <1>1, <1>2, PublishedSlot DEF IInv, TypeOK, PublishSteps
<1>4. \A x \in Slots : Publishing(x)' <=> Publishing(x)
  BY <1>1, <1>2 DEF Publishing
<1>5. SlotsAreSound'
  BY <1>1, <1>2, <1>3, <1>4 DEF ReadInv, SlotsAreSound, Publishing
<1>6. PublishIsOrderly'
  BY <1>1, <1>2, <1>3 DEF ReadInv, PublishIsOrderly
<1>7. ReadIsSound' /\ ReadReturnsLatest'
  BY <1>1, BufferKept
<1>8. TakeIsSound'
  <2> SUFFICES ASSUME c0_pc \in {"key", "copy", "check"} PROVE TakeIsSound'
    BY <1>1 DEF TakeIsSound
  <2>1. Untouched => Untouched'
    BY <1>1, <1>2, <1>3, UntouchedParity, ReaderMeetsPrefetch DEF Untouched, Publishing
  <2>2. ASSUME NEW d \in 1 .. 4, Overtaken(d) PROVE Overtaken(d)'
    <3>1. CASE slot1 # slot0
      BY <1>1, <1>2, <1>3, <2>2, <3>1, OvertakenElsewhere, ReaderMeetsPrefetch DEF PublishSteps
    <3>2. CASE slot1 = slot0
      <4>1. d \in {1, 3}
        BY <1>1, <2>2, <3>2, OvertakenParity DEF Publishing
      <4>2. OldScanPassed => OldScanPassed'
        BY <1>1, <1>2 DEF OldScanPassed, Ahead, PublishSteps
      <4>3. OnLastHint => OnLastHint'
        BY <1>1, <1>2 DEF OnLastHint, PublishSteps
      <4> QED
        BY <1>1, <1>2, <2>2, <4>1, <4>2, <4>3 DEF Overtaken, Later
    <3> QED
      BY <3>1, <3>2
  <2> QED
    BY <1>1, <2>1, <2>2 DEF ReadInv, TakeIsSound
<1> QED
  BY <1>5, <1>6, <1>7, <1>8 DEF ReadInv

LEMMA PublishWordReads ==
  ASSUME LargeSequence, IInv, ReadInv, PublishWord
  PROVE  ReadInv'
<1>1. /\ UNCHANGED <<c0_pc, c0_status, c0_word, c0_sequence, disk_record, disk_addr,
                     prefetch_hint, view, write_addr, disk_status, c1_key, c1_hint, c1_ahead>>
      /\ UNCHANGED <<slot_sequence, slot_key>>
      /\ c1_pc = "word"
      /\ slot_words' = [slot_words EXCEPT ![slot1][c1_word + 1] = view[c1_key][c1_word + 1]]
      /\ \/ c1_word + 1 < RecordWords /\ c1_word' = c1_word + 1 /\ c1_pc' = "word"
         \/ c1_word + 1 = RecordWords /\ c1_word' = 0 /\ c1_pc' = "even"
  BY DEF PublishWord, PublishUnchanged, SharedUnchanged, mailbox, slots, registers, c0_locals,
     core0, backend, core1, c1_locals
<1>2. slot1 \in Slots /\ slot1' = slot1 /\ slot0' = slot0
  BY <1>1, PublishedSlot DEF PublishSteps, slot1, slot0
<1>3. c1_key \in Keys /\ view[c1_key] \in Records /\ slot_words[slot1] \in Records
      /\ c1_word \in Nat /\ c1_word < RecordWords
  <2>1. c1_job = "prefetch"
    BY <1>1 DEF IInv, JobIsRight
  <2>2. c1_key \in Keys /\ c1_word < RecordWords
    BY <1>1, <2>1 DEF IInv, PublishIsSound, PublishSteps
  <2>3. view \in [Keys -> Records] /\ slot_words \in [Slots -> Records] /\ c1_word \in Nat
    BY GeometryAssumption DEF IInv, TypeOK
  <2> QED
    BY <1>2, <2>2, <2>3
<1>4. \A x \in Slots : x # slot1 => slot_words'[x] = slot_words[x]
  BY <1>1, <1>2 DEF IInv, TypeOK
<1>5. slot_words'[slot1] = [slot_words[slot1] EXCEPT ![c1_word + 1] = view[c1_key][c1_word + 1]]
  BY <1>1, <1>2 DEF IInv, TypeOK
<1>6. \A i \in 1 .. c1_word + 1 : slot_words'[slot1][i] = view[c1_key][i]
  <2>1. \A i \in 1 .. c1_word : slot_words[slot1][i] = view[c1_key][i]
    BY <1>1 DEF ReadInv, PublishIsOrderly
  <2>2. c1_word + 1 \in Index
    BY <1>3, GeometryAssumption DEF Index
  <2>3. \A i \in 1 .. c1_word + 1 : i \in Index /\ (i = c1_word + 1 \/ i \in 1 .. c1_word)
    BY <1>3, GeometryAssumption DEF Index
  <2> QED
    BY <1>3, <1>5, <2>1, <2>2, <2>3 DEF Records
<1>7. ASSUME c1_word + 1 = RecordWords PROVE slot_words'[slot1] = view[c1_key]
  <2>1. \A i \in Index : slot_words'[slot1][i] = view[c1_key][i]
    BY <1>6, <1>7 DEF Index
  <2>2. c1_word + 1 \in Index
    BY <1>3, GeometryAssumption DEF Index
  <2>3. slot_words'[slot1] \in Records
    BY <1>3, <1>5, <2>2 DEF Records
  <2> QED
    BY <1>3, <2>1, <2>3 DEF Records
<1>8. \A x \in Slots : Publishing(x)' <=> Publishing(x)
  BY <1>1, <1>2 DEF Publishing
<1>9. SlotsAreSound'
  BY <1>1, <1>2, <1>4, <1>8 DEF ReadInv, SlotsAreSound, Publishing
<1>10. PublishIsOrderly'
  BY <1>1, <1>2, <1>6, <1>7 DEF ReadInv, PublishIsOrderly
<1>11. ReadIsSound' /\ ReadReturnsLatest'
  BY <1>1, BufferKept
<1>12. TakeIsSound'
  <2> SUFFICES ASSUME c0_pc \in {"key", "copy", "check"} PROVE TakeIsSound'
    BY <1>1 DEF TakeIsSound
  <2>1. Untouched => Untouched'
    BY <1>1, <1>2 DEF Untouched
  <2>2. ASSUME NEW d \in 1 .. 4, Overtaken(d) PROVE Overtaken(d)'
    <3>1. OldScanPassed => OldScanPassed'
      BY <1>1, <1>2 DEF OldScanPassed, Ahead, PublishSteps
    <3>2. OnLastHint => OnLastHint'
      BY <1>1, <1>2 DEF OnLastHint, PublishSteps
    <3>3. HintServed => HintServed'
      BY <1>1, <1>2 DEF HintServed, HintedKey
    <3> QED
      BY <1>1, <1>2, <2>2, <3>1, <3>2, <3>3 DEF Overtaken, Later
  <2> QED
    BY <1>1, <2>1, <2>2 DEF ReadInv, TakeIsSound
<1> QED
  BY <1>9, <1>10, <1>11, <1>12 DEF ReadInv

(* Closing a publication: an older hint's scan is past the reader's slot,   *)
(* and the last hint's leaves there what the hint asks for.                 *)
LEMMA PublishEvenReads ==
  ASSUME LargeSequence, IInv, ReadInv, PublishEven
  PROVE  ReadInv'
<1>1. /\ UNCHANGED <<c0_pc, c0_status, c0_word, c0_sequence, disk_record, disk_addr,
                     prefetch_hint, view, write_addr, disk_status, c1_key, c1_hint, c1_ahead>>
      /\ UNCHANGED <<slot_key, slot_words, c1_word>>
      /\ c1_pc = "even" /\ c1_pc' = (IF c1_job = "command" THEN "write" ELSE "scan")
      /\ slot_sequence' = Advance
  BY DEF PublishEven, PublishUnchanged, SharedUnchanged, mailbox, slots, registers, c0_locals,
     core0, backend, core1, c1_locals
<1>2. slot1 \in Slots /\ slot1' = slot1 /\ slot0' = slot0
  BY <1>1, PublishedSlot DEF PublishSteps, slot1, slot0
<1>3. /\ slot_sequence[slot1] \in 0 .. SequenceModulus - 1
      /\ slot_sequence'[slot1] = Later(slot_sequence[slot1], 1)
      /\ \A x \in Slots : x # slot1 => slot_sequence'[x] = slot_sequence[x]
  <2>1. slot_sequence \in [Slots -> 0 .. SequenceModulus - 1]
    BY DEF IInv, TypeOK
  <2>2. slot_sequence[slot1] \in 0 .. SequenceModulus - 1
    BY <1>2, <2>1
  <2>3. (slot_sequence[slot1] + 1) % SequenceModulus = Later(slot_sequence[slot1], 1)
    BY <2>2, SequenceFacts
  <2> QED
    BY <1>1, <1>2, <2>1, <2>2, <2>3 DEF Advance
<1>4. slot_key[slot1] = c1_key /\ (c1_key # NoKey => slot_words[slot1] = view[c1_key])
  BY <1>1 DEF ReadInv, PublishIsOrderly
<1>5. SlotsAreSound'
  <2>1. Publishing(slot1) /\ \A x \in Slots : ~Publishing(x)'
    BY <1>1 DEF Publishing
  <2>2. slot_sequence'[slot1] % 2 = 0
    BY <1>2, <1>3, <2>1, SequenceFacts DEF ReadInv, SlotsAreSound
  <2>3. \A x \in Slots : x # slot1 => ~Publishing(x)
    BY <1>1, <1>2 DEF Publishing
  <2> QED
    BY <1>1, <1>2, <1>3, <1>4, <2>1, <2>2, <2>3 DEF ReadInv, SlotsAreSound
<1>6. PublishIsOrderly'
  <2>1. ASSUME c1_job = "command" PROVE slot_key[SlotOf(write_addr)] # write_addr
    <3>1. c1_key = NoKey /\ write_addr \in Keys
      BY <1>1, <2>1 DEF IInv, PublishIsSound
    <3> QED
      BY <1>4, <3>1, KeyFacts DEF slot1
  <2> QED
    BY <1>1, <2>1 DEF ReadInv, PublishIsOrderly
<1>7. ReadIsSound' /\ ReadReturnsLatest'
  BY <1>1, BufferKept
<1>8. TakeIsSound'
  <2> SUFFICES ASSUME c0_pc \in {"key", "copy", "check"} PROVE TakeIsSound'
    BY <1>1 DEF TakeIsSound
  <2>1. /\ slot0 \in Slots /\ c0_sequence \in 0 .. SequenceModulus - 1
        /\ c1_key # NoKey /\ c1_job = "prefetch" /\ c1_key = Ahead(c1_ahead)
        /\ slot1 = SlotOf(Ahead(c1_ahead)) /\ c1_hint[2] \in Nat /\ c1_ahead \in 1 .. SlotCount
    BY <1>1, ReaderMeetsPrefetch, PublishedSlot, KeyFacts DEF PublishSteps
  <2>2. c1_pc' = "scan"
    BY <1>1, <2>1
  <2>3. CASE slot1 # slot0
    <3>1. slot_sequence'[slot0] = slot_sequence[slot0]
      BY <1>3, <2>1, <2>3
    <3>2. Untouched => Untouched'
      BY <1>1, <1>2, <3>1 DEF Untouched
    <3>3. \A d \in 1 .. 4 : Overtaken(d) => Overtaken(d)'
      BY <1>1, <1>2, <2>2, <2>3, <3>1, OvertakenElsewhere DEF PublishSteps
    <3> QED
      BY <1>1, <3>2, <3>3 DEF ReadInv, TakeIsSound
  <2>4. CASE slot1 = slot0
    <3>1. Publishing(slot0)
      BY <1>1, <2>4 DEF Publishing
    <3>2. PICK d \in 1 .. 4 : Overtaken(d)
      BY <3>1, UntouchedParity DEF ReadInv, TakeIsSound
    <3>3. d \in {1, 3}
      BY <3>1, <3>2, OvertakenParity
    <3>4. slot_sequence'[slot0] = Later(c0_sequence, d + 1)
      BY <1>3, <2>1, <2>4, <3>2, <3>3, SequenceFacts DEF Overtaken
    <3>5. ASSUME NEW n \in 1 .. SlotCount, (c1_hint[2] + n) % SlotCount = slot0
          PROVE  n = c1_ahead
      <4>1. (c1_hint[2] + n) % SlotCount = (c1_hint[2] + c1_ahead) % SlotCount
        BY <2>1, <2>4, <3>5 DEF SlotOf, Ahead
      <4> QED
        BY <2>1, <4>1, AheadSlotsDiffer
    <3>6. CASE d = 1
      <4>1. \A n \in 1 .. SlotCount : n > c1_ahead => SlotOf(Ahead(n)) # slot0
        BY <2>1, <3>5, GeometryAssumption DEF SlotOf, Ahead
      <4>2. OldScanPassed'
        BY <1>1, <1>2, <2>2, <4>1 DEF OldScanPassed, Ahead
      <4>3. Overtaken(2)'
        BY <1>1, <1>2, <3>4, <3>6, <4>2 DEF Overtaken, Later
      <4> QED
        BY <1>1, <4>3 DEF ReadInv, TakeIsSound
    <3>7. CASE d = 3
      <4>1. c1_hint = prefetch_hint
        BY <1>1, <3>2, <3>7 DEF Overtaken, OnLastHint, PublishSteps
      <4>2. OnLastHint'
        BY <1>1, <2>2, <4>1 DEF OnLastHint
      <4>3. HintServed
        BY <1>4, <2>1, <2>4, <3>5, <4>1 DEF HintServed, HintedKey, SlotOf, Ahead
      <4>4. HintServed'
        BY <1>1, <1>2, <4>3 DEF HintServed, HintedKey
      <4>5. Overtaken(4)'
        BY <1>1, <1>2, <3>4, <3>7, <4>2, <4>4 DEF Overtaken, Later
      <4> QED
        BY <1>1, <4>5 DEF ReadInv, TakeIsSound
    <3> QED
      BY <3>3, <3>6, <3>7
  <2> QED
    BY <2>3, <2>4
<1> QED
  BY <1>5, <1>6, <1>7, <1>8 DEF ReadInv

-----------------------------------------------------------------------------
LEMMA InitReadInv ==
  ASSUME LargeSequence, Init PROVE ReadInv
<1>1. 2 % SequenceModulus = 2
  BY SequenceAssumption DEF LargeSequence
<1>2. \A s \in Slots : slot_sequence[s] % 2 = 0 /\ slot_key[s] = NoKey /\ ~Publishing(s)
  BY <1>1 DEF Init, Publishing
<1>3. SlotsAreSound
  BY <1>2 DEF SlotsAreSound
<1>4. PublishIsOrderly /\ TakeIsSound
  BY DEF Init, PublishIsOrderly, TakeIsSound
<1>5. ReadIsSound /\ ReadReturnsLatest
  BY StatusFacts DEF Init, ReadIsSound, ReadReturnsLatest
<1> QED
  BY <1>3, <1>4, <1>5 DEF ReadInv

LEMMA NextReadInv ==
  ASSUME LargeSequence, IInv, ReadInv, [Next]_vars PROVE ReadInv'
<1>1. CASE PortAccess
  BY <1>1, SelectAddressReads, StartCommandReads, DataOutReads, DataInReads DEF PortAccess
<1>2. CASE HandlerStep
  BY <1>2, StatusStoreReads, SubmitBusyReads, SubmitPendingReads, TakeSequenceReads,
     TakeKeyReads,
     TakeWordReads, TakeCheckReads, ReadFlashReads, PublishHintReads DEF HandlerStep
<1>3. CASE RequestFlush \/ Quiescing \/ \E enabled \in BOOLEAN : SetWriteEnabled(enabled)
  BY <1>3, SupervisorReads
<1>4. CASE Core1Step
  BY <1>4, ServiceReads, BackendFlushReads, BackendWriteReads, SupervisorDoneReads,
     LatchFatalReads, ClearPendingReads, PublishReadyReads, PrefetchStartReads,
     PrefetchScanReads,
     PublishOddReads, PublishKeyReads, PublishWordReads, PublishEvenReads DEF Core1Step
<1>5. CASE UNCHANGED vars
  <2> USE <1>5 DEF vars, mailbox, switches, quiescing, slots, registers, c0_locals, core0, backend,
          c1_locals,
      core1
  <2>1. SlotsAreSound' /\ PublishIsOrderly'
    BY DEF ReadInv, SlotsAreSound, PublishIsOrderly, Publishing, slot1
  <2>2. ReadIsSound' /\ ReadReturnsLatest'
    BY DEF ReadInv, ReadIsSound, ReadReturnsLatest
  <2>3. \A d \in 1 .. 4 : Overtaken(d)' <=> Overtaken(d)
    BY DEF Overtaken, Later, OldScanPassed, OnLastHint, HintServed, HintedKey, Ahead, slot0,
       slot1
  <2>4. TakeIsSound'
    BY <2>3 DEF ReadInv, TakeIsSound, Untouched, slot0
  <2> QED
    BY <2>1, <2>2, <2>4 DEF ReadInv
<1> QED
  BY <1>1, <1>2, <1>3, <1>4, <1>5 DEF Next, Quiescing

(* Whatever the read-ahead, the writes and the failing flushes do meanwhile,*)
(* the record prefetch_take or z80_flash_backend_read_record leaves in the  *)
(* buffer when DATA_READY shows is the record last written.                 *)
THEOREM ReadsAreLatest ==
  ASSUME LargeSequence PROVE Spec => []ReadReturnsLatest
<1>1. Init => ReadInv
  BY InitReadInv
<1>2. IInv /\ ReadInv /\ [Next]_vars => ReadInv'
  BY NextReadInv
<1>3. ReadInv => ReadReturnsLatest
  BY DEF ReadInv
<1> QED
  BY <1>1, <1>2, <1>3, Invariance, PTL DEF Spec

=============================================================================
