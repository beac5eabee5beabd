----------------------------- MODULE DiskDevice -----------------------------
(***************************************************************************)
(* src/common/disk_device.c: the disk controller the Z80 sees on ports      *)
(* 0x10-0x14.  Core 0 runs the port handlers, core 1 the service loop; they *)
(* share a status word, a one-command mailbox, a record buffer and the      *)
(* read-ahead slots, with no lock.  Every access to shared memory that the  *)
(* other core could tell apart is a step of its own; the cores are taken to *)
(* be sequentially consistent (the code's acquire/release pairs and fences).*)
(*                                                                         *)
(* The flash backend appears as AtomicDisk promises it: "view" is what      *)
(* z80_flash_backend_read_record returns, "dirty" says that part of it is   *)
(* not durable.  A record crosses the cores word by word.                   *)
(***************************************************************************)
EXTENDS Naturals

CONSTANTS
  DriveCount,       \* Z80_FLASH_DISK_SLOT_COUNT
  RecordCount,      \* Z80_FLASH_RECORD_COUNT
  RecordWords,      \* RECORD_WORDS
  SlotCount,        \* PREFETCH_SLOTS
  SequenceModulus,  \* a slot's sequence is an unsigned word
  Words,            \* contents of one word
  Addresses,        \* bound: the <<drive, lba>> the Z80 selects
  Commands,         \* bound: the command bytes the Z80 writes
  Payloads,         \* bound: the records the Z80 writes
  FlushFaults,      \* may a backend flush fail?
  Supervised        \* bound: does the supervisor flush and close the gate?

CLEAR == 0
READ == 1
WRITE_NORMAL == 2
WRITE_DIRECTORY == 3
WRITE_UNALLOCATED == 4
FLUSH == 5

Valid(a) == a[1] < DriveCount /\ a[2] < RecordCount
Keys == (0 .. DriveCount - 1) \X (0 .. RecordCount - 1)
Index == 1 .. RecordWords
Records == [Index -> Words]
NoKey == <<>>                      \* a slot's key, or the hint, is 0
Slots == 0 .. SlotCount - 1
SlotOf(key) == key[2] % SlotCount

Ready == {"READY"}
ReadyError == {"READY", "ERROR"}
Busy == {"BUSY"}
DataReady == {"READY", "DATA_READY"}
DataRoom == {"READY", "DATA_ROOM"}
Statuses == {Ready, ReadyError, Busy, DataReady, DataRoom}

ASSUME GeometryAssumption ==
  /\ DriveCount \in Nat /\ RecordCount \in Nat
  /\ RecordWords \in Nat \ {0} /\ SlotCount \in Nat \ {0}
ASSUME SequenceAssumption ==
  SequenceModulus \in Nat \ {0} /\ SequenceModulus % 2 = 0
ASSUME InputAssumption ==
  /\ Addresses \subseteq Nat \X Nat
  /\ Commands \subseteq Nat
  /\ Payloads \subseteq Records
  /\ FlushFaults \in BOOLEAN /\ Supervised \in BOOLEAN

VARIABLES
  \* shared by the cores
  disk_status, disk_pending, supervisor_flush, disk_fatal_error,
  disk_write_enabled,
  disk_record, write_addr, write_command,
  slot_sequence, slot_key, slot_words,    \* prefetch[]
  prefetch_hint,
  \* core 0 only
  disk_addr,                              \* disk_drive and disk_lba
  disk_data_index,
  c0_pc, c0_status, c0_command, c0_sequence, c0_word,
  \* core 1 only, and the backend it drives
  view, dirty,
  io_trap,                                \* may core 0 serve the ports?
  c1_pc, c1_job, c1_ok, c1_hint, c1_ahead, c1_key, c1_word,
  check,                                  \* where z80_flash_disk_quiescent is
  overtaken                               \* ghost: the Z80 wrote a port during it

mailbox == <<disk_pending, write_addr, write_command>>
quiescing == <<check, overtaken>>
switches == <<supervisor_flush, disk_write_enabled, quiescing>>
slots == <<slot_sequence, slot_key, slot_words>>
registers == <<disk_addr, disk_data_index>>
c0_locals == <<c0_status, c0_command, c0_sequence, c0_word>>
core0 == <<registers, c0_pc, c0_locals>>
backend == <<view, dirty, io_trap>>
c1_locals == <<c1_job, c1_ok, c1_hint, c1_ahead, c1_key, c1_word>>
core1 == <<c1_pc, c1_locals>>
vars == <<disk_status, mailbox, switches, disk_fatal_error, disk_record, slots,
          prefetch_hint, core0, backend, core1>>

C0Steps == {"idle", "store", "busy", "pending", "take", "key", "copy", "check",
            "flash", "hint"}
C1Steps == {"idle", "flush", "write", "fatal", "clear", "ready", "supervisor_done",
            "prefetch", "scan", "odd", "key", "word", "even"}
Jobs == {"command", "supervisor", "idle", "prefetch"}
Checks == {"none", "status", "cache", "quiet"}

TypeOK ==
  /\ disk_status \in Statuses
  /\ disk_pending \in Commands \cup {CLEAR}
  /\ supervisor_flush \in BOOLEAN
  /\ disk_fatal_error \in BOOLEAN
  /\ disk_write_enabled \in BOOLEAN
  /\ disk_record \in Records
  /\ write_addr \in Keys \cup {NoKey}
  /\ write_command \in Commands \cup {CLEAR}
  /\ slot_sequence \in [Slots -> 0 .. SequenceModulus - 1]
  /\ slot_key \in [Slots -> Keys \cup {NoKey}]
  /\ slot_words \in [Slots -> Records]
  /\ prefetch_hint \in Keys \cup {NoKey}
  /\ disk_addr \in Addresses
  /\ disk_data_index \in 0 .. RecordWords
  /\ c0_pc \in C0Steps
  /\ c0_status \in Statuses
  /\ c0_command \in Commands \cup {CLEAR}
  /\ c0_sequence \in 0 .. SequenceModulus - 1
  /\ c0_word \in 0 .. RecordWords
  /\ view \in [Keys -> Records]
  /\ dirty \in BOOLEAN
  /\ io_trap \in BOOLEAN
  /\ c1_pc \in C1Steps
  /\ c1_job \in Jobs
  /\ c1_ok \in BOOLEAN
  /\ c1_hint \in Keys \cup {NoKey}
  /\ c1_ahead \in 0 .. SlotCount
  /\ c1_key \in Keys \cup {NoKey}
  /\ c1_word \in 0 .. RecordWords
  /\ check \in Checks
  /\ overtaken \in BOOLEAN
  /\ c0_pc = "idle" /\ disk_status \in {DataReady, DataRoom} => disk_data_index < RecordWords

-----------------------------------------------------------------------------
(* Core 0: one port access at a time, each ending with a status store.      *)

(* The last act of a handler. *)
Store(status) ==
  /\ c0_pc' = "store"
  /\ c0_status' = status

StatusStore ==
  /\ c0_pc = "store"
  /\ disk_status' = c0_status
  /\ c0_pc' = "idle"
  /\ c0_status' = Ready
  /\ UNCHANGED <<mailbox, switches, disk_fatal_error, disk_record, slots,
                 prefetch_hint, registers, c0_command, c0_sequence, c0_word,
                 backend, core1>>

(* disk_submit: BUSY is stored before the command is published. *)
Submit(command) ==
  /\ c0_pc' = "busy"
  /\ c0_command' = command

SubmitBusySkipped ==   \* mutant: the command is published on a READY device
  /\ c0_pc = "busy"
  /\ c0_pc' = "pending"
  /\ UNCHANGED <<disk_status, mailbox, switches, disk_fatal_error, disk_record, slots,
                 prefetch_hint, registers, c0_locals, backend, core1>>

SubmitBusy ==
  /\ c0_pc = "busy"
  /\ disk_status' = Busy
  /\ c0_pc' = "pending"
  /\ UNCHANGED <<mailbox, switches, disk_fatal_error, disk_record, slots,
                 prefetch_hint, registers, c0_locals, backend, core1>>

SubmitPending ==
  /\ c0_pc = "pending"
  /\ disk_pending' = c0_command
  /\ c0_pc' = "idle"
  /\ c0_command' = CLEAR
  /\ UNCHANGED <<disk_status, write_addr, write_command, switches,
                 disk_fatal_error, disk_record, slots, prefetch_hint, registers,
                 c0_status, c0_sequence, c0_word, backend, core1>>

(* An OUT is looked at only with the gate open and the device not busy.     *)
(* Nothing but core 0 makes it busy, so both loads are one step.            *)
AcceptsBusy == c0_pc = "idle" /\ io_trap /\ disk_write_enabled   \* mutant

Accepts == c0_pc = "idle" /\ io_trap /\ disk_write_enabled /\ "BUSY" \notin disk_status

(* Core 1 may be asking whether the disk is quiescent.                      *)
Overtakes == overtaken' = (check # "none") /\ UNCHANGED <<supervisor_flush, disk_write_enabled, check>>

(* OUT 0x11, 0x12, 0x13.  The addresses between two of them are addresses. *)
SelectAddress(a) ==
  /\ Accepts
  /\ disk_addr' = a
  /\ UNCHANGED <<disk_status, mailbox, switches, disk_fatal_error, disk_record,
                 slots, prefetch_hint, disk_data_index, c0_pc, c0_locals,
                 backend, core1>>

(* OUT 0x10: disk_start_command up to its first store. *)
StartCommand(command) ==
  /\ Accepts
  /\ LET refused == disk_fatal_error /\ command # CLEAR
         addressed == command \notin {CLEAR, FLUSH} /\ Valid(disk_addr)
     IN \/ /\ command = CLEAR
           /\ disk_data_index' = 0
           /\ Store(IF disk_fatal_error THEN ReadyError ELSE Ready)
           /\ UNCHANGED <<write_addr, write_command, c0_command>>
        \/ /\ refused \/ (command \notin {CLEAR, FLUSH} /\ ~Valid(disk_addr))
           /\ Store(ReadyError)
           /\ UNCHANGED <<disk_data_index, write_addr, write_command, c0_command>>
        \/ /\ ~refused /\ command = FLUSH
           /\ Submit(command)
           /\ UNCHANGED <<disk_data_index, write_addr, write_command, c0_status>>
        \/ /\ ~refused /\ addressed
           /\ disk_data_index' = 0
           /\ \/ /\ command = READ
                 /\ c0_pc' = "take"
                 /\ UNCHANGED <<write_addr, write_command, c0_status>>
              \/ /\ command \in WRITE_NORMAL .. WRITE_UNALLOCATED
                 /\ write_addr' = disk_addr
                 /\ write_command' = command
                 /\ Store(DataRoom)
              \/ /\ command > FLUSH
                 /\ Store(ReadyError)
                 /\ UNCHANGED <<write_addr, write_command>>
           /\ UNCHANGED c0_command
  /\ Overtakes
  /\ UNCHANGED <<disk_status, disk_pending, disk_fatal_error,
                 disk_record, slots, prefetch_hint, disk_addr, c0_sequence,
                 c0_word, backend, core1>>

(* OUT 0x14; the last word of the record submits the write. *)
DataOutLate(word) ==   \* mutant: the write is submitted one word late
  /\ Accepts
  /\ "DATA_ROOM" \in disk_status
  /\ disk_record' = [disk_record EXCEPT ![disk_data_index + 1] = word]
  /\ disk_data_index' = disk_data_index + 1
  /\ Overtakes
  /\ UNCHANGED <<disk_status, mailbox, disk_fatal_error, slots,
                 prefetch_hint, disk_addr, c0_pc, c0_locals, backend, core1>>

DataOut(word) ==
  /\ Accepts
  /\ "DATA_ROOM" \in disk_status
  /\ disk_record' = [disk_record EXCEPT ![disk_data_index + 1] = word]
  /\ disk_data_index' = disk_data_index + 1
  /\ \/ /\ disk_data_index' = RecordWords
        /\ Submit(write_command)
     \/ /\ disk_data_index' # RecordWords
        /\ UNCHANGED <<c0_pc, c0_command>>
  /\ Overtakes
  /\ UNCHANGED <<disk_status, mailbox, disk_fatal_error, slots,
                 prefetch_hint, disk_addr, c0_status, c0_sequence, c0_word,
                 backend, core1>>

(* IN 0x14, which the gate does not stop. *)
DataIn ==
  /\ c0_pc = "idle"
  /\ io_trap
  /\ "DATA_READY" \in disk_status
  /\ disk_data_index' = disk_data_index + 1
  /\ \/ /\ disk_data_index' = RecordWords
        /\ Store(Ready)
     \/ /\ disk_data_index' # RecordWords
        /\ UNCHANGED <<c0_pc, c0_status>>
  /\ UNCHANGED <<disk_status, mailbox, switches, disk_fatal_error, disk_record,
                 slots, prefetch_hint, disk_addr, c0_command, c0_sequence,
                 c0_word, backend, core1>>

-----------------------------------------------------------------------------
(* Core 0: READ.  prefetch_take, then flash if the slot does not do.        *)

slot0 == SlotOf(disk_addr)

ReadUnchanged ==
  UNCHANGED <<disk_status, mailbox, switches, disk_fatal_error, slots,
              registers, c0_command, backend, core1>>

TakeSequence ==
  /\ c0_pc = "take"
  /\ \/ /\ slot_sequence[slot0] % 2 = 1
        /\ c0_pc' = "flash"
        /\ UNCHANGED c0_sequence
     \/ /\ slot_sequence[slot0] % 2 = 0
        /\ c0_sequence' = slot_sequence[slot0]
        /\ c0_pc' = "key"
  /\ UNCHANGED <<disk_record, prefetch_hint, c0_status, c0_word>>
  /\ ReadUnchanged

TakeKey ==
  /\ c0_pc = "key"
  /\ c0_pc' = IF slot_key[slot0] = disk_addr THEN "copy" ELSE "flash"
  /\ UNCHANGED <<disk_record, prefetch_hint, c0_status, c0_sequence, c0_word>>
  /\ ReadUnchanged

(* The next word of the record from a source; "after" follows the last. *)
CopyWord(source, after) ==
  LET i == c0_word + 1 IN
  /\ \E word \in source[i] : disk_record' = [disk_record EXCEPT ![i] = word]
  /\ \/ i < RecordWords /\ c0_word' = i /\ UNCHANGED c0_pc
     \/ i = RecordWords /\ c0_word' = 0 /\ c0_pc' = after

TakeWord ==
  /\ c0_pc = "copy"
  /\ CopyWord([i \in Index |-> {slot_words[slot0][i]}], "check")
  /\ UNCHANGED <<prefetch_hint, c0_status, c0_sequence>>
  /\ ReadUnchanged

TakeUnchecked ==       \* mutant: the sequence is not read again after the copy
  /\ c0_pc = "check"
  /\ c0_pc' = "hint"
  /\ c0_sequence' = 0
  /\ UNCHANGED <<disk_record, prefetch_hint, c0_status, c0_word>>
  /\ ReadUnchanged

TakeCheck ==
  /\ c0_pc = "check"
  /\ c0_pc' = IF slot_sequence[slot0] = c0_sequence THEN "hint" ELSE "flash"
  /\ c0_sequence' = 0
  /\ UNCHANGED <<disk_record, prefetch_hint, c0_status, c0_word>>
  /\ ReadUnchanged

(* z80_flash_backend_read_record without a lock: while core 1 rewrites the  *)
(* cached sector a word may be anything.                                    *)
ReadFlash ==
  /\ c0_pc = "flash"
  /\ CopyWord([i \in Index |-> IF c1_pc = "write" THEN Words ELSE {view[disk_addr][i]}],
              "hint")
  /\ c0_sequence' = 0
  /\ UNCHANGED <<prefetch_hint, c0_status>>
  /\ ReadUnchanged

PublishHint ==
  /\ c0_pc = "hint"
  /\ prefetch_hint' = disk_addr
  /\ Store(DataReady)
  /\ UNCHANGED <<disk_record, c0_sequence, c0_word>>
  /\ ReadUnchanged

-----------------------------------------------------------------------------
(* Core 0's supervisor loop, and the reboot service's gate: closed by       *)
(* z80_io_service_submit on core 0, opened again by the worker on core 1.   *)

CoresUnchanged ==
  UNCHANGED <<disk_status, mailbox, disk_fatal_error, disk_record, slots,
              prefetch_hint, core0, backend, core1>>

RequestFlush ==
  /\ Supervised
  /\ c0_pc = "idle"
  /\ supervisor_flush' = TRUE
  /\ UNCHANGED <<disk_write_enabled, quiescing>>
  /\ CoresUnchanged

SetWriteEnabled(enabled) ==
  /\ Supervised
  /\ IF enabled THEN c1_pc = "idle" /\ check = "none" ELSE c0_pc = "idle"
  /\ disk_write_enabled' = enabled
  /\ UNCHANGED <<supervisor_flush, quiescing>>
  /\ CoresUnchanged

-----------------------------------------------------------------------------
(* Core 1: z80_flash_core1_service.                                         *)

SharedUnchanged ==
  UNCHANGED <<switches, disk_record, write_addr, write_command, prefetch_hint, core0>>

ServesAfterFatal == c1_pc = "idle" /\ check = "none"   \* mutant: the error is not looked at

Serves == c1_pc = "idle" /\ check = "none" /\ ~disk_fatal_error

(* A fatal error returns at once; otherwise the command slot, then the      *)
(* supervisor's flush, then an overdue cache, then read-ahead.              *)
Service ==
  /\ Serves
  /\ \/ /\ disk_pending = FLUSH
        /\ c1_job' = "command" /\ c1_pc' = "flush"
     \/ /\ disk_pending \notin {CLEAR, FLUSH}
        /\ c1_job' = "command"
        \* prefetch_invalidate
        /\ c1_pc' = IF slot_key[SlotOf(write_addr)] = write_addr THEN "odd" ELSE "write"
     \/ /\ disk_pending = CLEAR /\ supervisor_flush
        /\ c1_job' = "supervisor" /\ c1_pc' = "flush"
     \/ /\ disk_pending = CLEAR /\ ~supervisor_flush /\ dirty   \* flush_due
        /\ c1_job' = "idle" /\ c1_pc' = "flush"
     \/ /\ disk_pending = CLEAR /\ ~supervisor_flush
        /\ c1_job' = "prefetch" /\ c1_pc' = "prefetch"
  /\ UNCHANGED <<disk_status, disk_pending, disk_fatal_error, slots, backend,
                 c1_ok, c1_hint, c1_ahead, c1_key, c1_word>>
  /\ SharedUnchanged

(* What flush_disk_cache may do to a dirty cache: commit it; fail with the  *)
(* sector still dirty; or fail to give the bus back, which leaves the port  *)
(* trap off.                                                                *)
CacheCommitted == dirty' = FALSE /\ UNCHANGED io_trap
CacheNotCommitted ==
  /\ FlushFaults
  /\ \/ dirty' = TRUE /\ UNCHANGED io_trap
     \/ dirty' \in BOOLEAN /\ io_trap' = FALSE

(* z80_flash_backend_flush.  A dirty cache needs the bus: core 0 grants it  *)
(* from its loop, between two port accesses, and the Z80 stays off the bus  *)
(* until the flash is readable again.                                       *)
BackendFlush ==
  /\ c1_pc = "flush"
  /\ dirty => c0_pc = "idle"
  /\ \/ c1_ok' = TRUE /\ CacheCommitted
     \/ c1_ok' = FALSE /\ dirty /\ CacheNotCommitted
  /\ c1_pc' = CASE c1_job = "supervisor" -> "supervisor_done"
                [] c1_job # "supervisor" /\ ~c1_ok' -> "fatal"
                [] c1_job = "command" /\ c1_ok' -> "clear"
                [] c1_job = "idle" /\ c1_ok' -> "prefetch"
  /\ UNCHANGED <<disk_status, disk_pending, disk_fatal_error, slots, view,
                 c1_job, c1_hint, c1_ahead, c1_key, c1_word>>
  /\ SharedUnchanged

(* z80_flash_backend_write_record: it may first flush another sector, and   *)
(* a directory write ends with a flush; FlashBackend has the detail.        *)
BackendWrite ==
  /\ c1_pc = "write"
  /\ LET changed == view[write_addr] # disk_record
         written == view' = [view EXCEPT ![write_addr] = disk_record]
     IN \/ /\ dirty /\ CacheNotCommitted
           /\ c1_ok' = FALSE
           /\ UNCHANGED view
        \/ /\ disk_pending # WRITE_DIRECTORY
           /\ written
           /\ dirty' \in (IF changed THEN {TRUE} ELSE {dirty, FALSE})
           /\ c1_ok' = TRUE
           /\ UNCHANGED io_trap
        \/ /\ disk_pending = WRITE_DIRECTORY
           /\ written
           /\ \/ c1_ok' = TRUE /\ CacheCommitted
              \/ c1_ok' = FALSE /\ (dirty \/ changed) /\ CacheNotCommitted
  /\ c1_pc' = IF c1_ok' THEN "clear" ELSE "fatal"
  /\ UNCHANGED <<disk_status, disk_pending, disk_fatal_error, slots,
                 c1_job, c1_hint, c1_ahead, c1_key, c1_word>>
  /\ SharedUnchanged

SupervisorDone ==
  /\ c1_pc = "supervisor_done"
  /\ supervisor_flush' = FALSE
  /\ c1_pc' = IF c1_ok THEN "prefetch" ELSE "fatal"
  /\ UNCHANGED <<disk_status, mailbox, disk_write_enabled, quiescing, disk_fatal_error,
                 disk_record, slots, prefetch_hint, core0, backend, c1_locals>>

LatchFatal ==
  /\ c1_pc = "fatal"
  /\ disk_fatal_error' = TRUE
  /\ c1_pc' = IF c1_job = "command" THEN "clear" ELSE "ready"
  /\ UNCHANGED <<disk_status, disk_pending, slots, backend, c1_locals>>
  /\ SharedUnchanged

ClearPending ==
  /\ c1_pc = "clear"
  /\ disk_pending' = CLEAR
  /\ c1_pc' = "ready"
  /\ UNCHANGED <<disk_status, disk_fatal_error, slots, backend, c1_locals>>
  /\ SharedUnchanged

CompletionOnError == IF c1_ok THEN disk_status ELSE ReadyError   \* mutant
Completion == IF c1_ok THEN Ready ELSE ReadyError

(* The last store of a command, or of a failed flush. *)
PublishReady ==
  /\ c1_pc = "ready"
  /\ disk_status' = Completion
  /\ c1_pc' = IF c1_ok THEN "prefetch" ELSE "idle"
  /\ c1_ok' = TRUE
  /\ UNCHANGED <<disk_pending, disk_fatal_error, slots, backend,
                 c1_job, c1_hint, c1_ahead, c1_key, c1_word>>
  /\ SharedUnchanged

-----------------------------------------------------------------------------
(* Core 1: prefetch_service and prefetch_publish.                           *)

slot1 == IF c1_key = NoKey THEN SlotOf(write_addr) ELSE SlotOf(c1_key)

(* The next record that is not in its slot yet; none ends the service.      *)
Ahead(n) == <<c1_hint[1], c1_hint[2] + n>>
Missing(n) ==
  /\ n \in c1_ahead + 1 .. SlotCount
  /\ Ahead(n)[2] < RecordCount
  /\ slot_key[SlotOf(Ahead(n))] # Ahead(n)

PrefetchStart ==
  /\ c1_pc = "prefetch"
  /\ c1_hint' = prefetch_hint
  /\ c1_job' = "prefetch"
  /\ c1_pc' = IF prefetch_hint = NoKey THEN "idle" ELSE "scan"
  /\ UNCHANGED <<disk_status, disk_pending, disk_fatal_error, slots, backend,
                 c1_ok, c1_ahead, c1_key, c1_word>>
  /\ SharedUnchanged

PrefetchScan ==
  /\ c1_pc = "scan"
  /\ \/ \E n \in 1 .. SlotCount :
          /\ Missing(n) /\ \A m \in 1 .. n - 1 : ~Missing(m)
          /\ c1_ahead' = n
          /\ c1_key' = Ahead(n)
          /\ c1_pc' = "odd"
          /\ UNCHANGED c1_hint
     \/ /\ \A n \in 1 .. SlotCount : ~Missing(n)
        /\ c1_ahead' = 0
        /\ c1_key' = NoKey
        /\ c1_hint' = NoKey
        /\ c1_pc' = "idle"
  /\ UNCHANGED <<disk_status, disk_pending, disk_fatal_error, slots, backend,
                 c1_job, c1_ok, c1_word>>
  /\ SharedUnchanged

PublishUnchanged ==
  /\ UNCHANGED <<disk_status, disk_pending, disk_fatal_error, backend,
                 c1_ok, c1_hint, c1_ahead>>
  /\ SharedUnchanged

Advance == [slot_sequence EXCEPT ![slot1] = (@ + 1) % SequenceModulus]

PublishOdd ==
  /\ c1_pc = "odd"
  /\ slot_sequence' = Advance
  /\ c1_pc' = "key"
  /\ UNCHANGED <<slot_key, slot_words, c1_job, c1_key, c1_word>>
  /\ PublishUnchanged

PublishKey ==
  /\ c1_pc = "key"
  /\ slot_key' = [slot_key EXCEPT ![slot1] = c1_key]
  /\ c1_pc' = IF c1_key = NoKey THEN "even" ELSE "word"
  /\ UNCHANGED <<slot_sequence, slot_words, c1_job, c1_key, c1_word>>
  /\ PublishUnchanged

(* The words were read from the backend just before: only core 1 changes it. *)
PublishWord ==
  /\ c1_pc = "word"
  /\ LET i == c1_word + 1 IN
       /\ slot_words' = [slot_words EXCEPT ![slot1][i] = view[c1_key][i]]
       /\ \/ i < RecordWords /\ c1_word' = i /\ UNCHANGED c1_pc
          \/ i = RecordWords /\ c1_word' = 0 /\ c1_pc' = "even"
  /\ UNCHANGED <<slot_sequence, slot_key, c1_job, c1_key>>
  /\ PublishUnchanged

PublishEven ==
  /\ c1_pc = "even"
  /\ slot_sequence' = Advance
  /\ c1_pc' = IF c1_job = "command" THEN "write" ELSE "scan"
  /\ UNCHANGED <<slot_key, slot_words, c1_job, c1_key, c1_word>>
  /\ PublishUnchanged

-----------------------------------------------------------------------------
(* Core 1 between two services: z80_flash_disk_quiescent, load by load.     *)

CheckUnchanged ==
  UNCHANGED <<disk_status, mailbox, supervisor_flush, disk_write_enabled,
              disk_fatal_error, disk_record, slots, prefetch_hint, core0, backend, core1>>

QuiescentFlush ==
  /\ Supervised /\ c1_pc = "idle" /\ check = "none"
  /\ ~supervisor_flush
  /\ check' = "status" /\ overtaken' = FALSE
  /\ CheckUnchanged

QuiescentWhileRoom ==  \* mutant: any status that is not BUSY will do
  /\ check = "status"
  /\ check' = IF "BUSY" \notin disk_status THEN "cache" ELSE "none"
  /\ UNCHANGED overtaken
  /\ CheckUnchanged

QuiescentStatus ==
  /\ check = "status"
  /\ check' = IF disk_status = Ready THEN "cache" ELSE "none"
  /\ UNCHANGED overtaken
  /\ CheckUnchanged

QuiescentCache ==
  /\ check = "cache"
  /\ check' = IF dirty THEN "none" ELSE "quiet"
  /\ UNCHANGED overtaken
  /\ CheckUnchanged

(* The caller has its answer and goes on.                                   *)
QuiescentDone ==
  /\ check = "quiet"
  /\ check' = "none" /\ overtaken' = FALSE
  /\ CheckUnchanged

-----------------------------------------------------------------------------
Init ==
  /\ disk_status = Ready
  /\ disk_pending = CLEAR
  /\ supervisor_flush = FALSE
  /\ disk_fatal_error = FALSE
  /\ disk_write_enabled = TRUE
  /\ view \in [Keys -> Payloads]
  /\ disk_record \in Payloads
  /\ write_addr = NoKey
  /\ write_command = CLEAR
  /\ slot_sequence = [s \in Slots |-> 2 % SequenceModulus]  \* storage_init publishes 0
  /\ slot_key = [s \in Slots |-> NoKey]
  /\ slot_words = [s \in Slots |-> disk_record]
  /\ prefetch_hint = NoKey
  /\ disk_addr \in Addresses
  /\ disk_data_index = 0
  /\ c0_pc = "idle"
  /\ c0_status = Ready
  /\ c0_command = CLEAR
  /\ c0_sequence = 0
  /\ c0_word = 0
  /\ dirty = FALSE
  /\ io_trap = TRUE
  /\ c1_pc = "idle"
  /\ c1_job = "idle"
  /\ c1_ok = TRUE
  /\ c1_hint = NoKey
  /\ c1_ahead = 0
  /\ c1_key = NoKey
  /\ c1_word = 0
  /\ check = "none" /\ overtaken = FALSE

(* The Z80: any port access; a written record is one of Payloads. *)
NextWords ==
  {p[disk_data_index + 1] :
     p \in {q \in Payloads : \A i \in 1 .. disk_data_index : q[i] = disk_record[i]}}

PortAccess ==
  \/ \E a \in Addresses : SelectAddress(a)
  \/ \E command \in Commands : StartCommand(command)
  \/ \E word \in (IF disk_data_index < RecordWords THEN NextWords ELSE {}) : DataOut(word)
  \/ DataIn

HandlerStep ==
  \/ StatusStore \/ SubmitBusy \/ SubmitPending
  \/ TakeSequence \/ TakeKey \/ TakeWord \/ TakeCheck \/ ReadFlash \/ PublishHint

Core1Step ==
  \/ Service \/ BackendFlush \/ BackendWrite \/ SupervisorDone
  \/ LatchFatal \/ ClearPending \/ PublishReady
  \/ PrefetchStart \/ PrefetchScan \/ PublishOdd \/ PublishKey \/ PublishWord \/ PublishEven

CheckStep == QuiescentStatus \/ QuiescentCache \/ QuiescentDone

Next ==
  \/ PortAccess
  \/ HandlerStep
  \/ RequestFlush
  \/ \E enabled \in BOOLEAN : SetWriteEnabled(enabled)
  \/ Core1Step
  \/ QuiescentFlush \/ CheckStep

(* A handler runs to its end in the trap; core 1 loops over its services,   *)
(* each of which comes round again however often the disk is asked between. *)
Fairness ==
  /\ WF_vars(HandlerStep)
  /\ WF_vars(Core1Step) /\ WF_vars(CheckStep) /\ SF_vars(Service)

Spec == Init /\ [][Next]_vars
FairSpec == Spec /\ Fairness

-----------------------------------------------------------------------------
(* Properties.                                                              *)

(* A record offered on the data port is the record last written there: a    *)
(* copy torn by the read-ahead, a slot older than the backend's cache, or a *)
(* word read while core 1 changes the cache never reaches the Z80.  After a *)
(* READ prefetch_hint names the record.                                     *)
ReadReturnsLatest ==
  disk_status = DataReady /\ c0_pc \in {"idle", "store"} =>
    disk_record = view[prefetch_hint]

(* z80_flash_backend_read_record on core 0 never overlaps                   *)
(* z80_flash_backend_write_record on core 1, though nothing locks the cache.*)
NoCacheRace == ~(c0_pc = "flash" /\ c1_pc = "write")

(* Until an error is latched the mailbox and BUSY agree, though they are two *)
(* words stored one after the other: a busy device has a command on its way *)
(* to core 1 or an answer on its way back, and while a command waits or is  *)
(* served the device stays busy and core 0 out of its handlers, so nothing  *)
(* the Z80 does reaches the record, the address and the command core 1 uses. *)
(* (Once an error is latched BUSY may have nobody left: FatalIsNotBusy.)    *)
HandshakeIsSound ==
  ~disk_fatal_error =>
    /\ "BUSY" \in disk_status =>
         c0_pc = "pending" \/ disk_pending # CLEAR \/ c1_pc = "ready"
    /\ disk_pending # CLEAR => "BUSY" \in disk_status /\ c0_pc = "idle"

(* No write is on its way: not in the mailbox, not in a handler about to    *)
(* publish it.  (A FLUSH may be; it has nothing left to do.)                *)
Settled ==
  /\ disk_pending \in {CLEAR, FLUSH}
  /\ c0_pc \in {"busy", "pending"} => c0_command = FLUSH

(* z80_flash_disk_quiescent, on which stopping and rebooting rely, loads     *)
(* three words that the other core changes meanwhile.  When it answers yes, *)
(* every write the Z80 completed before the question was asked is durable,  *)
(* and a write is on its way only if the Z80 used the ports since.          *)
QuiescentIsSettled == check = "quiet" => ~dirty /\ (overtaken \/ Settled)

(* After a failed flush the device changes nothing any more, neither by a   *)
(* queued write nor by a background flush, and never forgets the error.     *)
FatalIsFinal ==
  [][disk_fatal_error => disk_fatal_error' /\ UNCHANGED <<view, dirty>>]_vars

(* Every command the Z80 waits for ends, or the fatal error is latched.     *)
CommandCompletes == "BUSY" \in disk_status ~> ("BUSY" \notin disk_status \/ disk_fatal_error)

(* After a flash failure every command keeps READY|ERROR: the device does   *)
(* not stay busy.                                                           *)
FatalIsNotBusy == disk_fatal_error ~> "BUSY" \notin disk_status
=============================================================================
