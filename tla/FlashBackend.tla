---------------------------- MODULE FlashBackend ----------------------------
(***************************************************************************)
(* src/common/flash_backend.c: the write-back sector cache, the journaled  *)
(* sector write and journal recovery, with the supply cut (or the          *)
(* supervisor rebooted) between any two flash operations.                   *)
(*                                                                         *)
(* Core 1 is the only writer.  One flash_range_erase/flash_range_program    *)
(* call is one action; Torn stands for every sector content that is not a   *)
(* whole sector somebody wrote (erased, half programmed, misprogrammed), so *)
(* a cut inside a flash operation leaves a state this model reaches by      *)
(* cutting before or after it.  CRCs are modelled as exact: a header holds  *)
(* the data its data_crc32 was computed from.                               *)
(***************************************************************************)
EXTENDS Naturals

CONSTANTS
  Blocks,         \* disk sectors, as (drive, block_offset) pairs
  Recs,           \* the records of one sector
  Vals,           \* contents of a record
  PairCount,      \* FLASH_JOURNAL_PAIR_COUNT
  MaxSequence,    \* bound: flushes between two boots
  FlashFaults,    \* may a program or an erase leave the wrong content?
  RebootService,  \* may the reboot service flush (io_service.c)?
  Torn,           \* content of a sector that is no whole sector
  None            \* no header, no cached block, no waiting write

Pairs == 0 .. PairCount - 1
Data == [Recs -> Vals]
Headers == [sequence : Nat, target : Blocks, data : Data]
Writes == [block : Blocks, rec : Recs, val : Vals, dir : BOOLEAN]
Zeroed == [r \in Recs |-> CHOOSE v \in Vals : TRUE]   \* memset of disk_cache

ASSUME PairCountAssumption == PairCount \in Nat \ {0}
ASSUME BoundAssumption == MaxSequence \in Nat
ASSUME SwitchAssumption == FlashFaults \in BOOLEAN /\ RebootService \in BOOLEAN
ASSUME ValsAssumption == Vals # {}
ASSUME TornAssumption == Torn \notin Data
ASSUME NoneAssumption == None \notin Blocks /\ None \notin Headers /\ None \notin Writes

VARIABLES
  target,             \* flash: the disk sectors
  header,             \* flash: per pair, its header; None when not valid
  journal,            \* flash: per pair, its data sector
  cache_block,        \* disk_cache.drive/.block_offset; None when not valid
  cache_data,         \* disk_cache.data
  dirty,              \* disk_cache.dirty
  journal_sequence,
  next_journal_pair,
  pair,               \* the pair of the flush or the restore under way
  waiting,            \* the write that select_disk_cache flushes for
  replay,             \* recover_journal's valid[]: pairs still to restore
  latched,            \* disk_fatal_error (disk_device.c): core 1 serves no more
  reporter,           \* who asked for the flush: "disk" latches its failure
  pc

flash == <<target, header, journal>>
cache == <<cache_block, cache_data, dirty>>
cursor == <<journal_sequence, next_journal_pair>>
vars == <<target, header, journal, cache_block, cache_data, dirty,
          journal_sequence, next_journal_pair, pair, waiting, replay,
          latched, reporter, pc>>

Flushing == {"acquire", "erase_header", "erase_data", "program_data",
             "program_header", "verify_journal", "erase_target",
             "program_target", "verify_target", "clear_header", "release"}
Recovering == {"scan", "select", "restore_erase", "restore_program",
               "restore_verify", "restore_clear"}
Stopped == {"idle", "boot_failed"}

TypeOK ==
  /\ target \in [Blocks -> Data \cup {Torn}]
  /\ header \in [Pairs -> Headers \cup {None}]
  /\ journal \in [Pairs -> Data \cup {Torn}]
  /\ cache_block \in Blocks \cup {None}
  /\ cache_data \in Data
  /\ dirty \in BOOLEAN
  /\ journal_sequence \in Nat
  /\ next_journal_pair \in Pairs
  /\ pair \in Pairs
  /\ waiting \in Writes \cup {None}
  /\ replay \in SUBSET Pairs
  /\ latched \in BOOLEAN
  /\ reporter \in {"disk", "reboot"}
  /\ pc \in Flushing \cup Recovering \cup Stopped

(* Both ends of a program or erase call: the content it should leave, and   *)
(* what a failing flash part leaves instead.                                *)
Programmed(good, bad) == {good} \cup (IF FlashFaults THEN {bad} ELSE {})

(* RAM after a reset: boot starts over at recover_journal. *)
ColdRam ==
  /\ cache_block' = None
  /\ cache_data' = Zeroed
  /\ dirty' = FALSE
  /\ journal_sequence' = 0
  /\ next_journal_pair' = 0
  /\ pair' = 0
  /\ waiting' = None
  /\ replay' = {}
  /\ latched' = FALSE
  /\ reporter' = "disk"
  /\ pc' = "scan"

-----------------------------------------------------------------------------
(* Serving records: z80_flash_backend_write_record, select_disk_cache,      *)
(* z80_flash_backend_flush.                                                 *)

(* select_disk_cache's reload, then the record write of write_record: only  *)
(* a different record makes the sector dirty, and a directory write         *)
(* (write_type 1) goes on to flush_disk_cache, which returns at once when   *)
(* the sector is clean.                                                     *)
ApplyWriteUnloaded(w) ==    \* mutant: the selected sector is not reloaded
  LET now_dirty == cache_data[w.rec] # w.val
  IN /\ cache_block' = w.block
     /\ cache_data' = [cache_data EXCEPT ![w.rec] = w.val]
     /\ dirty' = now_dirty
     /\ waiting' = None
     /\ pc' = IF w.dir /\ now_dirty THEN "acquire" ELSE "idle"

ApplyWrite(w) ==
  LET base == IF cache_block = w.block THEN cache_data ELSE target[w.block]
      stays_dirty == dirty /\ cache_block = w.block
      now_dirty == stays_dirty \/ base[w.rec] # w.val
  IN /\ cache_block' = w.block
     /\ cache_data' = [base EXCEPT ![w.rec] = w.val]
     /\ dirty' = now_dirty
     /\ waiting' = None
     /\ pc' = IF w.dir /\ now_dirty THEN "acquire" ELSE "idle"

WriteRecord(w) ==
  /\ pc = "idle"
  /\ ~latched
  /\ reporter' = "disk"
  /\ \/ /\ cache_block = w.block \/ ~dirty
        /\ ApplyWrite(w)
     \/ /\ cache_block # w.block /\ dirty
        /\ waiting' = w
        /\ pc' = "acquire"
        /\ UNCHANGED cache
  /\ UNCHANGED <<flash, cursor, pair, replay, latched>>

(* The disk FLUSH command, the supervisor flush and the idle flush. *)
Flush ==
  /\ pc = "idle"
  /\ ~latched
  /\ dirty
  /\ reporter' = "disk"
  /\ pc' = "acquire"
  /\ UNCHANGED <<flash, cache, cursor, pair, waiting, replay, latched>>

(* utility_service operation 2 calls z80_flash_backend_flush itself: it     *)
(* does not look at disk_fatal_error before and does not set it after.      *)
RebootFlush ==
  /\ RebootService
  /\ pc = "idle"
  /\ dirty
  /\ reporter' = "reboot"
  /\ pc' = "acquire"
  /\ UNCHANGED <<flash, cache, cursor, pair, waiting, replay, latched>>

-----------------------------------------------------------------------------
(* flush_disk_cache and, inside flash_safe_execute, write_callback.         *)

(* A flush that returns false: core 1 latches the fatal error, unless the   *)
(* reboot service asked.                                                    *)
FlushFailsUnlatched ==      \* mutant: no failure is latched
  /\ waiting' = None
  /\ pc' = "idle"
  /\ UNCHANGED <<cache, latched>>

FlushFails ==
  /\ latched' = (latched \/ reporter = "disk")
  /\ waiting' = None
  /\ pc' = "idle"
  /\ UNCHANGED cache

NextPairUnwrapped == next_journal_pair + 1   \* mutant

NextPair == (next_journal_pair + 1) % PairCount

(* request_core0(ACQUIRE_BUS); on success the pair and the sequence advance. *)
AcquireBus ==
  /\ pc = "acquire"
  /\ journal_sequence < MaxSequence
  /\ \/ /\ FlushFails
        /\ UNCHANGED <<cursor, pair>>
     \/ /\ pair' = next_journal_pair
        /\ next_journal_pair' = NextPair
        /\ journal_sequence' = journal_sequence + 1
        /\ pc' = "erase_header"
        /\ UNCHANGED <<cache, waiting, latched>>
  /\ UNCHANGED <<flash, replay, reporter>>

(* flash_range_erase of the pair clears the header's sector first. *)
ErasePairHeader ==
  /\ pc = "erase_header"
  /\ header' = [header EXCEPT ![pair] = None]
  /\ pc' = "erase_data"
  /\ UNCHANGED <<target, journal, cache, cursor, pair, waiting, replay, latched, reporter>>

ErasePairDataHeaderFirst == \* mutant: the header is programmed before the data
  /\ pc = "erase_data"
  /\ journal' = [journal EXCEPT ![pair] = Torn]
  /\ pc' = "program_header"
  /\ UNCHANGED <<target, header, cache, cursor, pair, waiting, replay, latched, reporter>>

ErasePairData ==
  /\ pc = "erase_data"
  /\ journal' = [journal EXCEPT ![pair] = Torn]
  /\ pc' = "program_data"
  /\ UNCHANGED <<target, header, cache, cursor, pair, waiting, replay, latched, reporter>>

ProgramJournalData ==
  /\ pc = "program_data"
  /\ \E d \in Programmed(cache_data, Torn) : journal' = [journal EXCEPT ![pair] = d]
  /\ pc' = "program_header"
  /\ UNCHANGED <<target, header, cache, cursor, pair, waiting, replay, latched, reporter>>

NewHeader == [sequence |-> journal_sequence, target |-> cache_block, data |-> cache_data]

ProgramJournalHeader ==
  /\ pc = "program_header"
  /\ \E h \in Programmed(NewHeader, None) : header' = [header EXCEPT ![pair] = h]
  /\ pc' = "verify_journal"
  /\ UNCHANGED <<target, journal, cache, cursor, pair, waiting, replay, latched, reporter>>

(* memcmp of both journal sectors; a mismatch returns with committed false. *)
VerifyJournal ==
  /\ pc = "verify_journal"
  /\ pc' = IF journal[pair] = cache_data /\ header[pair] = NewHeader
             THEN "erase_target" ELSE "release"
  /\ UNCHANGED <<flash, cache, cursor, pair, waiting, replay, latched, reporter>>

EraseTargetUnjournaled ==   \* mutant: the header is cleared before the target is written
  /\ pc = "erase_target"
  /\ header' = [header EXCEPT ![pair] = None]
  /\ target' = [target EXCEPT ![cache_block] = Torn]
  /\ pc' = "program_target"
  /\ UNCHANGED <<journal, cache, cursor, pair, waiting, replay, latched, reporter>>

EraseTarget ==
  /\ pc = "erase_target"
  /\ target' = [target EXCEPT ![cache_block] = Torn]
  /\ pc' = "program_target"
  /\ UNCHANGED <<header, journal, cache, cursor, pair, waiting, replay, latched, reporter>>

(* Two half-sector programs; the first leaves the sector torn. *)
ProgramTarget ==
  /\ pc = "program_target"
  /\ \E d \in Programmed(cache_data, Torn) : target' = [target EXCEPT ![cache_block] = d]
  /\ pc' = "verify_target"
  /\ UNCHANGED <<header, journal, cache, cursor, pair, waiting, replay, latched, reporter>>

VerifyTargetBlind ==        \* mutant: the target is not compared
  /\ pc = "verify_target"
  /\ pc' = "clear_header"
  /\ UNCHANGED <<flash, cache, cursor, pair, waiting, replay, latched, reporter>>

VerifyTarget ==
  /\ pc = "verify_target"
  /\ pc' = IF target[cache_block] = cache_data THEN "clear_header" ELSE "release"
  /\ UNCHANGED <<flash, cache, cursor, pair, waiting, replay, latched, reporter>>

(* The header erase and its check; committed clears the dirty flag. *)
ClearHeader ==
  /\ pc = "clear_header"
  /\ \E h \in Programmed(None, header[pair]) :
       /\ header' = [header EXCEPT ![pair] = h]
       /\ dirty' = (h # None)
  /\ pc' = "release"
  /\ UNCHANGED <<target, journal, cache_block, cache_data, cursor, pair, waiting, replay, latched, reporter>>

(* request_core0(RELEASE_BUS); flush_disk_cache returns released /\ committed *)
(* to whoever called it, select_disk_cache among them.                        *)
ReleaseBus ==
  /\ pc = "release"
  /\ \/ FlushFails
     \/ /\ ~dirty
        /\ waiting = None
        /\ pc' = "idle"
        /\ UNCHANGED <<cache, waiting, latched>>
     \/ /\ ~dirty
        /\ waiting # None
        /\ ApplyWrite(waiting)
        /\ UNCHANGED latched
  /\ UNCHANGED <<flash, cursor, pair, replay, reporter>>

-----------------------------------------------------------------------------
(* Reset and recovery.                                                      *)

(* A supply cut, or reboot_after_flash_failure: flash stays, RAM is lost.   *)
PowerCut ==
  /\ ColdRam
  /\ UNCHANGED flash

(* recover_journal reads the headers once. *)
ScanHeaders ==
  /\ pc = "scan"
  /\ replay' = {p \in Pairs : header[p] # None}
  /\ pc' = "select"
  /\ UNCHANGED <<flash, cache, cursor, pair, waiting, latched, reporter>>

(* The valid pair with the lowest sequence, the first of equals. *)
Oldest(p) ==
  /\ p \in replay
  /\ \A q \in replay : \/ header[p].sequence < header[q].sequence
                       \/ header[p].sequence = header[q].sequence /\ p <= q

SelectPair ==
  /\ pc = "select"
  /\ \/ /\ replay = {}
        /\ pc' = "idle"
        /\ UNCHANGED pair
     \/ \E p \in replay :
          /\ Oldest(p)
          /\ pair' = p
          /\ pc' = IF journal[p] = header[p].data THEN "restore_erase" ELSE "boot_failed"
  /\ UNCHANGED <<flash, cache, cursor, waiting, replay, latched, reporter>>

RestoreErase ==
  /\ pc = "restore_erase"
  /\ target' = [target EXCEPT ![header[pair].target] = Torn]
  /\ pc' = "restore_program"
  /\ UNCHANGED <<header, journal, cache, cursor, pair, waiting, replay, latched, reporter>>

RestoreProgram ==
  /\ pc = "restore_program"
  /\ \E d \in Programmed(journal[pair], Torn) :
       target' = [target EXCEPT ![header[pair].target] = d]
  /\ pc' = "restore_verify"
  /\ UNCHANGED <<header, journal, cache, cursor, pair, waiting, replay, latched, reporter>>

RestoreVerify ==
  /\ pc = "restore_verify"
  /\ pc' = IF target[header[pair].target] = journal[pair] THEN "restore_clear" ELSE "boot_failed"
  /\ UNCHANGED <<flash, cache, cursor, pair, waiting, replay, latched, reporter>>

RestoreClear ==
  /\ pc = "restore_clear"
  /\ \E h \in Programmed(None, header[pair]) :
       /\ header' = [header EXCEPT ![pair] = h]
       /\ pc' = IF h = None THEN "select" ELSE "boot_failed"
  /\ replay' = replay \ {pair}
  /\ UNCHANGED <<target, journal, cache, cursor, pair, waiting, latched, reporter>>

-----------------------------------------------------------------------------
Init ==
  /\ target \in [Blocks -> Data]
  /\ header = [p \in Pairs |-> None]
  /\ journal = [p \in Pairs |-> Torn]
  /\ cache_block = None
  /\ cache_data = Zeroed
  /\ dirty = FALSE
  /\ journal_sequence = 0
  /\ next_journal_pair = 0
  /\ pair = 0
  /\ waiting = None
  /\ replay = {}
  /\ latched = FALSE
  /\ reporter = "disk"
  /\ pc = "scan"

FlushStep ==
  \/ AcquireBus \/ ErasePairHeader \/ ErasePairData \/ ProgramJournalData
  \/ ProgramJournalHeader \/ VerifyJournal \/ EraseTarget \/ ProgramTarget
  \/ VerifyTarget \/ ClearHeader \/ ReleaseBus

RecoveryStep ==
  \/ ScanHeaders \/ SelectPair \/ RestoreErase \/ RestoreProgram
  \/ RestoreVerify \/ RestoreClear

Next ==
  \/ \E w \in Writes : WriteRecord(w)
  \/ Flush
  \/ RebootFlush
  \/ FlushStep
  \/ RecoveryStep
  \/ PowerCut

Spec == Init /\ [][Next]_vars

-----------------------------------------------------------------------------
(* Properties.                                                              *)

(* A header whose journal sector matches its CRC: recovery will replay it.  *)
Intact(p) == header[p] # None /\ journal[p] = header[p].data

Journaled(b) == {p \in Pairs : Intact(p) /\ header[p].target = b}

(* The content recovery leaves in sector b: recover_journal replays in      *)
(* ascending sequence, so the newest intact entry wins.                     *)
Newest(b) == CHOOSE p \in Journaled(b) :
               \A q \in Journaled(b) : header[q].sequence <= header[p].sequence
Durable(b) == IF Journaled(b) = {} THEN target[b] ELSE journal[Newest(b)]

(* What z80_flash_backend_read_record returns once the sector is served. *)
View(b) == IF cache_block = b THEN cache_data ELSE Durable(b)

(* A sector is torn only while an intact journal entry can restore it:      *)
(* write_callback verifies the journal before it erases the target, and     *)
(* clears the header only after it verified the target.                     *)
TornIsJournaled == \A b \in Blocks : target[b] = Torn => Journaled(b) # {}

(* While core 1 takes writes, every sector read_record can copy straight    *)
(* from flash is whole and is what recovery would leave there.              *)
ServedSectorsAreDurable ==
  pc = "idle" /\ ~latched => \A b \in Blocks : target[b] # Torn /\ target[b] = Durable(b)

(* A clean cache sector is durable: flush_disk_cache clears dirty only for  *)
(* a committed write, so a reset at any later moment loses nothing that     *)
(* flush reported and resurrects nothing older.                             *)
CleanCacheIsDurable ==
  cache_block # None /\ ~dirty => Durable(cache_block) = cache_data

(* Recovery never refuses to boot: a header is programmed only after its    *)
(* data, so a cut leaves no valid header over bad data.                     *)
BootNeverFails == pc # "boot_failed"

(* flash_backend.c implements a disk with atomic sectors. *)
Disk == INSTANCE AtomicDisk WITH disk <- [b \in Blocks |-> Durable(b)],
                                 view <- [b \in Blocks |-> View(b)]
ImplementsAtomicDisk == Disk!Spec

-----------------------------------------------------------------------------
(* The inductive invariant behind the properties above, in named parts.     *)

(* disk_device.c latches every failed flush; the reboot service's own flush *)
(* is not latched, so with it the flash part must not misprogram.           *)
FailuresAreLatched == ~(FlashFaults /\ RebootService)

Booting == Recovering \cup {"boot_failed"}
JournalWritten == {"erase_target", "program_target", "verify_target", "clear_header"}
Restoring == {"restore_erase", "restore_program", "restore_verify", "restore_clear"}

(* At most one pair holds a valid header, whatever the number of pairs. *)
OneHeader == \A p, q \in Pairs : header[p] # None /\ header[q] # None => p = q

(* Outside boot a valid header describes the cached sector, and is either   *)
(* the flush under way or what a latched failure left behind.               *)
HeaderIsCache ==
  pc \notin Booting =>
    \A p \in Pairs : header[p] # None =>
      /\ header[p].target = cache_block
      /\ header[p].data = cache_data
      /\ dirty
      /\ \/ pc \in JournalWritten \cup {"verify_journal"} /\ p = pair
         \/ pc = "release" /\ p = pair /\ FlashFaults
         \/ pc = "idle" /\ latched /\ FlashFaults

CacheState ==
  /\ cache_block = None => ~dirty
  /\ pc \in Flushing \ {"release"} => dirty
  /\ pc = "release" => cache_block # None
  /\ pc \in Booting => cache_block = None
  /\ reporter = "reboot" => RebootService

(* The verified journal entry that the target erase relies on. *)
JournalReady ==
  /\ pc \in JournalWritten => header[pair] = NewHeader /\ journal[pair] = cache_data
  /\ pc = "clear_header" => target[cache_block] = cache_data

(* A sound flash part passes every check of write_callback. *)
SoundFlash ==
  ~FlashFaults =>
    /\ pc \in {"program_header", "verify_journal"} => journal[pair] = cache_data
    /\ pc = "verify_journal" => header[pair] = NewHeader
    /\ pc = "verify_target" => target[cache_block] = cache_data

CleanIsWritten == cache_block # None /\ ~dirty => target[cache_block] = cache_data

ReplayState ==
  /\ pc \in {"select"} \cup Restoring => replay = {p \in Pairs : header[p] # None}
  /\ pc \in Restoring => pair \in replay /\ journal[pair] = header[pair].data
  /\ pc = "restore_clear" => target[header[pair].target] = journal[pair]

IInv ==
  /\ TypeOK
  /\ OneHeader
  /\ HeaderIsCache
  /\ CacheState
  /\ JournalReady
  /\ SoundFlash
  /\ CleanIsWritten
  /\ ReplayState
  /\ TornIsJournaled

(* With a sound flash part every valid header can be replayed. *)
SoundRecovery ==
  /\ \A p \in Pairs : header[p] # None => Intact(p)
  /\ pc = "restore_verify" => target[header[pair].target] = journal[pair]
  /\ pc # "boot_failed"
=============================================================================
