------------------------- MODULE FlashBackendProofs -------------------------
(***************************************************************************)
(* Proofs about FlashBackend for any number of sectors, records, values and *)
(* journal pairs and any number of flushes between resets.                  *)
(***************************************************************************)
EXTENDS MCFlashBackend, TLAPS

(* The zeroed RAM sector is a sector content. *)
LEMMA ZeroedType == Zeroed \in Data
  BY ValsAssumption DEF Zeroed, Data

(* A journal pair index stays in range when it rotates. *)
LEMMA PairRotation ==
  ASSUME NEW n \in Pairs
  PROVE  (n + 1) % PairCount \in Pairs /\ 0 \in Pairs
  BY PairCountAssumption DEF Pairs

(* The content a write starts from is a whole sector, so the write leaves a *)
(* whole sector.                                                            *)
LEMMA WriteType ==
  ASSUME NEW base \in Data, NEW w \in Writes
  PROVE  [base EXCEPT ![w.rec] = w.val] \in Data
  BY DEF Data, Writes

(* Without a valid header no sector is torn. *)
LEMMA NoHeaderNoTorn ==
  ASSUME TypeOK, TornIsJournaled, \A p \in Pairs : header[p] = None
  PROVE  \A b \in Blocks : target[b] \in Data
  BY DEF TypeOK, TornIsJournaled, Journaled, Intact

(* The initial state, as programmed by the host: whole sectors, no journal. *)
LEMMA InitIInv == Init => IInv
<1> SUFFICES ASSUME Init PROVE IInv
  OBVIOUS
<1>1. TypeOK
  <2>1. 0 \in Pairs
    BY PairCountAssumption DEF Pairs
  <2>2. target \in [Blocks -> Data \cup {Torn}]
    BY DEF Init
  <2>3. header \in [Pairs -> Headers \cup {None}] /\ journal \in [Pairs -> Data \cup {Torn}]
    BY DEF Init
  <2>4. QED
    BY <2>1, <2>2, <2>3, ZeroedType DEF Init, TypeOK, Recovering
<1>2. \A b \in Blocks : target[b] # Torn
  BY TornAssumption DEF Init
<1>3. QED
  BY <1>1, <1>2 DEF Init, IInv, OneHeader, HeaderIsCache, CacheState, JournalReady,
     SoundFlash, CleanIsWritten, ReplayState, TornIsJournaled, Booting, Recovering, Flushing,
     JournalWritten, Restoring

(* Applying a record write to a sector that is cached, or to a clean cache  *)
(* when no header is valid.                                                 *)
LEMMA ApplyWriteIInv ==
  ASSUME IInv, NEW w \in Writes, ApplyWrite(w),
         pc \in {"idle", "release"},
         \A p \in Pairs : header[p] = None,
         cache_block = w.block \/ ~dirty,
         UNCHANGED <<flash, cursor, pair, replay, latched>>,
         reporter' \in {reporter, "disk"}
  PROVE  IInv'
<1> DEFINE base == IF cache_block = w.block THEN cache_data ELSE target[w.block]
<1>1. base \in Data /\ w.block \in Blocks /\ w.rec \in Recs /\ w.val \in Vals
  BY NoHeaderNoTorn DEF IInv, TypeOK, Writes
<1>2. /\ cache_block' = w.block
      /\ cache_data' = [base EXCEPT ![w.rec] = w.val]
      /\ dirty' = ((dirty /\ cache_block = w.block) \/ base[w.rec] # w.val)
      /\ waiting' = None
      /\ pc' \in {"acquire", "idle"}
      /\ pc' = "acquire" => dirty'
  BY DEF ApplyWrite
<1>3. TypeOK'
  BY <1>1, <1>2, WriteType DEF IInv, TypeOK, Flushing, Stopped, flash, cursor
<1>4. CleanIsWritten'
  <2>1. ASSUME ~dirty' PROVE cache_data' = base /\ base = target[w.block]
    <3>1. base[w.rec] = w.val /\ ~(dirty /\ cache_block = w.block)
      BY <1>2, <2>1
    <3>2. cache_data' = base
      BY <1>1, <1>2, <3>1 DEF Data
    <3>3. base = target[w.block]
      BY <1>1, <3>1, NoneAssumption DEF IInv, CleanIsWritten
    <3>4. QED
      BY <3>2, <3>3
  <2>2. QED
    BY <1>2, <2>1 DEF CleanIsWritten, flash
<1>5. CacheState'
  BY <1>1, <1>2, NoneAssumption DEF IInv, CacheState, Flushing, Booting, Recovering
<1>6. OneHeader' /\ HeaderIsCache' /\ JournalReady' /\ SoundFlash' /\ ReplayState'
  BY <1>2 DEF IInv, OneHeader, HeaderIsCache, JournalReady, SoundFlash, ReplayState,
     JournalWritten, Restoring, flash
<1>7. TornIsJournaled'
  BY DEF IInv, TornIsJournaled, Journaled, Intact, flash
<1>8. QED
  BY <1>3, <1>4, <1>5, <1>6, <1>7 DEF IInv

(* A flush that returns false and leaves the flash alone. *)
LEMMA FlushFailsIInv ==
  ASSUME FailuresAreLatched, IInv, FlushFails, pc \in {"acquire", "release"},
         UNCHANGED <<flash, cursor, pair, replay, reporter>>
  PROVE  IInv'
<1>1. TypeOK'
  BY DEF IInv, TypeOK, FlushFails, Stopped, flash, cursor, cache
<1>2. HeaderIsCache'
  <2> SUFFICES ASSUME NEW p \in Pairs, header[p] # None
               PROVE  /\ header[p].target = cache_block
                      /\ header[p].data = cache_data
                      /\ dirty
                      /\ pc' = "idle" /\ latched' /\ FlashFaults
    BY DEF HeaderIsCache, FlushFails, flash, cache
  <2>1. pc \notin Booting
    BY DEF Booting, Recovering
  <2>2. pc = "release" /\ FlashFaults /\ header[p].target = cache_block
        /\ header[p].data = cache_data /\ dirty
    BY <2>1 DEF IInv, HeaderIsCache, JournalWritten
  <2>3. reporter = "disk"
    BY <2>2 DEF IInv, CacheState, TypeOK, FailuresAreLatched
  <2>4. QED
    BY <2>2, <2>3 DEF FlushFails
<1>3. /\ OneHeader' /\ JournalReady' /\ SoundFlash'
      /\ ReplayState' /\ CleanIsWritten' /\ TornIsJournaled'
  BY DEF IInv, OneHeader, JournalReady, SoundFlash, ReplayState, CleanIsWritten,
     TornIsJournaled,
     Journaled, Intact, JournalWritten, Restoring, FlushFails, flash, cache
<1>4. CacheState'
  BY DEF IInv, CacheState, FlushFails, Flushing, Booting, Recovering, cache
<1>5. QED
  BY <1>1, <1>2, <1>3, <1>4 DEF IInv

(* Every step of the specification keeps the invariant: one step per action. *)
LEMMA NextIInv ==
  ASSUME FailuresAreLatched, IInv, [Next]_vars
  PROVE  IInv'
<1> USE DEF IInv
<1>a. TypeOK
  OBVIOUS
<1>1. ASSUME NEW w \in Writes, WriteRecord(w) PROVE IInv'
  <2>1. \A p \in Pairs : header[p] = None
    BY <1>1 DEF WriteRecord, HeaderIsCache, Booting, Recovering, JournalWritten
  <2>2. CASE (cache_block = w.block \/ ~dirty) /\ ApplyWrite(w)
    BY <1>1, <2>1, <2>2, ApplyWriteIInv DEF WriteRecord
  <2>3. CASE /\ dirty /\ waiting' = w /\ pc' = "acquire" /\ UNCHANGED cache
    <3>1. TypeOK'
      BY <1>1, <2>3 DEF TypeOK, WriteRecord, flash, cursor, cache, Flushing
    <3>2. QED
      BY <1>1, <2>1, <2>3, <3>1 DEF WriteRecord, flash, cursor, cache, OneHeader,
         HeaderIsCache, CacheState, JournalReady, SoundFlash, NewHeader,
         CleanIsWritten, ReplayState, TornIsJournaled, Journaled, Intact, Flushing,
         Recovering, Stopped, Booting, JournalWritten, Restoring
  <2>4. QED
    BY <1>1, <2>2, <2>3 DEF WriteRecord
<1>2. ASSUME Flush \/ RebootFlush PROVE IInv'
  <2>1. \A p \in Pairs : header[p] = None
    BY <1>2 DEF Flush, RebootFlush, HeaderIsCache, Booting, Recovering, JournalWritten,
       FailuresAreLatched
  <2>2. TypeOK'
    BY <1>2 DEF TypeOK, Flush, RebootFlush, flash, cursor, cache, Flushing
  <2>3. QED
    BY <1>2, <2>1, <2>2 DEF Flush, RebootFlush, flash, cursor, cache, OneHeader,
       HeaderIsCache, CacheState, JournalReady, SoundFlash, NewHeader,
         CleanIsWritten, ReplayState, TornIsJournaled, Journaled, Intact, Flushing,
       Recovering, Stopped, Booting, JournalWritten, Restoring
<1>3. ASSUME AcquireBus PROVE IInv'
  <2>1. CASE FlushFails
    <3>1. UNCHANGED <<flash, cursor, pair, replay, reporter>> /\ pc \in {"acquire", "release"}
      BY <1>3, <2>1 DEF AcquireBus, NextPair, FlushFails
    <3>2. QED
      BY <2>1, <3>1, FlushFailsIInv
  <2>2. CASE pc' = "erase_header" /\ UNCHANGED <<cache, waiting, latched>>
    <3>1. TypeOK'
      BY <1>3, <2>2, PairRotation DEF TypeOK, AcquireBus, NextPair, FlushFails, flash, cursor,
         cache, Flushing
    <3>2. QED
      BY <1>3, <2>2, <3>1 DEF AcquireBus, NextPair, flash, cursor, cache, OneHeader,
         HeaderIsCache, CacheState, JournalReady, SoundFlash, NewHeader,
         CleanIsWritten, ReplayState, TornIsJournaled, Journaled, Intact, Flushing,
         Recovering, Stopped, Booting, JournalWritten, Restoring
  <2>3. QED
    BY <1>3, <2>1, <2>2 DEF AcquireBus, NextPair
<1>4. ASSUME ErasePairHeader PROVE IInv'
  <2>1. \A p \in Pairs : header[p] = None
    BY <1>4 DEF ErasePairHeader, HeaderIsCache, Booting, Recovering, JournalWritten
  <2>2. header' = header
    BY <1>4, <2>1 DEF ErasePairHeader, TypeOK
  <2>3. TypeOK'
    BY <1>4, <2>2 DEF TypeOK, ErasePairHeader, cursor, cache, Flushing
  <2>4. QED
    BY <1>4, <2>1, <2>2, <2>3 DEF ErasePairHeader, cursor, cache, OneHeader, HeaderIsCache,
       CacheState, JournalReady, SoundFlash, NewHeader,
         CleanIsWritten, ReplayState, TornIsJournaled, Journaled, Intact, Flushing,
       Recovering, Stopped, Booting, JournalWritten, Restoring
<1>5. ASSUME ErasePairData \/ ProgramJournalData PROVE IInv'
  <2>1. \A p \in Pairs : header[p] = None
    BY <1>5 DEF ErasePairData, ProgramJournalData, HeaderIsCache, Booting, Recovering,
       JournalWritten
  <2>2. journal' \in [Pairs -> Data \cup {Torn}]
    BY <1>5 DEF TypeOK, ErasePairData, ProgramJournalData, Programmed
  <2>3. TypeOK'
    BY <1>5, <2>2 DEF TypeOK, ErasePairData, ProgramJournalData, cursor, cache, Flushing
  <2>4. SoundFlash'
    BY <1>5 DEF ErasePairData, ProgramJournalData, Programmed, SoundFlash, cache, TypeOK
  <2>5. \A b \in Blocks : target[b] # Torn
    BY <2>1 DEF TornIsJournaled, Journaled, Intact
  <2>6. QED
    BY <1>5, <2>1, <2>3, <2>4, <2>5 DEF ErasePairData, ProgramJournalData, cache, OneHeader,
       HeaderIsCache, CacheState, JournalReady, CleanIsWritten, ReplayState, TornIsJournaled,
       Flushing, Recovering, Stopped, Booting, JournalWritten, Restoring
<1>6. ASSUME ProgramJournalHeader PROVE IInv'
  <2>1. \A p \in Pairs : header[p] = None
    BY <1>6 DEF ProgramJournalHeader, HeaderIsCache, Booting, Recovering, JournalWritten
  <2>2. cache_block \in Blocks /\ dirty
    BY <1>6 DEF ProgramJournalHeader, CacheState, TypeOK, Flushing
  <2>3. NewHeader \in Headers
    BY <2>2 DEF NewHeader, Headers, TypeOK
  <2>4. PICK h \in {NewHeader, None} : header' = [header EXCEPT ![pair] = h]
    BY <1>6 DEF ProgramJournalHeader, Programmed
  <2>5. TypeOK'
    BY <1>6, <2>3, <2>4 DEF TypeOK, ProgramJournalHeader, cursor, cache, Flushing
  <2>6. /\ \A p \in Pairs : header'[p] # None => p = pair /\ header'[p] = NewHeader
        /\ NewHeader.target = cache_block /\ NewHeader.data = cache_data
    BY <2>1, <2>4 DEF TypeOK, NewHeader
  <2>7. TornIsJournaled'
    <3>1. \A b \in Blocks : target'[b] # Torn
      BY <1>6, <2>1 DEF ProgramJournalHeader, TornIsJournaled, Journaled, Intact
    <3>2. QED
      BY <3>1 DEF TornIsJournaled
  <2>8. OneHeader' /\ HeaderIsCache'
    BY <1>6, <2>2, <2>6 DEF ProgramJournalHeader, OneHeader, HeaderIsCache, cache
  <2>9. CacheState' /\ JournalReady' /\ CleanIsWritten' /\ ReplayState'
    BY <1>6 DEF ProgramJournalHeader, CacheState, JournalReady, CleanIsWritten, ReplayState,
       cache, Flushing, Recovering, Stopped, Booting, JournalWritten, Restoring
  <2>10. SoundFlash'
    <3>1. ~FlashFaults => journal[pair] = cache_data
      BY <1>6 DEF ProgramJournalHeader, SoundFlash
    <3>2. ~FlashFaults => header'[pair] = NewHeader
      BY <1>6 DEF ProgramJournalHeader, Programmed, TypeOK
    <3>3. QED
      BY <1>6, <3>1, <3>2 DEF ProgramJournalHeader, SoundFlash, NewHeader, cache, cursor
  <2>11. QED
    BY <2>5, <2>7, <2>8, <2>9, <2>10
<1>7. ASSUME VerifyJournal \/ VerifyTarget PROVE IInv'
  <2>1. TypeOK'
    BY <1>7 DEF TypeOK, VerifyJournal, VerifyTarget, flash, cursor, cache, Flushing
  <2>2. dirty /\ cache_block \in Blocks
    BY <1>7 DEF VerifyJournal, VerifyTarget, CacheState, Flushing, TypeOK
  <2>3. HeaderIsCache'
    BY <1>7 DEF VerifyJournal, VerifyTarget, HeaderIsCache, SoundFlash, flash, cache,
       Flushing, Recovering, Stopped, Booting, JournalWritten, Restoring
  <2>4. TornIsJournaled' /\ OneHeader'
    BY <1>7 DEF VerifyJournal, VerifyTarget, flash, TornIsJournaled, Journaled, Intact,
       OneHeader
  <2>5. JournalReady' /\ SoundFlash'
    BY <1>7 DEF VerifyJournal, VerifyTarget, flash, cache, cursor, JournalReady, SoundFlash,
       NewHeader, Flushing, Recovering, Stopped, Booting, JournalWritten, Restoring
  <2>6. CacheState' /\ CleanIsWritten' /\ ReplayState'
    BY <1>7, <2>2, NoneAssumption DEF VerifyJournal, VerifyTarget, flash, cache, CacheState,
       CleanIsWritten, ReplayState, Flushing, Recovering, Stopped, Booting, JournalWritten,
       Restoring
  <2>7. QED
    BY <2>1, <2>3, <2>4, <2>5, <2>6
<1>8. ASSUME EraseTarget \/ ProgramTarget PROVE IInv'
  <2>1. dirty /\ cache_block \in Blocks /\ pair \in Pairs
    BY <1>8 DEF EraseTarget, ProgramTarget, CacheState, Flushing, TypeOK
  <2>2. PICK d \in {cache_data, Torn} :
          /\ target' = [target EXCEPT ![cache_block] = d]
          /\ pc = "program_target" /\ ~FlashFaults => d = cache_data
    BY <1>8 DEF EraseTarget, ProgramTarget, Programmed
  <2>3. TypeOK'
    BY <1>8, <2>2 DEF TypeOK, EraseTarget, ProgramTarget, cursor, cache, Flushing
  <2>4. header[pair] = NewHeader /\ journal[pair] = cache_data
    BY <1>8 DEF EraseTarget, ProgramTarget, JournalReady, JournalWritten
  <2>5. TornIsJournaled'
    <3>1. NewHeader.target = cache_block /\ NewHeader.data = cache_data /\ NewHeader # None
      BY <2>1, NoneAssumption DEF NewHeader, Headers, TypeOK
    <3>2. pair \in Journaled(cache_block)
      BY <2>1, <2>4, <3>1 DEF Journaled, Intact
    <3>3. \A b \in Blocks : Journaled(b)' = Journaled(b)
      BY <1>8 DEF Journaled, Intact, EraseTarget, ProgramTarget
    <3>4. \A b \in Blocks \ {cache_block} : target'[b] = target[b]
      BY <2>2 DEF TypeOK
    <3>5. QED
      BY <3>2, <3>3, <3>4 DEF TornIsJournaled
  <2>6. OneHeader' /\ HeaderIsCache' /\ CacheState' /\ JournalReady' /\ ReplayState'
    BY <1>8, <2>4 DEF EraseTarget, ProgramTarget, cache, cursor, OneHeader, HeaderIsCache,
       CacheState,
       JournalReady, NewHeader, ReplayState, Flushing, Recovering, Stopped, Booting,
       JournalWritten, Restoring
  <2>7. SoundFlash' /\ CleanIsWritten'
    BY <1>8, <2>1, <2>2 DEF EraseTarget, ProgramTarget, cache, SoundFlash, CleanIsWritten,
       TypeOK
  <2>8. QED
    BY <2>3, <2>5, <2>6, <2>7
<1>9. ASSUME ClearHeader PROVE IInv'
  <2>1. dirty /\ cache_block \in Blocks /\ pair \in Pairs
    BY <1>9 DEF ClearHeader, CacheState, Flushing, TypeOK
  <2>2. header[pair] = NewHeader /\ target[cache_block] = cache_data /\ cache_data # Torn
    BY <1>9, TornAssumption DEF ClearHeader, JournalReady, JournalWritten, TypeOK
  <2>3. PICK h \in {None, header[pair]} :
          /\ header' = [header EXCEPT ![pair] = h]
          /\ dirty' = (h # None)
          /\ ~FlashFaults => h = None
    BY <1>9 DEF ClearHeader, Programmed
  <2>4. \A p \in Pairs : header[p] # None => p = pair
    BY <1>9 DEF ClearHeader, HeaderIsCache, Flushing, Recovering, Stopped, Booting,
       JournalWritten, Restoring
  <2>5. TypeOK'
    BY <1>9, <2>3 DEF TypeOK, ClearHeader, cursor, Flushing
  <2>6. CASE h = None
    <3>1. \A p \in Pairs : header'[p] = None
      BY <2>3, <2>4, <2>6 DEF TypeOK
    <3>2. \A b \in Blocks : target[b] # Torn
      <4> SUFFICES ASSUME NEW b \in Blocks, target[b] = Torn PROVE FALSE
        OBVIOUS
      <4>1. Journaled(b) # {} /\ b # cache_block
        BY <2>2 DEF TornIsJournaled
      <4>2. PICK p \in Pairs : header[p] # None /\ header[p].target = b
        BY <4>1 DEF Journaled, Intact
      <4>3. header[p].target = cache_block
        BY <1>9, <4>2 DEF ClearHeader, HeaderIsCache, Flushing, Recovering, Stopped, Booting,
           JournalWritten, Restoring
      <4>4. QED
        BY <4>1, <4>2, <4>3
    <3>3. QED
      BY <1>9, <2>1, <2>2, <2>3, <2>5, <2>6, <3>1, <3>2, NoneAssumption DEF ClearHeader,
         cursor, OneHeader, HeaderIsCache, CacheState, JournalReady, SoundFlash, NewHeader,
         CleanIsWritten, ReplayState, TornIsJournaled, Journaled, Intact, Flushing,
         Recovering, Stopped, Booting, JournalWritten, Restoring
  <2>7. CASE h # None
    <3>1. header' = header /\ dirty' = dirty /\ FlashFaults
      BY <2>1, <2>3, <2>7 DEF TypeOK
    <3>2. TornIsJournaled' /\ OneHeader' /\ HeaderIsCache'
      BY <1>9, <3>1 DEF ClearHeader, TornIsJournaled, Journaled, Intact, OneHeader,
         HeaderIsCache, Flushing, Recovering, Stopped, Booting, JournalWritten, Restoring
    <3>3. CacheState' /\ JournalReady' /\ SoundFlash' /\ CleanIsWritten' /\ ReplayState'
      BY <1>9, <2>1, <3>1, NoneAssumption DEF ClearHeader, CacheState, JournalReady, SoundFlash,
         CleanIsWritten, ReplayState, Flushing, Recovering, Stopped, Booting, JournalWritten,
         Restoring
    <3>4. QED
      BY <2>5, <3>2, <3>3
  <2>8. QED
    BY <2>6, <2>7
<1>10. ASSUME ReleaseBus PROVE IInv'
  <2>1. CASE FlushFails
    BY <1>10, <2>1, FlushFailsIInv DEF ReleaseBus
  <2>2. CASE ~dirty
    <3>1. \A p \in Pairs : header[p] = None
      BY <1>10, <2>2 DEF ReleaseBus, HeaderIsCache, Booting, Recovering
    <3>2. CASE pc' = "idle" /\ UNCHANGED <<cache, waiting, latched>>
      <4>1. TypeOK'
        BY <1>10, <3>2 DEF TypeOK, ReleaseBus, flash, cursor, cache, Stopped
      <4>2. QED
        BY <1>10, <3>1, <3>2, <4>1 DEF ReleaseBus, flash, cursor, cache, OneHeader,
           HeaderIsCache, CacheState, JournalReady, SoundFlash, NewHeader,
         CleanIsWritten, ReplayState, TornIsJournaled, Journaled, Intact, Flushing,
           Recovering, Stopped, Booting, JournalWritten, Restoring
    <3>3. CASE waiting # None /\ ApplyWrite(waiting) /\ UNCHANGED latched
      <4>1. waiting \in Writes
        BY <3>3 DEF TypeOK
      <4>2. QED
        BY <1>10, <2>2, <3>1, <3>3, <4>1, ApplyWriteIInv DEF ReleaseBus
    <3>4. CASE FlushFails
      BY <2>1, <3>4
    <3>5. QED
      BY <1>10, <3>2, <3>3, <3>4 DEF ReleaseBus
  <2>3. QED
    BY <1>10, <2>1, <2>2 DEF ReleaseBus
<1>11. ASSUME PowerCut PROVE IInv'
  <2>1. TypeOK'
    BY <1>11, ZeroedType, PairRotation DEF TypeOK, PowerCut, ColdRam, flash, Recovering
  <2>2. TornIsJournaled'
    BY <1>11 DEF PowerCut, flash, TornIsJournaled, Journaled, Intact
  <2>3. OneHeader' /\ HeaderIsCache'
    BY <1>11 DEF PowerCut, ColdRam, flash, OneHeader, HeaderIsCache, Booting, Recovering
  <2>4. QED
    BY <1>11, <2>1, <2>2, <2>3, NoneAssumption
    DEF PowerCut, ColdRam, CacheState, JournalReady, SoundFlash, CleanIsWritten, ReplayState,
       Flushing, Recovering, Stopped, Booting, JournalWritten, Restoring
<1>12. ASSUME ScanHeaders \/ SelectPair PROVE IInv'
  <2>1. TypeOK'
    BY <1>12 DEF TypeOK, ScanHeaders, SelectPair, flash, cursor, cache, Recovering, Stopped
  <2>2. TornIsJournaled' /\ OneHeader'
    BY <1>12 DEF ScanHeaders, SelectPair, flash, TornIsJournaled, Journaled, Intact, OneHeader
  <2>3. HeaderIsCache'
    BY <1>12 DEF ScanHeaders, SelectPair, flash, HeaderIsCache, ReplayState, Flushing,
       Recovering, Stopped, Booting, JournalWritten, Restoring
  <2>4. ReplayState'
    BY <1>12 DEF ScanHeaders, SelectPair, flash, ReplayState, Flushing, Recovering, Stopped,
       Booting, JournalWritten, Restoring
  <2>5. CacheState' /\ JournalReady' /\ SoundFlash' /\ CleanIsWritten'
    BY <1>12 DEF ScanHeaders, SelectPair, flash, cache, CacheState, JournalReady, SoundFlash,
       CleanIsWritten, Flushing, Recovering, Stopped, Booting, JournalWritten, Restoring
  <2>6. QED
    BY <2>1, <2>2, <2>3, <2>4, <2>5
<1>13. ASSUME RestoreErase \/ RestoreProgram PROVE IInv'
  <2>1. /\ pair \in Pairs /\ header[pair] \in Headers /\ header[pair].target \in Blocks
        /\ journal[pair] = header[pair].data /\ cache_block = None
    BY <1>13 DEF RestoreErase, RestoreProgram, ReplayState, CacheState, TypeOK, Headers,
       Flushing, Recovering, Stopped, Booting, JournalWritten, Restoring
  <2>2. PICK d \in {journal[pair], Torn} : target' = [target EXCEPT ![header[pair].target] = d]
    BY <1>13 DEF RestoreErase, RestoreProgram, Programmed
  <2>3. TypeOK'
    BY <1>13, <2>1, <2>2 DEF TypeOK, RestoreErase, RestoreProgram, cursor, cache, Recovering
  <2>4. TornIsJournaled'
    <3>1. pair \in Journaled(header[pair].target)
      BY <2>1, NoneAssumption DEF Journaled, Intact
    <3>2. \A b \in Blocks : Journaled(b)' = Journaled(b)
      BY <1>13 DEF Journaled, Intact, RestoreErase, RestoreProgram
    <3>3. \A b \in Blocks \ {header[pair].target} : target'[b] = target[b]
      BY <2>2 DEF TypeOK
    <3>4. QED
      BY <3>1, <3>2, <3>3 DEF TornIsJournaled
  <2>5. /\ OneHeader' /\ HeaderIsCache' /\ CacheState'
        /\ JournalReady' /\ SoundFlash' /\ CleanIsWritten'
    BY <1>13, <2>1 DEF RestoreErase, RestoreProgram, cache, OneHeader, HeaderIsCache,
       CacheState,
       JournalReady, SoundFlash, CleanIsWritten, Flushing, Recovering, Stopped, Booting,
       JournalWritten, Restoring
  <2>6. ReplayState'
    BY <1>13 DEF RestoreErase, RestoreProgram, ReplayState, Flushing, Recovering, Stopped,
       Booting, JournalWritten, Restoring
  <2>7. QED
    BY <2>3, <2>4, <2>5, <2>6
<1>14. ASSUME RestoreVerify PROVE IInv'
  <2>1. TypeOK'
    BY <1>14 DEF TypeOK, RestoreVerify, flash, cursor, cache, Recovering, Stopped
  <2>2. QED
    BY <1>14, <2>1 DEF RestoreVerify, flash, cursor, cache, OneHeader, HeaderIsCache,
       CacheState, JournalReady, SoundFlash, NewHeader,
         CleanIsWritten, ReplayState, TornIsJournaled, Journaled, Intact, Flushing,
       Recovering, Stopped, Booting, JournalWritten, Restoring
<1>15. ASSUME RestoreClear PROVE IInv'
  <2>1. /\ pair \in Pairs /\ header[pair] \in Headers /\ header[pair].target \in Blocks
        /\ journal[pair] = header[pair].data /\ cache_block = None
        /\ target[header[pair].target] = journal[pair] /\ journal[pair] # Torn
    BY <1>15, TornAssumption DEF RestoreClear, ReplayState, CacheState, TypeOK, Headers,
       Flushing, Recovering, Stopped, Booting, JournalWritten, Restoring
  <2>2. PICK h \in {None, header[pair]} :
          /\ header' = [header EXCEPT ![pair] = h]
          /\ pc' = IF h = None THEN "select" ELSE "boot_failed"
    BY <1>15 DEF RestoreClear, Programmed
  <2>3. TypeOK'
    BY <1>15, <2>2 DEF TypeOK, RestoreClear, cursor, cache, Recovering, Stopped
  <2>4. TornIsJournaled'
    <3> SUFFICES ASSUME NEW b \in Blocks, target[b] = Torn PROVE Journaled(b)' # {}
      BY <1>15 DEF RestoreClear, TornIsJournaled
    <3>1. PICK p \in Pairs : Intact(p) /\ header[p].target = b
      BY DEF TornIsJournaled, Journaled
    <3>2. p # pair
      BY <2>1, <3>1
    <3>3. header'[p] = header[p] /\ journal' = journal
      BY <1>15, <2>2, <3>2 DEF RestoreClear, TypeOK
    <3>4. QED
      BY <3>1, <3>3 DEF Journaled, Intact
  <2>5. OneHeader' /\ ReplayState'
    BY <1>15, <2>1, <2>2, NoneAssumption DEF RestoreClear, OneHeader, ReplayState, TypeOK,
       Flushing, Recovering, Stopped, Booting, JournalWritten, Restoring
  <2>6. HeaderIsCache' /\ CacheState' /\ JournalReady' /\ SoundFlash' /\ CleanIsWritten'
    BY <1>15, <2>1, <2>2 DEF RestoreClear, cache, HeaderIsCache, CacheState, JournalReady,
       SoundFlash,
       CleanIsWritten, Flushing, Recovering, Stopped, Booting, JournalWritten, Restoring
  <2>7. QED
    BY <2>3, <2>4, <2>5, <2>6
<1>16. ASSUME UNCHANGED vars PROVE IInv'
  BY <1>16 DEF vars, TypeOK, OneHeader, HeaderIsCache, CacheState, JournalReady, SoundFlash,
     NewHeader,
         CleanIsWritten, ReplayState, TornIsJournaled, Journaled, Intact
<1>17. QED
  BY <1>1, <1>2, <1>3, <1>4, <1>5, <1>6, <1>7, <1>8, <1>9, <1>10, <1>11, <1>12, <1>13,
     <1>14, <1>15, <1>16 DEF Next, FlushStep, RecoveryStep

(* The inductive invariant of flash_backend.c. *)
THEOREM Invariance == ASSUME FailuresAreLatched PROVE Spec => []IInv
<1>1. Init => IInv
  BY InitIInv
<1>2. IInv /\ [Next]_vars => IInv'
  BY NextIInv
<1>3. QED
  BY <1>1, <1>2, PTL DEF Spec

(* What recovery would leave in a sector: the journal entry, if there is one. *)
LEMMA DurableValue ==
  ASSUME TypeOK, OneHeader, NEW b \in Blocks
  PROVE  /\ Journaled(b) = {} => Durable(b) = target[b]
         /\ \A p \in Journaled(b) : Durable(b) = journal[p]
<1>1. ASSUME NEW p \in Journaled(b) PROVE Durable(b) = journal[p]
  <2>1. \A q \in Journaled(b) : q = p
    BY <1>1 DEF Journaled, Intact, OneHeader
  <2>2. header[p].sequence \in Nat
    BY <1>1 DEF Journaled, Intact, TypeOK, Headers
  <2>3. \A q \in Journaled(b) : header[q].sequence <= header[p].sequence
    BY <2>1, <2>2
  <2>4. Newest(b) \in Journaled(b)
    BY <1>1, <2>3 DEF Newest
  <2>5. QED
    BY <1>1, <2>1, <2>4 DEF Durable
<1>2. QED
  BY <1>1 DEF Durable

(* The same after a step. *)
LEMMA DurableValueNext ==
  TypeOK' /\ OneHeader' =>
    /\ (\A b \in Blocks : Journaled(b) = {} => Durable(b) = target[b])'
    /\ (\A b \in Blocks : \A p \in Journaled(b) : Durable(b) = journal[p])'
<1>1. TypeOK /\ OneHeader =>
        /\ \A b \in Blocks : Journaled(b) = {} => Durable(b) = target[b]
        /\ \A b \in Blocks : \A p \in Journaled(b) : Durable(b) = journal[p]
  BY DurableValue
<1>2. QED
  BY <1>1, PTL

(* The properties the invariant carries. *)
LEMMA IInvImplies ==
  ASSUME IInv
  PROVE  TypeOK /\ TornIsJournaled /\ ServedSectorsAreDurable /\ CleanCacheIsDurable
<1> USE DEF IInv
<1>1. ServedSectorsAreDurable
  <2> SUFFICES ASSUME pc = "idle", ~latched, NEW b \in Blocks
               PROVE  target[b] # Torn /\ target[b] = Durable(b)
    BY DEF ServedSectorsAreDurable
  <2>1. \A p \in Pairs : header[p] = None
    BY DEF HeaderIsCache, Booting, Recovering, JournalWritten
  <2>2. Journaled(b) = {}
    BY <2>1 DEF Journaled, Intact
  <2>3. QED
    BY <2>2, DurableValue DEF TornIsJournaled
<1>2. CleanCacheIsDurable
  <2> SUFFICES ASSUME cache_block # None, ~dirty
               PROVE  Durable(cache_block) = cache_data
    BY DEF CleanCacheIsDurable
  <2>1. cache_block \in Blocks /\ pc \notin Booting
    BY DEF TypeOK, CacheState
  <2>2. \A p \in Pairs : header[p] = None
    BY <2>1 DEF HeaderIsCache
  <2>3. Journaled(cache_block) = {}
    BY <2>2 DEF Journaled, Intact
  <2>4. QED
    BY <2>1, <2>3, DurableValue DEF CleanIsWritten
<1>3. QED
  BY <1>1, <1>2

(* Every variable keeps its type; in particular the cache never holds a     *)
(* torn sector, because select_disk_cache reloads only whole ones.          *)
THEOREM TypeCorrect == ASSUME FailuresAreLatched PROVE Spec => []TypeOK
  BY Invariance, IInvImplies, PTL

(* No cut, reboot or latched flash failure leaves a torn sector without an  *)
(* intact journal entry for it.                                             *)
THEOREM TornSectorsAreJournaled == ASSUME FailuresAreLatched PROVE Spec => []TornIsJournaled
  BY Invariance, IInvImplies, PTL

(* While writes are served, flash holds whole sectors and no journal entry  *)
(* that a reset would replay over them.                                     *)
THEOREM ServedSectors == ASSUME FailuresAreLatched PROVE Spec => []ServedSectorsAreDurable
  BY Invariance, IInvImplies, PTL

(* What flush_disk_cache reported as committed survives a reset. *)
THEOREM CleanCache == ASSUME FailuresAreLatched PROVE Spec => []CleanCacheIsDurable
  BY Invariance, IInvImplies, PTL

(* With a sound flash part no step leaves a valid header over bad data. *)
LEMMA NextSoundRecovery ==
  ASSUME ~FlashFaults, IInv, SoundRecovery, [Next]_vars
  PROVE  SoundRecovery'
<1> USE DEF IInv
<1>1. ASSUME UNCHANGED flash, pc' \notin {"restore_verify", "boot_failed"}
      PROVE  SoundRecovery'
  BY <1>1 DEF SoundRecovery, Intact, flash
<1>2. ASSUME \A p \in Pairs : header'[p] = None, pc' \notin {"restore_verify", "boot_failed"}
      PROVE  SoundRecovery'
  BY <1>2 DEF SoundRecovery
<1>3. ASSUME NEW w \in Writes, WriteRecord(w) PROVE SoundRecovery'
  BY <1>1, <1>3 DEF WriteRecord, ApplyWrite, flash
<1>4. ASSUME Flush \/ RebootFlush \/ AcquireBus \/ VerifyJournal \/ VerifyTarget \/ ReleaseBus
             \/ PowerCut \/ ScanHeaders
      PROVE SoundRecovery'
  BY <1>1, <1>4 DEF Flush, RebootFlush, AcquireBus, NextPair, FlushFails, VerifyJournal,
     VerifyTarget,
     ReleaseBus, ApplyWrite, PowerCut, ColdRam, ScanHeaders, flash
<1>5. ASSUME ErasePairHeader \/ ErasePairData \/ ProgramJournalData PROVE SoundRecovery'
  <2>1. \A p \in Pairs : header[p] = None
    BY <1>5 DEF ErasePairHeader, ErasePairData, ProgramJournalData, HeaderIsCache, Booting,
       Recovering, JournalWritten
  <2>2. QED
    BY <1>2, <1>5, <2>1 DEF ErasePairHeader, ErasePairData, ProgramJournalData, TypeOK
<1>6. ASSUME ProgramJournalHeader PROVE SoundRecovery'
  <2>1. journal[pair] = cache_data /\ header' = [header EXCEPT ![pair] = NewHeader]
    BY <1>6 DEF ProgramJournalHeader, Programmed, SoundFlash
  <2>2. NewHeader.data = cache_data
    BY DEF NewHeader
  <2>3. QED
    BY <1>6, <2>1, <2>2 DEF ProgramJournalHeader, SoundRecovery, Intact, TypeOK
<1>7. ASSUME EraseTarget \/ ProgramTarget \/ ClearHeader PROVE SoundRecovery'
  BY <1>7 DEF EraseTarget, ProgramTarget, ClearHeader, Programmed, SoundRecovery, Intact, TypeOK
<1>8. ASSUME SelectPair PROVE SoundRecovery'
  <2>1. \A p \in replay : journal[p] = header[p].data
    BY <1>8 DEF SelectPair, SoundRecovery, Intact, ReplayState
  <2>2. QED
    BY <1>1, <1>8, <2>1 DEF SelectPair
<1>9. ASSUME RestoreErase \/ RestoreProgram \/ RestoreVerify \/ RestoreClear PROVE SoundRecovery'
  <2>1. pair \in Pairs /\ header[pair].target \in Blocks
    BY <1>9 DEF RestoreErase, RestoreProgram, RestoreVerify, RestoreClear, ReplayState,
       TypeOK, Headers, Flushing, Recovering, Stopped, Booting, JournalWritten, Restoring
  <2>2. QED
    BY <1>9, <2>1 DEF RestoreErase, RestoreProgram, RestoreVerify, RestoreClear, Programmed,
       SoundRecovery, Intact, TypeOK, flash
<1>10. ASSUME UNCHANGED vars PROVE SoundRecovery'
  BY <1>10 DEF vars, SoundRecovery, Intact
<1>11. QED
  BY <1>3, <1>4, <1>5, <1>6, <1>7, <1>8, <1>9, <1>10 DEF Next, FlushStep, RecoveryStep

(* Whatever the moment of the cut, and however many cuts hit recovery        *)
(* itself, recover_journal never reports a journal error on sound flash.     *)
THEOREM BootSucceeds == ASSUME ~FlashFaults PROVE Spec => []BootNeverFails
<1>1. FailuresAreLatched
  BY DEF FailuresAreLatched
<1>2. Init => SoundRecovery
  BY DEF Init, SoundRecovery
<1>3. IInv /\ SoundRecovery /\ [Next]_vars => SoundRecovery'
  BY NextSoundRecovery
<1>4. SoundRecovery => BootNeverFails
  BY DEF SoundRecovery, BootNeverFails
<1>5. Spec => []IInv
  BY <1>1, Invariance
<1>6. QED
  BY <1>2, <1>3, <1>4, <1>5, PTL DEF Spec

(* The same of the model-checked composition, where the part with sound     *)
(* flash runs beside the one that misprograms: z80_flash_backend_init never *)
(* fails there.                                                             *)
THEOREM SoundPartBoots == ASSUME ~FlashFaults PROVE PartSpec => []SoundFlashBoots
<1> DEFINE PartInv == part = "cuts" => IInv /\ SoundRecovery
<1>1. PartInit => PartInv
  BY InitIInv DEF PartInit, Init, SoundRecovery
<1>2. PartInv /\ [PartNext]_<<vars, part>> => PartInv'
  <2> SUFFICES ASSUME PartInv, [PartNext]_<<vars, part>>, part' = "cuts"
               PROVE  (IInv /\ SoundRecovery)'
    OBVIOUS
  <2>1. part = "cuts" /\ [Next]_vars
    BY DEF PartNext
  <2>2. FailuresAreLatched
    BY DEF FailuresAreLatched
  <2> QED
    BY <2>1, <2>2, NextIInv, NextSoundRecovery
<1>3. PartInv => SoundFlashBoots
  BY DEF SoundRecovery, BootNeverFails, SoundFlashBoots
<1> QED
  BY <1>1, <1>2, <1>3, PTL DEF PartSpec

-----------------------------------------------------------------------------
(* Refinement of AtomicDisk.                                                *)

(* A step that leaves flash and cache alone is invisible. *)
LEMMA QuietStep ==
  ASSUME UNCHANGED <<flash, cache_block, cache_data>>
  PROVE  UNCHANGED Disk!vars
<1>1. \A b \in Blocks : Durable(b)' = Durable(b)
  BY DEF Durable, Newest, Journaled, Intact, flash
<1>2. \A b \in Blocks : View(b)' = View(b)
  BY <1>1 DEF View
<1>3. QED
  BY <1>1, <1>2 DEF Disk!vars

(* A record write is an abstract write: the sector that leaves the cache    *)
(* was clean, so it reads the same from flash.                              *)
LEMMA ApplyStep ==
  ASSUME IInv, NEW w \in Writes, ApplyWrite(w), UNCHANGED flash,
         pc \in {"idle", "release"},
         \A p \in Pairs : header[p] = None,
         cache_block = w.block \/ ~dirty
  PROVE  Disk!Write(w.block, w.rec, w.val)
<1>1. \A b \in Blocks : Durable(b) = target[b]
  BY DurableValue DEF IInv, Journaled, Intact
<1>2. \A b \in Blocks : Durable(b)' = Durable(b)
  BY DEF Durable, Newest, Journaled, Intact, flash
<1>3. w.block \in Blocks
  BY DEF Writes
<1>4. View(w.block)' = [View(w.block) EXCEPT ![w.rec] = w.val]
  BY <1>1, <1>3 DEF View, ApplyWrite
<1>5. ASSUME NEW b \in Blocks, b # w.block PROVE View(b)' = View(b)
  <2>1. cache_block = b => target[b] = cache_data
    BY <1>5, NoneAssumption DEF IInv, CleanIsWritten
  <2>2. QED
    BY <1>1, <1>2, <1>3, <1>5, <2>1 DEF View, ApplyWrite
<1>6. QED
  BY <1>2, <1>3, <1>4, <1>5 DEF Disk!Write

(* Every step is a step of the abstract disk or invisible to it. *)
LEMMA StepSimulation ==
  ASSUME FailuresAreLatched, IInv, IInv', [Next]_vars
  PROVE  [Disk!Next]_(Disk!vars)
<1> USE DEF IInv
<1>1. ASSUME NEW w \in Writes, WriteRecord(w) PROVE [Disk!Next]_(Disk!vars)
  <2>1. \A p \in Pairs : header[p] = None
    BY <1>1 DEF WriteRecord, HeaderIsCache, Booting, Recovering, JournalWritten
  <2>2. CASE (cache_block = w.block \/ ~dirty) /\ ApplyWrite(w)
    <3>1. Disk!Write(w.block, w.rec, w.val)
      BY <1>1, <2>1, <2>2, ApplyStep DEF WriteRecord
    <3>2. QED
      BY <3>1 DEF Disk!Next, Writes
  <2>3. CASE UNCHANGED cache
    BY <1>1, <2>3, QuietStep DEF WriteRecord, cache
  <2>4. QED
    BY <1>1, <2>2, <2>3 DEF WriteRecord
<1>2. ASSUME Flush \/ RebootFlush \/ AcquireBus \/ VerifyJournal \/ VerifyTarget \/ ScanHeaders
             \/ SelectPair \/ RestoreVerify
      PROVE [Disk!Next]_(Disk!vars)
  BY <1>2, QuietStep DEF Flush, RebootFlush, AcquireBus, NextPair, FlushFails, VerifyJournal,
     VerifyTarget,
     ScanHeaders, SelectPair, RestoreVerify, cache
<1>3. ASSUME ReleaseBus PROVE [Disk!Next]_(Disk!vars)
  <2>1. CASE UNCHANGED cache
    BY <1>3, <2>1, QuietStep DEF ReleaseBus, cache
  <2>2. CASE ~dirty /\ waiting # None /\ ApplyWrite(waiting)
    <3>1. \A p \in Pairs : header[p] = None
      BY <1>3, <2>2 DEF ReleaseBus, HeaderIsCache, Booting, Recovering
    <3>2. waiting \in Writes
      BY <2>2 DEF TypeOK
    <3>3. Disk!Write(waiting.block, waiting.rec, waiting.val)
      BY <1>3, <2>2, <3>1, <3>2, ApplyStep DEF ReleaseBus
    <3>4. QED
      BY <3>2, <3>3 DEF Disk!Next, Writes
  <2>3. QED
    BY <1>3, <2>1, <2>2 DEF ReleaseBus, FlushFails
<1>4. ASSUME ErasePairHeader \/ ErasePairData \/ ProgramJournalData PROVE [Disk!Next]_(Disk!vars)
  <2>1. \A p \in Pairs : header[p] = None /\ header'[p] = None
    BY <1>4 DEF ErasePairHeader, ErasePairData, ProgramJournalData, HeaderIsCache, Booting,
       Recovering, JournalWritten, TypeOK
  <2>2. \A b \in Blocks : Journaled(b) = {} /\ Journaled(b)' = {}
    BY <2>1 DEF Journaled, Intact
  <2>3. \A b \in Blocks : Durable(b)' = Durable(b)
    BY <1>4, <2>2 DEF Durable, ErasePairHeader, ErasePairData, ProgramJournalData
  <2>4. \A b \in Blocks : View(b)' = View(b)
    BY <1>4, <2>3 DEF View, cache, ErasePairHeader, ErasePairData, ProgramJournalData
  <2>5. QED
    BY <2>3, <2>4 DEF Disk!vars
<1>5. ASSUME ProgramJournalHeader PROVE [Disk!Next]_(Disk!vars)
  <2>1. \A p \in Pairs : header[p] = None
    BY <1>5 DEF ProgramJournalHeader, HeaderIsCache, Booting, Recovering, JournalWritten
  <2>2. cache_block \in Blocks /\ pair \in Pairs
    BY <1>5 DEF ProgramJournalHeader, CacheState, TypeOK, Flushing
  <2>3. \A b \in Blocks : Durable(b) = target[b]
    BY <2>1, DurableValue DEF Journaled, Intact
  <2>4. /\ \A p \in Pairs : header'[p] # None =>
             p = pair /\ header'[p].target = cache_block /\ header'[p].data = cache_data
        /\ UNCHANGED <<target, journal, cache_block, cache_data>>
    BY <1>5, <2>1 DEF ProgramJournalHeader, Programmed, NewHeader, cache, TypeOK
  <2>5. ASSUME NEW b \in Blocks, b # cache_block PROVE Durable(b)' = Durable(b)
    <3>1. Journaled(b)' = {}
      BY <2>4, <2>5 DEF Journaled, Intact
    <3>2. QED
      BY <2>3, <2>4, <2>5, <3>1 DEF Durable
  <2>6. Durable(cache_block)' \in {target[cache_block], cache_data}
    <3>1. CASE Journaled(cache_block)' = {}
      BY <2>4, <3>1 DEF Durable
    <3>2. CASE Journaled(cache_block)' # {}
      <4>1. PICK p \in Pairs : p \in Journaled(cache_block)'
        BY <3>2 DEF Journaled
      <4>2. journal'[p] = cache_data
        BY <2>4, <4>1 DEF Journaled, Intact
      <4>3. (\A b \in Blocks : \A q \in Journaled(b) : Durable(b) = journal[q])'
        BY DurableValueNext
      <4>4. QED
        BY <2>2, <2>4, <4>1, <4>2, <4>3
    <3>3. QED
      BY <3>1, <3>2
  <2>7. \A b \in Blocks : View(b)' = View(b)
    BY <2>4, <2>5 DEF View
  <2>8. CASE Durable(cache_block)' = target[cache_block]
    <3>1. \A b \in Blocks : Durable(b)' = Durable(b)
      BY <2>2, <2>3, <2>4, <2>5, <2>8
    <3>2. QED
      BY <2>7, <3>1 DEF Disk!vars
  <2>9. CASE Durable(cache_block)' = cache_data
    <3>1. Disk!Sync(cache_block)
      BY <2>2, <2>4, <2>5, <2>7, <2>9 DEF Disk!Sync, View
    <3>2. QED
      BY <2>2, <3>1 DEF Disk!Next
  <2>10. QED
    BY <2>6, <2>8, <2>9
<1>6. ASSUME EraseTarget \/ ProgramTarget \/ RestoreErase \/ RestoreProgram
      PROVE  [Disk!Next]_(Disk!vars)
  <2>1. PICK c \in Blocks : /\ \A b \in Blocks \ {c} : target'[b] = target[b]
                            /\ pair \in Journaled(c)
    <3>1. CASE EraseTarget \/ ProgramTarget
      <4>1. header[pair] = NewHeader /\ journal[pair] = cache_data
        BY <3>1 DEF EraseTarget, ProgramTarget, JournalReady, JournalWritten
      <4>2. cache_block \in Blocks /\ pair \in Pairs
        BY <3>1 DEF EraseTarget, ProgramTarget, CacheState, Flushing, TypeOK
      <4>3. NewHeader # None /\ NewHeader.target = cache_block /\ NewHeader.data = cache_data
        BY <4>2, NoneAssumption DEF NewHeader, Headers, TypeOK
      <4>4. pair \in Journaled(cache_block)
        BY <4>1, <4>2, <4>3 DEF Journaled, Intact
      <4>5. QED
        BY <3>1, <4>2, <4>4 DEF EraseTarget, ProgramTarget, TypeOK
    <3>2. CASE RestoreErase \/ RestoreProgram
      <4>1. /\ pair \in Pairs /\ header[pair] \in Headers /\ header[pair].target \in Blocks
            /\ journal[pair] = header[pair].data
        BY <3>2 DEF RestoreErase, RestoreProgram, ReplayState, TypeOK, Headers, Restoring
      <4>2. pair \in Journaled(header[pair].target)
        BY <4>1, NoneAssumption DEF Journaled, Intact
      <4>3. QED
        BY <3>2, <4>1, <4>2 DEF RestoreErase, RestoreProgram, TypeOK
    <3>3. QED
      BY <1>6, <3>1, <3>2
  <2>2. UNCHANGED <<header, journal, cache_block, cache_data>>
    BY <1>6 DEF EraseTarget, ProgramTarget, RestoreErase, RestoreProgram, cache
  <2>3. \A b \in Blocks : Journaled(b)' = Journaled(b) /\ Newest(b)' = Newest(b)
    BY <2>2 DEF Journaled, Intact, Newest
  <2>4. \A b \in Blocks : Durable(b)' = Durable(b)
    <3> SUFFICES ASSUME NEW b \in Blocks PROVE Durable(b)' = Durable(b)
      OBVIOUS
    <3>1. CASE b = c
      BY <2>1, <2>2, <2>3, <3>1 DEF Durable
    <3>2. CASE b # c
      BY <2>1, <2>2, <2>3, <3>2 DEF Durable, TypeOK
    <3>3. QED
      BY <3>1, <3>2
  <2>5. \A b \in Blocks : View(b)' = View(b)
    BY <2>2, <2>4 DEF View
  <2>6. QED
    BY <2>4, <2>5 DEF Disk!vars
<1>7. ASSUME ClearHeader \/ RestoreClear PROVE [Disk!Next]_(Disk!vars)
  <2>1. PICK c \in Blocks : /\ pair \in Journaled(c) /\ target[c] = journal[pair]
                            /\ \A p \in Pairs : header[p] # None => p = pair
    <3>1. CASE ClearHeader
      <4>1. cache_block \in Blocks /\ pair \in Pairs
        BY <3>1 DEF ClearHeader, CacheState, Flushing, TypeOK
      <4>2. /\ header[pair] = NewHeader /\ journal[pair] = cache_data
            /\ target[cache_block] = cache_data
        BY <3>1 DEF ClearHeader, JournalReady, JournalWritten
      <4>3. NewHeader # None /\ NewHeader.target = cache_block /\ NewHeader.data = cache_data
        BY <4>1, NoneAssumption DEF NewHeader, Headers, TypeOK
      <4>4. pair \in Journaled(cache_block)
        BY <4>1, <4>2, <4>3 DEF Journaled, Intact
      <4>5. \A p \in Pairs : header[p] # None => p = pair
        BY <4>1, <4>2, <4>3 DEF OneHeader
      <4>6. QED
        BY <4>1, <4>2, <4>4, <4>5
    <3>2. CASE RestoreClear
      <4>1. /\ pair \in Pairs /\ header[pair] \in Headers /\ header[pair].target \in Blocks
            /\ journal[pair] = header[pair].data /\ target[header[pair].target] = journal[pair]
        BY <3>2 DEF RestoreClear, ReplayState, TypeOK, Headers, Restoring
      <4>2. pair \in Journaled(header[pair].target) /\ header[pair] # None
        BY <4>1, NoneAssumption DEF Journaled, Intact
      <4>3. QED
        BY <4>1, <4>2 DEF OneHeader
    <3>3. QED
      BY <1>7, <3>1, <3>2
  <2>2. UNCHANGED <<target, journal, cache_block, cache_data>>
    BY <1>7 DEF ClearHeader, RestoreClear, cache
  <2>3. PICK h \in {None, header[pair]} : header' = [header EXCEPT ![pair] = h]
    BY <1>7 DEF ClearHeader, RestoreClear, Programmed
  <2>4. \A b \in Blocks : Durable(b) = target[b]
    <3> SUFFICES ASSUME NEW b \in Blocks PROVE Durable(b) = target[b]
      OBVIOUS
    <3>1. CASE b = c
      BY <2>1, <3>1, DurableValue
    <3>2. CASE b # c
      <4>1. Journaled(b) = {}
        BY <2>1, <3>2 DEF Journaled, Intact
      <4>2. QED
        BY <4>1, DurableValue
    <3>3. QED
      BY <3>1, <3>2
  <2>5. \A b \in Blocks : Durable(b)' = Durable(b)
    <3>1. CASE h = None
      <4>1. \A p \in Pairs : header'[p] = None
        BY <2>1, <2>3, <3>1 DEF TypeOK
      <4>2. \A b \in Blocks : Journaled(b)' = {}
        BY <4>1 DEF Journaled, Intact
      <4>3. QED
        BY <2>2, <2>4, <4>2 DEF Durable
    <3>2. CASE h # None
      <4>1. header' = header
        BY <2>3, <3>2 DEF TypeOK
      <4>2. QED
        BY <2>2, <4>1 DEF Durable, Newest, Journaled, Intact
    <3>3. QED
      BY <3>1, <3>2
  <2>6. \A b \in Blocks : View(b)' = View(b)
    BY <2>2, <2>5 DEF View
  <2>7. QED
    BY <2>5, <2>6 DEF Disk!vars
<1>8. ASSUME PowerCut PROVE [Disk!Next]_(Disk!vars)
  <2>1. \A b \in Blocks : Durable(b)' = Durable(b)
    BY <1>8 DEF PowerCut, Durable, Newest, Journaled, Intact, flash
  <2>2. \A b \in Blocks : View(b)' = Durable(b)
    BY <1>8, <2>1, NoneAssumption DEF PowerCut, ColdRam, View
  <2>3. Disk!Reset
    BY <2>1, <2>2 DEF Disk!Reset
  <2>4. QED
    BY <2>3 DEF Disk!Next
<1>9. ASSUME UNCHANGED vars PROVE [Disk!Next]_(Disk!vars)
  BY <1>9, QuietStep DEF vars, flash
<1>10. QED
  BY <1>1, <1>2, <1>3, <1>4, <1>5, <1>6, <1>7, <1>8, <1>9 DEF Next, FlushStep, RecoveryStep

(* The sector cache, the journal and recovery together implement a disk     *)
(* whose sectors change atomically and whose only loss is the unflushed     *)
(* view, under any interleaving of flushes, cuts and recoveries.            *)
THEOREM Refinement == ASSUME FailuresAreLatched PROVE Spec => ImplementsAtomicDisk
<1>1. Init => Disk!Init
  <2> SUFFICES ASSUME Init PROVE Disk!Init
    OBVIOUS
  <2>1. IInv /\ \A p \in Pairs : header[p] = None
    BY InitIInv DEF Init
  <2>2. \A b \in Blocks : Durable(b) = target[b]
    BY <2>1, DurableValue DEF IInv, Journaled, Intact
  <2>3. \A b \in Blocks : View(b) = target[b]
    BY <2>2, NoneAssumption DEF View, Init
  <2>4. \A b \in Blocks : target[b] \in Data
    BY DEF Init
  <2>5. QED
    BY <2>2, <2>3, <2>4 DEF Disk!Init, Disk!Data, Data
<1>2. IInv /\ IInv' /\ [Next]_vars => [Disk!Next]_(Disk!vars)
  BY StepSimulation
<1>3. Spec => []IInv
  BY Invariance
<1>4. QED
  BY <1>1, <1>2, <1>3, PTL DEF Spec, ImplementsAtomicDisk, Disk!Spec
=============================================================================
