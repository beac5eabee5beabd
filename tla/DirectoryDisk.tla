--------------------------- MODULE DirectoryDisk ---------------------------
(***************************************************************************)
(* The directory-backed drive of the debug host: directory_disk.cpp makes  *)
(* a CP/M disk of host files before the run and files of the disk after    *)
(* it.  In between the program uses the disk as BDOS does (external).      *)
(* Bytes are tokens; records, blocks, extents and the directory are        *)
(* scaled down, the sector tables are the code's.                          *)
(***************************************************************************)
EXTENDS Naturals, Sequences, SequencesExt, FiniteSetsExt

CONSTANTS
  HostFiles,       \* the lists of files tried: [name, valid, text, data]
  Written,         \* extents the program writes: whole records
  RecordSize,      \* kLogicalSectorSize, 128
  BlockSize,       \* kBlockSize, 2048
  ExtentSize,      \* kExtentSize, 16384
  DirectoryEntries,\* kDirectoryEntries, 128
  LastDataBlock,   \* kLastDataBlock, 149
  MaxSteps         \* bound: what the program does to the disk

VARIABLE dd

FirstDataBlock == 2
Free == [name |-> "e5", extent |-> 0, records |-> 0, blocks |-> <<>>]
Fill(n) == [i \in 1..n |-> "0"]

Init == \E files \in HostFiles :
  dd = [todo |-> files, entries |-> <<>>, next |-> FirstDataBlock,
        blocks |-> [b \in FirstDataBlock..LastDataBlock |-> Fill(BlockSize)],
        status |-> "building", steps |-> 0, truth |-> <<>>, out |-> {}]

-----------------------------------------------------------------------------
(* build                                                                    *)

Up(n, d) == (n + d - 1) \div d
Padded(s, n) == s \o Fill(n * Up(Len(s), n) - Len(s))

text_payload(data) ==
  LET crlf == FoldLeft(LAMBDA r, c : r \o IF c = "\n" /\ (r = <<>> \/ Last(r) # "\r")
                                          THEN <<"\r", c>> ELSE <<c>>, <<>>, data)
  IN IF crlf = <<>> \/ Last(crlf) # "^Z" THEN Append(crlf, "^Z") ELSE crlf

Payload(file) == LET data == IF file.text THEN text_payload(file.data) ELSE file.data
                 IN IF data = <<>> THEN <<"0">> ELSE data

BlockCount(n) == Up(n, BlockSize)

Part(s, i, n) == SubSeq(s, (i - 1) * n + 1, IF i * n < Len(s) THEN i * n ELSE Len(s))

(* One turn of the loop of add_file: an extent and its blocks.              *)
AddExtent(d, name, number, data) ==
  LET n == BlockCount(Len(data)) IN
  CASE d.status # "building"                -> d
    [] Len(d.entries) = DirectoryEntries    -> [d EXCEPT !.status = "no entries"]
    [] d.next + n - 1 > LastDataBlock       -> [d EXCEPT !.status = "full"]
    [] OTHER -> [d EXCEPT !.next = @ + n,
         !.entries = Append(@, [name |-> name, extent |-> number,
                                records |-> Up(Len(data), RecordSize),
                                blocks |-> [i \in 1..n |-> d.next + i - 1]]),
         !.blocks = [b \in DOMAIN @ |-> IF b \in d.next..(d.next + n - 1)
                      THEN Padded(Part(data, b - d.next + 1, BlockSize), BlockSize) ELSE @[b]]]

Extents(data) == [i \in 1..Up(Len(data), ExtentSize) |-> Part(data, i, ExtentSize)]

Names(d) == {d.truth[i].name : i \in DOMAIN d.truth}

add_file == /\ dd.status = "building" /\ dd.todo # <<>>
  /\ LET file == Head(dd.todo)
         data == Payload(file)
         added == FoldLeftDomain(LAMBDA d, i : AddExtent(d, file.name, i - 1, Extents(data)[i]),
                                 dd, Extents(data))
     IN dd' = IF ~file.valid THEN [dd EXCEPT !.status = "not 8.3"]
              ELSE IF file.name \in Names(dd) THEN [dd EXCEPT !.status = "duplicate"]
              ELSE [added EXCEPT !.todo = Tail(@),
                      !.truth = Append(@, [name |-> file.name, data |-> Padded(data, RecordSize)])]

(* The rest of the directory is 0xe5.                                       *)
built == /\ dd.status = "building" /\ dd.todo = <<>>
  /\ dd' = [dd EXCEPT !.status = "built",
              !.entries = @ \o [i \in 1..(DirectoryEntries - Len(@)) |-> Free]]

(* kSectorTranslation, and where a logical sector of a track is put.        *)
SectorTranslation ==
  <<0, 8, 16, 24, 2, 10, 18, 26, 4, 12, 20, 28, 6, 14, 22, 30,
    1, 9, 17, 25, 3, 11, 19, 27, 5, 13, 21, 29, 7, 15, 23, 31>>
RawSector(track, sector) == LET raw == SectorTranslation[sector + 1] IN
  IF track >= 6 THEN (raw * 17) % 32 ELSE raw

-----------------------------------------------------------------------------
(* The program, through BDOS: it deletes a file, makes one or extends one.  *)

Used == UNION {Range(dd.entries[i].blocks) : i \in DOMAIN dd.entries}
Running == dd.status = "built" /\ dd.steps < MaxSteps
FreeSlot == SelectInSeq(dd.entries, LAMBDA e : e = Free)

erase(name) == /\ Running /\ name \in Names(dd)
  /\ dd' = [dd EXCEPT !.steps = @ + 1,
       !.entries = [i \in DOMAIN @ |-> IF @[i].name = name THEN Free ELSE @[i]],
       !.truth = SelectSeq(@, LAMBDA f : f.name # name)]

write(name, data) ==
  LET old    == {e \in Range(dd.entries) : e.name = name}
      n      == BlockCount(Len(data))
      unused == SetToSortSeq(DOMAIN dd.blocks \ Used, <)
      taken  == SubSeq(unused, 1, n)
      before == IF name \in Names(dd)
                THEN dd.truth[SelectInSeq(dd.truth, LAMBDA f : f.name = name)].data ELSE <<>>
  IN /\ Running /\ FreeSlot # 0 /\ Len(unused) >= n
     /\ \A e \in old : e.records * RecordSize = ExtentSize
     /\ dd' = [dd EXCEPT !.steps = @ + 1,
          !.entries[FreeSlot] = [name |-> name, extent |-> Cardinality(old), blocks |-> taken,
                                 records |-> Len(data) \div RecordSize],
          !.blocks = [b \in DOMAIN @ |-> IF \E i \in 1..n : taken[i] = b
                       THEN Padded(Part(data, CHOOSE i \in 1..n : taken[i] = b, BlockSize), BlockSize)
                       ELSE @[b]],
          !.truth = Append(SelectSeq(@, LAMBDA f : f.name # name),
                           [name |-> name, data |-> before \o data])]

-----------------------------------------------------------------------------
(* extract                                                                  *)

Live == {e \in Range(dd.entries) : e # Free}

DataOf(e) == SubSeq(FlattenSeq([i \in DOMAIN e.blocks |-> dd.blocks[e.blocks[i]]]),
                    1, e.records * RecordSize)

Complete(e) == e.records * RecordSize <= Len(e.blocks) * BlockSize

InOrder(name) == SetToSortSeq({e \in Live : e.name = name},
                              LAMBDA a, b : a.extent < b.extent)

extract == /\ dd.status = "built"
  /\ dd' = IF \E e \in Live : ~Complete(e) THEN [dd EXCEPT !.status = "incomplete"]
           ELSE [dd EXCEPT !.status = "extracted",
             !.out = {[name |-> e.name, data |-> FlattenSeq(
                         [i \in DOMAIN InOrder(e.name) |-> DataOf(InOrder(e.name)[i])])]
                      : e \in Live}]

Next == \/ add_file \/ built \/ extract
        \/ \E f \in Range(dd.truth) : erase(f.name)
        \/ \E name \in {"A", "N"}, data \in Written : write(name, data)

-----------------------------------------------------------------------------
(* What comes off the disk is what went on: every file the host put there   *)
(* and the program left, and every one it wrote, with its text conversion   *)
(* and the padding of its last record, whatever the order of its extents in *)
(* the directory; no block belongs to two files; and every logical sector   *)
(* of a track has a place of its own on both kinds of track.                *)
DiskRoundTrips ==
  /\ dd.status = "extracted" => dd.out = Range(dd.truth)
  /\ dd.status # "incomplete"
  /\ \A e, f \in Live : e # f => Range(e.blocks) \cap Range(f.blocks) = {}
  /\ dd.status = "extracted" => \A track \in {5, 6} :
       Cardinality({RawSector(track, s) : s \in 0..31}) = 32
=============================================================================
