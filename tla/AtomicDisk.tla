----------------------------- MODULE AtomicDisk -----------------------------
(***************************************************************************)
(* What the flash backend promises its callers: a disk whose sectors change *)
(* as a whole.  "disk" is what survives a reset, "view" is what a read      *)
(* returns.  A record write is seen at once and is volatile; a sector       *)
(* becomes durable in one step; a reset returns the view to the disk.       *)
(* FlashBackend implements this with an erase/program device, a write-back  *)
(* sector cache and a journal.                                              *)
(***************************************************************************)
CONSTANTS Blocks,   \* disk sectors, as (drive, block_offset) pairs
          Recs,     \* the 128-byte records of a sector
          Vals      \* contents of a record

VARIABLES disk, view

vars == <<disk, view>>

Data == [Recs -> Vals]

Init ==
  /\ disk \in [Blocks -> Data]
  /\ view = disk

Write(b, r, v) ==
  /\ view' = [view EXCEPT ![b] = [@ EXCEPT ![r] = v]]
  /\ UNCHANGED disk

Sync(b) ==
  /\ disk' = [disk EXCEPT ![b] = view[b]]
  /\ UNCHANGED view

Reset ==
  /\ view' = disk
  /\ UNCHANGED disk

Next ==
  \/ \E b \in Blocks, r \in Recs, v \in Vals : Write(b, r, v)
  \/ \E b \in Blocks : Sync(b)
  \/ Reset

Spec == Init /\ [][Next]_vars
=============================================================================
