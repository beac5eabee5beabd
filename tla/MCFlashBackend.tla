--------------------------- MODULE MCFlashBackend ---------------------------
(* Model-checking instances of FlashBackend: two sectors of two records, two *)
(* journal pairs, so that pairs are reused and a stale one can survive.  The *)
(* flash is sound in the part "cuts", where the reboot service flushes too,  *)
(* and misprograms in the part "faults", where every failure is latched.     *)
EXTENDS FlashBackend

VARIABLE part

Faulty == INSTANCE FlashBackend WITH FlashFaults <- TRUE, RebootService <- FALSE

PartInit == Init /\ part \in {"cuts", "faults"}

PartNext == /\ UNCHANGED part
            /\ \/ part = "cuts" /\ Next
               \/ part = "faults" /\ Faulty!Next

PartSpec == PartInit /\ [][PartNext]_<<vars, part>>

(* Flash that programs what it is told never makes a boot fail              *)
(* (flash_backend.c z80_flash_backend_init).                                *)
SoundFlashBoots == part = "cuts" => BootNeverFails
=============================================================================
