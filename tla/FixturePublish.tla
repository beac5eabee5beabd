--------------------------- MODULE FixturePublish ---------------------------
(***************************************************************************)
(* Saving the files of a debugged program when it ends (save_fixtures in   *)
(* dcc_host_full_cpm.cpp, dcc_host_fixture_publish.cpp): they are staged    *)
(* beside the destination, the old directory is renamed away, the new one  *)
(* into its place, and the old one removed.  Any call may fail, and the     *)
(* process may be killed between two.  write_file never flushes or closes   *)
(* its stream under its own eyes: a file cut short by a full disk counts as *)
(* written, and staging is "cut" without anybody knowing.                   *)
(***************************************************************************)
EXTENDS Naturals

VARIABLE pub       \* at: the next call; ok: what was reported; the directories: "none",
                   \* "old", "new", and "part" (known to be) or "cut" (not known to be) short

Init ==
  \E d \in {"none", "old"} :
    pub = [at |-> "start", ok |-> FALSE, had |-> (d = "old"), dest |-> d, backup |-> "none", staging |-> "none"]

Step(from, to, p) == pub.at = from /\ pub' = [p EXCEPT !.at = to]

(* The image is not read or the directory not made; a write that fails; a   *)
(* short write that passes for a whole one; all is written.                 *)
stage ==
  \/ Step("start", "end", pub)
  \/ Step("start", "unstage", [pub EXCEPT !.staging = "part"])
  \/ \E files \in {"new", "cut"} :
       Step("start", "preserve", [pub EXCEPT !.staging = files])

preserveByRemoval ==    \* mutant: the old directory is removed, not renamed
  \/ Step("preserve", "publish", [pub EXCEPT !.dest = "none"])
  \/ Step("preserve", "unstage", pub)

preserve ==
  \/ pub.dest = "none" /\ Step("preserve", "publish", pub)
  \/ pub.dest # "none" /\ Step("preserve", "publish", [pub EXCEPT !.dest = "none", !.backup = pub.dest])
  \/ pub.dest # "none" /\ Step("preserve", "unstage", pub)

publish ==
  \/ Step("publish", "drop", [pub EXCEPT !.dest = pub.staging, !.staging = "none"])
  \/ Step("publish", "restore", pub)

(* The old directory goes back, when there was one and the rename succeeds. *)
restore ==
  \/ Step("restore", "unstage", pub)
  \/ pub.backup # "none" /\ Step("restore", "unstage", [pub EXCEPT !.dest = pub.backup, !.backup = "none"])

unstage ==
  \/ Step("unstage", "end", pub)
  \/ Step("unstage", "end", [pub EXCEPT !.staging = "none"])

drop_backup ==
  \E left \in {"none", "part", pub.backup} :       \* the removal may fail or stop midway
    /\ pub.backup = "none" => left = "none"
    /\ Step("drop", "end", [pub EXCEPT !.backup = left, !.ok = TRUE])

(* The process ends or is killed, and another session saves.  (A backup that *)
(* was left behind keeps its own name; no later session touches it.)        *)
Killed ==
  /\ pub.at # "start"
  /\ pub.backup = "none"
  /\ pub' = [pub EXCEPT !.at = "start", !.ok = FALSE, !.staging = "none",
                        !.had = pub.dest # "none",
                        !.dest = IF @ = "none" THEN @ ELSE "old"]

Next == stage \/ preserve \/ publish \/ restore \/ unstage \/ drop_backup \/ Killed

-----------------------------------------------------------------------------
(* Whatever call fails and whenever the process is killed, a destination     *)
(* that held files still exists or is whole in the backup, and a save that  *)
(* reports a failure has cost none of the old files.  (One that reports     *)
(* success may have: files cut short without an error replace them.)        *)
FixturesAreKept ==
  pub.had => /\ pub.dest # "none" \/ pub.backup = "old"
             /\ pub.at = "end" /\ ~pub.ok => "old" \in {pub.dest, pub.backup}
=============================================================================
