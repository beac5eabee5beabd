---------------------------- MODULE Environment ----------------------------
(***************************************************************************)
(* The persistent environment: the parser of its requests                  *)
(* (PortDrivers/environment_io.c, built for the Pico), the two alternating *)
(* snapshots in flash (environment_store.c) and the sector write           *)
(* (flash_backend.c), with power cuts at any step of a write.              *)
(*                                                                         *)
(* A request is one text, already split into its form, its name and its    *)
(* operands; a variable's value is <<n>> for a number n of the int64_t     *)
(* width (MinInt .. MaxInt), or Word.  A snapshot is the entries in order,  *)
(* and its CRC is right exactly in a slot that was published.              *)
(***************************************************************************)
EXTENDS Integers, Sequences, SequencesExt

CONSTANTS
  Texts,           \* the requests tried
  MaxEntries,      \* ENV_MAX_ENTRIES
  SnapshotEntries, \* entries that fit Z80_ENV_SNAPSHOT_BYTES
  ResponseEntries, \* entries that fit the response
  MinInt, MaxInt,  \* INT64_MIN, INT64_MAX
  HalfSequence     \* half of the sequence numbers, 2^31 in the code

VARIABLE env

Blank == [state |-> "blank"]
Torn == [state |-> "torn"]
Slot(n, e) == [state |-> "valid", sequence |-> n, entries |-> e]

OK == 0
READ == -2
WRITE == -3
FULL == -4
NOT_FOUND == -5

NoText == [form |-> "none"]

-----------------------------------------------------------------------------
(* environment_store.c                                                      *)

Valid(f, i) == f[i].state = "valid"

NewestSlot(f) ==      \* mutant: sequence numbers are compared without wrapping
  CASE Valid(f, 0) /\ Valid(f, 1) -> IF f[1].sequence > f[0].sequence THEN 1 ELSE 0
    [] Valid(f, 0) /\ ~Valid(f, 1) -> 0
    [] ~Valid(f, 0) /\ Valid(f, 1) -> 1
    [] f[0] = Blank /\ f[1] = Blank -> -1
    [] OTHER -> -2

(* The slot whose sequence is the newer by less than half the numbers; -1   *)
(* with both sectors erased, -2 with neither valid.                         *)
current_slot(f) ==
  CASE Valid(f, 0) /\ Valid(f, 1) ->
         IF (f[1].sequence - f[0].sequence) % (2 * HalfSequence) < HalfSequence THEN 1 ELSE 0
    [] Valid(f, 0) /\ ~Valid(f, 1) -> 0
    [] ~Valid(f, 0) /\ Valid(f, 1) -> 1
    [] f[0] = Blank /\ f[1] = Blank -> -1
    [] OTHER -> -2

Stored(f) == IF current_slot(f) < 0 THEN <<>> ELSE f[current_slot(f)].entries
Loads(f) == current_slot(f) # -2

(* Where a snapshot goes: never over the current one. *)
Target(f) == IF current_slot(f) = 0 THEN 1 ELSE 0
NextSequence(f) ==
  IF current_slot(f) < 0 THEN 1
  ELSE (f[current_slot(f)].sequence + 1) % (2 * HalfSequence)

-----------------------------------------------------------------------------
(* environment_io.c: names, values and expressions                          *)

(* Names are stored in upper case. *)
env_normalize_key(k) == IF k = "a" THEN "A" ELSE k
env_key_valid(k) == k # ""

env_find_index(es, k) == SelectInSeq(es, LAMBDA e : e.key = k)
Has(es, k) == env_key_valid(k) /\ env_find_index(es, k) # 0
env_get_value(es, k) == es[env_find_index(es, k)].value

Word == <<>>
IsNumber(v) == v # Word

(* env_calculate: the sum or difference, refused when it would overflow. *)
Overflows(l, r, minus) ==
  IF minus THEN (r > 0 /\ l < MinInt + r) \/ (r < 0 /\ l > MaxInt + r)
           ELSE (r > 0 /\ l > MaxInt - r) \/ (r < 0 /\ l < MinInt - r)

Calculate(l, r, minus) == <<IF minus THEN l - r ELSE l + r>>

(* An operand: a literal, NOW, or a variable; a name that is not set is a   *)
(* word.                                                                   *)
Operand(es, x) ==
  CASE x.kind \in {"literal", "now"} -> x.value
    [] x.kind = "name" /\ Has(es, env_normalize_key(x.name)) ->
         env_get_value(es, env_normalize_key(x.name))
    [] OTHER -> Word

Verbatim(x) == IF x.kind = "literal" THEN x.value ELSE Word

(* The right side of an assignment: one operand, or a sum or difference of  *)
(* numbers.                                                                *)
Evaluates(es, x) ==
  x.kind = "op" =>
    LET l == Operand(es, x.left)
        r == Operand(es, x.right)
    IN  IsNumber(l) /\ IsNumber(r) /\ ~Overflows(l[1], r[1], x.minus)

env_eval_value(es, x) ==
  IF x.kind = "op"
    THEN Calculate(Operand(es, x.left)[1], Operand(es, x.right)[1], x.minus)
    ELSE Operand(es, x)

-----------------------------------------------------------------------------
(* The entries a command asks for, and what it answers without a commit.    *)

Keep(es, status) == [entries |-> es, status |-> status, commit |-> FALSE]
Commit(es) == [entries |-> es, status |-> OK, commit |-> TRUE]

env_set_value(es, k, v) ==
  CASE ~env_key_valid(k) -> Keep(es, WRITE)
    [] Has(es, k) -> Commit([es EXCEPT ![env_find_index(es, k)].value = v])
    [] env_key_valid(k) /\ ~Has(es, k) /\ Len(es) >= MaxEntries -> Keep(es, FULL)
    [] OTHER -> Commit(Append(es, [key |-> k, value |-> v]))

env_delete_value(es, k) ==
  IF Has(es, k) THEN Commit(RemoveAt(es, env_find_index(es, k))) ELSE Keep(es, NOT_FOUND)

Show(es, k) == Keep(es, IF Has(es, k) THEN OK ELSE NOT_FOUND)
List(es) == Keep(es, IF Len(es) > ResponseEntries THEN FULL ELSE OK)

(* NAME+N: a variable that is not set counts as 0. *)
Delta(es, k, n) ==
  LET current == IF Has(es, k) THEN env_get_value(es, k) ELSE <<0>>
  IN  IF ~IsNumber(current) \/ Overflows(current[1], n, FALSE) THEN Keep(es, READ)
      ELSE env_set_value(es, k, Calculate(current[1], n, FALSE))

(* env_execute_cli: the command line of the ENV program. *)
env_execute_cli(es, t) ==
  CASE t.form = "none" -> List(es)
    [] t.form \in {"help", "count", "now"} -> Keep(es, OK)
    [] t.form = "default" ->
         IF Has(es, env_normalize_key(t.name)) THEN Keep(es, OK)
         ELSE env_set_value(es, env_normalize_key(t.name), Verbatim(t.arg))
    [] t.form = "assign" ->
         IF ~Evaluates(es, t.arg) THEN Keep(es, READ)
         ELSE env_set_value(es, env_normalize_key(t.name), env_eval_value(es, t.arg))
    [] t.form = "delta" -> Delta(es, env_normalize_key(t.name), t.arg.value[1])
    [] t.form = "delete" -> env_delete_value(es, env_normalize_key(t.name))
    [] OTHER -> Show(es, env_normalize_key(t.name))

(* env_execute_command: the bytes of a text are one name for a command that *)
(* takes one, and a name and a word for SET.                                *)
Name(t) == IF t = NoText THEN "" ELSE env_normalize_key(t.name)

env_execute_command(es, command, t) ==
  CASE command = "SET" -> env_set_value(es, Name(t), Word)
    [] command = "DELETE" -> env_delete_value(es, Name(t))
    [] command \in {"GET", "EXISTS"} -> Show(es, Name(t))
    [] command = "LIST" -> List(es)
    [] command = "COUNT" -> Keep(es, OK)
    [] command = "CLEAR" -> Commit(<<>>)
    [] command = "EXECUTE" -> env_execute_cli(es, t)
    [] OTHER -> Keep(es, READ)

Commands == {"SET", "DELETE", "GET", "EXISTS", "LIST", "COUNT", "CLEAR", "EXECUTE", "BAD"}

-----------------------------------------------------------------------------
(* The device.  "baseline" and "publish" are the first and the second of    *)
(* the writes a save may take; "may" is what a boot is allowed to find.     *)

Off(flash, may, based) ==
  [flash |-> flash, may |-> may, based |-> based, pc |-> "off", status |-> OK,
   request |-> NoText, entries |-> <<>>, write |-> <<>>, slot |-> 0]

Init == env = Off([i \in {0, 1} |-> Blank], {<<>>}, FALSE)

(* env_load_file *)
Loaded(s) ==
  [s EXCEPT !.entries = Stored(s.flash), !.status = IF Loads(s.flash) THEN OK ELSE READ]

(* The INIT command reads the flash again. *)
Reload ==
  /\ env.pc = "idle"
  /\ env' = [Loaded(env) EXCEPT !.request = NoText]

(* A byte past the buffer is dropped and reported. *)
env_append_byte(t) ==
  /\ env.pc = "idle"
  /\ env' = IF env.request = NoText THEN [env EXCEPT !.request = t]
            ELSE [env EXCEPT !.status = FULL]

env_reset_request ==
  /\ env.pc = "idle"
  /\ env' = [env EXCEPT !.request = NoText, !.status = OK]

(* What env_commit leaves when the save did not succeed. *)
Failed(s, status) ==
  [Loaded(s) EXCEPT !.pc = "idle", !.write = <<>>, !.may = {Stored(s.flash)},
                    !.status = IF Loads(s.flash) THEN status ELSE READ]

Saved(s, es) ==
  [s EXCEPT !.pc = "idle", !.status = OK, !.may = {es}, !.write = <<>>]

(* z80_env_snapshot_save: nothing to do, refused, or the writes it starts. *)
env_save_file(s, es) ==
  CASE Len(es) > SnapshotEntries -> Failed(s, FULL)
    [] Len(es) <= SnapshotEntries /\ ~Loads(s.flash) -> Failed(s, READ)
    [] current_slot(s.flash) >= 0 /\ Len(es) <= SnapshotEntries /\ Stored(s.flash) = es ->
         Saved(s, es)
    [] OTHER ->
         [s EXCEPT !.pc = "acquire", !.slot = Target(s.flash),
                   !.write = IF current_slot(s.flash) = -1 /\ es # <<>> THEN <<(<<>>), es>>
                                                                      ELSE <<es>>,
                   !.may = {Stored(s.flash), es}]

environment_output(command) ==
  LET r == env_execute_command(env.entries, command, env.request)
      s == [env EXCEPT !.entries = r.entries, !.status = r.status, !.request = NoText]
  IN  /\ env.pc = "idle"
      /\ env' = IF r.commit THEN env_save_file(s, r.entries) ELSE s

(* z80_flash_backend_env_write: core 0 may refuse the bus before the write, *)
(* and after it, when the snapshot is already in flash.                     *)
AcquireBus ==
  /\ env.pc = "acquire"
  /\ env' \in {[env EXCEPT !.pc = "erase"], Failed(env, WRITE)}

Put(s, sector) == [s EXCEPT !.flash[s.slot] = sector]

EraseBegins ==
  /\ env.pc = "erase"
  /\ env' = [Put(env, IF env.flash[env.slot] = Blank THEN Blank ELSE Torn) EXCEPT !.pc = "erased"]

EraseEnds ==
  /\ env.pc = "erased"
  /\ env' = [Put(env, Blank) EXCEPT !.pc = "payload"]

(* An empty payload leaves the sector erased; a bad one is noticed. *)
WritePayload ==
  LET s == Put(env, IF env.write[1] = <<>> THEN Blank ELSE Torn)
  IN  /\ env.pc = "payload"
      /\ env' \in {[s EXCEPT !.pc = "header"], Failed(s, WRITE)}

HeaderBegins ==
  /\ env.pc = "header"
  /\ env' = [Put(env, Torn) EXCEPT !.pc = "publish"]

(* The header is in flash, or the comparison fails; the bus is given back.  *)
(* After a baseline the snapshot itself is written.                         *)
HeaderEnds ==
  LET s == [Put(env, Slot(NextSequence(env.flash), env.write[1])) EXCEPT !.based = TRUE]
      next == [s EXCEPT !.pc = "acquire", !.write = Tail(@), !.slot = Target(s.flash)]
  IN  /\ env.pc = "publish"
      /\ env' \in {IF Len(env.write) > 1 THEN next ELSE Saved(s, env.write[1]),
                   Failed(s, WRITE), Failed(env, WRITE)}

(* A power cut: memory is lost, the sector keeps what it got. *)
PowerCut ==
  /\ env.pc # "off"
  /\ env' = Off(env.flash, env.may, env.based)

environment_io_init ==
  /\ env.pc = "off"
  /\ env' = [Loaded(env) EXCEPT !.pc = "idle", !.may = {Stored(env.flash)}]

Next ==
  \/ environment_io_init \/ Reload
  \/ \E t \in Texts : env_append_byte(t)
  \/ env_reset_request
  \/ \E c \in Commands : environment_output(c)
  \/ AcquireBus \/ EraseBegins \/ EraseEnds \/ WritePayload \/ HeaderBegins \/ HeaderEnds
  \/ PowerCut

-----------------------------------------------------------------------------
(* Whatever step power is lost at, the next boot finds the environment of   *)
(* the last command that succeeded, or the one being saved, from the time   *)
(* the empty baseline is in flash; and between commands memory is what a    *)
(* boot would load, so that a failed command is not half kept.              *)
EnvironmentSurvives ==
  /\ env.based => Loads(env.flash) /\ Stored(env.flash) \in env.may
  /\ env.pc = "idle" => env.entries = Stored(env.flash)

(* Names are distinct, upper case and few enough to be loaded again, and no  *)
(* sum is stored that wrapped around.                                       *)
EntriesAreLoadable ==
  /\ IsInjective([i \in DOMAIN env.entries |-> env.entries[i].key])
  /\ \A i \in DOMAIN env.entries :
       LET e == env.entries[i]
       IN  /\ env_key_valid(e.key) /\ env_normalize_key(e.key) = e.key
           /\ IsNumber(e.value) => e.value[1] \in MinInt .. MaxInt
  /\ Len(env.entries) <= MaxEntries
=============================================================================
