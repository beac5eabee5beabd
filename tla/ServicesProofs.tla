--------------------------- MODULE ServicesProofs ---------------------------
(***************************************************************************)
(* Theorems about the environment store, the reboot button, the debug      *)
(* host's weather port, the USB setup and the USB console, for every value *)
(* of the parameters of Services.  "part" never changes, so each invariant *)
(* is about the steps of one module.                                       *)
(***************************************************************************)
EXTENDS Services, WellFoundedInduction, TLAPS

-----------------------------------------------------------------------------
(* Induction: over a set of numbers, by the well-founded order of the        *)
(* naturals.                                                                *)

LEMMA SetInduction ==
  ASSUME NEW S, 0 \in S, \A n \in Nat : n \in S => n + 1 \in S
  PROVE  \A n \in Nat : n \in S
<1> SUFFICES ASSUME NEW k \in Nat, k \notin S PROVE FALSE
  OBVIOUS
<1> DEFINE R == OpToRel(<, Nat)
           T == {n \in Nat : n \notin S}
<1>1. IsWellFoundedOn(R, Nat)
  BY NatLessThanWellFounded, Zenon
<1>2. T \subseteq Nat /\ T # {}
  OBVIOUS
<1>3. \A a, b \in Nat : a < b => <<a, b>> \in R
  BY DEF OpToRel
<1> HIDE DEF R
<1>4. PICK x \in T : \A y \in T : ~(<<y, x>> \in R)
  BY <1>1, <1>2, WFMin, Zenon
<1>5. x # 0 /\ x \in Nat /\ x \notin S
  OBVIOUS
<1>6. x - 1 \in Nat /\ x - 1 \notin S /\ x - 1 < x
  BY <1>5
<1> QED
  BY <1>3, <1>4, <1>5, <1>6

(* f starts with b and takes the step F from each number to the next. *)
StepsFrom(f, b, m, F) == f[0] = b /\ \A n \in 0 .. m : n # 0 => f[n] = F[<<f[n - 1], n>>]

(* A step function on a set, applied to 0, 1, ..., m - 1 in turn, defines a *)
(* function on 0 .. m.                                                      *)
LEMMA StepsDefineFunction ==
  ASSUME NEW S, NEW b \in S, NEW m \in Nat, NEW F \in [S \X Nat -> S]
  PROVE  \E f \in [0 .. m -> S] : StepsFrom(f, b, m, F)
<1> USE DEF StepsFrom
<1> DEFINE Def(f, k) == StepsFrom(f, b, k, F)
           D == {k \in Nat : \E f \in [0 .. k -> S] : Def(f, k)}
<1>1. 0 \in D
  <2>1. [n \in 0 .. 0 |-> b] \in [0 .. 0 -> S] /\ Def([n \in 0 .. 0 |-> b], 0)
    OBVIOUS
  <2> QED
    BY <2>1
<1>2. ASSUME NEW k \in Nat, k \in D PROVE k + 1 \in D
  <2>1. PICK f \in [0 .. k -> S] : Def(f, k)
    BY <1>2
  <2> DEFINE g == [n \in 0 .. k + 1 |-> IF n = k + 1 THEN F[<<f[k], k + 1>>] ELSE f[n]]
  <2>2. F[<<f[k], k + 1>>] \in S
    <3>1. f[k] \in S
      OBVIOUS
    <3> QED
      BY <3>1
  <2>3. \A n \in 0 .. k + 1 : n # k + 1 => n \in 0 .. k
    OBVIOUS
  <2>4. g \in [0 .. k + 1 -> S]
    BY <2>2, <2>3
  <2>5. \A n \in 0 .. k : g[n] = f[n]
    OBVIOUS
  <2>6. g[k + 1] = F[<<f[k], k + 1>>]
    OBVIOUS
  <2> HIDE DEF g
  <2>7. ASSUME NEW n \in 0 .. k + 1, n # 0 PROVE g[n] = F[<<g[n - 1], n>>]
    <3>1. CASE n = k + 1
      <4>1. n - 1 = k /\ g[n - 1] = f[k]
        BY <3>1, <2>5
      <4> QED
        BY <3>1, <4>1, <2>6
    <3>2. CASE n # k + 1
      <4>1. n \in 0 .. k /\ n - 1 \in 0 .. k
        BY <2>7, <3>2
      <4> QED
        BY <2>1, <2>5, <2>7, <4>1
    <3> QED
      BY <3>1, <3>2
  <2>8. Def(g, k + 1)
    BY <2>1, <2>5, <2>7
  <2> QED
    BY <2>4, <2>8
<1> HIDE DEF D
<1>3. m \in D
  BY <1>1, <1>2, SetInduction
<1> QED
  BY <1>3 DEF D

LEMMA LeastNumber ==
  ASSUME NEW S \in SUBSET Nat, S # {}
  PROVE  \E x \in S : \A y \in S : x =< y
<1> DEFINE R == OpToRel(<, Nat)
<1>1. IsWellFoundedOn(R, Nat)
  BY NatLessThanWellFounded, Zenon
<1>2. \A a, b \in Nat : a < b => <<a, b>> \in R
  BY DEF OpToRel
<1> HIDE DEF R
<1>3. \E x \in S : \A y \in S : ~(<<y, x>> \in R)
  BY <1>1, WFMin, Zenon
<1>4. PICK x \in S : \A y \in S : ~(<<y, x>> \in R)
  BY <1>3, Zenon
<1>5. \A y \in S : ~(y < x)
  BY <1>2, <1>4, Zenon
<1>6. x \in Nat /\ \A y \in S : y \in Nat
  OBVIOUS
<1>7. \A y \in S : x =< y
  BY <1>5, <1>6
<1>8. QED
  BY <1>7, Zenon

-----------------------------------------------------------------------------
(* The environment.  First the entries.                                     *)

EnvNames == {Env!env_normalize_key(t.name) : t \in EnvTexts}
EnvEntry == [key : EnvNames, value : EnvValues]

Loadable(es) ==
  /\ es \in Seq(EnvEntry)
  /\ Len(es) <= EnvMaxEntries
  /\ \A i, j \in 1 .. Len(es) : es[i].key = es[j].key => i = j
  /\ \A i \in 1 .. Len(es) : Env!env_key_valid(es[i].key)

(* What a command makes of the entries: loadable ones, and the same unless  *)
(* they are committed.                                                      *)
Outcome(r, es) == Loadable(r.entries) /\ (~r.commit => r.entries = es)

LEMMA EnvTypes ==
  /\ EnvMaxEntries \in Nat /\ EnvSnapshotEntries \in Nat
  /\ EnvMinInt \in Int /\ EnvMaxInt \in Int /\ EnvMinInt <= 0 /\ 0 <= EnvMaxInt
  /\ EnvHalfSequence \in Nat /\ EnvHalfSequence > 1
  BY EnvAssumption, Zenon

LEMMA FindIndex ==
  ASSUME NEW es \in Seq(EnvEntry), NEW k
  PROVE  LET i == Env!env_find_index(es, k) IN
         \/ i = 0 /\ \A j \in 1 .. Len(es) : es[j].key # k
         \/ i \in 1 .. Len(es) /\ es[i].key = k
<1> DEFINE I == {j \in 1 .. Len(es) : es[j].key = k}
<1>1. Env!env_find_index(es, k) = IF I # {} THEN Env!Min(I) ELSE 0
  BY DEF Env!env_find_index, Env!SelectInSeq
<1>2. CASE I = {}
  BY <1>1, <1>2
<1>3. CASE I # {}
  <2>1. I \in SUBSET Nat
    OBVIOUS
  <2> HIDE DEF I
  <2>2. Env!Min(I) \in I
    BY <1>3, <2>1, LeastNumber DEF Env!Min
  <2>3. QED
    BY <1>1, <1>3, <2>2 DEF I
<1>4. QED
  BY <1>2, <1>3

LEMMA KeepIsSound ==
  ASSUME NEW es, Loadable(es), NEW status
  PROVE  Outcome(Env!Keep(es, status), es)
  BY DEF Outcome, Env!Keep

LEMMA CommitIsSound ==
  ASSUME NEW es, NEW fs, Loadable(fs)
  PROVE  Outcome(Env!Commit(fs), es)
  BY DEF Outcome, Env!Commit

LEMMA EmptyIsLoadable == Loadable(<<>>)
  BY EnvAssumption DEF Loadable

(* What the commands do to a sequence.                                      *)
LEMMA ReplaceFacts ==
  ASSUME NEW T, NEW es \in Seq(T), NEW i \in 1 .. Len(es), NEW e \in T,
         NEW fs, fs = [es EXCEPT ![i] = e]
  PROVE  /\ fs \in Seq(T) /\ Len(fs) = Len(es) /\ fs[i] = e
         /\ \A j \in 1 .. Len(es) : j # i => fs[j] = es[j]
  OBVIOUS

LEMMA AppendFacts ==
  ASSUME NEW T, NEW es \in Seq(T), NEW e \in T,
         NEW fs, fs = Append(es, e)
  PROVE  /\ fs \in Seq(T) /\ Len(fs) = Len(es) + 1 /\ fs[Len(es) + 1] = e
         /\ \A j \in 1 .. Len(es) : fs[j] = es[j]
  OBVIOUS

LEMMA RemoveFacts ==
  ASSUME NEW T, NEW es \in Seq(T), NEW i \in 1 .. Len(es)
  PROVE  LET fs == Env!RemoveAt(es, i) IN
         /\ fs \in Seq(T) /\ Len(fs) = Len(es) - 1
         /\ \A j \in 1 .. i - 1 : fs[j] = es[j]
         /\ \A j \in i .. Len(es) - 1 : fs[j] = es[j + 1]
<1> DEFINE l == SubSeq(es, 1, i - 1)
           r == SubSeq(es, i + 1, Len(es))
           fs == Env!RemoveAt(es, i)
<1>0. Len(es) \in Nat /\ i \in Nat /\ i >= 1 /\ i <= Len(es)
  OBVIOUS
<1>1. /\ l \in Seq(T) /\ Len(l) = i - 1
      /\ \A j \in 1 .. i - 1 : l[j] = es[j]
  BY <1>0
<1>2. /\ r \in Seq(T) /\ Len(r) = Len(es) - i
      /\ \A j \in 1 .. Len(es) - i : r[j] = es[i + j]
  BY <1>0
<1>3. fs = l \o r
  BY DEF Env!RemoveAt
<1> HIDE DEF l, r, fs
<1>4. fs \in Seq(T) /\ Len(fs) = Len(es) - 1
  BY <1>0, <1>1, <1>2, <1>3
<1>5. \A j \in 1 .. i - 1 : fs[j] = es[j]
  BY <1>0, <1>1, <1>2, <1>3
<1>6. ASSUME NEW j \in i .. Len(es) - 1 PROVE fs[j] = es[j + 1]
  <2>1. fs[j] = r[j - (i - 1)]
    BY <1>0, <1>1, <1>2, <1>3
  <2>2. j - (i - 1) \in 1 .. Len(es) - i /\ i + (j - (i - 1)) = j + 1
    BY <1>0
  <2>3. QED
    BY <1>2, <2>1, <2>2
<1>7. QED
  BY <1>4, <1>5, <1>6 DEF fs

LEMMA SetIsSound ==
  ASSUME NEW es, Loadable(es), NEW k, Env!env_key_valid(k) => k \in EnvNames,
         NEW v \in EnvValues
  PROVE  Outcome(Env!env_set_value(es, k, v), es)
<1> DEFINE i == Env!env_find_index(es, k)
<1>0. es \in Seq(EnvEntry) /\ Len(es) \in Nat
  BY DEF Loadable
<1>1. CASE ~Env!env_key_valid(k)
  <2>1. Env!env_set_value(es, k, v) = Env!Keep(es, Env!WRITE)
    BY <1>1, Zenon DEF Env!env_set_value, Env!Has
  <2>2. QED
    BY <2>1, KeepIsSound, Zenon
<1>2. CASE Env!env_key_valid(k) /\ i # 0
  <2>1. i \in 1 .. Len(es)
    BY <1>0, <1>2, FindIndex, Zenon
  <2> DEFINE e == [es[i] EXCEPT !.value = v]
             fs == [es EXCEPT ![i] = e]
  <2>2. Env!env_set_value(es, k, v) = Env!Commit(fs)
    BY <1>2, Zenon DEF Env!env_set_value, Env!Has
  <2> HIDE DEF i
  <2>3. es[i] \in EnvEntry
    BY <1>0, <2>1
  <2>4. e \in EnvEntry /\ e.key = es[i].key
    BY <2>3, Zenon DEF EnvEntry
  <2>e. fs = [es EXCEPT ![i] = e]
    OBVIOUS
  <2> HIDE DEF e, fs
  <2>5. /\ fs \in Seq(EnvEntry) /\ Len(fs) = Len(es) /\ fs[i] = e
        /\ \A j \in 1 .. Len(es) : j # i => fs[j] = es[j]
    BY <1>0, <2>1, <2>4, <2>e, ReplaceFacts
  <2>6. \A j \in 1 .. Len(es) : fs[j].key = es[j].key
    BY <2>4, <2>5, Zenon
  <2>7. Loadable(fs)
    BY <2>5, <2>6, Zenon DEF Loadable
  <2>8. QED
    BY <2>2, <2>7, CommitIsSound, Zenon
<1>3. CASE Env!env_key_valid(k) /\ i = 0
  <2> DEFINE e == [key |-> k, value |-> v]
             fs == Append(es, e)
  <2>1. CASE Len(es) >= EnvMaxEntries
    <3>1. Env!env_set_value(es, k, v) = Env!Keep(es, Env!FULL)
      BY <1>3, <2>1, Zenon DEF Env!env_set_value, Env!Has
    <3>2. QED
      BY <3>1, KeepIsSound, Zenon
  <2>2. CASE ~(Len(es) >= EnvMaxEntries)
    <3>1. Env!env_set_value(es, k, v) = Env!Commit(fs)
      BY <1>3, <2>2, Zenon DEF Env!env_set_value, Env!Has
    <3>2. \A j \in 1 .. Len(es) : es[j].key # k
      <4>1. 0 \notin 1 .. Len(es)
        BY <1>0
      <4>2. QED
        BY <1>0, <1>3, <4>1, FindIndex, Zenon
    <3>3. e \in EnvEntry /\ e.key = k
      BY <1>3, Zenon DEF EnvEntry
    <3>a. fs = Append(es, e)
      OBVIOUS
    <3> HIDE DEF e, i, fs
    <3>4. /\ fs \in Seq(EnvEntry) /\ Len(fs) = Len(es) + 1 /\ fs[Len(es) + 1] = e
          /\ \A j \in 1 .. Len(es) : fs[j] = es[j]
      BY <1>0, <3>3, <3>a, AppendFacts
    <3>5. Len(fs) <= EnvMaxEntries
      BY <1>0, <2>2, <3>4, EnvTypes
    <3>6. \A j \in 1 .. Len(fs) : j \in 1 .. Len(es) \/ j = Len(es) + 1
      BY <1>0, <3>4
    <3>7. \A j \in 1 .. Len(fs) : Env!env_key_valid(fs[j].key)
      BY <1>3, <3>3, <3>4, <3>6, Zenon DEF Loadable
    <3>8. ASSUME NEW a \in 1 .. Len(fs), NEW b \in 1 .. Len(fs), fs[a].key = fs[b].key
          PROVE  a = b
      <4>1. CASE a \in 1 .. Len(es) /\ b \in 1 .. Len(es)
        BY <3>4, <3>8, <4>1, Zenon DEF Loadable
      <4>2. CASE a = Len(es) + 1 /\ b \in 1 .. Len(es)
        BY <3>2, <3>3, <3>4, <3>8, <4>2, Zenon
      <4>3. CASE b = Len(es) + 1 /\ a \in 1 .. Len(es)
        BY <3>2, <3>3, <3>4, <3>8, <4>3, Zenon
      <4>4. QED
        BY <3>6, <4>1, <4>2, <4>3, Zenon
    <3>9. Loadable(fs)
      BY <3>4, <3>5, <3>7, <3>8, Zenon DEF Loadable
    <3>10. QED
      BY <3>1, <3>9, CommitIsSound, Zenon
  <2>3. QED
    BY <2>1, <2>2
<1>4. QED
  BY <1>1, <1>2, <1>3

LEMMA DeleteIsSound ==
  ASSUME NEW es, Loadable(es), NEW k
  PROVE  Outcome(Env!env_delete_value(es, k), es)
<1> DEFINE i == Env!env_find_index(es, k)
           fs == Env!RemoveAt(es, i)
<1>0. es \in Seq(EnvEntry) /\ Len(es) \in Nat
  BY DEF Loadable
<1>1. CASE ~Env!Has(es, k)
  BY <1>1, KeepIsSound, Zenon DEF Env!env_delete_value
<1>2. CASE Env!Has(es, k)
  <2>1. i \in 1 .. Len(es)
    BY <1>0, <1>2, FindIndex, Zenon DEF Env!Has
  <2>2. Env!env_delete_value(es, k) = Env!Commit(fs)
    BY <1>2, Zenon DEF Env!env_delete_value
  <2> HIDE DEF i
  <2>3. /\ fs \in Seq(EnvEntry) /\ Len(fs) = Len(es) - 1
        /\ \A j \in 1 .. i - 1 : fs[j] = es[j]
        /\ \A j \in i .. Len(es) - 1 : fs[j] = es[j + 1]
    BY <1>0, <2>1, RemoveFacts, Zenon
  <2> HIDE DEF fs
  <2>4. Len(fs) <= EnvMaxEntries
    BY <1>0, <2>3, EnvTypes DEF Loadable
  <2> DEFINE From(j) == IF j < i THEN j ELSE j + 1
  <2>5. \A j \in 1 .. Len(fs) : From(j) \in 1 .. Len(es) /\ fs[j] = es[From(j)]
    BY <1>0, <2>1, <2>3
  <2>6. \A a, b \in 1 .. Len(fs) : From(a) = From(b) => a = b
    BY <1>0, <2>1, <2>3
  <2> HIDE DEF From
  <2>7. \A j \in 1 .. Len(fs) : Env!env_key_valid(fs[j].key)
    BY <2>5, Zenon DEF Loadable
  <2>8. ASSUME NEW a \in 1 .. Len(fs), NEW b \in 1 .. Len(fs), fs[a].key = fs[b].key
        PROVE  a = b
    <3>1. From(a) = From(b)
      BY <2>5, <2>8, Zenon DEF Loadable
    <3>2. QED
      BY <2>6, <3>1, Zenon
  <2>9. Loadable(fs)
    BY <2>3, <2>4, <2>7, <2>8, Zenon DEF Loadable
  <2>10. QED
    BY <2>2, <2>9, CommitIsSound, Zenon
<1>3. QED
  BY <1>1, <1>2

(* Values stay in the width of int64_t.                                     *)
LEMMA NumberFacts ==
  ASSUME NEW v \in EnvValues, Env!IsNumber(v)
  PROVE  v[1] \in EnvMinInt .. EnvMaxInt
<1>1. v # <<>>
  BY Zenon DEF Env!IsNumber, Env!Word
<1>2. PICK n \in EnvMinInt .. EnvMaxInt : v = <<n>>
  BY <1>1, Zenon DEF EnvValues
<1>3. QED
  BY <1>2

LEMMA SumIsInRange ==
  ASSUME NEW l \in EnvMinInt .. EnvMaxInt, NEW r \in EnvMinInt .. EnvMaxInt, NEW minus,
         ~Env!Overflows(l, r, minus)
  PROVE  Env!Calculate(l, r, minus) \in EnvValues
<1>1. CASE minus
  <2>1. Env!Calculate(l, r, minus) = <<l - r>>
    BY <1>1, Zenon DEF Env!Calculate
  <2>2. ~((r > 0 /\ l < EnvMinInt + r) \/ (r < 0 /\ l > EnvMaxInt + r))
    BY <1>1, Zenon DEF Env!Overflows
  <2>3. l - r \in EnvMinInt .. EnvMaxInt
    BY <2>2, EnvTypes
  <2>4. QED
    BY <2>1, <2>3, Zenon DEF EnvValues
<1>2. CASE ~minus
  <2>1. Env!Calculate(l, r, minus) = <<l + r>>
    BY <1>2, Zenon DEF Env!Calculate
  <2>2. ~((r > 0 /\ l > EnvMaxInt - r) \/ (r < 0 /\ l < EnvMinInt - r))
    BY <1>2, Zenon DEF Env!Overflows
  <2>3. l + r \in EnvMinInt .. EnvMaxInt
    BY <2>2, EnvTypes
  <2>4. QED
    BY <2>1, <2>3, Zenon DEF EnvValues
<1>3. QED
  BY <1>1, <1>2, Zenon

LEMMA ValueIsKnown ==
  ASSUME NEW es, Loadable(es), NEW k, Env!Has(es, k)
  PROVE  Env!env_get_value(es, k) \in EnvValues
<1> DEFINE i == Env!env_find_index(es, k)
<1>1. es \in Seq(EnvEntry)
  BY DEF Loadable
<1>2. i \in 1 .. Len(es)
  BY <1>1, FindIndex, Zenon DEF Env!Has
<1>3. Env!env_get_value(es, k) = es[i].value
  BY Zenon DEF Env!env_get_value
<1> HIDE DEF i
<1>4. es[i] \in EnvEntry
  BY <1>1, <1>2
<1>5. QED
  BY <1>3, <1>4, Zenon DEF EnvEntry

LEMMA OperandIsKnown ==
  ASSUME NEW es, Loadable(es), NEW x, EnvOperand(x)
  PROVE  Env!Operand(es, x) \in EnvValues
<1>1. Env!Word \in EnvValues
  BY Zenon DEF Env!Word, EnvValues
<1>2. CASE x.kind \in {"literal", "now"}
  <2>1. Env!Operand(es, x) = x.value
    BY <1>2, Zenon DEF Env!Operand
  <2>2. QED
    BY <1>2, <2>1, Zenon DEF EnvOperand
<1>3. CASE x.kind = "name" /\ Env!Has(es, Env!env_normalize_key(x.name))
  <2>1. Env!Operand(es, x) = Env!env_get_value(es, Env!env_normalize_key(x.name))
    BY <1>3, Zenon DEF Env!Operand
  <2>2. QED
    BY <1>3, <2>1, ValueIsKnown, Zenon
<1>4. CASE /\ x.kind \notin {"literal", "now"}
           /\ ~(x.kind = "name" /\ Env!Has(es, Env!env_normalize_key(x.name)))
  <2>1. Env!Operand(es, x) = Env!Word
    BY <1>4, Zenon DEF Env!Operand
  <2>2. QED
    BY <1>1, <2>1, Zenon
<1>5. QED
  BY <1>2, <1>3, <1>4, Zenon

LEMMA EvaluationIsKnown ==
  ASSUME NEW es, Loadable(es), NEW x, EnvOperand(x),
         x.kind = "op" => EnvOperand(x.left) /\ EnvOperand(x.right),
         Env!Evaluates(es, x)
  PROVE  Env!env_eval_value(es, x) \in EnvValues
<1>1. CASE x.kind = "op"
  <2> DEFINE l == Env!Operand(es, x.left)
             r == Env!Operand(es, x.right)
  <2>1. l \in EnvValues /\ r \in EnvValues
    BY <1>1, OperandIsKnown, Zenon
  <2>2. Env!IsNumber(l) /\ Env!IsNumber(r) /\ ~Env!Overflows(l[1], r[1], x.minus)
    BY <1>1, Zenon DEF Env!Evaluates
  <2>3. Env!env_eval_value(es, x) = Env!Calculate(l[1], r[1], x.minus)
    BY <1>1, Zenon DEF Env!env_eval_value
  <2> HIDE DEF l, r
  <2>4. l[1] \in EnvMinInt .. EnvMaxInt /\ r[1] \in EnvMinInt .. EnvMaxInt
    BY <2>1, <2>2, NumberFacts, Zenon
  <2>5. QED
    BY <2>2, <2>3, <2>4, SumIsInRange, Zenon
<1>2. CASE x.kind # "op"
  BY <1>2, OperandIsKnown, Zenon DEF Env!env_eval_value
<1>3. QED
  BY <1>1, <1>2

LEMMA DeltaIsSound ==
  ASSUME NEW es, Loadable(es), NEW k, Env!env_key_valid(k) => k \in EnvNames,
         NEW n \in EnvMinInt .. EnvMaxInt
  PROVE  Outcome(Env!Delta(es, k, n), es)
<1> DEFINE current == IF Env!Has(es, k) THEN Env!env_get_value(es, k) ELSE <<0>>
<1>1. current \in EnvValues
  <2>1. 0 \in EnvMinInt .. EnvMaxInt
    BY EnvTypes
  <2>2. <<0>> \in EnvValues
    BY <2>1, Zenon DEF EnvValues
  <2>3. QED
    BY <2>2, ValueIsKnown, Zenon
<1>2. Env!Delta(es, k, n) =
        IF ~Env!IsNumber(current) \/ Env!Overflows(current[1], n, FALSE)
          THEN Env!Keep(es, Env!READ)
          ELSE Env!env_set_value(es, k, Env!Calculate(current[1], n, FALSE))
  BY Zenon DEF Env!Delta
<1> HIDE DEF current
<1>3. CASE ~Env!IsNumber(current) \/ Env!Overflows(current[1], n, FALSE)
  BY <1>2, <1>3, KeepIsSound, Zenon
<1>4. CASE ~(~Env!IsNumber(current) \/ Env!Overflows(current[1], n, FALSE))
  <2>1. current[1] \in EnvMinInt .. EnvMaxInt
    BY <1>1, <1>4, NumberFacts, Zenon
  <2>2. Env!Calculate(current[1], n, FALSE) \in EnvValues
    BY <1>4, <2>1, SumIsInRange, Zenon
  <2>3. QED
    BY <1>2, <1>4, <2>2, SetIsSound, Zenon
<1>5. QED
  BY <1>3, <1>4, Zenon

(* The command line and the commands.                                       *)
LEMMA CliIsSound ==
  ASSUME NEW es, Loadable(es), NEW t \in EnvTexts
  PROVE  Outcome(Env!env_execute_cli(es, t), es)
<1> DEFINE k == Env!env_normalize_key(t.name)
<1>1. k \in EnvNames
  BY Zenon DEF EnvNames
<1>2. /\ EnvOperand(t.arg)
      /\ t.arg.kind = "op" => EnvOperand(t.arg.left) /\ EnvOperand(t.arg.right)
      /\ t.form = "delta" => t.arg.value \in EnvValues \ {<<>>}
  BY EnvAssumption, Zenon
<1> HIDE DEF k
<1>3. CASE t.form = "none"
  <2>1. Env!env_execute_cli(es, t) = Env!List(es)
    BY <1>3, Zenon DEF Env!env_execute_cli
  <2>2. QED
    BY <2>1, KeepIsSound, Zenon DEF Env!List
<1>4. CASE t.form \in {"help", "count", "now"}
  <2>1. Env!env_execute_cli(es, t) = Env!Keep(es, Env!OK)
    BY <1>4, Zenon DEF Env!env_execute_cli
  <2>2. QED
    BY <2>1, KeepIsSound, Zenon
<1>5. CASE t.form = "default"
  <2>1. Env!env_execute_cli(es, t) = IF Env!Has(es, k) THEN Env!Keep(es, Env!OK)
                                     ELSE Env!env_set_value(es, k, Env!Verbatim(t.arg))
    BY <1>5, Zenon DEF Env!env_execute_cli, k
  <2>2. Env!Verbatim(t.arg) \in EnvValues
    BY <1>2, Zenon DEF Env!Verbatim, Env!Word, EnvOperand, EnvValues
  <2>3. Outcome(Env!env_set_value(es, k, Env!Verbatim(t.arg)), es)
    BY <1>1, <2>2, SetIsSound, Zenon
  <2>4. QED
    BY <2>1, <2>3, KeepIsSound, Zenon
<1>6. CASE t.form = "assign"
  <2>1. Env!env_execute_cli(es, t) =
          IF ~Env!Evaluates(es, t.arg) THEN Env!Keep(es, Env!READ)
          ELSE Env!env_set_value(es, k, Env!env_eval_value(es, t.arg))
    BY <1>6, Zenon DEF Env!env_execute_cli, k
  <2>2. CASE Env!Evaluates(es, t.arg)
    <3>1. Env!env_eval_value(es, t.arg) \in EnvValues
      BY <1>2, <2>2, EvaluationIsKnown, Zenon
    <3>2. QED
      BY <1>1, <2>1, <2>2, <3>1, SetIsSound, Zenon
  <2>3. CASE ~Env!Evaluates(es, t.arg)
    BY <2>1, <2>3, KeepIsSound, Zenon
  <2>4. QED
    BY <2>2, <2>3, Zenon
<1>7. CASE t.form = "delta"
  <2>1. Env!env_execute_cli(es, t) = Env!Delta(es, k, t.arg.value[1])
    BY <1>7, Zenon DEF Env!env_execute_cli, k
  <2>2. Env!IsNumber(t.arg.value) /\ t.arg.value \in EnvValues
    BY <1>2, <1>7, Zenon DEF Env!IsNumber, Env!Word
  <2>3. t.arg.value[1] \in EnvMinInt .. EnvMaxInt
    BY <2>2, NumberFacts, Zenon
  <2>4. QED
    BY <1>1, <2>1, <2>3, DeltaIsSound, Zenon
<1>8. CASE t.form = "delete"
  <2>1. Env!env_execute_cli(es, t) = Env!env_delete_value(es, k)
    BY <1>8, Zenon DEF Env!env_execute_cli, k
  <2>2. QED
    BY <2>1, DeleteIsSound, Zenon
<1>9. CASE t.form \notin {"none", "help", "count", "now", "default", "assign", "delta", "delete"}
  <2>1. Env!env_execute_cli(es, t) = Env!Show(es, k)
    BY <1>9, Zenon DEF Env!env_execute_cli, k
  <2>2. QED
    BY <2>1, KeepIsSound, Zenon DEF Env!Show
<1>10. QED
  BY <1>3, <1>4, <1>5, <1>6, <1>7, <1>8, <1>9, Zenon

LEMMA CommandIsSound ==
  ASSUME NEW es, Loadable(es), NEW t \in EnvTexts \cup {Env!NoText}, NEW c \in Env!Commands
  PROVE  Outcome(Env!env_execute_command(es, c, t), es)
<1> DEFINE k == Env!Name(t)
<1>1. Env!env_key_valid(k) => k \in EnvNames
  <2>1. CASE t = Env!NoText
    BY <2>1, Zenon DEF Env!Name, Env!env_key_valid
  <2>2. CASE t # Env!NoText
    BY <2>2, Zenon DEF Env!Name, EnvNames
  <2>3. QED
    BY <2>1, <2>2
<1>2. Env!Word \in EnvValues
  BY Zenon DEF Env!Word, EnvValues
<1> HIDE DEF k
<1>3. CASE c = "SET"
  <2>1. Env!env_execute_command(es, c, t) = Env!env_set_value(es, k, Env!Word)
    BY <1>3, Zenon DEF Env!env_execute_command, k
  <2>2. QED
    BY <1>1, <1>2, <2>1, SetIsSound, Zenon
<1>4. CASE c = "DELETE"
  <2>1. Env!env_execute_command(es, c, t) = Env!env_delete_value(es, k)
    BY <1>4, Zenon DEF Env!env_execute_command, k
  <2>2. QED
    BY <2>1, DeleteIsSound, Zenon
<1>5. CASE c \in {"GET", "EXISTS"}
  <2>1. Env!env_execute_command(es, c, t) = Env!Show(es, k)
    BY <1>5, Zenon DEF Env!env_execute_command, k
  <2>2. QED
    BY <2>1, KeepIsSound, Zenon DEF Env!Show
<1>6. CASE c = "LIST"
  <2>1. Env!env_execute_command(es, c, t) = Env!List(es)
    BY <1>6, Zenon DEF Env!env_execute_command
  <2>2. QED
    BY <2>1, KeepIsSound, Zenon DEF Env!List
<1>7. CASE c = "COUNT"
  <2>1. Env!env_execute_command(es, c, t) = Env!Keep(es, Env!OK)
    BY <1>7, Zenon DEF Env!env_execute_command
  <2>2. QED
    BY <2>1, KeepIsSound, Zenon
<1>8. CASE c = "CLEAR"
  <2>1. Env!env_execute_command(es, c, t) = Env!Commit(<<>>)
    BY <1>8, Zenon DEF Env!env_execute_command
  <2>2. QED
    BY <2>1, EmptyIsLoadable, CommitIsSound, Zenon
<1>9. CASE c = "EXECUTE"
  <2>1. Env!env_execute_command(es, c, t) = Env!env_execute_cli(es, t)
    BY <1>9, Zenon DEF Env!env_execute_command
  <2>2. CASE t = Env!NoText
    <3>1. t.form = "none"
      BY <2>2, Zenon DEF Env!NoText
    <3>2. Env!env_execute_cli(es, t) = Env!List(es)
      BY <3>1, Zenon DEF Env!env_execute_cli
    <3>3. QED
      BY <2>1, <3>2, KeepIsSound, Zenon DEF Env!List
  <2>3. CASE t \in EnvTexts
    BY <2>1, <2>3, CliIsSound, Zenon
  <2>4. QED
    BY <2>2, <2>3, Zenon
<1>10. CASE c = "BAD"
  <2>1. Env!env_execute_command(es, c, t) = Env!Keep(es, Env!READ)
    BY <1>10, Zenon DEF Env!env_execute_command
  <2>2. QED
    BY <2>1, KeepIsSound, Zenon
<1>11. QED
  BY <1>3, <1>4, <1>5, <1>6, <1>7, <1>8, <1>9, <1>10, Zenon DEF Env!Commands

-----------------------------------------------------------------------------
(* The two snapshots: the sequence numbers of two valid ones are neighbours. *)

Numbers == 0 .. 2 * EnvHalfSequence - 1
After(n) == (n + 1) % (2 * EnvHalfSequence)
Published(f) == Env!Valid(f, 0) \/ Env!Valid(f, 1)

FlashGood(f) ==
  /\ DOMAIN f = {0, 1}
  /\ \A i \in {0, 1} : Env!Valid(f, i) => f[i].sequence \in Numbers /\ Loadable(f[i].entries)
  /\ Env!Valid(f, 0) /\ Env!Valid(f, 1) =>
       f[1].sequence = After(f[0].sequence) \/ f[0].sequence = After(f[1].sequence)

(* The device: a save spares the snapshot that a boot would load, and what   *)
(* it writes a boot is allowed to find.                                     *)
EnvFields == {"flash", "may", "based", "pc", "status", "request", "entries", "write", "slot"}
Opened == {"erased", "payload", "header", "publish"}
Writing == {"acquire", "erase"} \cup Opened

SaveIsSound(s) ==
  s.pc \in Writing =>
    /\ s.slot = Env!Target(s.flash)
    /\ s.pc \in Opened => ~Env!Valid(s.flash, s.slot)
    /\ s.entries \in s.may
    /\ s.write = <<s.entries>> \/ (s.write = <<(<<>>), s.entries>> /\ <<>> \in s.may)

BootIsSound(s) ==
  /\ IF s.based THEN Published(s.flash) /\ Env!Stored(s.flash) \in s.may
                ELSE ~Published(s.flash)
  /\ s.pc = "idle" => s.entries = Env!Stored(s.flash)

EnvGood(s) ==
  /\ DOMAIN s = EnvFields
  /\ FlashGood(s.flash)
  /\ s.request \in EnvTexts \cup {Env!NoText}
  /\ Loadable(s.entries)
  /\ BootIsSound(s)
  /\ SaveIsSound(s)

EnvInv == part = "environment" => EnvGood(st)

LEMMA SectorFacts ==
  /\ Env!Blank.state # "valid" /\ Env!Torn.state # "valid"
  /\ \A n, e : /\ Env!Slot(n, e).state = "valid"
              /\ Env!Slot(n, e).sequence = n /\ Env!Slot(n, e).entries = e
<1>1. Env!Blank.state = "blank" /\ Env!Torn.state = "torn"
  BY Zenon DEF Env!Blank, Env!Torn
<1>2. \A n, e : /\ Env!Slot(n, e).state = "valid"
               /\ Env!Slot(n, e).sequence = n /\ Env!Slot(n, e).entries = e
  BY Zenon DEF Env!Slot
<1>3. QED
  BY <1>1, <1>2, Zenon

(* Which slot is current, by which of them are valid.                       *)
LEMMA CurrentSlot ==
  ASSUME NEW f
  PROVE  /\ Env!Valid(f, 0) /\ Env!Valid(f, 1) =>
              Env!current_slot(f) =
                IF (f[1].sequence - f[0].sequence) % (2 * EnvHalfSequence) < EnvHalfSequence
                  THEN 1 ELSE 0
         /\ Env!Valid(f, 0) /\ ~Env!Valid(f, 1) => Env!current_slot(f) = 0
         /\ ~Env!Valid(f, 0) /\ Env!Valid(f, 1) => Env!current_slot(f) = 1
         /\ ~Published(f) => Env!current_slot(f) \in {-1, -2}
<1>1. ASSUME Env!Valid(f, 0), Env!Valid(f, 1)
      PROVE  Env!current_slot(f) =
                IF (f[1].sequence - f[0].sequence) % (2 * EnvHalfSequence) < EnvHalfSequence
                  THEN 1 ELSE 0
  <2>1. f[0] # Env!Blank
    BY <1>1, SectorFacts, Zenon DEF Env!Valid
  <2>2. QED
    BY <1>1, <2>1, Zenon DEF Env!current_slot
<1>2. ASSUME Env!Valid(f, 0), ~Env!Valid(f, 1) PROVE Env!current_slot(f) = 0
  <2>1. f[0] # Env!Blank
    BY <1>2, SectorFacts, Zenon DEF Env!Valid
  <2>2. QED
    BY <1>2, <2>1, Zenon DEF Env!current_slot
<1>3. ASSUME ~Env!Valid(f, 0), Env!Valid(f, 1) PROVE Env!current_slot(f) = 1
  <2>1. f[1] # Env!Blank
    BY <1>3, SectorFacts, Zenon DEF Env!Valid
  <2>2. QED
    BY <1>3, <2>1, Zenon DEF Env!current_slot
<1>4. ASSUME ~Published(f) PROVE Env!current_slot(f) \in {-1, -2}
  <2>1. ~Env!Valid(f, 0) /\ ~Env!Valid(f, 1)
    BY <1>4, Zenon DEF Published
  <2>2. QED
    BY <2>1, Zenon DEF Env!current_slot
<1>5. QED
  BY <1>1, <1>2, <1>3, <1>4, Zenon

LEMMA PublishedFlash ==
  ASSUME NEW f, Published(f), FlashGood(f)
  PROVE  LET c == Env!current_slot(f) IN
         /\ c \in {0, 1} /\ Env!Valid(f, c)
         /\ Env!Target(f) = 1 - c
         /\ Env!Stored(f) = f[c].entries /\ Loadable(f[c].entries)
         /\ Env!NextSequence(f) = After(f[c].sequence) /\ f[c].sequence \in Numbers
         /\ Env!Loads(f)
<1> DEFINE c == Env!current_slot(f)
<1>1. c \in {0, 1} /\ Env!Valid(f, c)
  BY CurrentSlot, Zenon DEF Published
<1>2. ~(c < 0) /\ c # -2 /\ (IF c = 0 THEN 1 ELSE 0) = 1 - c
  BY <1>1
<1>3. Env!Target(f) = 1 - c
  BY <1>2, Zenon DEF Env!Target
<1>4. /\ Env!Stored(f) = f[c].entries
      /\ Env!NextSequence(f) = After(f[c].sequence)
      /\ Env!Loads(f)
  BY <1>2, Zenon DEF Env!Stored, Env!NextSequence, Env!Loads, After
<1>5. Loadable(f[c].entries) /\ f[c].sequence \in Numbers
  BY <1>1, Zenon DEF FlashGood
<1>6. QED
  BY <1>1, <1>3, <1>4, <1>5, Zenon

LEMMA UnpublishedFlash ==
  ASSUME NEW f, ~Published(f)
  PROVE  /\ Env!current_slot(f) < 0
         /\ Env!Target(f) = 0 /\ Env!Stored(f) = <<>> /\ Env!NextSequence(f) = 1
<1> DEFINE c == Env!current_slot(f)
<1>1. c \in {-1, -2}
  BY CurrentSlot, Zenon
<1>2. c < 0 /\ c # 0
  BY <1>1
<1>3. QED
  BY <1>2, Zenon DEF Env!Target, Env!Stored, Env!NextSequence

LEMMA StoredIsLoadable ==
  ASSUME NEW f, FlashGood(f)
  PROVE  Loadable(Env!Stored(f))
<1>1. CASE Published(f)
  BY <1>1, PublishedFlash, Zenon
<1>2. CASE ~Published(f)
  BY <1>2, UnpublishedFlash, EmptyIsLoadable, Zenon
<1>3. QED
  BY <1>1, <1>2

(* Spoiling the slot a save writes to leaves what a boot loads.              *)
LEMMA SpoilIsSound ==
  ASSUME NEW f, FlashGood(f), NEW x \in {Env!Blank, Env!Torn}, NEW g,
         g = [f EXCEPT ![Env!Target(f)] = x]
  PROVE  /\ FlashGood(g) /\ Env!Stored(g) = Env!Stored(f)
         /\ Env!Target(g) = Env!Target(f) /\ ~Env!Valid(g, Env!Target(f))
         /\ Published(g) <=> Published(f)
<1> DEFINE i == Env!Target(f)
<1>0. x.state # "valid"
  BY SectorFacts, Zenon
<1>1. i \in {0, 1}
  BY Zenon DEF Env!Target
<1>2. /\ DOMAIN g = {0, 1} /\ g[i] = x
      /\ \A j \in {0, 1} : j # i => g[j] = f[j]
  BY <1>1, Zenon DEF FlashGood
<1>3. ~Env!Valid(g, i)
  BY <1>0, <1>2, Zenon DEF Env!Valid
<1>4. \A j \in {0, 1} : j # i => (Env!Valid(g, j) <=> Env!Valid(f, j))
  BY <1>2, Zenon DEF Env!Valid
<1>5. ~(Env!Valid(g, 0) /\ Env!Valid(g, 1))
  BY <1>1, <1>3, Zenon
<1>6. FlashGood(g)
  <2>1. ASSUME NEW j \in {0, 1}, Env!Valid(g, j)
        PROVE  g[j].sequence \in Numbers /\ Loadable(g[j].entries)
    <3>1. j # i
      BY <1>3, <2>1, Zenon
    <3>2. g[j] = f[j] /\ Env!Valid(f, j)
      BY <1>2, <1>4, <2>1, <3>1, Zenon
    <3>3. QED
      BY <3>2, Zenon DEF FlashGood
  <2>2. QED
    BY <1>2, <1>5, <2>1, Zenon DEF FlashGood
<1>7. CASE Published(f)
  <2> DEFINE c == Env!current_slot(f)
  <2>1. c \in {0, 1} /\ Env!Valid(f, c) /\ i = 1 - c /\ Env!Stored(f) = f[c].entries
    BY <1>7, PublishedFlash, Zenon
  <2> HIDE DEF c, i
  <2>2. c # i
    BY <2>1
  <2>3. Env!Valid(g, c) /\ g[c] = f[c]
    BY <1>2, <1>4, <2>1, <2>2, Zenon
  <2>4. Published(g)
    BY <2>1, <2>3, Zenon DEF Published
  <2>5. Env!current_slot(g) = c
    <3>1. CASE c = 0 /\ i = 1
      BY <1>3, <2>3, <3>1, CurrentSlot, Zenon DEF i
    <3>2. CASE c = 1 /\ i = 0
      BY <1>3, <2>3, <3>2, CurrentSlot, Zenon DEF i
    <3>3. (c = 0 /\ i = 1) \/ (c = 1 /\ i = 0)
      BY <2>1
    <3>4. QED
      BY <3>1, <3>2, <3>3, Zenon
  <2>6. Env!Stored(g) = g[c].entries /\ Env!Target(g) = 1 - c
    BY <1>6, <2>4, <2>5, PublishedFlash, Zenon
  <2>7. QED
    BY <1>3, <1>6, <1>7, <2>1, <2>3, <2>4, <2>6, Zenon DEF i
<1>8. CASE ~Published(f)
  <2>1. ~Published(g)
    BY <1>1, <1>3, <1>4, <1>8, Zenon DEF Published
  <2>2. QED
    BY <1>3, <1>6, <1>8, <2>1, UnpublishedFlash, Zenon
<1>9. QED
  BY <1>7, <1>8, Zenon

(* A snapshot published there becomes what a boot loads: numbers that wrap   *)
(* around are compared by their distance.                                   *)
LEMMA NeighbourFacts ==
  ASSUME NEW n \in Numbers
  PROVE  /\ After(n) \in Numbers
         /\ (After(n) - n) % (2 * EnvHalfSequence) < EnvHalfSequence
         /\ ~((n - After(n)) % (2 * EnvHalfSequence) < EnvHalfSequence)
         /\ 1 \in Numbers
<1> DEFINE h == EnvHalfSequence
           m == 2 * h
<1>1. h \in Nat /\ h > 1
  BY EnvTypes, Zenon
<1> HIDE DEF h
<1>2. n \in Nat /\ n < m /\ m \in Nat /\ m > 2
  BY <1>1 DEF Numbers, h
<1>3. CASE n + 1 < m
  <2>1. After(n) = n + 1
    BY <1>2, <1>3 DEF After, h
  <2>2. After(n) - n = 1 /\ n - After(n) = -1
    BY <1>2, <2>1
  <2>3. 1 % m = 1 /\ (-1) % m = m - 1
    BY <1>1, <1>2
  <2>4. QED
    BY <1>1, <1>2, <1>3, <2>1, <2>2, <2>3 DEF Numbers, h
<1>4. CASE n + 1 = m
  <2>1. After(n) = 0
    BY <1>2, <1>4 DEF After, h
  <2>2. After(n) - n = 1 - m /\ n - After(n) = m - 1
    BY <1>2, <1>4, <2>1
  <2>3. (1 - m) % m = 1 /\ (m - 1) % m = m - 1
    BY <1>1, <1>2
  <2>4. QED
    BY <1>1, <1>2, <2>1, <2>2, <2>3 DEF Numbers, h
<1>5. QED
  BY <1>2, <1>3, <1>4

LEMMA PublishIsSound ==
  ASSUME NEW f, FlashGood(f), ~Env!Valid(f, Env!Target(f)), NEW e, Loadable(e), NEW g,
         g = [f EXCEPT ![Env!Target(f)] = Env!Slot(Env!NextSequence(f), e)]
  PROVE  FlashGood(g) /\ Published(g) /\ Env!Stored(g) = e
<1> DEFINE i == Env!Target(f)
           n == Env!NextSequence(f)
<1>1. i \in {0, 1}
  BY Zenon DEF Env!Target
<1>2. /\ DOMAIN g = {0, 1} /\ g[i] = Env!Slot(n, e)
      /\ \A j \in {0, 1} : j # i => g[j] = f[j]
  BY <1>1, Zenon DEF FlashGood
<1>3. Env!Valid(g, i) /\ g[i].sequence = n /\ g[i].entries = e
  <2> HIDE DEF i, n
  <2>1. g[i].state = "valid" /\ g[i].sequence = n /\ g[i].entries = e
    <3>1. /\ Env!Slot(n, e).state = "valid" /\ Env!Slot(n, e).sequence = n
          /\ Env!Slot(n, e).entries = e
      BY SectorFacts
    <3>2. QED
      BY <1>2, <3>1
  <2>2. QED
    BY <2>1, Zenon DEF Env!Valid
<1>4. \A j \in {0, 1} : j # i => (Env!Valid(g, j) <=> Env!Valid(f, j))
  BY <1>2, Zenon DEF Env!Valid
<1>5. Published(g)
  BY <1>1, <1>3, Zenon DEF Published
<1>6. CASE Published(f)
  <2> DEFINE c == Env!current_slot(f)
             k == f[c].sequence
  <2>1. /\ c \in {0, 1} /\ Env!Valid(f, c) /\ i = 1 - c /\ n = After(k) /\ k \in Numbers
        /\ Loadable(f[c].entries)
    BY <1>6, PublishedFlash, Zenon
  <2>2. g[c].sequence = k
    <3> HIDE DEF c, i, k
    <3>1. c # i
      BY <2>1
    <3>2. QED
      BY <1>2, <2>1, <3>1, Zenon DEF k
  <2> HIDE DEF c, i, k, n
  <2>3. c # i
    BY <2>1
  <2>4. Env!Valid(g, c) /\ g[c] = f[c]
    BY <1>2, <1>4, <2>1, <2>3, Zenon
  <2>5. /\ After(k) \in Numbers
        /\ (n - k) % (2 * EnvHalfSequence) < EnvHalfSequence
        /\ ~((k - n) % (2 * EnvHalfSequence) < EnvHalfSequence)
    BY <2>1, NeighbourFacts, Zenon
  <2>6. FlashGood(g)
    <3>1. \A j \in {0, 1} : j = i \/ j = c
      BY <1>1, <2>1, <2>3
    <3>2. g[i].sequence = After(g[c].sequence)
      BY <1>3, <2>1, <2>2, Zenon
    <3>3. g[1].sequence = After(g[0].sequence) \/ g[0].sequence = After(g[1].sequence)
      BY <1>1, <2>1, <2>3, <3>2, Zenon
    <3>4. ASSUME NEW j \in {0, 1}
          PROVE  g[j].sequence \in Numbers /\ Loadable(g[j].entries)
      BY <1>3, <2>1, <2>2, <2>4, <2>5, <3>1, Zenon
    <3>5. QED
      BY <1>2, <3>3, <3>4, Zenon DEF FlashGood
  <2>7. Env!current_slot(g) = i
    <3>1. Env!Valid(g, 0) /\ Env!Valid(g, 1)
      <4>1. (i = 1 /\ c = 0) \/ (i = 0 /\ c = 1)
        BY <2>1
      <4>2. Env!Valid(g, i) /\ Env!Valid(g, c)
        BY <1>3, <2>4, Zenon DEF i
      <4>3. QED
        BY <4>1, <4>2, Zenon
    <3>2. Env!current_slot(g) =
            IF (g[1].sequence - g[0].sequence) % (2 * EnvHalfSequence) < EnvHalfSequence
              THEN 1 ELSE 0
      BY <3>1, CurrentSlot, Zenon
    <3>3. CASE i = 1 /\ c = 0
      BY <1>3, <2>2, <2>5, <3>2, <3>3, Zenon
    <3>4. CASE i = 0 /\ c = 1
      BY <1>3, <2>2, <2>5, <3>2, <3>4, Zenon
    <3>5. QED
      BY <1>1, <2>1, <2>3, <3>3, <3>4, Zenon
  <2>8. QED
    BY <1>3, <1>5, <2>6, <2>7, PublishedFlash, Zenon
<1>7. CASE ~Published(f)
  <2>1. i = 0 /\ n = 1
    BY <1>7, UnpublishedFlash, Zenon
  <2>2. 0 \in Numbers /\ 0 # 1
    BY EnvTypes DEF Numbers
  <2>3. 1 \in Numbers
    BY <2>2, NeighbourFacts, Zenon
  <2>4. ~Env!Valid(g, 1)
    BY <1>4, <1>7, <2>1, <2>2, Zenon DEF Published
  <2> HIDE DEF i, n
  <2>5. Env!current_slot(g) = 0
    BY <1>3, <2>1, <2>4, CurrentSlot, Zenon
  <2>6. FlashGood(g)
    <3>1. ASSUME NEW j \in {0, 1}, Env!Valid(g, j)
          PROVE  g[j].sequence \in Numbers /\ Loadable(g[j].entries)
      BY <1>3, <2>1, <2>3, <2>4, <3>1, Zenon
    <3>2. QED
      BY <1>2, <2>4, <3>1, Zenon DEF FlashGood
  <2>7. QED
    BY <1>3, <1>5, <2>1, <2>5, <2>6, PublishedFlash, Zenon
<1>8. QED
  BY <1>6, <1>7, Zenon

-----------------------------------------------------------------------------
(* The steps of the device, as functions of its state.                      *)

EnvBase(s) ==
  /\ DOMAIN s = EnvFields
  /\ FlashGood(s.flash)
  /\ s.request \in EnvTexts \cup {Env!NoText}
  /\ IF s.based THEN Published(s.flash) ELSE ~Published(s.flash)

LEMMA GoodIsBase ==
  ASSUME NEW s, EnvGood(s)
  PROVE  EnvBase(s)
  BY Zenon DEF EnvGood, EnvBase, BootIsSound

LEMMA LoadedFields ==
  ASSUME NEW s, DOMAIN s = EnvFields, NEW r, r = Env!Loaded(s)
  PROVE  /\ DOMAIN r = EnvFields /\ r.entries = Env!Stored(s.flash)
         /\ r.flash = s.flash /\ r.may = s.may /\ r.based = s.based /\ r.pc = s.pc
         /\ r.request = s.request /\ r.write = s.write /\ r.slot = s.slot
  BY ZenonT(60) DEF Env!Loaded, EnvFields

(* A state between commands whose memory is what a boot loads.              *)
LEMMA IdleIsSound ==
  ASSUME NEW s, EnvBase(s), s.pc = "idle" \/ s.pc = "off",
         s.pc = "idle" => s.entries = Env!Stored(s.flash), Loadable(s.entries),
         s.based => Env!Stored(s.flash) \in s.may
  PROVE  EnvGood(s)
<1>1. BootIsSound(s)
  BY Zenon DEF BootIsSound, EnvBase
<1>2. s.pc \notin Writing
  BY Zenon DEF Writing, Opened
<1>3. QED
  BY <1>1, <1>2, Zenon DEF EnvGood, EnvBase, SaveIsSound

LEMMA FailedIsSound ==
  ASSUME NEW s, EnvBase(s), NEW status
  PROVE  EnvGood(Env!Failed(s, status))
<1> DEFINE l == Env!Loaded(s)
           r == Env!Failed(s, status)
<1>1. /\ DOMAIN l = EnvFields /\ l.entries = Env!Stored(s.flash)
      /\ l.flash = s.flash /\ l.based = s.based /\ l.request = s.request
  BY LoadedFields, Zenon DEF EnvBase
<1>2. r = [l EXCEPT !.pc = "idle", !.write = <<>>, !.may = {Env!Stored(s.flash)},
                    !.status = IF Env!Loads(s.flash) THEN status ELSE Env!READ]
  BY Zenon DEF Env!Failed
<1> HIDE DEF l, r
<1>3. /\ DOMAIN r = EnvFields /\ r.entries = Env!Stored(s.flash)
      /\ r.flash = s.flash /\ r.based = s.based /\ r.request = s.request
      /\ r.pc = "idle" /\ r.may = {Env!Stored(s.flash)}
  BY <1>1, <1>2, ZenonT(60) DEF EnvFields
<1>4. EnvBase(r)
  BY <1>3, Zenon DEF EnvBase
<1>5. Loadable(r.entries)
  BY <1>3, StoredIsLoadable, Zenon DEF EnvBase
<1>6. r.entries = Env!Stored(r.flash) /\ Env!Stored(r.flash) \in r.may
  BY <1>3, Zenon
<1>7. QED
  BY <1>3, <1>4, <1>5, <1>6, IdleIsSound, Zenon DEF r

LEMMA SavedIsSound ==
  ASSUME NEW s, EnvBase(s), Loadable(s.entries), s.entries = Env!Stored(s.flash)
  PROVE  EnvGood(Env!Saved(s, s.entries))
<1> DEFINE r == Env!Saved(s, s.entries)
<1>1. /\ DOMAIN r = EnvFields /\ r.entries = s.entries
      /\ r.flash = s.flash /\ r.based = s.based /\ r.request = s.request
      /\ r.pc = "idle" /\ r.may = {s.entries}
  BY ZenonT(60) DEF Env!Saved, EnvFields, EnvBase
<1> HIDE DEF r
<1>2. EnvBase(r)
  BY <1>1, Zenon DEF EnvBase
<1>3. r.entries = Env!Stored(r.flash) /\ Env!Stored(r.flash) \in r.may /\ Loadable(r.entries)
  BY <1>1, Zenon
<1>4. QED
  BY <1>1, <1>2, <1>3, IdleIsSound, Zenon DEF r

LEMMA SaveIsStarted ==
  ASSUME NEW s, EnvBase(s), Loadable(s.entries), NEW r,
         r = [s EXCEPT !.pc = "acquire", !.slot = Env!Target(s.flash),
                !.write = IF Env!current_slot(s.flash) = -1 /\ s.entries # <<>>
                            THEN <<(<<>>), s.entries>> ELSE <<s.entries>>,
                !.may = {Env!Stored(s.flash), s.entries}]
  PROVE  EnvGood(r)
<1>1. /\ DOMAIN r = EnvFields /\ r.entries = s.entries
      /\ r.flash = s.flash /\ r.based = s.based /\ r.request = s.request
      /\ r.pc = "acquire" /\ r.may = {Env!Stored(s.flash), s.entries}
      /\ r.slot = Env!Target(s.flash)
      /\ r.write = IF Env!current_slot(s.flash) = -1 /\ s.entries # <<>>
                     THEN <<(<<>>), s.entries>> ELSE <<s.entries>>
  BY ZenonT(60) DEF EnvFields, EnvBase
<1>2. Env!current_slot(s.flash) = -1 => Env!Stored(s.flash) = <<>>
  BY DEF Env!Stored
<1>3. r.write = <<r.entries>> \/ (r.write = <<(<<>>), r.entries>> /\ <<>> \in r.may)
  BY <1>1, <1>2, Zenon
<1>4. r.pc \notin Opened /\ r.pc # "idle"
  BY <1>1, Zenon DEF Opened
<1>5. SaveIsSound(r)
  BY <1>1, <1>3, <1>4, Zenon DEF SaveIsSound
<1>6. BootIsSound(r)
  BY <1>1, <1>4, Zenon DEF BootIsSound, EnvBase
<1>7. QED
  BY <1>1, <1>5, <1>6, Zenon DEF EnvGood, EnvBase

LEMMA SaveFileIsSound ==
  ASSUME NEW s, EnvBase(s), Loadable(s.entries)
  PROVE  EnvGood(Env!env_save_file(s, s.entries))
<1> DEFINE es == s.entries
           big == Len(es) > EnvSnapshotEntries
           loads == Env!Loads(s.flash)
           same == Env!current_slot(s.flash) >= 0 /\ Env!Stored(s.flash) = es
           started == [s EXCEPT !.pc = "acquire", !.slot = Env!Target(s.flash),
                         !.write = IF Env!current_slot(s.flash) = -1 /\ es # <<>>
                                     THEN <<(<<>>), es>> ELSE <<es>>,
                         !.may = {Env!Stored(s.flash), es}]
<1>1. Len(es) <= EnvSnapshotEntries <=> ~big
  BY EnvTypes DEF Loadable
<1>2. same => loads
  BY DEF Env!Loads
<1>3. /\ big => Env!env_save_file(s, es) = Env!Failed(s, Env!FULL)
      /\ ~big /\ ~loads => Env!env_save_file(s, es) = Env!Failed(s, Env!READ)
      /\ ~big /\ same => Env!env_save_file(s, es) = Env!Saved(s, es)
      /\ ~big /\ loads /\ ~same => Env!env_save_file(s, es) = started
  <2>1. Env!env_save_file(s, es) =
          CASE big -> Env!Failed(s, Env!FULL)
            [] Len(es) <= EnvSnapshotEntries /\ ~loads -> Env!Failed(s, Env!READ)
            [] /\ Env!current_slot(s.flash) >= 0 /\ Len(es) <= EnvSnapshotEntries
               /\ Env!Stored(s.flash) = es -> Env!Saved(s, es)
            [] OTHER -> started
    BY Zenon DEF Env!env_save_file
  <2> HIDE DEF big, loads, started, es
  <2>2. QED
    BY <1>1, <1>2, <2>1, Zenon
<1>4. CASE big
  BY <1>3, <1>4, FailedIsSound, Zenon
<1>5. CASE ~big /\ ~loads
  BY <1>3, <1>5, FailedIsSound, Zenon
<1>6. CASE ~big /\ same
  BY <1>3, <1>6, SavedIsSound, Zenon
<1>7. CASE ~big /\ loads /\ ~same
  <2> HIDE DEF big, loads, same
  <2>1. Env!env_save_file(s, es) = started
    BY <1>3, <1>7, Zenon
  <2>2. EnvGood(started)
    BY SaveIsStarted, Zenon
  <2>3. QED
    BY <2>1, <2>2, Zenon
<1>8. QED
  BY <1>4, <1>5, <1>6, <1>7, Zenon

LEMMA PutFields ==
  ASSUME NEW s, DOMAIN s = EnvFields, NEW x, NEW q, q = Env!Put(s, x)
  PROVE  /\ DOMAIN q = EnvFields /\ q.flash = [s.flash EXCEPT ![s.slot] = x]
         /\ q.entries = s.entries /\ q.may = s.may /\ q.based = s.based
         /\ q.request = s.request /\ q.write = s.write /\ q.slot = s.slot
  BY ZenonT(60) DEF Env!Put, EnvFields

LEMMA SpoiledIsSound ==
  ASSUME NEW s, EnvGood(s), s.pc \in Writing, NEW x \in {Env!Blank, Env!Torn},
         NEW q, q = Env!Put(s, x)
  PROVE  /\ EnvBase(q)
         /\ \A p \in Opened : EnvGood([q EXCEPT !.pc = p])
<1>1. /\ DOMAIN q = EnvFields /\ q.flash = [s.flash EXCEPT ![s.slot] = x]
      /\ q.entries = s.entries /\ q.may = s.may /\ q.based = s.based
      /\ q.request = s.request /\ q.write = s.write /\ q.slot = s.slot
  <2>1. DOMAIN s = EnvFields
    BY Zenon DEF EnvGood
  <2>2. QED
    BY <2>1, PutFields
<1>2. s.slot = Env!Target(s.flash) /\ FlashGood(s.flash)
  BY Zenon DEF EnvGood, SaveIsSound
<1>3. q.flash = [s.flash EXCEPT ![Env!Target(s.flash)] = x]
  BY <1>1, <1>2, Zenon
<1>4. /\ FlashGood(q.flash) /\ Env!Stored(q.flash) = Env!Stored(s.flash)
      /\ Env!Target(q.flash) = q.slot /\ ~Env!Valid(q.flash, q.slot)
      /\ Published(q.flash) <=> Published(s.flash)
  <2> DEFINE f == s.flash
             g == q.flash
  <2>1. g = [f EXCEPT ![Env!Target(f)] = x] /\ FlashGood(f)
    BY <1>2, <1>3
  <2>2. /\ FlashGood(g) /\ Env!Stored(g) = Env!Stored(f)
        /\ Env!Target(g) = Env!Target(f) /\ ~Env!Valid(g, Env!Target(f))
        /\ Published(g) <=> Published(f)
    <3> HIDE DEF f, g
    <3>1. QED
      BY <2>1, SpoilIsSound
  <2>3. QED
    BY <1>1, <1>2, <2>2, Zenon
<1>5. IF q.based THEN Published(q.flash) /\ Env!Stored(q.flash) \in q.may
                 ELSE ~Published(q.flash)
  BY <1>1, <1>4, Zenon DEF EnvGood, BootIsSound
<1>6. EnvBase(q)
  BY <1>1, <1>4, <1>5, Zenon DEF EnvBase, EnvGood
<1>7. ASSUME NEW p \in Opened PROVE EnvGood([q EXCEPT !.pc = p])
  <2> DEFINE r == [q EXCEPT !.pc = p]
  <2>1. /\ DOMAIN r = EnvFields /\ r.flash = q.flash /\ r.pc = p
        /\ r.entries = s.entries /\ r.may = s.may /\ r.based = q.based
        /\ r.request = s.request /\ r.write = s.write /\ r.slot = q.slot
    BY <1>1, ZenonT(60) DEF EnvFields
  <2> HIDE DEF r
  <2>2. p \in Writing /\ p # "idle"
    BY <1>7, Zenon DEF Writing, Opened
  <2>3. /\ s.entries \in s.may
        /\ s.write = <<s.entries>> \/ (s.write = <<(<<>>), s.entries>> /\ <<>> \in s.may)
    BY Zenon DEF EnvGood, SaveIsSound
  <2>4. SaveIsSound(r)
    BY <1>4, <2>1, <2>3, Zenon DEF SaveIsSound
  <2>5. BootIsSound(r)
    BY <1>1, <1>5, <2>1, <2>2, Zenon DEF BootIsSound
  <2>6. QED
    BY <1>4, <2>1, <2>4, <2>5, Zenon DEF EnvGood, r
<1>8. QED
  BY <1>6, <1>7, Zenon

(* The header is in flash.                                                  *)
LEMMA PublishedIsSound ==
  ASSUME NEW s, EnvGood(s), s.pc = "publish", NEW q,
         q = [Env!Put(s, Env!Slot(Env!NextSequence(s.flash), s.write[1])) EXCEPT !.based = TRUE]
  PROVE  /\ EnvBase(q) /\ q.based
         /\ q.entries = s.entries /\ q.may = s.may /\ q.write = s.write
         /\ Env!Stored(q.flash) = s.write[1] /\ s.write[1] \in s.may
<1> DEFINE x == Env!Slot(Env!NextSequence(s.flash), s.write[1])
           u == Env!Put(s, x)
<1>1. /\ DOMAIN u = EnvFields /\ u.flash = [s.flash EXCEPT ![s.slot] = x]
      /\ u.entries = s.entries /\ u.may = s.may
      /\ u.request = s.request /\ u.write = s.write
  <2>1. DOMAIN s = EnvFields
    BY Zenon DEF EnvGood
  <2>2. QED
    BY <2>1, PutFields
<1>2. q = [u EXCEPT !.based = TRUE]
  OBVIOUS
<1> HIDE DEF u
<1>3. /\ DOMAIN q = EnvFields /\ q.flash = [s.flash EXCEPT ![s.slot] = x] /\ q.based = TRUE
      /\ q.entries = s.entries /\ q.may = s.may
      /\ q.request = s.request /\ q.write = s.write
  BY <1>1, <1>2, ZenonT(60) DEF EnvFields
<1>4. s.pc \in Writing /\ s.pc \in Opened
  BY Zenon DEF Writing, Opened
<1>5. /\ s.slot = Env!Target(s.flash) /\ FlashGood(s.flash)
      /\ ~Env!Valid(s.flash, s.slot) /\ s.entries \in s.may
      /\ s.write = <<s.entries>> \/ (s.write = <<(<<>>), s.entries>> /\ <<>> \in s.may)
  BY <1>4, Zenon DEF EnvGood, SaveIsSound
<1>6. (s.write[1] = s.entries) \/ (s.write[1] = <<>> /\ <<>> \in s.may)
  <2>1. \A a, b : <<a>>[1] = a /\ <<a, b>>[1] = a
    OBVIOUS
  <2>2. CASE s.write = <<s.entries>>
    <3>1. s.write[1] = s.entries
      BY <2>1, <2>2, Zenon
    <3>2. QED
      BY <3>1, Zenon
  <2>3. CASE s.write = <<(<<>>), s.entries>> /\ <<>> \in s.may
    <3>1. s.write[1] = <<>>
      BY <2>1, <2>3, Zenon
    <3>2. QED
      BY <2>3, <3>1, Zenon
  <2>4. QED
    BY <1>5, <2>2, <2>3, Zenon
<1>7. Loadable(s.write[1])
  BY <1>6, EmptyIsLoadable, Zenon DEF EnvGood
<1>8. q.flash = [s.flash EXCEPT ![Env!Target(s.flash)] =
                   Env!Slot(Env!NextSequence(s.flash), s.write[1])]
  BY <1>3, <1>5, Zenon
<1>9. ~Env!Valid(s.flash, Env!Target(s.flash))
  BY <1>5, Zenon
<1>10. FlashGood(q.flash) /\ Published(q.flash) /\ Env!Stored(q.flash) = s.write[1]
  <2> DEFINE f == s.flash
             g == q.flash
             e == s.write[1]
  <2>1. /\ g = [f EXCEPT ![Env!Target(f)] = Env!Slot(Env!NextSequence(f), e)]
        /\ FlashGood(f) /\ Loadable(e) /\ ~Env!Valid(f, Env!Target(f))
    BY <1>5, <1>7, <1>8, <1>9, Zenon
  <2>2. FlashGood(g) /\ Published(g) /\ Env!Stored(g) = e
    <3> HIDE DEF f, g, e, x
    <3>1. QED
      BY <2>1, PublishIsSound
  <2>3. QED
    BY <2>2
<1>11. EnvBase(q)
  BY <1>3, <1>10, Zenon DEF EnvBase, EnvGood
<1>12. QED
  BY <1>3, <1>5, <1>6, <1>10, <1>11, Zenon

LEMMA HeaderEndsIsSound ==
  ASSUME EnvGood(st), Env!HeaderEnds
  PROVE  EnvGood(st')
<1> DEFINE q == [Env!Put(st, Env!Slot(Env!NextSequence(st.flash), st.write[1]))
                   EXCEPT !.based = TRUE]
           more == [q EXCEPT !.pc = "acquire", !.write = Tail(@),
                             !.slot = Env!Target(q.flash)]
<1>1. /\ st.pc = "publish"
      /\ st' \in {IF Len(st.write) > 1 THEN more ELSE Env!Saved(q, st.write[1]),
                   Env!Failed(q, Env!WRITE), Env!Failed(st, Env!WRITE)}
  BY Zenon DEF Env!HeaderEnds
<1>2. /\ EnvBase(q) /\ q.based
      /\ q.entries = st.entries /\ q.may = st.may /\ q.write = st.write
      /\ Env!Stored(q.flash) = st.write[1] /\ st.write[1] \in st.may
  BY <1>1, PublishedIsSound, Zenon
<1>3. Loadable(q.entries)
  BY <1>2, Zenon DEF EnvGood
<1>4. /\ st.entries \in st.may
      /\ st.write = <<st.entries>> \/ st.write = <<(<<>>), st.entries>>
  BY <1>1, Zenon DEF EnvGood, SaveIsSound, Writing, Opened
<1>5. \A e : /\ ~(Len(<<e>>) > 1) /\ <<e>>[1] = e
            /\ Len(<<(<<>>), e>>) > 1 /\ Tail(<<(<<>>), e>>) = <<e>>
  OBVIOUS
<1>6. more = [q EXCEPT !.pc = "acquire", !.write = Tail(q.write),
                       !.slot = Env!Target(q.flash)]
  BY <1>2, Zenon DEF EnvBase, EnvFields
<1> HIDE DEF q, more
<1>7. CASE st' = Env!Failed(q, Env!WRITE)
  BY <1>2, <1>7, FailedIsSound, Zenon
<1>8. CASE st' = Env!Failed(st, Env!WRITE)
  BY <1>8, GoodIsBase, FailedIsSound, Zenon
<1>9. CASE ~(Len(st.write) > 1) /\ st' = Env!Saved(q, st.write[1])
  <2>1. st.write[1] = st.entries
    BY <1>4, <1>5, <1>9, Zenon
  <2>2. EnvGood(Env!Saved(q, q.entries))
    BY <1>2, <1>3, <2>1, SavedIsSound, Zenon
  <2>3. QED
    BY <1>2, <1>9, <2>1, <2>2, Zenon
<1>10. CASE Len(st.write) > 1 /\ st' = more
  <2>1. Tail(st.write) = <<st.entries>>
    BY <1>4, <1>5, <1>10, Zenon
  <2>2. /\ DOMAIN more = EnvFields /\ more.flash = q.flash /\ more.based = q.based
        /\ more.pc = "acquire" /\ more.write = Tail(q.write)
        /\ more.slot = Env!Target(q.flash) /\ more.entries = q.entries
        /\ more.may = q.may /\ more.request = q.request
    BY <1>2, <1>6, ZenonT(60) DEF EnvFields, EnvBase
  <2>3. more.pc \notin Opened /\ more.pc # "idle"
    BY <2>2, Zenon DEF Opened
  <2>4. SaveIsSound(more)
    BY <1>2, <1>4, <2>1, <2>2, <2>3, Zenon DEF SaveIsSound
  <2>5. BootIsSound(more)
    BY <1>2, <2>2, <2>3, Zenon DEF BootIsSound, EnvBase
  <2>6. QED
    BY <1>2, <1>3, <1>10, <2>2, <2>4, <2>5, Zenon DEF EnvGood, EnvBase
<1>11. QED
  BY <1>1, <1>7, <1>8, <1>9, <1>10, Zenon

LEMMA EnvInit ==
  ASSUME Env!Init
  PROVE  EnvGood(st)
<1> DEFINE f == [i \in {0, 1} |-> Env!Blank]
<1>1. DOMAIN f = {0, 1} /\ f[0] = Env!Blank /\ f[1] = Env!Blank
  BY Zenon
<1>2. ~Env!Valid(f, 0) /\ ~Env!Valid(f, 1)
  BY <1>1, SectorFacts, Zenon DEF Env!Valid
<1>3. st = Env!Off(f, {<<>>}, FALSE)
  BY Zenon DEF Env!Init
<1> HIDE DEF f
<1>4. /\ DOMAIN st = EnvFields /\ st.flash = f /\ st.based = FALSE /\ st.pc = "off"
      /\ st.request = Env!NoText /\ st.entries = <<>>
  BY <1>3, ZenonT(60) DEF Env!Off, EnvFields
<1>5. FlashGood(f) /\ ~Published(f)
  BY <1>1, <1>2, Zenon DEF FlashGood, Published
<1>6. EnvBase(st)
  BY <1>4, <1>5, Zenon DEF EnvBase
<1>7. QED
  BY <1>4, <1>6, EmptyIsLoadable, IdleIsSound, Zenon

(* A step that leaves the flash and what a boot may find alone.             *)
LEMMA RequestIsSound ==
  ASSUME NEW s, EnvGood(s), s.pc = "idle", NEW r,
         DOMAIN r = EnvFields, r.flash = s.flash, r.may = s.may, r.based = s.based,
         r.pc = s.pc, r.entries = s.entries, r.request \in EnvTexts \cup {Env!NoText}
  PROVE  EnvGood(r)
<1>1. EnvBase(r)
  BY GoodIsBase, Zenon DEF EnvBase
<1>2. r.entries = Env!Stored(r.flash) /\ Loadable(r.entries)
  BY Zenon DEF EnvGood, BootIsSound
<1>3. r.based => Env!Stored(r.flash) \in r.may
  BY Zenon DEF EnvGood, BootIsSound
<1>4. r.pc = "idle"
  BY Zenon
<1>5. QED
  BY <1>1, <1>2, <1>3, <1>4, IdleIsSound, Zenon

LEMMA BootIsGood ==
  ASSUME EnvGood(st), Env!environment_io_init
  PROVE  EnvGood(st')
<1> DEFINE l == Env!Loaded(st)
<1>0. EnvBase(st)
  BY GoodIsBase, Zenon
<1>1. /\ DOMAIN l = EnvFields /\ l.entries = Env!Stored(st.flash)
      /\ l.flash = st.flash /\ l.based = st.based /\ l.request = st.request
  BY <1>0, LoadedFields, Zenon DEF EnvBase
<1>2. st' = [l EXCEPT !.pc = "idle", !.may = {Env!Stored(st.flash)}]
  BY Zenon DEF Env!environment_io_init
<1> HIDE DEF l
<1>3. /\ DOMAIN st' = EnvFields /\ st'.entries = Env!Stored(st.flash) /\ st'.pc = "idle"
      /\ st'.flash = st.flash /\ st'.based = st.based /\ st'.request = st.request
      /\ st'.may = {Env!Stored(st.flash)}
  BY <1>1, <1>2, ZenonT(60) DEF EnvFields
<1>4. EnvBase(st')
  BY <1>0, <1>3, Zenon DEF EnvBase
<1>5. Loadable(st'.entries)
  BY <1>0, <1>3, StoredIsLoadable, Zenon DEF EnvBase
<1>6. st'.entries = Env!Stored(st'.flash) /\ Env!Stored(st'.flash) \in st'.may
  BY <1>3, Zenon
<1>7. QED
  BY <1>3, <1>4, <1>5, <1>6, IdleIsSound, Zenon

LEMMA EnvReloadIsGood ==
  ASSUME EnvGood(st), Env!Reload
  PROVE  EnvGood(st')
<1> DEFINE l == Env!Loaded(st)
<1>1. /\ DOMAIN l = EnvFields /\ l.entries = Env!Stored(st.flash)
      /\ l.flash = st.flash /\ l.may = st.may /\ l.based = st.based /\ l.pc = st.pc
  BY LoadedFields, Zenon DEF EnvGood
<1>2. st.pc = "idle" /\ st' = [l EXCEPT !.request = Env!NoText]
  BY Zenon DEF Env!Reload
<1>3. st.entries = Env!Stored(st.flash)
  BY <1>2, Zenon DEF EnvGood, BootIsSound
<1> HIDE DEF l
<1>4. /\ DOMAIN st' = EnvFields /\ st'.entries = st.entries /\ st'.pc = st.pc
      /\ st'.flash = st.flash /\ st'.may = st.may /\ st'.based = st.based
      /\ st'.request = Env!NoText
  BY <1>1, <1>2, <1>3, ZenonT(60) DEF EnvFields
<1>5. QED
  BY <1>2, <1>4, RequestIsSound, Zenon

LEMMA AppendIsGood ==
  ASSUME EnvGood(st), NEW t \in EnvTexts, Env!env_append_byte(t)
  PROVE  EnvGood(st')
<1>1. /\ st.pc = "idle"
      /\ st' = IF st.request = Env!NoText THEN [st EXCEPT !.request = t]
               ELSE [st EXCEPT !.status = Env!FULL]
  BY Zenon DEF Env!env_append_byte
<1>2. DOMAIN st = EnvFields /\ st.request \in EnvTexts \cup {Env!NoText}
  BY Zenon DEF EnvGood
<1>3. /\ DOMAIN st' = EnvFields /\ st'.entries = st.entries /\ st'.pc = st.pc
      /\ st'.flash = st.flash /\ st'.may = st.may /\ st'.based = st.based
      /\ st'.request \in {t, st.request}
  BY <1>1, <1>2, ZenonT(60) DEF EnvFields
<1>4. QED
  BY <1>1, <1>2, <1>3, RequestIsSound, Zenon

LEMMA ResetIsGood ==
  ASSUME EnvGood(st), Env!env_reset_request
  PROVE  EnvGood(st')
<1>1. /\ st.pc = "idle"
      /\ st' = [st EXCEPT !.request = Env!NoText, !.status = Env!OK]
  BY Zenon DEF Env!env_reset_request
<1>2. DOMAIN st = EnvFields
  BY Zenon DEF EnvGood
<1>3. /\ DOMAIN st' = EnvFields /\ st'.entries = st.entries /\ st'.pc = st.pc
      /\ st'.flash = st.flash /\ st'.may = st.may /\ st'.based = st.based
      /\ st'.request = Env!NoText
  BY <1>1, <1>2, ZenonT(60) DEF EnvFields
<1>4. QED
  BY <1>1, <1>3, RequestIsSound, Zenon

LEMMA OutputIsGood ==
  ASSUME EnvGood(st), NEW c \in Env!Commands, Env!environment_output(c)
  PROVE  EnvGood(st')
<1> DEFINE r == Env!env_execute_command(st.entries, c, st.request)
           s == [st EXCEPT !.entries = r.entries, !.status = r.status, !.request = Env!NoText]
<1>1. st.pc = "idle" /\ st' = IF r.commit THEN Env!env_save_file(s, r.entries) ELSE s
  BY Zenon DEF Env!environment_output
<1>2. /\ DOMAIN st = EnvFields /\ st.request \in EnvTexts \cup {Env!NoText}
      /\ Loadable(st.entries)
  BY Zenon DEF EnvGood
<1>3. Loadable(r.entries) /\ (~r.commit => r.entries = st.entries)
  BY <1>2, CommandIsSound, Zenon DEF Outcome
<1> HIDE DEF r
<1>4. /\ DOMAIN s = EnvFields /\ s.entries = r.entries /\ s.pc = st.pc
      /\ s.flash = st.flash /\ s.may = st.may /\ s.based = st.based
      /\ s.request = Env!NoText
  BY <1>2, ZenonT(60) DEF EnvFields
<1> HIDE DEF s
<1>5. CASE r.commit
  <2>1. EnvBase(s)
    BY <1>4, GoodIsBase, Zenon DEF EnvBase
  <2>2. Loadable(s.entries)
    BY <1>3, <1>4, Zenon
  <2>3. EnvGood(Env!env_save_file(s, s.entries))
    BY <2>1, <2>2, SaveFileIsSound, Zenon
  <2>4. QED
    BY <1>1, <1>4, <1>5, <2>3, Zenon
<1>6. CASE ~r.commit
  <2>1. s.entries = st.entries /\ st' = s
    BY <1>1, <1>3, <1>4, <1>6, Zenon
  <2>2. EnvGood(s)
    BY <1>1, <1>4, <2>1, RequestIsSound, Zenon
  <2>3. QED
    BY <2>1, <2>2, Zenon
<1>7. QED
  BY <1>5, <1>6, Zenon

LEMMA AcquireIsGood ==
  ASSUME EnvGood(st), Env!AcquireBus
  PROVE  EnvGood(st')
<1>1. /\ st.pc = "acquire"
      /\ st' = [st EXCEPT !.pc = "erase"] \/ st' = Env!Failed(st, Env!WRITE)
  BY Zenon DEF Env!AcquireBus
<1>2. CASE st' = Env!Failed(st, Env!WRITE)
  BY <1>2, GoodIsBase, FailedIsSound, Zenon
<1>3. CASE st' = [st EXCEPT !.pc = "erase"]
  <2>1. DOMAIN st = EnvFields
    BY Zenon DEF EnvGood
  <2>2. /\ DOMAIN st' = EnvFields /\ st'.entries = st.entries /\ st'.pc = "erase"
        /\ st'.flash = st.flash /\ st'.may = st.may /\ st'.based = st.based
        /\ st'.request = st.request /\ st'.write = st.write /\ st'.slot = st.slot
    BY <1>3, <2>1, ZenonT(60) DEF EnvFields
  <2>3. st.pc \in Writing /\ st'.pc \notin Opened /\ st'.pc # "idle"
    BY <1>1, <2>2, Zenon DEF Writing, Opened
  <2>4. SaveIsSound(st')
    BY <2>2, <2>3, Zenon DEF SaveIsSound, EnvGood
  <2>5. BootIsSound(st')
    BY <2>2, <2>3, Zenon DEF BootIsSound, EnvGood
  <2>6. QED
    BY <2>2, <2>4, <2>5, Zenon DEF EnvGood
<1>4. QED
  BY <1>1, <1>2, <1>3, Zenon

LEMMA EraseBeginsIsGood ==
  ASSUME EnvGood(st), Env!EraseBegins
  PROVE  EnvGood(st')
<1> DEFINE x == IF st.flash[st.slot] = Env!Blank THEN Env!Blank ELSE Env!Torn
           q == Env!Put(st, x)
<1>1. st.pc = "erase" /\ st' = [q EXCEPT !.pc = "erased"]
  BY Zenon DEF Env!EraseBegins
<1>2. x \in {Env!Blank, Env!Torn}
  BY Zenon
<1>3. st.pc \in Writing /\ "erased" \in Opened
  BY <1>1, Zenon DEF Writing, Opened
<1> HIDE DEF x
<1>4. QED
  BY <1>1, <1>2, <1>3, SpoiledIsSound, Zenon

LEMMA EraseEndsIsGood ==
  ASSUME EnvGood(st), Env!EraseEnds
  PROVE  EnvGood(st')
<1>1. st.pc = "erased" /\ st' = [Env!Put(st, Env!Blank) EXCEPT !.pc = "payload"]
  BY Zenon DEF Env!EraseEnds
<1>2. st.pc \in Writing /\ "payload" \in Opened
  BY <1>1, Zenon DEF Writing, Opened
<1>3. QED
  BY <1>1, <1>2, SpoiledIsSound, Zenon

LEMMA PayloadIsGood ==
  ASSUME EnvGood(st), Env!WritePayload
  PROVE  EnvGood(st')
<1> DEFINE x == IF st.write[1] = <<>> THEN Env!Blank ELSE Env!Torn
           q == Env!Put(st, x)
<1>1. /\ st.pc = "payload"
      /\ st' = [q EXCEPT !.pc = "header"] \/ st' = Env!Failed(q, Env!WRITE)
  BY Zenon DEF Env!WritePayload
<1>2. x \in {Env!Blank, Env!Torn}
  BY Zenon
<1>3. st.pc \in Writing /\ "header" \in Opened
  BY <1>1, Zenon DEF Writing, Opened
<1> HIDE DEF x
<1>4. EnvBase(q) /\ EnvGood([q EXCEPT !.pc = "header"])
  BY <1>2, <1>3, SpoiledIsSound, Zenon
<1>5. QED
  BY <1>1, <1>4, FailedIsSound, Zenon

LEMMA HeaderBeginsIsGood ==
  ASSUME EnvGood(st), Env!HeaderBegins
  PROVE  EnvGood(st')
<1>1. st.pc = "header" /\ st' = [Env!Put(st, Env!Torn) EXCEPT !.pc = "publish"]
  BY Zenon DEF Env!HeaderBegins
<1>2. st.pc \in Writing /\ "publish" \in Opened
  BY <1>1, Zenon DEF Writing, Opened
<1>3. QED
  BY <1>1, <1>2, SpoiledIsSound, Zenon

LEMMA PowerCutIsGood ==
  ASSUME EnvGood(st), Env!PowerCut
  PROVE  EnvGood(st')
<1>1. st' = Env!Off(st.flash, st.may, st.based)
  BY Zenon DEF Env!PowerCut
<1>2. /\ DOMAIN st' = EnvFields /\ st'.entries = <<>> /\ st'.pc = "off"
      /\ st'.flash = st.flash /\ st'.may = st.may /\ st'.based = st.based
      /\ st'.request = Env!NoText
  BY <1>1, ZenonT(60) DEF Env!Off, EnvFields
<1>3. EnvBase(st')
  BY <1>2, GoodIsBase, Zenon DEF EnvBase
<1>4. st'.based => Env!Stored(st'.flash) \in st'.may
  BY <1>2, Zenon DEF EnvGood, BootIsSound
<1>5. Loadable(st'.entries) /\ st'.pc # "idle"
  BY <1>2, EmptyIsLoadable, Zenon
<1>6. QED
  BY <1>2, <1>3, <1>4, <1>5, IdleIsSound, Zenon

LEMMA EnvNext ==
  ASSUME EnvGood(st), Env!Next
  PROVE  EnvGood(st')
<1>1. CASE Env!environment_io_init
  BY <1>1, BootIsGood
<1>2. CASE Env!Reload
  BY <1>2, EnvReloadIsGood
<1>3. CASE \E t \in EnvTexts : Env!env_append_byte(t)
  BY <1>3, AppendIsGood
<1>4. CASE Env!env_reset_request
  BY <1>4, ResetIsGood
<1>5. CASE \E c \in Env!Commands : Env!environment_output(c)
  BY <1>5, OutputIsGood
<1>6. CASE Env!AcquireBus
  BY <1>6, AcquireIsGood
<1>7. CASE Env!EraseBegins
  BY <1>7, EraseBeginsIsGood
<1>8. CASE Env!EraseEnds
  BY <1>8, EraseEndsIsGood
<1>9. CASE Env!WritePayload
  BY <1>9, PayloadIsGood
<1>10. CASE Env!HeaderBegins
  BY <1>10, HeaderBeginsIsGood
<1>11. CASE Env!HeaderEnds
  BY <1>11, HeaderEndsIsSound
<1>12. CASE Env!PowerCut
  BY <1>12, PowerCutIsGood
<1>13. QED
  BY <1>1, <1>2, <1>3, <1>4, <1>5, <1>6, <1>7, <1>8, <1>9, <1>10, <1>11, <1>12, Zenon
     DEF Env!Next

(* The invariant implies what the run checks.                               *)
LEMMA LoadableEntries ==
  ASSUME Loadable(st.entries)
  PROVE  Env!EntriesAreLoadable
<1> DEFINE es == st.entries
           keys == [i \in DOMAIN es |-> es[i].key]
<1>1. /\ es \in Seq(EnvEntry) /\ Len(es) <= EnvMaxEntries
      /\ \A i, j \in 1 .. Len(es) : es[i].key = es[j].key => i = j
      /\ \A i \in 1 .. Len(es) : Env!env_key_valid(es[i].key)
  BY Zenon DEF Loadable
<1>2. DOMAIN es = 1 .. Len(es) /\ \A i \in DOMAIN es : es[i] \in EnvEntry
  <2> HIDE DEF es
  <2>1. QED
    BY <1>1
<1>3. Env!IsInjective(keys)
  BY <1>1, <1>2, Zenon DEF Env!IsInjective
<1>4. ASSUME NEW i \in DOMAIN es
      PROVE  /\ Env!env_key_valid(es[i].key)
             /\ Env!env_normalize_key(es[i].key) = es[i].key
             /\ Env!IsNumber(es[i].value) => es[i].value[1] \in EnvMinInt .. EnvMaxInt
  <2>1. es[i].key \in EnvNames /\ es[i].value \in EnvValues
    BY <1>2, Zenon DEF EnvEntry
  <2>2. \A k : Env!env_normalize_key(Env!env_normalize_key(k)) = Env!env_normalize_key(k)
    BY Zenon DEF Env!env_normalize_key
  <2>3. QED
    BY <1>1, <1>2, <2>1, <2>2, NumberFacts, Zenon DEF EnvNames
<1>5. QED
  BY <1>1, <1>3, <1>4, Zenon DEF Env!EntriesAreLoadable

LEMMA EnvIsRight ==
  ASSUME EnvGood(st)
  PROVE  Env!EnvironmentSurvives /\ Env!EntriesAreLoadable
<1>1. st.based => Env!Loads(st.flash) /\ Env!Stored(st.flash) \in st.may
  BY PublishedFlash, Zenon DEF EnvGood, BootIsSound
<1>2. st.pc = "idle" => st.entries = Env!Stored(st.flash)
  BY Zenon DEF EnvGood, BootIsSound
<1>3. Env!EntriesAreLoadable
  BY LoadableEntries, Zenon DEF EnvGood
<1>4. QED
  BY <1>1, <1>2, <1>3, Zenon DEF Env!EnvironmentSurvives

(* Whatever step power is lost at, or a save fails at, a boot finds the      *)
(* environment of the last command that succeeded or the one being saved,   *)
(* memory between commands is what a boot would load, and every entry of it *)
(* can be loaded again (environment_io.c, environment_store.c,              *)
(* flash_backend.c), whatever the texts, the number of entries and the      *)
(* widths of integers and sequence numbers.                                 *)
THEOREM EnvironmentIsKept == ServicesSpec => []EnvironmentSurvives
<1>1. ServicesInit => EnvInv
  BY EnvInit, Zenon DEF ServicesInit, EnvInv
<1>2. EnvInv /\ [ServicesNext]_vars => EnvInv'
  <2>1. ASSUME EnvInv, ServicesNext PROVE EnvInv'
    <3>1. ASSUME part' = "environment" PROVE EnvGood(st)'
      <4>1. part = "environment" /\ EnvGood(st) /\ Env!Next
        BY <2>1, <3>1, Zenon DEF ServicesNext, EnvInv
      <4>2. QED
        BY <4>1, EnvNext
    <3>2. QED
      BY <3>1, Zenon DEF EnvInv
  <2>2. ASSUME EnvInv, UNCHANGED vars PROVE EnvInv'
    BY <2>2, Zenon DEF EnvInv, vars, EnvGood, BootIsSound, SaveIsSound
  <2>3. QED
    BY <2>1, <2>2, Zenon
<1>3. EnvInv => EnvironmentSurvives
  BY EnvIsRight, Zenon DEF EnvInv, EnvironmentSurvives
<1>4. QED
  BY <1>1, <1>2, <1>3, PTL DEF ServicesSpec

-----------------------------------------------------------------------------
(* WebReboot.                                                               *)

Statuses == {"idle", "ready", "requested", "flushing", "restarting", "timeout", "rejected",
             "storage error"}
Places == {"requested", "reject", "begin", "timeout", "storage", "deadline", "reset",
           "command", "run"}
RebootFields ==
  [status : Statuses, deadline : BOOLEAN, reported : Statuses \cup {"unknown"},
   ready : BOOLEAN, frames : Nat,
   at : Places, web : BOOLEAN, after : BOOLEAN, restart : BOOLEAN, stop : BOOLEAN,
   running : BOOLEAN, clean : BOOLEAN, commands : Nat, fatal : BOOLEAN,
   rebooted : BOOLEAN, usb : BOOLEAN, expired : BOOLEAN]

(* A clean stop holds the CPU for good and storage cannot fail any more; a   *)
(* restart is scheduled by such a stop only.                                *)
RestartIsClean ==
  /\ st.clean => ~st.running /\ ~st.fatal
  /\ st.restart => st.clean

(* The reboot under way has somebody who asked for it, and one that expired *)
(* when core 0 looked is dropped before core 0 may act on it.               *)
RestartIsWanted ==
  /\ st.after \/ st.restart => st.web \/ st.usb
  /\ (st.at \in {"storage", "deadline", "reset"} /\ st.expired /\ st.restart) => st.usb

(* What core 0 found before it looks at the word again still holds.         *)
RequestIsChecked ==
  /\ st.at = "reject" => ~st.web
  /\ st.at = "begin" => ~st.restart

RebootInv ==
  /\ st \in RebootFields
  /\ RestartIsClean /\ RestartIsWanted /\ RequestIsChecked
  /\ Web!RebootAgrees

LEMMA RebootInit == Web!Init => RebootInv
  BY DEF Web!Init, Web!Idle, RebootInv, RebootFields, Statuses, Places, RestartIsClean,
     RestartIsWanted,
         RequestIsChecked, Web!RebootAgrees

(* Types of the pieces the actions are made of.                             *)
LEMMA RebootTypes ==
  ASSUME NEW w \in RebootFields
  PROVE  /\ \A at \in Places : Web!Goto(w, at) \in RebootFields
         /\ \A s \in Statuses : Web!set_reboot_status(w, s) \in RebootFields
         /\ Web!begin_reboot(w) \in RebootFields
         /\ Web!Cancelled(w) \in RebootFields
         /\ Web!Held(w) \in RebootFields
         /\ \A b \in BOOLEAN : [w EXCEPT !.expired = b] \in RebootFields
         /\ w.frames + 1 \in Nat
<1> USE DEF RebootFields, Statuses, Places
<1>1. ASSUME NEW at \in Places PROVE Web!Goto(w, at) \in RebootFields
  BY DEF Web!Goto
<1>2. ASSUME NEW s \in Statuses PROVE Web!set_reboot_status(w, s) \in RebootFields
  <2>1. [w EXCEPT !.status = s] \in RebootFields
    OBVIOUS
  <2> HIDE DEF RebootFields, Statuses
  <2>2. QED
    BY <2>1 DEF Web!set_reboot_status
<1>3. Web!begin_reboot(w) \in RebootFields
  <2>1. [w EXCEPT !.status = "flushing", !.web = TRUE, !.after = TRUE, !.stop = TRUE]
          \in RebootFields
    OBVIOUS
  <2> HIDE DEF RebootFields, Statuses
  <2>2. QED
    BY <2>1 DEF Web!begin_reboot
<1>4. Web!Cancelled(w) \in RebootFields
  BY DEF Web!Cancelled
<1>5. Web!Held(w) \in RebootFields
  BY DEF Web!Held
<1>6. ASSUME NEW b \in BOOLEAN PROVE [w EXCEPT !.expired = b] \in RebootFields
  OBVIOUS
<1>7. w.frames + 1 \in Nat
  <2>1. w.frames \in Nat
    OBVIOUS
  <2> HIDE DEF RebootFields, Statuses, Places
  <2>2. QED
    BY <2>1
<1> HIDE DEF RebootFields, Statuses, Places
<1>8. QED
  BY <1>1, <1>2, <1>3, <1>4, <1>5, <1>6, <1>7

LEMMA RebootStep ==
  ASSUME RebootInv, Web!Next
  PROVE  RebootInv'
<1> USE DEF RebootInv, Web!At
<1>0. ASSUME NEW on \in BOOLEAN, Web!BrowserReady(on) PROVE RebootInv'
  <2> USE <1>0 DEF Web!BrowserReady
  <2>1. st' \in RebootFields
    BY ZenonT(60) DEF RebootFields, Statuses, Places
  <2>2. RestartIsClean'
    BY ZenonT(60) DEF RebootFields, Statuses, Places, RestartIsClean
  <2>3. RestartIsWanted'
    BY ZenonT(60) DEF RebootFields, Statuses, Places, RestartIsWanted, RestartIsClean
  <2>4. RequestIsChecked'
    BY ZenonT(60) DEF RebootFields, Statuses, Places, RequestIsChecked
  <2>5. Web!RebootAgrees'
    BY ZenonT(60) DEF RebootFields, Statuses, Places, RestartIsClean, RestartIsWanted,
       RequestIsChecked,
       Web!RebootAgrees
  <2>6. QED
    BY <2>1, <2>2, <2>3, <2>4, <2>5 DEF RebootInv
<1>1. CASE Web!RebootFrame
  <2> USE <1>1 DEF Web!RebootFrame, Web!Active
  <2>1. st' \in RebootFields
    <3>1. ASSUME NEW n \in Nat
          PROVE  /\ [st EXCEPT !.frames = n, !.reported = "unknown"] \in RebootFields
                 /\ [st EXCEPT !.frames = n, !.reported = "unknown", !.status = "requested",
                                !.deadline = TRUE] \in RebootFields
      BY DEF RebootFields, Statuses, Places
    <3>2. st.frames + 1 \in Nat
      BY RebootTypes
    <3>3. QED
      BY <3>1, <3>2
  <2>2. RestartIsClean'
    BY ZenonT(60) DEF RebootFields, Statuses, Places, RestartIsClean
  <2>3. RestartIsWanted'
    BY ZenonT(60) DEF RebootFields, Statuses, Places, RestartIsWanted, RestartIsClean
  <2>4. RequestIsChecked'
    BY ZenonT(60) DEF RebootFields, Statuses, Places, RequestIsChecked
  <2>5. Web!RebootAgrees'
    BY ZenonT(60) DEF RebootFields, Statuses, Places, RestartIsClean, RestartIsWanted,
       RequestIsChecked,
       Web!RebootAgrees
  <2>6. QED
    BY <2>1, <2>2, <2>3, <2>4, <2>5 DEF RebootInv
<1>2. CASE Web!check_reboot_deadline
  <2> USE <1>2 DEF Web!check_reboot_deadline, Web!Active
  <2>1. st' \in RebootFields
    <3>1. [st EXCEPT !.status = "timeout", !.deadline = FALSE] \in RebootFields
      BY DEF RebootFields, Statuses, Places
    <3>2. [st EXCEPT !.deadline = FALSE] \in RebootFields
      BY DEF RebootFields, Statuses, Places
    <3>3. QED
      BY <3>1, <3>2
  <2>2. RestartIsClean'
    BY ZenonT(60) DEF RebootFields, Statuses, Places, RestartIsClean
  <2>3. RestartIsWanted'
    BY ZenonT(60) DEF RebootFields, Statuses, Places, RestartIsWanted, RestartIsClean
  <2>4. RequestIsChecked'
    BY ZenonT(60) DEF RebootFields, Statuses, Places, RequestIsChecked
  <2>5. Web!RebootAgrees'
    BY ZenonT(60) DEF RebootFields, Statuses, Places, RestartIsClean, RestartIsWanted,
       RequestIsChecked,
       Web!RebootAgrees
  <2>6. QED
    BY <2>1, <2>2, <2>3, <2>4, <2>5 DEF RebootInv
<1>3. CASE Web!report_reboot_status
  <2> USE <1>3 DEF Web!report_reboot_status
  <2>1. st' \in RebootFields
    <3>1. ASSUME NEW s \in Statuses, NEW b \in BOOLEAN
          PROVE  [st EXCEPT !.reported = s, !.ready = b] \in RebootFields
      BY DEF RebootFields, Statuses, Places
    <3>2. st.status \in Statuses /\ (st.status # "restarting") \in BOOLEAN
      BY DEF RebootFields, Statuses, Places
    <3>3. QED
      BY <3>1, <3>2
  <2>2. RestartIsClean'
    BY ZenonT(60) DEF RebootFields, Statuses, Places, RestartIsClean
  <2>3. RestartIsWanted'
    BY ZenonT(60) DEF RebootFields, Statuses, Places, RestartIsWanted, RestartIsClean
  <2>4. RequestIsChecked'
    BY ZenonT(60) DEF RebootFields, Statuses, Places, RequestIsChecked
  <2>5. Web!RebootAgrees'
    BY ZenonT(60) DEF RebootFields, Statuses, Places, RestartIsClean, RestartIsWanted,
       RequestIsChecked,
       Web!RebootAgrees
  <2>6. QED
    BY <2>1, <2>2, <2>3, <2>4, <2>5 DEF RebootInv
<1>4. CASE Web!requested
  <2> USE <1>4 DEF Web!requested, Web!Goto
  <2>1. st' \in RebootFields
    BY ZenonT(60) DEF RebootFields, Statuses, Places
  <2>2. RestartIsClean'
    BY ZenonT(60) DEF RebootFields, Statuses, Places, RestartIsClean
  <2>3. RestartIsWanted'
    BY ZenonT(60) DEF RebootFields, Statuses, Places, RestartIsWanted, RestartIsClean
  <2>4. RequestIsChecked'
    BY ZenonT(60) DEF RebootFields, Statuses, Places, RequestIsChecked, Web!RebootAgrees
  <2>5. Web!RebootAgrees'
    BY ZenonT(60) DEF RebootFields, Statuses, Places, RestartIsClean, RestartIsWanted,
       RequestIsChecked,
       Web!RebootAgrees
  <2>6. QED
    BY <2>1, <2>2, <2>3, <2>4, <2>5 DEF RebootInv
<1>5. CASE Web!reject
  <2> USE <1>5 DEF Web!reject, Web!Goto, Web!set_reboot_status
  <2>1. st' \in RebootFields
    BY ZenonT(60) DEF RebootFields, Statuses, Places
  <2>2. RestartIsClean'
    BY ZenonT(60) DEF RebootFields, Statuses, Places, RestartIsClean
  <2>3. RestartIsWanted'
    BY ZenonT(60) DEF RebootFields, Statuses, Places, RestartIsWanted, RestartIsClean
  <2>4. RequestIsChecked'
    BY ZenonT(60) DEF RebootFields, Statuses, Places, RequestIsChecked
  <2>5. Web!RebootAgrees'
    BY ZenonT(60) DEF RebootFields, Statuses, Places, RestartIsClean, RestartIsWanted,
       RequestIsChecked,
       Web!RebootAgrees
  <2>6. QED
    BY <2>1, <2>2, <2>3, <2>4, <2>5 DEF RebootInv
<1>6. CASE Web!begin
  <2> USE <1>6 DEF Web!begin, Web!Goto, Web!begin_reboot
  <2>1. st' \in RebootFields
    BY ZenonT(60) DEF RebootFields, Statuses, Places
  <2>2. RestartIsClean'
    BY ZenonT(60) DEF RebootFields, Statuses, Places, RestartIsClean
  <2>3. RestartIsWanted'
    BY ZenonT(60) DEF RebootFields, Statuses, Places, RestartIsWanted, RestartIsClean
  <2>4. RequestIsChecked'
    BY ZenonT(60) DEF RebootFields, Statuses, Places, RequestIsChecked
  <2>5. Web!RebootAgrees'
    BY ZenonT(60) DEF RebootFields, Statuses, Places, RestartIsClean, RestartIsWanted,
       RequestIsChecked,
       Web!RebootAgrees
  <2>6. QED
    BY <2>1, <2>2, <2>3, <2>4, <2>5 DEF RebootInv
<1>7. CASE Web!timeout
  <2> USE <1>7 DEF Web!timeout, Web!Goto, Web!Cancelled
  <2>1. st' \in RebootFields
    <3>1. (st.status = "timeout") \in BOOLEAN
      OBVIOUS
    <3>2. "storage" \in Places
      BY DEF Places
    <3>3. (IF st.web /\ st.status = "timeout" THEN Web!Cancelled(st) ELSE st) \in RebootFields
      BY RebootTypes
    <3> HIDE DEF Web!Goto, Web!Cancelled
    <3>4. QED
      BY <3>1, <3>2, <3>3, RebootTypes
  <2>2. RestartIsClean'
    BY ZenonT(60) DEF RebootFields, Statuses, Places, RestartIsClean
  <2>3. RestartIsWanted'
    BY ZenonT(60) DEF RebootFields, Statuses, Places, RestartIsWanted, RestartIsClean
  <2>4. RequestIsChecked'
    BY ZenonT(60) DEF RebootFields, Statuses, Places, RequestIsChecked
  <2>5. Web!RebootAgrees'
    BY ZenonT(60) DEF RebootFields, Statuses, Places, RestartIsClean, RestartIsWanted,
       RequestIsChecked,
       Web!RebootAgrees
  <2>6. QED
    BY <2>1, <2>2, <2>3, <2>4, <2>5 DEF RebootInv
<1>8. CASE Web!storage
  <2> USE <1>8 DEF Web!storage, Web!Goto, Web!Cancelled, Web!set_reboot_status
  <2>1. st' \in RebootFields
    <3>1. "deadline" \in Places /\ "storage error" \in Statuses
      BY DEF Places, Statuses
    <3> HIDE DEF Web!Goto, Web!Cancelled, Web!set_reboot_status
    <3>2. QED
      BY <3>1, RebootTypes
  <2>2. RestartIsClean'
    BY ZenonT(60) DEF RebootFields, Statuses, Places, RestartIsClean
  <2>3. RestartIsWanted'
    BY ZenonT(60) DEF RebootFields, Statuses, Places, RestartIsWanted, RestartIsClean
  <2>4. RequestIsChecked'
    BY ZenonT(60) DEF RebootFields, Statuses, Places, RequestIsChecked
  <2>5. Web!RebootAgrees'
    BY ZenonT(60) DEF RebootFields, Statuses, Places, RestartIsClean, RestartIsWanted,
       RequestIsChecked,
       Web!RebootAgrees
  <2>6. QED
    BY <2>1, <2>2, <2>3, <2>4, <2>5 DEF RebootInv
<1>9. CASE Web!webDeadline
  <2> USE <1>9 DEF Web!webDeadline, Web!Goto, Web!Cancelled, Web!set_reboot_status
  <2>1. st' \in RebootFields
    <3>1. "reset" \in Places /\ "timeout" \in Statuses
      BY DEF Places, Statuses
    <3> HIDE DEF Web!Goto, Web!Cancelled, Web!set_reboot_status
    <3>2. QED
      BY <3>1, RebootTypes
  <2>2. RestartIsClean'
    BY ZenonT(60) DEF RebootFields, Statuses, Places, RestartIsClean
  <2>3. RestartIsWanted'
    BY ZenonT(60) DEF RebootFields, Statuses, Places, RestartIsWanted, RestartIsClean
  <2>4. RequestIsChecked'
    BY ZenonT(60) DEF RebootFields, Statuses, Places, RequestIsChecked
  <2>5. Web!RebootAgrees'
    BY ZenonT(60) DEF RebootFields, Statuses, Places, RestartIsClean, RestartIsWanted,
       RequestIsChecked,
       Web!RebootAgrees
  <2>6. QED
    BY <2>1, <2>2, <2>3, <2>4, <2>5 DEF RebootInv
<1>10. CASE Web!watchdog_reboot
  <2> USE <1>10 DEF Web!watchdog_reboot
  <2>1. st' \in RebootFields
    BY ZenonT(60) DEF RebootFields, Statuses, Places
  <2>2. RestartIsClean'
    BY ZenonT(60) DEF RebootFields, Statuses, Places, RestartIsClean
  <2>3. RestartIsWanted'
    BY ZenonT(60) DEF RebootFields, Statuses, Places, RestartIsWanted, RestartIsClean
  <2>4. RequestIsChecked'
    BY ZenonT(60) DEF RebootFields, Statuses, Places, RequestIsChecked
  <2>5. Web!RebootAgrees'
    BY ZenonT(60) DEF RebootFields, Statuses, Places, RestartIsClean, RestartIsWanted,
       RequestIsChecked,
       Web!RebootAgrees
  <2>6. QED
    BY <2>1, <2>2, <2>3, <2>4, <2>5 DEF RebootInv
<1>11. CASE Web!noReset
  <2> USE <1>11 DEF Web!noReset, Web!Goto
  <2>1. st' \in RebootFields
    BY ZenonT(60) DEF RebootFields, Statuses, Places
  <2>2. RestartIsClean'
    BY ZenonT(60) DEF RebootFields, Statuses, Places, RestartIsClean
  <2>3. RestartIsWanted'
    BY ZenonT(60) DEF RebootFields, Statuses, Places, RestartIsWanted, RestartIsClean
  <2>4. RequestIsChecked'
    BY ZenonT(60) DEF RebootFields, Statuses, Places, RequestIsChecked
  <2>5. Web!RebootAgrees'
    BY ZenonT(60) DEF RebootFields, Statuses, Places, RestartIsClean, RestartIsWanted,
       RequestIsChecked,
       Web!RebootAgrees
  <2>6. QED
    BY <2>1, <2>2, <2>3, <2>4, <2>5 DEF RebootInv
<1>12. CASE Web!command
  <2> USE <1>12 DEF Web!command, Web!Goto
  <2>1. st' \in RebootFields
    <3>1. "run" \in Places
      BY DEF Places
    <3>2. [st EXCEPT !.commands = 0] \in RebootFields
      BY DEF RebootFields
    <3>3. [st EXCEPT !.commands = 0, !.after = TRUE, !.stop = TRUE, !.usb = TRUE]
            \in RebootFields
      BY DEF RebootFields
    <3> HIDE DEF Web!Goto
    <3>4. QED
      BY <3>1, <3>2, <3>3, RebootTypes
  <2>2. RestartIsClean'
    BY ZenonT(60) DEF RebootFields, Statuses, Places, RestartIsClean
  <2>3. RestartIsWanted'
    BY ZenonT(60) DEF RebootFields, Statuses, Places, RestartIsWanted, RestartIsClean
  <2>4. RequestIsChecked'
    BY ZenonT(60) DEF RebootFields, Statuses, Places, RequestIsChecked
  <2>5. Web!RebootAgrees'
    BY ZenonT(60) DEF RebootFields, Statuses, Places, RestartIsClean, RestartIsWanted,
       RequestIsChecked,
       Web!RebootAgrees
  <2>6. QED
    BY <2>1, <2>2, <2>3, <2>4, <2>5 DEF RebootInv
<1>13. CASE Web!runFails
  <2> USE <1>13 DEF Web!runFails, Web!Goto, Web!Held, Web!set_reboot_status
  <2>1. st' \in RebootFields
    <3>1. "requested" \in Places /\ "storage error" \in Statuses
      BY DEF Places, Statuses
    <3>2. [st EXCEPT !.after = FALSE, !.usb = FALSE, !.web = FALSE] \in RebootFields
      BY DEF RebootFields
    <3> HIDE DEF Web!Goto, Web!Held, Web!set_reboot_status
    <3>3. QED
      BY <3>1, <3>2, RebootTypes
  <2>2. RestartIsClean'
    BY ZenonT(60) DEF RebootFields, Statuses, Places, RestartIsClean
  <2>3. RestartIsWanted'
    BY ZenonT(60) DEF RebootFields, Statuses, Places, RestartIsWanted, RestartIsClean
  <2>4. RequestIsChecked'
    BY ZenonT(60) DEF RebootFields, Statuses, Places, RequestIsChecked
  <2>5. Web!RebootAgrees'
    BY ZenonT(60) DEF RebootFields, Statuses, Places, RestartIsClean, RestartIsWanted,
       RequestIsChecked,
       Web!RebootAgrees
  <2>6. QED
    BY <2>1, <2>2, <2>3, <2>4, <2>5 DEF RebootInv
<1>14. CASE Web!runReady
  <2> USE <1>14 DEF Web!runReady, Web!Goto, Web!set_reboot_status, Web!Idle
  <2>1. st' \in RebootFields
    BY ZenonT(60) DEF RebootFields, Statuses, Places
  <2>2. RestartIsClean'
    BY ZenonT(60) DEF RebootFields, Statuses, Places, RestartIsClean
  <2>3. RestartIsWanted'
    BY ZenonT(60) DEF RebootFields, Statuses, Places, RestartIsWanted, RestartIsClean
  <2>4. RequestIsChecked'
    BY ZenonT(60) DEF RebootFields, Statuses, Places, RequestIsChecked
  <2>5. Web!RebootAgrees'
    BY ZenonT(60) DEF RebootFields, Statuses, Places, RestartIsClean, RestartIsWanted,
       RequestIsChecked,
       Web!RebootAgrees
  <2>6. QED
    BY <2>1, <2>2, <2>3, <2>4, <2>5 DEF RebootInv
<1>15. CASE Web!runOn
  <2> USE <1>15 DEF Web!runOn, Web!Goto, Web!Held
  <2>1. st' \in RebootFields
    <3>1. "requested" \in Places
      BY DEF Places
    <3> HIDE DEF Web!Goto, Web!Held
    <3>2. QED
      BY <3>1, RebootTypes
  <2>2. RestartIsClean'
    BY ZenonT(60) DEF RebootFields, Statuses, Places, RestartIsClean
  <2>3. RestartIsWanted'
    BY ZenonT(60) DEF RebootFields, Statuses, Places, RestartIsWanted, RestartIsClean
  <2>4. RequestIsChecked'
    BY ZenonT(60) DEF RebootFields, Statuses, Places, RequestIsChecked
  <2>5. Web!RebootAgrees'
    BY ZenonT(60) DEF RebootFields, Statuses, Places, RestartIsClean, RestartIsWanted,
       RequestIsChecked,
       Web!RebootAgrees
  <2>6. QED
    BY <2>1, <2>2, <2>3, <2>4, <2>5 DEF RebootInv
<1>16. CASE Web!runStopped
  <2> USE <1>16 DEF Web!runStopped, Web!Goto, Web!Held, Web!set_reboot_status
  <2>1. st' \in RebootFields
    <3>1. "requested" \in Places /\ "restarting" \in Statuses
      BY DEF Places, Statuses
    <3>2. Web!Held(st) \in RebootFields
      BY RebootTypes
    <3>3. \A w \in RebootFields : [w EXCEPT !.clean = TRUE] \in RebootFields
      BY DEF RebootFields
    <3>4. \A w \in RebootFields : [w EXCEPT !.after = FALSE, !.restart = TRUE] \in RebootFields
      BY DEF RebootFields
    <3> HIDE DEF Web!Goto, Web!Held, Web!set_reboot_status
    <3>5. QED
      BY <3>1, <3>2, <3>3, <3>4, RebootTypes
  <2>2. RestartIsClean'
    BY ZenonT(60) DEF RebootFields, Statuses, Places, RestartIsClean
  <2>3. RestartIsWanted'
    BY ZenonT(60) DEF RebootFields, Statuses, Places, RestartIsWanted, RestartIsClean
  <2>4. RequestIsChecked'
    BY ZenonT(60) DEF RebootFields, Statuses, Places, RequestIsChecked
  <2>5. Web!RebootAgrees'
    BY ZenonT(60) DEF RebootFields, Statuses, Places, RestartIsClean, RestartIsWanted,
       RequestIsChecked,
       Web!RebootAgrees
  <2>6. QED
    BY <2>1, <2>2, <2>3, <2>4, <2>5 DEF RebootInv
<1>17. CASE Web!USB_CONFIG_REBOOT
  <2> USE <1>17 DEF Web!USB_CONFIG_REBOOT
  <2>1. st' \in RebootFields
    BY ZenonT(60) DEF RebootFields, Statuses, Places
  <2>2. RestartIsClean'
    BY ZenonT(60) DEF RebootFields, Statuses, Places, RestartIsClean
  <2>3. RestartIsWanted'
    BY ZenonT(60) DEF RebootFields, Statuses, Places, RestartIsWanted, RestartIsClean
  <2>4. RequestIsChecked'
    BY ZenonT(60) DEF RebootFields, Statuses, Places, RequestIsChecked
  <2>5. Web!RebootAgrees'
    BY ZenonT(60) DEF RebootFields, Statuses, Places, RestartIsClean, RestartIsWanted,
       RequestIsChecked,
       Web!RebootAgrees
  <2>6. QED
    BY <2>1, <2>2, <2>3, <2>4, <2>5 DEF RebootInv
<1>18. CASE Web!OperatorStop
  <2> USE <1>18 DEF Web!OperatorStop
  <2>1. st' \in RebootFields
    BY ZenonT(60) DEF RebootFields, Statuses, Places
  <2>2. RestartIsClean'
    BY ZenonT(60) DEF RebootFields, Statuses, Places, RestartIsClean
  <2>3. RestartIsWanted'
    BY ZenonT(60) DEF RebootFields, Statuses, Places, RestartIsWanted, RestartIsClean
  <2>4. RequestIsChecked'
    BY ZenonT(60) DEF RebootFields, Statuses, Places, RequestIsChecked
  <2>5. Web!RebootAgrees'
    BY ZenonT(60) DEF RebootFields, Statuses, Places, RestartIsClean, RestartIsWanted,
       RequestIsChecked,
       Web!RebootAgrees
  <2>6. QED
    BY <2>1, <2>2, <2>3, <2>4, <2>5 DEF RebootInv
<1>19. CASE Web!StorageFails
  <2> USE <1>19 DEF Web!StorageFails
  <2>1. st' \in RebootFields
    BY ZenonT(60) DEF RebootFields, Statuses, Places
  <2>2. RestartIsClean'
    BY ZenonT(60) DEF RebootFields, Statuses, Places, RestartIsClean
  <2>3. RestartIsWanted'
    BY ZenonT(60) DEF RebootFields, Statuses, Places, RestartIsWanted, RestartIsClean
  <2>4. RequestIsChecked'
    BY ZenonT(60) DEF RebootFields, Statuses, Places, RequestIsChecked
  <2>5. Web!RebootAgrees'
    BY ZenonT(60) DEF RebootFields, Statuses, Places, RestartIsClean, RestartIsWanted,
       RequestIsChecked,
       Web!RebootAgrees
  <2>6. QED
    BY <2>1, <2>2, <2>3, <2>4, <2>5 DEF RebootInv
<1>20. QED
  BY <1>0, <1>1, <1>2, <1>3, <1>4, <1>5, <1>6, <1>7, <1>8, <1>9, <1>10, <1>11, <1>12, <1>13,
     <1>14, <1>15, <1>16, <1>17, <1>18, <1>19 DEF Web!Next, Web!Core0, Web!Core1

(* A reboot the browser asked for happens only after an orderly stop and    *)
(* never once it expired, and the status it is told is true                 *)
(* (web_terminal.cpp, main.c), however many frames it sends.                *)
THEOREM RebootIsTrue == ServicesSpec => []RebootAgrees
<1> DEFINE Inv == part = "reboot" => RebootInv
<1>1. ServicesInit => Inv
  BY RebootInit DEF ServicesInit
<1>2. Inv /\ [ServicesNext]_vars => Inv'
  <2> SUFFICES ASSUME Inv, [ServicesNext]_vars, part' = "reboot" PROVE RebootInv'
    OBVIOUS
  <2>1. CASE UNCHANGED vars
    BY <2>1 DEF vars, RebootInv, RestartIsClean, RestartIsWanted, RequestIsChecked,
       Web!RebootAgrees
  <2>2. CASE ServicesNext
    BY <2>2, RebootStep DEF ServicesNext
  <2>3. QED
    BY <2>1, <2>2
<1>3. Inv => RebootAgrees
  BY DEF RebootInv, RebootAgrees
<1>4. QED
  BY <1>1, <1>2, <1>3, PTL DEF ServicesSpec

-----------------------------------------------------------------------------
(* HostWeather.                                                             *)

WeatherDomain ==
  {"env", "settings", "status", "units", "err", "current", "forecast", "fetched", "at",
   "local", "ok", "early", "waits", "started", "initialized", "closing", "reply",
   "changes", "starts"}

(* No thread runs while the ports are closed, nor where none could be       *)
(* created.                                                                 *)
ClosedIsIdle == ~st.initialized \/ (~st.started /\ ~st.closing) => st.at = "none"

(* Past its first section a fetch works for the settings the fields are of, *)
(* and READY is taken back until it ends.                                   *)
FetchIsCurrent ==
  /\ st.at \in {"current", "failed", "forecast", "ready"} => st.status # "ready"
  /\ st.at \in {"current", "forecast", "ready"} =>
       st.settings = st.local /\ st.units = HostWeatherPort!Letter(st.local.units)
  /\ st.at \in {"forecast", "ready"} =>
       \/ st.current = HostWeatherPort!Blank
       \/ st.current = [location |-> st.local.location, units |-> st.local.units]

(* As WeatherIsOneFetch, with the ports open or not.                        *)
ReadyIsOneFetch ==
  /\ (st.status = "ready" /\ st.at # "unset") =>
       /\ st.current.location \in {st.settings.location, HostWeatherPort!Empty}
       /\ \/ st.current = HostWeatherPort!Blank
          \/ st.units = HostWeatherPort!Letter(st.current.units)
  /\ st.at = "wait" => st.started

WeatherInv ==
  /\ DOMAIN st = WeatherDomain
  /\ ClosedIsIdle /\ FetchIsCurrent /\ ReadyIsOneFetch

LEMMA WeatherInit == HostWeatherPort!Init => WeatherInv
  BY DEF HostWeatherPort!Init, WeatherInv, WeatherDomain, ClosedIsIdle, FetchIsCurrent,
         ReadyIsOneFetch

LEMMA WeatherStep ==
  ASSUME WeatherInv, HostWeatherPort!Next
  PROVE  WeatherInv'
<1> USE DEF WeatherInv
<1>1. CASE HostWeatherPort!weather_io_init
  <2> USE <1>1 DEF HostWeatherPort!weather_io_init, HostWeatherPort!Loaded,
          HostWeatherPort!Failed
  <2>1. DOMAIN st' = WeatherDomain
    BY ZenonT(60) DEF WeatherDomain
  <2>2. ClosedIsIdle'
    BY ZenonT(60) DEF WeatherDomain, ClosedIsIdle
  <2>3. FetchIsCurrent'
    BY ZenonT(60) DEF WeatherDomain, FetchIsCurrent, ClosedIsIdle
  <2>4. ReadyIsOneFetch'
    BY ZenonT(60) DEF WeatherDomain, ReadyIsOneFetch, FetchIsCurrent, ClosedIsIdle
  <2>5. QED
    BY <2>1, <2>2, <2>3, <2>4 DEF WeatherInv
<1>2. CASE HostWeatherPort!weather_io_close
  <2> USE <1>2 DEF HostWeatherPort!weather_io_close, HostWeatherPort!Joined
  <2>1. DOMAIN st' = WeatherDomain
    BY ZenonT(60) DEF WeatherDomain
  <2>2. ClosedIsIdle'
    BY ZenonT(60) DEF WeatherDomain, ClosedIsIdle
  <2>3. FetchIsCurrent'
    BY ZenonT(60) DEF WeatherDomain, FetchIsCurrent, ClosedIsIdle
  <2>4. ReadyIsOneFetch'
    <3>1. st'.status = st.status /\ st'.current = st.current /\ st'.settings = st.settings
          /\ st'.units = st.units /\ st'.at # "wait"
      BY ZenonT(60) DEF WeatherDomain
    <3>2. st.at = "unset" => st'.at = "unset"
      BY ZenonT(60) DEF WeatherDomain, ClosedIsIdle
    <3>3. QED
      BY <3>1, <3>2, Zenon DEF ReadyIsOneFetch
  <2>5. QED
    BY <2>1, <2>2, <2>3, <2>4 DEF WeatherInv
<1>3. CASE HostWeatherPort!join
  <2> USE <1>3 DEF HostWeatherPort!join, HostWeatherPort!Joined
  <2>1. DOMAIN st' = WeatherDomain
    BY ZenonT(60) DEF WeatherDomain
  <2>2. ClosedIsIdle'
    BY ZenonT(60) DEF WeatherDomain, ClosedIsIdle
  <2>3. FetchIsCurrent'
    BY ZenonT(60) DEF WeatherDomain, FetchIsCurrent, ClosedIsIdle
  <2>4. ReadyIsOneFetch'
    BY ZenonT(60) DEF WeatherDomain, ReadyIsOneFetch, FetchIsCurrent, ClosedIsIdle
  <2>5. QED
    BY <2>1, <2>2, <2>3, <2>4 DEF WeatherInv
<1>4. CASE HostWeatherPort!settled
  <2> USE <1>4 DEF HostWeatherPort!settled
  <2>1. DOMAIN st' = WeatherDomain
    BY ZenonT(60) DEF WeatherDomain
  <2>2. ClosedIsIdle'
    BY ZenonT(60) DEF WeatherDomain, ClosedIsIdle
  <2>3. FetchIsCurrent'
    BY ZenonT(60) DEF WeatherDomain, FetchIsCurrent, ClosedIsIdle
  <2>4. ReadyIsOneFetch'
    BY ZenonT(60) DEF WeatherDomain, ReadyIsOneFetch, FetchIsCurrent, ClosedIsIdle
  <2>5. QED
    BY <2>1, <2>2, <2>3, <2>4 DEF WeatherInv
<1>5. CASE HostWeatherPort!running
  <2> USE <1>5 DEF HostWeatherPort!running
  <2>1. DOMAIN st' = WeatherDomain
    BY ZenonT(60) DEF WeatherDomain
  <2>2. ClosedIsIdle'
    BY ZenonT(60) DEF WeatherDomain, ClosedIsIdle
  <2>3. FetchIsCurrent'
    BY ZenonT(60) DEF WeatherDomain, FetchIsCurrent, ClosedIsIdle
  <2>4. ReadyIsOneFetch'
    BY ZenonT(60) DEF WeatherDomain, ReadyIsOneFetch, FetchIsCurrent, ClosedIsIdle
  <2>5. QED
    BY <2>1, <2>2, <2>3, <2>4 DEF WeatherInv
<1>6. CASE HostWeatherPort!load
  <2> USE <1>6 DEF HostWeatherPort!load, HostWeatherPort!Loaded, HostWeatherPort!HaveConfig
  <2>1. DOMAIN st' = WeatherDomain
    BY ZenonT(60) DEF WeatherDomain
  <2>2. ClosedIsIdle'
    BY ZenonT(60) DEF WeatherDomain, ClosedIsIdle
  <2>3. FetchIsCurrent'
    BY ZenonT(60) DEF WeatherDomain, FetchIsCurrent, ClosedIsIdle
  <2>4. ReadyIsOneFetch'
    BY ZenonT(60) DEF WeatherDomain, ReadyIsOneFetch, FetchIsCurrent, ClosedIsIdle
  <2>5. QED
    BY <2>1, <2>2, <2>3, <2>4 DEF WeatherInv
<1>7. CASE HostWeatherPort!unset
  <2> USE <1>7 DEF HostWeatherPort!unset, HostWeatherPort!Failed
  <2>1. DOMAIN st' = WeatherDomain
    BY ZenonT(60) DEF WeatherDomain
  <2>2. ClosedIsIdle'
    BY ZenonT(60) DEF WeatherDomain, ClosedIsIdle
  <2>3. FetchIsCurrent'
    BY ZenonT(60) DEF WeatherDomain, FetchIsCurrent, ClosedIsIdle
  <2>4. ReadyIsOneFetch'
    BY ZenonT(60) DEF WeatherDomain, ReadyIsOneFetch, FetchIsCurrent, ClosedIsIdle
  <2>5. QED
    BY <2>1, <2>2, <2>3, <2>4 DEF WeatherInv
<1>8. CASE HostWeatherPort!current
  <2> USE <1>8 DEF HostWeatherPort!current, HostWeatherPort!Fields, HostWeatherPort!Failed
  <2>1. DOMAIN st' = WeatherDomain
    BY ZenonT(60) DEF WeatherDomain
  <2>2. ClosedIsIdle'
    BY ZenonT(60) DEF WeatherDomain, ClosedIsIdle
  <2>3. FetchIsCurrent'
    BY ZenonT(60) DEF WeatherDomain, FetchIsCurrent, ClosedIsIdle
  <2>4. ReadyIsOneFetch'
    BY ZenonT(60) DEF WeatherDomain, ReadyIsOneFetch, FetchIsCurrent, ClosedIsIdle
  <2>5. QED
    BY <2>1, <2>2, <2>3, <2>4 DEF WeatherInv
<1>9. CASE HostWeatherPort!failed
  <2> USE <1>9 DEF HostWeatherPort!failed
  <2>1. DOMAIN st' = WeatherDomain
    BY ZenonT(60) DEF WeatherDomain
  <2>2. ClosedIsIdle'
    BY ZenonT(60) DEF WeatherDomain, ClosedIsIdle
  <2>3. FetchIsCurrent'
    BY ZenonT(60) DEF WeatherDomain, FetchIsCurrent, ClosedIsIdle
  <2>4. ReadyIsOneFetch'
    BY ZenonT(60) DEF WeatherDomain, ReadyIsOneFetch, FetchIsCurrent, ClosedIsIdle
  <2>5. QED
    BY <2>1, <2>2, <2>3, <2>4 DEF WeatherInv
<1>10. CASE HostWeatherPort!forecast
  <2> USE <1>10 DEF HostWeatherPort!forecast, HostWeatherPort!Fields, HostWeatherPort!Failed
  <2>1. DOMAIN st' = WeatherDomain
    BY ZenonT(60) DEF WeatherDomain
  <2>2. ClosedIsIdle'
    BY ZenonT(60) DEF WeatherDomain, ClosedIsIdle
  <2>3. FetchIsCurrent'
    BY ZenonT(60) DEF WeatherDomain, FetchIsCurrent, ClosedIsIdle
  <2>4. ReadyIsOneFetch'
    BY ZenonT(60) DEF WeatherDomain, ReadyIsOneFetch, FetchIsCurrent, ClosedIsIdle
  <2>5. QED
    BY <2>1, <2>2, <2>3, <2>4 DEF WeatherInv
<1>11. CASE HostWeatherPort!ready
  <2> USE <1>11 DEF HostWeatherPort!ready
  <2>1. DOMAIN st' = WeatherDomain
    BY ZenonT(60) DEF WeatherDomain
  <2>2. ClosedIsIdle'
    BY ZenonT(60) DEF WeatherDomain, ClosedIsIdle
  <2>3. FetchIsCurrent'
    BY ZenonT(60) DEF WeatherDomain, FetchIsCurrent, ClosedIsIdle
  <2>4. ReadyIsOneFetch'
    <3>1. st'.current = st.current /\ st'.settings = st.settings /\ st'.units = st.units
          /\ st'.at = "rest"
      BY ZenonT(60) DEF WeatherDomain
    <3>2. CASE st.current = HostWeatherPort!Blank
      BY <3>1, <3>2 DEF ReadyIsOneFetch, HostWeatherPort!Blank
    <3>3. CASE st.current = [location |-> st.local.location, units |-> st.local.units]
      <4>1. st.settings = st.local /\ st.units = HostWeatherPort!Letter(st.local.units)
        BY Zenon DEF FetchIsCurrent
      <4>2. st.current.location = st.local.location /\ st.current.units = st.local.units
        BY <3>3
      <4> HIDE DEF HostWeatherPort!ready, WeatherInv
      <4>3. QED
        BY <3>1, <4>1, <4>2, Zenon DEF ReadyIsOneFetch
    <3>4. QED
      BY <3>2, <3>3, Zenon DEF FetchIsCurrent
  <2>5. QED
    BY <2>1, <2>2, <2>3, <2>4 DEF WeatherInv
<1>12. CASE HostWeatherPort!rest
  <2> USE <1>12 DEF HostWeatherPort!rest, HostWeatherPort!Rest
  <2>1. DOMAIN st' = WeatherDomain
    BY ZenonT(60) DEF WeatherDomain
  <2>2. ClosedIsIdle'
    BY ZenonT(60) DEF WeatherDomain, ClosedIsIdle
  <2>3. FetchIsCurrent'
    BY ZenonT(60) DEF WeatherDomain, FetchIsCurrent, ClosedIsIdle
  <2>4. ReadyIsOneFetch'
    BY ZenonT(60) DEF WeatherDomain, ReadyIsOneFetch, FetchIsCurrent, ClosedIsIdle
  <2>5. QED
    BY <2>1, <2>2, <2>3, <2>4 DEF WeatherInv
<1>13. CASE HostWeatherPort!waited
  <2> USE <1>13 DEF HostWeatherPort!waited
  <2>1. DOMAIN st' = WeatherDomain
    BY ZenonT(60) DEF WeatherDomain
  <2>2. ClosedIsIdle'
    BY ZenonT(60) DEF WeatherDomain, ClosedIsIdle
  <2>3. FetchIsCurrent'
    BY ZenonT(60) DEF WeatherDomain, FetchIsCurrent, ClosedIsIdle
  <2>4. ReadyIsOneFetch'
    BY ZenonT(60) DEF WeatherDomain, ReadyIsOneFetch, FetchIsCurrent, ClosedIsIdle
  <2>5. QED
    BY <2>1, <2>2, <2>3, <2>4 DEF WeatherInv
<1>14. CASE HostWeatherPort!windowEnds
  <2> USE <1>14 DEF HostWeatherPort!windowEnds
  <2>1. DOMAIN st' = WeatherDomain
    BY ZenonT(60) DEF WeatherDomain
  <2>2. ClosedIsIdle'
    BY ZenonT(60) DEF WeatherDomain, ClosedIsIdle
  <2>3. FetchIsCurrent'
    BY ZenonT(60) DEF WeatherDomain, FetchIsCurrent, ClosedIsIdle
  <2>4. ReadyIsOneFetch'
    BY ZenonT(60) DEF WeatherDomain, ReadyIsOneFetch, FetchIsCurrent, ClosedIsIdle
  <2>5. QED
    BY <2>1, <2>2, <2>3, <2>4 DEF WeatherInv
<1>15. ASSUME NEW f \in DOMAIN HostWeatherPort!weather_field,
             HostWeatherPort!weather_output(f) PROVE WeatherInv'
  <2> USE <1>15 DEF HostWeatherPort!weather_output
  <2>1. DOMAIN st' = WeatherDomain
    BY ZenonT(60) DEF WeatherDomain
  <2>2. ClosedIsIdle'
    BY ZenonT(60) DEF WeatherDomain, ClosedIsIdle
  <2>3. FetchIsCurrent'
    BY ZenonT(60) DEF WeatherDomain, FetchIsCurrent, ClosedIsIdle
  <2>4. ReadyIsOneFetch'
    BY ZenonT(60) DEF WeatherDomain, ReadyIsOneFetch, FetchIsCurrent, ClosedIsIdle
  <2>5. QED
    BY <2>1, <2>2, <2>3, <2>4 DEF WeatherInv
<1>16. ASSUME NEW s \in HostSettings, HostWeatherPort!environment_io_set(s)
       PROVE WeatherInv'
  <2> USE <1>16 DEF HostWeatherPort!environment_io_set
  <2>1. DOMAIN st' = WeatherDomain
    BY ZenonT(60) DEF WeatherDomain
  <2>2. ClosedIsIdle'
    BY ZenonT(60) DEF WeatherDomain, ClosedIsIdle
  <2>3. FetchIsCurrent'
    BY ZenonT(60) DEF WeatherDomain, FetchIsCurrent, ClosedIsIdle
  <2>4. ReadyIsOneFetch'
    BY ZenonT(60) DEF WeatherDomain, ReadyIsOneFetch, FetchIsCurrent, ClosedIsIdle
  <2>5. QED
    BY <2>1, <2>2, <2>3, <2>4 DEF WeatherInv
<1>17. QED
  BY <1>1, <1>2, <1>3, <1>4, <1>5, <1>6, <1>7, <1>8, <1>9, <1>10, <1>11, <1>12, <1>13, <1>14,
     <1>15, <1>16 DEF HostWeatherPort!Next, HostWeatherPort!Thread

(* The weather the debug host reports as READY is of one fetch, and a close *)
(* never finds the thread asleep (weather_io.c), whatever the settings are  *)
(* and however often they change.                                           *)
THEOREM ReadyWeatherIsOneFetch == ServicesSpec => []WeatherIsOneFetch
<1> DEFINE Inv == part = "host weather" => WeatherInv
<1>1. ServicesInit => Inv
  BY WeatherInit DEF ServicesInit
<1>2. Inv /\ [ServicesNext]_vars => Inv'
  <2> SUFFICES ASSUME Inv, [ServicesNext]_vars, part' = "host weather" PROVE WeatherInv'
    OBVIOUS
  <2>1. CASE UNCHANGED vars
    BY <2>1 DEF vars, WeatherInv, ClosedIsIdle, FetchIsCurrent, ReadyIsOneFetch
  <2>2. CASE ServicesNext
    BY <2>2, WeatherStep DEF ServicesNext
  <2>3. QED
    BY <2>1, <2>2
<1>3. Inv => WeatherIsOneFetch
  BY DEF WeatherInv, ReadyIsOneFetch, WeatherIsOneFetch, HostWeatherPort!WeatherIsOneFetch,
         HostWeatherPort!weather_input
<1>4. QED
  BY <1>1, <1>2, <1>3, PTL DEF ServicesSpec

-----------------------------------------------------------------------------
(* NetworkSetup.  The invariant is stated of a state s, so that it can be   *)
(* followed through the calls an action makes.                              *)

SetupDomain ==
  {"step", "menu", "fields", "editing", "pos", "values", "loaded", "changed", "reboot",
   "auto", "state", "request", "result", "config", "wifi", "env", "boot", "connected",
   "running", "saves", "torn", "writes", "stored", "foreign", "since"}

FieldLists ==
  {<<"SSID", "PASSWORD">>, <<"SERVER">>, <<"PROVIDER", "ENDPOINT">>,
   <<"PROVIDER", "ENDPOINT", "API_KEY">>}

(* What differs from what the board started with was altered by a save, of  *)
(* which the shell keeps the fact, or written by a program.                 *)
ChangeIsKnown(s) ==
  /\ s.env = [f \in Setup!Fields |-> s.env[f]]
  /\ s.boot = [f \in Setup!Fields |-> s.boot[f]]
  /\ s.changed <=> s.stored # {}
  /\ \A f \in Setup!Fields \ s.foreign : s.env[f] # s.boot[f] => f \in s.stored

EndpointStored(s) ==
  (~s.torn /\ s.foreign \cap {"PROVIDER", "ENDPOINT"} = {}
     /\ s.env["PROVIDER"] = "compatible") => s.env["ENDPOINT"] # ""

(* Stored settings are complete, and so are those about to be stored.       *)
StoreIsComplete(s) ==
  /\ s.step = "editing" => s.fields \in FieldLists
  /\ s.request = "save" =>
       s.fields \in FieldLists /\ (s.fields[1] = "PROVIDER" => Setup!Complete(s))
  /\ EndpointStored(s)

ShowsStore(s) == \A f \in Setup!Fields \ s.since : s.values[f] = s.env[f]

(* The shell waits for core 1 while a request or its result is under way,   *)
(* and takes over what is stored with the result.                           *)
ShellIsInStep(s) ==
  /\ s.request # "none" => s.step \in {"saving", "loading"} /\ s.result = "none"
  /\ s.result # "none" => s.step \in {"saving", "loading"}
  /\ s.result = "ok" => ShowsStore(s)
  /\ (s.loaded /\ s.step \in {"menu", "editing"}) => ShowsStore(s)
  /\ s.step = "reboot" => s.stored # {}

AddressIsOnline(s) ==
  /\ DOMAIN s.wifi = {"state", "ssid", "password", "address"}
  /\ s.wifi.address => s.wifi.state = "online"

SetupGood(s) ==
  /\ DOMAIN s = SetupDomain
  /\ ChangeIsKnown(s) /\ StoreIsComplete(s) /\ ShellIsInStep(s) /\ AddressIsOnline(s)

SetupInv == SetupGood(st)

(* What most steps of the shell leave alone. *)
StoreKept(v, s) ==
  /\ DOMAIN v = SetupDomain
  /\ v.env = s.env /\ v.boot = s.boot /\ v.changed = s.changed /\ v.torn = s.torn
  /\ v.stored = s.stored /\ v.foreign = s.foreign /\ v.since = s.since
  /\ v.wifi = s.wifi

LEMMA KeptIsGood ==
  ASSUME NEW s, NEW v, SetupGood(s), StoreKept(v, s), ShellIsInStep(v),
         v.step = "editing" => v.fields \in FieldLists,
         v.request = "save" =>
           v.fields \in FieldLists /\ (v.fields[1] = "PROVIDER" => Setup!Complete(v))
  PROVE  SetupGood(v)
<1>1. ChangeIsKnown(v)
  BY Zenon DEF SetupGood, StoreKept, ChangeIsKnown
<1>2. AddressIsOnline(v)
  BY Zenon DEF SetupGood, StoreKept, AddressIsOnline
<1>3. StoreIsComplete(v)
  BY Zenon DEF SetupGood, StoreKept, StoreIsComplete, EndpointStored
<1>4. QED
  BY <1>1, <1>2, <1>3, Zenon DEF SetupGood, StoreKept

LEMMA KeptIsInStep ==
  ASSUME NEW s, NEW v, SetupGood(s), StoreKept(v, s), v.step = s.step,
         v.request = s.request, v.result = s.result, v.values = s.values,
         v.loaded = s.loaded
  PROVE  ShellIsInStep(v)
BY ZenonT(60) DEF SetupGood, StoreKept, ShellIsInStep, ShowsStore

LEMMA SetupInit == Setup!Init => SetupInv
<1> SUFFICES ASSUME Setup!Init PROVE SetupInv
  OBVIOUS
<1>1. PICK env \in SetupEnvs : Setup!Init!(env)
  BY Zenon DEF Setup!Init
<1>2. /\ DOMAIN st = SetupDomain
      /\ st.env = env /\ st.boot = env /\ st.step = "idle" /\ st.request = "none"
      /\ st.changed = FALSE /\ st.stored = {}
      /\ st.result = "none" /\ st.wifi = Setup!Offline
  BY <1>1, ZenonT(60) DEF SetupDomain
<1>3. ChangeIsKnown(st)
  BY <1>2, SetupAssumption, ZenonT(60) DEF ChangeIsKnown
<1>4. StoreIsComplete(st)
  BY <1>2, SetupAssumption, ZenonT(60) DEF StoreIsComplete, EndpointStored
<1>5. ShellIsInStep(st)
  BY <1>2, ZenonT(60) DEF ShellIsInStep
<1>6. AddressIsOnline(st)
  <2>1. DOMAIN Setup!Offline = {"state", "ssid", "password", "address"}
    BY DEF Setup!Offline
  <2>2. ~Setup!Offline.address
    BY DEF Setup!Offline
  <2>3. QED
    BY <1>2, <2>1, <2>2, Zenon DEF AddressIsOnline
<1>7. QED
  BY <1>2, <1>3, <1>4, <1>5, <1>6, Zenon DEF SetupInv, SetupGood

(* A step of the menu or of an edit that leaves the rest alone.             *)
LEMMA MenuIsInStep ==
  ASSUME NEW s, NEW v, SetupGood(s), StoreKept(v, s), s.step \in {"menu", "editing"},
         v.step \in {"menu", "editing"}, v.request = s.request, v.result = s.result,
         v.values = s.values, v.loaded = s.loaded
  PROVE  ShellIsInStep(v)
<1>1. v.request = "none" /\ v.result = "none"
  BY Zenon DEF SetupGood, ShellIsInStep
<1>2. v.loaded => ShowsStore(v)
  BY Zenon DEF SetupGood, StoreKept, ShellIsInStep, ShowsStore
<1>3. QED
  BY <1>1, <1>2, Zenon DEF ShellIsInStep

LEMMA RequestIsGood ==
  ASSUME NEW s, SetupGood(s), s.step \notin {"saving", "loading"}
  PROVE  SetupGood(Setup!setup_request(s))
<1> DEFINE v == Setup!setup_request(s)
<1> USE DEF SetupGood, Setup!setup_request, Setup!clear_edit, Setup!submit, SetupDomain
<1>1. StoreKept(v, s)
  BY ZenonT(60) DEF StoreKept
<1>2. v.step = "loading" /\ v.request = "load" /\ v.result = s.result /\ v.loaded = FALSE
  BY ZenonT(60)
<1> HIDE DEF v, Setup!setup_request
<1>3. ShellIsInStep(v)
  BY <1>2, ZenonT(60) DEF ShellIsInStep
<1> HIDE DEF SetupGood
<1>4. QED
  BY <1>1, <1>2, <1>3, KeptIsGood, ZenonT(60) DEF v

LEMMA CollectedIsGood ==
  ASSUME NEW s, SetupGood(s)
  PROVE  SetupGood(Setup!Collected(s)) /\ Setup!Collected(s).result = "none"
<1>1. CASE s.result = "none"
  BY <1>1, Zenon DEF Setup!Collected
<1>2. CASE s.result # "none"
  <2> DEFINE v == Setup!Collected(s)
  <2> USE <1>2 DEF SetupGood, Setup!Collected, Setup!clear_edit, SetupDomain
  <2>1. StoreKept(v, s)
    BY ZenonT(60) DEF StoreKept
  <2>2. /\ v.step = "menu" /\ v.request = s.request /\ v.result = "none"
        /\ v.loaded = (s.result = "ok") /\ v.values = s.values /\ v.env = s.env
        /\ v.since = s.since
    BY ZenonT(60)
  <2> HIDE DEF v, Setup!Collected
  <2>3. v.request = "none"
    BY <2>2, Zenon DEF ShellIsInStep
  <2>4. ShellIsInStep(v)
    <3>1. v.loaded => ShowsStore(v)
      <4>1. v.loaded => ShowsStore(s)
        BY <2>2, Zenon DEF ShellIsInStep
      <4> HIDE DEF SetupGood, SetupDomain
      <4>2. ShowsStore(s) => ShowsStore(v)
        BY <2>2, Zenon DEF ShowsStore
      <4>3. QED
        BY <4>1, <4>2
    <3>2. QED
      BY <2>2, <2>3, <3>1, Zenon DEF ShellIsInStep
  <2> HIDE DEF SetupGood
  <2>5. SetupGood(v)
    BY <2>1, <2>2, <2>3, <2>4, KeptIsGood, ZenonT(60)
  <2>6. QED
    BY <2>2, <2>5, Zenon DEF v
<1>3. QED
  BY <1>1, <1>2

LEMMA DroppedIsGood ==
  ASSUME NEW s, SetupGood(s)
  PROVE  SetupGood(Setup!Dropped(s))
<1>1. CASE s.step \in {"saving", "loading"}
  BY <1>1, Zenon DEF Setup!Dropped
<1>2. CASE s.step \notin {"saving", "loading"}
  <2> DEFINE v == Setup!Dropped(s)
  <2> USE <1>2 DEF SetupGood, Setup!Dropped, Setup!clear_edit, Setup!forget, SetupDomain
  <2>1. StoreKept(v, s)
    BY ZenonT(60) DEF StoreKept
  <2>2. v.step = "idle" /\ v.request = s.request /\ v.result = s.result
    BY ZenonT(60)
  <2> HIDE DEF v, Setup!Dropped
  <2>3. v.request = "none" /\ v.result = "none"
    BY <2>2, Zenon DEF ShellIsInStep
  <2>4. ShellIsInStep(v)
    BY <2>2, <2>3, ZenonT(60) DEF ShellIsInStep
  <2> HIDE DEF SetupGood
  <2>5. QED
    BY <2>1, <2>2, <2>3, <2>4, KeptIsGood, ZenonT(60) DEF v
<1>3. QED
  BY <1>1, <1>2

LEMMA AutoIsGood ==
  ASSUME NEW s, SetupGood(s), NEW b
  PROVE  SetupGood([s EXCEPT !.auto = b])
<1> DEFINE v == [s EXCEPT !.auto = b]
<1> USE DEF SetupGood, SetupDomain
<1>1. StoreKept(v, s)
  BY ZenonT(60) DEF StoreKept
<1>2. /\ v.step = s.step /\ v.request = s.request /\ v.result = s.result
      /\ v.loaded = s.loaded /\ v.values = s.values /\ v.env = s.env
      /\ v.fields = s.fields /\ v.editing = s.editing
  BY ZenonT(60)
<1> HIDE DEF v
<1> HIDE DEF SetupGood
<1>3. ShellIsInStep(v)
  BY <1>1, <1>2, KeptIsInStep, Zenon
<1> USE DEF SetupGood
<1>4. /\ v.step = "editing" => v.fields \in FieldLists
      /\ v.request = "save" =>
           v.fields \in FieldLists /\ (v.fields[1] = "PROVIDER" => Setup!Complete(v))
  BY <1>2, ZenonT(60) DEF StoreIsComplete, Setup!Complete
<1> HIDE DEF SetupGood
<1>5. QED
  BY <1>1, <1>3, <1>4, KeptIsGood, ZenonT(60) DEF v

LEMMA UsbServiceIsGood ==
  ASSUME SetupInv, Setup!usb_service
  PROVE  SetupInv'
<1> DEFINE s == Setup!Collected(st)
<1>1. SetupGood(s) /\ s.result = "none"
  BY CollectedIsGood, Zenon DEF SetupInv
<1>2. /\ SetupGood(Setup!Dropped(s))
      /\ \A b : SetupGood([s EXCEPT !.auto = b])
      /\ \A b : SetupGood([Setup!Dropped(s) EXCEPT !.auto = b])
      /\ s.step \notin {"saving", "loading"} => SetupGood(Setup!setup_request(s))
  BY <1>1, DroppedIsGood, AutoIsGood, RequestIsGood, Zenon
<1>3. CASE s.step = "reboot"
  BY <1>1, <1>3, Zenon DEF Setup!usb_service, SetupInv
<1>4. CASE s.step # "reboot" /\ ~(s.connected /\ s.running)
  <2>1. st' = [Setup!Dropped(s) EXCEPT !.auto = @ /\ s.connected]
    BY <1>4, Zenon DEF Setup!usb_service
  <2>2. QED
    BY <2>1, <1>2, Zenon DEF SetupInv
<1>5. CASE s.step # "reboot" /\ s.connected /\ s.running
  <2>1. st' = IF s.auto \/ s.step # "idle" \/ s.state = "unknown" THEN s
              ELSE IF s.state = "missing" THEN Setup!setup_request(s)
              ELSE [s EXCEPT !.auto = TRUE]
    BY <1>5, Zenon DEF Setup!usb_service
  <2>2. QED
    BY <2>1, <1>1, <1>2, Zenon DEF SetupInv
<1>6. QED
  BY <1>3, <1>4, <1>5

(* The steps of the shell that store nothing.                               *)
LEMMA ShellIsGood ==
  ASSUME SetupInv,
         \/ Setup!z80_network_setup_request \/ Setup!menu_command \/ Setup!escape
         \/ \E l \in SetupValues : Setup!enter(l)
  PROVE  SetupInv'
<1> USE DEF SetupInv
<1>0. st.step \notin {"saving", "loading"} => st.request = "none" /\ st.result = "none"
  BY Zenon DEF SetupGood, ShellIsInStep
<1>1. CASE Setup!z80_network_setup_request
  BY <1>1, RequestIsGood, Zenon DEF Setup!z80_network_setup_request
<1>2. CASE Setup!quitMain
  <2> USE <1>2 DEF SetupGood, SetupDomain, Setup!quitMain, Setup!Typing, Setup!forget,
          Setup!clear_edit
  <2>1. StoreKept(st', st)
    BY ZenonT(60) DEF StoreKept
  <2>2. st'.step \in {"reboot", "idle"} /\ st'.request = st.request /\ st'.result = st.result
    BY ZenonT(60)
  <2>2a. st'.step = "reboot" => st'.stored # {}
    <3>1. st'.step = "reboot" => st.changed
      BY ZenonT(60)
    <3>2. st'.stored = st.stored
      BY <2>1, Zenon DEF StoreKept
    <3>3. st.changed => st.stored # {}
      BY Zenon DEF ChangeIsKnown
    <3>4. QED
      BY <3>1, <3>2, <3>3
  <2>3. st.step \notin {"saving", "loading"}
    BY <1>0, ZenonT(60)
  <2>4. ShellIsInStep(st')
    BY <1>0, <2>2, <2>2a, ZenonT(60) DEF ShellIsInStep
  <2>5. /\ st'.step = "editing" => st'.fields \in FieldLists
        /\ st'.request = "save" => st'.fields \in FieldLists /\ st'.fields[1] # "PROVIDER"
    BY <1>0, <2>2, <2>3 DEF FieldLists
  <2> HIDE DEF SetupGood
  <2>6. QED
    BY <2>1, <2>4, <2>5, KeptIsGood, ZenonT(60)
<1>3. CASE Setup!quitMenu
  <2> USE <1>3 DEF SetupGood, SetupDomain, Setup!quitMenu, Setup!Typing
  <2>1. StoreKept(st', st)
    BY ZenonT(60) DEF StoreKept
  <2>2. st'.step = "menu" /\ st'.request = st.request /\ st'.result = st.result
        /\ st'.values = st.values /\ st'.loaded = st.loaded /\ st'.env = st.env
        /\ st'.since = st.since
    BY ZenonT(60)
  <2>3. st.step \notin {"saving", "loading"}
    BY <1>0, ZenonT(60)
  <2>4. ShellIsInStep(st')
    <3>1. st.step \in {"menu", "editing"}
      BY Zenon
    <3> HIDE DEF SetupGood
    <3>2. QED
      BY <2>1, <2>2, <3>1, MenuIsInStep, Zenon
  <2>5. /\ st'.step = "editing" => st'.fields \in FieldLists
        /\ st'.request = "save" => st'.fields \in FieldLists /\ st'.fields[1] # "PROVIDER"
    BY <1>0, <2>2, <2>3 DEF FieldLists
  <2> HIDE DEF SetupGood
  <2>6. QED
    BY <2>1, <2>4, <2>5, KeptIsGood, ZenonT(60)
<1>4. CASE Setup!openMenu
  <2> USE <1>4 DEF SetupGood, SetupDomain, Setup!openMenu, Setup!Typing
  <2>1. StoreKept(st', st)
    BY ZenonT(60) DEF StoreKept
  <2>2. st'.step = "menu" /\ st'.request = st.request /\ st'.result = st.result
        /\ st'.values = st.values /\ st'.loaded = st.loaded /\ st'.env = st.env
        /\ st'.since = st.since
    BY ZenonT(60)
  <2>3. st.step \notin {"saving", "loading"}
    BY <1>0, ZenonT(60)
  <2>4. ShellIsInStep(st')
    <3>1. st.step \in {"menu", "editing"}
      BY Zenon
    <3> HIDE DEF SetupGood
    <3>2. QED
      BY <2>1, <2>2, <3>1, MenuIsInStep, Zenon
  <2>5. /\ st'.step = "editing" => st'.fields \in FieldLists
        /\ st'.request = "save" => st'.fields \in FieldLists /\ st'.fields[1] # "PROVIDER"
    BY <1>0, <2>2, <2>3 DEF FieldLists
  <2> HIDE DEF SetupGood
  <2>6. QED
    BY <2>1, <2>4, <2>5, KeptIsGood, ZenonT(60)
<1>5. CASE Setup!configure
  <2> USE <1>5 DEF SetupGood, SetupDomain, Setup!configure, Setup!Typing, Setup!begin_edit,
          Setup!FieldsOf
  <2>1. StoreKept(st', st)
    BY ZenonT(60) DEF StoreKept
  <2>2. st'.step = "editing" /\ st'.request = st.request /\ st'.result = st.result
        /\ st'.values = st.values /\ st'.loaded = st.loaded /\ st'.env = st.env
        /\ st'.since = st.since
        /\ st'.fields \in {<<"SSID", "PASSWORD">>, <<"SERVER">>}
    BY ZenonT(60)
  <2>3. st.step \notin {"saving", "loading"}
    BY <1>0, ZenonT(60)
  <2>4. ShellIsInStep(st')
    <3>1. st.step \in {"menu", "editing"}
      BY Zenon
    <3> HIDE DEF SetupGood
    <3>2. QED
      BY <2>1, <2>2, <3>1, MenuIsInStep, Zenon
  <2>5. /\ st'.step = "editing" => st'.fields \in FieldLists
        /\ st'.request = "save" => st'.fields \in FieldLists /\ st'.fields[1] # "PROVIDER"
    BY <1>0, <2>2, <2>3 DEF FieldLists
  <2> HIDE DEF SetupGood
  <2>6. QED
    BY <2>1, <2>4, <2>5, KeptIsGood, ZenonT(60)
<1>6. CASE Setup!unset
  <2> USE <1>6 DEF SetupGood, SetupDomain, Setup!unset, Setup!Typing, Setup!begin_edit,
          Setup!FieldsOf, Setup!save_edits, Setup!submit
  <2>1. StoreKept(st', st)
    BY ZenonT(60) DEF StoreKept
  <2>2. st'.step = "saving" /\ st'.request = "save" /\ st'.result = st.result
        /\ st'.fields \in {<<"SSID", "PASSWORD">>, <<"SERVER">>}
    BY ZenonT(60)
  <2>3. st.step \notin {"saving", "loading"}
    BY <1>0, ZenonT(60)
  <2>4. ShellIsInStep(st')
    BY <1>0, <2>2, ZenonT(60) DEF ShellIsInStep
  <2>5. /\ st'.step = "editing" => st'.fields \in FieldLists
        /\ st'.request = "save" => st'.fields \in FieldLists /\ st'.fields[1] # "PROVIDER"
    BY <1>0, <2>2, <2>3 DEF FieldLists
  <2> HIDE DEF SetupGood
  <2>6. QED
    BY <2>1, <2>4, <2>5, KeptIsGood, ZenonT(60)
<1>7. CASE Setup!configureChat
  <2> USE <1>7 DEF SetupGood, SetupDomain, Setup!configureChat, Setup!Typing, Setup!begin_edit
  <2>1. StoreKept(st', st)
    BY ZenonT(60) DEF StoreKept
  <2>2. st'.step = "editing" /\ st'.request = st.request /\ st'.result = st.result
        /\ st'.values = st.values /\ st'.loaded = st.loaded /\ st'.env = st.env
        /\ st'.since = st.since
        /\ st'.fields \in {<<"PROVIDER", "ENDPOINT">>, <<"PROVIDER", "ENDPOINT", "API_KEY">>}
    BY ZenonT(60)
  <2>3. st.step \notin {"saving", "loading"}
    BY <1>0, ZenonT(60)
  <2>4. ShellIsInStep(st')
    <3>1. st.step \in {"menu", "editing"}
      BY Zenon
    <3> HIDE DEF SetupGood
    <3>2. QED
      BY <2>1, <2>2, <3>1, MenuIsInStep, Zenon
  <2>5. /\ st'.step = "editing" => st'.fields \in FieldLists
        /\ st'.request = "save" => st'.fields \in FieldLists /\ st'.fields[1] # "PROVIDER"
    BY <1>0, <2>2, <2>3 DEF FieldLists
  <2> HIDE DEF SetupGood
  <2>6. QED
    BY <2>1, <2>4, <2>5, KeptIsGood, ZenonT(60)
<1>8. CASE Setup!escape
  <2> USE <1>8 DEF SetupGood, SetupDomain, Setup!escape, Setup!clear_edit
  <2>1. StoreKept(st', st)
    BY ZenonT(60) DEF StoreKept
  <2>2. st'.step = "menu" /\ st'.request = st.request /\ st'.result = st.result
        /\ st'.values = st.values /\ st'.loaded = st.loaded /\ st'.env = st.env
        /\ st'.since = st.since
    BY ZenonT(60)
  <2>3. st.step \notin {"saving", "loading"}
    BY <1>0, ZenonT(60)
  <2>4. ShellIsInStep(st')
    <3>1. st.step \in {"menu", "editing"}
      BY Zenon
    <3> HIDE DEF SetupGood
    <3>2. QED
      BY <2>1, <2>2, <3>1, MenuIsInStep, Zenon
  <2>5. /\ st'.step = "editing" => st'.fields \in FieldLists
        /\ st'.request = "save" => st'.fields \in FieldLists /\ st'.fields[1] # "PROVIDER"
    BY <1>0, <2>2, <2>3 DEF FieldLists
  <2> HIDE DEF SetupGood
  <2>6. QED
    BY <2>1, <2>4, <2>5, KeptIsGood, ZenonT(60)
<1>9. ASSUME NEW l \in SetupValues, Setup!enter(l) PROVE SetupInv'
  <2> DEFINE field == st.fields[st.pos]
             value == CASE l = "" -> st.editing[field] [] l = "-" -> "" [] OTHER -> l
             s == [st EXCEPT !.editing[field] = value, !.pos = @ + 1]
  <2>1. /\ st.step = "editing"
        /\ st' \in {st, s, [s EXCEPT !.pos = 2]} \/ (Setup!Complete(s) /\ st' = Setup!save_edits(s))
    BY <1>9, Zenon DEF Setup!enter
  <2>2. st.request = "none" /\ st.result = "none"
    BY <1>0, <2>1
  <2>3. /\ s.step = st.step /\ s.request = st.request /\ s.result = st.result
        /\ s.values = st.values /\ s.loaded = st.loaded /\ s.env = st.env
        /\ s.fields = st.fields /\ StoreKept(s, st)
    BY ZenonT(60) DEF StoreKept, SetupGood, SetupDomain
  <2> HIDE DEF s
  <2>4. SetupGood(s)
    <3>1. ShellIsInStep(s)
      BY <2>3, KeptIsInStep, Zenon
    <3>2. s.step = "editing" => s.fields \in FieldLists
      BY <2>3, Zenon DEF StoreIsComplete, SetupGood
    <3>3. QED
      BY <2>2, <2>3, <3>1, <3>2, KeptIsGood, Zenon
  <2>5. CASE st' = st
    BY <2>5, Zenon
  <2>6. CASE st' = s
    BY <2>6, <2>4, Zenon
  <2>7. CASE st' = [s EXCEPT !.pos = 2]
    <3>1. /\ st'.step = s.step /\ st'.request = s.request /\ st'.result = s.result
          /\ st'.values = s.values /\ st'.loaded = s.loaded /\ st'.env = s.env
          /\ st'.fields = s.fields /\ StoreKept(st', s)
      BY <2>4, <2>7, ZenonT(60) DEF StoreKept, SetupGood, SetupDomain
    <3>2. ShellIsInStep(st')
      BY <2>4, <3>1, KeptIsInStep, Zenon
    <3>3. st'.step = "editing" => st'.fields \in FieldLists
      BY <2>4, <3>1, Zenon DEF StoreIsComplete, SetupGood
    <3>4. QED
      BY <2>2, <2>3, <2>4, <3>1, <3>2, <3>3, KeptIsGood, Zenon
  <2>8. CASE Setup!Complete(s) /\ st' = Setup!save_edits(s)
    <3>1. /\ st'.step = "saving" /\ st'.request = "save" /\ st'.result = s.result
          /\ st'.fields = s.fields /\ st'.editing = s.editing /\ StoreKept(st', s)
      BY <2>4, <2>8, ZenonT(60)
         DEF StoreKept, SetupGood, SetupDomain, Setup!save_edits, Setup!submit
    <3>2. ShellIsInStep(st')
      BY <2>2, <2>3, <3>1, ZenonT(60) DEF ShellIsInStep
    <3>3. st'.fields \in FieldLists
      BY <2>1, <2>3, <2>4, <3>1, Zenon DEF StoreIsComplete, SetupGood
    <3>4. Setup!Complete(st')
      BY <2>8, <3>1, Zenon DEF Setup!Complete
    <3>5. QED
      BY <2>4, <3>1, <3>2, <3>3, <3>4, KeptIsGood, Zenon
  <2>9. QED
    BY <2>1, <2>5, <2>6, <2>7, <2>8, Zenon
<1>10. QED
  BY <1>1, <1>2, <1>3, <1>4, <1>5, <1>6, <1>7, <1>8, <1>9 DEF Setup!menu_command

(* Core 1: the configuration it reads, and its answer.                      *)
LEMMA ReloadIsGood ==
  ASSUME NEW s, SetupGood(s), NEW ok
  PROVE  LET v == Setup!reload_config(s, ok) IN
         /\ SetupGood(v) /\ v.env = s.env /\ v.fields = s.fields /\ v.editing = s.editing
         /\ v.step = s.step /\ v.request = s.request
<1> DEFINE v == Setup!reload_config(s, ok)
<1>1. /\ v.step = s.step /\ v.request = s.request /\ v.result = s.result
      /\ v.values = s.values /\ v.loaded = s.loaded /\ v.env = s.env
      /\ v.fields = s.fields /\ v.editing = s.editing /\ StoreKept(v, s)
  BY ZenonT(60) DEF StoreKept, SetupGood, SetupDomain, Setup!reload_config
<1> HIDE DEF v
<1>2. ShellIsInStep(v)
  BY <1>1, KeptIsInStep, Zenon
<1>3. /\ v.step = "editing" => v.fields \in FieldLists
      /\ v.request = "save" =>
           v.fields \in FieldLists /\ (v.fields[1] = "PROVIDER" => Setup!Complete(v))
  BY <1>1, ZenonT(60) DEF StoreIsComplete, SetupGood, Setup!Complete
<1>4. QED
  BY <1>1, <1>2, <1>3, KeptIsGood, Zenon DEF v

(* The answer needs less than SetupGood: the request may be half done.      *)
LEMMA AnswerIsGood ==
  ASSUME NEW s, NEW ok, DOMAIN s = SetupDomain, s.step \in {"saving", "loading"},
         ChangeIsKnown(s), AddressIsOnline(s),
         EndpointStored(s)
  PROVE  SetupGood(Setup!Answered(s, ok))
<1> DEFINE v == Setup!Answered(s, ok)
<1>1. /\ DOMAIN v = SetupDomain /\ v.env = s.env /\ v.boot = s.boot
      /\ v.changed = s.changed /\ v.torn = s.torn /\ v.wifi = s.wifi /\ v.step = s.step
      /\ v.request = "none" /\ v.stored = s.stored /\ v.foreign = s.foreign
  BY ZenonT(60) DEF SetupDomain, Setup!Answered, Setup!clear_edit
<1>2. v.result = IF ok THEN "ok" ELSE "failed"
  BY ZenonT(60) DEF SetupDomain, Setup!Answered, Setup!clear_edit
<1>3. v.values = IF ok THEN s.env ELSE Setup!Unset
  BY ZenonT(60) DEF SetupDomain, Setup!Answered, Setup!clear_edit
<1> HIDE DEF v
<1>4. ChangeIsKnown(v)
  BY <1>1, Zenon DEF ChangeIsKnown
<1>5. AddressIsOnline(v)
  BY <1>1, Zenon DEF AddressIsOnline
<1>6. ShellIsInStep(v)
  <2>1. v.result = "ok" => v.values = v.env
    BY <1>1, <1>2, <1>3
  <2>2. v.result = "ok" => ShowsStore(v)
    BY <2>1, Zenon DEF ShowsStore
  <2>3. QED
    BY <1>1, <2>2, ZenonT(60) DEF ShellIsInStep
<1>7. StoreIsComplete(v)
  BY <1>1, ZenonT(60) DEF StoreIsComplete, EndpointStored
<1>8. QED
  BY <1>1, <1>4, <1>5, <1>6, <1>7, Zenon DEF SetupGood, v

(* A save that stores the first n fields.                                   *)
LEMMA StoredIsGood ==
  ASSUME NEW s, SetupGood(s), s.request = "save", NEW n \in 0 .. Len(s.fields)
  PROVE  SetupGood(Setup!Stored(s, n))
<1> DEFINE v == Setup!Stored(s, n)
<1>1. /\ DOMAIN v = SetupDomain /\ v.boot = s.boot /\ v.wifi = s.wifi /\ v.step = s.step
      /\ v.request = s.request /\ v.result = s.result /\ v.loaded = s.loaded
      /\ v.values = s.values /\ v.fields = s.fields /\ v.editing = s.editing
      /\ v.foreign = s.foreign
  BY ZenonT(60) DEF SetupGood, SetupDomain, Setup!Stored
<1>2. v.env = [f \in Setup!Fields |->
                 IF \E i \in 1 .. n : s.fields[i] = f THEN s.editing[f] ELSE s.env[f]]
  BY ZenonT(60) DEF SetupGood, SetupDomain, Setup!Stored
<1>3. v.changed = (s.changed \/ \E i \in 1 .. n : Setup!Differs(s, s.fields[i]))
  BY ZenonT(60) DEF SetupGood, SetupDomain, Setup!Stored
<1>4. v.torn = (s.torn \/ n < Len(s.fields))
      /\ v.stored = s.stored \cup Setup!Altered(s, n)
  BY ZenonT(60) DEF SetupGood, SetupDomain, Setup!Stored
<1> HIDE DEF v
<1>5. ChangeIsKnown(v)
  <2>1. v.env = [f \in Setup!Fields |-> v.env[f]]
    BY <1>2, Zenon
  <2>2. v.boot = [f \in Setup!Fields |-> v.boot[f]]
    BY <1>1, Zenon DEF SetupGood, ChangeIsKnown
  <2>3. (\E i \in 1 .. n : Setup!Differs(s, s.fields[i])) <=> Setup!Altered(s, n) # {}
    <3>1. s.fields \in FieldLists
      BY Zenon DEF SetupGood, StoreIsComplete
    <3>2. \A i \in 1 .. n : s.fields[i] \in Setup!Fields
      <4>1. \A i \in DOMAIN s.fields : s.fields[i] \in Setup!Fields
        BY <3>1 DEF FieldLists, Setup!Fields
      <4>2. \A i \in 1 .. n : i \in DOMAIN s.fields
        BY <3>1 DEF FieldLists
      <4>3. QED
        BY <4>1, <4>2, Zenon
    <3>3. QED
      BY <3>2, Zenon DEF Setup!Altered
  <2>4. v.changed <=> v.stored # {}
    <3>1. s.changed <=> s.stored # {}
      BY Zenon DEF SetupGood, ChangeIsKnown
    <3>2. v.changed <=> (s.changed \/ \E i \in 1 .. n : Setup!Differs(s, s.fields[i]))
      BY <1>3, Zenon
    <3>3. QED
      BY <1>4, <2>3, <3>1, <3>2, Zenon
  <2>5. ASSUME NEW f \in Setup!Fields \ v.foreign, v.env[f] # v.boot[f]
        PROVE  f \in v.stored
    <3>1. CASE f \in Setup!Altered(s, n)
      BY <1>4, <3>1
    <3>2. CASE f \notin Setup!Altered(s, n)
      <4>1. v.env[f] = IF \E i \in 1 .. n : s.fields[i] = f THEN s.editing[f] ELSE s.env[f]
        BY <1>2, Zenon
      <4>2. v.env[f] = s.env[f]
        BY <3>2, <4>1, Zenon DEF Setup!Altered, Setup!Differs
      <4>3. f \in s.stored
        BY <1>1, <2>5, <4>2, Zenon DEF SetupGood, ChangeIsKnown
      <4>4. QED
        BY <1>4, <4>3
    <3>3. QED
      BY <3>1, <3>2
  <2>6. QED
    BY <2>1, <2>2, <2>4, <2>5, Zenon DEF ChangeIsKnown
<1>6. AddressIsOnline(v)
  BY <1>1, Zenon DEF SetupGood, AddressIsOnline
<1>7. ShellIsInStep(v)
  <2>1. s.step \in {"saving", "loading"} /\ s.result = "none"
    BY Zenon DEF SetupGood, ShellIsInStep
  <2>2. QED
    BY <1>1, <2>1, ZenonT(60) DEF ShellIsInStep
<1>8. StoreIsComplete(v)
  <2>1. s.fields \in FieldLists /\ (s.fields[1] = "PROVIDER" => Setup!Complete(s))
    BY Zenon DEF SetupGood, StoreIsComplete
  <2>2. v.fields \in FieldLists /\ (v.fields[1] = "PROVIDER" => Setup!Complete(v))
    BY <1>1, <2>1, Zenon DEF Setup!Complete
  <2>3. v.step # "editing"
    BY <1>1, Zenon DEF SetupGood, ShellIsInStep
  <2>4. ASSUME ~v.torn, v.foreign \cap {"PROVIDER", "ENDPOINT"} = {},
               v.env["PROVIDER"] = "compatible"
        PROVE  v.env["ENDPOINT"] # ""
    <3>1. ~s.torn /\ n = Len(s.fields)
      <4>1. ~s.torn /\ ~(n < Len(s.fields))
        BY <1>4, <2>4, Zenon
      <4>2. Len(s.fields) \in Nat
        BY <2>1 DEF FieldLists
      <4>3. QED
        BY <4>1, <4>2
    <3>2. "PROVIDER" \in Setup!Fields /\ "ENDPOINT" \in Setup!Fields
      BY DEF Setup!Fields
    <3>3. CASE s.fields[1] = "PROVIDER"
      <4>1. 1 \in 1 .. n /\ 2 \in 1 .. n /\ s.fields[2] = "ENDPOINT"
        <5>1. CASE s.fields = <<"PROVIDER", "ENDPOINT">>
          BY <3>1, <5>1
        <5>2. CASE s.fields = <<"PROVIDER", "ENDPOINT", "API_KEY">>
          BY <3>1, <5>2
        <5>3. CASE s.fields \in {<<"SSID", "PASSWORD">>, <<"SERVER">>}
          BY <3>3, <5>3
        <5>4. QED
          BY <2>1, <5>1, <5>2, <5>3, Zenon DEF FieldLists
      <4>2. v.env["PROVIDER"] = s.editing["PROVIDER"] /\ v.env["ENDPOINT"] = s.editing["ENDPOINT"]
        <5>1. /\ \E i \in 1 .. n : s.fields[i] = "PROVIDER"
              /\ \E i \in 1 .. n : s.fields[i] = "ENDPOINT"
          BY <3>3, <4>1, Zenon
        <5>2. QED
          BY <1>2, <3>2, <5>1, Zenon
      <4>3. s.editing["PROVIDER"] # "openai" => s.editing["ENDPOINT"] # ""
        BY <2>1, <3>3, Zenon DEF Setup!Complete
      <4>4. QED
        BY <2>4, <4>2, <4>3
    <3>4. CASE s.fields[1] # "PROVIDER"
      <4>1. \A i \in 1 .. n : s.fields[i] # "PROVIDER" /\ s.fields[i] # "ENDPOINT"
        BY <2>1, <3>1, <3>4 DEF FieldLists
      <4>2. v.env["PROVIDER"] = s.env["PROVIDER"] /\ v.env["ENDPOINT"] = s.env["ENDPOINT"]
        BY <1>2, <3>2, <4>1, Zenon
      <4>3. QED
        BY <1>1, <2>4, <3>1, <4>2, Zenon DEF SetupGood, StoreIsComplete, EndpointStored
    <3>5. QED
      BY <3>3, <3>4
  <2>5. QED
    BY <2>2, <2>3, <2>4, Zenon DEF StoreIsComplete, EndpointStored
<1>9. QED
  BY <1>1, <1>5, <1>6, <1>7, <1>8, Zenon DEF SetupGood, v

LEMMA ServiceIsGood ==
  ASSUME SetupInv, Setup!firstRead \/ Setup!serveLoad \/ Setup!serveSave
  PROVE  SetupInv'
<1> USE DEF SetupInv
<1>1. CASE Setup!firstRead
  BY <1>1, ReloadIsGood, Zenon DEF Setup!firstRead
<1>2. ASSUME NEW s, SetupGood(s), s.request # "none", NEW ok, NEW answer
      PROVE  SetupGood(Setup!Answered(Setup!reload_config(s, ok), answer))
  <2> DEFINE v == Setup!reload_config(s, ok)
  <2>1. SetupGood(v) /\ v.request # "none"
    BY <1>2, ReloadIsGood, Zenon
  <2> HIDE DEF v
  <2>2. /\ DOMAIN v = SetupDomain /\ v.step \in {"saving", "loading"}
        /\ ChangeIsKnown(v) /\ AddressIsOnline(v)
        /\ EndpointStored(v)
    BY <2>1, Zenon DEF SetupGood, ShellIsInStep, StoreIsComplete
  <2>3. QED
    BY <2>2, AnswerIsGood, Zenon DEF v
<1>3. CASE Setup!serveLoad
  <2>1. PICK ok \in BOOLEAN : st' = Setup!Answered(Setup!reload_config(st, ok), ok)
    BY <1>3, Zenon DEF Setup!serveLoad
  <2>2. st.request # "none"
    BY <1>3 DEF Setup!serveLoad
  <2>3. QED
    BY <1>2, <2>1, <2>2, Zenon
<1>4. CASE Setup!serveSave
  <2>0. st.request = "save" /\ st.request # "none"
    BY <1>4 DEF Setup!serveSave
  <2>1. CASE st' = Setup!Answered([Setup!reload_config(st, FALSE) EXCEPT !.saves = @ + 1], FALSE)
    <3> DEFINE r == Setup!reload_config(st, FALSE)
               v == [r EXCEPT !.saves = @ + 1]
    <3>1. SetupGood(r) /\ r.request # "none"
      BY <2>0, ReloadIsGood, Zenon
    <3> HIDE DEF r
    <3>2. /\ DOMAIN v = SetupDomain /\ v.step = r.step /\ v.env = r.env /\ v.boot = r.boot
          /\ v.changed = r.changed /\ v.torn = r.torn /\ v.wifi = r.wifi
          /\ v.stored = r.stored /\ v.foreign = r.foreign
      BY <3>1, ZenonT(60) DEF SetupGood, SetupDomain
    <3> HIDE DEF v
    <3>3. v.step \in {"saving", "loading"}
      BY <3>1, <3>2, Zenon DEF SetupGood, ShellIsInStep
    <3>4. ChangeIsKnown(v) /\ AddressIsOnline(v)
      BY <3>1, <3>2, Zenon DEF SetupGood, ChangeIsKnown, AddressIsOnline
    <3>5. EndpointStored(v)
      BY <3>1, <3>2, Zenon DEF SetupGood, StoreIsComplete, EndpointStored
    <3>6. QED
      BY <2>1, <3>2, <3>3, <3>4, <3>5, AnswerIsGood, Zenon DEF v, r
  <2>2. ASSUME NEW n \in 0 .. Len(st.fields), NEW ok \in BOOLEAN,
               st' = Setup!Answered(Setup!reload_config(Setup!Stored(st, n), ok),
                                    ok /\ n = Len(st.fields))
        PROVE  SetupInv'
    <3>1. SetupGood(Setup!Stored(st, n))
      BY <2>0, StoredIsGood, Zenon
    <3>2. Setup!Stored(st, n).request = st.request
      BY ZenonT(60) DEF SetupGood, SetupDomain, Setup!Stored
    <3>3. QED
      BY <1>2, <2>0, <2>2, <3>1, <3>2, Zenon
  <2>3. QED
    BY <1>4, <2>1, <2>2, Zenon DEF Setup!serveSave
<1>5. QED
  BY <1>1, <1>3, <1>4

(* The radio.                                                               *)
LEMMA WifiIsGood ==
  ASSUME NEW s, SetupGood(s), NEW w, DOMAIN w = {"state", "ssid", "password", "address"},
         w.address => w.state = "online"
  PROVE  SetupGood([s EXCEPT !.wifi = w])
<1> DEFINE v == [s EXCEPT !.wifi = w]
<1>1. /\ DOMAIN v = SetupDomain /\ v.env = s.env /\ v.boot = s.boot /\ v.changed = s.changed
      /\ v.torn = s.torn /\ v.step = s.step /\ v.request = s.request /\ v.result = s.result
      /\ v.values = s.values /\ v.loaded = s.loaded /\ v.fields = s.fields
      /\ v.editing = s.editing /\ v.wifi = w
      /\ v.stored = s.stored /\ v.foreign = s.foreign /\ v.since = s.since
  BY ZenonT(60) DEF SetupGood, SetupDomain
<1> HIDE DEF v
<1>2. ChangeIsKnown(v) /\ AddressIsOnline(v)
  BY <1>1, Zenon DEF SetupGood, ChangeIsKnown, AddressIsOnline
<1>3. StoreIsComplete(v)
  BY <1>1, Zenon DEF SetupGood, StoreIsComplete, EndpointStored, Setup!Complete
<1>4. ShellIsInStep(v)
  BY <1>1, ZenonT(60) DEF SetupGood, ShellIsInStep, ShowsStore
<1>5. QED
  BY <1>1, <1>2, <1>3, <1>4, Zenon DEF SetupGood, v

LEMMA NetworkIsGood ==
  ASSUME SetupInv,
         \/ Setup!unconfigured \/ Setup!associate \/ Setup!associated \/ Setup!linkLost
         \/ Setup!refresh_network_address
  PROVE  SetupInv'
<1> USE DEF SetupInv
<1> DEFINE Keys == {"state", "ssid", "password", "address"}
<1>1. DOMAIN st.wifi = Keys /\ (st.wifi.address => st.wifi.state = "online")
  BY Zenon DEF SetupGood, AddressIsOnline
<1>2. ASSUME NEW w, DOMAIN w = Keys, w.address => w.state = "online", st' = [st EXCEPT !.wifi = w]
      PROVE  SetupInv'
  BY <1>2, WifiIsGood, Zenon
<1>3. CASE Setup!unconfigured
  <2> DEFINE w == [Setup!clear_address(st.wifi) EXCEPT !.state = "uninitialized", !.ssid = "",
                                                       !.password = ""]
  <2>1. st' = [st EXCEPT !.wifi = w]
    BY <1>3, Zenon DEF Setup!unconfigured, Setup!leave
  <2>2. DOMAIN w = Keys /\ w.address = FALSE
    BY <1>1, Zenon DEF Setup!clear_address
  <2>3. QED
    BY <1>2, <2>1, <2>2, Zenon
<1>4. ASSUME NEW w, DOMAIN w = Keys, ~w.address, Setup!start_association(st, w)
      PROVE  SetupInv'
  <2>1. PICK state : st' = [st EXCEPT !.wifi = [w EXCEPT !.state = state]]
    BY <1>4, Zenon DEF Setup!start_association
  <2> DEFINE u == [w EXCEPT !.state = state]
  <2>2. DOMAIN u = Keys /\ u.address = w.address
    BY <1>4, Zenon
  <2>3. QED
    BY <1>2, <1>4, <2>1, <2>2, Zenon
<1>5. CASE Setup!associate
  <2> DEFINE w == [Setup!clear_address(st.wifi) EXCEPT !.ssid = st.config.ssid,
                     !.password = st.config.password, !.state = "uninitialized"]
  <2>1. DOMAIN w = Keys /\ w.address = FALSE
    BY <1>1, Zenon DEF Setup!clear_address
  <2>2. \/ Setup!start_association(st, w)
        \/ st.wifi.state \in {"uninitialized", "backoff"} /\ Setup!start_association(st, st.wifi)
    BY <1>5, Zenon DEF Setup!associate
  <2>3. st.wifi.state \in {"uninitialized", "backoff"} => ~st.wifi.address
    BY <1>1
  <2> HIDE DEF w
  <2>4. QED
    BY <1>1, <1>4, <2>1, <2>2, <2>3, Zenon
<1>6. CASE Setup!associated
  <2>0. PICK state \in {"online", "backoff"}, address \in BOOLEAN :
          st' = [st EXCEPT !.wifi.state = state,
                           !.wifi.address = @ \/ (state = "online" /\ address)]
    BY <1>6, Zenon DEF Setup!associated
  <2> DEFINE w == [[st.wifi EXCEPT !.state = state]
                     EXCEPT !.address = st.wifi.address \/ (state = "online" /\ address)]
  <2>1. st' = [st EXCEPT !.wifi = w]
    BY <1>1, <2>0
  <2>2. DOMAIN w = Keys /\ w.state = state
        /\ w.address = (st.wifi.address \/ (state = "online" /\ address))
    BY <1>1, Zenon
  <2>3. ~st.wifi.address
    BY <1>1, <1>6 DEF Setup!associated
  <2>4. QED
    BY <1>2, <2>1, <2>2, <2>3, Zenon
<1>7. CASE Setup!linkLost
  <2> DEFINE w == [Setup!clear_address(st.wifi) EXCEPT !.state = "backoff"]
  <2>1. st' = [st EXCEPT !.wifi = w]
    BY <1>7, Zenon DEF Setup!linkLost
  <2>2. DOMAIN w = Keys /\ w.address = FALSE
    BY <1>1, Zenon DEF Setup!clear_address
  <2>3. QED
    BY <1>2, <2>1, <2>2, Zenon
<1>8. CASE Setup!refresh_network_address
  <2>0. PICK address \in BOOLEAN : st' = [st EXCEPT !.wifi.address = address]
    BY <1>8, Zenon DEF Setup!refresh_network_address
  <2> DEFINE w == [st.wifi EXCEPT !.address = address]
  <2>1. st' = [st EXCEPT !.wifi = w]
    BY <2>0, Zenon
  <2>2. DOMAIN w = Keys /\ w.state = st.wifi.state
    BY <1>1, Zenon
  <2>3. st.wifi.state = "online"
    BY <1>8, Zenon DEF Setup!refresh_network_address
  <2>4. QED
    BY <1>2, <2>1, <2>2, <2>3, Zenon
<1>9. QED
  BY <1>3, <1>5, <1>6, <1>7, <1>8

(* A program stores a setting under the shell's feet.                       *)
LEMMA ProgramIsGood ==
  ASSUME SetupInv, NEW f \in Setup!Fields, NEW x, Setup!programWrites(f, x)
  PROVE  SetupInv'
<1> USE DEF SetupInv
<1>1. st' = [st EXCEPT !.env[f] = x, !.foreign = @ \cup {f}, !.since = @ \cup {f},
                       !.writes = @ + 1]
  BY Zenon DEF Setup!programWrites
<1>2. /\ DOMAIN st' = SetupDomain /\ st'.boot = st.boot /\ st'.changed = st.changed
      /\ st'.torn = st.torn /\ st'.step = st.step /\ st'.request = st.request
      /\ st'.result = st.result /\ st'.values = st.values /\ st'.loaded = st.loaded
      /\ st'.fields = st.fields /\ st'.editing = st.editing /\ st'.wifi = st.wifi
      /\ st'.stored = st.stored
  BY <1>1, ZenonT(60) DEF SetupGood, SetupDomain
<1>3. /\ st'.foreign = st.foreign \cup {f} /\ st'.since = st.since \cup {f}
      /\ st'.env = [st.env EXCEPT ![f] = x]
  BY <1>1, ZenonT(60) DEF SetupGood, SetupDomain
<1>4. DOMAIN st.env = Setup!Fields
  BY DEF SetupGood, ChangeIsKnown
<1>5. st'.env = [g \in Setup!Fields |-> st'.env[g]]
      /\ \A g \in Setup!Fields : g # f => st'.env[g] = st.env[g]
  BY <1>3, <1>4
<1>6. ChangeIsKnown(st')
  <2>1. st'.boot = [g \in Setup!Fields |-> st'.boot[g]]
    BY <1>2, Zenon DEF SetupGood, ChangeIsKnown
  <2>2. st'.changed <=> st'.stored # {}
    BY <1>2, Zenon DEF SetupGood, ChangeIsKnown
  <2>3. ASSUME NEW g \in Setup!Fields \ st'.foreign, st'.env[g] # st'.boot[g]
        PROVE  g \in st'.stored
    <3>1. g # f /\ g \in Setup!Fields \ st.foreign
      BY <1>3, <2>3
    <3>2. st.env[g] # st.boot[g]
      BY <1>2, <1>5, <2>3, <3>1, Zenon
    <3>3. QED
      BY <1>2, <3>1, <3>2, Zenon DEF SetupGood, ChangeIsKnown
  <2>4. QED
    BY <1>5, <2>1, <2>2, <2>3, Zenon DEF ChangeIsKnown
<1>7. ASSUME ShowsStore(st) PROVE ShowsStore(st')
  <2> SUFFICES ASSUME NEW g \in Setup!Fields \ st'.since PROVE st'.values[g] = st'.env[g]
    BY DEF ShowsStore
  <2>1. g # f /\ g \in Setup!Fields \ st.since
    BY <1>3
  <2>2. QED
    BY <1>2, <1>5, <1>7, <2>1, Zenon DEF ShowsStore
<1>8. ShellIsInStep(st')
  BY <1>2, <1>7, ZenonT(60) DEF SetupGood, ShellIsInStep
<1>9. EndpointStored(st')
  <2> SUFFICES ASSUME ~st'.torn, st'.foreign \cap {"PROVIDER", "ENDPOINT"} = {},
                      st'.env["PROVIDER"] = "compatible"
               PROVE  st'.env["ENDPOINT"] # ""
    BY DEF EndpointStored
  <2>1. f # "PROVIDER" /\ f # "ENDPOINT" /\ st.foreign \cap {"PROVIDER", "ENDPOINT"} = {}
    BY <1>3
  <2>2. "PROVIDER" \in Setup!Fields /\ "ENDPOINT" \in Setup!Fields
    BY DEF Setup!Fields
  <2>3. st.env["PROVIDER"] = "compatible" /\ st'.env["ENDPOINT"] = st.env["ENDPOINT"]
    BY <1>5, <2>1, <2>2, Zenon
  <2>4. QED
    BY <1>2, <2>1, <2>3, Zenon DEF SetupGood, StoreIsComplete, EndpointStored
<1>10. StoreIsComplete(st')
  BY <1>2, <1>9, ZenonT(60) DEF SetupGood, StoreIsComplete, Setup!Complete
<1>11. AddressIsOnline(st')
  BY <1>2, Zenon DEF SetupGood, AddressIsOnline
<1>12. QED
  BY <1>2, <1>6, <1>8, <1>10, <1>11, Zenon DEF SetupGood

LEMMA SetupStep ==
  ASSUME SetupInv, Setup!Next
  PROVE  SetupInv'
<1> USE DEF SetupInv
<1>1. ASSUME /\ DOMAIN st' = SetupDomain /\ st'.env = st.env /\ st'.boot = st.boot
             /\ st'.changed = st.changed /\ st'.torn = st.torn /\ st'.step = st.step
             /\ st'.request = st.request /\ st'.result = st.result
             /\ st'.values = st.values /\ st'.loaded = st.loaded
             /\ st'.fields = st.fields /\ st'.editing = st.editing /\ st'.wifi = st.wifi
             /\ st'.stored = st.stored /\ st'.foreign = st.foreign /\ st'.since = st.since
      PROVE  SetupInv'
  <2>1. StoreKept(st', st)
    BY <1>1, Zenon DEF StoreKept
  <2>2. ShellIsInStep(st')
    BY <1>1, <2>1, KeptIsInStep, Zenon
  <2>3. /\ st'.step = "editing" => st'.fields \in FieldLists
        /\ st'.request = "save" =>
             st'.fields \in FieldLists /\ (st'.fields[1] = "PROVIDER" => Setup!Complete(st'))
    BY <1>1, ZenonT(60) DEF SetupGood, StoreIsComplete, Setup!Complete
  <2>4. QED
    BY <2>1, <2>2, <2>3, KeptIsGood, Zenon
<1>2. CASE Setup!cable
  <2>1. st' = [st EXCEPT !.connected = ~st.connected]
    BY <1>2, Zenon DEF Setup!cable
  <2>2. QED
    BY <1>1, <2>1, ZenonT(60) DEF SetupGood, SetupDomain
<1>3. CASE Setup!stopping
  BY <1>1, <1>3, ZenonT(60) DEF Setup!stopping, SetupGood, SetupDomain
<1>4. CASE Setup!reboot_queued
  BY <1>1, <1>4, ZenonT(60) DEF Setup!reboot_queued, SetupGood, SetupDomain
<1>5. ASSUME NEW f \in Setup!Fields, NEW x, Setup!programWrites(f, x) PROVE SetupInv'
  BY <1>5, ProgramIsGood, Zenon
<1>6. QED
  BY <1>2, <1>3, <1>4, <1>5, UsbServiceIsGood, ShellIsGood, ServiceIsGood, NetworkIsGood, Zenon
     DEF Setup!Next

(* Whatever is typed, saved, lost on the way or written by programs, the    *)
(* shell owes a reboot exactly when a save altered the store, stores a      *)
(* complete provider, shows what is stored but for what programs wrote      *)
(* since, and no address outlives its link (network_setup.c,                *)
(* network_runtime.cpp).                                                    *)
THEOREM ShellAccounts == ServicesSpec => []ShellKeepsAccount
<1> DEFINE Inv == part = "setup" => SetupInv
<1>1. ServicesInit => Inv
  BY SetupInit DEF ServicesInit
<1>2. Inv /\ [ServicesNext]_vars => Inv'
  <2> SUFFICES ASSUME Inv, [ServicesNext]_vars, part' = "setup" PROVE SetupInv'
    OBVIOUS
  <2>1. CASE UNCHANGED vars
    BY <2>1, Zenon DEF vars, SetupInv
  <2>2. CASE ServicesNext
    BY <2>2, SetupStep DEF ServicesNext
  <2>3. QED
    BY <2>1, <2>2
<1>3. Inv => ShellKeepsAccount
  BY Zenon DEF SetupInv, SetupGood, ChangeIsKnown, StoreIsComplete, ShellIsInStep,
     AddressIsOnline, EndpointStored, ShowsStore, ShellKeepsAccount,
     Setup!ShellKeepsAccount, Setup!ChangesAreOwed, Setup!EndpointIsKnown, Setup!MenuIsTrue
<1>4. QED
  BY <1>1, <1>2, <1>3, PTL DEF ServicesSpec

-----------------------------------------------------------------------------

-----------------------------------------------------------------------------
(* UsbConsole.                                                              *)

Characters == (UNION {{m[i] : i \in DOMAIN m} : m \in UsbMessages}) \cup {"!", "\r", "\n"}
Text == Seq(Characters)
UsbFields ==
  {"log", "cr", "drops", "reported", "connected", "cable", "at", "data", "snapshot", "accepted",
   "flush", "logs", "wire", "sent", "ends", "writes", "spliced", "unflushed"}

(* Every line feed follows a carriage return; "before" is whether one came  *)
(* just before the text.                                                    *)
CrLf(before, s) == \A i \in DOMAIN s : s[i] = "\n" => IF i = 1 THEN before ELSE s[i - 1] = "\r"
EndsInCr(before, s) == IF s = <<>> THEN before ELSE s[Len(s)] = "\r"

UsbDomain(u) ==
  /\ DOMAIN u = UsbFields
  /\ u.log \in Text /\ u.data \in Text /\ u.wire \in Text /\ u.sent \in Text
  /\ u.cr \in BOOLEAN /\ u.accepted \in Nat

(* What of the log is not on the wire yet.                                  *)
Left(u) == SubSeq(u.log, IF u.at = "consume" THEN u.accepted + 1 ELSE 1, Len(u.log))

LogIsQueued(u) ==
  /\ u.wire \o Left(u) = u.sent /\ Len(u.log) <= UsbLogBytes
  /\ u.at = "send" => Len(u.data) <= Len(u.log) /\ u.data = SubSeq(u.log, 1, Len(u.data))
  /\ u.at = "consume" => u.accepted <= Len(u.log)

TextIsWhole(u) ==
  /\ CrLf(FALSE, u.sent) /\ (u.cr <=> EndsInCr(FALSE, u.sent))
  /\ Len(u.sent) \in u.ends /\ ~u.spliced

UsbGood(u) ==
  UsbDomain(u) /\ LogIsQueued(u) /\ TextIsWhole(u) /\ (u.unflushed => u.flush)

(* Only the fields the invariant is about.                                  *)
SameLog(u, v) ==
  /\ DOMAIN v = UsbFields
  /\ v.log = u.log /\ v.data = u.data /\ v.wire = u.wire /\ v.sent = u.sent
  /\ v.cr = u.cr /\ v.accepted = u.accepted /\ v.at = u.at /\ v.ends = u.ends
  /\ (v.spliced <=> u.spliced) /\ (v.unflushed <=> u.unflushed) /\ (v.flush <=> u.flush)

LEMMA SameLogIsGood ==
  ASSUME NEW u, NEW v, UsbGood(u), SameLog(u, v)
  PROVE  UsbGood(v)
  BY Zenon DEF UsbGood, UsbDomain, LogIsQueued, TextIsWhole, Left, SameLog

LEMMA JoinedTwice ==
  ASSUME NEW a \in Text, NEW b \in Text, NEW d \in Text
  PROVE  (a \o b) \o d = a \o (b \o d)
BY DEF Text

(* A sequence cut in two and joined again.                                  *)
LEMMA CutJoined ==
  ASSUME NEW T, NEW s \in Seq(T), NEW k \in 0 .. Len(s)
  PROVE  /\ SubSeq(s, 1, k) \in Seq(T) /\ SubSeq(s, k + 1, Len(s)) \in Seq(T)
         /\ SubSeq(s, 1, k) \o SubSeq(s, k + 1, Len(s)) = s
<1> DEFINE a == SubSeq(s, 1, k)
           b == SubSeq(s, k + 1, Len(s))
           j == a \o b
<1>1. /\ a \in Seq(T) /\ b \in Seq(T) /\ Len(a) = k /\ Len(b) = Len(s) - k
      /\ k \in Nat /\ Len(s) \in Nat /\ k <= Len(s)
      /\ \A i \in 1 .. k : a[i] = s[i]
      /\ \A i \in 1 .. Len(s) - k : b[i] = s[k + i]
  OBVIOUS
<1> HIDE DEF a, b
<1>2. /\ j \in Seq(T) /\ Len(j) = Len(a) + Len(b)
      /\ \A i \in 1 .. Len(a) : j[i] = a[i]
      /\ \A i \in 1 .. Len(b) : j[Len(a) + i] = b[i]
  BY <1>1
<1> HIDE DEF j
<1>3. ASSUME NEW i \in 1 .. Len(s) PROVE j[i] = s[i]
  <2>1. CASE i <= k
    BY <1>1, <1>2, <2>1
  <2>2. CASE i > k
    <3>1. i - k \in 1 .. Len(s) - k /\ k + (i - k) = i
      BY <1>1, <2>2
    <3>2. j[k + (i - k)] = b[i - k] /\ b[i - k] = s[k + (i - k)]
      BY <1>1, <1>2, <3>1
    <3>3. QED
      BY <3>1, <3>2
  <2>3. QED
    BY <1>1, <2>1, <2>2
<1>4. j \in Seq(T) /\ Len(j) = Len(s)
  BY <1>1, <1>2
<1>5. j = s
  BY <1>3, <1>4
<1>6. QED
  BY <1>1, <1>5, Zenon DEF a, b, j

LEMMA TextJoined ==
  ASSUME NEW before \in BOOLEAN, NEW s \in Text, NEW o \in Text,
         CrLf(before, s), CrLf(EndsInCr(before, s), o)
  PROVE  /\ s \o o \in Text /\ CrLf(before, s \o o)
         /\ EndsInCr(before, s \o o) <=> EndsInCr(EndsInCr(before, s), o)
<1> DEFINE j == s \o o
<1>1. /\ j \in Text /\ Len(j) = Len(s) + Len(o) /\ Len(s) \in Nat /\ Len(o) \in Nat
      /\ \A i \in 1 .. Len(s) : j[i] = s[i]
      /\ \A i \in 1 .. Len(o) : j[Len(s) + i] = o[i]
      /\ DOMAIN j = 1 .. Len(j) /\ DOMAIN s = 1 .. Len(s) /\ DOMAIN o = 1 .. Len(o)
      /\ (s = <<>> <=> Len(s) = 0) /\ (o = <<>> <=> Len(o) = 0) /\ (j = <<>> <=> Len(j) = 0)
  BY DEF Text
<1> HIDE DEF j
<1>2. ASSUME NEW i \in DOMAIN j, j[i] = "\n" PROVE IF i = 1 THEN before ELSE j[i - 1] = "\r"
  <2>1. CASE i <= Len(s)
    <3>1. i \in DOMAIN s /\ s[i] = "\n" /\ (i # 1 => j[i - 1] = s[i - 1])
      BY <1>1, <1>2, <2>1
    <3>2. QED
      BY <3>1, Zenon DEF CrLf
  <2>2. CASE i > Len(s)
    <3> DEFINE k == i - Len(s)
    <3>1. k \in DOMAIN o /\ k \in 1 .. Len(o) /\ Len(s) + k = i
      BY <1>1, <2>2
    <3>2. o[k] = "\n"
      BY <1>1, <1>2, <3>1
    <3>3. IF k = 1 THEN EndsInCr(before, s) ELSE o[k - 1] = "\r"
      BY <3>1, <3>2, Zenon DEF CrLf
    <3>4. k # 1 => i # 1 /\ j[i - 1] = o[k - 1]
      BY <1>1, <3>1
    <3>5. k = 1 => i - 1 = Len(s)
      BY <3>1, <1>1
    <3> HIDE DEF k
    <3>6. CASE k # 1
      BY <3>3, <3>4, <3>6
    <3>7. CASE k = 1 /\ Len(s) = 0
      BY <1>1, <3>1, <3>3, <3>7 DEF EndsInCr
    <3>8. CASE k = 1 /\ Len(s) # 0
      <4>1. s[Len(s)] = "\r" /\ i # 1 /\ j[i - 1] = s[Len(s)]
        BY <1>1, <3>1, <3>3, <3>5, <3>8 DEF EndsInCr
      <4>2. QED
        BY <4>1
    <3>9. QED
      BY <3>6, <3>7, <3>8
  <2>3. QED
    BY <1>1, <2>1, <2>2
<1>3. CrLf(before, j)
  BY <1>2, Zenon DEF CrLf
<1>4. EndsInCr(before, j) <=> EndsInCr(EndsInCr(before, s), o)
  <2>1. CASE Len(o) = 0
    <3>1. o = <<>> /\ Len(j) = Len(s) /\ (j = <<>> <=> s = <<>>)
      BY <1>1, <2>1
    <3>2. s # <<>> => j[Len(j)] = s[Len(s)]
      BY <1>1, <3>1
    <3>3. QED
      BY <3>1, <3>2, Zenon DEF EndsInCr
  <2>2. CASE Len(o) # 0
    <3>1. o # <<>> /\ j # <<>> /\ j[Len(j)] = o[Len(o)]
      BY <1>1, <2>2
    <3>2. QED
      BY <3>1, Zenon DEF EndsInCr
  <2>3. QED
    BY <2>1, <2>2
<1>5. QED
  BY <1>1, <1>3, <1>4 DEF j

(* What a message becomes after a text that ended in a carriage return or   *)
(* not.                                                                     *)
Carried(before) ==
  {t \in [cr : BOOLEAN, out : Text] : CrLf(before, t.out) /\ (t.cr <=> EndsInCr(before, t.out))}

LEMMA WrittenIsCarried ==
  ASSUME NEW before \in BOOLEAN, NEW t \in Carried(before), NEW c \in Characters
  PROVE  Usb!Written(t, c) \in Carried(before)
<1> DEFINE o == IF c = "\n" /\ ~t.cr THEN <<"\r", "\n">> ELSE <<c>>
           w == Usb!Written(t, c)
<1>1. /\ t.cr \in BOOLEAN /\ t.out \in Text /\ CrLf(before, t.out)
      /\ t.cr <=> EndsInCr(before, t.out)
  BY DEF Carried
<1>2. o \in Text
  <2>1. "\r" \in Characters /\ "\n" \in Characters
    BY Zenon DEF Characters
  <2>3. \A a, b \in Characters : <<a, b>> \in Seq(Characters)
    OBVIOUS
  <2>4. <<c>> \in Seq(Characters)
    OBVIOUS
  <2>5. <<"\r", "\n">> \in Text /\ <<c>> \in Text
    BY <2>1, <2>3, <2>4, Zenon DEF Text
  <2>2. QED
    BY <2>5, Zenon
<1>3. CrLf(EndsInCr(before, t.out), o)
  BY <1>1 DEF CrLf
<1>4. EndsInCr(EndsInCr(before, t.out), o) <=> c = "\r"
  BY DEF EndsInCr
<1>5. w = [cr |-> c = "\r", out |-> t.out \o o]
  BY DEF Usb!Written
<1> HIDE DEF o, w
<1>6. /\ t.out \o o \in Text /\ CrLf(before, t.out \o o)
      /\ EndsInCr(before, t.out \o o) <=> c = "\r"
  BY <1>1, <1>2, <1>3, <1>4, TextJoined, Zenon
<1>7. w \in [cr : BOOLEAN, out : Text] /\ w.out = t.out \o o /\ (w.cr <=> c = "\r")
  BY <1>5, <1>6
<1>8. w \in Carried(before)
  BY <1>6, <1>7, Zenon DEF Carried
<1>9. QED
  BY <1>8 DEF w

LEMMA TranslatedIsCarried ==
  ASSUME NEW before \in BOOLEAN, NEW message \in Text
  PROVE  Usb!Translated(before, message) \in Carried(before)
<1> DEFINE m == Len(message)
           J == Carried(before)
           start == [cr |-> before, out |-> <<>>]
           F == [a \in J \X Nat |-> IF a[2] \in 1 .. m THEN Usb!Written(a[1], message[a[2]]) ELSE a[1]]
           Applied(f) == f = [i \in 0 .. m |-> IF i = 0 THEN start ELSE Usb!Written(f[i - 1], message[i])]
           h == CHOOSE f : Applied(f)
<1>1. m \in Nat /\ \A i \in 1 .. m : message[i] \in Characters
  BY DEF Text
<1>2. start \in J
  BY DEF Carried, CrLf, EndsInCr, Text
<1>3. \A c \in J, i \in 1 .. m : Usb!Written(c, message[i]) \in J
  BY <1>1, WrittenIsCarried, Zenon
<1> HIDE DEF J, start
<1>4. F \in [J \X Nat -> J]
  BY <1>3, SMTT(30)
<1>5. \A c \in J : \A i \in 1 .. m : F[<<c, i>>] = Usb!Written(c, message[i])
  BY <1>1
<1>6. Usb!Translated(before, message) = h[m]
  BY DEF Usb!Translated, start
<1> HIDE DEF m, F, Applied, h
<1>7. PICK f \in [0 .. m -> J] : StepsFrom(f, start, m, F)
  BY <1>1, <1>2, <1>4, StepsDefineFunction, Zenon
<1>8. Applied(f)
  <2>1. ASSUME NEW i \in 0 .. m, i # 0
        PROVE  f[i] = Usb!Written(f[i - 1], message[i])
    <3>1. i - 1 \in 0 .. m /\ i \in 1 .. m
      BY <1>1, <2>1
    <3>2. f[i - 1] \in J
      BY <3>1
    <3>3. QED
      BY <1>5, <1>7, <2>1, <3>1, <3>2 DEF StepsFrom
  <2>2. QED
    BY <1>7, <2>1 DEF Applied, StepsFrom
<1>9. Applied(h)
  BY <1>8 DEF h
<1>10. h[0] = start /\ \A i \in 0 .. m : i # 0 => h[i] = Usb!Written(h[i - 1], message[i])
  BY <1>1, <1>9 DEF Applied
<1> DEFINE D == {i \in Nat : i \in 0 .. m => h[i] \in J}
<1>11. 0 \in D
  BY <1>2, <1>10
<1>12. ASSUME NEW i \in Nat, i \in D PROVE i + 1 \in D
  <2> SUFFICES ASSUME i + 1 \in 0 .. m PROVE h[i + 1] \in J
    OBVIOUS
  <2>1. i \in 0 .. m /\ i + 1 \in 1 .. m /\ i + 1 # 0 /\ (i + 1) - 1 = i
    BY <1>1
  <2>2. h[i] \in J
    BY <1>12, <2>1
  <2>3. h[i + 1] = Usb!Written(h[i], message[i + 1])
    BY <1>10, <2>1
  <2>4. QED
    BY <1>3, <2>1, <2>2, <2>3, Zenon
<1> HIDE DEF D
<1>13. m \in D
  BY <1>1, <1>11, <1>12, SetInduction
<1>14. h[m] \in J
  BY <1>1, <1>13 DEF D
<1>15. QED
  BY <1>6, <1>14 DEF J

-----------------------------------------------------------------------------
LEMMA LeftFacts ==
  ASSUME NEW u, UsbDomain(u), NEW o \in Text, u.at = "consume" => u.accepted <= Len(u.log)
  PROVE  /\ Left(u) \in Text
         /\ SubSeq(u.log \o o, IF u.at = "consume" THEN u.accepted + 1 ELSE 1, Len(u.log \o o))
              = Left(u) \o o
<1> DEFINE k == IF u.at = "consume" THEN u.accepted + 1 ELSE 1
           s == u.log
<1>1. s \in Text /\ k \in Nat /\ k >= 1 /\ k <= Len(s) + 1
  BY DEF UsbDomain, Text
<1> HIDE DEF k, s
<1>2. SubSeq(s, k, Len(s)) \in Text /\ SubSeq(s \o o, k, Len(s \o o)) = SubSeq(s, k, Len(s)) \o o
  BY <1>1 DEF Text
<1>3. QED
  BY <1>2, Zenon DEF Left, k, s

(* A message or the report is queued whole.                                 *)
LEMMA QueuedIsGood ==
  ASSUME NEW u, UsbGood(u), NEW o \in Text, NEW cr \in BOOLEAN,
         Len(o) <= Usb!Room(u), CrLf(u.cr, o), cr <=> EndsInCr(u.cr, o),
         NEW v, v = Usb!Queued(u, o, cr)
  PROVE  UsbGood(v) /\ v.at = u.at
<1>1. UsbDomain(u) /\ LogIsQueued(u) /\ TextIsWhole(u) /\ (u.unflushed => u.flush)
  BY Zenon DEF UsbGood
<1> DEFINE l == u.log \o o
           s == u.sent \o o
<1>2. u.log \in Text /\ u.sent \in Text /\ u.wire \in Text /\ u.cr \in BOOLEAN
  BY <1>1, Zenon DEF UsbDomain
<1>3. l \in Text /\ s \in Text /\ Len(l) = Len(u.log) + Len(o)
      /\ SubSeq(l, 1, Len(u.log)) = u.log /\ Len(u.log) \in Nat /\ Len(o) \in Nat
  BY <1>2 DEF Text
<1>4. /\ DOMAIN v = UsbFields
      /\ v.log = l /\ v.data = u.data /\ v.wire = u.wire /\ v.sent = s
      /\ v.cr = cr /\ v.accepted = u.accepted /\ v.at = u.at /\ v.ends = u.ends \cup {Len(s)}
      /\ (v.spliced <=> u.spliced) /\ (v.unflushed <=> u.unflushed) /\ (v.flush <=> u.flush)
  <2>1. DOMAIN u = UsbFields
    BY <1>1, Zenon DEF UsbDomain
  <2>2. v = [u EXCEPT !.log = l, !.cr = cr, !.sent = s, !.ends = u.ends \cup {Len(s)}]
    BY Zenon DEF Usb!Queued
  <2> HIDE DEF l, s
  <2>3. QED
    BY <2>1, <2>2, ZenonT(60) DEF UsbFields
<1>5. Left(v) = Left(u) \o o /\ Left(u) \in Text
  <2>1. u.at = "consume" => u.accepted <= Len(u.log)
    BY <1>1, Zenon DEF LogIsQueued
  <2>2. QED
    BY <1>1, <1>4, <2>1, LeftFacts, Zenon DEF Left
<1>6. v.wire \o Left(v) = v.sent
  <2>1. u.wire \o (Left(u) \o o) = (u.wire \o Left(u)) \o o
    <3>1. \A a, b, d \in Text : a \o (b \o d) = (a \o b) \o d
      BY JoinedTwice, Zenon
    <3>2. QED
      BY <1>2, <1>5, <3>1, Zenon
  <2>2. u.wire \o Left(u) = u.sent
    BY <1>1, Zenon DEF LogIsQueued
  <2>3. QED
    BY <1>4, <1>5, <2>1, <2>2, Zenon
<1>7. Len(l) <= UsbLogBytes
  BY <1>3, UsbAssumption DEF Usb!Room
<1>8. u.at = "send" => Len(u.data) <= Len(l) /\ u.data = SubSeq(l, 1, Len(u.data))
  <2>1. u.at = "send" => Len(u.data) <= Len(u.log) /\ u.data = SubSeq(u.log, 1, Len(u.data))
    BY <1>1, Zenon DEF LogIsQueued
  <2>2. ASSUME NEW n \in Nat, n <= Len(u.log) PROVE SubSeq(l, 1, n) = SubSeq(u.log, 1, n)
    BY <1>2, <2>2 DEF Text
  <2>3. Len(u.data) \in Nat
    BY <1>1 DEF UsbDomain, Text
  <2> HIDE DEF l
  <2>4. QED
    BY <1>3, <2>1, <2>2, <2>3
<1>9. u.at = "consume" => u.accepted <= Len(l)
  <2>1. u.at = "consume" => u.accepted <= Len(u.log)
    BY <1>1, Zenon DEF LogIsQueued
  <2>2. u.accepted \in Nat
    BY <1>1, Zenon DEF UsbDomain
  <2> HIDE DEF l
  <2>3. QED
    BY <1>3, <2>1, <2>2
<1>10. CrLf(FALSE, s) /\ (cr <=> EndsInCr(FALSE, s))
  <2>1. CrLf(FALSE, u.sent) /\ (u.cr <=> EndsInCr(FALSE, u.sent))
    BY <1>1, Zenon DEF TextIsWhole
  <2>2. EndsInCr(FALSE, u.sent) = u.cr
    BY <1>2, <2>1, Zenon DEF EndsInCr
  <2>3. CrLf(EndsInCr(FALSE, u.sent), o) /\ (cr <=> EndsInCr(EndsInCr(FALSE, u.sent), o))
    BY <2>2, Zenon
  <2>4. QED
    BY <1>2, <2>1, <2>3, TextJoined, Zenon
<1> HIDE DEF l, s
<1>11. UsbDomain(v)
  BY <1>1, <1>3, <1>4, Zenon DEF UsbDomain
<1>12. LogIsQueued(v)
  BY <1>4, <1>6, <1>7, <1>8, <1>9, Zenon DEF LogIsQueued
<1>13. TextIsWhole(v)
  BY <1>1, <1>4, <1>10, Zenon DEF TextIsWhole
<1>14. QED
  BY <1>1, <1>4, <1>11, <1>12, <1>13, Zenon DEF UsbGood

LEMMA LogIsWritten ==
  ASSUME UsbGood(st), NEW m \in UsbMessages, Usb!log_write(m)
  PROVE  UsbGood(st')
<1> DEFINE u == [st EXCEPT !.logs = @ + 1]
           t == Usb!Translated(st.cr, m)
           d == [u EXCEPT !.drops = @ + 1]
<1>1. DOMAIN st = UsbFields /\ st.cr \in BOOLEAN
  BY Zenon DEF UsbGood, UsbDomain
<1>2. DOMAIN u = UsbFields
  BY <1>1, ZenonT(60)
<1>3. SameLog(st, u)
  BY <1>1, ZenonT(60) DEF SameLog, UsbFields
<1> HIDE DEF u
<1>4. SameLog(u, d)
  BY <1>2, ZenonT(60) DEF SameLog, UsbFields
<1> HIDE DEF d
<1>5. UsbGood(u)
  BY <1>3, SameLogIsGood, Zenon
<1>6. UsbGood(d)
  BY <1>4, <1>5, SameLogIsGood, Zenon
<1>7. m \in Text
  <2>1. m \in Seq({m[i] : i \in DOMAIN m})
    BY UsbAssumption, Zenon
  <2>2. {m[i] : i \in DOMAIN m} \subseteq Characters
    BY Zenon DEF Characters
  <2>3. QED
    BY <2>1, <2>2 DEF Text
<1>8. t \in Carried(st.cr)
  BY <1>1, <1>7, TranslatedIsCarried, Zenon
<1>9. st.log = u.log /\ st.cr = u.cr
  BY <1>3, Zenon DEF SameLog
<1>10. ASSUME Usb!Fits(st, m) PROVE UsbGood(Usb!Queued(u, t.out, t.cr))
  <2>1. Len(t.out) <= Usb!Room(u)
    BY <1>9, <1>10, Zenon DEF Usb!Fits, Usb!Room
  <2>2. t.out \in Text /\ t.cr \in BOOLEAN /\ CrLf(u.cr, t.out) /\ (t.cr <=> EndsInCr(u.cr, t.out))
    BY <1>8, <1>9 DEF Carried
  <2>3. QED
    BY <1>5, <2>1, <2>2, QueuedIsGood, Zenon
<1>11. st' = IF ~st.connected THEN u ELSE IF Usb!Fits(st, m) THEN Usb!Queued(u, t.out, t.cr) ELSE d
  BY Zenon DEF Usb!log_write, u, d
<1>12. QED
  BY <1>5, <1>6, <1>10, <1>11, Zenon

LEMMA ServiceIsLogged ==
  ASSUME UsbGood(st), Usb!service
  PROVE  UsbGood(st')
<1>1. PICK due \in BOOLEAN, room \in 0 .. UsbFifo :
        LET c == st.cable
            u == [(IF c THEN st ELSE Usb!Cleared(st)) EXCEPT !.connected = c,
                    !.unflushed = @ /\ ~(st.flush /\ c /\ due),
                    !.flush = @ /\ c /\ ~due]
            n == Usb!Min({IF c THEN room ELSE 0, UsbLogBudget, Len(u.log)})
        IN st' = [u EXCEPT !.data = SubSeq(u.log, 1, n), !.snapshot = u.drops,
                           !.at = IF n > 0 THEN "send" ELSE "report"]
  BY Zenon DEF Usb!service
<1> DEFINE c == st.cable
           b == IF c THEN st ELSE Usb!Cleared(st)
           u == [b EXCEPT !.connected = c, !.unflushed = @ /\ ~(st.flush /\ c /\ due),
                          !.flush = @ /\ c /\ ~due]
           n == Usb!Min({IF c THEN room ELSE 0, UsbLogBudget, Len(u.log)})
           at == IF n > 0 THEN "send" ELSE "report"
           v == [u EXCEPT !.data = SubSeq(u.log, 1, n), !.snapshot = u.drops, !.at = at]
<1>2. DOMAIN st = UsbFields /\ st.at = "idle"
  BY Zenon DEF UsbGood, UsbDomain, Usb!service
<1>3. /\ DOMAIN Usb!Cleared(st) = UsbFields
      /\ Usb!Cleared(st).log = <<>> /\ ~Usb!Cleared(st).cr /\ Usb!Cleared(st).cr \in BOOLEAN
      /\ Usb!Cleared(st).wire = <<>>
      /\ Usb!Cleared(st).sent = <<>> /\ Usb!Cleared(st).ends = {0}
      /\ Usb!Cleared(st).at = st.at /\ Usb!Cleared(st).data = st.data
      /\ Usb!Cleared(st).accepted = st.accepted
      /\ (Usb!Cleared(st).flush <=> st.flush)
      /\ ~Usb!Cleared(st).unflushed /\ (Usb!Cleared(st).spliced <=> st.spliced)
  BY <1>2, ZenonT(60) DEF Usb!Cleared, UsbFields
<1>4. UsbGood(Usb!Cleared(st))
  <2>1. /\ <<>> \in Text /\ Len(<<>>) = 0 /\ 0 \in {0} /\ CrLf(FALSE, <<>>) /\ ~EndsInCr(FALSE, <<>>)
        /\ <<>> \o SubSeq(<<>>, 1, 0) = <<>> /\ 0 <= UsbLogBytes
    BY UsbAssumption DEF Text, CrLf, EndsInCr
  <2>2. st.at # "send" /\ st.at # "consume"
    BY <1>2
  <2>3. UsbDomain(Usb!Cleared(st))
    BY <1>3, <2>1, Zenon DEF UsbGood, UsbDomain
  <2>4. LogIsQueued(Usb!Cleared(st))
    BY <1>3, <2>1, <2>2, Zenon DEF LogIsQueued, Left
  <2>5. TextIsWhole(Usb!Cleared(st))
    BY <1>3, <2>1, Zenon DEF UsbGood, TextIsWhole
  <2>6. QED
    BY <1>3, <2>3, <2>4, <2>5, Zenon DEF UsbGood
<1>5. UsbGood(b) /\ DOMAIN b = UsbFields /\ b.at = "idle" /\ (b.flush <=> st.flush)
      /\ (b.unflushed => c)
  BY <1>2, <1>3, <1>4, Zenon
<1> HIDE DEF b, c
<1>6. /\ DOMAIN u = UsbFields
      /\ u.log = b.log /\ u.wire = b.wire /\ u.sent = b.sent /\ u.ends = b.ends
      /\ u.cr = b.cr /\ u.accepted = b.accepted /\ (u.spliced <=> b.spliced)
      /\ (u.unflushed <=> b.unflushed /\ ~(st.flush /\ c /\ due))
      /\ (u.flush <=> b.flush /\ c /\ ~due)
  BY <1>5, ZenonT(60) DEF UsbFields
<1> HIDE DEF u
<1>7. n \in Nat /\ n <= Len(u.log) /\ u.log \in Text
  <2>1. u.log \in Text
    BY <1>5, <1>6, Zenon DEF UsbGood, UsbDomain
  <2>2. Len(u.log) \in Nat
    BY <2>1 DEF Text
  <2> DEFINE S == {IF c THEN room ELSE 0, UsbLogBudget, Len(u.log)}
  <2>3. S \in SUBSET Nat /\ S # {} /\ Len(u.log) \in S
    BY <2>2, UsbAssumption
  <2> HIDE DEF S
  <2>4. Usb!Min(S) \in S /\ \A y \in S : Usb!Min(S) <= y
    BY <2>3, LeastNumber, Zenon DEF Usb!Min
  <2>5. Usb!Min(S) \in Nat /\ Usb!Min(S) <= Len(u.log)
    BY <2>3, <2>4, Zenon
  <2>6. QED
    BY <2>1, <2>5 DEF S
<1> HIDE DEF n
<1>8. at \in {"send", "report"}
  OBVIOUS
<1> HIDE DEF at
<1> DEFINE d == SubSeq(u.log, 1, n)
<1>9. d \in Text /\ Len(d) <= Len(u.log) /\ d = SubSeq(u.log, 1, Len(d))
  BY <1>7 DEF Text
<1> HIDE DEF d
<1>10. /\ DOMAIN v = UsbFields
       /\ v.log = u.log /\ v.wire = u.wire /\ v.sent = u.sent /\ v.ends = u.ends
       /\ v.cr = u.cr /\ v.accepted = u.accepted /\ (v.spliced <=> u.spliced)
       /\ (v.unflushed <=> u.unflushed) /\ (v.flush <=> u.flush) /\ v.at = at
       /\ v.data = d
  <2>1. v = [u EXCEPT !.data = d, !.snapshot = u.drops, !.at = at]
    BY Zenon DEF d
  <2>2. QED
    BY <1>6, <2>1, ZenonT(60) DEF UsbFields
<1>11. st' = v
  BY <1>1, Zenon DEF v, at, n, u, b, c
<1> HIDE DEF v
<1>12. UsbDomain(v)
  BY <1>5, <1>6, <1>9, <1>10, Zenon DEF UsbGood, UsbDomain
<1>13. LogIsQueued(v)
  <2>1. v.at # "consume" /\ b.at # "consume"
    BY <1>5, <1>8, <1>10
  <2>2. Left(v) = Left(b)
    BY <1>6, <1>10, <2>1, Zenon DEF Left
  <2>3. QED
    BY <1>5, <1>6, <1>9, <1>10, <2>1, <2>2, Zenon DEF UsbGood, LogIsQueued
<1>14. TextIsWhole(v)
  BY <1>5, <1>6, <1>10, Zenon DEF UsbGood, TextIsWhole
<1>15. v.unflushed => v.flush
  <2>1. b.unflushed => b.flush
    BY <1>5, Zenon DEF UsbGood
  <2>2. QED
    BY <1>5, <1>6, <1>10, <2>1, Zenon
<1>16. QED
  BY <1>11, <1>12, <1>13, <1>14, <1>15, Zenon DEF UsbGood

LEMMA SendIsLogged ==
  ASSUME UsbGood(st), Usb!send
  PROVE  UsbGood(st')
<1>1. PICK n \in 0 .. Len(st.data) :
        st' = [st EXCEPT !.wire = @ \o SubSeq(st.data, 1, n), !.accepted = n,
                         !.unflushed = @ /\ n = 0, !.at = "consume"]
  BY Zenon DEF Usb!send
<1> DEFINE x == st.wire \o SubSeq(st.data, 1, n)
<1>2. UsbDomain(st) /\ LogIsQueued(st) /\ TextIsWhole(st) /\ (st.unflushed => st.flush)
  BY Zenon DEF UsbGood
<1>3. st.at = "send" /\ st.at # "consume"
  BY DEF Usb!send
<1>4. /\ st.log \in Text /\ st.wire \in Text /\ st.data \in Text
      /\ Len(st.data) \in Nat /\ Len(st.log) \in Nat
  BY <1>2 DEF UsbDomain, Text
<1>5. n \in Nat /\ n <= Len(st.data) /\ n <= Len(st.log) /\ st.data = SubSeq(st.log, 1, Len(st.data))
      /\ Len(st.data) <= Len(st.log)
  BY <1>2, <1>3, <1>4 DEF LogIsQueued
<1>6. \A s \in Text : \A k \in Nat : \A j \in 0 .. k :
        k <= Len(s) => SubSeq(SubSeq(s, 1, k), 1, j) = SubSeq(s, 1, j)
  BY DEF Text
<1>7. SubSeq(st.data, 1, n) = SubSeq(st.log, 1, n)
  BY <1>4, <1>5, <1>6
<1>8. x \in Text
  BY <1>4, <1>5 DEF Text
<1>9. /\ DOMAIN st' = UsbFields
      /\ st'.log = st.log /\ st'.wire = x /\ st'.sent = st.sent /\ st'.ends = st.ends
      /\ st'.cr = st.cr /\ st'.accepted = n /\ (st'.spliced <=> st.spliced)
      /\ (st'.unflushed => st.unflushed) /\ (st'.flush <=> st.flush) /\ st'.at = "consume"
      /\ st'.data = st.data
  <2>1. DOMAIN st = UsbFields
    BY <1>2, Zenon DEF UsbDomain
  <2> HIDE DEF x
  <2>2. st' = [st EXCEPT !.wire = x, !.accepted = n, !.unflushed = @ /\ n = 0, !.at = "consume"]
    BY <1>1, Zenon DEF x
  <2>3. QED
    BY <2>1, <2>2, ZenonT(60) DEF UsbFields
<1>10. x \o SubSeq(st.log, n + 1, Len(st.log)) = st.sent
  <2>1. \A w, s \in Text : \A k \in 0 .. Len(s) :
          (w \o SubSeq(s, 1, k)) \o SubSeq(s, k + 1, Len(s)) = w \o SubSeq(s, 1, Len(s))
    <3>1. ASSUME NEW w \in Text, NEW s \in Text, NEW k \in 0 .. Len(s)
          PROVE  (w \o SubSeq(s, 1, k)) \o SubSeq(s, k + 1, Len(s)) = w \o SubSeq(s, 1, Len(s))
      <4>1. \A a, b, d \in Text : (a \o b) \o d = a \o (b \o d)
        BY JoinedTwice, Zenon
      <4>2. /\ SubSeq(s, 1, k) \in Text /\ SubSeq(s, k + 1, Len(s)) \in Text
            /\ SubSeq(s, 1, k) \o SubSeq(s, k + 1, Len(s)) = s
        BY CutJoined, Zenon DEF Text
      <4>3. SubSeq(s, 1, Len(s)) = s
        BY DEF Text
      <4> DEFINE a == SubSeq(s, 1, k)
                 b == SubSeq(s, k + 1, Len(s))
      <4>4. a \in Text /\ b \in Text /\ a \o b = SubSeq(s, 1, Len(s))
        BY <4>2, <4>3
      <4> HIDE DEF a, b
      <4>5. (w \o a) \o b = w \o (a \o b)
        BY <4>1, <4>4, Zenon
      <4>6. QED
        BY <4>4, <4>5 DEF a, b
    <3>2. QED
      BY <3>1, Zenon
  <2>2. st.wire \o SubSeq(st.log, 1, Len(st.log)) = st.sent
    BY <1>2, <1>3 DEF LogIsQueued, Left
  <2>3. n \in 0 .. Len(st.log)
    BY <1>4, <1>5
  <2>4. QED
    BY <1>4, <1>7, <2>1, <2>2, <2>3, Zenon
<1> HIDE DEF x
<1>11. UsbDomain(st')
  BY <1>2, <1>5, <1>8, <1>9, Zenon DEF UsbDomain
<1>12. LogIsQueued(st')
  <2>1. Left(st') = SubSeq(st.log, n + 1, Len(st.log)) /\ st'.at # "send"
    BY <1>9 DEF Left
  <2>2. QED
    BY <1>2, <1>5, <1>9, <1>10, <2>1, Zenon DEF LogIsQueued
<1>13. TextIsWhole(st')
  BY <1>2, <1>9, Zenon DEF TextIsWhole
<1>14. QED
  BY <1>2, <1>9, <1>11, <1>12, <1>13, Zenon DEF UsbGood

LEMMA ConsumeIsLogged ==
  ASSUME UsbGood(st), Usb!consume
  PROVE  UsbGood(st')
<1> DEFINE l == SubSeq(st.log, st.accepted + 1, Len(st.log))
<1>1. UsbDomain(st) /\ LogIsQueued(st) /\ TextIsWhole(st) /\ (st.unflushed => st.flush)
  BY Zenon DEF UsbGood
<1>2. st.at = "consume"
  BY DEF Usb!consume
<1>3. st.log \in Text /\ Len(st.log) \in Nat /\ st.accepted \in 0 .. Len(st.log)
  BY <1>1, <1>2 DEF UsbDomain, LogIsQueued, Text
<1>4. l \in Text /\ Len(l) <= Len(st.log) /\ Len(l) \in Nat /\ SubSeq(l, 1, Len(l)) = l
  <2>1. l \in Text /\ Len(l) <= Len(st.log) /\ Len(l) \in Nat
    BY <1>3 DEF Text
  <2>2. \A s \in Text : SubSeq(s, 1, Len(s)) = s
    BY DEF Text
  <2>3. QED
    BY <2>1, <2>2, Zenon
<1>5. l = Left(st)
  BY <1>2 DEF Left
<1> HIDE DEF l
<1>6. /\ DOMAIN st' = UsbFields
      /\ st'.log = l /\ st'.wire = st.wire /\ st'.sent = st.sent /\ st'.ends = st.ends
      /\ st'.cr = st.cr /\ st'.accepted = 0 /\ (st'.spliced <=> st.spliced)
      /\ (st'.unflushed <=> st.unflushed) /\ (st'.flush <=> st.flush) /\ st'.at = "report"
      /\ st'.data = <<>>
  <2>1. DOMAIN st = UsbFields
    BY <1>1, Zenon DEF UsbDomain
  <2>2. st' = [st EXCEPT !.log = l, !.data = <<>>, !.accepted = 0, !.at = "report"]
    BY Zenon DEF Usb!consume, Usb!Consumed, l
  <2>3. QED
    BY <2>1, <2>2, ZenonT(60) DEF UsbFields
<1>7. UsbDomain(st')
  <2>1. <<>> \in Text /\ 0 \in Nat
    BY DEF Text
  <2>2. QED
    BY <1>1, <1>4, <1>6, <2>1, Zenon DEF UsbDomain
<1>8. LogIsQueued(st')
  <2>1. st'.at # "send" /\ st'.at # "consume"
    BY <1>6
  <2>2. Left(st') = l
    BY <1>4, <1>6, <2>1, Zenon DEF Left
  <2>3. Len(l) <= UsbLogBytes
    <3>1. Len(st.log) <= UsbLogBytes
      BY <1>1, Zenon DEF LogIsQueued
    <3>2. QED
      BY <1>3, <1>4, <3>1, UsbAssumption
  <2>4. QED
    BY <1>1, <1>5, <1>6, <2>1, <2>2, <2>3, Zenon DEF LogIsQueued
<1>9. TextIsWhole(st')
  BY <1>1, <1>6, Zenon DEF TextIsWhole
<1>10. QED
  BY <1>1, <1>6, <1>7, <1>8, <1>9, Zenon DEF UsbGood

LEMMA ReportIsLogged ==
  ASSUME UsbGood(st), Usb!report
  PROVE  UsbGood(st')
<1> DEFINE q == Usb!Queued(st, Usb!Report, FALSE)
           r == [q EXCEPT !.reported = st.snapshot]
           b == IF st.connected /\ st.snapshot # st.reported /\ Len(Usb!Report) <= Usb!Room(st)
                THEN r ELSE st
<1>1. Usb!Report \in Text
  <2>1. "!" \in Characters /\ "\r" \in Characters /\ "\n" \in Characters
    BY DEF Characters
  <2>2. \A x, y, z \in Characters : <<x, y, z>> \in Seq(Characters)
    OBVIOUS
  <2>3. QED
    BY <2>1, <2>2, Zenon DEF Text, Usb!Report
<1>2. \A before \in BOOLEAN : CrLf(before, Usb!Report) /\ ~EndsInCr(before, Usb!Report)
  BY DEF CrLf, EndsInCr, Usb!Report
<1>3. st.cr \in BOOLEAN /\ DOMAIN st = UsbFields /\ st.at = "report"
  BY Zenon DEF UsbGood, UsbDomain, Usb!report
<1>4. Len(Usb!Report) <= Usb!Room(st) => UsbGood(q) /\ q.at = st.at
  BY <1>1, <1>2, <1>3, QueuedIsGood, Zenon
<1> HIDE DEF q
<1>5. UsbGood(q) => SameLog(q, r)
  <2>1. UsbGood(q) => DOMAIN q = UsbFields
    BY Zenon DEF UsbGood, UsbDomain
  <2>2. QED
    BY <2>1, ZenonT(60) DEF SameLog, UsbFields
<1> HIDE DEF r
<1>6. UsbGood(b) /\ b.at = "report"
  <2>1. UsbGood(q) => UsbGood(r) /\ r.at = q.at
    BY <1>5, SameLogIsGood, Zenon DEF SameLog
  <2>2. QED
    BY <1>3, <1>4, <2>1, Zenon
<1> HIDE DEF b
<1>7. st' = [b EXCEPT !.at = "idle", !.snapshot = 0]
  BY Zenon DEF Usb!report, b, r, q
<1>8. UsbDomain(b) /\ LogIsQueued(b) /\ TextIsWhole(b) /\ (b.unflushed => b.flush)
  BY <1>6, Zenon DEF UsbGood
<1>9. /\ DOMAIN st' = UsbFields
      /\ st'.log = b.log /\ st'.wire = b.wire /\ st'.sent = b.sent /\ st'.ends = b.ends
      /\ st'.cr = b.cr /\ st'.accepted = b.accepted /\ (st'.spliced <=> b.spliced)
      /\ (st'.unflushed <=> b.unflushed) /\ (st'.flush <=> b.flush) /\ st'.at = "idle"
      /\ st'.data = b.data
  <2>1. DOMAIN b = UsbFields
    BY <1>8, Zenon DEF UsbDomain
  <2>2. QED
    BY <1>7, <2>1, ZenonT(60) DEF UsbFields
<1>10. LogIsQueued(st')
  <2>1. st'.at # "send" /\ st'.at # "consume" /\ b.at # "consume"
    BY <1>6, <1>9
  <2>2. Left(st') = Left(b)
    BY <1>9, <2>1, Zenon DEF Left
  <2>3. QED
    BY <1>8, <1>9, <2>1, <2>2, Zenon DEF LogIsQueued
<1>11. UsbDomain(st') /\ TextIsWhole(st')
  BY <1>8, <1>9, Zenon DEF UsbDomain, TextIsWhole
<1>12. QED
  BY <1>8, <1>9, <1>10, <1>11, Zenon DEF UsbGood

(* The terminal's bytes come when the log is empty: everything queued is on *)
(* the wire, and that ends with a message.                                  *)
LEMMA TerminalIsLogged ==
  ASSUME UsbGood(st), Usb!usb_console_write
  PROVE  UsbGood(st')
<1>1. PICK line \in BOOLEAN :
        st' = [st EXCEPT !.writes = @ + 1, !.spliced = @ \/ Len(st.wire) \notin st.ends,
                         !.flush = ~line, !.unflushed = ~line]
  BY Zenon DEF Usb!usb_console_write
<1>2. UsbDomain(st) /\ LogIsQueued(st) /\ TextIsWhole(st)
  BY Zenon DEF UsbGood
<1>3. st.wire = st.sent
  <2>1. st.at # "consume" /\ st.log = <<>>
    BY DEF Usb!usb_console_write, Usb!Pending
  <2>2. Left(st) = <<>>
    BY <2>1 DEF Left
  <2>3. st.wire \o <<>> = st.wire
    BY <1>2 DEF UsbDomain, Text
  <2>4. QED
    BY <1>2, <2>2, <2>3, Zenon DEF LogIsQueued
<1>4. Len(st.wire) \in st.ends /\ ~st.spliced
  BY <1>2, <1>3, Zenon DEF TextIsWhole
<1>5. /\ DOMAIN st' = UsbFields
      /\ st'.log = st.log /\ st'.wire = st.wire /\ st'.sent = st.sent /\ st'.ends = st.ends
      /\ st'.cr = st.cr /\ st'.accepted = st.accepted /\ ~st'.spliced
      /\ (st'.unflushed <=> st'.flush) /\ st'.at = st.at /\ st'.data = st.data
  <2>1. DOMAIN st = UsbFields
    BY <1>2, Zenon DEF UsbDomain
  <2>2. QED
    BY <1>1, <1>4, <2>1, ZenonT(60) DEF UsbFields
<1>6. UsbDomain(st') /\ LogIsQueued(st') /\ TextIsWhole(st')
  BY <1>2, <1>5, Zenon DEF UsbDomain, LogIsQueued, TextIsWhole, Left
<1>7. QED
  BY <1>5, <1>6, Zenon DEF UsbGood

LEMMA UsbInit ==
  ASSUME Usb!Init
  PROVE  UsbGood(st)
<1>1. /\ DOMAIN st = UsbFields
      /\ st.log = <<>> /\ ~st.cr /\ st.cr \in BOOLEAN /\ st.wire = <<>> /\ st.sent = <<>>
      /\ st.ends = {0} /\ st.at = "idle" /\ st.data = <<>> /\ st.accepted = 0
      /\ ~st.unflushed /\ ~st.spliced
  BY DEF Usb!Init, UsbFields
<1>2. /\ <<>> \in Text /\ Len(<<>>) = 0 /\ 0 \in {0} /\ CrLf(FALSE, <<>>) /\ ~EndsInCr(FALSE, <<>>)
      /\ <<>> \o SubSeq(<<>>, 1, 0) = <<>> /\ 0 <= UsbLogBytes /\ 0 \in Nat
  BY UsbAssumption DEF Text, CrLf, EndsInCr
<1>3. st.at # "send" /\ st.at # "consume"
  BY <1>1
<1>4. UsbDomain(st) /\ LogIsQueued(st) /\ TextIsWhole(st)
  BY <1>1, <1>2, <1>3, Zenon DEF UsbDomain, LogIsQueued, TextIsWhole, Left
<1>5. QED
  BY <1>1, <1>4, Zenon DEF UsbGood

LEMMA UsbStep ==
  ASSUME UsbGood(st), Usb!Next
  PROVE  UsbGood(st')
<1>1. CASE Usb!connect
  <2>1. DOMAIN st = UsbFields /\ st' = [st EXCEPT !.cable = ~@]
    BY <1>1, Zenon DEF UsbGood, UsbDomain, Usb!connect
  <2>2. SameLog(st, st')
    BY <2>1, ZenonT(60) DEF SameLog, UsbFields
  <2>3. QED
    BY <2>2, SameLogIsGood, Zenon
<1>2. QED
  BY <1>1, LogIsWritten, ServiceIsLogged, SendIsLogged, ConsumeIsLogged, ReportIsLogged,
     TerminalIsLogged, Zenon DEF Usb!Next

(* The USB host sees whole messages in order, whatever is printed and at    *)
(* whatever rate it takes them (log_write, z80_usb_console_service,         *)
(* z80_usb_console_write).                                                  *)
THEOREM LogHolds == ServicesSpec => []LogIsWhole
<1> DEFINE Inv == part = "usb" => UsbGood(st)
<1>1. ServicesInit => Inv
  BY UsbInit DEF ServicesInit
<1>2. Inv /\ [ServicesNext]_vars => Inv'
  <2> SUFFICES ASSUME Inv, [ServicesNext]_vars, part' = "usb" PROVE UsbGood(st')
    OBVIOUS
  <2>1. CASE UNCHANGED vars
    <3>1. part = "usb" /\ st' = st
      BY <2>1 DEF vars
    <3>2. QED
      BY <3>1
  <2>2. CASE ServicesNext
    <3>1. part = "usb" /\ Usb!Next
      BY <2>2 DEF ServicesNext
    <3>2. QED
      BY <3>1, UsbStep
  <2>3. QED
    BY <2>1, <2>2
<1>3. Inv => LogIsWhole
  <2> SUFFICES ASSUME UsbGood(st) PROVE Usb!LogIsWhole
    BY DEF LogIsWhole
  <2>1. UsbDomain(st) /\ LogIsQueued(st) /\ TextIsWhole(st) /\ (st.unflushed => st.flush)
    BY Zenon DEF UsbGood
  <2>2. st.wire \o Left(st) = st.sent /\ Left(st) \in Text /\ st.wire \in Text
    <3>1. <<>> \in Text /\ (st.at = "consume" => st.accepted <= Len(st.log))
      BY <2>1 DEF LogIsQueued, Text
    <3>2. QED
      BY <2>1, <3>1, LeftFacts, Zenon DEF LogIsQueued, UsbDomain
  <2>3. ASSUME NEW i \in DOMAIN st.wire, st.wire[i] = "\n" PROVE i > 1 /\ st.wire[i - 1] = "\r"
    <3>1. \A a, b \in Text : \A j \in DOMAIN a :
            /\ j \in DOMAIN (a \o b) /\ (a \o b)[j] = a[j] /\ j \in Nat /\ j >= 1
            /\ j # 1 => (a \o b)[j - 1] = a[j - 1]
      BY DEF Text
    <3>2. i \in DOMAIN st.sent /\ st.sent[i] = "\n" /\ i \in Nat /\ i >= 1
          /\ (i # 1 => st.sent[i - 1] = st.wire[i - 1])
      <4>1. /\ i \in DOMAIN (st.wire \o Left(st)) /\ (st.wire \o Left(st))[i] = st.wire[i]
            /\ i \in Nat /\ i >= 1
            /\ i # 1 => (st.wire \o Left(st))[i - 1] = st.wire[i - 1]
        BY <2>2, <2>3, <3>1
      <4>2. QED
        BY <2>2, <2>3, <4>1, Zenon
    <3>3. i # 1 /\ st.sent[i - 1] = "\r"
      BY <2>1, <3>2, Zenon DEF TextIsWhole, CrLf
    <3>4. QED
      BY <3>2, <3>3
  <2>4. QED
    BY <2>1, <2>2, <2>3, Zenon DEF Usb!LogIsWhole, LogIsQueued, TextIsWhole, Left
<1>4. QED
  BY <1>1, <1>2, <1>3, PTL DEF ServicesSpec
=============================================================================
