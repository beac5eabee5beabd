----------------------------- MODULE PortProofs -----------------------------
(***************************************************************************)
(* Theorems about the services that fetch something: the weather service   *)
(* and the HTTP file port, for every value of the parameters of Ports.     *)
(*                                                                         *)
(* The chunks of a response are taken off by a recursive function.  What it *)
(* computes is proved by induction on the positions of the response;        *)
(* induction is taken from the well-founded order of the naturals, for a    *)
(* set of numbers.                                                          *)
(***************************************************************************)
EXTENDS Ports, FiniteSetTheorems, WellFoundedInduction, TLAPS

-----------------------------------------------------------------------------
(* Induction.                                                               *)

LEMMA SetInduction ==
  ASSUME NEW S, 0 \in S, \A n \in Nat : n \in S => n + 1 \in S
  PROVE  \A n \in Nat : n \in S
<1> SUFFICES ASSUME NEW k \in Nat, k \notin S PROVE FALSE
  OBVIOUS
<1> DEFINE R == OpToRel(<, Nat)
           T == {n \in Nat : n \notin S}
<1>1. IsWellFoundedOn(R, Nat)
  BY NatLessThanWellFounded, Zenon
<1>2. T \subseteq Nat /\ T # {}
  OBVIOUS
<1>3. \A a, b \in Nat : a < b => <<a, b>> \in R
  BY DEF OpToRel
<1> HIDE DEF R
<1>4. PICK x \in T : \A y \in T : ~(<<y, x>> \in R)
  BY <1>1, <1>2, WFMin, Zenon
<1>5. x # 0 /\ x \in Nat /\ x \notin S
  OBVIOUS
<1>6. x - 1 \in Nat /\ x - 1 \notin S /\ x - 1 < x
  BY <1>5
<1> QED
  BY <1>3, <1>4, <1>5, <1>6

(* f starts with b and takes the step F from each number to the next. *)
StepsFrom(f, b, m, F) == f[0] = b /\ \A n \in 0 .. m : n # 0 => f[n] = F[<<f[n - 1], n>>]

(* A step function on a set, applied to 0, 1, ..., m - 1 in turn, defines a *)
(* function on 0 .. m.                                                      *)
LEMMA StepsDefineFunction ==
  ASSUME NEW S, NEW b \in S, NEW m \in Nat, NEW F \in [S \X Nat -> S]
  PROVE  \E f \in [0 .. m -> S] : StepsFrom(f, b, m, F)
<1> USE DEF StepsFrom
<1> DEFINE Def(f, k) == StepsFrom(f, b, k, F)
           D == {k \in Nat : \E f \in [0 .. k -> S] : Def(f, k)}
<1>1. 0 \in D
  <2>1. [n \in 0 .. 0 |-> b] \in [0 .. 0 -> S] /\ Def([n \in 0 .. 0 |-> b], 0)
    OBVIOUS
  <2> QED
    BY <2>1
<1>2. ASSUME NEW k \in Nat, k \in D PROVE k + 1 \in D
  <2>1. PICK f \in [0 .. k -> S] : Def(f, k)
    BY <1>2
  <2> DEFINE g == [n \in 0 .. k + 1 |-> IF n = k + 1 THEN F[<<f[k], k + 1>>] ELSE f[n]]
  <2>2. F[<<f[k], k + 1>>] \in S
    <3>1. f[k] \in S
      OBVIOUS
    <3> QED
      BY <3>1
  <2>3. \A n \in 0 .. k + 1 : n # k + 1 => n \in 0 .. k
    OBVIOUS
  <2>4. g \in [0 .. k + 1 -> S]
    BY <2>2, <2>3
  <2>5. \A n \in 0 .. k : g[n] = f[n]
    OBVIOUS
  <2>6. g[k + 1] = F[<<f[k], k + 1>>]
    OBVIOUS
  <2> HIDE DEF g
  <2>7. ASSUME NEW n \in 0 .. k + 1, n # 0 PROVE g[n] = F[<<g[n - 1], n>>]
    <3>1. CASE n = k + 1
      <4>1. n - 1 = k /\ g[n - 1] = f[k]
        BY <3>1, <2>5
      <4> QED
        BY <3>1, <4>1, <2>6
    <3>2. CASE n # k + 1
      <4>1. n \in 0 .. k /\ n - 1 \in 0 .. k
        BY <2>7, <3>2
      <4> QED
        BY <2>1, <2>5, <2>7, <4>1
    <3> QED
      BY <3>1, <3>2
  <2>8. Def(g, k + 1)
    BY <2>1, <2>5, <2>7
  <2> QED
    BY <2>4, <2>8
<1> HIDE DEF D
<1>3. m \in D
  BY <1>1, <1>2, SetInduction
<1> QED
  BY <1>3 DEF D

LEMMA LeastNumber ==
  ASSUME NEW S \in SUBSET Nat, S # {}
  PROVE  \E x \in S : \A y \in S : x =< y
<1> DEFINE R == OpToRel(<, Nat)
<1>1. IsWellFoundedOn(R, Nat)
  BY NatLessThanWellFounded, Zenon
<1>2. \A a, b \in Nat : a < b => <<a, b>> \in R
  BY DEF OpToRel
<1> HIDE DEF R
<1>3. \E x \in S : \A y \in S : ~(<<y, x>> \in R)
  BY <1>1, WFMin, Zenon
<1>4. PICK x \in S : \A y \in S : ~(<<y, x>> \in R)
  BY <1>3, Zenon
<1>5. \A y \in S : ~(y < x)
  BY <1>2, <1>4, Zenon
<1>6. x \in Nat /\ \A y \in S : y \in Nat
  OBVIOUS
<1>7. \A y \in S : x =< y
  BY <1>5, <1>6
<1>8. QED
  BY <1>7, Zenon

-----------------------------------------------------------------------------
(* The weather service.                                                     *)

Served == WeatherPlaces \ {WeatherInvalid, WeatherBadPath}
WeatherItems ==
  UNION {{wire[i] : i \in DOMAIN wire} : wire \in UNION {WeatherWires[q] : q \in DOMAIN WeatherWires}}
BytesAreOf(s, p) == \A i \in DOMAIN s : s[i].kind = "byte" => s[i].place = p

NetFields ==
  {"active", "done", "failure", "client", "sent", "path", "rest", "wire", "lookups"}
ServiceFields ==
  {"settings", "config", "online", "was_online", "fields", "pending", "have_data", "status",
   "phase", "retries", "due", "net"}
FieldNames == {"weather", "forecast", "error"}

(* The client. *)
ClientIsOurs(n, place) ==
  /\ DOMAIN n = NetFields
  /\ n.wire \in Seq(WeatherItems) /\ n.rest \in Seq(WeatherItems)
  /\ n.active => ~n.done
  /\ ~n.active => ~n.client /\ n.rest = <<>>
  /\ n.active \/ (n.done /\ ~n.failure) =>
       n.path \in {place} \X Weather!Kinds /\ BytesAreOf(n.wire, place) /\ BytesAreOf(n.rest, place)

FieldsAreOurs(w) ==
  /\ DOMAIN w.fields = FieldNames /\ DOMAIN w.pending = FieldNames
  /\ w.have_data => w.config # Weather!None /\ w.fields.weather = w.config
                     /\ w.fields.forecast \in {w.config, Weather!None}
  /\ w.phase \in {2, 3} => w.pending.weather = w.config

PhaseIsSound(w) ==
  /\ w.phase \in {0, 1, 2, 3}
  /\ w.phase # 0 => w.config \in Served
  /\ w.status = "READY" => w.have_data
  /\ w.status = "FETCHING" <=> w.phase # 0

RequestEnds(w) == w.phase \in {1, 3} <=> w.net.active \/ w.net.done

WeatherCore(w) ==
  /\ DOMAIN w = ServiceFields
  /\ w.settings \in WeatherPlaces \cup {WeatherInvalid}
  /\ w.config \in WeatherPlaces \cup {WeatherInvalid, Weather!None}
  /\ ClientIsOurs(w.net, w.config) /\ FieldsAreOurs(w) /\ PhaseIsSound(w)

WeatherGood(w) == WeatherCore(w) /\ RequestEnds(w)

LEMMA CompleteFields ==
  ASSUME NEW n, DOMAIN n = NetFields, NEW f, NEW m, m = Weather!complete(n, f)
  PROVE  /\ DOMAIN m = NetFields /\ ~m.client /\ m.rest = <<>> /\ (m.failure <=> f)
         /\ ~m.active /\ m.done /\ m.path = n.path /\ m.wire = n.wire
  BY ZenonT(60) DEF Weather!complete, Weather!Release, NetFields

LEMMA CancelFields ==
  ASSUME NEW n, DOMAIN n = NetFields, NEW m, m = Weather!cancel(n)
  PROVE  /\ DOMAIN m = NetFields /\ ~m.client /\ m.rest = <<>>
         /\ ~m.active /\ ~m.done /\ m.path = n.path /\ m.wire = n.wire
  BY ZenonT(60) DEF Weather!cancel, Weather!Release, NetFields

LEMMA StartFields ==
  ASSUME NEW n, DOMAIN n = NetFields, NEW path, NEW fails, NEW m, m = Weather!start(n, path, fails),
         ~fails
  PROVE  /\ DOMAIN m = NetFields /\ (m.client <=> n.client) /\ m.rest = n.rest
         /\ m.active /\ ~m.done /\ m.path = path /\ m.wire = <<>>
<1>1. m = [Weather!NoNet EXCEPT !.active = TRUE, !.path = path, !.client = n.client, !.rest = n.rest,
                     !.lookups = Weather!Stale(n.lookups) \cup {"current"}]
  BY Zenon DEF Weather!start
<1>2. /\ DOMAIN Weather!NoNet = NetFields /\ ~Weather!NoNet.done /\ Weather!NoNet.wire = <<>>
  BY DEF Weather!NoNet, NetFields
<1>3. QED
  BY <1>1, <1>2, ZenonT(60) DEF NetFields

LEMMA FailFields ==
  ASSUME NEW w, DOMAIN w = ServiceFields, NEW v, v = Weather!fail(w)
  PROVE  /\ DOMAIN v = ServiceFields /\ v.fields = [w.fields EXCEPT !.error = TRUE]
         /\ v.status = "ERROR" /\ v.phase = 0 /\ v.net = w.net /\ v.config = w.config
         /\ v.settings = w.settings /\ v.pending = w.pending /\ (v.have_data <=> w.have_data)
  BY ZenonT(60) DEF Weather!fail, ServiceFields

LEMMA ErrorFields ==
  ASSUME NEW f, DOMAIN f = FieldNames, NEW e, NEW g, g = [f EXCEPT !.error = e]
  PROVE  DOMAIN g = FieldNames /\ g.weather = f.weather /\ g.forecast = f.forecast
  BY ZenonT(60) DEF FieldNames

LEMMA IdleIsOurs ==
  ASSUME NEW n, DOMAIN n = NetFields, n.wire \in Seq(WeatherItems), ~n.active, ~n.client,
         n.rest = <<>>, ~n.done \/ n.failure, NEW place
  PROVE  ClientIsOurs(n, place)
<1>1. <<>> \in Seq(WeatherItems)
  OBVIOUS
<1>2. QED
  BY <1>1, Zenon DEF ClientIsOurs


LEMMA FailIsGood ==
  ASSUME NEW w, WeatherCore(w), ~w.net.active, ~w.net.done
  PROVE  WeatherGood(Weather!fail(w))
<1> DEFINE v == Weather!fail(w)
<1>1. /\ DOMAIN v = ServiceFields /\ v.fields = [w.fields EXCEPT !.error = TRUE]
      /\ v.status = "ERROR" /\ v.phase = 0 /\ v.net = w.net /\ v.config = w.config
      /\ v.settings = w.settings /\ v.pending = w.pending /\ (v.have_data <=> w.have_data)
  BY FailFields, Zenon DEF WeatherCore
<1> HIDE DEF v
<1>2. /\ DOMAIN v.fields = FieldNames /\ v.fields.weather = w.fields.weather
      /\ v.fields.forecast = w.fields.forecast
  <2>1. DOMAIN w.fields = FieldNames
    BY Zenon DEF WeatherCore, FieldsAreOurs
  <2>2. QED
    BY <1>1, <2>1, ErrorFields
<1>3. FieldsAreOurs(v)
  BY <1>1, <1>2 DEF WeatherCore, FieldsAreOurs
<1>4. PhaseIsSound(v) /\ RequestEnds(v)
  BY <1>1 DEF WeatherCore, PhaseIsSound, RequestEnds
<1>5. QED
  BY <1>1, <1>3, <1>4, Zenon DEF v, WeatherCore, WeatherGood

LEMMA LoadIsGood ==
  ASSUME NEW w, WeatherGood(w)
  PROVE  WeatherGood(Weather!load_config(w)) /\ Weather!load_config(w).config # Weather!None
<1> DEFINE v == [w EXCEPT !.net = Weather!cancel(@), !.config = w.settings,
                    !.fields = Weather!NoFields, !.have_data = FALSE, !.phase = 0,
                    !.retries = 0, !.status = "NONE"]
<1>1. /\ DOMAIN v = ServiceFields /\ v.net = Weather!cancel(w.net) /\ v.config = w.settings
      /\ v.fields = Weather!NoFields /\ ~v.have_data /\ v.phase = 0 /\ v.status = "NONE"
      /\ v.settings = w.settings /\ v.pending = w.pending
  BY ZenonT(60) DEF WeatherGood, WeatherCore, ServiceFields
<1> HIDE DEF v
<1>2. w.settings # Weather!None
  BY WeatherAssumption, Zenon DEF WeatherGood, WeatherCore
<1>3. /\ ~v.net.active /\ ~v.net.done /\ ClientIsOurs(v.net, v.config)
  <2>1. DOMAIN w.net = NetFields /\ w.net.wire \in Seq(WeatherItems)
    BY Zenon DEF WeatherGood, WeatherCore, ClientIsOurs
  <2>2. QED
    BY <1>1, <2>1, CancelFields, IdleIsOurs, Zenon
<1>4. FieldsAreOurs(v)
  <2>1. DOMAIN Weather!NoFields = FieldNames
    BY DEF Weather!NoFields, FieldNames
  <2>2. QED
    BY <1>1, <2>1 DEF FieldsAreOurs, WeatherGood, WeatherCore
<1>5. PhaseIsSound(v) /\ RequestEnds(v)
  BY <1>1, <1>3 DEF PhaseIsSound, RequestEnds
<1>6. WeatherGood(v)
  BY <1>1, <1>3, <1>4, <1>5, Zenon DEF WeatherGood, WeatherCore
<1>7. WeatherGood(Weather!fail(v)) /\ Weather!fail(v).config = v.config
  BY <1>3, <1>6, FailIsGood, FailFields, Zenon DEF WeatherGood, WeatherCore
<1>8. Weather!load_config(w) =
        IF w.settings = w.config THEN w
        ELSE IF w.settings = WeatherInvalid THEN Weather!fail(v) ELSE v
  BY Zenon DEF Weather!load_config, v
<1>9. QED
  BY <1>1, <1>2, <1>6, <1>7, <1>8, Zenon

LEMMA OfflineIsGood ==
  ASSUME NEW w, WeatherGood(w)
  PROVE  WeatherGood(Weather!Offline(w))
<1> DEFINE n == [w EXCEPT !.was_online = FALSE]
           s == IF w.have_data THEN "READY" ELSE "NONE"
           v == [n EXCEPT !.net = Weather!cancel(@), !.phase = 0, !.fields.error = TRUE,
                          !.status = s]
<1>0. DOMAIN w = ServiceFields
  BY Zenon DEF WeatherGood, WeatherCore
<1>1. /\ DOMAIN n = ServiceFields /\ n.settings = w.settings /\ n.config = w.config
      /\ n.fields = w.fields /\ n.pending = w.pending /\ (n.have_data <=> w.have_data)
      /\ n.status = w.status /\ n.phase = w.phase /\ n.net = w.net
  BY <1>0, ZenonT(60) DEF ServiceFields
<1>2. WeatherGood(n)
  <2> HIDE DEF n
  <2>1. QED
    BY <1>1 DEF WeatherGood, WeatherCore, FieldsAreOurs, PhaseIsSound, RequestEnds
<1> HIDE DEF n, s
<1>3. /\ DOMAIN v = ServiceFields /\ v.settings = n.settings /\ v.config = n.config
      /\ v.fields = [n.fields EXCEPT !.error = TRUE] /\ v.pending = n.pending
      /\ (v.have_data <=> n.have_data) /\ v.status = s /\ v.phase = 0
      /\ v.net = Weather!cancel(n.net)
  BY <1>1, ZenonT(60) DEF ServiceFields
<1> HIDE DEF v
<1>4. /\ ~v.net.active /\ ~v.net.done /\ ClientIsOurs(v.net, v.config)
  <2>1. DOMAIN n.net = NetFields /\ n.net.wire \in Seq(WeatherItems)
    BY <1>2, Zenon DEF WeatherGood, WeatherCore, ClientIsOurs
  <2>2. /\ DOMAIN v.net = NetFields /\ ~v.net.client /\ v.net.rest = <<>>
        /\ ~v.net.active /\ ~v.net.done /\ v.net.wire = n.net.wire
    BY <1>3, <2>1, CancelFields, ZenonT(60)
  <2>3. QED
    BY <2>1, <2>2, IdleIsOurs, ZenonT(60)
<1>5. /\ DOMAIN v.fields = FieldNames /\ v.fields.weather = n.fields.weather
      /\ v.fields.forecast = n.fields.forecast
  <2>1. DOMAIN n.fields = FieldNames
    BY <1>2, Zenon DEF WeatherGood, WeatherCore, FieldsAreOurs
  <2>2. QED
    BY <1>3, <2>1, ErrorFields
<1>6. FieldsAreOurs(v)
  BY <1>2, <1>3, <1>5 DEF WeatherGood, WeatherCore, FieldsAreOurs
<1>7. PhaseIsSound(v) /\ RequestEnds(v)
  BY <1>1, <1>3, <1>4 DEF PhaseIsSound, RequestEnds, s
<1>8. WeatherGood(v)
  BY <1>2, <1>3, <1>4, <1>6, <1>7, Zenon DEF WeatherGood, WeatherCore
<1>9. Weather!Offline(w) = IF w.phase = 0 THEN n ELSE v
  BY Zenon DEF Weather!Offline, n, v, s
<1>10. QED
  BY <1>2, <1>8, <1>9, Zenon

(* What a response is taken for: items of the place it was asked for.       *)
ResponseIsOurs(w, failed, body) ==
  w.phase \in {1, 3} /\ ~failed => body \in Seq(WeatherItems) /\ BytesAreOf(body, w.config)

LEMMA ResultIsGood ==
  ASSUME NEW w, WeatherCore(w), ~w.net.active, ~w.net.done, NEW failed, NEW body,
         ResponseIsOurs(w, failed, body)
  PROVE  WeatherGood(Weather!z80_weather_result(w, failed, body))
<1> DEFINE kind == IF w.phase = 1 THEN "weather" ELSE "forecast"
           parsed == ~failed /\ Len(body) = 1 /\ body[1].kind = "byte" /\ body[1].of = kind
           fc == IF parsed THEN body[1].place ELSE Weather!None
           shown == [w.pending EXCEPT !.forecast = fc, !.error = ~parsed]
           half == [w EXCEPT !.pending.weather = body[1].place, !.phase = 2, !.due = "now"]
           full == [w EXCEPT !.fields = shown, !.have_data = TRUE, !.status = "READY",
                             !.phase = 0, !.due = "refresh"]
<1>0. DOMAIN w = ServiceFields
  BY Zenon DEF WeatherCore
<1>1. Weather!z80_weather_result(w, failed, body) =
        CASE w.phase \notin {1, 3} -> w
          [] w.phase = 1 /\ ~parsed -> Weather!fail(w)
          [] w.phase = 1 /\ parsed -> half
          [] OTHER -> full
  BY DEF Weather!z80_weather_result
<1>2. parsed /\ w.phase \in {1, 3} => body[1].place = w.config
  BY DEF ResponseIsOurs, BytesAreOf
<1>3. w.phase \in {1, 3} => w.config \in Served /\ w.config # Weather!None
  <2>1. w.phase \in {1, 3} => w.config \in Served
    BY DEF WeatherCore, PhaseIsSound
  <2>2. QED
    BY <2>1, WeatherAssumption, Zenon DEF Served
<1> HIDE DEF parsed
<1>4. CASE w.phase \notin {1, 3}
  <2>1. WeatherGood(w)
    BY <1>4 DEF WeatherGood, RequestEnds
  <2>2. QED
    BY <1>1, <1>4, <2>1
<1>5. CASE w.phase = 1 /\ ~parsed
  BY <1>1, <1>5, FailIsGood
<1>6. CASE w.phase = 1 /\ parsed
  <2>1. /\ DOMAIN half = ServiceFields /\ half.settings = w.settings /\ half.config = w.config
        /\ half.fields = w.fields
        /\ half.pending = [w.pending EXCEPT !.weather = body[1].place]
        /\ (half.have_data <=> w.have_data) /\ half.status = w.status /\ half.phase = 2
        /\ half.net = w.net
    BY <1>0, ZenonT(60) DEF ServiceFields
  <2> HIDE DEF half
  <2>2. DOMAIN half.pending = FieldNames /\ half.pending.weather = body[1].place
    <3>1. DOMAIN w.pending = FieldNames
      BY Zenon DEF WeatherCore, FieldsAreOurs
    <3>2. QED
      BY <2>1, <3>1, ZenonT(60) DEF FieldNames
  <2>3. FieldsAreOurs(half)
    BY <1>2, <1>6, <2>1, <2>2 DEF WeatherCore, FieldsAreOurs
  <2>4. PhaseIsSound(half) /\ RequestEnds(half)
    BY <1>6, <2>1 DEF WeatherCore, PhaseIsSound, RequestEnds
  <2>5. WeatherGood(half)
    BY <2>1, <2>3, <2>4, Zenon DEF WeatherGood, WeatherCore
  <2>6. QED
    BY <1>1, <1>6, <2>5
<1>7. CASE w.phase = 3
  <2>1. /\ DOMAIN full = ServiceFields /\ full.settings = w.settings /\ full.config = w.config
        /\ full.fields = shown /\ full.pending = w.pending
        /\ full.have_data /\ full.status = "READY" /\ full.phase = 0 /\ full.net = w.net
    BY <1>0, ZenonT(60) DEF ServiceFields
  <2>2. DOMAIN shown = FieldNames /\ shown.weather = w.pending.weather /\ shown.forecast = fc
    <3> HIDE DEF fc
    <3>1. DOMAIN w.pending = FieldNames
      BY Zenon DEF WeatherCore, FieldsAreOurs
    <3>2. QED
      BY <3>1, ZenonT(60) DEF FieldNames
  <2>3. fc \in {w.config, Weather!None}
    BY <1>2, <1>7
  <2> HIDE DEF full, shown, fc
  <2>4. FieldsAreOurs(full)
    BY <1>3, <1>7, <2>1, <2>2, <2>3 DEF WeatherCore, FieldsAreOurs
  <2>5. PhaseIsSound(full) /\ RequestEnds(full)
    BY <2>1 DEF PhaseIsSound, RequestEnds
  <2>6. WeatherGood(full)
    BY <2>1, <2>4, <2>5, Zenon DEF WeatherGood, WeatherCore
  <2>7. QED
    BY <1>1, <1>7, <2>6
<1>8. QED
  BY <1>4, <1>5, <1>6, <1>7

LEMMA FetchIsGood ==
  ASSUME NEW w, WeatherGood(w), w.phase \in {0, 2}, w.config \notin {WeatherInvalid, Weather!None},
         NEW kind, kind = (IF w.phase = 2 THEN "forecast" ELSE "weather"),
         NEW noStart, NEW fails
  PROVE  WeatherGood(Weather!Fetch(w, kind, noStart, fails))
<1> DEFINE p == IF kind = "weather" THEN [w EXCEPT !.pending = Weather!NoFields] ELSE w
           k == IF kind = "weather" THEN 1 ELSE 3
           n == [p EXCEPT !.phase = k, !.status = "FETCHING"]
           m == Weather!start(w.net, <<w.config, kind>>, fails)
           v == [n EXCEPT !.net = m]
<1>0. /\ DOMAIN w = ServiceFields /\ ~w.net.active /\ ~w.net.done /\ WeatherCore(w)
      /\ DOMAIN w.net = NetFields /\ ~w.net.client /\ w.net.rest = <<>>
      /\ w.net.wire \in Seq(WeatherItems)
  BY DEF WeatherGood, WeatherCore, RequestEnds, ClientIsOurs
<1>1. kind \in Weather!Kinds
  BY DEF Weather!Kinds
<1>2. /\ DOMAIN p = ServiceFields /\ p.settings = w.settings /\ p.config = w.config
      /\ p.fields = w.fields /\ (p.have_data <=> w.have_data) /\ p.net = w.net
      /\ p.pending = (IF kind = "weather" THEN Weather!NoFields ELSE w.pending)
  <2>1. CASE kind = "weather"
    BY <1>0, <2>1, ZenonT(60) DEF ServiceFields
  <2>2. CASE kind # "weather"
    BY <1>0, <2>2, Zenon
  <2>3. QED
    BY <2>1, <2>2, Zenon
<1> HIDE DEF p, k
<1>3. /\ DOMAIN n = ServiceFields /\ n.settings = w.settings /\ n.config = w.config
      /\ n.fields = w.fields /\ (n.have_data <=> w.have_data) /\ n.net = w.net
      /\ n.pending = p.pending /\ n.phase = k /\ n.status = "FETCHING"
  BY <1>2, ZenonT(60) DEF ServiceFields
<1> HIDE DEF n, m
<1>4. FieldsAreOurs(n)
  <2>1. DOMAIN n.pending = FieldNames
    <3>1. DOMAIN Weather!NoFields = FieldNames
      BY DEF Weather!NoFields, FieldNames
    <3>2. DOMAIN w.pending = FieldNames
      BY <1>0, Zenon DEF WeatherCore, FieldsAreOurs
    <3>3. QED
      BY <1>2, <1>3, <3>1, <3>2, Zenon
  <2>2. n.phase \in {2, 3} => kind # "weather" /\ w.phase = 2
    BY <1>3 DEF k
  <2>3. n.phase \in {2, 3} => n.pending = w.pending
    BY <1>2, <1>3, <2>2, Zenon
  <2>4. n.phase \in {2, 3} => n.pending.weather = n.config
    BY <1>0, <1>3, <2>2, <2>3 DEF WeatherCore, FieldsAreOurs
  <2>5. /\ DOMAIN n.fields = FieldNames
        /\ n.have_data => n.config # Weather!None /\ n.fields.weather = n.config
                          /\ n.fields.forecast \in {n.config, Weather!None}
    BY <1>0, <1>3, Zenon DEF WeatherCore, FieldsAreOurs
  <2>6. QED
    BY <2>1, <2>4, <2>5, Zenon DEF FieldsAreOurs
<1>5. CASE w.config = WeatherBadPath
  <2>1. Weather!Fetch(w, kind, noStart, fails) = Weather!fail(w)
    BY <1>5, Zenon DEF Weather!Fetch
  <2>2. QED
    BY <1>0, <2>1, FailIsGood
<1>6. CASE w.config # WeatherBadPath
  <2>1. w.config \in Served
    BY <1>0, <1>6, Zenon DEF WeatherCore, Served
  <2>2. PhaseIsSound(n) /\ n.phase \in {1, 3}
    BY <1>3, <2>1 DEF PhaseIsSound, k
  <2>3. WeatherCore(n)
    BY <1>0, <1>3, <1>4, <2>2, Zenon DEF WeatherCore
  <2>4. CASE noStart
    <3>1. Weather!Fetch(w, kind, noStart, fails) = Weather!z80_weather_result(n, TRUE, <<>>)
      BY <1>6, <2>4, Zenon DEF Weather!Fetch, n, p, k
    <3>2. ResponseIsOurs(n, TRUE, <<>>)
      BY DEF ResponseIsOurs
    <3>3. QED
      BY <1>0, <1>3, <2>3, <3>1, <3>2, ResultIsGood
  <2>5. CASE ~noStart
    <3>1. Weather!Fetch(w, kind, noStart, fails) = [n EXCEPT !.net = Weather!start(n.net, <<w.config, kind>>, fails)]
      BY <1>6, <2>5, Zenon DEF Weather!Fetch, n, p, k
    <3>2. Weather!Fetch(w, kind, noStart, fails) = v
      BY <1>3, <3>1, Zenon DEF m
    <3>3. /\ DOMAIN v = ServiceFields /\ v.settings = n.settings /\ v.config = n.config
          /\ v.fields = n.fields /\ (v.have_data <=> n.have_data) /\ v.net = m
          /\ v.pending = n.pending /\ v.phase = n.phase /\ v.status = n.status
      BY <1>3, ZenonT(60) DEF ServiceFields
    <3> HIDE DEF v
    <3>4. ClientIsOurs(m, w.config) /\ (m.active \/ m.done)
      <4>1. CASE fails
        <5>1. m = Weather!complete(w.net, TRUE)
          BY <4>1, Zenon DEF m, Weather!start
        <5>2. /\ DOMAIN m = NetFields /\ ~m.client /\ m.rest = <<>> /\ m.failure
              /\ ~m.active /\ m.done /\ m.wire = w.net.wire
          BY <1>0, <5>1, CompleteFields
        <5>3. QED
          BY <1>0, <5>2, IdleIsOurs, Zenon
      <4>2. CASE ~fails
        <5>1. /\ DOMAIN m = NetFields /\ (m.client <=> w.net.client) /\ m.rest = w.net.rest
              /\ m.active /\ ~m.done /\ m.path = <<w.config, kind>> /\ m.wire = <<>>
          <6>1. m = Weather!start(w.net, <<w.config, kind>>, fails)
            BY DEF m
          <6>2. QED
            BY <1>0, <4>2, <6>1, StartFields
        <5>2. <<>> \in Seq(WeatherItems) /\ BytesAreOf(<<>>, w.config)
          BY DEF BytesAreOf
        <5>3. <<w.config, kind>> \in {w.config} \X Weather!Kinds
          BY <1>1
        <5>4. QED
          BY <1>0, <5>1, <5>2, <5>3, Zenon DEF ClientIsOurs
      <4>3. QED
        BY <4>1, <4>2
    <3>5. FieldsAreOurs(v) /\ PhaseIsSound(v)
      BY <1>4, <2>2, <3>3, Zenon DEF FieldsAreOurs, PhaseIsSound
    <3>6. RequestEnds(v)
      BY <2>2, <3>3, <3>4, Zenon DEF RequestEnds
    <3>7. WeatherGood(v)
      BY <1>3, <2>3, <3>3, <3>4, <3>5, <3>6, Zenon DEF WeatherGood, WeatherCore
    <3>8. QED
      BY <3>2, <3>7
  <2>6. QED
    BY <2>4, <2>5
<1>7. QED
  BY <1>5, <1>6

LEMMA PollIsGood ==
  ASSUME NEW w, WeatherGood(w), NEW reload, NEW noStart, NEW fails
  PROVE  WeatherGood(Weather!z80_weather_poll(w, reload, noStart, fails))
<1> DEFINE c == IF reload \/ w.config = Weather!None THEN Weather!load_config(w) ELSE w
           settle == ~c.was_online \/ c.config # w.config
           due == IF settle THEN "settle" ELSE c.due
           d == [c EXCEPT !.due = due, !.was_online = TRUE]
           kind == IF d.phase = 2 THEN "forecast" ELSE "weather"
<1>1. WeatherGood(c) /\ c.config # Weather!None
  <2>1. CASE reload \/ w.config = Weather!None
    BY <2>1, LoadIsGood, Zenon
  <2>2. CASE ~(reload \/ w.config = Weather!None)
    <3>1. c = w /\ w.config # Weather!None
      BY <2>2, Zenon
    <3>2. QED
      BY <3>1, Zenon
  <2>3. QED
    BY <2>1, <2>2, Zenon
<1> HIDE DEF c
<1>2. /\ DOMAIN d = ServiceFields /\ d.settings = c.settings /\ d.config = c.config
      /\ d.fields = c.fields /\ (d.have_data <=> c.have_data) /\ d.net = c.net
      /\ d.pending = c.pending /\ d.phase = c.phase /\ d.status = c.status
  <2> HIDE DEF due
  <2>1. DOMAIN c = ServiceFields
    BY <1>1, Zenon DEF WeatherGood, WeatherCore
  <2>2. QED
    BY <2>1, ZenonT(60) DEF ServiceFields
<1>3. Weather!z80_weather_poll(w, reload, noStart, fails) =
        CASE ~w.online -> Weather!Offline(c)
          [] w.online /\ (d.config = WeatherInvalid \/ d.phase \notin {0, 2} \/ d.due # "now") -> d
          [] OTHER -> Weather!Fetch(d, kind, noStart, fails)
  BY DEF Weather!z80_weather_poll, c
<1> HIDE DEF d
<1>4. WeatherGood(d)
  BY <1>1, <1>2, Zenon DEF WeatherGood, WeatherCore, FieldsAreOurs, PhaseIsSound, RequestEnds
<1>5. WeatherGood(Weather!Offline(c))
  BY <1>1, OfflineIsGood
<1>6. d.config # WeatherInvalid /\ d.phase \in {0, 2} =>
        WeatherGood(Weather!Fetch(d, kind, noStart, fails))
  BY <1>1, <1>2, <1>4, FetchIsGood, Zenon
<1> HIDE DEF kind
<1>7. QED
  BY <1>3, <1>4, <1>5, <1>6

LEMMA ExpireIsGood ==
  ASSUME NEW w, WeatherGood(w), NEW late
  PROVE  WeatherGood(Weather!Expire(w, late))
<1> DEFINE m == Weather!complete(w.net, TRUE)
           v == [w EXCEPT !.net = m]
<1>1. DOMAIN w = ServiceFields /\ DOMAIN w.net = NetFields /\ w.net.wire \in Seq(WeatherItems)
  BY Zenon DEF WeatherGood, WeatherCore, ClientIsOurs
<1>2. /\ DOMAIN m = NetFields /\ ~m.client /\ m.rest = <<>> /\ m.failure
      /\ ~m.active /\ m.done /\ m.wire = w.net.wire
  <2>1. m = Weather!complete(w.net, TRUE)
    OBVIOUS
  <2> HIDE DEF m
  <2>2. QED
    BY <1>1, <2>1, CompleteFields
<1> HIDE DEF m
<1>3. ClientIsOurs(m, w.config)
  BY <1>1, <1>2, IdleIsOurs, Zenon
<1>4. /\ DOMAIN v = ServiceFields /\ v.settings = w.settings /\ v.config = w.config
      /\ v.fields = w.fields /\ (v.have_data <=> w.have_data) /\ v.net = m
      /\ v.pending = w.pending /\ v.phase = w.phase /\ v.status = w.status
  BY <1>1, ZenonT(60) DEF ServiceFields
<1> HIDE DEF v
<1>5. w.net.active => WeatherGood(v)
  BY <1>2, <1>3, <1>4, Zenon DEF WeatherGood, WeatherCore, FieldsAreOurs, PhaseIsSound, RequestEnds
<1>6. Weather!Expire(w, late) = IF w.net.active /\ (~w.online \/ late) THEN v ELSE w
  BY Zenon DEF Weather!Expire, v, m
<1>7. QED
  BY <1>5, <1>6, Zenon

(* Decoding: a body consists of items of the response.                      *)
LEMMA RestIsOurs ==
  ASSUME NEW s \in Seq(WeatherItems), NEW p, BytesAreOf(s, p), NEW a \in Nat \ {0}
  PROVE  SubSeq(s, a, Len(s)) \in Seq(WeatherItems) /\ BytesAreOf(SubSeq(s, a, Len(s)), p)
<1> DEFINE T == WeatherItems
           r == SubSeq(s, a, Len(s))
<1> HIDE DEF T
<1>1. s \in Seq(T)
  BY DEF T
<1>2. /\ r \in Seq(T)
      /\ \A i \in DOMAIN r : r[i] = s[a + i - 1] /\ a + i - 1 \in DOMAIN s
  BY <1>1
<1> HIDE DEF r
<1>3. BytesAreOf(r, p)
  BY <1>2 DEF BytesAreOf
<1>4. QED
  BY <1>2, <1>3 DEF r, T

LEMMA HeaderEndType ==
  ASSUME NEW wire \in Seq(WeatherItems)
  PROVE  Weather!HeaderEnd(wire) \in Nat
<1> DEFINE I == {i \in 1 .. Len(wire) : wire[i].kind = "end"}
<1>1. Weather!HeaderEnd(wire) = IF I # {} THEN Weather!Min(I) ELSE 0
  BY Zenon DEF Weather!HeaderEnd, Weather!SelectInSeq
<1>2. I \in SUBSET Nat
  OBVIOUS
<1> HIDE DEF I
<1>3. I # {} => Weather!Min(I) \in I
  BY <1>2, LeastNumber, Zenon DEF Weather!Min
<1>4. I # {} => Weather!Min(I) \in Nat
  BY <1>2, <1>3, Zenon
<1>5. 0 \in Nat
  OBVIOUS
<1>6. QED
  BY <1>1, <1>4, <1>5, Zenon

LEMMA ItemSizes ==
  ASSUME NEW x \in WeatherItems, x.kind = "size"
  PROVE  x.n \in Nat
<1>1. PICK q \in DOMAIN WeatherWires : \E wire \in WeatherWires[q] : \E i \in DOMAIN wire : x = wire[i]
  BY Zenon DEF WeatherItems
<1>2. QED
  BY <1>1, WeatherAssumption, Zenon

Bodies(p) == {b \in Seq(WeatherItems) : BytesAreOf(b, p)}
Wants == {"size", "data", "delimiter", "end", "nothing", "error"}
ChunkStates(p) == [want : Wants, left : Int, body : Bodies(p)]

LEMMA LongerBody ==
  ASSUME NEW p, NEW b \in Bodies(p), NEW x \in WeatherItems, x.kind = "byte" => x.place = p
  PROVE  Append(b, x) \in Bodies(p)
<1> DEFINE T == WeatherItems
           a == Append(b, x)
<1>1. b \in Seq(T) /\ BytesAreOf(b, p)
  BY DEF Bodies
<1> HIDE DEF T
<1>2. x \in T
  BY DEF T
<1>3. a \in Seq(T) /\ \A i \in DOMAIN a : a[i] = x \/ (i \in DOMAIN b /\ a[i] = b[i])
  BY <1>1, <1>2
<1> HIDE DEF a
<1>4. BytesAreOf(a, p)
  BY <1>1, <1>3, Zenon DEF BytesAreOf
<1>5. QED
  BY <1>3, <1>4 DEF Bodies, a, T

LEMMA NextChunkType ==
  ASSUME NEW p, NEW c \in ChunkStates(p), NEW x \in WeatherItems, x.kind = "byte" => x.place = p
  PROVE  Weather!NextChunk(c, x) \in ChunkStates(p)
<1> DEFINE B == Bodies(p)
           sized == [c EXCEPT !.left = x.n, !.want = IF x.n = 0 THEN "end" ELSE "data"]
           longer == [c EXCEPT !.body = Append(@, x), !.left = @ - 1,
                               !.want = IF c.left = 1 THEN "delimiter" ELSE "data"]
<1>1. c.body \in B /\ Append(c.body, x) \in B
  BY LongerBody DEF ChunkStates
<1>2. x.kind = "size" => x.n \in Int
  <2>1. x.kind = "size" => x.n \in Nat
    BY ItemSizes, Zenon
  <2>2. QED
    BY <2>1
<1>3. c \in [want : Wants, left : Int, body : B]
  BY DEF ChunkStates
<1> HIDE DEF B
<1>4. x.kind = "size" => sized \in [want : Wants, left : Int, body : B]
  BY <1>2, <1>3 DEF Wants
<1>5. longer \in [want : Wants, left : Int, body : B]
  <2> DEFINE a == Append(c.body, x)
             l == c.left - 1
             d == IF c.left = 1 THEN "delimiter" ELSE "data"
  <2>1. a \in B /\ l \in Int /\ d \in Wants
    BY <1>1, <1>3 DEF Wants
  <2> HIDE DEF a, l, d
  <2>2. [c EXCEPT !.body = a, !.left = l, !.want = d] \in [want : Wants, left : Int, body : B]
    BY <1>3, <2>1
  <2>3. QED
    BY <2>2 DEF a, l, d
<1>6. \A s \in Wants : [c EXCEPT !.want = s] \in [want : Wants, left : Int, body : B]
  BY <1>3
<1>7. Weather!NextChunk(c, x) =
        CASE c.want = "size" /\ x.kind = "size" -> sized
          [] c.want = "data" /\ x.kind = "byte" /\ Len(c.body) < WeatherBodyMax -> longer
          [] c.want = "delimiter" /\ x.kind = "crlf" -> [c EXCEPT !.want = "size"]
          [] c.want = "end" /\ x.kind = "trailer" -> c
          [] c.want = "end" /\ x.kind = "end" -> [c EXCEPT !.want = "nothing"]
          [] OTHER -> [c EXCEPT !.want = "error"]
  BY DEF Weather!NextChunk
<1> HIDE DEF sized, longer
<1>8. Weather!NextChunk(c, x) \in [want : Wants, left : Int, body : B]
  BY <1>3, <1>4, <1>5, <1>6, <1>7 DEF Wants
<1>9. QED
  BY <1>8 DEF ChunkStates, B

LEMMA DechunkedIsOurs ==
  ASSUME NEW p, NEW items \in Bodies(p)
  PROVE  Weather!Dechunk(items).body \in Bodies(p)
<1> DEFINE m == Len(items)
           J == ChunkStates(p)
           start == [want |-> "size", left |-> 0, body |-> <<>>]
           F == [a \in J \X Nat |-> IF a[2] \in 1 .. m THEN Weather!NextChunk(a[1], items[a[2]]) ELSE a[1]]
           Applied(f) == f = [n \in 0 .. m |-> IF n = 0 THEN start ELSE Weather!NextChunk(f[n - 1], items[n])]
           h == CHOOSE f : Applied(f)
<1>1. m \in Nat /\ items \in Seq(WeatherItems) /\ BytesAreOf(items, p)
  BY DEF Bodies
<1>2. start \in J
  <2>1. <<>> \in Bodies(p)
    BY DEF Bodies, BytesAreOf
  <2>2. QED
    BY <2>1 DEF ChunkStates, Wants
<1>3. ASSUME NEW c \in J, NEW n \in 1 .. m PROVE Weather!NextChunk(c, items[n]) \in J
  <2>1. items[n] \in WeatherItems /\ n \in DOMAIN items
    BY <1>1
  <2>2. items[n].kind = "byte" => items[n].place = p
    BY <1>1, <2>1, Zenon DEF BytesAreOf
  <2>3. QED
    BY <2>1, <2>2, NextChunkType, Zenon
<1> HIDE DEF J, start
<1>4. F \in [J \X Nat -> J]
  BY <1>3, SMTT(30)
<1>5. \A c \in J : \A n \in 1 .. m : F[<<c, n>>] = Weather!NextChunk(c, items[n])
  BY <1>1
<1>6. Weather!Dechunk(items) = h[m]
  BY DEF Weather!Dechunk, start
<1> HIDE DEF m, F, Applied, h
<1>7. PICK f \in [0 .. m -> J] : StepsFrom(f, start, m, F)
  BY <1>1, <1>2, <1>4, StepsDefineFunction, Zenon
<1>8. Applied(f)
  <2>1. ASSUME NEW n \in 0 .. m, n # 0
        PROVE  f[n] = Weather!NextChunk(f[n - 1], items[n])
    <3>1. n - 1 \in 0 .. m /\ n \in 1 .. m
      BY <1>1, <2>1
    <3>2. f[n - 1] \in J
      BY <3>1
    <3>3. QED
      BY <1>5, <1>7, <2>1, <3>1, <3>2 DEF StepsFrom
  <2>2. QED
    BY <1>7, <2>1 DEF Applied, StepsFrom
<1>9. Applied(h)
  BY <1>8 DEF h
<1>10. h[0] = start /\ \A n \in 0 .. m : n # 0 => h[n] = Weather!NextChunk(h[n - 1], items[n])
  BY <1>1, <1>9 DEF Applied
<1> DEFINE D == {n \in Nat : n \in 0 .. m => h[n] \in J}
<1>11. 0 \in D
  BY <1>2, <1>10
<1>12. ASSUME NEW n \in Nat, n \in D PROVE n + 1 \in D
  <2> SUFFICES ASSUME n + 1 \in 0 .. m PROVE h[n + 1] \in J
    OBVIOUS
  <2>1. n \in 0 .. m /\ n + 1 \in 1 .. m /\ n + 1 # 0 /\ (n + 1) - 1 = n
    BY <1>1
  <2>2. h[n] \in J
    BY <1>12, <2>1
  <2>3. h[n + 1] = Weather!NextChunk(h[n], items[n + 1])
    BY <1>10, <2>1
  <2>4. QED
    BY <1>3, <2>1, <2>2, <2>3, Zenon
<1> HIDE DEF D
<1>13. m \in D
  BY <1>1, <1>11, <1>12, SetInduction
<1>14. h[m] \in J
  BY <1>1, <1>13 DEF D
<1>15. QED
  BY <1>6, <1>14 DEF J, ChunkStates

LEMMA DecodedIsOurs ==
  ASSUME NEW wire \in Seq(WeatherItems), NEW p, BytesAreOf(wire, p)
  PROVE  /\ Weather!z80_weather_http_decode(wire) \in Seq(WeatherItems)
         /\ BytesAreOf(Weather!z80_weather_http_decode(wire), p)
<1>1. Weather!HeaderEnd(wire) + 1 \in Nat \ {0}
  BY HeaderEndType
<1>2. Weather!Body(wire) \in Bodies(p)
  BY <1>1, RestIsOurs, Zenon DEF Weather!Body, Bodies
<1>3. Weather!Dechunk(Weather!Body(wire)).body \in Bodies(p)
  BY <1>2, DechunkedIsOurs, Zenon
<1>4. Weather!z80_weather_http_decode(wire) \in Bodies(p)
  BY <1>2, <1>3, Zenon DEF Weather!z80_weather_http_decode
<1>5. QED
  BY <1>4, Zenon DEF Bodies

LEMMA CollectIsGood ==
  ASSUME NEW w, WeatherGood(w)
  PROVE  WeatherGood(Weather!Collect(w))
<1> DEFINE n == w.net
           failed == n.failure \/ ~Weather!Decodes(n.wire) \/ n.wire[1].n # 200
           body == IF failed THEN <<>> ELSE Weather!z80_weather_http_decode(n.wire)
           m == [n EXCEPT !.done = FALSE]
           v == [w EXCEPT !.net = m]
<1>1. Weather!Collect(w) =
        IF ~n.done THEN w
        ELSE Weather!z80_weather_result([w EXCEPT !.net.done = FALSE], failed, body)
  BY Zenon DEF Weather!Collect
<1>2. [w EXCEPT !.net.done = FALSE] = v
  OBVIOUS
<1>3. SUFFICES ASSUME n.done PROVE WeatherGood(Weather!z80_weather_result(v, failed, body))
  BY <1>1, <1>2, Zenon
<1>4. /\ DOMAIN w = ServiceFields /\ DOMAIN n = NetFields
      /\ n.wire \in Seq(WeatherItems) /\ ~n.active /\ ~n.client /\ n.rest = <<>>
      /\ ~n.failure => BytesAreOf(n.wire, w.config)
  BY <1>3, Zenon DEF WeatherGood, WeatherCore, ClientIsOurs
<1>5. ~failed => body \in Seq(WeatherItems) /\ BytesAreOf(body, w.config)
  <2>1. ~n.failure => /\ Weather!z80_weather_http_decode(n.wire) \in Seq(WeatherItems)
                      /\ BytesAreOf(Weather!z80_weather_http_decode(n.wire), w.config)
    BY <1>4, DecodedIsOurs, Zenon
  <2>2. QED
    BY <2>1, Zenon
<1> HIDE DEF failed, body
<1>6. /\ DOMAIN m = NetFields /\ ~m.done /\ m.wire = n.wire /\ ~m.active /\ ~m.client
      /\ m.rest = <<>>
  BY <1>4, ZenonT(60) DEF NetFields
<1> HIDE DEF m
<1>7. /\ DOMAIN v = ServiceFields /\ v.settings = w.settings /\ v.config = w.config
      /\ v.fields = w.fields /\ (v.have_data <=> w.have_data) /\ v.net = m
      /\ v.pending = w.pending /\ v.phase = w.phase /\ v.status = w.status
  BY <1>4, ZenonT(60) DEF ServiceFields
<1> HIDE DEF v
<1>8. ClientIsOurs(v.net, v.config)
  BY <1>4, <1>6, <1>7, IdleIsOurs, Zenon
<1>9. WeatherCore(v) /\ ~v.net.active /\ ~v.net.done
  BY <1>6, <1>7, <1>8, Zenon DEF WeatherGood, WeatherCore, FieldsAreOurs, PhaseIsSound
<1>10. ResponseIsOurs(v, failed, body)
  BY <1>5, <1>7, Zenon DEF ResponseIsOurs
<1>11. QED
  BY <1>9, <1>10, ResultIsGood, Zenon

(* What the client does between two polls.                                  *)
LEMMA NetChanges ==
  ASSUME NEW w, WeatherGood(w), NEW m, ClientIsOurs(m, w.config),
         m.active \/ m.done <=> w.net.active \/ w.net.done
  PROVE  WeatherGood([w EXCEPT !.net = m])
<1> DEFINE v == [w EXCEPT !.net = m]
<1>1. DOMAIN w = ServiceFields
  BY Zenon DEF WeatherGood, WeatherCore
<1>2. /\ DOMAIN v = ServiceFields /\ v.settings = w.settings /\ v.config = w.config
      /\ v.fields = w.fields /\ (v.have_data <=> w.have_data) /\ v.net = m
      /\ v.pending = w.pending /\ v.phase = w.phase /\ v.status = w.status
  BY <1>1, ZenonT(60) DEF ServiceFields
<1> HIDE DEF v
<1>3. WeatherGood(v)
  BY <1>2, Zenon DEF WeatherGood, WeatherCore, FieldsAreOurs, PhaseIsSound, RequestEnds
<1>4. QED
  BY <1>3 DEF v

LEMMA CompletedIsGood ==
  ASSUME NEW w, WeatherGood(w), w.net.active, NEW n, ClientIsOurs(n, w.config), n.active,
         NEW f, ~f => BytesAreOf(n.wire, w.config)
  PROVE  WeatherGood([w EXCEPT !.net = Weather!complete(n, f)])
<1> DEFINE m == Weather!complete(n, f)
<1>1. m = Weather!complete(n, f)
  OBVIOUS
<1> HIDE DEF m
<1>2. DOMAIN n = NetFields /\ n.wire \in Seq(WeatherItems)
  BY Zenon DEF ClientIsOurs
<1>3. /\ DOMAIN m = NetFields /\ ~m.client /\ m.rest = <<>> /\ (m.failure <=> f)
      /\ ~m.active /\ m.done /\ m.path = n.path /\ m.wire = n.wire
  BY <1>1, <1>2, CompleteFields
<1>4. <<>> \in Seq(WeatherItems) /\ BytesAreOf(<<>>, w.config)
  BY DEF BytesAreOf
<1>5. ClientIsOurs(m, w.config)
  BY <1>2, <1>3, <1>4, Zenon DEF ClientIsOurs
<1>6. m.active \/ m.done <=> w.net.active \/ w.net.done
  BY <1>3
<1>7. QED
  BY <1>5, <1>6, NetChanges, Zenon DEF m

LEMMA ResolvedIsGood ==
  ASSUME WeatherGood(st), NEW token, Weather!resolved(token)
  PROVE  WeatherGood(st')
<1> DEFINE n == [st.net EXCEPT !.lookups = @ \ {token}]
           m == [n EXCEPT !.client = TRUE]
<1>1. \/ st' = [st EXCEPT !.net = n]
      \/ n.active /\ st' \in {[st EXCEPT !.net = Weather!complete(n, TRUE)], [st EXCEPT !.net = m]}
  BY DEF Weather!resolved
<1>2. ClientIsOurs(st.net, st.config)
  BY Zenon DEF WeatherGood, WeatherCore
<1>3. /\ DOMAIN n = NetFields /\ (n.active <=> st.net.active) /\ (n.done <=> st.net.done)
      /\ (n.failure <=> st.net.failure) /\ (n.client <=> st.net.client)
      /\ n.path = st.net.path /\ n.rest = st.net.rest /\ n.wire = st.net.wire
  <2>1. DOMAIN st.net = NetFields
    BY <1>2, Zenon DEF ClientIsOurs
  <2>2. QED
    BY <2>1, ZenonT(60) DEF NetFields
<1> HIDE DEF n
<1>4. ClientIsOurs(n, st.config)
  BY <1>2, <1>3, Zenon DEF ClientIsOurs
<1>5. CASE st' = [st EXCEPT !.net = n]
  BY <1>3, <1>4, <1>5, NetChanges
<1>6. CASE n.active /\ st' = [st EXCEPT !.net = Weather!complete(n, TRUE)]
  BY <1>3, <1>4, <1>6, CompletedIsGood
<1>7. CASE n.active /\ st' = [st EXCEPT !.net = m]
  <2>1. /\ DOMAIN m = NetFields /\ (m.active <=> n.active) /\ (m.done <=> n.done)
        /\ (m.failure <=> n.failure) /\ m.path = n.path /\ m.rest = n.rest /\ m.wire = n.wire
    BY <1>3, ZenonT(60) DEF NetFields
  <2> HIDE DEF m
  <2>2. ClientIsOurs(m, st.config)
    BY <1>4, <1>7, <2>1, Zenon DEF ClientIsOurs
  <2>3. QED
    BY <1>3, <1>7, <2>1, <2>2, NetChanges
<1>8. QED
  BY <1>1, <1>5, <1>6, <1>7

(* A response is made of items, and its bytes are of the place asked for.   *)
LEMMA WiresAreOurs ==
  ASSUME NEW q \in DOMAIN WeatherWires, NEW wire \in WeatherWires[q]
  PROVE  wire \in Seq(WeatherItems) /\ BytesAreOf(wire, q[1])
<1> DEFINE S == {wire[i] : i \in DOMAIN wire}
           T == WeatherItems
<1>1. wire \in Seq(S) /\ BytesAreOf(wire, q[1])
  BY WeatherAssumption, Zenon DEF BytesAreOf
<1>2. S \subseteq T
  <2>1. wire \in UNION {WeatherWires[r] : r \in DOMAIN WeatherWires}
    OBVIOUS
  <2>2. S \in {{x[i] : i \in DOMAIN x} : x \in UNION {WeatherWires[r] : r \in DOMAIN WeatherWires}}
    BY <2>1
  <2>3. QED
    BY <2>2 DEF WeatherItems
<1> HIDE DEF T, S
<1>3. wire \in Seq(T)
  BY <1>1, <1>2
<1>4. QED
  BY <1>1, <1>3 DEF T

LEMMA ConnectedIsGood ==
  ASSUME WeatherGood(st), Weather!connected
  PROVE  WeatherGood(st')
<1> DEFINE n == st.net
<1>1. /\ n.client
      /\ \/ st' = [st EXCEPT !.net = Weather!complete(n, TRUE)]
         \/ \E w \in WeatherWires[n.path] : st' = [st EXCEPT !.net = [n EXCEPT !.sent = TRUE, !.rest = w]]
  BY DEF Weather!connected
<1>2. ClientIsOurs(n, st.config)
  BY Zenon DEF WeatherGood, WeatherCore
<1>3. n.active /\ n.path \in {st.config} \X Weather!Kinds
  BY <1>1, <1>2, Zenon DEF ClientIsOurs
<1>4. st.config \in Served
  <2>1. st.phase \in {1, 3}
    BY <1>3, Zenon DEF WeatherGood, RequestEnds
  <2>2. QED
    BY <2>1 DEF WeatherGood, WeatherCore, PhaseIsSound
<1>5. n.path \in DOMAIN WeatherWires /\ n.path[1] = st.config
  BY <1>3, <1>4, WeatherAssumption DEF Served
<1> HIDE DEF n
<1>6. CASE st' = [st EXCEPT !.net = Weather!complete(n, TRUE)]
  BY <1>2, <1>3, <1>6, CompletedIsGood DEF n
<1>7. ASSUME NEW w \in WeatherWires[n.path],
             st' = [st EXCEPT !.net = [n EXCEPT !.sent = TRUE, !.rest = w]]
      PROVE  WeatherGood(st')
  <2> DEFINE m == [n EXCEPT !.sent = TRUE, !.rest = w]
  <2>1. w \in Seq(WeatherItems) /\ BytesAreOf(w, st.config)
    BY <1>5, WiresAreOurs
  <2>2. /\ DOMAIN m = NetFields /\ (m.active <=> n.active) /\ (m.done <=> n.done)
        /\ (m.failure <=> n.failure) /\ m.path = n.path /\ m.rest = w /\ m.wire = n.wire
    <3>1. DOMAIN n = NetFields
      BY <1>2, Zenon DEF ClientIsOurs
    <3>2. QED
      BY <3>1, ZenonT(60) DEF NetFields
  <2>3. st' = [st EXCEPT !.net = m]
    BY <1>7
  <2> HIDE DEF m
  <2>4. ClientIsOurs(m, st.config)
    BY <1>2, <1>3, <2>1, <2>2, Zenon DEF ClientIsOurs
  <2>5. QED
    BY <2>2, <2>3, <2>4, NetChanges DEF n
<1>8. QED
  BY <1>1, <1>6, <1>7 DEF n

LEMMA SocketErrorIsGood ==
  ASSUME WeatherGood(st), Weather!socket_error
  PROVE  WeatherGood(st')
<1>1. st.net.client /\ st' = [st EXCEPT !.net = Weather!complete(st.net, TRUE)]
  BY DEF Weather!socket_error
<1>2. ClientIsOurs(st.net, st.config)
  BY Zenon DEF WeatherGood, WeatherCore
<1>3. st.net.active
  BY <1>1, <1>2, Zenon DEF ClientIsOurs
<1>4. QED
  BY <1>1, <1>2, <1>3, CompletedIsGood

LEMMA ReceivedIsOurs ==
  ASSUME NEW n, NEW p, ClientIsOurs(n, p), n.active, n.rest # <<>>
  PROVE  ClientIsOurs([n EXCEPT !.wire = Append(@, Head(n.rest)), !.rest = Tail(@)], p)
<1> DEFINE T == WeatherItems
           h == Append(n.wire, Head(n.rest))
           r == Tail(n.rest)
           m == [n EXCEPT !.wire = h, !.rest = r]
<1>1. /\ n.wire \in Seq(T) /\ n.rest \in Seq(T) /\ DOMAIN n = NetFields
      /\ BytesAreOf(n.wire, p) /\ BytesAreOf(n.rest, p)
  BY Zenon DEF ClientIsOurs
<1> HIDE DEF T
<1>2. /\ r \in Seq(T) /\ \A i \in DOMAIN r : i + 1 \in DOMAIN n.rest /\ r[i] = n.rest[i + 1]
      /\ h \in Seq(T)
      /\ \A i \in DOMAIN h : (h[i] = n.rest[1] /\ 1 \in DOMAIN n.rest)
                              \/ (i \in DOMAIN n.wire /\ h[i] = n.wire[i])
  BY <1>1
<1>3. [n EXCEPT !.wire = Append(@, Head(n.rest)), !.rest = Tail(@)] = m
  OBVIOUS
<1> HIDE DEF r, h
<1>4. BytesAreOf(r, p) /\ BytesAreOf(h, p)
  <2>1. ASSUME NEW i \in DOMAIN r, r[i].kind = "byte" PROVE r[i].place = p
    BY <1>1, <1>2, <2>1 DEF BytesAreOf
  <2>2. ASSUME NEW i \in DOMAIN h, h[i].kind = "byte" PROVE h[i].place = p
    BY <1>1, <1>2, <2>2 DEF BytesAreOf
  <2>3. QED
    BY <2>1, <2>2, Zenon DEF BytesAreOf
<1>5. /\ DOMAIN m = NetFields /\ (m.active <=> n.active) /\ (m.done <=> n.done)
      /\ (m.failure <=> n.failure) /\ m.path = n.path /\ m.rest = r /\ m.wire = h
      /\ (m.client <=> n.client)
  BY <1>1, ZenonT(60) DEF NetFields
<1> HIDE DEF m
<1>6. r \in Seq(WeatherItems) /\ h \in Seq(WeatherItems)
  BY <1>2 DEF T
<1>7. ClientIsOurs(m, p)
  BY <1>4, <1>5, <1>6, Zenon DEF ClientIsOurs
<1>8. QED
  BY <1>3, <1>7, Zenon

LEMMA ReceiveIsGood ==
  ASSUME WeatherGood(st), Weather!receive
  PROVE  WeatherGood(st')
<1> DEFINE n == st.net
           m == [n EXCEPT !.wire = Append(@, Head(n.rest)), !.rest = Tail(@)]
<1>1. /\ n.client
      /\ \/ n.rest = <<>> /\ st' = [st EXCEPT !.net = Weather!complete(n, FALSE)]
         \/ n.rest # <<>> /\ st' = [st EXCEPT !.net = m]
         \/ st' = [st EXCEPT !.net = Weather!complete(n, TRUE)]
  BY DEF Weather!receive
<1>2. ClientIsOurs(n, st.config)
  BY Zenon DEF WeatherGood, WeatherCore
<1>3. n.active /\ BytesAreOf(n.wire, st.config)
  BY <1>1, <1>2, Zenon DEF ClientIsOurs
<1> HIDE DEF m
<1>4. CASE n.rest = <<>> /\ st' = [st EXCEPT !.net = Weather!complete(n, FALSE)]
  <2> HIDE DEF n
  <2>1. QED
    BY <1>2, <1>3, <1>4, CompletedIsGood DEF n
<1>5. CASE n.rest # <<>> /\ st' = [st EXCEPT !.net = m]
  <2>1. ClientIsOurs(m, st.config)
    BY <1>2, <1>3, <1>5, ReceivedIsOurs, Zenon DEF m
  <2>2. DOMAIN n = NetFields
    BY <1>2, Zenon DEF ClientIsOurs
  <2>3. (m.active <=> n.active) /\ (m.done <=> n.done)
    BY <2>2, ZenonT(60) DEF NetFields, m
  <2>4. QED
    BY <1>5, <2>1, <2>3, NetChanges
<1>6. CASE st' = [st EXCEPT !.net = Weather!complete(n, TRUE)]
  BY <1>2, <1>3, <1>6, CompletedIsGood
<1>7. QED
  BY <1>1, <1>4, <1>5, <1>6

LEMMA WeatherServiceStep ==
  ASSUME WeatherGood(st), Weather!Next
  PROVE  WeatherGood(st')
<1>1. CASE Weather!Poll
  <2>1. PICK late, reload, noStart, fails \in BOOLEAN :
          st' = Weather!z80_weather_poll(Weather!Collect(Weather!Expire(st, late)), reload, noStart, fails)
    BY <1>1, Zenon DEF Weather!Poll
  <2>2. WeatherGood(Weather!Collect(Weather!Expire(st, late)))
    BY ExpireIsGood, CollectIsGood, Zenon
  <2>3. QED
    BY <2>1, <2>2, PollIsGood, Zenon
<1>2. ASSUME st' \in {[st EXCEPT !.due = "now"], [st EXCEPT !.online = ~st.online]}
      PROVE  WeatherGood(st')
  <2>1. DOMAIN st = ServiceFields
    BY Zenon DEF WeatherGood, WeatherCore
  <2>2. /\ DOMAIN st' = ServiceFields /\ st'.settings = st.settings /\ st'.config = st.config
        /\ st'.fields = st.fields /\ (st'.have_data <=> st.have_data) /\ st'.net = st.net
        /\ st'.pending = st.pending /\ st'.phase = st.phase /\ st'.status = st.status
    BY <1>2, <2>1, ZenonT(60) DEF ServiceFields
  <2>3. QED
    BY <2>2, Zenon DEF WeatherGood, WeatherCore, FieldsAreOurs, PhaseIsSound, RequestEnds
<1>3. CASE Weather!TimePasses
  BY <1>2, <1>3, Zenon DEF Weather!TimePasses
<1>4. CASE Weather!LinkChanges
  BY <1>2, <1>4, Zenon DEF Weather!LinkChanges
<1>5. ASSUME NEW p \in WeatherPlaces, Weather!SettingsChange(p)
      PROVE  WeatherGood(st')
  <2>1. DOMAIN st = ServiceFields
    BY Zenon DEF WeatherGood, WeatherCore
  <2>2. st' = [st EXCEPT !.settings = p]
    BY <1>5, Zenon DEF Weather!SettingsChange
  <2>3. /\ DOMAIN st' = ServiceFields /\ st'.settings = p /\ st'.config = st.config
        /\ st'.fields = st.fields /\ (st'.have_data <=> st.have_data) /\ st'.net = st.net
        /\ st'.pending = st.pending /\ st'.phase = st.phase /\ st'.status = st.status
    BY <2>1, <2>2, ZenonT(60) DEF ServiceFields
  <2>4. QED
    BY <2>3, Zenon DEF WeatherGood, WeatherCore, FieldsAreOurs, PhaseIsSound, RequestEnds
<1>6. CASE Weather!Callbacks
  BY <1>6, ResolvedIsGood, ConnectedIsGood, SocketErrorIsGood, ReceiveIsGood, Zenon
  DEF Weather!Callbacks
<1>7. QED
  BY <1>1, <1>3, <1>4, <1>5, <1>6, Zenon DEF Weather!Next

LEMMA WeatherServiceInit ==
  ASSUME Weather!Init
  PROVE  WeatherGood(st)
<1>1. /\ DOMAIN st = ServiceFields /\ st.settings = WeatherInvalid /\ st.config = Weather!None
      /\ st.fields = Weather!NoFields /\ st.pending = Weather!NoFields /\ ~st.have_data
      /\ st.status = "NONE" /\ st.phase = 0 /\ st.net = Weather!NoNet
  BY DEF Weather!Init, ServiceFields
<1>2. DOMAIN Weather!NoFields = FieldNames
  BY DEF Weather!NoFields, FieldNames
<1>3. /\ DOMAIN st.net = NetFields /\ st.net.wire = <<>> /\ st.net.rest = <<>> /\ ~st.net.active
      /\ ~st.net.done /\ ~st.net.client
  BY <1>1 DEF Weather!NoNet, NetFields
<1>4. ClientIsOurs(st.net, st.config)
  <2>1. <<>> \in Seq(WeatherItems)
    OBVIOUS
  <2>2. QED
    BY <1>3, <2>1, IdleIsOurs, Zenon
<1>5. FieldsAreOurs(st) /\ PhaseIsSound(st) /\ RequestEnds(st)
  BY <1>1, <1>2, <1>3 DEF FieldsAreOurs, PhaseIsSound, RequestEnds
<1>6. QED
  BY <1>1, <1>4, <1>5, Zenon DEF WeatherGood, WeatherCore

(* The weather that can be read is of the place now configured, READY means *)
(* there is some, and FETCHING that a request is under way whose end will   *)
(* be noticed, whatever servers send and however settings and the network   *)
(* change (z80_weather_poll, z80_weather_result, weather_network.cpp).      *)
THEOREM ShownWeatherIsOurs == PortsSpec => []WeatherIsOurs
<1> DEFINE Inv == part = "weather" => WeatherGood(st)
<1>1. PortsInit => Inv
  BY WeatherServiceInit DEF PortsInit
<1>2. Inv /\ [PortsNext]_vars => Inv'
  <2> SUFFICES ASSUME Inv, [PortsNext]_vars, part' = "weather" PROVE WeatherGood(st')
    OBVIOUS
  <2>1. CASE UNCHANGED vars
    <3>1. part = "weather" /\ st' = st
      BY <2>1 DEF vars
    <3>2. QED
      BY <3>1
  <2>2. CASE PortsNext
    <3>1. part = "weather" /\ Weather!Next
      BY <2>2 DEF PortsNext
    <3>2. QED
      BY <3>1, WeatherServiceStep
  <2>3. QED
    BY <2>1, <2>2
<1>3. Inv => WeatherIsOurs
  <2> SUFFICES ASSUME WeatherGood(st) PROVE Weather!WeatherIsOurs
    BY DEF WeatherIsOurs
  <2>1. FieldsAreOurs(st) /\ PhaseIsSound(st) /\ RequestEnds(st)
    BY Zenon DEF WeatherGood, WeatherCore
  <2>2. \A kind \in Weather!Kinds :
          Weather!Readable(kind) => Weather!Reads(kind) \in {st.config, Weather!None}
    BY <2>1 DEF FieldsAreOurs, Weather!Kinds, Weather!Readable, Weather!Reads
  <2>3. Weather!Readable("weather") => Weather!Reads("weather") # Weather!None
    BY <2>1 DEF FieldsAreOurs, Weather!Readable, Weather!Reads
  <2>4. /\ st.status = "READY" => st.have_data
        /\ (st.status = "FETCHING") = (st.phase # 0)
        /\ st.phase \in {1, 3} => st.net.active \/ st.net.done
    BY <2>1, Zenon DEF PhaseIsSound, RequestEnds
  <2>5. QED
    BY <2>2, <2>3, <2>4, Zenon DEF Weather!WeatherIsOurs
<1>4. QED
  BY <1>1, <1>2, <1>3, PTL DEF PortsSpec

-----------------------------------------------------------------------------
(* The HTTP port.  First its response parser: how far a stream has come in  *)
(* a response.                                                              *)

StreamFields ==
  {"state", "status", "have_length", "chunked", "remaining", "location", "done", "error"}

StreamStarts(r, i, s, b) == s = Http!NewStream /\ b = 0 /\ HttpBytes(r, i) = 0

StreamInHeader(r, c, i, s, b) ==
  /\ s.state = "HEADERS" /\ ~s.done /\ b = 0 /\ HttpBytes(r, i) = 0
  /\ \E j \in 1 .. i :
       /\ r[j].kind = "status" /\ r[j].n = s.status
       /\ \A k \in j + 1 .. i : r[k].kind \in {"length", "chunked", "location"}
       /\ s.chunked <=> HttpHas(r, j, i, "chunked")
       /\ s.have_length <=> HttpHas(r, j, i, "length")
  /\ s.have_length /\ ~HttpStatus(r, 302) => s.remaining = Len(c)

StreamRedirects(r, s, b) ==
  s.state = "HEADERS" /\ s.done /\ b = 0 /\ s.status = 302 /\ HttpStatus(r, 302)

(* The k-th byte of the content is the k-th byte that is handed on.         *)
StreamInBody(r, c, i, s, b) ==
  /\ ~HttpStatus(r, 302) /\ s.status \in {200, 204} /\ b = HttpBytes(r, i)
  /\ s.done => b = Len(c)
  /\ \/ /\ s.state = "BODY_LENGTH" /\ s.remaining = Len(c) - b
        /\ ~s.done => s.remaining > 0 /\ \A k \in i + 1 .. Len(r) : r[k].kind = "byte"
     \/ /\ s.state = "BODY_CLOSE"
        /\ ~s.done => /\ HttpBytes(r, Len(r)) = Len(c)
                      /\ \A k \in i + 1 .. Len(r) : r[k].kind = "byte"
     \/ s.state \in {"CHUNK_SIZE", "CHUNK_CR"}
     \/ /\ s.state = "CHUNK_BODY" /\ s.remaining \in Nat /\ s.remaining > 0
        /\ \A k \in i + 1 .. i + s.remaining : k \in DOMAIN r => r[k].kind = "byte"
     \/ s.state = "TRAILERS" /\ b = Len(c)

(* The stream s has taken the first i items of the response r and handed on *)
(* b bytes of the content c.                                                *)
StreamIsAt(r, c, i, s, b) ==
  /\ DOMAIN s = StreamFields /\ ~s.error
  /\ \/ StreamStarts(r, i, s, b)
     \/ StreamInHeader(r, c, i, s, b)
     \/ StreamRedirects(r, s, b)
     \/ StreamInBody(r, c, i, s, b)

(* What is assumed of one response and its content.                         *)
HttpAnswers(r, c) ==
  /\ r \in Seq({r[i] : i \in DOMAIN r}) /\ c \in Seq({c[i] : i \in DOMAIN c})
  /\ IF HttpStatus(r, 302) THEN ~HttpStatus(r, 200) /\ ~HttpStatus(r, 204)
                           ELSE HttpFramed(r, c)

LEMMA HttpBytesFacts ==
  ASSUME NEW r, NEW i \in Nat
  PROVE  /\ HttpBytes(r, 0) = 0 /\ HttpBytes(r, i) \in Nat
         /\ HttpBytes(r, i + 1) = IF r[i + 1].kind = "byte" THEN HttpBytes(r, i) + 1
                                  ELSE HttpBytes(r, i)
         /\ \A m \in Nat : i <= m => HttpBytes(r, i) <= HttpBytes(r, m)
<1> DEFINE S(n) == {j \in 1 .. n : r[j].kind = "byte"}
<1>1. \A n \in Nat : HttpBytes(r, n) = Cardinality(S(n))
  BY DEF HttpBytes
<1>2. \A n \in Nat : IsFiniteSet(S(n))
  <2>1. ASSUME NEW n \in Nat PROVE IsFiniteSet(S(n))
    <3>1. IsFiniteSet(1 .. n)
      BY FS_Interval
    <3>2. S(n) \in SUBSET (1 .. n)
      OBVIOUS
    <3>3. QED
      BY <3>1, <3>2, FS_Subset, Zenon
  <2>2. QED
    BY <2>1
<1>3. S(0) = {}
  OBVIOUS
<1>4. S(i + 1) = IF r[i + 1].kind = "byte" THEN S(i) \cup {i + 1} ELSE S(i)
  OBVIOUS
<1>5. i + 1 \notin S(i)
  OBVIOUS
<1>6. \A m \in Nat : i <= m => S(i) \in SUBSET S(m)
  OBVIOUS
<1> HIDE DEF S
<1>7. Cardinality(S(0)) = 0
  BY <1>3, FS_EmptySet
<1>8. Cardinality(S(i) \cup {i + 1}) = Cardinality(S(i)) + 1
  BY <1>2, <1>5, FS_AddElement
<1>9. \A m \in Nat : i <= m => Cardinality(S(i)) <= Cardinality(S(m))
  BY <1>2, <1>6, FS_Subset
<1>10. Cardinality(S(i)) \in Nat
  BY <1>2, FS_CardinalityType
<1>11. i + 1 \in Nat /\ 0 \in Nat
  OBVIOUS
<1>12. QED
  BY <1>1, <1>4, <1>7, <1>8, <1>9, <1>10, <1>11, Zenon

LEMMA StreamFails ==
  ASSUME NEW s, DOMAIN s = StreamFields, NEW t, t = Http!Fail(s)
  PROVE  t.error /\ DOMAIN t = StreamFields
  BY ZenonT(60) DEF Http!Fail, StreamFields

LEMMA StatusRead ==
  ASSUME NEW r, NEW c, HttpAnswers(r, c), NEW i \in Nat, i < Len(r), NEW s, NEW b,
         DOMAIN s = StreamFields, StreamStarts(r, i, s, b),
         NEW t, t = Http!Feed(s, r[i + 1])
  PROVE  DOMAIN t = StreamFields /\ (t.error \/ StreamIsAt(r, c, i + 1, t, b))
<1> DEFINE x == r[i + 1]
           u == [s EXCEPT !.status = x.n, !.state = "HEADERS"]
<1>1. /\ s.state = "STATUS" /\ ~s.error /\ ~s.done /\ ~s.chunked /\ ~s.have_length
      /\ b = 0 /\ HttpBytes(r, i) = 0
  BY DEF StreamStarts, Http!NewStream
<1>2. t = IF x.kind = "status" THEN u ELSE Http!Fail(s)
  BY <1>1 DEF Http!Feed, Http!InBody, Http!line
<1>3. CASE x.kind # "status"
  <2>1. t = Http!Fail(s)
    BY <1>2, <1>3, Zenon
  <2>2. QED
    BY <2>1, StreamFails, Zenon
<1>4. CASE x.kind = "status"
  <2>1. t = u
    BY <1>2, <1>4, Zenon
  <2>2. /\ DOMAIN t = StreamFields /\ t.state = "HEADERS" /\ t.status = x.n
        /\ (t.error <=> s.error) /\ (t.done <=> s.done) /\ (t.chunked <=> s.chunked)
        /\ (t.have_length <=> s.have_length)
    BY <2>1, ZenonT(60) DEF StreamFields
  <2> HIDE DEF u
  <2>3. HttpBytes(r, i + 1) = 0
    BY <1>1, <1>4, HttpBytesFacts
  <2>4. /\ i + 1 \in 1 .. i + 1 /\ r[i + 1].kind = "status" /\ r[i + 1].n = t.status
        /\ \A k \in (i + 1) + 1 .. i + 1 : r[k].kind \in {"length", "chunked", "location"}
        /\ ~HttpHas(r, i + 1, i + 1, "chunked") /\ ~HttpHas(r, i + 1, i + 1, "length")
    BY <1>4, <2>2 DEF HttpHas
  <2>5. StreamInHeader(r, c, i + 1, t, b)
    BY <1>1, <2>2, <2>3, <2>4, Zenon DEF StreamInHeader
  <2>6. QED
    BY <1>1, <2>2, <2>5, Zenon DEF StreamIsAt
<1>5. QED
  BY <1>3, <1>4

(* A header line.                                                           *)
LEMMA HeaderRead ==
  ASSUME NEW r, NEW c, HttpAnswers(r, c), NEW i \in Nat, i < Len(r), NEW s, NEW b,
         DOMAIN s = StreamFields, ~s.error, StreamInHeader(r, c, i, s, b), r[i + 1].kind # "end",
         NEW t, t = Http!Feed(s, r[i + 1])
  PROVE  DOMAIN t = StreamFields /\ (t.error \/ StreamIsAt(r, c, i + 1, t, b))
<1> DEFINE x == r[i + 1]
           headers == {"length", "chunked", "location"}
<1>1. /\ s.state = "HEADERS" /\ ~s.done /\ b = 0 /\ HttpBytes(r, i) = 0
      /\ s.have_length /\ ~HttpStatus(r, 302) => s.remaining = Len(c)
  BY DEF StreamInHeader
<1>2. PICK j \in 1 .. i :
       /\ r[j].kind = "status" /\ r[j].n = s.status
       /\ \A k \in j + 1 .. i : r[k].kind \in headers
       /\ s.chunked <=> HttpHas(r, j, i, "chunked")
       /\ s.have_length <=> HttpHas(r, j, i, "length")
  BY DEF StreamInHeader
<1>3. \/ t = Http!Fail(s)
      \/ x.kind = "length" /\ ~s.have_length /\ t = [s EXCEPT !.have_length = TRUE, !.remaining = x.n]
      \/ x.kind = "chunked" /\ ~s.chunked /\ t = [s EXCEPT !.chunked = TRUE]
      \/ x.kind = "location" /\ t = [s EXCEPT !.location = TRUE]
  BY <1>1 DEF Http!Feed, Http!InBody, Http!line
<1>4. CASE t = Http!Fail(s)
  BY <1>4, StreamFails, Zenon
<1>5. ASSUME /\ x.kind \in headers /\ DOMAIN t = StreamFields /\ t.state = s.state /\ ~t.error
             /\ (t.done <=> s.done) /\ t.status = s.status
             /\ (t.chunked <=> s.chunked \/ x.kind = "chunked")
             /\ (t.have_length <=> s.have_length \/ x.kind = "length")
             /\ t.remaining = IF x.kind = "length" THEN x.n ELSE s.remaining
      PROVE  StreamIsAt(r, c, i + 1, t, b)
  <2>1. HttpBytes(r, i + 1) = 0
    BY <1>1, <1>5, HttpBytesFacts
  <2>2. j \in 1 .. i + 1 /\ \A k \in j + 1 .. i + 1 : r[k].kind \in headers
    <3>1. \A k \in j + 1 .. i + 1 : k \in j + 1 .. i \/ k = i + 1
      OBVIOUS
    <3>2. QED
      BY <1>2, <1>5, <3>1
  <2>3. \A kind : HttpHas(r, j, i + 1, kind) <=> HttpHas(r, j, i, kind) \/ x.kind = kind
    <3>1. \A k : k \in j .. i + 1 <=> k \in j .. i \/ k = i + 1
      OBVIOUS
    <3>2. QED
      BY <3>1, Zenon DEF HttpHas
  <2>4. t.have_length /\ ~HttpStatus(r, 302) => t.remaining = Len(c)
    <3>1. ASSUME ~HttpStatus(r, 302), x.kind = "length" PROVE x.n = Len(c)
      <4>1. HttpFramed(r, c) /\ i + 1 \in DOMAIN r
        BY <3>1 DEF HttpAnswers
      <4>2. QED
        BY <3>1, <4>1, Zenon DEF HttpFramed
    <3>2. QED
      BY <1>1, <1>5, <3>1, Zenon
  <2>5. StreamInHeader(r, c, i + 1, t, b)
    <3>1. /\ t.chunked <=> HttpHas(r, j, i + 1, "chunked")
          /\ t.have_length <=> HttpHas(r, j, i + 1, "length")
      BY <1>2, <1>5, <2>3, Zenon
    <3>2. r[j].kind = "status" /\ r[j].n = t.status /\ t.state = "HEADERS" /\ ~t.done
      BY <1>1, <1>2, <1>5, Zenon
    <3>3. QED
      BY <1>1, <2>1, <2>2, <2>4, <3>1, <3>2, Zenon DEF StreamInHeader
  <2>6. QED
    BY <1>5, <2>5, Zenon DEF StreamIsAt
<1>6. CASE x.kind = "length" /\ t = [s EXCEPT !.have_length = TRUE, !.remaining = x.n]
  <2>1. /\ DOMAIN t = StreamFields /\ t.state = s.state /\ (t.error <=> s.error)
        /\ (t.done <=> s.done) /\ t.status = s.status /\ (t.chunked <=> s.chunked)
        /\ t.have_length /\ t.remaining = x.n
    BY <1>6, ZenonT(60) DEF StreamFields
  <2>2. x.kind \in headers /\ x.kind # "chunked"
    BY <1>6
  <2>3. QED
    BY <1>5, <1>6, <2>1, <2>2, Zenon
<1>7. CASE x.kind = "chunked" /\ t = [s EXCEPT !.chunked = TRUE]
  <2>1. /\ DOMAIN t = StreamFields /\ t.state = s.state /\ (t.error <=> s.error)
        /\ (t.done <=> s.done) /\ t.status = s.status /\ t.chunked
        /\ (t.have_length <=> s.have_length) /\ t.remaining = s.remaining
    BY <1>7, ZenonT(60) DEF StreamFields
  <2>2. x.kind \in headers /\ x.kind # "length"
    BY <1>7
  <2>3. QED
    BY <1>5, <1>7, <2>1, <2>2, Zenon
<1>8. CASE x.kind = "location" /\ t = [s EXCEPT !.location = TRUE]
  <2>1. /\ DOMAIN t = StreamFields /\ t.state = s.state /\ (t.error <=> s.error)
        /\ (t.done <=> s.done) /\ t.status = s.status /\ (t.chunked <=> s.chunked)
        /\ (t.have_length <=> s.have_length) /\ t.remaining = s.remaining
    BY <1>8, ZenonT(60) DEF StreamFields
  <2>2. x.kind \in headers /\ x.kind # "length" /\ x.kind # "chunked"
    BY <1>8
  <2>3. QED
    BY <1>5, <2>1, <2>2, Zenon
<1>9. QED
  BY <1>3, <1>4, <1>6, <1>7, <1>8, Zenon DEF StreamIsAt

(* The empty line that ends a header.                                       *)
LEMMA HeaderEnds ==
  ASSUME NEW r, NEW c, HttpAnswers(r, c), NEW i \in Nat, i < Len(r), NEW s, NEW b,
         DOMAIN s = StreamFields, ~s.error, StreamInHeader(r, c, i, s, b), r[i + 1].kind = "end",
         NEW t, t = Http!Feed(s, r[i + 1])
  PROVE  DOMAIN t = StreamFields /\ (t.error \/ StreamIsAt(r, c, i + 1, t, b))
<1> DEFINE e == i + 1
           body == [s EXCEPT !.state = IF s.chunked THEN "CHUNK_SIZE"
                                       ELSE IF s.have_length THEN "BODY_LENGTH" ELSE "BODY_CLOSE",
                             !.done = s.status = 204 \/ (s.have_length /\ s.remaining = 0)]
<1>1. /\ s.state = "HEADERS" /\ ~s.done /\ b = 0 /\ HttpBytes(r, i) = 0
      /\ s.have_length /\ ~HttpStatus(r, 302) => s.remaining = Len(c)
  BY DEF StreamInHeader
<1>2. PICK j \in 1 .. i :
       /\ r[j].kind = "status" /\ r[j].n = s.status
       /\ \A k \in j + 1 .. i : r[k].kind \in {"length", "chunked", "location"}
       /\ s.chunked <=> HttpHas(r, j, i, "chunked")
       /\ s.have_length <=> HttpHas(r, j, i, "length")
  BY DEF StreamInHeader
<1>3. r \in Seq({r[k] : k \in DOMAIN r}) /\ c \in Seq({c[k] : k \in DOMAIN c})
  BY Zenon DEF HttpAnswers
<1>4. /\ Len(r) \in Nat /\ DOMAIN r = 1 .. Len(r) /\ Len(c) \in Nat
      /\ e \in DOMAIN r /\ j \in DOMAIN r /\ j < e /\ (e - 1) = i
  BY <1>3
<1>5. HttpBytes(r, e) = 0
  BY <1>1, HttpBytesFacts
<1>6. HttpHead(r, j, e)
  BY <1>2, <1>4 DEF HttpHead
<1>7. \A kind : kind # "end" => (HttpHas(r, j, e, kind) <=> HttpHas(r, j, i, kind))
  <2>1. \A k : k \in j .. e <=> k \in j .. i \/ k = e
    BY <1>4
  <2>2. r[e].kind = "end"
    OBVIOUS
  <2> HIDE DEF e
  <2>3. QED
    BY <2>1, <2>2, Zenon DEF HttpHas
<1>8. \/ t = Http!Fail(s)
      \/ t = Http!NewStream
      \/ s.status = 302 /\ t = [s EXCEPT !.done = TRUE]
      \/ s.status \in {200, 204} /\ ~(s.have_length /\ s.chunked) /\ t = body
  BY <1>1 DEF Http!Feed, Http!InBody, Http!line, Http!EndOfHeaders
<1>9. CASE t = Http!Fail(s)
  BY <1>9, StreamFails, Zenon
<1>10. CASE t = Http!NewStream
  <2>1. DOMAIN t = StreamFields /\ ~t.error
    BY <1>10 DEF Http!NewStream, StreamFields
  <2>2. QED
    BY <1>1, <1>5, <1>10, <2>1, Zenon DEF StreamIsAt, StreamStarts
<1>11. CASE s.status = 302 /\ t = [s EXCEPT !.done = TRUE]
  <2>3. t = [s EXCEPT !.done = TRUE]
    BY <1>11
  <2>1. /\ DOMAIN t = StreamFields /\ t.state = s.state /\ (t.error <=> s.error) /\ t.done
        /\ t.status = s.status
    BY <2>3, ZenonT(60) DEF StreamFields
  <2>2. HttpStatus(r, 302)
    <3>1. j \in DOMAIN r /\ r[j].kind = "status" /\ r[j].n = 302
      BY <1>2, <1>4, <1>11
    <3>2. QED
      BY <3>1, Zenon DEF HttpStatus
  <2>4. t.state = "HEADERS" /\ t.status = 302 /\ ~t.error
    BY <1>1, <1>11, <2>1
  <2>5. QED
    BY <1>1, <2>1, <2>2, <2>4, Zenon DEF StreamIsAt, StreamRedirects
<1>12. CASE s.status \in {200, 204} /\ ~(s.have_length /\ s.chunked) /\ t = body
  <2> DEFINE state == IF s.chunked THEN "CHUNK_SIZE"
                      ELSE IF s.have_length THEN "BODY_LENGTH" ELSE "BODY_CLOSE"
  <2> DEFINE ends == s.status = 204 \/ (s.have_length /\ s.remaining = 0)
  <2>1. /\ DOMAIN t = StreamFields /\ t.state = state /\ (t.error <=> s.error)
        /\ (t.done <=> s.status = 204 \/ (s.have_length /\ s.remaining = 0))
        /\ t.status = s.status /\ t.remaining = s.remaining
    <3>1. t = [s EXCEPT !.state = state, !.done = ends]
      BY <1>12, Zenon
    <3> HIDE DEF state, ends, body
    <3>2. /\ DOMAIN t = StreamFields /\ t.state = state /\ (t.error <=> s.error)
          /\ (t.done <=> ends) /\ t.status = s.status /\ t.remaining = s.remaining
      BY <3>1, ZenonT(60) DEF StreamFields
    <3>3. QED
      BY <3>2, Zenon DEF ends
  <2>2. HttpStatus(r, s.status)
    BY <1>2, <1>4, Zenon DEF HttpStatus
  <2>3. ~HttpStatus(r, 302) /\ HttpFramed(r, c)
    <3>1. HttpStatus(r, 200) \/ HttpStatus(r, 204)
      BY <1>12, <2>2
    <3>2. QED
      BY <3>1, Zenon DEF HttpAnswers
  <2>4. s.have_length => s.remaining = Len(c)
    BY <1>1, <2>3, Zenon
  <2>5. s.status = 204 => Len(c) = 0
    <3>1. s.status = 204 => c = <<>>
      BY <1>2, <1>4, <1>6, <2>3, ZenonT(60) DEF HttpFramed
    <3>2. QED
      BY <3>1
  <2>6. ASSUME s.status = 200, ~s.chunked
        PROVE  /\ \A k \in e + 1 .. Len(r) : r[k].kind = "byte"
               /\ s.have_length \/ HttpBytes(r, Len(r)) = Len(c)
    <3>1. ~HttpHas(r, j, e, "chunked") /\ (HttpHas(r, j, e, "length") <=> s.have_length)
      BY <1>2, <1>7, <2>6
    <3>2. r[j].n = 200
      BY <1>2, <2>6
    <3>3. \A k, m \in DOMAIN r : HttpHead(r, k, m) =>
            (r[k].n = 200 /\ ~HttpHas(r, k, m, "chunked") =>
               /\ \A q \in m + 1 .. Len(r) : r[q].kind = "byte"
               /\ HttpHas(r, k, m, "length") \/ HttpBytes(r, Len(r)) = Len(c))
      BY <2>3, Zenon DEF HttpFramed
    <3> HIDE DEF e
    <3>6. HttpHead(r, j, e) =>
            (r[j].n = 200 /\ ~HttpHas(r, j, e, "chunked") =>
               /\ \A q \in e + 1 .. Len(r) : r[q].kind = "byte"
               /\ HttpHas(r, j, e, "length") \/ HttpBytes(r, Len(r)) = Len(c))
      BY <1>4, <3>3, Zenon
    <3>4. /\ \A q \in e + 1 .. Len(r) : r[q].kind = "byte"
          /\ HttpHas(r, j, e, "length") \/ HttpBytes(r, Len(r)) = Len(c)
      BY <1>6, <3>1, <3>2, <3>6, Zenon
    <3>5. QED
      BY <3>1, <3>4, Zenon
  <2>7. t.done => b = Len(c)
    BY <1>1, <2>1, <2>4, <2>5
  <2>8. /\ s.chunked => t.state = "CHUNK_SIZE"
        /\ ~s.chunked /\ s.have_length => t.state = "BODY_LENGTH"
        /\ ~s.chunked /\ ~s.have_length => t.state = "BODY_CLOSE"
    BY <2>1
  <2> HIDE DEF state
  <2>9. ~t.done => s.status = 200 /\ (s.have_length => s.remaining > 0)
    BY <1>4, <1>12, <2>1, <2>4
  <2>10. s.have_length => t.remaining = Len(c) - b
    BY <1>1, <1>4, <2>1, <2>4
  <2> HIDE DEF e, body
  <2>11. StreamInBody(r, c, e, t, b)
    <3>1. ~HttpStatus(r, 302) /\ t.status \in {200, 204} /\ b = HttpBytes(r, e) /\ (t.done => b = Len(c))
      BY <1>1, <1>5, <1>12, <2>1, <2>3, <2>7, Zenon
    <3>2. CASE s.chunked
      BY <2>8, <3>1, <3>2, Zenon DEF StreamInBody
    <3>3. CASE ~s.chunked /\ s.have_length
      BY <2>1, <2>6, <2>8, <2>9, <2>10, <3>1, <3>3, Zenon DEF StreamInBody
    <3>4. CASE ~s.chunked /\ ~s.have_length
      BY <2>6, <2>8, <2>9, <3>1, <3>4, Zenon DEF StreamInBody
    <3>5. QED
      BY <3>2, <3>3, <3>4
  <2>12. QED
    BY <2>1, <2>11, Zenon DEF StreamIsAt, e
<1>13. QED
  BY <1>8, <1>9, <1>10, <1>11, <1>12, Zenon

(* A body byte is handed on: it is the next one of the content.             *)
LEMMA BodyRead ==
  ASSUME NEW r, NEW c, HttpAnswers(r, c), NEW i \in Nat, i < Len(r), NEW s, NEW b,
         DOMAIN s = StreamFields, ~s.error, ~s.done, StreamInBody(r, c, i, s, b), Http!InBody(s),
         NEW t, t = Http!Feed(s, r[i + 1])
  PROVE  /\ StreamIsAt(r, c, i + 1, t, b + 1)
         /\ b + 1 \in DOMAIN c /\ c[b + 1] = r[i + 1]
<1> DEFINE e == i + 1
           left == IF s.state = "BODY_CLOSE" THEN s.remaining ELSE s.remaining - 1
           u == [s EXCEPT !.remaining = left]
<1>1. /\ ~HttpStatus(r, 302) /\ s.status \in {200, 204} /\ b = HttpBytes(r, i)
      /\ HttpFramed(r, c)
  BY DEF StreamInBody, HttpAnswers
<1>2. r \in Seq({r[k] : k \in DOMAIN r}) /\ c \in Seq({c[k] : k \in DOMAIN c})
  BY Zenon DEF HttpAnswers
<1>3. /\ Len(r) \in Nat /\ DOMAIN r = 1 .. Len(r) /\ Len(c) \in Nat /\ DOMAIN c = 1 .. Len(c)
      /\ e \in DOMAIN r
  BY <1>2
<1>4. /\ b \in Nat
      /\ HttpBytes(r, e) = IF r[e].kind = "byte" THEN b + 1 ELSE b
      /\ HttpBytes(r, e) <= HttpBytes(r, Len(r)) /\ HttpBytes(r, Len(r)) <= Len(c)
      /\ HttpBytes(r, Len(r)) \in Nat
  <2>1. HttpBytes(r, Len(r)) <= Len(c)
    BY <1>1, Zenon DEF HttpFramed
  <2>2. /\ HttpBytes(r, i) \in Nat
        /\ HttpBytes(r, i + 1) = IF r[i + 1].kind = "byte" THEN HttpBytes(r, i) + 1
                                 ELSE HttpBytes(r, i)
    BY HttpBytesFacts, Zenon
  <2>3. e \in Nat /\ e <= Len(r)
    BY <1>3
  <2>4. HttpBytes(r, e) <= HttpBytes(r, Len(r))
    BY <1>3, <2>3, HttpBytesFacts, Zenon
  <2>5. HttpBytes(r, Len(r)) \in Nat
    BY <1>3, HttpBytesFacts, Zenon
  <2>6. QED
    BY <1>1, <2>1, <2>2, <2>4, <2>5
<1>5. \/ s.state = "BODY_LENGTH" /\ s.remaining = Len(c) - b /\ s.remaining > 0
         /\ \A k \in e .. Len(r) : r[k].kind = "byte"
      \/ s.state = "BODY_CLOSE" /\ HttpBytes(r, Len(r)) = Len(c)
         /\ \A k \in e .. Len(r) : r[k].kind = "byte"
      \/ s.state = "CHUNK_BODY" /\ s.remaining \in Nat /\ s.remaining > 0
         /\ \A k \in e .. i + s.remaining : k \in DOMAIN r => r[k].kind = "byte"
  BY DEF StreamInBody, Http!InBody
<1>6. r[e].kind = "byte"
  <2>1. e \in e .. Len(r) /\ (s.remaining \in Nat /\ s.remaining > 0 => e \in e .. i + s.remaining)
    BY <1>3
  <2>2. QED
    BY <1>3, <1>5, <2>1, Zenon
<1>7. HttpBytes(r, e) = b + 1 /\ b + 1 \in DOMAIN c
  BY <1>3, <1>4, <1>6
<1>8. c[b + 1] = r[e]
  <2>1. c[HttpBytes(r, e)] = r[e]
    BY <1>1, <1>3, <1>6, Zenon DEF HttpFramed
  <2>2. QED
    BY <1>7, <2>1
<1>9. t = CASE s.state = "BODY_LENGTH" /\ left = 0 -> [u EXCEPT !.done = TRUE]
            [] s.state = "CHUNK_BODY" /\ left = 0 -> [u EXCEPT !.state = "CHUNK_CR"]
            [] OTHER -> u
  BY Zenon DEF Http!Feed
<1> HIDE DEF e
<1>10. /\ DOMAIN u = StreamFields /\ u.state = s.state /\ u.status = s.status /\ u.remaining = left
       /\ (u.done <=> s.done) /\ (u.error <=> s.error)
  <2> HIDE DEF left
  <2>1. QED
    BY ZenonT(60) DEF StreamFields
<1> HIDE DEF u
<1>11. s.status \in {200, 204} /\ ~s.error /\ ~s.done
  BY <1>1
<1>12. CASE s.state = "BODY_LENGTH"
  <2>1. left = Len(c) - (b + 1) /\ left \in Int /\ left >= 0
    BY <1>3, <1>4, <1>5, <1>7, <1>12
  <2>2. t = IF left = 0 THEN [u EXCEPT !.done = TRUE] ELSE u
    BY <1>9, <1>12
  <2> HIDE DEF left
  <2>3. /\ DOMAIN t = StreamFields /\ t.state = "BODY_LENGTH" /\ t.status = s.status
        /\ t.remaining = left /\ (t.done <=> left = 0) /\ ~t.error
    <3>1. CASE left = 0
      <4>1. t = [u EXCEPT !.done = TRUE]
        BY <2>2, <3>1, Zenon
      <4>2. QED
        BY <1>10, <1>11, <1>12, <3>1, <4>1, ZenonT(60) DEF StreamFields
    <3>2. CASE left # 0
      BY <1>10, <1>11, <1>12, <2>2, <3>2, Zenon
    <3>3. QED
      BY <3>1, <3>2
  <2>4. \A k \in e + 1 .. Len(r) : r[k].kind = "byte"
    <3>1. \A k \in e + 1 .. Len(r) : k \in e .. Len(r)
      BY <1>3 DEF e
    <3>2. QED
      BY <1>5, <1>12, <3>1
  <2>5. (t.done => b + 1 = Len(c)) /\ (~t.done => t.remaining > 0)
    <3>1. \A m \in Int : m >= 0 /\ m # 0 => m > 0
      OBVIOUS
    <3>2. left # 0 => left > 0
      BY <2>1, <3>1
    <3>5. \A m, n \in Nat : m - (n + 1) = 0 => n + 1 = m
      OBVIOUS
    <3>6. left = 0 => Len(c) - (b + 1) = 0
      BY <2>1, Zenon
    <3>3. left = 0 => b + 1 = Len(c)
      BY <1>3, <1>4, <3>5, <3>6, Zenon
    <3>4. QED
      BY <2>3, <3>2, <3>3
  <2>6. StreamInBody(r, c, e, t, b + 1)
    BY <1>1, <1>7, <2>1, <2>3, <2>4, <2>5, Zenon DEF StreamInBody
  <2>7. QED
    BY <1>7, <1>8, <2>3, <2>6, Zenon DEF StreamIsAt, e
<1>13. CASE s.state = "BODY_CLOSE"
  <2>1. t = u
    BY <1>9, <1>13
  <2>2. \A k \in e + 1 .. Len(r) : r[k].kind = "byte"
    <3>1. \A k \in e + 1 .. Len(r) : k \in e .. Len(r)
      BY <1>3 DEF e
    <3>2. QED
      BY <1>5, <1>13, <3>1
  <2>3. HttpBytes(r, Len(r)) = Len(c)
    BY <1>5, <1>13
  <2>4. StreamInBody(r, c, e, t, b + 1)
    BY <1>1, <1>7, <1>10, <1>11, <1>13, <2>1, <2>2, <2>3, Zenon DEF StreamInBody
  <2>5. QED
    BY <1>7, <1>8, <1>10, <1>11, <2>1, <2>4, Zenon DEF StreamIsAt, e
<1>14. CASE s.state = "CHUNK_BODY"
  <2>1. left = s.remaining - 1 /\ left \in Nat
    BY <1>5, <1>14
  <2>2. t = IF left = 0 THEN [u EXCEPT !.state = "CHUNK_CR"] ELSE u
    BY <1>9, <1>14
  <2>3. \A k \in e + 1 .. e + left : k \in DOMAIN r => r[k].kind = "byte"
    <3>1. \A k \in e + 1 .. e + left : k \in e .. i + s.remaining
      BY <1>5, <1>14, <2>1 DEF e
    <3>2. QED
      BY <1>5, <1>14, <3>1
  <2> HIDE DEF left
  <2>4. /\ DOMAIN t = StreamFields /\ t.status = s.status /\ ~t.error /\ ~t.done
        /\ t.remaining = left /\ (left = 0 => t.state = "CHUNK_CR") /\ (left # 0 => t.state = "CHUNK_BODY")
    <3>1. CASE left = 0
      <4>1. t = [u EXCEPT !.state = "CHUNK_CR"]
        BY <2>2, <3>1, Zenon
      <4>2. QED
        BY <1>10, <1>11, <1>14, <3>1, <4>1, ZenonT(60) DEF StreamFields
    <3>2. CASE left # 0
      BY <1>10, <1>11, <1>14, <2>2, <3>2, Zenon
    <3>3. QED
      BY <3>1, <3>2
  <2>5. left # 0 => left > 0
    <3>1. \A m \in Nat : m # 0 => m > 0
      OBVIOUS
    <3>2. QED
      BY <2>1, <3>1
  <2>6. StreamInBody(r, c, e, t, b + 1)
    <3>1. ~HttpStatus(r, 302) /\ t.status \in {200, 204} /\ b + 1 = HttpBytes(r, e) /\ ~t.done
      BY <1>1, <1>7, <2>4, Zenon
    <3>2. CASE left = 0
      BY <2>4, <3>1, <3>2 DEF StreamInBody
    <3>3. CASE left # 0
      BY <2>1, <2>3, <2>4, <2>5, <3>1, <3>3, ZenonT(60) DEF StreamInBody
    <3>4. QED
      BY <3>2, <3>3
  <2>7. QED
    BY <1>7, <1>8, <2>4, <2>6, Zenon DEF StreamIsAt, e
<1>15. QED
  BY <1>5, <1>12, <1>13, <1>14

(* Around the chunks of a body, and after them.                             *)
LEMMA BetweenRead ==
  ASSUME NEW r, NEW c, HttpAnswers(r, c), NEW i \in Nat, i < Len(r), NEW s, NEW b,
         DOMAIN s = StreamFields, ~s.error, ~s.done, StreamInBody(r, c, i, s, b), ~Http!InBody(s),
         NEW t, t = Http!Feed(s, r[i + 1])
  PROVE  DOMAIN t = StreamFields /\ (t.error \/ StreamIsAt(r, c, i + 1, t, b))
<1> DEFINE e == i + 1
           x == r[e]
           sized == [s EXCEPT !.remaining = x.n, !.state = IF x.n > 0 THEN "CHUNK_BODY" ELSE "TRAILERS"]
<1>1. /\ ~HttpStatus(r, 302) /\ s.status \in {200, 204} /\ b = HttpBytes(r, i)
      /\ HttpFramed(r, c) /\ (s.state \in {"CHUNK_SIZE", "CHUNK_CR"} \/ (s.state = "TRAILERS" /\ b = Len(c)))
  BY DEF StreamInBody, HttpAnswers, Http!InBody
<1>2. r \in Seq({r[k] : k \in DOMAIN r}) /\ c \in Seq({c[k] : k \in DOMAIN c})
  BY Zenon DEF HttpAnswers
<1>3. Len(r) \in Nat /\ DOMAIN r = 1 .. Len(r) /\ e \in DOMAIN r
  BY <1>2
<1>4. x.kind # "byte" => HttpBytes(r, e) = b
  <2>1. HttpBytes(r, i + 1) = IF r[i + 1].kind = "byte" THEN HttpBytes(r, i) + 1
                              ELSE HttpBytes(r, i)
    BY HttpBytesFacts, Zenon
  <2>2. QED
    BY <1>1, <2>1
<1>5. \/ t = Http!Fail(s)
      \/ s.state = "CHUNK_CR" /\ x.kind = "crlf" /\ t = [s EXCEPT !.state = "CHUNK_SIZE"]
      \/ s.state = "CHUNK_SIZE" /\ x.kind = "size" /\ t = sized
      \/ s.state = "TRAILERS" /\ x.kind = "end" /\ t = [s EXCEPT !.done = TRUE]
      \/ s.state = "TRAILERS" /\ x.kind \in {"length", "chunked", "location"} /\ t = s
  BY <1>1 DEF Http!Feed, Http!InBody, Http!line, Http!EndOfHeaders
<1>6. CASE t = Http!Fail(s)
  BY <1>6, StreamFails, Zenon
<1>7. CASE s.state = "CHUNK_CR" /\ x.kind = "crlf" /\ t = [s EXCEPT !.state = "CHUNK_SIZE"]
  <2>1. /\ DOMAIN t = StreamFields /\ t.state = "CHUNK_SIZE" /\ t.status = s.status
        /\ (t.done <=> s.done) /\ (t.error <=> s.error)
    BY <1>7, ZenonT(60) DEF StreamFields
  <2>2. t.state \in {"CHUNK_SIZE", "CHUNK_CR"} /\ HttpBytes(r, e) = b
    BY <1>4, <1>7, <2>1
  <2>3. StreamInBody(r, c, e, t, b)
    BY <1>1, <2>1, <2>2, Zenon DEF StreamInBody
  <2>4. QED
    BY <2>1, <2>3, Zenon DEF StreamIsAt
<1>8. CASE s.state = "CHUNK_SIZE" /\ x.kind = "size" /\ t = sized
  <2>1. /\ x.n \in Nat
        /\ x.n = 0 => HttpBytes(r, e) = Len(c)
        /\ \A k \in e + 1 .. e + x.n : k \in DOMAIN r => r[k].kind = "byte"
    BY <1>1, <1>3, <1>8, Zenon DEF HttpFramed
  <2> DEFINE state == IF x.n > 0 THEN "CHUNK_BODY" ELSE "TRAILERS"
  <2>2. /\ DOMAIN t = StreamFields /\ t.state = state /\ t.status = s.status /\ t.remaining = x.n
        /\ (t.done <=> s.done) /\ (t.error <=> s.error)
    BY <1>8, ZenonT(60) DEF StreamFields
  <2>3. HttpBytes(r, e) = b
    BY <1>4, <1>8
  <2>4. CASE x.n > 0
    <3>1. t.state = "CHUNK_BODY" /\ t.remaining \in Nat /\ t.remaining > 0
      BY <2>1, <2>2, <2>4
    <3>2. StreamInBody(r, c, e, t, b)
      <4> HIDE DEF e, x, state
      <4>1. QED
        BY <1>1, <2>1, <2>2, <2>3, <3>1, Zenon DEF StreamInBody
    <3>3. QED
      BY <2>2, <3>2, Zenon DEF StreamIsAt
  <2>5. CASE ~(x.n > 0)
    <3>1. t.state = "TRAILERS" /\ b = Len(c)
      BY <2>1, <2>2, <2>3, <2>5
    <3>2. StreamInBody(r, c, e, t, b)
      BY <1>1, <2>2, <2>3, <3>1, Zenon DEF StreamInBody
    <3>3. QED
      BY <2>2, <3>2, Zenon DEF StreamIsAt
  <2>6. QED
    BY <2>4, <2>5
<1>9. CASE s.state = "TRAILERS" /\ x.kind = "end" /\ t = [s EXCEPT !.done = TRUE]
  <2>1. /\ DOMAIN t = StreamFields /\ t.state = s.state /\ t.status = s.status
        /\ t.done /\ (t.error <=> s.error)
    BY <1>9, ZenonT(60) DEF StreamFields
  <2>2. t.state = "TRAILERS" /\ b = Len(c) /\ HttpBytes(r, e) = b
    BY <1>1, <1>4, <1>9, <2>1
  <2>3. StreamInBody(r, c, e, t, b)
    BY <1>1, <2>1, <2>2, Zenon DEF StreamInBody
  <2>4. QED
    BY <2>1, <2>3, Zenon DEF StreamIsAt
<1>10. CASE s.state = "TRAILERS" /\ x.kind \in {"length", "chunked", "location"} /\ t = s
  <2>1. b = Len(c) /\ HttpBytes(r, e) = b
    BY <1>1, <1>4, <1>10
  <2>2. StreamInBody(r, c, e, t, b)
    BY <1>1, <1>10, <2>1, Zenon DEF StreamInBody
  <2>3. QED
    BY <1>10, <2>2, Zenon DEF StreamIsAt
<1>11. QED
  BY <1>5, <1>6, <1>7, <1>8, <1>9, <1>10, Zenon

(* What one item does to the stream s.                                      *)
Fed(r, c, i, s, t, b) ==
  /\ DOMAIN t = StreamFields
  /\ ~Http!InBody(s) => t.error \/ StreamIsAt(r, c, i + 1, t, b)
  /\ Http!InBody(s) => /\ StreamIsAt(r, c, i + 1, t, b + 1)
                       /\ b + 1 \in DOMAIN c /\ c[b + 1] = r[i + 1]

LEMMA FeedIsAt ==
  ASSUME NEW r, NEW c, HttpAnswers(r, c), NEW i \in Nat, i < Len(r), NEW s, NEW b,
         StreamIsAt(r, c, i, s, b), ~s.done, NEW t, t = Http!Feed(s, r[i + 1])
  PROVE  Fed(r, c, i, s, t, b)
<1>1. DOMAIN s = StreamFields /\ ~s.error
  BY Zenon DEF StreamIsAt
<1>2. CASE StreamStarts(r, i, s, b)
  <2>1. ~Http!InBody(s)
    BY <1>2 DEF StreamStarts, Http!NewStream, Http!InBody
  <2>2. QED
    BY <1>1, <1>2, <2>1, StatusRead, Zenon DEF Fed
<1>3. CASE StreamInHeader(r, c, i, s, b)
  <2>1. ~Http!InBody(s)
    BY <1>3 DEF StreamInHeader, Http!InBody
  <2>2. QED
    BY <1>1, <1>3, <2>1, HeaderRead, HeaderEnds, Zenon DEF Fed
<1>4. CASE StreamInBody(r, c, i, s, b)
  <2>1. CASE Http!InBody(s)
    <3>1. /\ StreamIsAt(r, c, i + 1, t, b + 1)
          /\ b + 1 \in DOMAIN c /\ c[b + 1] = r[i + 1]
      BY <1>1, <1>4, <2>1, BodyRead
    <3>2. QED
      BY <2>1, <3>1, Zenon DEF StreamIsAt, Fed
  <2>2. CASE ~Http!InBody(s)
    BY <1>1, <1>4, <2>2, BetweenRead, Zenon DEF Fed
  <2>3. QED
    BY <2>1, <2>2
<1>5. QED
  BY <1>2, <1>3, <1>4, Zenon DEF StreamIsAt, StreamRedirects

(* The end of the connection ends the response only where that is how it is *)
(* framed.                                                                  *)
LEMMA CloseIsAt ==
  ASSUME NEW r, NEW c, NEW s, NEW b, StreamIsAt(r, c, Len(r), s, b),
         NEW t, t = Http!z80_http_stream_close(s)
  PROVE  DOMAIN t = StreamFields /\ (t.error \/ StreamIsAt(r, c, Len(r), t, b))
<1>1. DOMAIN s = StreamFields /\ ~s.error
  BY Zenon DEF StreamIsAt
<1>2. CASE s.done
  BY <1>1, <1>2, Zenon DEF Http!z80_http_stream_close
<1>3. CASE ~s.done /\ s.state # "BODY_CLOSE"
  <2>1. t = Http!Fail(s)
    BY <1>1, <1>3, Zenon DEF Http!z80_http_stream_close
  <2>2. QED
    BY <1>1, <2>1, StreamFails, Zenon
<1>4. CASE ~s.done /\ s.state = "BODY_CLOSE"
  <2>1. t = [s EXCEPT !.done = TRUE]
    BY <1>1, <1>4, Zenon DEF Http!z80_http_stream_close
  <2>2. /\ DOMAIN t = StreamFields /\ t.state = s.state /\ t.status = s.status
        /\ t.done /\ (t.error <=> s.error)
    BY <1>1, <2>1, ZenonT(60) DEF StreamFields
  <2>3. StreamInBody(r, c, Len(r), s, b)
    BY <1>4 DEF StreamIsAt, StreamStarts, StreamInHeader, StreamRedirects, Http!NewStream
  <2>4. /\ ~HttpStatus(r, 302) /\ s.status \in {200, 204} /\ b = HttpBytes(r, Len(r))
        /\ HttpBytes(r, Len(r)) = Len(c)
    BY <1>4, <2>3 DEF StreamInBody
  <2>5. StreamInBody(r, c, Len(r), t, b)
    BY <1>4, <2>2, <2>4, Zenon DEF StreamInBody
  <2>6. QED
    BY <1>1, <2>2, <2>5, Zenon DEF StreamIsAt
<1>5. QED
  BY <1>2, <1>3, <1>4

LEMMA StreamIsDone ==
  ASSUME NEW r, NEW c, NEW i, NEW s, NEW b, StreamIsAt(r, c, i, s, b), s.done
  PROVE  /\ s.status < 300 => b = Len(c)
         /\ ~(s.status < 300) => b = 0 /\ HttpStatus(r, 302)
<1>1. CASE StreamRedirects(r, s, b)
  BY <1>1 DEF StreamRedirects
<1>2. CASE StreamInBody(r, c, i, s, b)
  BY <1>2 DEF StreamInBody
<1>3. ~StreamStarts(r, i, s, b) /\ ~StreamInHeader(r, c, i, s, b)
  BY DEF StreamStarts, StreamInHeader, Http!NewStream
<1>4. QED
  BY <1>1, <1>2, <1>3, Zenon DEF StreamIsAt

-----------------------------------------------------------------------------
(* Sequences.                                                               *)
Begins(a, c) == Len(a) <= Len(c) /\ \A k \in 1 .. Len(a) : a[k] = c[k]

LEMMA BeginsWhole ==
  ASSUME NEW T, NEW a \in Seq(T), NEW c \in Seq(T), Begins(a, c), Len(a) = Len(c)
  PROVE  a = c
  BY DEF Begins

LEMMA BeginsLonger ==
  ASSUME NEW T, NEW a \in Seq(T), NEW c \in Seq(T), NEW x \in T, Begins(a, c),
         Len(a) + 1 \in DOMAIN c, c[Len(a) + 1] = x
  PROVE  Begins(Append(a, x), c)
<1>1. Len(a) + 1 <= Len(c) /\ Len(Append(a, x)) = Len(a) + 1
  OBVIOUS
<1>2. ASSUME NEW k \in 1 .. Len(a) + 1 PROVE Append(a, x)[k] = c[k]
  <2>1. k <= Len(a) \/ k = Len(a) + 1
    OBVIOUS
  <2>2. QED
    BY <2>1 DEF Begins
<1>3. QED
  BY <1>1, <1>2 DEF Begins

LEMMA BeginsShorter ==
  ASSUME NEW T, NEW a \in Seq(T), NEW b \in Seq(T), NEW c \in Seq(T), Begins(a \o b, c)
  PROVE  Begins(a, c)
<1>1. Len(a \o b) = Len(a) + Len(b) /\ \A k \in 1 .. Len(a) : (a \o b)[k] = a[k]
  OBVIOUS
<1>2. Len(a) <= Len(c)
  BY <1>1 DEF Begins
<1>3. ASSUME NEW k \in 1 .. Len(a) PROVE a[k] = c[k]
  <2>1. k \in 1 .. Len(a \o b)
    BY <1>1
  <2>2. QED
    BY <1>1, <2>1 DEF Begins
<1>4. QED
  BY <1>2, <1>3 DEF Begins

JoinedAt(T, a, b, j) ==
  /\ j \in Seq(T) /\ Len(j) = Len(a) + Len(b)
  /\ Len(a) \in Nat /\ Len(b) \in Nat
  /\ \A k \in 1 .. Len(a) : j[k] = a[k]
  /\ \A k \in 1 .. Len(b) : j[Len(a) + k] = b[k]

LEMMA JoinedFacts ==
  ASSUME NEW T, NEW a \in Seq(T), NEW b \in Seq(T)
  PROVE  JoinedAt(T, a, b, a \o b)
  BY DEF JoinedAt

LEMMA SameSequence ==
  ASSUME NEW T, NEW a \in Seq(T), NEW b \in Seq(T), Len(a) = Len(b),
         \A k \in 1 .. Len(a) : a[k] = b[k]
  PROVE  a = b
  OBVIOUS

LEMMA EmptyJoined ==
  ASSUME NEW T, NEW a \in Seq(T)
  PROVE  a \o <<>> = a /\ <<>> \o a = a
  OBVIOUS

LEMMA AppendJoined ==
  ASSUME NEW T, NEW a \in Seq(T), NEW b \in Seq(T), NEW e \in T
  PROVE  a \o Append(b, e) = Append(a \o b, e)
  OBVIOUS

LEMMA Associative ==
  ASSUME NEW T, NEW a \in Seq(T), NEW b \in Seq(T), NEW c \in Seq(T)
  PROVE  (a \o b) \o c = a \o (b \o c)
  OBVIOUS

(* One item moves from the front of s to the end of g.                      *)
LEMMA MovedOn ==
  ASSUME NEW T, NEW g \in Seq(T), NEW s \in Seq(T), NEW p \in 1 .. Len(s)
  PROVE  /\ s[p] \in T /\ Append(g, s[p]) \in Seq(T)
         /\ SubSeq(s, p, Len(s)) \in Seq(T) /\ SubSeq(s, p + 1, Len(s)) \in Seq(T)
         /\ Append(g, s[p]) \o SubSeq(s, p + 1, Len(s)) = g \o SubSeq(s, p, Len(s))
<1> DEFINE u == SubSeq(s, p, Len(s))
           v == SubSeq(s, p + 1, Len(s))
           a == Append(g, s[p])
           one == a \o v
           two == g \o u
<1>1. /\ u \in Seq(T) /\ Len(u) = Len(s) - p + 1
      /\ \A k \in 1 .. Len(s) - p + 1 : u[k] = s[p + k - 1]
      /\ v \in Seq(T) /\ Len(v) = Len(s) - p /\ \A k \in 1 .. Len(s) - p : v[k] = s[p + k]
      /\ p \in Nat /\ p >= 1 /\ p <= Len(s) /\ Len(s) \in Nat /\ Len(g) \in Nat
  OBVIOUS
<1>2. /\ s[p] \in T /\ a \in Seq(T) /\ Len(a) = Len(g) + 1
      /\ a[Len(g) + 1] = s[p] /\ \A k \in 1 .. Len(g) : a[k] = g[k]
  OBVIOUS
<1> HIDE DEF u, v, a
<1>3. JoinedAt(T, a, v, one)
  <2>1. a \in Seq(T) /\ v \in Seq(T)
    BY <1>1, <1>2
  <2>2. QED
    BY <2>1, JoinedFacts, Zenon
<1>4. JoinedAt(T, g, u, two)
  <2>1. u \in Seq(T)
    BY <1>1
  <2>2. QED
    BY <2>1, JoinedFacts, Zenon
<1> HIDE DEF one, two
<1> USE DEF JoinedAt
<1>5. ASSUME NEW k \in 1 .. Len(one) PROVE one[k] = two[k]
  <2>1. CASE k <= Len(g)
    <3>1. k \in 1 .. Len(g) /\ k \in 1 .. Len(a)
      BY <1>1, <1>2, <2>1
    <3>2. QED
      BY <1>2, <1>3, <1>4, <3>1
  <2>2. CASE k = Len(g) + 1
    <3>1. k \in 1 .. Len(a) /\ 1 \in 1 .. Len(u) /\ p + 1 - 1 = p /\ 1 \in 1 .. Len(s) - p + 1
      BY <1>1, <1>2, <2>2
    <3>2. one[k] = s[p] /\ two[k] = u[1] /\ u[1] = s[p + 1 - 1]
      BY <1>1, <1>2, <1>3, <1>4, <2>2, <3>1
    <3>3. QED
      BY <3>1, <3>2
  <2>3. CASE k > Len(g) + 1
    <3> DEFINE m == k - (Len(g) + 1)
               n == m + 1
    <3>1. /\ p \in Nat /\ Len(s) \in Nat /\ p <= Len(s) /\ Len(g) \in Nat
          /\ Len(a) = Len(g) + 1 /\ Len(v) = Len(s) - p /\ Len(u) = Len(s) - p + 1
      BY <1>1, <1>2
    <3>2. Len(one) = Len(a) + Len(v)
      BY <1>3, Zenon
    <3>3. k \in Int /\ k <= Len(g) + 1 + (Len(s) - p)
      BY <3>1, <3>2
    <3>4. /\ m \in 1 .. Len(v) /\ m \in 1 .. Len(s) - p /\ n \in 1 .. Len(u)
          /\ n \in 1 .. Len(s) - p + 1
      BY <2>3, <3>1, <3>3
    <3>5. k = Len(a) + m /\ k = Len(g) + n /\ p + m = p + n - 1
      BY <3>1, <3>3
    <3> HIDE DEF m, n
    <3>6. one[Len(a) + m] = v[m] /\ two[Len(g) + n] = u[n]
      BY <1>3, <1>4, <3>4, Zenon
    <3>7. v[m] = s[p + m] /\ u[n] = s[p + n - 1]
      BY <1>1, <3>4, Zenon
    <3>8. QED
      BY <3>5, <3>6, <3>7, Zenon
  <2>4. QED
    BY <1>1, <1>2, <1>3, <2>1, <2>2, <2>3
<1>6. Len(one) = Len(two)
  BY <1>1, <1>2, <1>3, <1>4
<1>7. one = two
  <2>1. one \in Seq(T) /\ two \in Seq(T)
    BY <1>3, <1>4
  <2>2. QED
    BY <1>5, <1>6, <2>1, SameSequence, Zenon
<1>8. QED
  BY <1>1, <1>2, <1>7, Zenon DEF u, v, a, one, two

(* The first item of what is still to come.                                 *)
NextIn(T, r, i, p, q) ==
  /\ i < Len(r) /\ Head(p) = r[i + 1] /\ Tail(p) \in Seq(T)
  /\ Tail(p) \o q = SubSeq(r, (i + 1) + 1, Len(r))

LEMMA NextOnTheWire ==
  ASSUME NEW T, NEW r \in Seq(T), NEW i \in 0 .. Len(r), NEW p \in Seq(T), NEW q \in Seq(T),
         p \o q = SubSeq(r, i + 1, Len(r)), p # <<>>
  PROVE  NextIn(T, r, i, p, q)
<1> DEFINE w == SubSeq(r, i + 1, Len(r))
           v == SubSeq(r, (i + 1) + 1, Len(r))
           one == p \o q
           t == Tail(p)
           two == t \o q
<1>1. /\ w \in Seq(T) /\ Len(w) = Len(r) - i /\ \A k \in 1 .. Len(r) - i : w[k] = r[i + k]
      /\ i \in Nat /\ Len(r) \in Nat /\ i <= Len(r) /\ Len(p) \in Nat /\ Len(q) \in Nat
  OBVIOUS
<1>2. i < Len(r) => /\ v \in Seq(T) /\ Len(v) = Len(r) - i - 1
                    /\ \A k \in 1 .. Len(r) - i - 1 : v[k] = r[i + 1 + k]
  OBVIOUS
<1>3. /\ Len(p) >= 1 /\ t \in Seq(T) /\ Len(t) = Len(p) - 1 /\ Head(p) = p[1]
      /\ \A k \in 1 .. Len(p) - 1 : t[k] = p[k + 1]
  OBVIOUS
<1> HIDE DEF w, v, t
<1>4. JoinedAt(T, p, q, one)
  BY JoinedFacts, Zenon
<1>5. JoinedAt(T, t, q, two)
  <2>1. t \in Seq(T)
    BY <1>3
  <2>2. QED
    BY <2>1, JoinedFacts, Zenon
<1>6. one = w
  BY DEF w
<1> HIDE DEF one, two
<1> USE DEF JoinedAt
<1>7. i < Len(r) /\ Len(p) + Len(q) = Len(r) - i
  <2>1. Len(one) = Len(p) + Len(q)
    BY <1>4
  <2>2. Len(one) = Len(r) - i
    BY <1>1, <1>6, Zenon
  <2>3. Len(p) + Len(q) = Len(r) - i
    BY <2>1, <2>2, Zenon
  <2>4. \A k, m, n, o \in Nat : o >= 1 /\ o + n = k - m => m < k
    OBVIOUS
  <2>5. QED
    BY <1>1, <1>3, <2>3, <2>4, Zenon
<1>8. Head(p) = r[i + 1]
  <2>1. 1 \in 1 .. Len(p) /\ 1 \in 1 .. Len(r) - i
    BY <1>1, <1>3, <1>7
  <2>2. one[1] = p[1] /\ w[1] = r[i + 1]
    BY <1>1, <1>4, <2>1
  <2>3. QED
    BY <1>3, <1>6, <2>2
<1>9. ASSUME NEW k \in 1 .. Len(two) PROVE two[k] = v[k]
  <2>1. /\ k \in 1 .. Len(r) - i - 1 /\ k + 1 \in 1 .. Len(r) - i /\ i + (k + 1) = i + 1 + k
    BY <1>1, <1>3, <1>5, <1>7
  <2>2. w[k + 1] = r[i + (k + 1)] /\ v[k] = r[i + 1 + k]
    BY <1>1, <1>2, <1>7, <2>1
  <2>3. two[k] = one[k + 1]
    <3>1. CASE k <= Len(t)
      <4>1. k \in 1 .. Len(t) /\ k \in 1 .. Len(p) - 1 /\ k + 1 \in 1 .. Len(p)
        BY <1>1, <1>3, <3>1
      <4>2. QED
        BY <1>3, <1>4, <1>5, <4>1
    <3>2. CASE k > Len(t)
      <4> DEFINE m == k - Len(t)
      <4>1. m \in 1 .. Len(q) /\ k = Len(t) + m /\ k + 1 = Len(p) + m
        BY <1>1, <1>3, <1>5, <3>2
      <4> HIDE DEF m
      <4>2. QED
        BY <1>4, <1>5, <4>1
    <3>3. QED
      BY <1>1, <1>3, <3>1, <3>2
  <2>4. QED
    BY <1>6, <2>1, <2>2, <2>3
<1>10. Len(two) = Len(v) /\ v \in Seq(T)
  BY <1>1, <1>2, <1>3, <1>5, <1>7
<1>11. two = v
  <2>1. two \in Seq(T)
    BY <1>5
  <2>2. QED
    BY <1>9, <1>10, <2>1, SameSequence, Zenon
<1>12. QED
  BY <1>3, <1>7, <1>8, <1>11, Zenon DEF v, two, t, NextIn

LEMMA NothingOnTheWire ==
  ASSUME NEW T, NEW r \in Seq(T), NEW i \in 0 .. Len(r), <<>> \o <<>> = SubSeq(r, i + 1, Len(r))
  PROVE  i = Len(r)
<1>1. Len(SubSeq(r, i + 1, Len(r))) = Len(r) - i /\ Len(r) \in Nat /\ i \in Nat
  OBVIOUS
<1>2. <<>> \o <<>> = <<>> /\ Len(<<>>) = 0
  OBVIOUS
<1>3. Len(r) - i = 0
  BY <1>1, <1>2, Zenon
<1>4. QED
  BY <1>1, <1>3

(* An item arrives.                                                         *)
LEMMA Arrived ==
  ASSUME NEW T, NEW p \in Seq(T), NEW q \in Seq(T), q # <<>>
  PROVE  /\ Append(p, Head(q)) \in Seq(T) /\ Tail(q) \in Seq(T)
         /\ Append(p, Head(q)) \o Tail(q) = p \o q
<1>1. Head(q) \in T /\ Append(p, Head(q)) \in Seq(T) /\ Tail(q) \in Seq(T)
  OBVIOUS
<1>2. SubSeq(q, 1, Len(q)) = q /\ SubSeq(q, 1 + 1, Len(q)) = Tail(q) /\ q[1] = Head(q)
      /\ 1 \in 1 .. Len(q)
  OBVIOUS
<1>3. \A k \in 1 .. Len(q) : Append(p, q[k]) \o SubSeq(q, k + 1, Len(q)) = p \o SubSeq(q, k, Len(q))
  BY MovedOn
<1>4. Append(p, q[1]) \o SubSeq(q, 1 + 1, Len(q)) = p \o SubSeq(q, 1, Len(q))
  BY <1>2, <1>3, Zenon
<1>5. QED
  BY <1>1, <1>2, <1>4, Zenon

LEMMA TransferIsAt ==
  ASSUME NEW r, NEW c, HttpAnswers(r, c)
  PROVE  StreamIsAt(r, c, 0, Http!NewStream, 0)
<1>1. HttpBytes(r, 0) = 0
  BY HttpBytesFacts
<1>2. DOMAIN Http!NewStream = StreamFields /\ ~Http!NewStream.error
  BY DEF Http!NewStream, StreamFields
<1>3. QED
  BY <1>1, <1>2, Zenon DEF StreamIsAt, StreamStarts

-----------------------------------------------------------------------------
(* The port.                                                                *)
HttpItems ==
  (UNION {{HttpResponse[f][i] : i \in DOMAIN HttpResponse[f]} : f \in HttpFiles})
    \cup (UNION {{HttpContent[f][i] : i \in DOMAIN HttpContent[f]} : f \in HttpFiles})
Received == Seq(HttpItems)
HttpFields ==
  {"session", "port", "got", "slot", "worker", "net", "lookups", "online", "networks", "pc",
   "current"}
PortFields ==
  {"name", "length", "position", "status", "final", "collecting", "overflow", "want"}
SlotFields == {"state", "session", "name", "data", "status"}
WorkerFields ==
  {"session", "opened", "active", "running", "redirects", "target", "error", "network", "ring",
   "stream"}
ConnFields == {"active", "client", "ready", "asked", "pending", "rest", "closed", "failure"}

(* What the Z80 has got of this session, and will get from the slot.        *)
Own(h) == h.slot.state = "DONE" /\ h.slot.session = h.session
Held(h) == IF ~Own(h) THEN <<>>
           ELSE IF h.port.want \/ h.port.position = 0 THEN h.slot.data
           ELSE SubSeq(h.slot.data, h.port.position, Len(h.slot.data))
Flow(h) == h.got \o Held(h)

HttpShape(h) ==
  /\ DOMAIN h = HttpFields /\ DOMAIN h.port = PortFields /\ DOMAIN h.slot = SlotFields
  /\ DOMAIN h.worker = WorkerFields /\ DOMAIN h.net = ConnFields
  /\ h.port.position \in Nat /\ h.port.length \in Nat
  /\ h.port.name \in Seq(HttpFiles) /\ h.got \in Received
  /\ Own(h) => h.slot.data \in Received

SessionsAreOrdered(h) ==
  /\ h.session \in Nat /\ h.current \in Nat /\ h.slot.session \in Nat /\ h.worker.session \in Nat
  /\ h.worker.session <= h.current /\ h.current <= h.session /\ h.slot.session <= h.session

(* The slot is this session's while it waits for it or reads from it.       *)
PortIsSound(h) ==
  /\ Http!Unread(h) => /\ Own(h) /\ ~h.port.want /\ h.port.length = Len(h.slot.data) + 1
                       /\ h.port.final = h.slot.status
  /\ Own(h) => h.port.want \/ Http!Unread(h)
  /\ h.slot.state = "PENDING" /\ h.slot.session = h.session =>
       h.port.want /\ h.slot.name[1] = h.port.name[1]
  /\ h.port.want => h.port.name # <<>>
  /\ h.port.status = "EOF" => ~h.port.want /\ ~Http!Unread(h)

(* What it gets is the beginning of the file, and all of it at an EOF.      *)
FlowIsOurs(h) ==
  /\ Flow(h) # <<>> => h.port.name # <<>> /\ Begins(Flow(h), HttpContent[h.port.name[1]])
  /\ Own(h) /\ h.slot.status = "EOF" =>
       h.port.name # <<>> /\ Flow(h) = HttpContent[h.port.name[1]]
  /\ h.port.status = "EOF" => h.port.name # <<>> /\ h.got = HttpContent[h.port.name[1]]

WorkerIsSound(w, n) ==
  /\ DOMAIN w = WorkerFields /\ DOMAIN n = ConnFields /\ DOMAIN w.stream = StreamFields
  /\ n.active => w.running
  /\ w.running => w.opened
  /\ ~w.opened => w.stream = Http!NewStream /\ w.ring = <<>> /\ ~w.active
  /\ w.active => ~w.stream.error /\ n.active
  /\ w.error # "EOF"

(* What the connection still has to hand on of the response r.              *)
WireIsAt(r, i, s, n) ==
  /\ n.pending \in Received /\ n.rest \in Received
  /\ n.asked => n.pending \o n.rest = SubSeq(r, i + 1, Len(r)) /\ (n.closed => n.rest = <<>>)
  /\ ~n.asked => i = 0 /\ s = Http!NewStream /\ n.pending = <<>> /\ ~n.closed

(* "all" is what was handed on of the content c.                            *)
OnTheWire(all, c, w, n) ==
  /\ w.target \in HttpFiles /\ HttpContent[w.target] = c /\ Begins(all, c)
  /\ \E i \in 0 .. Len(HttpResponse[w.target]) :
       /\ WireIsAt(HttpResponse[w.target], i, w.stream, n)
       /\ StreamIsAt(HttpResponse[w.target], c, i, w.stream, Len(all))

(* The transfer of a session that has got, or holds, "fl".                  *)
TransferIsOurs(fl, p, w, n) ==
  /\ w.ring \in Received
  /\ ~w.opened => fl = <<>>
  /\ w.opened => p.name # <<>>
  /\ w.opened /\ ~w.stream.error /\ ~w.active => fl \o w.ring = HttpContent[p.name[1]]
  /\ w.active => OnTheWire(fl \o w.ring, HttpContent[p.name[1]], w, n)

HttpCore(h) ==
  /\ HttpShape(h) /\ SessionsAreOrdered(h) /\ PortIsSound(h) /\ FlowIsOurs(h)
  /\ WorkerIsSound(h.worker, h.net)
  /\ IF h.worker.session = h.session THEN TransferIsOurs(Flow(h), h.port, h.worker, h.net)
                                     ELSE Flow(h) = <<>>

HttpGood(h) == HttpCore(h) /\ (h.pc \in {"net", "again"} => h.net.active)

(* Core 0's side is left alone.                                             *)
SameSide(h, k) ==
  /\ DOMAIN k = HttpFields /\ k.session = h.session /\ k.port = h.port /\ k.got = h.got
  /\ k.slot = h.slot /\ k.current = h.current

LEMMA SameFlow ==
  ASSUME NEW h, NEW k, k.session = h.session, k.port = h.port, k.got = h.got, k.slot = h.slot
  PROVE  /\ Own(k) <=> Own(h)
         /\ Flow(k) = Flow(h) /\ (Http!Unread(k) <=> Http!Unread(h))
  BY Zenon DEF Own, Held, Flow, Http!Unread

LEMMA SidesAreKept ==
  ASSUME NEW h, NEW k, HttpShape(h), PortIsSound(h), FlowIsOurs(h),
         SameSide(h, k), DOMAIN k.worker = WorkerFields, DOMAIN k.net = ConnFields
  PROVE  HttpShape(k) /\ PortIsSound(k) /\ FlowIsOurs(k)
<1>1. /\ Own(k) <=> Own(h)
      /\ Flow(k) = Flow(h) /\ (Http!Unread(k) <=> Http!Unread(h))
  BY SameFlow, Zenon DEF SameSide
<1>2. HttpShape(k)
  BY <1>1, Zenon DEF HttpShape, SameSide
<1>3. PortIsSound(k)
  BY <1>1, Zenon DEF PortIsSound, SameSide
<1>4. FlowIsOurs(k)
  BY <1>1, Zenon DEF FlowIsOurs, SameSide
<1>5. QED
  BY <1>2, <1>3, <1>4

(* The worker and the connection change.                                    *)
LEMMA WorkerChanges ==
  ASSUME NEW h, NEW k, HttpCore(h), SameSide(h, k), k.worker.session = h.worker.session,
         WorkerIsSound(k.worker, k.net),
         h.worker.session = h.session => TransferIsOurs(Flow(h), h.port, k.worker, k.net)
  PROVE  HttpCore(k)
<1>1. DOMAIN k.worker = WorkerFields /\ DOMAIN k.net = ConnFields
  BY Zenon DEF WorkerIsSound
<1>2. HttpShape(k) /\ PortIsSound(k) /\ FlowIsOurs(k)
  BY <1>1, SidesAreKept, Zenon DEF HttpCore
<1>3. SessionsAreOrdered(k)
  BY Zenon DEF HttpCore, SessionsAreOrdered, SameSide
<1>4. Flow(k) = Flow(h) /\ k.session = h.session /\ k.port = h.port
  BY SameFlow, Zenon DEF SameSide
<1>5. QED
  BY <1>2, <1>3, <1>4, Zenon DEF HttpCore

(* A transfer that has failed hands on what is in the ring, and then says so. *)
LEMMA ErrorIsSound ==
  ASSUME NEW h, NEW k, HttpCore(h), SameSide(h, k), k.worker.session = h.worker.session,
         WorkerIsSound(k.worker, k.net), k.worker.ring = h.worker.ring,
         k.worker.opened, k.worker.stream.error,
         h.worker.session = h.session => h.port.name # <<>>
  PROVE  HttpCore(k)
<1>1. ~k.worker.active
  BY Zenon DEF WorkerIsSound
<1>2. h.worker.session = h.session => TransferIsOurs(Flow(h), h.port, k.worker, k.net)
  BY <1>1, Zenon DEF HttpCore, TransferIsOurs
<1>3. QED
  BY <1>2, WorkerChanges, Zenon

-----------------------------------------------------------------------------
(* The fields the pieces of a step change.                                  *)

LEMMA Cancelled ==
  ASSUME NEW h, HttpShape(h), NEW k, k = Http!cancel(h)
  PROVE  /\ SameSide(h, k) /\ k.worker = h.worker /\ DOMAIN k.net = ConnFields /\ ~k.net.active
         /\ k.online = h.online /\ k.networks = h.networks
<1> DEFINE n == [h.net EXCEPT !.active = FALSE, !.client = FALSE, !.pending = <<>>, !.rest = <<>>]
           l == Http!Stale(h.lookups)
<1>1. DOMAIN h = HttpFields /\ DOMAIN h.net = ConnFields
  BY Zenon DEF HttpShape
<1>2. k = [h EXCEPT !.net = n, !.lookups = l]
  BY Zenon DEF Http!cancel
<1>3. DOMAIN n = ConnFields /\ ~n.active
  BY <1>1, ZenonT(60) DEF ConnFields
<1> HIDE DEF n, l
<1>4. /\ SameSide(h, k) /\ k.worker = h.worker /\ k.net = n
      /\ k.online = h.online /\ k.networks = h.networks
  BY <1>1, <1>2, ZenonT(60) DEF HttpFields, SameSide
<1>5. QED
  BY <1>3, <1>4, Zenon

(* Only "running" of the worker differs.                                    *)
SameWork(w, v) ==
  /\ DOMAIN v = WorkerFields
  /\ v.session = w.session /\ (v.opened <=> w.opened) /\ (v.active <=> w.active)
  /\ v.redirects = w.redirects /\ v.target = w.target /\ v.error = w.error
  /\ v.network = w.network /\ v.ring = w.ring /\ v.stream = w.stream

LEMMA BackendCancelled ==
  ASSUME NEW h, HttpShape(h), WorkerIsSound(h.worker, h.net), NEW k, k = Http!cancel_backend(h)
  PROVE  /\ SameSide(h, k) /\ SameWork(h.worker, k.worker) /\ DOMAIN k.net = ConnFields
         /\ ~k.net.active /\ ~k.worker.running
<1>1. DOMAIN h = HttpFields /\ DOMAIN h.net = ConnFields /\ DOMAIN h.worker = WorkerFields
  BY Zenon DEF HttpShape
<1>2. CASE ~h.worker.running
  <2>1. k = h /\ ~h.net.active
    BY <1>2, Zenon DEF Http!cancel_backend, WorkerIsSound
  <2>2. QED
    BY <1>1, <1>2, <2>1, Zenon DEF SameSide, SameWork
<1>3. CASE h.worker.running
  <2> DEFINE c == Http!cancel(h)
             w == [c.worker EXCEPT !.running = FALSE]
  <2>1. k = [c EXCEPT !.worker.running = FALSE]
    BY <1>3, Zenon DEF Http!cancel_backend
  <2>2. /\ SameSide(h, c) /\ c.worker = h.worker /\ DOMAIN c.net = ConnFields /\ ~c.net.active
    BY Cancelled, Zenon
  <2> HIDE DEF c
  <2>3. SameWork(h.worker, w) /\ ~w.running
    BY <1>1, <2>2, ZenonT(60) DEF SameWork, WorkerFields
  <2>4. k = [c EXCEPT !.worker = w]
    BY <2>1, Zenon
  <2> HIDE DEF w
  <2>5. DOMAIN c = HttpFields
    BY <2>2, Zenon DEF SameSide
  <2>6. /\ DOMAIN k = HttpFields /\ k.session = c.session /\ k.port = c.port /\ k.got = c.got
        /\ k.slot = c.slot /\ k.current = c.current /\ k.worker = w /\ k.net = c.net
    BY <2>4, <2>5, ZenonT(60) DEF HttpFields
  <2>7. QED
    BY <2>2, <2>3, <2>6, Zenon DEF SameSide
<1>4. QED
  BY <1>2, <1>3

LEMMA Started ==
  ASSUME NEW h, HttpShape(h), NEW fails, NEW k, k = Http!start(h, fails)
  PROVE  /\ SameSide(h, k) /\ k.worker = h.worker /\ DOMAIN k.net = ConnFields
         /\ k.net.active /\ ~k.net.asked /\ ~k.net.closed
         /\ k.net.pending = <<>> /\ k.net.rest = <<>>
<1> DEFINE c == Http!cancel(h)
           n == [Http!NoNet EXCEPT !.active = TRUE, !.failure = fails]
           l == IF fails THEN c.lookups ELSE c.lookups \cup {"current"}
<1>1. SameSide(h, c) /\ c.worker = h.worker
  BY Cancelled, Zenon
<1>2. k = [c EXCEPT !.net = n, !.lookups = l]
  BY Zenon DEF Http!start
<1>3. /\ DOMAIN n = ConnFields /\ n.active /\ ~n.asked /\ ~n.closed
      /\ n.pending = <<>> /\ n.rest = <<>>
  BY DEF Http!NoNet, ConnFields
<1> HIDE DEF c, n, l
<1>4. DOMAIN c = HttpFields
  BY <1>1, Zenon DEF SameSide
<1>5. /\ DOMAIN k = HttpFields /\ k.session = c.session /\ k.port = c.port /\ k.got = c.got
      /\ k.slot = c.slot /\ k.current = c.current /\ k.worker = c.worker /\ k.net = n
  BY <1>2, <1>4, ZenonT(60) DEF HttpFields
<1>6. QED
  BY <1>1, <1>3, <1>5, Zenon DEF SameSide

LEMMA Errored ==
  ASSUME NEW h, DOMAIN h = HttpFields, DOMAIN h.worker = WorkerFields,
         DOMAIN h.worker.stream = StreamFields, NEW k, k = Http!z80_http_io_error(h)
  PROVE  /\ SameSide(h, k) /\ k.net = h.net /\ DOMAIN k.worker = WorkerFields
         /\ DOMAIN k.worker.stream = StreamFields /\ k.worker.stream.error
         /\ ~k.worker.active /\ k.worker.session = h.worker.session
         /\ (k.worker.opened <=> h.worker.opened) /\ (k.worker.running <=> h.worker.running)
         /\ k.worker.error = h.worker.error /\ k.worker.ring = h.worker.ring
<1> DEFINE s == Http!Fail(h.worker.stream)
           w == [h.worker EXCEPT !.stream = s, !.active = FALSE]
<1>1. s.error /\ DOMAIN s = StreamFields
  BY StreamFails, Zenon
<1>2. k = [h EXCEPT !.worker = w]
  BY Zenon DEF Http!z80_http_io_error
<1> HIDE DEF s
<1>3. /\ DOMAIN w = WorkerFields /\ w.stream = s /\ ~w.active /\ w.session = h.worker.session
      /\ (w.opened <=> h.worker.opened) /\ (w.running <=> h.worker.running)
      /\ w.error = h.worker.error /\ w.ring = h.worker.ring
  BY ZenonT(60) DEF WorkerFields
<1> HIDE DEF w
<1>4. SameSide(h, k) /\ k.net = h.net /\ k.worker = w
  BY <1>2, ZenonT(60) DEF HttpFields, SameSide
<1>5. QED
  BY <1>1, <1>3, <1>4, Zenon

-----------------------------------------------------------------------------
(* The stages of the worker's service.                                      *)

LEMMA FileFacts ==
  ASSUME NEW f \in HttpFiles
  PROVE  /\ HttpAnswers(HttpResponse[f], HttpContent[f])
         /\ HttpResponse[f] \in Received /\ HttpContent[f] \in Received
         /\ HttpStatus(HttpResponse[f], 302) /\ HttpLocation[f] # HttpUnusable =>
              HttpLocation[f] \in HttpFiles /\ HttpContent[HttpLocation[f]] = HttpContent[f]
<1> DEFINE r == HttpResponse[f]
           c == HttpContent[f]
           R == {r[i] : i \in DOMAIN r}
           C == {c[i] : i \in DOMAIN c}
<1>1. /\ r \in Seq(R) /\ c \in Seq(C)
      /\ IF HttpStatus(r, 302)
         THEN /\ ~HttpStatus(r, 200) /\ ~HttpStatus(r, 204)
              /\ HttpLocation[f] # HttpUnusable =>
                   HttpLocation[f] \in HttpFiles /\ HttpContent[HttpLocation[f]] = HttpContent[f]
         ELSE HttpFramed(r, c)
  BY HttpAssumption, Zenon DEF HttpAssumption
<1>2. HttpAnswers(r, c)
  BY <1>1, Zenon DEF HttpAnswers
<1>3. R \subseteq HttpItems /\ C \subseteq HttpItems
  <2>1. R \in {{HttpResponse[g][i] : i \in DOMAIN HttpResponse[g]} : g \in HttpFiles}
    BY Zenon
  <2>2. C \in {{HttpContent[g][i] : i \in DOMAIN HttpContent[g]} : g \in HttpFiles}
    BY Zenon
  <2> HIDE DEF R, C
  <2>3. QED
    BY <2>1, <2>2, Zenon DEF HttpItems
<1> HIDE DEF R, C
<1>4. \A s \in Seq(R) : s \in Received
  <2> HIDE DEF r, c
  <2>1. QED
    BY <1>3 DEF Received
<1>5. \A s \in Seq(C) : s \in Received
  <2> HIDE DEF r, c
  <2>1. QED
    BY <1>3 DEF Received
<1>6. QED
  BY <1>1, <1>2, <1>4, <1>5, Zenon

LEMMA SameSides ==
  ASSUME NEW h, NEW k, NEW m, SameSide(h, k), SameSide(k, m)
  PROVE  SameSide(h, m)
  BY Zenon DEF SameSide

LEMMA FailIsSound ==
  ASSUME NEW h, HttpCore(h), h.worker.opened, NEW k, k = Http!z80_http_io_error(h)
  PROVE  /\ HttpCore(k) /\ SameSide(h, k) /\ k.worker.session = h.worker.session
         /\ k.net = h.net
<1>1. /\ DOMAIN h = HttpFields /\ DOMAIN h.worker = WorkerFields
      /\ DOMAIN h.worker.stream = StreamFields
  BY Zenon DEF HttpCore, HttpShape, WorkerIsSound
<1>2. /\ SameSide(h, k) /\ k.net = h.net /\ DOMAIN k.worker = WorkerFields
      /\ DOMAIN k.worker.stream = StreamFields /\ k.worker.stream.error
      /\ ~k.worker.active /\ k.worker.session = h.worker.session
      /\ (k.worker.opened <=> h.worker.opened) /\ (k.worker.running <=> h.worker.running)
      /\ k.worker.error = h.worker.error /\ k.worker.ring = h.worker.ring
  BY <1>1, Errored, Zenon
<1>3. WorkerIsSound(k.worker, k.net)
  BY <1>2, Zenon DEF HttpCore, WorkerIsSound
<1>4. h.worker.session = h.session => h.port.name # <<>>
  BY Zenon DEF HttpCore, TransferIsOurs
<1>5. HttpCore(k)
  BY <1>2, <1>3, <1>4, ErrorIsSound, Zenon
<1>6. QED
  BY <1>2, <1>5, Zenon

LEMMA SameIsSound ==
  ASSUME NEW h, HttpCore(h), NEW k, SameSide(h, k), k.worker = h.worker, k.net = h.net
  PROVE  HttpCore(k)
<1>1. /\ WorkerIsSound(k.worker, k.net)
      /\ h.worker.session = h.session => TransferIsOurs(Flow(h), h.port, k.worker, k.net)
  BY Zenon DEF HttpCore
<1>2. QED
  BY <1>1, WorkerChanges, Zenon

LEMMA NetworkIsChecked ==
  ASSUME NEW h, HttpCore(h), NEW k, k = Http!CheckNetwork(h)
  PROVE  HttpCore(k) /\ SameSide(h, k) /\ k.worker.session = h.worker.session
<1>1. k = h \/ (h.worker.active /\ k = Http!z80_http_io_error(h))
  <2> DEFINE cond == h.worker.active /\ (~h.online \/ h.worker.network # h.networks)
             e == Http!z80_http_io_error(h)
  <2>1. k = IF cond THEN e ELSE h
    BY Zenon DEF Http!CheckNetwork
  <2>2. cond => h.worker.active
    BY Zenon
  <2> HIDE DEF cond, e
  <2>3. k = h \/ (cond /\ k = e)
    BY <2>1, Zenon
  <2>4. QED
    BY <2>2, <2>3, Zenon DEF e
<1>2. SameSide(h, h)
  BY Zenon DEF HttpCore, HttpShape, SameSide
<1>3. h.worker.active => h.worker.opened
  BY Zenon DEF HttpCore, WorkerIsSound
<1>4. QED
  BY <1>1, <1>2, <1>3, FailIsSound, Zenon

LEMMA FailedIsCancelled ==
  ASSUME NEW h, HttpCore(h), NEW k, k = Http!CancelFailed(h)
  PROVE  HttpCore(k) /\ SameSide(h, k) /\ k.worker.session = h.worker.session
<1>1. CASE k = h
  <2>1. SameSide(h, h)
    BY Zenon DEF HttpCore, HttpShape, SameSide
  <2>2. QED
    BY <1>1, <2>1, Zenon
<1>2. CASE k = Http!cancel_backend(h) /\ ~h.worker.active /\ h.worker.stream.error
  <2>1. HttpShape(h) /\ WorkerIsSound(h.worker, h.net)
    BY Zenon DEF HttpCore
  <2>2. /\ SameSide(h, k) /\ SameWork(h.worker, k.worker) /\ DOMAIN k.net = ConnFields
        /\ ~k.net.active /\ ~k.worker.running
    BY <1>2, <2>1, BackendCancelled, Zenon
  <2>3. WorkerIsSound(k.worker, k.net)
    BY <1>2, <2>1, <2>2, Zenon DEF WorkerIsSound, SameWork
  <2>4. h.worker.session = h.session => TransferIsOurs(Flow(h), h.port, k.worker, k.net)
    BY <1>2, <2>2, Zenon DEF HttpCore, TransferIsOurs, SameWork
  <2>5. HttpCore(k)
    BY <2>2, <2>3, <2>4, WorkerChanges, Zenon DEF SameWork
  <2>6. QED
    BY <2>2, <2>5, Zenon DEF SameWork
<1>3. QED
  BY <1>1, <1>2, Zenon DEF Http!CancelFailed

LEMMA Beginning ==
  ASSUME NEW w, NEW n, w.target \in HttpFiles, w.stream = Http!NewStream,
         n.pending = <<>>, n.rest = <<>>, ~n.asked, ~n.closed,
         NEW c, c = HttpContent[w.target]
  PROVE  OnTheWire(<<>>, c, w, n)
<1> DEFINE r == HttpResponse[w.target]
<1>1. HttpAnswers(r, c) /\ r \in Received /\ c \in Received
  BY FileFacts, Zenon
<1>2. Begins(<<>>, c) /\ 0 \in 0 .. Len(r) /\ Len(<<>>) = 0 /\ <<>> \in Received
  BY <1>1 DEF Begins, Received
<1>3. StreamIsAt(r, c, 0, w.stream, Len(<<>>))
  BY <1>1, <1>2, TransferIsAt
<1>4. WireIsAt(r, 0, w.stream, n)
  BY <1>2, Zenon DEF WireIsAt
<1>5. QED
  BY <1>2, <1>3, <1>4, Zenon DEF OnTheWire

LEMMA NewSessionIsServed ==
  ASSUME NEW h, HttpCore(h), NEW k, k = Http!Restart(h)
  PROVE  HttpCore(k) /\ SameSide(h, k) /\ k.worker.session = h.current
<1>1. CASE h.current = h.worker.session
  <2>1. k = h
    BY <1>1, Zenon DEF Http!Restart
  <2>2. SameSide(h, h)
    BY Zenon DEF HttpCore, HttpShape, SameSide
  <2>3. QED
    BY <1>1, <2>1, <2>2, Zenon
<1>2. CASE h.current # h.worker.session
  <2> DEFINE c == Http!cancel_backend(h)
             w == [session |-> h.current, opened |-> FALSE, active |-> FALSE,
                   running |-> FALSE, redirects |-> 0, target |-> HttpUnusable,
                   error |-> "ERROR", network |-> c.worker.network, ring |-> <<>>,
                   stream |-> Http!NewStream]
  <2>1. k = [c EXCEPT !.worker = w]
    BY <1>2, Zenon DEF Http!Restart
  <2>2. HttpShape(h) /\ WorkerIsSound(h.worker, h.net)
    BY Zenon DEF HttpCore
  <2>3. SameSide(h, c) /\ DOMAIN c.net = ConnFields /\ ~c.net.active
    BY <2>2, BackendCancelled, Zenon
  <2>4. /\ DOMAIN w = WorkerFields /\ w.session = h.current /\ ~w.opened /\ ~w.active /\ ~w.running
        /\ w.error # "EOF" /\ w.ring = <<>> /\ w.stream = Http!NewStream
        /\ DOMAIN w.stream = StreamFields /\ w.ring \in Received
    BY DEF WorkerFields, Http!NewStream, StreamFields, Received
  <2> HIDE DEF c, w
  <2>5. SameSide(c, k) /\ k.worker = w /\ k.net = c.net
    BY <2>1, <2>3, ZenonT(60) DEF SameSide, HttpFields
  <2>6. SameSide(h, k)
    BY <2>3, <2>5, SameSides, Zenon
  <2>7. WorkerIsSound(k.worker, k.net)
    BY <2>3, <2>4, <2>5, Zenon DEF WorkerIsSound
  <2>8. HttpShape(k) /\ PortIsSound(k) /\ FlowIsOurs(k)
    BY <2>3, <2>4, <2>5, <2>6, SidesAreKept, Zenon DEF HttpCore
  <2>9. h.worker.session # h.session
    <3>1. SessionsAreOrdered(h)
      BY Zenon DEF HttpCore
    <3>2. QED
      BY <1>2, <3>1 DEF SessionsAreOrdered
  <2>10. SessionsAreOrdered(k)
    <3>1. /\ k.session = h.session /\ k.current = h.current /\ k.slot.session = h.slot.session
          /\ k.worker.session = h.current
      BY <2>4, <2>5, <2>6, Zenon DEF SameSide
    <3>2. SessionsAreOrdered(h)
      BY Zenon DEF HttpCore
    <3>3. QED
      BY <3>1, <3>2 DEF SessionsAreOrdered
  <2>11. Flow(k) = <<>> /\ k.session = h.session
    BY <2>6, <2>9, SameFlow, Zenon DEF HttpCore, SameSide
  <2>12. TransferIsOurs(Flow(k), k.port, k.worker, k.net)
    BY <2>4, <2>5, <2>11, Zenon DEF TransferIsOurs
  <2>13. HttpCore(k)
    BY <2>7, <2>8, <2>10, <2>11, <2>12, Zenon DEF HttpCore
  <2>14. QED
    BY <2>4, <2>5, <2>6, <2>13, Zenon
<1>3. QED
  BY <1>1, <1>2

LEMMA FlowType ==
  ASSUME NEW h, HttpShape(h)
  PROVE  Flow(h) \in Received
<1> USE DEF Received
<1>1. h.got \in Received /\ (Own(h) => h.slot.data \in Received) /\ h.port.position \in Nat
  BY Zenon DEF HttpShape
<1>2. ASSUME NEW d \in Seq(HttpItems), NEW p \in Nat, p # 0
      PROVE  SubSeq(d, p, Len(d)) \in Seq(HttpItems)
  <2>1. Len(d) \in Nat /\ p >= 1
    BY <1>2
  <2>2. CASE p <= Len(d)
    BY <1>2, <2>1, <2>2
  <2>3. CASE p > Len(d)
    <3>1. SubSeq(d, p, Len(d)) = <<>>
      BY <1>2, <2>1, <2>3
    <3>2. QED
      BY <3>1
  <2>4. QED
    BY <2>1, <2>2, <2>3
<1>3. <<>> \in Seq(HttpItems)
  OBVIOUS
<1>4. Held(h) \in Seq(HttpItems)
  BY <1>1, <1>2, <1>3, Zenon DEF Held
<1>5. \A a, b \in Seq(HttpItems) : a \o b \in Seq(HttpItems)
  OBVIOUS
<1>6. QED
  BY <1>1, <1>4, <1>5, Zenon DEF Flow

(* A response that has ended was handed on as a whole, or redirects.        *)
LEMMA ResponseEnds ==
  ASSUME NEW all \in Received, NEW c, NEW w, NEW n, OnTheWire(all, c, w, n), w.stream.done
  PROVE  /\ w.target \in HttpFiles
         /\ w.stream.status < 300 => all = c
         /\ ~(w.stream.status < 300) => all = <<>> /\ HttpStatus(HttpResponse[w.target], 302)
<1> DEFINE r == HttpResponse[w.target]
<1>1. w.target \in HttpFiles /\ HttpContent[w.target] = c /\ Begins(all, c)
  BY Zenon DEF OnTheWire
<1>2. PICK i \in 0 .. Len(r) : StreamIsAt(r, c, i, w.stream, Len(all))
  BY Zenon DEF OnTheWire
<1>3. c \in Received
  BY <1>1, FileFacts, Zenon
<1> HIDE DEF r
<1>4. /\ w.stream.status < 300 => Len(all) = Len(c)
      /\ ~(w.stream.status < 300) => Len(all) = 0 /\ HttpStatus(r, 302)
  BY <1>2, StreamIsDone, Zenon
<1>5. Len(all) = Len(c) => all = c
  BY <1>1, <1>3, BeginsWhole, Zenon DEF Received
<1>6. Len(all) = 0 => all = <<>>
  BY DEF Received
<1>7. QED
  BY <1>1, <1>4, <1>5, <1>6, Zenon DEF r

LEMMA FinishIsSound ==
  ASSUME NEW h, HttpCore(h), NEW fails, NEW k, k = Http!Finish(h, fails)
  PROVE  HttpCore(k) /\ SameSide(h, k) /\ k.worker.session = h.worker.session
<1> DEFINE c == Http!cancel_backend(h)
           to == HttpLocation[h.worker.target]
           all == Flow(h) \o h.worker.ring
           m == [c EXCEPT !.worker.redirects = @ + 1, !.worker.target = to,
                          !.worker.stream = Http!NewStream, !.worker.running = TRUE]
           e == [c EXCEPT !.worker.active = FALSE]
           ours == h.worker.session = h.session
<1>1. HttpShape(h) /\ WorkerIsSound(h.worker, h.net) /\ DOMAIN h.worker = WorkerFields
  BY Zenon DEF HttpCore, HttpShape
<1>2. /\ SameSide(h, c) /\ SameWork(h.worker, c.worker) /\ DOMAIN c.net = ConnFields
      /\ ~c.net.active /\ ~c.worker.running
  BY <1>1, BackendCancelled, Zenon
<1>3. DOMAIN c = HttpFields /\ DOMAIN c.worker = WorkerFields /\ DOMAIN c.worker.stream = StreamFields
  BY <1>1, <1>2, Zenon DEF SameSide, SameWork, WorkerIsSound
<1>4. \/ k = h
      \/ /\ h.worker.active /\ h.worker.stream.done
         /\ \/ h.worker.stream.status < 300 /\ k = e
            \/ k = Http!z80_http_io_error(c)
            \/ ~(h.worker.stream.status < 300) /\ to # HttpUnusable /\ k = Http!start(m, fails)
  <2> HIDE DEF c, to
  <2>1. k = IF ~(h.worker.active /\ h.worker.stream.done) THEN h
            ELSE IF h.worker.stream.status < 300 THEN e
            ELSE IF h.worker.redirects + 1 > HttpMaxRedirects \/ to = HttpUnusable
                 THEN Http!z80_http_io_error(c)
            ELSE Http!start(m, fails)
    BY Zenon DEF Http!Finish, Http!z80_http_url_redirect, c, to
  <2> HIDE DEF e, m
  <2>2. QED
    BY <2>1
<1>5. CASE k = h
  <2>1. SameSide(h, h)
    BY <1>1, Zenon DEF HttpShape, SameSide
  <2>2. QED
    BY <1>5, <2>1, Zenon
<1>6. ASSUME h.worker.active
      PROVE  h.worker.opened /\ ~h.worker.stream.error /\ (ours => h.port.name # <<>>)
  BY <1>1, <1>6, Zenon DEF HttpCore, TransferIsOurs, WorkerIsSound
<1>7. ASSUME h.worker.active, h.worker.stream.done, ours
      PROVE  /\ all \in Received /\ h.worker.ring \in Received /\ h.worker.target \in HttpFiles
             /\ h.worker.stream.status < 300 => all = HttpContent[h.port.name[1]]
             /\ ~(h.worker.stream.status < 300) =>
                  all = <<>> /\ HttpStatus(HttpResponse[h.worker.target], 302)
             /\ HttpContent[h.worker.target] = HttpContent[h.port.name[1]]
  <2>1. TransferIsOurs(Flow(h), h.port, h.worker, h.net) /\ Flow(h) \in Received
    BY <1>1, <1>7, FlowType, Zenon DEF HttpCore
  <2>2. OnTheWire(all, HttpContent[h.port.name[1]], h.worker, h.net) /\ h.worker.ring \in Received
    BY <1>7, <2>1, Zenon DEF TransferIsOurs
  <2>3. all \in Received
    BY <2>1, <2>2 DEF Received
  <2> HIDE DEF all
  <2> DEFINE file == HttpContent[h.port.name[1]]
  <2>4. OnTheWire(all, file, h.worker, h.net)
    BY <2>2, Zenon
  <2> HIDE DEF file
  <2>5. /\ h.worker.target \in HttpFiles
        /\ h.worker.stream.status < 300 => all = file
        /\ ~(h.worker.stream.status < 300) =>
             all = <<>> /\ HttpStatus(HttpResponse[h.worker.target], 302)
    BY <1>7, <2>3, <2>4, ResponseEnds, Zenon
  <2>6. HttpContent[h.worker.target] = file
    BY <2>4, Zenon DEF OnTheWire
  <2>7. QED
    BY <2>2, <2>3, <2>5, <2>6, Zenon DEF file
<1> HIDE DEF c, to, all, ours
<1>8. CASE /\ h.worker.active /\ h.worker.stream.done /\ h.worker.stream.status < 300 /\ k = e
  <2> DEFINE w == [c.worker EXCEPT !.active = FALSE]
  <2>1. k = [c EXCEPT !.worker = w]
    BY <1>8, Zenon
  <2>2. /\ DOMAIN w = WorkerFields /\ w.session = h.worker.session /\ w.opened /\ ~w.active
        /\ ~w.running /\ w.error = h.worker.error /\ w.ring = h.worker.ring
        /\ w.stream = h.worker.stream
    BY <1>2, <1>3, <1>6, <1>8, ZenonT(60) DEF SameWork, WorkerFields
  <2> HIDE DEF w
  <2>3. SameSide(c, k) /\ k.worker = w /\ k.net = c.net
    BY <1>3, <2>1, ZenonT(60) DEF SameSide, HttpFields
  <2>4. SameSide(h, k)
    BY <1>2, <2>3, SameSides, Zenon
  <2>5. WorkerIsSound(k.worker, k.net)
    BY <1>1, <1>2, <2>2, <2>3, Zenon DEF WorkerIsSound
  <2>6. ours => TransferIsOurs(Flow(h), h.port, k.worker, k.net)
    BY <1>6, <1>7, <1>8, <2>2, <2>3, Zenon DEF TransferIsOurs, all
  <2>7. HttpCore(k)
    BY <2>2, <2>3, <2>4, <2>5, <2>6, WorkerChanges, Zenon DEF ours
  <2>8. QED
    BY <2>2, <2>3, <2>4, <2>7, Zenon
<1>9. CASE h.worker.active /\ k = Http!z80_http_io_error(c)
  <2>1. /\ SameSide(c, k) /\ k.net = c.net /\ DOMAIN k.worker = WorkerFields
        /\ DOMAIN k.worker.stream = StreamFields /\ k.worker.stream.error
        /\ ~k.worker.active /\ k.worker.session = c.worker.session
        /\ (k.worker.opened <=> c.worker.opened) /\ (k.worker.running <=> c.worker.running)
        /\ k.worker.error = c.worker.error /\ k.worker.ring = c.worker.ring
    BY <1>3, <1>9, Errored, Zenon
  <2>2. SameSide(h, k) /\ k.worker.session = h.worker.session
    BY <1>2, <2>1, SameSides, Zenon DEF SameWork
  <2>3. WorkerIsSound(k.worker, k.net)
    BY <1>1, <1>2, <1>6, <1>9, <2>1, Zenon DEF WorkerIsSound, SameWork
  <2>4. HttpCore(k)
    BY <1>2, <1>6, <1>9, <2>1, <2>2, <2>3, ErrorIsSound, Zenon DEF SameWork, ours
  <2>5. QED
    BY <2>2, <2>4, Zenon
<1>10. CASE /\ h.worker.active /\ h.worker.stream.done /\ ~(h.worker.stream.status < 300)
            /\ to # HttpUnusable /\ k = Http!start(m, fails)
  <2> DEFINE w == [c.worker EXCEPT !.redirects = @ + 1, !.target = to,
                                   !.stream = Http!NewStream, !.running = TRUE]
  <2>1. m = [c EXCEPT !.worker = w]
    BY Zenon
  <2>2. /\ DOMAIN w = WorkerFields /\ w.session = h.worker.session /\ w.opened /\ w.active
        /\ w.running /\ w.error = h.worker.error /\ w.ring = h.worker.ring
        /\ w.stream = Http!NewStream /\ w.target = to
    BY <1>2, <1>3, <1>6, <1>10, ZenonT(60) DEF SameWork, WorkerFields
  <2> HIDE DEF w, m
  <2>3. SameSide(c, m) /\ m.worker = w /\ m.net = c.net
    BY <1>3, <2>1, ZenonT(60) DEF SameSide, HttpFields
  <2>4. SameSide(h, m)
    BY <1>2, <2>3, SameSides, Zenon
  <2>5. HttpShape(m)
    BY <1>2, <2>2, <2>3, <2>4, SidesAreKept, Zenon DEF HttpCore
  <2>13. k = Http!start(m, fails)
    BY <1>10, Zenon
  <2>14. /\ SameSide(m, k) /\ k.worker = m.worker /\ DOMAIN k.net = ConnFields
         /\ k.net.active /\ ~k.net.asked /\ ~k.net.closed
         /\ k.net.pending = <<>> /\ k.net.rest = <<>>
    BY <2>5, <2>13, Started, Zenon
  <2>6. /\ SameSide(m, k) /\ k.worker = w /\ DOMAIN k.net = ConnFields
        /\ k.net.active /\ ~k.net.asked /\ ~k.net.closed
        /\ k.net.pending = <<>> /\ k.net.rest = <<>>
    BY <2>3, <2>14, Zenon
  <2>7. SameSide(h, k)
    BY <2>4, <2>6, SameSides, Zenon
  <2>8. DOMAIN Http!NewStream = StreamFields /\ ~Http!NewStream.error
    BY DEF Http!NewStream, StreamFields
  <2>9. WorkerIsSound(k.worker, k.net)
    BY <1>1, <2>2, <2>6, <2>8, Zenon DEF WorkerIsSound
  <2>10. ASSUME ours PROVE TransferIsOurs(Flow(h), h.port, k.worker, k.net)
    <3>1. /\ all = <<>> /\ to \in HttpFiles /\ h.worker.ring \in Received
          /\ HttpContent[to] = HttpContent[h.port.name[1]]
      BY <1>7, <1>10, <2>10, FileFacts, Zenon DEF to
    <3>2. OnTheWire(<<>>, HttpContent[h.port.name[1]], k.worker, k.net)
      BY <2>2, <2>6, <3>1, Beginning, Zenon
    <3>3. QED
      BY <1>6, <1>10, <2>2, <2>6, <2>10, <3>1, <3>2, Zenon DEF TransferIsOurs, all
  <2>11. HttpCore(k)
    BY <2>2, <2>6, <2>7, <2>9, <2>10, WorkerChanges, Zenon DEF ours
  <2>12. QED
    BY <2>2, <2>6, <2>7, <2>11, Zenon
<1>11. QED
  BY <1>4, <1>5, <1>8, <1>9, <1>10, Zenon

(* A sequence cut in two and joined again.                                  *)
LEMMA CutJoined ==
  ASSUME NEW T, NEW s \in Seq(T), NEW k \in 0 .. Len(s)
  PROVE  /\ SubSeq(s, 1, k) \in Seq(T) /\ SubSeq(s, k + 1, Len(s)) \in Seq(T)
         /\ SubSeq(s, 1, k) \o SubSeq(s, k + 1, Len(s)) = s
<1> DEFINE a == SubSeq(s, 1, k)
           b == SubSeq(s, k + 1, Len(s))
           j == a \o b
<1>1. /\ a \in Seq(T) /\ b \in Seq(T) /\ Len(a) = k /\ Len(b) = Len(s) - k
      /\ k \in Nat /\ Len(s) \in Nat /\ k <= Len(s)
      /\ \A i \in 1 .. k : a[i] = s[i]
      /\ \A i \in 1 .. Len(s) - k : b[i] = s[k + i]
  OBVIOUS
<1> HIDE DEF a, b
<1>2. /\ j \in Seq(T) /\ Len(j) = Len(a) + Len(b)
      /\ \A i \in 1 .. Len(a) : j[i] = a[i]
      /\ \A i \in 1 .. Len(b) : j[Len(a) + i] = b[i]
  BY <1>1
<1> HIDE DEF j
<1>3. ASSUME NEW i \in 1 .. Len(s) PROVE j[i] = s[i]
  <2>1. CASE i <= k
    BY <1>1, <1>2, <2>1
  <2>2. CASE i > k
    <3>1. i - k \in 1 .. Len(s) - k /\ k + (i - k) = i
      BY <1>1, <2>2
    <3>2. j[k + (i - k)] = b[i - k] /\ b[i - k] = s[k + (i - k)]
      BY <1>1, <1>2, <3>1
    <3>3. QED
      BY <3>1, <3>2
  <2>3. QED
    BY <1>1, <2>1, <2>2
<1>4. Len(j) = Len(s)
  BY <1>1, <1>2
<1>5. j = s
  BY <1>2, <1>3, <1>4
<1>6. QED
  BY <1>1, <1>5 DEF a, b, j

-----------------------------------------------------------------------------
(* The first chunk opens the file.                                          *)

FileOpened(h) == [h EXCEPT !.worker.opened = TRUE, !.worker.network = h.networks]
BaseMissing(h) == [h EXCEPT !.worker.error = "MISSING_BASE_URL"]

LEMMA Opening ==
  ASSUME NEW h, HttpCore(h), NEW o, o = FileOpened(h)
  PROVE  /\ SameSide(h, o) /\ o.net = h.net /\ DOMAIN o.worker = WorkerFields
         /\ o.worker.session = h.worker.session /\ o.worker.opened
         /\ (o.worker.active <=> h.worker.active) /\ (o.worker.running <=> h.worker.running)
         /\ o.worker.error = h.worker.error /\ o.worker.ring = h.worker.ring
         /\ o.worker.stream = h.worker.stream /\ DOMAIN o.worker.stream = StreamFields
<1> DEFINE w == [h.worker EXCEPT !.opened = TRUE, !.network = h.networks]
<1>1. /\ DOMAIN h = HttpFields /\ DOMAIN h.worker = WorkerFields
      /\ DOMAIN h.worker.stream = StreamFields
  BY Zenon DEF HttpCore, HttpShape, WorkerIsSound
<1>2. o = [h EXCEPT !.worker = w]
  BY Zenon DEF FileOpened
<1>3. /\ DOMAIN w = WorkerFields /\ w.session = h.worker.session /\ w.opened
      /\ (w.active <=> h.worker.active) /\ (w.running <=> h.worker.running)
      /\ w.error = h.worker.error /\ w.ring = h.worker.ring /\ w.stream = h.worker.stream
  BY <1>1, ZenonT(60) DEF WorkerFields
<1> HIDE DEF w
<1>4. SameSide(h, o) /\ o.net = h.net /\ o.worker = w
  BY <1>1, <1>2, ZenonT(60) DEF SameSide, HttpFields
<1>5. QED
  BY <1>1, <1>3, <1>4, Zenon

(* The file could not be opened.                                            *)
Failed(h, e) ==
  /\ SameSide(h, e) /\ e.net = h.net /\ DOMAIN e.worker = WorkerFields
  /\ DOMAIN e.worker.stream = StreamFields /\ e.worker.stream.error
  /\ ~e.worker.active /\ e.worker.session = h.worker.session
  /\ e.worker.opened /\ (e.worker.running <=> h.worker.running)
  /\ e.worker.error = h.worker.error /\ e.worker.ring = h.worker.ring

LEMMA OpenFails ==
  ASSUME NEW h, HttpCore(h), NEW o, o = FileOpened(h), NEW e, e = Http!z80_http_io_error(o)
  PROVE  Failed(h, e)
<1>1. /\ SameSide(h, o) /\ o.net = h.net /\ DOMAIN o.worker = WorkerFields
      /\ o.worker.session = h.worker.session /\ o.worker.opened
      /\ (o.worker.active <=> h.worker.active) /\ (o.worker.running <=> h.worker.running)
      /\ o.worker.error = h.worker.error /\ o.worker.ring = h.worker.ring
      /\ o.worker.stream = h.worker.stream /\ DOMAIN o.worker.stream = StreamFields
  BY Opening, Zenon
<1>2. DOMAIN o = HttpFields
  BY <1>1, Zenon DEF SameSide
<1>3. /\ SameSide(o, e) /\ e.net = o.net /\ DOMAIN e.worker = WorkerFields
      /\ DOMAIN e.worker.stream = StreamFields /\ e.worker.stream.error
      /\ ~e.worker.active /\ e.worker.session = o.worker.session
      /\ (e.worker.opened <=> o.worker.opened) /\ (e.worker.running <=> o.worker.running)
      /\ e.worker.error = o.worker.error /\ e.worker.ring = o.worker.ring
  BY <1>1, <1>2, Errored, Zenon
<1>4. SameSide(h, e)
  BY <1>1, <1>3, SameSides, Zenon
<1>5. QED
  BY <1>1, <1>3, <1>4, Zenon DEF Failed

(* What leaves the control core's side as it was, in the same transfer.     *)
Kept(h, k) == HttpCore(k) /\ SameSide(h, k) /\ k.worker.session = h.worker.session

(* A name is set while the transfer is the one the control core started.    *)
NameIsSet(h) == h.worker.session = h.session => h.port.name # <<>>

LEMMA NotOpened ==
  ASSUME NEW h, HttpCore(h), NameIsSet(h),
         NEW e, Failed(h, e), ~h.worker.active, NEW k, k \in {e, BaseMissing(e)}
  PROVE  Kept(h, k)
<1> USE DEF Kept, NameIsSet
<1>1. WorkerIsSound(h.worker, h.net)
  BY Zenon DEF HttpCore
<1>2. DOMAIN e = HttpFields
  BY Zenon DEF Failed, SameSide
<1> DEFINE w == [e.worker EXCEPT !.error = "MISSING_BASE_URL"]
<1>6. CASE k = e
  <2>1. WorkerIsSound(k.worker, k.net)
    BY <1>1, <1>6, Zenon DEF WorkerIsSound, Failed
  <2>2. HttpCore(k)
    BY <1>6, <2>1, ErrorIsSound, Zenon DEF Failed
  <2>3. QED
    BY <1>6, <2>2, Zenon DEF Failed
<1>7. CASE k = BaseMissing(e)
  <2>1. k = [e EXCEPT !.worker = w]
    BY <1>7, Zenon DEF BaseMissing
  <2>2. /\ DOMAIN w = WorkerFields /\ w.session = e.worker.session
        /\ (w.opened <=> e.worker.opened) /\ (w.active <=> e.worker.active)
        /\ (w.running <=> e.worker.running) /\ w.ring = e.worker.ring
        /\ w.stream = e.worker.stream /\ w.error = "MISSING_BASE_URL"
    BY ZenonT(60) DEF WorkerFields, Failed
  <2>3. w.error # "EOF"
    BY <2>2
  <2> HIDE DEF w
  <2>4. SameSide(e, k) /\ k.net = e.net /\ k.worker = w
    BY <1>2, <2>1, ZenonT(60) DEF SameSide, HttpFields
  <2>5. SameSide(h, k)
    BY <2>4, SameSides, Zenon DEF Failed
  <2>6. WorkerIsSound(k.worker, k.net)
    BY <1>1, <2>2, <2>3, <2>4, Zenon DEF WorkerIsSound, Failed
  <2>7. k.worker.session = h.worker.session /\ k.worker.ring = h.worker.ring /\ k.worker.opened
        /\ k.worker.stream.error
    BY <2>2, <2>4, Zenon DEF Failed
  <2>8. HttpCore(k)
    BY <2>5, <2>6, <2>7, ErrorIsSound, Zenon
  <2>9. QED
    BY <2>5, <2>7, <2>8, Zenon
<1>8. QED
  BY <1>6, <1>7, Zenon

LEMMA OpenIsSound ==
  ASSUME NEW h, HttpCore(h), h.slot.state = "PENDING", h.slot.session = h.worker.session,
         NEW base, NEW fails, NEW k, k = Http!Open(h, base, fails)
  PROVE  HttpCore(k) /\ SameSide(h, k) /\ k.worker.session = h.worker.session
<1> DEFINE o == FileOpened(h)
           e == Http!z80_http_io_error(o)
           g == BaseMissing(e)
           f == h.slot.name[1]
           m == [o EXCEPT !.worker.active = TRUE, !.worker.running = TRUE, !.worker.target = f]
           s == Http!start(m, fails)
           ours == h.worker.session = h.session
<1>1. \/ k = h \/ (~h.worker.opened /\ (k = e \/ k = g)) \/ (~h.worker.opened /\ k = s)
  <2> DEFINE found == Http!load_target(f, base)
             bad == ~h.online \/ found = "INVALID"
             missing == found = "MISSING_BASE_URL"
  <2>1. k = IF h.worker.opened THEN h ELSE IF bad THEN e ELSE IF missing THEN g ELSE s
    BY Zenon DEF Http!Open, FileOpened, BaseMissing
  <2> HIDE DEF e, g, s, bad, missing
  <2>2. CASE h.worker.opened
    BY <2>1, <2>2, Zenon
  <2>3. CASE ~h.worker.opened
    <3>1. k = IF bad THEN e ELSE IF missing THEN g ELSE s
      BY <2>1, <2>3, Zenon
    <3>2. k = e \/ k = g \/ k = s
      BY <3>1, Zenon
    <3>3. QED
      BY <2>3, <3>2, Zenon
  <2>4. QED
    BY <2>2, <2>3, Zenon
<1>2. ASSUME ours PROVE h.port.name # <<>> /\ f = h.port.name[1] /\ f \in HttpFiles
  <2>1. PortIsSound(h) /\ HttpShape(h)
    BY Zenon DEF HttpCore
  <2>2. h.port.name # <<>> /\ f = h.port.name[1]
    BY <1>2, <2>1, Zenon DEF PortIsSound
  <2>3. h.port.name \in Seq(HttpFiles)
    BY <2>1, Zenon DEF HttpShape
  <2>4. \A q \in Seq(HttpFiles) : q # <<>> => q[1] \in HttpFiles
    OBVIOUS
  <2>5. QED
    BY <2>2, <2>3, <2>4, Zenon
<1> HIDE DEF ours
<1>3. CASE k = h
  <2>1. SameSide(h, h)
    BY Zenon DEF HttpCore, HttpShape, SameSide
  <2>2. QED
    BY <1>3, <2>1, Zenon
<1>4. CASE ~h.worker.opened /\ (k = e \/ k = g)
  <2>1. o = FileOpened(h)
    BY Zenon
  <2>2. e = Http!z80_http_io_error(o) /\ (k = e \/ k = BaseMissing(e))
    BY <1>4, Zenon
  <2>6. ~h.worker.active
    BY <1>4, Zenon DEF HttpCore, WorkerIsSound
  <2>3. NameIsSet(h)
    BY <1>2, Zenon DEF ours, NameIsSet
  <2> HIDE DEF e, g, o
  <2>4. Failed(h, e)
    BY <2>1, <2>2, OpenFails, Zenon
  <2>7. k \in {e, BaseMissing(e)}
    BY <2>2, Zenon
  <2>5. Kept(h, k)
    BY <2>3, <2>4, <2>6, <2>7, NotOpened, Zenon
  <2>8. QED
    BY <2>5, Zenon DEF Kept
<1>5. CASE ~h.worker.opened /\ k = s
  <2>1. /\ SameSide(h, o) /\ o.net = h.net /\ DOMAIN o.worker = WorkerFields
        /\ o.worker.session = h.worker.session /\ o.worker.opened
        /\ (o.worker.active <=> h.worker.active) /\ (o.worker.running <=> h.worker.running)
        /\ o.worker.error = h.worker.error /\ o.worker.ring = h.worker.ring
        /\ o.worker.stream = h.worker.stream /\ DOMAIN o.worker.stream = StreamFields
    BY Opening, Zenon
  <2> HIDE DEF o, e, g, s, f
  <2> DEFINE w == [o.worker EXCEPT !.active = TRUE, !.running = TRUE, !.target = f]
  <2>2. m = [o EXCEPT !.worker = w]
    BY Zenon
  <2>3. /\ DOMAIN w = WorkerFields /\ w.session = o.worker.session /\ w.opened /\ w.active
        /\ w.running /\ w.error = o.worker.error /\ w.ring = o.worker.ring
        /\ w.stream = o.worker.stream /\ w.target = f
    BY <2>1, ZenonT(60) DEF WorkerFields
  <2>4. DOMAIN o = HttpFields
    BY <2>1, Zenon DEF SameSide
  <2> HIDE DEF w, m
  <2>5. SameSide(o, m) /\ m.net = o.net /\ m.worker = w
    BY <2>2, <2>4, ZenonT(60) DEF SameSide, HttpFields
  <2>6. SameSide(h, m)
    BY <2>1, <2>5, SameSides, Zenon
  <2>7. HttpShape(m)
    <3>1. DOMAIN m.worker = WorkerFields /\ DOMAIN m.net = ConnFields
      BY <2>1, <2>3, <2>5, Zenon DEF HttpCore, HttpShape
    <3>2. QED
      BY <2>6, <3>1, SidesAreKept, Zenon DEF HttpCore
  <2>8. k = Http!start(m, fails)
    BY <1>5, Zenon DEF s
  <2>9. /\ SameSide(m, k) /\ k.worker = m.worker /\ DOMAIN k.net = ConnFields
        /\ k.net.active /\ ~k.net.asked /\ ~k.net.closed
        /\ k.net.pending = <<>> /\ k.net.rest = <<>>
    BY <2>7, <2>8, Started, Zenon
  <2>10. SameSide(h, k) /\ k.worker = w
    BY <2>5, <2>6, <2>9, SameSides, Zenon
  <2>11. WorkerIsSound(h.worker, h.net)
    BY Zenon DEF HttpCore
  <2>12. h.worker.stream = Http!NewStream /\ h.worker.ring = <<>>
    BY <1>5, <2>11, Zenon DEF WorkerIsSound
  <2>13. ~Http!NewStream.error
    BY DEF Http!NewStream
  <2>14. WorkerIsSound(k.worker, k.net)
    BY <2>1, <2>3, <2>9, <2>10, <2>11, <2>12, <2>13, Zenon DEF WorkerIsSound
  <2>15. ASSUME ours PROVE TransferIsOurs(Flow(h), h.port, k.worker, k.net)
    <3>1. Flow(h) = <<>>
      BY <1>5, <2>15, Zenon DEF HttpCore, TransferIsOurs, ours
    <3>2. f \in HttpFiles /\ f = h.port.name[1] /\ h.port.name # <<>>
      BY <1>2, <2>15, Zenon
    <3>3. OnTheWire(<<>>, HttpContent[f], k.worker, k.net)
      BY <2>1, <2>3, <2>9, <2>10, <2>12, <3>2, Beginning, Zenon
    <3>4. <<>> \o <<>> = <<>> /\ <<>> \in Received
      BY DEF Received
    <3>5. k.worker.ring = <<>> /\ k.worker.active /\ k.worker.opened
      BY <2>1, <2>3, <2>10, <2>12, Zenon
    <3>6. OnTheWire(Flow(h) \o k.worker.ring, HttpContent[h.port.name[1]], k.worker, k.net)
      BY <3>1, <3>2, <3>3, <3>4, <3>5, Zenon
    <3>7. QED
      BY <3>2, <3>4, <3>5, <3>6, Zenon DEF TransferIsOurs
  <2>16. k.worker.session = h.worker.session
    BY <2>1, <2>3, <2>10, Zenon
  <2>17. HttpCore(k)
    BY <2>10, <2>14, <2>15, <2>16, WorkerChanges, Zenon DEF ours
  <2>18. QED
    BY <2>10, <2>16, <2>17, Zenon
<1>6. QED
  BY <1>1, <1>3, <1>4, <1>5, Zenon

-----------------------------------------------------------------------------
(* The slot is handed over.                                                 *)

(* Core 1 has answered the slot with these data and this status.            *)
Answered(h, k, data, status) ==
  /\ DOMAIN k = HttpFields /\ k.session = h.session /\ k.port = h.port /\ k.got = h.got
  /\ k.current = h.current /\ k.net = h.net
  /\ DOMAIN k.slot = SlotFields /\ k.slot.state = "DONE" /\ k.slot.session = h.slot.session
  /\ k.slot.data = data /\ k.slot.status = status

LEMMA AnswerIsSound ==
  ASSUME NEW h, HttpCore(h), h.slot.state = "PENDING", NEW data, NEW status,
         h.slot.session = h.session => data \in Received,
         NEW k, Answered(h, k, data, status), k.worker.session = h.worker.session,
         WorkerIsSound(k.worker, k.net),
         h.slot.session = h.session =>
           /\ h.got \o data # <<>> => Begins(h.got \o data, HttpContent[h.port.name[1]])
           /\ status = "EOF" => h.got \o data = HttpContent[h.port.name[1]],
         h.slot.session = h.session /\ h.worker.session # h.session => data = <<>>,
         h.worker.session = h.session =>
           TransferIsOurs(IF h.slot.session = h.session THEN h.got \o data ELSE h.got,
                          h.port, k.worker, k.net)
  PROVE  HttpCore(k)
<1> DEFINE ours == h.slot.session = h.session
           c == HttpContent[h.port.name[1]]
           more == h.got \o data
<1>1. HttpShape(h) /\ SessionsAreOrdered(h) /\ PortIsSound(h) /\ FlowIsOurs(h)
  BY Zenon DEF HttpCore
<1>2. ~Own(h)
  BY DEF Own
<1>3. h.got \in Received /\ h.got \o <<>> = h.got
  <2>1. h.got \in Received
    BY <1>1, Zenon DEF HttpShape
  <2>2. QED
    BY <2>1 DEF Received
<1>4. Flow(h) = h.got /\ ~Http!Unread(h)
  BY <1>1, <1>2, <1>3, Zenon DEF Flow, Held, PortIsSound
<1>5. ours => h.port.want /\ h.port.name # <<>>
  BY <1>1, Zenon DEF PortIsSound
<1>6. /\ DOMAIN k = HttpFields /\ k.session = h.session /\ k.port = h.port /\ k.got = h.got
      /\ k.current = h.current
      /\ DOMAIN k.slot = SlotFields /\ k.slot.state = "DONE" /\ k.slot.session = h.slot.session
      /\ k.slot.data = data /\ k.slot.status = status
  BY Zenon DEF Answered
<1>7. (Own(k) <=> ours) /\ ~Http!Unread(k)
  BY <1>4, <1>6, Zenon DEF Own, Http!Unread
<1>8. ours => Flow(k) = more
  BY <1>5, <1>6, <1>7, Zenon DEF Flow, Held
<1>9. ~ours => Flow(k) = h.got
  BY <1>3, <1>6, <1>7, Zenon DEF Flow, Held
<1>10. ours => /\ more # <<>> => Begins(more, c)
               /\ status = "EOF" => more = c
  BY Zenon
<1> HIDE DEF c, more, ours
<1>11. HttpShape(k)
  <2>1. DOMAIN k.worker = WorkerFields /\ DOMAIN k.net = ConnFields
    BY Zenon DEF WorkerIsSound
  <2>2. QED
    BY <1>1, <1>6, <1>7, <2>1, Zenon DEF HttpShape, ours
<1>12. SessionsAreOrdered(k)
  BY <1>1, <1>6, Zenon DEF SessionsAreOrdered
<1>13. PortIsSound(k)
  <2>1. k.slot.state # "PENDING"
    BY <1>6
  <2>2. QED
    BY <1>1, <1>5, <1>6, <1>7, <2>1, Zenon DEF PortIsSound
<1>14. FlowIsOurs(k)
  <2>1. Flow(k) # <<>> => k.port.name # <<>> /\ Begins(Flow(k), HttpContent[k.port.name[1]])
    <3>1. CASE ours
      BY <1>5, <1>6, <1>8, <1>10, <3>1, Zenon DEF c
    <3>2. CASE ~ours
      BY <1>1, <1>4, <1>6, <1>9, <3>2, Zenon DEF FlowIsOurs
    <3>3. QED
      BY <3>1, <3>2, Zenon
  <2>2. Own(k) /\ k.slot.status = "EOF" =>
          k.port.name # <<>> /\ Flow(k) = HttpContent[k.port.name[1]]
    BY <1>5, <1>6, <1>7, <1>8, <1>10, Zenon DEF c
  <2>3. k.port.status = "EOF" => k.port.name # <<>> /\ k.got = HttpContent[k.port.name[1]]
    BY <1>1, <1>6, Zenon DEF FlowIsOurs
  <2>4. QED
    BY <2>1, <2>2, <2>3, Zenon DEF FlowIsOurs
<1>15. ASSUME k.worker.session = k.session PROVE TransferIsOurs(Flow(k), k.port, k.worker, k.net)
  <2>1. h.worker.session = h.session
    BY <1>6, <1>15, Zenon
  <2>2. CASE ours
    <3>1. TransferIsOurs(more, h.port, k.worker, k.net)
      BY <2>1, <2>2, Zenon DEF ours, more
    <3>2. QED
      BY <1>6, <1>8, <2>2, <3>1, Zenon
  <2>3. CASE ~ours
    <3>1. TransferIsOurs(h.got, h.port, k.worker, k.net)
      BY <2>1, <2>3, Zenon DEF ours
    <3>2. QED
      BY <1>6, <1>9, <2>3, <3>1, Zenon
  <2>4. QED
    BY <2>2, <2>3, Zenon
<1>16. ASSUME k.worker.session # k.session PROVE Flow(k) = <<>>
  <2>1. h.worker.session # h.session
    BY <1>6, <1>16, Zenon
  <2>2. h.got = <<>>
    BY <1>4, <2>1, Zenon DEF HttpCore
  <2>3. ours => data = <<>>
    BY <2>1, Zenon DEF ours
  <2>4. QED
    BY <1>3, <1>8, <1>9, <2>2, <2>3, Zenon DEF more
<1>17. QED
  BY <1>11, <1>12, <1>13, <1>14, <1>15, <1>16, Zenon DEF HttpCore

(* Only the worker differs.                                                 *)
Beside(h, m) ==
  /\ DOMAIN m = HttpFields /\ m.session = h.session /\ m.port = h.port
  /\ m.got = h.got /\ m.slot = h.slot /\ m.current = h.current /\ m.net = h.net

LEMMA DoneFields ==
  ASSUME NEW h, HttpShape(h), NEW m, Beside(h, m),
         NEW data, NEW status
  PROVE  /\ Answered(h, Http!Done(m, data, status), data, status)
         /\ Http!Done(m, data, status).worker = m.worker
<1> DEFINE k == Http!Done(m, data, status)
           s == [m.slot EXCEPT !.state = "DONE", !.data = data, !.status = status]
<1>1. k = [m EXCEPT !.slot = s]
  BY Zenon DEF Http!Done
<1>2. DOMAIN m.slot = SlotFields
  BY Zenon DEF HttpShape, Beside
<1>3. /\ DOMAIN s = SlotFields /\ s.state = "DONE" /\ s.session = h.slot.session
      /\ s.data = data /\ s.status = status
  BY <1>2, ZenonT(60) DEF SlotFields, Beside
<1> HIDE DEF s, k
<1>4. /\ DOMAIN k = HttpFields /\ k.session = h.session /\ k.port = h.port /\ k.got = h.got
      /\ k.current = h.current /\ k.net = h.net /\ k.slot = s /\ k.worker = m.worker
  BY <1>1, ZenonT(60) DEF HttpFields, Beside
<1>5. QED
  BY <1>3, <1>4, Zenon DEF Answered, k

Drained(h, r) == [h EXCEPT !.worker.ring = r]

RingIsLeft(h, m, r) ==
  /\ Beside(h, m) /\ DOMAIN m.worker = WorkerFields
  /\ m.worker.session = h.worker.session /\ (m.worker.opened <=> h.worker.opened)
  /\ (m.worker.active <=> h.worker.active) /\ (m.worker.running <=> h.worker.running)
  /\ m.worker.error = h.worker.error /\ m.worker.ring = r
  /\ m.worker.stream = h.worker.stream /\ m.worker.target = h.worker.target

LEMMA DrainedFields ==
  ASSUME NEW h, HttpShape(h), NEW r
  PROVE  RingIsLeft(h, Drained(h, r), r)
<1> DEFINE m == Drained(h, r)
           w == [h.worker EXCEPT !.ring = r]
<1>1. DOMAIN h = HttpFields /\ DOMAIN h.worker = WorkerFields
  BY Zenon DEF HttpShape
<1>2. m = [h EXCEPT !.worker = w]
  BY Zenon DEF Drained
<1>3. /\ DOMAIN w = WorkerFields
      /\ w.session = h.worker.session /\ (w.opened <=> h.worker.opened)
      /\ (w.active <=> h.worker.active) /\ (w.running <=> h.worker.running)
      /\ w.error = h.worker.error /\ w.ring = r
      /\ w.stream = h.worker.stream /\ w.target = h.worker.target
  BY <1>1, ZenonT(60) DEF WorkerFields
<1> HIDE DEF w, m
<1>4. /\ DOMAIN m = HttpFields /\ m.session = h.session /\ m.port = h.port
      /\ m.got = h.got /\ m.slot = h.slot /\ m.current = h.current /\ m.net = h.net
      /\ m.worker = w
  BY <1>1, <1>2, ZenonT(60) DEF HttpFields
<1>5. QED
  BY <1>3, <1>4, Zenon DEF Beside, RingIsLeft, m

(* The transfer goes on with what is left in the ring.                      *)
LEMMA DrainedIsSound ==
  ASSUME NEW h, WorkerIsSound(h.worker, h.net), NEW w, NEW r,
         DOMAIN w = WorkerFields, (w.opened <=> h.worker.opened),
         (w.active <=> h.worker.active), (w.running <=> h.worker.running),
         w.error = h.worker.error, w.ring = r, w.stream = h.worker.stream,
         h.worker.ring = <<>> => r = <<>>
  PROVE  WorkerIsSound(w, h.net)
  BY Zenon DEF WorkerIsSound

LEMMA FilledWithError ==
  ASSUME NEW h, HttpCore(h), h.slot.state = "PENDING", h.slot.session = h.worker.session,
         h.worker.stream.error,
         NEW k, k = Http!Done(Drained(h, <<>>), <<>>, h.worker.error)
  PROVE  HttpCore(k)
<1> DEFINE nothing == <<>>
           m == Drained(h, nothing)
           e == h.worker.error
<1>1. HttpShape(h) /\ FlowIsOurs(h) /\ WorkerIsSound(h.worker, h.net) /\ PortIsSound(h)
  BY Zenon DEF HttpCore
<1>2. RingIsLeft(h, m, nothing)
  BY <1>1, DrainedFields, Zenon
<1>3. k = Http!Done(m, nothing, e)
  BY Zenon
<1> HIDE DEF m, e
<1>4. Answered(h, k, nothing, e) /\ k.worker = m.worker
  <2>1. Beside(h, m)
    BY <1>2, Zenon DEF RingIsLeft
  <2>2. Answered(h, Http!Done(m, nothing, e), nothing, e) /\ Http!Done(m, nothing, e).worker = m.worker
    BY <1>1, <2>1, DoneFields, Zenon
  <2>3. QED
    BY <1>3, <2>2
<1>5. WorkerIsSound(k.worker, k.net)
  <2>1. WorkerIsSound(k.worker, h.net)
    BY <1>1, <1>2, <1>4, DrainedIsSound, Zenon DEF RingIsLeft
  <2>2. QED
    BY <1>4, <2>1, Zenon DEF Answered
<1>6. <<>> \in Received /\ h.got \o <<>> = h.got /\ h.got \in Received
  <2>1. h.got \in Received
    BY <1>1, Zenon DEF HttpShape
  <2>2. QED
    BY <2>1 DEF Received
<1>7. ~Own(h) /\ Flow(h) = h.got
  <2>1. ~Own(h)
    BY DEF Own
  <2>2. QED
    BY <1>6, <2>1, Zenon DEF Flow, Held
<1>8. e # "EOF" /\ ~Http!NewStream.error
  BY <1>1 DEF WorkerIsSound, Http!NewStream, e
<1>9. k.worker.opened /\ ~k.worker.active /\ k.worker.stream.error /\ k.worker.ring = <<>>
      /\ h.worker.opened
  BY <1>1, <1>2, <1>4, <1>8, Zenon DEF WorkerIsSound, RingIsLeft
<1>10. h.worker.session = h.session =>
         TransferIsOurs(IF h.slot.session = h.session THEN h.got \o <<>> ELSE h.got,
                        h.port, k.worker, k.net)
  <2>1. h.worker.session = h.session => h.port.name # <<>>
    BY <1>9, Zenon DEF HttpCore, TransferIsOurs
  <2>2. QED
    BY <1>6, <1>9, <2>1, Zenon DEF TransferIsOurs
<1>11. h.got \o <<>> # <<>> => Begins(h.got \o <<>>, HttpContent[h.port.name[1]])
  BY <1>1, <1>6, <1>7, Zenon DEF FlowIsOurs
<1>12. k.worker.session = h.worker.session
  BY <1>2, <1>4, Zenon DEF RingIsLeft
<1>13. QED
  BY <1>4, <1>5, <1>6, <1>8, <1>10, <1>11, <1>12, AnswerIsSound, Zenon

LEMMA FilledWithData ==
  ASSUME NEW h, HttpCore(h), h.slot.state = "PENDING", h.slot.session = h.worker.session,
         ~h.worker.stream.error, NEW data, NEW rest,
         h.worker.ring \in Received => data \in Received /\ rest \in Received
                                       /\ data \o rest = h.worker.ring,
         h.worker.ring = <<>> => rest = <<>>, NEW status,
         status = "EOF" => ~h.worker.active /\ h.worker.stream.done /\ rest = <<>>,
         NEW k, k = Http!Done(Drained(h, rest), data, status)
  PROVE  HttpCore(k)
<1> DEFINE m == Drained(h, rest)
           c == HttpContent[h.port.name[1]]
           fl == h.got \o data
           ours == h.slot.session = h.session
<1>1. HttpShape(h) /\ FlowIsOurs(h) /\ WorkerIsSound(h.worker, h.net) /\ PortIsSound(h)
  BY Zenon DEF HttpCore
<1>2. RingIsLeft(h, m, rest)
  BY <1>1, DrainedFields, Zenon
<1> HIDE DEF m
<1>3. k = Http!Done(m, data, status)
  BY Zenon DEF m
<1>4. Answered(h, k, data, status) /\ k.worker = m.worker
  <2>1. Beside(h, m)
    BY <1>2, Zenon DEF RingIsLeft
  <2>2. Answered(h, Http!Done(m, data, status), data, status) /\ Http!Done(m, data, status).worker = m.worker
    BY <1>1, <2>1, DoneFields, Zenon
  <2>3. QED
    BY <1>3, <2>2
<1>5. WorkerIsSound(k.worker, k.net)
  <2>1. WorkerIsSound(k.worker, h.net)
    BY <1>1, <1>2, <1>4, DrainedIsSound, Zenon DEF RingIsLeft
  <2>2. QED
    BY <1>4, <2>1, Zenon DEF Answered
<1>6. h.got \in Received /\ h.got \o <<>> = h.got
  <2>1. h.got \in Received
    BY <1>1, Zenon DEF HttpShape
  <2>2. QED
    BY <2>1 DEF Received
<1>7. Flow(h) = h.got
  <2>1. ~Own(h)
    BY DEF Own
  <2>2. QED
    BY <1>6, <2>1, Zenon DEF Flow, Held
<1>8. k.worker.session = h.worker.session
  BY <1>2, <1>4, Zenon DEF RingIsLeft
<1>9. ASSUME ours
      PROVE  /\ data \in Received
             /\ fl # <<>> => Begins(fl, c)
             /\ status = "EOF" => fl = c
             /\ TransferIsOurs(fl, h.port, k.worker, k.net)
  <2>1. TransferIsOurs(h.got, h.port, h.worker, h.net)
    BY <1>7, <1>9, Zenon DEF HttpCore
  <2>2. h.worker.ring \in Received
    BY <2>1, Zenon DEF TransferIsOurs
  <2>3. data \in Received /\ rest \in Received /\ data \o rest = h.worker.ring
    BY <2>2, Zenon
  <2>4. fl \in Received /\ fl \o rest = h.got \o h.worker.ring
    <3>1. \A a, b \in Received : a \o b \in Received
      BY DEF Received
    <3>4. \A a, b, d \in Received : (a \o b) \o d = a \o (b \o d)
      BY Associative DEF Received
    <3>2. (h.got \o data) \o rest = h.got \o (data \o rest)
      BY <1>6, <2>3, <3>4, Zenon
    <3>3. QED
      BY <1>6, <2>3, <3>1, <3>2, Zenon
  <2>5. h.port.name # <<>> /\ c \in Received
    <3>1. h.port.name # <<>> /\ h.port.name \in Seq(HttpFiles)
      BY <1>1, <1>9, Zenon DEF PortIsSound, HttpShape
    <3>2. \A q \in Seq(HttpFiles) : q # <<>> => q[1] \in HttpFiles
      OBVIOUS
    <3>3. QED
      BY <3>1, <3>2, FileFacts, Zenon
  <2> HIDE DEF fl, c
  <2>6. CASE ~h.worker.opened
    <3>1. h.worker.ring = <<>> /\ ~h.worker.stream.done /\ ~h.worker.active
      <4>1. h.worker.ring = <<>> /\ h.worker.stream = Http!NewStream /\ ~h.worker.active
        BY <1>1, <2>6, Zenon DEF WorkerIsSound
      <4>2. ~Http!NewStream.done
        BY DEF Http!NewStream
      <4>3. QED
        BY <4>1, <4>2, Zenon
    <3>2. h.got = <<>> /\ data \o <<>> = <<>>
      BY <2>1, <2>3, <2>6, <3>1, Zenon DEF TransferIsOurs
    <3>3. data = <<>>
      BY <2>3, <3>2 DEF Received
    <3>4. fl = <<>>
      BY <1>6, <3>2, <3>3, Zenon DEF fl
    <3>5. k.worker.ring \in Received /\ ~k.worker.opened /\ ~k.worker.active
      BY <1>2, <1>4, <2>3, <2>6, <3>1, Zenon DEF RingIsLeft
    <3>6. TransferIsOurs(fl, h.port, k.worker, k.net)
      BY <3>4, <3>5, Zenon DEF TransferIsOurs
    <3>7. QED
      BY <2>3, <3>1, <3>4, <3>6, Zenon
  <2>7. CASE h.worker.opened /\ ~h.worker.active
    <3>1. fl \o rest = c
      BY <2>1, <2>4, <2>7, Zenon DEF TransferIsOurs, c
    <3>2. Begins(fl, c)
      <4>1. Begins(fl \o rest, c)
        BY <2>5, <3>1 DEF Begins
      <4>2. QED
        BY <2>3, <2>4, <2>5, <4>1, BeginsShorter, Zenon DEF Received
    <3>3. status = "EOF" => fl = c
      <4>1. fl \o <<>> = fl
        BY <2>4 DEF Received
      <4>2. QED
        BY <3>1, <4>1, Zenon
    <3>4. k.worker.ring = rest /\ k.worker.opened /\ ~k.worker.active
      BY <1>2, <1>4, <2>7, Zenon DEF RingIsLeft
    <3>5. TransferIsOurs(fl, h.port, k.worker, k.net)
      BY <2>3, <2>5, <3>1, <3>4, Zenon DEF TransferIsOurs, c
    <3>6. QED
      BY <2>3, <3>2, <3>3, <3>5, Zenon
  <2>8. CASE h.worker.opened /\ h.worker.active
    <3>1. OnTheWire(fl \o rest, c, h.worker, h.net)
      BY <2>1, <2>4, <2>8, Zenon DEF TransferIsOurs, c
    <3>2. Begins(fl, c)
      <4>1. Begins(fl \o rest, c)
        BY <3>1, Zenon DEF OnTheWire
      <4>2. QED
        BY <2>3, <2>4, <2>5, <4>1, BeginsShorter, Zenon DEF Received
    <3>3. /\ k.worker.ring = rest /\ k.worker.opened /\ k.worker.active /\ k.net = h.net
          /\ k.worker.target = h.worker.target /\ k.worker.stream = h.worker.stream
      BY <1>2, <1>4, <2>8, Zenon DEF Answered, RingIsLeft
    <3>4. OnTheWire(fl \o rest, c, k.worker, k.net)
      BY <3>1, <3>3, Zenon DEF OnTheWire
    <3>5. TransferIsOurs(fl, h.port, k.worker, k.net)
      BY <2>3, <2>5, <3>3, <3>4, Zenon DEF TransferIsOurs, c
    <3>6. QED
      BY <2>3, <2>8, <3>2, <3>5, Zenon
  <2>9. QED
    BY <2>6, <2>7, <2>8, Zenon
<1>10. h.worker.session = h.session => ours
  BY Zenon
<1>11. ours /\ h.worker.session # h.session => data = <<>>
  BY Zenon
<1>12. h.worker.session = h.session =>
         TransferIsOurs(IF h.slot.session = h.session THEN fl ELSE h.got, h.port, k.worker, k.net)
  <2> HIDE DEF fl
  <2>1. QED
    BY <1>9, <1>10, Zenon DEF ours
<1>13. h.slot.session = h.session =>
         /\ fl # <<>> => Begins(fl, c)
         /\ status = "EOF" => fl = c
  <2> HIDE DEF fl, c
  <2>1. QED
    BY <1>9, Zenon DEF ours
<1>14. h.slot.session = h.session => data \in Received
  BY <1>9, Zenon
<1>15. QED
  BY <1>4, <1>5, <1>8, <1>11, <1>12, <1>13, <1>14, AnswerIsSound, Zenon

LEMMA FillIsSound ==
  ASSUME NEW h, HttpCore(h), h.slot.state = "PENDING", h.slot.session = h.worker.session,
         NEW k, k = Http!Fill(h)
  PROVE  HttpCore(k)
<1> DEFINE ring == h.worker.ring
           ended == ~h.worker.active /\ h.worker.stream.done
           n == IF Len(ring) < HttpChunkMax THEN Len(ring) ELSE HttpChunkMax
           rest == SubSeq(ring, n + 1, Len(ring))
           data == SubSeq(ring, 1, n)
           status == IF ended /\ rest = <<>> THEN "EOF" ELSE "IDLE"
           failed == Http!Done(Drained(h, <<>>), <<>>, h.worker.error)
           filled == Http!Done(Drained(h, rest), data, status)
           wait == Len(ring) < HttpChunkMax /\ ~ended
<1>1. k = IF h.worker.stream.error THEN failed ELSE IF wait THEN h ELSE filled
  BY Zenon DEF Http!Fill, Drained
<1>2. ASSUME ring \in Received
      PROVE  data \in Received /\ rest \in Received /\ data \o rest = ring
  <2>1. n \in 0 .. Len(ring)
    BY <1>2, HttpAssumption DEF Received, HttpAssumption
  <2> HIDE DEF n, ring
  <2>2. QED
    BY <1>2, <2>1, CutJoined, Zenon DEF Received
<1>3. ring = <<>> => rest = <<>>
  <2>1. HttpChunkMax \in Nat
    BY HttpAssumption, Zenon DEF HttpAssumption
  <2> HIDE DEF ring
  <2>2. ASSUME ring = <<>> PROVE rest = <<>>
    <3>1. Len(ring) = 0 /\ n \in Nat
      BY <2>1, <2>2
    <3> HIDE DEF n
    <3>2. \A a \in Nat : SubSeq(<<>>, a + 1, 0) = <<>>
      OBVIOUS
    <3>3. QED
      BY <2>2, <3>1, <3>2, Zenon
  <2>3. QED
    BY <2>2
<1>4. status = "EOF" => ended /\ rest = <<>>
  <2> HIDE DEF ended, rest
  <2>1. "IDLE" # "EOF"
    OBVIOUS
  <2>2. QED
    BY <2>1, Zenon
<1>5. CASE h.worker.stream.error
  <2>1. k = failed
    BY <1>1, <1>5, Zenon
  <2>2. QED
    BY <1>5, <2>1, FilledWithError, Zenon
<1>6. CASE ~h.worker.stream.error /\ k = filled
  <2>1. status = "EOF" => ~h.worker.active /\ h.worker.stream.done /\ rest = <<>>
    BY <1>4, Zenon
  <2> HIDE DEF rest, data, status
  <2>2. k = Http!Done(Drained(h, rest), data, status)
    BY <1>6, Zenon
  <2>3. /\ h.worker.ring \in Received => data \in Received /\ rest \in Received
                                         /\ data \o rest = h.worker.ring
        /\ h.worker.ring = <<>> => rest = <<>>
    BY <1>2, <1>3, Zenon
  <2>4. ~h.worker.stream.error
    BY <1>6, Zenon
  <2>5. QED
    BY <2>1, <2>2, <2>3, <2>4, FilledWithData, Zenon
<1> HIDE DEF failed, filled, wait
<1>7. h.worker.stream.error \/ k = h \/ (~h.worker.stream.error /\ k = filled)
  BY <1>1, Zenon
<1>8. QED
  BY <1>5, <1>6, <1>7, Zenon

(* The answer to a slot of a session core 1 did not see when it began.      *)
LEMMA StaleAnswerIsSound ==
  ASSUME NEW h, HttpCore(h), h.slot.state = "PENDING", h.slot.session # h.worker.session,
         NEW k, k = Http!Done(h, <<>>, "IDLE")
  PROVE  HttpCore(k)
<1> DEFINE nothing == <<>>
           status == "IDLE"
<1>1. HttpShape(h) /\ FlowIsOurs(h) /\ WorkerIsSound(h.worker, h.net)
  BY Zenon DEF HttpCore
<1>2. Answered(h, k, nothing, status) /\ k.worker = h.worker
  <2>1. Beside(h, h)
    BY <1>1, Zenon DEF Beside, HttpShape
  <2> HIDE DEF nothing, status
  <2>2. /\ Answered(h, Http!Done(h, nothing, status), nothing, status)
        /\ Http!Done(h, nothing, status).worker = h.worker
    BY <1>1, <2>1, DoneFields, Zenon
  <2>3. k = Http!Done(h, nothing, status)
    BY DEF nothing, status
  <2>4. QED
    BY <2>2, <2>3
<1>3. <<>> \in Received /\ h.got \o <<>> = h.got /\ h.got \in Received
  <2>1. h.got \in Received
    BY <1>1, Zenon DEF HttpShape
  <2>2. QED
    BY <2>1 DEF Received
<1>4. ~Own(h) /\ Flow(h) = h.got
  <2>1. ~Own(h)
    BY DEF Own
  <2>2. QED
    BY <1>3, <2>1, Zenon DEF Flow, Held
<1>5. WorkerIsSound(k.worker, k.net)
  BY <1>1, <1>2, Zenon DEF Answered
<1>6. status # "EOF"
  OBVIOUS
<1>7. h.got \o <<>> # <<>> => Begins(h.got \o <<>>, HttpContent[h.port.name[1]])
  BY <1>1, <1>3, <1>4, Zenon DEF FlowIsOurs
<1>8. h.worker.session = h.session =>
        TransferIsOurs(IF h.slot.session = h.session THEN h.got \o <<>> ELSE h.got,
                       h.port, k.worker, k.net)
  BY <1>2, <1>3, <1>4, Zenon DEF HttpCore, Answered
<1>9. k.worker.session = h.worker.session
  BY <1>2, Zenon
<1> HIDE DEF status
<1>10. QED
  BY <1>2, <1>3, <1>5, <1>6, <1>7, <1>8, <1>9, AnswerIsSound, Zenon

LEMMA ServiceIsSound ==
  ASSUME NEW h, HttpCore(h), NEW base, NEW fails,
         NEW k, k = Http!z80_http_io_core1_service(h, base, fails)
  PROVE  HttpCore(k)
<1> DEFINE a == Http!Restart(h)
           b == Http!CheckNetwork(a)
           c == Http!Finish(b, fails)
           s == Http!CancelFailed(c)
           o == Http!Open(s, base, fails)
           stale == Http!Done(s, <<>>, "IDLE")
           fill == Http!Fill(o)
           idle == s.slot.state # "PENDING"
           late == s.slot.session # h.current
<1>1. k = IF idle THEN s ELSE IF late THEN stale ELSE fill
  BY Zenon DEF Http!z80_http_io_core1_service
<1>2. HttpCore(a) /\ SameSide(h, a) /\ a.worker.session = h.current
  BY NewSessionIsServed, Zenon
<1> HIDE DEF a
<1>3. HttpCore(b) /\ SameSide(a, b) /\ b.worker.session = a.worker.session
  BY <1>2, NetworkIsChecked, Zenon
<1> HIDE DEF b
<1>4. HttpCore(c) /\ SameSide(b, c) /\ c.worker.session = b.worker.session
  BY <1>3, FinishIsSound, Zenon
<1> HIDE DEF c
<1>5. HttpCore(s) /\ SameSide(c, s) /\ s.worker.session = c.worker.session
  BY <1>4, FailedIsCancelled, Zenon
<1> HIDE DEF s
<1>6. s.worker.session = h.current
  BY <1>2, <1>3, <1>4, <1>5, Zenon
<1>7. CASE k = s
  BY <1>5, <1>7, Zenon
<1>8. CASE ~idle /\ late /\ k = stale
  <2>1. s.slot.state = "PENDING" /\ s.slot.session # s.worker.session
    BY <1>6, <1>8
  <2>2. k = Http!Done(s, <<>>, "IDLE")
    BY <1>8, Zenon
  <2>3. QED
    BY <1>5, <2>1, <2>2, StaleAnswerIsSound, Zenon
<1>9. CASE ~idle /\ ~late /\ k = fill
  <2>1. s.slot.state = "PENDING" /\ s.slot.session = s.worker.session
    BY <1>6, <1>9
  <2>6. o = Http!Open(s, base, fails)
    BY Zenon
  <2>4. k = Http!Fill(o)
    BY <1>9, Zenon
  <2> HIDE DEF o, stale, fill
  <2>2. HttpCore(o) /\ SameSide(s, o) /\ o.worker.session = s.worker.session
    BY <1>5, <2>1, <2>6, OpenIsSound, SMT
  <2>3. o.slot.state = "PENDING" /\ o.slot.session = o.worker.session
    BY <2>1, <2>2, Zenon DEF SameSide
  <2>5. QED
    BY <2>2, <2>3, <2>4, FillIsSound, Zenon
<1> HIDE DEF idle, late, stale, fill
<1>10. k = s \/ (~idle /\ late /\ k = stale) \/ (~idle /\ ~late /\ k = fill)
  BY <1>1, Zenon
<1>11. QED
  BY <1>7, <1>8, <1>9, <1>10, Zenon

-----------------------------------------------------------------------------
(* Core 0: the port's operations.                                           *)

(* Core 1's side is left alone; the port, what was got and the slot are now *)
(* these.                                                                   *)
Put(h, k, p, g, s) ==
  /\ DOMAIN k = HttpFields /\ k.session = h.session /\ k.worker = h.worker /\ k.net = h.net
  /\ k.pc = h.pc /\ k.current = h.current
  /\ k.port = p /\ k.got = g /\ k.slot = s

SameName(p, q) == p.name # <<>> => q.name # <<>> /\ q.name[1] = p.name[1]

LEMMA PortChanges ==
  ASSUME NEW h, HttpCore(h), NEW p, NEW g, NEW s, NEW k, Put(h, k, p, g, s),
         HttpShape(k), k.slot.session = h.slot.session \/ k.slot.session = h.session,
         PortIsSound(k), Flow(k) = Flow(h), SameName(h.port, k.port),
         Own(k) /\ k.slot.status = "EOF" => Own(h) /\ h.slot.status = "EOF",
         k.port.status = "EOF" => k.port.name # <<>> /\ k.got = HttpContent[k.port.name[1]]
  PROVE  HttpCore(k)
<1>1. /\ SessionsAreOrdered(h) /\ FlowIsOurs(h) /\ WorkerIsSound(h.worker, h.net)
      /\ IF h.worker.session = h.session THEN TransferIsOurs(Flow(h), h.port, h.worker, h.net)
                                         ELSE Flow(h) = <<>>
  BY Zenon DEF HttpCore
<1>2. k.session = h.session /\ k.worker = h.worker /\ k.net = h.net /\ k.current = h.current
  BY Zenon DEF Put
<1>3. SessionsAreOrdered(k)
  <2>1. \A n \in Nat : n <= n
    OBVIOUS
  <2>2. QED
    BY <1>1, <1>2, <2>1, Zenon DEF SessionsAreOrdered
<1>4. FlowIsOurs(k)
  BY <1>1, Zenon DEF FlowIsOurs, SameName
<1>5. h.worker.session = h.session => TransferIsOurs(Flow(h), k.port, h.worker, h.net)
  <2>1. h.worker.session = h.session /\ h.worker.opened => h.port.name # <<>>
    BY <1>1, Zenon DEF TransferIsOurs
  <2>2. h.worker.active => h.worker.opened
    BY <1>1, Zenon DEF WorkerIsSound
  <2>3. QED
    BY <1>1, <2>1, <2>2, Zenon DEF TransferIsOurs, SameName
<1>6. QED
  BY <1>1, <1>2, <1>3, <1>4, <1>5, Zenon DEF HttpCore

(* The slot's answer is taken, or what is not for us is dropped.            *)
Taken(h) == IF h.slot.state # "DONE" THEN h
            ELSE IF Http!IsOwn(h) THEN Http!Deliver(h) ELSE [h EXCEPT !.slot.state = "IDLE"]
Asked(d) == IF d.slot.state = "IDLE" /\ d.port.want
              THEN [d EXCEPT !.slot.state = "PENDING", !.slot.session = d.session,
                             !.slot.name = d.port.name]
              ELSE d

LEMMA SameIsPut ==
  ASSUME NEW h, HttpShape(h)
  PROVE  Put(h, h, h.port, h.got, h.slot)
  BY Zenon DEF Put, HttpShape

LEMMA DroppedIsSound ==
  ASSUME NEW h, HttpCore(h), ~Own(h), h.slot.state = "DONE",
         NEW k, k = [h EXCEPT !.slot.state = "IDLE"]
  PROVE  HttpCore(k) /\ Put(h, k, h.port, h.got, k.slot) /\ (Http!Unread(k) <=> Http!Unread(h))
<1> DEFINE s == [h.slot EXCEPT !.state = "IDLE"]
<1>1. HttpShape(h) /\ PortIsSound(h) /\ FlowIsOurs(h)
  BY Zenon DEF HttpCore
<1>2. DOMAIN h = HttpFields /\ DOMAIN h.slot = SlotFields
  BY <1>1, Zenon DEF HttpShape
<1>3. k = [h EXCEPT !.slot = s]
  BY Zenon
<1>4. DOMAIN s = SlotFields /\ s.state = "IDLE" /\ s.session = h.slot.session
  BY <1>2, ZenonT(60) DEF SlotFields
<1> HIDE DEF s
<1>5. Put(h, k, h.port, h.got, s) /\ k.slot = s
  BY <1>2, <1>3, ZenonT(60) DEF Put, HttpFields
<1>6. k.port = h.port /\ k.got = h.got /\ k.session = h.session
  BY <1>5, Zenon DEF Put
<1>7. ~Own(k) /\ k.slot.state # "PENDING"
  BY <1>4, <1>5 DEF Own
<1>8. Flow(k) = Flow(h) /\ (Http!Unread(k) <=> Http!Unread(h))
  BY <1>6, <1>7, Zenon DEF Flow, Held, Http!Unread
<1>9. HttpShape(k)
  <2>1. DOMAIN k = HttpFields /\ k.worker = h.worker /\ k.net = h.net
    BY <1>5, Zenon DEF Put
  <2>2. QED
    BY <1>1, <1>4, <1>5, <1>6, <1>7, <2>1, Zenon DEF HttpShape
<1>10. PortIsSound(k)
  BY <1>1, <1>5, <1>6, <1>7, <1>8, Zenon DEF PortIsSound
<1>11. k.port.status = "EOF" => k.port.name # <<>> /\ k.got = HttpContent[k.port.name[1]]
  BY <1>1, <1>6, Zenon DEF FlowIsOurs
<1>12. SameName(h.port, k.port) /\ k.slot.session = h.slot.session
  BY <1>4, <1>5, <1>6, Zenon DEF SameName
<1>13. HttpCore(k)
  BY <1>5, <1>7, <1>8, <1>9, <1>10, <1>11, <1>12, PortChanges, Zenon
<1>14. QED
  BY <1>5, <1>8, <1>13, Zenon

LEMMA DeliveredIsSound ==
  ASSUME NEW h, HttpCore(h), Http!IsOwn(h), h.slot.state = "DONE",
         NEW k, k = Http!Deliver(h)
  PROVE  HttpCore(k) /\ Put(h, k, k.port, h.got, k.slot) /\ ~k.port.want
<1> DEFINE data == h.slot.data
           n == IF data = <<>> THEN 0 ELSE Len(data) + 1
           status == IF n > 0 THEN "DATA_READY" ELSE h.slot.status
           state == IF n > 0 THEN "DONE" ELSE "IDLE"
           p == [h.port EXCEPT !.want = FALSE, !.length = n, !.position = 0,
                               !.final = h.slot.status, !.status = status]
           s == [h.slot EXCEPT !.state = state]
<1>1. HttpShape(h) /\ PortIsSound(h) /\ FlowIsOurs(h)
  BY Zenon DEF HttpCore
<1>2. /\ DOMAIN h = HttpFields /\ DOMAIN h.slot = SlotFields /\ DOMAIN h.port = PortFields
      /\ h.got \in Received
  BY <1>1, Zenon DEF HttpShape
<1>3. h.slot.session = h.session /\ h.port.want /\ Own(h)
  BY Zenon DEF Http!IsOwn, Own
<1>4. data \in Received /\ h.got \o <<>> = h.got
  <2>1. data \in Received
    BY <1>1, <1>3, Zenon DEF HttpShape
  <2>2. QED
    BY <1>2, <2>1 DEF Received
<1>5. k = [h EXCEPT !.port = p, !.slot = s]
  BY Zenon DEF Http!Deliver
<1>6. n \in Nat /\ (n > 0 <=> data # <<>>) /\ (n > 0 => n = Len(data) + 1)
  <2>1. Len(data) \in Nat
    BY <1>4 DEF Received
  <2> HIDE DEF data
  <2>2. QED
    BY <2>1
<1>7. /\ n > 0 => status = "DATA_READY" /\ state = "DONE"
      /\ ~(n > 0) => status = h.slot.status /\ state = "IDLE"
  <2> HIDE DEF n
  <2>1. QED
    BY Zenon
<1>8. 0 \in Nat /\ "DATA_READY" # "EOF" /\ "IDLE" # "DONE" /\ "IDLE" # "PENDING" /\ "DONE" # "PENDING"
  OBVIOUS
<1> HIDE DEF n, status, state
<1>9. /\ DOMAIN p = PortFields /\ ~p.want /\ p.length = n /\ p.position = 0
      /\ p.final = h.slot.status /\ p.status = status /\ p.name = h.port.name
  BY <1>2, ZenonT(60) DEF PortFields
<1>10. /\ DOMAIN s = SlotFields /\ s.state = state /\ s.session = h.slot.session
       /\ s.data = data /\ s.status = h.slot.status
  BY <1>2, ZenonT(60) DEF SlotFields
<1> HIDE DEF p, s, data
<1>11. Put(h, k, p, h.got, s) /\ k.slot = s /\ k.port = p
  BY <1>2, <1>5, ZenonT(60) DEF Put, HttpFields
<1>12. k.got = h.got /\ k.session = h.session
  BY <1>11, Zenon DEF Put
<1>13. (Own(k) <=> n > 0) /\ (Http!Unread(k) <=> n > 0)
  <2>1. Own(k) <=> state = "DONE"
    BY <1>3, <1>10, <1>11, <1>12, Zenon DEF Own
  <2>2. state = "DONE" <=> n > 0
    BY <1>7, <1>8, Zenon
  <2>3. Http!Unread(k) <=> 0 < n
    BY <1>9, <1>11, Zenon DEF Http!Unread
  <2>4. 0 < n <=> n > 0
    BY <1>6
  <2>5. QED
    BY <2>1, <2>2, <2>3, <2>4, Zenon
<1>14. Flow(h) = h.got \o data
  BY <1>3, Zenon DEF Flow, Held, data
<1>15. Flow(k) = Flow(h)
  <2>1. CASE n > 0
    BY <1>9, <1>10, <1>11, <1>12, <1>13, <1>14, <2>1, Zenon DEF Flow, Held
  <2>2. CASE ~(n > 0)
    <3>1. data = <<>>
      BY <1>6, <2>2, Zenon
    <3>2. QED
      BY <1>12, <1>13, <1>14, <2>2, <3>1, Zenon DEF Flow, Held
  <2>3. QED
    BY <2>1, <2>2, Zenon
<1>16. HttpShape(k)
  <2>1. DOMAIN k = HttpFields /\ k.worker = h.worker /\ k.net = h.net
    BY <1>11, Zenon DEF Put
  <2>2. QED
    BY <1>1, <1>4, <1>6, <1>8, <1>9, <1>10, <1>11, <1>12, <2>1, Zenon DEF HttpShape
<1>17. PortIsSound(k)
  <2>1. k.slot.state # "PENDING"
    BY <1>7, <1>8, <1>10, <1>11, Zenon
  <2>2. Http!Unread(k) => /\ Own(k) /\ ~k.port.want /\ k.port.length = Len(k.slot.data) + 1
                          /\ k.port.final = k.slot.status
    BY <1>6, <1>9, <1>10, <1>11, <1>13, Zenon
  <2>3. k.port.status = "EOF" => ~k.port.want /\ ~Http!Unread(k)
    BY <1>7, <1>8, <1>9, <1>11, <1>13, Zenon
  <2>4. QED
    BY <1>9, <1>11, <1>13, <2>1, <2>2, <2>3, Zenon DEF PortIsSound
<1>18. k.port.status = "EOF" => k.port.name # <<>> /\ k.got = HttpContent[k.port.name[1]]
  <2>1. k.port.status = "EOF" => ~(n > 0) /\ h.slot.status = "EOF"
    BY <1>7, <1>8, <1>9, <1>11, Zenon
  <2>2. ~(n > 0) => Flow(h) = h.got
    BY <1>4, <1>6, <1>14, Zenon
  <2>3. QED
    BY <1>1, <1>3, <1>9, <1>11, <1>12, <2>1, <2>2, Zenon DEF FlowIsOurs
<1>19. SameName(h.port, k.port) /\ k.slot.session = h.slot.session
  BY <1>9, <1>10, <1>11, Zenon DEF SameName
<1>20. Own(k) /\ k.slot.status = "EOF" => Own(h) /\ h.slot.status = "EOF"
  BY <1>3, <1>10, <1>11, Zenon
<1>21. HttpCore(k)
  BY <1>11, <1>15, <1>16, <1>17, <1>18, <1>19, <1>20, PortChanges, Zenon
<1>22. QED
  BY <1>9, <1>11, <1>21, Zenon

LEMMA AskedIsSound ==
  ASSUME NEW h, HttpCore(h), NEW k, k = Asked(h)
  PROVE  HttpCore(k) /\ Put(h, k, h.port, h.got, k.slot)
<1> DEFINE ask == h.slot.state = "IDLE" /\ h.port.want
           s == [h.slot EXCEPT !.state = "PENDING", !.session = h.session, !.name = h.port.name]
<1>1. HttpShape(h) /\ PortIsSound(h) /\ FlowIsOurs(h)
  BY Zenon DEF HttpCore
<1>2. DOMAIN h = HttpFields /\ DOMAIN h.slot = SlotFields
  BY <1>1, Zenon DEF HttpShape
<1>3. CASE ~ask
  <2>1. k = h
    BY <1>3, Zenon DEF Asked
  <2>2. QED
    BY <1>1, <2>1, SameIsPut, Zenon
<1>4. CASE ask
  <2>1. k = [h EXCEPT !.slot = s]
    BY <1>4, Zenon DEF Asked
  <2>2. DOMAIN s = SlotFields /\ s.state = "PENDING" /\ s.session = h.session /\ s.name = h.port.name
    BY <1>2, ZenonT(60) DEF SlotFields
  <2> HIDE DEF s
  <2>3. Put(h, k, h.port, h.got, s) /\ k.slot = s
    BY <1>2, <2>1, ZenonT(60) DEF Put, HttpFields
  <2>4. k.port = h.port /\ k.got = h.got /\ k.session = h.session
    BY <2>3, Zenon DEF Put
  <2>5. ~Own(k) /\ ~Own(h)
    <3>1. "PENDING" # "DONE" /\ "IDLE" # "DONE"
      OBVIOUS
    <3>2. QED
      BY <1>4, <2>2, <2>3, <3>1, Zenon DEF Own
  <2>6. Flow(k) = Flow(h) /\ (Http!Unread(k) <=> Http!Unread(h))
    BY <2>4, <2>5, Zenon DEF Flow, Held, Http!Unread
  <2>7. HttpShape(k)
    <3>1. DOMAIN k = HttpFields /\ k.worker = h.worker /\ k.net = h.net
      BY <2>3, Zenon DEF Put
    <3>2. QED
      BY <1>1, <2>2, <2>3, <2>4, <2>5, <3>1, Zenon DEF HttpShape
  <2>8. PortIsSound(k)
    <3>1. h.port.want /\ ~Http!Unread(h)
      BY <1>1, <1>4, Zenon DEF PortIsSound
    <3>2. QED
      BY <1>1, <2>2, <2>3, <2>4, <2>5, <2>6, <3>1, Zenon DEF PortIsSound
  <2>9. k.port.status = "EOF" => k.port.name # <<>> /\ k.got = HttpContent[k.port.name[1]]
    BY <1>1, <2>4, Zenon DEF FlowIsOurs
  <2>10. SameName(h.port, k.port) /\ k.slot.session = h.session
    BY <2>2, <2>3, <2>4, Zenon DEF SameName
  <2>11. HttpCore(k)
    BY <2>3, <2>5, <2>6, <2>7, <2>8, <2>9, <2>10, PortChanges, Zenon
  <2>12. QED
    BY <2>3, <2>11, Zenon
<1>5. QED
  BY <1>3, <1>4, Zenon

(* Core 1's side and what was got are left alone.                           *)
Pumped(h, k) == HttpCore(k) /\ Put(h, k, k.port, h.got, k.slot)

LEMMA PumpIsSound ==
  ASSUME NEW h, HttpCore(h), ~Http!Unread(h), NEW k, k = Http!pump(h)
  PROVE  Pumped(h, k)
<1> DEFINE d == Taken(h)
<1>1. k = Asked(d)
  BY Zenon DEF Http!pump, Asked, Taken
<1>2. HttpCore(d) /\ Put(h, d, d.port, h.got, d.slot)
  <2>1. HttpShape(h) /\ PortIsSound(h)
    BY Zenon DEF HttpCore
  <2>2. CASE h.slot.state # "DONE"
    <3>1. d = h
      BY <2>2, Zenon DEF Taken
    <3>2. QED
      BY <2>1, <3>1, SameIsPut, Zenon
  <2>3. CASE h.slot.state = "DONE" /\ Http!IsOwn(h)
    <3>1. d = Http!Deliver(h)
      BY <2>3, Zenon DEF Taken
    <3> HIDE DEF d
    <3>2. QED
      BY <2>3, <3>1, DeliveredIsSound, Zenon
  <2>4. CASE h.slot.state = "DONE" /\ ~Http!IsOwn(h)
    <3>1. d = [h EXCEPT !.slot.state = "IDLE"]
      BY <2>4, Zenon DEF Taken
    <3>2. ~Own(h)
      BY <2>1, <2>4, Zenon DEF PortIsSound, Own, Http!IsOwn
    <3> HIDE DEF d
    <3>3. HttpCore(d) /\ Put(h, d, h.port, h.got, d.slot)
      BY <2>4, <3>1, <3>2, DroppedIsSound, Zenon
    <3>4. QED
      BY <3>3, Zenon DEF Put
  <2>5. QED
    BY <2>2, <2>3, <2>4, Zenon
<1> HIDE DEF d
<1>3. HttpCore(k) /\ Put(d, k, d.port, d.got, k.slot)
  BY <1>1, <1>2, AskedIsSound, Zenon
<1>4. QED
  BY <1>2, <1>3, Zenon DEF Put, Pumped

LEMMA NewSessionIsSound ==
  ASSUME NEW h, HttpCore(h), NEW collecting,
         NEW k, k = Http!pump([h EXCEPT !.session = @ + 1, !.got = <<>>,
                                 !.port = [Http!ClearPort EXCEPT !.collecting = collecting]])
  PROVE  HttpCore(k) /\ k.net = h.net /\ k.pc = h.pc
<1> DEFINE p == [Http!ClearPort EXCEPT !.collecting = collecting]
           m == [h EXCEPT !.session = @ + 1, !.got = <<>>, !.port = p]
<1>1. HttpShape(h) /\ SessionsAreOrdered(h) /\ WorkerIsSound(h.worker, h.net)
  BY Zenon DEF HttpCore
<1>2. /\ DOMAIN p = PortFields /\ p.name = <<>> /\ p.length = 0 /\ p.position = 0
      /\ p.status = "IDLE" /\ ~p.want
  BY DEF Http!ClearPort, PortFields
<1>3. k = Http!pump(m)
  BY Zenon
<1>4. DOMAIN h = HttpFields
  BY <1>1, Zenon DEF HttpShape
<1> HIDE DEF p
<1>5. /\ DOMAIN m = HttpFields /\ m.session = h.session + 1 /\ m.got = <<>> /\ m.port = p
      /\ m.slot = h.slot /\ m.worker = h.worker /\ m.net = h.net /\ m.pc = h.pc
      /\ m.current = h.current
  BY <1>4, ZenonT(60) DEF HttpFields
<1> HIDE DEF m
<1>6. /\ SessionsAreOrdered(m) /\ m.slot.session # m.session /\ m.worker.session # m.session
  BY <1>1, <1>5 DEF SessionsAreOrdered
<1>7. ~Own(m) /\ ~Http!Unread(m)
  <2>1. ~(0 < 0)
    OBVIOUS
  <2>2. QED
    BY <1>2, <1>5, <1>6, <2>1, Zenon DEF Own, Http!Unread
<1>8. <<>> \in Received /\ <<>> \o <<>> = <<>> /\ <<>> \in Seq(HttpFiles) /\ 0 \in Nat
      /\ "IDLE" # "EOF"
  BY DEF Received
<1>9. Flow(m) = <<>>
  BY <1>5, <1>7, <1>8, Zenon DEF Flow, Held
<1>10. HttpShape(m)
  BY <1>1, <1>2, <1>5, <1>7, <1>8, Zenon DEF HttpShape
<1>11. PortIsSound(m)
  BY <1>2, <1>5, <1>6, <1>7, <1>8, Zenon DEF PortIsSound
<1>12. FlowIsOurs(m)
  BY <1>2, <1>5, <1>7, <1>8, <1>9, Zenon DEF FlowIsOurs
<1>13. HttpCore(m)
  BY <1>1, <1>5, <1>6, <1>9, <1>10, <1>11, <1>12, Zenon DEF HttpCore
<1>14. Pumped(m, k)
  BY <1>3, <1>7, <1>13, PumpIsSound, Zenon
<1>15. QED
  BY <1>5, <1>14, Zenon DEF Pumped, Put

(* Only the port changes, and neither what is unread of it nor its name.    *)
LEMMA PortIsPut ==
  ASSUME NEW h, HttpCore(h), NEW p, NEW k, Put(h, k, p, h.got, h.slot),
         DOMAIN p = PortFields, p.length = h.port.length, p.position = h.port.position,
         p.final = h.port.final, p.name \in Seq(HttpFiles), SameName(h.port, p),
         p.want <=> h.port.want \/ (h.port.name # <<>> /\ ~Own(h) /\ p.want),
         h.slot.state = "PENDING" /\ h.slot.session = h.session => h.port.want,
         p.status = "EOF" => h.port.status = "EOF" /\ ~p.want
  PROVE  HttpCore(k) /\ (Http!Unread(k) <=> Http!Unread(h))
<1>1. HttpShape(h) /\ PortIsSound(h) /\ FlowIsOurs(h)
  BY Zenon DEF HttpCore
<1>2. /\ DOMAIN k = HttpFields /\ k.session = h.session /\ k.worker = h.worker /\ k.net = h.net
      /\ k.port = p /\ k.got = h.got /\ k.slot = h.slot
  BY Zenon DEF Put
<1>3. (Own(k) <=> Own(h)) /\ (Http!Unread(k) <=> Http!Unread(h))
  BY <1>2, Zenon DEF Own, Http!Unread
<1>4. Own(h) => (p.want <=> h.port.want)
  BY Zenon
<1>5. Flow(k) = Flow(h)
  BY <1>2, <1>3, <1>4, Zenon DEF Flow, Held
<1>6. HttpShape(k)
  BY <1>1, <1>2, <1>3, Zenon DEF HttpShape
<1>7. PortIsSound(k)
  <2>1. Http!Unread(k) => /\ Own(k) /\ ~k.port.want /\ k.port.length = Len(k.slot.data) + 1
                          /\ k.port.final = k.slot.status
    BY <1>1, <1>2, <1>3, <1>4, Zenon DEF PortIsSound
  <2>2. k.slot.state = "PENDING" /\ k.slot.session = k.session =>
          k.port.want /\ k.slot.name[1] = k.port.name[1]
    BY <1>1, <1>2, Zenon DEF PortIsSound, SameName
  <2>3. k.port.want => k.port.name # <<>>
    BY <1>1, <1>2, Zenon DEF PortIsSound, SameName
  <2>4. k.port.status = "EOF" => ~k.port.want /\ ~Http!Unread(k)
    BY <1>1, <1>2, <1>3, Zenon DEF PortIsSound
  <2>5. Own(k) => k.port.want \/ Http!Unread(k)
    BY <1>1, <1>2, <1>3, <1>4, Zenon DEF PortIsSound
  <2>6. QED
    BY <2>1, <2>2, <2>3, <2>4, <2>5, Zenon DEF PortIsSound
<1>8. k.port.status = "EOF" => k.port.name # <<>> /\ k.got = HttpContent[k.port.name[1]]
  BY <1>1, <1>2, Zenon DEF FlowIsOurs, SameName
<1>9. SameName(h.port, k.port) /\ k.slot.session = h.slot.session
  BY <1>2, Zenon
<1>10. Own(k) /\ k.slot.status = "EOF" => Own(h) /\ h.slot.status = "EOF"
  BY <1>2, <1>3, Zenon
<1>11. HttpCore(k)
  BY <1>5, <1>6, <1>7, <1>8, <1>9, <1>10, PortChanges, Zenon
<1>12. QED
  BY <1>3, <1>11, Zenon

(* A step of core 0 that core 1's side does not notice.                     *)
PortStep(h, k) == HttpCore(k) /\ k.net = h.net /\ k.pc = h.pc

LEMMA StatusIsSound ==
  ASSUME NEW h, HttpCore(h), NEW p, NEW k, k = [h EXCEPT !.port = p],
         DOMAIN p = PortFields, p.length = h.port.length, p.position = h.port.position,
         p.final = h.port.final, p.name = h.port.name, p.want <=> h.port.want,
         p.status = "ERROR" \/ p.status = h.port.status
  PROVE  PortStep(h, k)
<1>1. DOMAIN h = HttpFields /\ h.port.name \in Seq(HttpFiles) /\ PortIsSound(h)
  BY Zenon DEF HttpCore, HttpShape
<1>2. Put(h, k, p, h.got, h.slot) /\ k.net = h.net /\ k.pc = h.pc
  BY <1>1, ZenonT(60) DEF Put, HttpFields
<1>3. "ERROR" # "EOF"
  OBVIOUS
<1>4. h.slot.state = "PENDING" /\ h.slot.session = h.session => h.port.want
  BY <1>1, Zenon DEF PortIsSound
<1>5. p.status = "EOF" => h.port.status = "EOF" /\ ~p.want
  BY <1>1, <1>3, Zenon DEF PortIsSound
<1>6. p.name \in Seq(HttpFiles) /\ SameName(h.port, p)
  BY <1>1, Zenon DEF SameName
<1>7. p.want <=> h.port.want \/ (h.port.name # <<>> /\ ~Own(h) /\ p.want)
  BY Zenon
<1>8. HttpCore(k)
  BY <1>2, <1>4, <1>5, <1>6, <1>7, PortIsPut, Zenon
<1>9. QED
  BY <1>2, <1>8, Zenon DEF PortStep

LEMMA NameGrows ==
  ASSUME NEW h, HttpCore(h), NEW f \in HttpFiles, NEW k, k = [h EXCEPT !.port.name = Append(@, f)]
  PROVE  PortStep(h, k)
<1> DEFINE p == [h.port EXCEPT !.name = Append(@, f)]
<1>1. /\ DOMAIN h = HttpFields /\ DOMAIN h.port = PortFields /\ h.port.name \in Seq(HttpFiles)
      /\ PortIsSound(h)
  BY Zenon DEF HttpCore, HttpShape
<1>2. k = [h EXCEPT !.port = p]
  BY Zenon
<1>3. /\ DOMAIN p = PortFields /\ p.length = h.port.length /\ p.position = h.port.position
      /\ p.final = h.port.final /\ (p.want <=> h.port.want)
      /\ p.status = h.port.status /\ p.name = Append(h.port.name, f)
  BY <1>1, ZenonT(60) DEF PortFields
<1> HIDE DEF p
<1>4. Put(h, k, p, h.got, h.slot) /\ k.net = h.net /\ k.pc = h.pc
  BY <1>1, <1>2, ZenonT(60) DEF Put, HttpFields
<1>5. /\ h.slot.state = "PENDING" /\ h.slot.session = h.session => h.port.want
      /\ p.status = "EOF" => h.port.status = "EOF" /\ ~p.want
  BY <1>1, <1>3, Zenon DEF PortIsSound
<1>6. \A q \in Seq(HttpFiles) : /\ Append(q, f) \in Seq(HttpFiles) /\ Append(q, f) # <<>>
                                /\ q # <<>> => Append(q, f)[1] = q[1]
  <2>1. ASSUME NEW q \in Seq(HttpFiles), q # <<>> PROVE Append(q, f)[1] = q[1]
    <3>1. Len(q) \in Nat /\ Len(q) >= 1
      BY <2>1
    <3>2. QED
      BY <3>1
  <2>2. ASSUME NEW q \in Seq(HttpFiles)
        PROVE  Append(q, f) \in Seq(HttpFiles) /\ Append(q, f) # <<>>
    <3>1. Append(q, f) \in Seq(HttpFiles) /\ Len(Append(q, f)) = Len(q) + 1 /\ Len(q) \in Nat
      OBVIOUS
    <3>2. Len(Append(q, f)) # 0 /\ Len(<<>>) = 0
      BY <3>1
    <3>3. QED
      BY <3>1, <3>2, Zenon
  <2>3. QED
    BY <2>1, <2>2
<1>7. p.name \in Seq(HttpFiles) /\ SameName(h.port, p)
  BY <1>1, <1>3, <1>6, Zenon DEF SameName
<1>8. p.want <=> h.port.want \/ (h.port.name # <<>> /\ ~Own(h) /\ p.want)
  BY <1>3, Zenon
<1>9. HttpCore(k)
  BY <1>3, <1>4, <1>5, <1>7, <1>8, PortIsPut, Zenon
<1>10. QED
  BY <1>4, <1>9, Zenon DEF PortStep

LEMMA WantIsSound ==
  ASSUME NEW h, HttpCore(h), ~h.port.want, ~Http!Unread(h), h.port.name # <<>>,
         NEW k, k = [h EXCEPT !.port.want = TRUE, !.port.status = "BUSY"]
  PROVE  PortStep(h, k) /\ ~Http!Unread(k)
<1> DEFINE p == [h.port EXCEPT !.want = TRUE, !.status = "BUSY"]
<1>1. /\ DOMAIN h = HttpFields /\ DOMAIN h.port = PortFields /\ h.port.name \in Seq(HttpFiles)
      /\ PortIsSound(h)
  BY Zenon DEF HttpCore, HttpShape
<1>2. k = [h EXCEPT !.port = p]
  BY Zenon
<1>3. /\ DOMAIN p = PortFields /\ p.length = h.port.length /\ p.position = h.port.position
      /\ p.final = h.port.final /\ p.name = h.port.name /\ p.want
      /\ p.status = "BUSY"
  BY <1>1, ZenonT(60) DEF PortFields
<1> HIDE DEF p
<1>4. Put(h, k, p, h.got, h.slot) /\ k.net = h.net /\ k.pc = h.pc
  BY <1>1, <1>2, ZenonT(60) DEF Put, HttpFields
<1>5. "BUSY" # "EOF"
  OBVIOUS
<1>6. ~Own(h) /\ (h.slot.state = "PENDING" /\ h.slot.session = h.session => h.port.want)
  BY <1>1, Zenon DEF PortIsSound
<1>7. p.status = "EOF" => h.port.status = "EOF" /\ ~p.want
  BY <1>3, <1>5, Zenon
<1>8. p.name \in Seq(HttpFiles) /\ SameName(h.port, p)
  BY <1>1, <1>3, Zenon DEF SameName
<1>9. p.want <=> h.port.want \/ (h.port.name # <<>> /\ ~Own(h) /\ p.want)
  BY <1>3, <1>6, Zenon
<1>10. HttpCore(k) /\ (Http!Unread(k) <=> Http!Unread(h))
  BY <1>3, <1>4, <1>6, <1>7, <1>8, <1>9, PortIsPut, Zenon
<1>11. QED
  BY <1>4, <1>10, Zenon DEF PortStep

LEMMA RequestIsServed ==
  ASSUME HttpCore(st), Http!request_chunk
  PROVE  PortStep(st, st')
<1> DEFINE m == [st EXCEPT !.port.want = TRUE, !.port.status = "BUSY"]
           bad == st.port.collecting \/ st.port.overflow \/ st.port.name = <<>>
                    \/ st.port.status = "ERROR"
           e == [st EXCEPT !.port.status = "ERROR"]
           asked == Http!pump(m)
<1>1. ~st.port.want /\ ~Http!Unread(st)
  BY Zenon DEF Http!request_chunk
<1>2. st' = IF bad THEN e ELSE IF st.port.status = "EOF" THEN st ELSE asked
  BY Zenon DEF Http!request_chunk
<1>3. CASE st' = e
  <2> DEFINE p == [st.port EXCEPT !.status = "ERROR"]
  <2>1. DOMAIN st.port = PortFields
    BY Zenon DEF HttpCore, HttpShape
  <2>2. st' = [st EXCEPT !.port = p]
    BY <1>3, Zenon
  <2>3. /\ DOMAIN p = PortFields /\ p.length = st.port.length /\ p.position = st.port.position
        /\ p.final = st.port.final /\ p.name = st.port.name /\ (p.want <=> st.port.want)
        /\ p.status = "ERROR"
    BY <2>1, ZenonT(60) DEF PortFields
  <2> HIDE DEF p
  <2>4. QED
    BY <2>2, <2>3, StatusIsSound, Zenon
<1>4. CASE st' = st
  BY <1>4, Zenon DEF PortStep
<1>5. CASE st.port.name # <<>> /\ st' = asked
  <2>1. m = [st EXCEPT !.port.want = TRUE, !.port.status = "BUSY"]
    BY Zenon
  <2>2. st' = Http!pump(m)
    BY <1>5, Zenon
  <2> HIDE DEF m, e, asked
  <2>3. PortStep(st, m) /\ ~Http!Unread(m)
    BY <1>1, <1>5, <2>1, WantIsSound, Zenon
  <2>4. Pumped(m, st')
    BY <2>2, <2>3, PumpIsSound, Zenon DEF PortStep
  <2>5. QED
    BY <2>3, <2>4, Zenon DEF PortStep, Pumped, Put
<1>6. ~bad => st.port.name # <<>>
  BY Zenon
<1> HIDE DEF bad, e, asked
<1>7. st' = e \/ st' = st \/ (~bad /\ st' = asked)
  BY <1>2, Zenon
<1>8. QED
  BY <1>3, <1>4, <1>5, <1>6, <1>7, Zenon

LEMMA NameIsTaken ==
  ASSUME HttpCore(st), NEW f \in HttpFiles, Http!NameByte(f)
  PROVE  PortStep(st, st')
<1> DEFINE p == [st.port EXCEPT !.overflow = TRUE, !.status = "ERROR"]
<1>1. \/ st' = [st EXCEPT !.port.name = Append(@, f)] \/ st' = [st EXCEPT !.port = p]
  BY DEF Http!NameByte
<1>2. CASE st' = [st EXCEPT !.port.name = Append(@, f)]
  BY <1>2, NameGrows, Zenon
<1>3. CASE st' = [st EXCEPT !.port = p]
  <2>1. DOMAIN st.port = PortFields
    BY Zenon DEF HttpCore, HttpShape
  <2>2. /\ DOMAIN p = PortFields /\ p.length = st.port.length /\ p.position = st.port.position
        /\ p.final = st.port.final /\ p.name = st.port.name /\ (p.want <=> st.port.want)
        /\ p.status = "ERROR"
    BY <2>1, ZenonT(60) DEF PortFields
  <2> HIDE DEF p
  <2>3. QED
    BY <1>3, <2>2, StatusIsSound, Zenon
<1>4. QED
  BY <1>1, <1>2, <1>3, Zenon

LEMMA NameIsEnded ==
  ASSUME HttpCore(st), Http!NameEnd
  PROVE  PortStep(st, st')
<1> DEFINE bad == st.port.overflow \/ st.port.name = <<>>
           status == IF bad THEN "ERROR" ELSE st.port.status
           p == [st.port EXCEPT !.collecting = FALSE, !.status = status]
<1>1. st' = [st EXCEPT !.port = p]
  BY Zenon DEF Http!NameEnd
<1>2. DOMAIN st.port = PortFields
  BY Zenon DEF HttpCore, HttpShape
<1> HIDE DEF bad
<1>3. status = "ERROR" \/ status = st.port.status
  BY Zenon
<1> HIDE DEF status
<1>4. /\ DOMAIN p = PortFields /\ p.length = st.port.length /\ p.position = st.port.position
      /\ p.final = st.port.final /\ p.name = st.port.name /\ (p.want <=> st.port.want)
      /\ p.status = status
  BY <1>2, ZenonT(60) DEF PortFields
<1> HIDE DEF p
<1>5. QED
  BY <1>1, <1>3, <1>4, StatusIsSound, Zenon

PortMoves(h, k) ==
  /\ Put(h, k, k.port, k.got, k.slot) /\ HttpShape(k)
  /\ k.slot.session = h.slot.session \/ k.slot.session = h.session
  /\ PortIsSound(k) /\ Flow(k) = Flow(h) /\ SameName(h.port, k.port)
  /\ Own(k) /\ k.slot.status = "EOF" => Own(h) /\ h.slot.status = "EOF"
  /\ k.port.status = "EOF" => k.port.name # <<>> /\ k.got = HttpContent[k.port.name[1]]

LEMMA PortMoved ==
  ASSUME NEW h, HttpCore(h), NEW k, PortMoves(h, k)
  PROVE  HttpCore(k)
<1>1. /\ Put(h, k, k.port, k.got, k.slot) /\ HttpShape(k)
      /\ k.slot.session = h.slot.session \/ k.slot.session = h.session
      /\ PortIsSound(k) /\ Flow(k) = Flow(h) /\ SameName(h.port, k.port)
      /\ Own(k) /\ k.slot.status = "EOF" => Own(h) /\ h.slot.status = "EOF"
      /\ k.port.status = "EOF" => k.port.name # <<>> /\ k.got = HttpContent[k.port.name[1]]
  BY Zenon DEF PortMoves
<1>2. QED
  BY <1>1, PortChanges, Zenon

(* One more byte of the chunk is read.                                      *)
LEMMA ByteIsRead ==
  ASSUME NEW h, HttpCore(h), Http!Unread(h), NEW at, at = h.port.position, NEW last,
         last <=> at + 1 = h.port.length,
         NEW g, g = IF at = 0 THEN h.got ELSE Append(h.got, h.slot.data[at]),
         NEW status, status = IF last THEN h.port.final ELSE h.port.status,
         NEW state, state = IF last THEN "IDLE" ELSE h.slot.state,
         NEW k, k = [h EXCEPT !.port.position = at + 1, !.got = g,
                              !.port.status = status, !.slot.state = state]
  PROVE  PortStep(h, k)
<1> DEFINE p == [h.port EXCEPT !.position = at + 1, !.status = status]
           s == [h.slot EXCEPT !.state = state]
           data == h.slot.data
<1>1. HttpShape(h) /\ PortIsSound(h) /\ FlowIsOurs(h)
  BY Zenon DEF HttpCore
<1>2. /\ DOMAIN h = HttpFields /\ DOMAIN h.slot = SlotFields /\ DOMAIN h.port = PortFields
      /\ h.got \in Received /\ at \in Nat /\ h.port.length \in Nat /\ h.port.name \in Seq(HttpFiles)
  BY <1>1, Zenon DEF HttpShape
<1>3. /\ Own(h) /\ ~h.port.want /\ h.port.length = Len(data) + 1
      /\ h.port.final = h.slot.status /\ data \in Received
  <2>1. Own(h) /\ ~h.port.want /\ h.port.length = Len(data) + 1 /\ h.port.final = h.slot.status
    BY <1>1, Zenon DEF PortIsSound
  <2>2. QED
    BY <1>1, <2>1, Zenon DEF HttpShape
<1>4. at < h.port.length
  BY Zenon DEF Http!Unread
<1>5. k = [h EXCEPT !.port = p, !.got = g, !.slot = s]
  BY Zenon
<1>6. /\ DOMAIN p = PortFields /\ p.length = h.port.length /\ p.position = at + 1
      /\ p.final = h.port.final /\ p.name = h.port.name /\ ~p.want /\ p.status = status
  BY <1>2, <1>3, ZenonT(60) DEF PortFields
<1>7. /\ DOMAIN s = SlotFields /\ s.state = state /\ s.session = h.slot.session
      /\ s.data = data /\ s.status = h.slot.status
  BY <1>2, ZenonT(60) DEF SlotFields
<1> HIDE DEF p, s
<1>8. Put(h, k, p, g, s) /\ k.port = p /\ k.slot = s /\ k.got = g /\ k.session = h.session
  BY <1>2, <1>5, ZenonT(60) DEF Put, HttpFields
<1>9. h.slot.state = "DONE" /\ h.slot.session = h.session
  BY <1>3, Zenon DEF Own
<1>10. (Own(k) <=> ~last) /\ k.slot.state # "PENDING"
  <2>1. "IDLE" # "DONE" /\ "IDLE" # "PENDING" /\ "DONE" # "PENDING"
    OBVIOUS
  <2>2. last => state = "IDLE"
    BY Zenon
  <2>3. ~last => state = "DONE"
    BY <1>9, Zenon
  <2>4. QED
    BY <1>7, <1>8, <1>9, <2>1, <2>2, <2>3, Zenon DEF Own
<1>11. Http!Unread(k) <=> ~last
  <2>1. Http!Unread(k) <=> at + 1 < h.port.length
    BY <1>6, <1>8, Zenon DEF Http!Unread
  <2>2. at + 1 < h.port.length <=> at + 1 # h.port.length
    BY <1>2, <1>4
  <2>3. QED
    BY <2>1, <2>2, Zenon
<1>12. Flow(k) = Flow(h) /\ g \in Received
  <2>1. CASE at = 0
    <3>1. g = h.got /\ Flow(h) = h.got \o data
      BY <1>3, <2>1, Zenon DEF Flow, Held
    <3>2. CASE last
      <4>1. data = <<>>
        <5>1. Len(data) = 0
          BY <1>3, <2>1, <3>2 DEF Received
        <5>2. QED
          BY <1>3, <5>1 DEF Received
      <4>2. Flow(k) = g \o <<>>
        BY <1>8, <1>10, <3>2, Zenon DEF Flow, Held
      <4>3. QED
        BY <1>2, <3>1, <4>1, <4>2, Zenon
    <3>3. CASE ~last
      <4>1. p.position = 1 /\ p.position # 0
        BY <1>6, <2>1
      <4>2. Held(k) = SubSeq(data, 1, Len(data))
        BY <1>6, <1>7, <1>8, <1>10, <3>3, <4>1, Zenon DEF Held
      <4>3. SubSeq(data, 1, Len(data)) = data
        BY <1>3 DEF Received
      <4>4. QED
        BY <1>2, <1>8, <3>1, <4>2, <4>3, Zenon DEF Flow
    <3>4. QED
      BY <3>2, <3>3, Zenon
  <2>2. CASE at # 0
    <3>1. at \in 1 .. Len(data) /\ Len(data) \in Nat
      <4>1. Len(data) \in Nat
        BY <1>3 DEF Received
      <4>2. QED
        BY <1>2, <1>3, <1>4, <2>2, <4>1
    <3>2. g = Append(h.got, data[at]) /\ Flow(h) = h.got \o SubSeq(data, at, Len(data))
      BY <1>3, <2>2, Zenon DEF Flow, Held
    <3>3. /\ Append(h.got, data[at]) \in Received
          /\ Append(h.got, data[at]) \o SubSeq(data, at + 1, Len(data))
               = h.got \o SubSeq(data, at, Len(data))
      <4>1. \A a, d \in Received : \A q \in 1 .. Len(d) :
              /\ Append(a, d[q]) \in Received
              /\ Append(a, d[q]) \o SubSeq(d, q + 1, Len(d)) = a \o SubSeq(d, q, Len(d))
        BY MovedOn, ZenonT(60) DEF Received
      <4>2. QED
        BY <1>2, <1>3, <3>1, <4>1, Zenon
    <3>4. Held(k) = SubSeq(data, at + 1, Len(data))
      <4>1. CASE last
        <5>1. at = Len(data)
          BY <1>2, <1>3, <3>1, <4>1
        <5>2. SubSeq(data, at + 1, Len(data)) = <<>>
          BY <1>3, <3>1, <5>1 DEF Received
        <5>3. QED
          BY <1>10, <4>1, <5>2, Zenon DEF Held
      <4>2. CASE ~last
        <5>1. at + 1 # 0
          BY <1>2
        <5>2. QED
          BY <1>6, <1>7, <1>8, <1>10, <4>2, <5>1, Zenon DEF Held
      <4>3. QED
        BY <4>1, <4>2, Zenon
    <3>5. QED
      BY <1>8, <3>2, <3>3, <3>4, Zenon DEF Flow
  <2>3. QED
    BY <2>1, <2>2, Zenon
<1>13. HttpShape(k)
  <2>1. DOMAIN k = HttpFields /\ k.worker = h.worker /\ k.net = h.net
    BY <1>8, Zenon DEF Put
  <2>2. p.position \in Nat /\ p.length \in Nat
    BY <1>2, <1>6
  <2>3. QED
    BY <1>1, <1>3, <1>6, <1>7, <1>8, <1>12, <2>1, <2>2, Zenon DEF HttpShape
<1>14. h.port.status # "EOF"
  BY <1>1, Zenon DEF PortIsSound
<1>15. PortIsSound(k)
  <2>1. k.port.status = "EOF" => last
    BY <1>6, <1>8, <1>14, Zenon
  <2>2. QED
    BY <1>3, <1>6, <1>7, <1>8, <1>10, <1>11, <2>1, Zenon DEF PortIsSound
<1>16. k.port.status = "EOF" => k.port.name # <<>> /\ k.got = HttpContent[k.port.name[1]]
  <2>1. ASSUME k.port.status = "EOF"
        PROVE  last /\ h.slot.status = "EOF"
    <3>1. last
      BY <1>6, <1>8, <1>14, <2>1, Zenon
    <3>2. status = h.port.final
      BY <3>1, Zenon
    <3>3. QED
      BY <1>3, <1>6, <1>8, <2>1, <3>1, <3>2, Zenon
  <2>2. last => Flow(k) = g
    <3>1. last => Flow(k) = g \o <<>>
      BY <1>8, <1>10, Zenon DEF Flow, Held
    <3>2. g \o <<>> = g
      BY <1>12 DEF Received
    <3>3. QED
      BY <3>1, <3>2, Zenon
  <2>3. QED
    BY <1>1, <1>3, <1>6, <1>8, <1>12, <2>1, <2>2, ZenonT(60) DEF FlowIsOurs
<1>17. SameName(h.port, k.port) /\ k.slot.session = h.slot.session
  BY <1>6, <1>7, <1>8, Zenon DEF SameName
<1>18. Own(k) /\ k.slot.status = "EOF" => Own(h) /\ h.slot.status = "EOF"
  BY <1>3, <1>7, <1>8, Zenon
<1>19. HttpCore(k)
  <2>1. Put(h, k, k.port, k.got, k.slot)
    BY <1>8, Zenon
  <2>2. PortMoves(h, k)
    BY <1>12, <1>13, <1>15, <1>16, <1>17, <1>18, <2>1, Zenon DEF PortMoves
  <2>3. QED
    BY <2>2, PortMoved, Zenon
<1>20. QED
  BY <1>8, <1>19, Zenon DEF PortStep, Put

LEMMA PortIsRead ==
  ASSUME HttpCore(st), NEW byte, Http!z80_http_io_in(byte)
  PROVE  PortStep(st, st')
<1> DEFINE h == IF Http!Unread(st) THEN st ELSE Http!pump(st)
           at == h.port.position
           last == at + 1 = h.port.length
           g == IF at = 0 THEN h.got ELSE Append(h.got, h.slot.data[at])
           status == IF last THEN h.port.final ELSE h.port.status
           state == IF last THEN "IDLE" ELSE h.slot.state
           k == [h EXCEPT !.port.position = at + 1, !.got = g,
                          !.port.status = status, !.slot.state = state]
           none == ~byte \/ ~Http!Unread(h)
<1>1. st' = IF none THEN h ELSE k
  BY Zenon DEF Http!z80_http_io_in
<1>2. PortStep(st, h)
  <2>1. CASE Http!Unread(st)
    BY <2>1, Zenon DEF PortStep
  <2>2. CASE ~Http!Unread(st)
    <3>1. h = Http!pump(st)
      BY <2>2, Zenon
    <3> HIDE DEF h
    <3>2. Pumped(st, h)
      BY <2>2, <3>1, PumpIsSound, Zenon
    <3>3. QED
      BY <3>2, Zenon DEF PortStep, Pumped, Put
  <2>3. QED
    BY <2>1, <2>2, Zenon
<1> HIDE DEF h
<1>3. ASSUME Http!Unread(h) PROVE PortStep(h, k)
  <2>1. /\ at = h.port.position /\ (last <=> at + 1 = h.port.length)
        /\ g = IF at = 0 THEN h.got ELSE Append(h.got, h.slot.data[at])
        /\ status = IF last THEN h.port.final ELSE h.port.status
        /\ state = IF last THEN "IDLE" ELSE h.slot.state
    BY Zenon
  <2>2. HttpCore(h)
    BY <1>2, Zenon DEF PortStep
  <2> HIDE DEF at, last, g, status, state
  <2>3. k = [h EXCEPT !.port.position = at + 1, !.got = g,
                      !.port.status = status, !.slot.state = state]
    BY Zenon
  <2> HIDE DEF k
  <2>4. QED
    BY <1>3, <2>1, <2>2, <2>3, ByteIsRead, ZenonT(60)
<1>4. ~none => Http!Unread(h)
  BY Zenon
<1> HIDE DEF none, k
<1>5. st' = h \/ (~none /\ st' = k)
  BY <1>1, Zenon
<1>6. QED
  BY <1>2, <1>3, <1>4, <1>5, Zenon DEF PortStep

-----------------------------------------------------------------------------
(* The connection.                                                          *)

LEMMA StreamIsWhole ==
  ASSUME NEW s, DOMAIN s = StreamFields, NEW x
  PROVE  /\ DOMAIN Http!Feed(s, x) = StreamFields
         /\ DOMAIN Http!z80_http_stream_close(s) = StreamFields
<1>1. DOMAIN Http!NewStream = StreamFields
  BY DEF Http!NewStream, StreamFields
<1>2. DOMAIN Http!Fail(s) = StreamFields
  BY StreamFails, Zenon
<1>3. DOMAIN Http!EndOfHeaders(s) = StreamFields
  BY <1>1, <1>2 DEF Http!EndOfHeaders
<1>4. DOMAIN Http!line(s, x) = StreamFields
  BY <1>1, <1>2, <1>3 DEF Http!line
<1>5. DOMAIN Http!Feed(s, x) = StreamFields
  BY <1>2, <1>4 DEF Http!Feed
<1>6. DOMAIN Http!z80_http_stream_close(s) = StreamFields
  BY <1>2 DEF Http!z80_http_stream_close
<1>7. QED
  BY <1>5, <1>6

(* The connection changes, not how far the response has come.               *)
LEMMA WireChanges ==
  ASSUME NEW h, HttpCore(h), NEW k, SameSide(h, k), k.worker = h.worker,
         DOMAIN k.net = ConnFields, k.net.active <=> h.net.active,
         h.worker.target \in HttpFiles =>
           \A i, s : WireIsAt(HttpResponse[h.worker.target], i, s, h.net)
                       => WireIsAt(HttpResponse[h.worker.target], i, s, k.net)
  PROVE  HttpCore(k)
<1> DEFINE r == HttpResponse[h.worker.target]
           c == HttpContent[h.port.name[1]]
           all == Flow(h) \o h.worker.ring
<1>1. WorkerIsSound(k.worker, k.net)
  BY Zenon DEF HttpCore, WorkerIsSound
<1>2. ASSUME h.worker.session = h.session
      PROVE  TransferIsOurs(Flow(h), h.port, k.worker, k.net)
  <2>1. TransferIsOurs(Flow(h), h.port, h.worker, h.net)
    BY <1>2, Zenon DEF HttpCore
  <2>2. ASSUME h.worker.active PROVE OnTheWire(all, c, h.worker, k.net)
    <3>1. OnTheWire(all, c, h.worker, h.net)
      BY <2>1, <2>2, Zenon DEF TransferIsOurs
    <3> HIDE DEF all, c
    <3>2. QED
      BY <3>1, Zenon DEF OnTheWire
  <2>3. QED
    BY <2>1, <2>2, Zenon DEF TransferIsOurs
<1>3. k.worker.session = h.worker.session
  BY Zenon
<1>4. QED
  BY <1>1, <1>2, <1>3, WorkerChanges, Zenon

CallStep(h, k) == HttpCore(k) /\ (k.net.active <=> h.net.active) /\ k.pc = h.pc

(* The same items are on the way.                                           *)
SameWire(n, m) ==
  /\ DOMAIN m = ConnFields /\ (m.active <=> n.active) /\ (m.asked <=> n.asked)
  /\ m.pending = n.pending /\ m.rest = n.rest /\ (m.closed <=> n.closed)

LEMMA QuietIsSound ==
  ASSUME NEW h, HttpCore(h), NEW k, SameSide(h, k), k.worker = h.worker, k.pc = h.pc,
         SameWire(h.net, k.net)
  PROVE  CallStep(h, k)
<1>1. ASSUME NEW r, NEW i, NEW s, WireIsAt(r, i, s, h.net) PROVE WireIsAt(r, i, s, k.net)
  BY <1>1, Zenon DEF WireIsAt, SameWire
<1>2. DOMAIN k.net = ConnFields /\ (k.net.active <=> h.net.active)
  BY Zenon DEF SameWire
<1>3. HttpCore(k)
  BY <1>1, <1>2, WireChanges, Zenon
<1>4. QED
  BY <1>2, <1>3, Zenon DEF CallStep

(* What the fields of the connection become.                                *)
LEMMA FlagFields ==
  ASSUME NEW n, DOMAIN n = ConnFields, NEW v
  PROVE  /\ SameWire(n, [n EXCEPT !.failure = v]) /\ SameWire(n, [n EXCEPT !.client = v])
         /\ SameWire(n, [n EXCEPT !.ready = v])
         /\ \A u : SameWire(n, [n EXCEPT !.client = u, !.failure = v])
<1>1. SameWire(n, [n EXCEPT !.failure = v])
  BY ZenonT(60) DEF SameWire, ConnFields
<1>2. SameWire(n, [n EXCEPT !.client = v])
  BY ZenonT(60) DEF SameWire, ConnFields
<1>3. SameWire(n, [n EXCEPT !.ready = v])
  BY ZenonT(60) DEF SameWire, ConnFields
<1>4. ASSUME NEW u PROVE SameWire(n, [n EXCEPT !.client = u, !.failure = v])
  BY ZenonT(60) DEF SameWire, ConnFields
<1>5. QED
  BY <1>1, <1>2, <1>3, <1>4, Zenon

LEMMA LookupIsSound ==
  ASSUME HttpCore(st), NEW token, Http!resolved(token)
  PROVE  CallStep(st, st')
<1> DEFINE l == st.lookups \ {token}
           h == [st EXCEPT !.lookups = l]
           f == [st.net EXCEPT !.failure = TRUE]
           c == [st.net EXCEPT !.client = TRUE]
           quiet == ~Http!current(st, token) \/ st.net.failure \/ ~st.worker.active
<1>1. DOMAIN st = HttpFields /\ DOMAIN st.net = ConnFields
  BY Zenon DEF HttpCore, HttpShape
<1>2. st' \in IF quiet THEN {h} ELSE {[h EXCEPT !.net.failure = TRUE], [h EXCEPT !.net.client = TRUE]}
  BY Zenon DEF Http!resolved
<1>3. CASE st' = h
  <2>1. SameSide(st, st') /\ st'.worker = st.worker /\ st'.net = st.net /\ st'.pc = st.pc
    BY <1>1, <1>3, ZenonT(60) DEF SameSide, HttpFields
  <2>2. SameWire(st.net, st.net)
    BY <1>1, Zenon DEF SameWire
  <2>3. QED
    BY <2>1, <2>2, QuietIsSound, Zenon
<1>4. CASE st' = [h EXCEPT !.net.failure = TRUE]
  <2>1. SameWire(st.net, f)
    BY <1>1, FlagFields, Zenon
  <2>2. st' = [st EXCEPT !.lookups = l, !.net = f]
    <3>1. h.net = st.net
      BY <1>1, ZenonT(60) DEF HttpFields
    <3>2. st' = [h EXCEPT !.net = f]
      BY <1>4, <3>1, Zenon
    <3>3. QED
      BY <3>2, Zenon
  <2> HIDE DEF f, l
  <2>3. SameSide(st, st') /\ st'.worker = st.worker /\ st'.net = f /\ st'.pc = st.pc
    BY <1>1, <2>2, ZenonT(60) DEF SameSide, HttpFields
  <2>4. QED
    BY <2>1, <2>3, QuietIsSound, Zenon
<1>5. CASE st' = [h EXCEPT !.net.client = TRUE]
  <2>1. SameWire(st.net, c)
    BY <1>1, FlagFields, Zenon
  <2>2. st' = [st EXCEPT !.lookups = l, !.net = c]
    <3>1. h.net = st.net
      BY <1>1, ZenonT(60) DEF HttpFields
    <3>2. st' = [h EXCEPT !.net = c]
      BY <1>5, <3>1, Zenon
    <3>3. QED
      BY <3>2, Zenon
  <2> HIDE DEF c, l
  <2>3. SameSide(st, st') /\ st'.worker = st.worker /\ st'.net = c /\ st'.pc = st.pc
    BY <1>1, <2>2, ZenonT(60) DEF SameSide, HttpFields
  <2>4. QED
    BY <2>1, <2>3, QuietIsSound, Zenon
<1> HIDE DEF quiet, h
<1>6. QED
  BY <1>2, <1>3, <1>4, <1>5

LEMMA ConnectedIsSound ==
  ASSUME HttpCore(st), Http!connected \/ Http!socket_error
  PROVE  CallStep(st, st')
<1> DEFINE f == [st.net EXCEPT !.failure = TRUE]
           y == [st.net EXCEPT !.ready = TRUE]
           g == [st.net EXCEPT !.client = FALSE, !.failure = TRUE]
<1>1. DOMAIN st = HttpFields /\ DOMAIN st.net = ConnFields
  BY Zenon DEF HttpCore, HttpShape
<1>2. \E n \in {f, y, g} : st' = [st EXCEPT !.net = n]
  BY Zenon DEF Http!connected, Http!socket_error
<1>3. PICK n \in {f, y, g} : st' = [st EXCEPT !.net = n]
  BY <1>2, Zenon
<1>4. SameWire(st.net, n)
  <2>1. SameWire(st.net, f) /\ SameWire(st.net, y) /\ SameWire(st.net, g)
    BY <1>1, FlagFields, Zenon
  <2>2. QED
    BY <2>1, Zenon
<1> HIDE DEF f, y, g
<1>5. SameSide(st, st') /\ st'.worker = st.worker /\ st'.net = n /\ st'.pc = st.pc
  BY <1>1, <1>3, ZenonT(60) DEF SameSide, HttpFields
<1>6. QED
  BY <1>4, <1>5, QuietIsSound, Zenon

(* An item arrives, or the end of them.                                     *)
LEMMA ReceiveIsSound ==
  ASSUME HttpCore(st), Http!receive
  PROVE  CallStep(st, st')
<1> DEFINE n == st.net
           a == [n EXCEPT !.pending = Append(@, Head(n.rest)), !.rest = Tail(@)]
           b == [n EXCEPT !.closed = TRUE]
<1>1. DOMAIN st = HttpFields /\ DOMAIN n = ConnFields
  BY Zenon DEF HttpCore, HttpShape
<1>2. /\ n.asked
      /\ \/ n.rest # <<>> /\ st' = [st EXCEPT !.net = a]
         \/ n.rest = <<>> /\ st' = [st EXCEPT !.net = b]
  BY Zenon DEF Http!receive
<1>3. CASE n.rest # <<>> /\ st' = [st EXCEPT !.net = a]
  <2>1. /\ DOMAIN a = ConnFields /\ (a.active <=> n.active) /\ (a.asked <=> n.asked)
        /\ a.pending = Append(n.pending, Head(n.rest)) /\ a.rest = Tail(n.rest)
        /\ (a.closed <=> n.closed)
    BY <1>1, ZenonT(60) DEF ConnFields
  <2> HIDE DEF a
  <2>2. SameSide(st, st') /\ st'.worker = st.worker /\ st'.net = a /\ st'.pc = st.pc
    BY <1>1, <1>3, ZenonT(60) DEF SameSide, HttpFields
  <2>3. ASSUME NEW r, NEW i, NEW s, WireIsAt(r, i, s, n) PROVE WireIsAt(r, i, s, a)
    <3>1. /\ n.pending \in Received /\ n.rest \in Received /\ ~n.closed
          /\ n.pending \o n.rest = SubSeq(r, i + 1, Len(r))
      BY <1>2, <1>3, <2>3, Zenon DEF WireIsAt
    <3>2. \A p, q \in Received : q # <<>> =>
            /\ Append(p, Head(q)) \in Received /\ Tail(q) \in Received
            /\ Append(p, Head(q)) \o Tail(q) = p \o q
      BY Arrived, Zenon DEF Received
    <3>3. a.pending \in Received /\ a.rest \in Received /\ a.pending \o a.rest = n.pending \o n.rest
      BY <1>3, <2>1, <3>1, <3>2, Zenon
    <3>4. QED
      BY <1>2, <2>1, <3>1, <3>3, Zenon DEF WireIsAt
  <2>4. HttpCore(st')
    BY <2>1, <2>2, <2>3, WireChanges, Zenon
  <2>5. QED
    BY <2>1, <2>2, <2>4, Zenon DEF CallStep
<1>4. CASE n.rest = <<>> /\ st' = [st EXCEPT !.net = b]
  <2>1. /\ DOMAIN b = ConnFields /\ (b.active <=> n.active) /\ (b.asked <=> n.asked)
        /\ b.pending = n.pending /\ b.rest = n.rest /\ b.closed
    BY <1>1, ZenonT(60) DEF ConnFields
  <2> HIDE DEF b
  <2>2. SameSide(st, st') /\ st'.worker = st.worker /\ st'.net = b /\ st'.pc = st.pc
    BY <1>1, <1>4, ZenonT(60) DEF SameSide, HttpFields
  <2>3. ASSUME NEW r, NEW i, NEW s, WireIsAt(r, i, s, n) PROVE WireIsAt(r, i, s, b)
    BY <1>2, <1>4, <2>1, <2>3, Zenon DEF WireIsAt
  <2>4. HttpCore(st')
    BY <2>1, <2>2, <2>3, WireChanges, Zenon
  <2>5. QED
    BY <2>1, <2>2, <2>4, Zenon DEF CallStep
<1>5. QED
  BY <1>2, <1>3, <1>4, Zenon

(* The request is sent, or given up.                                        *)
LEMMA RequestIsSent ==
  ASSUME NEW h, HttpCore(h), ~h.net.asked,
         NEW k, k = [h EXCEPT !.net.asked = TRUE, !.net.rest = HttpResponse[h.worker.target]]
  PROVE  CallStep(h, k)
<1> DEFINE r == HttpResponse[h.worker.target]
           n == [h.net EXCEPT !.asked = TRUE, !.rest = r]
<1>1. DOMAIN h = HttpFields /\ DOMAIN h.net = ConnFields
  BY Zenon DEF HttpCore, HttpShape
<1>2. k = [h EXCEPT !.net = n]
  BY Zenon
<1>3. /\ DOMAIN n = ConnFields /\ (n.active <=> h.net.active) /\ n.asked
      /\ n.pending = h.net.pending /\ n.rest = r /\ (n.closed <=> h.net.closed)
  BY <1>1, ZenonT(60) DEF ConnFields
<1> HIDE DEF n
<1>4. SameSide(h, k) /\ k.worker = h.worker /\ k.net = n /\ k.pc = h.pc
  BY <1>1, <1>2, ZenonT(60) DEF SameSide, HttpFields
<1>5. ASSUME h.worker.target \in HttpFiles, NEW i, NEW s, WireIsAt(r, i, s, h.net)
      PROVE  WireIsAt(r, i, s, n)
  <2>1. r \in Received
    BY <1>5, FileFacts, Zenon
  <2> HIDE DEF r
  <2>2. i = 0 /\ h.net.pending = <<>> /\ ~h.net.closed
    BY <1>5, Zenon DEF WireIsAt
  <2>3. <<>> \in Received /\ <<>> \o r = SubSeq(r, 0 + 1, Len(r))
    BY <2>1 DEF Received
  <2>4. QED
    BY <1>3, <2>1, <2>2, <2>3, Zenon DEF WireIsAt
<1>6. HttpCore(k)
  BY <1>3, <1>4, <1>5, WireChanges, Zenon
<1>7. QED
  BY <1>3, <1>4, <1>6, Zenon DEF CallStep

LEMMA NextIsRead ==
  ASSUME NEW r \in Received, NEW i \in 0 .. Len(r), NEW p \in Received, NEW q \in Received,
         p \o q = SubSeq(r, i + 1, Len(r)), p # <<>>
  PROVE  NextIn(HttpItems, r, i, p, q)
<1>1. r \in Seq(HttpItems) /\ p \in Seq(HttpItems) /\ q \in Seq(HttpItems)
  BY Zenon DEF Received
<1>2. QED
  BY <1>1, NextOnTheWire, Zenon

(* One item is read.                                                        *)
LEMMA ItemIsRead ==
  ASSUME NEW h, HttpCore(h), h.net.pending # <<>>, NEW k, k = Http!Receive(h)
  PROVE  CallStep(h, k)
<1> DEFINE w == h.worker
           n == h.net
           x == Head(n.pending)
           s == Http!Feed(w.stream, x)
           body == Http!InBody(w.stream)
           full == body /\ Len(w.ring) = HttpRingMax
           ring == IF body THEN Append(w.ring, x) ELSE w.ring
           active == w.active /\ ~s.error
           tail == Tail(n.pending)
           v == [w EXCEPT !.stream = s, !.active = active, !.ring = ring]
           m == [n EXCEPT !.pending = tail]
           t == [h EXCEPT !.worker = v, !.net = m]
           stop == ~w.active \/ w.stream.done \/ w.stream.error \/ full
<1>1. /\ DOMAIN h = HttpFields /\ DOMAIN n = ConnFields /\ DOMAIN w = WorkerFields
      /\ WorkerIsSound(w, n) /\ DOMAIN w.stream = StreamFields /\ HttpShape(h)
  BY Zenon DEF HttpCore, HttpShape, WorkerIsSound
<1>2. k = IF stop THEN h ELSE t
  BY Zenon DEF Http!Receive
<1>3. CASE k = h
  BY <1>3, Zenon DEF CallStep
<1>4. CASE ~stop /\ k = t
  <2>1. w.active /\ ~w.stream.done /\ ~w.stream.error
    BY <1>4, Zenon
  <2>2. DOMAIN s = StreamFields
    BY <1>1, StreamIsWhole, Zenon
  <2>3. k = [h EXCEPT !.worker = v, !.net = m]
    BY <1>4, Zenon
  <2>4. s = Http!Feed(w.stream, x)
    BY Zenon
  <2>5. (active <=> ~s.error) /\ (body => ring = Append(w.ring, x)) /\ (~body => ring = w.ring)
    BY <2>1, Zenon
  <2> HIDE DEF s, body, full, ring, active, stop
  <2>6. /\ DOMAIN v = WorkerFields /\ v.session = w.session /\ (v.opened <=> w.opened)
        /\ (v.running <=> w.running) /\ v.target = w.target /\ v.error = w.error
        /\ v.stream = s /\ (v.active <=> active) /\ v.ring = ring
    BY <1>1, ZenonT(60) DEF WorkerFields
  <2> HIDE DEF v, tail
  <2>7. /\ DOMAIN m = ConnFields /\ (m.active <=> n.active) /\ (m.asked <=> n.asked)
        /\ m.pending = tail /\ m.rest = n.rest /\ (m.closed <=> n.closed)
    BY <1>1, ZenonT(60) DEF ConnFields
  <2> HIDE DEF m, t
  <2>8. SameSide(h, k) /\ k.worker = v /\ k.net = m /\ k.pc = h.pc
    BY <1>1, <2>3, ZenonT(60) DEF SameSide, HttpFields
  <2>9. w.opened /\ n.active
    BY <1>1, <2>1, Zenon DEF WorkerIsSound
  <2>10. WorkerIsSound(k.worker, k.net)
    BY <1>1, <2>2, <2>5, <2>6, <2>7, <2>8, <2>9, Zenon DEF WorkerIsSound
  <2>11. ASSUME w.session = h.session PROVE TransferIsOurs(Flow(h), h.port, v, m)
    <3> DEFINE fl == Flow(h)
               c == HttpContent[h.port.name[1]]
               all == fl \o w.ring
               r == HttpResponse[w.target]
    <3>1. TransferIsOurs(fl, h.port, w, n)
      BY <2>11, Zenon DEF HttpCore
    <3>2. fl \in Received /\ w.ring \in Received
      BY <1>1, <3>1, FlowType, Zenon DEF TransferIsOurs
    <3>3. OnTheWire(all, c, w, n)
      BY <2>1, <3>1, Zenon DEF TransferIsOurs
    <3>4. all \in Received
      BY <3>2 DEF Received
    <3>5. h.port.name # <<>>
      BY <2>9, <3>1, Zenon DEF TransferIsOurs
    <3> HIDE DEF fl, c
    <3>6. \A e \in HttpItems : /\ Append(w.ring, e) \in Received
                               /\ fl \o Append(w.ring, e) = Append(all, e)
                               /\ Append(all, e) \in Received /\ Len(Append(all, e)) = Len(all) + 1
      <4>1. \A a, b \in Received : \A e \in HttpItems :
              /\ Append(b, e) \in Received /\ a \o Append(b, e) = Append(a \o b, e)
        BY AppendJoined DEF Received
      <4>2. \A a \in Received : \A e \in HttpItems : Len(Append(a, e)) = Len(a) + 1
        BY DEF Received
      <4>3. QED
        BY <3>2, <3>4, <4>1, <4>2, Zenon
    <3> HIDE DEF all, w
    <3>7. w.target \in HttpFiles /\ HttpContent[w.target] = c /\ Begins(all, c)
      BY <3>3, Zenon DEF OnTheWire
    <3>8. HttpAnswers(r, c) /\ r \in Received /\ c \in Received
      BY <3>7, FileFacts, Zenon
    <3>9. PICK i \in 0 .. Len(r) : WireIsAt(r, i, w.stream, n) /\ StreamIsAt(r, c, i, w.stream, Len(all))
      BY <3>3, Zenon DEF OnTheWire
    <3> HIDE DEF r
    <3>10. n.asked /\ n.pending \in Received /\ n.rest \in Received
           /\ n.pending \o n.rest = SubSeq(r, i + 1, Len(r)) /\ (n.closed => n.rest = <<>>)
      BY <3>9, Zenon DEF WireIsAt
    <3> HIDE DEF n, x
    <3>11. /\ i < Len(r) /\ Head(n.pending) = r[i + 1] /\ Tail(n.pending) \in Received
           /\ Tail(n.pending) \o n.rest = SubSeq(r, (i + 1) + 1, Len(r))
      <4>2. n.pending # <<>>
        BY Zenon DEF n
      <4>3. QED
        <5>1. NextIn(HttpItems, r, i, n.pending, n.rest)
          BY <3>8, <3>9, <3>10, <4>2, NextIsRead, Zenon
        <5>2. QED
          BY <5>1, Zenon DEF NextIn, Received
    <3>12. /\ i \in Nat /\ i + 1 \in 0 .. Len(r) /\ r[i + 1] \in HttpItems
      BY <3>8, <3>9, <3>11 DEF Received
    <3>13. x = r[i + 1] /\ tail = Tail(n.pending)
      BY <3>11, Zenon DEF x, tail, n
    <3>14. WireIsAt(r, i + 1, s, m)
      BY <2>7, <3>10, <3>11, <3>13, Zenon DEF WireIsAt, n
    <3>15. /\ ~body => s.error \/ StreamIsAt(r, c, i + 1, s, Len(all))
           /\ body => /\ StreamIsAt(r, c, i + 1, s, Len(all) + 1)
                      /\ Len(all) + 1 \in DOMAIN c /\ c[Len(all) + 1] = r[i + 1]
      <4>1. s = Http!Feed(w.stream, r[i + 1]) /\ ~w.stream.done
        BY <2>1, <2>4, <3>13, Zenon DEF w
      <4>2. QED
        <5>1. Fed(r, c, i, w.stream, s, Len(all))
          BY <3>8, <3>9, <3>11, <3>12, <4>1, FeedIsAt, Zenon
        <5>2. QED
          BY <5>1, Zenon DEF body, Fed, w
    <3>16. CASE body
      <4>1. StreamIsAt(r, c, i + 1, s, Len(all) + 1) /\ ~s.error
        BY <3>15, <3>16, Zenon DEF StreamIsAt
      <4>2. Begins(Append(all, x), c)
        BY <3>4, <3>8, <3>7, <3>12, <3>13, <3>15, <3>16, BeginsLonger DEF Received
      <4>3. /\ ring = Append(w.ring, x) /\ ring \in Received /\ fl \o ring = Append(all, x)
            /\ Len(fl \o ring) = Len(all) + 1
        BY <2>5, <3>6, <3>12, <3>13, <3>16, Zenon DEF w
      <4>4. OnTheWire(fl \o ring, c, v, m)
        <5>1. /\ WireIsAt(HttpResponse[v.target], i + 1, v.stream, m)
              /\ StreamIsAt(HttpResponse[v.target], c, i + 1, v.stream, Len(fl \o ring))
              /\ i + 1 \in 0 .. Len(HttpResponse[v.target])
          BY <2>6, <3>12, <3>14, <4>1, <4>3, Zenon DEF r, w
        <5>2. v.target \in HttpFiles /\ HttpContent[v.target] = c /\ Begins(fl \o ring, c)
          BY <2>6, <3>7, <4>2, <4>3, Zenon DEF w
        <5>3. QED
          BY <5>1, <5>2, Zenon DEF OnTheWire
      <4>5. v.opened /\ v.active /\ v.ring = ring
        BY <2>5, <2>6, <2>9, <4>1, Zenon DEF w
      <4>6. QED
        BY <3>5, <4>3, <4>4, <4>5, Zenon DEF TransferIsOurs, fl, c
    <3>17. CASE ~body
      <4>1. ring = w.ring /\ ring \in Received /\ v.opened /\ v.ring = ring
            /\ (v.active <=> ~s.error) /\ v.stream = s
        BY <2>5, <2>6, <2>9, <3>2, <3>17, Zenon DEF w
      <4>2. fl \o ring = all
        BY <4>1, Zenon DEF all
      <4>3. ASSUME ~s.error PROVE OnTheWire(fl \o ring, c, v, m)
        <5>1. /\ WireIsAt(HttpResponse[v.target], i + 1, v.stream, m)
              /\ StreamIsAt(HttpResponse[v.target], c, i + 1, v.stream, Len(fl \o ring))
              /\ i + 1 \in 0 .. Len(HttpResponse[v.target])
          BY <2>6, <3>12, <3>14, <3>15, <3>17, <4>2, <4>3, Zenon DEF r, w
        <5>2. v.target \in HttpFiles /\ HttpContent[v.target] = c /\ Begins(fl \o ring, c)
          BY <2>6, <3>7, <4>2, Zenon DEF w
        <5>3. QED
          BY <5>1, <5>2, Zenon DEF OnTheWire
      <4>4. QED
        BY <3>5, <4>1, <4>3, Zenon DEF TransferIsOurs, fl, c
    <3>18. QED
      BY <3>16, <3>17, Zenon
  <2>12. k.worker.session = h.worker.session
    BY <2>6, <2>8, Zenon
  <2>13. HttpCore(k)
    BY <2>8, <2>10, <2>11, <2>12, WorkerChanges, Zenon
  <2>14. QED
    BY <2>7, <2>8, <2>13, Zenon DEF CallStep
<1> HIDE DEF t, stop
<1>5. k = h \/ (~stop /\ k = t)
  BY <1>2, Zenon
<1>6. QED
  BY <1>3, <1>4, <1>5, Zenon

(* The other end has closed the connection, and everything is read.         *)
LEMMA CloseIsRead ==
  ASSUME NEW h, HttpCore(h), h.net.active, h.net.closed, h.net.pending = <<>>,
         NEW k, k = Http!RemoteClose(h)
  PROVE  CallStep(h, k)
<1> DEFINE w == h.worker
           n == h.net
           s == Http!z80_http_stream_close(w.stream)
           active == w.active /\ ~s.error
           v == [w EXCEPT !.stream = s, !.active = active]
<1>1. /\ DOMAIN h = HttpFields /\ DOMAIN n = ConnFields /\ DOMAIN w = WorkerFields
      /\ WorkerIsSound(w, n) /\ DOMAIN w.stream = StreamFields /\ w.opened
  BY Zenon DEF HttpCore, HttpShape, WorkerIsSound
<1>2. k = [h EXCEPT !.worker = v]
  BY Zenon DEF Http!RemoteClose
<1>3. DOMAIN s = StreamFields
  BY <1>1, StreamIsWhole, Zenon
<1>4. ~s.error => ~w.stream.error
  BY Zenon DEF Http!z80_http_stream_close
<1>5. s = Http!z80_http_stream_close(w.stream)
  BY Zenon
<1> HIDE DEF s
<1>6. active <=> w.active /\ ~s.error
  BY Zenon
<1> HIDE DEF active
<1>7. /\ DOMAIN v = WorkerFields /\ v.session = w.session /\ v.opened
      /\ (v.running <=> w.running) /\ v.target = w.target /\ v.error = w.error
      /\ v.stream = s /\ (v.active <=> active) /\ v.ring = w.ring
  BY <1>1, ZenonT(60) DEF WorkerFields
<1> HIDE DEF v
<1>8. SameSide(h, k) /\ k.worker = v /\ k.net = n /\ k.pc = h.pc
  BY <1>1, <1>2, ZenonT(60) DEF SameSide, HttpFields
<1>9. WorkerIsSound(v, n)
  BY <1>1, <1>3, <1>6, <1>7, Zenon DEF WorkerIsSound
<1>10. ASSUME w.session = h.session PROVE TransferIsOurs(Flow(h), h.port, v, n)
  <2> DEFINE fl == Flow(h)
             c == HttpContent[h.port.name[1]]
             all == fl \o w.ring
             r == HttpResponse[w.target]
  <2>1. TransferIsOurs(fl, h.port, w, n)
    BY <1>10, Zenon DEF HttpCore
  <2>2. ASSUME w.active, ~s.error PROVE OnTheWire(all, c, v, n)
    <3>1. OnTheWire(all, c, w, n)
      BY <2>1, <2>2, Zenon DEF TransferIsOurs
    <3> HIDE DEF all, c, fl
    <3>2. w.target \in HttpFiles /\ HttpContent[w.target] = c /\ Begins(all, c)
      BY <3>1, Zenon DEF OnTheWire
    <3>3. HttpAnswers(r, c) /\ r \in Received
      BY <3>2, FileFacts, Zenon
    <3>4. PICK i \in 0 .. Len(r) : WireIsAt(r, i, w.stream, n) /\ StreamIsAt(r, c, i, w.stream, Len(all))
      BY <3>1, Zenon DEF OnTheWire
    <3> HIDE DEF w, n, r
    <3>5. n.closed /\ n.pending = <<>>
      BY Zenon DEF n
    <3>6. n.asked /\ n.pending \in Received /\ n.rest = <<>> /\ <<>> \o <<>> = SubSeq(r, i + 1, Len(r))
      BY <3>4, <3>5, Zenon DEF WireIsAt
    <3>7. i = Len(r)
      BY <3>3, <3>6, NothingOnTheWire, Zenon DEF Received
    <3>8. StreamIsAt(r, c, Len(r), w.stream, Len(all))
      BY <3>4, <3>7, Zenon
    <3>9. StreamIsAt(r, c, Len(r), s, Len(all))
      BY <1>5, <2>2, <3>8, CloseIsAt, Zenon DEF w
    <3>10. WireIsAt(r, i, s, n)
      BY <3>4, <3>6, Zenon DEF WireIsAt
    <3>11. /\ WireIsAt(HttpResponse[v.target], i, v.stream, n)
           /\ StreamIsAt(HttpResponse[v.target], c, i, v.stream, Len(all))
           /\ i \in 0 .. Len(HttpResponse[v.target])
      BY <1>7, <3>4, <3>7, <3>9, <3>10, Zenon DEF r, w
    <3>12. v.target \in HttpFiles /\ HttpContent[v.target] = c
      BY <1>7, <3>2, Zenon DEF w
    <3>13. QED
      BY <3>2, <3>11, <3>12, Zenon DEF OnTheWire
  <2>3. w.ring \in Received /\ h.port.name # <<>>
    BY <1>1, <2>1, Zenon DEF TransferIsOurs
  <2>4. ~w.stream.error /\ ~w.active => all = c
    BY <1>1, <2>1, Zenon DEF TransferIsOurs
  <2>5. fl \o v.ring = all
    BY <1>7, Zenon
  <2> HIDE DEF all, c, fl, w, n
  <2>6. v.active => OnTheWire(fl \o v.ring, c, v, n)
    BY <1>6, <1>7, <2>2, <2>5, Zenon
  <2>7. ~v.stream.error /\ ~v.active => fl \o v.ring = c
    BY <1>4, <1>6, <1>7, <2>4, <2>5, Zenon
  <2>8. v.opened /\ v.ring \in Received
    BY <1>7, <2>3, Zenon
  <2>9. QED
    BY <2>3, <2>6, <2>7, <2>8, Zenon DEF TransferIsOurs, fl, c
<1>11. k.worker.session = h.worker.session /\ WorkerIsSound(k.worker, k.net)
  BY <1>7, <1>8, <1>9, Zenon
<1>12. h.worker.session = h.session => TransferIsOurs(Flow(h), h.port, k.worker, k.net)
  BY <1>8, <1>10, Zenon
<1>13. HttpCore(k)
  BY <1>8, <1>11, <1>12, WorkerChanges, Zenon
<1>14. QED
  BY <1>8, <1>13, Zenon DEF CallStep

(* Only where core 1 is changes.                                            *)
Moved(h, pc) == [h EXCEPT !.pc = pc]

LEMMA OnlyMoves ==
  ASSUME NEW h, HttpCore(h), NEW pc, NEW k, k = Moved(h, pc)
  PROVE  HttpCore(k) /\ k.net = h.net /\ k.pc = pc
<1>1. DOMAIN h = HttpFields
  BY Zenon DEF HttpCore, HttpShape
<1>2. SameSide(h, k) /\ k.worker = h.worker /\ k.net = h.net /\ k.pc = pc
  BY <1>1, ZenonT(60) DEF Moved, SameSide, HttpFields
<1>3. QED
  BY <1>2, SameIsSound, Zenon

(* A failure is noted, or the connection is as it was.                      *)
LEMMA FailureIsNoted ==
  ASSUME NEW h, HttpCore(h), NEW k, k = [h EXCEPT !.net.failure = TRUE]
  PROVE  CallStep(h, k)
<1> DEFINE f == [h.net EXCEPT !.failure = TRUE]
<1>1. DOMAIN h = HttpFields /\ DOMAIN h.net = ConnFields
  BY Zenon DEF HttpCore, HttpShape
<1>2. SameWire(h.net, f)
  BY <1>1, FlagFields, Zenon
<1>3. k = [h EXCEPT !.net = f]
  BY Zenon
<1> HIDE DEF f
<1>4. SameSide(h, k) /\ k.worker = h.worker /\ k.net = f /\ k.pc = h.pc
  BY <1>1, <1>3, ZenonT(60) DEF SameSide, HttpFields
<1>5. QED
  BY <1>2, <1>4, QuietIsSound, Zenon

LEMMA NetworkIsSound ==
  ASSUME HttpCore(st), st.net.active, Http!Network
  PROVE  HttpCore(st') /\ st'.net.active
<1>1. PICK late \in BOOLEAN, refused \in BOOLEAN :
        LET n == st.net
            timeout == late /\ n.pending = <<>>
            h == CASE n.failure -> st
                   [] ~n.failure /\ timeout -> [st EXCEPT !.net.failure = TRUE]
                   [] ~n.failure /\ ~timeout /\ n.client /\ n.ready /\ ~n.asked ->
                        IF refused THEN [st EXCEPT !.net.failure = TRUE]
                        ELSE [st EXCEPT !.net.asked = TRUE,
                                        !.net.rest = HttpResponse[st.worker.target]]
                   [] OTHER -> st
            r == IF ~h.net.failure /\ h.net.pending # <<>> THEN Http!Receive(h) ELSE h
        IN  st' = [(IF ~r.net.failure /\ r.net.closed /\ r.net.pending = <<>>
                      THEN Http!RemoteClose(r) ELSE r) EXCEPT !.pc = "again"]
  BY Zenon DEF Http!Network
<1> DEFINE n == st.net
           timeout == late /\ n.pending = <<>>
           f == [st EXCEPT !.net.failure = TRUE]
           a == [st EXCEPT !.net.asked = TRUE, !.net.rest = HttpResponse[st.worker.target]]
           h == CASE n.failure -> st
                  [] ~n.failure /\ timeout -> f
                  [] ~n.failure /\ ~timeout /\ n.client /\ n.ready /\ ~n.asked ->
                       IF refused THEN f ELSE a
                  [] OTHER -> st
           r == IF ~h.net.failure /\ h.net.pending # <<>> THEN Http!Receive(h) ELSE h
           c == IF ~r.net.failure /\ r.net.closed /\ r.net.pending = <<>>
                  THEN Http!RemoteClose(r) ELSE r
<1>2. st' = [c EXCEPT !.pc = "again"]
  BY <1>1, Zenon
<1>3. CallStep(st, f)
  BY FailureIsNoted, Zenon
<1>4. ~n.asked => CallStep(st, a)
  <2>1. a = [st EXCEPT !.net.asked = TRUE, !.net.rest = HttpResponse[st.worker.target]]
    BY Zenon
  <2> HIDE DEF a
  <2>2. QED
    BY <2>1, RequestIsSent, Zenon
<1>5. CallStep(st, st)
  BY Zenon DEF CallStep
<1> HIDE DEF f, a, n
<1>6. CallStep(st, h)
  <2>1. h = st \/ h = f \/ (~n.asked /\ h = a)
    BY Zenon
  <2> HIDE DEF h
  <2>2. QED
    BY <1>3, <1>4, <1>5, <2>1, Zenon
<1> HIDE DEF h
<1>7. HttpCore(h) /\ h.net.active
  BY <1>6, Zenon DEF CallStep
<1>8. HttpCore(r) /\ r.net.active
  <2> DEFINE i == Http!Receive(h)
  <2>1. r = h \/ (h.net.pending # <<>> /\ r = i)
    BY Zenon
  <2>2. i = Http!Receive(h)
    BY Zenon
  <2> HIDE DEF r, i
  <2>3. h.net.pending # <<>> => CallStep(h, i)
    BY <1>7, <2>2, ItemIsRead, Zenon
  <2>4. QED
    BY <1>7, <2>1, <2>3, Zenon DEF CallStep
<1> HIDE DEF r
<1>9. HttpCore(c) /\ c.net.active
  <2> DEFINE i == Http!RemoteClose(r)
  <2>1. c = r \/ (r.net.closed /\ r.net.pending = <<>> /\ c = i)
    BY Zenon
  <2>2. i = Http!RemoteClose(r)
    BY Zenon
  <2> HIDE DEF c, i
  <2>3. r.net.closed /\ r.net.pending = <<>> => CallStep(r, i)
    BY <1>8, <2>2, CloseIsRead, Zenon
  <2>4. QED
    BY <1>8, <2>1, <2>3, Zenon DEF CallStep
<1> HIDE DEF c
<1>10. HttpCore(st') /\ st'.net = c.net
  <2>1. st' = Moved(c, "again")
    BY <1>2, Zenon DEF Moved
  <2>2. QED
    BY <1>9, <2>1, OnlyMoves, Zenon
<1>11. QED
  BY <1>9, <1>10, Zenon

(* Core 1 reads which session it is to serve.                               *)
Noted(h, pc) == [h EXCEPT !.current = h.session, !.pc = pc]

LEMMA SessionIsNoted ==
  ASSUME NEW h, HttpCore(h), NEW pc, NEW k, k = Noted(h, pc)
  PROVE  HttpCore(k) /\ k.net = h.net /\ k.pc = pc
<1>1. DOMAIN h = HttpFields /\ HttpShape(h) /\ PortIsSound(h) /\ FlowIsOurs(h)
  BY Zenon DEF HttpCore, HttpShape
<1>2. /\ DOMAIN k = HttpFields /\ k.session = h.session /\ k.port = h.port /\ k.got = h.got
      /\ k.slot = h.slot /\ k.worker = h.worker /\ k.net = h.net /\ k.current = h.session
      /\ k.pc = pc
  BY <1>1, ZenonT(60) DEF Noted, HttpFields
<1>3. /\ Own(k) <=> Own(h)
      /\ Flow(k) = Flow(h) /\ (Http!Unread(k) <=> Http!Unread(h))
  BY <1>2, SameFlow, Zenon
<1>4. HttpShape(k)
  BY <1>1, <1>2, <1>3, Zenon DEF HttpShape
<1>5. PortIsSound(k)
  BY <1>1, <1>2, <1>3, Zenon DEF PortIsSound
<1>6. FlowIsOurs(k)
  BY <1>1, <1>2, <1>3, Zenon DEF FlowIsOurs
<1>7. SessionsAreOrdered(k)
  <2>1. SessionsAreOrdered(h)
    BY Zenon DEF HttpCore
  <2>2. h.worker.session <= h.session /\ h.session <= h.session
    BY <2>1 DEF SessionsAreOrdered
  <2>3. QED
    BY <1>2, <2>1, <2>2, Zenon DEF SessionsAreOrdered
<1>8. QED
  BY <1>2, <1>3, <1>4, <1>5, <1>6, <1>7, Zenon DEF HttpCore

LEMMA SessionIsRead ==
  ASSUME HttpGood(st), Http!ReadSession
  PROVE  HttpGood(st')
<1>1. HttpCore(st)
  BY Zenon DEF HttpGood
<1> DEFINE e == Http!z80_http_io_error(st)
           h == IF st.net.failure THEN e ELSE st
<1>2. \/ st' = [st EXCEPT !.current = st.session, !.pc = "serve"]
      \/ st.net.active /\ st' = [h EXCEPT !.current = st.session, !.pc = "finish"]
  BY Zenon DEF Http!ReadSession, Http!At, HttpGood
<1>3. "serve" \notin {"net", "again"} /\ "finish" \notin {"net", "again"}
  OBVIOUS
<1>4. CASE st' = [st EXCEPT !.current = st.session, !.pc = "serve"]
  <2>1. st' = Noted(st, "serve")
    BY <1>4, Zenon DEF Noted
  <2>2. HttpCore(st') /\ st'.pc = "serve"
    BY <1>1, <2>1, SessionIsNoted, ZenonT(60)
  <2>3. QED
    BY <1>3, <2>2, ZenonT(60) DEF HttpGood
<1>5. CASE st.net.active /\ st' = [h EXCEPT !.current = st.session, !.pc = "finish"]
  <2>1. HttpCore(h) /\ h.session = st.session
    <3>1. st.worker.opened
      BY <1>1, <1>5, Zenon DEF HttpCore, WorkerIsSound
    <3>2. e = Http!z80_http_io_error(st)
      BY Zenon
    <3>3. h = e \/ h = st
      BY Zenon
    <3> HIDE DEF e, h
    <3>4. HttpCore(e) /\ SameSide(st, e)
      BY <1>1, <3>1, <3>2, FailIsSound, Zenon
    <3>5. QED
      BY <1>1, <3>3, <3>4, Zenon DEF SameSide
  <2> HIDE DEF h
  <2>2. st' = Noted(h, "finish")
    BY <1>5, <2>1, Zenon DEF Noted
  <2>3. HttpCore(Noted(h, "finish")) /\ Noted(h, "finish").pc = "finish"
    <3>1. HttpCore(h)
      BY <2>1, Zenon
    <3>2. QED
      BY <3>1, SessionIsNoted, Zenon
  <2>4. QED
    BY <1>3, <2>2, <2>3, Zenon DEF HttpGood
<1>6. QED
  BY <1>2, <1>4, <1>5, Zenon

LEMMA ServeIsSound ==
  ASSUME HttpGood(st), Http!Serve
  PROVE  HttpGood(st')
<1>1. HttpCore(st)
  BY Zenon DEF HttpGood
<1>2. PICK base \in BOOLEAN, fails \in BOOLEAN :
        LET h == Http!z80_http_io_core1_service(st, base, fails)
        IN  \/ Http!At("serve") /\ st' = [h EXCEPT !.pc = IF h.net.active THEN "net" ELSE "top"]
            \/ Http!At("finish") /\ st' = [h EXCEPT !.pc = "top"]
  BY Zenon DEF Http!Serve
<1> DEFINE h == Http!z80_http_io_core1_service(st, base, fails)
           pc == IF h.net.active THEN "net" ELSE "top"
<1>3. h = Http!z80_http_io_core1_service(st, base, fails)
  BY Zenon
<1>4. st' = [h EXCEPT !.pc = pc] \/ st' = [h EXCEPT !.pc = "top"]
  BY <1>2, Zenon
<1> HIDE DEF h
<1>5. HttpCore(h)
  BY <1>1, <1>3, ServiceIsSound, Zenon
<1>6. "top" \notin {"net", "again"}
  OBVIOUS
<1>7. pc \in {"net", "again"} => h.net.active
  BY <1>6, Zenon
<1> HIDE DEF pc
<1>8. CASE st' = [h EXCEPT !.pc = pc]
  <2>3. st' = Moved(h, pc)
    BY <1>8, Zenon DEF Moved
  <2>1. HttpCore(st') /\ st'.net = h.net /\ st'.pc = pc
    BY <1>5, <2>3, OnlyMoves, Zenon
  <2>2. QED
    BY <1>7, <2>1, Zenon DEF HttpGood
<1>9. CASE st' = [h EXCEPT !.pc = "top"]
  <2>3. st' = Moved(h, "top")
    BY <1>9, Zenon DEF Moved
  <2>1. HttpCore(st') /\ st'.pc = "top"
    BY <1>5, <2>3, OnlyMoves, Zenon
  <2>2. QED
    BY <1>6, <2>1, Zenon DEF HttpGood
<1>10. QED
  BY <1>4, <1>8, <1>9, Zenon

LEMMA NetworkMoves ==
  ASSUME HttpGood(st), Http!NetworkChanges
  PROVE  HttpGood(st')
<1>1. HttpCore(st)
  BY Zenon DEF HttpGood
<1> DEFINE on == ~st.online
           more == st.networks + 1
<1>2. DOMAIN st = HttpFields
  BY <1>1, Zenon DEF HttpCore, HttpShape
<1>3. st' = [st EXCEPT !.online = on] \/ st' = [st EXCEPT !.networks = more]
  BY Zenon DEF Http!NetworkChanges
<1> HIDE DEF on, more
<1>4. SameSide(st, st') /\ st'.worker = st.worker /\ st'.net = st.net /\ st'.pc = st.pc
  <2>1. CASE st' = [st EXCEPT !.online = on]
    BY <1>2, <2>1, ZenonT(60) DEF SameSide, HttpFields
  <2>2. CASE st' = [st EXCEPT !.networks = more]
    BY <1>2, <2>2, ZenonT(60) DEF SameSide, HttpFields
  <2>3. QED
    BY <1>3, <2>1, <2>2, Zenon
<1>5. QED
  BY <1>1, <1>4, SameIsSound, Zenon DEF HttpGood

-----------------------------------------------------------------------------
(* The steps of the port, and what the Z80 has read.                        *)

LEMMA HttpStart ==
  ASSUME Http!Init
  PROVE  HttpGood(st)
<1>1. /\ DOMAIN st = HttpFields /\ DOMAIN st.port = PortFields /\ DOMAIN st.slot = SlotFields
      /\ DOMAIN st.worker = WorkerFields /\ DOMAIN st.net = ConnFields
  BY DEF Http!Init, Http!ClearPort, Http!NoNet, HttpFields, PortFields, SlotFields, WorkerFields,
         ConnFields
<1>2. /\ st.session = 1 /\ st.current = 0 /\ st.slot.session = 0 /\ st.worker.session = 0
      /\ st.slot.state = "IDLE" /\ st.got = <<>> /\ st.pc = "top"
  BY DEF Http!Init
<1>3. /\ st.port.position = 0 /\ st.port.length = 0 /\ st.port.name = <<>> /\ ~st.port.want
      /\ st.port.status = "IDLE"
  BY DEF Http!Init, Http!ClearPort
<1>4. /\ ~st.worker.opened /\ ~st.worker.active /\ ~st.worker.running /\ st.worker.ring = <<>>
      /\ st.worker.stream = Http!NewStream /\ st.worker.error = "ERROR" /\ ~st.net.active
  BY DEF Http!Init, Http!NoNet
<1>5. DOMAIN Http!NewStream = StreamFields
  BY DEF Http!NewStream, StreamFields
<1>6. /\ "IDLE" # "DONE" /\ "IDLE" # "PENDING" /\ "IDLE" # "EOF" /\ "ERROR" # "EOF"
      /\ "top" \notin {"net", "again"} /\ <<>> \o <<>> = <<>> /\ ~(0 < 0) /\ 0 # 1
      /\ <<>> \in Seq(HttpFiles) /\ <<>> \in Received /\ 0 \in Nat
  BY DEF Received
<1>7. ~Own(st) /\ ~Http!Unread(st)
  BY <1>2, <1>3, <1>6, Zenon DEF Own, Http!Unread
<1>8. Flow(st) = <<>>
  BY <1>2, <1>6, <1>7, Zenon DEF Flow, Held
<1>9. HttpShape(st)
  BY <1>1, <1>2, <1>3, <1>6, <1>7, Zenon DEF HttpShape
<1>10. SessionsAreOrdered(st)
  BY <1>2 DEF SessionsAreOrdered
<1>11. PortIsSound(st)
  BY <1>2, <1>3, <1>6, <1>7, Zenon DEF PortIsSound
<1>12. FlowIsOurs(st)
  BY <1>3, <1>6, <1>7, <1>8, Zenon DEF FlowIsOurs
<1>13. WorkerIsSound(st.worker, st.net)
  BY <1>1, <1>4, <1>5, <1>6, Zenon DEF WorkerIsSound
<1>14. QED
  BY <1>2, <1>6, <1>8, <1>9, <1>10, <1>11, <1>12, <1>13, Zenon DEF HttpCore, HttpGood

LEMMA CallIsGood ==
  ASSUME HttpGood(st), CallStep(st, st')
  PROVE  HttpGood(st')
  BY Zenon DEF HttpGood, CallStep

LEMMA PortIsGood ==
  ASSUME HttpGood(st), PortStep(st, st')
  PROVE  HttpGood(st')
  BY Zenon DEF HttpGood, PortStep

LEMMA HttpStep ==
  ASSUME HttpGood(st), Http!Next
  PROVE  HttpGood(st')
<1>1. HttpCore(st)
  BY Zenon DEF HttpGood
<1>2. CASE Http!Z80
  <2>1. CASE Http!NewSession
    <3>1. PICK collecting \in BOOLEAN :
            st' = Http!pump([st EXCEPT !.session = @ + 1, !.got = <<>>,
                               !.port = [Http!ClearPort EXCEPT !.collecting = collecting]])
      BY <2>1, Zenon DEF Http!NewSession
    <3>2. HttpCore(st') /\ st'.net = st.net /\ st'.pc = st.pc
      BY <1>1, <3>1, NewSessionIsSound, Zenon
    <3>3. PortStep(st, st')
      BY <3>2, Zenon DEF PortStep
    <3>4. QED
      BY <3>3, PortIsGood, Zenon
  <2>2. CASE Http!request_chunk
    BY <1>1, <2>2, RequestIsServed, PortIsGood, Zenon
  <2>3. CASE \E f \in HttpFiles : Http!NameByte(f)
    BY <1>1, <2>3, NameIsTaken, PortIsGood, Zenon
  <2>4. CASE Http!NameEnd
    BY <1>1, <2>4, NameIsEnded, PortIsGood, Zenon
  <2>5. CASE \E byte \in BOOLEAN : Http!z80_http_io_in(byte)
    BY <1>1, <2>5, PortIsRead, PortIsGood, Zenon
  <2>6. QED
    BY <1>2, <2>1, <2>2, <2>3, <2>4, <2>5, Zenon DEF Http!Z80
<1>3. CASE Http!Callbacks
  <2>1. CASE \E token \in st.lookups : Http!resolved(token)
    BY <1>1, <2>1, LookupIsSound, CallIsGood, Zenon
  <2>2. CASE Http!connected \/ Http!socket_error
    BY <1>1, <2>2, ConnectedIsSound, CallIsGood, Zenon
  <2>3. CASE Http!receive
    BY <1>1, <2>3, ReceiveIsSound, CallIsGood, Zenon
  <2>4. QED
    BY <1>3, <2>1, <2>2, <2>3, Zenon DEF Http!Callbacks
<1>4. CASE Http!Network
  <2>1. st.net.active
    <3>1. st.pc = "net"
      BY <1>4, Zenon DEF Http!Network, Http!At
    <3>2. "net" \in {"net", "again"}
      OBVIOUS
    <3>3. QED
      BY <3>1, <3>2, Zenon DEF HttpGood
  <2>2. HttpCore(st') /\ st'.net.active
    BY <1>1, <1>4, <2>1, NetworkIsSound, Zenon
  <2>3. QED
    BY <2>2, Zenon DEF HttpGood
<1>5. CASE Http!ReadSession
  BY <1>5, SessionIsRead, Zenon
<1>6. CASE Http!Serve
  BY <1>6, ServeIsSound, Zenon
<1>7. CASE Http!NetworkChanges
  BY <1>7, NetworkMoves, Zenon
<1>8. QED
  BY <1>2, <1>3, <1>4, <1>5, <1>6, <1>7, Zenon DEF Http!Next, Http!Core1

(* What the Z80 has read, and what it will read of the slot, begins the file. *)
LEMMA FileIsRead ==
  ASSUME HttpCore(st)
  PROVE  Http!FileIsIntact
<1> DEFINE c == HttpContent[st.port.name[1]]
<1>1. HttpShape(st) /\ FlowIsOurs(st)
  BY Zenon DEF HttpCore
<1>2. st.port.status = "EOF" => st.got = c
  BY <1>1, Zenon DEF FlowIsOurs
<1>3. ASSUME st.got # <<>> PROVE st.port.name # <<>> /\ Http!IsPrefix(st.got, c)
  <2>1. st.got \in Received /\ Held(st) \in Received
    <3>1. st.got \in Received /\ (Own(st) => st.slot.data \in Received) /\ st.port.position \in Nat
      BY <1>1, Zenon DEF HttpShape
    <3>2. <<>> \in Received
      BY DEF Received
    <3>3. \A d \in Received : \A i \in Nat : i # 0 => SubSeq(d, i, Len(d)) \in Received
      BY DEF Received
    <3>4. QED
      BY <3>1, <3>2, <3>3, Zenon DEF Held
  <2>2. Flow(st) # <<>>
    <3>1. \A a, b \in Received : a # <<>> => a \o b # <<>>
      BY DEF Received
    <3>2. QED
      BY <1>3, <2>1, <3>1, Zenon DEF Flow
  <2>3. st.port.name # <<>> /\ Begins(st.got \o Held(st), c)
    BY <1>1, <2>2, Zenon DEF FlowIsOurs, Flow
  <2>4. c \in Received
    <3>1. st.port.name \in Seq(HttpFiles)
      BY <1>1, Zenon DEF HttpShape
    <3>2. st.port.name[1] \in HttpFiles
      BY <2>3, <3>1
    <3>3. QED
      BY <3>2, FileFacts, Zenon
  <2> HIDE DEF c
  <2>5. Begins(st.got, c)
    BY <2>1, <2>3, <2>4, BeginsShorter, Zenon DEF Received
  <2>6. \A a, b \in Received : Begins(a, b) => Http!IsPrefix(a, b)
    BY DEF Received, Begins, Http!IsPrefix
  <2>7. QED
    BY <2>1, <2>3, <2>4, <2>5, <2>6, Zenon
<1>4. QED
  BY <1>2, <1>3, Zenon DEF Http!FileIsIntact

(* The bytes a program reads from the HTTP port are those of the file it    *)
(* asked for last, from the first and without a gap, whatever sessions it   *)
(* cancels, wherever the response is cut and however core 1's service       *)
(* interleaves; and all of them at EOF (http_io.c, http_stream.c,           *)
(* http_network.cpp).                                                       *)
THEOREM FileHolds == PortsSpec => []FileIsIntact
<1> DEFINE Inv == part = "http" => HttpGood(st)
<1>1. PortsInit => Inv
  BY HttpStart DEF PortsInit
<1>2. Inv /\ [PortsNext]_vars => Inv'
  <2> SUFFICES ASSUME Inv, [PortsNext]_vars, part' = "http" PROVE HttpGood(st')
    OBVIOUS
  <2>1. CASE UNCHANGED vars
    <3>1. part = "http" /\ st' = st
      BY <2>1 DEF vars
    <3>2. QED
      BY <3>1
  <2>2. CASE PortsNext
    <3>1. part = "http" /\ Http!Next
      BY <2>2 DEF PortsNext
    <3>2. QED
      BY <3>1, HttpStep
  <2>3. QED
    BY <2>1, <2>2
<1>3. Inv => FileIsIntact
  BY FileIsRead, Zenon DEF FileIsIntact, HttpGood
<1>4. QED
  BY <1>1, <1>2, <1>3, PTL DEF PortsSpec
=============================================================================
