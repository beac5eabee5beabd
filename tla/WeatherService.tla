--------------------------- MODULE WeatherService ---------------------------
(***************************************************************************)
(* The weather service: weather.c, the response decoder weather_http.c and *)
(* the HTTPS client weather_network.cpp.  Core 1 polls; lwIP's callbacks   *)
(* come between two polls.  A place stands for all the settings, Invalid   *)
(* for ones that are refused; times are what the code waits for.           *)
(***************************************************************************)
EXTENDS Integers, Sequences, SequencesExt

CONSTANTS
  Places,      \* the settings tried
  Invalid,     \* settings that are missing, too long or wrong
  BadPath,     \* a location that build_path refuses
  Wires,       \* [place, kind -> set of Seq(items)]: what the server may send
  WireMax,     \* sizeof(wire) - 1
  BodyMax,     \* Z80_WEATHER_BODY_MAX
  StartupRetries \* 5 in the code

VARIABLE weather

None == "none"
Kinds == {"weather", "forecast"}

-----------------------------------------------------------------------------
(* weather_http.c                                                           *)

HeaderEnd(wire) == SelectInSeq(wire, LAMBDA x : x.kind = "end")
Headers(wire) == SubSeq(wire, 2, HeaderEnd(wire) - 1)
Body(wire) == SubSeq(wire, HeaderEnd(wire) + 1, Len(wire))
Lengths(wire) == SelectSeq(Headers(wire), LAMBDA x : x.kind = "length")
Chunked(wire) == SelectSeq(Headers(wire), LAMBDA x : x.kind = "chunked") # <<>>

(* The chunks: a size, that many bytes and a delimiter, the last one empty. *)
NextChunk(c, x) ==
  CASE c.want = "size" /\ x.kind = "size" ->
         [c EXCEPT !.left = x.n, !.want = IF x.n = 0 THEN "end" ELSE "data"]
    [] c.want = "data" /\ x.kind = "byte" /\ Len(c.body) < BodyMax ->
         [c EXCEPT !.body = Append(@, x), !.left = @ - 1,
                   !.want = IF c.left = 1 THEN "delimiter" ELSE "data"]
    [] c.want = "delimiter" /\ x.kind = "crlf" -> [c EXCEPT !.want = "size"]
    [] c.want = "end" /\ x.kind = "trailer" -> c
    [] c.want = "end" /\ x.kind = "end" -> [c EXCEPT !.want = "nothing"]
    [] OTHER -> [c EXCEPT !.want = "error"]

Dechunk(items) ==
  LET after[i \in 0 .. Len(items)] ==
        IF i = 0 THEN [want |-> "size", left |-> 0, body |-> <<>>]
        ELSE NextChunk(after[i - 1], items[i])
  IN  after[Len(items)]

Decodes(wire) ==
  /\ HeaderEnd(wire) # 0 /\ wire[1].kind = "status"
  /\ Len(Lengths(wire)) <= 1
  /\ IF Chunked(wire) THEN Lengths(wire) = <<>> /\ Dechunk(Body(wire)).want = "nothing"
     ELSE /\ Len(Body(wire)) <= BodyMax
          /\ Lengths(wire) # <<>> => Len(Body(wire)) = Lengths(wire)[1].n

z80_weather_http_decode(wire) ==
  IF Chunked(wire) THEN Dechunk(Body(wire)).body ELSE Body(wire)

-----------------------------------------------------------------------------
(* weather_network.cpp: the client                                          *)

NoNet == [active |-> FALSE, done |-> FALSE, failure |-> FALSE, client |-> FALSE, sent |-> FALSE,
          path |-> None, rest |-> <<>>, wire |-> <<>>, lookups |-> {}]

Release(n) == [n EXCEPT !.client = FALSE, !.rest = <<>>]
complete(n, failed) == [Release(n) EXCEPT !.failure = failed, !.active = FALSE, !.done = TRUE]
Stale(tokens) == IF tokens = {} THEN {} ELSE {"stale"}

cancel(n) == [Release(n) EXCEPT !.active = FALSE, !.done = FALSE, !.lookups = Stale(@)]

start(n, path, fails) ==
  IF fails THEN complete(n, TRUE)
  ELSE [NoNet EXCEPT !.active = TRUE, !.path = path, !.client = n.client, !.rest = n.rest,
                     !.lookups = Stale(n.lookups) \cup {"current"}]

resolved(token) ==
  LET n == [weather.net EXCEPT !.lookups = @ \ {token}]
  IN  /\ token \in weather.net.lookups
      /\ weather' \in
           IF ~n.active \/ token # "current" THEN {[weather EXCEPT !.net = n]}
           ELSE {[weather EXCEPT !.net = complete(n, TRUE)],
                 [weather EXCEPT !.net = [n EXCEPT !.client = TRUE]]}

(* connected, and the request it sends once. *)
connected ==
  LET n == weather.net
  IN  /\ n.client /\ ~n.sent
      /\ weather' \in
           {[weather EXCEPT !.net = complete(n, TRUE)]} \cup
           {[weather EXCEPT !.net = [n EXCEPT !.sent = TRUE, !.rest = w]] : w \in Wires[n.path]}

socket_error ==
  /\ weather.net.client
  /\ weather' = [weather EXCEPT !.net = complete(@, TRUE)]

receive ==
  LET n == weather.net
  IN  /\ n.client /\ n.sent
      /\ weather' =
           CASE n.rest = <<>> -> [weather EXCEPT !.net = complete(n, FALSE)]
             [] n.rest # <<>> /\ Len(n.wire) < WireMax ->
                  [weather EXCEPT !.net = [n EXCEPT !.wire = Append(@, Head(n.rest)),
                                                    !.rest = Tail(@)]]
             [] OTHER -> [weather EXCEPT !.net = complete(n, TRUE)]

Callbacks ==
  (\E t \in weather.net.lookups : resolved(t)) \/ connected \/ socket_error \/ receive

-----------------------------------------------------------------------------
(* weather.c                                                                *)

NoFields == [weather |-> None, forecast |-> None, error |-> FALSE]

(* The next try comes sooner while nothing has been fetched yet. *)
fail(w) ==
  LET soon == ~w.have_data /\ w.retries < StartupRetries
  IN  [w EXCEPT !.fields.error = TRUE, !.status = "ERROR", !.phase = 0,
                !.due = IF soon THEN "retry" ELSE "refresh",
                !.retries = IF soon THEN @ + 1 ELSE @]

load_configKept(w) ==    \* mutant: the fields of the place before stay readable
  IF w.settings = w.config THEN w
  ELSE [w EXCEPT !.net = cancel(@), !.config = w.settings, !.phase = 0, !.retries = 0,
                 !.status = "NONE"]

load_config(w) ==
  LET n == [w EXCEPT !.net = cancel(@), !.config = w.settings, !.fields = NoFields,
                     !.have_data = FALSE, !.phase = 0, !.retries = 0, !.status = "NONE"]
  IN  IF w.settings = w.config THEN w
      ELSE IF w.settings = Invalid THEN fail(n) ELSE n

(* z80_weather_result: conditions first, then the forecast, shown together. *)
z80_weather_result(w, failed, body) ==
  LET kind == IF w.phase = 1 THEN "weather" ELSE "forecast"
      parsed == ~failed /\ Len(body) = 1 /\ body[1].kind = "byte" /\ body[1].of = kind
      shown == [w.pending EXCEPT !.forecast = IF parsed THEN body[1].place ELSE None,
                                 !.error = ~parsed]
  IN  CASE w.phase \notin {1, 3} -> w
        [] w.phase = 1 /\ ~parsed -> fail(w)
        [] w.phase = 1 /\ parsed ->
             [w EXCEPT !.pending.weather = body[1].place, !.phase = 2, !.due = "now"]
        [] OTHER -> [w EXCEPT !.fields = shown, !.have_data = TRUE, !.status = "READY",
                              !.phase = 0, !.due = "refresh"]

Offline(w) ==
  LET n == [w EXCEPT !.was_online = FALSE]
  IN  IF w.phase = 0 THEN n
      ELSE [n EXCEPT !.net = cancel(@), !.phase = 0, !.fields.error = TRUE,
                     !.status = IF w.have_data THEN "READY" ELSE "NONE"]

Fetch(w, kind, noStart, fails) ==
  LET p == IF kind = "weather" THEN [w EXCEPT !.pending = NoFields] ELSE w
      n == [p EXCEPT !.phase = IF kind = "weather" THEN 1 ELSE 3, !.status = "FETCHING"]
  IN  IF w.config = BadPath THEN fail(w)
      ELSE IF noStart THEN z80_weather_result(n, TRUE, <<>>)
      ELSE [n EXCEPT !.net = start(@, <<w.config, kind>>, fails)]

z80_weather_poll(w, reload, noStart, fails) ==
  LET c == IF reload \/ w.config = None THEN load_config(w) ELSE w
      settle == ~c.was_online \/ c.config # w.config
      d == [c EXCEPT !.due = IF settle THEN "settle" ELSE @, !.was_online = TRUE]
  IN  CASE ~w.online -> Offline(c)
        [] w.online /\ (d.config = Invalid \/ d.phase \notin {0, 2} \/ d.due # "now") -> d
        [] OTHER -> Fetch(d, IF d.phase = 2 THEN "forecast" ELSE "weather", noStart, fails)

(* z80_weather_network_poll *)
Expire(w, late) ==
  IF w.net.active /\ (~w.online \/ late) THEN [w EXCEPT !.net = complete(@, TRUE)] ELSE w

Collect(w) ==
  LET n == w.net
      failed == n.failure \/ ~Decodes(n.wire) \/ n.wire[1].n # 200
  IN  IF ~n.done THEN w
      ELSE z80_weather_result([w EXCEPT !.net.done = FALSE], failed,
                              IF failed THEN <<>> ELSE z80_weather_http_decode(n.wire))

Poll ==
  \E late, reload, noStart, fails \in BOOLEAN :
    weather' = z80_weather_poll(Collect(Expire(weather, late)), reload, noStart, fails)

TimePasses ==
  /\ weather.due # "now"
  /\ weather' = [weather EXCEPT !.due = "now"]

(* The network, or synchronised time, comes and goes; ENV is edited. *)
LinkChanges == weather' = [weather EXCEPT !.online = ~@]

SettingsChange(p) ==
  /\ p # weather.settings
  /\ weather' = [weather EXCEPT !.settings = p]

(* z80_weather_service: what a field reads as; the units and the error can  *)
(* be read before there is anything else.                                   *)
Readable(field) == field = "error" \/ weather.have_data
Reads(field) == weather.fields[field]

Init ==
  weather = [settings |-> Invalid, config |-> None, online |-> FALSE, was_online |-> FALSE,
             fields |-> NoFields, pending |-> NoFields, have_data |-> FALSE, status |-> "NONE",
             phase |-> 0, retries |-> 0, due |-> "now", net |-> NoNet]

Next ==
  \/ Poll \/ TimePasses \/ LinkChanges \/ (\E p \in Places : SettingsChange(p)) \/ Callbacks

-----------------------------------------------------------------------------
(* The conditions and the forecast that can be read are for the place now   *)
(* configured, whatever was asked before, and from whole responses; READY    *)
(* means there are some; and FETCHING means that a request is under way      *)
(* whose end will be noticed.                                               *)
WeatherIsOurs ==
  /\ \A kind \in Kinds : Readable(kind) => Reads(kind) \in {weather.config, None}
  /\ Readable("weather") => Reads("weather") # None
  /\ weather.status = "READY" => weather.have_data
  /\ (weather.status = "FETCHING") = (weather.phase # 0)
  /\ weather.phase \in {1, 3} => weather.net.active \/ weather.net.done
=============================================================================
