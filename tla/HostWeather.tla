---------------------------- MODULE HostWeather ----------------------------
(***************************************************************************)
(* The weather ports of the debug host: weather_io.c.  A thread of its own *)
(* fetches and sleeps; the target's calls come from the host's thread.     *)
(* Every section under s_mutex is one step.  A setting is a record of key, *)
(* location and units; what the server answers about a location is the     *)
(* location itself, so a field tells which fetch it is from.               *)
(***************************************************************************)
EXTENDS Naturals

CONSTANTS
  Settings,    \* [key : BOOLEAN, location, units]: OWM_* in the store
  MaxChanges,  \* bound: how often the target changes them
  MaxStarts    \* bound: how often the ports are opened

VARIABLE hw

Empty == ""
Letter(units) == CASE units = "imperial" -> "F" [] units = "standard" -> "K"
                   [] OTHER -> "C"
Blank == [location |-> Empty, units |-> Empty]

Init == \E s \in Settings :
  hw = [env |-> s, settings |-> s, status |-> "none", units |-> "C", err |-> FALSE,
        current |-> Blank, forecast |-> Blank, fetched |-> FALSE,
        at |-> "none", local |-> s, ok |-> FALSE, early |-> TRUE, waits |-> "none",
        started |-> FALSE, initialized |-> FALSE, closing |-> FALSE,
        reply |-> Empty, changes |-> 0, starts |-> 0]

(* weather_set_error                                                        *)
Failed(h) == [h EXCEPT !.err = TRUE, !.status = "error"]

(* weather_load_settings_locked                                             *)
Loaded(h) == [h EXCEPT !.settings = h.env, !.units = Letter(h.env.units)]

HaveConfig(s) == s.key /\ s.location # Empty

weather_io_init == /\ ~hw.initialized /\ hw.starts < MaxStarts
  /\ LET blank == [hw EXCEPT !.status = "none", !.err = FALSE, !.current = Blank,
                       !.forecast = Blank, !.fetched = FALSE, !.starts = @ + 1]
         open  == [Loaded(blank) EXCEPT !.initialized = TRUE]
     IN \/ hw' = [open EXCEPT !.started = TRUE, !.at = "settle", !.early = TRUE]
        \/ hw' = Failed(open)                            \* pthread_create failed

-----------------------------------------------------------------------------
(* weather_thread_fn                                                        *)

settled == /\ hw.at = "settle" /\ hw' = [hw EXCEPT !.at = "check"]

running == /\ hw.at = "check"
  /\ hw' = [hw EXCEPT !.at = IF hw.started THEN "load" ELSE "ended"]

load == /\ hw.at = "load"
  /\ LET h == [Loaded(hw) EXCEPT !.local = hw.env] IN
     hw' = IF HaveConfig(hw.env)
           THEN [h EXCEPT !.status = "fetching", !.err = FALSE, !.at = "current"]
           ELSE [h EXCEPT !.at = "unset"]

unset == /\ hw.at = "unset"
  /\ hw' = [Failed(hw) EXCEPT !.ok = FALSE, !.at = "rest"]

(* What weather_http_get and the parser make of an answer: no answer, an    *)
(* HTTP error or no JSON; or fields, empty where the body lacks them or     *)
(* was cut at WEATHER_BODY_MAX.                                             *)
Fields == {[location |-> hw.local.location, units |-> hw.local.units], Blank}

current == /\ hw.at = "current"
  /\ \/ hw' = [Failed(hw) EXCEPT !.at = "failed"]
     \/ \E f \in Fields : hw' = [hw EXCEPT !.current = f, !.at = "forecast"]

failed == /\ hw.at = "failed"
  /\ hw' = [hw EXCEPT !.status = "error", !.ok = FALSE, !.at = "rest"]

forecast == /\ hw.at = "forecast"
  /\ \/ hw' = [Failed(hw) EXCEPT !.at = "ready"]
     \/ hw' = [hw EXCEPT !.at = "ready"]                 \* no list in the answer
     \/ \E f \in Fields : hw' = [hw EXCEPT !.forecast = f, !.at = "ready"]

ready == /\ hw.at = "ready"
  /\ hw' = [hw EXCEPT !.status = "ready", !.fetched = TRUE, !.err = FALSE,
                      !.ok = TRUE, !.at = "rest"]

WaitSecs(h) == IF ~h.ok /\ h.early THEN "retry" ELSE "refresh"

RestUnchecked(h) ==      \* mutant: the flag is not read again under the lock
  [h EXCEPT !.at = "wait", !.waits = WaitSecs(h)]

Rest(h) == IF h.started THEN [h EXCEPT !.at = "wait", !.waits = WaitSecs(h)]
           ELSE [h EXCEPT !.at = "check"]

rest == hw.at = "rest" /\ hw' = Rest(hw)

(* pthread_cond_timedwait ends: its time is over, or spuriously.            *)
waited == /\ hw.at = "wait" /\ hw' = [hw EXCEPT !.at = "check", !.waits = "none"]

(* WEATHER_RETRY_WINDOW_SECS are over.                                      *)
windowEnds == /\ hw.early /\ hw.started /\ hw.at # "settle"
  /\ hw' = [hw EXCEPT !.early = FALSE]

-----------------------------------------------------------------------------
(* The host's thread.                                                       *)

Joined(h) == [h EXCEPT !.initialized = FALSE, !.closing = FALSE, !.at = "none",
                       !.ok = FALSE, !.early = TRUE]

weather_io_close == /\ hw.initialized /\ ~hw.closing
  /\ hw' = IF ~hw.started THEN Joined(hw)
           ELSE [hw EXCEPT !.started = FALSE, !.closing = TRUE, !.waits = "none",
                           !.at = IF hw.at = "wait" THEN "check" ELSE @]

join == /\ hw.closing /\ hw.at = "ended" /\ hw' = Joined(hw)

weather_field == [city |-> hw.current.location, forecast |-> hw.forecast.location,
                  units |-> hw.units, error |-> IF hw.err THEN "error" ELSE Empty,
                  age |-> IF hw.fetched THEN "age" ELSE "0", other |-> Empty]

weather_output(field) == /\ ~hw.closing
  /\ hw' = [hw EXCEPT !.reply = IF hw.initialized THEN weather_field[field] ELSE @]

weather_input == IF hw.initialized THEN hw.status ELSE "none"

environment_io_set(s) == /\ ~hw.closing /\ hw.changes < MaxChanges /\ s # hw.env
  /\ hw' = [hw EXCEPT !.env = s, !.changes = @ + 1]

Thread == \/ settled \/ running \/ load \/ unset \/ current \/ failed \/ forecast
          \/ ready \/ rest \/ waited

Next == \/ weather_io_init \/ weather_io_close \/ join \/ Thread \/ windowEnds
        \/ \E f \in DOMAIN weather_field : weather_output(f)
        \/ \E s \in Settings : environment_io_set(s)

-----------------------------------------------------------------------------
(* What the target sees as READY is one fetch: the current fields are of    *)
(* the location that fetch asked for, in the units the units field names,   *)
(* and a close that has raised its flag never finds the thread asleep for   *)
(* the 2 or 20 minutes of weather_wait_seconds_locked.  Between the two     *)
(* sections of a fetch that finds no settings the letter already is the     *)
(* new one: the one place where READY and the letter disagree.              *)
WeatherIsOneFetch ==
  /\ (weather_input = "ready" /\ hw.at # "unset") =>
       /\ hw.current.location \in {hw.settings.location, Empty}
       /\ hw.current = Blank \/ hw.units = Letter(hw.current.units)
  /\ hw.at = "wait" => hw.started
=============================================================================
