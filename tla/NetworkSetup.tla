---------------------------- MODULE NetworkSetup ----------------------------
(***************************************************************************)
(* The USB configuration shell and the Wi-Fi client it configures:         *)
(* network_setup.c and network_runtime.cpp, both polled by core 1.  A      *)
(* value is "" (not set) or a model value; the fields kept are those of    *)
(* the Wi-Fi, file system and chat menus (the others behave like SERVER).  *)
(* The store is the environment's, which the CP/M programs write as well:  *)
(* core 1 serves their commands between two polls, one at a time.  A store *)
(* may fail and then changes nothing.  The fields stored, foreign and      *)
(* since are history, read by the properties alone.                        *)
(***************************************************************************)
EXTENDS Integers, Sequences, FiniteSets

CONSTANTS
  Values,      \* what is typed: "" keeps, "-" clears, the rest are values
  Envs,        \* the settings at power on
  Valid,       \* [field -> the values valid_value accepts]
  Programs,    \* [field -> the values programs store, valid or not]
  MaxSaves,    \* bound: how many saves are tried
  MaxWrites    \* bound: how often a program stores a setting

VARIABLE setup

Fields == {"SSID", "PASSWORD", "SERVER", "PROVIDER", "ENDPOINT", "API_KEY"}
Unset == [f \in Fields |-> ""]
Menus == {"main", "wifi", "fs", "chat"}
NoConfig == [ssid |-> "", password |-> ""]
Offline == [state |-> "uninitialized", ssid |-> "", password |-> "", address |-> FALSE]

Init == \E env \in Envs : setup =
  [step |-> "idle", menu |-> "main", fields |-> <<>>, editing |-> Unset, pos |-> 1,
   values |-> Unset, loaded |-> FALSE, changed |-> FALSE, reboot |-> FALSE,
   auto |-> FALSE, state |-> "unknown", request |-> "none", result |-> "none",
   config |-> NoConfig, wifi |-> Offline,
   env |-> env, boot |-> env, connected |-> FALSE, running |-> TRUE,
   saves |-> 0, torn |-> FALSE, writes |-> 0,
   stored |-> {},      \* the fields that saves altered
   foreign |-> {},     \* the fields that programs wrote
   since |-> {}]       \* those they wrote since the shell last read the store

-----------------------------------------------------------------------------
(* The shell.                                                               *)

clear_edit(s) == [s EXCEPT !.editing = Unset]
forget(s) == [clear_edit(s) EXCEPT !.values = Unset]

submit(s, request, step) == [s EXCEPT !.request = request, !.step = step]

setup_request(s) ==
  submit([clear_edit(s) EXCEPT !.auto = TRUE, !.loaded = FALSE, !.menu = "main"],
         "load", "loading")

z80_network_setup_request ==        \* Ctrl-] c
  /\ setup.connected /\ setup.running /\ setup.step \notin {"saving", "loading", "reboot"}
  /\ setup' = setup_request(setup)

begin_edit(s, fields, first) ==
  [s EXCEPT !.fields = fields, !.pos = first, !.step = "editing",
            !.editing = [f \in Fields |-> IF \E i \in DOMAIN fields : fields[i] = f
                                          THEN s.values[f] ELSE ""]]

save_edits(s) == submit(s, "save", "saving")

FieldsOf(menu) == IF menu = "wifi" THEN <<"SSID", "PASSWORD">> ELSE <<"SERVER">>

Typing == setup.connected /\ setup.running /\ setup.step = "menu"

quitMain == /\ Typing /\ setup.menu = "main"
  /\ setup' = IF setup.changed THEN [forget(setup) EXCEPT !.step = "reboot", !.reboot = TRUE]
              ELSE [forget(setup) EXCEPT !.step = "idle"]

quitMenu == /\ Typing /\ setup.menu # "main" /\ setup' = [setup EXCEPT !.menu = "main"]

openMenu == /\ Typing /\ setup.menu = "main" /\ setup.loaded
  /\ \E m \in Menus \ {"main"} : setup' = [setup EXCEPT !.menu = m]

configure == /\ Typing /\ setup.loaded /\ setup.menu \in {"wifi", "fs"}
  /\ setup' = begin_edit(setup, FieldsOf(setup.menu), 1)

unset == /\ Typing /\ setup.loaded /\ setup.menu \in {"wifi", "fs"}
  /\ setup.saves < MaxSaves
  /\ setup' = save_edits([begin_edit(setup, FieldsOf(setup.menu), 1)
                            EXCEPT !.editing = Unset])

configureChat == /\ Typing /\ setup.loaded /\ setup.menu = "chat"
  /\ \E p \in Valid["PROVIDER"] \ {""} :
       LET fields == IF p = "openai" THEN <<"PROVIDER", "ENDPOINT", "API_KEY">>
                     ELSE <<"PROVIDER", "ENDPOINT">>
           s == begin_edit(setup, fields, IF p = "openai" THEN 3 ELSE 2)
       IN setup' = [s EXCEPT !.editing["PROVIDER"] = p,
                             !.editing["ENDPOINT"] = IF p = "openai" THEN "" ELSE @]

menu_command == \/ quitMain \/ quitMenu \/ openMenu \/ configure \/ unset \/ configureChat

escape == /\ setup.connected /\ setup.running /\ setup.step = "editing"
  /\ setup' = [clear_edit(setup) EXCEPT !.step = "menu"]

Complete(s) == s.fields[1] = "PROVIDER" /\ s.editing["PROVIDER"] # "openai" =>
                 s.editing["ENDPOINT"] # ""

(* z80_network_setup_input: a line is ended in the editor.                  *)
enter(line) == LET field == setup.fields[setup.pos]
                   value == CASE line = "" -> setup.editing[field]
                              [] line = "-" -> "" [] OTHER -> line
                   s == [setup EXCEPT !.editing[field] = value, !.pos = @ + 1] IN
  /\ setup.connected /\ setup.running /\ setup.step = "editing"
  /\ setup.saves < MaxSaves
  /\ setup' = IF value \notin Valid[field] THEN setup
              ELSE IF setup.pos < Len(setup.fields) THEN s
              ELSE IF Complete(s) THEN save_edits(s) ELSE [s EXCEPT !.pos = 2]

-----------------------------------------------------------------------------
(* z80_network_setup_usb_service                                            *)

Collected(s) == IF s.result = "none" THEN s
  ELSE [clear_edit(s) EXCEPT !.step = "menu", !.loaded = s.result = "ok", !.result = "none"]

Dropped(s) == IF s.step \in {"saving", "loading"} THEN s
              ELSE [forget(s) EXCEPT !.step = "idle"]

usb_service == LET s == Collected(setup) IN
  setup' = CASE s.step = "reboot" -> s
             [] s.step # "reboot" /\ ~(s.connected /\ s.running) ->
                  [Dropped(s) EXCEPT !.auto = @ /\ s.connected]
             [] OTHER -> IF s.auto \/ s.step # "idle" \/ s.state = "unknown" THEN s
                         ELSE IF s.state = "missing" THEN setup_request(s)
                         ELSE [s EXCEPT !.auto = TRUE]

-----------------------------------------------------------------------------
(* z80_network_setup_core1_service                                          *)

Config(env) == IF env["SSID"] \in Valid["SSID"] \ {""} /\ env["PASSWORD"] \in Valid["PASSWORD"]
               THEN [ssid |-> env["SSID"], password |-> env["PASSWORD"]]
               ELSE NoConfig

reload_config(s, ok) ==
  [s EXCEPT !.config = IF ok THEN Config(s.env) ELSE NoConfig,
            !.state = IF ~ok THEN "error"
                      ELSE IF Config(s.env) = NoConfig THEN "missing" ELSE "ready"]

Differs(s, f) == s.editing[f] # s.env[f]

Altered(s, n) == {f \in Fields : Differs(s, f) /\ \E i \in 1..n : s.fields[i] = f}

StoredQuietly(s, n) ==      \* mutant: a save that fails midway changes nothing
  [s EXCEPT !.saves = @ + 1, !.torn = @ \/ n < Len(s.fields),
    !.env = [f \in Fields |-> IF \E i \in 1..n : s.fields[i] = f THEN s.editing[f] ELSE @[f]],
    !.stored = @ \cup Altered(s, n),
    !.changed = @ \/ (n = Len(s.fields) /\ \E f \in Fields : Differs(s, f))]

(* save_value or delete_value for each field that differs: the first n are  *)
(* stored, then one may fail.                                               *)
Stored(s, n) == [s EXCEPT !.saves = @ + 1,
  !.env = [f \in Fields |-> IF \E i \in 1..n : s.fields[i] = f THEN s.editing[f] ELSE @[f]],
  !.changed = @ \/ \E i \in 1..n : Differs(s, s.fields[i]),
  !.torn = @ \/ n < Len(s.fields), !.stored = @ \cup Altered(s, n)]

Answered(s, ok) == [clear_edit(s) EXCEPT !.request = "none", !.since = {},
  !.values = IF ok THEN s.env ELSE Unset, !.result = IF ok THEN "ok" ELSE "failed"]

firstRead == /\ setup.state = "unknown" /\ setup.request = "none"
  /\ \E ok \in BOOLEAN : setup' = reload_config(setup, ok)

serveLoad == /\ setup.request = "load"
  /\ \E ok \in BOOLEAN : setup' = Answered(reload_config(setup, ok), ok)

serveSave == /\ setup.request = "save"
  /\ \/ setup' = Answered([reload_config(setup, FALSE) EXCEPT !.saves = @ + 1], FALSE)
     \/ \E n \in 0..Len(setup.fields), ok \in BOOLEAN :
          LET s == Stored(setup, n) IN
          /\ n < Len(setup.fields) => Differs(setup, setup.fields[n + 1])
          /\ setup' = Answered(reload_config(s, ok), ok /\ n = Len(setup.fields))

-----------------------------------------------------------------------------
(* A CP/M program stores a setting, valid or not, or deletes it.            *)
programWrites(f, v) ==
  /\ setup.writes < MaxWrites /\ v # setup.env[f]
  /\ setup' = [setup EXCEPT !.env[f] = v, !.foreign = @ \cup {f}, !.since = @ \cup {f},
                            !.writes = @ + 1]

-----------------------------------------------------------------------------
(* z80_network_poll                                                         *)

clear_address(w) == [w EXCEPT !.address = FALSE]

Matches(w, c) == w.ssid = c.ssid /\ w.password = c.password

start_association(s, w) == \E state \in {"associating", "backoff", w.state} :
  setup' = [s EXCEPT !.wifi = [w EXCEPT !.state = state]]

leave(s) == setup' = [s EXCEPT !.wifi = [clear_address(s.wifi) EXCEPT
                        !.state = "uninitialized", !.ssid = "", !.password = ""]]

unconfigured == /\ setup.state # "ready" /\ setup.wifi.state # "uninitialized"
  /\ leave(setup)

associate == LET c == setup.config  w == setup.wifi IN
  /\ setup.state = "ready"
  /\ \/ ~Matches(w, c)
        /\ start_association(setup, [clear_address(w) EXCEPT !.ssid = c.ssid,
                               !.password = c.password, !.state = "uninitialized"])
     \/ Matches(w, c) /\ w.state \in {"uninitialized", "backoff"}
        /\ start_association(setup, w)

Current == setup.state = "ready" /\ Matches(setup.wifi, setup.config)

associated == /\ Current /\ setup.wifi.state = "associating"
  /\ \E state \in {"online", "backoff"}, address \in BOOLEAN :
       setup' = [setup EXCEPT !.wifi.state = state,
                              !.wifi.address = @ \/ (state = "online" /\ address)]

linkLost == /\ Current /\ setup.wifi.state = "online"
  /\ setup' = [setup EXCEPT !.wifi = [clear_address(@) EXCEPT !.state = "backoff"]]

refresh_network_address == /\ Current /\ setup.wifi.state = "online"
  /\ \E address \in BOOLEAN : setup' = [setup EXCEPT !.wifi.address = address]

-----------------------------------------------------------------------------
(* The cable, and the CPU that stops; both are read by the next service.    *)
cable == /\ setup' = [setup EXCEPT !.connected = ~@]
stopping == /\ setup.running /\ setup' = [setup EXCEPT !.running = FALSE]
reboot_queued == /\ setup.reboot /\ setup' = [setup EXCEPT !.reboot = FALSE]

Next == \/ z80_network_setup_request \/ menu_command \/ escape \/ usb_service
        \/ (setup.step = "editing" /\ \E l \in Values : enter(l))
        \/ firstRead \/ serveLoad \/ serveSave
        \/ unconfigured \/ associate \/ associated \/ linkLost \/ refresh_network_address
        \/ (\E f \in Fields : \E v \in Programs[f] : programWrites(f, v))
        \/ cable \/ stopping \/ reboot_queued

-----------------------------------------------------------------------------
(* "Unsaved edits are discarded; saved edits still require reboot when      *)
(* exiting setup" (docs, phase-10-websocket.md): a reboot is owed exactly   *)
(* when some save, even one that failed midway, altered the store.  Each    *)
(* setting that differs from the one the board started with was altered by  *)
(* a save or written by a program, and what programs write asks for no      *)
(* reboot.  Leaving by a stop or by unplugging keeps the debt for the next  *)
(* time the shell is left by Q.                                             *)
ChangesAreOwed ==
  /\ setup.changed <=> setup.stored # {}
  /\ \A f \in Fields \ setup.foreign : setup.env[f] # setup.boot[f] => f \in setup.stored
  /\ setup.step = "reboot" => setup.stored # {}

(* A provider other than OpenAI has its URL, unless a save failed midway or *)
(* a program wrote one of the two.                                          *)
EndpointIsKnown ==
  (~setup.torn /\ setup.foreign \cap {"PROVIDER", "ENDPOINT"} = {}
     /\ setup.env["PROVIDER"] = "compatible") => setup.env["ENDPOINT"] # ""

(* The menu shows what is stored, but for what programs wrote since.        *)
MenuIsTrue ==
  (setup.loaded /\ setup.step \in {"menu", "editing"} /\ setup.result = "none") =>
    \A f \in Fields \ setup.since : setup.values[f] = setup.env[f]

(* The shell's account of the store, and an address only while online.      *)
ShellKeepsAccount ==
  /\ ChangesAreOwed /\ EndpointIsKnown /\ MenuIsTrue
  /\ setup.wifi.address => setup.wifi.state = "online"
=============================================================================
