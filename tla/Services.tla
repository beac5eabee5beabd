------------------------------ MODULE Services ------------------------------
(***************************************************************************)
(* The environment store, the USB shell and log, the reboot button and the *)
(* debug host's own ports.  Their parameters stay parameters: MCServices    *)
(* gives values to them.                                                   *)
(***************************************************************************)
EXTENDS SideBySide, Integers, Sequences

CONSTANTS
  \* Environment
  EnvTexts, EnvMaxEntries, EnvSnapshotEntries, EnvResponseEntries, EnvMinInt, EnvMaxInt,
  EnvHalfSequence,
  \* NetworkSetup
  SetupValues, SetupEnvs, SetupValid, SetupPrograms, SetupMaxSaves, SetupMaxWrites,
  \* UsbConsole
  UsbMessages, UsbLogBytes, UsbLogBudget, UsbFifo, UsbMaxLogs, UsbMaxWrites,
  \* WebReboot
  WebMaxFrames,
  \* HostChat, HostWeather
  HostConfigs, HostWires, HostRequestMax, HostRingMax, HostLineMax, HostMaxRequests,
  HostSettings, HostMaxChanges, HostMaxStarts

Env == INSTANCE Environment WITH env <- st, Texts <- EnvTexts,
  MaxEntries <- EnvMaxEntries, SnapshotEntries <- EnvSnapshotEntries,
  ResponseEntries <- EnvResponseEntries, MinInt <- EnvMinInt, MaxInt <- EnvMaxInt,
  HalfSequence <- EnvHalfSequence

(* Texts are parsed already: a number in one has the width of int64_t.      *)
EnvValues == {<<>>} \cup {<<n>> : n \in EnvMinInt .. EnvMaxInt}
EnvOperand(x) == x.kind \in {"literal", "now"} => x.value \in EnvValues

ASSUME EnvAssumption ==
  /\ EnvMaxEntries \in Nat /\ EnvSnapshotEntries \in Nat
  /\ EnvMinInt \in Int /\ EnvMaxInt \in Int /\ EnvMinInt <= 0 /\ 0 <= EnvMaxInt
  /\ EnvHalfSequence \in Nat /\ EnvHalfSequence > 1
  /\ \A t \in EnvTexts :
       /\ EnvOperand(t.arg)
       /\ t.arg.kind = "op" => EnvOperand(t.arg.left) /\ EnvOperand(t.arg.right)
       /\ t.form = "delta" => t.arg.value \in EnvValues \ {<<>>}

Setup == INSTANCE NetworkSetup WITH setup <- st, Values <- SetupValues,
  Envs <- SetupEnvs, Valid <- SetupValid, Programs <- SetupPrograms,
  MaxSaves <- SetupMaxSaves, MaxWrites <- SetupMaxWrites

(* The settings of a board that was configured with this shell: each has a  *)
(* value and a provider with an endpoint of its own has it.                 *)
ASSUME SetupAssumption ==
  \A e \in SetupEnvs :
    /\ e = [f \in Setup!Fields |-> e[f]]
    /\ e["PROVIDER"] = "compatible" => e["ENDPOINT"] # ""

Usb == INSTANCE UsbConsole WITH usb <- st, Messages <- UsbMessages, LogBytes <- UsbLogBytes,
  LogBudget <- UsbLogBudget, Fifo <- UsbFifo, MaxLogs <- UsbMaxLogs, MaxWrites <- UsbMaxWrites

(* A message is a sequence; the sizes of the buffers are numbers.           *)
ASSUME UsbAssumption ==
  /\ \A m \in UsbMessages : m \in Seq({m[i] : i \in DOMAIN m})
  /\ UsbLogBytes \in Nat /\ UsbLogBudget \in Nat /\ UsbFifo \in Nat

Web == INSTANCE WebReboot WITH wr <- st, MaxFrames <- WebMaxFrames

HostChatPort == INSTANCE HostChat WITH hc <- st, Configs <- HostConfigs, Wires <- HostWires,
  RequestMax <- HostRequestMax, RingMax <- HostRingMax, LineMax <- HostLineMax,
  MaxRequests <- HostMaxRequests

HostWeatherPort == INSTANCE HostWeather WITH hw <- st, Settings <- HostSettings,
  MaxChanges <- HostMaxChanges, MaxStarts <- HostMaxStarts

-----------------------------------------------------------------------------
ServicesInit ==
  \/ (part = "environment" /\ Env!Init)
  \/ (part = "setup" /\ Setup!Init)
  \/ (part = "usb" /\ Usb!Init)
  \/ (part = "reboot" /\ Web!Init)
  \/ (part = "host chat" /\ HostChatPort!Init)
  \/ (part = "host weather" /\ HostWeatherPort!Init)

ServicesNext ==
  /\ UNCHANGED part
  /\ \/ (part = "environment" /\ Env!Next)
     \/ (part = "setup" /\ Setup!Next)
     \/ (part = "usb" /\ Usb!Next)
     \/ (part = "reboot" /\ Web!Next)
     \/ (part = "host chat" /\ HostChatPort!Next)
     \/ (part = "host weather" /\ HostWeatherPort!Next)

ServicesSpec == ServicesInit /\ [][ServicesNext]_vars

-----------------------------------------------------------------------------
(* The environment a boot loads is the last one committed or, across a cut, *)
(* the one before it, and every entry of it can be loaded again             *)
(* (environment_io.c, flash_backend.c).                                     *)
EnvironmentSurvives == part = "environment" => Env!EnvironmentSurvives /\ Env!EntriesAreLoadable

(* The USB shell keeps account of the store it shares with the programs: it *)
(* knows what its saves altered and shows what is stored (network_setup.c). *)
ShellKeepsAccount == part = "setup" => Setup!ShellKeepsAccount

(* The USB log is made of whole messages in order (usb_console.c).          *)
LogIsWhole == part = "usb" => Usb!LogIsWhole

(* The browser's reboot is safe and its status true (web_terminal.cpp,      *)
(* main.c).                                                                 *)
RebootAgrees == part = "reboot" => Web!RebootAgrees

(* The debug host's chat port (host_chat_io.c).                             *)
HostReplyIsWhole == part = "host chat" => HostChatPort!HostReplyIsWhole

(* The debug host's weather port (weather_io.c).                            *)
WeatherIsOneFetch == part = "host weather" => HostWeatherPort!WeatherIsOneFetch
=============================================================================
