\* The environment store, the shell, the log, the reboot button, the network services, the host's ports.
SPECIFICATION Spec
CONSTANTS
  EnvTexts <- EnvironmentTexts
  EnvMaxEntries = 3
  EnvSnapshotEntries = 2
  EnvResponseEntries = 1
  EnvMinInt <- LeastInt
  EnvMaxInt = 1
  EnvHalfSequence = 2
  SetupValues = {"", "-", "a", "bad"}
  SetupEnvs <- PowerOnEnvs
  SetupValid <- Accepted
  SetupPrograms <- ProgramStores
  SetupMaxSaves = 1
  SetupMaxWrites = 1
  UsbMessages <- LogMessages
  UsbLogBytes = 5
  UsbLogBudget = 2
  UsbFifo = 3
  UsbMaxLogs = 3
  UsbMaxWrites = 1
  WebMaxFrames = 3
  HostConfigs <- HostChatConfigs
  HostWires <- HostChatWires
  HostRequestMax = 1
  HostRingMax = 2
  HostLineMax = 4
  HostMaxRequests = 2
  HostSettings <- HostWeatherSettings
  HostMaxChanges = 1
  HostMaxStarts = 2
  HttpFiles = {"len", "chunk", "redir"}
  HttpResponse <- HttpResponses
  HttpLocation <- HttpLocations
  HttpContent <- HttpContents
  HttpUnusable = "no"
  HttpBadNames = {}
  HttpNameMax = 1
  HttpChunkMax = 2
  HttpRingMax = 2
  HttpWindowMax = 1
  HttpMaxRedirects = 1
  HttpMaxSession = 3
  HttpMaxNetworks = 1
  ChatParts = {"p", "q", "r", "s"}
  ChatReply <- ChatReplies
  ChatContent <- ChatContents
  ChatSettings <- ChatConfigs
  ChatRequestMax = 1
  ChatRingMax = 2
  ChatError <- ErrorMark
  ChatMaxStarts = 2
  ChatMaxNetworks = 1
  WeatherPlaces = {"x", "y", "badpath", "invalid"}
  WeatherInvalid = "invalid"
  WeatherBadPath = "badpath"
  WeatherWires <- Servers
  WeatherWireMax = 8
  WeatherBodyMax = 2
  WeatherStartupRetries = 1
INVARIANTS
  EnvironmentSurvives  LogIsWhole RebootAgrees HostReplyIsWhole WeatherIsOneFetch
  FileIsIntact ReplyIsIntact WeatherIsOurs
\* The board has restarted, or the host has closed its ports: nothing is left to do.
CHECK_DEADLOCK FALSE
