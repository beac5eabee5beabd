------------------------------- MODULE Ports --------------------------------
(***************************************************************************)
(* The network services behind the ports.  Their parameters stay           *)
(* parameters: MCServices gives values to them.                            *)
(***************************************************************************)
EXTENDS SideBySide, Integers, Sequences, FiniteSets

CONSTANTS
  \* HttpPort
  HttpFiles, HttpResponse, HttpLocation, HttpContent, HttpUnusable, HttpBadNames,
  HttpNameMax, HttpChunkMax, HttpRingMax, HttpWindowMax, HttpMaxRedirects,
  HttpMaxSession, HttpMaxNetworks,
  \* ChatService
  ChatParts, ChatReply, ChatContent, ChatSettings, ChatRequestMax, ChatRingMax,
  ChatError, ChatMaxStarts, ChatMaxNetworks,
  \* WeatherService
  WeatherPlaces, WeatherInvalid, WeatherBadPath, WeatherWires, WeatherWireMax,
  WeatherBodyMax, WeatherStartupRetries

Http == INSTANCE HttpPort WITH http <- st, Files <- HttpFiles, Response <- HttpResponse,
  Location <- HttpLocation, Content <- HttpContent, Unusable <- HttpUnusable,
  BadNames <- HttpBadNames, NameMax <- HttpNameMax, ChunkMax <- HttpChunkMax,
  RingMax <- HttpRingMax, WindowMax <- HttpWindowMax, MaxRedirects <- HttpMaxRedirects,
  MaxSession <- HttpMaxSession, MaxNetworks <- HttpMaxNetworks

(* How a response is framed.  The bytes in it are those of the content, in  *)
(* order: all of them, as many as its length says, or up to the last chunk. *)
(* It may be cut off where that can be told.                                *)
HttpBytes(r, i) == Cardinality({j \in 1 .. i : r[j].kind = "byte"})

HttpHas(r, j, e, kind) == \E k \in j .. e : r[k].kind = kind

HttpHead(r, j, e) ==
  /\ j < e /\ r[j].kind = "status" /\ r[e].kind = "end"
  /\ \A k \in j + 1 .. e - 1 : r[k].kind \in {"length", "chunked", "location"}

HttpFramed(r, c) ==
  /\ HttpBytes(r, Len(r)) <= Len(c)
  /\ \A i \in DOMAIN r :
       /\ r[i].kind = "byte" => c[HttpBytes(r, i)] = r[i]
       /\ r[i].kind = "length" => r[i].n = Len(c)
       /\ r[i].kind = "size" => r[i].n \in Nat
       /\ r[i].kind = "size" /\ r[i].n = 0 => HttpBytes(r, i) = Len(c)
       /\ r[i].kind = "size" => \A k \in i + 1 .. i + r[i].n : k \in DOMAIN r => r[k].kind = "byte"
  /\ \A j, e \in DOMAIN r : HttpHead(r, j, e) =>
       /\ r[j].n = 204 => c = <<>>
       /\ r[j].n = 200 /\ ~HttpHas(r, j, e, "chunked") =>
            /\ \A k \in e + 1 .. Len(r) : r[k].kind = "byte"
            /\ HttpHas(r, j, e, "length") \/ HttpBytes(r, Len(r)) = Len(c)

HttpStatus(r, n) == \E j \in DOMAIN r : r[j].kind = "status" /\ r[j].n = n

(* A server sends what is behind the name, or says where that is.           *)
ASSUME HttpAssumption ==
  /\ HttpUnusable \notin HttpFiles /\ HttpChunkMax \in Nat
  /\ \A f \in HttpFiles :
       /\ HttpResponse[f] \in Seq({HttpResponse[f][i] : i \in DOMAIN HttpResponse[f]})
       /\ HttpContent[f] \in Seq({HttpContent[f][i] : i \in DOMAIN HttpContent[f]})
       /\ IF HttpStatus(HttpResponse[f], 302)
          THEN /\ ~HttpStatus(HttpResponse[f], 200) /\ ~HttpStatus(HttpResponse[f], 204)
               /\ HttpLocation[f] # HttpUnusable =>
                    HttpLocation[f] \in HttpFiles /\ HttpContent[HttpLocation[f]] = HttpContent[f]
          ELSE HttpFramed(HttpResponse[f], HttpContent[f])

Chat == INSTANCE ChatService WITH chat <- st, Parts <- ChatParts, Reply <- ChatReply,
  Content <- ChatContent, Settings <- ChatSettings, RequestMax <- ChatRequestMax,
  RingMax <- ChatRingMax, Error <- ChatError, MaxStarts <- ChatMaxStarts,
  MaxNetworks <- ChatMaxNetworks

Weather == INSTANCE WeatherService WITH weather <- st, Places <- WeatherPlaces,
  Invalid <- WeatherInvalid, BadPath <- WeatherBadPath, Wires <- WeatherWires,
  WireMax <- WeatherWireMax, BodyMax <- WeatherBodyMax,
  StartupRetries <- WeatherStartupRetries

(* A server answers for the place it is asked about.                        *)
ASSUME WeatherAssumption ==
  /\ Weather!None \notin WeatherPlaces \cup {WeatherInvalid}
  /\ DOMAIN WeatherWires = (WeatherPlaces \ {WeatherInvalid, WeatherBadPath}) \X Weather!Kinds
  /\ \A q \in DOMAIN WeatherWires : \A wire \in WeatherWires[q] :
       /\ wire \in Seq({wire[i] : i \in DOMAIN wire})
       /\ \A i \in DOMAIN wire :
            /\ wire[i].kind = "size" => wire[i].n \in Nat
            /\ wire[i].kind = "byte" => wire[i].place = q[1]

-----------------------------------------------------------------------------
PortsInit ==
  \/ (part = "http" /\ Http!Init)
  \/ (part = "chat" /\ Chat!Init)
  \/ (part = "weather" /\ Weather!Init)

PortsNext ==
  /\ UNCHANGED part
  /\ \/ (part = "http" /\ Http!Next)
     \/ (part = "chat" /\ Chat!Next)
     \/ (part = "weather" /\ Weather!Next)

PortsSpec == PortsInit /\ [][PortsNext]_vars

-----------------------------------------------------------------------------
(* The bytes a program reads from the HTTP port are those of the file it    *)
(* asked for last (http_io.c, http_stream.c, http_network.cpp).             *)
FileIsIntact == part = "http" => Http!FileIsIntact

(* The reply the chat port gives is the one to its own request, whole or    *)
(* marked, and the key goes to OpenAI only (chat.c, chat_stream.c).         *)
ReplyIsIntact == part = "chat" => Chat!ReplyIsIntact

(* The weather shown as ready is of the place that is configured            *)
(* (weather.c, weather_http.c, weather_network.cpp).                        *)
WeatherIsOurs == part = "weather" => Weather!WeatherIsOurs
=============================================================================
