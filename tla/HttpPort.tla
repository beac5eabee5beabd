------------------------------ MODULE HttpPort ------------------------------
(***************************************************************************)
(* The HTTP file port: the Z80's side and the worker of http_io.c, the     *)
(* response parser http_stream.c, and the connection http_network.cpp      *)
(* keeps with lwIP.                                                        *)
(*                                                                         *)
(* A file name is one character and stands for its URL; the response is a  *)
(* sequence of items: header lines, chunk sizes, chunk delimiters and body *)
(* bytes.  Core 0's port operations are single steps: the one word they    *)
(* publish last is slot_state, and core 1 looks at the slot only while it  *)
(* is PENDING.  Core 1's service is split where it has read the session    *)
(* and not yet the slot.                                                   *)
(***************************************************************************)
EXTENDS Integers, Sequences, SequencesExt

CONSTANTS
  Files,        \* the names the Z80 asks for
  Response,     \* [Files -> Seq(items)]: what the server answers
  Location,     \* [Files -> Files \cup {Unusable}]: where a redirect leads
  Content,      \* [Files -> Seq(bytes)]: what is behind the name
  Unusable,     \* an HTTPS downgrade, or a location that is no URL
  BadNames,     \* the files whose URL does not parse
  NameMax,      \* Z80_HTTP_URL_MAX - 1
  ChunkMax,     \* sizeof(slot.data)
  RingMax,      \* sizeof(ring)
  WindowMax,    \* RECEIVE_MAX
  MaxRedirects, \* 5 in the code
  MaxSession, MaxNetworks \* bounds: sessions opened, network changes

VARIABLE http

-----------------------------------------------------------------------------
(* http_stream.c                                                            *)

(* What becomes of a name or of a redirect's location. *)
z80_http_url_parse(f) == f \notin BadNames
z80_http_url_redirect(f) == Location[f]

NewStream == [state |-> "STATUS", status |-> 0, have_length |-> FALSE, chunked |-> FALSE,
              remaining |-> 0, location |-> FALSE, done |-> FALSE, error |-> FALSE]

Fail(s) == [s EXCEPT !.error = TRUE]

(* The blank line that ends the headers or the trailers. *)
EndOfHeaders(s) ==
  CASE s.state = "TRAILERS" -> [s EXCEPT !.done = TRUE]
    [] s.state = "HEADERS" /\ s.have_length /\ s.chunked -> Fail(s)
    [] s.state = "HEADERS" /\ ~(s.have_length /\ s.chunked) /\ s.status = 100 -> NewStream
    [] s.state = "HEADERS" /\ ~(s.have_length /\ s.chunked) /\ s.status = 302 ->
         IF s.location THEN [s EXCEPT !.done = TRUE] ELSE Fail(s)
    [] s.state = "HEADERS" /\ ~(s.have_length /\ s.chunked) /\ s.status \in {200, 204} ->
         [s EXCEPT !.state = IF s.chunked THEN "CHUNK_SIZE"
                             ELSE IF s.have_length THEN "BODY_LENGTH" ELSE "BODY_CLOSE",
                   !.done = s.status = 204 \/ (s.have_length /\ s.remaining = 0)]
    [] OTHER -> Fail(s)

line(s, x) ==
  CASE s.state = "STATUS" ->
         IF x.kind = "status" THEN [s EXCEPT !.status = x.n, !.state = "HEADERS"] ELSE Fail(s)
    [] s.state = "CHUNK_SIZE" ->
         IF x.kind # "size" THEN Fail(s)
         ELSE [s EXCEPT !.remaining = x.n, !.state = IF x.n > 0 THEN "CHUNK_BODY" ELSE "TRAILERS"]
    [] s.state \in {"HEADERS", "TRAILERS"} /\ x.kind = "end" -> EndOfHeaders(s)
    [] s.state = "TRAILERS" /\ x.kind \in {"length", "chunked", "location"} -> s
    [] s.state = "HEADERS" /\ x.kind = "length" /\ ~s.have_length ->
         [s EXCEPT !.have_length = TRUE, !.remaining = x.n]
    [] s.state = "HEADERS" /\ x.kind = "chunked" /\ ~s.chunked -> [s EXCEPT !.chunked = TRUE]
    [] s.state = "HEADERS" /\ x.kind = "location" /\ ~s.location -> [s EXCEPT !.location = TRUE]
    [] OTHER -> Fail(s)

InBody(s) == s.state \in {"BODY_LENGTH", "BODY_CLOSE", "CHUNK_BODY"}

(* z80_http_stream_feed of one item that is consumed. *)
Feed(s, x) ==
  IF InBody(s) THEN
    LET left == IF s.state = "BODY_CLOSE" THEN s.remaining ELSE s.remaining - 1
        t == [s EXCEPT !.remaining = left]
    IN  CASE s.state = "BODY_LENGTH" /\ left = 0 -> [t EXCEPT !.done = TRUE]
          [] s.state = "CHUNK_BODY" /\ left = 0 -> [t EXCEPT !.state = "CHUNK_CR"]
          [] OTHER -> t
  ELSE IF s.state = "CHUNK_CR" THEN IF x.kind = "crlf" THEN [s EXCEPT !.state = "CHUNK_SIZE"]
                                                       ELSE Fail(s)
  ELSE line(s, x)

z80_http_stream_close(s) ==
  IF s.done \/ s.error THEN s
  ELSE IF s.state = "BODY_CLOSE" THEN [s EXCEPT !.done = TRUE] ELSE Fail(s)

-----------------------------------------------------------------------------
(* Core 0: the ports                                                        *)

ClearPort == [name |-> <<>>, length |-> 0, position |-> 0, status |-> "IDLE", final |-> "IDLE",
              collecting |-> FALSE, overflow |-> FALSE, want |-> FALSE]

Unread(h) == h.port.position < h.port.length

Deliver(h) ==
  LET n == IF h.slot.data = <<>> THEN 0 ELSE Len(h.slot.data) + 1
  IN  [h EXCEPT !.port = [h.port EXCEPT !.want = FALSE, !.length = n, !.position = 0,
                                        !.final = h.slot.status,
                                        !.status = IF n > 0 THEN "DATA_READY" ELSE h.slot.status],
                !.slot.state = IF n > 0 THEN "DONE" ELSE "IDLE"]

IsWanted(h) == h.port.want       \* mutant: the session is not compared

(* The finished slot is for this session, and this session waits for it. *)
IsOwn(h) == h.slot.session = h.session /\ h.port.want

pump(h) ==
  LET d == IF h.slot.state # "DONE" THEN h
           ELSE IF IsOwn(h) THEN Deliver(h) ELSE [h EXCEPT !.slot.state = "IDLE"]
  IN  IF d.slot.state = "IDLE" /\ d.port.want
        THEN [d EXCEPT !.slot.state = "PENDING", !.slot.session = d.session,
                       !.slot.name = d.port.name]
        ELSE d

(* SET_FILENAME and CLOSE leave whatever core 1 is doing to a past session. *)
NewSession ==
  \E collecting \in BOOLEAN :
    /\ http.session < MaxSession
    /\ http' = pump([http EXCEPT !.session = @ + 1, !.got = <<>>,
                                 !.port = [ClearPort EXCEPT !.collecting = collecting]])

request_chunk ==
  LET p == http.port
  IN  /\ ~p.want /\ ~Unread(http)
      /\ http' =
           IF p.collecting \/ p.overflow \/ p.name = <<>> \/ p.status = "ERROR"
             THEN [http EXCEPT !.port.status = "ERROR"]
           ELSE IF p.status = "EOF" THEN http
           ELSE pump([http EXCEPT !.port.want = TRUE, !.port.status = "BUSY"])

NameByte(f) ==
  /\ http.port.collecting
  /\ http' = IF Len(http.port.name) < NameMax /\ ~http.port.overflow
               THEN [http EXCEPT !.port.name = Append(@, f)]
               ELSE [http EXCEPT !.port.overflow = TRUE, !.port.status = "ERROR"]

NameEnd ==
  /\ http.port.collecting
  /\ http' = [http EXCEPT !.port.collecting = FALSE,
                          !.port.status = IF http.port.overflow \/ http.port.name = <<>>
                                            THEN "ERROR" ELSE @]

(* A read of a port: "got" are the data bytes of this session.  The first   *)
(* byte of a chunk is its length.                                           *)
z80_http_io_in(data) ==
  LET h == IF Unread(http) THEN http ELSE pump(http)
      p == h.port.position
      last == p + 1 = h.port.length
  IN  http' =
        IF ~data \/ ~Unread(h) THEN h
        ELSE [h EXCEPT !.port.position = p + 1,
                       !.got = IF p = 0 THEN @ ELSE Append(@, h.slot.data[p]),
                       !.port.status = IF last THEN h.port.final ELSE @,
                       !.slot.state = IF last THEN "IDLE" ELSE @]

Z80 == NewSession \/ request_chunk \/ (\E f \in Files : NameByte(f)) \/ NameEnd
       \/ \E data \in BOOLEAN : z80_http_io_in(data)

-----------------------------------------------------------------------------
(* Core 1: the connection                                                   *)

NoNet == [active |-> FALSE, client |-> FALSE, ready |-> FALSE, asked |-> FALSE,
          pending |-> <<>>, rest |-> <<>>, closed |-> FALSE, failure |-> FALSE]

(* cancel moves the generation on: a lookup still under way carries an old  *)
(* one from then on.  The connection's callbacks are taken off.             *)
Stale(tokens) == IF tokens = {} THEN {} ELSE {"stale"}

cancel(h) ==
  [h EXCEPT !.net = [h.net EXCEPT !.active = FALSE, !.client = FALSE,
                                  !.pending = <<>>, !.rest = <<>>],
            !.lookups = Stale(@)]

cancel_backend(h) ==
  IF h.worker.running THEN [cancel(h) EXCEPT !.worker.running = FALSE] ELSE h

(* start: DNS is asked unless the request or the TLS setup is impossible.   *)
start(h, fails) ==
  LET c == cancel(h)
  IN  [c EXCEPT !.net = [NoNet EXCEPT !.active = TRUE, !.failure = fails],
                !.lookups = IF fails THEN @ ELSE @ \cup {"current"}]

current(h, token) == h.net.active /\ token = "current"

(* A lookup ends, for the request under way or for one cancelled long ago.  *)
resolved(token) ==
  /\ token \in http.lookups
  /\ LET h == [http EXCEPT !.lookups = @ \ {token}]
     IN  http' \in IF ~current(http, token) \/ http.net.failure \/ ~http.worker.active THEN {h}
                   ELSE {[h EXCEPT !.net.failure = TRUE], [h EXCEPT !.net.client = TRUE]}

connected ==
  /\ http.net.client /\ ~http.net.ready
  /\ http' \in {[http EXCEPT !.net.ready = TRUE], [http EXCEPT !.net.failure = TRUE]}

socket_error ==
  /\ http.net.client
  /\ http' = [http EXCEPT !.net.client = FALSE, !.net.failure = TRUE]

(* TCP credit is given back as pending is consumed, so WindowMax holds. *)
receive ==
  LET n == http.net
  IN  /\ n.client /\ n.asked /\ ~n.failure
      /\ \/ /\ n.rest # <<>> /\ Len(n.pending) < WindowMax
            /\ http' = [http EXCEPT !.net.pending = Append(@, Head(n.rest)), !.net.rest = Tail(@)]
         \/ /\ n.rest = <<>> /\ ~n.closed
            /\ http' = [http EXCEPT !.net.closed = TRUE]

Callbacks == (\E token \in http.lookups : resolved(token)) \/ connected \/ socket_error \/ receive

-----------------------------------------------------------------------------
(* Core 1: the worker                                                       *)

z80_http_io_error(h) == [h EXCEPT !.worker.stream = Fail(@), !.worker.active = FALSE]

(* A changed session drops whatever the last one left. *)
Restart(h) ==
  IF h.current = h.worker.session THEN h
  ELSE LET c == cancel_backend(h)
       IN  [c EXCEPT !.worker = [session |-> h.current, opened |-> FALSE, active |-> FALSE,
                                 running |-> FALSE, redirects |-> 0, target |-> Unusable,
                                 error |-> "ERROR", network |-> @.network, ring |-> <<>>,
                                 stream |-> NewStream]]

CheckNetwork(h) ==
  IF h.worker.active /\ (~h.online \/ h.worker.network # h.networks)
    THEN z80_http_io_error(h) ELSE h

(* A finished response ends the transfer, or redirects it. *)
Finish(h, fails) ==
  LET c == cancel_backend(h)
      w == h.worker
      to == z80_http_url_redirect(w.target)
  IN  IF ~(w.active /\ w.stream.done) THEN h
      ELSE IF w.stream.status < 300 THEN [c EXCEPT !.worker.active = FALSE]
      ELSE IF w.redirects + 1 > MaxRedirects \/ to = Unusable THEN z80_http_io_error(c)
      ELSE start([c EXCEPT !.worker.redirects = @ + 1, !.worker.target = to,
                           !.worker.stream = NewStream, !.worker.running = TRUE], fails)

CancelFailed(h) ==
  IF ~h.worker.active /\ h.worker.stream.error THEN cancel_backend(h) ELSE h

(* A name without a scheme needs HTTP_BASE_URL. *)
load_target(f, base) ==
  IF ~base THEN "MISSING_BASE_URL" ELSE IF z80_http_url_parse(f) THEN "OK" ELSE "INVALID"

(* The first chunk of a session opens the file. *)
Open(h, base, fails) ==
  LET o == [h EXCEPT !.worker.opened = TRUE, !.worker.network = h.networks]
      f == h.slot.name[1]
      found == load_target(f, base)
  IN  IF h.worker.opened THEN h
      ELSE IF ~h.online \/ found = "INVALID" THEN z80_http_io_error(o)
      ELSE IF found = "MISSING_BASE_URL" THEN
        [z80_http_io_error(o) EXCEPT !.worker.error = "MISSING_BASE_URL"]
      ELSE start([o EXCEPT !.worker.active = TRUE, !.worker.running = TRUE,
                           !.worker.target = f], fails)

Done(h, data, status) ==
  [h EXCEPT !.slot.state = "DONE", !.slot.data = data, !.slot.status = status]

(* A chunk is full, or it is the last one. *)
Fill(h) ==
  LET w == h.worker
      ended == ~w.active /\ w.stream.done
      n == IF Len(w.ring) < ChunkMax THEN Len(w.ring) ELSE ChunkMax
      rest == SubSeq(w.ring, n + 1, Len(w.ring))
  IN  IF w.stream.error THEN Done([h EXCEPT !.worker.ring = <<>>], <<>>, w.error)
      ELSE IF Len(w.ring) < ChunkMax /\ ~ended THEN h
      ELSE Done([h EXCEPT !.worker.ring = rest], SubSeq(w.ring, 1, n),
                IF ended /\ rest = <<>> THEN "EOF" ELSE "IDLE")

z80_http_io_core1_service(h, base, fails) ==
  LET s == CancelFailed(Finish(CheckNetwork(Restart(h)), fails))
  IN  IF s.slot.state # "PENDING" THEN s
      ELSE IF s.slot.session # h.current THEN Done(s, <<>>, "IDLE")
      ELSE Fill(Open(s, base, fails))

(* z80_http_network_service: the worker, the connection, the worker again.  *)
At(pc) == http.pc = pc

ReadSession ==
  \/ At("top") /\ http' = [http EXCEPT !.current = http.session, !.pc = "serve"]
  \/ At("again") /\ http' = [(IF http.net.failure THEN z80_http_io_error(http) ELSE http)
                               EXCEPT !.current = http.session, !.pc = "finish"]

Serve ==
  \E base, fails \in BOOLEAN :
    LET h == z80_http_io_core1_service(http, base, fails)
    IN  \/ At("serve") /\ http' = [h EXCEPT !.pc = IF h.net.active THEN "net" ELSE "top"]
        \/ At("finish") /\ http' = [h EXCEPT !.pc = "top"]

(* z80_http_io_receive of one item: a full ring consumes nothing. *)
Receive(h) ==
  LET w == h.worker
      x == Head(h.net.pending)
      full == InBody(w.stream) /\ Len(w.ring) = RingMax
      s == Feed(w.stream, x)
      t == [h EXCEPT !.worker.stream = s, !.net.pending = Tail(@),
                     !.worker.active = @ /\ ~s.error,
                     !.worker.ring = IF InBody(w.stream) THEN Append(@, x) ELSE @]
  IN  IF ~w.active \/ w.stream.done \/ w.stream.error \/ full THEN h ELSE t

RemoteClose(h) ==
  LET s == z80_http_stream_close(h.worker.stream)
  IN  [h EXCEPT !.worker.stream = s, !.worker.active = @ /\ ~s.error]

(* Under the lwIP lock: the idle timeout, the request, one item, the close. *)
Network ==
  /\ At("net")
  /\ \E late, refused \in BOOLEAN :
       LET n == http.net
           timeout == late /\ n.pending = <<>>
           h == CASE n.failure -> http
                  [] ~n.failure /\ timeout -> [http EXCEPT !.net.failure = TRUE]
                  [] ~n.failure /\ ~timeout /\ n.client /\ n.ready /\ ~n.asked ->
                       IF refused THEN [http EXCEPT !.net.failure = TRUE]
                       ELSE [http EXCEPT !.net.asked = TRUE,
                                         !.net.rest = Response[http.worker.target]]
                  [] OTHER -> http
           r == IF ~h.net.failure /\ h.net.pending # <<>> THEN Receive(h) ELSE h
       IN  http' = [(IF ~r.net.failure /\ r.net.closed /\ r.net.pending = <<>>
                       THEN RemoteClose(r) ELSE r) EXCEPT !.pc = "again"]

NetworkChanges ==
  /\ At("top") /\ http.networks < MaxNetworks
  /\ \/ http' = [http EXCEPT !.online = ~@]
     \/ http' = [http EXCEPT !.networks = @ + 1]

Core1 == ReadSession \/ Serve \/ Network

Init ==
  http = [session |-> 1, port |-> ClearPort, got |-> <<>>,
          slot |-> [state |-> "IDLE", session |-> 0, name |-> <<>>, data |-> <<>>,
                    status |-> "IDLE"],
          worker |-> [session |-> 0, opened |-> FALSE, active |-> FALSE, running |-> FALSE,
                      redirects |-> 0, target |-> Unusable, error |-> "ERROR", network |-> 0,
                      ring |-> <<>>, stream |-> NewStream],
          net |-> NoNet, lookups |-> {}, online |-> FALSE, networks |-> 0,
          pc |-> "top", current |-> 0]

Next == Z80 \/ Callbacks \/ Core1 \/ NetworkChanges

-----------------------------------------------------------------------------
(* What the Z80 has read since it set a name is the beginning of that file, *)
(* nothing of a session it cancelled and nothing twice; and all of it when  *)
(* the port says EOF.                                                       *)
FileIsIntact ==
  LET p == http.port
  IN  /\ http.got # <<>> => p.name # <<>> /\ IsPrefix(http.got, Content[p.name[1]])
      /\ p.status = "EOF" => http.got = Content[p.name[1]]
=============================================================================
