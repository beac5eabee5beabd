---------------------------- MODULE ChatService ----------------------------
(***************************************************************************)
(* The chat service: the operations of chat.c, the event-stream parser     *)
(* chat_stream.c and the connection of chat_network.cpp.                   *)
(*                                                                         *)
(* All of it runs on core 1; lwIP's callbacks come between its steps.  The *)
(* response is a sequence of items: a header line, a line of the body, a   *)
(* chunk size or a chunk delimiter.  An event is the leaves of its JSON    *)
(* value, each with its path.  The text of an error is one character.      *)
(***************************************************************************)
EXTENDS Integers, Sequences, SequencesExt, FiniteSets, FiniteSetsExt

CONSTANTS
  Parts,        \* the pieces a request is written in
  Reply,        \* [request -> Seq(items)]: what the server answers
  Content,      \* [request -> Seq(characters)]: the text in that answer
  Settings,     \* the settings tried: [provider, key, endpoint]
  RequestMax,   \* Z80_CHAT_REQUEST_MAX - 1, in parts
  RingMax,      \* Z80_CHAT_RESPONSE_BYTES
  Error,        \* the text of an error
  MaxStarts, MaxNetworks \* bounds: requests started, network changes

VARIABLE chat

-----------------------------------------------------------------------------
(* chat_stream.c                                                            *)

z80_chat_stream_init ==
  [phase |-> "STATUS_LINE", chunk_phase |-> "CHUNK_SIZE", chunked |-> FALSE, have_length |-> FALSE,
   remaining |-> 0, chunk_size |-> 0, event_stream |-> FALSE, text |-> <<>>, done |-> FALSE,
   error |-> FALSE]

Fail(s) == [s EXCEPT !.error = TRUE]

ContentPath == <<"choices", 0, "delta", "content">>

Captured(leaves) == SelectSeq(leaves, LAMBDA x : x.path = ContentPath)

(* value: the whole event is checked, one text is taken from it. *)
event(s, x) ==
  LET found == Captured(x.leaves)
      provider_error == \E i \in DOMAIN x.leaves : x.leaves[i].path = <<"error">>
  IN  IF ~x.wellformed \/ Len(found) > 1 \/ provider_error
        THEN [Fail(s) EXCEPT !.text = <<>>]
        ELSE [s EXCEPT !.text = IF found = <<>> THEN <<>> ELSE found[1].text]

header(s, x) ==
  CASE x.name = "chunked" -> IF s.chunked \/ s.have_length THEN Fail(s) ELSE [s EXCEPT !.chunked = TRUE]
    [] x.name = "length" -> IF s.chunked \/ s.have_length THEN Fail(s)
                            ELSE [s EXCEPT !.have_length = TRUE, !.remaining = x.n]
    [] x.name = "type" -> [s EXCEPT !.event_stream = TRUE]
    [] x.name = "other" -> s
    [] OTHER -> Fail(s)

line(s, x) ==
  CASE s.phase = "STATUS_LINE" ->
         IF x.kind = "status" /\ x.n = 200 THEN [s EXCEPT !.phase = "HEADERS"] ELSE Fail(s)
    [] s.phase = "HEADERS" ->
         IF x.kind = "header" THEN header(s, x)
         ELSE IF s.event_stream THEN [s EXCEPT !.phase = "BODY"] ELSE Fail(s)
    [] s.phase = "BODY" /\ s.chunked /\ s.chunk_phase = "TRAILERS" ->
         IF x.kind = "blank" THEN Fail(s) ELSE s
    [] OTHER ->
         CASE x.kind = "event" -> event(s, x)
           [] x.kind = "done" -> [s EXCEPT !.done = TRUE]
           [] OTHER -> s

(* One item of the body of known length. *)
Counted(s, x) ==
  LET l == line(s, x)
      n == s.remaining - 1
  IN  IF s.remaining = 0 \/ (n = 0 /\ ~l.done) THEN [Fail(l) EXCEPT !.remaining = 0]
      ELSE [l EXCEPT !.remaining = n]

Chunk(s, x) ==
  CASE s.chunk_phase = "CHUNK_SIZE" ->
         IF x.kind # "size" THEN Fail(s)
         ELSE [s EXCEPT !.chunk_size = x.n,
                        !.chunk_phase = IF x.n > 0 THEN "CHUNK_DATA" ELSE "TRAILERS"]
    [] s.chunk_phase = "CHUNK_DATA" ->
         [line(s, x) EXCEPT !.chunk_size = @ - 1,
                            !.chunk_phase = IF s.chunk_size = 1 THEN "CHUNK_CR" ELSE @]
    [] s.chunk_phase = "CHUNK_CR" ->
         IF x.kind = "delimiter" THEN [s EXCEPT !.chunk_phase = "CHUNK_SIZE"] ELSE Fail(s)
    [] OTHER -> line(s, x)

Feed(s, x) ==
  CASE s.phase # "BODY" \/ ~(s.chunked \/ s.have_length) -> line(s, x)
    [] s.phase = "BODY" /\ s.chunked -> Chunk(s, x)
    [] OTHER -> Counted(s, x)

-----------------------------------------------------------------------------
(* chat.c                                                                   *)

z80_chat_error(c) ==
  [c EXCEPT !.active = FALSE, !.error = IF c.failed THEN @ ELSE Error, !.failed = TRUE]

clear_response(c) == [c EXCEPT !.ring = <<>>, !.error = <<>>, !.failed = FALSE]

DrainLossy(c) ==         \* mutant: a full ring drops the rest of the text
  LET n == Min({Len(c.stream.text), RingMax - Len(c.ring)})
  IN  IF c.stream.error THEN c
      ELSE [c EXCEPT !.ring = @ \o SubSeq(c.stream.text, 1, n), !.stream.text = <<>>]

(* As much of the text as the ring takes. *)
Drain(c) ==
  LET n == Min({Len(c.stream.text), RingMax - Len(c.ring)})
      t == c.stream.text
  IN  IF c.stream.error THEN c
      ELSE [c EXCEPT !.ring = @ \o SubSeq(t, 1, n), !.stream.text = SubSeq(t, n + 1, Len(t))]

(* z80_chat_receive of no data, or of one item. *)
Fed(c, items) ==
  IF items # <<>> /\ c.stream.text = <<>> /\ ~c.stream.error /\ ~c.stream.done
  THEN Drain([c EXCEPT !.stream = Feed(@, Head(items)), !.net.pending = Tail(@)])
  ELSE c
Concluded(c) == IF c.stream.error THEN z80_chat_error(c)
                ELSE IF c.stream.done THEN [c EXCEPT !.active = FALSE] ELSE c
z80_chat_receive(c, items) == IF c.active THEN Concluded(Fed(Drain(c), items)) ELSE c

(* load_settings: a key for OpenAI only, an endpoint for the others only. *)
Usable(s) ==
  \/ s.provider \in {"", "openai"} /\ s.key = "key"
  \/ s.provider \in {"compatible", "ollama"} /\ s.endpoint # "bad"

Endpoint(s) == IF s.provider \in {"", "openai"} THEN [key |-> s.key, host |-> "openai"]
               ELSE [key |-> "", host |-> s.endpoint]

-----------------------------------------------------------------------------
(* chat_network.cpp                                                         *)

NoNet == [active |-> FALSE, client |-> FALSE, ready |-> FALSE, sent |-> FALSE,
          pending |-> <<>>, rest |-> <<>>, closed |-> FALSE, failure |-> FALSE]

release_client(n) == [n EXCEPT !.client = FALSE, !.pending = <<>>, !.rest = <<>>]

(* A lookup under way carries an old generation from then on. *)
Stale(tokens) == IF tokens = {} THEN {} ELSE {"stale"}

cancel(c) ==
  [c EXCEPT !.lookups = Stale(@), !.net = [release_client(@) EXCEPT !.active = FALSE]]

start(c, s, fails) ==
  LET k == cancel(c)
  IN  [k EXCEPT !.net = [NoNet EXCEPT !.active = TRUE, !.failure = fails],
                !.endpoint = Endpoint(s),
                !.lookups = IF fails THEN @ ELSE @ \cup {"current"}]

current(c, token) == c.net.active /\ token = "current"

resolved(token) ==
  LET c == [chat EXCEPT !.lookups = @ \ {token}]
  IN  /\ token \in chat.lookups
      /\ chat' \in IF ~current(chat, token) \/ chat.net.failure \/ ~chat.active THEN {c}
                   ELSE {[c EXCEPT !.net.failure = TRUE], [c EXCEPT !.net.client = TRUE]}

connected ==
  /\ chat.net.client /\ ~chat.net.ready
  /\ chat' \in {[chat EXCEPT !.net.ready = TRUE], [chat EXCEPT !.net.failure = TRUE]}

socket_error ==
  /\ chat.net.client
  /\ chat' = [chat EXCEPT !.net.client = FALSE, !.net.failure = TRUE]

(* While one chain is pending lwIP keeps the next. *)
receive ==
  LET n == chat.net
  IN  /\ n.client /\ n.sent
      /\ \/ /\ n.rest # <<>> /\ n.pending = <<>>
            /\ chat' = [chat EXCEPT !.net.pending = <<Head(n.rest)>>, !.net.rest = Tail(@)]
         \/ /\ n.rest = <<>> /\ ~n.closed
            /\ chat' = [chat EXCEPT !.net.closed = TRUE]

Callbacks == (\E token \in chat.lookups : resolved(token)) \/ connected \/ socket_error \/ receive

z80_chat_network_poll(c, connected_, generation) ==
  LET lost == c.active /\ (~connected_ \/ generation # c.network)
      k == IF lost THEN z80_chat_error(cancel(c)) ELSE c
  IN  z80_chat_receive([k EXCEPT !.online = connected_, !.network = generation], <<>>)

(* The request is written from the request buffer; the server answers it.   *)
send_request(c, refused) ==
  IF ~c.net.ready \/ c.net.sent THEN c
  ELSE IF refused THEN [c EXCEPT !.net.failure = TRUE]
  ELSE [c EXCEPT !.net.sent = TRUE, !.net.rest = Reply[c.request]]

Live(c) == c.active /\ ~c.net.failure
Expire(c, late) == IF Live(c) /\ late THEN [c EXCEPT !.net.failure = TRUE] ELSE c
Send(c, refused) == IF Live(c) /\ c.net.client THEN send_request(c, refused) ELSE c
Receive(c) == IF Live(c) /\ c.net.pending # <<>> THEN z80_chat_receive(c, c.net.pending) ELSE c
NoticeClose(c) == IF Live(c) /\ c.net.closed /\ c.net.pending = <<>>
                  THEN [c EXCEPT !.net.failure = TRUE] ELSE c
ReportFailure(c) == IF c.net.failure /\ c.active THEN z80_chat_error(c) ELSE c
Retire(c) == IF c.active THEN c
             ELSE [c EXCEPT !.net = [release_client(@) EXCEPT !.active = FALSE]]
Serviced(c, late, refused) ==
  IF c.net.active
  THEN Retire(ReportFailure(NoticeClose(Receive(Send(Expire(c, late), refused)))))
  ELSE c

Service ==
  \E late, refused \in BOOLEAN :
    chat' = Serviced(z80_chat_network_poll(chat, chat.link, chat.links), late, refused)

-----------------------------------------------------------------------------
(* z80_chat_service: one action per operation.  "asked" and "read" are the   *)
(* request started last, unless it was cancelled, and what was read of its  *)
(* answer.                                                                  *)

ResetRequest == chat' = [cancel(chat) EXCEPT !.active = FALSE, !.request = <<>>, !.asked = <<>>]

WriteRequest(p) ==
  /\ ~chat.active /\ Len(chat.request) < RequestMax
  /\ chat' = [chat EXCEPT !.request = Append(@, p)]

ResetResponse == chat' = [clear_response(cancel(chat)) EXCEPT !.active = FALSE, !.asked = <<>>]

Start(s, fails) ==
  LET c == [clear_response(chat) EXCEPT !.stream = z80_chat_stream_init, !.asked = chat.request,
                                        !.read = <<>>, !.starts = @ + 1]
  IN  /\ ~chat.active /\ chat.request # <<>> /\ chat.starts < MaxStarts
      /\ chat' = IF ~chat.online \/ ~Usable(s) THEN z80_chat_error(c)
                 ELSE start([c EXCEPT !.active = TRUE], s, fails)

Status(c) == IF c.ring # <<>> \/ c.error # <<>> THEN "DATA_READY"
             ELSE IF c.active THEN "WAITING" ELSE "EOF"

Read(max) ==
  LET all == chat.ring \o chat.error
      n == Min({max, Len(all)})
      r == Min({n, Len(chat.ring)})
  IN  chat' = [chat EXCEPT !.ring = SubSeq(@, r + 1, Len(@)),
                           !.error = SubSeq(@, n - r + 1, Len(@)),
                           !.read = IF chat.asked = <<>> THEN @ ELSE @ \o SubSeq(all, 1, n)]

LinkChanges ==
  /\ chat.links < MaxNetworks
  /\ \/ chat' = [chat EXCEPT !.link = ~@]
     \/ chat' = [chat EXCEPT !.links = @ + 1]

Init ==
  chat = [stream |-> z80_chat_stream_init, request |-> <<>>, ring |-> <<>>, error |-> <<>>,
          failed |-> FALSE, active |-> FALSE, online |-> FALSE, network |-> 0,
          net |-> NoNet, lookups |-> {}, endpoint |-> [key |-> "", host |-> ""],
          link |-> FALSE, links |-> 0, asked |-> <<>>, read |-> <<>>, starts |-> 0]

Next ==
  \/ ResetRequest \/ (\E p \in Parts : WriteRequest(p)) \/ ResetResponse
  \/ \E s \in Settings, fails \in BOOLEAN : Start(s, fails)
  \/ \E max \in 1 .. 2 : Read(max)
  \/ Service \/ Callbacks \/ LinkChanges

-----------------------------------------------------------------------------
(* What is read after a request was started is the text of the answer to    *)
(* that request, in order and with nothing lost while the ring was full; it  *)
(* ends complete, or with an error's text; and the key goes to OpenAI alone. *)
ReplyIsIntact ==
  LET text == IF chat.asked = <<>> THEN <<>> ELSE Content[chat.asked]
      read == SelectSeq(chat.read, LAMBDA x : <<x>> # Error)
      failed == \E i \in DOMAIN chat.read : <<chat.read[i]>> = Error
  IN  /\ chat.asked # <<>> => IsPrefix(read, text)
      /\ failed => <<Last(chat.read)>> = Error
      /\ chat.asked # <<>> /\ Status(chat) = "EOF" /\ ~failed => read = text
      /\ chat.endpoint.key # "" => chat.endpoint.host = "openai"
=============================================================================
