------------------------------ MODULE HostChat ------------------------------
(***************************************************************************)
(* The chat ports of the debug host: host_chat_io.c.  The target's calls   *)
(* come from the host's thread, every request has a worker thread of its   *)
(* own, and workers of abandoned requests run on.  Every section under     *)
(* ring.lock or worker_lock is one step.  A reply is a sequence of tokens; *)
(* a message of the driver's own is one token.                             *)
(***************************************************************************)
EXTENDS Integers, Sequences, SequencesExt

CONSTANTS
  Configs,     \* [key : BOOLEAN, provider, endpoint : BOOLEAN]: CHAT_* in the store
  Wires,       \* the bodies a server may send: sequences of tokens
  RequestMax,  \* CHAT_REQUEST_MAX - 1
  RingMax,     \* CHAT_RING_SIZE - 1
  LineMax,     \* CHAT_SSE_LINE_MAX - 1
  MaxRequests  \* bound: how many generations the ring has

VARIABLE hc

Generations == 1..MaxRequests
Idle == [at |-> "none", wire |-> <<>>, sent |-> 0, line |-> <<>>, over |-> FALSE,
         puts |-> <<>>]

Init == \E c \in Configs :
  hc = [config |-> c, url |-> IF c.provider = "compatible" /\ c.endpoint
                              THEN "endpoint" ELSE "openai",
        buf |-> <<>>, generation |-> 0, overflow |-> FALSE, eof |-> FALSE,
        request |-> 0, requestOverflow |-> FALSE,
        workers |-> [g \in Generations |-> Idle],
        active |-> 0, closing |-> FALSE, closed |-> FALSE,
        read |-> <<>>, status |-> "none"]

-----------------------------------------------------------------------------
(* The ring.                                                                *)

ring_put_locked(h, b, force) ==
  LET full == Len(h.buf) = RingMax IN
  CASE ~full          -> [h EXCEPT !.buf = Append(@, b)]
    [] full /\ force  -> [h EXCEPT !.buf = Append(Tail(@), b), !.overflow = TRUE]
    [] full /\ ~force -> [h EXCEPT !.overflow = TRUE]

ring_reset(h) ==
  [h EXCEPT !.buf = <<>>, !.generation = @ + 1, !.overflow = FALSE, !.eof = FALSE]

ring_put_any(h, g, b) == ring_put_locked(h, b, FALSE)    \* mutant: whoever puts

ring_put(h, g, b) == IF g = h.generation THEN ring_put_locked(h, b, FALSE) ELSE h

ring_set_eof(h, g) ==
  IF g # h.generation THEN h
  ELSE [(IF h.overflow THEN ring_put_locked(h, "truncated", TRUE) ELSE h)
          EXCEPT !.overflow = FALSE, !.eof = TRUE]

ring_status(h) ==
  IF h.buf # <<>> THEN "data" ELSE IF h.eof THEN "eof" ELSE "waiting"

-----------------------------------------------------------------------------
(* The body.  "\r" is skipped, "\n" ends a line, "data:" opens one of       *)
(* interest and "content" a string in it; "..." is an ellipsis, which three *)
(* bytes stand for, and "?" a character that has no replacement.            *)

Controls == {"\r", "\n", "data:", "content", "quote", "[DONE]"}

emit_codepoint(t) ==
  CASE t = "..." -> <<".", ".", ".">> [] t = "?" -> <<>> [] OTHER -> <<t>>

(* emit_json_string: from every "content" marker to the next quote.         *)
process_sse_line(line) ==
  LET inside(i) == \E m \in 1..(i - 1) : /\ line[m] = "content"
                                         /\ \A k \in m..i : line[k] # "quote"
      text == SelectSeq([i \in 1..Len(line) |-> <<i, line[i]>>],
                        LAMBDA x : inside(x[1]) /\ x[2] \notin Controls)
  IN IF line = <<>> \/ line[1] # "data:" \/ (Len(line) = 2 /\ line[2] = "[DONE]")
     THEN <<>> ELSE FlattenSeq([i \in 1..Len(text) |-> emit_codepoint(text[i][2])])

(* One character of curl_write_cb.                                          *)
LineBuffer(w, c) ==
  CASE c = "\r" -> w
    [] c = "\n" -> [w EXCEPT !.line = <<>>, !.over = FALSE,
                             !.puts = IF w.over THEN <<>> ELSE process_sse_line(w.line)]
    [] c \notin {"\r", "\n"} /\ Len(w.line) < LineMax -> [w EXCEPT !.line = Append(@, c)]
    [] OTHER -> [w EXCEPT !.over = TRUE]

-----------------------------------------------------------------------------
(* chat_worker                                                              *)

Worker(h, g, at) == [h EXCEPT !.workers[g].at = at]
At(g, at) == hc.workers[g].at = at

(* What arrives up to the end of a line: the line buffer is the worker's.   *)
curl_write_cb(g) == LET w    == hc.workers[g]
                        left == SubSeq(w.wire, w.sent + 1, Len(w.wire))
                        n    == SelectInSeq(left, LAMBDA t : t = "\n") IN
  /\ At(g, "stream") /\ w.puts = <<>> /\ left # <<>>
  /\ LET took == IF n = 0 THEN Len(left) ELSE n IN
     hc' = [hc EXCEPT !.workers[g] =
       [FoldLeft(LineBuffer, w, SubSeq(left, 1, took)) EXCEPT !.sent = @ + took]]

put(g) == LET w == hc.workers[g] IN
  /\ At(g, "stream") /\ w.puts # <<>>
  /\ hc' = [ring_put(hc, g, Head(w.puts)) EXCEPT !.workers[g].puts = Tail(@)]

curl_easy_perform(g) == LET w == hc.workers[g] IN
  /\ At(g, "stream") /\ w.puts = <<>>
  /\ \/ w.sent = Len(w.wire) /\ hc' = Worker(hc, g, "eof")   \* HTTP 200
     \/ w.sent = Len(w.wire) /\ hc' = Worker(ring_put(hc, g, "http error"), g, "eof")
     \/ hc' = Worker(ring_put(hc, g, "failed"), g, "eof")    \* time-out, closing

(* curl_easy_init or a header fails                                         *)
startFails(g) == /\ At(g, "start")
  /\ hc' = Worker(ring_put(hc, g, "no memory"), g, "eof")

start(g) == /\ At(g, "start") /\ hc' = Worker(hc, g, "stream")

setEof(g) == /\ At(g, "eof") /\ hc' = Worker(ring_set_eof(hc, g), g, "finish")

chat_worker_finished(g) == /\ At(g, "finish")
  /\ hc' = [Worker(hc, g, "none") EXCEPT !.active = @ - 1]

chat_worker(g) == \/ startFails(g) \/ start(g) \/ curl_write_cb(g) \/ put(g)
                  \/ curl_easy_perform(g) \/ setEof(g) \/ chat_worker_finished(g)

-----------------------------------------------------------------------------
(* The target's ports; its calls end when the host closes the adapter.      *)

Refused(h, message) == LET g == h.generation IN
  ring_set_eof(ring_put(h, g, message), g)

trigger_request == /\ ~hc.closing /\ hc.generation < MaxRequests
  /\ LET h == [ring_reset(hc) EXCEPT !.read = <<>>, !.status = "none"]
         g == h.generation IN
     IF hc.requestOverflow \/ hc.request = 0 THEN hc' = Refused(h, "buffer error")
     ELSE IF ~hc.config.key /\ hc.config.provider # "compatible"
     THEN hc' = Refused(h, "no key")
     ELSE \/ hc' = Refused(h, "no memory")              \* malloc, pthread_create
          \/ \E wire \in Wires :
               hc' = [h EXCEPT !.active = @ + 1,
                        !.workers[g] = [Idle EXCEPT !.at = "start", !.wire = wire]]

reset_request == /\ ~hc.closing /\ (hc.request # 0 \/ hc.requestOverflow)
  /\ hc' = [hc EXCEPT !.request = 0, !.requestOverflow = FALSE]

request_add_char == /\ ~hc.closing /\ ~hc.requestOverflow
  /\ hc' = IF hc.request < RequestMax THEN [hc EXCEPT !.request = @ + 1]
           ELSE [hc EXCEPT !.requestOverflow = TRUE]

reset_response == /\ ~hc.closing /\ hc.generation < MaxRequests
  /\ hc' = [ring_reset(hc) EXCEPT !.read = <<>>, !.status = "none"]

input_status == /\ ~hc.closing /\ hc' = [hc EXCEPT !.status = ring_status(hc)]

input_data == /\ ~hc.closing /\ hc.status = "data"
  /\ hc' = [hc EXCEPT !.read = Append(@, Head(hc.buf)), !.buf = Tail(@),
                      !.status = "none"]

chat_io_close == /\ ~hc.closing /\ hc' = [hc EXCEPT !.closing = TRUE]

(* the wait for worker_cond                                                 *)
closed == /\ hc.closing /\ ~hc.closed /\ hc.active = 0
  /\ hc' = [hc EXCEPT !.closed = TRUE]

Next == \/ trigger_request \/ reset_request \/ request_add_char \/ reset_response
        \/ input_status \/ input_data \/ chat_io_close \/ closed
        \/ \E g \in Generations : chat_worker(g)

-----------------------------------------------------------------------------
(* The whole answer, by its definition: the strings of every line that fits.*)
Messages == {"truncated", "http error", "failed", "no memory", "buffer error", "no key"}

LinesOf(wire) == LET ends == {0} \cup {i \in 1..Len(wire) : wire[i] = "\n"} IN
  [i \in 1..Len(wire) |-> IF wire[i] # "\n" THEN <<>>
     ELSE LET first == CHOOSE e \in ends : e < i /\ \A o \in ends : o < i => o <= e
          IN SelectSeq(SubSeq(wire, first + 1, i - 1), LAMBDA t : t # "\r")]

Answer(wire) == LET lines == SelectSeq(LinesOf(wire), LAMBDA l : Len(l) <= LineMax) IN
  FlattenSeq([i \in 1..Len(lines) |-> process_sse_line(lines[i])])

(* A target that polls STATUS before DATA and sees EOF has read the whole   *)
(* answer to its latest request, or a message at its end says why not; what *)
(* it has read before comes from that answer in order, however many workers *)
(* of older requests still run.  When chat_io_close returns, none does.     *)
HostReplyIsWhole ==
  LET g      == hc.generation
      answer == IF g = 0 THEN <<>> ELSE Answer(hc.workers[g].wire)
      text   == SelectSeq(hc.read, LAMBDA t : t \notin Messages)
      Kept(S) == LET at == SetToSortSeq(S, <) IN [i \in 1..Len(at) |-> answer[at[i]]]
  IN /\ \E S \in SUBSET (1..Len(answer)) : text = Kept(S)
     /\ hc.status = "eof" => \/ hc.read = answer
                             \/ hc.read # <<>> /\ Last(hc.read) \in Messages
     /\ hc.closed => \A w \in Generations : hc.workers[w].at = "none"
=============================================================================
