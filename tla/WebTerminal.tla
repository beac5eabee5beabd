----------------------------- MODULE WebTerminal -----------------------------
(***************************************************************************)
(* The browser terminal: the acknowledged protocol between the Pico        *)
(* (stage10_websocket_terminal/web_terminal.cpp, core 1), the served page  *)
(* (Terminal/index.html) and the console rings (TerminalQueue), with the   *)
(* USB console that owns the rings while no browser does.                  *)
(*                                                                         *)
(* Core 1 runs the network callbacks, one poll of the terminal and the USB *)
(* service in turn; core 0 reads and writes the terminal ports between any *)
(* two of its steps.  A connection carries messages in order, until either *)
(* side closes it or the page falls silent; a full channel is the library  *)
(* refusing a message.  Deadlines expire at any later poll.                *)
(***************************************************************************)
EXTENDS TerminalQueue, Integers, FiniteSets

CONSTANTS
  Conns,          \* connection numbers the server hands out, each once
  OUTPUT_WINDOW,  \* output frames kept until acknowledged
  FRAME_BYTES,    \* bytes of an output frame
  INPUT_BYTES,    \* bytes of an input frame
  SequenceModulus,\* 2^32 in the code
  MaxMissedPongs, \* MAX_MISSED_PONGS
  PingModulus,    \* heartbeats told apart, 2^32 in the code
  Setups,         \* bound: the runs explored, each with what it may do
  ChannelDepth    \* bound: messages in flight each way

ASSUME WindowAssumption ==
  /\ OUTPUT_WINDOW \in Nat \ {0} /\ FRAME_BYTES \in Nat \ {0}
  /\ INPUT_BYTES \in Nat \ {0} /\ MaxMissedPongs \in Nat
  /\ SequenceModulus \in Nat /\ SequenceModulus > 2 * OUTPUT_WINDOW
  /\ PingModulus \in Nat /\ PingModulus > ChannelDepth /\ ChannelDepth \in Nat \ {0}

(* A setup: the build (with the network, stage 10, or USB only, stage 9), a *)
(* bound on the bytes the Z80 writes and on those typed, whether the cable  *)
(* is plugged and unplugged, and whether the heartbeat interval may elapse. *)
ASSUME SetupsAssumption ==
  Setups \subseteq [network : BOOLEAN, out : Nat, in : Nat, usb : BOOLEAN,
                     heartbeat : BOOLEAN]

None == -1
ASSUME ConnsAssumption == Conns \subseteq Nat

VARIABLES
  setup,     \* the setup of this run, constant
  term,      \* the rings
  web,       \* web_terminal.cpp: session and event flags
  net,       \* per connection: its state and the messages each way
  page,      \* index.html: protocol state of the page on each connection
  pc,        \* core 1: where its loop is
  peeked,    \* service_usb: the bytes it offers to the endpoint
  z80,       \* core 0: the status poll under way, and what the last one promised
  hist       \* what this owner of the rings wrote, was shown and typed

vars == <<setup, term, web, net, page, pc, peeked, z80, hist>>

Next1(n) == (n + 1) % SequenceModulus
Minus(a, b) == (a - b) % SequenceModulus

Channel(s) == [state |-> s, up |-> <<>>, down |-> <<>>]
Message(t, n, d) == [type |-> t, seq |-> n, data |-> d]
Control(t, n) == Message(t, n, <<>>)

-----------------------------------------------------------------------------
(* reset_session: the protocol state of a fresh session. *)
FreshSession ==
  [ready |-> FALSE, out_seq |-> 1, window |-> <<>>, staged |-> <<>>,
   in_seq |-> 1, pending_input |-> <<>>, ack_pending |-> FALSE,
   awaiting |-> FALSE, activity |-> FALSE, missed |-> 0]

Session(w, s) ==
  [x \in DOMAIN w |-> IF x \in DOMAIN s THEN s[x] ELSE w[x]]

reset_session(w) == Session(w, FreshSession)

WebInit ==
  [active |-> None, connected |-> FALSE, disconnected |-> FALSE,
   last |-> None, details |-> None, ping_seq |-> 0] 

ResetPage ==
  [ready |-> FALSE, buffer |-> <<>>, frame |-> <<>>, in_seq |-> 1,
   out_seq |-> 1, received |-> 1, writes |-> <<>>]

NoHistory == [written |-> <<>>, shown |-> <<>>, entered |-> <<>>, typed |-> <<>>]

Init ==
  /\ setup \in Setups
  /\ term = QueueInit
  /\ web = [x \in DOMAIN WebInit \cup DOMAIN FreshSession |->
              IF x \in DOMAIN WebInit THEN WebInit[x] ELSE FreshSession[x]]
  /\ net = [c \in Conns |-> Channel("new")]
  /\ page = [c \in Conns |-> ResetPage]
  /\ pc = "idle"
  /\ peeked = <<>>
  /\ z80 = [step |-> "idle", client |-> FALSE, room |-> FALSE, out |-> 1, typed |-> 1]
  /\ hist = NoHistory

-----------------------------------------------------------------------------
(* Core 0: the terminal ports.                                              *)

(* The status port, without the lock: first who is connected, then room. *)
StatusClient ==
  /\ z80.step = "idle"
  /\ z80.out <= setup.out
  /\ z80' = [z80 EXCEPT !.step = "room", !.client = term.client]
  /\ UNCHANGED <<setup, term, web, net, page, pc, peeked, hist>>

StatusRoomLoose ==   \* mutant: a full ring still has room
  /\ z80.step = "room"
  /\ z80' = [z80 EXCEPT !.step = "idle", !.client = FALSE,
               !.room = ~z80.client \/ Len(term.tx) <= TERM_TX_DEPTH]
  /\ UNCHANGED <<setup, term, web, net, page, pc, peeked, hist>>

StatusRoom ==
  /\ z80.step = "room"
  /\ z80' = [z80 EXCEPT !.step = "idle", !.client = FALSE,
               !.room = ~z80.client \/ Len(term.tx) < TERM_TX_DEPTH]
  /\ UNCHANGED <<setup, term, web, net, page, pc, peeked, hist>>

Z80Write ==
  /\ z80.step = "idle"
  /\ z80.out <= setup.out
  /\ term' = io_write(term, z80.out)
  /\ hist' = IF Accepts(term) THEN [hist EXCEPT !.written = Append(@, z80.out)] ELSE hist
  /\ z80' = [z80 EXCEPT !.out = IF Accepts(term) THEN @ + 1 ELSE @, !.room = FALSE]
  /\ UNCHANGED <<setup, web, net, page, pc, peeked>>

Z80Read ==
  /\ z80.step = "idle"
  /\ term.rx # <<>>
  /\ term' = io_read(term)
  /\ UNCHANGED <<setup, web, net, page, pc, peeked, z80, hist>>

-----------------------------------------------------------------------------
(* Network callbacks on core 1, between polls.                              *)

Idle == pc = "idle" /\ setup.network
Callback == pc \in {"idle", "pop"} /\ setup.network

on_connect(c) ==
  /\ Callback
  /\ net[c].state = "new"
  /\ \A b \in Conns : b < c => net[b].state # "new"
  /\ IF web.active = None
       THEN /\ web' = [web EXCEPT !.active = c, !.connected = TRUE]
            /\ net' = [net EXCEPT ![c].state = "open"]
       ELSE /\ net' = [net EXCEPT ![c].state = "aborted"]
            /\ UNCHANGED web
  /\ UNCHANGED <<setup, term, page, pc, peeked, z80, hist>>

(* The diagnostics of a connection count while it is, or was last, the owner. *)
on_close_details(w, c) ==
  IF w.active = c \/ w.last = c THEN [w EXCEPT !.last = c, !.details = c] ELSE w

on_close(w, c) ==
  IF w.active = c
    THEN [w EXCEPT !.active = None, !.last = c, !.disconnected = TRUE]
    ELSE w

(* The library reports a close: the peer's, its own, or one asked for before. *)
Closed(c) ==
  /\ Callback
  /\ net[c].state \in {"closing", "aborted"}
  /\ net' = [net EXCEPT ![c] = Channel("closed")]
  /\ web' = on_close(on_close_details(web, c), c)
  /\ UNCHANGED <<setup, term, page, pc, peeked, z80, hist>>

(* abort: the channel and what is in it are gone, the report comes later. *)
Abort(n, c) == [n EXCEPT ![c] = Channel("aborted")]

(* The flags and counters disconnect_client leaves, when c was active. *)
Disconnected(w) ==
  [reset_session(w) EXCEPT
     !.active = None, !.connected = FALSE, !.disconnected = FALSE,
     !.last = IF w.active # None THEN w.active ELSE @,
     !.details = IF w.active # None THEN None ELSE @]

disconnect_client ==
  /\ web' = Disconnected(web)
  /\ net' = IF web.active # None THEN Abort(net, web.active) ELSE net
  /\ page' = IF web.active # None THEN [page EXCEPT ![web.active] = ResetPage] ELSE page
  /\ term' = browser_disconnect(term)
  /\ hist' = IF term.browser THEN NoHistory ELSE hist
  /\ pc' = "idle"

-----------------------------------------------------------------------------
(* z80_web_terminal_poll: events, messages, input, heartbeat, output.       *)

(* process_events: a disconnect is handled before a connect. *)
AfterEvents ==
  LET connect == web.connected /\ web.active # None
      w == IF web.disconnected \/ connect THEN reset_session(web) ELSE web
      t == IF web.disconnected THEN browser_disconnect(term) ELSE term
  IN  [web |-> [w EXCEPT !.disconnected = FALSE, !.connected = FALSE],
       term |-> IF connect THEN browser_connect(t) ELSE t,
       hist |-> IF connect \/ (web.disconnected /\ term.browser)
                  THEN NoHistory ELSE hist]

process_events ==
  /\ web' = AfterEvents.web
  /\ term' = AfterEvents.term
  /\ hist' = AfterEvents.hist

PollOnline ==
  /\ Idle
  /\ process_events
  /\ pc' = "pop"
  /\ UNCHANGED <<setup, net, page, peeked, z80>>

(* The link is down, or came back with another generation. *)
PollOffline ==
  /\ Idle
  /\ web.active # None \/ web.connected \/ web.disconnected
  /\ disconnect_client
  /\ UNCHANGED <<setup, peeked, z80>>

Room(n, c) == Len(n[c].down) < ChannelDepth
Send(n, c, m) == IF Room(n, c) THEN [n EXCEPT ![c].down = Append(@, m)] ELSE n

note_browser_activity(w) ==
  [w EXCEPT !.missed = 0, !.activity = @ \/ w.awaiting]

Arrived(c) == [net EXCEPT ![c].up = Tail(@)]

Take(c, types) ==
  /\ pc = "pop"
  /\ net[c].up # <<>>
  /\ web.active = c
  /\ Head(net[c].up).type \in types

OnReady(c) ==
  /\ Take(c, {"READY"})
  /\ web' = [note_browser_activity(web) EXCEPT !.ready = TRUE]
  /\ net' = Arrived(c)
  /\ UNCHANGED <<setup, term, page, pc, peeked, z80, hist>>

(* The acknowledgement is cumulative and only of frames that were sent. *)
OnOutputAck(c) ==
  /\ Take(c, {"OUTPUT_ACK"})
  /\ web.ready
  /\ LET seq == Head(net[c].up).seq
         hit == {i \in DOMAIN web.window : web.window[i].sent /\ web.window[i].seq = seq}
     IN  web' = [note_browser_activity(web) EXCEPT
                   !.window = IF hit = {} THEN @
                              ELSE Rest(@, CHOOSE i \in hit : \A j \in hit : i <= j)]
  /\ net' = Arrived(c)
  /\ UNCHANGED <<setup, term, page, pc, peeked, z80, hist>>

(* retry_input_ack: the acknowledgement of the last accepted frame. *)
Ack(w) == Control("INPUT_ACK", Minus(w.in_seq, 1))
RetryAck(w, n) == Send(n, w.active, Ack(w))
AckLeft(w, n) == w.ack_pending /\ ~Room(n, w.active)

AckDuplicate(c) ==
  LET w == [note_browser_activity(web) EXCEPT !.ack_pending = TRUE]
      n == Arrived(c)
  IN  /\ web' = [w EXCEPT !.ack_pending = AckLeft(w, n)]
      /\ net' = RetryAck(w, n)

AcceptedHeld(w, n) ==   \* mutant: input taken stays pending
  LET taken == w.pending_input # <<>> /\ BrowserAccepts(term, w.pending_input)
  IN  [web |-> [w EXCEPT !.in_seq = IF taken THEN Next1(@) ELSE @], net |-> n,
       term |-> IF taken THEN browser_try_receive(term, w.pending_input) ELSE term,
       hist |-> IF taken THEN [hist EXCEPT !.entered = @ \o w.pending_input] ELSE hist]

(* accept_pending_input, then retry_input_ack. *)
Accepted(w, n) ==
  LET taken == w.pending_input # <<>> /\ BrowserAccepts(term, w.pending_input)
      v == IF taken
             THEN [w EXCEPT !.pending_input = <<>>, !.in_seq = Next1(@), !.ack_pending = TRUE]
             ELSE w
  IN  [web |-> IF v.active = None THEN v
               ELSE [v EXCEPT !.ack_pending = AckLeft(v, n)],
       net |-> IF v.active # None /\ v.ack_pending THEN RetryAck(v, n) ELSE n,
       term |-> IF taken THEN browser_try_receive(term, w.pending_input) ELSE term,
       hist |-> IF taken THEN [hist EXCEPT !.entered = @ \o w.pending_input] ELSE hist]

Accept(w, n) ==
  LET a == Accepted(w, n)
  IN  web' = a.web /\ net' = a.net /\ term' = a.term /\ hist' = a.hist

OnInput(c) ==
  LET m == Head(net[c].up)
      w == [note_browser_activity(web) EXCEPT !.pending_input = m.data]
  IN  /\ Take(c, {"INPUT"})
      /\ web.ready
      /\ \/ /\ m.seq = web.in_seq
            /\ web.pending_input \in {<<>>, m.data}
            /\ Accept(w, Arrived(c))
            /\ UNCHANGED pc
         \/ /\ m.seq # web.in_seq /\ m.seq = Minus(web.in_seq, 1)
            /\ AckDuplicate(c)
            /\ UNCHANGED <<term, pc, hist>>
      /\ UNCHANGED <<setup, page, peeked, z80>>

InvalidDuplicate(m) ==   \* mutant: a repeated frame is out of order
  ~web.ready \/ (m.type = "INPUT" /\ m.seq # web.in_seq)

(* A frame the session cannot take: out of order, changed, before READY. *)
Invalid(m) ==
  \/ ~web.ready
  \/ /\ m.type = "INPUT"
     /\ \/ m.seq \notin {web.in_seq, Minus(web.in_seq, 1)}
        \/ m.seq = web.in_seq /\ web.pending_input \notin {<<>>, m.data}

OnInvalid(c) ==
  /\ Take(c, {"INPUT", "OUTPUT_ACK"})
  /\ Invalid(Head(net[c].up))
  /\ disconnect_client
  /\ UNCHANGED <<setup, peeked, z80>>

OnPong(c) ==
  /\ Take(c, {"PONG"})
  /\ web' = IF web.awaiting /\ Head(net[c].up).seq = web.ping_seq
              THEN [web EXCEPT !.awaiting = FALSE, !.missed = 0, !.activity = FALSE]
              ELSE note_browser_activity(web)
  /\ net' = Arrived(c)
  /\ UNCHANGED <<setup, term, page, pc, peeked, z80, hist>>

(* After the messages: late events, held input, an acknowledgement still   *)
(* due; without a session there is no output to poll.                      *)
PollInput ==
  /\ pc = "pop"
  /\ IF web.connected \/ web.disconnected
       THEN process_events /\ UNCHANGED net
       ELSE Accept(web, net)
  /\ pc' = IF web.active = None THEN "idle" ELSE "heartbeat"
  /\ UNCHANGED <<setup, page, peeked, z80>>

(* The oldest frame was not acknowledged in five minutes. *)
AckTimeout ==
  /\ pc = "heartbeat"
  /\ web.window # <<>>
  /\ disconnect_client
  /\ UNCHANGED <<setup, peeked, z80>>

AfterMissUncounted(w) ==   \* mutant: the ping is settled, the miss not counted
  [w EXCEPT !.awaiting = FALSE, !.activity = FALSE]

AfterMiss(w) ==
  [w EXCEPT !.awaiting = FALSE, !.activity = FALSE,
            !.missed = IF w.activity THEN 0 ELSE @ + 1]

PongTimeout ==
  /\ pc = "heartbeat"
  /\ web.awaiting
  /\ IF AfterMiss(web).missed > MaxMissedPongs
       THEN disconnect_client
       ELSE /\ web' = AfterMiss(web)
            /\ UNCHANGED <<net, page, term, hist, pc>>
  /\ UNCHANGED <<setup, peeked, z80>>

(* A ping is due when the last one is settled; the number is used up even  *)
(* if the library has no room for it.                                      *)
Ping ==
  LET seq == (web.ping_seq + 1) % PingModulus
  IN  /\ pc = "heartbeat"
      /\ setup.heartbeat /\ web.ready /\ ~web.awaiting
      /\ web' = IF Room(net, web.active)
                  THEN [web EXCEPT !.ping_seq = seq, !.awaiting = TRUE, !.activity = FALSE]
                  ELSE [web EXCEPT !.ping_seq = seq]
      /\ net' = Send(net, web.active, Control("PING", seq))
      /\ pc' = "stage"
      /\ UNCHANGED <<setup, term, page, peeked, z80, hist>>

(* The heartbeat is not due; a session not yet ready is greeted again. *)
NoPing ==
  /\ pc = "heartbeat"
  /\ pc' = IF web.ready THEN "stage" ELSE "idle"
  /\ \/ UNCHANGED net
     \/ ~web.ready /\ net' = Send(net, web.active, Control("HELLO", 0))
  /\ UNCHANGED <<setup, term, web, page, peeked, z80, hist>>

(* One turn of the staging loop: the ring fills the frame being staged. *)
Staged == web.staged \o peek(term, FRAME_BYTES - Len(web.staged))
Supplied == supply(term, FRAME_BYTES - Len(web.staged))

(* A full frame, or a partial one whose coalescing deadline has passed. *)
Stage ==
  /\ pc = "stage"
  /\ Len(web.window) < OUTPUT_WINDOW
  /\ Staged # <<>>
  /\ term' = Supplied
  /\ web' = [web EXCEPT
               !.window = Append(@, [seq |-> web.out_seq, data |-> Staged, sent |-> FALSE]),
               !.out_seq = Next1(@), !.staged = <<>>]
  /\ UNCHANGED <<setup, net, page, pc, peeked, z80, hist>>

(* Every frame never sent, and those whose retry is due, from the oldest. *)
Unsent(w, due) ==
  LET upto[i \in 0 .. Len(w.window)] ==
        IF i = 0 THEN <<>>
        ELSE IF i \in due \/ ~w.window[i].sent THEN Append(upto[i - 1], i) ELSE upto[i - 1]
  IN  upto[Len(w.window)]

(* Then these are sent, while there is room. *)
SendFrames(due) ==
  LET all == Unsent(web, due)
      now == First(all, ChannelDepth - Len(net[web.active].down))
      full == Len(web.window) = OUTPUT_WINDOW
      marked == [i \in DOMAIN web.window |->
                   [web.window[i] EXCEPT !.sent = @ \/ i \in Range(now)]]
  IN  /\ pc = "stage"
      /\ full \/ Len(Staged) < FRAME_BYTES
      /\ term' = IF full THEN term ELSE Supplied
      /\ net' = [net EXCEPT ![web.active].down =
                   @ \o [k \in DOMAIN now |->
                           Message("OUTPUT", web.window[now[k]].seq, web.window[now[k]].data)]]
      /\ web' = [web EXCEPT
                   !.staged = IF full THEN @ ELSE Staged,
                   !.window = marked]
      /\ pc' = "idle"
      /\ UNCHANGED <<setup, page, peeked, z80, hist>>

(* The library refuses a frame for another reason than back-pressure. *)
SendError ==
  /\ pc = "stage"
  /\ web.window # <<>>
  /\ disconnect_client
  /\ UNCHANGED <<setup, peeked, z80>>

-----------------------------------------------------------------------------
(* The page.                                                                *)

Live(c) == net[c].state = "open"
UpRoom(c) == Len(net[c].up) < ChannelDepth

(* A page event: it consumes "down" or not, and sends what it answers. *)
PageStep(c, p, down, answers) ==
  /\ page' = [page EXCEPT ![c] = p]
  /\ net' = [net EXCEPT ![c].down = down, ![c].up = @ \o answers]
  /\ UNCHANGED <<setup, term, web, pc, peeked>>

(* pumpInput: a frame of the first bytes typed, or the one in flight again. *)
Pumped(p) ==
  IF p.ready /\ p.buffer # <<>> /\ p.frame = <<>>
    THEN [p EXCEPT !.frame = First(p.buffer, INPUT_BYTES)] ELSE p
Pump(p) ==
  IF p.ready /\ p.buffer # <<>>
    THEN <<Message("INPUT", p.in_seq, Pumped(p).frame)>> ELSE <<>>

PageType(c) ==
  LET p == [page[c] EXCEPT !.buffer = Append(@, z80.typed)]
  IN  /\ Live(c) /\ page[c].ready /\ UpRoom(c)
      /\ z80.typed <= setup.in
      /\ z80' = [z80 EXCEPT !.typed = @ + 1]
      /\ IF p.frame # <<>> THEN PageStep(c, p, net[c].down, <<>>)
                           ELSE PageStep(c, Pumped(p), net[c].down, Pump(p))
      /\ hist' = IF web.active = c THEN [hist EXCEPT !.typed = Append(@, z80.typed)] ELSE hist

PageRetry(c) ==
  /\ Live(c) /\ page[c].frame # <<>> /\ UpRoom(c)
  /\ PageStep(c, page[c], net[c].down, Pump(page[c]))
  /\ UNCHANGED <<z80, hist>>

PageHello(c, p) ==
  LET q == [p EXCEPT !.ready = TRUE]
      ready == <<Control("READY", 0)>>
  IN  IF p.frame # <<>>
        THEN PageStep(c, q, Tail(net[c].down), ready)
        ELSE PageStep(c, Pumped(q), Tail(net[c].down), ready \o Pump(q))

PageInputAck(c, p, m) ==
  LET q == [p EXCEPT !.buffer = Rest(@, Len(p.frame)), !.frame = <<>>, !.in_seq = Next1(@)]
  IN  IF p.frame # <<>> /\ m.seq = p.in_seq
        THEN PageStep(c, Pumped(q), Tail(net[c].down), Pump(q))
        ELSE PageStep(c, p, Tail(net[c].down), <<>>)

(* A new frame is written once; a repeated one only acknowledged again. *)
PageOutput(c, p, m) ==
  LET new == m.seq = p.received
      consumed == Minus(p.out_seq, m.seq)
  IN  PageStep(c, IF new THEN [p EXCEPT !.received = Next1(@), !.writes = Append(@, m)] ELSE p,
               Tail(net[c].down),
               IF ~new /\ consumed > 0 /\ consumed < SequenceModulus \div 2
                 THEN <<Control("OUTPUT_ACK", Minus(p.out_seq, 1))>> ELSE <<>>)

PageReceive(c) ==
  LET m == Head(net[c].down)
  IN  /\ Live(c) /\ net[c].down # <<>> /\ Len(net[c].up) + 1 < ChannelDepth
      /\ \/ m.type = "HELLO" /\ PageHello(c, page[c])
         \/ m.type = "PING" /\ PageStep(c, page[c], Tail(net[c].down),
                                        <<Control("PONG", m.seq)>>)
         \/ m.type = "INPUT_ACK" /\ PageInputAck(c, page[c], m)
         \/ m.type = "OUTPUT" /\ page[c].ready /\ PageOutput(c, page[c], m)
      /\ hist' = IF m.type = "OUTPUT" /\ m.seq = page[c].received /\ web.active = c
                   THEN [hist EXCEPT !.shown = @ \o m.data] ELSE hist
      /\ UNCHANGED z80

(* xterm consumed a frame: its callback acknowledges it. *)
PageConsumed(c) ==
  LET p == page[c]
  IN  /\ Live(c) /\ p.writes # <<>> /\ UpRoom(c)
      /\ PageStep(c, [p EXCEPT !.writes = Tail(@), !.out_seq = Next1(@)],
                  net[c].down, <<Control("OUTPUT_ACK", Head(p.writes).seq)>>)
      /\ UNCHANGED <<z80, hist>>

(* The user leaves, or the page falls silent. *)
PageLeaves(c) ==
  /\ Live(c)
  /\ \E s \in {"closing", "silent"} : net' = [net EXCEPT ![c].state = s]
  /\ page' = [page EXCEPT ![c] = ResetPage]
  /\ UNCHANGED <<setup, term, web, pc, peeked, z80, hist>>

(* TCP gives up on a silent peer that acknowledges none of what it was sent. *)
TcpGivesUp(c) ==
  /\ net[c].state = "silent" /\ net[c].down # <<>>
  /\ net' = [net EXCEPT ![c].state = "closing"]
  /\ UNCHANGED <<setup, term, web, page, pc, peeked, z80, hist>>

(* Not the served page: a client that sends data before it is READY. *)
RawClient(c) ==
  /\ Live(c) /\ ~page[c].ready /\ UpRoom(c)
  /\ net' = [net EXCEPT ![c].state = "raw", ![c].up = <<Message("INPUT", 1, <<0>>)>>]
  /\ UNCHANGED <<setup, term, web, page, pc, peeked, z80, hist>>

-----------------------------------------------------------------------------
(* The USB console (service_usb).                                           *)

UsbChange ==
  /\ pc = "idle"
  /\ setup.usb
  /\ term' = IF setup.network THEN usb_connected(term, ~term.usb) ELSE set_connected(term, ~term.client)
  /\ hist' = IF setup.network /\ term.browser THEN hist ELSE NoHistory
  /\ UNCHANGED <<setup, web, net, page, pc, peeked, z80>>

UsbType ==
  /\ pc = "idle"
  /\ z80.typed <= setup.in
  /\ IF setup.network THEN ~term.browser /\ term.usb ELSE term.client
  /\ term' = IF setup.network THEN usb_receive(term, z80.typed) ELSE receive(term, z80.typed)
  /\ z80' = [z80 EXCEPT !.typed = @ + 1]
  /\ UNCHANGED <<setup, web, net, page, pc, peeked, hist>>

(* The bytes are offered from a copy, and removed by count afterwards. *)
UsbPeek ==
  /\ pc = "idle"
  /\ ~term.browser
  /\ IF setup.network THEN term.usb ELSE term.client
  /\ peek(term, FRAME_BYTES) # <<>>
  /\ peeked' = peek(term, FRAME_BYTES)
  /\ pc' = "usb"
  /\ UNCHANGED <<setup, term, web, net, page, z80, hist>>

UsbSupply(n) ==
  /\ pc = "usb"
  /\ term' = IF n = 0 THEN term ELSE supply(term, n)
  /\ hist' = [hist EXCEPT !.shown = @ \o First(peeked, n)]
  /\ peeked' = <<>>
  /\ pc' = "idle"
  /\ UNCHANGED <<setup, web, net, page, z80>>

Core1 ==
  \/ PollOnline
  \/ \E c \in Conns : OnReady(c) \/ OnOutputAck(c) \/ OnInput(c) \/ OnInvalid(c) \/ OnPong(c)
  \/ PollInput
  \/ NoPing
  \/ Stage
  \/ \E due \in SUBSET DOMAIN web.window : SendFrames(due)
  \/ \E n \in 0 .. Len(peeked) : UsbSupply(n)

Environment ==
  \/ \E c \in Conns : on_connect(c) \/ Closed(c)
  \/ PollOffline \/ AckTimeout \/ PongTimeout \/ Ping \/ SendError
  \/ \E c \in Conns :
       PageType(c) \/ PageRetry(c) \/ PageReceive(c) \/ PageConsumed(c) \/ PageLeaves(c)
       \/ TcpGivesUp(c) \/ RawClient(c)
  \/ UsbChange \/ UsbType \/ UsbPeek

Core0 == StatusClient \/ StatusRoom \/ Z80Write \/ Z80Read

Next == Core1 \/ Environment \/ Core0

Spec == Init /\ [][Next]_vars

(* Core 1's loop never stops, and an interval that has elapsed is seen at   *)
(* one of the polls that follow.                                            *)
FairSpec ==
  /\ Spec
  /\ WF_vars(Core1)
  /\ SF_vars(Ping)
  /\ SF_vars(PongTimeout)

-----------------------------------------------------------------------------
(* No ring, window or buffer holds more than the code allots to it. *)
BuffersFit ==
  /\ setup \in Setups
  /\ TypedRings(term)
  /\ web.active \in Conns \cup {None}
  /\ Len(web.window) <= OUTPUT_WINDOW
  /\ Len(web.staged) < FRAME_BYTES
  /\ Len(web.pending_input) <= INPUT_BYTES
  /\ web.missed \in 0 .. MaxMissedPongs
  /\ \A c \in Conns : Len(net[c].up) <= ChannelDepth /\ Len(net[c].down) <= ChannelDepth

(* The session is under way: events of its start or end are handled. *)
Steady == web.active # None /\ ~web.connected /\ ~web.disconnected

(* Written and not yet shown: in unseen frames, staged, or in the ring. *)
InFlight ==
  LET unseen[i \in 0 .. Len(web.window)] ==
        IF i = 0 THEN <<>>
        ELSE IF web.window[i].data[1] \in Range(hist.shown) THEN unseen[i - 1]
        ELSE unseen[i - 1] \o web.window[i].data
  IN  unseen[Len(web.window)] \o web.staged \o term.tx

(* The owner of the rings is shown what was written for it, in order, once *)
(* and without a gap, and nothing written for the owner before it, though  *)
(* frames are repeated and sessions change hands; and tx_pending, which     *)
(* spares core 1 the lock, hides no byte.                                  *)
OutputIntact ==
  /\ Steady \/ ~term.browser => hist.written = hist.shown \o InFlight
  /\ term.tx_pending <=> term.tx # <<>>

(* What is typed in a session enters the input ring in order and once,     *)
(* though frames and acknowledgements are repeated, and the page forgets a  *)
(* byte only when it has entered.                                          *)
InputOnce ==
  Steady /\ Live(web.active) =>
    LET acked == Len(hist.typed) - Len(page[web.active].buffer)
    IN  /\ IsPrefix(hist.entered, hist.typed)
        /\ acked <= Len(hist.entered)

(* The status port's promise of room holds until the Z80 uses it, though   *)
(* the poll reads without the lock while clients come and go; and no        *)
(* session fills a buffer past its end.                                    *)
RoomIsKept == BuffersFit /\ (z80.step = "idle" /\ z80.room => StatusTxRoom(term))

(* The close diagnostics reported are those of the session that ended last. *)
DetailsArePaired == web.details # None => web.details = web.last

(* A browser that falls silent loses the terminal, whatever it answered     *)
(* before and without the help of TCP, where its channel still takes the    *)
(* pings it has to miss: one for each frame of it still to arrive, too.     *)
DeadBrowserReleased ==
  \A c \in Conns :
    (/\ setup.heartbeat /\ Steady /\ web.ready
     /\ web.active = c /\ net[c].state = "silent"
     /\ Len(net[c].down) + Len(net[c].up) + MaxMissedPongs < ChannelDepth)
    ~> (web.active # c)

(* The served page and the Pico never break the protocol to each other: no  *)
(* frame is refused and no session of a page ends for a protocol error.     *)
NoProtocolError ==
  \A c \in Conns : Live(c) =>
    /\ ~(Take(c, {"INPUT", "OUTPUT_ACK"}) /\ Invalid(Head(net[c].up)))
    /\ net[c].down # <<>> /\ Head(net[c].down).type = "OUTPUT" =>
         LET m == Head(net[c].down)
         IN  /\ page[c].ready
             /\ IF m.seq = page[c].received
                  THEN Len(page[c].writes) < OUTPUT_WINDOW
                  ELSE Minus(page[c].received, m.seq) \in 1 .. OUTPUT_WINDOW

(* Sessions end for a reason, and the reason is told: no error of the       *)
(* protocol between page and Pico, diagnostics of the right session.        *)
SessionsAreSound == DetailsArePaired /\ NoProtocolError
=============================================================================
