---------------------------- MODULE TerminalQueue ----------------------------
(***************************************************************************)
(* The console rings between the Z80's terminal ports on core 0 and the    *)
(* browser and USB consoles on core 1 (common/terminal_queue.c).           *)
(*                                                                         *)
(* The state is one record, and an operation under terminal_lock is one    *)
(* operator on it: every critical section is a single step.  A ring is the *)
(* sequence of its bytes (head and count), a byte is a number.             *)
(***************************************************************************)
EXTENDS Naturals, Sequences, SequencesExt

CONSTANTS
  TERM_RX_DEPTH,   \* bytes the input ring holds
  TERM_TX_DEPTH    \* bytes the output ring holds

ASSUME RingAssumption == TERM_RX_DEPTH \in Nat \ {0} /\ TERM_TX_DEPTH \in Nat \ {0}

Byte == Nat

(* rx_queue, tx_queue, tx_pending, client_connected, browser_connected,    *)
(* usb_connected.                                                          *)
Rings == [rx : Seq(Byte), tx : Seq(Byte), tx_pending : BOOLEAN,
          client : BOOLEAN, browser : BOOLEAN, usb : BOOLEAN]

QueueInit == [rx |-> <<>>, tx |-> <<>>, tx_pending |-> FALSE,
              client |-> FALSE, browser |-> FALSE, usb |-> FALSE]

TypedRings(t) ==
  /\ t \in Rings
  /\ Len(t.rx) <= TERM_RX_DEPTH
  /\ Len(t.tx) <= TERM_TX_DEPTH

clear_queues(t) == [t EXCEPT !.rx = <<>>, !.tx = <<>>, !.tx_pending = FALSE]

(* The oldest byte makes room. *)
ReceiveOne(rx, b) == Append(IF Len(rx) = TERM_RX_DEPTH THEN Tail(rx) ELSE rx, b)

First(s, n) == SubSeq(s, 1, IF n < Len(s) THEN n ELSE Len(s))
Rest(s, n) == SubSeq(s, Len(First(s, n)) + 1, Len(s))

-----------------------------------------------------------------------------
(* Core 0: the ports of the Z80.                                            *)

StatusRxReady(t) == t.rx # <<>>
StatusTxRoom(t) == ~t.client \/ Len(t.tx) < TERM_TX_DEPTH

(* The data port gives the oldest byte, or 0 from an empty ring. *)
io_read(t) == [t EXCEPT !.rx = IF t.rx = <<>> THEN t.rx ELSE Tail(t.rx)]

Accepts(t) == t.client /\ Len(t.tx) < TERM_TX_DEPTH

io_write(t, b) ==
  IF Accepts(t) THEN [t EXCEPT !.tx = Append(t.tx, b), !.tx_pending = TRUE] ELSE t

-----------------------------------------------------------------------------
(* Core 1: the consoles.                                                    *)

receive(t, b) == [t EXCEPT !.rx = ReceiveOne(t.rx, b)]

(* tx_pending lets core 1 skip the lock, so it hides what it denies. *)
peek(t, n) == IF t.tx_pending THEN First(t.tx, n) ELSE <<>>

supply(t, n) ==
  IF t.tx_pending
    THEN LET left == Rest(t.tx, n)
         IN  [t EXCEPT !.tx = left, !.tx_pending = left # <<>>]
    ELSE t

BrowserAccepts(t, data) == t.browser /\ TERM_RX_DEPTH - Len(t.rx) >= Len(data)

browser_try_receive(t, data) ==
  IF BrowserAccepts(t, data) THEN [t EXCEPT !.rx = t.rx \o data] ELSE t

ConnectOver(t) == [t EXCEPT !.browser = TRUE, !.client = TRUE]   \* mutant

browser_connect(t) == [clear_queues(t) EXCEPT !.browser = TRUE, !.client = TRUE]

browser_disconnect(t) ==
  IF t.browser
    THEN [clear_queues(t) EXCEPT !.browser = FALSE, !.client = t.usb]
    ELSE t

(* The build without a network: the USB console is the only client. *)
set_connected(t, connected) ==
  IF connected
    THEN [t EXCEPT !.client = TRUE]
    ELSE [t EXCEPT !.client = FALSE, !.tx = <<>>, !.tx_pending = FALSE]

usb_connected(t, connected) ==
  IF t.browser
    THEN [t EXCEPT !.usb = connected]
    ELSE [(IF t.usb # connected THEN clear_queues(t) ELSE t)
            EXCEPT !.client = connected, !.usb = connected]

usb_receive(t, b) == IF t.usb /\ ~t.browser THEN receive(t, b) ELSE t
=============================================================================
