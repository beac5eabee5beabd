----------------------------- MODULE UsbConsole -----------------------------
(***************************************************************************)
(* The USB log queue of usb_console.c: printf on either core appends whole *)
(* messages under log_lock, core 1 sends them and, when none is waiting,   *)
(* the terminal's bytes.  Every section under the lock is one step, and so *)
(* is every call of the endpoint.                                          *)
(***************************************************************************)
EXTENDS Naturals, Sequences, FiniteSetsExt

CONSTANTS
  Messages,    \* what is printed: sequences over {"x", "\r", "\n"}
  LogBytes,    \* LOG_BYTES
  LogBudget,   \* LOG_BUDGET
  Fifo,        \* room of the endpoint
  MaxLogs,     \* bound: how many messages are printed
  MaxWrites    \* bound: how many terminal bytes a connection carries

VARIABLE usb

Report == <<"!", "\r", "\n">>      \* the overflow report, translated already

(* Of the connection: "sent" is what was queued, "ends" where a message of  *)
(* it ends, "wire" what of it the host got, "writes" how many terminal      *)
(* bytes came between, "spliced" whether one came within a message.         *)
Init == usb = [log |-> <<>>, cr |-> FALSE, drops |-> 0, reported |-> 0,
               connected |-> FALSE, cable |-> FALSE, at |-> "idle",
               data |-> <<>>, snapshot |-> 0, accepted |-> 0, flush |-> FALSE,
               logs |-> 0, wire |-> <<>>, sent |-> <<>>, ends |-> {0}, writes |-> 0,
               spliced |-> FALSE, unflushed |-> FALSE]

(* CRLF translation under the lock, from the state the last message left.   *)
Written(t, c) == [cr  |-> c = "\r",
                  out |-> t.out \o IF c = "\n" /\ ~t.cr THEN <<"\r", "\n">> ELSE <<c>>]

Translated(cr, message) ==
  LET after[i \in 0 .. Len(message)] ==
        IF i = 0 THEN [cr |-> cr, out |-> <<>>] ELSE Written(after[i - 1], message[i])
  IN  after[Len(message)]

Room(u) == LogBytes - Len(u.log)

Fits(u, message) == Len(Translated(u.cr, message).out) <= Room(u)

Queued(u, out, cr) == [u EXCEPT !.log = @ \o out, !.cr = cr, !.sent = @ \o out,
                                !.ends = @ \cup {Len(u.sent \o out)}]

log_write(m) == /\ usb.logs < MaxLogs
  /\ LET u == [usb EXCEPT !.logs = @ + 1]
         t == Translated(usb.cr, m) IN
     usb' = IF ~usb.connected THEN u
            ELSE IF Fits(usb, m) THEN Queued(u, t.out, t.cr)
            ELSE [u EXCEPT !.drops = @ + 1]

-----------------------------------------------------------------------------
(* z80_usb_console_service                                                  *)

Cleared(u) == [u EXCEPT !.log = <<>>, !.cr = FALSE, !.wire = <<>>, !.sent = <<>>,
                        !.ends = {0}, !.writes = 0, !.unflushed = FALSE]

service == /\ usb.at = "idle"
  /\ \E due \in BOOLEAN, room \in 0..Fifo :
       LET c == usb.cable
           u == [(IF c THEN usb ELSE Cleared(usb)) EXCEPT !.connected = c,
                   !.unflushed = @ /\ ~(usb.flush /\ c /\ due),
                   !.flush = @ /\ c /\ ~due]
           n == Min({IF c THEN room ELSE 0, LogBudget, Len(u.log)})
       IN usb' = [u EXCEPT !.data = SubSeq(u.log, 1, n), !.snapshot = u.drops,
                           !.at = IF n > 0 THEN "send" ELSE "report"]

send == /\ usb.at = "send"
  /\ \E n \in 0..Len(usb.data) :
       usb' = [usb EXCEPT !.wire = @ \o SubSeq(usb.data, 1, n), !.accepted = n,
                          !.unflushed = @ /\ n = 0, !.at = "consume"]

(* Mutant: what was offered is taken for sent.                              *)
ConsumedAll(u) == Len(u.data)

Consumed(u) == u.accepted

consume == /\ usb.at = "consume"
  /\ usb' = [usb EXCEPT !.log = SubSeq(@, Consumed(usb) + 1, Len(@)),
                        !.data = <<>>, !.accepted = 0, !.at = "report"]

report == /\ usb.at = "report"
  /\ usb' = [(IF usb.connected /\ usb.snapshot # usb.reported /\ Len(Report) <= Room(usb)
              THEN [Queued(usb, Report, FALSE) EXCEPT !.reported = usb.snapshot] ELSE usb)
               EXCEPT !.at = "idle", !.snapshot = 0]

-----------------------------------------------------------------------------
(* z80_usb_console_write: looked at the log first.                          *)

Pending(u) == u.log # <<>>

usb_console_write == /\ usb.at = "idle" /\ usb.cable /\ usb.connected /\ ~Pending(usb)
  /\ usb.writes < MaxWrites
  /\ \E line \in BOOLEAN :                  \* whether a newline is among them
       usb' = [usb EXCEPT !.writes = @ + 1, !.spliced = @ \/ Len(usb.wire) \notin usb.ends,
                          !.flush = ~line, !.unflushed = ~line]

connect == /\ usb.at = "idle" /\ usb' = [usb EXCEPT !.cable = ~@]

Next == \/ \E m \in Messages : log_write(m)
        \/ service \/ send \/ consume \/ report \/ usb_console_write \/ connect

-----------------------------------------------------------------------------
(* The host sees whole messages: the log bytes on the wire and those still  *)
(* queued are the messages accepted since it connected, each complete and   *)
(* in order, every line feed with its carriage return; no terminal byte     *)
(* falls into one; the queue keeps its size; what the terminal wrote        *)
(* without a newline is flushed by a pending deadline.                      *)
LogIsWhole ==
  LET left == SubSeq(usb.log, IF usb.at = "consume" THEN usb.accepted + 1 ELSE 1, Len(usb.log))
  IN /\ usb.wire \o left = usb.sent /\ Len(usb.log) <= LogBytes
     /\ \A i \in DOMAIN usb.wire : usb.wire[i] = "\n" => i > 1 /\ usb.wire[i - 1] = "\r"
     /\ ~usb.spliced
     /\ usb.unflushed /\ usb.connected => usb.flush
=============================================================================
