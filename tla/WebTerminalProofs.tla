------------------------- MODULE WebTerminalProofs -------------------------
(***************************************************************************)
(* Proofs about WebTerminal for any sizes, any window, any modulus of the   *)
(* sequence numbers that the window fits in twice, and any number of        *)
(* connections: the rings and buffers, and the input of a session.          *)
(***************************************************************************)
EXTENDS WebTerminal, WellFoundedInduction, TLAPS

-----------------------------------------------------------------------------
(* The invariant.                                                           *)

Bytes == Seq(Byte)
Types == {"READY", "OUTPUT_ACK", "INPUT", "PONG", "HELLO", "PING", "INPUT_ACK", "OUTPUT"}
Messages == [type : Types, seq : Int, data : Bytes]
InputMessages == {m \in Messages : Len(m.data) <= INPUT_BYTES}
Frames == [seq : Int, data : Bytes, sent : BOOLEAN]

WebFields ==
  {"active", "connected", "disconnected", "last", "details", "ping_seq", "ready", "out_seq",
   "window", "staged", "in_seq", "pending_input", "ack_pending", "awaiting", "activity",
   "missed"}

WebGood(w) ==
  /\ DOMAIN w = WebFields
  /\ w.active \in Conns \cup {None}
  /\ w.window \in Seq(Frames) /\ Len(w.window) <= OUTPUT_WINDOW
  /\ w.staged \in Bytes /\ Len(w.staged) < FRAME_BYTES
  /\ w.pending_input \in Bytes /\ Len(w.pending_input) <= INPUT_BYTES
  /\ w.missed \in 0 .. MaxMissedPongs
  /\ w.in_seq \in Int /\ w.out_seq \in Int /\ w.ping_seq \in Int

(* What the page sends fits an input frame. *)
ChannelGood(ch) ==
  /\ DOMAIN ch = {"state", "up", "down"}
  /\ ch.up \in Seq(InputMessages) /\ Len(ch.up) <= ChannelDepth
  /\ ch.down \in Seq(Messages) /\ Len(ch.down) <= ChannelDepth

NetGood(n) == DOMAIN n = Conns /\ \A c \in Conns : ChannelGood(n[c])

PageFields == {"ready", "buffer", "frame", "in_seq", "out_seq", "received", "writes"}

PageGood(p) ==
  /\ DOMAIN p = PageFields
  /\ p.buffer \in Bytes /\ p.writes \in Seq(Messages)
  /\ p.frame \in Bytes /\ Len(p.frame) <= INPUT_BYTES
  /\ p.in_seq \in Int /\ p.out_seq \in Int /\ p.received \in Int

PagesGood(ps) == DOMAIN ps = Conns /\ \A c \in Conns : PageGood(ps[c])

(* Without a client the output ring is empty, so that one that connects     *)
(* between the two loads of a status poll finds room.                       *)
TermGood(t) == TypedRings(t) /\ (~t.client => t.tx = <<>>)

Z80Fields == {"step", "client", "room", "out", "typed"}

Promised(z, t) ==
  /\ z.step = "idle" /\ z.room => StatusTxRoom(t)
  /\ z.step = "room" /\ ~z.client => StatusTxRoom(t)

Z80Good(z) == DOMAIN z = Z80Fields /\ z.out \in Nat /\ z.typed \in Nat

RoomInv ==
  /\ setup \in Setups
  /\ TermGood(term)
  /\ WebGood(web)
  /\ NetGood(net)
  /\ PagesGood(page)
  /\ peeked \in Bytes
  /\ Z80Good(z80)
  /\ Promised(z80, term)

-----------------------------------------------------------------------------
(* Numbers and sequences.                                                   *)

LEMMA Sizes ==
  /\ OUTPUT_WINDOW \in Nat \ {0} /\ FRAME_BYTES \in Nat \ {0} /\ INPUT_BYTES \in Nat \ {0}
  /\ MaxMissedPongs \in Nat /\ ChannelDepth \in Nat \ {0}
  /\ TERM_RX_DEPTH \in Nat \ {0} /\ TERM_TX_DEPTH \in Nat \ {0}
  /\ SequenceModulus \in Nat \ {0} /\ PingModulus \in Nat \ {0}
  /\ None \notin Conns
  BY WindowAssumption, RingAssumption, ConnsAssumption DEF None

LEMMA Numbers ==
  /\ \A n \in Int : Next1(n) \in Int
  /\ \A m, n \in Int : Minus(m, n) \in Int
  /\ \A n \in Int : (n + 1) % PingModulus \in Int
  BY Sizes DEF Next1, Minus

LEMMA FirstFacts ==
  ASSUME NEW T, NEW s \in Seq(T), NEW n \in Nat
  PROVE  First(s, n) \in Seq(T) /\ Len(First(s, n)) <= n /\ Len(First(s, n)) <= Len(s)
  BY DEF First

LEMMA RestFacts ==
  ASSUME NEW T, NEW s \in Seq(T), NEW n \in Nat
  PROVE  Rest(s, n) \in Seq(T) /\ Len(Rest(s, n)) <= Len(s)
<1> DEFINE k == IF n < Len(s) THEN n ELSE Len(s)
<1>1. k \in Nat /\ k <= Len(s)
  OBVIOUS
<1>2. Len(First(s, n)) = k
  BY <1>1 DEF First
<1>3. Rest(s, n) = SubSeq(s, k + 1, Len(s))
  BY <1>2 DEF Rest
<1> HIDE DEF k
<1>4. QED
  BY <1>1, <1>3

LEMMA TailFacts ==
  ASSUME NEW T, NEW s \in Seq(T), s # <<>>
  PROVE  Tail(s) \in Seq(T) /\ Len(Tail(s)) = Len(s) - 1 /\ Head(s) \in T /\ Len(s) >= 1
  OBVIOUS

LEMMA JoinFacts ==
  ASSUME NEW T, NEW s \in Seq(T), NEW r \in Seq(T)
  PROVE  s \o r \in Seq(T) /\ Len(s \o r) = Len(s) + Len(r)
  OBVIOUS

LEMMA AppendFacts ==
  ASSUME NEW T, NEW s \in Seq(T), NEW e \in T
  PROVE  Append(s, e) \in Seq(T) /\ Len(Append(s, e)) = Len(s) + 1
  OBVIOUS

LEMMA SetInduction ==
  ASSUME NEW S, 0 \in S, \A n \in Nat : n \in S => n + 1 \in S
  PROVE  \A n \in Nat : n \in S
<1> SUFFICES ASSUME NEW k \in Nat, k \notin S PROVE FALSE
  OBVIOUS
<1> DEFINE R == OpToRel(<, Nat)
           T == {n \in Nat : n \notin S}
<1>1. IsWellFoundedOn(R, Nat)
  BY NatLessThanWellFounded, Zenon
<1>2. T \subseteq Nat /\ T # {}
  OBVIOUS
<1>3. \A a, b \in Nat : a < b => <<a, b>> \in R
  BY DEF OpToRel
<1> HIDE DEF R
<1>4. PICK x \in T : \A y \in T : ~(<<y, x>> \in R)
  BY <1>1, <1>2, WFMin, Zenon
<1>5. x # 0 /\ x \in Nat /\ x \notin S
  OBVIOUS
<1>6. x - 1 \in Nat /\ x - 1 \notin S /\ x - 1 < x
  BY <1>5
<1> QED
  BY <1>3, <1>4, <1>5, <1>6

(* f starts with b and takes the step F from each number to the next. *)
StepsFrom(f, b, m, F) == f[0] = b /\ \A n \in 0 .. m : n # 0 => f[n] = F[<<f[n - 1], n>>]

(* A step function on a set, applied to 0, 1, ..., m - 1 in turn, defines a *)
(* function on 0 .. m.                                                      *)
LEMMA StepsDefineFunction ==
  ASSUME NEW S, NEW b \in S, NEW m \in Nat, NEW F \in [S \X Nat -> S]
  PROVE  \E f \in [0 .. m -> S] : StepsFrom(f, b, m, F)
<1> USE DEF StepsFrom
<1> DEFINE Def(f, k) == StepsFrom(f, b, k, F)
           D == {k \in Nat : \E f \in [0 .. k -> S] : Def(f, k)}
<1>1. 0 \in D
  <2>1. [n \in 0 .. 0 |-> b] \in [0 .. 0 -> S] /\ Def([n \in 0 .. 0 |-> b], 0)
    OBVIOUS
  <2> QED
    BY <2>1
<1>2. ASSUME NEW k \in Nat, k \in D PROVE k + 1 \in D
  <2>1. PICK f \in [0 .. k -> S] : Def(f, k)
    BY <1>2
  <2> DEFINE g == [n \in 0 .. k + 1 |-> IF n = k + 1 THEN F[<<f[k], k + 1>>] ELSE f[n]]
  <2>2. F[<<f[k], k + 1>>] \in S
    <3>1. f[k] \in S
      OBVIOUS
    <3> QED
      BY <3>1
  <2>3. \A n \in 0 .. k + 1 : n # k + 1 => n \in 0 .. k
    OBVIOUS
  <2>4. g \in [0 .. k + 1 -> S]
    BY <2>2, <2>3
  <2>5. \A n \in 0 .. k : g[n] = f[n]
    OBVIOUS
  <2>6. g[k + 1] = F[<<f[k], k + 1>>]
    OBVIOUS
  <2> HIDE DEF g
  <2>7. ASSUME NEW n \in 0 .. k + 1, n # 0 PROVE g[n] = F[<<g[n - 1], n>>]
    <3>1. CASE n = k + 1
      <4>1. n - 1 = k /\ g[n - 1] = f[k]
        BY <3>1, <2>5
      <4> QED
        BY <3>1, <4>1, <2>6
    <3>2. CASE n # k + 1
      <4>1. n \in 0 .. k /\ n - 1 \in 0 .. k
        BY <2>7, <3>2
      <4> QED
        BY <2>1, <2>5, <2>7, <4>1
    <3> QED
      BY <3>1, <3>2
  <2>8. Def(g, k + 1)
    BY <2>1, <2>5, <2>7
  <2> QED
    BY <2>4, <2>8
<1> HIDE DEF D
<1>3. m \in D
  BY <1>1, <1>2, SetInduction
<1> QED
  BY <1>3 DEF D

(* The frames to send are frames of the window.                             *)
(* Frames to send: before one, every frame of the window never sent.        *)
InOrder(ws, s) ==
  \A k \in DOMAIN s : \A x \in 1 .. s[k] - 1 : ws[x].sent \/ \E i \in 1 .. k - 1 : s[i] = x

(* Of the first i frames none that was never sent is left out.              *)
NoneLeft(ws, s, i) == \A x \in 1 .. i : ws[x].sent \/ \E k \in DOMAIN s : s[k] = x

LEMMA OrderedStep ==
  ASSUME NEW ws, NEW m \in Nat, NEW i \in Nat, i + 1 \in 1 .. m, NEW s \in Seq(1 .. m),
         InOrder(ws, s), NoneLeft(ws, s, i)
  PROVE  /\ InOrder(ws, Append(s, i + 1)) /\ NoneLeft(ws, Append(s, i + 1), i + 1)
         /\ ws[i + 1].sent => NoneLeft(ws, s, i + 1)
<1> DEFINE t == Append(s, i + 1)
<1>1. /\ Len(s) \in Nat /\ DOMAIN s = 1 .. Len(s) /\ DOMAIN t = 1 .. Len(s) + 1
      /\ t[Len(s) + 1] = i + 1 /\ \A k \in 1 .. Len(s) : t[k] = s[k]
  OBVIOUS
<1> HIDE DEF t
<1>2. NoneLeft(ws, t, i + 1)
  <2> SUFFICES ASSUME NEW x \in 1 .. i + 1, ~ws[x].sent PROVE \E k \in DOMAIN t : t[k] = x
    BY DEF NoneLeft
  <2>1. CASE x = i + 1
    BY <1>1, <2>1
  <2>2. CASE x # i + 1
    <3>1. x \in 1 .. i
      BY <2>2
    <3>2. PICK k \in DOMAIN s : s[k] = x
      BY <3>1 DEF NoneLeft
    <3>3. QED
      BY <1>1, <3>2
  <2>3. QED
    BY <2>1, <2>2
<1>3. InOrder(ws, t)
  <2> SUFFICES ASSUME NEW k \in DOMAIN t, NEW x \in 1 .. t[k] - 1, ~ws[x].sent
               PROVE  \E j \in 1 .. k - 1 : t[j] = x
    BY DEF InOrder
  <2>1. CASE k = Len(s) + 1
    <3>1. x \in 1 .. i
      BY <1>1, <2>1
    <3>2. PICK j \in DOMAIN s : s[j] = x
      BY <3>1 DEF NoneLeft
    <3>3. QED
      BY <1>1, <2>1, <3>2
  <2>2. CASE k \in DOMAIN s
    <3>1. x \in 1 .. s[k] - 1
      BY <1>1, <2>2
    <3>2. PICK j \in 1 .. k - 1 : s[j] = x
      BY <2>2, <3>1 DEF InOrder
    <3>3. QED
      BY <1>1, <2>2, <3>2
  <2>3. QED
    BY <1>1, <2>1, <2>2
<1>4. ws[i + 1].sent => NoneLeft(ws, s, i + 1)
  BY DEF NoneLeft
<1>5. QED
  BY <1>2, <1>3, <1>4 DEF t

LEMMA UnsentFacts ==
  ASSUME NEW w, WebGood(w), NEW due
  PROVE  /\ Unsent(w, due) \in Seq(1 .. Len(w.window))
         /\ InOrder(w.window, Unsent(w, due))
<1> DEFINE m == Len(w.window)
           J == Seq(1 .. m)
           G(s, i) == IF i \in due \/ ~w.window[i].sent THEN Append(s, i) ELSE s
           F == [x \in J \X Nat |-> IF x[2] \in 1 .. m THEN G(x[1], x[2]) ELSE x[1]]
           Applied(f) == f = [i \in 0 .. m |-> IF i = 0 THEN <<>> ELSE G(f[i - 1], i)]
           h == CHOOSE f : Applied(f)
<1>1. m \in Nat
  BY DEF WebGood
<1>2. \A s \in J, i \in 1 .. m : G(s, i) \in J
  <2>1. \A s \in J, i \in 1 .. m : Append(s, i) \in J
    OBVIOUS
  <2>2. QED
    BY <2>1, Zenon
<1>3. Unsent(w, due) = h[m]
  BY DEF Unsent
<1> HIDE DEF G
<1>4. F \in [J \X Nat -> J]
  BY <1>2
<1>5. \A s \in J, i \in 1 .. m : F[<<s, i>>] = G(s, i)
  BY <1>1
<1>6. <<>> \in J
  OBVIOUS
<1> HIDE DEF m, F, Applied, h, J
<1>7. PICK f \in [0 .. m -> J] : StepsFrom(f, <<>>, m, F)
  BY <1>1, <1>4, <1>6, StepsDefineFunction, Zenon
<1>8. Applied(f)
  <2>1. ASSUME NEW i \in 0 .. m, i # 0 PROVE f[i] = G(f[i - 1], i)
    <3>1. i - 1 \in 0 .. m /\ i \in 1 .. m
      BY <1>1, <2>1
    <3>2. f[i - 1] \in J
      BY <3>1
    <3>3. QED
      BY <1>5, <1>7, <2>1, <3>1, <3>2 DEF StepsFrom
  <2>2. QED
    BY <1>7, <2>1 DEF Applied, StepsFrom
<1>9. Applied(h)
  BY <1>8 DEF h
<1>10. h[0] = <<>> /\ \A i \in 0 .. m : i # 0 => h[i] = G(h[i - 1], i)
  BY <1>1, <1>9 DEF Applied
<1> DEFINE Good(s, i) == s \in J /\ InOrder(w.window, s) /\ NoneLeft(w.window, s, i)
           D == {i \in Nat : i \in 0 .. m => Good(h[i], i)}
<1>11. 0 \in D
  <2>1. InOrder(w.window, <<>>) /\ NoneLeft(w.window, <<>>, 0)
    BY DEF InOrder, NoneLeft
  <2>2. QED
    BY <1>6, <1>10, <2>1
<1>12. ASSUME NEW i \in Nat, i \in D PROVE i + 1 \in D
  <2> SUFFICES ASSUME i + 1 \in 0 .. m PROVE Good(h[i + 1], i + 1)
    OBVIOUS
  <2>1. i \in 0 .. m /\ i + 1 \in 1 .. m /\ i + 1 # 0 /\ (i + 1) - 1 = i
    BY <1>1
  <2> DEFINE s == h[i]
  <2>2. Good(s, i)
    BY <1>12, <2>1
  <2>3. h[i + 1] = G(s, i + 1)
    BY <1>10, <2>1
  <2>4. G(s, i + 1) \in J
    BY <1>2, <2>1, <2>2
  <2> HIDE DEF s
  <2>5. /\ InOrder(w.window, Append(s, i + 1)) /\ NoneLeft(w.window, Append(s, i + 1), i + 1)
        /\ w.window[i + 1].sent => NoneLeft(w.window, s, i + 1)
    BY <1>1, <2>1, <2>2, OrderedStep DEF J
  <2>6. Good(G(s, i + 1), i + 1)
    BY <2>2, <2>4, <2>5, Zenon DEF G
  <2>7. QED
    BY <2>3, <2>6, Zenon
<1> HIDE DEF D
<1>13. m \in D
  BY <1>1, <1>11, <1>12, SetInduction
<1>14. QED
  BY <1>1, <1>3, <1>13 DEF D, m, J

-----------------------------------------------------------------------------
(* The rings: no operation of core 1, and no read, takes room away.         *)

Keeps(t, u) == TermGood(u) /\ (StatusTxRoom(t) => StatusTxRoom(u))

LEMMA RingsKept ==
  ASSUME NEW t, TermGood(t), NEW u \in Rings, Len(u.rx) <= TERM_RX_DEPTH,
         Len(u.tx) <= Len(t.tx), ~u.client => u.tx = <<>>
  PROVE  Keeps(t, u)
<1>1. /\ t.tx \in Seq(Byte) /\ Len(t.tx) <= TERM_TX_DEPTH
      /\ ~t.client => t.tx = <<>>
  BY DEF TermGood, TypedRings, Rings
<1>2. u.tx \in Seq(Byte)
  BY DEF Rings
<1>3. Len(u.tx) <= TERM_TX_DEPTH
  BY <1>1, <1>2, Sizes
<1>4. TermGood(u)
  BY <1>3 DEF TermGood, TypedRings
<1>5. ASSUME StatusTxRoom(t) PROVE Len(u.tx) < TERM_TX_DEPTH
  <2>1. CASE ~t.client
    BY <1>1, <1>2, <2>1, Sizes
  <2>2. CASE Len(t.tx) < TERM_TX_DEPTH
    BY <1>1, <1>2, <2>2, Sizes
  <2>3. QED
    BY <1>5, <2>1, <2>2, Zenon DEF StatusTxRoom
<1>6. QED
  BY <1>4, <1>5, Zenon DEF Keeps, StatusTxRoom

LEMMA SameRings ==
  ASSUME NEW t, TermGood(t)
  PROVE  Keeps(t, t)
  BY Zenon DEF Keeps

LEMMA TermFacts ==
  ASSUME NEW t, TermGood(t)
  PROVE  /\ t \in Rings /\ t.rx \in Bytes /\ t.tx \in Bytes
         /\ Len(t.rx) \in Nat /\ Len(t.tx) \in Nat
         /\ Len(t.rx) <= TERM_RX_DEPTH /\ Len(t.tx) <= TERM_TX_DEPTH
         /\ ~t.client => t.tx = <<>>
  BY DEF TermGood, TypedRings, Rings, Bytes

LEMMA ClearedRings ==
  ASSUME NEW t, TermGood(t), NEW u \in Rings, u.rx = <<>> \/ u.rx = t.rx, u.tx = <<>>
  PROVE  Keeps(t, u)
<1>1. Len(u.rx) <= TERM_RX_DEPTH /\ Len(u.tx) <= Len(t.tx)
  BY TermFacts, Sizes
<1>2. QED
  BY <1>1, RingsKept, Zenon

LEMMA NoBytes == <<>> \in Seq(Byte) /\ <<>> \in Bytes /\ Len(<<>>) = 0
  BY DEF Bytes

LEMMA ConnectKeeps ==
  ASSUME NEW t, TermGood(t)
  PROVE  Keeps(t, browser_connect(t)) /\ Keeps(t, browser_disconnect(t))
<1> DEFINE u == browser_connect(t)
           v == [clear_queues(t) EXCEPT !.browser = FALSE, !.client = t.usb]
<1>1. t \in Rings
  BY TermFacts, Zenon
<1>2. u \in Rings /\ u.rx = <<>> /\ u.tx = <<>>
  BY <1>1, NoBytes, ZenonT(60) DEF browser_connect, clear_queues, Rings
<1>3. v \in Rings /\ v.rx = <<>> /\ v.tx = <<>>
  BY <1>1, NoBytes, ZenonT(60) DEF clear_queues, Rings
<1> HIDE DEF u, v
<1>4. Keeps(t, u) /\ Keeps(t, v)
  BY <1>2, <1>3, ClearedRings, Zenon
<1>5. browser_disconnect(t) = v \/ browser_disconnect(t) = t
  BY Zenon DEF browser_disconnect, v
<1>6. QED
  BY <1>4, <1>5, SameRings, Zenon DEF u

LEMMA UsbKeeps ==
  ASSUME NEW t, TermGood(t)
  PROVE  /\ \A b \in BOOLEAN : Keeps(t, set_connected(t, b))
         /\ Keeps(t, usb_connected(t, ~t.usb))
<1>1. t \in Rings /\ (~t.client => t.tx = <<>>) /\ Len(t.rx) <= TERM_RX_DEPTH
      /\ Len(t.tx) \in Nat
  BY TermFacts, Zenon
<1>2. Keeps(t, set_connected(t, TRUE))
  <2> DEFINE u == [t EXCEPT !.client = TRUE]
  <2>1. u \in Rings /\ u.rx = t.rx /\ u.tx = t.tx /\ u.client = TRUE
    BY <1>1 DEF Rings
  <2> HIDE DEF u
  <2>2. Len(u.tx) <= Len(t.tx) /\ Len(u.rx) <= TERM_RX_DEPTH
    BY <1>1, <2>1
  <2>3. Keeps(t, u)
    BY <2>1, <2>2, RingsKept, Zenon
  <2>4. QED
    BY <2>3, Zenon DEF set_connected, u
<1>3. Keeps(t, set_connected(t, FALSE))
  <2> DEFINE u == [t EXCEPT !.client = FALSE, !.tx = <<>>, !.tx_pending = FALSE]
  <2>1. u \in Rings /\ u.rx = t.rx /\ u.tx = <<>>
    BY <1>1, NoBytes, ZenonT(60) DEF Rings
  <2> HIDE DEF u
  <2>2. Keeps(t, u)
    BY <2>1, ClearedRings, Zenon
  <2>3. QED
    BY <2>2, Zenon DEF set_connected, u
<1>4. CASE t.browser
  <2> DEFINE u == [t EXCEPT !.usb = ~t.usb]
  <2>1. u \in Rings /\ u.rx = t.rx /\ u.tx = t.tx /\ u.client = t.client
    BY <1>1 DEF Rings
  <2> HIDE DEF u
  <2>2. Len(u.tx) <= Len(t.tx) /\ Len(u.rx) <= TERM_RX_DEPTH /\ (~u.client => u.tx = <<>>)
    BY <1>1, <2>1
  <2>3. Keeps(t, u)
    BY <2>1, <2>2, RingsKept, Zenon
  <2>4. QED
    BY <1>2, <1>3, <1>4, <2>3, Zenon DEF usb_connected, u
<1>5. CASE ~t.browser
  <2> DEFINE u == [clear_queues(t) EXCEPT !.client = ~t.usb, !.usb = ~t.usb]
  <2>1. u \in Rings /\ u.rx = <<>> /\ u.tx = <<>>
    BY <1>1, NoBytes, ZenonT(60) DEF Rings, clear_queues
  <2>2. usb_connected(t, ~t.usb) = u
    <3>1. t.usb # ~t.usb
      BY <1>1, Zenon DEF Rings
    <3>2. QED
      BY <1>5, <3>1, Zenon DEF usb_connected
  <2> HIDE DEF u
  <2>3. Keeps(t, u)
    BY <2>1, ClearedRings, Zenon
  <2>4. QED
    BY <1>2, <1>3, <2>2, <2>3, Zenon
<1>6. QED
  BY <1>4, <1>5, Zenon

LEMMA ReceiveKeeps ==
  ASSUME NEW t, TermGood(t), NEW rx \in Bytes, Len(rx) <= TERM_RX_DEPTH
  PROVE  Keeps(t, [t EXCEPT !.rx = rx])
<1> DEFINE u == [t EXCEPT !.rx = rx]
<1>1. t \in Rings /\ (~t.client => t.tx = <<>>) /\ Len(t.tx) \in Nat
  BY TermFacts, Zenon
<1>2. u \in Rings /\ u.rx = rx /\ u.tx = t.tx /\ u.client = t.client
  BY <1>1 DEF Rings, Bytes
<1> HIDE DEF u
<1>3. Len(u.tx) <= Len(t.tx) /\ Len(u.rx) <= TERM_RX_DEPTH /\ (~u.client => u.tx = <<>>)
  BY <1>1, <1>2
<1>4. QED
  BY <1>2, <1>3, RingsKept, Zenon DEF u

LEMMA InputKeeps ==
  ASSUME NEW t, TermGood(t)
  PROVE  /\ t.rx # <<>> => Keeps(t, io_read(t))
         /\ \A b \in Byte : Keeps(t, receive(t, b)) /\ Keeps(t, usb_receive(t, b))
         /\ \A data \in Bytes : Keeps(t, browser_try_receive(t, data))
<1>1. t.rx \in Seq(Byte) /\ Len(t.rx) <= TERM_RX_DEPTH
  BY TermFacts, Zenon DEF Bytes
<1>2. ASSUME t.rx # <<>> PROVE Keeps(t, io_read(t))
  <2>1. Tail(t.rx) \in Bytes /\ Len(Tail(t.rx)) <= TERM_RX_DEPTH
    BY <1>1, <1>2, Sizes DEF Bytes
  <2>2. io_read(t) = [t EXCEPT !.rx = Tail(t.rx)]
    BY <1>2, Zenon DEF io_read
  <2>3. QED
    BY <2>1, <2>2, ReceiveKeeps, Zenon
<1>3. ASSUME NEW b \in Byte PROVE Keeps(t, receive(t, b)) /\ Keeps(t, usb_receive(t, b))
  <2>1. ReceiveOne(t.rx, b) \in Bytes /\ Len(ReceiveOne(t.rx, b)) <= TERM_RX_DEPTH
    BY <1>1, Sizes DEF ReceiveOne, Bytes
  <2>2. Keeps(t, receive(t, b))
    BY <2>1, ReceiveKeeps, Zenon DEF receive
  <2>3. QED
    BY <2>2, SameRings, Zenon DEF usb_receive
<1>4. ASSUME NEW data \in Bytes PROVE Keeps(t, browser_try_receive(t, data))
  <2>1. CASE ~BrowserAccepts(t, data)
    BY <2>1, SameRings, Zenon DEF browser_try_receive
  <2>2. CASE BrowserAccepts(t, data)
    <3>1. t.rx \o data \in Bytes /\ Len(t.rx \o data) <= TERM_RX_DEPTH
      BY <1>1, <2>2, Sizes DEF BrowserAccepts, Bytes
    <3>2. browser_try_receive(t, data) = [t EXCEPT !.rx = t.rx \o data]
      BY <2>2, Zenon DEF browser_try_receive
    <3>3. QED
      BY <3>1, <3>2, ReceiveKeeps, Zenon
  <2>3. QED
    BY <2>1, <2>2, Zenon
<1>5. QED
  BY <1>2, <1>3, <1>4, Zenon

LEMMA SupplyKeeps ==
  ASSUME NEW t, TermGood(t), NEW n \in Nat
  PROVE  Keeps(t, supply(t, n)) /\ peek(t, n) \in Bytes /\ Len(peek(t, n)) <= n
<1> DEFINE left == Rest(t.tx, n)
           u == [t EXCEPT !.tx = left, !.tx_pending = left # <<>>]
<1>1. t \in Rings /\ t.tx \in Bytes /\ Len(t.rx) <= TERM_RX_DEPTH /\ (~t.client => t.tx = <<>>)
  BY TermFacts, Zenon
<1>2. left \in Bytes /\ Len(left) <= Len(t.tx)
  BY <1>1, RestFacts DEF Bytes
<1> HIDE DEF left
<1>3. u \in Rings /\ u.rx = t.rx /\ u.tx = left /\ u.client = t.client
  BY <1>1, <1>2 DEF Rings, Bytes
<1> HIDE DEF u
<1>4. ~u.client => u.tx = <<>>
  BY <1>1, <1>2, <1>3 DEF Bytes
<1>5. Keeps(t, u)
  BY <1>1, <1>2, <1>3, <1>4, RingsKept, Zenon
<1>6. supply(t, n) = u \/ supply(t, n) = t
  BY Zenon DEF supply, u, left
<1>7. peek(t, n) \in Bytes /\ Len(peek(t, n)) <= n
  <2>1. <<>> \in Bytes /\ Len(<<>>) <= n
    BY DEF Bytes
  <2>2. First(t.tx, n) \in Bytes /\ Len(First(t.tx, n)) <= n
    BY <1>1, FirstFacts DEF Bytes
  <2>3. QED
    BY <2>1, <2>2, Zenon DEF peek
<1>8. QED
  BY <1>5, <1>6, <1>7, SameRings, Zenon

-----------------------------------------------------------------------------
(* The session.                                                             *)

LEMMA WebFacts ==
  ASSUME NEW w, WebGood(w)
  PROVE  /\ DOMAIN w = WebFields /\ w.active \in Conns \cup {None}
         /\ w.window \in Seq(Frames) /\ Len(w.window) \in Nat /\ Len(w.window) <= OUTPUT_WINDOW
         /\ w.staged \in Bytes /\ Len(w.staged) \in Nat /\ Len(w.staged) < FRAME_BYTES
         /\ w.pending_input \in Bytes /\ Len(w.pending_input) <= INPUT_BYTES
         /\ w.missed \in 0 .. MaxMissedPongs
         /\ w.in_seq \in Int /\ w.out_seq \in Int /\ w.ping_seq \in Int
  BY DEF WebGood, Bytes

(* Flags may change freely. *)
LEMMA FlagsAreFree ==
  ASSUME NEW w, WebGood(w), NEW v, DOMAIN v = WebFields, v.active \in Conns \cup {None},
         v.window = w.window, v.staged = w.staged, v.pending_input = w.pending_input,
         v.missed = w.missed, v.in_seq = w.in_seq, v.out_seq = w.out_seq,
         v.ping_seq = w.ping_seq
  PROVE  WebGood(v)
  BY Zenon DEF WebGood

LEMMA ResetWeb ==
  ASSUME NEW w, WebGood(w)
  PROVE  WebGood(reset_session(w)) /\ reset_session(w).active = w.active
<1> DEFINE v == reset_session(w)
<1>1. DOMAIN w = WebFields
  BY WebFacts, Zenon
<1>2. DOMAIN FreshSession = {"ready", "out_seq", "window", "staged", "in_seq", "pending_input",
                             "ack_pending", "awaiting", "activity", "missed"}
  BY Zenon DEF FreshSession
<1>3. /\ DOMAIN v = WebFields
      /\ \A x \in WebFields : v[x] = IF x \in DOMAIN FreshSession THEN FreshSession[x] ELSE w[x]
  BY <1>1, Zenon DEF reset_session, Session
<1> HIDE DEF v
<1>4. v.active = w.active /\ v.ping_seq = w.ping_seq
  BY <1>2, <1>3, ZenonT(60) DEF WebFields
<1>5. /\ v.window = <<>> /\ v.staged = <<>> /\ v.pending_input = <<>> /\ v.missed = 0
      /\ v.in_seq = 1 /\ v.out_seq = 1
  <2>1. /\ FreshSession.window = <<>> /\ FreshSession.staged = <<>>
        /\ FreshSession.pending_input = <<>> /\ FreshSession.missed = 0
        /\ FreshSession.in_seq = 1 /\ FreshSession.out_seq = 1
    BY Zenon DEF FreshSession
  <2>2. QED
    BY <1>2, <1>3, <2>1, ZenonT(60) DEF WebFields
<1>6. /\ <<>> \in Seq(Frames) /\ <<>> \in Bytes
      /\ Len(<<>>) <= OUTPUT_WINDOW /\ Len(<<>>) < FRAME_BYTES /\ Len(<<>>) <= INPUT_BYTES
      /\ 0 \in 0 .. MaxMissedPongs /\ 1 \in Int
  BY Sizes DEF Bytes
<1>7. WebGood(v)
  BY <1>3, <1>4, <1>5, <1>6, WebFacts, Zenon DEF WebGood
<1>8. QED
  BY <1>4, <1>7, Zenon DEF v

LEMMA NotedWeb ==
  ASSUME NEW w, WebGood(w), NEW v, v = note_browser_activity(w)
  PROVE  /\ WebGood(v) /\ v.active = w.active /\ v.window = w.window
         /\ v.pending_input = w.pending_input /\ v.in_seq = w.in_seq
<1>1. DOMAIN w = WebFields
  BY WebFacts, Zenon
<1>2. /\ DOMAIN v = WebFields /\ v.active = w.active
      /\ v.window = w.window /\ v.staged = w.staged /\ v.pending_input = w.pending_input
      /\ v.missed = 0 /\ v.in_seq = w.in_seq /\ v.out_seq = w.out_seq
      /\ v.ping_seq = w.ping_seq
  BY <1>1, ZenonT(60) DEF note_browser_activity, WebFields
<1>3. 0 \in 0 .. MaxMissedPongs
  BY Sizes
<1>4. QED
  BY <1>2, <1>3, Zenon DEF WebGood

-----------------------------------------------------------------------------
(* Channels and pages.                                                      *)

LEMMA ChannelFacts ==
  ASSUME NEW n, NetGood(n), NEW c \in Conns
  PROVE  /\ DOMAIN n[c] = {"state", "up", "down"}
         /\ n[c].up \in Seq(InputMessages) /\ Len(n[c].up) \in Nat
         /\ n[c].down \in Seq(Messages) /\ Len(n[c].down) \in Nat
         /\ Len(n[c].up) <= ChannelDepth /\ Len(n[c].down) <= ChannelDepth
  BY DEF NetGood, ChannelGood

LEMMA NetSet ==
  ASSUME NEW n, NetGood(n), NEW c, NEW ch, c \in Conns => ChannelGood(ch)
  PROVE  NetGood([n EXCEPT ![c] = ch])
  BY ZenonT(60) DEF NetGood

LEMMA FreshChannel ==
  ASSUME NEW state
  PROVE  ChannelGood(Channel(state))
<1>1. /\ <<>> \in Seq(InputMessages) /\ <<>> \in Seq(Messages) /\ Len(<<>>) <= ChannelDepth
  BY Sizes
<1>2. QED
  BY <1>1, ZenonT(60) DEF ChannelGood, Channel

LEMMA ChannelSet ==
  ASSUME NEW n, NetGood(n), NEW c \in Conns, NEW ch,
         NEW state, NEW up \in Seq(InputMessages), NEW down \in Seq(Messages),
         Len(up) <= ChannelDepth, Len(down) <= ChannelDepth,
         DOMAIN ch = {"state", "up", "down"}, ch.state = state, ch.up = up, ch.down = down
  PROVE  NetGood([n EXCEPT ![c] = ch])
<1>1. ChannelGood(ch)
  BY Zenon DEF ChannelGood
<1>2. QED
  BY <1>1, NetSet, Zenon

LEMMA NetUp ==
  ASSUME NEW n, NetGood(n), NEW c \in Conns, NEW up \in Seq(InputMessages),
         Len(up) <= ChannelDepth
  PROVE  NetGood([n EXCEPT ![c].up = up])
<1> DEFINE ch == [n[c] EXCEPT !.up = up]
<1>1. [n EXCEPT ![c].up = up] = [n EXCEPT ![c] = ch]
  OBVIOUS
<1>2. DOMAIN ch = {"state", "up", "down"} /\ ch.up = up /\ ch.down = n[c].down
  BY ChannelFacts, ZenonT(60)
<1> HIDE DEF ch
<1>3. NetGood([n EXCEPT ![c] = ch])
  BY <1>2, ChannelFacts, ChannelSet, Zenon
<1>4. QED
  BY <1>1, <1>3, Zenon

LEMMA NetDown ==
  ASSUME NEW n, NetGood(n), NEW c, NEW down,
         c \in Conns => down \in Seq(Messages) /\ Len(down) <= ChannelDepth
  PROVE  NetGood([n EXCEPT ![c].down = down])
<1> DEFINE ch == [n[c] EXCEPT !.down = down]
<1>1. [n EXCEPT ![c].down = down] = [n EXCEPT ![c] = ch]
  OBVIOUS
<1>2. CASE c \in Conns
  <2>1. DOMAIN ch = {"state", "up", "down"} /\ ch.up = n[c].up /\ ch.down = down
    BY <1>2, ChannelFacts, ZenonT(60)
  <2> HIDE DEF ch
  <2>2. NetGood([n EXCEPT ![c] = ch])
    BY <1>2, <2>1, ChannelFacts, ChannelSet, Zenon
  <2>3. QED
    BY <1>1, <2>2, Zenon
<1>3. CASE c \notin Conns
  BY <1>1, <1>3, NetSet, Zenon
<1>4. QED
  BY <1>2, <1>3, Zenon

LEMMA NetState ==
  ASSUME NEW n, NetGood(n), NEW c \in Conns, NEW state
  PROVE  NetGood([n EXCEPT ![c].state = state])
<1> DEFINE ch == [n[c] EXCEPT !.state = state]
<1>1. [n EXCEPT ![c].state = state] = [n EXCEPT ![c] = ch]
  OBVIOUS
<1>2. DOMAIN ch = {"state", "up", "down"} /\ ch.up = n[c].up /\ ch.down = n[c].down
  BY ChannelFacts, ZenonT(60)
<1> HIDE DEF ch
<1>3. NetGood([n EXCEPT ![c] = ch])
  BY <1>2, ChannelFacts, ChannelSet, Zenon
<1>4. QED
  BY <1>1, <1>3, Zenon

LEMMA SendKeeps ==
  ASSUME NEW n, NetGood(n), NEW c, NEW m \in Messages
  PROVE  NetGood(Send(n, c, m))
<1>1. CASE ~Room(n, c)
  BY <1>1, Zenon DEF Send
<1>2. CASE Room(n, c)
  <2> DEFINE down == Append(n[c].down, m)
  <2>1. ASSUME c \in Conns PROVE down \in Seq(Messages) /\ Len(down) <= ChannelDepth
    <3>1. n[c].down \in Seq(Messages) /\ Len(n[c].down) \in Nat /\ Len(n[c].down) < ChannelDepth
      BY <1>2, <2>1, ChannelFacts, Zenon DEF Room
    <3>2. QED
      BY <3>1, Sizes
  <2>2. Send(n, c, m) = [n EXCEPT ![c].down = down]
    BY <1>2 DEF Send
  <2> HIDE DEF down
  <2>3. NetGood([n EXCEPT ![c].down = down])
    BY <2>1, NetDown
  <2>4. QED
    BY <2>2, <2>3, Zenon
<1>3. QED
  BY <1>1, <1>2, Zenon

LEMMA ControlIsMessage ==
  ASSUME NEW t \in Types, NEW n \in Int
  PROVE  Control(t, n) \in Messages /\ Control(t, n) \in InputMessages
<1>1. Control(t, n) \in Messages /\ Control(t, n).data = <<>>
  BY NoBytes, ZenonT(60) DEF Control, Message, Messages
<1>2. Len(<<>>) <= INPUT_BYTES
  BY Sizes
<1>3. QED
  BY <1>1, <1>2, Zenon DEF InputMessages

LEMMA PageSet ==
  ASSUME NEW ps, PagesGood(ps), NEW c \in Conns, NEW p, PageGood(p)
  PROVE  PagesGood([ps EXCEPT ![c] = p])
  BY ZenonT(60) DEF PagesGood

LEMMA FreshPage == PageGood(ResetPage)
<1>1. <<>> \in Seq(Messages) /\ 1 \in Int /\ Len(<<>>) <= INPUT_BYTES
  BY Sizes
<1>2. QED
  BY <1>1, NoBytes, ZenonT(60) DEF PageGood, ResetPage, PageFields

-----------------------------------------------------------------------------
(* Steps that leave the status poll alone.                                  *)

LEMMA StepIsSound ==
  ASSUME RoomInv, setup' = setup,
         term' = term \/ Keeps(term, term'), web' = web \/ WebGood(web'),
         net' = net \/ NetGood(net'), page' = page \/ PagesGood(page'),
         peeked' = peeked \/ peeked' \in Bytes,
         z80' = z80 \/ (/\ Z80Good(z80') /\ z80'.step = z80.step /\ z80'.client = z80.client
                        /\ z80'.room = z80.room)
  PROVE  RoomInv'
<1>1. TermGood(term') /\ (StatusTxRoom(term) => StatusTxRoom(term'))
  BY Zenon DEF Keeps, RoomInv
<1>2. Z80Good(z80') /\ Promised(z80, term)
  BY Zenon DEF RoomInv
<1>3. z80'.step = z80.step /\ z80'.client = z80.client /\ z80'.room = z80.room
  BY Zenon
<1>4. Promised(z80', term')
  BY <1>1, <1>2, <1>3, Zenon DEF Promised
<1>5. WebGood(web') /\ NetGood(net') /\ PagesGood(page') /\ peeked' \in Bytes /\ setup' \in Setups
  BY Zenon DEF RoomInv
<1>6. QED
  BY <1>1, <1>2, <1>4, <1>5, Zenon DEF RoomInv

(* Network callbacks.                                                       *)

LEMMA ConnectIsSound ==
  ASSUME RoomInv, NEW c \in Conns, on_connect(c)
  PROVE  RoomInv'
<1>1. NetGood(net) /\ WebGood(web)
  BY Zenon DEF RoomInv
<1>2. net' = [net EXCEPT ![c].state = "open"] \/ net' = [net EXCEPT ![c].state = "aborted"]
  BY Zenon DEF on_connect
<1>3. NetGood(net')
  <2>1. /\ NetGood([net EXCEPT ![c].state = "open"])
        /\ NetGood([net EXCEPT ![c].state = "aborted"])
    BY <1>1, NetState
  <2>2. QED
    BY <1>2, <2>1, Zenon
<1>4. web' = [web EXCEPT !.active = c, !.connected = TRUE] \/ web' = web
  BY Zenon DEF on_connect
<1>5. CASE web' = [web EXCEPT !.active = c, !.connected = TRUE]
  <2>1. /\ DOMAIN web' = WebFields /\ web'.active = c
        /\ web'.window = web.window /\ web'.staged = web.staged
        /\ web'.pending_input = web.pending_input /\ web'.missed = web.missed
        /\ web'.in_seq = web.in_seq /\ web'.out_seq = web.out_seq
        /\ web'.ping_seq = web.ping_seq
    BY <1>1, <1>5, WebFacts, ZenonT(60) DEF WebFields
  <2>2. WebGood(web')
    BY <1>1, <2>1, FlagsAreFree, Zenon
  <2>3. QED
    BY <1>3, <2>2, StepIsSound, Zenon DEF on_connect
<1>6. CASE web' = web
  BY <1>3, <1>6, StepIsSound, Zenon DEF on_connect
<1>7. QED
  BY <1>4, <1>5, <1>6, Zenon

LEMMA ClosedIsSound ==
  ASSUME RoomInv, NEW c \in Conns, Closed(c)
  PROVE  RoomInv'
<1> DEFINE v == on_close_details(web, c)
           u == on_close(v, c)
<1>1. NetGood(net) /\ WebGood(web) /\ None \in Conns \cup {None}
  BY Zenon DEF RoomInv
<1>2. net' = [net EXCEPT ![c] = Channel("closed")] /\ web' = u
  BY Zenon DEF Closed
<1>3. NetGood(net')
  BY <1>1, <1>2, FreshChannel, NetSet, Zenon
<1>4. /\ DOMAIN v = WebFields /\ v.active = web.active
      /\ v.window = web.window /\ v.staged = web.staged
      /\ v.pending_input = web.pending_input /\ v.missed = web.missed
      /\ v.in_seq = web.in_seq /\ v.out_seq = web.out_seq /\ v.ping_seq = web.ping_seq
  BY <1>1, WebFacts, ZenonT(60) DEF WebFields, on_close_details
<1>5. WebGood(v)
  BY <1>1, <1>4, WebFacts, FlagsAreFree, Zenon
<1> HIDE DEF v
<1>6. /\ DOMAIN u = WebFields /\ u.active \in {v.active, None}
      /\ u.window = v.window /\ u.staged = v.staged
      /\ u.pending_input = v.pending_input /\ u.missed = v.missed
      /\ u.in_seq = v.in_seq /\ u.out_seq = v.out_seq /\ u.ping_seq = v.ping_seq
  BY <1>4, ZenonT(60) DEF WebFields, on_close
<1> HIDE DEF u
<1>7. WebGood(u)
  BY <1>1, <1>5, <1>6, WebFacts, FlagsAreFree, Zenon
<1>8. QED
  BY <1>2, <1>3, <1>7, StepIsSound, Zenon DEF Closed

LEMMA DisconnectIsSound ==
  ASSUME RoomInv, disconnect_client, UNCHANGED <<setup, peeked, z80>>
  PROVE  RoomInv'
<1> DEFINE v == reset_session(web)
           u == Disconnected(web)
<1>1. NetGood(net) /\ WebGood(web) /\ PagesGood(page) /\ TermGood(term)
  BY Zenon DEF RoomInv
<1>2. WebGood(v)
  BY <1>1, ResetWeb, Zenon
<1>3. DOMAIN v = WebFields
  BY <1>2, WebFacts, Zenon
<1>4. u = [v EXCEPT !.active = None, !.connected = FALSE, !.disconnected = FALSE,
             !.last = IF web.active # None THEN web.active ELSE v.last,
             !.details = IF web.active # None THEN None ELSE v.details]
  BY <1>3, Zenon DEF Disconnected, WebFields
<1> HIDE DEF v, u
<1>5. /\ DOMAIN u = WebFields /\ u.active = None
      /\ u.window = v.window /\ u.staged = v.staged
      /\ u.pending_input = v.pending_input /\ u.missed = v.missed
      /\ u.in_seq = v.in_seq /\ u.out_seq = v.out_seq /\ u.ping_seq = v.ping_seq
  BY <1>3, <1>4, ZenonT(60) DEF WebFields
<1>6. None \in Conns \cup {None}
  BY Zenon
<1>7. WebGood(u)
  BY <1>2, <1>5, <1>6, FlagsAreFree, Zenon
<1>8. web' = u
  BY Zenon DEF disconnect_client, u
<1>9. net' = net \/ NetGood(net')
  <2>1. CASE web.active # None
    <3>1. net' = [net EXCEPT ![web.active] = Channel("aborted")]
      BY <2>1, Zenon DEF disconnect_client, Abort
    <3>2. QED
      BY <1>1, <3>1, FreshChannel, NetSet, Zenon
  <2>2. CASE web.active = None
    BY <2>2, Zenon DEF disconnect_client
  <2>3. QED
    BY <2>1, <2>2, Zenon
<1>10. page' = page \/ PagesGood(page')
  <2>1. CASE web.active # None
    <3>1. page' = [page EXCEPT ![web.active] = ResetPage] /\ web.active \in Conns
      BY <1>1, <2>1, WebFacts, Zenon DEF disconnect_client
    <3>2. QED
      BY <1>1, <3>1, FreshPage, PageSet, Zenon
  <2>2. CASE web.active = None
    BY <2>2, Zenon DEF disconnect_client
  <2>3. QED
    BY <2>1, <2>2, Zenon
<1>11. Keeps(term, term')
  BY <1>1, ConnectKeeps, Zenon DEF disconnect_client
<1>12. QED
  BY <1>7, <1>8, <1>9, <1>10, <1>11, StepIsSound, Zenon

(* The poll.                                                                *)

LEMMA KeepsTwice ==
  ASSUME NEW t, NEW u, NEW v, Keeps(t, u), Keeps(u, v)
  PROVE  Keeps(t, v)
  BY Zenon DEF Keeps

LEMMA EventsAreSound ==
  ASSUME RoomInv
  PROVE  WebGood(AfterEvents.web) /\ Keeps(term, AfterEvents.term)
<1> DEFINE connect == web.connected /\ web.active # None
           w == IF web.disconnected \/ connect THEN reset_session(web) ELSE web
           v == [w EXCEPT !.disconnected = FALSE, !.connected = FALSE]
           t == IF web.disconnected THEN browser_disconnect(term) ELSE term
           u == IF connect THEN browser_connect(t) ELSE t
<1>1. WebGood(web) /\ TermGood(term)
  BY Zenon DEF RoomInv
<1>2. AfterEvents.web = v /\ AfterEvents.term = u
  BY ZenonT(60) DEF AfterEvents
<1>3. WebGood(w)
  BY <1>1, ResetWeb, Zenon
<1>4. Keeps(term, t) /\ TermGood(t)
  BY <1>1, ConnectKeeps, SameRings, Zenon DEF Keeps
<1> HIDE DEF w, t, connect
<1>5. Keeps(term, u)
  BY <1>4, ConnectKeeps, KeepsTwice, Zenon
<1>6. /\ DOMAIN v = WebFields /\ v.active = w.active
      /\ v.window = w.window /\ v.staged = w.staged
      /\ v.pending_input = w.pending_input /\ v.missed = w.missed
      /\ v.in_seq = w.in_seq /\ v.out_seq = w.out_seq /\ v.ping_seq = w.ping_seq
  BY <1>3, WebFacts, ZenonT(60) DEF WebFields
<1> HIDE DEF v, u
<1>7. WebGood(v)
  BY <1>3, <1>6, WebFacts, FlagsAreFree, Zenon
<1>8. QED
  BY <1>2, <1>5, <1>7, Zenon

LEMMA PollOnlineIsSound ==
  ASSUME RoomInv, PollOnline
  PROVE  RoomInv'
<1>1. WebGood(web') /\ Keeps(term, term')
  BY EventsAreSound, Zenon DEF PollOnline, process_events
<1>2. QED
  BY <1>1, StepIsSound, Zenon DEF PollOnline

LEMMA ArrivedIsSound ==
  ASSUME RoomInv, NEW c \in Conns, net[c].up # <<>>
  PROVE  NetGood(Arrived(c)) /\ Head(net[c].up) \in InputMessages
<1>1. NetGood(net)
  BY Zenon DEF RoomInv
<1>2. net[c].up \in Seq(InputMessages) /\ Len(net[c].up) <= ChannelDepth
  BY <1>1, ChannelFacts, Zenon
<1>3. /\ Tail(net[c].up) \in Seq(InputMessages) /\ Len(Tail(net[c].up)) <= ChannelDepth
      /\ Head(net[c].up) \in InputMessages
  BY <1>2, Sizes
<1>4. Arrived(c) = [net EXCEPT ![c].up = Tail(net[c].up)]
  BY DEF Arrived
<1>5. NetGood([net EXCEPT ![c].up = Tail(net[c].up)])
  BY <1>1, <1>3, NetUp
<1>6. QED
  BY <1>3, <1>4, <1>5, Zenon

LEMMA ReadyIsSound ==
  ASSUME RoomInv, NEW c \in Conns, OnReady(c)
  PROVE  RoomInv'
<1> DEFINE v == note_browser_activity(web)
<1>1. WebGood(web) /\ NetGood(net')
  BY ArrivedIsSound, Zenon DEF OnReady, Take, RoomInv
<1>2. WebGood(v) /\ web' = [v EXCEPT !.ready = TRUE]
  BY <1>1, NotedWeb, Zenon DEF OnReady
<1> HIDE DEF v
<1>3. /\ DOMAIN web' = WebFields /\ web'.active = v.active
      /\ web'.window = v.window /\ web'.staged = v.staged
      /\ web'.pending_input = v.pending_input /\ web'.missed = v.missed
      /\ web'.in_seq = v.in_seq /\ web'.out_seq = v.out_seq /\ web'.ping_seq = v.ping_seq
  BY <1>2, WebFacts, ZenonT(60) DEF WebFields
<1>4. WebGood(web')
  BY <1>2, <1>3, WebFacts, FlagsAreFree, Zenon
<1>5. QED
  BY <1>1, <1>4, StepIsSound, Zenon DEF OnReady

LEMMA PongIsSound ==
  ASSUME RoomInv, NEW c \in Conns, OnPong(c)
  PROVE  RoomInv'
<1> DEFINE v == [web EXCEPT !.awaiting = FALSE, !.missed = 0, !.activity = FALSE]
<1>1. WebGood(web) /\ NetGood(net')
  BY ArrivedIsSound, Zenon DEF OnPong, Take, RoomInv
<1>2. /\ DOMAIN v = WebFields /\ v.active = web.active
      /\ v.window = web.window /\ v.staged = web.staged
      /\ v.pending_input = web.pending_input /\ v.missed = 0
      /\ v.in_seq = web.in_seq /\ v.out_seq = web.out_seq /\ v.ping_seq = web.ping_seq
  BY <1>1, WebFacts, ZenonT(60) DEF WebFields
<1>3. 0 \in 0 .. MaxMissedPongs
  BY Sizes
<1>4. web' = v \/ web' = note_browser_activity(web)
  BY Zenon DEF OnPong
<1> HIDE DEF v
<1>5. WebGood(v)
  BY <1>1, <1>2, <1>3, Zenon DEF WebGood
<1>6. WebGood(web')
  BY <1>1, <1>4, <1>5, NotedWeb, Zenon
<1>7. QED
  BY <1>1, <1>6, StepIsSound, Zenon DEF OnPong

LEMMA LeastNumber ==
  ASSUME NEW S \in SUBSET Nat, S # {}
  PROVE  \E x \in S : \A y \in S : x =< y
<1> DEFINE R == OpToRel(<, Nat)
<1>1. IsWellFoundedOn(R, Nat)
  BY NatLessThanWellFounded, Zenon
<1>2. \A a, b \in Nat : a < b => <<a, b>> \in R
  BY DEF OpToRel
<1> HIDE DEF R
<1>3. \E x \in S : \A y \in S : ~(<<y, x>> \in R)
  BY <1>1, WFMin, Zenon
<1>4. PICK x \in S : \A y \in S : ~(<<y, x>> \in R)
  BY <1>3, Zenon
<1>5. \A y \in S : ~(y < x)
  BY <1>2, <1>4, Zenon
<1>6. x \in Nat /\ \A y \in S : y \in Nat
  OBVIOUS
<1>7. \A y \in S : x =< y
  BY <1>5, <1>6
<1>8. QED
  BY <1>7, Zenon

(* An acknowledgement drops frames from the front of the window. *)
LEMMA OutputAckIsSound ==
  ASSUME RoomInv, NEW c \in Conns, OnOutputAck(c)
  PROVE  RoomInv'
<1> DEFINE v == note_browser_activity(web)
           seq == Head(net[c].up).seq
           hit == {i \in DOMAIN web.window : web.window[i].sent /\ web.window[i].seq = seq}
           k == CHOOSE i \in hit : \A j \in hit : i <= j
           left == IF hit = {} THEN v.window ELSE Rest(v.window, k)
<1>1. WebGood(web) /\ NetGood(net')
  BY ArrivedIsSound, Zenon DEF OnOutputAck, Take, RoomInv
<1>2. WebGood(v) /\ v.window = web.window
  BY <1>1, NotedWeb, Zenon
<1>3. DOMAIN v = WebFields
  BY <1>2, WebFacts, Zenon
<1>4. web' = [v EXCEPT !.window = left]
  BY <1>3, Zenon DEF OnOutputAck, WebFields
<1>5. web.window \in Seq(Frames) /\ Len(web.window) <= OUTPUT_WINDOW
  BY <1>1, WebFacts, Zenon
<1>6. hit \in SUBSET Nat
  BY <1>5
<1> HIDE DEF hit
<1>7. hit # {} => k \in Nat
  BY <1>6, LeastNumber
<1> HIDE DEF k, v
<1>8. left \in Seq(Frames) /\ Len(left) <= OUTPUT_WINDOW
  <2>1. CASE hit = {}
    BY <1>2, <1>5, <2>1
  <2>2. CASE hit # {}
    <3>1. Rest(web.window, k) \in Seq(Frames) /\ Len(Rest(web.window, k)) <= Len(web.window)
      BY <1>5, <1>7, <2>2, RestFacts
    <3>2. QED
      BY <1>2, <1>5, <2>2, <3>1, Sizes
  <2>3. QED
    BY <2>1, <2>2, Zenon
<1> HIDE DEF left
<1>9. /\ DOMAIN web' = WebFields /\ web'.active = v.active
      /\ web'.window = left /\ web'.staged = v.staged
      /\ web'.pending_input = v.pending_input /\ web'.missed = v.missed
      /\ web'.in_seq = v.in_seq /\ web'.out_seq = v.out_seq /\ web'.ping_seq = v.ping_seq
  BY <1>3, <1>4, ZenonT(60) DEF WebFields
<1>10. WebGood(web')
  BY <1>2, <1>8, <1>9, Zenon DEF WebGood
<1>11. QED
  BY <1>1, <1>10, StepIsSound, Zenon DEF OnOutputAck

(* Input enters the ring whole, or stays pending. *)
LEMMA RetryKeeps ==
  ASSUME NEW w, WebGood(w), NEW n, NetGood(n)
  PROVE  NetGood(RetryAck(w, n))
<1>1. Minus(w.in_seq, 1) \in Int /\ "INPUT_ACK" \in Types
  <2>1. w.in_seq \in Int /\ 1 \in Int
    BY WebFacts
  <2>2. QED
    BY <2>1, Numbers, Zenon DEF Types
<1>2. Control("INPUT_ACK", Minus(w.in_seq, 1)) \in Messages
  BY <1>1, ControlIsMessage, Zenon
<1>3. QED
  BY <1>2, SendKeeps, Zenon DEF RetryAck, Ack

LEMMA AcceptIsSound ==
  ASSUME RoomInv, NEW w, WebGood(w), NEW n, NetGood(n), Accept(w, n)
  PROVE  WebGood(web') /\ NetGood(net') /\ Keeps(term, term')
<1> DEFINE taken == w.pending_input # <<>> /\ BrowserAccepts(term, w.pending_input)
           t == [w EXCEPT !.pending_input = <<>>, !.in_seq = Next1(w.in_seq),
                          !.ack_pending = TRUE]
           v == IF taken THEN t ELSE w
           u == [v EXCEPT !.ack_pending = AckLeft(v, n)]
<1>1. DOMAIN w = WebFields /\ w.pending_input \in Bytes /\ TermGood(term) /\ w.in_seq \in Int
  BY WebFacts, Zenon DEF RoomInv
<1>2. t = [w EXCEPT !.pending_input = <<>>, !.in_seq = Next1(@), !.ack_pending = TRUE]
  BY <1>1, Zenon DEF WebFields
<1>3. /\ web' = v \/ web' = u
      /\ net' = n \/ net' = RetryAck(v, n)
      /\ term' = term \/ term' = browser_try_receive(term, w.pending_input)
  BY <1>2, ZenonT(60) DEF Accept, Accepted
<1>4. Keeps(term, term')
  <2>1. Keeps(term, browser_try_receive(term, w.pending_input)) /\ Keeps(term, term)
    BY <1>1, InputKeeps, SameRings
  <2>2. QED
    BY <1>3, <2>1, Zenon
<1>5. /\ DOMAIN t = WebFields /\ t.active = w.active
      /\ t.window = w.window /\ t.staged = w.staged
      /\ t.pending_input = <<>> /\ t.missed = w.missed
      /\ t.in_seq = Next1(w.in_seq) /\ t.out_seq = w.out_seq /\ t.ping_seq = w.ping_seq
  BY <1>1, ZenonT(60) DEF WebFields
<1>6. Next1(w.in_seq) \in Int /\ Len(<<>>) <= INPUT_BYTES
  <2>1. Len(<<>>) <= INPUT_BYTES
    BY NoBytes, Sizes
  <2>2. QED
    BY <1>1, <2>1, Numbers, Zenon
<1> HIDE DEF t
<1>7. WebGood(t)
  BY <1>5, <1>6, NoBytes, Zenon DEF WebGood
<1>8. WebGood(v) /\ DOMAIN v = WebFields
  BY <1>7, WebFacts, Zenon
<1> HIDE DEF v
<1>9. /\ DOMAIN u = WebFields /\ u.active = v.active
      /\ u.window = v.window /\ u.staged = v.staged
      /\ u.pending_input = v.pending_input /\ u.missed = v.missed
      /\ u.in_seq = v.in_seq /\ u.out_seq = v.out_seq /\ u.ping_seq = v.ping_seq
  BY <1>8, ZenonT(60) DEF WebFields
<1> HIDE DEF u
<1>10. WebGood(u)
  BY <1>8, <1>9, WebFacts, FlagsAreFree, Zenon
<1>11. QED
  BY <1>3, <1>4, <1>8, <1>10, RetryKeeps, Zenon

LEMMA PendingWeb ==
  ASSUME NEW w, WebGood(w), NEW data \in Bytes, Len(data) <= INPUT_BYTES,
         NEW v, v = [w EXCEPT !.pending_input = data]
  PROVE  WebGood(v)
<1>1. /\ DOMAIN v = WebFields /\ v.active = w.active
      /\ v.window = w.window /\ v.staged = w.staged
      /\ v.pending_input = data /\ v.missed = w.missed
      /\ v.in_seq = w.in_seq /\ v.out_seq = w.out_seq /\ v.ping_seq = w.ping_seq
  BY WebFacts, ZenonT(60) DEF WebFields
<1>2. QED
  BY <1>1, Zenon DEF WebGood

LEMMA AckWeb ==
  ASSUME NEW w, WebGood(w), NEW b, NEW v, v = [w EXCEPT !.ack_pending = b]
  PROVE  WebGood(v) /\ v.active = w.active
<1>1. /\ DOMAIN v = WebFields /\ v.active = w.active
      /\ v.window = w.window /\ v.staged = w.staged
      /\ v.pending_input = w.pending_input /\ v.missed = w.missed
      /\ v.in_seq = w.in_seq /\ v.out_seq = w.out_seq /\ v.ping_seq = w.ping_seq
  BY WebFacts, ZenonT(60) DEF WebFields
<1>2. QED
  BY <1>1, WebFacts, FlagsAreFree, Zenon

LEMMA InputIsSound ==
  ASSUME RoomInv, NEW c \in Conns, OnInput(c)
  PROVE  RoomInv'
<1> DEFINE v == note_browser_activity(web)
           m == Head(net[c].up)
           w == [v EXCEPT !.pending_input = m.data]
           a == [v EXCEPT !.ack_pending = TRUE]
<1>1. WebGood(web) /\ NetGood(Arrived(c)) /\ m \in InputMessages
  BY ArrivedIsSound, Zenon DEF OnInput, Take, RoomInv
<1>2. WebGood(v)
  BY <1>1, NotedWeb, Zenon
<1>3. m.data \in Bytes /\ Len(m.data) <= INPUT_BYTES
  BY <1>1, Zenon DEF InputMessages, Messages
<1>4. Accept(w, Arrived(c)) \/ (AckDuplicate(c) /\ UNCHANGED <<term, pc, hist>>)
  BY Zenon DEF OnInput
<1>5. UNCHANGED <<setup, page, peeked, z80>>
  BY Zenon DEF OnInput
<1> HIDE DEF v, m
<1>6. WebGood(w) /\ WebGood(a)
  BY <1>2, <1>3, PendingWeb, AckWeb, Zenon
<1>7. CASE Accept(w, Arrived(c))
  <2> HIDE DEF w
  <2>1. WebGood(web') /\ NetGood(net') /\ Keeps(term, term')
    BY <1>1, <1>6, <1>7, AcceptIsSound, Zenon
  <2>2. QED
    BY <1>5, <2>1, StepIsSound, Zenon
<1>8. CASE AckDuplicate(c) /\ UNCHANGED <<term, pc, hist>>
  <2>1. /\ web' = [a EXCEPT !.ack_pending = AckLeft(a, Arrived(c))]
        /\ net' = RetryAck(a, Arrived(c))
    BY <1>8, Zenon DEF AckDuplicate, v
  <2> HIDE DEF a
  <2>2. WebGood(web')
    BY <1>6, <2>1, AckWeb, Zenon
  <2>3. NetGood(net')
    BY <1>1, <1>6, <2>1, RetryKeeps, Zenon
  <2>4. QED
    BY <1>5, <1>8, <2>2, <2>3, StepIsSound, Zenon
<1>9. QED
  BY <1>4, <1>7, <1>8, Zenon

(* Sessions that end. *)
LEMMA EndingsAreSound ==
  ASSUME RoomInv,
         \/ PollOffline \/ AckTimeout \/ SendError
         \/ \E c \in Conns : OnInvalid(c)
  PROVE  RoomInv'
<1>1. disconnect_client /\ UNCHANGED <<setup, peeked, z80>>
  BY Zenon DEF PollOffline, AckTimeout, SendError, OnInvalid
<1>2. QED
  BY <1>1, DisconnectIsSound, Zenon

LEMMA PongTimeoutIsSound ==
  ASSUME RoomInv, PongTimeout
  PROVE  RoomInv'
<1> DEFINE v == AfterMiss(web)
<1>1. WebGood(web)
  BY Zenon DEF RoomInv
<1>2. CASE v.missed > MaxMissedPongs
  <2>1. disconnect_client /\ UNCHANGED <<setup, peeked, z80>>
    BY <1>2, Zenon DEF PongTimeout
  <2>2. QED
    BY <2>1, DisconnectIsSound, Zenon
<1>3. CASE ~(v.missed > MaxMissedPongs)
  <2> DEFINE k == IF web.activity THEN 0 ELSE web.missed + 1
  <2>1. /\ web' = v
        /\ UNCHANGED <<net, page, term, hist, pc>> /\ UNCHANGED <<setup, peeked, z80>>
    BY <1>3, Zenon DEF PongTimeout
  <2>2. /\ DOMAIN v = WebFields /\ v.active = web.active
        /\ v.window = web.window /\ v.staged = web.staged
        /\ v.pending_input = web.pending_input /\ v.missed = k
        /\ v.in_seq = web.in_seq /\ v.out_seq = web.out_seq /\ v.ping_seq = web.ping_seq
    BY <1>1, WebFacts, ZenonT(60) DEF WebFields, AfterMiss
  <2>3. k \in Nat
    BY <1>1, WebFacts, Sizes
  <2> HIDE DEF v, k
  <2>4. v.missed \in 0 .. MaxMissedPongs
    BY <1>3, <2>2, <2>3, Sizes
  <2>5. WebGood(v)
    BY <1>1, <2>2, <2>4, Zenon DEF WebGood
  <2>6. QED
    BY <2>1, <2>5, StepIsSound, Zenon
<1>4. QED
  BY <1>2, <1>3, Zenon

LEMMA PollInputIsSound ==
  ASSUME RoomInv, PollInput
  PROVE  RoomInv'
<1>1. WebGood(web) /\ NetGood(net)
  BY Zenon DEF RoomInv
<1>2. UNCHANGED <<setup, page, peeked, z80>>
  BY Zenon DEF PollInput
<1>3. CASE web.connected \/ web.disconnected
  <2>1. WebGood(web') /\ Keeps(term, term') /\ net' = net
    BY <1>3, EventsAreSound, Zenon DEF PollInput, process_events
  <2>2. QED
    BY <1>2, <2>1, StepIsSound, Zenon
<1>4. CASE ~(web.connected \/ web.disconnected)
  <2>1. WebGood(web') /\ NetGood(net') /\ Keeps(term, term')
    BY <1>1, <1>4, AcceptIsSound, Zenon DEF PollInput
  <2>2. QED
    BY <1>2, <2>1, StepIsSound, Zenon
<1>5. QED
  BY <1>3, <1>4, Zenon

LEMMA PingIsSound ==
  ASSUME RoomInv, Ping
  PROVE  RoomInv'
<1> DEFINE seq == (web.ping_seq + 1) % PingModulus
<1>1. WebGood(web) /\ NetGood(net)
  BY Zenon DEF RoomInv
<1>2. seq \in Int /\ "PING" \in Types
  <2>1. web.ping_seq \in Int
    BY <1>1, WebFacts, Zenon
  <2>2. QED
    BY <2>1, Numbers, Zenon DEF Types
<1>3. /\ \/ web' = [web EXCEPT !.ping_seq = seq, !.awaiting = TRUE, !.activity = FALSE]
         \/ web' = [web EXCEPT !.ping_seq = seq]
      /\ net' = Send(net, web.active, Control("PING", seq))
  BY Zenon DEF Ping
<1> HIDE DEF seq
<1>4. /\ DOMAIN web' = WebFields /\ web'.active = web.active
      /\ web'.window = web.window /\ web'.staged = web.staged
      /\ web'.pending_input = web.pending_input /\ web'.missed = web.missed
      /\ web'.in_seq = web.in_seq /\ web'.out_seq = web.out_seq /\ web'.ping_seq = seq
  BY <1>1, <1>3, WebFacts, ZenonT(60) DEF WebFields
<1>5. WebGood(web')
  BY <1>1, <1>2, <1>4, Zenon DEF WebGood
<1>6. Control("PING", seq) \in Messages
  BY <1>2, ControlIsMessage, Zenon
<1>7. NetGood(net')
  BY <1>1, <1>3, <1>6, SendKeeps, Zenon
<1>8. QED
  BY <1>5, <1>7, StepIsSound, Zenon DEF Ping

LEMMA NoPingIsSound ==
  ASSUME RoomInv, NoPing
  PROVE  RoomInv'
<1>1. NetGood(net) /\ 0 \in Int /\ "HELLO" \in Types
  BY DEF RoomInv, Types
<1>2. Control("HELLO", 0) \in Messages
  BY <1>1, ControlIsMessage, Zenon
<1>3. net' = net \/ NetGood(net')
  BY <1>1, <1>2, SendKeeps, Zenon DEF NoPing
<1>4. QED
  BY <1>3, StepIsSound, Zenon DEF NoPing

(* Output leaves the ring for the frame being staged. *)
LEMMA StagedFacts ==
  ASSUME RoomInv
  PROVE  /\ Staged \in Bytes /\ Len(Staged) \in Nat /\ Len(Staged) <= FRAME_BYTES
         /\ Keeps(term, Supplied)
<1> DEFINE n == FRAME_BYTES - Len(web.staged)
           p == peek(term, n)
<1>1. WebGood(web) /\ TermGood(term)
  BY Zenon DEF RoomInv
<1>2. web.staged \in Bytes /\ Len(web.staged) \in Nat /\ Len(web.staged) < FRAME_BYTES
  BY <1>1, WebFacts, Zenon
<1>3. n \in Nat
  BY <1>2, Sizes
<1>4. Staged = web.staged \o p /\ Supplied = supply(term, n)
  BY Zenon DEF Staged, Supplied
<1>5. FRAME_BYTES = Len(web.staged) + n
  BY <1>2, Sizes
<1> HIDE DEF n
<1>6. p \in Bytes /\ Len(p) <= n /\ Keeps(term, supply(term, n))
  BY <1>1, <1>3, SupplyKeeps, Zenon
<1> HIDE DEF p
<1>7. web.staged \o p \in Bytes /\ Len(web.staged \o p) = Len(web.staged) + Len(p)
  BY <1>2, <1>6, JoinFacts DEF Bytes
<1>8. Len(p) \in Nat
  BY <1>6 DEF Bytes
<1>9. Len(Staged) \in Nat /\ Len(Staged) <= FRAME_BYTES
  BY <1>2, <1>3, <1>4, <1>5, <1>6, <1>7, <1>8
<1>10. QED
  BY <1>4, <1>6, <1>7, <1>9, Zenon

LEMMA StageIsSound ==
  ASSUME RoomInv, Stage
  PROVE  RoomInv'
<1> DEFINE f == [seq |-> web.out_seq, data |-> Staged, sent |-> FALSE]
           ws == Append(web.window, f)
<1>1. WebGood(web) /\ DOMAIN web = WebFields
  BY WebFacts, Zenon DEF RoomInv
<1>2. Staged \in Bytes /\ Keeps(term, Supplied) /\ web.out_seq \in Int
  BY <1>1, StagedFacts, WebFacts, Zenon
<1>3. f \in Frames
  BY <1>2, ZenonT(60) DEF Frames
<1>4. web.window \in Seq(Frames) /\ Len(web.window) \in Nat /\ Len(web.window) < OUTPUT_WINDOW
  BY <1>1, WebFacts, Zenon DEF Stage
<1>5. web' = [web EXCEPT !.window = ws, !.out_seq = Next1(web.out_seq), !.staged = <<>>]
  BY <1>1, Zenon DEF Stage, WebFields
<1> HIDE DEF f
<1>6. ws \in Seq(Frames) /\ Len(ws) <= OUTPUT_WINDOW
  BY <1>3, <1>4, Sizes
<1> HIDE DEF ws
<1>7. /\ DOMAIN web' = WebFields /\ web'.active = web.active
      /\ web'.window = ws /\ web'.staged = <<>>
      /\ web'.pending_input = web.pending_input /\ web'.missed = web.missed
      /\ web'.in_seq = web.in_seq /\ web'.out_seq = Next1(web.out_seq)
      /\ web'.ping_seq = web.ping_seq
  BY <1>1, <1>5, ZenonT(60) DEF WebFields
<1>8. Next1(web.out_seq) \in Int
  BY <1>2, Numbers, Zenon
<1>9. <<>> \in Bytes /\ Len(<<>>) < FRAME_BYTES
  BY NoBytes, Sizes
<1>10. WebGood(web')
  BY <1>1, <1>6, <1>7, <1>8, <1>9, Zenon DEF WebGood
<1>11. term' = Supplied
  BY Zenon DEF Stage
<1>12. QED
  BY <1>2, <1>10, <1>11, StepIsSound, Zenon DEF Stage

Marked(ws, S) == [i \in DOMAIN ws |-> [ws[i] EXCEPT !.sent = @ \/ i \in S]]

LEMMA MarkedWindow ==
  ASSUME NEW ws \in Seq(Frames), NEW S
  PROVE  Marked(ws, S) \in Seq(Frames) /\ Len(Marked(ws, S)) = Len(ws)
<1> DEFINE vs == Marked(ws, S)
<1> USE DEF Marked
<1>1. ASSUME NEW i \in DOMAIN ws PROVE [ws[i] EXCEPT !.sent = @ \/ i \in S] \in Frames
  <2>1. ws[i] \in Frames
    OBVIOUS
  <2> DEFINE f == ws[i]
  <2> HIDE DEF f
  <2>2. f \in Frames => [f EXCEPT !.sent = @ \/ i \in S] \in Frames
    BY ZenonT(60) DEF Frames
  <2>3. QED
    BY <2>1, <2>2, Zenon DEF f
<1>2. DOMAIN ws = 1 .. Len(ws) /\ Len(ws) \in Nat
  OBVIOUS
<1>3. \A i \in 1 .. Len(ws) : vs[i] \in Frames
  BY <1>1, <1>2, Zenon
<1>4. vs = [i \in 1 .. Len(ws) |-> vs[i]]
  BY <1>2
<1> HIDE DEF Frames
<1>5. QED
  BY <1>2, <1>3, <1>4

LEMMA SentMessages ==
  ASSUME NEW ws \in Seq(Frames), NEW now \in Seq(1 .. Len(ws)),
         NEW ms, ms = [k \in DOMAIN now |-> Message("OUTPUT", ws[now[k]].seq, ws[now[k]].data)]
  PROVE  ms \in Seq(Messages) /\ Len(ms) = Len(now)
<1>1. DOMAIN now = 1 .. Len(now) /\ Len(now) \in Nat
  OBVIOUS
<1>2. ASSUME NEW k \in 1 .. Len(now)
      PROVE  Message("OUTPUT", ws[now[k]].seq, ws[now[k]].data) \in Messages
  <2>1. now[k] \in 1 .. Len(ws)
    OBVIOUS
  <2>2. ws[now[k]] \in Frames
    BY <2>1
  <2>3. ws[now[k]].seq \in Int /\ ws[now[k]].data \in Bytes
    BY <2>2, Zenon DEF Frames
  <2>4. "OUTPUT" \in Types
    BY DEF Types
  <2>5. QED
    BY <2>3, <2>4, ZenonT(60) DEF Message, Messages
<1>3. \A k \in 1 .. Len(now) : ms[k] \in Messages
  BY <1>1, <1>2, Zenon
<1>4. ms = [k \in 1 .. Len(now) |-> ms[k]]
  BY <1>1
<1>5. QED
  BY <1>1, <1>3, <1>4

(* What is sent fits the room the channel has left. *)
LEMMA SendFramesIsSound ==
  ASSUME RoomInv, NEW due, SendFrames(due)
  PROVE  RoomInv'
<1> DEFINE c == web.active
           ws == web.window
           all == Unsent(web, due)
           now == First(all, ChannelDepth - Len(net[c].down))
           full == Len(ws) = OUTPUT_WINDOW
           ms == [k \in DOMAIN now |-> Message("OUTPUT", ws[now[k]].seq, ws[now[k]].data)]
           vs == Marked(ws, Range(now))
           st == IF full THEN web.staged ELSE Staged
           down == net[c].down \o ms
<1>1. WebGood(web) /\ NetGood(net) /\ DOMAIN web = WebFields
  BY WebFacts, Zenon DEF RoomInv
<1>2. ws \in Seq(Frames) /\ Len(ws) <= OUTPUT_WINDOW /\ Len(web.staged) < FRAME_BYTES
      /\ web.staged \in Bytes
  BY <1>1, WebFacts, Zenon
<1>3. net' = [net EXCEPT ![c].down = down]
  BY DEF SendFrames
<1>4. web' = [web EXCEPT !.staged = st, !.window = vs]
  BY <1>1, ZenonT(60) DEF SendFrames, WebFields, Marked
<1>5. full \/ Len(Staged) < FRAME_BYTES
  BY Zenon DEF SendFrames
<1>6. term' = term \/ Keeps(term, term')
  BY StagedFacts, Zenon DEF SendFrames
<1>7. st \in Bytes /\ Len(st) < FRAME_BYTES
  BY <1>2, <1>5, StagedFacts, Zenon
<1> HIDE DEF st
<1>8. vs \in Seq(Frames) /\ Len(vs) = Len(ws)
  <2> HIDE DEF now
  <2>1. QED
    BY <1>2, MarkedWindow, Zenon
<1>9. ASSUME c \in Conns PROVE down \in Seq(Messages) /\ Len(down) <= ChannelDepth
  <2> DEFINE room == ChannelDepth - Len(net[c].down)
  <2>1. /\ net[c].down \in Seq(Messages) /\ Len(net[c].down) \in Nat
        /\ Len(net[c].down) <= ChannelDepth
    BY <1>1, <1>9, ChannelFacts, Zenon
  <2>2. room \in Nat /\ ChannelDepth = Len(net[c].down) + room
    BY <2>1, Sizes
  <2>3. all \in Seq(1 .. Len(ws))
    BY <1>1, UnsentFacts, Zenon
  <2> HIDE DEF all, room
  <2>4. now = First(all, room)
    BY DEF room
  <2>5. now \in Seq(1 .. Len(ws)) /\ Len(now) <= room
    BY <2>2, <2>3, <2>4, FirstFacts
  <2> HIDE DEF now
  <2>6. ms \in Seq(Messages) /\ Len(ms) = Len(now)
    BY <1>2, <2>5, SentMessages
  <2> HIDE DEF ms
  <2>7. down \in Seq(Messages) /\ Len(down) = Len(net[c].down) + Len(ms)
    BY <2>1, <2>6, JoinFacts
  <2>8. Len(now) \in Nat
    BY <2>5
  <2>9. QED
    BY <2>1, <2>2, <2>5, <2>6, <2>7, <2>8
<1> HIDE DEF vs, down, ms, now
<1>10. /\ DOMAIN web' = WebFields /\ web'.active = web.active
       /\ web'.window = vs /\ web'.staged = st
       /\ web'.pending_input = web.pending_input /\ web'.missed = web.missed
       /\ web'.in_seq = web.in_seq /\ web'.out_seq = web.out_seq
       /\ web'.ping_seq = web.ping_seq
  BY <1>1, <1>4, ZenonT(60) DEF WebFields
<1>11. WebGood(web')
  BY <1>1, <1>2, <1>7, <1>8, <1>10, Zenon DEF WebGood
<1>12. NetGood(net')
  BY <1>1, <1>3, <1>9, NetDown
<1>13. UNCHANGED <<setup, page, peeked, z80>>
  BY Zenon DEF SendFrames
<1>14. QED
  BY <1>6, <1>11, <1>12, <1>13, StepIsSound, Zenon

-----------------------------------------------------------------------------
(* The page.                                                                *)

LEMMA PageFacts ==
  ASSUME NEW p, PageGood(p)
  PROVE  /\ DOMAIN p = PageFields /\ p.buffer \in Bytes /\ p.writes \in Seq(Messages)
         /\ p.frame \in Bytes /\ Len(p.frame) <= INPUT_BYTES
         /\ p.in_seq \in Int /\ p.out_seq \in Int /\ p.received \in Int
  BY Zenon DEF PageGood

LEMMA TypedSame ==
  ASSUME NEW z, Z80Good(z)
  PROVE  LET y == [z EXCEPT !.typed = @ + 1]
         IN  Z80Good(y) /\ y.step = z.step /\ y.client = z.client /\ y.room = z.room
<1> DEFINE y == [z EXCEPT !.typed = z.typed + 1]
<1>1. DOMAIN z = Z80Fields /\ z.out \in Nat /\ z.typed \in Nat
  BY Zenon DEF Z80Good
<1>2. /\ DOMAIN y = Z80Fields /\ y.out = z.out /\ y.typed = z.typed + 1
      /\ y.step = z.step /\ y.client = z.client /\ y.room = z.room
  BY <1>1, ZenonT(60) DEF Z80Fields
<1>3. z.typed + 1 \in Nat
  BY <1>1
<1> HIDE DEF y
<1>4. Z80Good(y)
  BY <1>1, <1>2, <1>3, Zenon DEF Z80Good
<1>5. QED
  BY <1>2, <1>4, Zenon DEF y

Typed(y, z) == Z80Good(y) /\ y.step = z.step /\ y.client = z.client /\ y.room = z.room

LEMMA PageStepIsSound ==
  ASSUME RoomInv, NEW c \in Conns, NEW p, PageGood(p),
         NEW down \in Seq(Messages), Len(down) <= ChannelDepth,
         NEW answers \in Seq(InputMessages), Len(net[c].up) + Len(answers) <= ChannelDepth,
         PageStep(c, p, down, answers), z80' = z80 \/ Typed(z80', z80)
  PROVE  RoomInv'
<1> DEFINE up == net[c].up \o answers
           ch == [net[c] EXCEPT !.down = down, !.up = up]
<1>1. NetGood(net) /\ PagesGood(page)
  BY Zenon DEF RoomInv
<1>2. net[c].up \in Seq(InputMessages) /\ DOMAIN net[c] = {"state", "up", "down"}
  BY <1>1, ChannelFacts, Zenon
<1>3. up \in Seq(InputMessages) /\ Len(up) <= ChannelDepth
  BY <1>2, JoinFacts
<1>4. net' = [net EXCEPT ![c] = ch]
  <2>1. net' = [net EXCEPT ![c].down = down, ![c].up = @ \o answers]
    BY Zenon DEF PageStep
  <2>2. DOMAIN net = Conns
    BY <1>1, Zenon DEF NetGood
  <2>3. QED
    BY <1>2, <2>1, <2>2
<1> HIDE DEF up
<1>5. DOMAIN ch = {"state", "up", "down"} /\ ch.up = up /\ ch.down = down
  BY <1>2, ZenonT(60)
<1> HIDE DEF ch
<1>6. NetGood(net')
  BY <1>1, <1>3, <1>4, <1>5, ChannelSet, Zenon
<1>7. PagesGood(page')
  BY <1>1, PageSet, Zenon DEF PageStep
<1>8. QED
  BY <1>6, <1>7, StepIsSound, Zenon DEF PageStep, Typed

LEMMA PumpFacts ==
  ASSUME NEW p, PageGood(p)
  PROVE  PageGood(Pumped(p)) /\ Pump(p) \in Seq(InputMessages) /\ Len(Pump(p)) <= 1
<1> DEFINE q == Pumped(p)
           d == First(p.buffer, INPUT_BYTES)
           m == Message("INPUT", p.in_seq, q.frame)
<1>1. p.buffer \in Bytes /\ p.in_seq \in Int /\ "INPUT" \in Types
  BY PageFacts, Zenon DEF Types
<1>2. d \in Bytes /\ Len(d) <= INPUT_BYTES
  BY <1>1, FirstFacts, Sizes DEF Bytes
<1>3. q = p \/ q = [p EXCEPT !.frame = d]
  BY Zenon DEF Pumped
<1>4. Pump(p) = <<m>> \/ Pump(p) = <<>>
  BY Zenon DEF Pump
<1> HIDE DEF d, q
<1>5. PageGood(q)
  <2>1. CASE q = p
    BY <2>1, Zenon
  <2>2. CASE q = [p EXCEPT !.frame = d]
    <3>1. /\ DOMAIN q = PageFields /\ q.buffer = p.buffer /\ q.writes = p.writes /\ q.frame = d
          /\ q.in_seq = p.in_seq /\ q.out_seq = p.out_seq /\ q.received = p.received
      BY <2>2, PageFacts, ZenonT(60) DEF PageFields
    <3>2. QED
      BY <1>2, <3>1, PageFacts, Zenon DEF PageGood
  <2>3. QED
    BY <1>3, <2>1, <2>2, Zenon
<1>6. q.frame \in Bytes /\ Len(q.frame) <= INPUT_BYTES
  BY <1>5, PageFacts, Zenon
<1>7. m \in Messages /\ m.data = q.frame
  BY <1>1, <1>6, ZenonT(60) DEF Message, Messages
<1>8. m \in InputMessages
  BY <1>6, <1>7, Zenon DEF InputMessages
<1> HIDE DEF m
<1>9. Pump(p) \in Seq(InputMessages) /\ Len(Pump(p)) <= 1
  <2>1. /\ <<m>> \in Seq(InputMessages) /\ Len(<<m>>) <= 1
        /\ <<>> \in Seq(InputMessages) /\ Len(<<>>) <= 1
    BY <1>8
  <2>2. QED
    BY <1>4, <2>1, Zenon
<1>10. QED
  BY <1>5, <1>9, Zenon DEF q

LEMMA PageIsGood ==
  ASSUME RoomInv, NEW c \in Conns
  PROVE  /\ PageGood(page[c])
         /\ net[c].down \in Seq(Messages) /\ Len(net[c].down) <= ChannelDepth
         /\ Len(net[c].up) \in Nat
         /\ <<>> \in Seq(InputMessages) /\ Len(<<>>) = 0
<1>1. PagesGood(page) /\ NetGood(net)
  BY Zenon DEF RoomInv
<1>2. <<>> \in Seq(InputMessages) /\ Len(<<>>) = 0
  OBVIOUS
<1>3. QED
  BY <1>1, <1>2, ChannelFacts, Zenon DEF PagesGood

LEMMA PageTypeIsSound ==
  ASSUME RoomInv, NEW c \in Conns, PageType(c)
  PROVE  RoomInv'
<1> DEFINE o == page[c]
           buf == Append(o.buffer, z80.typed)
           p == [o EXCEPT !.buffer = buf]
<1>1. /\ PageGood(o) /\ net[c].down \in Seq(Messages) /\ Len(net[c].down) <= ChannelDepth
      /\ Len(net[c].up) \in Nat /\ <<>> \in Seq(InputMessages) /\ Len(<<>>) = 0
  BY PageIsGood, Zenon
<1>2. o.buffer \in Bytes /\ DOMAIN o = PageFields /\ z80.typed \in Nat /\ Z80Good(z80)
  BY <1>1, PageFacts, Zenon DEF RoomInv, Z80Good
<1>3. buf \in Bytes
  BY <1>2 DEF Bytes, Byte
<1>4. p = [page[c] EXCEPT !.buffer = Append(@, z80.typed)]
  BY <1>2, Zenon DEF PageFields
<1>5. /\ PageStep(c, p, net[c].down, <<>>) \/ PageStep(c, Pumped(p), net[c].down, Pump(p))
      /\ z80' = [z80 EXCEPT !.typed = @ + 1]
      /\ UpRoom(c)
  BY <1>4, Zenon DEF PageType
<1> HIDE DEF buf, o
<1>6. /\ DOMAIN p = PageFields /\ p.buffer = buf /\ p.writes = o.writes /\ p.frame = o.frame
      /\ p.in_seq = o.in_seq /\ p.out_seq = o.out_seq /\ p.received = o.received
  BY <1>2, ZenonT(60) DEF PageFields
<1> HIDE DEF p
<1>7. PageGood(p)
  BY <1>1, <1>3, <1>6, PageFacts, Zenon DEF PageGood
<1>8. PageGood(Pumped(p)) /\ Pump(p) \in Seq(InputMessages) /\ Len(Pump(p)) <= 1
  BY <1>7, PumpFacts, Zenon
<1>9. Typed(z80', z80)
  BY <1>2, <1>5, TypedSame, Zenon DEF Typed
<1>10. /\ Len(net[c].up) + Len(Pump(p)) <= ChannelDepth
       /\ Len(net[c].up) + Len(<<>>) <= ChannelDepth
  <2>1. Len(net[c].up) < ChannelDepth
    BY <1>5, Zenon DEF UpRoom
  <2>2. Len(Pump(p)) \in Nat
    BY <1>8
  <2>3. QED
    BY <1>1, <1>8, <2>1, <2>2, Sizes
<1>11. CASE PageStep(c, p, net[c].down, <<>>)
  BY <1>1, <1>7, <1>9, <1>10, <1>11, PageStepIsSound, Zenon
<1>12. CASE PageStep(c, Pumped(p), net[c].down, Pump(p))
  BY <1>1, <1>8, <1>9, <1>10, <1>12, PageStepIsSound, Zenon
<1>13. QED
  BY <1>5, <1>11, <1>12, Zenon

LEMMA PageRetryIsSound ==
  ASSUME RoomInv, NEW c \in Conns, PageRetry(c)
  PROVE  RoomInv'
<1> DEFINE p == page[c]
<1>1. /\ PageGood(p) /\ net[c].down \in Seq(Messages) /\ Len(net[c].down) <= ChannelDepth
      /\ Len(net[c].up) \in Nat
  BY PageIsGood, Zenon
<1>2. Pump(p) \in Seq(InputMessages) /\ Len(Pump(p)) <= 1
  BY <1>1, PumpFacts, Zenon
<1>3. Len(net[c].up) + Len(Pump(p)) <= ChannelDepth
  <2>1. Len(net[c].up) < ChannelDepth
    BY Zenon DEF UpRoom, PageRetry
  <2> HIDE DEF p
  <2>2. Len(Pump(p)) \in Nat
    BY <1>2
  <2>3. QED
    BY <1>1, <1>2, <2>1, <2>2, Sizes
<1>4. PageStep(c, p, net[c].down, Pump(p)) /\ z80' = z80
  BY Zenon DEF PageRetry
<1> HIDE DEF p
<1>5. QED
  BY <1>1, <1>2, <1>3, <1>4, PageStepIsSound, Zenon

LEMMA PageConsumedIsSound ==
  ASSUME RoomInv, NEW c \in Conns, PageConsumed(c)
  PROVE  RoomInv'
<1> DEFINE o == page[c]
           rest == Tail(o.writes)
           p == [o EXCEPT !.writes = rest, !.out_seq = Next1(o.out_seq)]
           m == Control("OUTPUT_ACK", Head(o.writes).seq)
<1>1. /\ PageGood(o) /\ net[c].down \in Seq(Messages) /\ Len(net[c].down) <= ChannelDepth
      /\ Len(net[c].up) \in Nat
  BY PageIsGood, Zenon
<1>2. DOMAIN o = PageFields /\ o.writes \in Seq(Messages) /\ o.out_seq \in Int
  BY <1>1, PageFacts, Zenon
<1>3. o.writes # <<>> /\ UpRoom(c) /\ z80' = z80
  BY Zenon DEF PageConsumed
<1>4. PageStep(c, p, net[c].down, <<m>>)
  BY <1>2, Zenon DEF PageConsumed, PageFields
<1> HIDE DEF o
<1>5. rest \in Seq(Messages) /\ Head(o.writes) \in Messages
  BY <1>2, <1>3, TailFacts
<1>6. Head(o.writes).seq \in Int /\ "OUTPUT_ACK" \in Types
  BY <1>5, Zenon DEF Messages, Types
<1>7. m \in InputMessages
  BY <1>6, ControlIsMessage, Zenon
<1> HIDE DEF m, rest
<1>8. /\ DOMAIN p = PageFields /\ p.buffer = o.buffer /\ p.writes = rest /\ p.frame = o.frame
      /\ p.in_seq = o.in_seq /\ p.out_seq = Next1(o.out_seq) /\ p.received = o.received
  BY <1>2, ZenonT(60) DEF PageFields
<1>9. Next1(o.out_seq) \in Int
  BY <1>2, Numbers, Zenon
<1> HIDE DEF p
<1>10. PageGood(p)
  BY <1>1, <1>5, <1>8, <1>9, PageFacts, Zenon DEF PageGood
<1>11. <<m>> \in Seq(InputMessages) /\ Len(<<m>>) = 1
  BY <1>7
<1>12. Len(net[c].up) + Len(<<m>>) <= ChannelDepth
  <2>1. Len(net[c].up) < ChannelDepth
    BY <1>3, Zenon DEF UpRoom
  <2>2. QED
    BY <1>1, <1>11, <2>1, Sizes
<1>13. QED
  BY <1>1, <1>3, <1>4, <1>10, <1>11, <1>12, PageStepIsSound, Zenon

(* What a page makes of a message: at most two answers. *)
Answered(c, p, answers) ==
  /\ PageStep(c, p, Tail(net[c].down), answers)
  /\ PageGood(p) /\ answers \in Seq(InputMessages) /\ Len(answers) <= 2

LEMMA HelloIsAnswered ==
  ASSUME NEW c, NEW p, PageGood(p), PageHello(c, p)
  PROVE  \E q, answers : Answered(c, q, answers)
<1> DEFINE q == [p EXCEPT !.ready = TRUE]
           ready == <<Control("READY", 0)>>
<1>1. /\ DOMAIN q = PageFields /\ q.buffer = p.buffer /\ q.writes = p.writes /\ q.frame = p.frame
      /\ q.in_seq = p.in_seq /\ q.out_seq = p.out_seq /\ q.received = p.received
  BY PageFacts, ZenonT(60) DEF PageFields
<1>2. \/ PageStep(c, q, Tail(net[c].down), ready)
      \/ PageStep(c, Pumped(q), Tail(net[c].down), ready \o Pump(q))
  BY Zenon DEF PageHello
<1> HIDE DEF q
<1>3. PageGood(q)
  BY <1>1, PageFacts, Zenon DEF PageGood
<1>4. PageGood(Pumped(q)) /\ Pump(q) \in Seq(InputMessages) /\ Len(Pump(q)) <= 1
  BY <1>3, PumpFacts, Zenon
<1>5. Control("READY", 0) \in InputMessages
  <2>1. "READY" \in Types /\ 0 \in Int
    BY DEF Types
  <2>2. QED
    BY <2>1, ControlIsMessage, Zenon
<1>6. ready \in Seq(InputMessages) /\ Len(ready) = 1
  BY <1>5
<1> HIDE DEF ready
<1>7. ready \o Pump(q) \in Seq(InputMessages) /\ Len(ready \o Pump(q)) = 1 + Len(Pump(q))
  BY <1>4, <1>6, JoinFacts
<1>8. Len(ready) <= 2 /\ Len(ready \o Pump(q)) <= 2
  <2>1. Len(Pump(q)) \in Nat
    BY <1>4
  <2>2. QED
    BY <1>4, <1>6, <1>7, <2>1
<1>9. QED
  BY <1>2, <1>3, <1>4, <1>6, <1>7, <1>8, Zenon DEF Answered

LEMMA InputAckIsAnswered ==
  ASSUME NEW c, NEW p, PageGood(p), NEW m, PageInputAck(c, p, m)
  PROVE  \E q, answers : Answered(c, q, answers)
<1> DEFINE buf == Rest(p.buffer, Len(p.frame))
           q == [p EXCEPT !.buffer = buf, !.frame = <<>>, !.in_seq = Next1(p.in_seq)]
<1>1. DOMAIN p = PageFields /\ p.buffer \in Bytes /\ p.frame \in Bytes /\ p.in_seq \in Int
  BY PageFacts, Zenon
<1>2. \/ PageStep(c, Pumped(q), Tail(net[c].down), Pump(q))
      \/ PageStep(c, p, Tail(net[c].down), <<>>)
  BY <1>1, Zenon DEF PageInputAck, PageFields
<1>3. buf \in Bytes
  <2>1. Len(p.frame) \in Nat
    BY <1>1 DEF Bytes
  <2>2. QED
    BY <1>1, <2>1, RestFacts DEF Bytes
<1> HIDE DEF buf
<1>4. /\ DOMAIN q = PageFields /\ q.buffer = buf /\ q.writes = p.writes /\ q.frame = <<>>
      /\ q.in_seq = Next1(p.in_seq) /\ q.out_seq = p.out_seq /\ q.received = p.received
  BY <1>1, ZenonT(60) DEF PageFields
<1>5. Next1(p.in_seq) \in Int
  BY <1>1, Numbers, Zenon
<1> HIDE DEF q
<1>6. PageGood(q)
  <2>1. <<>> \in Bytes /\ Len(<<>>) <= INPUT_BYTES
    BY NoBytes, Sizes
  <2>2. QED
    BY <1>3, <1>4, <1>5, <2>1, PageFacts, Zenon DEF PageGood
<1>7. PageGood(Pumped(q)) /\ Pump(q) \in Seq(InputMessages) /\ Len(Pump(q)) <= 1
  BY <1>6, PumpFacts, Zenon
<1>8. Len(Pump(q)) <= 2 /\ <<>> \in Seq(InputMessages) /\ Len(<<>>) <= 2
  <2>1. Len(Pump(q)) \in Nat
    BY <1>7
  <2>2. QED
    BY <1>7, <2>1
<1>9. QED
  BY <1>2, <1>7, <1>8, Zenon DEF Answered

LEMMA OutputIsAnswered ==
  ASSUME NEW c, NEW p, PageGood(p), NEW m \in Messages, PageOutput(c, p, m)
  PROVE  \E q, answers : Answered(c, q, answers)
<1> DEFINE ws == Append(p.writes, m)
           q == [p EXCEPT !.received = Next1(p.received), !.writes = ws]
           ack == Control("OUTPUT_ACK", Minus(p.out_seq, 1))
<1>1. DOMAIN p = PageFields /\ p.writes \in Seq(Messages) /\ p.received \in Int
      /\ p.out_seq \in Int /\ 1 \in Int
  BY PageFacts
<1>2. \/ PageStep(c, q, Tail(net[c].down), <<>>)
      \/ PageStep(c, p, Tail(net[c].down), <<ack>>)
      \/ PageStep(c, p, Tail(net[c].down), <<>>)
  <2>1. q = [p EXCEPT !.received = Next1(@), !.writes = Append(@, m)]
    BY <1>1, Zenon DEF PageFields
  <2>2. CASE m.seq = p.received
    BY <2>1, <2>2, Zenon DEF PageOutput
  <2>3. CASE m.seq # p.received
    BY <2>3, Zenon DEF PageOutput
  <2>4. QED
    BY <2>2, <2>3, Zenon
<1>3. ws \in Seq(Messages)
  BY <1>1
<1> HIDE DEF ws
<1>4. /\ DOMAIN q = PageFields /\ q.buffer = p.buffer /\ q.writes = ws /\ q.frame = p.frame
      /\ q.in_seq = p.in_seq /\ q.out_seq = p.out_seq /\ q.received = Next1(p.received)
  BY <1>1, ZenonT(60) DEF PageFields
<1>5. Next1(p.received) \in Int /\ Minus(p.out_seq, 1) \in Int /\ "OUTPUT_ACK" \in Types
  BY <1>1, Numbers, Zenon DEF Types
<1> HIDE DEF q
<1>6. PageGood(q)
  BY <1>3, <1>4, <1>5, PageFacts, Zenon DEF PageGood
<1>7. ack \in InputMessages
  BY <1>5, ControlIsMessage, Zenon
<1> HIDE DEF ack
<1>8. /\ <<ack>> \in Seq(InputMessages) /\ Len(<<ack>>) <= 2
      /\ <<>> \in Seq(InputMessages) /\ Len(<<>>) <= 2
  BY <1>7
<1>9. QED
  BY <1>2, <1>6, <1>8, Zenon DEF Answered

LEMMA PageReceiveIsSound ==
  ASSUME RoomInv, NEW c \in Conns, PageReceive(c)
  PROVE  RoomInv'
<1> DEFINE p == page[c]
           m == Head(net[c].down)
<1>1. /\ PageGood(p) /\ net[c].down \in Seq(Messages) /\ Len(net[c].down) <= ChannelDepth
      /\ Len(net[c].up) \in Nat
  BY PageIsGood, Zenon
<1>2. net[c].down # <<>> /\ Len(net[c].up) + 1 < ChannelDepth /\ z80' = z80
  BY Zenon DEF PageReceive
<1>3. Tail(net[c].down) \in Seq(Messages) /\ Len(Tail(net[c].down)) <= ChannelDepth
      /\ m \in Messages
  BY <1>1, <1>2, Sizes
<1>4. \/ PageHello(c, p) \/ PageInputAck(c, p, m) \/ PageOutput(c, p, m)
      \/ PageStep(c, p, Tail(net[c].down), <<Control("PONG", m.seq)>>)
  BY Zenon DEF PageReceive
<1> HIDE DEF p, m
<1>5. \E q, answers : Answered(c, q, answers)
  <2>1. CASE PageStep(c, p, Tail(net[c].down), <<Control("PONG", m.seq)>>)
    <3> DEFINE pong == Control("PONG", m.seq)
    <3>1. m.seq \in Int /\ "PONG" \in Types
      BY <1>3, Zenon DEF Messages, Types
    <3>2. pong \in InputMessages
      BY <3>1, ControlIsMessage, Zenon
    <3> HIDE DEF pong
    <3>3. <<pong>> \in Seq(InputMessages) /\ Len(<<pong>>) <= 2
      BY <3>2
    <3>4. PageStep(c, p, Tail(net[c].down), <<pong>>)
      BY <2>1, Zenon DEF pong
    <3>5. QED
      BY <1>1, <3>3, <3>4, Zenon DEF Answered
  <2>2. QED
    BY <1>1, <1>3, <1>4, <2>1, HelloIsAnswered, InputAckIsAnswered, OutputIsAnswered, Zenon
<1>6. PICK q, answers : Answered(c, q, answers)
  BY <1>5, Zenon
<1>7. /\ PageStep(c, q, Tail(net[c].down), answers)
      /\ PageGood(q) /\ answers \in Seq(InputMessages) /\ Len(answers) <= 2
  BY <1>6, Zenon DEF Answered
<1>8. Len(net[c].up) + Len(answers) <= ChannelDepth
  <2>1. Len(answers) \in Nat
    BY <1>7
  <2>2. QED
    BY <1>1, <1>2, <1>7, <2>1, Sizes
<1>9. QED
  BY <1>2, <1>3, <1>7, <1>8, PageStepIsSound, Zenon

LEMMA PageLeavesIsSound ==
  ASSUME RoomInv, NEW c \in Conns, PageLeaves(c) \/ TcpGivesUp(c)
  PROVE  RoomInv'
<1>1. NetGood(net) /\ PagesGood(page)
  BY Zenon DEF RoomInv
<1>2. \A state : NetGood([net EXCEPT ![c].state = state])
  BY <1>1, NetState
<1>3. CASE PageLeaves(c)
  <2>1. NetGood(net') /\ PagesGood(page')
    BY <1>1, <1>2, <1>3, FreshPage, PageSet, Zenon DEF PageLeaves
  <2>2. QED
    BY <1>3, <2>1, StepIsSound, Zenon DEF PageLeaves
<1>4. CASE TcpGivesUp(c)
  <2>1. NetGood(net')
    BY <1>2, <1>4, Zenon DEF TcpGivesUp
  <2>2. QED
    BY <1>4, <2>1, StepIsSound, Zenon DEF TcpGivesUp
<1>5. QED
  BY <1>3, <1>4, Zenon

LEMMA RawClientIsSound ==
  ASSUME RoomInv, NEW c \in Conns, RawClient(c)
  PROVE  RoomInv'
<1> DEFINE m == Message("INPUT", 1, <<0>>)
           up == <<m>>
           ch == [net[c] EXCEPT !.state = "raw", !.up = up]
<1>1. NetGood(net) /\ DOMAIN net = Conns
  BY Zenon DEF RoomInv, NetGood
<1>2. /\ DOMAIN net[c] = {"state", "up", "down"} /\ net[c].down \in Seq(Messages)
      /\ Len(net[c].down) <= ChannelDepth
  BY <1>1, ChannelFacts, Zenon
<1>3. <<0>> \in Bytes /\ Len(<<0>>) <= INPUT_BYTES /\ 1 \in Int /\ "INPUT" \in Types
  BY Sizes DEF Bytes, Byte, Types
<1>4. m \in Messages /\ m.data = <<0>>
  BY <1>3, ZenonT(60) DEF Message, Messages
<1>5. m \in InputMessages
  BY <1>3, <1>4, Zenon DEF InputMessages
<1>6. net' = [net EXCEPT ![c].state = "raw", ![c].up = up]
  BY Zenon DEF RawClient
<1> HIDE DEF m
<1>7. up \in Seq(InputMessages) /\ Len(up) <= ChannelDepth
  BY <1>5, Sizes
<1> HIDE DEF up
<1>8. net' = [net EXCEPT ![c] = ch]
  BY <1>1, <1>2, <1>6
<1>9. DOMAIN ch = {"state", "up", "down"} /\ ch.up = up /\ ch.down = net[c].down
  BY <1>2, ZenonT(60)
<1> HIDE DEF ch
<1>10. NetGood(net')
  BY <1>1, <1>2, <1>7, <1>8, <1>9, ChannelSet, Zenon
<1>11. QED
  BY <1>10, StepIsSound, Zenon DEF RawClient

-----------------------------------------------------------------------------
(* The USB console and core 0.                                              *)

LEMMA UsbIsSound ==
  ASSUME RoomInv,
         UsbChange \/ UsbType \/ UsbPeek \/ \E n \in 0 .. Len(peeked) : UsbSupply(n)
  PROVE  RoomInv'
<1>1. /\ TermGood(term) /\ Z80Good(z80) /\ z80.typed \in Byte /\ peeked \in Bytes
      /\ term \in Rings
  BY TermFacts, Zenon DEF RoomInv, Z80Good, Byte
<1>2. CASE UsbChange
  <2>1. (~term.client) \in BOOLEAN
    OBVIOUS
  <2>2. Keeps(term, term')
    BY <1>1, <1>2, <2>1, UsbKeeps, Zenon DEF UsbChange
  <2>3. QED
    BY <1>2, <2>2, StepIsSound, Zenon DEF UsbChange
<1>3. CASE UsbType
  <2>1. Keeps(term, receive(term, z80.typed)) /\ Keeps(term, usb_receive(term, z80.typed))
    BY <1>1, InputKeeps
  <2>2. Keeps(term, term')
    BY <1>3, <2>1, Zenon DEF UsbType
  <2>3. z80' = [z80 EXCEPT !.typed = @ + 1]
    BY <1>3, Zenon DEF UsbType
  <2>4. Typed(z80', z80)
    BY <1>1, <2>3, TypedSame, Zenon DEF Typed
  <2>5. QED
    BY <1>3, <2>2, <2>4, StepIsSound, Zenon DEF UsbType, Typed
<1>4. CASE UsbPeek
  <2>1. FRAME_BYTES \in Nat
    BY Sizes
  <2>2. peeked' \in Bytes
    BY <1>1, <1>4, <2>1, SupplyKeeps, Zenon DEF UsbPeek
  <2>3. QED
    BY <1>4, <2>2, StepIsSound, Zenon DEF UsbPeek
<1>5. ASSUME NEW n \in 0 .. Len(peeked), UsbSupply(n) PROVE RoomInv'
  <2>1. n \in Nat
    BY <1>1 DEF Bytes
  <2>2. Keeps(term, term')
    BY <1>1, <1>5, <2>1, SupplyKeeps, SameRings, Zenon DEF UsbSupply
  <2>3. peeked' \in Bytes
    BY <1>5, NoBytes, Zenon DEF UsbSupply
  <2>4. QED
    BY <1>5, <2>2, <2>3, StepIsSound, Zenon DEF UsbSupply
<1>6. QED
  BY <1>2, <1>3, <1>4, <1>5, Zenon

(* A poll that saw no client saw room: the ring is empty without one, and   *)
(* one that connects afterwards starts with an empty ring.                  *)
LEMMA StatusIsSound ==
  ASSUME RoomInv, StatusClient \/ StatusRoom
  PROVE  RoomInv'
<1>1. Z80Good(z80) /\ Promised(z80, term) /\ DOMAIN z80 = Z80Fields
  BY Zenon DEF RoomInv, Z80Good
<1>2. UNCHANGED <<setup, term, web, net, page, peeked>>
  BY Zenon DEF StatusClient, StatusRoom
<1>3. CASE StatusClient
  <2>1. z80' = [z80 EXCEPT !.step = "room", !.client = term.client]
    BY <1>3, Zenon DEF StatusClient
  <2>2. /\ DOMAIN z80' = Z80Fields /\ z80'.out = z80.out /\ z80'.typed = z80.typed
        /\ z80'.step = "room" /\ z80'.client = term.client
    BY <1>1, <2>1, ZenonT(60) DEF Z80Fields
  <2>3. "room" # "idle"
    OBVIOUS
  <2>4. Promised(z80', term)
    BY <2>2, <2>3, Zenon DEF Promised, StatusTxRoom
  <2>5. Z80Good(z80')
    BY <1>1, <2>2, Zenon DEF Z80Good
  <2>6. QED
    BY <1>2, <2>4, <2>5, Zenon DEF RoomInv
<1>4. CASE StatusRoom
  <2> DEFINE room == ~z80.client \/ Len(term.tx) < TERM_TX_DEPTH
  <2>1. z80' = [z80 EXCEPT !.step = "idle", !.client = FALSE, !.room = room] /\ z80.step = "room"
    BY <1>4, Zenon DEF StatusRoom
  <2>2. room => StatusTxRoom(term)
    BY <1>1, <2>1, Zenon DEF Promised, StatusTxRoom
  <2> HIDE DEF room
  <2>3. /\ DOMAIN z80' = Z80Fields /\ z80'.out = z80.out /\ z80'.typed = z80.typed
        /\ z80'.step = "idle" /\ z80'.room = room
    BY <1>1, <2>1, ZenonT(60) DEF Z80Fields
  <2>4. "room" # "idle"
    OBVIOUS
  <2>5. Promised(z80', term)
    BY <2>2, <2>3, <2>4, Zenon DEF Promised
  <2>6. Z80Good(z80')
    BY <1>1, <2>3, Zenon DEF Z80Good
  <2>7. QED
    BY <1>2, <2>5, <2>6, Zenon DEF RoomInv
<1>5. QED
  BY <1>3, <1>4, Zenon

LEMMA WriteIsGood ==
  ASSUME NEW t, TermGood(t), NEW b \in Byte
  PROVE  TermGood(io_write(t, b))
<1> DEFINE tx == Append(t.tx, b)
           u == [t EXCEPT !.tx = tx, !.tx_pending = TRUE]
<1>1. /\ t \in Rings /\ t.tx \in Bytes /\ Len(t.rx) <= TERM_RX_DEPTH /\ Len(t.tx) \in Nat
  BY TermFacts, Zenon
<1>2. ASSUME Accepts(t) PROVE TermGood(u)
  <2>1. t.client /\ Len(t.tx) < TERM_TX_DEPTH
    BY <1>2, Zenon DEF Accepts
  <2>2. tx \in Seq(Byte) /\ Len(tx) <= TERM_TX_DEPTH
    BY <1>1, <2>1, Sizes DEF Bytes
  <2> HIDE DEF tx
  <2>3. u \in Rings /\ u.rx = t.rx /\ u.tx = tx /\ u.client = t.client
    BY <1>1, <2>2, ZenonT(60) DEF Rings
  <2> HIDE DEF u
  <2>4. QED
    BY <1>1, <2>1, <2>2, <2>3, Zenon DEF TermGood, TypedRings
<1>3. QED
  BY <1>2, Zenon DEF io_write

LEMMA PortsAreSound ==
  ASSUME RoomInv, Z80Write \/ Z80Read
  PROVE  RoomInv'
<1>1. /\ TermGood(term) /\ Z80Good(z80) /\ DOMAIN z80 = Z80Fields /\ z80.out \in Nat
      /\ z80.typed \in Nat
  BY Zenon DEF RoomInv, Z80Good
<1>2. CASE Z80Write
  <2> DEFINE k == IF Accepts(term) THEN z80.out + 1 ELSE z80.out
  <2>1. z80' = [z80 EXCEPT !.out = k, !.room = FALSE] /\ z80.step = "idle"
    BY <1>1, <1>2, Zenon DEF Z80Write, Z80Fields
  <2>2. k \in Nat
    BY <1>1
  <2> HIDE DEF k
  <2>3. /\ DOMAIN z80' = Z80Fields /\ z80'.out = k /\ z80'.typed = z80.typed
        /\ z80'.step = z80.step /\ z80'.room = FALSE
    BY <1>1, <2>1, ZenonT(60) DEF Z80Fields
  <2>4. Z80Good(z80')
    BY <1>1, <2>2, <2>3, Zenon DEF Z80Good
  <2>5. "room" # "idle"
    OBVIOUS
  <2>6. Promised(z80', term')
    BY <2>1, <2>3, <2>5, Zenon DEF Promised
  <2>7. TermGood(term')
    BY <1>1, <1>2, WriteIsGood, Zenon DEF Z80Write, Byte
  <2>8. UNCHANGED <<setup, web, net, page, peeked>>
    BY <1>2, Zenon DEF Z80Write
  <2>9. QED
    BY <2>4, <2>6, <2>7, <2>8, Zenon DEF RoomInv
<1>3. CASE Z80Read
  <2>1. Keeps(term, term')
    BY <1>1, <1>3, InputKeeps, Zenon DEF Z80Read
  <2>2. QED
    BY <1>3, <2>1, StepIsSound, Zenon DEF Z80Read
<1>4. QED
  BY <1>2, <1>3, Zenon

-----------------------------------------------------------------------------
(* The theorem.                                                             *)

LEMMA InitIsSound ==
  ASSUME Init
  PROVE  RoomInv
<1>1. /\ <<>> \in Seq(Frames) /\ <<>> \in Bytes /\ <<>> \in Seq(Byte)
      /\ Len(<<>>) <= OUTPUT_WINDOW /\ Len(<<>>) < FRAME_BYTES /\ Len(<<>>) <= INPUT_BYTES
      /\ Len(<<>>) <= TERM_RX_DEPTH /\ Len(<<>>) <= TERM_TX_DEPTH
      /\ 0 \in 0 .. MaxMissedPongs /\ 1 \in Int /\ 0 \in Int /\ 1 \in Nat
  BY Sizes DEF Bytes
<1>2. TermGood(term)
  <2>1. term = QueueInit
    BY Zenon DEF Init
  <2>2. QueueInit \in Rings /\ QueueInit.rx = <<>> /\ QueueInit.tx = <<>>
    BY <1>1, ZenonT(60) DEF QueueInit, Rings
  <2>3. QED
    BY <1>1, <2>1, <2>2, Zenon DEF TermGood, TypedRings
<1>3. WebGood(web)
  <2>1. DOMAIN FreshSession = {"ready", "out_seq", "window", "staged", "in_seq",
                               "pending_input", "ack_pending", "awaiting", "activity", "missed"}
    BY Zenon DEF FreshSession
  <2>2. DOMAIN WebInit = {"active", "connected", "disconnected", "last", "details", "ping_seq"}
    BY Zenon DEF WebInit
  <2>3. DOMAIN WebInit \cup DOMAIN FreshSession = WebFields
    BY <2>1, <2>2, ZenonT(60) DEF WebFields
  <2>4. web = [x \in WebFields |-> IF x \in DOMAIN WebInit THEN WebInit[x] ELSE FreshSession[x]]
    BY <2>3, Zenon DEF Init
  <2>5. /\ DOMAIN web = WebFields
        /\ \A x \in WebFields :
             web[x] = IF x \in DOMAIN WebInit THEN WebInit[x] ELSE FreshSession[x]
    BY <2>4, Zenon
  <2>6. web.active = None /\ web.ping_seq = 0
    <3>1. WebInit.active = None /\ WebInit.ping_seq = 0
      BY Zenon DEF WebInit
    <3>2. QED
      BY <2>2, <2>5, <3>1, ZenonT(60) DEF WebFields
  <2>7. /\ web.window = <<>> /\ web.staged = <<>> /\ web.pending_input = <<>> /\ web.missed = 0
        /\ web.in_seq = 1 /\ web.out_seq = 1
    <3>1. /\ FreshSession.window = <<>> /\ FreshSession.staged = <<>>
          /\ FreshSession.pending_input = <<>> /\ FreshSession.missed = 0
          /\ FreshSession.in_seq = 1 /\ FreshSession.out_seq = 1
      BY Zenon DEF FreshSession
    <3>2. QED
      BY <2>2, <2>5, <3>1, ZenonT(60) DEF WebFields
  <2>8. None \in Conns \cup {None}
    BY Zenon
  <2>9. QED
    BY <1>1, <2>5, <2>6, <2>7, <2>8, Zenon DEF WebGood
<1>4. NetGood(net)
  BY FreshChannel, Zenon DEF Init, NetGood
<1>5. PagesGood(page)
  BY FreshPage, Zenon DEF Init, PagesGood
<1>6. Z80Good(z80) /\ z80.step = "idle" /\ z80.room = FALSE
  BY <1>1, ZenonT(60) DEF Init, Z80Good, Z80Fields
<1>7. Promised(z80, term)
  <2>1. "idle" # "room"
    OBVIOUS
  <2>2. QED
    BY <1>6, <2>1, Zenon DEF Promised
<1>8. QED
  BY <1>1, <1>2, <1>3, <1>4, <1>5, <1>6, <1>7, Zenon DEF RoomInv, Init

LEMMA NextIsSound ==
  ASSUME RoomInv, [Next]_vars
  PROVE  RoomInv'
<1>1. CASE UNCHANGED vars
  BY <1>1, Zenon DEF vars, RoomInv
<1>2. CASE Core1
  <2>1. ASSUME NEW c \in Conns,
               OnReady(c) \/ OnOutputAck(c) \/ OnInput(c) \/ OnInvalid(c) \/ OnPong(c)
        PROVE  RoomInv'
    BY <2>1, ReadyIsSound, OutputAckIsSound, InputIsSound, EndingsAreSound, PongIsSound, Zenon
  <2>2. QED
    BY <1>2, <2>1, PollOnlineIsSound, PollInputIsSound, NoPingIsSound, StageIsSound,
       SendFramesIsSound, UsbIsSound, Zenon DEF Core1
<1>3. CASE Environment
  <2>1. ASSUME NEW c \in Conns,
               \/ on_connect(c) \/ Closed(c) \/ PageType(c) \/ PageRetry(c) \/ PageReceive(c)
               \/ PageConsumed(c) \/ PageLeaves(c) \/ TcpGivesUp(c) \/ RawClient(c)
        PROVE  RoomInv'
    BY <2>1, ConnectIsSound, ClosedIsSound, PageTypeIsSound, PageRetryIsSound,
       PageReceiveIsSound, PageConsumedIsSound, PageLeavesIsSound, RawClientIsSound, Zenon
  <2>2. QED
    BY <1>3, <2>1, EndingsAreSound, PongTimeoutIsSound, PingIsSound, UsbIsSound, Zenon
       DEF Environment
<1>4. CASE Core0
  BY <1>4, StatusIsSound, PortsAreSound, Zenon DEF Core0
<1>5. QED
  BY <1>1, <1>2, <1>3, <1>4, Zenon DEF Next

LEMMA RoomFollows ==
  ASSUME RoomInv
  PROVE  RoomIsKept
<1>1. WebGood(web) /\ NetGood(net) /\ TermGood(term) /\ setup \in Setups /\ Promised(z80, term)
  BY Zenon DEF RoomInv
<1>2. /\ web.active \in Conns \cup {None} /\ Len(web.window) <= OUTPUT_WINDOW
      /\ Len(web.staged) < FRAME_BYTES /\ Len(web.pending_input) <= INPUT_BYTES
      /\ web.missed \in 0 .. MaxMissedPongs
  BY <1>1, WebFacts, Zenon
<1>3. \A c \in Conns : Len(net[c].up) <= ChannelDepth /\ Len(net[c].down) <= ChannelDepth
  BY <1>1, ChannelFacts, Zenon
<1>4. TypedRings(term) /\ (z80.step = "idle" /\ z80.room => StatusTxRoom(term))
  BY <1>1, Zenon DEF TermGood, Promised
<1>5. QED
  BY <1>1, <1>2, <1>3, <1>4, Zenon DEF RoomIsKept, BuffersFit

(* The room the status port promises stays there until the Z80 uses it,     *)
(* though the poll is two loads without the lock and consoles come and go;  *)
(* and no ring, window, frame, pending input or channel is filled past its  *)
(* end.                                                                     *)
THEOREM RoomHolds == Spec => []RoomIsKept
<1>1. Init => RoomInv
  BY InitIsSound
<1>2. RoomInv /\ [Next]_vars => RoomInv'
  BY NextIsSound
<1>3. RoomInv => RoomIsKept
  BY RoomFollows
<1>4. QED
  BY <1>1, <1>2, <1>3, PTL DEF Spec

-----------------------------------------------------------------------------
(* Sequence numbers.                                                        *)

Sequence == 0 .. SequenceModulus - 1

LEMMA Modulus == SequenceModulus \in Nat /\ SequenceModulus > 2 * OUTPUT_WINDOW /\ SequenceModulus >= 3
                 /\ OUTPUT_WINDOW \in Nat /\ OUTPUT_WINDOW >= 1
  BY WindowAssumption

(* Subtraction and successor on sequence numbers, without the remainder.    *)
LEMMA MinusIs ==
  ASSUME NEW a \in Sequence, NEW b \in Sequence
  PROVE  Minus(a, b) = IF a >= b THEN a - b ELSE a - b + SequenceModulus
<1>1. SequenceModulus \in Nat /\ SequenceModulus > 0
  BY Modulus
<1>2. CASE a >= b
  <2>1. a - b \in 0 .. SequenceModulus - 1
    BY <1>1, <1>2 DEF Sequence
  <2>2. (a - b) % SequenceModulus = a - b
    BY <1>1, <2>1
  <2>3. QED
    BY <1>2, <2>2 DEF Minus
<1>3. CASE a < b
  <2>1. a - b + SequenceModulus \in 0 .. SequenceModulus - 1
    BY <1>1, <1>3 DEF Sequence
  <2>2. (a - b) % SequenceModulus = a - b + SequenceModulus
    BY <1>1, <1>3, <2>1 DEF Sequence
  <2>3. QED
    BY <1>3, <2>2 DEF Minus, Sequence
<1>4. QED
  BY <1>2, <1>3 DEF Sequence

LEMMA NextIs ==
  ASSUME NEW a \in Sequence
  PROVE  Next1(a) = IF a = SequenceModulus - 1 THEN 0 ELSE a + 1
<1>1. SequenceModulus \in Nat /\ SequenceModulus > 0
  BY Modulus
<1>2. CASE a = SequenceModulus - 1
  <2>1. (a + 1) % SequenceModulus = 0
    BY <1>1, <1>2
  <2>2. QED
    BY <1>2, <2>1 DEF Next1
<1>3. CASE a # SequenceModulus - 1
  <2>1. a + 1 \in 0 .. SequenceModulus - 1
    BY <1>1, <1>3 DEF Sequence
  <2>2. (a + 1) % SequenceModulus = a + 1
    BY <1>1, <2>1
  <2>3. QED
    BY <1>3, <2>2 DEF Next1
<1>4. QED
  BY <1>2, <1>3

(* How far a number is behind: what the window and the page compare.        *)
LEMMA BehindFacts ==
  ASSUME NEW o \in Sequence, NEW s \in Sequence
  PROVE  /\ Minus(o, s) \in Sequence /\ Minus(o, s) \in Int /\ Minus(o, o) = 0
         /\ Next1(o) \in Sequence /\ Minus(o, 1) \in Sequence /\ 1 \in Sequence
         /\ Minus(o, s) < SequenceModulus - 1 => Minus(Next1(o), s) = Minus(o, s) + 1
         /\ Minus(o, s) > 0 => Minus(o, Next1(s)) = Minus(o, s) - 1
         /\ Minus(o, s) < SequenceModulus - 1 => Minus(o, Minus(s, 1)) = Minus(o, s) + 1
         /\ Minus(Next1(o), o) = 1 /\ Minus(o, Minus(o, 1)) = 1
         /\ (Minus(o, s) = 0) <=> (o = s)
<1>1. SequenceModulus \in Nat /\ SequenceModulus >= 3 /\ 1 \in Sequence
  BY Modulus DEF Sequence
<1>2. Next1(o) = IF o = SequenceModulus - 1 THEN 0 ELSE o + 1
  BY NextIs
<1>3. Next1(s) = IF s = SequenceModulus - 1 THEN 0 ELSE s + 1
  BY NextIs
<1>4. Minus(o, 1) = IF o >= 1 THEN o - 1 ELSE o - 1 + SequenceModulus
  BY <1>1, MinusIs
<1>5. Minus(s, 1) = IF s >= 1 THEN s - 1 ELSE s - 1 + SequenceModulus
  BY <1>1, MinusIs
<1>6. Next1(o) \in Sequence /\ Next1(s) \in Sequence /\ Minus(o, 1) \in Sequence /\ Minus(s, 1) \in Sequence
  BY <1>1, <1>2, <1>3, <1>4, <1>5 DEF Sequence
<1>7. Minus(o, s) = IF o >= s THEN o - s ELSE o - s + SequenceModulus
  BY MinusIs
<1>8. Minus(o, o) = IF o >= o THEN o - o ELSE o - o + SequenceModulus
  BY MinusIs
<1>9. Minus(Next1(o), s) = IF Next1(o) >= s THEN Next1(o) - s ELSE Next1(o) - s + SequenceModulus
  BY <1>6, MinusIs
<1>10. Minus(o, Next1(s)) = IF o >= Next1(s) THEN o - Next1(s) ELSE o - Next1(s) + SequenceModulus
  BY <1>6, MinusIs
<1>11. Minus(o, Minus(s, 1)) = IF o >= Minus(s, 1) THEN o - Minus(s, 1) ELSE o - Minus(s, 1) + SequenceModulus
  BY <1>6, MinusIs
<1>12. Minus(Next1(o), o) = IF Next1(o) >= o THEN Next1(o) - o ELSE Next1(o) - o + SequenceModulus
  BY <1>6, MinusIs
<1>13. Minus(o, Minus(o, 1)) = IF o >= Minus(o, 1) THEN o - Minus(o, 1) ELSE o - Minus(o, 1) + SequenceModulus
  BY <1>6, MinusIs
<1>14. o \in Int /\ s \in Int /\ o >= 0 /\ o < SequenceModulus /\ s >= 0 /\ s < SequenceModulus
  BY <1>1 DEF Sequence
<1>15. Minus(o, s) \in Sequence /\ Minus(o, s) \in Int /\ Minus(o, o) = 0
  BY <1>1, <1>7, <1>8, <1>14 DEF Sequence
<1>16. Minus(o, s) < SequenceModulus - 1 => Minus(Next1(o), s) = Minus(o, s) + 1
  BY <1>1, <1>2, <1>7, <1>9, <1>14
<1>17. Minus(o, s) > 0 => Minus(o, Next1(s)) = Minus(o, s) - 1
  BY <1>1, <1>3, <1>7, <1>10, <1>14
<1>18. Minus(o, s) < SequenceModulus - 1 => Minus(o, Minus(s, 1)) = Minus(o, s) + 1
  BY <1>1, <1>5, <1>7, <1>11, <1>14
<1>19. Minus(Next1(o), o) = 1 /\ Minus(o, Minus(o, 1)) = 1
  BY <1>1, <1>2, <1>4, <1>12, <1>13, <1>14
<1>20. (Minus(o, s) = 0) <=> (o = s)
  BY <1>1, <1>7, <1>14
<1>21. QED
  BY <1>1, <1>6, <1>15, <1>16, <1>17, <1>18, <1>19, <1>20

LEMMA BehindOrders ==
  ASSUME NEW o \in Sequence, NEW s \in Sequence, NEW r \in Sequence
  PROVE  /\ Minus(o, s) = Minus(o, r) => s = r
         /\ Minus(o, s) >= Minus(o, r) => Minus(r, s) = Minus(o, s) - Minus(o, r)
         /\ Minus(o, s) < Minus(o, r) =>
              Minus(r, s) = Minus(o, s) - Minus(o, r) + SequenceModulus
<1>1. SequenceModulus \in Nat /\ SequenceModulus >= 3
  BY Modulus
<1>2. o \in Int /\ s \in Int /\ r \in Int /\ o >= 0 /\ o < SequenceModulus /\ s >= 0
      /\ s < SequenceModulus /\ r >= 0 /\ r < SequenceModulus
  BY <1>1 DEF Sequence
<1>3. Minus(o, s) = IF o >= s THEN o - s ELSE o - s + SequenceModulus
  BY MinusIs
<1>4. Minus(o, r) = IF o >= r THEN o - r ELSE o - r + SequenceModulus
  BY MinusIs
<1>5. Minus(r, s) = IF r >= s THEN r - s ELSE r - s + SequenceModulus
  BY MinusIs
<1>6. QED
  BY <1>1, <1>2, <1>3, <1>4, <1>5

-----------------------------------------------------------------------------
(* Sequences.                                                               *)

LEMMA TailAt ==
  ASSUME NEW T, NEW s \in Seq(T), s # <<>>
  PROVE  /\ Tail(s) \in Seq(T) /\ Len(Tail(s)) = Len(s) - 1 /\ Len(s) >= 1
         /\ Head(s) = s[1] /\ s[1] \in T
         /\ \A i \in 1 .. Len(s) - 1 : Tail(s)[i] = s[i + 1]
         /\ DOMAIN Tail(s) = 1 .. Len(s) - 1 /\ DOMAIN s = 1 .. Len(s)
  OBVIOUS

LEMMA AppendAt ==
  ASSUME NEW T, NEW s \in Seq(T), NEW e \in T
  PROVE  /\ Append(s, e) \in Seq(T) /\ Len(Append(s, e)) = Len(s) + 1
         /\ \A i \in 1 .. Len(s) : Append(s, e)[i] = s[i]
         /\ Append(s, e)[Len(s) + 1] = e
         /\ DOMAIN Append(s, e) = 1 .. Len(s) + 1 /\ DOMAIN s = 1 .. Len(s)
         /\ s \o <<e>> = Append(s, e) /\ Len(s) \in Nat
  OBVIOUS

LEMMA JoinAt ==
  ASSUME NEW T, NEW s \in Seq(T), NEW r \in Seq(T)
  PROVE  /\ s \o r \in Seq(T) /\ Len(s \o r) = Len(s) + Len(r)
         /\ \A i \in 1 .. Len(s) : (s \o r)[i] = s[i]
         /\ \A i \in 1 .. Len(r) : (s \o r)[Len(s) + i] = r[i]
         /\ \A i \in 1 .. Len(s \o r) : i > Len(s) => (s \o r)[i] = r[i - Len(s)]
         /\ DOMAIN (s \o r) = 1 .. Len(s) + Len(r)
  OBVIOUS

LEMMA SameSequences ==
  ASSUME NEW T, NEW s \in Seq(T), NEW r \in Seq(T), Len(s) = Len(r),
         \A i \in 1 .. Len(s) : s[i] = r[i]
  PROVE  s = r
  OBVIOUS

LEMMA NothingJoined ==
  ASSUME NEW T, NEW s \in Seq(T)
  PROVE  s \o <<>> = s /\ <<>> \o s = s /\ <<>> \in Seq(T)
  OBVIOUS

LEMMA JoinInTurn ==
  ASSUME NEW T, NEW a \in Seq(T), NEW b \in Seq(T), NEW c \in Seq(T)
  PROVE  (a \o b) \o c = a \o (b \o c)
<1>1. a \o b \in Seq(T) /\ b \o c \in Seq(T) /\ Len(a \o b) = Len(a) + Len(b)
      /\ Len(b \o c) = Len(b) + Len(c)
  BY JoinAt
<1>2. (a \o b) \o c \in Seq(T) /\ a \o (b \o c) \in Seq(T)
      /\ Len((a \o b) \o c) = Len(a) + Len(b) + Len(c)
      /\ Len(a \o (b \o c)) = Len(a) + (Len(b) + Len(c))
      /\ Len(a) \in Nat /\ Len(b) \in Nat /\ Len(c) \in Nat
  BY <1>1
<1>3. ASSUME NEW i \in 1 .. Len((a \o b) \o c)
      PROVE  ((a \o b) \o c)[i] = (a \o (b \o c))[i]
  <2>1. CASE i <= Len(a)
    BY <1>1, <1>2, <1>3, <2>1
  <2>2. CASE i > Len(a) /\ i <= Len(a) + Len(b)
    BY <1>1, <1>2, <1>3, <2>2
  <2>3. CASE i > Len(a) + Len(b)
    BY <1>1, <1>2, <1>3, <2>3
  <2>4. QED
    BY <1>2, <2>1, <2>2, <2>3
<1>4. QED
  BY <1>2, <1>3, SameSequences

LEMMA JoinOfParts ==
  ASSUME NEW T, NEW s \in Seq(T), NEW a \in Seq(T), NEW b \in Seq(T),
         Len(s) = Len(a) + Len(b), \A i \in 1 .. Len(a) : s[i] = a[i],
         \A i \in 1 .. Len(s) : i > Len(a) => s[i] = b[i - Len(a)]
  PROVE  s = a \o b
<1>1. /\ a \o b \in Seq(T) /\ Len(a \o b) = Len(a) + Len(b)
      /\ \A i \in 1 .. Len(a) : (a \o b)[i] = a[i]
      /\ \A i \in 1 .. Len(a \o b) : i > Len(a) => (a \o b)[i] = b[i - Len(a)]
  BY JoinAt
<1>2. Len(a) \in Nat /\ Len(b) \in Nat
  OBVIOUS
<1> DEFINE j == a \o b
<1> HIDE DEF j
<1>3. \A i \in 1 .. Len(s) : s[i] = j[i]
  BY <1>1, <1>2 DEF j
<1>4. s = j
  BY <1>1, <1>3, SameSequences DEF j
<1>5. QED
  BY <1>4 DEF j

(* First and Rest split a sequence; Rest takes a prefix off again.          *)
LEMMA FirstThenRest ==
  ASSUME NEW T, NEW s \in Seq(T), NEW n \in Nat
  PROVE  /\ s = First(s, n) \o Rest(s, n) /\ First(s, n) \in Seq(T) /\ Rest(s, n) \in Seq(T)
         /\ Len(First(s, n)) = IF n < Len(s) THEN n ELSE Len(s)
         /\ Len(Rest(s, n)) = Len(s) - Len(First(s, n))
         /\ \A i \in 1 .. Len(Rest(s, n)) : Rest(s, n)[i] = s[Len(First(s, n)) + i]
         /\ \A i \in 1 .. Len(First(s, n)) : First(s, n)[i] = s[i]
<1> DEFINE k == IF n < Len(s) THEN n ELSE Len(s)
<1>1. k \in Nat /\ k <= Len(s) /\ Len(s) \in Nat
  OBVIOUS
<1>2. First(s, n) = SubSeq(s, 1, k)
  BY DEF First
<1> HIDE DEF k
<1>3. /\ First(s, n) \in Seq(T) /\ Len(First(s, n)) = k
      /\ \A i \in 1 .. k : First(s, n)[i] = s[i]
  BY <1>1, <1>2
<1>4. Rest(s, n) = SubSeq(s, k + 1, Len(s))
  BY <1>3 DEF Rest
<1>5. /\ Rest(s, n) \in Seq(T) /\ Len(Rest(s, n)) = Len(s) - k
      /\ \A i \in 1 .. Len(s) - k : Rest(s, n)[i] = s[k + i]
  BY <1>1, <1>4
<1>6. s = First(s, n) \o Rest(s, n)
  <2>1. ASSUME NEW i \in 1 .. Len(s), i > k PROVE s[i] = Rest(s, n)[i - k]
    <3>1. i - k \in 1 .. Len(s) - k /\ k + (i - k) = i
      BY <1>1, <2>1
    <3>2. QED
      BY <1>5, <3>1
  <2> DEFINE A == First(s, n)
             B == Rest(s, n)
  <2>2. A \in Seq(T) /\ Len(A) = k /\ B \in Seq(T) /\ Len(B) = Len(s) - k
    BY <1>3, <1>5, Zenon
  <2>3. /\ \A i \in 1 .. Len(A) : s[i] = A[i]
        /\ \A i \in 1 .. Len(s) : i > Len(A) => s[i] = B[i - Len(A)]
    BY <1>3, <2>1, <2>2, Zenon
  <2> HIDE DEF A, B
  <2>4. Len(s) = Len(A) + Len(B)
    BY <1>1, <2>2
  <2>5. s = A \o B
    BY <2>2, <2>3, <2>4, JoinOfParts, Zenon
  <2>6. QED
    BY <2>5, Zenon DEF A, B
<1>7. QED
  BY <1>1, <1>3, <1>5, <1>6 DEF k

LEMMA RestOfJoin ==
  ASSUME NEW T, NEW s \in Seq(T), NEW r \in Seq(T)
  PROVE  Rest(s \o r, Len(s)) = r /\ First(s \o r, Len(s)) = s
<1> DEFINE j == s \o r
<1>1. /\ j \in Seq(T) /\ Len(j) = Len(s) + Len(r) /\ Len(s) \in Nat /\ Len(r) \in Nat
      /\ \A i \in 1 .. Len(s) : j[i] = s[i]
      /\ \A i \in 1 .. Len(r) : j[Len(s) + i] = r[i]
  BY JoinAt
<1> HIDE DEF j
<1>2. Len(s) < Len(j) \/ Len(s) = Len(j)
  BY <1>1
<1>3. /\ First(j, Len(s)) \in Seq(T) /\ Rest(j, Len(s)) \in Seq(T)
      /\ Len(First(j, Len(s))) = (IF Len(s) < Len(j) THEN Len(s) ELSE Len(j))
      /\ Len(Rest(j, Len(s))) = Len(j) - Len(First(j, Len(s)))
      /\ \A i \in 1 .. Len(Rest(j, Len(s))) :
           Rest(j, Len(s))[i] = j[Len(First(j, Len(s))) + i]
      /\ \A i \in 1 .. Len(First(j, Len(s))) : First(j, Len(s))[i] = j[i]
  BY <1>1, FirstThenRest, Zenon
<1> DEFINE f == First(j, Len(s))
           e == Rest(j, Len(s))
<1> HIDE DEF f, e
<1>4. /\ f \in Seq(T) /\ e \in Seq(T) /\ Len(f) = Len(s) /\ Len(e) = Len(r)
      /\ \A i \in 1 .. Len(r) : e[i] = j[Len(s) + i]
      /\ \A i \in 1 .. Len(s) : f[i] = j[i]
  <2>1. /\ f \in Seq(T) /\ e \in Seq(T)
        /\ Len(f) = (IF Len(s) < Len(j) THEN Len(s) ELSE Len(j))
        /\ Len(e) = Len(j) - Len(f)
        /\ \A i \in 1 .. Len(e) : e[i] = j[Len(f) + i]
        /\ \A i \in 1 .. Len(f) : f[i] = j[i]
    BY <1>3, Zenon DEF f, e
  <2>2. Len(f) = Len(s)
    BY <1>1, <1>2, <2>1
  <2>3. Len(e) = Len(r)
    BY <1>1, <2>1, <2>2
  <2>4. QED
    BY <2>1, <2>2, <2>3, Zenon
<1>5. e = r
  BY <1>1, <1>4, SameSequences
<1>6. f = s
  BY <1>1, <1>4, SameSequences
<1>7. QED
  BY <1>5, <1>6 DEF j, f, e

-----------------------------------------------------------------------------
(* Input: one frame in flight at a time.                                    *)

(* The page has typed what entered, what is in its frame unless that has    *)
(* entered too, and the rest of its buffer.                                 *)
InputState(wi, pd, pi, fr, bf, en, ty) ==
  /\ wi \in Sequence /\ pi \in Sequence /\ Minus(wi, pi) \in {0, 1}
  /\ Minus(wi, pi) = 1 => fr # <<>> /\ pd = <<>>
  /\ pd # <<>> => pd = fr
  /\ fr \in Bytes /\ en \in Bytes
  /\ \E rest \in Bytes :
       /\ bf = fr \o rest
       /\ ty = en \o (IF Minus(wi, pi) = 1 THEN rest ELSE bf)

(* Frames on the way up are copies of the one in flight and, before those,  *)
(* of the one before it, which only a Pico that still waits can see.        *)
UpInputs(wi, pd, pi, fr, up) ==
  \A j \in DOMAIN up : up[j].type = "INPUT" =>
    /\ up[j].seq \in Sequence
    /\ Minus(pi, up[j].seq) \in {0, 1}
    /\ Minus(pi, up[j].seq) = 0 => up[j].data = fr /\ fr # <<>>
    /\ Minus(wi, pi) = 1 \/ pd # <<>> => Minus(pi, up[j].seq) = 0
    /\ \A i \in 1 .. j - 1 :
         up[i].type = "INPUT" /\ Minus(pi, up[i].seq) = 0 => Minus(pi, up[j].seq) = 0

(* And so are the acknowledgements on the way down.                         *)
DownAcks(wi, pi, dn) ==
  \A j \in DOMAIN dn : dn[j].type = "INPUT_ACK" =>
    /\ dn[j].seq \in Sequence
    /\ Minus(pi, dn[j].seq) \in {0, 1}
    /\ Minus(pi, dn[j].seq) = 0 => Minus(wi, pi) = 1
    /\ \A i \in 1 .. j - 1 :
         dn[i].type = "INPUT_ACK" /\ Minus(pi, dn[i].seq) = 0 => Minus(pi, dn[j].seq) = 0

LEMMA UpPopped ==
  ASSUME NEW wi, NEW pd, NEW pi, NEW fr, NEW T, NEW up \in Seq(T), up # <<>>,
         UpInputs(wi, pd, pi, fr, up)
  PROVE  UpInputs(wi, pd, pi, fr, Tail(up))
<1> DEFINE t == Tail(up)
<1>1. /\ Len(t) = Len(up) - 1 /\ Len(up) \in Nat /\ \A i \in 1 .. Len(up) - 1 : t[i] = up[i + 1]
      /\ DOMAIN t = 1 .. Len(up) - 1 /\ DOMAIN up = 1 .. Len(up)
  BY TailAt
<1> HIDE DEF t
<1>2. UpInputs(wi, pd, pi, fr, t)
  <2> SUFFICES ASSUME NEW j \in DOMAIN t, t[j].type = "INPUT"
               PROVE  /\ t[j].seq \in Sequence
                      /\ Minus(pi, t[j].seq) \in {0, 1}
                      /\ Minus(pi, t[j].seq) = 0 => t[j].data = fr /\ fr # <<>>
                      /\ Minus(wi, pi) = 1 \/ pd # <<>> => Minus(pi, t[j].seq) = 0
                      /\ \A i \in 1 .. j - 1 : t[i].type = "INPUT" /\ Minus(pi, t[i].seq) = 0
                           => Minus(pi, t[j].seq) = 0
    BY DEF UpInputs
  <2>1. j + 1 \in DOMAIN up /\ t[j] = up[j + 1]
    BY <1>1
  <2>2. \A i \in 1 .. j - 1 : i + 1 \in 1 .. (j + 1) - 1 /\ t[i] = up[i + 1]
    BY <1>1
  <2>3. QED
    BY <2>1, <2>2 DEF UpInputs
<1>3. QED
  BY <1>2 DEF t

(* A message of another kind, or the frame in flight once more.             *)
LEMMA UpPushed ==
  ASSUME NEW wi, NEW pd, NEW pi \in Sequence, NEW fr, NEW T, NEW up \in Seq(T), NEW m \in T,
         m.type # "INPUT" \/ (m.seq = pi /\ m.data = fr /\ fr # <<>>),
         UpInputs(wi, pd, pi, fr, up)
  PROVE  UpInputs(wi, pd, pi, fr, Append(up, m))
<1> DEFINE t == Append(up, m)
<1>1. /\ Len(up) \in Nat /\ \A i \in 1 .. Len(up) : t[i] = up[i]
      /\ t[Len(up) + 1] = m /\ DOMAIN t = 1 .. Len(up) + 1 /\ DOMAIN up = 1 .. Len(up)
  BY AppendAt
<1>2. Minus(pi, pi) = 0
  BY BehindFacts
<1> HIDE DEF t
<1>3. UpInputs(wi, pd, pi, fr, t)
  <2> SUFFICES ASSUME NEW j \in DOMAIN t, t[j].type = "INPUT"
               PROVE  /\ t[j].seq \in Sequence
                      /\ Minus(pi, t[j].seq) \in {0, 1}
                      /\ Minus(pi, t[j].seq) = 0 => t[j].data = fr /\ fr # <<>>
                      /\ Minus(wi, pi) = 1 \/ pd # <<>> => Minus(pi, t[j].seq) = 0
                      /\ \A i \in 1 .. j - 1 : t[i].type = "INPUT" /\ Minus(pi, t[i].seq) = 0
                           => Minus(pi, t[j].seq) = 0
    BY DEF UpInputs
  <2>1. CASE j = Len(up) + 1
    BY <1>1, <1>2, <2>1
  <2>2. CASE j # Len(up) + 1
    <3>1. j \in DOMAIN up /\ t[j] = up[j] /\ \A i \in 1 .. j - 1 : t[i] = up[i]
      BY <1>1, <2>2
    <3>2. QED
      BY <3>1 DEF UpInputs
  <2>3. QED
    BY <2>1, <2>2
<1>4. QED
  BY <1>3 DEF t

(* The Pico takes the frame it waits for: no older copy is left behind it.  *)
LEMMA UpHeld ==
  ASSUME NEW wi, NEW pd, NEW pi, NEW fr, NEW T, NEW up \in Seq(T), up # <<>>,
         UpInputs(wi, pd, pi, fr, up), up[1].type = "INPUT", Minus(pi, up[1].seq) = 0
  PROVE  UpInputs(wi, fr, pi, fr, Tail(up))
<1> DEFINE t == Tail(up)
<1>1. /\ Len(t) = Len(up) - 1 /\ Len(up) \in Nat /\ \A i \in 1 .. Len(up) - 1 : t[i] = up[i + 1]
      /\ DOMAIN t = 1 .. Len(up) - 1 /\ DOMAIN up = 1 .. Len(up)
  BY TailAt
<1> HIDE DEF t
<1>2. UpInputs(wi, fr, pi, fr, t)
  <2> SUFFICES ASSUME NEW j \in DOMAIN t, t[j].type = "INPUT"
               PROVE  /\ t[j].seq \in Sequence
                      /\ Minus(pi, t[j].seq) = 0
                      /\ t[j].data = fr /\ fr # <<>>
    BY DEF UpInputs
  <2>1. j + 1 \in DOMAIN up /\ t[j] = up[j + 1] /\ 1 \in 1 .. (j + 1) - 1
    BY <1>1
  <2>2. QED
    BY <2>1 DEF UpInputs
<1>3. QED
  BY <1>2 DEF t

LEMMA UpAccepted ==
  ASSUME NEW wi \in Sequence, NEW pd, pd # <<>>, NEW pi \in Sequence, NEW fr,
         Minus(wi, pi) = 0, NEW up, UpInputs(wi, pd, pi, fr, up)
  PROVE  UpInputs(Next1(wi), <<>>, pi, fr, up) /\ Minus(Next1(wi), pi) = 1
<1>1. Minus(Next1(wi), pi) = 1
  BY BehindFacts, Modulus
<1>2. QED
  BY <1>1 DEF UpInputs

(* The page moves on: every copy that is left is of the frame before.       *)
LEMMA UpMovedOn ==
  ASSUME NEW wi \in Sequence, NEW pi \in Sequence, NEW fr, NEW gr, Minus(wi, pi) = 1,
         NEW up, UpInputs(wi, <<>>, pi, fr, up)
  PROVE  UpInputs(wi, <<>>, Next1(pi), gr, up) /\ Minus(wi, Next1(pi)) = 0 /\ Next1(pi) \in Sequence
<1>1. Minus(wi, Next1(pi)) = 0 /\ Next1(pi) \in Sequence
  <2>1. Next1(pi) \in Sequence
    BY BehindFacts
  <2> HIDE DEF Sequence
  <2>2. Minus(wi, pi) > 0
    OBVIOUS
  <2>4. Minus(wi, Next1(pi)) = Minus(wi, pi) - 1
    BY <2>2, BehindFacts, Zenon
  <2>3. QED
    BY <2>1, <2>4
<1>2. ASSUME NEW s \in Sequence, Minus(pi, s) = 0 PROVE Minus(Next1(pi), s) = 1
  BY <1>2, BehindFacts, Modulus
<1>3. QED
  BY <1>1, <1>2 DEF UpInputs

(* With no frame in flight none of its copies is, so a new one may be.      *)
LEMMA UpReframed ==
  ASSUME NEW wi, NEW pd, NEW pi, NEW gr, NEW up, UpInputs(wi, pd, pi, <<>>, up)
  PROVE  UpInputs(wi, pd, pi, gr, up)
  BY DEF UpInputs

LEMMA DownPopped ==
  ASSUME NEW wi, NEW pi, NEW T, NEW dn \in Seq(T), dn # <<>>, DownAcks(wi, pi, dn)
  PROVE  DownAcks(wi, pi, Tail(dn))
<1> DEFINE t == Tail(dn)
<1>1. /\ Len(t) = Len(dn) - 1 /\ Len(dn) \in Nat /\ \A i \in 1 .. Len(dn) - 1 : t[i] = dn[i + 1]
      /\ DOMAIN t = 1 .. Len(dn) - 1 /\ DOMAIN dn = 1 .. Len(dn)
  BY TailAt
<1> HIDE DEF t
<1>2. ASSUME NEW j \in DOMAIN t
      PROVE  /\ j + 1 \in DOMAIN dn /\ t[j] = dn[j + 1]
             /\ \A i \in 1 .. j - 1 : i + 1 \in 1 .. (j + 1) - 1 /\ t[i] = dn[i + 1]
  BY <1>1
<1>3. DownAcks(wi, pi, t)
  BY <1>2 DEF DownAcks
<1>4. QED
  BY <1>3 DEF t

(* A message of another kind, or the acknowledgement of the last frame that *)
(* entered.                                                                 *)
LEMMA DownPushed ==
  ASSUME NEW wi \in Sequence, NEW pi \in Sequence, Minus(wi, pi) \in {0, 1},
         NEW T, NEW dn \in Seq(T), NEW m \in T,
         m.type # "INPUT_ACK" \/ m.seq = Minus(wi, 1), DownAcks(wi, pi, dn)
  PROVE  DownAcks(wi, pi, Append(dn, m))
<1> DEFINE t == Append(dn, m)
<1>1. /\ Len(dn) \in Nat /\ \A i \in 1 .. Len(dn) : t[i] = dn[i]
      /\ t[Len(dn) + 1] = m /\ DOMAIN t = 1 .. Len(dn) + 1 /\ DOMAIN dn = 1 .. Len(dn)
  BY AppendAt
<1> DEFINE k == Minus(wi, 1)
<1>2. k \in Sequence /\ Minus(pi, k) = 1 - Minus(wi, pi)
  <2>1. k \in Sequence /\ Minus(wi, k) = 1
    BY BehindFacts
  <2> HIDE DEF k
  <2>2. Minus(pi, k) = 1 - Minus(wi, pi)
    BY <2>1, BehindOrders
  <2>3. QED
    BY <2>1, <2>2
<1> HIDE DEF t, k
<1>3. DownAcks(wi, pi, t)
  <2> SUFFICES ASSUME NEW j \in DOMAIN t, t[j].type = "INPUT_ACK"
               PROVE  /\ t[j].seq \in Sequence
                      /\ Minus(pi, t[j].seq) \in {0, 1}
                      /\ Minus(pi, t[j].seq) = 0 => Minus(wi, pi) = 1
                      /\ \A i \in 1 .. j - 1 : t[i].type = "INPUT_ACK" /\ Minus(pi, t[i].seq) = 0
                           => Minus(pi, t[j].seq) = 0
    BY DEF DownAcks
  <2>1. CASE j = Len(dn) + 1
    <3>1. t[j].seq = k
      BY <1>1, <2>1 DEF k
    <3>2. k \in Sequence /\ Minus(pi, k) \in {0, 1} /\ (Minus(pi, k) = 0 => Minus(wi, pi) = 1)
      BY <1>2
    <3>3. ASSUME NEW i \in 1 .. j - 1, t[i].type = "INPUT_ACK", Minus(pi, t[i].seq) = 0
          PROVE  Minus(pi, k) = 0
      <4>1. i \in DOMAIN dn /\ t[i] = dn[i]
        BY <1>1, <2>1
      <4>2. Minus(wi, pi) = 1
        BY <3>3, <4>1 DEF DownAcks
      <4>3. QED
        BY <1>2, <4>2
    <3>4. QED
      BY <3>1, <3>2, <3>3
  <2>2. CASE j # Len(dn) + 1
    <3>1. j \in DOMAIN dn /\ t[j] = dn[j] /\ \A i \in 1 .. j - 1 : t[i] = dn[i]
      BY <1>1, <2>2
    <3>2. QED
      BY <3>1 DEF DownAcks
  <2>3. QED
    BY <2>1, <2>2
<1>4. QED
  BY <1>3 DEF t

LEMMA DownAccepted ==
  ASSUME NEW wi \in Sequence, NEW pi \in Sequence, Minus(wi, pi) = 0,
         NEW dn, DownAcks(wi, pi, dn)
  PROVE  DownAcks(Next1(wi), pi, dn)
<1>1. Minus(Next1(wi), pi) = 1
  BY BehindFacts, Modulus
<1>2. QED
  BY <1>1 DEF DownAcks

(* The acknowledgement the page waits for: those behind it repeat it.       *)
LEMMA DownMovedOn ==
  ASSUME NEW wi \in Sequence, NEW pi \in Sequence, NEW T, NEW dn \in Seq(T), dn # <<>>,
         DownAcks(wi, pi, dn), dn[1].type = "INPUT_ACK", dn[1].seq = pi
  PROVE  DownAcks(wi, Next1(pi), Tail(dn)) /\ Minus(wi, pi) = 1
<1> DEFINE t == Tail(dn)
<1>1. /\ Len(t) = Len(dn) - 1 /\ Len(dn) \in Nat /\ \A i \in 1 .. Len(dn) - 1 : t[i] = dn[i + 1]
      /\ DOMAIN t = 1 .. Len(dn) - 1 /\ DOMAIN dn = 1 .. Len(dn) /\ 1 \in DOMAIN dn
  BY TailAt
<1> HIDE DEF t
<1>2. Minus(pi, pi) = 0
  BY BehindFacts
<1>3. ASSUME NEW s \in Sequence, Minus(pi, s) = 0 PROVE Minus(Next1(pi), s) = 1
  BY <1>3, BehindFacts, Modulus
<1>4. ASSUME NEW j \in DOMAIN t, t[j].type = "INPUT_ACK"
      PROVE  t[j].seq \in Sequence /\ Minus(Next1(pi), t[j].seq) = 1
  <2>1. j + 1 \in DOMAIN dn /\ t[j] = dn[j + 1] /\ 1 \in 1 .. (j + 1) - 1
    BY <1>1
  <2>2. t[j].seq \in Sequence /\ Minus(pi, t[j].seq) = 0
    BY <1>2, <1>4, <2>1 DEF DownAcks
  <2>3. QED
    BY <1>3, <2>2
<1>5. DownAcks(wi, Next1(pi), t)
  <2>1. \A j \in DOMAIN t : \A i \in 1 .. j - 1 : i \in DOMAIN t
    BY <1>1
  <2>2. QED
    BY <1>4, <2>1 DEF DownAcks
<1>6. Minus(wi, pi) = 1
  BY <1>1, <1>2 DEF DownAcks
<1>7. QED
  BY <1>5, <1>6 DEF t

LEMMA BytesJoined ==
  ASSUME NEW a \in Bytes, NEW b \in Bytes
  PROVE  /\ a \o b \in Bytes /\ Len(a \o b) = Len(a) + Len(b) /\ Len(a) \in Nat /\ Len(b) \in Nat
         /\ a \o <<>> = a /\ <<>> \o a = a /\ <<>> \in Bytes
  BY JoinAt, NothingJoined DEF Bytes

LEMMA BytesInTurn ==
  ASSUME NEW a \in Bytes, NEW b \in Bytes, NEW c \in Bytes
  PROVE  (a \o b) \o c = a \o (b \o c)
  BY JoinInTurn DEF Bytes

LEMMA StateHeld ==
  ASSUME NEW wi, NEW pd, NEW pi, NEW fr, NEW bf, NEW en, NEW ty,
         InputState(wi, pd, pi, fr, bf, en, ty), Minus(wi, pi) = 0
  PROVE  InputState(wi, fr, pi, fr, bf, en, ty)
  BY DEF InputState

LEMMA StateAccepted ==
  ASSUME NEW wi, NEW pd, pd # <<>>, NEW pi, NEW fr, NEW bf, NEW en, NEW ty,
         InputState(wi, pd, pi, fr, bf, en, ty)
  PROVE  InputState(Next1(wi), <<>>, pi, fr, bf, en \o pd, ty)
<1>1. /\ wi \in Sequence /\ pi \in Sequence /\ Minus(wi, pi) \in {0, 1}
      /\ Minus(wi, pi) # 1 /\ pd = fr /\ fr \in Bytes /\ en \in Bytes
  BY Zenon DEF InputState
<1>2. PICK rest \in Bytes :
        bf = fr \o rest /\ ty = en \o (IF Minus(wi, pi) = 1 THEN rest ELSE bf)
  BY Zenon DEF InputState
<1>3. Minus(Next1(wi), pi) = 1 /\ Next1(wi) \in Sequence
  <2>1. Minus(wi, pi) = 0
    BY <1>1
  <2>2. Minus(wi, pi) < SequenceModulus - 1 /\ Minus(wi, pi) + 1 = 1
    BY <2>1, Modulus
  <2>3. QED
    BY <1>1, <2>2, BehindFacts, Zenon
<1>4. ty = en \o (fr \o rest)
  BY <1>1, <1>2, Zenon
<1>5. ty = (en \o fr) \o rest /\ en \o fr \in Bytes
  <2>1. en \in Bytes /\ fr \in Bytes /\ rest \in Bytes
    BY <1>1
  <2>2. (en \o fr) \o rest = en \o (fr \o rest)
    BY <2>1, BytesInTurn
  <2>3. en \o fr \in Bytes
    BY <2>1, BytesJoined
  <2>4. QED
    BY <1>4, <2>2, <2>3
<1>6. QED
  BY <1>1, <1>2, <1>3, <1>5 DEF InputState

LEMMA StateMovedOn ==
  ASSUME NEW wi, NEW pd, NEW pi, NEW fr, NEW bf, NEW en, NEW ty,
         InputState(wi, pd, pi, fr, bf, en, ty), Minus(wi, pi) = 1
  PROVE  InputState(wi, <<>>, Next1(pi), <<>>, Rest(bf, Len(fr)), en, ty) /\ pd = <<>>
<1>1. /\ wi \in Sequence /\ pi \in Sequence /\ pd = <<>> /\ fr \in Bytes /\ en \in Bytes
  BY Zenon DEF InputState
<1>2. PICK rest \in Bytes : bf = fr \o rest /\ ty = en \o rest
  BY DEF InputState
<1>3. Rest(bf, Len(fr)) = rest /\ rest = <<>> \o rest /\ <<>> \in Bytes
  BY <1>1, <1>2, RestOfJoin, NothingJoined DEF Bytes
<1>4. Minus(wi, Next1(pi)) = 0 /\ Next1(pi) \in Sequence
  <2>1. Minus(wi, pi) > 0 /\ Minus(wi, pi) - 1 = 0
    OBVIOUS
  <2>2. QED
    BY <1>1, <2>1, BehindFacts, Zenon
<1>5. QED
  <2> DEFINE left == Rest(bf, Len(fr))
  <2>1. left \in Bytes /\ left = <<>> \o left /\ ty = en \o left
    BY <1>2, <1>3
  <2> HIDE DEF left
  <2>2. InputState(wi, <<>>, Next1(pi), <<>>, left, en, ty)
    <3>1. Minus(wi, Next1(pi)) # 1 /\ Minus(wi, Next1(pi)) \in {0, 1}
      BY <1>4
    <3>2. ty = en \o (IF Minus(wi, Next1(pi)) = 1 THEN left ELSE left)
      BY <2>1
    <3>3. QED
      BY <1>1, <1>4, <2>1, <3>1, <3>2, NoBytes, Zenon DEF InputState
  <2>3. QED
    BY <1>1, <2>2 DEF left

LEMMA StateFramed ==
  ASSUME NEW wi, NEW pd, NEW pi, NEW bf, NEW en, NEW ty, NEW n \in Nat,
         InputState(wi, pd, pi, <<>>, bf, en, ty)
  PROVE  InputState(wi, pd, pi, First(bf, n), bf, en, ty)
<1>1. /\ wi \in Sequence /\ pi \in Sequence /\ Minus(wi, pi) = 0 /\ pd = <<>> /\ en \in Bytes
  BY DEF InputState
<1>2. PICK rest \in Bytes : bf = <<>> \o rest /\ ty = en \o bf
  BY <1>1 DEF InputState
<1>3. bf \in Bytes
  BY <1>2, NothingJoined DEF Bytes
<1>4. bf = First(bf, n) \o Rest(bf, n) /\ First(bf, n) \in Bytes /\ Rest(bf, n) \in Bytes
  BY <1>3, FirstThenRest DEF Bytes
<1>5. QED
  BY <1>1, <1>2, <1>4 DEF InputState

LEMMA StateTyped ==
  ASSUME NEW wi, NEW pd, NEW pi, NEW fr, NEW bf, NEW en, NEW ty, NEW b \in Byte,
         InputState(wi, pd, pi, fr, bf, en, ty)
  PROVE  InputState(wi, pd, pi, fr, Append(bf, b), en, Append(ty, b))
<1>1. /\ fr \in Bytes /\ en \in Bytes
  BY Zenon DEF InputState
<1>2. PICK rest \in Bytes :
        bf = fr \o rest /\ ty = en \o (IF Minus(wi, pi) = 1 THEN rest ELSE bf)
  BY Zenon DEF InputState
<1>3. /\ bf \in Bytes /\ Append(rest, b) \in Bytes /\ Append(rest, b) = rest \o <<b>>
      /\ Append(bf, b) = bf \o <<b>> /\ <<b>> \in Bytes
  BY <1>1, <1>2, AppendAt, JoinAt DEF Bytes
<1>4. Append(bf, b) = fr \o Append(rest, b)
  BY <1>1, <1>2, <1>3, JoinInTurn DEF Bytes
<1> DEFINE tail == IF Minus(wi, pi) = 1 THEN rest ELSE bf
<1>5. tail \in Bytes
  BY <1>2, <1>3, Zenon
<1>6. Append(ty, b) = en \o Append(tail, b)
  <2>1. ty = en \o tail
    BY <1>2, Zenon
  <2> HIDE DEF tail
  <2>2. ty \in Bytes /\ Append(ty, b) = ty \o <<b>> /\ Append(tail, b) = tail \o <<b>>
    BY <1>1, <1>5, <2>1, JoinAt, AppendAt DEF Bytes
  <2>3. QED
    <3>1. (en \o tail) \o <<b>> = en \o (tail \o <<b>>)
      BY <1>1, <1>3, <1>5, BytesInTurn
    <3>2. QED
      BY <2>1, <2>2, <3>1
<1>7. Append(tail, b) = IF Minus(wi, pi) = 1 THEN Append(rest, b) ELSE Append(bf, b)
  BY Zenon
<1>8. QED
  BY <1>3, <1>4, <1>6, <1>7, Zenon DEF InputState

LEMMA StateFresh == InputState(1, <<>>, 1, <<>>, <<>>, <<>>, <<>>)
<1>1. 1 \in Sequence /\ Minus(1, 1) = 0
  BY BehindFacts, Modulus DEF Sequence
<1>2. <<>> \in Bytes /\ <<>> = <<>> \o <<>>
  BY NothingJoined DEF Bytes
<1>3. QED
  BY <1>1, <1>2 DEF InputState

LEMMA StateIsOnce ==
  ASSUME NEW wi, NEW pd, NEW pi, NEW fr, NEW bf, NEW en, NEW ty,
         InputState(wi, pd, pi, fr, bf, en, ty)
  PROVE  IsPrefix(en, ty) /\ Len(ty) - Len(bf) <= Len(en)
<1>1. /\ fr \in Bytes /\ en \in Bytes
  BY Zenon DEF InputState
<1>2. PICK rest \in Bytes :
        bf = fr \o rest /\ ty = en \o (IF Minus(wi, pi) = 1 THEN rest ELSE bf)
  BY Zenon DEF InputState
<1> DEFINE tail == IF Minus(wi, pi) = 1 THEN rest ELSE bf
<1>3. bf \in Bytes /\ Len(bf) = Len(fr) + Len(rest) /\ Len(fr) \in Nat /\ Len(rest) \in Nat
  BY <1>1, <1>2, JoinAt DEF Bytes
<1>4. tail \in Bytes /\ Len(tail) <= Len(bf)
  BY <1>2, <1>3
<1>5. ty = en \o tail
  BY <1>2, Zenon
<1> HIDE DEF tail
<1>6. /\ ty \in Bytes /\ Len(ty) = Len(en) + Len(tail) /\ Len(en) \in Nat /\ Len(tail) \in Nat
      /\ \A i \in 1 .. Len(en) : ty[i] = en[i]
  BY <1>1, <1>4, <1>5, JoinAt DEF Bytes
<1>7. SubSeq(en, 1, Len(en)) = SubSeq(ty, 1, Len(en))
  BY <1>1, <1>6 DEF Bytes
<1>8. QED
  BY <1>3, <1>4, <1>6, <1>7 DEF IsPrefix

LEMMA TailShifts ==
  ASSUME NEW T, NEW s \in Seq(T), s # <<>>
  PROVE  /\ \A j \in DOMAIN Tail(s) :
              /\ j \in Int /\ j + 1 \in DOMAIN s /\ Tail(s)[j] = s[j + 1] /\ 1 \in 1 .. (j + 1) - 1
              /\ \A i \in 1 .. j - 1 : i + 1 \in 1 .. (j + 1) - 1 /\ Tail(s)[i] = s[i + 1]
              /\ \A i \in 1 .. (j + 1) - 1 : i = 1 \/ (i - 1 \in 1 .. j - 1 /\ Tail(s)[i - 1] = s[i])
         /\ \A j \in DOMAIN s : j \in Int /\ (j = 1 \/ (j - 1 \in DOMAIN Tail(s) /\ Tail(s)[j - 1] = s[j]))
         /\ 1 \in DOMAIN s /\ Head(s) = s[1]
<1> DEFINE t == Tail(s)
<1>1. /\ Len(t) = Len(s) - 1 /\ Len(s) \in Nat /\ \A i \in 1 .. Len(s) - 1 : t[i] = s[i + 1]
      /\ DOMAIN t = 1 .. Len(s) - 1 /\ DOMAIN s = 1 .. Len(s) /\ Len(s) >= 1 /\ Head(s) = s[1]
  BY TailAt
<1> HIDE DEF t
<1>2. ASSUME NEW j \in DOMAIN t
      PROVE  /\ j \in Int /\ j + 1 \in DOMAIN s /\ t[j] = s[j + 1] /\ 1 \in 1 .. (j + 1) - 1
             /\ \A i \in 1 .. j - 1 : i + 1 \in 1 .. (j + 1) - 1 /\ t[i] = s[i + 1]
             /\ \A i \in 1 .. (j + 1) - 1 : i = 1 \/ (i - 1 \in 1 .. j - 1 /\ t[i - 1] = s[i])
  <2>1. j \in Int /\ j >= 1 /\ j + 1 <= Len(s)
    BY <1>1
  <2>2. ASSUME NEW i \in 1 .. (j + 1) - 1, i # 1
        PROVE  i - 1 \in 1 .. j - 1 /\ t[i - 1] = s[i]
    <3>1. i - 1 \in 1 .. j - 1 /\ i - 1 \in 1 .. Len(s) - 1 /\ (i - 1) + 1 = i
      BY <2>1, <2>2
    <3>2. QED
      BY <1>1, <3>1
  <2>3. QED
    BY <1>1, <2>1, <2>2
<1>3. ASSUME NEW j \in DOMAIN s, j # 1 PROVE j - 1 \in DOMAIN t /\ t[j - 1] = s[j]
  <2>1. j - 1 \in 1 .. Len(s) - 1 /\ (j - 1) + 1 = j
    BY <1>1, <1>3
  <2>2. QED
    BY <1>1, <2>1
<1>4. 1 \in DOMAIN s /\ \A j \in DOMAIN s : j \in Int
  BY <1>1
<1>5. QED
  BY <1>1, <1>2, <1>3, <1>4 DEF t

LEMMA AppendShifts ==
  ASSUME NEW T, NEW s \in Seq(T), NEW m \in T
  PROVE  /\ \A j \in DOMAIN Append(s, m) :
              \/ j = Len(s) + 1 /\ Append(s, m)[j] = m
              \/ j \in DOMAIN s /\ j # Len(s) + 1 /\ Append(s, m)[j] = s[j]
         /\ \A j \in DOMAIN Append(s, m) : \A i \in 1 .. j - 1 :
              i \in DOMAIN s /\ Append(s, m)[i] = s[i]
         /\ \A j \in DOMAIN s : j \in DOMAIN Append(s, m) /\ Append(s, m)[j] = s[j]
         /\ Len(Append(s, m)) = Len(s) + 1 /\ Len(s) \in Nat
         /\ Len(s) + 1 \in DOMAIN Append(s, m) /\ DOMAIN s = 1 .. Len(s)
<1> DEFINE t == Append(s, m)
<1>1. /\ Len(s) \in Nat /\ \A i \in 1 .. Len(s) : t[i] = s[i] /\ Len(t) = Len(s) + 1
      /\ t[Len(s) + 1] = m /\ DOMAIN t = 1 .. Len(s) + 1 /\ DOMAIN s = 1 .. Len(s) /\ Len(t) = Len(s) + 1
  BY AppendAt
<1> HIDE DEF t
<1>2. \A j \in DOMAIN t : \A i \in 1 .. j - 1 : i \in DOMAIN s
  BY <1>1
<1>3. QED
  BY <1>1, <1>2 DEF t

-----------------------------------------------------------------------------
(* The input part of the invariant.                                         *)

History == [written : Bytes, shown : Bytes, entered : Bytes, typed : Bytes]

(* A connection: only the owner's is open, the owner's stands, only the     *)
(* served page acknowledges output, and one whose start is not yet handled  *)
(* has carried nothing.                                                     *)
ConnGood(a, begun, ch, p, c) ==
  /\ ch.state = "open" => a = c
  /\ a = c => ch.state \in {"open", "silent", "closing", "raw"}
  /\ ch.state = "new" => ch = Channel("new") /\ p = ResetPage /\ a # c
  /\ ch.state = "raw" => \A j \in DOMAIN ch.up : ch.up[j].type # "OUTPUT_ACK"
  /\ begun /\ a = c /\ ch.state \in {"open", "silent", "closing"} =>
       ch.up = <<>> /\ ch.down = <<>> /\ p = ResetPage

FlagsGood(w, t, at, network) ==
  /\ w.disconnected /\ w.active # None => w.connected
  /\ w.active # None => network
  /\ at \in {"heartbeat", "stage"} => w.active # None /\ ~w.connected /\ ~w.disconnected
  /\ at = "stage" => w.ready
  /\ w.active # None /\ ~w.connected /\ ~w.disconnected => t.browser
  /\ ~t.browser => w.window = <<>> /\ w.staged = <<>>

Linked ==
  /\ FlagsGood(web, term, pc, setup.network)
  /\ \A c \in Conns : ConnGood(web.active, web.connected, net[c], page[c], c)

(* READY is the first message of a page, and until it is sent the page is   *)
(* as it was loaded.                                                        *)
Hand(ready, p, up, dn) ==
  /\ ~ready /\ (p.ready \/ up # <<>>) => up # <<>> /\ up[1].type = "READY"
  /\ ~p.ready => /\ ~ready /\ p = ResetPage /\ up = <<>>
                 /\ \A j \in DOMAIN dn : dn[j].type \in {"HELLO", "INPUT_ACK"}

InTalk(w, p, up, dn, h) ==
  /\ Hand(w.ready, p, up, dn)
  /\ InputState(w.in_seq, w.pending_input, p.in_seq, p.frame, p.buffer, h.entered, h.typed)
  /\ UpInputs(w.in_seq, w.pending_input, p.in_seq, p.frame, up)
  /\ DownAcks(w.in_seq, p.in_seq, dn)

InputTalks ==
  Steady /\ Live(web.active) =>
    InTalk(web, page[web.active], net[web.active].up, net[web.active].down, hist)

InputInv == RoomInv /\ hist \in History /\ Linked /\ InputTalks

-----------------------------------------------------------------------------
(* Steps of the parts.                                                      *)

LEMMA HandPopped ==
  ASSUME NEW p, NEW up, NEW dn, NEW ready, Hand(ready, p, up, dn), up # <<>>,
         NEW up2, NEW now, now
  PROVE  Hand(now, p, up2, dn)
<1>1. p.ready
  BY Zenon DEF Hand
<1>2. QED
  BY <1>1, Zenon DEF Hand

LEMMA HandPushed ==
  ASSUME NEW ready, NEW p, NEW up, NEW T, NEW dn \in Seq(T), NEW m \in T,
         Hand(ready, p, up, dn), ready \/ m.type \in {"HELLO", "INPUT_ACK"}
  PROVE  Hand(ready, p, up, Append(dn, m))
<1> DEFINE t == Append(dn, m)
<1>1. \A j \in DOMAIN t : \/ j = Len(dn) + 1 /\ t[j] = m
                          \/ j \in DOMAIN dn /\ j # Len(dn) + 1 /\ t[j] = dn[j]
  BY AppendShifts
<1> HIDE DEF t
<1>2. Hand(ready, p, up, t)
  BY <1>1, Zenon DEF Hand
<1>3. QED
  BY <1>2 DEF t

(* A page that is ready goes on.                                            *)
LEMMA HandAnswered ==
  ASSUME NEW ready, NEW p, NEW T, NEW up \in Seq(T), NEW dn, Hand(ready, p, up, dn), p.ready,
         NEW q, q.ready, NEW answers \in Seq(T), NEW dn2
  PROVE  Hand(ready, q, up \o answers, dn2)
<1>1. CASE up = <<>>
  BY <1>1, Zenon DEF Hand
<1>2. CASE up # <<>>
  <2>1. (up \o answers)[1] = up[1] /\ up \o answers # <<>>
    BY <1>2
  <2>2. QED
    BY <1>2, <2>1, Zenon DEF Hand
<1>3. QED
  BY <1>1, <1>2

(* A page that was not ready is greeted.                                    *)
LEMMA HandGreeted ==
  ASSUME NEW ready, NEW p, NEW T, NEW up \in Seq(T), NEW dn, Hand(ready, p, up, dn), ~p.ready,
         NEW q, q.ready, NEW m \in T, m.type = "READY", NEW answers \in Seq(T), NEW dn2
  PROVE  Hand(ready, q, up \o (<<m>> \o answers), dn2)
<1>1. up = <<>>
  BY Zenon DEF Hand
<1>2. /\ up \o (<<m>> \o answers) # <<>>
      /\ (up \o (<<m>> \o answers))[1] = m
  BY <1>1
<1>3. QED
  BY <1>2, Zenon DEF Hand

LEMMA HandIgnored ==
  ASSUME NEW ready, NEW p, NEW up, NEW T, NEW dn \in Seq(T), dn # <<>>, Hand(ready, p, up, dn)
  PROVE  Hand(ready, p, up, Tail(dn))
<1> DEFINE t == Tail(dn)
<1>1. \A j \in DOMAIN t : j + 1 \in DOMAIN dn /\ t[j] = dn[j + 1]
  BY TailShifts
<1> HIDE DEF t
<1>2. Hand(ready, p, up, t)
  BY <1>1, Zenon DEF Hand
<1>3. QED
  BY <1>2 DEF t

-----------------------------------------------------------------------------
(* The page's steps of a session.                                           *)

(* What a page's step leaves alone when it is not about output.             *)
SameWrites(p, q) == q.received = p.received /\ q.out_seq = p.out_seq /\ q.writes = p.writes

NoAcks(answers) == \A j \in DOMAIN answers : answers[j].type # "OUTPUT_ACK"

LEMMA PumpedPage ==
  ASSUME NEW p, PageGood(p)
  PROVE  /\ PageGood(Pumped(p)) /\ Pump(p) \in Seq(InputMessages) /\ Len(Pump(p)) <= 1
         /\ Pumped(p).ready = p.ready /\ Pumped(p).buffer = p.buffer
         /\ Pumped(p).in_seq = p.in_seq /\ SameWrites(p, Pumped(p)) /\ NoAcks(Pump(p))
         /\ \/ Pumped(p).frame = p.frame /\ Pumped(p) = p
            \/ /\ p.frame = <<>> /\ p.buffer # <<>> /\ p.ready
               /\ Pumped(p).frame = First(p.buffer, INPUT_BYTES) /\ Pumped(p).frame # <<>>
         /\ \/ Pump(p) = <<>>
            \/ /\ Pump(p) = <<Message("INPUT", p.in_seq, Pumped(p).frame)>>
               /\ Message("INPUT", p.in_seq, Pumped(p).frame) \in InputMessages
               /\ Pumped(p).frame # <<>>
<1> DEFINE d == First(p.buffer, INPUT_BYTES)
           q == Pumped(p)
           m == Message("INPUT", p.in_seq, q.frame)
<1>1. PageGood(q) /\ Pump(p) \in Seq(InputMessages) /\ Len(Pump(p)) <= 1
  BY PumpFacts, Zenon
<1>2. p.buffer \in Bytes /\ DOMAIN p = PageFields
  BY PageFacts, Zenon
<1>3. p.buffer # <<>> => d # <<>>
  <2>1. INPUT_BYTES \in Nat /\ INPUT_BYTES > 0
    BY Sizes
  <2>2. ASSUME p.buffer # <<>> PROVE Len(d) > 0
    <3>1. Len(p.buffer) > 0 /\ p.buffer \in Seq(Byte)
      BY <1>2, <2>2 DEF Bytes
    <3>2. Len(d) = IF INPUT_BYTES < Len(p.buffer) THEN INPUT_BYTES ELSE Len(p.buffer)
      BY <2>1, <3>1, FirstThenRest
    <3>3. QED
      BY <2>1, <3>1, <3>2
  <2>3. QED
    BY <2>2, NoBytes
<1>4. CASE p.ready /\ p.buffer # <<>> /\ p.frame = <<>>
  <2>1. q = [p EXCEPT !.frame = d]
    BY <1>4, Zenon DEF Pumped
  <2>2. Pump(p) = <<m>>
    BY <1>4, Zenon DEF Pump
  <2> HIDE DEF d, q
  <2>3. /\ q.ready = p.ready /\ q.buffer = p.buffer /\ q.in_seq = p.in_seq /\ q.frame = d
        /\ q.received = p.received /\ q.out_seq = p.out_seq /\ q.writes = p.writes
    BY <1>2, <2>1, ZenonT(60) DEF PageFields
  <2>4. m.type = "INPUT"
    BY DEF Message
  <2> HIDE DEF m
  <2>5. m \in InputMessages /\ NoAcks(Pump(p))
    BY <1>1, <2>2, <2>4 DEF NoAcks
  <2>6. QED
    BY <1>1, <1>3, <1>4, <2>2, <2>3, <2>5, Zenon DEF m, q, d, SameWrites
<1>5. CASE ~(p.ready /\ p.buffer # <<>> /\ p.frame = <<>>)
  <2>1. q = p
    BY <1>5, Zenon DEF Pumped
  <2>2. CASE p.ready /\ p.buffer # <<>>
    <3>1. Pump(p) = <<m>> /\ p.frame # <<>>
      BY <1>5, <2>2, Zenon DEF Pump
    <3>2. m.type = "INPUT"
      BY DEF Message
    <3> HIDE DEF m, q
    <3>3. m \in InputMessages /\ NoAcks(Pump(p))
      BY <1>1, <3>1, <3>2 DEF NoAcks
    <3>4. QED
      BY <1>1, <2>1, <3>1, <3>3, Zenon DEF m, q, SameWrites
  <2>3. CASE ~(p.ready /\ p.buffer # <<>>)
    <3>1. Pump(p) = <<>>
      BY <2>3, Zenon DEF Pump
    <3> HIDE DEF q
    <3>2. NoAcks(Pump(p))
      BY <3>1 DEF NoAcks
    <3>3. QED
      BY <1>1, <2>1, <3>1, <3>2, Zenon DEF q, SameWrites
  <2>4. QED
    BY <2>2, <2>3, Zenon
<1>6. QED
  BY <1>4, <1>5, Zenon

LEMMA JoinOne ==
  ASSUME NEW T, NEW s \in Seq(T), NEW m \in T
  PROVE  s \o <<m>> = Append(s, m) /\ s \o <<>> = s
  OBVIOUS

LEMMA PumpTalks ==
  ASSUME NEW p, PageGood(p), NEW wi, NEW pd, NEW en, NEW ty, NEW up \in Seq(InputMessages),
         InputState(wi, pd, p.in_seq, p.frame, p.buffer, en, ty),
         UpInputs(wi, pd, p.in_seq, p.frame, up)
  PROVE  /\ InputState(wi, pd, Pumped(p).in_seq, Pumped(p).frame, Pumped(p).buffer, en, ty)
         /\ UpInputs(wi, pd, Pumped(p).in_seq, Pumped(p).frame, up \o Pump(p))
<1> DEFINE q == Pumped(p)
           m == Message("INPUT", p.in_seq, q.frame)
<1>1. /\ q.buffer = p.buffer /\ q.in_seq = p.in_seq
      /\ q.frame = p.frame \/ (p.frame = <<>> /\ q.frame = First(p.buffer, INPUT_BYTES))
      /\ Pump(p) = <<>> \/ (Pump(p) = <<m>> /\ m \in InputMessages /\ q.frame # <<>>)
  BY PumpedPage, Zenon
<1>2. m.type = "INPUT" /\ m.seq = p.in_seq /\ m.data = q.frame
  BY DEF Message
<1> HIDE DEF q, m
<1>3. INPUT_BYTES \in Nat /\ p.in_seq \in Sequence
  BY Sizes DEF InputState
<1>4. InputState(wi, pd, p.in_seq, q.frame, p.buffer, en, ty) /\ UpInputs(wi, pd, p.in_seq, q.frame, up)
  <2>1. CASE q.frame = p.frame
    BY <2>1, Zenon
  <2>2. CASE p.frame = <<>> /\ q.frame = First(p.buffer, INPUT_BYTES)
    <3>1. InputState(wi, pd, p.in_seq, <<>>, p.buffer, en, ty) /\ UpInputs(wi, pd, p.in_seq, <<>>, up)
      BY <2>2, Zenon
    <3>2. InputState(wi, pd, p.in_seq, First(p.buffer, INPUT_BYTES), p.buffer, en, ty)
      BY <1>3, <3>1, StateFramed, Zenon
    <3>3. UpInputs(wi, pd, p.in_seq, q.frame, up)
      BY <3>1, UpReframed, Zenon
    <3>4. QED
      BY <2>2, <3>2, <3>3, Zenon
  <2>3. QED
    BY <1>1, <2>1, <2>2, Zenon
<1>5. UpInputs(wi, pd, p.in_seq, q.frame, up \o Pump(p))
  <2>1. CASE Pump(p) = <<>>
    BY <1>4, <2>1
  <2>2. CASE Pump(p) = <<m>> /\ m \in InputMessages /\ q.frame # <<>>
    <3>1. UpInputs(wi, pd, p.in_seq, q.frame, Append(up, m))
      BY <1>2, <1>3, <1>4, <2>2, UpPushed, Zenon
    <3>2. QED
      BY <2>2, <3>1, JoinOne, Zenon
  <2>3. QED
    BY <1>1, <2>1, <2>2, Zenon
<1>6. QED
  BY <1>1, <1>4, <1>5, Zenon DEF q

(* What comes of a page step: the page, the channel each way, and what is   *)
(* typed.                                                                   *)
LEMMA TypeTalks ==
  ASSUME NEW w, NEW p, PageGood(p), NEW up \in Seq(InputMessages), NEW dn, NEW h,
         InTalk(w, p, up, dn, h), p.ready, NEW b \in Byte, NEW g, g.entered = h.entered,
         g.typed = Append(h.typed, b), NEW o, o = [p EXCEPT !.buffer = Append(p.buffer, b)]
  PROVE  /\ PageGood(o) /\ SameWrites(p, o)
         /\ p.frame # <<>> => InTalk(w, o, up \o <<>>, dn, g)
         /\ InTalk(w, Pumped(o), up \o Pump(o), dn, g)
<1> DEFINE buf == Append(p.buffer, b)
<1>1. DOMAIN p = PageFields /\ p.buffer \in Bytes
  BY PageFacts, Zenon
<1>2. buf \in Bytes
  BY <1>1 DEF Bytes
<1>3. o = [p EXCEPT !.buffer = buf]
  BY Zenon
<1> HIDE DEF buf
<1>4. /\ DOMAIN o = PageFields /\ o.buffer = buf /\ o.writes = p.writes /\ o.frame = p.frame
      /\ o.in_seq = p.in_seq /\ o.out_seq = p.out_seq /\ o.received = p.received
      /\ o.ready = p.ready
  BY <1>1, <1>3, ZenonT(60) DEF PageFields
<1>5. PageGood(o) /\ SameWrites(p, o)
  BY <1>2, <1>4, PageFacts, Zenon DEF PageGood, SameWrites
<1>6. /\ Hand(w.ready, p, up, dn) /\ DownAcks(w.in_seq, p.in_seq, dn)
      /\ InputState(w.in_seq, w.pending_input, p.in_seq, p.frame, p.buffer, h.entered, h.typed)
      /\ UpInputs(w.in_seq, w.pending_input, p.in_seq, p.frame, up)
  BY Zenon DEF InTalk
<1>7. InputState(w.in_seq, w.pending_input, p.in_seq, p.frame, buf, h.entered, Append(h.typed, b))
  BY <1>6, StateTyped, Zenon DEF buf
<1>8. /\ InputState(w.in_seq, w.pending_input, o.in_seq, o.frame, o.buffer, g.entered, g.typed)
      /\ UpInputs(w.in_seq, w.pending_input, o.in_seq, o.frame, up)
      /\ DownAcks(w.in_seq, o.in_seq, dn)
  BY <1>4, <1>6, <1>7, Zenon
<1>9. InTalk(w, o, up \o <<>>, dn, g)
  <2>1. up \o <<>> = up /\ <<>> \in Seq(InputMessages)
    OBVIOUS
  <2>2. Hand(w.ready, o, up \o <<>>, dn)
    BY <1>4, <1>6, <2>1, HandAnswered, Zenon
  <2>3. QED
    BY <1>8, <2>1, <2>2, Zenon DEF InTalk
<1>10. InTalk(w, Pumped(o), up \o Pump(o), dn, g)
  <2>1. /\ Pumped(o).ready = o.ready /\ Pumped(o).in_seq = o.in_seq
        /\ Pump(o) \in Seq(InputMessages)
    BY <1>5, PumpedPage, Zenon
  <2>2. Hand(w.ready, Pumped(o), up \o Pump(o), dn)
    BY <1>4, <1>6, <2>1, HandAnswered, Zenon
  <2>3. QED
    BY <1>5, <1>8, <2>1, <2>2, PumpTalks, Zenon DEF InTalk
<1>11. QED
  BY <1>5, <1>9, <1>10, Zenon

LEMMA RetryTalks ==
  ASSUME NEW w, NEW p, PageGood(p), NEW up \in Seq(InputMessages), NEW dn, NEW h,
         InTalk(w, p, up, dn, h), p.frame # <<>>
  PROVE  p.ready /\ InTalk(w, p, up \o Pump(p), dn, h) /\ NoAcks(Pump(p))
<1>1. p.ready
  <2>1. ~p.ready => p = ResetPage
    BY Zenon DEF InTalk, Hand
  <2>2. ResetPage.frame = <<>>
    BY DEF ResetPage
  <2>3. QED
    BY <2>1, <2>2, Zenon
<1>2. Pumped(p) = p /\ Pump(p) \in Seq(InputMessages) /\ NoAcks(Pump(p))
  BY PumpedPage, Zenon
<1>3. Hand(w.ready, p, up \o Pump(p), dn)
  BY <1>1, <1>2, HandAnswered, Zenon DEF InTalk
<1>4. InputState(w.in_seq, w.pending_input, p.in_seq, p.frame, p.buffer, h.entered, h.typed)
      /\ UpInputs(w.in_seq, w.pending_input, p.in_seq, p.frame, up \o Pump(p))
  BY <1>2, PumpTalks, Zenon DEF InTalk
<1>5. QED
  BY <1>1, <1>2, <1>3, <1>4, Zenon DEF InTalk

(* A message that is no input message does not concern the input.           *)
LEMMA OtherTalks ==
  ASSUME NEW w, NEW p, NEW up \in Seq(InputMessages), NEW dn \in Seq(Messages), NEW h,
         InTalk(w, p, up, dn, h), p.ready, NEW q, q.ready, q.in_seq = p.in_seq,
         q.frame = p.frame, q.buffer = p.buffer, NEW dn2, dn2 = dn \/ (dn # <<>> /\ dn2 = Tail(dn)),
         NEW answers, answers = <<>> \/
           \E m \in InputMessages : m.type # "INPUT" /\ answers = <<m>>
  PROVE  InTalk(w, q, up \o answers, dn2, h)
<1>1. /\ Hand(w.ready, p, up, dn) /\ DownAcks(w.in_seq, p.in_seq, dn)
      /\ InputState(w.in_seq, w.pending_input, p.in_seq, p.frame, p.buffer, h.entered, h.typed)
      /\ UpInputs(w.in_seq, w.pending_input, p.in_seq, p.frame, up)
  BY Zenon DEF InTalk
<1>2. answers \in Seq(InputMessages)
  <2>1. <<>> \in Seq(InputMessages) /\ \A m \in InputMessages : <<m>> \in Seq(InputMessages)
    OBVIOUS
  <2>2. QED
    BY <2>1, Zenon
<1>3. UpInputs(w.in_seq, w.pending_input, p.in_seq, p.frame, up \o answers)
  <2>1. CASE answers = <<>>
    BY <1>1, <2>1, JoinOne
  <2>2. CASE \E m \in InputMessages : m.type # "INPUT" /\ answers = <<m>>
    <3>1. PICK m \in InputMessages : m.type # "INPUT" /\ answers = <<m>>
      BY <2>2, Zenon
    <3>2. p.in_seq \in Sequence
      BY <1>1, Zenon DEF InputState
    <3>3. UpInputs(w.in_seq, w.pending_input, p.in_seq, p.frame, Append(up, m))
      BY <1>1, <3>1, <3>2, UpPushed, Zenon
    <3>4. QED
      BY <3>1, <3>3, JoinOne, Zenon
  <2>3. QED
    BY <2>1, <2>2
<1>4. DownAcks(w.in_seq, p.in_seq, dn2)
  BY <1>1, DownPopped, Zenon
<1>5. Hand(w.ready, q, up \o answers, dn2)
  BY <1>1, <1>2, HandAnswered, Zenon
<1>6. QED
  BY <1>1, <1>3, <1>4, <1>5, Zenon DEF InTalk

LEMMA HelloTalks ==
  ASSUME NEW w, NEW c, NEW p, PageGood(p), NEW up \in Seq(InputMessages), NEW h,
         net[c].down \in Seq(Messages), net[c].down # <<>>,
         InTalk(w, p, up, net[c].down, h), PageHello(c, p)
  PROVE  \E q, answers :
           /\ PageStep(c, q, Tail(net[c].down), answers) /\ answers \in Seq(InputMessages)
           /\ SameWrites(p, q) /\ NoAcks(answers)
           /\ InTalk(w, q, up \o answers, Tail(net[c].down), h)
<1> DEFINE o == [p EXCEPT !.ready = TRUE]
           m == Control("READY", 0)
           dn == net[c].down
           gone == Tail(net[c].down)
           one == up \o <<m>>
<1>1. /\ DOMAIN o = PageFields /\ o.buffer = p.buffer /\ o.writes = p.writes /\ o.frame = p.frame
      /\ o.in_seq = p.in_seq /\ o.out_seq = p.out_seq /\ o.received = p.received /\ o.ready
  BY PageFacts, ZenonT(60) DEF PageFields
<1>2. \/ PageStep(c, o, gone, <<m>>)
      \/ PageStep(c, Pumped(o), gone, <<m>> \o Pump(o))
  BY Zenon DEF PageHello
<1>3. m.type = "READY" /\ m \in InputMessages
  <2>1. "READY" \in Types /\ 0 \in Int
    BY DEF Types
  <2>2. QED
    BY <2>1, ControlIsMessage, Zenon DEF Control, Message
<1> HIDE DEF o, m, gone, dn
<1>4. PageGood(o) /\ SameWrites(p, o)
  BY <1>1, PageFacts, Zenon DEF PageGood, SameWrites
<1>5. /\ Hand(w.ready, p, up, dn) /\ DownAcks(w.in_seq, p.in_seq, dn)
      /\ InputState(w.in_seq, w.pending_input, p.in_seq, p.frame, p.buffer, h.entered, h.typed)
      /\ UpInputs(w.in_seq, w.pending_input, p.in_seq, p.frame, up)
      /\ dn \in Seq(Messages) /\ dn # <<>>
  BY Zenon DEF InTalk, dn
<1>6. one = Append(up, m) /\ one \in Seq(InputMessages) /\ NoAcks(<<m>>)
  BY <1>3 DEF NoAcks
<1>7. UpInputs(w.in_seq, w.pending_input, o.in_seq, o.frame, one)
  <2>1. p.in_seq \in Sequence /\ m.type # "INPUT"
    BY <1>3, <1>5 DEF InputState
  <2>2. UpInputs(w.in_seq, w.pending_input, p.in_seq, p.frame, Append(up, m))
    BY <1>3, <1>5, <2>1, UpPushed, Zenon
  <2>3. QED
    BY <1>1, <1>6, <2>2, Zenon
<1>8. /\ InputState(w.in_seq, w.pending_input, o.in_seq, o.frame, o.buffer, h.entered, h.typed)
      /\ DownAcks(w.in_seq, o.in_seq, gone)
  BY <1>1, <1>5, DownPopped, Zenon DEF gone, dn
<1>9. /\ Pumped(o).ready /\ Pumped(o).in_seq = o.in_seq /\ SameWrites(o, Pumped(o))
      /\ Pump(o) \in Seq(InputMessages) /\ NoAcks(Pump(o)) /\ Len(Pump(o)) <= 1
  BY <1>1, <1>4, PumpedPage, Zenon
<1>10. /\ <<m>> \in Seq(InputMessages) /\ <<m>> \o Pump(o) \in Seq(InputMessages)
       /\ up \o (<<m>> \o Pump(o)) = one \o Pump(o) /\ NoAcks(<<m>> \o Pump(o))
       /\ <<m>> \o <<>> = <<m>> /\ <<>> \in Seq(InputMessages)
  <2>1. <<m>> \in Seq(InputMessages) /\ <<m>> \o <<>> = <<m>> /\ <<>> \in Seq(InputMessages)
    BY <1>3
  <2>2. <<m>> \o Pump(o) \in Seq(InputMessages)
    BY <1>9, <2>1
  <2>3. up \o (<<m>> \o Pump(o)) = one \o Pump(o)
    BY <1>9, <2>1, JoinInTurn
  <2>4. NoAcks(<<m>> \o Pump(o))
    BY <1>3, <1>9, <2>1 DEF NoAcks
  <2>5. QED
    BY <2>1, <2>2, <2>3, <2>4
<1>11. Hand(w.ready, o, up \o <<m>>, gone)
  <2>1. CASE p.ready
    BY <1>1, <1>5, <1>10, <2>1, HandAnswered, Zenon
  <2>2. CASE ~p.ready
    <3>1. Hand(w.ready, o, up \o (<<m>> \o <<>>), gone)
      BY <1>1, <1>3, <1>5, <1>10, <2>2, HandGreeted, Zenon
    <3>2. QED
      BY <1>10, <3>1, Zenon
  <2>3. QED
    BY <2>1, <2>2
<1>12. Hand(w.ready, Pumped(o), up \o (<<m>> \o Pump(o)), gone)
  <2>1. CASE p.ready
    BY <1>1, <1>5, <1>9, <1>10, <2>1, HandAnswered, Zenon
  <2>2. CASE ~p.ready
    BY <1>1, <1>3, <1>5, <1>9, <1>10, <2>2, HandGreeted, Zenon
  <2>3. QED
    BY <2>1, <2>2
<1>13. CASE PageStep(c, o, gone, <<m>>)
  <2>1. InTalk(w, o, up \o <<m>>, gone, h)
    BY <1>7, <1>8, <1>11, Zenon DEF InTalk
  <2>2. QED
    BY <1>4, <1>6, <1>10, <1>13, <2>1, Zenon DEF gone
<1>14. CASE PageStep(c, Pumped(o), gone, <<m>> \o Pump(o))
  <2>1. /\ InputState(w.in_seq, w.pending_input, Pumped(o).in_seq, Pumped(o).frame,
                      Pumped(o).buffer, h.entered, h.typed)
        /\ UpInputs(w.in_seq, w.pending_input, Pumped(o).in_seq, Pumped(o).frame, one \o Pump(o))
    BY <1>4, <1>6, <1>7, <1>8, PumpTalks, Zenon
  <2>2. InTalk(w, Pumped(o), up \o (<<m>> \o Pump(o)), gone, h)
    BY <1>8, <1>9, <1>10, <1>12, <2>1, Zenon DEF InTalk
  <2>3. SameWrites(p, Pumped(o))
    BY <1>4, <1>9, Zenon DEF SameWrites
  <2>4. QED
    BY <1>10, <1>14, <2>2, <2>3, Zenon DEF gone
<1>15. QED
  BY <1>2, <1>13, <1>14, Zenon

LEMMA InputAckTalks ==
  ASSUME NEW w, NEW c, NEW p, PageGood(p), NEW up \in Seq(InputMessages), NEW h,
         net[c].down \in Seq(Messages), net[c].down # <<>>,
         InTalk(w, p, up, net[c].down, h),
         NEW m, m = Head(net[c].down), m.type = "INPUT_ACK", PageInputAck(c, p, m)
  PROVE  \E q, answers :
           /\ PageStep(c, q, Tail(net[c].down), answers) /\ answers \in Seq(InputMessages)
           /\ SameWrites(p, q) /\ NoAcks(answers)
           /\ InTalk(w, q, up \o answers, Tail(net[c].down), h)
<1> DEFINE dn == net[c].down
           gone == Tail(net[c].down)
           buf == Rest(p.buffer, Len(p.frame))
           q == [p EXCEPT !.buffer = buf, !.frame = <<>>, !.in_seq = Next1(p.in_seq)]
<1>1. DOMAIN p = PageFields /\ p.buffer \in Bytes /\ p.frame \in Bytes /\ p.in_seq \in Int
  BY PageFacts, Zenon
<1>2. \/ p.frame # <<>> /\ m.seq = p.in_seq /\ PageStep(c, Pumped(q), gone, Pump(q))
      \/ PageStep(c, p, gone, <<>>)
  BY <1>1, Zenon DEF PageInputAck, PageFields
<1>3. buf \in Bytes
  <2>1. Len(p.frame) \in Nat
    BY <1>1 DEF Bytes
  <2>2. QED
    BY <1>1, <2>1, RestFacts DEF Bytes
<1>4. m = dn[1] /\ up \o <<>> = up /\ <<>> \in Seq(InputMessages) /\ NoAcks(<<>>)
  BY DEF NoAcks
<1>5. /\ Hand(w.ready, p, up, dn) /\ DownAcks(w.in_seq, p.in_seq, dn)
      /\ InputState(w.in_seq, w.pending_input, p.in_seq, p.frame, p.buffer, h.entered, h.typed)
      /\ UpInputs(w.in_seq, w.pending_input, p.in_seq, p.frame, up)
      /\ dn \in Seq(Messages) /\ dn # <<>>
  BY Zenon DEF InTalk, dn
<1> HIDE DEF buf, dn, gone
<1>6. /\ DOMAIN q = PageFields /\ q.buffer = buf /\ q.writes = p.writes /\ q.frame = <<>>
      /\ q.in_seq = Next1(p.in_seq) /\ q.out_seq = p.out_seq /\ q.received = p.received
      /\ q.ready = p.ready
  BY <1>1, ZenonT(60) DEF PageFields
<1> HIDE DEF q
<1>7. CASE p.frame # <<>> /\ m.seq = p.in_seq /\ PageStep(c, Pumped(q), gone, Pump(q))
  <2>1. PageGood(q) /\ SameWrites(p, q)
    <3>1. <<>> \in Bytes /\ Len(<<>>) <= INPUT_BYTES
      BY NoBytes, Sizes
    <3>2. Next1(p.in_seq) \in Int
      BY <1>1, Numbers, Zenon
    <3>3. QED
      BY <1>3, <1>6, <3>1, <3>2, PageFacts, Zenon DEF PageGood, SameWrites
  <2>2. p.ready
    <3>1. ~p.ready => p = ResetPage
      BY <1>5, Zenon DEF Hand
    <3>2. ResetPage.frame = <<>>
      BY DEF ResetPage
    <3>3. QED
      BY <1>7, <3>1, <3>2, Zenon
  <2>3. w.in_seq \in Sequence /\ p.in_seq \in Sequence
    BY <1>5, Zenon DEF InputState
  <2>4. DownAcks(w.in_seq, Next1(p.in_seq), gone) /\ Minus(w.in_seq, p.in_seq) = 1
    BY <1>4, <1>5, <1>7, <2>3, DownMovedOn, Zenon DEF gone, dn
  <2>5. /\ w.pending_input = <<>>
        /\ InputState(w.in_seq, <<>>, q.in_seq, q.frame, q.buffer, h.entered, h.typed)
    <3>1. /\ InputState(w.in_seq, <<>>, Next1(p.in_seq), <<>>, Rest(p.buffer, Len(p.frame)),
                        h.entered, h.typed)
          /\ w.pending_input = <<>>
      BY <1>5, <2>4, StateMovedOn
    <3>2. QED
      BY <1>6, <3>1, Zenon DEF buf
  <2>6. UpInputs(w.in_seq, <<>>, q.in_seq, q.frame, up)
    BY <1>5, <1>6, <2>3, <2>4, <2>5, UpMovedOn, Zenon
  <2>7. /\ InputState(w.in_seq, w.pending_input, Pumped(q).in_seq, Pumped(q).frame,
                      Pumped(q).buffer, h.entered, h.typed)
        /\ UpInputs(w.in_seq, w.pending_input, Pumped(q).in_seq, Pumped(q).frame, up \o Pump(q))
    BY <2>1, <2>5, <2>6, PumpTalks, Zenon
  <2>8. /\ Pumped(q).ready /\ Pumped(q).in_seq = q.in_seq /\ SameWrites(q, Pumped(q))
        /\ Pump(q) \in Seq(InputMessages) /\ NoAcks(Pump(q))
    BY <1>6, <2>1, <2>2, PumpedPage, Zenon
  <2>9. Hand(w.ready, Pumped(q), up \o Pump(q), gone)
    BY <1>5, <2>2, <2>8, HandAnswered, Zenon
  <2>10. InTalk(w, Pumped(q), up \o Pump(q), gone, h)
    BY <1>6, <2>4, <2>7, <2>8, <2>9, Zenon DEF InTalk
  <2>11. SameWrites(p, Pumped(q))
    BY <2>1, <2>8, Zenon DEF SameWrites
  <2>12. QED
    BY <1>7, <2>8, <2>10, <2>11, Zenon DEF gone
<1>8. CASE PageStep(c, p, gone, <<>>)
  <2>1. Hand(w.ready, p, up, gone) /\ DownAcks(w.in_seq, p.in_seq, gone)
    BY <1>5, HandIgnored, DownPopped, Zenon DEF gone, dn
  <2>2. InTalk(w, p, up \o <<>>, gone, h)
    BY <1>4, <1>5, <2>1, Zenon DEF InTalk
  <2>3. QED
    BY <1>4, <1>8, <2>2, Zenon DEF gone, SameWrites
<1>9. QED
  BY <1>2, <1>7, <1>8, Zenon

-----------------------------------------------------------------------------
(* The Pico's steps of a session.                                           *)

SameInput(v, w) == v.in_seq = w.in_seq /\ v.pending_input = w.pending_input

LEMMA PopTalks ==
  ASSUME NEW w, NEW p, NEW up \in Seq(InputMessages), up # <<>>, NEW dn, NEW h,
         InTalk(w, p, up, dn, h), NEW v, v.ready, SameInput(v, w)
  PROVE  InTalk(v, p, Tail(up), dn, h)
<1>1. Hand(v.ready, p, Tail(up), dn)
  BY HandPopped, Zenon DEF InTalk
<1>2. UpInputs(w.in_seq, w.pending_input, p.in_seq, p.frame, Tail(up))
  BY UpPopped, Zenon DEF InTalk
<1>3. QED
  BY <1>1, <1>2, Zenon DEF InTalk, SameInput

(* A session that has not been READY reads nothing else first.              *)
LEMMA ReadyFirst ==
  ASSUME NEW w, NEW p, NEW up \in Seq(InputMessages), up # <<>>, NEW dn, NEW h,
         InTalk(w, p, up, dn, h)
  PROVE  (w.ready \/ Head(up).type = "READY") /\ p.ready
<1>1. Head(up) = up[1]
  OBVIOUS
<1>2. QED
  BY <1>1, Zenon DEF InTalk, Hand

(* The next frame is the one in flight, or the one before it again.         *)
LEMMA FrameInFlight ==
  ASSUME NEW w, NEW p, NEW up \in Seq(InputMessages), up # <<>>, NEW dn, NEW h,
         InTalk(w, p, up, dn, h), Head(up).type = "INPUT"
  PROVE  /\ Head(up) = up[1] /\ up[1].seq \in Sequence
         /\ up[1].seq = w.in_seq =>
              /\ Minus(p.in_seq, up[1].seq) = 0 /\ Minus(w.in_seq, p.in_seq) = 0
              /\ up[1].data = p.frame /\ p.frame # <<>>
              /\ w.pending_input \in {<<>>, p.frame}
         /\ up[1].seq \in {w.in_seq, Minus(w.in_seq, 1)}
<1>1. Head(up) = up[1] /\ 1 \in DOMAIN up
  OBVIOUS
<1>2. /\ InputState(w.in_seq, w.pending_input, p.in_seq, p.frame, p.buffer, h.entered, h.typed)
      /\ UpInputs(w.in_seq, w.pending_input, p.in_seq, p.frame, up)
  BY Zenon DEF InTalk
<1> DEFINE s == up[1].seq
           wi == w.in_seq
           pi == p.in_seq
<1>3. /\ wi \in Sequence /\ pi \in Sequence /\ Minus(wi, pi) \in {0, 1}
      /\ w.pending_input # <<>> => w.pending_input = p.frame
  BY <1>2, Zenon DEF InputState
<1>4. /\ s \in Sequence /\ Minus(pi, s) \in {0, 1}
      /\ Minus(pi, s) = 0 => up[1].data = p.frame /\ p.frame # <<>>
      /\ Minus(wi, pi) = 1 => Minus(pi, s) = 0
  BY <1>1, <1>2, Zenon DEF UpInputs
<1> HIDE DEF s, wi, pi
<1>5. /\ (Minus(pi, s) = 0) <=> (pi = s)
      /\ (Minus(wi, pi) = 0) <=> (wi = pi)
      /\ (Minus(wi, s) = 0) <=> (wi = s)
      /\ Minus(wi, Minus(wi, 1)) = 1 /\ Minus(wi, 1) \in Sequence
  BY <1>3, <1>4, BehindFacts, Zenon
<1>6. s = wi => Minus(pi, s) = 0 /\ Minus(wi, pi) = 0
  <2>1. ASSUME s = wi, Minus(wi, pi) = 1 PROVE FALSE
    BY <1>4, <1>5, <2>1
  <2>2. QED
    BY <1>3, <1>5, <2>1
<1>7. s \in {wi, Minus(wi, 1)}
  <2> DEFINE r == Minus(wi, 1)
  <2>0. r \in Sequence /\ Minus(wi, r) = 1 /\ (Minus(wi, s) = Minus(wi, r) => s = r)
    <3>1. r \in Sequence /\ Minus(wi, r) = 1
      BY <1>5
    <3> HIDE DEF r
    <3>2. Minus(wi, s) = Minus(wi, r) => s = r
      BY <1>3, <1>4, <3>1, BehindOrders, Zenon
    <3>3. QED
      BY <3>1, <3>2
  <2> HIDE DEF r
  <2>1. CASE s = pi
    <3>1. CASE Minus(wi, pi) = 1
      <4>1. Minus(wi, s) = Minus(wi, r)
        BY <2>0, <2>1, <3>1
      <4>2. QED
        BY <2>0, <4>1 DEF r
    <3>2. QED
      BY <1>3, <1>5, <2>1, <3>1
  <2>2. CASE s # pi
    <3>1. Minus(pi, s) = 1 /\ Minus(wi, pi) = 0
      BY <1>3, <1>4, <1>5, <2>2
    <3>2. Minus(wi, s) = Minus(wi, r)
      BY <1>5, <2>0, <3>1
    <3>3. QED
      BY <2>0, <3>2 DEF r
  <2>3. QED
    BY <2>1, <2>2
<1>8. QED
  BY <1>1, <1>3, <1>4, <1>6, <1>7, Zenon DEF s, wi, pi

LEMMA HoldTalks ==
  ASSUME NEW w, NEW p, NEW up \in Seq(InputMessages), up # <<>>, NEW dn, NEW h,
         InTalk(w, p, up, dn, h), w.ready, Head(up).type = "INPUT", Head(up).seq = w.in_seq,
         NEW v, v.ready = w.ready, v.in_seq = w.in_seq, v.pending_input = Head(up).data
  PROVE  InTalk(v, p, Tail(up), dn, h)
<1>1. /\ Head(up) = up[1] /\ Minus(p.in_seq, up[1].seq) = 0 /\ Minus(w.in_seq, p.in_seq) = 0
      /\ v.pending_input = p.frame /\ up[1].type = "INPUT"
  <2>1. Head(up) = up[1] /\ up[1].seq = w.in_seq /\ up[1].type = "INPUT"
    <3>1. Head(up) = up[1]
      OBVIOUS
    <3>2. QED
      BY <3>1, Zenon
  <2>2. /\ Minus(p.in_seq, up[1].seq) = 0 /\ Minus(w.in_seq, p.in_seq) = 0
        /\ up[1].data = p.frame
    BY <2>1, FrameInFlight, Zenon
  <2>3. QED
    BY <2>1, <2>2, Zenon
<1>2. Hand(v.ready, p, Tail(up), dn)
  BY HandPopped, Zenon DEF InTalk
<1>3. UpInputs(w.in_seq, p.frame, p.in_seq, p.frame, Tail(up))
  BY <1>1, UpHeld, Zenon DEF InTalk
<1>4. InputState(w.in_seq, p.frame, p.in_seq, p.frame, p.buffer, h.entered, h.typed)
  BY <1>1, StateHeld, Zenon DEF InTalk
<1>5. QED
  BY <1>1, <1>2, <1>3, <1>4, Zenon DEF InTalk

LEMMA SendTalks ==
  ASSUME NEW w, NEW p, NEW up, NEW dn \in Seq(Messages), NEW h, InTalk(w, p, up, dn, h),
         NEW v, v.ready = w.ready, SameInput(v, w), NEW m \in Messages,
         w.ready \/ m.type \in {"HELLO", "INPUT_ACK"},
         m.type = "INPUT_ACK" => m.seq = Minus(w.in_seq, 1)
  PROVE  InTalk(v, p, up, dn, h) /\ InTalk(v, p, up, Append(dn, m), h)
<1>1. InTalk(v, p, up, dn, h)
  BY Zenon DEF InTalk, SameInput
<1>2. w.in_seq \in Sequence /\ p.in_seq \in Sequence /\ Minus(w.in_seq, p.in_seq) \in {0, 1}
  BY Zenon DEF InTalk, InputState
<1>3. DownAcks(w.in_seq, p.in_seq, Append(dn, m))
  BY <1>2, DownPushed, Zenon DEF InTalk
<1>4. Hand(w.ready, p, up, Append(dn, m))
  BY HandPushed, Zenon DEF InTalk
<1>5. QED
  BY <1>1, <1>3, <1>4, Zenon DEF InTalk, SameInput

LEMMA TakenTalks ==
  ASSUME NEW w, NEW p, NEW up, NEW dn, NEW h, InTalk(w, p, up, dn, h),
         w.pending_input # <<>>, NEW v, v.ready = w.ready, v.pending_input = <<>>,
         v.in_seq = Next1(w.in_seq),
         NEW g, g.typed = h.typed, g.entered = h.entered \o w.pending_input
  PROVE  InTalk(v, p, up, dn, g)
<1>1. /\ w.in_seq \in Sequence /\ p.in_seq \in Sequence /\ Minus(w.in_seq, p.in_seq) \in {0, 1}
      /\ Minus(w.in_seq, p.in_seq) # 1
  BY Zenon DEF InTalk, InputState
<1>2. Minus(w.in_seq, p.in_seq) = 0
  BY <1>1, Zenon
<1>3. UpInputs(Next1(w.in_seq), <<>>, p.in_seq, p.frame, up)
  BY <1>1, <1>2, UpAccepted, Zenon DEF InTalk
<1>4. InputState(Next1(w.in_seq), <<>>, p.in_seq, p.frame, p.buffer,
                 h.entered \o w.pending_input, h.typed)
  BY StateAccepted, Zenon DEF InTalk
<1>5. DownAcks(Next1(w.in_seq), p.in_seq, dn)
  BY <1>1, <1>2, DownAccepted, Zenon DEF InTalk
<1>6. QED
  BY <1>3, <1>4, <1>5, Zenon DEF InTalk

LEMMA FreshTalk ==
  ASSUME NEW w, ~w.ready, w.in_seq = 1, w.pending_input = <<>>, NEW h, h.entered = <<>>, h.typed = <<>>
  PROVE  InTalk(w, ResetPage, <<>>, <<>>, h)
<1>1. ResetPage.in_seq = 1 /\ ResetPage.frame = <<>> /\ ResetPage.buffer = <<>> /\ ~ResetPage.ready
  BY DEF ResetPage
<1>2. DOMAIN <<>> = {}
  OBVIOUS
<1>3. Hand(w.ready, ResetPage, <<>>, <<>>)
  BY <1>1, <1>2, Zenon DEF Hand
<1>4. UpInputs(1, <<>>, 1, <<>>, <<>>) /\ DownAcks(1, 1, <<>>)
  BY <1>2, Zenon DEF UpInputs, DownAcks
<1>5. QED
  BY <1>1, <1>3, <1>4, StateFresh, Zenon DEF InTalk

-----------------------------------------------------------------------------
(* What the steps change.                                                   *)

SameFlags(v, w) ==
  /\ v.active = w.active
  /\ (v.connected <=> w.connected) /\ (v.disconnected <=> w.disconnected)
SameOutput(v, w) == v.out_seq = w.out_seq /\ v.window = w.window /\ v.staged = w.staged

(* A channel with other messages, the others as they were.                  *)
Moved(m, n, c, up, dn) ==
  /\ \A b \in Conns : b # c => m[b] = n[b]
  /\ m[c].state = n[c].state /\ m[c].up = up /\ m[c].down = dn

LEMMA NotedFields ==
  ASSUME NEW w, WebGood(w), NEW v, v = note_browser_activity(w)
  PROVE  SameFlags(v, w) /\ SameInput(v, w) /\ SameOutput(v, w) /\ v.ready = w.ready
<1>1. DOMAIN w = WebFields
  BY WebFacts, Zenon
<1>2. QED
  BY <1>1, ZenonT(60) DEF note_browser_activity, WebFields, SameFlags, SameInput, SameOutput

LEMMA ArrivedFields ==
  ASSUME NetGood(net), NEW c \in Conns
  PROVE  Moved(Arrived(c), net, c, Tail(net[c].up), net[c].down)
<1> DEFINE t == Tail(net[c].up)
           n == [net EXCEPT ![c].up = t]
<1>1. DOMAIN net[c] = {"state", "up", "down"} /\ DOMAIN net = Conns
  BY ChannelFacts, Zenon DEF NetGood
<1>2. Arrived(c) = n
  BY DEF Arrived
<1> HIDE DEF t
<1>3. \A b \in Conns : b # c => n[b] = net[b]
  BY <1>1, Zenon
<1>4. n[c].state = net[c].state /\ n[c].up = t /\ n[c].down = net[c].down
  BY <1>1, ZenonT(60)
<1> HIDE DEF n
<1>5. QED
  BY <1>2, <1>3, <1>4, Zenon DEF Moved, t

LEMMA SendFields ==
  ASSUME NEW n, NetGood(n), NEW c \in Conns, NEW m
  PROVE  \/ Moved(Send(n, c, m), n, c, n[c].up, n[c].down)
         \/ Moved(Send(n, c, m), n, c, n[c].up, Append(n[c].down, m))
<1> DEFINE t == Append(n[c].down, m)
           k == [n EXCEPT ![c].down = t]
<1>1. DOMAIN n[c] = {"state", "up", "down"} /\ DOMAIN n = Conns
  BY ChannelFacts, Zenon DEF NetGood
<1>2. Send(n, c, m) = n \/ Send(n, c, m) = k
  BY DEF Send
<1> HIDE DEF t
<1>3. \A b \in Conns : b # c => k[b] = n[b]
  BY <1>1, Zenon
<1>4. k[c].state = n[c].state /\ k[c].down = t /\ k[c].up = n[c].up
  BY <1>1, ZenonT(60)
<1> HIDE DEF k
<1>5. QED
  BY <1>2, <1>3, <1>4, Zenon DEF Moved, t

LEMMA MovedTwice ==
  ASSUME NEW k, NEW m, NEW n, NEW c, NEW up, NEW dn, NEW up2, NEW dn2,
         Moved(m, n, c, up, dn), Moved(k, m, c, up2, dn2)
  PROVE  Moved(k, n, c, up2, dn2)
  BY Zenon DEF Moved

(* The next input is taken into the ring, whole, or is held; the last one   *)
(* taken is acknowledged or not.                                            *)
Taken(w, v, h, g) ==
  /\ w.pending_input # <<>>
  /\ v.pending_input = <<>> /\ v.in_seq = Next1(w.in_seq)
  /\ g.typed = h.typed /\ g.written = h.written /\ g.shown = h.shown
  /\ g.entered = h.entered \o w.pending_input

LEMMA AcceptFields ==
  ASSUME NEW w, WebGood(w), NEW n, NetGood(n), hist \in History, TermGood(term), Accept(w, n)
  PROVE  /\ SameFlags(web', w) /\ SameOutput(web', w) /\ web'.ready = w.ready
         /\ \/ SameInput(web', w) /\ hist' = hist
            \/ Taken(w, web', hist, hist')
         /\ hist' \in History
         /\ net' = n \/ (w.active \in Conns /\ net' = Send(n, w.active, Control("INPUT_ACK", Minus(web'.in_seq, 1))))
         /\ term'.browser = term.browser /\ term'.tx = term.tx /\ term'.tx_pending = term.tx_pending
<1> DEFINE taken == w.pending_input # <<>> /\ BrowserAccepts(term, w.pending_input)
           t == [w EXCEPT !.pending_input = <<>>, !.in_seq = Next1(w.in_seq),
                          !.ack_pending = TRUE]
           v == IF taken THEN t ELSE w
           u == [v EXCEPT !.ack_pending = AckLeft(v, n)]
           en == hist.entered \o w.pending_input
           g == [hist EXCEPT !.entered = en]
           rx == term.rx \o w.pending_input
           s == [term EXCEPT !.rx = rx]
<1>1. /\ DOMAIN w = WebFields /\ w.pending_input \in Bytes /\ w.active \in Conns \cup {None}
      /\ w.in_seq \in Int
  BY WebFacts, Zenon
<1>2. t = [w EXCEPT !.pending_input = <<>>, !.in_seq = Next1(@), !.ack_pending = TRUE]
  BY <1>1, Zenon DEF WebFields
<1>3. g = [hist EXCEPT !.entered = @ \o w.pending_input]
  BY DEF History
<1>4. /\ web' = IF v.active = None THEN v ELSE u
      /\ net' = IF v.active # None /\ v.ack_pending THEN RetryAck(v, n) ELSE n
      /\ term' = IF taken THEN browser_try_receive(term, w.pending_input) ELSE term
      /\ hist' = IF taken THEN g ELSE hist
  BY <1>2, <1>3, ZenonT(60) DEF Accept, Accepted
<1>5. term' = term \/ term' = s
  BY <1>4, Zenon DEF browser_try_receive
<1>6. s.browser = term.browser /\ s.tx = term.tx /\ s.tx_pending = term.tx_pending
  <2>1. DOMAIN term = {"rx", "tx", "tx_pending", "client", "browser", "usb"}
    BY TermFacts DEF Rings
  <2> HIDE DEF rx
  <2>2. QED
    BY <2>1, ZenonT(60)
<1>7. /\ DOMAIN t = WebFields /\ SameFlags(t, w) /\ SameOutput(t, w) /\ t.ready = w.ready
      /\ t.pending_input = <<>> /\ t.in_seq = Next1(w.in_seq)
  BY <1>1, ZenonT(60) DEF WebFields, SameFlags, SameOutput
<1>8. en \in Bytes
  <2>1. hist.entered \in Bytes
    BY DEF History
  <2>2. QED
    BY <1>1, <2>1, BytesJoined, Zenon
<1>9. /\ g \in History /\ g.typed = hist.typed /\ g.written = hist.written
      /\ g.shown = hist.shown /\ g.entered = en
  <2> HIDE DEF en
  <2>1. QED
    BY <1>8 DEF History
<1> HIDE DEF t, g, s
<1>10. /\ SameFlags(v, w) /\ SameOutput(v, w) /\ v.ready = w.ready /\ DOMAIN v = WebFields
       /\ \/ SameInput(v, w) /\ hist' = hist
          \/ Taken(w, v, hist, hist')
  <2>1. CASE taken
    <3>1. v = t /\ hist' = g
      BY <1>4, <2>1, Zenon
    <3>2. Taken(w, v, hist, hist')
      BY <1>7, <1>9, <2>1, <3>1, Zenon DEF Taken
    <3>3. QED
      BY <1>7, <3>1, <3>2, Zenon
  <2>2. CASE ~taken
    <3>1. v = w /\ hist' = hist
      BY <1>4, <2>2, Zenon
    <3>2. QED
      BY <1>1, <3>1, Zenon DEF SameFlags, SameOutput, SameInput
  <2>3. QED
    BY <2>1, <2>2, Zenon
<1>11. hist' \in History
  BY <1>4, <1>9, Zenon
<1> HIDE DEF v
<1>12. SameFlags(u, v) /\ SameOutput(u, v) /\ SameInput(u, v) /\ u.ready = v.ready
  BY <1>10, ZenonT(60) DEF WebFields, SameFlags, SameOutput, SameInput
<1> HIDE DEF u
<1>13. SameFlags(web', v) /\ SameOutput(web', v) /\ SameInput(web', v) /\ web'.ready = v.ready
  BY <1>4, <1>12, Zenon DEF SameFlags, SameOutput, SameInput
<1>14. /\ SameFlags(web', w) /\ SameOutput(web', w) /\ web'.ready = w.ready
       /\ \/ SameInput(web', w) /\ hist' = hist
          \/ Taken(w, web', hist, hist')
  BY <1>10, <1>13, Zenon DEF SameFlags, SameOutput, SameInput, Taken
<1>15. net' = n \/ (w.active \in Conns /\ net' = Send(n, w.active, Control("INPUT_ACK", Minus(web'.in_seq, 1))))
  <2>1. v.active = w.active /\ web'.in_seq = v.in_seq
    BY <1>10, <1>13, Zenon DEF SameFlags, SameInput
  <2>2. v.active # None => w.active \in Conns
    BY <1>1, <2>1, Zenon
  <2>3. QED
    BY <1>4, <2>1, <2>2, Zenon DEF RetryAck, Ack
<1>16. QED
  BY <1>5, <1>6, <1>11, <1>14, <1>15, Zenon

LEMMA PageStepFields ==
  ASSUME RoomInv, NEW c \in Conns, NEW p, NEW down, NEW answers, PageStep(c, p, down, answers)
  PROVE  /\ Moved(net', net, c, net[c].up \o answers, down)
         /\ page'[c] = p /\ \A b \in Conns : b # c => page'[b] = page[b]
         /\ UNCHANGED <<setup, term, web, pc, peeked>>
<1> DEFINE up == net[c].up \o answers
           ch == [net[c] EXCEPT !.down = down, !.up = up]
<1>1. NetGood(net) /\ PagesGood(page)
  BY Zenon DEF RoomInv
<1>2. DOMAIN net[c] = {"state", "up", "down"} /\ DOMAIN net = Conns /\ DOMAIN page = Conns
  BY <1>1, ChannelFacts, Zenon DEF NetGood, PagesGood
<1>3. net' = [net EXCEPT ![c] = ch]
  <2>1. net' = [net EXCEPT ![c].down = down, ![c].up = @ \o answers]
    BY Zenon DEF PageStep
  <2>2. QED
    BY <1>2, <2>1
<1> HIDE DEF up
<1>4. ch.state = net[c].state /\ ch.up = up /\ ch.down = down
  BY <1>2, ZenonT(60)
<1> HIDE DEF ch
<1>5. net'[c] = ch /\ \A b \in Conns : b # c => net'[b] = net[b]
  BY <1>2, <1>3, Zenon
<1>6. page'[c] = p /\ \A b \in Conns : b # c => page'[b] = page[b]
  BY <1>2, Zenon DEF PageStep
<1>7. QED
  BY <1>4, <1>5, <1>6, Zenon DEF Moved, PageStep, up

(* A session that is reset, and the ends of one.                            *)
LEMMA ResetFields ==
  ASSUME NEW w, WebGood(w), NEW v, v = reset_session(w)
  PROVE  /\ SameFlags(v, w) /\ DOMAIN v = WebFields
         /\ ~v.ready /\ v.in_seq = 1 /\ v.pending_input = <<>>
         /\ v.out_seq = 1 /\ v.window = <<>> /\ v.staged = <<>>
<1>1. DOMAIN w = WebFields
  BY WebFacts, Zenon
<1>2. v = [x \in WebFields |-> IF x \in DOMAIN FreshSession THEN FreshSession[x] ELSE w[x]]
  BY <1>1, Zenon DEF reset_session, Session
<1>3. /\ DOMAIN FreshSession = {"ready", "out_seq", "window", "staged", "in_seq", "pending_input",
                               "ack_pending", "awaiting", "activity", "missed"}
      /\ FreshSession.ready = FALSE /\ FreshSession.out_seq = 1 /\ FreshSession.window = <<>>
      /\ FreshSession.staged = <<>> /\ FreshSession.in_seq = 1 /\ FreshSession.pending_input = <<>>
  BY DEF FreshSession
<1>4. DOMAIN v = WebFields
  BY <1>2, Zenon
<1>5. v.active = w.active /\ v.connected = w.connected /\ v.disconnected = w.disconnected
  BY <1>2, <1>3 DEF WebFields
<1>6. v.ready = FALSE /\ v.in_seq = 1 /\ v.pending_input = <<>> /\ v.out_seq = 1
      /\ v.window = <<>> /\ v.staged = <<>>
  BY <1>2, <1>3 DEF WebFields
<1>7. QED
  BY <1>4, <1>5, <1>6, Zenon DEF SameFlags

LEMMA NoHistoryFacts ==
  /\ NoHistory \in History /\ NoHistory.written = <<>> /\ NoHistory.shown = <<>>
  /\ NoHistory.entered = <<>> /\ NoHistory.typed = <<>>
  BY NoBytes DEF NoHistory, History

LEMMA BrowserFields ==
  ASSUME NEW t, TermGood(t)
  PROVE  /\ browser_connect(t).browser /\ browser_connect(t).tx = <<>>
         /\ ~browser_connect(t).tx_pending
         /\ ~browser_disconnect(t).browser
         /\ IF t.browser THEN browser_disconnect(t).tx = <<>> /\ ~browser_disconnect(t).tx_pending
                         ELSE browser_disconnect(t) = t
<1>1. DOMAIN t = {"rx", "tx", "tx_pending", "client", "browser", "usb"} /\ t.browser \in BOOLEAN
  BY TermFacts DEF Rings
<1> DEFINE k == clear_queues(t)
           a == [k EXCEPT !.browser = TRUE, !.client = TRUE]
           b == [k EXCEPT !.browser = FALSE, !.client = t.usb]
<1>2. k.tx = <<>> /\ k.tx_pending = FALSE /\ DOMAIN k = {"rx", "tx", "tx_pending", "client", "browser", "usb"}
  BY <1>1, ZenonT(60) DEF clear_queues
<1>3. browser_connect(t) = a /\ browser_disconnect(t) = IF t.browser THEN b ELSE t
  BY Zenon DEF browser_connect, browser_disconnect
<1> HIDE DEF k
<1>4. a.browser /\ a.tx = <<>> /\ ~a.tx_pending /\ ~b.browser /\ b.tx = <<>> /\ ~b.tx_pending
  BY <1>2, ZenonT(60)
<1> HIDE DEF a, b
<1>5. QED
  BY <1>1, <1>3, <1>4, Zenon

LEMMA DisconnectFields ==
  ASSUME RoomInv, hist \in History, disconnect_client
  PROVE  /\ web'.active = None /\ ~web'.connected /\ ~web'.disconnected
         /\ web'.out_seq = 1 /\ web'.window = <<>> /\ web'.staged = <<>>
         /\ ~term'.browser /\ pc' = "idle" /\ hist' \in History
         /\ \A b \in Conns : IF b = web.active
                               THEN net'[b] = Channel("aborted") /\ page'[b] = ResetPage
                               ELSE net'[b] = net[b] /\ page'[b] = page[b]
         /\ IF term.browser
              THEN hist' = NoHistory /\ term'.tx = <<>> /\ ~term'.tx_pending
              ELSE hist' = hist /\ term' = term
<1> DEFINE v == reset_session(web)
           u == Disconnected(web)
<1>1. NetGood(net) /\ WebGood(web) /\ PagesGood(page) /\ TermGood(term)
  BY Zenon DEF RoomInv
<1>2. DOMAIN v = WebFields /\ v.out_seq = 1 /\ v.window = <<>> /\ v.staged = <<>>
  BY <1>1, ResetFields, Zenon
<1>3. u = [v EXCEPT !.active = None, !.connected = FALSE, !.disconnected = FALSE,
             !.last = IF web.active # None THEN web.active ELSE v.last,
             !.details = IF web.active # None THEN None ELSE v.details]
  BY <1>2, Zenon DEF Disconnected, WebFields
<1> HIDE DEF v, u
<1>4. /\ u.active = None /\ ~u.connected /\ ~u.disconnected
      /\ u.out_seq = 1 /\ u.window = <<>> /\ u.staged = <<>>
  BY <1>2, <1>3, ZenonT(60) DEF WebFields
<1>5. web' = u /\ pc' = "idle" /\ term' = browser_disconnect(term)
      /\ hist' = IF term.browser THEN NoHistory ELSE hist
  BY Zenon DEF disconnect_client, u
<1>6. /\ ~term'.browser
      /\ IF term.browser THEN term'.tx = <<>> /\ ~term'.tx_pending ELSE term' = term
  BY <1>1, <1>5, BrowserFields, Zenon
<1>7. \A b \in Conns : IF b = web.active
                         THEN net'[b] = Channel("aborted") /\ page'[b] = ResetPage
                         ELSE net'[b] = net[b] /\ page'[b] = page[b]
  <2>1. DOMAIN net = Conns /\ DOMAIN page = Conns /\ None \notin Conns
    BY <1>1, Sizes, Zenon DEF NetGood, PagesGood
  <2>2. CASE web.active = None
    <3>1. net' = net /\ page' = page
      BY <2>2, Zenon DEF disconnect_client
    <3>2. QED
      BY <2>1, <2>2, <3>1, Zenon
  <2>3. CASE web.active # None
    <3>1. net' = [net EXCEPT ![web.active] = Channel("aborted")]
          /\ page' = [page EXCEPT ![web.active] = ResetPage]
      BY <2>3, Zenon DEF disconnect_client, Abort
    <3>2. QED
      BY <2>1, <3>1, Zenon
  <2>4. QED
    BY <2>2, <2>3, Zenon
<1>8. QED
  BY <1>4, <1>5, <1>6, <1>7, NoHistoryFacts, Zenon

(* Events: a session starts, or has ended, or there was none to handle.     *)
LEMMA EventsFields ==
  ASSUME RoomInv, hist \in History, process_events
  PROVE  /\ web'.active = web.active /\ ~web'.connected /\ ~web'.disconnected /\ hist' \in History
         /\ \/ /\ web.connected /\ web.active # None
               /\ ~web'.ready /\ web'.in_seq = 1 /\ web'.pending_input = <<>>
               /\ web'.out_seq = 1 /\ web'.window = <<>> /\ web'.staged = <<>>
               /\ term'.browser /\ term'.tx = <<>> /\ ~term'.tx_pending /\ hist' = NoHistory
            \/ /\ ~(web.connected /\ web.active # None) /\ web.disconnected
               /\ web'.out_seq = 1 /\ web'.window = <<>> /\ web'.staged = <<>> /\ ~term'.browser
               /\ IF term.browser
                    THEN hist' = NoHistory /\ term'.tx = <<>> /\ ~term'.tx_pending
                    ELSE hist' = hist /\ term' = term
            \/ /\ ~(web.connected /\ web.active # None) /\ ~web.disconnected
               /\ SameInput(web', web) /\ SameOutput(web', web) /\ web'.ready = web.ready
               /\ term' = term /\ hist' = hist
<1> DEFINE connect == web.connected /\ web.active # None
           r == reset_session(web)
           w == IF web.disconnected \/ connect THEN r ELSE web
           v == [w EXCEPT !.disconnected = FALSE, !.connected = FALSE]
           t == IF web.disconnected THEN browser_disconnect(term) ELSE term
           u == IF connect THEN browser_connect(t) ELSE t
           g == IF connect \/ (web.disconnected /\ term.browser) THEN NoHistory ELSE hist
<1>1. WebGood(web) /\ TermGood(term)
  BY Zenon DEF RoomInv
<1>2. web' = v /\ term' = u /\ hist' = g
  BY ZenonT(60) DEF process_events, AfterEvents
<1>3. /\ r.active = web.active /\ DOMAIN r = WebFields
      /\ ~r.ready /\ r.in_seq = 1 /\ r.pending_input = <<>>
      /\ r.out_seq = 1 /\ r.window = <<>> /\ r.staged = <<>>
  BY <1>1, ResetFields, Zenon DEF SameFlags
<1>4. DOMAIN web = WebFields
  BY <1>1, WebFacts, Zenon
<1> HIDE DEF r
<1>5. DOMAIN w = WebFields /\ w.active = web.active
  BY <1>3, <1>4, Zenon
<1>6. TermGood(t)
  BY <1>1, ConnectKeeps, Zenon DEF Keeps
<1>7. /\ ~t.browser \/ ~web.disconnected
      /\ web.disconnected => IF term.browser THEN t.tx = <<>> /\ ~t.tx_pending ELSE t = term
      /\ browser_connect(t).browser /\ browser_connect(t).tx = <<>> /\ ~browser_connect(t).tx_pending
  <2>1. web.disconnected => t = browser_disconnect(term)
    BY Zenon
  <2> HIDE DEF t
  <2>2. browser_connect(t).browser /\ browser_connect(t).tx = <<>> /\ ~browser_connect(t).tx_pending
    BY <1>6, BrowserFields, Zenon
  <2>3. /\ ~browser_disconnect(term).browser
        /\ IF term.browser THEN browser_disconnect(term).tx = <<>> /\ ~browser_disconnect(term).tx_pending
                           ELSE browser_disconnect(term) = term
    BY <1>1, BrowserFields, Zenon
  <2>4. QED
    BY <2>1, <2>2, <2>3, Zenon
<1> HIDE DEF w
<1>8. /\ v.active = w.active /\ ~v.connected /\ ~v.disconnected
      /\ SameInput(v, w) /\ SameOutput(v, w) /\ v.ready = w.ready
  BY <1>5, ZenonT(60) DEF WebFields, SameInput, SameOutput
<1> HIDE DEF v, t
<1>9. /\ web'.active = web.active /\ ~web'.connected /\ ~web'.disconnected
      /\ SameInput(web', w) /\ SameOutput(web', w) /\ web'.ready = w.ready /\ hist' \in History
  BY <1>2, <1>5, <1>8, NoHistoryFacts, Zenon
<1>10. CASE connect
  <2>1. w = r /\ u = browser_connect(t) /\ g = NoHistory
    BY <1>10, Zenon DEF w
  <2>2. QED
    BY <1>2, <1>3, <1>7, <1>9, <1>10, <2>1, Zenon DEF SameInput, SameOutput
<1>11. CASE ~connect /\ web.disconnected
  <2>1. w = r /\ u = t /\ g = IF term.browser THEN NoHistory ELSE hist
    BY <1>11, Zenon DEF w
  <2>2. QED
    BY <1>2, <1>3, <1>7, <1>9, <1>11, <2>1, Zenon DEF SameOutput
<1>12. CASE ~connect /\ ~web.disconnected
  <2>1. w = web /\ u = term /\ g = hist
    BY <1>12, Zenon DEF w, t
  <2>2. QED
    BY <1>2, <1>9, <1>12, <2>1, Zenon
<1>13. QED
  BY <1>10, <1>11, <1>12, Zenon

-----------------------------------------------------------------------------
(* The invariant from step to step.                                         *)

LEMMA LinkKept ==
  ASSUME Linked, SameFlags(web', web), setup' = setup, web'.ready \/ web'.ready = web.ready,
         term'.browser = term.browser, SameOutput(web', web) \/ term.browser,
         \/ pc' = pc \/ pc' \in {"idle", "pop", "usb"}
         \/ pc = "heartbeat" /\ pc' = "stage" /\ web'.ready
         \/ pc' = "heartbeat" /\ Steady,
         \A c \in Conns : ConnGood(web.active, web.connected, net'[c], page'[c], c)
  PROVE  Linked'
<1>1. FlagsGood(web, term, pc, setup.network)
  BY Zenon DEF Linked
<1>2. pc' \in {"idle", "pop", "usb"} => ~(pc' \in {"heartbeat", "stage"})
  OBVIOUS
<1>3. FlagsGood(web', term', pc', setup'.network)
  <2>1. pc' \in {"heartbeat", "stage"} => pc \in {"heartbeat", "stage"} \/ Steady
    BY <1>2, Zenon
  <2>2. pc' = "stage" => web'.ready
    <3>1. ~("stage" \in {"idle", "pop", "usb"}) /\ "heartbeat" # "stage"
      OBVIOUS
    <3>2. QED
      BY <1>1, <3>1, Zenon DEF FlagsGood
  <2>3. pc' \in {"heartbeat", "stage"} => Steady
    BY <1>1, <2>1, Zenon DEF FlagsGood, Steady
  <2>4. QED
    BY <1>1, <2>2, <2>3, Zenon DEF FlagsGood, SameFlags, SameOutput, Steady
<1>4. \A c \in Conns : ConnGood(web'.active, web'.connected, net'[c], page'[c], c)
  BY Zenon DEF SameFlags, ConnGood
<1>5. QED
  BY <1>3, <1>4, Zenon DEF Linked

LEMMA ConnsSame ==
  ASSUME Linked, net' = net, page' = page
  PROVE  \A c \in Conns : ConnGood(web.active, web.connected, net'[c], page'[c], c)
  BY Zenon DEF Linked

LEMMA ConnsMoved ==
  ASSUME Linked, NEW c \in Conns, NEW up, NEW dn, Moved(net', net, c, up, dn),
         \A b \in Conns : b # c => page'[b] = page[b], net[c].state # "new",
         net[c].state = "raw" => \A j \in DOMAIN up : up[j].type # "OUTPUT_ACK",
         ~(web.connected /\ web.active = c /\ net[c].state \in {"open", "silent", "closing"})
  PROVE  \A b \in Conns : ConnGood(web.active, web.connected, net'[b], page'[b], b)
<1>1. ASSUME NEW b \in Conns, b # c
      PROVE  ConnGood(web.active, web.connected, net'[b], page'[b], b)
  BY <1>1, Zenon DEF Linked, Moved
<1>2. ConnGood(web.active, web.connected, net'[c], page'[c], c)
  <2>1. ConnGood(web.active, web.connected, net[c], page[c], c)
    BY Zenon DEF Linked
  <2>2. net'[c].state = net[c].state /\ net'[c].up = up
    BY Zenon DEF Moved
  <2>3. QED
    BY <2>1, <2>2, Zenon DEF ConnGood
<1>3. QED
  BY <1>1, <1>2, Zenon

(* The owner's connection was begun; a live one that has carried anything   *)
(* has a session under way.                                                 *)
LEMMA OwnerFacts ==
  ASSUME Linked, NEW c \in Conns, web.active = c
  PROVE  /\ net[c].state # "new" /\ net[c].state \in {"open", "silent", "closing", "raw"}
         /\ ~web.connected => Steady
         /\ web.connected /\ net[c].state \in {"open", "silent", "closing"} =>
              net[c].up = <<>> /\ net[c].down = <<>> /\ page[c] = ResetPage
         /\ net[c].state = "raw" => \A j \in DOMAIN net[c].up : net[c].up[j].type # "OUTPUT_ACK"
         /\ web.active # None
<1>1. ConnGood(web.active, web.connected, net[c], page[c], c) /\ FlagsGood(web, term, pc, setup.network)
  BY Zenon DEF Linked
<1>2. c # None
  BY Sizes, Zenon
<1>3. QED
  BY <1>1, <1>2, Zenon DEF ConnGood, FlagsGood, Steady

LEMMA LiveFacts ==
  ASSUME Linked, NEW c \in Conns, Live(c)
  PROVE  /\ web.active = c /\ net[c].state = "open"
         /\ page[c] # ResetPage \/ net[c].up # <<>> \/ net[c].down # <<>> => Steady
<1>1. ConnGood(web.active, web.connected, net[c], page[c], c) /\ net[c].state = "open"
  BY Zenon DEF Linked, Live
<1>2. web.active = c
  BY <1>1, Zenon DEF ConnGood
<1>3. QED
  BY <1>1, <1>2, OwnerFacts, Zenon

LEMMA TalkSame ==
  ASSUME InputTalks, SameFlags(web', web), SameInput(web', web), web'.ready = web.ready,
         hist'.entered = hist.entered, hist'.typed = hist.typed,
         Steady => net'[web.active] = net[web.active] /\ page'[web.active] = page[web.active]
  PROVE  InputTalks'
<1>1. SUFFICES ASSUME Steady', Live(web.active)'
               PROVE  InTalk(web', page'[web'.active], net'[web'.active].up,
                             net'[web'.active].down, hist')
  BY DEF InputTalks
<1>2. Steady /\ web'.active = web.active
  BY <1>1, Zenon DEF Steady, SameFlags
<1>3. Live(web.active)
  BY <1>1, <1>2, Zenon DEF Live
<1>4. InTalk(web, page[web.active], net[web.active].up, net[web.active].down, hist)
  BY <1>2, <1>3, Zenon DEF InputTalks
<1>5. QED
  BY <1>2, <1>4, Zenon DEF InTalk, SameInput

LEMMA TalkEnds ==
  ASSUME ~Steady'
  PROVE  InputTalks'
  BY Zenon DEF InputTalks

LEMMA TalkMoved ==
  ASSUME SameFlags(web', web), NEW c, web.active = c, NEW up, NEW dn,
         Moved(net', net, c, up, dn),
         Steady /\ Live(c) => InTalk(web', page'[c], up, dn, hist')
  PROVE  InputTalks'
<1>1. SUFFICES ASSUME Steady', Live(web.active)'
               PROVE  InTalk(web', page'[web'.active], net'[web'.active].up,
                             net'[web'.active].down, hist')
  BY DEF InputTalks
<1>2. Steady /\ web'.active = c
  BY <1>1, Zenon DEF Steady, SameFlags
<1>3. Live(c) /\ net'[c].up = up /\ net'[c].down = dn
  BY <1>1, <1>2, Zenon DEF Live, Moved
<1>4. QED
  BY <1>2, <1>3, Zenon

(* What is left to show of a step.                                          *)
InputKept == hist' \in History /\ Linked' /\ InputTalks'

(* Sessions begin and end.                                                  *)
LEMMA ConnectTalks ==
  ASSUME InputInv, NEW c \in Conns, on_connect(c)
  PROVE  InputKept
<1>1. /\ NetGood(net) /\ WebGood(web) /\ Linked /\ InputTalks /\ hist \in History
      /\ DOMAIN web = WebFields /\ DOMAIN net[c] = {"state", "up", "down"} /\ DOMAIN net = Conns
  <2>1. NetGood(net) /\ WebGood(web) /\ Linked /\ InputTalks /\ hist \in History
    BY Zenon DEF InputInv, RoomInv
  <2>2. QED
    BY <2>1, WebFacts, ChannelFacts, Zenon DEF NetGood
<1>2. /\ UNCHANGED <<setup, term, page, pc, peeked, z80, hist>> /\ pc \in {"idle", "pop"}
      /\ setup.network /\ net[c].state = "new"
  BY Zenon DEF on_connect, Callback
<1>3. net[c] = Channel("new") /\ page[c] = ResetPage /\ web.active # c
  BY <1>1, <1>2, Zenon DEF Linked, ConnGood
<1>4. net[c].up = <<>> /\ net[c].down = <<>>
  BY <1>3 DEF Channel
<1>5. CASE web.active = None
  <2> DEFINE v == [web EXCEPT !.active = c, !.connected = TRUE]
             n == [net EXCEPT ![c].state = "open"]
  <2>1. web' = v /\ net' = n
    BY <1>5, Zenon DEF on_connect
  <2>2. /\ v.active = c /\ v.connected /\ v.disconnected = web.disconnected
        /\ v.window = web.window /\ v.staged = web.staged /\ v.ready = web.ready
    BY <1>1, ZenonT(60) DEF WebFields
  <2>3. /\ n[c].state = "open" /\ n[c].up = <<>> /\ n[c].down = <<>>
        /\ \A b \in Conns : b # c => n[b] = net[b]
    BY <1>1, <1>4, ZenonT(60)
  <2> HIDE DEF v, n
  <2>4. ~Steady'
    BY <2>1, <2>2, Zenon DEF Steady
  <2>5. FlagsGood(web', term', pc', setup'.network)
    <3>1. ~(pc \in {"heartbeat", "stage"}) /\ pc # "stage"
      BY <1>2
    <3>2. QED
      BY <1>1, <1>2, <2>1, <2>2, <3>1, Zenon DEF Linked, FlagsGood
  <2>6. ASSUME NEW b \in Conns PROVE ConnGood(web'.active, web'.connected, net'[b], page'[b], b)
    <3>1. CASE b = c
      BY <1>2, <1>3, <2>1, <2>2, <2>3, <3>1 DEF ConnGood
    <3>2. CASE b # c
      <4>1. ConnGood(web.active, web.connected, net[b], page[b], b) /\ None # b
        BY <1>1, Sizes, Zenon DEF Linked
      <4>2. net'[b] = net[b] /\ page'[b] = page[b] /\ web'.active # b
        BY <1>2, <2>1, <2>2, <2>3, <3>2, Zenon
      <4>3. QED
        BY <1>5, <4>1, <4>2, Zenon DEF ConnGood
    <3>3. QED
      BY <3>1, <3>2, Zenon
  <2>7. QED
    BY <1>1, <1>2, <2>4, <2>5, <2>6, TalkEnds, Zenon DEF InputKept, Linked
<1>6. CASE web.active # None
  <2> DEFINE n == [net EXCEPT ![c].state = "aborted"]
  <2>1. web' = web /\ net' = n
    BY <1>6, Zenon DEF on_connect
  <2>2. n[c].state = "aborted" /\ \A b \in Conns : b # c => n[b] = net[b]
    BY <1>1, ZenonT(60)
  <2> HIDE DEF n
  <2>3. FlagsGood(web', term', pc', setup'.network)
    BY <1>1, <1>2, <2>1, Zenon DEF Linked
  <2>4. ASSUME NEW b \in Conns PROVE ConnGood(web'.active, web'.connected, net'[b], page'[b], b)
    <3>1. CASE b = c
      BY <1>2, <1>3, <2>1, <2>2, <3>1 DEF ConnGood
    <3>2. CASE b # c
      BY <1>1, <1>2, <2>1, <2>2, <3>2, Zenon DEF Linked
    <3>3. QED
      BY <3>1, <3>2, Zenon
  <2>5. InputTalks'
    <3>1. Steady => web.active \in Conns
      BY <1>1, WebFacts, Zenon DEF Steady
    <3>2. Steady => net'[web.active] = net[web.active] /\ page'[web.active] = page[web.active]
      BY <1>2, <1>3, <2>1, <2>2, <3>1, Zenon
    <3>3. SameFlags(web', web) /\ SameInput(web', web) /\ web'.ready = web.ready
      BY <2>1, Zenon DEF SameFlags, SameInput
    <3>4. QED
      BY <1>1, <1>2, <3>2, <3>3, TalkSame, Zenon
  <2>6. QED
    BY <1>1, <1>2, <2>3, <2>4, <2>5, Zenon DEF InputKept, Linked
<1>7. QED
  BY <1>5, <1>6, Zenon

LEMMA ClosedFields ==
  ASSUME WebGood(web), NEW c, NEW v, v = on_close(on_close_details(web, c), c)
  PROVE  /\ SameInput(v, web) /\ SameOutput(v, web) /\ v.ready = web.ready
         /\ (v.connected <=> web.connected)
         /\ IF web.active = c
              THEN v.active = None /\ v.disconnected
              ELSE v.active = web.active /\ (v.disconnected <=> web.disconnected)
<1> DEFINE u == on_close_details(web, c)
<1>1. DOMAIN web = WebFields
  BY WebFacts, Zenon
<1>2. /\ DOMAIN u = WebFields /\ SameFlags(u, web) /\ SameInput(u, web) /\ SameOutput(u, web)
      /\ u.ready = web.ready
  BY <1>1, ZenonT(60) DEF WebFields, on_close_details, SameFlags, SameInput, SameOutput
<1> HIDE DEF u
<1>3. /\ SameInput(v, u) /\ SameOutput(v, u) /\ v.ready = u.ready /\ v.connected = u.connected
      /\ IF u.active = c THEN v.active = None /\ v.disconnected
                         ELSE v.active = u.active /\ v.disconnected = u.disconnected
  <2>1. v = on_close(u, c)
    BY Zenon DEF u
  <2>2. QED
    BY <1>2, <2>1, ZenonT(60) DEF WebFields, on_close, SameInput, SameOutput
<1>4. QED
  BY <1>2, <1>3, Zenon DEF SameInput, SameOutput, SameFlags

LEMMA ClosedTalks ==
  ASSUME InputInv, NEW c \in Conns, Closed(c)
  PROVE  InputKept
<1>1. /\ NetGood(net) /\ WebGood(web) /\ Linked /\ InputTalks /\ hist \in History
      /\ DOMAIN net = Conns
  BY Zenon DEF InputInv, RoomInv, NetGood
<1>2. /\ UNCHANGED <<setup, term, page, pc, peeked, z80, hist>> /\ pc \in {"idle", "pop"}
      /\ net[c].state \in {"closing", "aborted"} /\ net' = [net EXCEPT ![c] = Channel("closed")]
      /\ web' = on_close(on_close_details(web, c), c)
  BY Zenon DEF Closed, Callback
<1>3. /\ SameInput(web', web) /\ SameOutput(web', web) /\ web'.ready = web.ready
      /\ (web'.connected <=> web.connected)
      /\ IF web.active = c
           THEN web'.active = None /\ web'.disconnected
           ELSE web'.active = web.active /\ (web'.disconnected <=> web.disconnected)
  BY <1>1, <1>2, ClosedFields, Zenon
<1>4. net'[c] = Channel("closed") /\ \A b \in Conns : b # c => net'[b] = net[b]
  BY <1>1, <1>2, Zenon
<1>5. ASSUME NEW b \in Conns PROVE ConnGood(web'.active, web'.connected, net'[b], page'[b], b)
  <2>1. CASE b = c
    <3>1. net'[b].state = "closed"
      BY <1>4, <2>1 DEF Channel
    <3>2. web'.active # b
      BY <1>3, <2>1, Sizes, Zenon
    <3>3. QED
      BY <3>1, <3>2 DEF ConnGood
  <2>2. CASE b # c
    <3>1. ConnGood(web.active, web.connected, net[b], page[b], b) /\ None # b
      BY <1>1, Sizes, Zenon DEF Linked
    <3>2. net'[b] = net[b] /\ page'[b] = page[b]
      BY <1>2, <1>4, <2>2, Zenon
    <3>3. QED
      BY <1>3, <2>2, <3>1, <3>2, Zenon DEF ConnGood
  <2>3. QED
    BY <2>1, <2>2, Zenon
<1>6. FlagsGood(web', term', pc', setup'.network)
  <2>1. ~(pc \in {"heartbeat", "stage"}) /\ pc # "stage"
    BY <1>2
  <2>2. QED
    BY <1>1, <1>2, <1>3, <2>1, Zenon DEF Linked, FlagsGood, SameOutput
<1>7. InputTalks'
  <2>1. CASE web.active = c
    BY <1>3, <2>1, TalkEnds, Zenon DEF Steady
  <2>2. CASE web.active # c
    <3>1. SameFlags(web', web)
      BY <1>3, <2>2, Zenon DEF SameFlags
    <3>2. Steady => web.active \in Conns
      BY <1>1, WebFacts, Zenon DEF Steady
    <3>3. Steady => net'[web.active] = net[web.active] /\ page'[web.active] = page[web.active]
      BY <1>2, <1>4, <2>2, <3>2, Zenon
    <3>4. QED
      BY <1>1, <1>2, <1>3, <3>1, <3>3, TalkSame, Zenon
  <2>3. QED
    BY <2>1, <2>2, Zenon
<1>8. QED
  BY <1>1, <1>2, <1>5, <1>6, <1>7, Zenon DEF InputKept, Linked

LEMMA DisconnectTalks ==
  ASSUME InputInv, disconnect_client, setup' = setup
  PROVE  InputKept
<1>1. Linked /\ RoomInv /\ hist \in History
  BY Zenon DEF InputInv
<1>2. /\ web'.active = None /\ ~web'.connected /\ ~web'.disconnected
      /\ web'.window = <<>> /\ web'.staged = <<>>
      /\ ~term'.browser /\ pc' = "idle" /\ hist' \in History
      /\ \A b \in Conns : IF b = web.active
                            THEN net'[b] = Channel("aborted") /\ page'[b] = ResetPage
                            ELSE net'[b] = net[b] /\ page'[b] = page[b]
  BY <1>1, DisconnectFields, Zenon
<1>3. FlagsGood(web', term', pc', setup'.network)
  <2>1. ~(pc' \in {"heartbeat", "stage"}) /\ pc' # "stage"
    BY <1>2
  <2>2. QED
    BY <1>2, <2>1, Zenon DEF FlagsGood
<1>4. ASSUME NEW b \in Conns PROVE ConnGood(web'.active, web'.connected, net'[b], page'[b], b)
  <2>1. CASE b = web.active
    <3>1. net'[b].state = "aborted"
      BY <1>2, <2>1 DEF Channel
    <3>2. web'.active # b
      BY <1>2, Sizes, Zenon
    <3>3. QED
      BY <3>1, <3>2 DEF ConnGood
  <2>2. CASE b # web.active
    <3>1. ConnGood(web.active, web.connected, net[b], page[b], b) /\ None # b
      BY <1>1, Sizes, Zenon DEF Linked
    <3>2. net'[b] = net[b] /\ page'[b] = page[b]
      BY <1>2, <2>2, Zenon
    <3>3. QED
      BY <1>2, <2>2, <3>1, <3>2, Zenon DEF ConnGood
  <2>3. QED
    BY <2>1, <2>2, Zenon
<1>5. InputTalks'
  BY <1>2, TalkEnds, Zenon DEF Steady
<1>6. QED
  BY <1>2, <1>3, <1>4, <1>5, Zenon DEF InputKept, Linked

LEMMA EventsTalk ==
  ASSUME InputInv, process_events, UNCHANGED <<setup, net, page>>,
         pc' \in {"idle", "pop"} \/ (pc' = "heartbeat" /\ web.active # None)
  PROVE  InputKept
<1>1. Linked /\ RoomInv /\ hist \in History /\ InputTalks /\ WebGood(web)
  BY Zenon DEF InputInv, RoomInv
<1>2. /\ web'.active = web.active /\ ~web'.connected /\ ~web'.disconnected /\ hist' \in History
      /\ \/ /\ web.connected /\ web.active # None
            /\ ~web'.ready /\ web'.in_seq = 1 /\ web'.pending_input = <<>>
            /\ term'.browser /\ hist' = NoHistory
         \/ /\ ~(web.connected /\ web.active # None) /\ web.disconnected
            /\ web'.window = <<>> /\ web'.staged = <<>> /\ ~term'.browser
         \/ /\ ~(web.connected /\ web.active # None) /\ ~web.disconnected
            /\ SameInput(web', web) /\ SameOutput(web', web) /\ web'.ready = web.ready
            /\ term' = term /\ hist' = hist
  BY <1>1, EventsFields, Zenon
<1>3. FlagsGood(web, term, pc, setup.network)
  BY <1>1, Zenon DEF Linked
<1>4. FlagsGood(web', term', pc', setup'.network)
  <2>1. pc' # "stage" /\ (pc' \in {"heartbeat", "stage"} => web.active # None)
    OBVIOUS
  <2>2. QED
    BY <1>2, <1>3, <2>1, Zenon DEF FlagsGood, Steady, SameOutput
<1>5. ASSUME NEW b \in Conns PROVE ConnGood(web'.active, web'.connected, net'[b], page'[b], b)
  <2>1. ConnGood(web.active, web.connected, net[b], page[b], b) /\ net'[b] = net[b] /\ page'[b] = page[b]
    BY <1>1, Zenon DEF Linked
  <2>2. QED
    BY <1>2, <2>1, Zenon DEF ConnGood
<1>6. InputTalks'
  <2>1. CASE web.connected /\ web.active # None
    <3>1. SUFFICES ASSUME Live(web.active)'
                   PROVE  InTalk(web', page'[web'.active], net'[web'.active].up,
                                 net'[web'.active].down, hist')
      BY DEF InputTalks
    <3>2. net[web.active].state = "open" /\ web.active \in Conns
      BY <1>1, <1>2, <2>1, <3>1, WebFacts, Zenon DEF Live
    <3>3. /\ net[web.active].up = <<>> /\ net[web.active].down = <<>>
          /\ page[web.active] = ResetPage
      BY <1>1, <2>1, <3>2, OwnerFacts
    <3>4. InTalk(web', ResetPage, <<>>, <<>>, hist')
      BY <1>2, <2>1, NoHistoryFacts, FreshTalk, Zenon
    <3>5. QED
      BY <1>2, <3>3, <3>4, Zenon
  <2>2. CASE ~(web.connected /\ web.active # None) /\ web.disconnected
    <3>1. web'.active = None
      BY <1>2, <1>3, <2>2, Zenon DEF FlagsGood
    <3>2. QED
      BY <3>1, TalkEnds, Zenon DEF Steady
  <2>3. CASE ~(web.connected /\ web.active # None) /\ ~web.disconnected
    <3>1. CASE web.active = None
      BY <1>2, <3>1, TalkEnds, Zenon DEF Steady
    <3>2. CASE web.active # None
      <4>1. SameFlags(web', web)
        BY <1>2, <2>3, <3>2, Zenon DEF SameFlags
      <4>2. QED
        BY <1>1, <1>2, <2>3, <4>1, TalkSame, Zenon
    <3>3. QED
      BY <3>1, <3>2, Zenon
  <2>4. QED
    BY <2>1, <2>2, <2>3, Zenon
<1>7. QED
  BY <1>2, <1>4, <1>5, <1>6, Zenon DEF InputKept, Linked

(* Messages of the page.                                                    *)
LEMMA TakeFacts ==
  ASSUME InputInv, NEW c \in Conns, NEW types, Take(c, types)
  PROVE  /\ pc = "pop" /\ web.active = c /\ net[c].up \in Seq(InputMessages) /\ net[c].up # <<>>
         /\ net[c].down \in Seq(Messages)
         /\ Head(net[c].up).type \in types /\ Head(net[c].up) \in InputMessages
         /\ NetGood(net) /\ WebGood(web) /\ Linked /\ InputTalks /\ hist \in History
         /\ TermGood(term)
<1>1. NetGood(net) /\ WebGood(web) /\ Linked /\ InputTalks /\ hist \in History /\ TermGood(term)
  BY Zenon DEF InputInv, RoomInv
<1>2. net[c].up \in Seq(InputMessages) /\ net[c].down \in Seq(Messages)
  BY <1>1, ChannelFacts, Zenon
<1>3. /\ pc = "pop" /\ web.active = c /\ net[c].up # <<>>
      /\ Head(net[c].up).type \in types
  BY Zenon DEF Take
<1>4. Head(net[c].up) \in InputMessages
  BY <1>2, <1>3, TailAt
<1>5. QED
  BY <1>1, <1>2, <1>3, <1>4, Zenon

LEMMA TakeLinks ==
  ASSUME InputInv, NEW c \in Conns, NEW types, Take(c, types), SameFlags(web', web),
         setup' = setup, pc' = pc, page' = page, web'.ready \/ web'.ready = web.ready,
         SameOutput(web', web) \/ term.browser, term'.browser = term.browser,
         NEW dn, Moved(net', net, c, Tail(net[c].up), dn)
  PROVE  Linked'
<1>1. web.active = c /\ net[c].up \in Seq(InputMessages) /\ net[c].up # <<>> /\ Linked
  BY TakeFacts, Zenon
<1>2. /\ net[c].state # "new"
      /\ web.connected /\ net[c].state \in {"open", "silent", "closing"} => net[c].up = <<>>
      /\ net[c].state = "raw" => \A j \in DOMAIN net[c].up : net[c].up[j].type # "OUTPUT_ACK"
  BY <1>1, OwnerFacts, Zenon
<1> DEFINE t == Tail(net[c].up)
<1>3. \A j \in DOMAIN t : j + 1 \in DOMAIN net[c].up /\ t[j] = net[c].up[j + 1]
  BY <1>1, TailShifts
<1> HIDE DEF t
<1>4. net[c].state = "raw" => \A j \in DOMAIN t : t[j].type # "OUTPUT_ACK"
  BY <1>2, <1>3, Zenon
<1>5. \A b \in Conns : ConnGood(web.active, web.connected, net'[b], page'[b], b)
  BY <1>1, <1>2, <1>4, ConnsMoved, Zenon DEF t
<1>6. QED
  BY <1>1, <1>5, LinkKept, Zenon

(* A message that does not concern the input.                               *)
LEMMA OtherTaken ==
  ASSUME InputInv, NEW c \in Conns, NEW types, Take(c, types), SameFlags(web', web),
         UNCHANGED <<setup, term, page, pc, hist>>, net' = Arrived(c),
         SameInput(web', web), SameOutput(web', web) \/ term.browser,
         web'.ready \/ (web'.ready = web.ready /\ "READY" \notin types)
  PROVE  InputKept
<1>1. /\ pc = "pop" /\ web.active = c /\ net[c].up \in Seq(InputMessages) /\ net[c].up # <<>>
      /\ Head(net[c].up).type \in types /\ NetGood(net) /\ InputTalks /\ hist \in History
  BY TakeFacts, Zenon
<1>2. Moved(net', net, c, Tail(net[c].up), net[c].down)
  BY <1>1, ArrivedFields, Zenon
<1>3. Linked'
  BY <1>2, TakeLinks, Zenon
<1>4. ASSUME Steady, Live(c)
      PROVE  InTalk(web', page'[c], Tail(net[c].up), net[c].down, hist')
  <2>1. InTalk(web, page[c], net[c].up, net[c].down, hist)
    BY <1>1, <1>4, Zenon DEF InputTalks
  <2>2. web'.ready
    BY <1>1, <2>1, ReadyFirst, Zenon
  <2>3. QED
    BY <1>1, <2>1, <2>2, PopTalks, Zenon
<1>5. InputTalks'
  BY <1>1, <1>2, <1>4, TalkMoved, Zenon
<1>6. QED
  BY <1>1, <1>3, <1>5, Zenon DEF InputKept

LEMMA ReadyFields ==
  ASSUME InputInv, NEW c \in Conns, OnReady(c)
  PROVE  /\ SameFlags(web', web) /\ SameInput(web', web) /\ SameOutput(web', web) /\ web'.ready
<1> DEFINE v == note_browser_activity(web)
<1>1. WebGood(web)
  BY Zenon DEF InputInv, RoomInv
<1>2. /\ SameFlags(v, web) /\ SameInput(v, web) /\ SameOutput(v, web) /\ DOMAIN v = WebFields
      /\ web' = [v EXCEPT !.ready = TRUE]
  BY <1>1, NotedFields, NotedWeb, WebFacts, Zenon DEF OnReady
<1> HIDE DEF v
<1>3. SameFlags(web', v) /\ SameInput(web', v) /\ SameOutput(web', v) /\ web'.ready
  BY <1>2, ZenonT(60) DEF WebFields, SameFlags, SameInput, SameOutput
<1>4. QED
  BY <1>2, <1>3, Zenon DEF SameFlags, SameInput, SameOutput

LEMMA ReadyTalks ==
  ASSUME InputInv, NEW c \in Conns, OnReady(c)
  PROVE  InputKept
<1>1. SameFlags(web', web) /\ SameInput(web', web) /\ SameOutput(web', web) /\ web'.ready
  BY ReadyFields, Zenon
<1>2. UNCHANGED <<setup, term, page, pc, hist>> /\ net' = Arrived(c) /\ Take(c, {"READY"})
  BY Zenon DEF OnReady
<1>3. QED
  BY <1>1, <1>2, OtherTaken, Zenon

LEMMA PongFields ==
  ASSUME InputInv, NEW c \in Conns, OnPong(c)
  PROVE  /\ SameFlags(web', web) /\ SameInput(web', web) /\ SameOutput(web', web)
         /\ web'.ready = web.ready
<1> DEFINE v == [web EXCEPT !.awaiting = FALSE, !.missed = 0, !.activity = FALSE]
<1>1. WebGood(web) /\ DOMAIN web = WebFields
  BY WebFacts, Zenon DEF InputInv, RoomInv
<1>2. SameFlags(v, web) /\ SameInput(v, web) /\ SameOutput(v, web) /\ v.ready = web.ready
  BY <1>1, ZenonT(60) DEF WebFields, SameFlags, SameInput, SameOutput
<1>3. web' = v \/ web' = note_browser_activity(web)
  BY Zenon DEF OnPong
<1> HIDE DEF v
<1>4. QED
  BY <1>1, <1>2, <1>3, NotedFields, Zenon

LEMMA PongTalks ==
  ASSUME InputInv, NEW c \in Conns, OnPong(c)
  PROVE  InputKept
<1>1. SameFlags(web', web) /\ SameInput(web', web) /\ SameOutput(web', web) /\ web'.ready = web.ready
  BY PongFields, Zenon
<1>2. UNCHANGED <<setup, term, page, pc, hist>> /\ net' = Arrived(c) /\ Take(c, {"PONG"})
  BY Zenon DEF OnPong
<1>3. "READY" \notin {"PONG"}
  OBVIOUS
<1>4. QED
  BY <1>1, <1>2, <1>3, OtherTaken, Zenon

(* The frames up to the one acknowledged leave the window.                  *)
LEMMA OutputAckFields ==
  ASSUME InputInv, NEW c \in Conns, OnOutputAck(c)
  PROVE  LET hit == {i \in DOMAIN web.window :
                       web.window[i].sent /\ web.window[i].seq = Head(net[c].up).seq}
         IN  /\ SameFlags(web', web) /\ SameInput(web', web) /\ web'.ready = web.ready /\ web.ready
             /\ web'.out_seq = web.out_seq /\ web'.staged = web.staged
             /\ web'.window = IF hit = {} THEN web.window
                              ELSE Rest(web.window, CHOOSE i \in hit : \A j \in hit : i <= j)
<1> DEFINE v == note_browser_activity(web)
           hit == {i \in DOMAIN web.window :
                     web.window[i].sent /\ web.window[i].seq = Head(net[c].up).seq}
           k == CHOOSE i \in hit : \A j \in hit : i <= j
           left == IF hit = {} THEN v.window ELSE Rest(v.window, k)
<1>1. WebGood(web)
  BY Zenon DEF InputInv, RoomInv
<1>2. /\ SameFlags(v, web) /\ SameInput(v, web) /\ SameOutput(v, web) /\ DOMAIN v = WebFields
      /\ v.ready = web.ready
  BY <1>1, NotedFields, NotedWeb, WebFacts, Zenon
<1>3. web' = [v EXCEPT !.window = left] /\ web.ready
  BY <1>2, Zenon DEF OnOutputAck, WebFields
<1> HIDE DEF v, hit, k, left
<1>4. /\ SameFlags(web', v) /\ SameInput(web', v) /\ web'.ready = v.ready
      /\ web'.out_seq = v.out_seq /\ web'.staged = v.staged /\ web'.window = left
  BY <1>2, <1>3, ZenonT(60) DEF WebFields, SameFlags, SameInput
<1>5. left = IF hit = {} THEN web.window ELSE Rest(web.window, k)
  BY <1>2, Zenon DEF left, SameOutput
<1>6. /\ SameFlags(web', web) /\ SameInput(web', web) /\ web'.ready = web.ready
      /\ web'.out_seq = web.out_seq /\ web'.staged = web.staged
  BY <1>2, <1>4, Zenon DEF SameFlags, SameInput, SameOutput
<1>7. QED
  BY <1>3, <1>4, <1>5, <1>6, Zenon DEF hit, k

LEMMA OutputAckTalks ==
  ASSUME InputInv, NEW c \in Conns, OnOutputAck(c)
  PROVE  InputKept
<1> DEFINE hit == {i \in DOMAIN web.window :
                     web.window[i].sent /\ web.window[i].seq = Head(net[c].up).seq}
<1>1. /\ SameFlags(web', web) /\ SameInput(web', web) /\ web'.ready = web.ready
      /\ web'.out_seq = web.out_seq /\ web'.staged = web.staged
      /\ hit = {} => web'.window = web.window
  BY OutputAckFields, Zenon
<1>2. UNCHANGED <<setup, term, page, pc, hist>> /\ net' = Arrived(c) /\ Take(c, {"OUTPUT_ACK"})
  BY Zenon DEF OnOutputAck
<1>3. "READY" \notin {"OUTPUT_ACK"}
  OBVIOUS
<1>4. SameOutput(web', web) \/ term.browser
  <2>1. ASSUME ~term.browser PROVE hit = {}
    <3>1. web.window = <<>>
      BY <2>1, Zenon DEF InputInv, Linked, FlagsGood
    <3>2. QED
      BY <3>1
  <2>2. QED
    BY <1>1, <2>1, Zenon DEF SameOutput
<1>5. QED
  BY <1>1, <1>2, <1>3, <1>4, OtherTaken, Zenon

-----------------------------------------------------------------------------
(* Input taken, and acknowledged.                                           *)

(* A channel down with a control message more, or without.                  *)
Told(dn, e, types) ==
  e = dn \/ \E m \in Messages : m.type \in types /\ m.data = <<>> /\ e = Append(dn, m)

LEMMA AckMessage ==
  ASSUME NEW s \in Int
  PROVE  /\ Control("INPUT_ACK", s) \in Messages /\ Control("INPUT_ACK", s).type = "INPUT_ACK"
         /\ Control("INPUT_ACK", s).seq = s /\ Control("INPUT_ACK", s).data = <<>>
<1>1. "INPUT_ACK" \in Types
  BY DEF Types
<1>2. QED
  BY <1>1, ControlIsMessage, Zenon DEF Control, Message

LEMMA AckSent ==
  ASSUME NEW n, NetGood(n), NEW c \in Conns, NEW k, NEW s \in Int,
         k = n \/ k = Send(n, c, Control("INPUT_ACK", s))
  PROVE  \E dn : /\ Moved(k, n, c, n[c].up, dn)
                 /\ \/ dn = n[c].down
                    \/ dn = Append(n[c].down, Control("INPUT_ACK", s))
                 /\ Told(n[c].down, dn, {"INPUT_ACK"})
<1> DEFINE m == Control("INPUT_ACK", s)
<1>1. m \in Messages /\ m.type \in {"INPUT_ACK"} /\ m.data = <<>>
  BY AckMessage, Zenon
<1> HIDE DEF m
<1>2. /\ Told(n[c].down, n[c].down, {"INPUT_ACK"})
      /\ Told(n[c].down, Append(n[c].down, m), {"INPUT_ACK"})
  BY <1>1, Zenon DEF Told
<1>3. Moved(n, n, c, n[c].up, n[c].down)
  BY Zenon DEF Moved
<1>4. \/ Moved(k, n, c, n[c].up, n[c].down)
      \/ Moved(k, n, c, n[c].up, Append(n[c].down, m))
  BY <1>3, SendFields, Zenon DEF m
<1>5. QED
  BY <1>2, <1>4, Zenon DEF m

(* What Accept does to the session of connection c, whose channel up has    *)
(* been read as far as "up".                                                *)
LEMMA AcceptTalks ==
  ASSUME InputInv, NEW w, WebGood(w), NEW n, NetGood(n), Accept(w, n),
         NEW c \in Conns, web.active = c, SameFlags(w, web), w.ready = web.ready,
         NEW up, Moved(n, net, c, up, net[c].down), page' = page,
         Steady /\ Live(c) => InTalk(w, page[c], up, net[c].down, hist)
  PROVE  /\ SameFlags(web', web) /\ SameOutput(web', w) /\ web'.ready = web.ready
         /\ InputTalks' /\ hist' \in History
         /\ \E dn : Moved(net', net, c, up, dn) /\ Told(net[c].down, dn, {"INPUT_ACK"})
         /\ term'.browser = term.browser /\ term'.tx = term.tx /\ term'.tx_pending = term.tx_pending
         /\ hist'.written = hist.written /\ hist'.shown = hist.shown
<1>1. hist \in History /\ TermGood(term) /\ InputTalks /\ NetGood(net)
  BY Zenon DEF InputInv, RoomInv
<1>2. /\ SameFlags(web', w) /\ SameOutput(web', w) /\ web'.ready = w.ready
      /\ \/ SameInput(web', w) /\ hist' = hist
         \/ Taken(w, web', hist, hist')
      /\ hist' \in History
      /\ net' = n \/ (w.active \in Conns /\ net' = Send(n, w.active, Control("INPUT_ACK", Minus(web'.in_seq, 1))))
      /\ term'.browser = term.browser /\ term'.tx = term.tx /\ term'.tx_pending = term.tx_pending
  BY <1>1, AcceptFields, Zenon
<1>3. w.active = c
  BY Zenon DEF SameFlags
<1>4. web'.in_seq \in Int /\ Minus(web'.in_seq, 1) \in Int
  <2>1. w.in_seq \in Int /\ 1 \in Int
    BY WebFacts
  <2>2. web'.in_seq \in Int
    BY <1>2, <2>1, Numbers, Zenon DEF SameInput, Taken
  <2>3. QED
    BY <2>1, <2>2, Numbers, Zenon
<1> DEFINE s == Minus(web'.in_seq, 1)
           m == Control("INPUT_ACK", s)
<1> HIDE DEF s
<1>5. m \in Messages /\ m.type = "INPUT_ACK" /\ m.seq = s /\ s \in Int
  BY <1>4, AckMessage, Zenon DEF s
<1>6. n[c].up = up /\ n[c].down = net[c].down
  BY Zenon DEF Moved
<1> HIDE DEF m
<1>7. PICK dn : /\ Moved(net', n, c, n[c].up, dn)
                /\ dn = n[c].down \/ dn = Append(n[c].down, m)
                /\ Told(n[c].down, dn, {"INPUT_ACK"})
  <2>1. net' = n \/ net' = Send(n, c, Control("INPUT_ACK", s))
    BY <1>2, <1>3, Zenon DEF s
  <2>2. QED
    BY <1>5, <2>1, AckSent, Zenon DEF m
<1>8. /\ Moved(net', net, c, up, dn) /\ Told(net[c].down, dn, {"INPUT_ACK"})
      /\ dn = net[c].down \/ dn = Append(net[c].down, m)
  <2>1. Moved(net', n, c, up, dn)
    BY <1>6, <1>7, Zenon
  <2>2. Moved(net', net, c, up, dn)
    BY <2>1, MovedTwice, Zenon
  <2>3. QED
    BY <1>6, <1>7, <2>2, Zenon
<1>9. ASSUME Steady, Live(c) PROVE InTalk(web', page'[c], up, dn, hist')
  <2>1. InTalk(w, page[c], up, net[c].down, hist) /\ net[c].down \in Seq(Messages)
    BY <1>1, <1>9, ChannelFacts, Zenon
  <2>2. InTalk(web', page[c], up, net[c].down, hist')
    <3>1. CASE SameInput(web', w) /\ hist' = hist
      BY <1>2, <2>1, <3>1, Zenon DEF InTalk, SameInput
    <3>2. CASE Taken(w, web', hist, hist')
      BY <1>2, <2>1, <3>2, TakenTalks, Zenon DEF Taken
    <3>3. QED
      BY <1>2, <3>1, <3>2, Zenon
  <2>3. InTalk(web', page[c], up, Append(net[c].down, m), hist')
    <3>1. SameInput(web', web') /\ web'.ready = web'.ready
      BY Zenon DEF SameInput
    <3>2. m.type \in {"HELLO", "INPUT_ACK"} /\ (m.type = "INPUT_ACK" => m.seq = Minus(web'.in_seq, 1))
      BY <1>5, Zenon DEF s
    <3>3. QED
      BY <1>5, <2>1, <2>2, <3>1, <3>2, SendTalks, Zenon
  <2>4. QED
    BY <1>8, <2>2, <2>3, Zenon
<1>10. SameFlags(web', web)
  BY <1>2, Zenon DEF SameFlags
<1>11. InputTalks'
  BY <1>8, <1>9, <1>10, TalkMoved, Zenon
<1>12. hist'.written = hist.written /\ hist'.shown = hist.shown
  BY <1>2, Zenon DEF Taken
<1>13. QED
  BY <1>2, <1>8, <1>10, <1>11, <1>12, Zenon

(* A new frame, or the last one again.                                      *)
LEMMA InputFields ==
  ASSUME InputInv, NEW c \in Conns, OnInput(c)
  PROVE  LET m == Head(net[c].up)
             v == note_browser_activity(web)
             w == [v EXCEPT !.pending_input = m.data]
         IN  /\ Take(c, {"INPUT"}) /\ web.ready /\ UNCHANGED <<setup, page, pc, peeked, z80>>
             /\ \/ m.seq = web.in_seq /\ Accept(w, Arrived(c))
                \/ AckDuplicate(c) /\ term' = term /\ hist' = hist
             /\ WebGood(w) /\ SameFlags(w, web) /\ SameOutput(w, web) /\ w.ready = web.ready
             /\ w.in_seq = web.in_seq /\ w.pending_input = m.data
             /\ NetGood(Arrived(c))
<1> DEFINE m == Head(net[c].up)
           v == note_browser_activity(web)
           w == [v EXCEPT !.pending_input = m.data]
<1>1. /\ Take(c, {"INPUT"}) /\ web.ready /\ UNCHANGED <<setup, page, pc, peeked, z80>>
      /\ \/ m.seq = web.in_seq /\ Accept(w, Arrived(c))
         \/ AckDuplicate(c) /\ term' = term /\ hist' = hist
  BY Zenon DEF OnInput
<1>2. m \in InputMessages /\ WebGood(web) /\ NetGood(Arrived(c))
  BY <1>1, TakeFacts, ArrivedIsSound, Zenon DEF InputInv
<1>3. m.data \in Bytes /\ Len(m.data) <= INPUT_BYTES
  BY <1>2, Zenon DEF InputMessages, Messages
<1> HIDE DEF m
<1>4. /\ SameFlags(v, web) /\ SameInput(v, web) /\ SameOutput(v, web) /\ DOMAIN v = WebFields
      /\ v.ready = web.ready /\ WebGood(v)
  BY <1>2, NotedFields, NotedWeb, WebFacts, Zenon
<1> HIDE DEF v
<1>5. WebGood(w)
  BY <1>3, <1>4, PendingWeb, Zenon
<1>6. /\ SameFlags(w, v) /\ SameOutput(w, v) /\ w.ready = v.ready /\ w.in_seq = v.in_seq
      /\ w.pending_input = m.data
  BY <1>4, ZenonT(60) DEF WebFields, SameFlags, SameOutput
<1> HIDE DEF w
<1>7. /\ SameFlags(w, web) /\ SameOutput(w, web) /\ w.ready = web.ready /\ w.in_seq = web.in_seq
  BY <1>4, <1>6, Zenon DEF SameFlags, SameOutput, SameInput
<1>8. QED
  BY <1>1, <1>2, <1>5, <1>6, <1>7, Zenon DEF m, v, w

LEMMA DuplicateFields ==
  ASSUME InputInv, NEW c \in Conns, Take(c, {"INPUT"}), AckDuplicate(c)
  PROVE  /\ SameFlags(web', web) /\ SameInput(web', web) /\ SameOutput(web', web)
         /\ web'.ready = web.ready
         /\ \E dn : /\ Moved(net', net, c, Tail(net[c].up), dn)
                    /\ Told(net[c].down, dn, {"INPUT_ACK"})
                    /\ \/ dn = net[c].down
                       \/ dn = Append(net[c].down, Control("INPUT_ACK", Minus(web.in_seq, 1)))
<1> DEFINE v == note_browser_activity(web)
           w == [v EXCEPT !.ack_pending = TRUE]
           n == Arrived(c)
           left == AckLeft(w, n)
           s == Minus(web.in_seq, 1)
<1>1. WebGood(web) /\ NetGood(net) /\ web.active = c
  BY TakeFacts, Zenon
<1>2. NetGood(n) /\ Moved(n, net, c, Tail(net[c].up), net[c].down)
  BY <1>1, ArrivedIsSound, ArrivedFields, TakeFacts, Zenon DEF InputInv
<1>3. /\ SameFlags(v, web) /\ SameInput(v, web) /\ SameOutput(v, web) /\ DOMAIN v = WebFields
      /\ v.ready = web.ready
  BY <1>1, NotedFields, NotedWeb, WebFacts, Zenon
<1>4. web' = [w EXCEPT !.ack_pending = left] /\ net' = RetryAck(w, n)
  BY Zenon DEF AckDuplicate
<1> HIDE DEF v, n, left
<1>5. /\ SameFlags(w, v) /\ SameInput(w, v) /\ SameOutput(w, v) /\ w.ready = v.ready
      /\ DOMAIN w = WebFields
  BY <1>3, ZenonT(60) DEF WebFields, SameFlags, SameInput, SameOutput
<1> HIDE DEF w
<1>6. SameFlags(web', w) /\ SameInput(web', w) /\ SameOutput(web', w) /\ web'.ready = w.ready
  BY <1>4, <1>5, ZenonT(60) DEF WebFields, SameFlags, SameInput, SameOutput
<1>7. w.active = c /\ w.in_seq = web.in_seq
  BY <1>1, <1>3, <1>5, Zenon DEF SameFlags, SameInput
<1>8. net' = Send(n, c, Control("INPUT_ACK", s)) /\ s \in Int
  <2>1. web.in_seq \in Int /\ 1 \in Int
    BY <1>1, WebFacts
  <2>2. s \in Int
    BY <2>1, Numbers, Zenon
  <2>3. QED
    BY <1>4, <1>7, <2>2, Zenon DEF RetryAck, Ack
<1> HIDE DEF s
<1>9. PICK dn : /\ Moved(net', n, c, n[c].up, dn)
                /\ dn = n[c].down \/ dn = Append(n[c].down, Control("INPUT_ACK", s))
                /\ Told(n[c].down, dn, {"INPUT_ACK"})
  BY <1>2, <1>8, AckSent, Zenon
<1>10. n[c].up = Tail(net[c].up) /\ n[c].down = net[c].down
  BY <1>2, Zenon DEF Moved
<1>11. Moved(net', net, c, Tail(net[c].up), dn)
  <2>1. Moved(net', n, c, Tail(net[c].up), dn)
    BY <1>9, <1>10, Zenon
  <2>2. Moved(n, net, c, Tail(net[c].up), net[c].down)
    BY <1>2, Zenon
  <2>3. QED
    BY <2>1, <2>2 DEF Moved
<1>12. /\ SameFlags(web', web) /\ SameInput(web', web) /\ SameOutput(web', web)
       /\ web'.ready = web.ready
  BY <1>3, <1>5, <1>6, Zenon DEF SameFlags, SameInput, SameOutput
<1>13. QED
  BY <1>9, <1>10, <1>11, <1>12, Zenon DEF s

LEMMA InputTaken ==
  ASSUME InputInv, NEW c \in Conns, OnInput(c)
  PROVE  /\ InputKept /\ SameFlags(web', web) /\ SameOutput(web', web)
         /\ \E dn : Moved(net', net, c, Tail(net[c].up), dn) /\ Told(net[c].down, dn, {"INPUT_ACK"})
         /\ term'.tx = term.tx /\ term'.tx_pending = term.tx_pending /\ term'.browser = term.browser
         /\ hist'.written = hist.written /\ hist'.shown = hist.shown
<1> DEFINE m == Head(net[c].up)
           v == note_browser_activity(web)
           w == [v EXCEPT !.pending_input = m.data]
           up == Tail(net[c].up)
<1>1. /\ Take(c, {"INPUT"}) /\ web.ready /\ UNCHANGED <<setup, page, pc, peeked, z80>>
      /\ \/ m.seq = web.in_seq /\ Accept(w, Arrived(c))
         \/ AckDuplicate(c) /\ term' = term /\ hist' = hist
      /\ WebGood(w) /\ SameFlags(w, web) /\ SameOutput(w, web) /\ w.ready = web.ready
      /\ w.in_seq = web.in_seq /\ w.pending_input = m.data
      /\ NetGood(Arrived(c))
  BY InputFields, Zenon
<1> HIDE DEF w, v
<1>2. /\ pc = "pop" /\ web.active = c /\ net[c].up \in Seq(InputMessages) /\ net[c].up # <<>>
      /\ m.type = "INPUT" /\ InputTalks /\ hist \in History /\ NetGood(net)
      /\ net[c].down \in Seq(Messages)
  <2>1. m.type \in {"INPUT"}
    BY <1>1, TakeFacts, Zenon
  <2>2. QED
    BY <1>1, <2>1, TakeFacts, Zenon
<1>3. Moved(Arrived(c), net, c, up, net[c].down)
  BY <1>2, ArrivedFields, Zenon
<1>4. CASE m.seq = web.in_seq /\ Accept(w, Arrived(c))
  <2>1. ASSUME Steady, Live(c) PROVE InTalk(w, page[c], up, net[c].down, hist)
    <3>1. InTalk(web, page[c], net[c].up, net[c].down, hist)
      BY <1>2, <2>1, Zenon DEF InputTalks
    <3>2. QED
      BY <1>1, <1>2, <1>4, <3>1, HoldTalks, Zenon
  <2> HIDE DEF up, m
  <2>2. /\ SameFlags(web', web) /\ SameOutput(web', w) /\ web'.ready = web.ready
        /\ InputTalks' /\ hist' \in History
        /\ \E dn : Moved(net', net, c, up, dn) /\ Told(net[c].down, dn, {"INPUT_ACK"})
        /\ term'.browser = term.browser /\ term'.tx = term.tx /\ term'.tx_pending = term.tx_pending
        /\ hist'.written = hist.written /\ hist'.shown = hist.shown
    BY <1>1, <1>2, <1>3, <1>4, <2>1, AcceptTalks, Zenon
  <2>3. SameOutput(web', web)
    BY <1>1, <2>2, Zenon DEF SameOutput
  <2>4. Linked'
    BY <1>1, <2>2, <2>3, TakeLinks, Zenon DEF up
  <2>5. QED
    BY <2>2, <2>3, <2>4, Zenon DEF InputKept, up
<1>5. CASE AckDuplicate(c) /\ term' = term /\ hist' = hist
  <2>1. /\ SameFlags(web', web) /\ SameInput(web', web) /\ SameOutput(web', web)
        /\ web'.ready = web.ready
    BY <1>1, <1>5, DuplicateFields, Zenon
  <2>2. PICK dn : /\ Moved(net', net, c, up, dn) /\ Told(net[c].down, dn, {"INPUT_ACK"})
                  /\ \/ dn = net[c].down
                     \/ dn = Append(net[c].down, Control("INPUT_ACK", Minus(web.in_seq, 1)))
    BY <1>1, <1>5, DuplicateFields, Zenon
  <2>3. Linked'
    BY <1>1, <1>5, <2>1, <2>2, TakeLinks, Zenon
  <2>4. ASSUME Steady, Live(c) PROVE InTalk(web', page'[c], up, dn, hist')
    <3> DEFINE a == Control("INPUT_ACK", Minus(web.in_seq, 1))
    <3>1. InTalk(web, page[c], net[c].up, net[c].down, hist)
      BY <1>2, <2>4, Zenon DEF InputTalks
    <3>2. SameInput(web, web)
      BY Zenon DEF SameInput
    <3>3. InTalk(web, page[c], up, net[c].down, hist)
      BY <1>1, <1>2, <3>1, <3>2, PopTalks, Zenon
    <3>4. a \in Messages /\ a.type = "INPUT_ACK" /\ a.seq = Minus(web.in_seq, 1)
      <4>1. web.in_seq \in Int /\ 1 \in Int
        BY WebFacts DEF InputInv, RoomInv
      <4>2. Minus(web.in_seq, 1) \in Int
        BY <4>1, Numbers, Zenon
      <4>3. QED
        BY <4>2, AckMessage, Zenon
    <3> HIDE DEF a
    <3>5. InTalk(web', page[c], up, net[c].down, hist) /\ InTalk(web', page[c], up, Append(net[c].down, a), hist)
      BY <1>2, <2>1, <3>3, <3>4, SendTalks, Zenon
    <3>6. QED
      BY <1>1, <1>5, <2>2, <3>5, Zenon DEF a
  <2>5. InputTalks'
    BY <1>2, <2>1, <2>2, <2>4, TalkMoved, Zenon
  <2>6. QED
    BY <1>2, <1>5, <2>1, <2>2, <2>3, <2>5, Zenon DEF InputKept
<1>6. QED
  BY <1>1, <1>4, <1>5, Zenon

-----------------------------------------------------------------------------
(* The poll, from the events to the output.                                 *)

(* A step that concerns neither the input nor a channel.                    *)
LEMMA QuietStep ==
  ASSUME InputInv, SameFlags(web', web), SameInput(web', web), web'.ready = web.ready,
         SameOutput(web', web) \/ term.browser, UNCHANGED <<setup, net, page>>,
         term'.browser = term.browser, hist' \in History,
         hist'.entered = hist.entered, hist'.typed = hist.typed,
         \/ pc' = pc \/ pc' \in {"idle", "pop", "usb"}
         \/ pc = "heartbeat" /\ pc' = "stage" /\ web'.ready
  PROVE  InputKept
<1>1. Linked /\ InputTalks
  BY Zenon DEF InputInv
<1>2. \A c \in Conns : ConnGood(web.active, web.connected, net'[c], page'[c], c)
  BY <1>1, ConnsSame, Zenon
<1>3. Linked'
  BY <1>1, <1>2, LinkKept, Zenon
<1>4. InputTalks'
  BY <1>1, TalkSame, Zenon
<1>5. QED
  BY <1>3, <1>4, Zenon DEF InputKept

(* A step that sends the browser a message that fits, or drops it.          *)
LEMMA TellTalks ==
  ASSUME InputInv, NEW c \in Conns, web.active = c, Steady, SameFlags(web', web),
         SameInput(web', web), web'.ready = web.ready, SameOutput(web', web),
         UNCHANGED <<setup, page, term, hist>>,
         NEW m \in Messages, web.ready \/ m.type \in {"HELLO", "INPUT_ACK"},
         m.type = "INPUT_ACK" => m.seq = Minus(web.in_seq, 1),
         net' = net \/ net' = Send(net, c, m),
         \/ pc' = pc \/ pc' \in {"idle", "pop", "usb"}
         \/ pc = "heartbeat" /\ pc' = "stage" /\ web'.ready
  PROVE  /\ InputKept
         /\ \E dn : /\ Moved(net', net, c, net[c].up, dn)
                    /\ dn = net[c].down \/ dn = Append(net[c].down, m)
<1>1. Linked /\ InputTalks /\ NetGood(net) /\ hist \in History
  BY Zenon DEF InputInv, RoomInv
<1>2. PICK dn : /\ Moved(net', net, c, net[c].up, dn)
                /\ dn = net[c].down \/ dn = Append(net[c].down, m)
  <2>1. Moved(net, net, c, net[c].up, net[c].down)
    BY Zenon DEF Moved
  <2>2. QED
    BY <1>1, <2>1, SendFields, Zenon
<1>3. /\ net[c].state # "new" /\ ~web.connected
      /\ net[c].state = "raw" => \A j \in DOMAIN net[c].up : net[c].up[j].type # "OUTPUT_ACK"
  BY <1>1, OwnerFacts, Zenon DEF Steady
<1>4. \A b \in Conns : ConnGood(web.active, web.connected, net'[b], page'[b], b)
  BY <1>1, <1>2, <1>3, ConnsMoved, Zenon
<1>5. Linked'
  BY <1>1, <1>4, LinkKept, Zenon
<1>6. ASSUME Live(c) PROVE InTalk(web', page'[c], net[c].up, dn, hist')
  <2>1. InTalk(web, page[c], net[c].up, net[c].down, hist)
    BY <1>1, <1>6, Zenon DEF InputTalks
  <2>2. net[c].down \in Seq(Messages)
    BY <1>1, ChannelFacts, Zenon
  <2>3. /\ InTalk(web', page[c], net[c].up, net[c].down, hist)
        /\ InTalk(web', page[c], net[c].up, Append(net[c].down, m), hist)
    BY <2>1, <2>2, SendTalks, Zenon
  <2>4. QED
    BY <1>2, <2>3, Zenon
<1>7. InputTalks'
  BY <1>2, <1>6, TalkMoved, Zenon
<1>8. QED
  BY <1>1, <1>2, <1>5, <1>7, Zenon DEF InputKept

(* The poll has a session.                                                  *)
LEMMA PollFacts ==
  ASSUME InputInv, pc \in {"heartbeat", "stage"}
  PROVE  /\ Steady /\ web.active \in Conns /\ term.browser
         /\ pc = "stage" => web.ready
<1>1. FlagsGood(web, term, pc, setup.network) /\ web.active \in Conns \cup {None}
  BY WebFacts, Zenon DEF InputInv, Linked, RoomInv
<1>2. QED
  BY <1>1, Zenon DEF FlagsGood, Steady

LEMMA PollInputTalks ==
  ASSUME InputInv, PollInput
  PROVE  /\ InputKept
         /\ \/ process_events /\ net' = net
            \/ /\ ~web.connected /\ ~web.disconnected
               /\ SameFlags(web', web) /\ SameOutput(web', web)
               /\ term'.browser = term.browser /\ term'.tx = term.tx /\ term'.tx_pending = term.tx_pending
               /\ hist'.written = hist.written /\ hist'.shown = hist.shown
               /\ \/ web.active \in Conns /\ web'.ready = web.ready
                     /\ \E dn : /\ Moved(net', net, web.active, net[web.active].up, dn)
                                /\ Told(net[web.active].down, dn, {"INPUT_ACK"})
                  \/ web.active = None /\ net' = net
<1>1. /\ UNCHANGED <<setup, page, peeked, z80>> /\ pc = "pop"
      /\ pc' = IF web.active = None THEN "idle" ELSE "heartbeat"
  BY Zenon DEF PollInput
<1>2. /\ Linked /\ InputTalks /\ NetGood(net) /\ hist \in History /\ WebGood(web) /\ TermGood(term)
      /\ web.active \in Conns \cup {None}
  BY WebFacts, Zenon DEF InputInv, RoomInv
<1>3. CASE web.connected \/ web.disconnected
  <2>1. process_events /\ net' = net
    BY <1>3, Zenon DEF PollInput
  <2>2. pc' \in {"idle", "pop"} \/ (pc' = "heartbeat" /\ web.active # None)
    BY <1>1
  <2>3. QED
    BY <1>1, <2>1, <2>2, EventsTalk, Zenon
<1>4. CASE ~web.connected /\ ~web.disconnected
  <2>1. Accept(web, net) /\ SameFlags(web, web) /\ SameOutput(web, web)
    BY <1>4, Zenon DEF PollInput, SameFlags, SameOutput
  <2>2. CASE web.active = None
    <3>1. /\ SameFlags(web', web) /\ SameOutput(web', web) /\ web'.ready = web.ready
          /\ hist' \in History /\ net' = net
          /\ term'.browser = term.browser /\ term'.tx = term.tx /\ term'.tx_pending = term.tx_pending
          /\ hist'.written = hist.written /\ hist'.shown = hist.shown
      BY <1>2, <2>1, <2>2, AcceptFields, Sizes, Zenon DEF Taken
    <3>2. \A c \in Conns : ConnGood(web.active, web.connected, net'[c], page'[c], c)
      BY <1>1, <1>2, <3>1, ConnsSame, Zenon
    <3>3. pc' \in {"idle", "pop", "usb"}
      BY <1>1, <2>2
    <3>4. Linked'
      BY <1>1, <1>2, <3>1, <3>2, <3>3, LinkKept, Zenon
    <3>5. InputTalks'
      BY <2>2, <3>1, TalkEnds, Zenon DEF Steady, SameFlags
    <3>6. QED
      BY <1>4, <2>2, <3>1, <3>4, <3>5, Zenon DEF InputKept
  <2>3. CASE web.active \in Conns
    <3> DEFINE c == web.active
    <3>1. Moved(net, net, c, net[c].up, net[c].down) /\ c # None
      BY <2>3, Sizes, Zenon DEF Moved
    <3>2. Steady /\ pc' = "heartbeat"
      BY <1>1, <1>4, <3>1, Zenon DEF Steady
    <3>3. Live(c) => InTalk(web, page[c], net[c].up, net[c].down, hist)
      BY <1>2, <3>2, Zenon DEF InputTalks
    <3>4. /\ SameFlags(web', web) /\ SameOutput(web', web) /\ web'.ready = web.ready
          /\ InputTalks' /\ hist' \in History
          /\ \E dn : Moved(net', net, c, net[c].up, dn) /\ Told(net[c].down, dn, {"INPUT_ACK"})
          /\ term'.browser = term.browser /\ term'.tx = term.tx /\ term'.tx_pending = term.tx_pending
          /\ hist'.written = hist.written /\ hist'.shown = hist.shown
      BY <1>1, <1>2, <2>1, <2>3, <3>1, <3>3, AcceptTalks, Zenon
    <3>5. PICK dn : Moved(net', net, c, net[c].up, dn) /\ Told(net[c].down, dn, {"INPUT_ACK"})
      BY <3>4, Zenon
    <3>6. /\ net[c].state # "new"
          /\ net[c].state = "raw" => \A j \in DOMAIN net[c].up : net[c].up[j].type # "OUTPUT_ACK"
      BY <1>2, <2>3, OwnerFacts, Zenon
    <3>7. \A b \in Conns : ConnGood(web.active, web.connected, net'[b], page'[b], b)
      BY <1>1, <1>2, <1>4, <2>3, <3>5, <3>6, ConnsMoved, Zenon
    <3>8. Linked'
      BY <1>1, <1>2, <3>2, <3>4, <3>7, LinkKept, Zenon
    <3>9. QED
      BY <1>4, <2>3, <3>4, <3>5, <3>8, Zenon DEF InputKept
  <2>4. QED
    BY <1>2, <2>2, <2>3, Zenon
<1>5. QED
  BY <1>3, <1>4, Zenon

LEMMA EndingsTalk ==
  ASSUME InputInv,
         PollOffline \/ AckTimeout \/ SendError \/ (\E c \in Conns : OnInvalid(c))
  PROVE  InputKept
<1>1. disconnect_client /\ setup' = setup
  BY Zenon DEF PollOffline, AckTimeout, SendError, OnInvalid
<1>2. QED
  BY <1>1, DisconnectTalks, Zenon

LEMMA MissFields ==
  ASSUME WebGood(web)
  PROVE  LET v == AfterMiss(web)
         IN  SameFlags(v, web) /\ SameInput(v, web) /\ SameOutput(v, web) /\ v.ready = web.ready
<1>1. DOMAIN web = WebFields
  BY WebFacts, Zenon
<1>2. QED
  BY <1>1, ZenonT(60) DEF AfterMiss, WebFields, SameFlags, SameInput, SameOutput

LEMMA PongTimeoutTalks ==
  ASSUME InputInv, PongTimeout
  PROVE  /\ InputKept
         /\ \/ disconnect_client
            \/ /\ SameFlags(web', web) /\ SameInput(web', web) /\ SameOutput(web', web)
               /\ web'.ready = web.ready /\ UNCHANGED <<net, page, term, hist, pc>>
<1>1. setup' = setup /\ WebGood(web) /\ hist \in History
  BY Zenon DEF PongTimeout, InputInv, RoomInv
<1>2. \/ disconnect_client
      \/ web' = AfterMiss(web) /\ UNCHANGED <<net, page, term, hist, pc>>
  BY Zenon DEF PongTimeout
<1>3. CASE disconnect_client
  BY <1>1, <1>3, DisconnectTalks, Zenon
<1>4. CASE web' = AfterMiss(web) /\ UNCHANGED <<net, page, term, hist, pc>>
  <2>1. SameFlags(web', web) /\ SameInput(web', web) /\ SameOutput(web', web) /\ web'.ready = web.ready
    BY <1>1, <1>4, MissFields, Zenon
  <2>2. QED
    BY <1>1, <1>4, <2>1, QuietStep, Zenon
<1>5. QED
  BY <1>2, <1>3, <1>4

LEMMA PingTalks ==
  ASSUME InputInv, Ping
  PROVE  /\ InputKept /\ web.active \in Conns
         /\ SameFlags(web', web) /\ SameInput(web', web) /\ SameOutput(web', web)
         /\ web'.ready = web.ready /\ UNCHANGED <<setup, page, term, hist>>
         /\ \E dn : /\ Moved(net', net, web.active, net[web.active].up, dn)
                    /\ Told(net[web.active].down, dn, {"PING"})
<1> DEFINE seq == (web.ping_seq + 1) % PingModulus
           m == Control("PING", seq)
           c == web.active
           v == [web EXCEPT !.ping_seq = seq, !.awaiting = TRUE, !.activity = FALSE]
           u == [web EXCEPT !.ping_seq = seq]
<1>1. /\ UNCHANGED <<setup, term, page, peeked, z80, hist>> /\ pc = "heartbeat" /\ pc' = "stage"
      /\ web.ready /\ (web' = v \/ web' = u) /\ net' = Send(net, c, m)
  BY Zenon DEF Ping
<1>2. Steady /\ c \in Conns
  <2>1. pc \in {"heartbeat", "stage"}
    BY <1>1
  <2>2. QED
    BY <2>1, PollFacts, Zenon
<1>3. DOMAIN web = WebFields /\ web.ping_seq \in Int
  BY WebFacts, Zenon DEF InputInv, RoomInv
<1>4. seq \in Int
  BY <1>3, Numbers, Zenon
<1>5. m \in Messages /\ m.type = "PING" /\ m.data = <<>>
  <2>1. "PING" \in Types
    BY DEF Types
  <2>2. QED
    BY <1>4, <2>1, ControlIsMessage, Zenon DEF Control, Message
<1>6. m.type # "INPUT_ACK" /\ m.type \in {"PING"}
  BY <1>5
<1> HIDE DEF m, seq
<1>7. /\ SameFlags(v, web) /\ SameInput(v, web) /\ SameOutput(v, web) /\ v.ready = web.ready
      /\ SameFlags(u, web) /\ SameInput(u, web) /\ SameOutput(u, web) /\ u.ready = web.ready
  BY <1>3, ZenonT(60) DEF WebFields, SameFlags, SameInput, SameOutput
<1> HIDE DEF u, v
<1>8. SameFlags(web', web) /\ SameInput(web', web) /\ SameOutput(web', web) /\ web'.ready = web.ready
  BY <1>1, <1>7, Zenon
<1>9. /\ InputKept
      /\ \E dn : /\ Moved(net', net, c, net[c].up, dn)
                 /\ dn = net[c].down \/ dn = Append(net[c].down, m)
  BY <1>1, <1>2, <1>5, <1>6, <1>8, TellTalks, Zenon
<1>10. QED
  BY <1>1, <1>2, <1>5, <1>6, <1>8, <1>9, Zenon DEF Told

LEMMA NoPingTalks ==
  ASSUME InputInv, NoPing
  PROVE  /\ InputKept /\ web.active \in Conns /\ UNCHANGED <<setup, web, page, term, hist>>
         /\ \E dn : /\ Moved(net', net, web.active, net[web.active].up, dn)
                    /\ Told(net[web.active].down, dn, {"HELLO"})
<1> DEFINE m == Control("HELLO", 0)
           c == web.active
<1>1. /\ UNCHANGED <<setup, term, web, page, peeked, z80, hist>> /\ pc = "heartbeat"
      /\ pc' = IF web.ready THEN "stage" ELSE "idle"
      /\ net' = net \/ net' = Send(net, c, m)
  BY Zenon DEF NoPing
<1>2. Steady /\ c \in Conns
  <2>1. pc \in {"heartbeat", "stage"}
    BY <1>1
  <2>2. QED
    BY <2>1, PollFacts, Zenon
<1>3. m \in Messages /\ m.type = "HELLO" /\ m.data = <<>>
  <2>1. "HELLO" \in Types /\ 0 \in Int
    BY DEF Types
  <2>2. QED
    BY <2>1, ControlIsMessage, Zenon DEF Control, Message
<1>4. m.type \in {"HELLO", "INPUT_ACK"} /\ m.type # "INPUT_ACK" /\ m.type \in {"HELLO"}
  BY <1>3
<1> HIDE DEF m
<1>5. SameFlags(web', web) /\ SameInput(web', web) /\ SameOutput(web', web) /\ web'.ready = web.ready
  BY <1>1, Zenon DEF SameFlags, SameInput, SameOutput
<1>6. pc' \in {"idle", "pop", "usb"} \/ (pc = "heartbeat" /\ pc' = "stage" /\ web'.ready)
  BY <1>1
<1>7. /\ InputKept
      /\ \E dn : /\ Moved(net', net, c, net[c].up, dn)
                 /\ dn = net[c].down \/ dn = Append(net[c].down, m)
  BY <1>1, <1>2, <1>3, <1>4, <1>5, <1>6, TellTalks, Zenon
<1>8. QED
  BY <1>1, <1>2, <1>3, <1>4, <1>7, Zenon DEF Told

(* What a supply leaves of the rings.                                       *)
LEMMA SupplyFields ==
  ASSUME NEW t, TermGood(t), NEW n
  PROVE  /\ supply(t, n).browser = t.browser
         /\ supply(t, n) = t \/
              (t.tx_pending /\ supply(t, n).tx = Rest(t.tx, n) /\
               (supply(t, n).tx_pending <=> supply(t, n).tx # <<>>))
<1> DEFINE left == Rest(t.tx, n)
           more == left # <<>>
           u == [t EXCEPT !.tx = left, !.tx_pending = more]
<1>1. DOMAIN t = {"rx", "tx", "tx_pending", "client", "browser", "usb"}
  BY TermFacts DEF Rings
<1>2. supply(t, n) = IF t.tx_pending THEN u ELSE t
  BY DEF supply
<1> HIDE DEF left, more
<1>3. u.browser = t.browser /\ u.tx = left /\ u.tx_pending = more
  BY <1>1, ZenonT(60)
<1> HIDE DEF u
<1>4. QED
  BY <1>2, <1>3, Zenon DEF left, more

LEMMA StageFields ==
  ASSUME InputInv, Stage
  PROVE  /\ SameFlags(web', web) /\ SameInput(web', web) /\ web'.ready = web.ready
         /\ web'.window = Append(web.window, [seq |-> web.out_seq, data |-> Staged, sent |-> FALSE])
         /\ web'.out_seq = Next1(web.out_seq) /\ web'.staged = <<>> /\ term' = Supplied
         /\ UNCHANGED <<setup, net, page, pc, hist>> /\ term'.browser = term.browser
         /\ pc = "stage" /\ Len(web.window) < OUTPUT_WINDOW /\ Staged # <<>>
<1> DEFINE ws == Append(web.window, [seq |-> web.out_seq, data |-> Staged, sent |-> FALSE])
<1>1. DOMAIN web = WebFields /\ TermGood(term)
  BY WebFacts, Zenon DEF InputInv, RoomInv
<1>2. web' = [web EXCEPT !.window = ws, !.out_seq = Next1(web.out_seq), !.staged = <<>>]
  BY <1>1, Zenon DEF Stage, WebFields
<1> HIDE DEF ws
<1>3. /\ SameFlags(web', web) /\ SameInput(web', web) /\ web'.ready = web.ready
      /\ web'.window = ws /\ web'.out_seq = Next1(web.out_seq) /\ web'.staged = <<>>
  BY <1>1, <1>2, ZenonT(60) DEF WebFields, SameFlags, SameInput
<1>4. term' = Supplied /\ term'.browser = term.browser
  BY <1>1, SupplyFields, Zenon DEF Stage, Supplied
<1>5. QED
  BY <1>3, <1>4, Zenon DEF Stage, ws

LEMMA StageTalks ==
  ASSUME InputInv, Stage
  PROVE  InputKept
<1>1. /\ SameFlags(web', web) /\ SameInput(web', web) /\ web'.ready = web.ready
      /\ UNCHANGED <<setup, net, page, pc, hist>> /\ term'.browser = term.browser /\ pc = "stage"
  BY StageFields, Zenon
<1>2. pc \in {"heartbeat", "stage"}
  BY <1>1
<1>3. term.browser /\ hist \in History
  BY <1>2, PollFacts, Zenon DEF InputInv
<1>4. QED
  BY <1>1, <1>3, QuietStep, Zenon

(* The frames sent join what is on the way down.                            *)
LEMMA SendFramesFields ==
  ASSUME InputInv, NEW due, SendFrames(due)
  PROVE  LET all == Unsent(web, due)
             now == First(all, ChannelDepth - Len(net[web.active].down))
             full == Len(web.window) = OUTPUT_WINDOW
             ms == [k \in DOMAIN now |->
                      Message("OUTPUT", web.window[now[k]].seq, web.window[now[k]].data)]
         IN  /\ SameFlags(web', web) /\ SameInput(web', web) /\ web'.ready = web.ready
             /\ web'.window = Marked(web.window, Range(now)) /\ web'.out_seq = web.out_seq
             /\ IF full THEN term' = term /\ web'.staged = web.staged
                        ELSE term' = Supplied /\ web'.staged = Staged
             /\ term'.browser = term.browser /\ pc = "stage" /\ pc' = "idle"
             /\ UNCHANGED <<setup, page, hist>>
             /\ web.active \in Conns
             /\ Moved(net', net, web.active, net[web.active].up, net[web.active].down \o ms)
             /\ ms \in Seq(Messages) /\ now \in Seq(1 .. Len(web.window))
             /\ all \in Seq(1 .. Len(web.window))
             /\ ChannelDepth - Len(net[web.active].down) \in Nat
<1> DEFINE c == web.active
           ws == web.window
           all == Unsent(web, due)
           room == ChannelDepth - Len(net[c].down)
           now == First(all, room)
           full == Len(ws) = OUTPUT_WINDOW
           ms == [k \in DOMAIN now |-> Message("OUTPUT", ws[now[k]].seq, ws[now[k]].data)]
           vs == Marked(ws, Range(now))
           st == IF full THEN web.staged ELSE Staged
           down == net[c].down \o ms
           ch == [net[c] EXCEPT !.down = down]
<1>1. /\ WebGood(web) /\ NetGood(net) /\ DOMAIN web = WebFields /\ TermGood(term)
      /\ ws \in Seq(Frames)
  BY WebFacts, Zenon DEF InputInv, RoomInv
<1>2. pc = "stage" /\ pc' = "idle" /\ UNCHANGED <<setup, page, hist>>
  BY Zenon DEF SendFrames
<1>3. c \in Conns
  <2>1. pc \in {"heartbeat", "stage"}
    BY <1>2
  <2>2. QED
    BY <2>1, PollFacts, Zenon
<1>4. /\ net[c].down \in Seq(Messages) /\ Len(net[c].down) \in Nat /\ Len(net[c].down) <= ChannelDepth
      /\ DOMAIN net[c] = {"state", "up", "down"} /\ DOMAIN net = Conns
  BY <1>1, <1>3, ChannelFacts, Zenon DEF NetGood
<1>5. room \in Nat
  BY <1>4, Sizes
<1>6. net' = [net EXCEPT ![c].down = down]
  BY DEF SendFrames
<1>7. web' = [web EXCEPT !.staged = st, !.window = vs]
  BY <1>1, ZenonT(60) DEF SendFrames, WebFields, Marked
<1>8. term' = IF full THEN term ELSE Supplied
  BY Zenon DEF SendFrames
<1>9. term'.browser = term.browser
  BY <1>1, <1>8, SupplyFields, Zenon DEF Supplied
<1>10. all \in Seq(1 .. Len(ws))
  BY <1>1, UnsentFacts, Zenon
<1>11. now \in Seq(1 .. Len(ws))
  <2> HIDE DEF all, room
  <2>1. QED
    BY <1>5, <1>10, FirstFacts
<1> HIDE DEF now
<1>12. ms \in Seq(Messages)
  BY <1>1, <1>11, SentMessages
<1> HIDE DEF vs, down, ms, st
<1>13. /\ SameFlags(web', web) /\ SameInput(web', web) /\ web'.ready = web.ready
       /\ web'.window = vs /\ web'.staged = st /\ web'.out_seq = web.out_seq
  BY <1>1, <1>7, ZenonT(60) DEF WebFields, SameFlags, SameInput
<1>14. Moved(net', net, c, net[c].up, down)
  <2>1. net' = [net EXCEPT ![c] = ch]
    BY <1>4, <1>6
  <2>2. ch.state = net[c].state /\ ch.up = net[c].up /\ ch.down = down
    BY <1>4, ZenonT(60)
  <2> HIDE DEF ch
  <2>3. QED
    BY <1>3, <1>4, <2>1, <2>2, Zenon DEF Moved
<1>15. IF full THEN term' = term /\ web'.staged = web.staged
               ELSE term' = Supplied /\ web'.staged = Staged
  BY <1>8, <1>13, Zenon DEF st
<1>16. QED
  BY <1>2, <1>3, <1>5, <1>9, <1>10, <1>11, <1>12, <1>13, <1>14, <1>15, Zenon DEF now, ms, vs, down

LEMMA ManyTalks ==
  ASSUME NEW w, NEW p, NEW up, NEW dn \in Seq(Messages), NEW h, InTalk(w, p, up, dn, h), w.ready,
         NEW v, v.ready = w.ready, SameInput(v, w), NEW ms \in Seq(Messages),
         \A k \in DOMAIN ms : ms[k].type = "OUTPUT"
  PROVE  InTalk(v, p, up, dn \o ms, h)
<1> DEFINE t == dn \o ms
<1>1. /\ Len(dn) \in Nat /\ Len(ms) \in Nat /\ DOMAIN t = 1 .. Len(dn) + Len(ms)
      /\ DOMAIN dn = 1 .. Len(dn) /\ DOMAIN ms = 1 .. Len(ms)
      /\ \A i \in 1 .. Len(dn) : t[i] = dn[i]
      /\ \A i \in 1 .. Len(ms) : t[Len(dn) + i] = ms[i]
  BY JoinAt
<1> HIDE DEF t
<1>2. ASSUME NEW j \in DOMAIN t, t[j].type = "INPUT_ACK"
      PROVE  /\ j \in DOMAIN dn /\ t[j] = dn[j]
             /\ \A i \in 1 .. j - 1 : i \in DOMAIN dn /\ t[i] = dn[i]
  <2>1. CASE j > Len(dn)
    <3>1. j - Len(dn) \in 1 .. Len(ms) /\ Len(dn) + (j - Len(dn)) = j
      BY <1>1, <2>1
    <3>2. t[j].type = "OUTPUT"
      BY <1>1, <3>1
    <3>3. QED
      BY <1>2, <3>2
  <2>2. CASE j <= Len(dn)
    BY <1>1, <2>2
  <2>3. QED
    BY <1>1, <2>1, <2>2
<1>3. DownAcks(w.in_seq, p.in_seq, dn) /\ Hand(w.ready, p, up, dn)
  BY Zenon DEF InTalk
<1>4. DownAcks(w.in_seq, p.in_seq, t)
  <2> SUFFICES ASSUME NEW j \in DOMAIN t, t[j].type = "INPUT_ACK"
               PROVE  /\ t[j].seq \in Sequence
                      /\ Minus(p.in_seq, t[j].seq) \in {0, 1}
                      /\ Minus(p.in_seq, t[j].seq) = 0 => Minus(w.in_seq, p.in_seq) = 1
                      /\ \A i \in 1 .. j - 1 :
                           t[i].type = "INPUT_ACK" /\ Minus(p.in_seq, t[i].seq) = 0
                             => Minus(p.in_seq, t[j].seq) = 0
    BY Zenon DEF DownAcks
  <2>1. QED
    BY <1>2, <1>3, Zenon DEF DownAcks
<1>5. Hand(v.ready, p, up, t)
  BY <1>3, Zenon DEF Hand
<1>6. QED
  BY <1>4, <1>5, Zenon DEF InTalk, SameInput, t

LEMMA SendFramesTalk ==
  ASSUME InputInv, NEW due, SendFrames(due)
  PROVE  InputKept
<1> DEFINE c == web.active
           now == First(Unsent(web, due), ChannelDepth - Len(net[web.active].down))
           ms == [k \in DOMAIN now |->
                    Message("OUTPUT", web.window[now[k]].seq, web.window[now[k]].data)]
           down == net[c].down \o ms
<1>1. /\ SameFlags(web', web) /\ SameInput(web', web) /\ web'.ready = web.ready
      /\ term'.browser = term.browser /\ pc = "stage" /\ pc' = "idle" /\ UNCHANGED <<setup, page, hist>>
      /\ c \in Conns /\ Moved(net', net, c, net[c].up, down) /\ ms \in Seq(Messages)
  BY SendFramesFields, Zenon
<1>2. \A k \in DOMAIN ms : ms[k].type = "OUTPUT"
  BY DEF Message
<1> HIDE DEF ms
<1>3. pc \in {"heartbeat", "stage"} /\ pc' \in {"idle", "pop", "usb"}
  BY <1>1
<1>4. Steady /\ web.ready /\ term.browser
  BY <1>1, <1>3, PollFacts, Zenon
<1>5. Linked /\ InputTalks /\ NetGood(net) /\ hist \in History
  BY Zenon DEF InputInv, RoomInv
<1>6. /\ net[c].state # "new" /\ ~web.connected
      /\ net[c].state = "raw" => \A j \in DOMAIN net[c].up : net[c].up[j].type # "OUTPUT_ACK"
  BY <1>1, <1>4, <1>5, OwnerFacts, Zenon DEF Steady
<1>7. \A b \in Conns : ConnGood(web.active, web.connected, net'[b], page'[b], b)
  BY <1>1, <1>5, <1>6, ConnsMoved, Zenon
<1>8. Linked'
  BY <1>1, <1>3, <1>4, <1>5, <1>7, LinkKept, Zenon
<1>9. ASSUME Live(c) PROVE InTalk(web', page'[c], net[c].up, down, hist')
  <2>1. InTalk(web, page[c], net[c].up, net[c].down, hist)
    BY <1>4, <1>5, <1>9, Zenon DEF InputTalks
  <2>2. net[c].down \in Seq(Messages)
    BY <1>1, <1>5, ChannelFacts, Zenon
  <2>3. QED
    BY <1>1, <1>2, <1>4, <2>1, <2>2, ManyTalks, Zenon
<1> HIDE DEF down
<1>10. InputTalks'
  BY <1>1, <1>9, TalkMoved, Zenon
<1>11. QED
  BY <1>1, <1>5, <1>8, <1>10, Zenon DEF InputKept

-----------------------------------------------------------------------------
(* The page, with the step it takes in a session under way.                 *)

LEMMA PageTalks ==
  ASSUME InputInv, NEW c \in Conns, Live(c), Steady, NEW q, NEW down, NEW answers,
         PageStep(c, q, down, answers), hist' \in History,
         InTalk(web, page[c], net[c].up, net[c].down, hist) =>
           InTalk(web, q, net[c].up \o answers, down, hist')
  PROVE  InputKept /\ InTalk(web, page[c], net[c].up, net[c].down, hist)
<1>1. Linked /\ InputTalks /\ RoomInv
  BY Zenon DEF InputInv
<1>2. web.active = c /\ net[c].state = "open"
  BY <1>1, LiveFacts, Zenon
<1>3. /\ Moved(net', net, c, net[c].up \o answers, down)
      /\ page'[c] = q /\ \A b \in Conns : b # c => page'[b] = page[b]
      /\ UNCHANGED <<setup, term, web, pc, peeked>>
  BY <1>1, PageStepFields, Zenon
<1>4. "open" # "new" /\ "open" # "raw"
  OBVIOUS
<1> DEFINE up == net[c].up \o answers
<1> HIDE DEF up
<1>5. \A b \in Conns : ConnGood(web.active, web.connected, net'[b], page'[b], b)
  BY <1>1, <1>2, <1>3, <1>4, ConnsMoved, Zenon DEF Steady, up
<1>6. SameFlags(web', web) /\ SameOutput(web', web)
  BY <1>3, Zenon DEF SameFlags, SameOutput
<1>7. Linked'
  BY <1>1, <1>3, <1>5, <1>6, LinkKept, Zenon
<1>8. InTalk(web, page[c], net[c].up, net[c].down, hist)
  BY <1>1, <1>2, Zenon DEF InputTalks
<1>9. InTalk(web', page'[c], up, down, hist')
  BY <1>3, <1>8, Zenon DEF up
<1>10. InputTalks'
  BY <1>2, <1>3, <1>6, <1>9, TalkMoved, Zenon DEF up
<1>11. QED
  BY <1>7, <1>8, <1>10, Zenon DEF InputKept

(* What a live page has, and that its session is under way.                 *)
LEMMA PageHas ==
  ASSUME InputInv, NEW c \in Conns, Live(c),
         page[c].ready \/ page[c].frame # <<>> \/ page[c].writes # <<>> \/ net[c].down # <<>>
  PROVE  /\ Steady /\ web.active = c /\ PageGood(page[c]) /\ net[c].up \in Seq(InputMessages)
         /\ net[c].down \in Seq(Messages) /\ hist \in History
         /\ InTalk(web, page[c], net[c].up, net[c].down, hist)
<1>1. ~ResetPage.ready /\ ResetPage.frame = <<>> /\ ResetPage.writes = <<>>
  BY DEF ResetPage
<1>2. Linked /\ NetGood(net) /\ PagesGood(page) /\ hist \in History /\ InputTalks
  BY Zenon DEF InputInv, RoomInv
<1>3. Steady /\ web.active = c
  BY <1>1, <1>2, LiveFacts, Zenon
<1>4. InTalk(web, page[c], net[c].up, net[c].down, hist)
  BY <1>2, <1>3, Zenon DEF InputTalks
<1>5. QED
  BY <1>2, <1>3, <1>4, ChannelFacts, Zenon DEF PagesGood

LEMMA PageTypeTalks ==
  ASSUME InputInv, NEW c \in Conns, PageType(c)
  PROVE  /\ InputKept /\ Steady /\ web.active = c
         /\ hist'.written = hist.written /\ hist'.shown = hist.shown
         /\ \E q, answers : /\ PageStep(c, q, net[c].down, answers) /\ answers \in Seq(InputMessages)
                            /\ SameWrites(page[c], q) /\ NoAcks(answers)
<1> DEFINE p == page[c]
           o == [p EXCEPT !.buffer = Append(@, z80.typed)]
           ty == Append(hist.typed, z80.typed)
           g == [hist EXCEPT !.typed = ty]
<1>1. /\ Live(c) /\ p.ready
      /\ \/ p.frame # <<>> /\ PageStep(c, o, net[c].down, <<>>)
         \/ PageStep(c, Pumped(o), net[c].down, Pump(o))
  <2>1. DOMAIN p = PageFields
    BY PageFacts, Zenon DEF InputInv, RoomInv, PagesGood
  <2> DEFINE buf == Append(p.buffer, z80.typed)
  <2>2. o = [p EXCEPT !.buffer = buf]
    BY <2>1, Zenon DEF PageFields
  <2> HIDE DEF buf
  <2>3. o.frame = p.frame
    BY <2>1, <2>2, ZenonT(60) DEF PageFields
  <2>4. QED
    BY <2>3, Zenon DEF PageType
<1>2. /\ Steady /\ web.active = c /\ PageGood(p) /\ net[c].up \in Seq(InputMessages)
      /\ net[c].down \in Seq(Messages) /\ hist \in History
      /\ InTalk(web, p, net[c].up, net[c].down, hist)
  BY <1>1, PageHas, Zenon
<1>3. z80.typed \in Byte
  BY Zenon DEF InputInv, RoomInv, Z80Good, Byte
<1>4. hist' = g
  BY <1>2, Zenon DEF PageType, History
<1>5. ty \in Bytes
  BY <1>2, <1>3 DEF History, Bytes
<1>6. /\ g \in History /\ g.entered = hist.entered /\ g.typed = ty /\ g.written = hist.written
      /\ g.shown = hist.shown
  <2> HIDE DEF ty
  <2>1. QED
    BY <1>2, <1>5 DEF History
<1> HIDE DEF g
<1>7. /\ PageGood(o) /\ SameWrites(p, o)
      /\ p.frame # <<>> => InTalk(web, o, net[c].up \o <<>>, net[c].down, g)
      /\ InTalk(web, Pumped(o), net[c].up \o Pump(o), net[c].down, g)
  <2> DEFINE b == z80.typed
  <2>1. o = [p EXCEPT !.buffer = Append(p.buffer, b)]
    <3>1. DOMAIN p = PageFields
      BY <1>2, PageFacts, Zenon
    <3>2. QED
      BY <3>1, Zenon DEF PageFields
  <2>2. g.typed = Append(hist.typed, b) /\ b \in Byte /\ p.ready
    BY <1>1, <1>3, <1>6, Zenon
  <2> HIDE DEF o, p, b, ty
  <2> DEFINE up == net[c].up
             dn == net[c].down
  <2>3. up \in Seq(InputMessages) /\ InTalk(web, p, up, dn, hist) /\ PageGood(p) /\ g.entered = hist.entered
    BY <1>2, <1>6, Zenon
  <2> HIDE DEF up, dn
  <2>4. /\ PageGood(o) /\ SameWrites(p, o)
        /\ p.frame # <<>> => InTalk(web, o, up \o <<>>, dn, g)
        /\ InTalk(web, Pumped(o), up \o Pump(o), dn, g)
    BY <2>1, <2>2, <2>3, TypeTalks, ZenonT(60)
  <2>5. QED
    BY <2>4, Zenon DEF up, dn
<1> HIDE DEF o
<1>8. CASE p.frame # <<>> /\ PageStep(c, o, net[c].down, <<>>)
  <2>1. InputKept
    BY <1>1, <1>2, <1>4, <1>6, <1>7, <1>8, PageTalks, Zenon
  <2>2. <<>> \in Seq(InputMessages) /\ NoAcks(<<>>)
    BY DEF NoAcks
  <2>3. QED
    BY <1>2, <1>4, <1>6, <1>7, <1>8, <2>1, <2>2, Zenon
<1>9. CASE PageStep(c, Pumped(o), net[c].down, Pump(o))
  <2>1. InputKept
    BY <1>1, <1>2, <1>4, <1>6, <1>7, <1>9, PageTalks, Zenon
  <2>2. Pump(o) \in Seq(InputMessages) /\ NoAcks(Pump(o)) /\ SameWrites(o, Pumped(o))
    BY <1>7, PumpedPage, Zenon
  <2>3. SameWrites(p, Pumped(o))
    BY <1>7, <2>2, Zenon DEF SameWrites
  <2>4. QED
    BY <1>2, <1>4, <1>6, <1>9, <2>1, <2>2, <2>3, Zenon
<1>10. QED
  BY <1>1, <1>8, <1>9, Zenon

LEMMA PageRetryTalks ==
  ASSUME InputInv, NEW c \in Conns, PageRetry(c)
  PROVE  /\ InputKept /\ Steady /\ web.active = c /\ hist' = hist
         /\ \E q, answers : /\ PageStep(c, q, net[c].down, answers) /\ answers \in Seq(InputMessages)
                            /\ SameWrites(page[c], q) /\ NoAcks(answers)
<1> DEFINE p == page[c]
<1>1. Live(c) /\ p.frame # <<>> /\ PageStep(c, p, net[c].down, Pump(p)) /\ hist' = hist
  BY Zenon DEF PageRetry
<1>2. /\ Steady /\ web.active = c /\ PageGood(p) /\ net[c].up \in Seq(InputMessages)
      /\ hist \in History /\ InTalk(web, p, net[c].up, net[c].down, hist)
  BY <1>1, PageHas, Zenon
<1> HIDE DEF p
<1>3. InTalk(web, p, net[c].up \o Pump(p), net[c].down, hist) /\ NoAcks(Pump(p))
  BY <1>1, <1>2, RetryTalks, Zenon
<1>4. InputKept
  BY <1>1, <1>2, <1>3, PageTalks, Zenon
<1>5. Pump(p) \in Seq(InputMessages)
  BY <1>2, PumpedPage, Zenon
<1>6. QED
  BY <1>1, <1>2, <1>3, <1>4, <1>5, Zenon DEF SameWrites, p

(* A message of the Pico, other than output, and the page's answer to it.   *)
LEMMA PageAnswerTalks ==
  ASSUME InputInv, NEW c \in Conns, PageReceive(c), Head(net[c].down).type # "OUTPUT"
  PROVE  /\ InputKept /\ Steady /\ web.active = c /\ hist' = hist
         /\ \E q, answers : /\ PageStep(c, q, Tail(net[c].down), answers)
                            /\ answers \in Seq(InputMessages)
                            /\ SameWrites(page[c], q) /\ NoAcks(answers)
<1> DEFINE p == page[c]
           m == Head(net[c].down)
<1>1. /\ Live(c) /\ net[c].down # <<>> /\ hist' = hist
      /\ \/ PageHello(c, p)
         \/ m.type = "PING" /\ PageStep(c, p, Tail(net[c].down), <<Control("PONG", m.seq)>>)
         \/ m.type = "INPUT_ACK" /\ PageInputAck(c, p, m)
  BY Zenon DEF PageReceive
<1>2. /\ Steady /\ web.active = c /\ PageGood(p) /\ net[c].up \in Seq(InputMessages)
      /\ net[c].down \in Seq(Messages) /\ hist \in History
      /\ InTalk(web, p, net[c].up, net[c].down, hist)
  BY <1>1, PageHas, Zenon
<1> DEFINE Done(q, answers) ==
             /\ PageStep(c, q, Tail(net[c].down), answers) /\ answers \in Seq(InputMessages)
             /\ SameWrites(p, q) /\ NoAcks(answers)
             /\ InTalk(web, q, net[c].up \o answers, Tail(net[c].down), hist)
<1>3. \E q, answers : Done(q, answers)
  <2>1. CASE PageHello(c, p)
    <3> HIDE DEF p
    <3>1. QED
      BY <1>1, <1>2, <2>1, HelloTalks, Zenon
  <2>2. CASE m.type = "PING" /\ PageStep(c, p, Tail(net[c].down), <<Control("PONG", m.seq)>>)
    <3> DEFINE a == Control("PONG", m.seq)
    <3>1. p.ready
      <4>1. m = net[c].down[1] /\ 1 \in DOMAIN net[c].down
        BY <1>1, <1>2, TailAt
      <4>2. ~p.ready => net[c].down[1].type \in {"HELLO", "INPUT_ACK"}
        BY <1>2, <4>1, Zenon DEF InTalk, Hand
      <4>3. m.type \notin {"HELLO", "INPUT_ACK"}
        BY <2>2
      <4>4. QED
        BY <4>1, <4>2, <4>3, Zenon
    <3>2. a \in InputMessages /\ a.type = "PONG"
      <4>1. m \in Messages
        BY <1>1, <1>2, TailFacts
      <4>2. m.seq \in Int /\ "PONG" \in Types
        BY <4>1, Zenon DEF Messages, Types
      <4>3. QED
        BY <4>2, ControlIsMessage, Zenon DEF Control, Message
    <3>3. a.type # "INPUT" /\ a.type # "OUTPUT_ACK"
      BY <3>2
    <3>4. PageStep(c, p, Tail(net[c].down), <<a>>)
      BY <2>2, Zenon
    <3> HIDE DEF a, p
    <3>5. InTalk(web, p, net[c].up \o <<a>>, Tail(net[c].down), hist)
      BY <1>1, <1>2, <3>1, <3>2, <3>3, OtherTalks, Zenon
    <3>6. <<a>> \in Seq(InputMessages) /\ NoAcks(<<a>>)
      BY <3>2, <3>3 DEF NoAcks
    <3>7. QED
      BY <3>4, <3>5, <3>6, Zenon DEF SameWrites
  <2>3. CASE m.type = "INPUT_ACK" /\ PageInputAck(c, p, m)
    <3> HIDE DEF p
    <3>1. QED
      BY <1>1, <1>2, <2>3, InputAckTalks, Zenon
  <2>4. QED
    BY <1>1, <2>1, <2>2, <2>3, Zenon
<1>4. PICK q, answers : Done(q, answers)
  BY <1>3, Zenon
<1>5. InputKept
  BY <1>1, <1>2, <1>4, PageTalks, Zenon
<1>6. QED
  BY <1>1, <1>2, <1>4, <1>5, Zenon

(* An output frame: new, or once more.                                      *)
LEMMA PageOutputTalks ==
  ASSUME InputInv, NEW c \in Conns, PageReceive(c), Head(net[c].down).type = "OUTPUT"
  PROVE  LET p == page[c]
             m == Head(net[c].down)
             late == Minus(p.out_seq, m.seq)
         IN  /\ InputKept /\ Steady /\ web.active = c /\ p.ready /\ hist'.written = hist.written
             /\ \E q, answers :
                  /\ PageStep(c, q, Tail(net[c].down), answers) /\ answers \in Seq(InputMessages)
                  /\ \/ /\ m.seq = p.received /\ answers = <<>> /\ q.received = Next1(p.received)
                        /\ q.writes = Append(p.writes, m) /\ q.out_seq = p.out_seq
                        /\ hist'.shown = hist.shown \o m.data
                     \/ /\ m.seq # p.received /\ SameWrites(p, q) /\ hist'.shown = hist.shown
                        /\ \/ answers = <<>>
                           \/ /\ late > 0 /\ late < SequenceModulus \div 2
                              /\ answers = <<Control("OUTPUT_ACK", Minus(p.out_seq, 1))>>
<1> DEFINE p == page[c]
           m == Head(net[c].down)
           late == Minus(p.out_seq, m.seq)
           ws == Append(p.writes, m)
           n == [p EXCEPT !.received = Next1(p.received), !.writes = ws]
           ack == Control("OUTPUT_ACK", Minus(p.out_seq, 1))
           sh == hist.shown \o m.data
           g == [hist EXCEPT !.shown = sh]
<1>1. Live(c) /\ net[c].down # <<>> /\ p.ready /\ PageOutput(c, p, m)
  BY Zenon DEF PageReceive
<1>2. /\ Steady /\ web.active = c /\ PageGood(p) /\ net[c].up \in Seq(InputMessages)
      /\ net[c].down \in Seq(Messages) /\ hist \in History
      /\ InTalk(web, p, net[c].up, net[c].down, hist)
  BY <1>1, PageHas, Zenon
<1>3. DOMAIN p = PageFields /\ p.writes \in Seq(Messages) /\ p.received \in Int
      /\ p.out_seq \in Int /\ 1 \in Int
  BY <1>2, PageFacts
<1>4. m \in Messages
  BY <1>1, <1>2, TailFacts
<1>5. hist' = IF m.seq = p.received THEN g ELSE hist
  <2>1. g = [hist EXCEPT !.shown = @ \o m.data]
    BY <1>2, Zenon DEF History
  <2>2. QED
    BY <1>2, <2>1, Zenon DEF PageReceive
<1>6. sh \in Bytes
  <2>1. hist.shown \in Bytes /\ m.data \in Bytes
    BY <1>2, <1>4, Zenon DEF History, Messages
  <2>2. QED
    BY <2>1, BytesJoined, Zenon
<1>7. /\ g \in History /\ g.entered = hist.entered /\ g.typed = hist.typed
      /\ g.written = hist.written /\ g.shown = sh
  <2> HIDE DEF sh
  <2>1. QED
    BY <1>2, <1>6 DEF History
<1> HIDE DEF g
<1>8. /\ hist' \in History /\ hist'.entered = hist.entered /\ hist'.typed = hist.typed
      /\ hist'.written = hist.written
      /\ hist'.shown = IF m.seq = p.received THEN sh ELSE hist.shown
  BY <1>2, <1>5, <1>7, Zenon
<1>9. CASE m.seq = p.received
  <2>1. n = [p EXCEPT !.received = Next1(@), !.writes = Append(@, m)]
    BY <1>3, Zenon DEF PageFields
  <2>2. PageStep(c, n, Tail(net[c].down), <<>>)
    BY <1>1, <1>9, <2>1, Zenon DEF PageOutput
  <2> HIDE DEF ws
  <2>3. /\ n.ready = p.ready /\ n.in_seq = p.in_seq /\ n.frame = p.frame /\ n.buffer = p.buffer
        /\ n.received = Next1(p.received) /\ n.writes = ws /\ n.out_seq = p.out_seq
    BY <1>3, ZenonT(60) DEF PageFields
  <2> HIDE DEF n, p, sh
  <2>4. InTalk(web, n, net[c].up \o <<>>, Tail(net[c].down), hist)
    BY <1>1, <1>2, <2>3, OtherTalks, Zenon
  <2>5. InTalk(web, n, net[c].up \o <<>>, Tail(net[c].down), hist')
    BY <1>8, <2>4, Zenon DEF InTalk
  <2>6. InputKept
    BY <1>1, <1>2, <1>8, <2>2, <2>5, PageTalks, Zenon DEF p
  <2>7. <<>> \in Seq(InputMessages)
    OBVIOUS
  <2>8. QED
    BY <1>1, <1>2, <1>8, <1>9, <2>2, <2>3, <2>6, <2>7, Zenon DEF p, ws, sh
<1>10. CASE m.seq # p.received
  <2>1. PICK answers : /\ PageStep(c, p, Tail(net[c].down), answers)
                       /\ \/ answers = <<>>
                          \/ late > 0 /\ late < SequenceModulus \div 2 /\ answers = <<ack>>
    BY <1>1, <1>10, Zenon DEF PageOutput
  <2>2. ack \in InputMessages /\ ack.type = "OUTPUT_ACK"
    <3>1. "OUTPUT_ACK" \in Types /\ Minus(p.out_seq, 1) \in Int
      BY <1>3, Numbers, Zenon DEF Types
    <3>2. QED
      BY <3>1, ControlIsMessage, Zenon DEF Control, Message
  <2>3. ack.type # "INPUT"
    BY <2>2
  <2> HIDE DEF ack, p, sh, late
  <2>4. answers = <<>> \/ \E a \in InputMessages : a.type # "INPUT" /\ answers = <<a>>
    BY <2>1, <2>2, <2>3, Zenon
  <2>5. InTalk(web, p, net[c].up \o answers, Tail(net[c].down), hist)
    BY <1>1, <1>2, <2>4, OtherTalks, Zenon
  <2>6. InTalk(web, p, net[c].up \o answers, Tail(net[c].down), hist')
    BY <1>8, <2>5, Zenon DEF InTalk
  <2>7. InputKept
    BY <1>1, <1>2, <1>8, <2>1, <2>6, PageTalks, Zenon DEF p
  <2>8. answers \in Seq(InputMessages)
    <3>1. <<>> \in Seq(InputMessages) /\ \A a \in InputMessages : <<a>> \in Seq(InputMessages)
      OBVIOUS
    <3>2. QED
      BY <2>4, <3>1, Zenon
  <2>9. SameWrites(p, p)
    BY Zenon DEF SameWrites
  <2>10. QED
    BY <1>1, <1>2, <1>8, <1>10, <2>1, <2>7, <2>8, <2>9, Zenon DEF p, ack, late
<1>11. QED
  BY <1>9, <1>10, Zenon

LEMMA PageConsumedTalks ==
  ASSUME InputInv, NEW c \in Conns, PageConsumed(c)
  PROVE  /\ InputKept /\ Steady /\ web.active = c /\ hist' = hist /\ page[c].writes # <<>>
         /\ \E q : /\ PageStep(c, q, net[c].down,
                               <<Control("OUTPUT_ACK", Head(page[c].writes).seq)>>)
                   /\ q.received = page[c].received /\ q.writes = Tail(page[c].writes)
                   /\ q.out_seq = Next1(page[c].out_seq)
         /\ Control("OUTPUT_ACK", Head(page[c].writes).seq) \in InputMessages
<1> DEFINE p == page[c]
           rest == Tail(p.writes)
           q == [p EXCEPT !.writes = rest, !.out_seq = Next1(p.out_seq)]
           a == Control("OUTPUT_ACK", Head(p.writes).seq)
<1>1. Live(c) /\ p.writes # <<>> /\ hist' = hist
  BY Zenon DEF PageConsumed
<1>2. /\ Steady /\ web.active = c /\ PageGood(p) /\ net[c].up \in Seq(InputMessages)
      /\ net[c].down \in Seq(Messages) /\ hist \in History
      /\ InTalk(web, p, net[c].up, net[c].down, hist)
  BY <1>1, PageHas, Zenon
<1>3. DOMAIN p = PageFields /\ p.writes \in Seq(Messages)
  BY <1>2, PageFacts, Zenon
<1>4. PageStep(c, q, net[c].down, <<a>>)
  BY <1>3, Zenon DEF PageConsumed, PageFields
<1>5. a \in InputMessages /\ a.type = "OUTPUT_ACK"
  <2>1. Head(p.writes) \in Messages
    BY <1>1, <1>3, TailFacts
  <2>2. Head(p.writes).seq \in Int /\ "OUTPUT_ACK" \in Types
    BY <2>1, Zenon DEF Messages, Types
  <2>3. QED
    BY <2>2, ControlIsMessage, Zenon DEF Control, Message
<1>6. a.type # "INPUT"
  BY <1>5
<1> HIDE DEF rest
<1>7. /\ q.ready = p.ready /\ q.in_seq = p.in_seq /\ q.frame = p.frame /\ q.buffer = p.buffer
      /\ q.received = p.received /\ q.writes = rest /\ q.out_seq = Next1(p.out_seq)
  BY <1>3, ZenonT(60) DEF PageFields
<1>8. p.ready
  <2>1. ~p.ready => p = ResetPage
    BY <1>2, Zenon DEF InTalk, Hand
  <2>2. ResetPage.writes = <<>>
    BY DEF ResetPage
  <2>3. QED
    BY <1>1, <2>1, <2>2, Zenon
<1> HIDE DEF q, p, a
<1>9. InTalk(web, q, net[c].up \o <<a>>, net[c].down, hist)
  BY <1>2, <1>5, <1>6, <1>7, <1>8, OtherTalks, Zenon
<1>10. InputKept
  BY <1>1, <1>2, <1>4, <1>9, PageTalks, Zenon DEF p
<1>11. QED
  BY <1>1, <1>2, <1>4, <1>5, <1>7, <1>10, Zenon DEF p, a, rest

(* A connection of a page that stops to be one.                             *)
LEMMA LinkLost ==
  ASSUME InputInv, NEW c \in Conns, SameFlags(web', web), SameInput(web', web),
         SameOutput(web', web), web'.ready = web.ready, UNCHANGED <<setup, term, pc, hist>>,
         \A b \in Conns : b # c => net'[b] = net[b] /\ page'[b] = page[b],
         net[c].state # "new", net'[c].state \in {"silent", "closing", "raw"},
         net'[c].state = "raw" => \A j \in DOMAIN net'[c].up : net'[c].up[j].type # "OUTPUT_ACK",
         \/ net'[c].state = "raw"
         \/ /\ net'[c].up = net[c].up /\ net'[c].down = net[c].down
            /\ net[c].state \in {"open", "silent"} /\ (page'[c] = page[c] \/ page'[c] = ResetPage)
  PROVE  InputKept
<1>1. Linked /\ InputTalks /\ hist \in History /\ web.active \in Conns \cup {None}
  BY WebFacts, Zenon DEF InputInv, RoomInv
<1>2. ASSUME NEW b \in Conns, b # c
      PROVE  ConnGood(web.active, web.connected, net'[b], page'[b], b)
  BY <1>1, <1>2, Zenon DEF Linked
<1>3. ConnGood(web.active, web.connected, net'[c], page'[c], c)
  <2>1. ConnGood(web.active, web.connected, net[c], page[c], c)
    BY <1>1, Zenon DEF Linked
  <2>2. /\ ~("raw" \in {"open", "silent", "closing"})
        /\ \A s \in {"open", "silent"} : s \in {"open", "silent", "closing"}
        /\ \A s \in {"silent", "closing", "raw"} :
             s # "open" /\ s # "new" /\ s \in {"open", "silent", "closing", "raw"}
    OBVIOUS
  <2>3. QED
    BY <2>1, <2>2, Zenon DEF ConnGood
<1>4. \A b \in Conns : ConnGood(web.active, web.connected, net'[b], page'[b], b)
  BY <1>2, <1>3, Zenon
<1>5. Linked'
  BY <1>1, <1>4, LinkKept, Zenon
<1>6. InputTalks'
  <2>1. CASE web.active = c
    <3>1. web'.active = c
      BY <2>1, Zenon DEF SameFlags
    <3>2. ~Live(web.active)'
      BY <3>1, Zenon DEF Live
    <3>3. QED
      BY <3>2 DEF InputTalks
  <2>2. CASE web.active # c
    <3>1. Steady => web.active \in Conns
      BY <1>1, Zenon DEF Steady
    <3>2. Steady => net'[web.active] = net[web.active] /\ page'[web.active] = page[web.active]
      BY <2>2, <3>1, Zenon
    <3>3. QED
      BY <1>1, <3>2, TalkSame, Zenon
  <2>3. QED
    BY <2>1, <2>2, Zenon
<1>7. QED
  BY <1>1, <1>5, <1>6, Zenon DEF InputKept

LEMMA StateFields ==
  ASSUME NetGood(net), NEW c \in Conns, NEW s, net' = [net EXCEPT ![c].state = s]
  PROVE  /\ net'[c].state = s /\ net'[c].up = net[c].up /\ net'[c].down = net[c].down
         /\ \A b \in Conns : b # c => net'[b] = net[b]
<1> DEFINE n == [net EXCEPT ![c].state = s]
<1>1. DOMAIN net[c] = {"state", "up", "down"} /\ DOMAIN net = Conns
  BY ChannelFacts, Zenon DEF NetGood
<1>2. n[c].state = s /\ n[c].up = net[c].up /\ n[c].down = net[c].down
  BY <1>1, ZenonT(60)
<1>3. \A b \in Conns : b # c => n[b] = net[b]
  BY <1>1, Zenon
<1> HIDE DEF n
<1>4. QED
  BY <1>2, <1>3, Zenon DEF n

LEMMA GoneTalks ==
  ASSUME InputInv, NEW c \in Conns, PageLeaves(c) \/ TcpGivesUp(c) \/ RawClient(c)
  PROVE  /\ InputKept /\ UNCHANGED <<setup, term, web, hist>> /\ ~Live(c)'
         /\ \A b \in Conns : b # c => net'[b] = net[b] /\ page'[b] = page[b]
         /\ net'[c].up = net[c].up \/ NoAcks(net'[c].up)
<1>1. NetGood(net) /\ PagesGood(page) /\ DOMAIN page = Conns /\ UNCHANGED <<setup, term, web, pc, hist>>
      /\ WebGood(web)
  BY Zenon DEF InputInv, RoomInv, PagesGood, PageLeaves, TcpGivesUp, RawClient
<1>2. SameFlags(web', web) /\ SameInput(web', web) /\ SameOutput(web', web) /\ web'.ready = web.ready
  BY <1>1, Zenon DEF SameFlags, SameInput, SameOutput
<1>3. CASE PageLeaves(c)
  <2>1. PICK s \in {"closing", "silent"} : net' = [net EXCEPT ![c].state = s]
    BY <1>3, Zenon DEF PageLeaves
  <2>2. /\ net'[c].state = s /\ net'[c].up = net[c].up /\ net'[c].down = net[c].down
        /\ \A b \in Conns : b # c => net'[b] = net[b]
    BY <1>1, <2>1, StateFields
  <2>3. page'[c] = ResetPage /\ \A b \in Conns : b # c => page'[b] = page[b]
    BY <1>1, <1>3, Zenon DEF PageLeaves
  <2>4. net[c].state = "open" /\ s # "new" /\ s # "open" /\ s # "raw" /\ "open" \in {"open", "silent"}
        /\ "open" # "new"
    BY <1>3, <2>1 DEF PageLeaves, Live
  <2>5. InputKept
    BY <1>1, <1>2, <2>2, <2>3, <2>4, LinkLost, Zenon
  <2>6. QED
    BY <1>1, <2>2, <2>3, <2>4, <2>5, Zenon DEF Live
<1>4. CASE TcpGivesUp(c)
  <2>1. net' = [net EXCEPT ![c].state = "closing"] /\ net[c].state = "silent" /\ page' = page
    BY <1>4, Zenon DEF TcpGivesUp
  <2>2. /\ net'[c].state = "closing" /\ net'[c].up = net[c].up /\ net'[c].down = net[c].down
        /\ \A b \in Conns : b # c => net'[b] = net[b]
    BY <1>1, <2>1, StateFields
  <2>3. "closing" # "new" /\ "closing" # "open" /\ "closing" # "raw" /\ "silent" \in {"open", "silent"}
        /\ "silent" # "new"
    OBVIOUS
  <2>4. InputKept
    BY <1>1, <1>2, <2>1, <2>2, <2>3, LinkLost, Zenon
  <2>5. QED
    BY <1>1, <2>1, <2>2, <2>3, <2>4, Zenon DEF Live
<1>5. CASE RawClient(c)
  <2> DEFINE m == Message("INPUT", 1, <<0>>)
             up == <<m>>
             ch == [net[c] EXCEPT !.state = "raw", !.up = up]
  <2>1. DOMAIN net[c] = {"state", "up", "down"} /\ DOMAIN net = Conns
    BY <1>1, ChannelFacts, Zenon DEF NetGood
  <2>2. net' = [net EXCEPT ![c].state = "raw", ![c].up = up] /\ page' = page /\ net[c].state = "open"
    BY <1>5, Zenon DEF RawClient, Live
  <2>3. \A j \in DOMAIN up : up[j].type # "OUTPUT_ACK"
    BY DEF Message
  <2> HIDE DEF up
  <2>4. net' = [net EXCEPT ![c] = ch]
    BY <2>1, <2>2
  <2>5. ch.state = "raw" /\ ch.up = up
    BY <2>1, ZenonT(60)
  <2> HIDE DEF ch
  <2>6. net'[c].state = "raw" /\ net'[c].up = up /\ \A b \in Conns : b # c => net'[b] = net[b]
    BY <2>1, <2>4, <2>5, Zenon
  <2>7. "raw" # "new" /\ "raw" # "open" /\ "open" # "new"
    OBVIOUS
  <2>8. /\ \A j \in DOMAIN net'[c].up : net'[c].up[j].type # "OUTPUT_ACK"
        /\ \A b \in Conns : b # c => net'[b] = net[b] /\ page'[b] = page[b]
        /\ net[c].state # "new" /\ net'[c].state # "new" /\ net'[c].state # "open"
    BY <2>2, <2>3, <2>6, <2>7, Zenon
  <2>9. InputKept
    BY <1>1, <1>2, <2>6, <2>8, LinkLost, Zenon
  <2>10. QED
    BY <1>1, <2>2, <2>6, <2>7, <2>8, <2>9, Zenon DEF Live, NoAcks
<1>6. QED
  BY <1>3, <1>4, <1>5, Zenon

-----------------------------------------------------------------------------
(* The USB console and core 0.                                              *)

LEMMA UsbFields ==
  ASSUME NEW t, TermGood(t), NEW k \in BOOLEAN, NEW b
  PROVE  /\ usb_connected(t, k).browser = t.browser /\ set_connected(t, k).browser = t.browser
         /\ receive(t, b).browser = t.browser /\ usb_receive(t, b).browser = t.browser
         /\ io_write(t, b).browser = t.browser /\ io_read(t).browser = t.browser
         /\ receive(t, b).tx = t.tx /\ receive(t, b).tx_pending = t.tx_pending
         /\ usb_receive(t, b).tx = t.tx /\ usb_receive(t, b).tx_pending = t.tx_pending
         /\ io_read(t).tx = t.tx /\ io_read(t).tx_pending = t.tx_pending
         /\ IF Accepts(t) THEN io_write(t, b).tx = Append(t.tx, b) /\ io_write(t, b).tx_pending
                          ELSE io_write(t, b) = t
         /\ t.browser => usb_connected(t, k).tx = t.tx /\ usb_connected(t, k).tx_pending = t.tx_pending
         /\ \/ usb_connected(t, k).tx = t.tx /\ usb_connected(t, k).tx_pending = t.tx_pending
               /\ (t.browser \/ t.usb = k)
            \/ usb_connected(t, k).tx = <<>> /\ ~usb_connected(t, k).tx_pending
         /\ \/ set_connected(t, k).tx = t.tx /\ set_connected(t, k).tx_pending = t.tx_pending /\ k
            \/ set_connected(t, k).tx = <<>> /\ ~set_connected(t, k).tx_pending
<1>1. DOMAIN t = {"rx", "tx", "tx_pending", "client", "browser", "usb"}
  BY TermFacts DEF Rings
<1> DEFINE Tx(u) == u.browser = t.browser /\ u.tx = t.tx /\ u.tx_pending = t.tx_pending
           rx == ReceiveOne(t.rx, b)
           a == [t EXCEPT !.rx = rx]
<1>2. Tx(receive(t, b))
  <2>1. receive(t, b) = a
    BY Zenon DEF receive
  <2> HIDE DEF rx
  <2>2. Tx(a)
    BY <1>1, ZenonT(60)
  <2> HIDE DEF a, Tx
  <2>3. QED
    BY <2>1, <2>2, Zenon
<1>3. Tx(usb_receive(t, b))
  BY <1>2, Zenon DEF usb_receive
<1>4. Tx(io_read(t))
  <2> DEFINE r == IF t.rx = <<>> THEN t.rx ELSE Tail(t.rx)
             u == [t EXCEPT !.rx = r]
  <2>1. io_read(t) = u
    BY Zenon DEF io_read
  <2> HIDE DEF r
  <2>2. Tx(u)
    BY <1>1, ZenonT(60)
  <2> HIDE DEF u
  <2>3. QED
    BY <2>1, <2>2, Zenon
<1>5. /\ IF Accepts(t) THEN io_write(t, b).tx = Append(t.tx, b) /\ io_write(t, b).tx_pending
                       ELSE io_write(t, b) = t
      /\ io_write(t, b).browser = t.browser
  <2> DEFINE x == Append(t.tx, b)
             u == [t EXCEPT !.tx = x, !.tx_pending = TRUE]
  <2>1. io_write(t, b) = IF Accepts(t) THEN u ELSE t
    BY Zenon DEF io_write
  <2> HIDE DEF x
  <2>2. u.browser = t.browser /\ u.tx = x /\ u.tx_pending
    BY <1>1, ZenonT(60)
  <2> HIDE DEF u
  <2>3. QED
    BY <2>1, <2>2, Zenon DEF x
<1>6. /\ usb_connected(t, k).browser = t.browser
      /\ t.browser => usb_connected(t, k).tx = t.tx /\ usb_connected(t, k).tx_pending = t.tx_pending
      /\ \/ usb_connected(t, k).tx = t.tx /\ usb_connected(t, k).tx_pending = t.tx_pending
            /\ (t.browser \/ t.usb = k)
         \/ usb_connected(t, k).tx = <<>> /\ ~usb_connected(t, k).tx_pending
  <2> DEFINE u == [t EXCEPT !.usb = k]
             e == clear_queues(t)
             f == IF t.usb # k THEN e ELSE t
             v == [f EXCEPT !.client = k, !.usb = k]
  <2>1. usb_connected(t, k) = IF t.browser THEN u ELSE v
    BY Zenon DEF usb_connected
  <2>2. u.browser = t.browser /\ u.tx = t.tx /\ u.tx_pending = t.tx_pending
    BY <1>1, ZenonT(60)
  <2>3. DOMAIN e = DOMAIN t /\ e.browser = t.browser /\ e.tx = <<>> /\ e.tx_pending = FALSE
    BY <1>1, ZenonT(60) DEF clear_queues
  <2> HIDE DEF u, e
  <2>4. /\ DOMAIN f = DOMAIN t /\ f.browser = t.browser
        /\ IF t.usb # k THEN f.tx = <<>> /\ f.tx_pending = FALSE ELSE f.tx = t.tx /\ f.tx_pending = t.tx_pending
    BY <2>3, Zenon
  <2> HIDE DEF f
  <2>5. v.browser = f.browser /\ v.tx = f.tx /\ v.tx_pending = f.tx_pending
    BY <1>1, <2>4, ZenonT(60)
  <2> HIDE DEF v
  <2>6. QED
    BY <2>1, <2>2, <2>4, <2>5, Zenon
<1>7. /\ set_connected(t, k).browser = t.browser
      /\ \/ set_connected(t, k).tx = t.tx /\ set_connected(t, k).tx_pending = t.tx_pending /\ k
         \/ set_connected(t, k).tx = <<>> /\ ~set_connected(t, k).tx_pending
  <2> DEFINE u == [t EXCEPT !.client = TRUE]
             v == [t EXCEPT !.client = FALSE, !.tx = <<>>, !.tx_pending = FALSE]
  <2>1. set_connected(t, k) = IF k THEN u ELSE v
    BY Zenon DEF set_connected
  <2>2. Tx(u) /\ v.browser = t.browser /\ v.tx = <<>> /\ v.tx_pending = FALSE
    BY <1>1, ZenonT(60)
  <2> HIDE DEF u, v
  <2>3. QED
    BY <2>1, <2>2, Zenon
<1> HIDE DEF Tx
<1>8. Tx(receive(t, b)) /\ Tx(usb_receive(t, b)) /\ Tx(io_read(t))
  BY <1>2, <1>3, <1>4, Zenon
<1>9. QED
  BY <1>5, <1>6, <1>7, <1>8, Zenon DEF Tx

LEMMA PortBrowser ==
  ASSUME NEW t, TermGood(t), NEW b
  PROVE  /\ usb_receive(t, b).browser = t.browser /\ receive(t, b).browser = t.browser
         /\ io_write(t, b).browser = t.browser /\ io_read(t).browser = t.browser
<1>1. TRUE \in BOOLEAN
  OBVIOUS
<1>2. QED
  BY <1>1, UsbFields, Zenon

LEMMA UsbTalks ==
  ASSUME InputInv,
         UsbChange \/ UsbType \/ UsbPeek \/ \E n \in 0 .. Len(peeked) : UsbSupply(n)
  PROVE  InputKept
<1>1. TermGood(term) /\ Linked /\ hist \in History /\ peeked \in Bytes /\ InputTalks
  BY Zenon DEF InputInv, RoomInv
<1>2. UNCHANGED <<setup, web, net, page>>
  BY Zenon DEF UsbChange, UsbType, UsbPeek, UsbSupply
<1>3. SameFlags(web', web) /\ SameInput(web', web) /\ SameOutput(web', web) /\ web'.ready = web.ready
  BY <1>2, Zenon DEF SameFlags, SameInput, SameOutput
<1>4. CASE UsbChange
  <2>1. (~term.usb) \in BOOLEAN /\ (~term.client) \in BOOLEAN
    OBVIOUS
  <2>2. term'.browser = term.browser /\ pc' = pc
    BY <1>1, <1>4, <2>1, UsbFields, Zenon DEF UsbChange
  <2>3. CASE setup.network /\ term.browser
    <3>1. hist' = hist
      BY <1>4, <2>3, Zenon DEF UsbChange
    <3>2. QED
      BY <1>1, <1>2, <1>3, <2>2, <3>1, QuietStep, Zenon
  <2>4. CASE ~(setup.network /\ term.browser)
    <3>1. hist' = NoHistory
      BY <1>4, <2>4, Zenon DEF UsbChange
    <3>2. ~Steady'
      BY <1>1, <1>2, <2>4, Zenon DEF Steady, Linked, FlagsGood
    <3>3. \A c \in Conns : ConnGood(web.active, web.connected, net'[c], page'[c], c)
      BY <1>1, <1>2, ConnsSame, Zenon
    <3>4. Linked'
      BY <1>1, <1>2, <1>3, <2>2, <3>3, LinkKept, Zenon
    <3>5. QED
      BY <3>1, <3>2, <3>4, TalkEnds, NoHistoryFacts, Zenon DEF InputKept
  <2>5. QED
    BY <2>3, <2>4, Zenon
<1>5. CASE UsbType
  <2>1. PICK b : term' = usb_receive(term, b) \/ term' = receive(term, b)
    BY <1>5, Zenon DEF UsbType
  <2>2. term'.browser = term.browser /\ pc' = pc /\ hist' = hist
    BY <1>1, <1>5, <2>1, PortBrowser, Zenon DEF UsbType
  <2>3. QED
    BY <1>1, <1>2, <1>3, <2>2, QuietStep, Zenon
<1>6. CASE UsbPeek
  <2>1. term' = term /\ pc' = "usb" /\ hist' = hist
    BY <1>6, Zenon DEF UsbPeek
  <2>2. pc' \in {"idle", "pop", "usb"}
    BY <2>1
  <2>3. QED
    BY <1>1, <1>2, <1>3, <2>1, <2>2, QuietStep, Zenon
<1>7. ASSUME NEW n \in 0 .. Len(peeked), UsbSupply(n) PROVE InputKept
  <2> DEFINE sh == hist.shown \o First(peeked, n)
             g == [hist EXCEPT !.shown = sh]
  <2>1. /\ term' = term \/ term' = supply(term, n)
        /\ hist' = g /\ pc' = "idle"
    BY <1>1, <1>7, Zenon DEF UsbSupply, History
  <2>2. term'.browser = term.browser
    BY <1>1, <2>1, SupplyFields, Zenon
  <2>3. sh \in Bytes
    <3>1. n \in Nat
      BY <1>1, <1>7 DEF Bytes
    <3>2. First(peeked, n) \in Bytes
      BY <1>1, <3>1, FirstFacts DEF Bytes
    <3>3. QED
      BY <1>1, <3>2, BytesJoined, Zenon DEF History
  <2> HIDE DEF sh
  <2>4. g \in History /\ g.entered = hist.entered /\ g.typed = hist.typed
    BY <1>1, <2>3 DEF History
  <2> HIDE DEF g
  <2>5. pc' \in {"idle", "pop", "usb"}
    BY <2>1
  <2>6. QED
    BY <1>1, <1>2, <1>3, <2>1, <2>2, <2>4, <2>5, QuietStep, Zenon
<1>8. QED
  BY <1>4, <1>5, <1>6, <1>7, Zenon

LEMMA PortsTalk ==
  ASSUME InputInv, Core0
  PROVE  InputKept
<1>1. TermGood(term) /\ hist \in History /\ z80.out \in Byte
  BY Zenon DEF InputInv, RoomInv, Z80Good, Byte
<1>2. UNCHANGED <<setup, web, net, page, pc>>
  BY Zenon DEF Core0, StatusClient, StatusRoom, Z80Write, Z80Read
<1>3. SameFlags(web', web) /\ SameInput(web', web) /\ SameOutput(web', web) /\ web'.ready = web.ready
  BY <1>2, Zenon DEF SameFlags, SameInput, SameOutput
<1> DEFINE wr == Append(hist.written, z80.out)
           g == [hist EXCEPT !.written = wr]
<1>4. wr \in Bytes
  BY <1>1 DEF History, Bytes
<1>5. hist' = hist \/ hist' = g
  <2>1. g = [hist EXCEPT !.written = Append(@, z80.out)]
    BY <1>1, Zenon DEF History
  <2>2. QED
    BY <2>1, Zenon DEF Core0, StatusClient, StatusRoom, Z80Write, Z80Read
<1> HIDE DEF wr
<1>6. g \in History /\ g.entered = hist.entered /\ g.typed = hist.typed
  BY <1>1, <1>4 DEF History
<1> HIDE DEF g
<1>7. term'.browser = term.browser
  <2>1. term' = term \/ term' = io_write(term, z80.out) \/ term' = io_read(term)
    BY Zenon DEF Core0, StatusClient, StatusRoom, Z80Write, Z80Read
  <2>2. QED
    BY <1>1, <2>1, PortBrowser, Zenon
<1>8. QED
  BY <1>1, <1>2, <1>3, <1>5, <1>6, <1>7, QuietStep, Zenon

-----------------------------------------------------------------------------
(* The input, from the first state on.                                      *)

LEMMA OnlineTalks ==
  ASSUME InputInv, PollOnline
  PROVE  InputKept
<1>1. process_events /\ UNCHANGED <<setup, net, page>> /\ pc' = "pop"
  BY Zenon DEF PollOnline
<1>2. pc' \in {"idle", "pop"}
  BY <1>1
<1>3. QED
  BY <1>1, <1>2, EventsTalk, Zenon

LEMMA StandsStill ==
  ASSUME InputInv, UNCHANGED vars
  PROVE  InputKept
<1>1. UNCHANGED <<setup, term, web, net, page, pc, hist>>
  BY Zenon DEF vars
<1>2. SameFlags(web', web) /\ SameInput(web', web) /\ SameOutput(web', web) /\ web'.ready = web.ready
  BY <1>1, Zenon DEF SameFlags, SameInput, SameOutput
<1>3. QED
  BY <1>1, <1>2, QuietStep, Zenon DEF InputInv

LEMMA InitTalks ==
  ASSUME Init
  PROVE  InputInv
<1>1. RoomInv
  BY InitIsSound
<1>2. /\ pc = "idle" /\ hist = NoHistory /\ net = [c \in Conns |-> Channel("new")]
      /\ page = [c \in Conns |-> ResetPage]
  BY Zenon DEF Init
<1>3. /\ web.active = None /\ ~web.disconnected /\ web.window = <<>> /\ web.staged = <<>>
  <2>1. DOMAIN FreshSession = {"ready", "out_seq", "window", "staged", "in_seq",
                               "pending_input", "ack_pending", "awaiting", "activity", "missed"}
        /\ FreshSession.window = <<>> /\ FreshSession.staged = <<>>
    BY Zenon DEF FreshSession
  <2>2. DOMAIN WebInit = {"active", "connected", "disconnected", "last", "details", "ping_seq"}
        /\ WebInit.active = None /\ WebInit.disconnected = FALSE
    BY Zenon DEF WebInit
  <2>3. DOMAIN WebInit \cup DOMAIN FreshSession = WebFields
    BY <2>1, <2>2, ZenonT(60) DEF WebFields
  <2>4. web = [x \in WebFields |-> IF x \in DOMAIN WebInit THEN WebInit[x] ELSE FreshSession[x]]
    BY <2>3, Zenon DEF Init
  <2>5. \A x \in WebFields :
          web[x] = IF x \in DOMAIN WebInit THEN WebInit[x] ELSE FreshSession[x]
    BY <2>4, Zenon
  <2>6. /\ {"active", "disconnected", "window", "staged"} \subseteq WebFields
        /\ {"active", "disconnected"} \subseteq DOMAIN WebInit
        /\ "window" \notin DOMAIN WebInit /\ "staged" \notin DOMAIN WebInit
    BY <2>2 DEF WebFields
  <2>7. /\ web["active"] = WebInit["active"] /\ web["disconnected"] = WebInit["disconnected"]
        /\ web["window"] = FreshSession["window"] /\ web["staged"] = FreshSession["staged"]
    BY <2>5, <2>6
  <2>8. QED
    BY <2>1, <2>2, <2>7, Zenon
<1>4. FlagsGood(web, term, pc, setup.network)
  <2>1. ~(pc \in {"heartbeat", "stage"}) /\ pc # "stage"
    BY <1>2
  <2>2. QED
    BY <1>3, <2>1, Zenon DEF FlagsGood
<1>5. ASSUME NEW c \in Conns PROVE ConnGood(web.active, web.connected, net[c], page[c], c)
  <2>1. net[c] = Channel("new") /\ page[c] = ResetPage
    BY <1>2
  <2>2. Channel("new").state = "new" /\ None # c
    BY Sizes DEF Channel
  <2>3. ~("new" \in {"open", "silent", "closing"}) /\ "new" # "open" /\ "new" # "raw"
    OBVIOUS
  <2>4. QED
    BY <1>3, <2>1, <2>2, <2>3, Zenon DEF ConnGood
<1>6. InputTalks
  BY <1>3, Zenon DEF InputTalks, Steady
<1>7. QED
  BY <1>1, <1>2, <1>4, <1>5, <1>6, NoHistoryFacts, Zenon DEF InputInv, Linked

LEMMA NextTalks ==
  ASSUME InputInv, [Next]_vars
  PROVE  InputInv'
<1>1. RoomInv'
  BY NextIsSound, Zenon DEF InputInv
<1>2. InputKept
  <2>1. CASE UNCHANGED vars
    BY <2>1, StandsStill
  <2>2. CASE Core1
    <3>1. ASSUME NEW c \in Conns,
                 OnReady(c) \/ OnOutputAck(c) \/ OnInput(c) \/ OnInvalid(c) \/ OnPong(c)
          PROVE  InputKept
      BY <3>1, ReadyTalks, OutputAckTalks, InputTaken, EndingsTalk, PongTalks, Zenon
    <3>2. ASSUME NEW due, SendFrames(due) PROVE InputKept
      BY <3>2, SendFramesTalk, Zenon
    <3>3. QED
      BY <2>2, <3>1, <3>2, OnlineTalks, PollInputTalks, NoPingTalks, StageTalks, UsbTalks, Zenon
         DEF Core1
  <2>3. CASE Environment
    <3>1. ASSUME NEW c \in Conns, PageReceive(c) PROVE InputKept
      BY <3>1, PageAnswerTalks, PageOutputTalks, Zenon
    <3>2. ASSUME NEW c \in Conns,
                 \/ on_connect(c) \/ Closed(c) \/ PageType(c) \/ PageRetry(c) \/ PageReceive(c)
                 \/ PageConsumed(c) \/ PageLeaves(c) \/ TcpGivesUp(c) \/ RawClient(c)
          PROVE  InputKept
      BY <3>1, <3>2, ConnectTalks, ClosedTalks, PageTypeTalks, PageRetryTalks, PageConsumedTalks,
         GoneTalks, Zenon
    <3>3. QED
      BY <2>3, <3>2, EndingsTalk, PongTimeoutTalks, PingTalks, UsbTalks, Zenon DEF Environment
  <2>4. CASE Core0
    BY <2>4, PortsTalk
  <2>5. QED
    BY <2>1, <2>2, <2>3, <2>4, Zenon DEF Next
<1>3. QED
  BY <1>1, <1>2, Zenon DEF InputKept, InputInv

LEMMA OnceFollows ==
  ASSUME InputInv
  PROVE  InputOnce
<1>1. SUFFICES ASSUME Steady, Live(web.active)
               PROVE  LET acked == Len(hist.typed) - Len(page[web.active].buffer)
                      IN  IsPrefix(hist.entered, hist.typed) /\ acked <= Len(hist.entered)
  BY DEF InputOnce
<1>2. InputState(web.in_seq, web.pending_input, page[web.active].in_seq, page[web.active].frame,
                 page[web.active].buffer, hist.entered, hist.typed)
  BY <1>1, Zenon DEF InputInv, InputTalks, InTalk
<1>3. QED
  BY <1>2, StateIsOnce, Zenon

(* What a page's user types in a session enters the terminal ring once and  *)
(* in order, whatever is repeated, held or acknowledged late, and the page  *)
(* drops a byte only when it has entered (accept_pending_input,             *)
(* retry_input_ack, pumpInput).                                             *)
THEOREM InputHolds == Spec => []InputOnce
<1>1. Init => InputInv
  BY InitTalks
<1>2. InputInv /\ [Next]_vars => InputInv'
  BY NextTalks
<1>3. InputInv => InputOnce
  BY OnceFollows
<1>4. QED
  BY <1>1, <1>2, <1>3, PTL DEF Spec
=============================================================================
