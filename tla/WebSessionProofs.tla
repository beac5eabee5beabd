-------------------------- MODULE WebSessionProofs --------------------------
(***************************************************************************)
(* Proofs about the output of a session of WebTerminal, and about what the  *)
(* two ends of one think of each other.                                     *)
(*                                                                         *)
(* The frames the Pico has numbered are counted from the newest: the last   *)
(* u are not yet received, the last d not yet consumed, and the window      *)
(* holds all of those.  Every copy of a frame and every acknowledgement in  *)
(* flight is placed by how far it is behind, Minus(out_seq, seq), so that   *)
(* sequence numbers that wrap compare like numbers that do not.             *)
(***************************************************************************)
EXTENDS WebTerminalProofs

-----------------------------------------------------------------------------
(* Output: a window of frames, the last of them Minus(out_seq, seq) = 1     *)
(* behind the next number.                                                  *)

Window(o, W) ==
  /\ o \in Sequence
  /\ \A i \in DOMAIN W :
       W[i].seq \in Sequence /\ Minus(o, W[i].seq) = Len(W) + 1 - i /\ W[i].data # <<>>

(* Acknowledgements on the way up are of frames consumed (the last d of the *)
(* n in the window are not), in order, the oldest just before the window.   *)
Acks(o, n, d, up) ==
  \A j \in DOMAIN up : up[j].type = "OUTPUT_ACK" =>
    /\ up[j].seq \in Sequence
    /\ Minus(o, up[j].seq) \in d + 1 .. n + 1
    /\ \A i \in 1 .. j - 1 :
         up[i].type = "OUTPUT_ACK" => Minus(o, up[i].seq) >= Minus(o, up[j].seq)

(* The page has received all but the last u frames, consumed all but d.     *)
Reads(o, r, q, ws, u, d) ==
  /\ r \in Sequence /\ q \in Sequence
  /\ Minus(o, r) = u /\ Minus(o, q) = d
  /\ Len(ws) = d - u
  /\ \A i \in DOMAIN ws : ws[i].seq \in Sequence /\ Minus(o, ws[i].seq) = d + 1 - i

(* A frame sent and not received is on its way, and those before it were    *)
(* sent.                                                                    *)
Sent(W, u, dn) ==
  \A i \in DOMAIN W : W[i].sent =>
    /\ i > 1 => W[i - 1].sent
    /\ Len(W) + 1 - i <= u => \E j \in DOMAIN dn : dn[j].type = "OUTPUT" /\ dn[j].seq = W[i].seq

(* A copy on the way down, counted from the end: what has not been received *)
(* carries what the window holds and comes after the frame before it, and   *)
(* two copies are less than a window apart.                                 *)
Copies(o, W, u, dn) ==
  \A j \in DOMAIN dn : dn[j].type = "OUTPUT" =>
    /\ dn[j].seq \in Sequence
    /\ Minus(o, dn[j].seq) \in 1 .. u + OUTPUT_WINDOW
    /\ Minus(o, dn[j].seq) <= u => dn[j].data = W[Len(W) + 1 - Minus(o, dn[j].seq)].data
    /\ Minus(o, dn[j].seq) < u =>
         \E i \in 1 .. j - 1 : dn[i].type = "OUTPUT" /\ Minus(o, dn[i].seq) = Minus(o, dn[j].seq) + 1
    /\ \A i \in 1 .. j - 1 :
         dn[i].type = "OUTPUT" => Minus(o, dn[j].seq) < Minus(o, dn[i].seq) + OUTPUT_WINDOW

LEMMA AcksPopped ==
  ASSUME NEW o, NEW n, NEW d, NEW T, NEW up \in Seq(T), up # <<>>, Acks(o, n, d, up)
  PROVE  Acks(o, n, d, Tail(up))
<1> DEFINE t == Tail(up)
<1>1. \A j \in DOMAIN t :
        /\ j \in Int /\ j + 1 \in DOMAIN up /\ t[j] = up[j + 1] /\ 1 \in 1 .. (j + 1) - 1
        /\ \A i \in 1 .. j - 1 : i + 1 \in 1 .. (j + 1) - 1 /\ t[i] = up[i + 1]
  BY TailShifts
<1> HIDE DEF t
<1>2. Acks(o, n, d, t)
  BY <1>1 DEF Acks
<1>3. QED
  BY <1>2 DEF t

(* The Pico drops the frames up to the one acknowledged.                    *)
LEMMA AckTaken ==
  ASSUME NEW o \in Sequence, NEW n \in Nat, NEW d \in Nat, NEW T, NEW up \in Seq(T), up # <<>>,
         Acks(o, n, d, up), up[1].type = "OUTPUT_ACK"
  PROVE  /\ Minus(o, up[1].seq) - 1 \in d .. n
         /\ Acks(o, Minus(o, up[1].seq) - 1, d, Tail(up))
<1> DEFINE t == Tail(up)
           a == Minus(o, up[1].seq)
<1>1. /\ \A j \in DOMAIN t :
           /\ j \in Int /\ j + 1 \in DOMAIN up /\ t[j] = up[j + 1] /\ 1 \in 1 .. (j + 1) - 1
           /\ \A i \in 1 .. j - 1 : i + 1 \in 1 .. (j + 1) - 1 /\ t[i] = up[i + 1]
      /\ 1 \in DOMAIN up
  BY TailShifts
<1> HIDE DEF t, a
<1>2. a \in d + 1 .. n + 1
  BY <1>1 DEF Acks, a
<1>3. ASSUME NEW j \in DOMAIN t, t[j].type = "OUTPUT_ACK"
      PROVE  /\ t[j].seq \in Sequence
             /\ Minus(o, t[j].seq) \in d + 1 .. n + 1 /\ Minus(o, t[j].seq) <= a
             /\ \A i \in 1 .. j - 1 :
                  t[i].type = "OUTPUT_ACK" => Minus(o, t[i].seq) >= Minus(o, t[j].seq)
  <2>1. up[j + 1].type = "OUTPUT_ACK" /\ j + 1 \in DOMAIN up
    BY <1>1, <1>3
  <2>2. /\ up[j + 1].seq \in Sequence /\ Minus(o, up[j + 1].seq) \in d + 1 .. n + 1
        /\ \A i \in 1 .. (j + 1) - 1 :
             up[i].type = "OUTPUT_ACK" => Minus(o, up[i].seq) >= Minus(o, up[j + 1].seq)
    BY <2>1, Zenon DEF Acks
  <2>3. a >= Minus(o, up[j + 1].seq)
    BY <1>1, <1>3, <2>2 DEF a
  <2>4. QED
    BY <1>1, <1>2, <1>3, <2>2, <2>3
<1>4. Acks(o, a - 1, d, t)
  BY <1>2, <1>3 DEF Acks
<1>5. QED
  BY <1>2, <1>4 DEF t, a

(* A message of another kind, or the last frame consumed once more.         *)
LEMMA AcksPushed ==
  ASSUME NEW o, NEW n \in Nat, NEW d \in 0 .. n, NEW T, NEW up \in Seq(T), NEW m \in T,
         m.type # "OUTPUT_ACK" \/ (m.seq \in Sequence /\ Minus(o, m.seq) = d + 1),
         Acks(o, n, d, up)
  PROVE  Acks(o, n, d, Append(up, m))
<1> DEFINE t == Append(up, m)
<1>1. /\ \A j \in DOMAIN t : \/ j = Len(up) + 1 /\ t[j] = m
                             \/ j \in DOMAIN up /\ j # Len(up) + 1 /\ t[j] = up[j]
      /\ \A j \in DOMAIN t : \A i \in 1 .. j - 1 : i \in DOMAIN up /\ t[i] = up[i]
  BY AppendShifts
<1> HIDE DEF t
<1>2. ASSUME NEW j \in DOMAIN t, t[j].type = "OUTPUT_ACK"
      PROVE  /\ t[j].seq \in Sequence
             /\ Minus(o, t[j].seq) \in d + 1 .. n + 1
             /\ \A i \in 1 .. j - 1 :
                  t[i].type = "OUTPUT_ACK" => Minus(o, t[i].seq) >= Minus(o, t[j].seq)
  <2>1. CASE t[j] = m
    <3>1. m.seq \in Sequence /\ Minus(o, m.seq) = d + 1
      BY <1>2, <2>1
    <3>2. ASSUME NEW i \in 1 .. j - 1, t[i].type = "OUTPUT_ACK"
          PROVE  Minus(o, t[i].seq) >= d + 1
      <4>1. i \in DOMAIN up /\ t[i] = up[i]
        BY <1>1
      <4>2. QED
        BY <3>2, <4>1 DEF Acks
    <3>3. QED
      BY <2>1, <3>1, <3>2
  <2>2. CASE j \in DOMAIN up /\ t[j] = up[j]
    BY <1>1, <1>2, <2>2 DEF Acks
  <2>3. QED
    BY <1>1, <2>1, <2>2
<1>3. QED
  BY <1>2 DEF t, Acks

LEMMA AcksWider ==
  ASSUME NEW o, NEW n \in Nat, NEW d \in 1 .. n, NEW up, Acks(o, n, d, up)
  PROVE  Acks(o, n, d - 1, up)
  BY DEF Acks

LEMMA AcksStaged ==
  ASSUME NEW o \in Sequence, NEW n \in Nat, n < OUTPUT_WINDOW, NEW d \in 0 .. n,
         NEW T, NEW up \in Seq(T), Acks(o, n, d, up)
  PROVE  Acks(Next1(o), n + 1, d + 1, up)
<1>1. \A s \in Sequence : Minus(o, s) <= n + 1 => Minus(Next1(o), s) = Minus(o, s) + 1
  <2> SUFFICES ASSUME NEW s \in Sequence, Minus(o, s) <= n + 1
               PROVE  Minus(Next1(o), s) = Minus(o, s) + 1
    OBVIOUS
  <2>1. Minus(o, s) \in Int
    BY BehindFacts, Zenon
  <2>2. Minus(o, s) < SequenceModulus - 1
    BY <2>1, Modulus
  <2>3. QED
    BY <2>2, BehindFacts, Zenon
<1>2. ASSUME NEW j \in DOMAIN up, up[j].type = "OUTPUT_ACK"
      PROVE  /\ up[j].seq \in Sequence /\ Minus(o, up[j].seq) \in d + 1 .. n + 1
             /\ Minus(Next1(o), up[j].seq) = Minus(o, up[j].seq) + 1
  BY <1>1, <1>2 DEF Acks
<1>3. \A j \in DOMAIN up : \A i \in 1 .. j - 1 : up[i].type = "OUTPUT_ACK" /\ up[j].type = "OUTPUT_ACK" =>
        Minus(o, up[i].seq) >= Minus(o, up[j].seq)
  BY DEF Acks
<1>4. ASSUME NEW j \in DOMAIN up, up[j].type = "OUTPUT_ACK", NEW i \in 1 .. j - 1,
             up[i].type = "OUTPUT_ACK", i \in DOMAIN up
      PROVE  Minus(Next1(o), up[i].seq) >= Minus(Next1(o), up[j].seq)
  BY <1>2, <1>3, <1>4
<1>5. \A j \in DOMAIN up : \A i \in 1 .. j - 1 : i \in DOMAIN up
  OBVIOUS
<1>6. QED
  BY <1>2, <1>4, <1>5 DEF Acks

-----------------------------------------------------------------------------
(* The window.                                                              *)

LEMMA CutAt ==
  ASSUME NEW T, NEW W \in Seq(T), NEW k \in 1 .. Len(W)
  PROVE  /\ Rest(W, k) \in Seq(T) /\ Len(Rest(W, k)) = Len(W) - k
         /\ \A i \in 1 .. Len(W) - k : Rest(W, k)[i] = W[k + i]
<1>1. k \in Nat /\ k <= Len(W)
  OBVIOUS
<1>2. /\ Rest(W, k) \in Seq(T)
      /\ Len(First(W, k)) = IF k < Len(W) THEN k ELSE Len(W)
      /\ Len(Rest(W, k)) = Len(W) - Len(First(W, k))
      /\ \A i \in 1 .. Len(Rest(W, k)) : Rest(W, k)[i] = W[Len(First(W, k)) + i]
  BY <1>1, FirstThenRest, Zenon
<1>3. Len(First(W, k)) = k
  BY <1>1, <1>2
<1>4. QED
  BY <1>2, <1>3

LEMMA WindowCut ==
  ASSUME NEW o, NEW W \in Seq(Frames), NEW k \in 1 .. Len(W), Window(o, W)
  PROVE  Window(o, Rest(W, k))
<1> DEFINE V == Rest(W, k)
<1>1. V \in Seq(Frames) /\ Len(V) = Len(W) - k /\ \A i \in 1 .. Len(W) - k : V[i] = W[k + i]
  BY CutAt
<1> HIDE DEF V
<1>2. ASSUME NEW i \in DOMAIN V
      PROVE  V[i].seq \in Sequence /\ Minus(o, V[i].seq) = Len(V) + 1 - i /\ V[i].data # <<>>
  <2>1. i \in 1 .. Len(W) - k /\ k + i \in DOMAIN W
    BY <1>1
  <2>2. V[i] = W[k + i]
    BY <1>1, <2>1
  <2>3. Len(W) + 1 - (k + i) = Len(V) + 1 - i
    BY <1>1, <2>1
  <2>4. QED
    BY <2>1, <2>2, <2>3, Zenon DEF Window
<1>3. QED
  BY <1>2, Zenon DEF Window, V

(* A number less than two windows behind is one more behind the next.       *)
LEMMA BehindNext ==
  ASSUME NEW o \in Sequence, NEW s \in Sequence, Minus(o, s) < 2 * OUTPUT_WINDOW
  PROVE  Minus(Next1(o), s) = Minus(o, s) + 1
<1>1. Minus(o, s) \in Int
  BY BehindFacts, Zenon
<1>2. Minus(o, s) < SequenceModulus - 1
  BY <1>1, Modulus
<1>3. QED
  BY <1>2, BehindFacts, Zenon

LEMMA WindowStaged ==
  ASSUME NEW o, NEW W \in Seq(Frames), NEW f \in Frames, Window(o, W), Len(W) < OUTPUT_WINDOW,
         f.seq = o, f.data # <<>>
  PROVE  Window(Next1(o), Append(W, f))
<1> DEFINE V == Append(W, f)
<1>1. /\ \A j \in DOMAIN V : \/ j = Len(W) + 1 /\ V[j] = f
                             \/ j \in DOMAIN W /\ j # Len(W) + 1 /\ V[j] = W[j]
      /\ Len(V) = Len(W) + 1 /\ Len(W) \in Nat /\ DOMAIN W = 1 .. Len(W)
  BY AppendShifts
<1> HIDE DEF V
<1>2. o \in Sequence
  BY Zenon DEF Window
<1>3. Next1(o) \in Sequence /\ Minus(Next1(o), o) = 1
  BY <1>2, BehindFacts, Zenon
<1>4. ASSUME NEW i \in DOMAIN V
      PROVE  V[i].seq \in Sequence /\ Minus(Next1(o), V[i].seq) = Len(V) + 1 - i /\ V[i].data # <<>>
  <2>1. CASE i = Len(W) + 1 /\ V[i] = f
    <3>1. Len(V) + 1 - i = 1
      BY <1>1, <2>1
    <3>2. QED
      BY <1>2, <1>3, <2>1, <3>1, Zenon
  <2>2. CASE i \in DOMAIN W /\ V[i] = W[i]
    <3>1. /\ W[i].seq \in Sequence /\ Minus(o, W[i].seq) = Len(W) + 1 - i /\ W[i].data # <<>>
      BY <2>2, Zenon DEF Window
    <3>2. Minus(o, W[i].seq) < 2 * OUTPUT_WINDOW
      BY <1>1, <2>2, <3>1, Modulus
    <3>3. Minus(Next1(o), W[i].seq) = Minus(o, W[i].seq) + 1
      BY <1>2, <3>1, <3>2, BehindNext, Zenon
    <3>4. Minus(Next1(o), W[i].seq) = Len(V) + 1 - i
      BY <1>1, <2>2, <3>1, <3>3
    <3>5. QED
      BY <2>2, <3>1, <3>4, Zenon
  <2>3. QED
    BY <1>1, <2>1, <2>2
<1>5. QED
  BY <1>3, <1>4, Zenon DEF Window, V

(* Which frames are marked as sent tells nothing else of them.              *)
LEMMA MarkedAt ==
  ASSUME NEW W \in Seq(Frames), NEW S
  PROVE  /\ Marked(W, S) \in Seq(Frames) /\ Len(Marked(W, S)) = Len(W) /\ DOMAIN Marked(W, S) = DOMAIN W
         /\ \A i \in DOMAIN W : /\ Marked(W, S)[i].seq = W[i].seq /\ Marked(W, S)[i].data = W[i].data
                                /\ (Marked(W, S)[i].sent <=> W[i].sent \/ i \in S)
<1>1. Marked(W, S) \in Seq(Frames) /\ Len(Marked(W, S)) = Len(W)
  BY MarkedWindow
<1>2. DOMAIN Marked(W, S) = DOMAIN W
  BY DEF Marked
<1>3. ASSUME NEW i \in DOMAIN W
      PROVE  /\ Marked(W, S)[i].seq = W[i].seq /\ Marked(W, S)[i].data = W[i].data
             /\ (Marked(W, S)[i].sent <=> W[i].sent \/ i \in S)
  <2> DEFINE b == W[i].sent \/ i \in S
             g == [W[i] EXCEPT !.sent = b]
  <2>1. W[i] \in Frames
    OBVIOUS
  <2>2. DOMAIN W[i] = {"seq", "data", "sent"}
    BY <2>1 DEF Frames
  <2>3. Marked(W, S)[i] = g
    <3>1. Marked(W, S)[i] = [W[i] EXCEPT !.sent = @ \/ i \in S]
      BY Zenon DEF Marked
    <3>2. QED
      BY <2>2, <3>1
  <2> HIDE DEF b
  <2>4. g.seq = W[i].seq /\ g.data = W[i].data /\ g.sent = b
    BY <2>2, ZenonT(60)
  <2>5. QED
    BY <2>3, <2>4, Zenon DEF b
<1>4. QED
  BY <1>1, <1>2, <1>3, Zenon

LEMMA WindowMarked ==
  ASSUME NEW o, NEW W \in Seq(Frames), NEW S, Window(o, W)
  PROVE  Window(o, Marked(W, S))
<1>1. /\ Len(Marked(W, S)) = Len(W) /\ DOMAIN Marked(W, S) = DOMAIN W
      /\ \A i \in DOMAIN W : Marked(W, S)[i].seq = W[i].seq /\ Marked(W, S)[i].data = W[i].data
  BY MarkedAt
<1>2. QED
  BY <1>1, Zenon DEF Window

-----------------------------------------------------------------------------
(* What the page has read.                                                  *)

LEMMA ReadsStaged ==
  ASSUME NEW o \in Sequence, NEW r, NEW q, NEW ws, NEW u \in Nat, NEW d \in Nat, u <= d,
         d < OUTPUT_WINDOW, Reads(o, r, q, ws, u, d), NEW T, ws \in Seq(T)
  PROVE  Reads(Next1(o), r, q, ws, u + 1, d + 1)
<1>1. /\ r \in Sequence /\ q \in Sequence /\ Minus(o, r) = u /\ Minus(o, q) = d
      /\ Len(ws) = d - u /\ DOMAIN ws = 1 .. Len(ws)
      /\ \A i \in DOMAIN ws : ws[i].seq \in Sequence /\ Minus(o, ws[i].seq) = d + 1 - i
  BY DEF Reads
<1>2. OUTPUT_WINDOW \in Nat
  BY Modulus
<1>3. \A s \in Sequence : Minus(o, s) <= d => Minus(Next1(o), s) = Minus(o, s) + 1
  <2>1. ASSUME NEW s \in Sequence, Minus(o, s) <= d PROVE Minus(o, s) < 2 * OUTPUT_WINDOW
    <3>1. Minus(o, s) \in Int
      BY BehindFacts, Zenon
    <3>2. QED
      BY <1>2, <2>1, <3>1
  <2>2. QED
    BY <2>1, BehindNext, Zenon
<1>4. Minus(Next1(o), r) = u + 1 /\ Minus(Next1(o), q) = d + 1
  BY <1>1, <1>3
<1>5. ASSUME NEW i \in DOMAIN ws
      PROVE  ws[i].seq \in Sequence /\ Minus(Next1(o), ws[i].seq) = (d + 1) + 1 - i
  BY <1>1, <1>3
<1>6. Len(ws) = (d + 1) - (u + 1)
  BY <1>1
<1>7. QED
  BY <1>1, <1>4, <1>5, <1>6, Zenon DEF Reads

(* A new frame is read.                                                     *)
LEMMA ReadsNew ==
  ASSUME NEW o \in Sequence, NEW r, NEW q, NEW T, NEW ws \in Seq(T), NEW u \in Nat, NEW d \in Nat,
         u <= d, Reads(o, r, q, ws, u, d), NEW m \in T, m.seq = r, u > 0
  PROVE  Reads(o, Next1(r), q, Append(ws, m), u - 1, d)
<1> DEFINE t == Append(ws, m)
<1>1. /\ r \in Sequence /\ q \in Sequence /\ Minus(o, r) = u /\ Minus(o, q) = d
      /\ Len(ws) = d - u
      /\ \A i \in DOMAIN ws : ws[i].seq \in Sequence /\ Minus(o, ws[i].seq) = d + 1 - i
  BY DEF Reads
<1>2. /\ \A j \in DOMAIN t : \/ j = Len(ws) + 1 /\ t[j] = m
                             \/ j \in DOMAIN ws /\ j # Len(ws) + 1 /\ t[j] = ws[j]
      /\ Len(t) = Len(ws) + 1
  BY AppendShifts
<1> HIDE DEF t
<1>3. Minus(o, r) > 0
  BY <1>1
<1>4. Next1(r) \in Sequence /\ Minus(o, Next1(r)) = Minus(o, r) - 1
  BY <1>1, <1>3, BehindFacts, Zenon
<1>5. ASSUME NEW j \in DOMAIN t PROVE t[j].seq \in Sequence /\ Minus(o, t[j].seq) = d + 1 - j
  <2>1. CASE j = Len(ws) + 1 /\ t[j] = m
    BY <1>1, <2>1
  <2>2. CASE j \in DOMAIN ws /\ t[j] = ws[j]
    BY <1>1, <2>2
  <2>3. QED
    BY <1>2, <2>1, <2>2
<1>6. Minus(o, Next1(r)) = u - 1 /\ Len(t) = d - (u - 1)
  BY <1>1, <1>2, <1>4
<1>7. QED
  BY <1>1, <1>4, <1>5, <1>6, Zenon DEF Reads, t

(* The oldest frame is consumed.                                            *)
LEMMA ReadsConsumed ==
  ASSUME NEW o \in Sequence, NEW r, NEW q, NEW T, NEW ws \in Seq(T), NEW u \in Nat, NEW d \in Nat,
         u <= d, Reads(o, r, q, ws, u, d), ws # <<>>
  PROVE  /\ Reads(o, r, Next1(q), Tail(ws), u, d - 1) /\ u <= d - 1
         /\ Head(ws).seq \in Sequence /\ Minus(o, Head(ws).seq) = d
<1> DEFINE t == Tail(ws)
<1>1. /\ r \in Sequence /\ q \in Sequence /\ Minus(o, r) = u /\ Minus(o, q) = d
      /\ Len(ws) = d - u
      /\ \A i \in DOMAIN ws : ws[i].seq \in Sequence /\ Minus(o, ws[i].seq) = d + 1 - i
  BY DEF Reads
<1>2. /\ \A j \in DOMAIN t : j \in Int /\ j + 1 \in DOMAIN ws /\ t[j] = ws[j + 1]
      /\ 1 \in DOMAIN ws /\ Head(ws) = ws[1]
  BY TailShifts
<1>3. Len(t) = Len(ws) - 1 /\ Len(ws) >= 1
  BY TailAt
<1> HIDE DEF t
<1>4. Minus(o, q) > 0
  BY <1>1, <1>3
<1>5. Next1(q) \in Sequence /\ Minus(o, Next1(q)) = Minus(o, q) - 1
  BY <1>1, <1>4, BehindFacts, Zenon
<1>6. ASSUME NEW j \in DOMAIN t PROVE t[j].seq \in Sequence /\ Minus(o, t[j].seq) = (d - 1) + 1 - j
  <2>1. j + 1 \in DOMAIN ws /\ t[j] = ws[j + 1] /\ j \in Int
    BY <1>2, Zenon
  <2>2. ws[j + 1].seq \in Sequence /\ Minus(o, ws[j + 1].seq) = d + 1 - (j + 1)
    BY <1>1, <2>1, Zenon
  <2>3. d + 1 - (j + 1) = (d - 1) + 1 - j
    BY <2>1
  <2>4. QED
    BY <2>1, <2>2, <2>3, Zenon
<1>7. Minus(o, Next1(q)) = d - 1 /\ Len(t) = (d - 1) - u /\ u <= d - 1
  BY <1>1, <1>3, <1>5
<1>8. Head(ws).seq \in Sequence /\ Minus(o, Head(ws).seq) = d
  BY <1>1, <1>2
<1>9. QED
  BY <1>1, <1>5, <1>6, <1>7, <1>8, Zenon DEF Reads, t

-----------------------------------------------------------------------------
(* Copies on the way down.                                                  *)

(* The first copy is the next frame to read, or one read before it.         *)
LEMMA FirstCopy ==
  ASSUME NEW o, NEW W, NEW u \in Nat, NEW T, NEW dn \in Seq(T), dn # <<>>,
         Copies(o, W, u, dn), Head(dn).type = "OUTPUT"
  PROVE  /\ Head(dn).seq \in Sequence
         /\ Minus(o, Head(dn).seq) \in u .. u + OUTPUT_WINDOW /\ Minus(o, Head(dn).seq) >= 1
         /\ Minus(o, Head(dn).seq) = u => Head(dn).data = W[Len(W) + 1 - u].data
<1>1. Head(dn) = dn[1] /\ 1 \in DOMAIN dn
  BY TailShifts
<1>2. /\ dn[1].seq \in Sequence
      /\ Minus(o, dn[1].seq) \in 1 .. u + OUTPUT_WINDOW
      /\ Minus(o, dn[1].seq) <= u => dn[1].data = W[Len(W) + 1 - Minus(o, dn[1].seq)].data
      /\ Minus(o, dn[1].seq) < u =>
           \E i \in 1 .. 1 - 1 : dn[i].type = "OUTPUT" /\ Minus(o, dn[i].seq) = Minus(o, dn[1].seq) + 1
  BY <1>1, Zenon DEF Copies
<1>3. ~(Minus(o, dn[1].seq) < u)
  BY <1>2
<1>4. OUTPUT_WINDOW \in Nat
  BY Modulus
<1>5. QED
  BY <1>1, <1>2, <1>3, <1>4

(* A copy, without what it says of the messages before it.                  *)
Copy(o, W, u, m) ==
  /\ m.seq \in Sequence
  /\ Minus(o, m.seq) \in 1 .. u + OUTPUT_WINDOW
  /\ Minus(o, m.seq) <= u => m.data = W[Len(W) + 1 - Minus(o, m.seq)].data

(* The first message goes; if it was the next frame, that one is read.      *)
LEMMA CopiesPopped ==
  ASSUME NEW o, NEW W, NEW u \in Nat, NEW T, NEW dn \in Seq(T), dn # <<>>, Copies(o, W, u, dn),
         NEW v \in Nat,
         \/ v = u /\ (Head(dn).type # "OUTPUT" \/ Minus(o, Head(dn).seq) # u)
         \/ v = u - 1 /\ Head(dn).type = "OUTPUT" /\ Minus(o, Head(dn).seq) = u
  PROVE  Copies(o, W, v, Tail(dn))
<1> DEFINE t == Tail(dn)
<1>1. /\ \A j \in DOMAIN t :
           /\ j \in Int /\ j + 1 \in DOMAIN dn /\ t[j] = dn[j + 1] /\ 1 \in 1 .. (j + 1) - 1
           /\ \A i \in 1 .. j - 1 : i + 1 \in 1 .. (j + 1) - 1 /\ t[i] = dn[i + 1]
           /\ \A i \in 1 .. (j + 1) - 1 : i = 1 \/ (i - 1 \in 1 .. j - 1 /\ t[i - 1] = dn[i])
      /\ Head(dn) = dn[1]
  BY TailShifts
<1>2. dn[1].type = "OUTPUT" => Minus(o, dn[1].seq) \in u .. u + OUTPUT_WINDOW
  <2>1. Head(dn).type = "OUTPUT" => Minus(o, Head(dn).seq) \in u .. u + OUTPUT_WINDOW
    BY FirstCopy
  <2>2. QED
    BY <1>1, <2>1, Zenon
<1> HIDE DEF t
<1>3. OUTPUT_WINDOW \in Nat
  BY Modulus
<1>4. ASSUME NEW j \in DOMAIN t, t[j].type = "OUTPUT"
      PROVE  /\ Copy(o, W, v, t[j])
             /\ Minus(o, t[j].seq) < v => \E i \in 1 .. j - 1 :
                  t[i].type = "OUTPUT" /\ Minus(o, t[i].seq) = Minus(o, t[j].seq) + 1
             /\ \A i \in 1 .. j - 1 :
                  t[i].type = "OUTPUT" => Minus(o, t[j].seq) < Minus(o, t[i].seq) + OUTPUT_WINDOW
  <2> DEFINE b == Minus(o, t[j].seq)
  <2>1. /\ t[j].seq \in Sequence /\ b \in 1 .. u + OUTPUT_WINDOW
        /\ b <= u => t[j].data = W[Len(W) + 1 - b].data
        /\ b < u => \E i \in 1 .. (j + 1) - 1 : dn[i].type = "OUTPUT" /\ Minus(o, dn[i].seq) = b + 1
        /\ \A i \in 1 .. (j + 1) - 1 :
             dn[i].type = "OUTPUT" => b < Minus(o, dn[i].seq) + OUTPUT_WINDOW
    <3>1. j + 1 \in DOMAIN dn /\ dn[j + 1].type = "OUTPUT" /\ t[j] = dn[j + 1]
      BY <1>1, <1>4, Zenon
    <3>2. QED
      BY <3>1, Zenon DEF Copies
  <2>2. 1 \in 1 .. (j + 1) - 1
    BY <1>1, Zenon
  <2> HIDE DEF b
  <2>3. v <= u /\ (v # u => v = u - 1 /\ dn[1].type = "OUTPUT" /\ Minus(o, dn[1].seq) = u)
    BY <1>1
  <2>4. b \in 1 .. v + OUTPUT_WINDOW
    <3>1. CASE v = u
      BY <2>1, <3>1
    <3>2. CASE v # u
      <4>1. b < u + OUTPUT_WINDOW
        BY <2>1, <2>2, <2>3, <3>2, Zenon
      <4>2. QED
        BY <1>3, <2>1, <2>3, <3>2, <4>1
    <3>3. QED
      BY <3>1, <3>2
  <2>5. b <= v => t[j].data = W[Len(W) + 1 - b].data
    <3>1. b <= v => b <= u
      BY <2>1, <2>3
    <3>2. QED
      BY <2>1, <3>1, Zenon
  <2>6. ASSUME b < v PROVE \E i \in 1 .. j - 1 : t[i].type = "OUTPUT" /\ Minus(o, t[i].seq) = b + 1
    <3>1. b < u
      BY <2>1, <2>3, <2>6
    <3>2. PICK i \in 1 .. (j + 1) - 1 : dn[i].type = "OUTPUT" /\ Minus(o, dn[i].seq) = b + 1
      BY <2>1, <3>1
    <3>3. i # 1
      <4>1. CASE v = u
        <5>1. dn[1].type # "OUTPUT" \/ Minus(o, dn[1].seq) > u
          BY <1>1, <1>2, <1>3, <4>1
        <5>2. b + 1 <= u
          BY <2>1, <3>1
        <5>3. dn[1].type # "OUTPUT" \/ Minus(o, dn[1].seq) # b + 1
          BY <1>2, <5>1, <5>2
        <5>4. QED
          BY <3>2, <5>3, Zenon
      <4>2. CASE v # u
        <5>1. b + 1 # u
          BY <2>1, <2>3, <2>6, <4>2
        <5>2. QED
          BY <2>3, <3>2, <4>2, <5>1, Zenon
      <4>3. QED
        BY <4>1, <4>2
    <3>4. i - 1 \in 1 .. j - 1 /\ t[i - 1] = dn[i]
      BY <1>1, <3>3, Zenon
    <3>5. QED
      BY <3>2, <3>4, Zenon
  <2>7. ASSUME NEW i \in 1 .. j - 1, t[i].type = "OUTPUT"
        PROVE  b < Minus(o, t[i].seq) + OUTPUT_WINDOW
    <3>1. i + 1 \in 1 .. (j + 1) - 1 /\ t[i] = dn[i + 1]
      BY <1>1, Zenon
    <3>2. dn[i + 1].type = "OUTPUT"
      BY <2>7, <3>1, Zenon
    <3>3. b < Minus(o, dn[i + 1].seq) + OUTPUT_WINDOW
      BY <2>1, <3>1, <3>2
    <3>4. QED
      BY <3>1, <3>3, Zenon
  <2>8. QED
    BY <2>1, <2>4, <2>5, <2>6, <2>7, Zenon DEF Copy, b
<1>5. QED
  BY <1>4, Zenon DEF Copies, Copy, t

(* A copy of a frame of the window more, after the frame before it.         *)
LEMMA CopiesPushed ==
  ASSUME NEW o, NEW W, Len(W) \in Nat, Len(W) <= OUTPUT_WINDOW, NEW u \in Nat, u <= Len(W),
         NEW T, NEW dn \in Seq(T), Copies(o, W, u, dn), NEW m \in T,
         m.type = "OUTPUT" =>
           /\ Copy(o, W, u, m) /\ Minus(o, m.seq) <= Len(W)
           /\ Minus(o, m.seq) < u =>
                \E i \in DOMAIN dn : dn[i].type = "OUTPUT" /\ Minus(o, dn[i].seq) = Minus(o, m.seq) + 1
  PROVE  Copies(o, W, u, Append(dn, m))
<1> DEFINE t == Append(dn, m)
<1>1. /\ \A j \in DOMAIN t : \/ j = Len(dn) + 1 /\ t[j] = m
                             \/ j \in DOMAIN dn /\ j # Len(dn) + 1 /\ t[j] = dn[j]
      /\ \A j \in DOMAIN t : \A i \in 1 .. j - 1 : i \in DOMAIN dn /\ t[i] = dn[i]
      /\ Len(dn) \in Nat /\ DOMAIN dn = 1 .. Len(dn)
  BY AppendShifts
<1> HIDE DEF t
<1>2. OUTPUT_WINDOW \in Nat
  BY Modulus
<1>3. ASSUME NEW j \in DOMAIN t, t[j].type = "OUTPUT"
      PROVE  /\ Copy(o, W, u, t[j])
             /\ Minus(o, t[j].seq) < u => \E i \in 1 .. j - 1 :
                  t[i].type = "OUTPUT" /\ Minus(o, t[i].seq) = Minus(o, t[j].seq) + 1
             /\ \A i \in 1 .. j - 1 :
                  t[i].type = "OUTPUT" => Minus(o, t[j].seq) < Minus(o, t[i].seq) + OUTPUT_WINDOW
  <2>1. CASE j = Len(dn) + 1 /\ t[j] = m
    <3>1. DOMAIN dn = 1 .. j - 1
      BY <1>1, <2>1
    <3>2. \A i \in 1 .. j - 1 : t[i] = dn[i] /\ i \in DOMAIN dn
      BY <1>1, Zenon
    <3>3. ASSUME NEW i \in 1 .. j - 1, t[i].type = "OUTPUT"
          PROVE  Minus(o, m.seq) < Minus(o, t[i].seq) + OUTPUT_WINDOW
      <4>1. Minus(o, dn[i].seq) \in 1 .. u + OUTPUT_WINDOW
        BY <3>2, <3>3, Zenon DEF Copies
      <4>2. Minus(o, m.seq) \in 1 .. u + OUTPUT_WINDOW /\ Minus(o, m.seq) <= Len(W)
        BY <1>3, <2>1, Zenon DEF Copy
      <4>3. t[i] = dn[i]
        BY <3>2
      <4> DEFINE x == Minus(o, m.seq)
                 y == Minus(o, dn[i].seq)
      <4> HIDE DEF x, y
      <4>4. x < y + OUTPUT_WINDOW
        BY <1>2, <4>1, <4>2 DEF x, y
      <4>5. QED
        BY <4>3, <4>4, Zenon DEF x, y
    <3>4. QED
      BY <1>3, <2>1, <3>1, <3>2, <3>3, Zenon
  <2>2. CASE j \in DOMAIN dn /\ t[j] = dn[j]
    BY <1>1, <1>3, <2>2, Zenon DEF Copies, Copy
  <2>3. QED
    BY <1>1, <2>1, <2>2
<1>4. QED
  BY <1>3, Zenon DEF Copies, Copy, t

LEMMA CopiesStaged ==
  ASSUME NEW o \in Sequence, NEW W \in Seq(Frames), NEW f \in Frames, NEW u \in Nat, u <= Len(W),
         Len(W) < OUTPUT_WINDOW, NEW T, NEW dn \in Seq(T), Copies(o, W, u, dn)
  PROVE  Copies(Next1(o), Append(W, f), u + 1, dn)
<1> DEFINE V == Append(W, f)
<1>1. /\ \A j \in DOMAIN W : V[j] = W[j]
      /\ Len(V) = Len(W) + 1 /\ Len(W) \in Nat /\ DOMAIN W = 1 .. Len(W)
  BY AppendShifts
<1> HIDE DEF V
<1>2. OUTPUT_WINDOW \in Nat
  BY Modulus
<1>3. ASSUME NEW j \in DOMAIN dn, dn[j].type = "OUTPUT"
      PROVE  Minus(Next1(o), dn[j].seq) = Minus(o, dn[j].seq) + 1 /\ Minus(o, dn[j].seq) \in Int
  <2>1. dn[j].seq \in Sequence /\ Minus(o, dn[j].seq) \in 1 .. u + OUTPUT_WINDOW
    BY <1>3, Zenon DEF Copies
  <2>2. Minus(o, dn[j].seq) < 2 * OUTPUT_WINDOW /\ Minus(o, dn[j].seq) \in Int
    BY <1>1, <1>2, <2>1
  <2>3. QED
    BY <2>1, <2>2, BehindNext, Zenon
<1>4. \A j \in DOMAIN dn : \A i \in 1 .. j - 1 : i \in DOMAIN dn
  OBVIOUS
<1>5. ASSUME NEW j \in DOMAIN dn, dn[j].type = "OUTPUT"
      PROVE  /\ Copy(Next1(o), V, u + 1, dn[j])
             /\ Minus(Next1(o), dn[j].seq) < u + 1 => \E i \in 1 .. j - 1 :
                  dn[i].type = "OUTPUT" /\ Minus(Next1(o), dn[i].seq) = Minus(Next1(o), dn[j].seq) + 1
             /\ \A i \in 1 .. j - 1 : dn[i].type = "OUTPUT" =>
                  Minus(Next1(o), dn[j].seq) < Minus(Next1(o), dn[i].seq) + OUTPUT_WINDOW
  <2> DEFINE b == Minus(o, dn[j].seq)
  <2>1. /\ dn[j].seq \in Sequence /\ b \in 1 .. u + OUTPUT_WINDOW
        /\ b <= u => dn[j].data = W[Len(W) + 1 - b].data
        /\ b < u => \E i \in 1 .. j - 1 : dn[i].type = "OUTPUT" /\ Minus(o, dn[i].seq) = b + 1
        /\ \A i \in 1 .. j - 1 : dn[i].type = "OUTPUT" => b < Minus(o, dn[i].seq) + OUTPUT_WINDOW
    BY <1>5, Zenon DEF Copies
  <2>2. Minus(Next1(o), dn[j].seq) = b + 1
    BY <1>3, <1>5, Zenon
  <2> HIDE DEF b
  <2>3. b + 1 \in 1 .. (u + 1) + OUTPUT_WINDOW
    BY <1>2, <2>1
  <2>4. b + 1 <= u + 1 => dn[j].data = V[Len(V) + 1 - (b + 1)].data
    <3>1. b + 1 <= u + 1 => b <= u /\ Len(W) + 1 - b \in DOMAIN W /\ Len(V) + 1 - (b + 1) = Len(W) + 1 - b
      BY <1>1, <2>1
    <3>2. QED
      BY <1>1, <2>1, <3>1, Zenon
  <2>5. ASSUME b + 1 < u + 1
        PROVE  \E i \in 1 .. j - 1 : dn[i].type = "OUTPUT" /\ Minus(Next1(o), dn[i].seq) = (b + 1) + 1
    <3>1. b < u
      BY <2>1, <2>5
    <3>2. PICK i \in 1 .. j - 1 : dn[i].type = "OUTPUT" /\ Minus(o, dn[i].seq) = b + 1
      BY <2>1, <3>1
    <3>3. Minus(Next1(o), dn[i].seq) = (b + 1) + 1
      BY <1>3, <1>4, <3>2
    <3>4. QED
      BY <3>2, <3>3
  <2>6. ASSUME NEW i \in 1 .. j - 1, dn[i].type = "OUTPUT"
        PROVE  b + 1 < Minus(Next1(o), dn[i].seq) + OUTPUT_WINDOW
    <3>1. b < Minus(o, dn[i].seq) + OUTPUT_WINDOW
      BY <2>1, <2>6, Zenon
    <3>2. Minus(Next1(o), dn[i].seq) = Minus(o, dn[i].seq) + 1 /\ Minus(o, dn[i].seq) \in Int
      BY <1>3, <1>4, <2>6, Zenon
    <3>3. QED
      BY <1>2, <2>1, <3>1, <3>2
  <2>7. QED
    BY <2>1, <2>2, <2>3, <2>4, <2>5, <2>6, Zenon DEF Copy
<1>6. QED
  BY <1>5, Zenon DEF Copies, Copy, V

(* Another window with the same last frames.                                *)
LEMMA CopiesCut ==
  ASSUME NEW o, NEW W \in Seq(Frames), NEW u \in Nat, NEW k \in 1 .. Len(W), u <= Len(W) - k,
         NEW dn, Copies(o, W, u, dn)
  PROVE  Copies(o, Rest(W, k), u, dn)
<1> DEFINE V == Rest(W, k)
<1>1. Len(V) = Len(W) - k /\ \A i \in 1 .. Len(W) - k : V[i] = W[k + i]
  BY CutAt
<1> HIDE DEF V
<1>2. ASSUME NEW b \in Int, b >= 1, b <= u PROVE V[Len(V) + 1 - b] = W[Len(W) + 1 - b]
  <2>1. Len(V) + 1 - b \in 1 .. Len(W) - k /\ k + (Len(V) + 1 - b) = Len(W) + 1 - b
    BY <1>1, <1>2
  <2>2. QED
    BY <1>1, <2>1
<1>3. ASSUME NEW j \in DOMAIN dn, dn[j].type = "OUTPUT" PROVE Copy(o, V, u, dn[j])
  <2>1. Copy(o, W, u, dn[j])
    BY <1>3, Zenon DEF Copies, Copy
  <2>2. Minus(o, dn[j].seq) \in Int /\ Minus(o, dn[j].seq) >= 1
    BY <2>1, Modulus DEF Copy
  <2>3. QED
    BY <1>2, <2>1, <2>2, Zenon DEF Copy
<1>4. QED
  BY <1>3, Zenon DEF Copies, Copy, V

LEMMA CopiesMarked ==
  ASSUME NEW o, NEW W \in Seq(Frames), NEW u \in Nat, u <= Len(W), NEW S, NEW dn, Copies(o, W, u, dn)
  PROVE  Copies(o, Marked(W, S), u, dn)
<1>1. /\ Len(Marked(W, S)) = Len(W) /\ DOMAIN Marked(W, S) = DOMAIN W
      /\ \A i \in DOMAIN W : Marked(W, S)[i].data = W[i].data
  BY MarkedAt
<1>2. ASSUME NEW j \in DOMAIN dn, dn[j].type = "OUTPUT" PROVE Copy(o, Marked(W, S), u, dn[j])
  <2>1. Copy(o, W, u, dn[j])
    BY <1>2, Zenon DEF Copies, Copy
  <2>2. Minus(o, dn[j].seq) <= u => Len(W) + 1 - Minus(o, dn[j].seq) \in DOMAIN W
    BY <2>1, Modulus DEF Copy
  <2>3. QED
    BY <1>1, <2>1, <2>2, Zenon DEF Copy
<1>3. QED
  BY <1>2, Zenon DEF Copies, Copy

-----------------------------------------------------------------------------
(* What was sent.                                                           *)

LEMMA SentPopped ==
  ASSUME NEW o, NEW W \in Seq(Frames), Window(o, W), NEW u \in Nat, NEW T, NEW dn \in Seq(T),
         dn # <<>>, Copies(o, W, u, dn), Sent(W, u, dn), NEW v \in Nat,
         \/ v = u /\ (Head(dn).type # "OUTPUT" \/ Minus(o, Head(dn).seq) # u)
         \/ v = u - 1 /\ Head(dn).type = "OUTPUT" /\ Minus(o, Head(dn).seq) = u
  PROVE  Sent(W, v, Tail(dn))
<1> DEFINE t == Tail(dn)
<1>1. /\ \A j \in DOMAIN dn : j \in Int /\ (j = 1 \/ (j - 1 \in DOMAIN t /\ t[j - 1] = dn[j]))
      /\ Head(dn) = dn[1]
  BY TailShifts
<1>2. dn[1].type = "OUTPUT" => Minus(o, dn[1].seq) \in Int /\ Minus(o, dn[1].seq) >= u
  <2>1. Head(dn).type = "OUTPUT" => Minus(o, Head(dn).seq) \in u .. u + OUTPUT_WINDOW
    BY FirstCopy
  <2>2. QED
    BY <1>1, <2>1, Modulus
<1> HIDE DEF t
<1>3. ASSUME NEW i \in DOMAIN W, W[i].sent, Len(W) + 1 - i <= v
      PROVE  \E j \in DOMAIN t : t[j].type = "OUTPUT" /\ t[j].seq = W[i].seq
  <2>1. Len(W) + 1 - i <= u /\ Len(W) + 1 - i \in Int
    BY <1>3
  <2>2. PICK j \in DOMAIN dn : dn[j].type = "OUTPUT" /\ dn[j].seq = W[i].seq
    BY <1>3, <2>1, Zenon DEF Sent
  <2>3. Minus(o, W[i].seq) = Len(W) + 1 - i
    BY Zenon DEF Window
  <2>4. j # 1
    <3> SUFFICES ASSUME j = 1 PROVE FALSE
      OBVIOUS
    <3>1. dn[1].type = "OUTPUT" /\ Minus(o, dn[1].seq) = Len(W) + 1 - i
      BY <2>2, <2>3, Zenon
    <3>2. QED
      BY <1>1, <1>2, <1>3, <2>1, <3>1
  <2>5. QED
    BY <1>1, <2>2, <2>4, Zenon
<1>4. \A i \in DOMAIN W : W[i].sent => (i > 1 => W[i - 1].sent)
  BY Zenon DEF Sent
<1>5. Sent(W, v, t)
  BY <1>3, <1>4, Zenon DEF Sent
<1>6. QED
  BY <1>5, Zenon DEF t

LEMMA SentPushed ==
  ASSUME NEW W, NEW u, NEW T, NEW dn \in Seq(T), NEW m \in T, Sent(W, u, dn)
  PROVE  Sent(W, u, Append(dn, m))
<1> DEFINE t == Append(dn, m)
<1>1. \A j \in DOMAIN dn : j \in DOMAIN t /\ t[j] = dn[j]
  BY AppendShifts
<1> HIDE DEF t
<1>2. Sent(W, u, t)
  BY <1>1 DEF Sent
<1>3. QED
  BY <1>2, Zenon DEF t

LEMMA SentStaged ==
  ASSUME NEW W \in Seq(Frames), NEW f \in Frames, ~f.sent, NEW u \in Nat, NEW dn, Sent(W, u, dn)
  PROVE  Sent(Append(W, f), u + 1, dn)
<1> DEFINE V == Append(W, f)
<1>1. /\ \A j \in DOMAIN V : \/ j = Len(W) + 1 /\ V[j] = f
                             \/ j \in DOMAIN W /\ j # Len(W) + 1 /\ V[j] = W[j]
      /\ \A j \in DOMAIN V : \A i \in 1 .. j - 1 : i \in DOMAIN W /\ V[i] = W[i]
      /\ Len(V) = Len(W) + 1 /\ Len(W) \in Nat /\ DOMAIN W = 1 .. Len(W)
  BY AppendShifts
<1> HIDE DEF V
<1>2. ASSUME NEW i \in DOMAIN V, V[i].sent
      PROVE  /\ i > 1 => V[i - 1].sent
             /\ Len(V) + 1 - i <= u + 1 =>
                  \E j \in DOMAIN dn : dn[j].type = "OUTPUT" /\ dn[j].seq = V[i].seq
  <2>1. i \in DOMAIN W /\ V[i] = W[i]
    BY <1>1, <1>2
  <2>2. /\ i > 1 => W[i - 1].sent
        /\ Len(W) + 1 - i <= u => \E j \in DOMAIN dn : dn[j].type = "OUTPUT" /\ dn[j].seq = W[i].seq
    BY <1>2, <2>1 DEF Sent
  <2>3. i > 1 => V[i - 1] = W[i - 1]
    BY <1>1, <2>1
  <2>4. Len(V) + 1 - i <= u + 1 => Len(W) + 1 - i <= u
    BY <1>1, <2>1
  <2>5. QED
    BY <2>1, <2>2, <2>3, <2>4, Zenon
<1>3. QED
  BY <1>2, Zenon DEF Sent, V

LEMMA SentCut ==
  ASSUME NEW W \in Seq(Frames), NEW u \in Nat, NEW k \in 1 .. Len(W), NEW dn, Sent(W, u, dn)
  PROVE  Sent(Rest(W, k), u, dn)
<1> DEFINE V == Rest(W, k)
<1>1. V \in Seq(Frames) /\ Len(V) = Len(W) - k /\ \A i \in 1 .. Len(W) - k : V[i] = W[k + i]
  BY CutAt
<1> HIDE DEF V
<1>2. ASSUME NEW i \in DOMAIN V, V[i].sent
      PROVE  /\ i > 1 => V[i - 1].sent
             /\ Len(V) + 1 - i <= u =>
                  \E j \in DOMAIN dn : dn[j].type = "OUTPUT" /\ dn[j].seq = V[i].seq
  <2>1. i \in 1 .. Len(W) - k /\ k + i \in DOMAIN W /\ V[i] = W[k + i] /\ k + i > 1
    BY <1>1
  <2>2. /\ k + i > 1 => W[(k + i) - 1].sent
        /\ Len(W) + 1 - (k + i) <= u =>
             \E j \in DOMAIN dn : dn[j].type = "OUTPUT" /\ dn[j].seq = W[k + i].seq
    BY <1>2, <2>1, Zenon DEF Sent
  <2>3. i > 1 => V[i - 1] = W[(k + i) - 1]
    <3>1. ASSUME i > 1 PROVE i - 1 \in 1 .. Len(W) - k /\ k + (i - 1) = (k + i) - 1
      BY <2>1, <3>1
    <3>2. QED
      BY <1>1, <3>1
  <2>4. Len(W) + 1 - (k + i) = Len(V) + 1 - i
    BY <1>1, <2>1
  <2>5. QED
    BY <2>1, <2>2, <2>3, <2>4, Zenon
<1>3. QED
  BY <1>2, Zenon DEF Sent, V

(* Frames are sent in their order: each one comes after the one before it,  *)
(* sent now or earlier.                                                     *)
LEMMA FramesSent ==
  ASSUME NEW o, NEW W \in Seq(Frames), Window(o, W), Len(W) <= OUTPUT_WINDOW,
         NEW u \in Nat, u <= Len(W), NEW dn \in Seq(Messages), Copies(o, W, u, dn), Sent(W, u, dn),
         NEW now \in Seq(1 .. Len(W)), InOrder(W, now),
         NEW ms \in Seq(Messages), Len(ms) = Len(now),
         \A k \in DOMAIN now : /\ ms[k].type = "OUTPUT" /\ ms[k].seq = W[now[k]].seq
                               /\ ms[k].data = W[now[k]].data
  PROVE  /\ Copies(o, W, u, dn \o ms)
         /\ Sent(Marked(W, Range(now)), u, dn \o ms)
<1> DEFINE e == dn \o ms
<1>1. /\ Len(dn) \in Nat /\ Len(ms) \in Nat /\ DOMAIN dn = 1 .. Len(dn) /\ DOMAIN now = 1 .. Len(ms)
      /\ DOMAIN e = 1 .. Len(dn) + Len(ms) /\ Len(W) \in Nat /\ DOMAIN W = 1 .. Len(W)
      /\ \A i \in 1 .. Len(dn) : e[i] = dn[i]
      /\ \A i \in 1 .. Len(ms) : e[Len(dn) + i] = ms[i]
  <2>1. /\ DOMAIN e = 1 .. Len(dn) + Len(ms)
        /\ \A i \in 1 .. Len(dn) : e[i] = dn[i]
        /\ \A i \in 1 .. Len(ms) : e[Len(dn) + i] = ms[i]
    <3>1. DOMAIN (dn \o ms) = 1 .. Len(dn) + Len(ms)
      <4>1. dn \o ms \in Seq(Messages) /\ Len(dn \o ms) = Len(dn) + Len(ms)
        BY JoinAt
      <4>2. DOMAIN (dn \o ms) = 1 .. Len(dn \o ms)
        BY <4>1
      <4>3. QED
        BY <4>1, <4>2, Zenon
    <3>4. \A i \in 1 .. Len(dn) : (dn \o ms)[i] = dn[i]
      BY JoinAt
    <3>2. \A i \in 1 .. Len(ms) : (dn \o ms)[Len(dn) + i] = ms[i]
      BY JoinAt
    <3>3. QED
      BY <3>1, <3>2, <3>4
  <2>2. /\ Len(dn) \in Nat /\ Len(ms) \in Nat /\ DOMAIN dn = 1 .. Len(dn) /\ DOMAIN now = 1 .. Len(ms)
        /\ Len(W) \in Nat /\ DOMAIN W = 1 .. Len(W)
    OBVIOUS
  <2>3. QED
    BY <2>1, <2>2, Zenon
<1> HIDE DEF e
<1>2. OUTPUT_WINDOW \in Nat
  BY Modulus
<1>3. ASSUME NEW k \in DOMAIN now
      PROVE  /\ now[k] \in DOMAIN W /\ Len(dn) + k \in DOMAIN e /\ e[Len(dn) + k] = ms[k]
             /\ Minus(o, ms[k].seq) = Len(W) + 1 - now[k] /\ ms[k].seq \in Sequence
  <2>1. now[k] \in DOMAIN W /\ Len(dn) + k \in DOMAIN e /\ e[Len(dn) + k] = ms[k]
    BY <1>1
  <2>2. QED
    BY <2>1, Zenon DEF Window
(* A frame sent earlier or now has a copy before any position after it.     *)
<1>4. ASSUME NEW x \in DOMAIN W, Len(W) + 1 - x <= u, NEW n \in 1 .. Len(ms) + 1,
             W[x].sent \/ \E i \in 1 .. n - 1 : now[i] = x
      PROVE  \E i \in 1 .. (Len(dn) + n) - 1 : i \in DOMAIN e /\ e[i].type = "OUTPUT" /\ e[i].seq = W[x].seq
  <2>1. CASE W[x].sent
    <3>1. PICK i \in DOMAIN dn : dn[i].type = "OUTPUT" /\ dn[i].seq = W[x].seq
      BY <1>4, <2>1, Zenon DEF Sent
    <3>2. i \in 1 .. (Len(dn) + n) - 1 /\ i \in DOMAIN e /\ e[i] = dn[i]
      BY <1>1
    <3>3. QED
      BY <3>1, <3>2, Zenon
  <2>2. CASE \E i \in 1 .. n - 1 : now[i] = x
    <3>1. PICK i \in 1 .. n - 1 : now[i] = x
      BY <2>2
    <3>2. i \in DOMAIN now /\ Len(dn) + i \in 1 .. (Len(dn) + n) - 1
      BY <1>1
    <3>3. Len(dn) + i \in DOMAIN e /\ e[Len(dn) + i] = ms[i] /\ ms[i].type = "OUTPUT" /\ ms[i].seq = W[x].seq
      BY <1>3, <3>1, <3>2, Zenon
    <3>4. QED
      BY <3>2, <3>3, Zenon
  <2>3. QED
    BY <1>4, <2>1, <2>2
<1>5. ASSUME NEW j \in DOMAIN e, e[j].type = "OUTPUT"
      PROVE  /\ Copy(o, W, u, e[j])
             /\ Minus(o, e[j].seq) < u => \E i \in 1 .. j - 1 :
                  e[i].type = "OUTPUT" /\ Minus(o, e[i].seq) = Minus(o, e[j].seq) + 1
             /\ \A i \in 1 .. j - 1 :
                  e[i].type = "OUTPUT" => Minus(o, e[j].seq) < Minus(o, e[i].seq) + OUTPUT_WINDOW
  <2>1. CASE j \in DOMAIN dn
    <3>1. e[j] = dn[j] /\ \A i \in 1 .. j - 1 : e[i] = dn[i]
      BY <1>1, <2>1
    <3>2. QED
      BY <1>5, <2>1, <3>1 DEF Copies, Copy
  <2>2. CASE j \notin DOMAIN dn
    <3> DEFINE k == j - Len(dn)
               b == Len(W) + 1 - now[k]
    <3>1. k \in DOMAIN now /\ Len(dn) + k = j /\ k \in 1 .. Len(ms)
      BY <1>1, <2>2
    <3> HIDE DEF k
    <3>2. /\ e[j] = ms[k] /\ now[k] \in DOMAIN W /\ Minus(o, e[j].seq) = b
          /\ e[j].seq \in Sequence /\ e[j].data = W[now[k]].data
      BY <1>3, <3>1, Zenon
    <3>3. b \in 1 .. Len(W) /\ b \in 1 .. u + OUTPUT_WINDOW /\ Len(W) + 1 - b = now[k]
      <4> DEFINE y == now[k]
      <4>1. y \in 1 .. Len(W)
        BY <1>1, <3>2, Zenon
      <4> HIDE DEF y
      <4>2. /\ Len(W) + 1 - y \in 1 .. Len(W) /\ Len(W) + 1 - y \in 1 .. u + OUTPUT_WINDOW
            /\ Len(W) + 1 - (Len(W) + 1 - y) = y
        BY <1>1, <1>2, <4>1
      <4>3. QED
        BY <4>2, Zenon DEF y
    <3>4. Copy(o, W, u, e[j])
      BY <3>2, <3>3, Zenon DEF Copy
    <3>5. ASSUME b < u PROVE \E i \in 1 .. j - 1 : e[i].type = "OUTPUT" /\ Minus(o, e[i].seq) = b + 1
      <4> DEFINE y == now[k]
                 x == y - 1
      <4>1. x \in DOMAIN W /\ x \in 1 .. now[k] - 1 /\ Len(W) + 1 - x = b + 1 /\ b + 1 <= u
        <5>1. y \in 1 .. Len(W) /\ Len(W) + 1 - y < u
          BY <1>1, <3>2, <3>5, Zenon
        <5> HIDE DEF y
        <5>2. /\ y - 1 \in 1 .. Len(W) /\ y - 1 \in 1 .. y - 1
              /\ Len(W) + 1 - (y - 1) = (Len(W) + 1 - y) + 1 /\ (Len(W) + 1 - y) + 1 <= u
          BY <1>1, <5>1
        <5>3. QED
          BY <1>1, <5>2, Zenon DEF y
      <4>2. W[x].sent \/ \E i \in 1 .. k - 1 : now[i] = x
        BY <3>1, <4>1, Zenon DEF InOrder
      <4>3. k \in 1 .. Len(ms) + 1 /\ (Len(dn) + k) - 1 = j - 1
        BY <3>1
      <4> HIDE DEF x
      <4>4. PICK i \in 1 .. (Len(dn) + k) - 1 : e[i].type = "OUTPUT" /\ e[i].seq = W[x].seq
        <5>1. Len(W) + 1 - x <= u
          BY <4>1
        <5>2. QED
          BY <1>4, <4>1, <4>2, <4>3, <5>1
      <4>5. Minus(o, W[x].seq) = b + 1
        BY <4>1, Zenon DEF Window
      <4>6. QED
        BY <4>3, <4>4, <4>5, Zenon
    <3> HIDE DEF b
    <3>6. ASSUME NEW i \in 1 .. j - 1, e[i].type = "OUTPUT" PROVE b < Minus(o, e[i].seq) + OUTPUT_WINDOW
      <4>1. Minus(o, e[i].seq) \in Int /\ Minus(o, e[i].seq) >= 1
        <5>1. CASE i \in DOMAIN dn
          <6>1. e[i] = dn[i]
            BY <1>1, <5>1
          <6>2. Minus(o, dn[i].seq) \in 1 .. u + OUTPUT_WINDOW
            BY <3>6, <5>1, <6>1, Zenon DEF Copies
          <6>3. QED
            BY <1>2, <6>1, <6>2
        <5>2. CASE i \notin DOMAIN dn
          <6>1. i - Len(dn) \in DOMAIN now /\ Len(dn) + (i - Len(dn)) = i
            BY <1>1, <3>1, <5>2
          <6>2. PICK y \in DOMAIN W : Minus(o, e[i].seq) = Len(W) + 1 - y
            <7> DEFINE y2 == i - Len(dn)
            <7>1. /\ now[y2] \in DOMAIN W /\ e[Len(dn) + y2] = ms[y2]
                  /\ Minus(o, ms[y2].seq) = Len(W) + 1 - now[y2]
              BY <1>3, <6>1, Zenon
            <7>2. e[i] = ms[y2]
              BY <6>1, <7>1, Zenon
            <7>3. QED
              BY <7>1, <7>2, Zenon
          <6>3. QED
            BY <1>1, <6>2
        <5>3. QED
          BY <5>1, <5>2
      <4>2. QED
        BY <1>2, <3>3, <4>1
    <3>7. QED
      BY <3>2, <3>4, <3>5, <3>6, Zenon
  <2>3. QED
    BY <2>1, <2>2
<1>6. Copies(o, W, u, e)
  BY <1>5, Zenon DEF Copies, Copy
<1> DEFINE V == Marked(W, Range(now))
<1>7. /\ Len(V) = Len(W) /\ DOMAIN V = DOMAIN W
      /\ \A i \in DOMAIN W : V[i].seq = W[i].seq /\ (V[i].sent <=> W[i].sent \/ i \in Range(now))
  BY MarkedAt
<1> HIDE DEF V
<1>8. \A i : i \in Range(now) <=> \E k \in DOMAIN now : now[k] = i
  BY DEF Range
<1>9. ASSUME NEW i \in DOMAIN W, V[i].sent
      PROVE  /\ i > 1 => V[i - 1].sent
             /\ Len(W) + 1 - i <= u => \E j \in DOMAIN e : e[j].type = "OUTPUT" /\ e[j].seq = W[i].seq
  <2>1. W[i].sent \/ \E k \in DOMAIN now : now[k] = i
    BY <1>7, <1>8, <1>9, Zenon
  <2>2. ASSUME i > 1 PROVE V[i - 1].sent
    <3>1. i - 1 \in DOMAIN W
      BY <1>1, <2>2
    <3>2. W[i - 1].sent \/ \E k \in DOMAIN now : now[k] = i - 1
      <4>1. CASE W[i].sent
        BY <2>2, <4>1 DEF Sent
      <4>2. CASE \E k \in DOMAIN now : now[k] = i
        <5>1. PICK k \in DOMAIN now : now[k] = i
          BY <4>2
        <5>2. i - 1 \in 1 .. now[k] - 1
          BY <1>1, <2>2, <5>1
        <5>3. W[i - 1].sent \/ \E j \in 1 .. k - 1 : now[j] = i - 1
          BY <5>2, Zenon DEF InOrder
        <5>4. \A j \in 1 .. k - 1 : j \in DOMAIN now
          BY <1>1
        <5>5. QED
          BY <5>3, <5>4, Zenon
      <4>3. QED
        BY <2>1, <4>1, <4>2
    <3>3. QED
      BY <1>7, <1>8, <3>1, <3>2, Zenon
  <2>3. ASSUME Len(W) + 1 - i <= u PROVE \E j \in DOMAIN e : e[j].type = "OUTPUT" /\ e[j].seq = W[i].seq
    <3>1. Len(ms) + 1 \in 1 .. Len(ms) + 1 /\ DOMAIN now = 1 .. (Len(ms) + 1) - 1
      BY <1>1
    <3>2. W[i].sent \/ \E k \in 1 .. (Len(ms) + 1) - 1 : now[k] = i
      BY <2>1, <3>1, Zenon
    <3>3. QED
      BY <1>4, <2>3, <3>1, <3>2
  <2>4. QED
    BY <2>2, <2>3
<1>10. Sent(V, u, e)
  BY <1>7, <1>9, Zenon DEF Sent
<1>11. QED
  BY <1>6, <1>10, Zenon DEF e, V

(* The first of the frames to send, as many as there is room for.           *)
LEMMA OrderFirst ==
  ASSUME NEW W, NEW T, NEW s \in Seq(T), NEW n \in Nat, InOrder(W, s)
  PROVE  InOrder(W, First(s, n))
<1> DEFINE f == First(s, n)
<1>1. f \in Seq(T) /\ Len(f) <= Len(s) /\ \A i \in 1 .. Len(f) : f[i] = s[i]
  <2>1. f \in Seq(T) /\ Len(f) <= n /\ Len(f) <= Len(s)
    BY FirstFacts
  <2>2. \A i \in 1 .. Len(f) : f[i] = s[i]
    BY FirstThenRest
  <2>3. QED
    BY <2>1, <2>2
<1> HIDE DEF f
<1>2. ASSUME NEW k \in DOMAIN f, NEW x \in 1 .. f[k] - 1
      PROVE  W[x].sent \/ \E i \in 1 .. k - 1 : f[i] = x
  <2>1. k \in DOMAIN s /\ f[k] = s[k] /\ \A i \in 1 .. k - 1 : f[i] = s[i]
    BY <1>1
  <2>2. W[x].sent \/ \E i \in 1 .. k - 1 : s[i] = x
    BY <2>1 DEF InOrder
  <2>3. QED
    BY <2>1, <2>2
<1>3. QED
  BY <1>2 DEF InOrder, f

-----------------------------------------------------------------------------
(* Where the bytes written are: shown, in a frame, staged, in the ring.     *)

(* d stands in s after the first p bytes.                                   *)
At(s, p, d) == p + Len(d) <= Len(s) /\ \A j \in 1 .. Len(d) : s[p + j] = d[j]

LEMMA AtParts ==
  ASSUME NEW s \in Bytes, NEW p \in Nat, NEW a \in Bytes, NEW b \in Bytes
  PROVE  At(s, p, a \o b) <=> At(s, p, a) /\ At(s, p + Len(a), b)
<1> DEFINE d == a \o b
<1>1. /\ Len(d) = Len(a) + Len(b) /\ \A i \in 1 .. Len(a) : d[i] = a[i]
      /\ \A i \in 1 .. Len(b) : d[Len(a) + i] = b[i]
  BY JoinAt DEF Bytes
<1>2. Len(a) \in Nat /\ Len(b) \in Nat
  BY DEF Bytes
<1> HIDE DEF d
<1>3. ASSUME At(s, p, d) PROVE At(s, p, a) /\ At(s, p + Len(a), b)
  <2>1. p + Len(d) <= Len(s) /\ \A j \in 1 .. Len(d) : s[p + j] = d[j]
    BY <1>3 DEF At
  <2>2. Len(s) \in Nat
    BY DEF Bytes
  <2>3. At(s, p, a)
    BY <1>1, <1>2, <2>1, <2>2 DEF At
  <2>4. ASSUME NEW j \in 1 .. Len(b) PROVE s[(p + Len(a)) + j] = b[j]
    <3>1. Len(a) + j \in 1 .. Len(d) /\ p + (Len(a) + j) = (p + Len(a)) + j
      BY <1>1, <1>2
    <3>2. QED
      BY <1>1, <2>1, <3>1
  <2>5. (p + Len(a)) + Len(b) <= Len(s)
    BY <1>1, <1>2, <2>1
  <2>6. QED
    BY <2>3, <2>4, <2>5 DEF At
<1>4. ASSUME At(s, p, a), At(s, p + Len(a), b) PROVE At(s, p, d)
  <2>1. /\ \A j \in 1 .. Len(a) : s[p + j] = a[j]
        /\ (p + Len(a)) + Len(b) <= Len(s) /\ \A j \in 1 .. Len(b) : s[(p + Len(a)) + j] = b[j]
    BY <1>4 DEF At
  <2>2. ASSUME NEW j \in 1 .. Len(d) PROVE s[p + j] = d[j]
    <3>1. CASE j <= Len(a)
      <4>1. j \in 1 .. Len(a)
        BY <1>1, <1>2, <3>1
      <4>2. QED
        BY <1>1, <2>1, <4>1, Zenon
    <3>2. CASE j > Len(a)
      <4> DEFINE i == j - Len(a)
      <4>1. i \in 1 .. Len(b) /\ Len(a) + i = j /\ (p + Len(a)) + i = p + j
        BY <1>1, <1>2, <3>2
      <4> HIDE DEF i
      <4>2. d[Len(a) + i] = b[i] /\ s[(p + Len(a)) + i] = b[i]
        BY <1>1, <2>1, <4>1, Zenon
      <4>3. QED
        BY <4>1, <4>2, Zenon
    <3>3. QED
      BY <1>2, <3>1, <3>2
  <2>3. p + Len(d) <= Len(s)
    BY <1>1, <1>2, <2>1
  <2>4. QED
    BY <2>2, <2>3 DEF At
<1>5. QED
  BY <1>3, <1>4 DEF d

LEMMA AtAppended ==
  ASSUME NEW s \in Bytes, NEW p \in Nat, NEW d \in Bytes, NEW b \in Byte, At(s, p, d)
  PROVE  /\ At(Append(s, b), p, d)
         /\ p + Len(d) = Len(s) => At(Append(s, b), p, Append(d, b))
<1> DEFINE t == Append(s, b)
           e == Append(d, b)
<1>1. /\ Len(s) \in Nat /\ Len(d) \in Nat /\ Len(t) = Len(s) + 1 /\ Len(e) = Len(d) + 1
      /\ t[Len(s) + 1] = b /\ e[Len(d) + 1] = b
      /\ \A i \in 1 .. Len(s) : t[i] = s[i] /\ \A j \in 1 .. Len(d) : e[j] = d[j]
  BY DEF Bytes
<1> HIDE DEF t, e
<1>2. p + Len(d) <= Len(s) /\ \A j \in 1 .. Len(d) : s[p + j] = d[j]
  BY DEF At
<1>3. ASSUME NEW j \in 1 .. Len(d) PROVE t[p + j] = d[j]
  <2>1. p + j \in 1 .. Len(s)
    BY <1>1, <1>2
  <2>2. QED
    BY <1>1, <1>2, <2>1
<1>4. At(t, p, d)
  BY <1>1, <1>2, <1>3 DEF At
<1>5. ASSUME p + Len(d) = Len(s) PROVE At(t, p, e)
  <2>1. ASSUME NEW j \in 1 .. Len(e) PROVE t[p + j] = e[j]
    <3>1. CASE j \in 1 .. Len(d)
      <4>1. e[j] = d[j]
        <5>1. 1 \in 1 .. Len(s)
          BY <1>1, <1>5, <3>1
        <5>2. QED
          BY <1>1, <3>1, <5>1
      <4>2. QED
        BY <1>3, <3>1, <4>1
    <3>2. CASE j = Len(d) + 1
      <4>1. p + j = Len(s) + 1
        BY <1>1, <1>5, <3>2
      <4>2. QED
        BY <1>1, <3>2, <4>1
    <3>3. QED
      BY <1>1, <3>1, <3>2
  <2>2. p + Len(e) <= Len(t)
    BY <1>1, <1>5
  <2>3. QED
    BY <2>1, <2>2 DEF At
<1>6. QED
  BY <1>4, <1>5 DEF t, e

LEMMA AtWhole ==
  ASSUME NEW s \in Bytes, NEW d \in Bytes, At(s, 0, d), Len(s) = Len(d)
  PROVE  s = d
<1>1. ASSUME NEW i \in 1 .. Len(s) PROVE s[i] = d[i]
  <2>1. s[0 + i] = d[i]
    BY DEF At
  <2>2. 0 + i = i
    OBVIOUS
  <2>3. QED
    BY <2>1, <2>2
<1>2. QED
  BY <1>1, SameSequences DEF Bytes

LEMMA AtNothing ==
  ASSUME NEW s \in Bytes, NEW p \in Nat, p <= Len(s)
  PROVE  At(s, p, <<>>)
  BY DEF At

(* A byte ring parts into what is taken of it and the rest.                 *)
LEMMA Parted ==
  ASSUME NEW s \in Bytes, NEW n \in Nat
  PROVE  /\ First(s, n) \in Bytes /\ Rest(s, n) \in Bytes /\ s = First(s, n) \o Rest(s, n)
         /\ Len(First(s, n)) \in Nat /\ Len(Rest(s, n)) \in Nat
         /\ Len(s) = Len(First(s, n)) + Len(Rest(s, n))
<1>1. /\ First(s, n) \in Bytes /\ Rest(s, n) \in Bytes /\ s = First(s, n) \o Rest(s, n)
      /\ Len(Rest(s, n)) = Len(s) - Len(First(s, n))
  BY FirstThenRest DEF Bytes
<1>2. Len(First(s, n)) \in Nat /\ Len(Rest(s, n)) \in Nat /\ Len(s) \in Nat
  BY <1>1 DEF Bytes
<1>3. QED
  BY <1>1, <1>2

-----------------------------------------------------------------------------
(* What is written for an owner of the rings is what it was shown, the last *)
(* u frames of the window, the frame being staged and the ring; E[k] bytes  *)
(* come before the last k frames.                                           *)
Data(W, k) == W[Len(W) + 1 - k].data

Laid(E, W, st, tx, wr, sh, u) ==
  /\ E[u] = Len(sh)
  /\ \A k \in 1 .. u : E[k - 1] = E[k] + Len(Data(W, k)) /\ At(wr, E[k], Data(W, k))
  /\ At(wr, E[0], st) /\ At(wr, E[0] + Len(st), tx) /\ Len(wr) = E[0] + Len(st) + Len(tx)

Flow(W, st, tx, wr, sh, u) ==
  /\ wr \in Bytes /\ sh \in Bytes /\ st \in Bytes /\ tx \in Bytes
  /\ At(wr, 0, sh)
  /\ \E E \in [0 .. u -> Nat] : Laid(E, W, st, tx, wr, sh, u)
  /\ \A i \in 1 .. Len(W) - u : W[i].data[1] \in Range(sh)

LEMMA FlowFresh == Flow(<<>>, <<>>, <<>>, <<>>, <<>>, 0)
<1>1. <<>> \in Bytes /\ Len(<<>>) = 0 /\ 0 \in Nat
  BY NoBytes
<1>2. At(<<>>, 0, <<>>)
  BY <1>1 DEF At
<1> DEFINE E == [k \in 0 .. 0 |-> 0]
<1>3. E \in [0 .. 0 -> Nat] /\ E[0] = 0
  OBVIOUS
<1> HIDE DEF E
<1>4. Laid(E, <<>>, <<>>, <<>>, <<>>, <<>>, 0)
  <2>1. 0 + 0 = 0 /\ 0 + 0 + 0 = 0 /\ 1 .. 0 = {}
    OBVIOUS
  <2>2. QED
    BY <1>1, <1>2, <1>3, <2>1, Zenon DEF Laid
<1>5. 1 .. 0 - 0 = {}
  OBVIOUS
<1>6. QED
  BY <1>1, <1>2, <1>3, <1>4, <1>5 DEF Flow

(* Frames that are shown leave the window.                                  *)
LEMMA FlowCut ==
  ASSUME NEW W \in Seq(Frames), NEW u \in Nat, NEW k \in 1 .. Len(W), u <= Len(W) - k,
         NEW st, NEW tx, NEW wr, NEW sh, Flow(W, st, tx, wr, sh, u)
  PROVE  Flow(Rest(W, k), st, tx, wr, sh, u)
<1> DEFINE V == Rest(W, k)
<1>1. Len(V) = Len(W) - k /\ (\A i \in 1 .. Len(W) - k : V[i] = W[k + i]) /\ Len(W) \in Nat
  <2>1. Len(W) \in Nat
    OBVIOUS
  <2>2. QED
    BY <2>1, CutAt, Zenon
<1> HIDE DEF V
<1>2. ASSUME NEW b \in 1 .. u PROVE Data(V, b) = Data(W, b)
  <2>1. Len(V) + 1 - b \in 1 .. Len(W) - k /\ k + (Len(V) + 1 - b) = Len(W) + 1 - b
    BY <1>1
  <2>2. QED
    BY <1>1, <2>1 DEF Data
<1>3. ASSUME NEW E, Laid(E, W, st, tx, wr, sh, u) PROVE Laid(E, V, st, tx, wr, sh, u)
  BY <1>2, <1>3, Zenon DEF Laid
<1>4. ASSUME NEW i \in 1 .. Len(V) - u PROVE V[i].data[1] \in Range(sh)
  <2>1. k + i \in 1 .. Len(W) - u /\ V[i] = W[k + i]
    BY <1>1
  <2>2. QED
    BY <2>1, Zenon DEF Flow
<1>5. QED
  BY <1>3, <1>4, Zenon DEF Flow, V

LEMMA FlowMarked ==
  ASSUME NEW W \in Seq(Frames), NEW S, NEW u \in Nat, u <= Len(W),
         NEW st, NEW tx, NEW wr, NEW sh, Flow(W, st, tx, wr, sh, u)
  PROVE  Flow(Marked(W, S), st, tx, wr, sh, u)
<1> DEFINE V == Marked(W, S)
<1>1. /\ Len(V) = Len(W) /\ DOMAIN W = 1 .. Len(W) /\ Len(W) \in Nat
      /\ \A i \in DOMAIN W : V[i].data = W[i].data
  BY MarkedAt
<1> HIDE DEF V
<1>2. ASSUME NEW b \in 1 .. u PROVE Data(V, b) = Data(W, b)
  <2>1. Len(V) + 1 - b \in DOMAIN W /\ Len(V) = Len(W)
    BY <1>1
  <2>2. QED
    BY <1>1, <2>1 DEF Data
<1>3. ASSUME NEW E, Laid(E, W, st, tx, wr, sh, u) PROVE Laid(E, V, st, tx, wr, sh, u)
  BY <1>2, <1>3, Zenon DEF Laid
<1>4. ASSUME NEW i \in 1 .. Len(V) - u PROVE V[i].data[1] \in Range(sh)
  <2>1. i \in 1 .. Len(W) - u /\ i \in DOMAIN W
    BY <1>1
  <2>2. QED
    BY <1>1, <2>1, Zenon DEF Flow
<1>5. QED
  BY <1>3, <1>4, Zenon DEF Flow, V

(* The ring fills the frame being staged.                                   *)
LEMMA FlowFilled ==
  ASSUME NEW W, NEW u \in Nat, NEW st, NEW tx, NEW wr, NEW sh, Flow(W, st, tx, wr, sh, u), NEW n \in Nat
  PROVE  Flow(W, st \o First(tx, n), Rest(tx, n), wr, sh, u)
<1> DEFINE f == First(tx, n)
           r == Rest(tx, n)
           ss == st \o f
<1>1. wr \in Bytes /\ sh \in Bytes /\ st \in Bytes /\ tx \in Bytes
  BY Zenon DEF Flow
<1>2. f \in Bytes /\ r \in Bytes /\ tx = f \o r /\ Len(f) \in Nat /\ Len(r) \in Nat
      /\ Len(tx) = Len(f) + Len(r)
  BY <1>1, Parted
<1> HIDE DEF f, r
<1>3. ss \in Bytes /\ Len(ss) = Len(st) + Len(f) /\ Len(st) \in Nat
  BY <1>1, <1>2, JoinAt DEF Bytes
<1>4. ASSUME NEW E \in [0 .. u -> Nat], Laid(E, W, st, tx, wr, sh, u)
      PROVE  Laid(E, W, ss, r, wr, sh, u)
  <2>1. E[0] \in Nat /\ E[0] + Len(st) \in Nat
    BY <1>3
  <2>2. At(wr, E[0], st) /\ At(wr, E[0] + Len(st), tx) /\ Len(wr) = E[0] + Len(st) + Len(tx)
    BY <1>4, Zenon DEF Laid
  <2>3. At(wr, E[0] + Len(st), f) /\ At(wr, (E[0] + Len(st)) + Len(f), r)
    <3>1. At(wr, E[0] + Len(st), f \o r)
      BY <1>2, <2>2, Zenon
    <3>2. QED
      BY <1>1, <1>2, <2>1, <3>1, AtParts, Zenon
  <2>4. At(wr, E[0], ss)
    BY <1>1, <1>2, <2>1, <2>2, <2>3, AtParts, Zenon
  <2>5. (E[0] + Len(st)) + Len(f) = E[0] + Len(ss) /\ Len(wr) = E[0] + Len(ss) + Len(r)
    BY <1>2, <1>3, <2>1, <2>2
  <2> HIDE DEF ss
  <2>6. At(wr, E[0] + Len(ss), r)
    BY <2>3, <2>5, Zenon
  <2>7. QED
    BY <1>4, <2>4, <2>5, <2>6, Zenon DEF Laid
<1> HIDE DEF ss
<1>5. QED
  BY <1>1, <1>2, <1>3, <1>4, Zenon DEF Flow, ss, f, r

(* The frame staged joins the window.                                       *)
LEMMA FlowStaged ==
  ASSUME NEW W \in Seq(Frames), NEW u \in Nat, u <= Len(W), NEW f \in Frames,
         NEW tx, NEW wr, NEW sh, Flow(W, f.data, tx, wr, sh, u)
  PROVE  Flow(Append(W, f), <<>>, tx, wr, sh, u + 1)
<1> DEFINE V == Append(W, f)
<1>1. /\ \A j \in DOMAIN W : V[j] = W[j]
      /\ Len(V) = Len(W) + 1 /\ Len(W) \in Nat /\ DOMAIN W = 1 .. Len(W)
  BY AppendShifts
<1>2. V[Len(W) + 1] = f
  BY AppendAt
<1> HIDE DEF V
<1>3. /\ wr \in Bytes /\ sh \in Bytes /\ tx \in Bytes /\ At(wr, 0, sh) /\ f.data \in Bytes
      /\ \A i \in 1 .. Len(W) - u : W[i].data[1] \in Range(sh)
  BY Zenon DEF Flow
<1>4. Len(f.data) \in Nat /\ Len(tx) \in Nat
  BY <1>3 DEF Bytes
<1>5. Data(V, 1) = f.data
  <2>1. Len(V) + 1 - 1 = Len(W) + 1
    BY <1>1
  <2>2. QED
    BY <1>2, <2>1, Zenon DEF Data
<1>6. ASSUME NEW k \in 1 .. u PROVE Data(V, k + 1) = Data(W, k)
  <2>1. Len(V) + 1 - (k + 1) = Len(W) + 1 - k /\ Len(W) + 1 - k \in DOMAIN W
    BY <1>1
  <2>2. QED
    BY <1>1, <2>1, Zenon DEF Data
<1>7. PICK E \in [0 .. u -> Nat] : Laid(E, W, f.data, tx, wr, sh, u)
  BY Zenon DEF Flow
<1>8. /\ E[u] = Len(sh) /\ E[0] \in Nat
      /\ \A k \in 1 .. u : E[k - 1] = E[k] + Len(Data(W, k)) /\ At(wr, E[k], Data(W, k))
      /\ At(wr, E[0], f.data) /\ At(wr, E[0] + Len(f.data), tx)
      /\ Len(wr) = E[0] + Len(f.data) + Len(tx)
  <2>1. E[0] \in Nat
    OBVIOUS
  <2>2. QED
    BY <1>7, <2>1, Zenon DEF Laid
<1> DEFINE G == [k \in 0 .. u + 1 |-> IF k = 0 THEN E[0] + Len(f.data) ELSE E[k - 1]]
<1>9. /\ G[0] = E[0] + Len(f.data) /\ \A k \in 1 .. u + 1 : G[k] = E[k - 1]
      /\ G \in [0 .. u + 1 -> Nat]
  <2>1. ASSUME NEW k \in 1 .. u + 1 PROVE k \in 0 .. u + 1 /\ k # 0 /\ E[k - 1] \in Nat
    <3>1. k - 1 \in 0 .. u /\ k \in 0 .. u + 1 /\ k # 0
      OBVIOUS
    <3>2. QED
      BY <3>1
  <2>2. 0 \in 0 .. u + 1 /\ E[0] + Len(f.data) \in Nat
    BY <1>4, <1>8
  <2>3. \A k \in 0 .. u + 1 : k = 0 \/ k \in 1 .. u + 1
    OBVIOUS
  <2>4. QED
    BY <2>1, <2>2, <2>3, Zenon
<1> HIDE DEF G
<1>10. Laid(G, V, <<>>, tx, wr, sh, u + 1)
  <2>1. G[u + 1] = Len(sh)
    <3>1. u + 1 \in 1 .. u + 1 /\ (u + 1) - 1 = u
      OBVIOUS
    <3>2. QED
      BY <1>8, <1>9, <3>1, Zenon
  <2>2. ASSUME NEW k \in 1 .. u + 1
        PROVE  G[k - 1] = G[k] + Len(Data(V, k)) /\ At(wr, G[k], Data(V, k))
    <3>1. CASE k = 1
      <4>1. 1 - 1 = 0 /\ 1 \in 1 .. u + 1
        OBVIOUS
      <4>2. G[1] = E[0] /\ G[1 - 1] = G[0]
        BY <1>9, <4>1, Zenon
      <4>3. QED
        BY <1>5, <1>8, <1>9, <3>1, <4>2, Zenon
    <3>2. CASE k # 1
      <4> DEFINE b == k - 1
      <4>1. b \in 1 .. u /\ b + 1 = k /\ b \in 1 .. u + 1
        BY <3>2
      <4> HIDE DEF b
      <4>2. (b + 1) - 1 = b
        BY <4>1
      <4>3. G[k] = E[b] /\ G[k - 1] = E[b - 1] /\ Data(V, k) = Data(W, b)
        <5>1. k - 1 = b
          BY <4>1, <4>2, Zenon
        <5>2. QED
          BY <1>6, <1>9, <4>1, <5>1, Zenon
      <4>4. QED
        BY <1>8, <4>1, <4>3, Zenon
    <3>3. QED
      BY <3>1, <3>2
  <2>3. /\ G[0] + Len(<<>>) = G[0] /\ Len(wr) = G[0] + Len(<<>>) + Len(tx)
        /\ G[0] <= Len(wr) /\ G[0] \in Nat
    BY <1>4, <1>8, <1>9
  <2>4. At(wr, G[0], <<>>)
    BY <1>3, <2>3, AtNothing
  <2>5. At(wr, G[0] + Len(<<>>), tx)
    BY <1>8, <1>9, <2>3, Zenon
  <2>6. QED
    BY <2>1, <2>2, <2>3, <2>4, <2>5, Zenon DEF Laid
<1>11. Len(V) - (u + 1) = Len(W) - u /\ \A i \in 1 .. Len(W) - u : V[i] = W[i]
  BY <1>1
<1>12. QED
  BY <1>3, <1>9, <1>10, <1>11, NoBytes, Zenon DEF Flow, V

(* What the data of a frame is.                                             *)
LEMMA DataFacts ==
  ASSUME NEW W \in Seq(Frames), NEW u \in Nat, u <= Len(W), NEW k \in 1 .. u
  PROVE  /\ Len(W) + 1 - k \in DOMAIN W /\ Data(W, k) \in Bytes /\ Len(Data(W, k)) \in Nat
         /\ Data(W, k) # <<>> => 1 \in 1 .. Len(Data(W, k)) /\ Len(Data(W, k)) >= 1
<1>1. Len(W) + 1 - k \in DOMAIN W
  OBVIOUS
<1>2. W[Len(W) + 1 - k] \in Frames
  BY <1>1
<1>3. Data(W, k) \in Bytes
  BY <1>2 DEF Frames, Data
<1>4. QED
  BY <1>1, <1>3 DEF Bytes

(* The next frame is read.                                                  *)
LEMMA FlowRead ==
  ASSUME NEW W \in Seq(Frames), NEW u \in Nat, u > 0, u <= Len(W), Data(W, u) # <<>>,
         NEW st, NEW tx, NEW wr, NEW sh, Flow(W, st, tx, wr, sh, u)
  PROVE  Flow(W, st, tx, wr, sh \o Data(W, u), u - 1)
<1> DEFINE d == Data(W, u)
           t == sh \o d
           v == u - 1
<1>1. /\ u \in 1 .. u /\ v \in Nat /\ v + 1 = u
  OBVIOUS
<1>2. d \in Bytes /\ Len(d) \in Nat /\ Len(d) >= 1 /\ d # <<>> /\ 1 \in 1 .. Len(d)
  BY <1>1, DataFacts
<1>3. W[Len(W) + 1 - u].data = d
  BY DEF Data
<1>4. /\ wr \in Bytes /\ sh \in Bytes /\ tx \in Bytes /\ st \in Bytes /\ At(wr, 0, sh)
      /\ \A i \in 1 .. Len(W) - u : W[i].data[1] \in Range(sh)
  BY Zenon DEF Flow
<1>5. PICK E \in [0 .. u -> Nat] : Laid(E, W, st, tx, wr, sh, u)
  BY Zenon DEF Flow
<1> HIDE DEF d
<1>6. E[u] = Len(sh) /\ E[v] = E[u] + Len(d) /\ At(wr, E[u], d)
  <2>1. E[u - 1] = E[u] + Len(Data(W, u)) /\ At(wr, E[u], Data(W, u)) /\ E[u] = Len(sh)
    BY <1>1, <1>5, Zenon DEF Laid
  <2>2. QED
    BY <2>1, Zenon DEF d
<1>7. /\ t \in Bytes /\ Len(t) = Len(sh) + Len(d) /\ Len(sh) \in Nat
      /\ \A i \in 1 .. Len(sh) : t[i] = sh[i]
      /\ \A i \in 1 .. Len(d) : t[Len(sh) + i] = d[i]
      /\ DOMAIN t = 1 .. Len(sh) + Len(d) /\ DOMAIN sh = 1 .. Len(sh)
  BY <1>2, <1>4, JoinAt DEF Bytes
<1>8. At(wr, 0, t)
  <2>1. 0 + Len(sh) = Len(sh) /\ 0 \in Nat
    BY <1>7
  <2>2. At(wr, 0 + Len(sh), d)
    BY <1>6, <2>1
  <2>3. At(wr, 0, sh \o d) <=> At(wr, 0, sh) /\ At(wr, 0 + Len(sh), d)
    BY <1>2, <1>4, <2>1, AtParts
  <2>4. QED
    BY <1>4, <2>2, <2>3
<1> HIDE DEF t
<1>9. Range(sh) \subseteq Range(t) /\ d[1] \in Range(t)
  <2>1. \A i \in DOMAIN sh : i \in DOMAIN t /\ t[i] = sh[i]
    BY <1>2, <1>7
  <2>2. Len(sh) + 1 \in DOMAIN t /\ t[Len(sh) + 1] = d[1]
    BY <1>2, <1>7
  <2>3. QED
    BY <2>1, <2>2, Zenon DEF Range
<1> DEFINE G == [k \in 0 .. v |-> E[k]]
<1>10. G \in [0 .. v -> Nat] /\ \A k \in 0 .. v : G[k] = E[k]
  <2>1. \A k \in 0 .. v : k \in 0 .. u
    BY <1>1
  <2>2. QED
    BY <2>1
<1> HIDE DEF G
<1>11. Laid(G, W, st, tx, wr, t, v)
  <2>1. v \in 0 .. v /\ 0 \in 0 .. v /\ \A k \in 1 .. v : k \in 0 .. v /\ k - 1 \in 0 .. v /\ k \in 1 .. u
    BY <1>1
  <2>2. G[v] = Len(t) /\ G[0] = E[0]
    BY <1>6, <1>7, <1>10, <2>1
  <2>3. ASSUME NEW k \in 1 .. v
        PROVE  G[k - 1] = G[k] + Len(Data(W, k)) /\ At(wr, G[k], Data(W, k))
    <3>1. G[k - 1] = E[k - 1] /\ G[k] = E[k] /\ k \in 1 .. u
      BY <1>10, <2>1, Zenon
    <3>2. E[k - 1] = E[k] + Len(Data(W, k)) /\ At(wr, E[k], Data(W, k))
      BY <1>5, <3>1, Zenon DEF Laid
    <3>3. QED
      BY <3>1, <3>2, Zenon
  <2>4. QED
    BY <1>5, <2>2, <2>3, Zenon DEF Laid
<1>12. ASSUME NEW i \in 1 .. Len(W) - v PROVE W[i].data[1] \in Range(t)
  <2>1. i \in 1 .. Len(W) - u \/ i = Len(W) + 1 - u
    BY <1>1
  <2>2. QED
    BY <1>3, <1>4, <1>9, <2>1, Zenon
<1>13. Flow(W, st, tx, wr, t, v)
  BY <1>4, <1>7, <1>8, <1>10, <1>11, <1>12, Zenon DEF Flow
<1>14. QED
  BY <1>13 DEF t, v, d

(* The Z80 writes a byte.                                                   *)
LEMMA FlowWritten ==
  ASSUME NEW W \in Seq(Frames), NEW u \in Nat, u <= Len(W), NEW b \in Byte,
         NEW st, NEW tx, NEW wr, NEW sh, Flow(W, st, tx, wr, sh, u)
  PROVE  Flow(W, st, Append(tx, b), Append(wr, b), sh, u)
<1> DEFINE s == Append(wr, b)
           e == Append(tx, b)
<1>1. /\ wr \in Bytes /\ sh \in Bytes /\ tx \in Bytes /\ st \in Bytes /\ At(wr, 0, sh)
      /\ \A i \in 1 .. Len(W) - u : W[i].data[1] \in Range(sh)
  BY Zenon DEF Flow
<1>2. /\ s \in Bytes /\ e \in Bytes /\ Len(s) = Len(wr) + 1 /\ Len(e) = Len(tx) + 1
      /\ Len(wr) \in Nat /\ Len(tx) \in Nat /\ Len(st) \in Nat
  BY <1>1 DEF Bytes
<1>3. \A p \in Nat : \A d \in Bytes : At(wr, p, d) => At(s, p, d)
  BY <1>1, AtAppended, Zenon
<1>4. PICK E \in [0 .. u -> Nat] : Laid(E, W, st, tx, wr, sh, u)
  BY Zenon DEF Flow
<1>5. /\ E[u] = Len(sh) /\ E[0] \in Nat /\ E[0] + Len(st) \in Nat
      /\ \A k \in 1 .. u : E[k - 1] = E[k] + Len(Data(W, k)) /\ At(wr, E[k], Data(W, k))
      /\ At(wr, E[0], st) /\ At(wr, E[0] + Len(st), tx) /\ Len(wr) = E[0] + Len(st) + Len(tx)
  <2>1. E[0] \in Nat /\ E[0] + Len(st) \in Nat
    BY <1>2
  <2>2. QED
    BY <1>4, <2>1, Zenon DEF Laid
<1>6. At(s, E[0] + Len(st), e)
  <2>1. (E[0] + Len(st)) + Len(tx) = Len(wr)
    BY <1>5
  <2>2. QED
    BY <1>1, <1>5, <2>1, AtAppended, Zenon
<1>7. ASSUME NEW k \in 1 .. u PROVE At(s, E[k], Data(W, k))
  <2>1. Data(W, k) \in Bytes
    BY DataFacts
  <2>2. E[k] \in Nat
    OBVIOUS
  <2>3. QED
    BY <1>3, <1>5, <2>1, <2>2, Zenon
<1>8. Len(s) = E[0] + Len(st) + Len(e)
  BY <1>2, <1>5
<1> HIDE DEF s, e
<1>9. At(s, 0, sh) /\ At(s, E[0], st)
  BY <1>1, <1>3, <1>5
<1>10. Laid(E, W, st, e, s, sh, u)
  BY <1>5, <1>6, <1>7, <1>8, <1>9, Zenon DEF Laid
<1>11. Flow(W, st, e, s, sh, u)
  BY <1>1, <1>2, <1>9, <1>10, Zenon DEF Flow
<1>12. QED
  BY <1>11 DEF s, e

(* Without a browser the bytes shown leave the ring.                        *)
LEMMA FlowShown ==
  ASSUME NEW tx, NEW wr, NEW sh, Flow(<<>>, <<>>, tx, wr, sh, 0), NEW n \in Nat
  PROVE  Flow(<<>>, <<>>, Rest(tx, n), wr, sh \o First(tx, n), 0)
<1> DEFINE f == First(tx, n)
           r == Rest(tx, n)
           t == sh \o f
<1>1. /\ wr \in Bytes /\ sh \in Bytes /\ tx \in Bytes /\ <<>> \in Bytes /\ At(wr, 0, sh)
  BY Zenon DEF Flow
<1>2. f \in Bytes /\ r \in Bytes /\ tx = f \o r /\ Len(f) \in Nat /\ Len(r) \in Nat
      /\ Len(tx) = Len(f) + Len(r)
  BY <1>1, Parted
<1> HIDE DEF f, r
<1>3. t \in Bytes /\ Len(t) = Len(sh) + Len(f) /\ Len(sh) \in Nat
  BY <1>1, <1>2, JoinAt DEF Bytes
<1>4. PICK E \in [0 .. 0 -> Nat] : Laid(E, <<>>, <<>>, tx, wr, sh, 0)
  BY Zenon DEF Flow
<1>5. E[0] = Len(sh) /\ At(wr, E[0] + Len(<<>>), tx) /\ Len(wr) = E[0] + Len(<<>>) + Len(tx)
  BY <1>4, Zenon DEF Laid
<1>6. E[0] + Len(<<>>) = Len(sh) /\ 0 + Len(sh) = Len(sh) /\ Len(wr) = Len(sh) + Len(tx) /\ 0 \in Nat
  BY <1>2, <1>3, <1>5
<1>7. At(wr, Len(sh), f) /\ At(wr, Len(sh) + Len(f), r)
  <2>1. At(wr, Len(sh), f \o r)
    BY <1>2, <1>5, <1>6, Zenon
  <2>2. QED
    BY <1>1, <1>2, <1>3, <2>1, AtParts, Zenon
<1>8. At(wr, 0, t)
  <2>1. At(wr, 0 + Len(sh), f)
    BY <1>6, <1>7
  <2>2. At(wr, 0, sh \o f) <=> At(wr, 0, sh) /\ At(wr, 0 + Len(sh), f)
    BY <1>1, <1>2, <1>6, AtParts
  <2>3. QED
    BY <1>1, <2>1, <2>2
<1> HIDE DEF t
<1> DEFINE G == [k \in 0 .. 0 |-> Len(t)]
<1>9. G \in [0 .. 0 -> Nat] /\ G[0] = Len(t)
  BY <1>2, <1>3
<1> HIDE DEF G
<1>10. /\ G[0] + Len(<<>>) = Len(t) /\ Len(wr) = G[0] + Len(<<>>) + Len(r) /\ Len(t) \in Nat
       /\ Len(t) <= Len(wr)
  BY <1>2, <1>3, <1>6, <1>9
<1>11. At(wr, G[0], <<>>) /\ At(wr, G[0] + Len(<<>>), r)
  <2>1. At(wr, Len(t), <<>>)
    BY <1>1, <1>10, AtNothing
  <2>2. QED
    BY <1>3, <1>7, <1>9, <1>10, <2>1, Zenon
<1>12. 1 .. 0 = {} /\ Len(<<>>) - 0 = 0
  OBVIOUS
<1>13. Laid(G, <<>>, <<>>, r, wr, t, 0)
  BY <1>9, <1>10, <1>11, <1>12, Zenon DEF Laid
<1>14. Flow(<<>>, <<>>, r, wr, t, 0)
  BY <1>1, <1>2, <1>3, <1>8, <1>9, <1>12, <1>13, Zenon DEF Flow
<1>15. QED
  BY <1>14 DEF t, f, r

Distinct(s) == \A i, j \in DOMAIN s : s[i] = s[j] => i = j

LEMMA BytesLen ==
  ASSUME NEW s \in Bytes
  PROVE  Len(s) \in Nat /\ DOMAIN s = 1 .. Len(s)
  BY DEF Bytes

LEMMA FramesLen ==
  ASSUME NEW W \in Seq(Frames)
  PROVE  /\ Len(W) \in Nat /\ DOMAIN W = 1 .. Len(W)
         /\ \A i \in 1 .. Len(W) : W[i] \in Frames /\ W[i].data \in Bytes
<1>1. /\ Len(W) \in Nat /\ DOMAIN W = 1 .. Len(W) /\ \A i \in 1 .. Len(W) : W[i] \in Frames
  OBVIOUS
<1>2. \A f \in Frames : f.data \in Bytes
  BY DEF Frames
<1>3. QED
  BY <1>1, <1>2, Zenon

(* What is known of the bytes before each frame, and of the frames before   *)
(* the (i+1)st that are not shown.                                          *)
Placed(W, u, wr, sh, E) ==
  /\ At(wr, 0, sh) /\ Distinct(wr) /\ E[u] = Len(sh)
  /\ \A i \in 1 .. Len(W) - u : W[i].data[1] \in Range(sh)
  /\ \A k \in 1 .. u : E[k - 1] = E[k] + Len(Data(W, k)) /\ At(wr, E[k], Data(W, k))
  /\ \A j \in DOMAIN W : W[j].data # <<>>

Upto(W, u, wr, sh, E, i, s) ==
  /\ s \in Bytes /\ (i <= Len(W) - u => s = <<>>)
  /\ i >= Len(W) - u => Len(sh) + Len(s) = E[Len(W) - i] /\ At(wr, Len(sh), s)

(* One frame more, from the front of the window.                            *)
LEMMA UnseenStep ==
  ASSUME NEW W \in Seq(Frames), NEW u \in Nat, u <= Len(W), NEW wr \in Bytes,
         NEW sh \in Bytes, NEW E \in [0 .. u -> Nat], Placed(W, u, wr, sh, E),
         NEW i \in Nat, i + 1 \in 1 .. Len(W), NEW s, Upto(W, u, wr, sh, E, i, s),
         NEW r, r = IF W[i + 1].data[1] \in Range(sh) THEN s ELSE s \o W[i + 1].data
  PROVE  Upto(W, u, wr, sh, E, i + 1, r)
<1>0. s \in Bytes
  BY DEF Upto
<1>1. Len(W) \in Nat /\ Len(sh) \in Nat /\ Len(wr) \in Nat /\ Len(s) \in Nat
  BY <1>0, BytesLen, FramesLen, Zenon
<1>4. DOMAIN W = 1 .. Len(W) /\ DOMAIN sh = 1 .. Len(sh) /\ DOMAIN wr = 1 .. Len(wr)
  BY BytesLen, FramesLen, Zenon
<1>2. CASE i + 1 <= Len(W) - u
  <2>1. i + 1 \in 1 .. Len(W) - u /\ i <= Len(W) - u
    BY <1>1, <1>2
  <2>2. r = <<>>
    BY <2>1, Zenon DEF Placed, Upto
  <2>3. Len(sh) <= Len(wr)
    <3>1. 0 + Len(sh) <= Len(wr)
      BY Zenon DEF Placed, At
    <3>2. QED
      BY <1>1, <3>1
  <2>4. At(wr, Len(sh), <<>>) /\ <<>> \in Bytes /\ Len(<<>>) = 0
    BY <1>1, <2>3, AtNothing, NoBytes
  <2>5. i + 1 >= Len(W) - u => Len(W) - (i + 1) = u
    <3> DEFINE n == Len(W)
    <3>1. n \in Nat /\ i + 1 <= n - u
      BY <1>1, <1>2
    <3> HIDE DEF n
    <3>2. i + 1 >= n - u => n - (i + 1) = u
      BY <3>1
    <3>3. QED
      BY <3>2 DEF n
  <2>6. Len(sh) + Len(<<>>) = Len(sh)
    BY <1>1
  <2>7. E[u] = Len(sh)
    BY Zenon DEF Placed
  <2>8. QED
    BY <2>2, <2>4, <2>5, <2>6, <2>7, Zenon DEF Upto
<1>3. CASE ~(i + 1 <= Len(W) - u)
  <2> DEFINE k == Len(W) - i
             d == Data(W, k)
  <2>1. /\ k \in 1 .. u /\ Len(W) + 1 - k = i + 1 /\ i >= Len(W) - u
        /\ Len(W) - (i + 1) = k - 1 /\ i + 1 \in DOMAIN W /\ k \in 0 .. u /\ k - 1 \in 0 .. u
    BY <1>1, <1>3, <1>4
  <2> HIDE DEF k
  <2>2. W[i + 1].data = d
    BY <2>1, Zenon DEF Data
  <2>3. d \in Bytes /\ Len(d) \in Nat /\ Len(d) >= 1 /\ 1 \in 1 .. Len(d)
    <3>1. d # <<>>
      BY <2>1, <2>2, Zenon DEF Placed
    <3>2. QED
      BY <2>1, <3>1, DataFacts
  <2>4. /\ Len(sh) + Len(s) = E[k] /\ At(wr, Len(sh), s) /\ E[k - 1] = E[k] + Len(d) /\ At(wr, E[k], d)
        /\ E[k] \in Nat
    <3>1. Len(sh) + Len(s) = E[k] /\ At(wr, Len(sh), s)
      <4>1. Len(sh) + Len(s) = E[Len(W) - i] /\ At(wr, Len(sh), s)
        BY <2>1, Zenon DEF Upto
      <4>2. QED
        BY <4>1, Zenon DEF k
    <3>2. E[k] \in Nat
      BY <2>1
    <3>3. QED
      BY <2>1, <3>1, <3>2, Zenon DEF Placed
  <2> HIDE DEF d
  <2>5. d[1] \notin Range(sh)
    <3>1. SUFFICES ASSUME NEW j \in DOMAIN sh, sh[j] = d[1] PROVE FALSE
      BY Zenon DEF Range
    <3>2. j \in 1 .. Len(sh) /\ 0 + j = j
      BY <1>1, <1>4
    <3>3. wr[0 + j] = sh[j] /\ 0 + Len(sh) <= Len(wr)
      BY <3>2, Zenon DEF At, Placed
    <3>4. wr[E[k] + 1] = d[1] /\ E[k] + Len(d) <= Len(wr)
      BY <2>3, <2>4 DEF At
    <3>5. Len(sh) <= E[k]
      BY <1>1, <2>4
    <3>6. j \in DOMAIN wr /\ E[k] + 1 \in DOMAIN wr /\ j # E[k] + 1
      <4> DEFINE x == E[k]
      <4>1. x \in Nat /\ Len(sh) <= x /\ x + Len(d) <= Len(wr) /\ 0 + Len(sh) <= Len(wr)
        BY <2>4, <3>3, <3>4, <3>5
      <4> HIDE DEF x
      <4>2. j \in 1 .. Len(wr) /\ x + 1 \in 1 .. Len(wr) /\ j # x + 1
        BY <1>1, <2>3, <3>2, <4>1
      <4>3. QED
        BY <1>4, <4>2, Zenon DEF x
    <3>7. wr[j] = wr[E[k] + 1]
      BY <3>1, <3>2, <3>3, <3>4
    <3>8. QED
      BY <3>6, <3>7, Zenon DEF Distinct, Placed
  <2>6. r = s \o d
    BY <2>2, <2>5
  <2>7. r \in Bytes /\ Len(r) = Len(s) + Len(d)
    <3>1. s \o d \in Bytes /\ Len(s \o d) = Len(s) + Len(d)
      BY <1>0, <2>3, BytesJoined, Zenon
    <3>2. QED
      BY <2>6, <3>1, Zenon
  <2>8. At(wr, Len(sh), r)
    <3>1. At(wr, Len(sh) + Len(s), d)
      BY <2>4
    <3>2. At(wr, Len(sh), s \o d)
      BY <1>0, <1>1, <2>3, <2>4, <3>1, AtParts
    <3>3. QED
      BY <2>6, <3>2
  <2>9. Len(sh) + Len(r) = E[k - 1]
    <3>1. (Len(sh) + Len(s)) + Len(d) = E[k - 1] /\ Len(r) = Len(s) + Len(d)
      BY <2>4, <2>7, Zenon
    <3>2. (Len(sh) + Len(s)) + Len(d) = Len(sh) + (Len(s) + Len(d))
      BY <1>1, <2>3
    <3>3. QED
      BY <3>1, <3>2, Zenon
  <2>10. QED
    BY <1>3, <2>1, <2>7, <2>8, <2>9, Zenon DEF Upto
<1>5. QED
  BY <1>2, <1>3

(* The data of the frames not seen.                                         *)
Unseen(W, sh) ==
  LET unseen[i \in 0 .. Len(W)] ==
        IF i = 0 THEN <<>>
        ELSE IF W[i].data[1] \in Range(sh) THEN unseen[i - 1]
        ELSE unseen[i - 1] \o W[i].data
  IN  unseen[Len(W)]

(* The frames that are not seen are the last u.                             *)
LEMMA FlowIsIntact ==
  ASSUME NEW W \in Seq(Frames), NEW u \in Nat, u <= Len(W), \A j \in DOMAIN W : W[j].data # <<>>,
         NEW st, NEW tx, NEW wr, NEW sh, Flow(W, st, tx, wr, sh, u), Distinct(wr)
  PROVE  wr = sh \o (Unseen(W, sh) \o st \o tx)
<1> DEFINE m == Len(W)
           R == Range(sh)
           G(s, i) == IF W[i].data[1] \in R THEN s ELSE s \o W[i].data
           F == [x \in Bytes \X Nat |-> IF x[2] \in 1 .. m THEN G(x[1], x[2]) ELSE x[1]]
           Applied(f) == f = [i \in 0 .. m |-> IF i = 0 THEN <<>> ELSE G(f[i - 1], i)]
           h == CHOOSE f : Applied(f)
<1>1. m \in Nat
  OBVIOUS
<1>2. \A s \in Bytes, i \in 1 .. m : G(s, i) \in Bytes
  <2>1. \A i \in 1 .. m : W[i].data \in Bytes
    BY FramesLen, Zenon
  <2>2. QED
    BY <2>1, BytesJoined, Zenon
<1>3. Unseen(W, sh) \o st \o tx = h[m] \o st \o tx
  BY DEF Unseen
<1> HIDE DEF G
<1>4. F \in [Bytes \X Nat -> Bytes]
  BY <1>2
<1>5. \A s \in Bytes, i \in 1 .. m : F[<<s, i>>] = G(s, i)
  BY <1>1
<1>6. <<>> \in Bytes /\ Len(<<>>) = 0
  BY NoBytes
<1> HIDE DEF m, F, Applied, h, R
<1>7. PICK f \in [0 .. m -> Bytes] : StepsFrom(f, <<>>, m, F)
  BY <1>1, <1>4, <1>6, StepsDefineFunction, Zenon
<1>8. Applied(f)
  <2>1. ASSUME NEW i \in 0 .. m, i # 0 PROVE f[i] = G(f[i - 1], i)
    <3>1. i - 1 \in 0 .. m /\ i \in 1 .. m
      BY <1>1, <2>1
    <3>2. f[i - 1] \in Bytes
      BY <3>1
    <3>3. QED
      BY <1>5, <1>7, <2>1, <3>1, <3>2 DEF StepsFrom
  <2>2. QED
    BY <1>7, <2>1 DEF Applied, StepsFrom
<1>9. Applied(h)
  BY <1>8 DEF h
<1>10. h[0] = <<>> /\ \A i \in 0 .. m : i # 0 => h[i] = G(h[i - 1], i)
  BY <1>1, <1>9 DEF Applied
<1>11. /\ wr \in Bytes /\ sh \in Bytes /\ st \in Bytes /\ tx \in Bytes /\ At(wr, 0, sh)
       /\ \A i \in 1 .. Len(W) - u : W[i].data[1] \in Range(sh)
  BY Zenon DEF Flow
<1>12. PICK E \in [0 .. u -> Nat] : Laid(E, W, st, tx, wr, sh, u)
  BY Zenon DEF Flow
<1>13. /\ \A k \in 1 .. u : E[k - 1] = E[k] + Len(Data(W, k)) /\ At(wr, E[k], Data(W, k))
       /\ At(wr, E[0], st) /\ At(wr, E[0] + Len(st), tx) /\ Len(wr) = E[0] + Len(st) + Len(tx)
       /\ E[u] = Len(sh)
  BY <1>12, Zenon DEF Laid
<1> DEFINE Good(s, i) == Upto(W, u, wr, sh, E, i, s)
           D == {i \in Nat : i \in 0 .. m => Good(h[i], i)}
<1>14. 0 \in D
  <2>1. 0 >= Len(W) - u => Len(W) - 0 = u
    OBVIOUS
  <2>2. Len(sh) \in Nat /\ Len(wr) \in Nat
    BY <1>11 DEF Bytes
  <2>3. 0 + Len(sh) <= Len(wr)
    BY <1>11 DEF At
  <2>4. At(wr, Len(sh), <<>>) /\ Len(sh) + Len(<<>>) = Len(sh)
    BY <1>6, <1>11, <2>2, <2>3, AtNothing
  <2>5. Good(<<>>, 0)
    BY <1>6, <1>13, <2>1, <2>4, Zenon DEF Upto
  <2>6. QED
    BY <1>10, <2>5
<1>15. ASSUME NEW i \in Nat, i \in D PROVE i + 1 \in D
  <2> SUFFICES ASSUME i + 1 \in 0 .. m PROVE Good(h[i + 1], i + 1)
    OBVIOUS
  <2>1. i \in 0 .. m /\ i + 1 \in 1 .. m /\ i + 1 # 0 /\ (i + 1) - 1 = i
    BY <1>1
  <2>2. Good(h[i], i)
    BY <1>15, <2>1
  <2>3. h[i + 1] = G(h[i], i + 1)
    BY <1>10, <2>1
  <2> DEFINE s == h[i]
             r == G(s, i + 1)
  <2>4. r = IF W[i + 1].data[1] \in Range(sh) THEN s ELSE s \o W[i + 1].data
    BY DEF G, R
  <2>5. i + 1 \in 1 .. Len(W)
    BY <2>1 DEF m
  <2>6. Upto(W, u, wr, sh, E, i, s)
    BY <2>2
  <2>7. Good(r, i + 1)
    <3> HIDE DEF s, r
    <3>1. Placed(W, u, wr, sh, E)
      BY <1>11, <1>13, Zenon DEF Placed
    <3>2. QED
      BY <1>11, <2>4, <2>5, <2>6, <3>1, UnseenStep, Zenon
  <2>8. QED
    BY <2>3, <2>7, Zenon DEF s, r
<1>16. Good(h[m], m)
  <2> HIDE DEF Good
  <2>1. m \in D
    <3> HIDE DEF D
    <3>1. QED
      BY <1>1, <1>14, <1>15, SetInduction
  <2>2. m \in 0 .. m
    BY <1>1
  <2>3. QED
    BY <2>1, <2>2
<1> DEFINE n == h[m]
<1>17. /\ n \in Bytes /\ Len(sh) + Len(n) = E[0] /\ At(wr, Len(sh), n)
  <2>1. m >= Len(W) - u /\ Len(W) - m = 0
    BY <1>1 DEF m
  <2>2. QED
    BY <1>16, <2>1, Zenon DEF Upto
<1> HIDE DEF n, Good, D
<1>18. Len(sh) \in Nat /\ Len(n) \in Nat /\ Len(st) \in Nat /\ Len(tx) \in Nat /\ 0 \in Nat /\ Len(wr) \in Nat
  BY <1>11, <1>17 DEF Bytes
<1>19. At(wr, 0, sh \o ((n \o st) \o tx)) /\ Len(sh \o ((n \o st) \o tx)) = Len(wr)
       /\ sh \o ((n \o st) \o tx) \in Bytes
  <2>1. n \o st \in Bytes /\ Len(n \o st) = Len(n) + Len(st)
    BY <1>11, <1>17, BytesJoined
  <2>2. (n \o st) \o tx \in Bytes /\ Len((n \o st) \o tx) = Len(n) + Len(st) + Len(tx)
    BY <1>11, <2>1, BytesJoined
  <2>3. At(wr, Len(sh), n \o st)
    <3>1. At(wr, Len(sh) + Len(n), st)
      BY <1>13, <1>17
    <3>2. QED
      BY <1>11, <1>17, <1>18, <3>1, AtParts
  <2>4. At(wr, Len(sh), (n \o st) \o tx)
    <3>1. Len(sh) + Len(n \o st) = E[0] + Len(st)
      BY <1>17, <1>18, <2>1
    <3>2. At(wr, Len(sh) + Len(n \o st), tx)
      BY <1>13, <3>1
    <3>3. QED
      BY <1>11, <1>18, <2>1, <2>3, <3>2, AtParts
  <2>5. 0 + Len(sh) = Len(sh)
    BY <1>18
  <2> DEFINE z == (n \o st) \o tx
  <2>6. z \in Bytes /\ Len(z) = Len(n) + Len(st) + Len(tx) /\ At(wr, 0 + Len(sh), z)
    BY <2>2, <2>4, <2>5
  <2> HIDE DEF z
  <2>7. sh \o z \in Bytes /\ Len(sh \o z) = Len(sh) + Len(z)
    BY <1>11, <2>6, BytesJoined
  <2>8. At(wr, 0, sh \o z)
    BY <1>11, <1>18, <2>6, AtParts
  <2>9. Len(sh \o z) = Len(wr)
    BY <1>13, <1>17, <1>18, <2>6, <2>7
  <2>10. QED
    BY <2>7, <2>8, <2>9 DEF z
<1>20. wr = sh \o ((n \o st) \o tx)
  BY <1>11, <1>19, AtWhole
<1>21. QED
  BY <1>3, <1>20 DEF n

-----------------------------------------------------------------------------
(* The output part of the invariant.                                        *)

(* The session: the last u frames of the window are not received, the last  *)
(* d not consumed; a live page has read the others, and copies of them and  *)
(* of what it has read are on their way.                                    *)
OutState(w, tx, up, h, u, d) ==
  /\ u \in Nat /\ d \in Nat /\ u <= d /\ d <= Len(w.window)
  /\ Acks(w.out_seq, Len(w.window), d, up)
  /\ Flow(w.window, w.staged, tx, h.written, h.shown, u)

OutLive(w, p, dn, u, d) ==
  /\ Reads(w.out_seq, p.received, p.out_seq, p.writes, u, d)
  /\ Sent(w.window, u, dn) /\ Copies(w.out_seq, w.window, u, dn)

OutTalk(w, tx, p, up, dn, h, live) ==
  \E u, d \in Nat : OutState(w, tx, up, h, u, d) /\ (live => OutLive(w, p, dn, u, d))

Opened(n, c) == n[c].state = "open"

OutputTalks ==
  Steady => OutTalk(web, term.tx, page[web.active], net[web.active].up, net[web.active].down,
                    hist, Opened(net, web.active))

(* Without a browser nothing is between the ring and what is shown.         *)
OwnerFlow == ~term.browser => Flow(<<>>, <<>>, term.tx, hist.written, hist.shown, 0)

(* The flag of the ring, the bytes offered to the USB endpoint, and that    *)
(* the bytes written tell themselves apart.                                 *)
Sides ==
  /\ term.tx_pending <=> term.tx # <<>>
  /\ pc = "usb" => ~term.browser /\ At(term.tx, 0, peeked)
  /\ \A i \in DOMAIN hist.written : hist.written[i] < z80.out
  /\ Distinct(hist.written)

OutInv ==
  /\ InputInv /\ Window(web.out_seq, web.window)
  /\ OutputTalks /\ OwnerFlow /\ Sides

(* What is left to show of a step.                                          *)
OutKept == Window(web.out_seq, web.window)' /\ OutputTalks' /\ OwnerFlow' /\ Sides'

(* A step that is not about the ring's output.                              *)
Aside == z80'.out = z80.out /\ peeked' = peeked /\ (pc' = "usb" => pc = "usb")

SameRing(t, r) == t.tx = r.tx /\ (t.tx_pending <=> r.tx_pending) /\ (t.browser <=> r.browser)
SameShown(g, h) == g.written = h.written /\ g.shown = h.shown

LEMMA SidesSame ==
  ASSUME Sides, Aside, SameRing(term', term), hist'.written = hist.written
  PROVE  Sides'
<1>1. /\ term.tx_pending <=> term.tx # <<>>
      /\ pc = "usb" => ~term.browser /\ At(term.tx, 0, peeked)
      /\ \A i \in DOMAIN hist.written : hist.written[i] < z80.out
      /\ Distinct(hist.written)
  BY Zenon DEF Sides
<1>2. term'.tx_pending <=> term'.tx # <<>>
  BY <1>1, Zenon DEF SameRing
<1>3. pc' = "usb" => ~term'.browser /\ At(term'.tx, 0, peeked')
  BY <1>1, Zenon DEF SameRing, Aside
<1>4. /\ \A i \in DOMAIN hist'.written : hist'.written[i] < z80'.out
      /\ Distinct(hist'.written)
  BY <1>1, Zenon DEF Aside
<1>5. QED
  BY <1>2, <1>3, <1>4, Zenon DEF Sides

(* A new owner of the rings, or none.                                       *)
LEMMA SidesFresh ==
  ASSUME pc' # "usb", term'.tx = <<>>, ~term'.tx_pending, hist' = NoHistory
  PROVE  Sides'
<1>1. hist'.written = <<>>
  BY NoHistoryFacts
<1>2. DOMAIN <<>> = {}
  OBVIOUS
<1>3. Distinct(hist'.written) /\ \A i \in DOMAIN hist'.written : hist'.written[i] < z80'.out
  BY <1>1, <1>2, Zenon DEF Distinct
<1>4. QED
  BY <1>3, Zenon DEF Sides

LEMMA OwnerSame ==
  ASSUME OwnerFlow, SameRing(term', term), SameShown(hist', hist)
  PROVE  OwnerFlow'
  BY Zenon DEF OwnerFlow, SameRing, SameShown

LEMMA OwnerFresh ==
  ASSUME term'.tx = <<>>, hist' = NoHistory
  PROVE  OwnerFlow'
  BY FlowFresh, NoHistoryFacts, Zenon DEF OwnerFlow

(* The talk does not depend on the rest of the session and the history.     *)
LEMMA OutTalkSame ==
  ASSUME NEW w, NEW v, SameOutput(v, w), NEW h, NEW g, SameShown(g, h), NEW tx, NEW p, NEW up,
         NEW dn, NEW live, OutTalk(w, tx, p, up, dn, h, live)
  PROVE  OutTalk(v, tx, p, up, dn, g, live)
<1>1. ASSUME NEW u, NEW d, OutState(w, tx, up, h, u, d) PROVE OutState(v, tx, up, g, u, d)
  BY <1>1, Zenon DEF OutState, SameOutput, SameShown
<1>2. ASSUME NEW u, NEW d, OutLive(w, p, dn, u, d) PROVE OutLive(v, p, dn, u, d)
  BY <1>2, Zenon DEF OutLive, SameOutput
<1>3. QED
  BY <1>1, <1>2, Zenon DEF OutTalk

(* What a step of a session leaves when it is not about the output.         *)
LEMMA OutSame ==
  ASSUME OutInv, Aside, SameRing(term', term), SameShown(hist', hist),
         SameFlags(web', web), SameOutput(web', web),
         Steady => OutTalk(web, term.tx, page'[web.active], net'[web.active].up,
                           net'[web.active].down, hist, Opened(net', web.active))
  PROVE  OutKept
<1>1. Window(web.out_seq, web.window) /\ OutputTalks /\ OwnerFlow /\ Sides
  BY Zenon DEF OutInv
<1>2. Window(web.out_seq, web.window)'
  BY <1>1, Zenon DEF SameOutput
<1>3. OutputTalks'
  <2>1. SUFFICES ASSUME Steady'
                 PROVE  OutTalk(web', term'.tx, page'[web'.active], net'[web'.active].up,
                                net'[web'.active].down, hist', Opened(net', web'.active))
    BY Zenon DEF OutputTalks
  <2>2. Steady /\ web'.active = web.active
    BY <2>1, Zenon DEF Steady, SameFlags
  <2>3. OutTalk(web, term.tx, page'[web.active], net'[web.active].up, net'[web.active].down, hist,
                Opened(net', web.active))
    BY <2>2, Zenon
  <2>4. OutTalk(web', term.tx, page'[web.active], net'[web.active].up, net'[web.active].down, hist',
                Opened(net', web.active))
    <3> DEFINE p == page'[web.active]
               up == net'[web.active].up
               dn == net'[web.active].down
               l == Opened(net', web.active)
    <3>1. OutTalk(web, term.tx, p, up, dn, hist, l)
      BY <2>3
    <3> HIDE DEF p, up, dn, l
    <3>2. OutTalk(web', term.tx, p, up, dn, hist', l)
      BY <3>1, OutTalkSame, Zenon
    <3>3. QED
      BY <3>2 DEF p, up, dn, l
  <2>5. QED
    BY <2>2, <2>4, Zenon DEF SameRing
<1>4. Sides' /\ OwnerFlow'
  BY <1>1, SidesSame, OwnerSame, Zenon DEF SameShown
<1>5. QED
  BY <1>2, <1>3, <1>4, Zenon DEF OutKept

(* Messages read, and acknowledgements of nothing sent.                     *)
LEMMA AcksUnread ==
  ASSUME NEW o, NEW n, NEW d, NEW T, NEW up \in Seq(T), NEW answers \in Seq(T),
         NoAcks(answers), Acks(o, n, d, up)
  PROVE  Acks(o, n, d, up \o answers)
<1> DEFINE r == up \o answers
<1>1. /\ r \in Seq(T) /\ DOMAIN r = 1 .. Len(up) + Len(answers) /\ Len(up) \in Nat /\ Len(answers) \in Nat
      /\ \A i \in 1 .. Len(up) : r[i] = up[i] /\ i \in DOMAIN up
      /\ \A i \in 1 .. Len(answers) : r[Len(up) + i] = answers[i] /\ i \in DOMAIN answers
  BY JoinAt
<1> HIDE DEF r
<1>2. ASSUME NEW j \in DOMAIN r, r[j].type = "OUTPUT_ACK"
      PROVE  /\ j \in 1 .. Len(up) /\ r[j] = up[j] /\ j \in DOMAIN up
             /\ \A i \in 1 .. j - 1 : r[i] = up[i]
  <2>1. j \in 1 .. Len(up)
    <3>1. SUFFICES ASSUME j > Len(up) PROVE FALSE
      BY <1>1
    <3> DEFINE i == j - Len(up)
    <3>2. i \in 1 .. Len(answers) /\ Len(up) + i = j
      BY <1>1, <3>1
    <3> HIDE DEF i
    <3>3. r[j] = answers[i] /\ i \in DOMAIN answers
      BY <1>1, <3>2, Zenon
    <3>4. QED
      BY <1>2, <3>3, Zenon DEF NoAcks
  <2>2. \A i \in 1 .. j - 1 : i \in 1 .. Len(up)
    BY <1>1, <2>1
  <2>3. QED
    BY <1>1, <2>1, <2>2, Zenon
<1>3. Acks(o, n, d, r)
  BY <1>2, Zenon DEF Acks
<1>4. QED
  BY <1>3 DEF r

LEMMA AcksNone ==
  ASSUME NEW o, NEW n, NEW d, NEW up, NoAcks(up)
  PROVE  Acks(o, n, d, up)
  BY Zenon DEF Acks, NoAcks

(* A channel with a message read or answers that acknowledge no output, and *)
(* one with a message more or less that is none of output.                  *)
UpAside(up, up2) ==
  \/ up2 = up \/ (up # <<>> /\ up2 = Tail(up))
  \/ \E answers \in Seq(InputMessages) : NoAcks(answers) /\ up2 = up \o answers

DownAside(dn, dn2) ==
  \/ dn2 = dn \/ (dn # <<>> /\ Head(dn).type # "OUTPUT" /\ dn2 = Tail(dn))
  \/ \E m \in Messages : m.type # "OUTPUT" /\ dn2 = Append(dn, m)

LEMMA OutTalkMoved ==
  ASSUME NEW w, w.window \in Seq(Frames), Len(w.window) <= OUTPUT_WINDOW, Window(w.out_seq, w.window),
         NEW tx, NEW p, NEW up \in Seq(InputMessages), NEW dn \in Seq(Messages), NEW h, NEW live,
         OutTalk(w, tx, p, up, dn, h, live), NEW q, SameWrites(p, q),
         NEW up2, UpAside(up, up2), NEW dn2, DownAside(dn, dn2)
  PROVE  OutTalk(w, tx, q, up2, dn2, h, live)
<1>1. PICK u, d \in Nat : OutState(w, tx, up, h, u, d) /\ (live => OutLive(w, p, dn, u, d))
  BY Zenon DEF OutTalk
<1> DEFINE W == w.window
           o == w.out_seq
<1>2. /\ W \in Seq(Frames) /\ Len(W) \in Nat /\ u \in Nat /\ u <= Len(W) /\ Len(W) <= OUTPUT_WINDOW
      /\ Window(o, W)
  <2>1. u <= d /\ d <= Len(w.window)
    BY <1>1, Zenon DEF OutState
  <2>2. Len(w.window) \in Nat
    OBVIOUS
  <2>3. QED
    BY <2>1, <2>2
<1>3. OutState(w, tx, up2, h, u, d)
  <2>1. Acks(o, Len(W), d, up)
    BY <1>1, Zenon DEF OutState
  <2> HIDE DEF W, o
  <2>2. Acks(o, Len(W), d, up2)
    <3>1. CASE up # <<>> /\ up2 = Tail(up)
      BY <2>1, <3>1, AcksPopped, Zenon
    <3>2. ASSUME NEW answers \in Seq(InputMessages), NoAcks(answers), up2 = up \o answers
          PROVE  Acks(o, Len(W), d, up2)
      BY <2>1, <3>2, AcksUnread, Zenon
    <3>3. QED
      BY <2>1, <3>1, <3>2, Zenon DEF UpAside
  <2>3. QED
    BY <1>1, <2>2, Zenon DEF OutState, W, o
<1>4. ASSUME live PROVE OutLive(w, q, dn2, u, d)
  <2>1. /\ Reads(o, p.received, p.out_seq, p.writes, u, d)
        /\ Sent(W, u, dn) /\ Copies(o, W, u, dn)
    BY <1>1, <1>4, Zenon DEF OutLive
  <2> HIDE DEF W, o
  <2>2. Reads(o, q.received, q.out_seq, q.writes, u, d)
    BY <2>1, Zenon DEF SameWrites
  <2>3. Sent(W, u, dn2) /\ Copies(o, W, u, dn2)
    <3>1. CASE dn # <<>> /\ Head(dn).type # "OUTPUT" /\ dn2 = Tail(dn)
      BY <1>2, <2>1, <3>1, SentPopped, CopiesPopped, Zenon
    <3>2. ASSUME NEW m \in Messages, m.type # "OUTPUT", dn2 = Append(dn, m)
          PROVE  Sent(W, u, dn2) /\ Copies(o, W, u, dn2)
      BY <1>2, <2>1, <3>2, SentPushed, CopiesPushed, Zenon
    <3>3. QED
      BY <2>1, <3>1, <3>2, Zenon DEF DownAside
  <2>4. QED
    BY <2>2, <2>3, Zenon DEF OutLive, W, o
<1>5. QED
  BY <1>1, <1>3, <1>4, Zenon DEF OutTalk

(* A step of the owner's connection that is not about the output.           *)
LEMMA OutMoves ==
  ASSUME OutInv, Aside, SameRing(term', term), SameShown(hist', hist),
         SameFlags(web', web), SameOutput(web', web), NEW c \in Conns, web.active = c,
         SameWrites(page[c], page'[c]), NEW up2, NEW dn2, Moved(net', net, c, up2, dn2),
         UpAside(net[c].up, up2), DownAside(net[c].down, dn2)
  PROVE  OutKept
<1>1. /\ web.window \in Seq(Frames) /\ Len(web.window) <= OUTPUT_WINDOW
      /\ Window(web.out_seq, web.window) /\ OutputTalks
      /\ net[c].up \in Seq(InputMessages) /\ net[c].down \in Seq(Messages)
  <2>1. WebGood(web) /\ NetGood(net) /\ Window(web.out_seq, web.window) /\ OutputTalks
    BY Zenon DEF OutInv, InputInv, RoomInv
  <2>2. QED
    BY <2>1, WebFacts, ChannelFacts, Zenon
<1>2. ASSUME Steady
      PROVE  OutTalk(web, term.tx, page'[web.active], net'[web.active].up,
                     net'[web.active].down, hist, Opened(net', web.active))
  <2> DEFINE l == Opened(net, c)
  <2>1. OutTalk(web, term.tx, page[c], net[c].up, net[c].down, hist, l)
    BY <1>1, <1>2, Zenon DEF OutputTalks
  <2>2. Opened(net', c) <=> l
    BY Zenon DEF Opened, Moved
  <2> DEFINE up == net[c].up
             dn == net[c].down
             p == page[c]
             q == page'[c]
  <2>3. /\ up \in Seq(InputMessages) /\ dn \in Seq(Messages) /\ UpAside(up, up2) /\ DownAside(dn, dn2)
        /\ OutTalk(web, term.tx, p, up, dn, hist, l) /\ SameWrites(p, q)
    BY <1>1, <2>1
  <2>4. net'[c].up = up2 /\ net'[c].down = dn2
    BY Zenon DEF Moved
  <2> HIDE DEF l, up, dn, p, q
  <2>5. OutTalk(web, term.tx, q, up2, dn2, hist, l)
    BY <1>1, <2>3, OutTalkMoved, Zenon
  <2> DEFINE k == Opened(net', c)
  <2>6. OutTalk(web, term.tx, q, up2, dn2, hist, k)
    <3>1. k <=> l
      BY <2>2
    <3> HIDE DEF k
    <3>2. QED
      BY <2>5, <3>1, Zenon DEF OutTalk
  <2>7. QED
    BY <2>4, <2>6 DEF q, k
<1>3. QED
  BY <1>2, OutSame, Zenon

(* A step that leaves the connections as they are.                          *)
LEMMA OutStill ==
  ASSUME OutInv, Aside, SameRing(term', term), SameShown(hist', hist),
         SameFlags(web', web), SameOutput(web', web),
         Steady => net'[web.active] = net[web.active] /\ page'[web.active] = page[web.active]
  PROVE  OutKept
<1>1. ASSUME Steady
      PROVE  OutTalk(web, term.tx, page'[web.active], net'[web.active].up,
                     net'[web.active].down, hist, Opened(net', web.active))
  <2>1. OutTalk(web, term.tx, page[web.active], net[web.active].up, net[web.active].down, hist,
                Opened(net, web.active))
    BY <1>1, Zenon DEF OutInv, OutputTalks
  <2>2. net'[web.active] = net[web.active] /\ page'[web.active] = page[web.active]
    BY <1>1
  <2>3. QED
    BY <2>1, <2>2, Zenon DEF Opened
<1>2. QED
  BY <1>1, OutSame, Zenon

LEMMA ToldAside ==
  ASSUME NEW dn, NEW dn2, NEW types, "OUTPUT" \notin types, Told(dn, dn2, types)
  PROVE  DownAside(dn, dn2)
  BY Zenon DEF Told, DownAside

LEMMA NotOutput ==
  /\ "OUTPUT" \notin {"INPUT_ACK"} /\ "OUTPUT" \notin {"PING"} /\ "OUTPUT" \notin {"HELLO"}
  OBVIOUS

(* The steps that are not about the ring's output.                          *)
LEMMA CallbacksAside ==
  ASSUME NEW c \in Conns,
         on_connect(c) \/ Closed(c) \/ OnReady(c) \/ OnPong(c) \/ OnInput(c) \/ OnOutputAck(c)
  PROVE  Aside
<1>1. UNCHANGED <<peeked, z80>> /\ (pc' = pc \/ pc' = "idle")
  BY Zenon DEF on_connect, Closed, OnReady, OnPong, OnInput, OnOutputAck
<1>2. QED
  BY <1>1 DEF Aside

LEMMA PollAside ==
  ASSUME PollOnline \/ PollInput \/ Ping \/ NoPing \/ Stage \/ \E due : SendFrames(due)
  PROVE  Aside
<1>1. UNCHANGED <<peeked, z80>> /\ (pc' = pc \/ pc' \in {"idle", "pop", "heartbeat", "stage"})
  <2>1. CASE PollOnline \/ PollInput
    <3>1. UNCHANGED <<peeked, z80>> /\ (pc' = "idle" \/ pc' = "pop" \/ pc' = "heartbeat")
      BY <2>1, Zenon DEF PollOnline, PollInput
    <3>2. QED
      BY <3>1
  <2>2. CASE Ping \/ NoPing
    <3>1. UNCHANGED <<peeked, z80>> /\ (pc' = "stage" \/ pc' = "idle")
      BY <2>2, Zenon DEF Ping, NoPing
    <3>2. QED
      BY <3>1
  <2>3. CASE Stage \/ \E due : SendFrames(due)
    <3>1. UNCHANGED <<peeked, z80>> /\ (pc' = pc \/ pc' = "idle")
      BY <2>3, Zenon DEF Stage, SendFrames
    <3>2. QED
      BY <3>1
  <2>4. QED
    BY <2>1, <2>2, <2>3, Zenon
<1>2. QED
  BY <1>1 DEF Aside

LEMMA TypedOut ==
  ASSUME NEW z, Z80Good(z), NEW n, NEW s, NEW k, NEW r
  PROVE  /\ [z EXCEPT !.typed = n].out = z.out
         /\ [z EXCEPT !.step = s, !.client = k].out = z.out
         /\ [z EXCEPT !.step = s, !.client = k, !.room = r].out = z.out
<1>1. DOMAIN z = Z80Fields
  BY Zenon DEF Z80Good
<1>2. QED
  BY <1>1, ZenonT(60) DEF Z80Fields

LEMMA PageAside ==
  ASSUME RoomInv, NEW c \in Conns,
         \/ PageType(c) \/ PageRetry(c) \/ PageReceive(c) \/ PageConsumed(c)
         \/ PageLeaves(c) \/ TcpGivesUp(c) \/ RawClient(c)
  PROVE  Aside
<1>1. Z80Good(z80)
  BY Zenon DEF RoomInv
<1>2. CASE PageType(c)
  <2>1. z80' = [z80 EXCEPT !.typed = @ + 1]
    BY <1>2, Zenon DEF PageType
  <2>2. UNCHANGED <<pc, peeked>>
    BY <1>2, Zenon DEF PageType, PageStep
  <2>3. z80'.out = z80.out
    BY <1>1, <2>1, TypedOut, Zenon
  <2>4. QED
    BY <2>2, <2>3 DEF Aside
<1>3. CASE PageRetry(c) \/ PageConsumed(c) \/ PageLeaves(c) \/ TcpGivesUp(c) \/ RawClient(c)
  <2>1. UNCHANGED <<pc, peeked, z80>>
    BY <1>3, Zenon DEF PageRetry, PageConsumed, PageLeaves, TcpGivesUp, RawClient, PageStep
  <2>2. QED
    BY <2>1 DEF Aside
<1>4. CASE PageReceive(c)
  <2>1. UNCHANGED <<pc, peeked, z80>>
    BY <1>4, Zenon DEF PageReceive, PageHello, PageInputAck, PageOutput, PageStep
  <2>2. QED
    BY <2>1 DEF Aside
<1>5. QED
  BY <1>2, <1>3, <1>4, Zenon

-----------------------------------------------------------------------------
(* Steps that are not about the output.                                     *)

LEMMA ReadyOut ==
  ASSUME OutInv, NEW c \in Conns, OnReady(c) \/ OnPong(c)
  PROVE  OutKept
<1>1. InputInv /\ NetGood(net) /\ PagesGood(page)
  BY Zenon DEF OutInv, InputInv, RoomInv
<1>2. /\ UNCHANGED <<term, page, hist>> /\ web.active = c /\ net[c].up # <<>> /\ net' = Arrived(c)
  BY Zenon DEF OnReady, OnPong, Take
<1>3. SameFlags(web', web) /\ SameOutput(web', web)
  BY <1>1, ReadyFields, PongFields, Zenon
<1>4. Aside
  BY CallbacksAside, Zenon
<1>5. Moved(net', net, c, Tail(net[c].up), net[c].down)
  BY <1>1, <1>2, ArrivedFields
<1>6. SameRing(term', term) /\ SameShown(hist', hist) /\ SameWrites(page[c], page'[c])
  BY <1>2, Zenon DEF SameRing, SameShown, SameWrites
<1>7. UpAside(net[c].up, Tail(net[c].up)) /\ DownAside(net[c].down, net[c].down)
  BY <1>2, Zenon DEF UpAside, DownAside
<1>8. QED
  BY <1>2, <1>3, <1>4, <1>5, <1>6, <1>7, OutMoves, Zenon

LEMMA InputOut ==
  ASSUME OutInv, NEW c \in Conns, OnInput(c)
  PROVE  OutKept
<1>1. InputInv
  BY Zenon DEF OutInv
<1>2. /\ page' = page /\ web.active = c /\ net[c].up # <<>>
  BY Zenon DEF OnInput, Take
<1>3. /\ SameFlags(web', web) /\ SameOutput(web', web)
      /\ term'.tx = term.tx /\ term'.tx_pending = term.tx_pending /\ term'.browser = term.browser
      /\ hist'.written = hist.written /\ hist'.shown = hist.shown
  BY <1>1, InputTaken, Zenon
<1>4. PICK dn : Moved(net', net, c, Tail(net[c].up), dn) /\ Told(net[c].down, dn, {"INPUT_ACK"})
  BY <1>1, InputTaken, Zenon
<1>5. Aside
  BY CallbacksAside, Zenon
<1>6. SameRing(term', term) /\ SameShown(hist', hist) /\ SameWrites(page[c], page'[c])
  BY <1>2, <1>3, Zenon DEF SameRing, SameShown, SameWrites
<1>7. UpAside(net[c].up, Tail(net[c].up)) /\ DownAside(net[c].down, dn)
  BY <1>2, <1>4, ToldAside, NotOutput, Zenon DEF UpAside
<1>8. QED
  BY <1>2, <1>3, <1>4, <1>5, <1>6, <1>7, OutMoves, Zenon

(* The heartbeat.                                                           *)
LEMMA PingOut ==
  ASSUME OutInv, Ping \/ NoPing
  PROVE  OutKept
<1>1. InputInv
  BY Zenon DEF OutInv
<1> DEFINE a == web.active
<1>2. /\ a \in Conns /\ UNCHANGED <<page, term, hist>>
      /\ SameFlags(web', web) /\ SameOutput(web', web)
      /\ \E dn : Moved(net', net, a, net[a].up, dn) /\ DownAside(net[a].down, dn)
  <2>1. CASE Ping
    BY <1>1, <2>1, PingTalks, ToldAside, NotOutput, Zenon
  <2>2. CASE NoPing
    <3>1. /\ web' = web /\ a \in Conns /\ UNCHANGED <<page, term, hist>>
          /\ \E dn : Moved(net', net, a, net[a].up, dn) /\ Told(net[a].down, dn, {"HELLO"})
      BY <1>1, <2>2, NoPingTalks, Zenon
    <3>2. SameFlags(web', web) /\ SameOutput(web', web)
      BY <3>1, Zenon DEF SameFlags, SameOutput
    <3>3. QED
      BY <3>1, <3>2, ToldAside, NotOutput, Zenon
  <2>3. QED
    BY <2>1, <2>2
<1>3. PICK dn : Moved(net', net, a, net[a].up, dn) /\ DownAside(net[a].down, dn)
  BY <1>2
<1>4. Aside
  BY PollAside, Zenon
<1>5. /\ SameRing(term', term) /\ SameShown(hist', hist) /\ SameWrites(page[a], page'[a])
      /\ UpAside(net[a].up, net[a].up)
  BY <1>2, Zenon DEF SameRing, SameShown, SameWrites, UpAside
<1>6. web.active = a
  OBVIOUS
<1> HIDE DEF a
<1>7. QED
  BY <1>2, <1>3, <1>4, <1>5, <1>6, OutMoves, Zenon

(* The page types, repeats its frame, or answers what is not output.        *)
LEMMA PageOut ==
  ASSUME OutInv, NEW c \in Conns, NEW q, NEW answers \in Seq(InputMessages), NEW dn,
         PageStep(c, q, dn, answers), web.active = c, SameWrites(page[c], q), NoAcks(answers),
         DownAside(net[c].down, dn), Aside, SameShown(hist', hist)
  PROVE  OutKept
<1>1. RoomInv
  BY Zenon DEF OutInv, InputInv
<1>2. /\ Moved(net', net, c, net[c].up \o answers, dn) /\ page'[c] = q
      /\ UNCHANGED <<term, web>>
  BY <1>1, PageStepFields, Zenon
<1>3. /\ SameRing(term', term) /\ SameFlags(web', web) /\ SameOutput(web', web)
      /\ SameWrites(page[c], page'[c]) /\ UpAside(net[c].up, net[c].up \o answers)
  BY <1>2, Zenon DEF SameRing, SameFlags, SameOutput, UpAside
<1>4. QED
  BY <1>2, <1>3, OutMoves, Zenon

LEMMA PageTypeOut ==
  ASSUME OutInv, NEW c \in Conns, PageType(c) \/ PageRetry(c)
  PROVE  OutKept
<1>1. InputInv /\ RoomInv
  BY Zenon DEF OutInv, InputInv
<1>2. /\ web.active = c /\ SameShown(hist', hist)
      /\ \E q : \E answers \in Seq(InputMessages) :
           PageStep(c, q, net[c].down, answers) /\ SameWrites(page[c], q) /\ NoAcks(answers)
  <2>1. CASE PageType(c)
    BY <1>1, <2>1, PageTypeTalks, Zenon DEF SameShown
  <2>2. CASE PageRetry(c)
    BY <1>1, <2>2, PageRetryTalks, Zenon DEF SameShown
  <2>3. QED
    BY <2>1, <2>2
<1>3. Aside
  BY <1>1, PageAside, Zenon
<1>4. DownAside(net[c].down, net[c].down)
  BY Zenon DEF DownAside
<1>5. QED
  BY <1>2, <1>3, <1>4, PageOut, Zenon

LEMMA PageAnswerOut ==
  ASSUME OutInv, NEW c \in Conns, PageReceive(c), Head(net[c].down).type # "OUTPUT"
  PROVE  OutKept
<1>1. InputInv /\ RoomInv
  BY Zenon DEF OutInv, InputInv
<1>2. /\ web.active = c /\ SameShown(hist', hist)
      /\ \E q : \E answers \in Seq(InputMessages) :
           PageStep(c, q, Tail(net[c].down), answers) /\ SameWrites(page[c], q) /\ NoAcks(answers)
  BY <1>1, PageAnswerTalks, Zenon DEF SameShown
<1>3. Aside
  BY <1>1, PageAside, Zenon
<1>4. DownAside(net[c].down, Tail(net[c].down))
  BY Zenon DEF DownAside, PageReceive
<1>5. QED
  BY <1>2, <1>3, <1>4, PageOut, Zenon

(* The page goes, or was never one.                                         *)
LEMMA GoneOut ==
  ASSUME OutInv, NEW c \in Conns, PageLeaves(c) \/ TcpGivesUp(c) \/ RawClient(c)
  PROVE  OutKept
<1>1. InputInv /\ RoomInv /\ OutputTalks /\ web.active \in Conns \cup {None}
  BY WebFacts, Zenon DEF OutInv, InputInv, RoomInv
<1>2. /\ UNCHANGED <<setup, term, web, hist>> /\ ~(net'[c].state = "open")
      /\ \A b \in Conns : b # c => net'[b] = net[b] /\ page'[b] = page[b]
      /\ net'[c].up = net[c].up \/ NoAcks(net'[c].up)
  BY <1>1, GoneTalks, Zenon DEF Live
<1>3. Aside
  BY <1>1, PageAside, Zenon
<1>4. SameRing(term', term) /\ SameShown(hist', hist) /\ SameFlags(web', web) /\ SameOutput(web', web)
  BY <1>2, Zenon DEF SameRing, SameShown, SameFlags, SameOutput
<1>5. CASE web.active # c
  <2>1. Steady => web.active \in Conns
    BY <1>1, Zenon DEF Steady
  <2>2. Steady => net'[web.active] = net[web.active] /\ page'[web.active] = page[web.active]
    BY <1>2, <1>5, <2>1, Zenon
  <2>3. QED
    BY <1>3, <1>4, <2>2, OutStill, Zenon
<1>6. CASE web.active = c
  <2>1. ASSUME Steady
        PROVE  OutTalk(web, term.tx, page'[web.active], net'[web.active].up,
                       net'[web.active].down, hist, Opened(net', web.active))
    <3>1. PICK u, d \in Nat : OutState(web, term.tx, net[c].up, hist, u, d)
      BY <1>1, <1>6, <2>1, Zenon DEF OutputTalks, OutTalk
    <3>2. OutState(web, term.tx, net'[c].up, hist, u, d)
      BY <1>2, <3>1, AcksNone, Zenon DEF OutState
    <3>3. ~Opened(net', c)
      BY <1>2, Zenon DEF Opened
    <3>4. QED
      BY <1>6, <3>2, <3>3, Zenon DEF OutTalk
  <2>2. QED
    BY <1>3, <1>4, <2>1, OutSame, Zenon
<1>7. QED
  BY <1>5, <1>6

(* A session that is over, its end not yet handled, or one not yet begun.   *)
LEMMA OutEnds ==
  ASSUME OutInv, Aside, SameRing(term', term), SameShown(hist', hist),
         SameOutput(web', web), ~Steady'
  PROVE  OutKept
<1>1. Window(web.out_seq, web.window) /\ OwnerFlow /\ Sides
  BY Zenon DEF OutInv
<1>2. Window(web.out_seq, web.window)'
  BY <1>1, Zenon DEF SameOutput
<1>3. OutputTalks'
  BY Zenon DEF OutputTalks
<1>4. Sides' /\ OwnerFlow'
  BY <1>1, SidesSame, OwnerSame, Zenon DEF SameShown
<1>5. QED
  BY <1>2, <1>3, <1>4, Zenon DEF OutKept

LEMMA ConnectOut ==
  ASSUME OutInv, NEW c \in Conns, on_connect(c)
  PROVE  OutKept
<1>1. /\ InputInv /\ Linked /\ web.active \in Conns \cup {None} /\ DOMAIN web = WebFields
      /\ DOMAIN net = Conns
  BY WebFacts, Zenon DEF OutInv, InputInv, RoomInv, NetGood
<1>2. UNCHANGED <<term, page, hist>> /\ net[c].state = "new"
  BY Zenon DEF on_connect
<1>3. Aside
  BY CallbacksAside, Zenon
<1>4. SameRing(term', term) /\ SameShown(hist', hist)
  BY <1>2, Zenon DEF SameRing, SameShown
<1>5. CASE web.active = None
  <2> DEFINE v == [web EXCEPT !.active = c, !.connected = TRUE]
  <2>1. web' = v
    BY <1>5, Zenon DEF on_connect
  <2>2. v.connected /\ SameOutput(v, web)
    BY <1>1, ZenonT(60) DEF WebFields, SameOutput
  <2> HIDE DEF v
  <2>3. QED
    BY <1>3, <1>4, <2>1, <2>2, OutEnds, Zenon DEF Steady
<1>6. CASE web.active # None
  <2>1. web' = web /\ net' = [net EXCEPT ![c].state = "aborted"]
    BY <1>6, Zenon DEF on_connect
  <2>2. SameFlags(web', web) /\ SameOutput(web', web)
    BY <2>1, Zenon DEF SameFlags, SameOutput
  <2>3. web.active # c
    BY <1>1, <1>2, OwnerFacts, Zenon
  <2>4. net'[web.active] = net[web.active] /\ page'[web.active] = page[web.active]
    BY <1>1, <1>2, <1>6, <2>1, <2>3, Zenon
  <2>5. QED
    BY <1>3, <1>4, <2>2, <2>4, OutStill, Zenon
<1>7. QED
  BY <1>5, <1>6

LEMMA ClosedOut ==
  ASSUME OutInv, NEW c \in Conns, Closed(c)
  PROVE  OutKept
<1>1. WebGood(web) /\ web.active \in Conns \cup {None} /\ DOMAIN net = Conns
  BY WebFacts, Zenon DEF OutInv, InputInv, RoomInv, NetGood
<1>2. /\ UNCHANGED <<term, page, hist>> /\ net' = [net EXCEPT ![c] = Channel("closed")]
      /\ web' = on_close(on_close_details(web, c), c)
  BY Zenon DEF Closed
<1>3. /\ SameOutput(web', web) /\ (web'.connected <=> web.connected)
      /\ IF web.active = c
           THEN web'.active = None /\ web'.disconnected
           ELSE web'.active = web.active /\ (web'.disconnected <=> web.disconnected)
  BY <1>1, <1>2, ClosedFields, Zenon
<1>4. Aside
  BY CallbacksAside, Zenon
<1>5. SameRing(term', term) /\ SameShown(hist', hist)
  BY <1>2, Zenon DEF SameRing, SameShown
<1>6. CASE web.active = c
  BY <1>3, <1>4, <1>5, <1>6, OutEnds, Zenon DEF Steady
<1>7. CASE web.active # c
  <2>1. SameFlags(web', web)
    BY <1>3, <1>7, Zenon DEF SameFlags
  <2>2. Steady => web.active \in Conns
    BY <1>1, Zenon DEF Steady
  <2>3. Steady => net'[web.active] = net[web.active] /\ page'[web.active] = page[web.active]
    BY <1>1, <1>2, <1>7, <2>2, Zenon
  <2>4. QED
    BY <1>3, <1>4, <1>5, <2>1, <2>3, OutStill, Zenon
<1>8. QED
  BY <1>6, <1>7

(* An empty window stands before any number.                                *)
LEMMA WindowFresh == Window(1, <<>>) /\ 1 \in Sequence
<1>1. 1 \in Sequence
  BY Modulus DEF Sequence
<1>2. DOMAIN <<>> = {}
  OBVIOUS
<1>3. QED
  BY <1>1, <1>2, Zenon DEF Window

LEMMA DisconnectOut ==
  ASSUME OutInv, disconnect_client, peeked' = peeked, z80' = z80
  PROVE  OutKept
<1>1. RoomInv /\ hist \in History /\ OwnerFlow /\ Sides
  BY Zenon DEF OutInv, InputInv
<1>2. /\ web'.active = None /\ web'.out_seq = 1 /\ web'.window = <<>>
      /\ ~term'.browser /\ pc' = "idle"
      /\ IF term.browser
           THEN hist' = NoHistory /\ term'.tx = <<>> /\ ~term'.tx_pending
           ELSE hist' = hist /\ term' = term
  BY <1>1, DisconnectFields, Zenon
<1>3. Window(web.out_seq, web.window)'
  BY <1>2, WindowFresh, Zenon
<1>4. OutputTalks'
  BY <1>2, Zenon DEF OutputTalks, Steady
<1>5. pc' # "usb"
  BY <1>2
<1>6. OwnerFlow' /\ Sides'
  <2>1. CASE term.browser
    BY <1>2, <1>5, <2>1, OwnerFresh, SidesFresh, Zenon
  <2>2. CASE ~term.browser
    <3>1. Aside /\ SameRing(term', term) /\ SameShown(hist', hist)
      BY <1>2, <1>5, <2>2, Zenon DEF Aside, SameRing, SameShown
    <3>2. QED
      BY <1>1, <3>1, OwnerSame, SidesSame, Zenon DEF SameShown
  <2>3. QED
    BY <2>1, <2>2
<1>7. QED
  BY <1>3, <1>4, <1>6, Zenon DEF OutKept

LEMMA EndingsOut ==
  ASSUME OutInv, PollOffline \/ AckTimeout \/ SendError \/ (\E c \in Conns : OnInvalid(c))
  PROVE  OutKept
<1>1. disconnect_client /\ peeked' = peeked /\ z80' = z80
  BY Zenon DEF PollOffline, AckTimeout, SendError, OnInvalid
<1>2. QED
  BY <1>1, DisconnectOut, Zenon

LEMMA PongTimeoutOut ==
  ASSUME OutInv, PongTimeout
  PROVE  OutKept
<1>1. InputInv /\ peeked' = peeked /\ z80' = z80
  BY Zenon DEF OutInv, PongTimeout
<1>2. CASE disconnect_client
  BY <1>1, <1>2, DisconnectOut, Zenon
<1>3. CASE /\ SameFlags(web', web) /\ SameInput(web', web) /\ SameOutput(web', web)
           /\ web'.ready = web.ready /\ UNCHANGED <<net, page, term, hist, pc>>
  <2>1. Aside
    BY <1>1, <1>3 DEF Aside
  <2>2. SameRing(term', term) /\ SameShown(hist', hist)
    BY <1>3, Zenon DEF SameRing, SameShown
  <2>3. QED
    BY <1>3, <2>1, <2>2, OutStill, Zenon
<1>4. QED
  BY <1>1, <1>2, <1>3, PongTimeoutTalks, Zenon

(* A session that begins.                                                   *)
LEMMA TalkBegins ==
  ASSUME NEW w, w.out_seq = 1, w.window = <<>>, w.staged = <<>>, NEW up, NoAcks(up), NEW p, NEW dn,
         NEW live, live => p = ResetPage /\ dn = <<>>
  PROVE  OutTalk(w, <<>>, p, up, dn, NoHistory, live)
<1>1. /\ 0 \in Nat /\ 0 <= 0 /\ Len(<<>>) = 0 /\ DOMAIN <<>> = {} /\ Minus(1, 1) = 0 /\ 0 - 0 = 0
      /\ 1 \in Sequence
  <2>1. Minus(1, 1) = 0
    BY WindowFresh, MinusIs
  <2>2. QED
    BY <2>1, WindowFresh
<1>2. OutState(w, <<>>, up, NoHistory, 0, 0)
  BY <1>1, AcksNone, FlowFresh, NoHistoryFacts, Zenon DEF OutState
<1>3. ASSUME live PROVE OutLive(w, p, dn, 0, 0)
  <2>1. p.received = 1 /\ p.out_seq = 1 /\ p.writes = <<>> /\ dn = <<>>
    BY <1>3 DEF ResetPage
  <2>2. Reads(1, 1, 1, <<>>, 0, 0)
    BY <1>1, Zenon DEF Reads
  <2>3. Sent(<<>>, 0, <<>>) /\ Copies(1, <<>>, 0, <<>>)
    BY <1>1, Zenon DEF Sent, Copies
  <2>4. QED
    BY <2>1, <2>2, <2>3, Zenon DEF OutLive
<1>4. QED
  BY <1>1, <1>2, <1>3, Zenon DEF OutTalk

LEMMA EventsOut ==
  ASSUME OutInv, process_events, UNCHANGED <<net, page>>, Aside, pc' # "usb"
  PROVE  OutKept
<1>1. /\ RoomInv /\ hist \in History /\ OwnerFlow /\ Sides /\ Linked /\ NetGood(net)
      /\ web.active \in Conns \cup {None}
  BY WebFacts, Zenon DEF OutInv, InputInv, RoomInv
<1>2. web'.active = web.active /\ ~web'.connected /\ ~web'.disconnected
  BY <1>1, EventsFields, Zenon
<1>3. CASE /\ web.connected /\ web.active # None
           /\ web'.out_seq = 1 /\ web'.window = <<>> /\ web'.staged = <<>>
           /\ term'.browser /\ term'.tx = <<>> /\ ~term'.tx_pending /\ hist' = NoHistory
  <2> DEFINE a == web.active
             l == Opened(net, a)
  <2>1. a \in Conns /\ a = web.active
    BY <1>1, <1>3
  <2>2. /\ net[a].state \in {"open", "silent", "closing", "raw"}
        /\ net[a].state \in {"open", "silent", "closing"} =>
             net[a].up = <<>> /\ net[a].down = <<>> /\ page[a] = ResetPage
        /\ net[a].state = "raw" => \A j \in DOMAIN net[a].up : net[a].up[j].type # "OUTPUT_ACK"
    BY <1>1, <1>3, <2>1, OwnerFacts, Zenon
  <2>3. NoAcks(net[a].up)
    <3>1. net[a].state \in {"open", "silent", "closing"} \/ net[a].state = "raw"
      BY <2>2
    <3>2. DOMAIN <<>> = {}
      OBVIOUS
    <3>3. QED
      BY <2>2, <3>1, <3>2, Zenon DEF NoAcks
  <2>4. l => page[a] = ResetPage /\ net[a].down = <<>>
    <3>1. l => net[a].state \in {"open", "silent", "closing"}
      BY DEF Opened
    <3>2. QED
      BY <2>2, <3>1, Zenon
  <2> DEFINE up == net[a].up
             dn == net[a].down
             p == page[a]
  <2>5. NoAcks(up) /\ (l => p = ResetPage /\ dn = <<>>)
    BY <2>3, <2>4
  <2> HIDE DEF l, up, dn, p
  <2>6. OutTalk(web', <<>>, p, up, dn, NoHistory, l)
    BY <1>3, <2>5, TalkBegins, Zenon
  <2>7. OutTalk(web', term'.tx, page'[web'.active], net'[web'.active].up, net'[web'.active].down,
                hist', Opened(net', web'.active))
    BY <1>2, <1>3, <2>6, Zenon DEF l, up, dn, p
  <2>8. Window(web'.out_seq, web'.window)
    BY <1>3, WindowFresh, Zenon
  <2>9. QED
    BY <1>3, <2>7, <2>8, SidesFresh, Zenon DEF OutKept, OutputTalks, OwnerFlow
<1>4. CASE /\ ~(web.connected /\ web.active # None) /\ web.disconnected
           /\ web'.out_seq = 1 /\ web'.window = <<>> /\ web'.staged = <<>> /\ ~term'.browser
           /\ IF term.browser
                THEN hist' = NoHistory /\ term'.tx = <<>> /\ ~term'.tx_pending
                ELSE hist' = hist /\ term' = term
  <2>1. web.active = None
    BY <1>1, <1>4, Zenon DEF Linked, FlagsGood
  <2>2. OutputTalks'
    BY <1>2, <2>1, Zenon DEF OutputTalks, Steady
  <2>3. Window(web'.out_seq, web'.window)
    BY <1>4, WindowFresh, Zenon
  <2>4. OwnerFlow' /\ Sides'
    <3>1. CASE term.browser
      BY <1>4, <3>1, OwnerFresh, SidesFresh, Zenon
    <3>2. CASE ~term.browser
      <4>1. SameRing(term', term) /\ SameShown(hist', hist)
        BY <1>4, <3>2, Zenon DEF SameRing, SameShown
      <4>2. QED
        BY <1>1, <4>1, OwnerSame, SidesSame, Zenon DEF SameShown
    <3>3. QED
      BY <3>1, <3>2
  <2>5. QED
    BY <2>2, <2>3, <2>4, Zenon DEF OutKept
<1>5. CASE /\ ~(web.connected /\ web.active # None) /\ ~web.disconnected
           /\ SameOutput(web', web) /\ term' = term /\ hist' = hist
  <2>1. SameRing(term', term) /\ SameShown(hist', hist)
    BY <1>5, Zenon DEF SameRing, SameShown
  <2>2. CASE web.active = None
    BY <1>2, <1>5, <2>1, <2>2, OutEnds, Zenon DEF Steady
  <2>3. CASE web.active # None
    <3>1. SameFlags(web', web)
      BY <1>2, <1>5, <2>3, Zenon DEF SameFlags
    <3>2. QED
      BY <1>5, <2>1, <3>1, OutStill, Zenon
  <2>4. QED
    BY <2>2, <2>3
<1>6. QED
  BY <1>1, <1>3, <1>4, <1>5, EventsFields, Zenon

LEMMA PollOnlineOut ==
  ASSUME OutInv, PollOnline
  PROVE  OutKept
<1>1. process_events /\ UNCHANGED <<net, page>> /\ pc' = "pop"
  BY Zenon DEF PollOnline
<1>2. Aside /\ pc' # "usb"
  BY <1>1, PollAside
<1>3. QED
  BY <1>1, <1>2, EventsOut, Zenon

LEMMA PollInputOut ==
  ASSUME OutInv, PollInput
  PROVE  OutKept
<1>1. InputInv /\ page' = page
  BY Zenon DEF OutInv, PollInput
<1>2. Aside /\ pc' # "usb"
  <2>1. pc' = "idle" \/ pc' = "heartbeat"
    BY Zenon DEF PollInput
  <2>2. QED
    BY <2>1, PollAside
<1>3. CASE process_events /\ net' = net
  BY <1>1, <1>2, <1>3, EventsOut, Zenon
<1>4. CASE /\ SameFlags(web', web) /\ SameOutput(web', web)
           /\ term'.browser = term.browser /\ term'.tx = term.tx /\ term'.tx_pending = term.tx_pending
           /\ hist'.written = hist.written /\ hist'.shown = hist.shown
           /\ \/ /\ web.active \in Conns
                 /\ \E dn : /\ Moved(net', net, web.active, net[web.active].up, dn)
                            /\ Told(net[web.active].down, dn, {"INPUT_ACK"})
              \/ web.active = None /\ net' = net
  <2>1. SameRing(term', term) /\ SameShown(hist', hist)
    BY <1>4, Zenon DEF SameRing, SameShown
  <2>2. CASE web.active = None /\ net' = net
    BY <1>1, <1>2, <1>4, <2>1, <2>2, OutStill, Zenon
  <2>3. CASE /\ web.active \in Conns
             /\ \E dn : /\ Moved(net', net, web.active, net[web.active].up, dn)
                        /\ Told(net[web.active].down, dn, {"INPUT_ACK"})
    <3> DEFINE a == web.active
    <3>1. PICK dn : Moved(net', net, a, net[a].up, dn) /\ Told(net[a].down, dn, {"INPUT_ACK"})
      BY <2>3, Zenon
    <3>2. a \in Conns /\ web.active = a
      BY <2>3
    <3> HIDE DEF a
    <3>3. /\ UpAside(net[a].up, net[a].up) /\ DownAside(net[a].down, dn)
          /\ SameWrites(page[a], page'[a])
      BY <1>1, <3>1, ToldAside, NotOutput, Zenon DEF UpAside, SameWrites
    <3>4. QED
      BY <1>2, <1>4, <2>1, <3>1, <3>2, <3>3, OutMoves, Zenon
  <2>4. QED
    BY <1>4, <2>2, <2>3, Zenon
<1>5. QED
  BY <1>1, <1>3, <1>4, PollInputTalks, Zenon

(* The browser acknowledges frames it was sent.                             *)
LEMMA AckedState ==
  ASSUME NEW w, w.window \in Seq(Frames), Window(w.out_seq, w.window), NEW tx,
         NEW up \in Seq(InputMessages), up # <<>>, Head(up).type = "OUTPUT_ACK", NEW h,
         NEW u \in Nat, NEW d \in Nat, OutState(w, tx, up, h, u, d),
         NEW k \in 1 .. Len(w.window), w.window[k].seq = Head(up).seq,
         NEW v, v.window = Rest(w.window, k), v.out_seq = w.out_seq, v.staged = w.staged
  PROVE  OutState(v, tx, Tail(up), h, u, d) /\ d <= Len(w.window) - k
<1> DEFINE W == w.window
           o == w.out_seq
           n == Len(W)
<1>1. /\ u <= d /\ d <= n /\ Acks(o, n, d, up) /\ Flow(W, w.staged, tx, h.written, h.shown, u)
  BY Zenon DEF OutState
<1>2. n \in Nat /\ DOMAIN W = 1 .. n
  BY FramesLen, Zenon
<1>3. o \in Sequence /\ Minus(o, W[k].seq) = n + 1 - k
  BY <1>2, Zenon DEF Window
<1>4. Head(up) = up[1]
  BY TailAt
<1>5. Minus(o, up[1].seq) - 1 \in d .. n /\ Acks(o, Minus(o, up[1].seq) - 1, d, Tail(up))
  <2>1. up[1].type = "OUTPUT_ACK"
    BY <1>4
  <2> HIDE DEF o, n, W
  <2>2. QED
    BY <1>1, <1>2, <1>3, <2>1, AckTaken, Zenon
<1>6. Minus(o, up[1].seq) - 1 = n - k
  <2>1. Minus(o, up[1].seq) = n + 1 - k
    BY <1>3, <1>4
  <2> HIDE DEF o, n, W
  <2>2. QED
    BY <1>2, <2>1
<1>7. d <= n - k /\ u <= n - k /\ n - k \in Nat
  <2>1. n - k \in d .. n
    BY <1>5, <1>6
  <2>2. k \in 1 .. n
    OBVIOUS
  <2> HIDE DEF o, n, W
  <2>3. QED
    BY <1>1, <1>2, <2>1, <2>2
<1>8. Len(Rest(W, k)) = n - k
  BY CutAt, Zenon
<1>9. Flow(Rest(W, k), w.staged, tx, h.written, h.shown, u)
  BY <1>1, <1>7, FlowCut, Zenon
<1>10. Acks(o, n - k, d, Tail(up))
  BY <1>5, <1>6
<1>11. QED
  BY <1>1, <1>7, <1>8, <1>9, <1>10, Zenon DEF OutState

LEMMA AckedTalk ==
  ASSUME NEW w, w.window \in Seq(Frames), Window(w.out_seq, w.window), NEW tx, NEW p,
         NEW up \in Seq(InputMessages), up # <<>>, Head(up).type = "OUTPUT_ACK", NEW dn, NEW h,
         NEW live, OutTalk(w, tx, p, up, dn, h, live),
         NEW k \in 1 .. Len(w.window), w.window[k].seq = Head(up).seq,
         NEW v, v.window = Rest(w.window, k), v.out_seq = w.out_seq, v.staged = w.staged
  PROVE  OutTalk(v, tx, p, Tail(up), dn, h, live)
<1>1. PICK u, d \in Nat : OutState(w, tx, up, h, u, d) /\ (live => OutLive(w, p, dn, u, d))
  BY Zenon DEF OutTalk
<1>2. OutState(v, tx, Tail(up), h, u, d) /\ d <= Len(w.window) - k
  BY <1>1, AckedState, Zenon
<1>3. u <= Len(w.window) - k
  <2>1. u <= d /\ Len(w.window) \in Nat
    BY <1>1, FramesLen, Zenon DEF OutState
  <2>2. QED
    BY <1>2, <2>1
<1>4. ASSUME live PROVE OutLive(v, p, dn, u, d)
  BY <1>1, <1>3, <1>4, SentCut, CopiesCut, Zenon DEF OutLive
<1>5. QED
  BY <1>1, <1>2, <1>4, Zenon DEF OutTalk

(* A step of a session in which the ring's owner stays.                     *)
LEMMA OutGoes ==
  ASSUME OutInv, Aside, SameFlags(web', web), term'.browser = term.browser, term.browser,
         term'.tx_pending <=> term'.tx # <<>>, hist'.written = hist.written, pc' # "usb",
         Window(web'.out_seq, web'.window), NEW c \in Conns, web.active = c,
         Steady => OutTalk(web', term'.tx, page'[c], net'[c].up, net'[c].down, hist',
                           Opened(net', c))
  PROVE  OutKept
<1>1. OutputTalks'
  BY Zenon DEF OutputTalks, Steady, SameFlags
<1>2. OwnerFlow'
  BY Zenon DEF OwnerFlow
<1>3. Sides'
  BY Zenon DEF OutInv, Sides, Aside
<1>4. QED
  BY <1>1, <1>2, <1>3, Zenon DEF OutKept

LEMMA SessionFacts ==
  ASSUME OutInv
  PROVE  /\ InputInv /\ RoomInv /\ Linked /\ hist \in History
         /\ web.window \in Seq(Frames) /\ Len(web.window) \in Nat /\ Len(web.window) <= OUTPUT_WINDOW
         /\ Window(web.out_seq, web.window) /\ web.out_seq \in Sequence
         /\ OutputTalks /\ OwnerFlow /\ Sides /\ (term.tx_pending <=> term.tx # <<>>)
         /\ Steady => term.browser
<1>1. /\ InputInv /\ RoomInv /\ Linked /\ hist \in History /\ WebGood(web)
      /\ Window(web.out_seq, web.window) /\ OutputTalks /\ OwnerFlow /\ Sides
  BY Zenon DEF OutInv, InputInv, RoomInv
<1>2. /\ web.window \in Seq(Frames) /\ Len(web.window) \in Nat /\ Len(web.window) <= OUTPUT_WINDOW
  BY <1>1, WebFacts, Zenon
<1>3. QED
  BY <1>1, <1>2, Zenon DEF Window, Sides, Linked, FlagsGood, Steady

LEMMA OutputAckOut ==
  ASSUME OutInv, NEW c \in Conns, OnOutputAck(c)
  PROVE  OutKept
<1>1. /\ InputInv /\ RoomInv /\ web.window \in Seq(Frames) /\ Window(web.out_seq, web.window)
      /\ OutputTalks /\ Len(web.window) \in Nat
  BY SessionFacts, Zenon
<1>2. /\ UNCHANGED <<term, page, hist>> /\ pc' = pc /\ pc = "pop" /\ web.active = c
      /\ net[c].up # <<>> /\ Head(net[c].up).type \in {"OUTPUT_ACK"} /\ net' = Arrived(c)
  BY Zenon DEF OnOutputAck, Take
<1>3. /\ net[c].up \in Seq(InputMessages) /\ Moved(net', net, c, Tail(net[c].up), net[c].down)
  BY <1>1, <1>2, ArrivedFields, ChannelFacts, Zenon DEF RoomInv
<1> DEFINE seq == Head(net[c].up).seq
           hit == {i \in DOMAIN web.window : web.window[i].sent /\ web.window[i].seq = seq}
           k == CHOOSE i \in hit : \A j \in hit : i <= j
<1>4. /\ SameFlags(web', web) /\ web'.out_seq = web.out_seq /\ web'.staged = web.staged
      /\ web'.window = IF hit = {} THEN web.window ELSE Rest(web.window, k)
  BY <1>1, OutputAckFields, Zenon
<1>5. Aside /\ pc' # "usb"
  BY <1>2, CallbacksAside
<1>6. CASE hit = {}
  <2>1. SameOutput(web', web)
    BY <1>4, <1>6, Zenon DEF SameOutput
  <2>2. SameRing(term', term) /\ SameShown(hist', hist) /\ SameWrites(page[c], page'[c])
    BY <1>2, Zenon DEF SameRing, SameShown, SameWrites
  <2>3. UpAside(net[c].up, Tail(net[c].up)) /\ DownAside(net[c].down, net[c].down)
    BY <1>2, Zenon DEF UpAside, DownAside
  <2>4. QED
    BY <1>2, <1>3, <1>4, <1>5, <2>1, <2>2, <2>3, OutMoves, Zenon
<1>7. CASE hit # {}
  <2>1. k \in hit
    <3>1. hit \in SUBSET Nat
      BY <1>1, FramesLen
    <3> HIDE DEF hit
    <3>2. \E i \in hit : \A j \in hit : i <= j
      BY <1>7, <3>1, LeastNumber
    <3>3. QED
      BY <3>2, Zenon
  <2>2. /\ k \in 1 .. Len(web.window) /\ web.window[k].seq = seq
        /\ web'.window = Rest(web.window, k)
    BY <1>1, <1>4, <1>7, <2>1, FramesLen
  <2> HIDE DEF k, hit
  <2>3. Window(web'.out_seq, web'.window)
    BY <1>1, <1>4, <2>2, WindowCut, Zenon
  <2>4. CASE Steady
    <3> DEFINE up == net[c].up
               dn == net[c].down
               p == page[c]
               l == Opened(net, c)
    <3>1. OutTalk(web, term.tx, p, up, dn, hist, l)
      BY <1>1, <1>2, <2>4, Zenon DEF OutputTalks
    <3>2. up \in Seq(InputMessages) /\ up # <<>> /\ Head(up).type = "OUTPUT_ACK"
          /\ web.window[k].seq = Head(up).seq
      BY <1>2, <1>3, <2>2
    <3>3. net'[c].up = Tail(up) /\ net'[c].down = dn /\ page'[c] = p /\ (Opened(net', c) <=> l)
          /\ term' = term /\ hist' = hist
      BY <1>2, <1>3, Zenon DEF Moved, Opened
    <3> HIDE DEF up, dn, p, l
    <3>4. OutTalk(web', term.tx, p, Tail(up), dn, hist, l)
      BY <1>1, <1>4, <2>2, <3>1, <3>2, AckedTalk, Zenon
    <3> DEFINE m == Opened(net', c)
    <3>5. OutTalk(web', term.tx, p, Tail(up), dn, hist, m)
      <4>1. m <=> l
        BY <3>3
      <4> HIDE DEF m
      <4>2. QED
        BY <3>4, <4>1, Zenon DEF OutTalk
    <3>6. OutTalk(web', term'.tx, page'[c], net'[c].up, net'[c].down, hist', Opened(net', c))
      BY <3>3, <3>5
    <3>7. /\ term'.browser = term.browser /\ term.browser
          /\ (term'.tx_pending <=> term'.tx # <<>>) /\ hist'.written = hist.written
      BY <2>4, <3>3, SessionFacts, Zenon
    <3>8. QED
      BY <1>2, <1>4, <1>5, <2>3, <3>6, <3>7, OutGoes, Zenon
  <2>5. CASE ~Steady
    <3>1. /\ OutputTalks'
      BY <1>4, <2>5, Zenon DEF OutputTalks, Steady, SameFlags
    <3>2. SameRing(term', term) /\ SameShown(hist', hist)
      BY <1>2, Zenon DEF SameRing, SameShown
    <3>3. Sides' /\ OwnerFlow'
      BY <1>5, <3>2, SessionFacts, SidesSame, OwnerSame, Zenon DEF SameShown
    <3>4. QED
      BY <2>3, <3>1, <3>3, Zenon DEF OutKept
  <2>6. QED
    BY <2>4, <2>5
<1>8. QED
  BY <1>6, <1>7

(* The ring fills the frame being staged, which joins the window.           *)
LEMMA FillFields ==
  ASSUME NEW t, TermGood(t), t.tx_pending <=> t.tx # <<>>, NEW n \in Nat
  PROVE  /\ peek(t, n) = First(t.tx, n) /\ supply(t, n).tx = Rest(t.tx, n)
         /\ (supply(t, n).tx_pending <=> supply(t, n).tx # <<>>)
         /\ (supply(t, n).browser <=> t.browser)
<1>1. t \in Rings /\ t.tx \in Bytes
  BY TermFacts, Zenon
<1>2. CASE t.tx_pending
  <2> DEFINE left == Rest(t.tx, n)
             b == left # <<>>
  <2>1. peek(t, n) = First(t.tx, n) /\ supply(t, n) = [t EXCEPT !.tx = left, !.tx_pending = b]
    BY <1>2, Zenon DEF peek, supply
  <2> HIDE DEF left, b
  <2>2. /\ [t EXCEPT !.tx = left, !.tx_pending = b].tx = left
        /\ [t EXCEPT !.tx = left, !.tx_pending = b].tx_pending = b
        /\ [t EXCEPT !.tx = left, !.tx_pending = b].browser = t.browser
    BY <1>1, ZenonT(60) DEF Rings
  <2>3. supply(t, n).tx = left /\ supply(t, n).tx_pending = b /\ supply(t, n).browser = t.browser
    BY <2>1, <2>2, Zenon
  <2>4. supply(t, n).tx_pending <=> left # <<>>
    BY <2>3 DEF b
  <2>5. QED
    BY <2>1, <2>3, <2>4, Zenon DEF left
<1>3. CASE ~t.tx_pending
  <2>1. t.tx = <<>> /\ peek(t, n) = <<>> /\ supply(t, n) = t
    BY <1>3, Zenon DEF peek, supply
  <2>2. First(<<>>, n) = <<>> /\ Rest(<<>>, n) = <<>>
    <3>1. First(<<>>, n) \in Seq(Byte) /\ Len(First(<<>>, n)) <= 0
      BY NoBytes, FirstFacts
    <3>2. Rest(<<>>, n) \in Seq(Byte) /\ Len(Rest(<<>>, n)) <= 0
      BY NoBytes, RestFacts
    <3>3. QED
      BY <3>1, <3>2
  <2>3. QED
    BY <1>3, <2>1, <2>2, Zenon
<1>4. QED
  BY <1>2, <1>3

LEMMA StagedTalk ==
  ASSUME NEW w, w.window \in Seq(Frames), Len(w.window) < OUTPUT_WINDOW, w.out_seq \in Sequence,
         NEW tx, NEW p, p.writes \in Seq(Messages), NEW up \in Seq(InputMessages),
         NEW dn \in Seq(Messages), NEW h, NEW live, OutTalk(w, tx, p, up, dn, h, live),
         NEW n \in Nat, NEW f \in Frames, f.data = w.staged \o First(tx, n), ~f.sent,
         NEW v, v.window = Append(w.window, f), v.out_seq = Next1(w.out_seq), v.staged = <<>>
  PROVE  OutTalk(v, Rest(tx, n), p, up, dn, h, live)
<1>1. PICK u, d \in Nat : OutState(w, tx, up, h, u, d) /\ (live => OutLive(w, p, dn, u, d))
  BY Zenon DEF OutTalk
<1> DEFINE W == w.window
           o == w.out_seq
<1>2. /\ u <= d /\ d <= Len(W) /\ Acks(o, Len(W), d, up)
      /\ Flow(W, w.staged, tx, h.written, h.shown, u)
  BY <1>1, Zenon DEF OutState
<1>3. /\ W \in Seq(Frames) /\ Len(W) \in Nat /\ Len(W) < OUTPUT_WINDOW /\ o \in Sequence
      /\ v.window = Append(W, f) /\ v.out_seq = Next1(o)
  BY FramesLen, Zenon
<1>4. ASSUME live
      PROVE  /\ Reads(o, p.received, p.out_seq, p.writes, u, d)
             /\ Sent(W, u, dn) /\ Copies(o, W, u, dn)
  BY <1>1, <1>4, Zenon DEF OutLive
<1> HIDE DEF W, o
<1>5. /\ u + 1 \in Nat /\ d + 1 \in Nat /\ u + 1 <= d + 1 /\ d + 1 <= Len(W) + 1
      /\ u <= Len(W) /\ d < OUTPUT_WINDOW /\ d \in 0 .. Len(W)
  <2> DEFINE k == Len(W)
  <2>1. u \in Nat /\ d \in Nat /\ u <= d /\ d <= k /\ k \in Nat /\ k < OUTPUT_WINDOW
    BY <1>1, <1>2, <1>3, Zenon
  <2>2. OUTPUT_WINDOW \in Nat
    BY Modulus, Zenon
  <2> HIDE DEF k
  <2>3. /\ u + 1 \in Nat /\ d + 1 \in Nat /\ u + 1 <= d + 1 /\ d + 1 <= k + 1
        /\ u <= k /\ d < OUTPUT_WINDOW /\ d \in 0 .. k
    BY <2>1, <2>2
  <2>4. QED
    BY <2>3, Zenon DEF k
<1>6. Len(Append(W, f)) = Len(W) + 1
  BY <1>3, AppendFacts
<1>7. Acks(Next1(o), Len(W) + 1, d + 1, up)
  BY <1>2, <1>3, <1>5, AcksStaged, Zenon
<1>8. Flow(Append(W, f), <<>>, Rest(tx, n), h.written, h.shown, u + 1)
  <2>1. Flow(W, f.data, Rest(tx, n), h.written, h.shown, u)
    BY <1>2, FlowFilled, Zenon
  <2>2. QED
    BY <1>3, <1>5, <2>1, FlowStaged, Zenon
<1>9. OutState(v, Rest(tx, n), up, h, u + 1, d + 1)
  BY <1>3, <1>5, <1>6, <1>7, <1>8, Zenon DEF OutState
<1>10. ASSUME live PROVE OutLive(v, p, dn, u + 1, d + 1)
  <2>1. Reads(Next1(o), p.received, p.out_seq, p.writes, u + 1, d + 1)
    BY <1>2, <1>3, <1>4, <1>5, <1>10, ReadsStaged, Zenon
  <2>2. Sent(Append(W, f), u + 1, dn) /\ Copies(Next1(o), Append(W, f), u + 1, dn)
    BY <1>3, <1>4, <1>5, <1>10, SentStaged, CopiesStaged, Zenon
  <2>3. QED
    BY <1>3, <2>1, <2>2, Zenon DEF OutLive
<1>11. QED
  BY <1>5, <1>9, <1>10, Zenon DEF OutTalk

LEMMA StageOut ==
  ASSUME OutInv, Stage
  PROVE  OutKept
<1>1. /\ InputInv /\ RoomInv /\ web.window \in Seq(Frames) /\ Window(web.out_seq, web.window)
      /\ OutputTalks /\ Len(web.window) \in Nat /\ web.out_seq \in Sequence
      /\ (term.tx_pending <=> term.tx # <<>>)
  BY SessionFacts, Zenon
<1> DEFINE c == web.active
           n == FRAME_BYTES - Len(web.staged)
           f == [seq |-> web.out_seq, data |-> Staged, sent |-> FALSE]
<1>2. /\ SameFlags(web', web) /\ web'.window = Append(web.window, f)
      /\ web'.out_seq = Next1(web.out_seq) /\ web'.staged = <<>> /\ term' = Supplied
      /\ UNCHANGED <<net, page, pc, hist>>
      /\ pc = "stage" /\ Len(web.window) < OUTPUT_WINDOW /\ Staged # <<>>
  BY <1>1, StageFields, Zenon
<1>3. Steady /\ c \in Conns /\ term.browser
  <2>1. pc \in {"heartbeat", "stage"}
    BY <1>2
  <2>2. QED
    BY <1>1, <2>1, PollFacts, Zenon
<1>4. /\ TermGood(term) /\ PageGood(page[c]) /\ NetGood(net) /\ Staged \in Bytes /\ n \in Nat
      /\ web.out_seq \in Int
  <2>1. Len(web.staged) \in Nat /\ Len(web.staged) < FRAME_BYTES /\ web.out_seq \in Int
    BY <1>1, WebFacts, Zenon DEF RoomInv
  <2>2. n \in Nat
    BY <2>1, Sizes
  <2>3. QED
    BY <1>1, <1>3, <2>1, <2>2, StagedFacts, Zenon DEF RoomInv, PagesGood
<1>5. f \in Frames /\ f.seq = web.out_seq /\ f.data = Staged /\ ~f.sent
  BY <1>4, Zenon DEF Frames
<1>6. /\ Staged = web.staged \o First(term.tx, n) /\ term'.tx = Rest(term.tx, n)
      /\ (term'.tx_pending <=> term'.tx # <<>>) /\ (term'.browser <=> term.browser)
  BY <1>1, <1>2, <1>4, FillFields, Zenon DEF Staged, Supplied
<1> DEFINE up == net[c].up
           dn == net[c].down
           p == page[c]
           l == Opened(net, c)
<1>7. /\ up \in Seq(InputMessages) /\ dn \in Seq(Messages) /\ p.writes \in Seq(Messages)
  BY <1>3, <1>4, ChannelFacts, PageFacts, Zenon
<1>8. OutTalk(web, term.tx, p, up, dn, hist, l)
  BY <1>1, <1>3, Zenon DEF OutputTalks
<1>9. Window(web'.out_seq, web'.window)
  <2> HIDE DEF f
  <2>1. QED
    BY <1>1, <1>2, <1>5, WindowStaged, Zenon
<1>10. OutTalk(web', Rest(term.tx, n), p, up, dn, hist, l)
  <2> HIDE DEF f, n, up, dn, p, l
  <2>1. QED
    BY <1>1, <1>2, <1>4, <1>5, <1>6, <1>7, <1>8, StagedTalk, Zenon
<1>11. OutTalk(web', term'.tx, page'[c], net'[c].up, net'[c].down, hist', Opened(net', c))
  BY <1>2, <1>6, <1>10, Zenon
<1>12. Aside /\ pc' # "usb" /\ web.active = c
  BY <1>2, PollAside
<1>13. term'.browser = term.browser
  BY <1>1, StageFields, Zenon
<1> HIDE DEF c
<1>14. QED
  BY <1>2, <1>3, <1>6, <1>9, <1>11, <1>12, <1>13, OutGoes, Zenon

(* Frames of the window are sent, those before them first.                  *)
LEMMA SentTalk ==
  ASSUME NEW w, w.window \in Seq(Frames), Len(w.window) <= OUTPUT_WINDOW,
         Window(w.out_seq, w.window), NEW tx, NEW p, NEW up,
         NEW dn \in Seq(Messages), NEW h, NEW live, OutTalk(w, tx, p, up, dn, h, live),
         NEW now \in Seq(1 .. Len(w.window)), InOrder(w.window, now),
         NEW ms \in Seq(Messages), Len(ms) = Len(now),
         \A k \in DOMAIN now : /\ ms[k].type = "OUTPUT" /\ ms[k].seq = w.window[now[k]].seq
                               /\ ms[k].data = w.window[now[k]].data,
         NEW v, v.window = Marked(w.window, Range(now)), v.out_seq = w.out_seq, NEW tx2, NEW n \in Nat,
         \/ v.staged = w.staged /\ tx2 = tx
         \/ v.staged = w.staged \o First(tx, n) /\ tx2 = Rest(tx, n)
  PROVE  OutTalk(v, tx2, p, up, dn \o ms, h, live)
<1>1. PICK u, d \in Nat : OutState(w, tx, up, h, u, d) /\ (live => OutLive(w, p, dn, u, d))
  BY Zenon DEF OutTalk
<1> DEFINE W == w.window
           o == w.out_seq
           M == Marked(W, Range(now))
<1>2. /\ u <= d /\ d <= Len(W) /\ Acks(o, Len(W), d, up)
      /\ Flow(W, w.staged, tx, h.written, h.shown, u)
  BY <1>1, Zenon DEF OutState
<1>3. ASSUME live
      PROVE  /\ Reads(o, p.received, p.out_seq, p.writes, u, d)
             /\ Sent(W, u, dn) /\ Copies(o, W, u, dn)
  BY <1>1, <1>3, Zenon DEF OutLive
<1>4. /\ W \in Seq(Frames) /\ Len(W) \in Nat /\ Len(W) <= OUTPUT_WINDOW /\ Window(o, W)
      /\ now \in Seq(1 .. Len(W)) /\ InOrder(W, now)
      /\ \A k \in DOMAIN now : /\ ms[k].type = "OUTPUT" /\ ms[k].seq = W[now[k]].seq
                               /\ ms[k].data = W[now[k]].data
      /\ v.window = M /\ v.out_seq = o
  BY FramesLen, Zenon
<1> HIDE DEF W, o
<1>5. u <= Len(W)
  BY <1>1, <1>2, <1>4
<1>6. M \in Seq(Frames) /\ Len(M) = Len(W)
  BY <1>4, MarkedAt, Zenon
<1>7. Flow(M, w.staged, tx, h.written, h.shown, u)
  BY <1>2, <1>4, <1>5, FlowMarked, Zenon
<1>8. Flow(M, v.staged, tx2, h.written, h.shown, u)
  BY <1>7, FlowFilled, Zenon
<1>9. ASSUME live
      PROVE  Copies(o, M, u, dn \o ms) /\ Sent(M, u, dn \o ms)
  <2>1. Copies(o, W, u, dn \o ms) /\ Sent(M, u, dn \o ms)
    BY <1>3, <1>4, <1>5, <1>9, FramesSent, Zenon
  <2>2. QED
    BY <1>4, <1>5, <2>1, CopiesMarked, Zenon
<1> HIDE DEF M
<1>10. OutState(v, tx2, up, h, u, d)
  BY <1>1, <1>2, <1>4, <1>6, <1>8, Zenon DEF OutState
<1>11. ASSUME live PROVE OutLive(v, p, dn \o ms, u, d)
  BY <1>3, <1>4, <1>9, <1>11, Zenon DEF OutLive
<1>12. QED
  BY <1>1, <1>10, <1>11, Zenon DEF OutTalk

LEMMA SendFramesOut ==
  ASSUME OutInv, NEW due, SendFrames(due)
  PROVE  OutKept
<1>1. /\ InputInv /\ RoomInv /\ web.window \in Seq(Frames) /\ Window(web.out_seq, web.window)
      /\ OutputTalks /\ Len(web.window) \in Nat /\ Len(web.window) <= OUTPUT_WINDOW
      /\ (term.tx_pending <=> term.tx # <<>>)
  BY SessionFacts, Zenon
<1> DEFINE c == web.active
           W == web.window
           room == ChannelDepth - Len(net[c].down)
           now == First(Unsent(web, due), room)
           full == Len(W) = OUTPUT_WINDOW
           ms == [k \in DOMAIN now |-> Message("OUTPUT", W[now[k]].seq, W[now[k]].data)]
           n == FRAME_BYTES - Len(web.staged)
<1>2. /\ SameFlags(web', web) /\ web'.window = Marked(W, Range(now))
      /\ web'.out_seq = web.out_seq
      /\ IF full THEN term' = term /\ web'.staged = web.staged
                 ELSE term' = Supplied /\ web'.staged = Staged
      /\ term'.browser = term.browser /\ pc = "stage" /\ pc' = "idle"
      /\ page' = page /\ hist' = hist
      /\ Moved(net', net, c, net[c].up, net[c].down \o ms)
      /\ ms \in Seq(Messages) /\ now \in Seq(1 .. Len(W))
      /\ Unsent(web, due) \in Seq(1 .. Len(W)) /\ room \in Nat
  BY <1>1, SendFramesFields, Zenon
<1>3. Steady /\ c \in Conns /\ term.browser
  <2>1. pc \in {"heartbeat", "stage"}
    BY <1>2
  <2>2. QED
    BY <1>1, <2>1, PollFacts, Zenon
<1>4. /\ TermGood(term) /\ WebGood(web) /\ NetGood(net) /\ n \in Nat
  <2>1. Len(web.staged) \in Nat /\ Len(web.staged) < FRAME_BYTES
    BY <1>1, WebFacts, Zenon DEF RoomInv
  <2>2. n \in Nat
    BY <2>1, Sizes
  <2>3. QED
    BY <1>1, <2>2, Zenon DEF RoomInv
<1>5. InOrder(W, now)
  <2>1. InOrder(W, Unsent(web, due))
    BY <1>4, UnsentFacts, Zenon
  <2> HIDE DEF W, room
  <2>2. QED
    BY <1>2, <2>1, OrderFirst, Zenon
<1>6. Len(ms) = Len(now) /\ DOMAIN now = DOMAIN ms
  BY <1>1, <1>2, SentMessages
<1>7. \A k \in DOMAIN now : /\ ms[k].type = "OUTPUT" /\ ms[k].seq = W[now[k]].seq
                            /\ ms[k].data = W[now[k]].data
  <2> HIDE DEF now, W
  <2>1. \A k \in DOMAIN now : ms[k] = Message("OUTPUT", W[now[k]].seq, W[now[k]].data)
    OBVIOUS
  <2> HIDE DEF ms
  <2>2. \A s, e : /\ Message("OUTPUT", s, e).type = "OUTPUT" /\ Message("OUTPUT", s, e).seq = s
                  /\ Message("OUTPUT", s, e).data = e
    BY Zenon DEF Message
  <2>3. TAKE k \in DOMAIN now
  <2>4. ms[k] = Message("OUTPUT", W[now[k]].seq, W[now[k]].data)
    BY <2>1
  <2>5. QED
    BY <2>2, <2>4
<1>8. /\ \/ web'.staged = web.staged /\ term'.tx = term.tx
         \/ web'.staged = web.staged \o First(term.tx, n) /\ term'.tx = Rest(term.tx, n)
      /\ (term'.tx_pending <=> term'.tx # <<>>)
  <2>1. CASE full
    BY <1>1, <1>2, <2>1, Zenon
  <2>2. CASE ~full
    BY <1>1, <1>2, <1>4, <2>2, FillFields, Zenon DEF Staged, Supplied
  <2>3. QED
    BY <2>1, <2>2
<1> DEFINE up == net[c].up
           dn == net[c].down
           p == page[c]
           l == Opened(net, c)
<1>9. dn \in Seq(Messages)
  BY <1>3, <1>4, ChannelFacts, Zenon
<1>10. OutTalk(web, term.tx, p, up, dn, hist, l)
  BY <1>1, <1>3, Zenon DEF OutputTalks
<1>11. Window(web'.out_seq, web'.window)
  <2>1. Window(web.out_seq, Marked(W, Range(now)))
    BY <1>1, WindowMarked, Zenon
  <2>2. QED
    BY <1>2, <2>1, Zenon
<1>12. OutTalk(web', term'.tx, p, up, dn \o ms, hist, l)
  <2> HIDE DEF now, ms, n, up, dn, p, l
  <2>1. QED
    BY <1>1, <1>2, <1>4, <1>5, <1>6, <1>7, <1>8, <1>9, <1>10, SentTalk, Zenon
<1>13. OutTalk(web', term'.tx, page'[c], net'[c].up, net'[c].down, hist', Opened(net', c))
  <2>1. /\ page'[c] = p /\ net'[c].up = up /\ net'[c].down = dn \o ms /\ hist' = hist
        /\ (Opened(net', c) <=> l)
    BY <1>2, Zenon DEF Moved, Opened
  <2> DEFINE k == Opened(net', c)
  <2>2. k <=> l
    BY <2>1
  <2> HIDE DEF k, l, p, up, dn, ms
  <2>3. OutTalk(web', term'.tx, p, up, dn \o ms, hist, k)
    BY <1>12, <2>2, Zenon DEF OutTalk
  <2>4. QED
    BY <2>1, <2>3 DEF k
<1>14. pc' # "usb" /\ Aside /\ web.active = c
  <2>1. Aside
    BY PollAside, Zenon
  <2>2. QED
    BY <1>2, <2>1
<1> HIDE DEF c
<1>15. QED
  BY <1>2, <1>3, <1>8, <1>11, <1>13, <1>14, OutGoes, Zenon

(* What the page does with output.                                          *)
LEMMA TalkFacts ==
  ASSUME NEW w, w.window \in Seq(Frames), Len(w.window) <= OUTPUT_WINDOW,
         Window(w.out_seq, w.window), NEW tx, NEW p, NEW up, NEW dn, NEW h,
         OutTalk(w, tx, p, up, dn, h, TRUE)
  PROVE  \E u, d \in Nat :
           /\ u <= d /\ d <= Len(w.window) /\ u <= Len(w.window) /\ d <= OUTPUT_WINDOW
           /\ w.out_seq \in Sequence /\ Len(w.window) \in Nat
           /\ Acks(w.out_seq, Len(w.window), d, up)
           /\ Flow(w.window, w.staged, tx, h.written, h.shown, u)
           /\ Reads(w.out_seq, p.received, p.out_seq, p.writes, u, d)
           /\ Sent(w.window, u, dn) /\ Copies(w.out_seq, w.window, u, dn)
<1>1. PICK u, d \in Nat : OutState(w, tx, up, h, u, d) /\ OutLive(w, p, dn, u, d)
  BY Zenon DEF OutTalk
<1>2. /\ u <= d /\ d <= Len(w.window) /\ w.out_seq \in Sequence
      /\ Len(w.window) \in Nat /\ u \in Nat /\ d \in Nat
      /\ Acks(w.out_seq, Len(w.window), d, up)
      /\ Flow(w.window, w.staged, tx, h.written, h.shown, u)
      /\ Reads(w.out_seq, p.received, p.out_seq, p.writes, u, d)
      /\ Sent(w.window, u, dn) /\ Copies(w.out_seq, w.window, u, dn)
  BY <1>1, FramesLen, Zenon DEF OutState, OutLive, Window
<1>3. u <= Len(w.window) /\ d <= OUTPUT_WINDOW
  <2> DEFINE n == Len(w.window)
  <2>1. u <= d /\ d <= n /\ n <= OUTPUT_WINDOW /\ n \in Nat
    BY <1>2
  <2> HIDE DEF n
  <2>2. u <= n /\ d <= OUTPUT_WINDOW
    BY <1>2, <2>1, Modulus
  <2>3. QED
    BY <2>2 DEF n
<1>4. QED
  BY <1>2, <1>3, Zenon

(* The next frame is written to the screen.                                 *)
LEMMA ReadTalk ==
  ASSUME NEW w, w.window \in Seq(Frames), Len(w.window) <= OUTPUT_WINDOW,
         Window(w.out_seq, w.window), NEW tx, NEW p, p.writes \in Seq(Messages), NEW up,
         NEW dn \in Seq(Messages), dn # <<>>, Head(dn).type = "OUTPUT", Head(dn).seq = p.received,
         NEW h, OutTalk(w, tx, p, up, dn, h, TRUE), NEW q, q.received = Next1(p.received),
         q.writes = Append(p.writes, Head(dn)), q.out_seq = p.out_seq,
         NEW g, g.written = h.written, g.shown = h.shown \o Head(dn).data
  PROVE  OutTalk(w, tx, q, up, Tail(dn), g, TRUE)
<1> DEFINE W == w.window
           o == w.out_seq
           n == Len(W)
           m == Head(dn)
<1>1. PICK u, d \in Nat :
           /\ u <= d /\ d <= n /\ u <= n /\ o \in Sequence /\ n \in Nat
           /\ Acks(o, n, d, up) /\ Flow(W, w.staged, tx, h.written, h.shown, u)
           /\ Reads(o, p.received, p.out_seq, p.writes, u, d)
           /\ Sent(W, u, dn) /\ Copies(o, W, u, dn)
  BY TalkFacts, Zenon
<1>2. Minus(o, m.seq) = u
  BY <1>1, Zenon DEF Reads
<1>3. W \in Seq(Frames) /\ Window(o, W) /\ dn \in Seq(Messages) /\ dn # <<>> /\ m.type = "OUTPUT"
      /\ m \in Messages /\ m.seq = p.received
  BY TailFacts, Zenon
<1>4. Minus(o, m.seq) >= 1 /\ (Minus(o, m.seq) = u => m.data = W[n + 1 - u].data)
  <2>1. Head(dn).type = "OUTPUT" /\ Copies(o, W, u, dn)
    BY <1>1
  <2> HIDE DEF W, o
  <2>2. /\ Minus(o, Head(dn).seq) >= 1
        /\ Minus(o, Head(dn).seq) = u => Head(dn).data = W[Len(W) + 1 - u].data
    BY <1>1, <2>1, FirstCopy
  <2>3. QED
    BY <2>2, Zenon
<1>5. u >= 1 /\ u > 0 /\ u - 1 \in Nat /\ u - 1 <= d
  <2> HIDE DEF o, W, n, m
  <2>1. QED
    BY <1>1, <1>2, <1>4
<1>6. m.data = Data(W, u) /\ Data(W, u) # <<>>
  <2>1. u \in 1 .. u
    BY <1>1, <1>5
  <2>2. n + 1 - u \in DOMAIN W
    BY <1>1, <1>3, <2>1, DataFacts, Zenon
  <2>3. W[n + 1 - u].data # <<>>
    BY <1>3, <2>2, Zenon DEF Window
  <2>4. QED
    BY <1>2, <1>4, <2>3, Zenon DEF Data
<1> HIDE DEF W, o, n, m
<1>7. Reads(o, Next1(p.received), p.out_seq, Append(p.writes, m), u - 1, d)
  BY <1>1, <1>3, <1>5, ReadsNew, Zenon
<1>8. Copies(o, W, u - 1, Tail(dn)) /\ Sent(W, u - 1, Tail(dn))
  <2>1. u - 1 = u - 1 /\ m.type = "OUTPUT" /\ Minus(o, m.seq) = u
    BY <1>2, <1>3
  <2>2. Copies(o, W, u - 1, Tail(dn))
    BY <1>1, <1>3, <1>5, <2>1, CopiesPopped, Zenon DEF m
  <2>3. Sent(W, u - 1, Tail(dn))
    BY <1>1, <1>3, <1>5, <2>1, SentPopped, Zenon DEF m
  <2>4. QED
    BY <2>2, <2>3
<1>9. Flow(W, w.staged, tx, h.written, h.shown \o Data(W, u), u - 1)
  BY <1>1, <1>3, <1>5, <1>6, FlowRead, Zenon DEF n
<1>10. g.shown = h.shown \o Data(W, u)
  BY <1>6, Zenon DEF m
<1>11. OutState(w, tx, up, g, u - 1, d)
  BY <1>1, <1>5, <1>9, <1>10, Zenon DEF OutState, W, o, n
<1>12. OutLive(w, q, Tail(dn), u - 1, d)
  BY <1>7, <1>8, Zenon DEF OutLive, W, o, m
<1>13. QED
  BY <1>1, <1>5, <1>11, <1>12, Zenon DEF OutTalk

(* A frame read before is only acknowledged.                                *)
LEMMA RepeatTalk ==
  ASSUME NEW w, w.window \in Seq(Frames), Len(w.window) <= OUTPUT_WINDOW,
         Window(w.out_seq, w.window), NEW tx, NEW p, NEW up \in Seq(InputMessages),
         NEW dn \in Seq(Messages), dn # <<>>, Head(dn).type = "OUTPUT", Head(dn).seq # p.received,
         NEW h, OutTalk(w, tx, p, up, dn, h, TRUE), NEW q, SameWrites(p, q), NEW g, SameShown(g, h),
         NEW answers,
         answers = <<>> \/ answers = <<Control("OUTPUT_ACK", Minus(p.out_seq, 1))>>
  PROVE  OutTalk(w, tx, q, up \o answers, Tail(dn), g, TRUE)
<1> DEFINE W == w.window
           o == w.out_seq
           n == Len(W)
<1>1. PICK u, d \in Nat :
           /\ u <= d /\ d <= n /\ u <= n /\ d <= OUTPUT_WINDOW /\ o \in Sequence /\ n \in Nat
           /\ Acks(o, n, d, up) /\ Flow(W, w.staged, tx, h.written, h.shown, u)
           /\ Reads(o, p.received, p.out_seq, p.writes, u, d)
           /\ Sent(W, u, dn) /\ Copies(o, W, u, dn)
  BY TalkFacts, Zenon
<1>2. /\ p.received \in Sequence /\ p.out_seq \in Sequence
      /\ Minus(o, p.received) = u /\ Minus(o, p.out_seq) = d
  BY <1>1, Zenon DEF Reads
<1>3. W \in Seq(Frames) /\ Window(o, W)
  OBVIOUS
<1>4. Head(dn).seq \in Sequence
  BY <1>1, FirstCopy, Zenon
<1> HIDE DEF W, o, n
<1>5. Minus(o, Head(dn).seq) # u
  BY <1>1, <1>2, <1>4, BehindOrders, Zenon
<1>6. Copies(o, W, u, Tail(dn)) /\ Sent(W, u, Tail(dn))
  BY <1>1, <1>3, <1>5, CopiesPopped, SentPopped, Zenon
<1>7. Acks(o, n, d, up \o answers)
  <2>1. CASE answers = <<>>
    BY <1>1, <2>1, NothingJoined, Zenon
  <2>2. CASE answers = <<Control("OUTPUT_ACK", Minus(p.out_seq, 1))>>
    <3> DEFINE s == Minus(p.out_seq, 1)
               m == Control("OUTPUT_ACK", s)
    <3>1. s \in Sequence
      BY <1>2, BehindFacts, Zenon
    <3>2. Minus(o, s) = d + 1
      <4>1. Minus(o, p.out_seq) < SequenceModulus - 1
        BY <1>1, <1>2, Modulus
      <4>2. QED
        BY <1>1, <1>2, <4>1, BehindFacts
    <3>3. s \in Int /\ d \in 0 .. n /\ "OUTPUT_ACK" \in Types
      BY <1>1, <3>1, Modulus DEF Sequence, Types
    <3>4. m \in InputMessages /\ m.seq = s
      <4> HIDE DEF s
      <4>1. m.seq = s
        BY DEF Control, Message
      <4>2. QED
        BY <3>3, <4>1, ControlIsMessage, Zenon
    <3> HIDE DEF s, m
    <3>5. Acks(o, n, d, Append(up, m))
      BY <1>1, <3>1, <3>2, <3>3, <3>4, AcksPushed, Zenon
    <3>6. up \o <<m>> = Append(up, m)
      BY <3>4, JoinOne, Zenon
    <3>7. QED
      BY <2>2, <3>5, <3>6 DEF m, s
  <2>3. QED
    BY <2>1, <2>2
<1>8. OutState(w, tx, up \o answers, g, u, d)
  BY <1>1, <1>7, Zenon DEF OutState, SameShown, W, o, n
<1>9. OutLive(w, q, Tail(dn), u, d)
  BY <1>1, <1>6, Zenon DEF OutLive, SameWrites, W, o, n
<1>10. QED
  BY <1>1, <1>8, <1>9, Zenon DEF OutTalk

(* The terminal has consumed the oldest frame written to it.                *)
LEMMA ConsumedTalk ==
  ASSUME NEW w, w.window \in Seq(Frames), Len(w.window) <= OUTPUT_WINDOW,
         Window(w.out_seq, w.window), NEW tx, NEW p, p.writes \in Seq(Messages), p.writes # <<>>,
         NEW up \in Seq(InputMessages), NEW dn, NEW h, OutTalk(w, tx, p, up, dn, h, TRUE),
         NEW q, q.received = p.received, q.writes = Tail(p.writes), q.out_seq = Next1(p.out_seq),
         NEW m \in InputMessages, m.seq = Head(p.writes).seq
  PROVE  OutTalk(w, tx, q, up \o <<m>>, dn, h, TRUE)
<1> DEFINE W == w.window
           o == w.out_seq
           n == Len(W)
<1>1. PICK u, d \in Nat :
           /\ u <= d /\ d <= n /\ u <= n /\ o \in Sequence /\ n \in Nat
           /\ Acks(o, n, d, up) /\ Flow(W, w.staged, tx, h.written, h.shown, u)
           /\ Reads(o, p.received, p.out_seq, p.writes, u, d)
           /\ Sent(W, u, dn) /\ Copies(o, W, u, dn)
  BY TalkFacts, Zenon
<1> HIDE DEF W, o, n
<1>2. /\ Reads(o, p.received, Next1(p.out_seq), Tail(p.writes), u, d - 1) /\ u <= d - 1
      /\ Head(p.writes).seq \in Sequence /\ Minus(o, Head(p.writes).seq) = d
  BY <1>1, ReadsConsumed, Zenon
<1>3. /\ d - 1 \in Nat /\ d \in 1 .. n /\ d - 1 \in 0 .. n /\ d - 1 <= n /\ (d - 1) + 1 = d
  BY <1>1, <1>2
<1>4. Acks(o, n, d - 1, up)
  BY <1>1, <1>3, AcksWider, Zenon
<1>5. Acks(o, n, d - 1, Append(up, m))
  <2>1. m.seq \in Sequence /\ Minus(o, m.seq) = (d - 1) + 1
    BY <1>2, <1>3
  <2>2. QED
    BY <1>1, <1>3, <1>4, <2>1, AcksPushed, Zenon
<1>6. up \o <<m>> = Append(up, m)
  BY JoinOne, Zenon
<1>7. OutState(w, tx, up \o <<m>>, h, u, d - 1)
  BY <1>1, <1>2, <1>3, <1>5, <1>6, Zenon DEF OutState, W, o, n
<1>8. OutLive(w, q, dn, u, d - 1)
  BY <1>1, <1>2, Zenon DEF OutLive, W, o, n
<1>9. QED
  BY <1>1, <1>3, <1>7, <1>8, Zenon DEF OutTalk

(* The owner's live page takes a step.                                      *)
LEMMA PageGoes ==
  ASSUME OutInv, NEW c \in Conns, Live(c), Steady, web.active = c, NEW q, NEW dn, NEW answers,
         PageStep(c, q, dn, answers), Aside, hist'.written = hist.written,
         OutTalk(web, term.tx, page[c], net[c].up, net[c].down, hist, TRUE) =>
           OutTalk(web, term.tx, q, net[c].up \o answers, dn, hist', TRUE)
  PROVE  OutKept
<1>1. /\ InputInv /\ RoomInv /\ OutputTalks /\ (term.tx_pending <=> term.tx # <<>>)
      /\ Window(web.out_seq, web.window) /\ term.browser
  BY SessionFacts, Zenon
<1>2. /\ Moved(net', net, c, net[c].up \o answers, dn) /\ page'[c] = q
      /\ UNCHANGED <<term, web, pc>>
  BY <1>1, PageStepFields, Zenon
<1>3. OutTalk(web, term.tx, page[c], net[c].up, net[c].down, hist, TRUE)
  BY <1>1, Zenon DEF OutputTalks, Opened, Live, OutTalk
<1>4. OutTalk(web, term.tx, q, net[c].up \o answers, dn, hist', TRUE)
  BY <1>3
<1>5. OutTalk(web', term'.tx, page'[c], net'[c].up, net'[c].down, hist', Opened(net', c))
  <2>1. /\ web' = web /\ term' = term /\ page'[c] = q /\ net'[c].up = net[c].up \o answers
        /\ net'[c].down = dn
    BY <1>2, Zenon DEF Moved
  <2> DEFINE k == Opened(net', c)
             up == net[c].up \o answers
  <2> HIDE DEF k, up
  <2>2. OutTalk(web, term.tx, q, up, dn, hist', k)
    BY <1>4, Zenon DEF OutTalk, up
  <2>3. QED
    BY <2>1, <2>2 DEF k, up
<1>6. pc' # "usb"
  <2>1. ~(pc = "usb")
    BY <1>1, SessionFacts, Zenon DEF Sides
  <2>2. QED
    BY <1>2, <2>1
<1>7. SameFlags(web', web) /\ Window(web'.out_seq, web'.window)
      /\ term'.browser = term.browser /\ (term'.tx_pending <=> term'.tx # <<>>)
  BY <1>1, <1>2, Zenon DEF SameFlags
<1>8. QED
  BY <1>1, <1>5, <1>6, <1>7, OutGoes, Zenon

LEMMA PageOutputOut ==
  ASSUME OutInv, NEW c \in Conns, PageReceive(c), Head(net[c].down).type = "OUTPUT"
  PROVE  OutKept
<1> DEFINE p == page[c]
           up == net[c].up
           dn == net[c].down
           m == Head(dn)
           late == Minus(p.out_seq, m.seq)
<1>1. /\ InputInv /\ RoomInv /\ web.window \in Seq(Frames) /\ Len(web.window) <= OUTPUT_WINDOW
      /\ Window(web.out_seq, web.window)
  BY SessionFacts, Zenon
<1>2. Live(c) /\ dn # <<>>
  BY Zenon DEF PageReceive
<1>3. /\ up \in Seq(InputMessages) /\ dn \in Seq(Messages) /\ p.writes \in Seq(Messages)
  BY <1>1, ChannelFacts, PageFacts, Zenon DEF RoomInv, PagesGood
<1>4. /\ Steady /\ web.active = c /\ hist'.written = hist.written
  BY <1>1, PageOutputTalks, Zenon
<1>5. PICK q, answers :
        /\ PageStep(c, q, Tail(dn), answers)
        /\ \/ /\ m.seq = p.received /\ answers = <<>> /\ q.received = Next1(p.received)
              /\ q.writes = Append(p.writes, m) /\ q.out_seq = p.out_seq
              /\ hist'.shown = hist.shown \o m.data
           \/ /\ m.seq # p.received /\ SameWrites(p, q) /\ hist'.shown = hist.shown
              /\ \/ answers = <<>>
                 \/ /\ late > 0 /\ late < SequenceModulus \div 2
                    /\ answers = <<Control("OUTPUT_ACK", Minus(p.out_seq, 1))>>
  BY <1>1, PageOutputTalks, Zenon
<1>6. Aside
  BY <1>1, PageAside, Zenon
<1>7. ASSUME OutTalk(web, term.tx, p, up, dn, hist, TRUE)
      PROVE  OutTalk(web, term.tx, q, up \o answers, Tail(dn), hist', TRUE)
  <2>1. m.type = "OUTPUT"
    OBVIOUS
  <2>2. up \o <<>> = up
    BY <1>3, NothingJoined, Zenon
  <2> HIDE DEF p, up, dn
  <2>3. CASE /\ m.seq = p.received /\ answers = <<>> /\ q.received = Next1(p.received)
             /\ q.writes = Append(p.writes, m) /\ q.out_seq = p.out_seq
             /\ hist'.shown = hist.shown \o m.data
    <3>1. OutTalk(web, term.tx, q, up, Tail(dn), hist', TRUE)
      BY <1>1, <1>2, <1>3, <1>4, <1>7, <2>1, <2>3, ReadTalk, Zenon
    <3>2. QED
      BY <2>2, <2>3, <3>1, Zenon
  <2>4. CASE /\ m.seq # p.received /\ SameWrites(p, q) /\ hist'.shown = hist.shown
             /\ \/ answers = <<>>
                \/ answers = <<Control("OUTPUT_ACK", Minus(p.out_seq, 1))>>
    <3>1. SameShown(hist', hist)
      BY <1>4, <2>4, Zenon DEF SameShown
    <3>2. QED
      BY <1>1, <1>2, <1>3, <1>7, <2>1, <2>4, <3>1, RepeatTalk, Zenon
  <2>5. QED
    BY <1>5, <2>3, <2>4, Zenon
<1>8. QED
  BY <1>2, <1>4, <1>5, <1>6, <1>7, PageGoes, Zenon

LEMMA PageConsumedOut ==
  ASSUME OutInv, NEW c \in Conns, PageConsumed(c)
  PROVE  OutKept
<1> DEFINE p == page[c]
           up == net[c].up
           dn == net[c].down
           m == Control("OUTPUT_ACK", Head(p.writes).seq)
<1>1. /\ InputInv /\ RoomInv /\ web.window \in Seq(Frames) /\ Len(web.window) <= OUTPUT_WINDOW
      /\ Window(web.out_seq, web.window)
  BY SessionFacts, Zenon
<1>2. Live(c)
  BY Zenon DEF PageConsumed
<1>3. /\ up \in Seq(InputMessages) /\ dn \in Seq(Messages) /\ p.writes \in Seq(Messages)
  BY <1>1, ChannelFacts, PageFacts, Zenon DEF RoomInv, PagesGood
<1>4. /\ Steady /\ web.active = c /\ hist' = hist /\ p.writes # <<>> /\ m \in InputMessages
  BY <1>1, PageConsumedTalks, Zenon
<1>5. PICK q : /\ PageStep(c, q, dn, <<m>>) /\ q.received = p.received
               /\ q.writes = Tail(p.writes) /\ q.out_seq = Next1(p.out_seq)
  BY <1>1, PageConsumedTalks, Zenon
<1>6. Aside
  BY <1>1, PageAside, Zenon
<1>7. m.seq = Head(p.writes).seq
  BY DEF Control, Message
<1>8. ASSUME OutTalk(web, term.tx, p, up, dn, hist, TRUE)
      PROVE  OutTalk(web, term.tx, q, up \o <<m>>, dn, hist', TRUE)
  <2> HIDE DEF p, up, dn, m
  <2>1. OutTalk(web, term.tx, q, up \o <<m>>, dn, hist, TRUE)
    BY <1>1, <1>3, <1>4, <1>5, <1>7, <1>8, ConsumedTalk, Zenon
  <2>2. QED
    BY <1>4, <2>1, Zenon
<1>9. hist'.written = hist.written
  BY <1>4, Zenon
<1>10. QED
  BY <1>2, <1>4, <1>5, <1>6, <1>8, <1>9, PageGoes, Zenon

(* The Z80 writes a byte that the ring takes.                               *)
LEMMA WrittenTalk ==
  ASSUME NEW w, w.window \in Seq(Frames), NEW tx, NEW p, NEW up, NEW dn, NEW h, NEW live,
         OutTalk(w, tx, p, up, dn, h, live), NEW b \in Byte, NEW g,
         g.written = Append(h.written, b), g.shown = h.shown
  PROVE  OutTalk(w, Append(tx, b), p, up, dn, g, live)
<1>1. PICK u, d \in Nat : OutState(w, tx, up, h, u, d) /\ (live => OutLive(w, p, dn, u, d))
  BY Zenon DEF OutTalk
<1>2. /\ u <= d /\ d <= Len(w.window) /\ Flow(w.window, w.staged, tx, h.written, h.shown, u)
      /\ Len(w.window) \in Nat
  BY <1>1, FramesLen, Zenon DEF OutState
<1>3. u <= Len(w.window)
  <2> DEFINE n == Len(w.window)
  <2>1. u <= d /\ d <= n /\ n \in Nat
    BY <1>2
  <2> HIDE DEF n
  <2>2. u <= n
    BY <1>1, <2>1
  <2>3. QED
    BY <2>2 DEF n
<1>4. Flow(w.window, w.staged, Append(tx, b), Append(h.written, b), h.shown, u)
  BY <1>2, <1>3, FlowWritten, Zenon
<1>5. OutState(w, Append(tx, b), up, g, u, d)
  BY <1>1, <1>4, Zenon DEF OutState
<1>6. QED
  BY <1>1, <1>5, Zenon DEF OutTalk

LEMMA FlowBytes ==
  ASSUME NEW W, NEW st, NEW tx, NEW wr, NEW sh, NEW u, Flow(W, st, tx, wr, sh, u)
  PROVE  wr \in Bytes /\ sh \in Bytes /\ st \in Bytes /\ tx \in Bytes
  BY Zenon DEF Flow

LEMMA WriteOut ==
  ASSUME OutInv, Z80Write
  PROVE  OutKept
<1> DEFINE b == z80.out
<1>1. /\ InputInv /\ RoomInv /\ web.window \in Seq(Frames) /\ OutputTalks /\ OwnerFlow /\ Sides
      /\ Window(web.out_seq, web.window) /\ hist \in History
  BY SessionFacts, Zenon
<1>2. /\ TermGood(term) /\ Z80Good(z80) /\ b \in Nat /\ peeked \in Bytes /\ term.tx \in Bytes
      /\ DOMAIN z80 = Z80Fields
  BY <1>1, TermFacts, Zenon DEF RoomInv, Z80Good
<1>3. UNCHANGED <<web, net, page, pc, peeked>> /\ term' = io_write(term, b)
  BY Zenon DEF Z80Write
<1>4. SameFlags(web', web) /\ SameOutput(web', web)
  BY <1>3, Zenon DEF SameFlags, SameOutput
<1>5. CASE ~Accepts(term)
  <2>1. hist' = hist /\ z80' = [z80 EXCEPT !.out = b, !.room = FALSE]
    BY <1>5, Zenon DEF Z80Write
  <2>2. z80'.out = z80.out
    BY <1>2, <2>1, ZenonT(60) DEF Z80Fields
  <2>3. term' = term
    BY <1>2, <1>3, <1>5, UsbFields, Zenon
  <2>4. Aside /\ SameRing(term', term) /\ SameShown(hist', hist)
    BY <1>3, <2>1, <2>2, <2>3, Zenon DEF Aside, SameRing, SameShown
  <2>5. QED
    BY <1>3, <1>4, <2>4, OutStill, Zenon
<1>6. CASE Accepts(term)
  <2>1. /\ hist' = [hist EXCEPT !.written = Append(@, b)]
        /\ z80' = [z80 EXCEPT !.out = b + 1, !.room = FALSE]
    BY <1>6, Zenon DEF Z80Write
  <2>2. z80'.out = b + 1
    BY <1>2, <2>1, ZenonT(60) DEF Z80Fields
  <2>3. /\ hist'.written = Append(hist.written, b) /\ hist'.shown = hist.shown
        /\ hist.written \in Bytes
    BY <1>1, <2>1, ZenonT(60) DEF History
  <2>4. /\ term'.tx = Append(term.tx, b) /\ term'.tx_pending /\ term'.browser = term.browser
    BY <1>2, <1>3, <1>6, UsbFields, Zenon
  <2>5. b \in Byte
    BY <1>2 DEF Byte
  <2>6. Steady => OutTalk(web, Append(term.tx, b), page[web.active], net[web.active].up,
                          net[web.active].down, hist', Opened(net, web.active))
    BY <1>1, <2>3, <2>5, WrittenTalk, Zenon DEF OutputTalks
  <2>7. OutputTalks'
    BY <1>3, <2>4, <2>6, Zenon DEF OutputTalks, Steady, Opened
  <2>8. OwnerFlow'
    <3>1. SUFFICES ASSUME ~term.browser
                   PROVE  Flow(<<>>, <<>>, Append(term.tx, b), Append(hist.written, b), hist.shown, 0)
      BY <2>3, <2>4, Zenon DEF OwnerFlow
    <3>2. Flow(<<>>, <<>>, term.tx, hist.written, hist.shown, 0)
      BY <1>1, <3>1, Zenon DEF OwnerFlow
    <3>3. <<>> \in Seq(Frames) /\ 0 \in Nat /\ 0 <= Len(<<>>)
      OBVIOUS
    <3>4. QED
      BY <2>5, <3>2, <3>3, FlowWritten, Zenon
  <2>9. Sides'
    <3>1. term'.tx # <<>>
      BY <1>2, <2>4, <2>5 DEF Bytes
    <3>2. pc' = "usb" => ~term'.browser /\ At(term'.tx, 0, peeked')
      <4>1. pc = "usb" => ~term.browser /\ At(term.tx, 0, peeked)
        BY <1>1, Zenon DEF Sides
      <4>2. At(term.tx, 0, peeked) => At(Append(term.tx, b), 0, peeked)
        BY <1>2, <2>5, AtAppended, Zenon
      <4>3. QED
        BY <1>3, <2>4, <4>1, <4>2, Zenon
    <3> DEFINE s == hist.written
    <3>3. /\ s \in Bytes /\ b \in Nat /\ \A i \in DOMAIN s : s[i] < b
          /\ \A i, j \in DOMAIN s : s[i] = s[j] => i = j
      BY <1>1, <1>2, <2>3, Zenon DEF Sides, Distinct
    <3>4. /\ DOMAIN Append(s, b) = 1 .. Len(s) + 1 /\ DOMAIN s = 1 .. Len(s) /\ Len(s) \in Nat
          /\ \A i \in DOMAIN s : Append(s, b)[i] = s[i] /\ s[i] \in Nat
          /\ Append(s, b)[Len(s) + 1] = b
      <4> HIDE DEF s
      <4>1. s \in Seq(Nat)
        BY <3>3 DEF Bytes, Byte
      <4>2. QED
        BY <1>2, <4>1, AppendAt
    <3> HIDE DEF s, b
    <3>5. \A i \in DOMAIN Append(s, b) : Append(s, b)[i] < b + 1
      BY <3>3, <3>4
    <3>6. \A i, j \in DOMAIN Append(s, b) : Append(s, b)[i] = Append(s, b)[j] => i = j
      BY <3>3, <3>4
    <3>7. hist'.written = Append(s, b)
      BY <2>3 DEF s, b
    <3>8. QED
      BY <2>2, <2>4, <3>1, <3>2, <3>5, <3>6, <3>7, Zenon DEF Sides, Distinct
  <2>10. QED
    BY <1>1, <1>3, <2>7, <2>8, <2>9, Zenon DEF OutKept
<1>7. QED
  BY <1>5, <1>6

LEMMA PortsOut ==
  ASSUME OutInv, Core0
  PROVE  OutKept
<1>1. InputInv /\ RoomInv /\ TermGood(term) /\ Z80Good(z80)
  BY SessionFacts, Zenon DEF RoomInv
<1>2. CASE StatusClient \/ StatusRoom
  <2>1. UNCHANGED <<term, web, net, page, pc, peeked, hist>> /\ z80'.out = z80.out
    <3>1. DOMAIN z80 = Z80Fields
      BY <1>1, Zenon DEF Z80Good
    <3>2. CASE StatusClient
      <4>1. /\ UNCHANGED <<term, web, net, page, pc, peeked, hist>>
            /\ z80' = [z80 EXCEPT !.step = "room", !.client = term.client]
        BY <3>2, Zenon DEF StatusClient
      <4>2. QED
        BY <3>1, <4>1, ZenonT(60) DEF Z80Fields
    <3>3. CASE StatusRoom
      <4> DEFINE r == ~z80.client \/ Len(term.tx) < TERM_TX_DEPTH
      <4>1. /\ UNCHANGED <<term, web, net, page, pc, peeked, hist>>
            /\ z80' = [z80 EXCEPT !.step = "idle", !.client = FALSE, !.room = r]
        BY <3>3, Zenon DEF StatusRoom
      <4> HIDE DEF r
      <4>2. QED
        BY <3>1, <4>1, ZenonT(60) DEF Z80Fields
    <3>4. QED
      BY <1>2, <3>2, <3>3, Zenon
  <2>2. /\ Aside /\ SameRing(term', term) /\ SameShown(hist', hist)
        /\ SameFlags(web', web) /\ SameOutput(web', web)
    BY <2>1, Zenon DEF Aside, SameRing, SameShown, SameFlags, SameOutput
  <2>3. QED
    BY <2>1, <2>2, OutStill, Zenon
<1>3. CASE Z80Read
  <2>1. UNCHANGED <<web, net, page, pc, peeked, hist, z80>> /\ term' = io_read(term)
    BY <1>3, Zenon DEF Z80Read
  <2>2. SameRing(term', term)
    BY <1>1, <2>1, UsbFields, Zenon DEF SameRing
  <2>3. /\ Aside /\ SameShown(hist', hist) /\ SameFlags(web', web) /\ SameOutput(web', web)
    BY <2>1, Zenon DEF Aside, SameShown, SameFlags, SameOutput
  <2>4. QED
    BY <2>1, <2>2, <2>3, OutStill, Zenon
<1>4. QED
  BY <1>2, <1>3, WriteOut, Zenon DEF Core0

(* The USB console: another owner of the rings, or none.                    *)
LEMMA UsbOwnerOut ==
  ASSUME OutInv, UNCHANGED <<web, net, page>>, ~Steady, pc' # "usb",
         OwnerFlow', Sides'
  PROVE  OutKept
<1>1. Window(web.out_seq, web.window)'
  BY SessionFacts, Zenon
<1>2. OutputTalks'
  BY Zenon DEF OutputTalks, Steady
<1>3. QED
  BY <1>1, <1>2, Zenon DEF OutKept

LEMMA UsbChangeOut ==
  ASSUME OutInv, UsbChange
  PROVE  OutKept
<1>1. /\ TermGood(term) /\ (term.tx_pending <=> term.tx # <<>>)
      /\ FlagsGood(web, term, pc, setup.network) /\ term \in Rings
  BY SessionFacts, TermFacts, Zenon DEF RoomInv, Linked
<1>2. /\ UNCHANGED <<web, net, page, pc, peeked, z80>> /\ pc = "idle"
      /\ term' = IF setup.network THEN usb_connected(term, ~term.usb)
                                  ELSE set_connected(term, ~term.client)
      /\ hist' = IF setup.network /\ term.browser THEN hist ELSE NoHistory
  BY Zenon DEF UsbChange
<1>3. term.usb \in BOOLEAN /\ term.client \in BOOLEAN
  BY <1>1 DEF Rings
<1>4. SameFlags(web', web) /\ SameOutput(web', web) /\ Aside
  BY <1>2, Zenon DEF SameFlags, SameOutput, Aside
<1>5. pc' # "usb"
  BY <1>2
<1>6. CASE setup.network /\ term.browser
  <2>1. hist' = hist /\ term' = usb_connected(term, ~term.usb)
    BY <1>2, <1>6
  <2> DEFINE k == ~term.usb
  <2>2. k \in BOOLEAN
    BY <1>3
  <2> HIDE DEF k
  <2>3. /\ usb_connected(term, k).tx = term.tx /\ usb_connected(term, k).tx_pending = term.tx_pending
        /\ usb_connected(term, k).browser = term.browser
    <3>1. /\ usb_connected(term, k).browser = term.browser
          /\ term.browser => usb_connected(term, k).tx = term.tx
                             /\ usb_connected(term, k).tx_pending = term.tx_pending
      BY <1>1, <2>2, UsbFields
    <3>2. QED
      BY <1>6, <3>1, Zenon
  <2>4. SameRing(term', term) /\ SameShown(hist', hist)
    BY <2>1, <2>3, Zenon DEF SameRing, SameShown, k
  <2>5. QED
    BY <1>2, <1>4, <2>4, OutStill, Zenon
<1>7. CASE ~(setup.network /\ term.browser)
  <2>1. hist' = NoHistory
    BY <1>2, <1>7, Zenon
  <2>2. ~Steady
    BY <1>1, <1>7, Zenon DEF Steady, FlagsGood
  <2>3. term'.tx = <<>> /\ ~term'.tx_pending
    <3>1. CASE setup.network
      <4> DEFINE k == ~term.usb
      <4>1. k \in BOOLEAN /\ ~term.browser /\ ~(term.usb = k)
        BY <1>3, <1>7, <3>1
      <4>2. term' = usb_connected(term, k)
        BY <1>2, <3>1
      <4> HIDE DEF k
      <4>3. usb_connected(term, k).tx = <<>> /\ ~usb_connected(term, k).tx_pending
        BY <1>1, <4>1, UsbFields
      <4>4. QED
        BY <4>2, <4>3
    <3>2. CASE ~setup.network
      <4> DEFINE k == ~term.client
      <4>1. k \in BOOLEAN /\ (k => ~term.client)
        BY <1>3
      <4>2. term' = set_connected(term, k)
        BY <1>2, <3>2
      <4> HIDE DEF k
      <4>3. \/ set_connected(term, k).tx = term.tx
               /\ set_connected(term, k).tx_pending = term.tx_pending /\ k
            \/ set_connected(term, k).tx = <<>> /\ ~set_connected(term, k).tx_pending
        BY <1>1, <4>1, UsbFields
      <4>4. k => term.tx = <<>>
        BY <1>1, <4>1, Zenon DEF TermGood
      <4>5. QED
        BY <1>1, <4>2, <4>3, <4>4, Zenon
    <3>3. QED
      BY <3>1, <3>2
  <2>4. OwnerFlow' /\ Sides'
    BY <1>5, <2>1, <2>3, OwnerFresh, SidesFresh, Zenon
  <2>5. QED
    BY <1>2, <1>5, <2>2, <2>4, UsbOwnerOut, Zenon
<1>8. QED
  BY <1>6, <1>7

LEMMA UsbTypeOut ==
  ASSUME OutInv, UsbType
  PROVE  OutKept
<1>1. TermGood(term) /\ Z80Good(z80)
  BY SessionFacts, Zenon DEF RoomInv
<1>2. /\ UNCHANGED <<web, net, page, pc, peeked, hist>> /\ z80' = [z80 EXCEPT !.typed = @ + 1]
      /\ term' = IF setup.network THEN usb_receive(term, z80.typed) ELSE receive(term, z80.typed)
  BY Zenon DEF UsbType
<1>3. z80'.out = z80.out
  BY <1>1, <1>2, TypedOut, Zenon
<1>4. SameRing(term', term)
  <2> DEFINE b == z80.typed
             t == usb_receive(term, b)
             r == receive(term, b)
  <2>1. /\ t.tx = term.tx /\ t.tx_pending = term.tx_pending /\ t.browser = term.browser
        /\ r.tx = term.tx /\ r.tx_pending = term.tx_pending /\ r.browser = term.browser
    <3> HIDE DEF b
    <3>1. TRUE \in BOOLEAN
      OBVIOUS
    <3>2. QED
      BY <1>1, <3>1, UsbFields
  <2>2. term' = t \/ term' = r
    BY <1>2, Zenon
  <2> HIDE DEF t, r
  <2>3. QED
    BY <2>1, <2>2, Zenon DEF SameRing
<1>5. /\ Aside /\ SameShown(hist', hist) /\ SameFlags(web', web) /\ SameOutput(web', web)
  BY <1>2, <1>3, Zenon DEF Aside, SameShown, SameFlags, SameOutput
<1>6. QED
  BY <1>2, <1>4, <1>5, OutStill, Zenon

LEMMA UsbPeekOut ==
  ASSUME OutInv, UsbPeek
  PROVE  OutKept
<1>1. /\ TermGood(term) /\ (term.tx_pending <=> term.tx # <<>>) /\ term.tx \in Bytes
      /\ OwnerFlow /\ Sides /\ (Steady => term.browser)
  BY SessionFacts, TermFacts, Zenon DEF RoomInv
<1>2. /\ UNCHANGED <<term, web, net, page, z80, hist>> /\ ~term.browser
      /\ peeked' = peek(term, FRAME_BYTES)
  BY Zenon DEF UsbPeek
<1>3. FRAME_BYTES \in Nat
  BY Sizes
<1>4. peeked' = First(term.tx, FRAME_BYTES)
  BY <1>1, <1>2, <1>3, FillFields, Zenon
<1>5. At(term.tx, 0, First(term.tx, FRAME_BYTES))
  <2>1. /\ Len(First(term.tx, FRAME_BYTES)) \in Nat /\ Len(term.tx) \in Nat
        /\ Len(First(term.tx, FRAME_BYTES)) <= Len(term.tx)
        /\ \A i \in 1 .. Len(First(term.tx, FRAME_BYTES)) : First(term.tx, FRAME_BYTES)[i] = term.tx[i]
    <3>1. term.tx \in Seq(Byte)
      BY <1>1 DEF Bytes
    <3>2. /\ \A i \in 1 .. Len(First(term.tx, FRAME_BYTES)) : First(term.tx, FRAME_BYTES)[i] = term.tx[i]
      BY <1>3, <3>1, FirstThenRest, Zenon
    <3>3. Len(First(term.tx, FRAME_BYTES)) <= Len(term.tx)
      BY <1>3, <3>1, FirstFacts, Zenon
    <3>4. QED
      BY <1>1, <1>3, <3>2, <3>3, Parted, BytesLen, Zenon
  <2> DEFINE f == First(term.tx, FRAME_BYTES)
             s == term.tx
  <2>2. Len(f) \in Nat /\ Len(s) \in Nat /\ Len(f) <= Len(s) /\ \A i \in 1 .. Len(f) : f[i] = s[i]
    BY <2>1
  <2> HIDE DEF f, s
  <2>3. At(s, 0, f)
    BY <2>2 DEF At
  <2>4. QED
    BY <2>3 DEF s, f
<1>6. Sides'
  BY <1>1, <1>2, <1>4, <1>5, Zenon DEF Sides
<1>7. OwnerFlow'
  BY <1>1, <1>2, Zenon DEF OwnerFlow
<1>8. OutputTalks'
  BY <1>1, <1>2, Zenon DEF OutputTalks, Steady
<1>9. Window(web.out_seq, web.window)'
  BY <1>2, SessionFacts, Zenon
<1>10. QED
  BY <1>6, <1>7, <1>8, <1>9, Zenon DEF OutKept

(* The bytes offered are those the ring still starts with.                  *)
LEMMA PeekedFirst ==
  ASSUME NEW s \in Bytes, NEW d \in Bytes, At(s, 0, d), NEW n \in 0 .. Len(d)
  PROVE  First(d, n) = First(s, n)
<1>1. Len(s) \in Nat /\ Len(d) \in Nat /\ 0 + Len(d) <= Len(s) /\ \A j \in 1 .. Len(d) : s[0 + j] = d[j]
  BY BytesLen, Zenon DEF At
<1>2. s \in Seq(Byte) /\ d \in Seq(Byte) /\ n \in Nat
  BY <1>1 DEF Bytes
<1>3. /\ First(s, n) \in Seq(Byte) /\ First(d, n) \in Seq(Byte)
      /\ Len(First(s, n)) = IF n < Len(s) THEN n ELSE Len(s)
      /\ Len(First(d, n)) = IF n < Len(d) THEN n ELSE Len(d)
      /\ \A i \in 1 .. Len(First(s, n)) : First(s, n)[i] = s[i]
      /\ \A i \in 1 .. Len(First(d, n)) : First(d, n)[i] = d[i]
  BY <1>2, FirstThenRest, Zenon
<1>4. Len(First(s, n)) = n /\ Len(First(d, n)) = n
  BY <1>1, <1>2, <1>3
<1> DEFINE a == First(d, n)
           b == First(s, n)
<1>5. \A i \in 1 .. n : a[i] = b[i]
  <2>1. TAKE i \in 1 .. n
  <2>2. a[i] = d[i] /\ b[i] = s[i]
    BY <1>3, <1>4
  <2>3. 0 + i = i /\ i \in 1 .. Len(d)
    BY <1>1
  <2>4. s[i] = d[i]
    BY <1>1, <2>3
  <2>5. QED
    BY <2>2, <2>4
<1>6. QED
  BY <1>3, <1>4, <1>5, SameSequences, Zenon

LEMMA UsbSupplyOut ==
  ASSUME OutInv, NEW n \in 0 .. Len(peeked), UsbSupply(n)
  PROVE  OutKept
<1>1. /\ TermGood(term) /\ (term.tx_pending <=> term.tx # <<>>) /\ term.tx \in Bytes
      /\ OwnerFlow /\ Sides /\ (Steady => term.browser) /\ peeked \in Bytes /\ hist \in History
  BY SessionFacts, TermFacts, Zenon DEF RoomInv
<1>2. /\ UNCHANGED <<web, net, page, z80>> /\ pc = "usb" /\ pc' = "idle"
      /\ term' = IF n = 0 THEN term ELSE supply(term, n)
      /\ hist' = [hist EXCEPT !.shown = @ \o First(peeked, n)]
  BY Zenon DEF UsbSupply
<1>3. ~term.browser /\ At(term.tx, 0, peeked)
  BY <1>1, <1>2, Zenon DEF Sides
<1>4. n \in Nat
  BY <1>1, BytesLen
<1>5. First(peeked, n) = First(term.tx, n)
  BY <1>1, <1>3, PeekedFirst, Zenon
<1>6. /\ term'.tx = Rest(term.tx, n) /\ (term'.tx_pending <=> term'.tx # <<>>)
      /\ (term'.browser <=> term.browser)
  <2>1. CASE n = 0
    <3>1. term.tx \in Seq(Byte)
      BY <1>1 DEF Bytes
    <3>2. /\ term.tx = First(term.tx, n) \o Rest(term.tx, n) /\ Rest(term.tx, n) \in Seq(Byte)
          /\ First(term.tx, n) \in Seq(Byte) /\ Len(First(term.tx, n)) <= n
      BY <1>4, <3>1, FirstThenRest, FirstFacts, Zenon
    <3>3. First(term.tx, n) = <<>>
      BY <2>1, <3>2
    <3>4. term.tx = Rest(term.tx, n)
      BY <3>2, <3>3, NothingJoined, Zenon
    <3>5. QED
      BY <1>1, <1>2, <2>1, <3>4, Zenon
  <2>2. CASE n # 0
    BY <1>1, <1>2, <1>4, <2>2, FillFields, Zenon
  <2>3. QED
    BY <2>1, <2>2
<1>7. hist'.shown = hist.shown \o First(term.tx, n) /\ hist'.written = hist.written
  <2> DEFINE f == First(peeked, n)
  <2>1. hist' = [hist EXCEPT !.shown = @ \o f]
    BY <1>2
  <2> HIDE DEF f
  <2>2. hist'.shown = hist.shown \o f /\ hist'.written = hist.written
    BY <1>1, <2>1, ZenonT(60) DEF History
  <2>3. QED
    BY <1>5, <2>2 DEF f
<1>8. OwnerFlow'
  <2>1. Flow(<<>>, <<>>, term.tx, hist.written, hist.shown, 0)
    BY <1>1, <1>3, Zenon DEF OwnerFlow
  <2>2. Flow(<<>>, <<>>, Rest(term.tx, n), hist.written, hist.shown \o First(term.tx, n), 0)
    BY <1>4, <2>1, FlowShown, Zenon
  <2>3. QED
    BY <1>6, <1>7, <2>2, Zenon DEF OwnerFlow
<1>9. pc' # "usb" /\ ~Steady
  BY <1>1, <1>2, <1>3
<1>10. Sides'
  BY <1>1, <1>2, <1>6, <1>7, <1>9, Zenon DEF Sides
<1>11. QED
  BY <1>2, <1>8, <1>9, <1>10, UsbOwnerOut, Zenon

-----------------------------------------------------------------------------
(* The output, from the first state on.                                     *)

LEMMA OutStands ==
  ASSUME OutInv, UNCHANGED vars
  PROVE  OutKept
<1>1. UNCHANGED <<term, web, net, page, pc, peeked, z80, hist>>
  BY Zenon DEF vars
<1>2. /\ Aside /\ SameRing(term', term) /\ SameShown(hist', hist)
      /\ SameFlags(web', web) /\ SameOutput(web', web)
  BY <1>1, Zenon DEF Aside, SameRing, SameShown, SameFlags, SameOutput
<1>3. QED
  BY <1>1, <1>2, OutStill, Zenon

LEMMA InitOut ==
  ASSUME Init
  PROVE  OutInv
<1>1. InputInv
  BY InitTalks
<1>2. /\ pc = "idle" /\ hist = NoHistory /\ term = QueueInit
      /\ web = [x \in DOMAIN WebInit \cup DOMAIN FreshSession |->
                  IF x \in DOMAIN WebInit THEN WebInit[x] ELSE FreshSession[x]]
  BY Zenon DEF Init
<1>3. web.out_seq = 1 /\ web.window = <<>> /\ web.active = None
  <2>1. DOMAIN FreshSession = {"ready", "out_seq", "window", "staged", "in_seq",
                               "pending_input", "ack_pending", "awaiting", "activity", "missed"}
        /\ FreshSession.window = <<>> /\ FreshSession.out_seq = 1
    BY Zenon DEF FreshSession
  <2>2. DOMAIN WebInit = {"active", "connected", "disconnected", "last", "details", "ping_seq"}
        /\ WebInit.active = None
    BY Zenon DEF WebInit
  <2>3. DOMAIN WebInit \cup DOMAIN FreshSession = WebFields
    BY <2>1, <2>2, ZenonT(60) DEF WebFields
  <2>4. \A x \in WebFields :
          web[x] = IF x \in DOMAIN WebInit THEN WebInit[x] ELSE FreshSession[x]
    BY <1>2, <2>3, Zenon
  <2>5. /\ {"active", "out_seq", "window"} \subseteq WebFields /\ "active" \in DOMAIN WebInit
        /\ "window" \notin DOMAIN WebInit /\ "out_seq" \notin DOMAIN WebInit
    BY <2>2 DEF WebFields
  <2>6. /\ web["active"] = WebInit["active"] /\ web["out_seq"] = FreshSession["out_seq"]
        /\ web["window"] = FreshSession["window"]
    BY <2>4, <2>5
  <2>7. QED
    BY <2>1, <2>2, <2>6, Zenon
<1>4. Window(web.out_seq, web.window)
  BY <1>3, WindowFresh, Zenon
<1>5. OutputTalks
  BY <1>3, Zenon DEF OutputTalks, Steady
<1>6. term.tx = <<>> /\ ~term.tx_pending
  BY <1>2 DEF QueueInit
<1>7. OwnerFlow
  BY <1>2, <1>6, FlowFresh, NoHistoryFacts, Zenon DEF OwnerFlow
<1>8. Sides
  <2>1. ~(pc = "usb") /\ DOMAIN <<>> = {}
    BY <1>2
  <2>2. QED
    BY <1>2, <1>6, <2>1, NoHistoryFacts, Zenon DEF Sides, Distinct
<1>9. QED
  BY <1>1, <1>4, <1>5, <1>7, <1>8, Zenon DEF OutInv

LEMMA NextOut ==
  ASSUME OutInv, [Next]_vars
  PROVE  OutInv'
<1>1. InputInv'
  BY NextTalks, Zenon DEF OutInv
<1>2. OutKept
  <2>1. CASE UNCHANGED vars
    BY <2>1, OutStands, Zenon
  <2>2. CASE Core1
    <3>1. ASSUME NEW c \in Conns,
                 OnReady(c) \/ OnOutputAck(c) \/ OnInput(c) \/ OnInvalid(c) \/ OnPong(c)
          PROVE  OutKept
      BY <3>1, ReadyOut, OutputAckOut, InputOut, EndingsOut, Zenon
    <3>2. ASSUME NEW due, SendFrames(due) PROVE OutKept
      BY <3>2, SendFramesOut, Zenon
    <3>3. QED
      BY <2>2, <3>1, <3>2, PollOnlineOut, PollInputOut, PingOut, StageOut, UsbSupplyOut, Zenon
         DEF Core1
  <2>3. CASE Environment
    <3>1. ASSUME NEW c \in Conns, PageReceive(c) PROVE OutKept
      BY <3>1, PageAnswerOut, PageOutputOut, Zenon
    <3>2. ASSUME NEW c \in Conns,
                 \/ on_connect(c) \/ Closed(c) \/ PageType(c) \/ PageRetry(c) \/ PageReceive(c)
                 \/ PageConsumed(c) \/ PageLeaves(c) \/ TcpGivesUp(c) \/ RawClient(c)
          PROVE  OutKept
      BY <3>1, <3>2, ConnectOut, ClosedOut, PageTypeOut, PageConsumedOut, GoneOut, Zenon
    <3>3. QED
      BY <2>3, <3>2, EndingsOut, PongTimeoutOut, PingOut, UsbChangeOut, UsbTypeOut, UsbPeekOut, Zenon
         DEF Environment
  <2>4. CASE Core0
    BY <2>4, PortsOut, Zenon
  <2>5. QED
    BY <2>1, <2>2, <2>3, <2>4, Zenon DEF Next
<1>3. QED
  BY <1>1, <1>2, Zenon DEF OutKept, OutInv

LEMMA IntactFollows ==
  ASSUME OutInv
  PROVE  OutputIntact
<1>1. /\ web.window \in Seq(Frames) /\ Len(web.window) \in Nat
      /\ Window(web.out_seq, web.window) /\ OutputTalks /\ OwnerFlow /\ Sides /\ Linked
      /\ (term.tx_pending <=> term.tx # <<>>)
  BY SessionFacts, Zenon
<1> DEFINE W == web.window
           sh == hist.shown
<1>2. \A j \in DOMAIN W : W[j].data # <<>>
  BY <1>1, Zenon DEF Window
<1>3. ASSUME Steady \/ ~term.browser
      PROVE  hist.written = hist.shown \o InFlight
  <2>1. \E u \in Nat : u <= Len(W) /\ Flow(W, web.staged, term.tx, hist.written, sh, u)
    <3>1. CASE Steady
      <4>1. PICK u, d \in Nat : OutState(web, term.tx, net[web.active].up, hist, u, d)
        BY <1>1, <3>1, Zenon DEF OutputTalks, OutTalk
      <4>2. u <= d /\ d <= Len(W) /\ Flow(W, web.staged, term.tx, hist.written, sh, u)
        BY <4>1, Zenon DEF OutState
      <4> DEFINE n == Len(W)
      <4>3. u <= d /\ d <= n /\ n \in Nat
        BY <1>1, <4>2
      <4> HIDE DEF n
      <4>4. u <= n
        BY <4>1, <4>3
      <4>5. QED
        BY <4>1, <4>2, <4>4, Zenon DEF n
    <3>2. CASE ~term.browser
      <4>1. W = <<>> /\ web.staged = <<>>
        BY <1>1, <3>2, Zenon DEF Linked, FlagsGood
      <4>2. Flow(<<>>, <<>>, term.tx, hist.written, sh, 0)
        BY <1>1, <3>2, Zenon DEF OwnerFlow
      <4>3. 0 \in Nat /\ 0 <= Len(<<>>)
        OBVIOUS
      <4>4. QED
        BY <4>1, <4>2, <4>3, Zenon
    <3>3. QED
      BY <1>3, <3>1, <3>2
  <2>2. PICK u \in Nat : u <= Len(W) /\ Flow(W, web.staged, term.tx, hist.written, sh, u)
    BY <2>1
  <2>3. Distinct(hist.written)
    BY <1>1, Zenon DEF Sides
  <2>4. hist.written = sh \o (Unseen(W, sh) \o web.staged \o term.tx)
    BY <1>1, <1>2, <2>2, <2>3, FlowIsIntact, Zenon
  <2>5. InFlight = Unseen(W, sh) \o web.staged \o term.tx
    BY DEF InFlight, Unseen
  <2>6. QED
    BY <2>4, <2>5, Zenon
<1>4. QED
  BY <1>1, <1>3, Zenon DEF OutputIntact

(* What the Z80 writes for the owner of the rings is shown to that owner in *)
(* order, once and without a gap, whatever frames are lost, repeated and    *)
(* acknowledged late and whichever consoles come and go (z80_terminal_queue *)
(* and the output window of web_terminal.cpp).                              *)
THEOREM OutputHolds == Spec => []OutputIntact
<1>1. Init => OutInv
  BY InitOut
<1>2. OutInv /\ [Next]_vars => OutInv'
  BY NextOut
<1>3. OutInv => OutputIntact
  BY IntactFollows
<1>4. QED
  BY <1>1, <1>2, <1>3, PTL DEF Spec

-----------------------------------------------------------------------------
(* Neither side of a session sees a protocol error of the other.            *)

LEMMA UpIsValid ==
  ASSUME OutInv, NEW c \in Conns, Live(c), Take(c, {"INPUT", "OUTPUT_ACK"})
  PROVE  ~Invalid(Head(net[c].up))
<1> DEFINE up == net[c].up
           m == Head(up)
           types == {"INPUT", "OUTPUT_ACK"}
<1>1. InputInv
  BY SessionFacts, Zenon
<1>2. up \in Seq(InputMessages) /\ up # <<>> /\ m.type \in types /\ Linked /\ InputTalks
  BY <1>1, TakeFacts, Zenon
<1>3. Steady /\ web.active = c
  BY <1>2, LiveFacts, Zenon
<1>4. InTalk(web, page[c], up, net[c].down, hist)
  BY <1>2, <1>3, Zenon DEF InputTalks
<1>5. m.type # "READY"
  BY <1>2
<1>6. web.ready
  BY <1>2, <1>4, <1>5, ReadyFirst, Zenon
<1>7. ASSUME m.type = "INPUT"
      PROVE  /\ m.seq \in {web.in_seq, Minus(web.in_seq, 1)}
             /\ m.seq = web.in_seq => web.pending_input \in {<<>>, m.data}
  BY <1>2, <1>4, <1>7, FrameInFlight, Zenon
<1> HIDE DEF m
<1>8. ~Invalid(m)
  BY <1>6, <1>7, Zenon DEF Invalid
<1>9. QED
  BY <1>8, Zenon DEF m

(* The page: a new frame finds room before the terminal, another one was    *)
(* read at most a window ago.                                               *)
LEMMA ReadsInWindow ==
  ASSUME NEW o \in Sequence, NEW r, NEW q, NEW ws, NEW u \in Nat, NEW d \in Nat,
         d <= OUTPUT_WINDOW, Reads(o, r, q, ws, u, d), NEW s \in Sequence,
         Minus(o, s) \in u .. u + OUTPUT_WINDOW, Minus(o, s) >= 1
  PROVE  IF s = r THEN Len(ws) < OUTPUT_WINDOW ELSE Minus(r, s) \in 1 .. OUTPUT_WINDOW
<1>1. r \in Sequence /\ Minus(o, r) = u /\ Len(ws) = d - u
  BY Zenon DEF Reads
<1>2. OUTPUT_WINDOW \in Nat
  BY Modulus
<1> DEFINE b == Minus(o, s)
<1>3. b \in Int
  BY BehindFacts, Zenon
<1>4. /\ b = u => s = r
      /\ b >= u => Minus(r, s) = b - u
  BY <1>1, BehindOrders
<1>5. s = r => b = u
  BY <1>1
<1> HIDE DEF b
<1>6. b \in u .. u + OUTPUT_WINDOW /\ b >= 1
  BY DEF b
<1>7. CASE s = r
  <2>1. u >= 1
    BY <1>5, <1>6, <1>7
  <2>2. d - u < OUTPUT_WINDOW
    BY <1>2, <2>1
  <2>3. QED
    BY <1>1, <1>7, <2>2
<1>8. CASE s # r
  <2>1. b - u \in 1 .. OUTPUT_WINDOW
    BY <1>2, <1>3, <1>4, <1>6, <1>8
  <2>2. Minus(r, s) = b - u
    BY <1>3, <1>4, <1>6
  <2>3. QED
    BY <1>8, <2>1, <2>2
<1>9. QED
  BY <1>7, <1>8

LEMMA DownIsValid ==
  ASSUME OutInv, NEW c \in Conns, Live(c), net[c].down # <<>>, Head(net[c].down).type = "OUTPUT"
  PROVE  /\ page[c].ready
         /\ IF Head(net[c].down).seq = page[c].received
              THEN Len(page[c].writes) < OUTPUT_WINDOW
              ELSE Minus(page[c].received, Head(net[c].down).seq) \in 1 .. OUTPUT_WINDOW
<1> DEFINE p == page[c]
           up == net[c].up
           dn == net[c].down
           W == web.window
           o == web.out_seq
<1>1. /\ InputInv /\ W \in Seq(Frames) /\ Len(W) <= OUTPUT_WINDOW /\ Window(o, W)
      /\ o \in Sequence /\ OutputTalks
  BY SessionFacts, Zenon
<1>2. /\ Steady /\ web.active = c /\ dn \in Seq(Messages)
      /\ InTalk(web, p, up, dn, hist)
  BY <1>1, PageHas, Zenon
<1>3. p.ready
  <2>1. Hand(web.ready, p, up, dn)
    BY <1>2, Zenon DEF InTalk
  <2>2. 1 \in DOMAIN dn /\ Head(dn) = dn[1]
    BY <1>2, TailAt
  <2>3. ~(dn[1].type \in {"HELLO", "INPUT_ACK"})
    BY <2>2
  <2>4. QED
    BY <2>1, <2>2, <2>3, Zenon DEF Hand
<1>4. OutTalk(web, term.tx, p, up, dn, hist, TRUE)
  <2>1. OutTalk(web, term.tx, p, up, dn, hist, Opened(net, c))
    BY <1>1, <1>2, Zenon DEF OutputTalks
  <2>2. Opened(net, c)
    BY Zenon DEF Opened, Live
  <2>3. QED
    BY <2>1, <2>2, Zenon DEF OutTalk
<1>5. PICK u, d \in Nat :
        /\ d <= OUTPUT_WINDOW
        /\ Reads(o, p.received, p.out_seq, p.writes, u, d) /\ Copies(o, W, u, dn)
  BY <1>1, <1>4, TalkFacts, Zenon
<1>6. dn # <<>> /\ Head(dn).type = "OUTPUT"
  OBVIOUS
<1> HIDE DEF dn, W, o
<1>7. /\ Head(dn).seq \in Sequence
      /\ Minus(o, Head(dn).seq) \in u .. u + OUTPUT_WINDOW /\ Minus(o, Head(dn).seq) >= 1
  BY <1>2, <1>5, <1>6, FirstCopy
<1>8. IF Head(dn).seq = p.received
        THEN Len(p.writes) < OUTPUT_WINDOW
        ELSE Minus(p.received, Head(dn).seq) \in 1 .. OUTPUT_WINDOW
  BY <1>1, <1>5, <1>7, ReadsInWindow, Zenon
<1>9. QED
  BY <1>3, <1>8, Zenon DEF dn

LEMMA NoErrorFollows ==
  ASSUME OutInv
  PROVE  NoProtocolError
<1>1. SUFFICES ASSUME NEW c \in Conns, Live(c)
               PROVE  /\ ~(Take(c, {"INPUT", "OUTPUT_ACK"}) /\ Invalid(Head(net[c].up)))
                      /\ net[c].down # <<>> /\ Head(net[c].down).type = "OUTPUT" =>
                           /\ page[c].ready
                           /\ IF Head(net[c].down).seq = page[c].received
                                THEN Len(page[c].writes) < OUTPUT_WINDOW
                                ELSE Minus(page[c].received, Head(net[c].down).seq)
                                       \in 1 .. OUTPUT_WINDOW
  BY DEF NoProtocolError
<1>2. QED
  BY <1>1, UpIsValid, DownIsValid, Zenon

-----------------------------------------------------------------------------
(* The close diagnostics: reported or not, they are those of the session    *)
(* that ended last.                                                         *)

SameReport(v, w) == v.last = w.last /\ v.details = w.details
Paired(w) == w.details # None => w.details = w.last

LEMMA SamePaired ==
  ASSUME NEW v, NEW w, Paired(w), SameReport(v, w)
  PROVE  Paired(v)
  BY Zenon DEF Paired, SameReport

LEMMA NotedReport ==
  ASSUME NEW w, WebGood(w), NEW v, v = note_browser_activity(w)
  PROVE  SameReport(v, w) /\ DOMAIN v = WebFields /\ WebGood(v)
<1>1. DOMAIN w = WebFields
  BY WebFacts, Zenon
<1>2. SameReport(v, w)
  BY <1>1, ZenonT(60) DEF note_browser_activity, WebFields, SameReport
<1>3. QED
  BY <1>2, NotedWeb, WebFacts, Zenon

LEMMA ResetReport ==
  ASSUME NEW w, WebGood(w), NEW v, v = reset_session(w)
  PROVE  SameReport(v, w) /\ DOMAIN v = WebFields /\ v.active = w.active
<1>1. DOMAIN w = WebFields
  BY WebFacts, Zenon
<1>2. v = [x \in WebFields |-> IF x \in DOMAIN FreshSession THEN FreshSession[x] ELSE w[x]]
  BY <1>1, Zenon DEF reset_session, Session
<1>3. DOMAIN FreshSession = {"ready", "out_seq", "window", "staged", "in_seq", "pending_input",
                             "ack_pending", "awaiting", "activity", "missed"}
  BY DEF FreshSession
<1>4. v.last = w.last /\ v.details = w.details
  BY <1>2, <1>3 DEF WebFields
<1>5. QED
  BY <1>4, ResetFields, Zenon DEF SameReport, SameFlags

(* A close is reported of the owner's connection, or of the last owner's.   *)
LEMMA ClosedReport ==
  ASSUME WebGood(web), Paired(web), NEW c
  PROVE  Paired(on_close(on_close_details(web, c), c))
<1> DEFINE u == on_close_details(web, c)
           t == [web EXCEPT !.last = c, !.details = c]
           v == [u EXCEPT !.active = None, !.last = c, !.disconnected = TRUE]
<1>1. DOMAIN web = WebFields
  BY WebFacts, Zenon
<1>2. t.last = c /\ t.details = c /\ t.active = web.active /\ DOMAIN t = WebFields
  BY <1>1, ZenonT(60) DEF WebFields
<1>3. u = IF web.active = c \/ web.last = c THEN t ELSE web
  BY Zenon DEF on_close_details
<1> HIDE DEF t, u
<1>4. /\ DOMAIN u = WebFields /\ u.active = web.active
      /\ Paired(u) /\ (web.active = c => u.details = c)
  BY <1>1, <1>2, <1>3, Zenon DEF Paired
<1>5. v.last = c /\ v.details = u.details
  BY <1>4, ZenonT(60) DEF WebFields
<1>6. on_close(u, c) = IF u.active = c THEN v ELSE u
  BY Zenon DEF on_close
<1> HIDE DEF v
<1>7. Paired(on_close(u, c))
  BY <1>4, <1>5, <1>6, Zenon DEF Paired
<1>8. QED
  BY <1>7, Zenon DEF u

(* A session that the Pico ends has no diagnostics yet.                     *)
LEMMA DisconnectReport ==
  ASSUME WebGood(web), Paired(web), disconnect_client
  PROVE  Paired(web')
<1> DEFINE v == reset_session(web)
           u == Disconnected(web)
           last == IF web.active # None THEN web.active ELSE v.last
           details == IF web.active # None THEN None ELSE v.details
<1>1. SameReport(v, web) /\ DOMAIN v = WebFields
  BY ResetReport, Zenon
<1>2. u = [v EXCEPT !.active = None, !.connected = FALSE, !.disconnected = FALSE,
             !.last = last, !.details = details]
  BY <1>1, Zenon DEF Disconnected, WebFields
<1> HIDE DEF v, u, last, details
<1>3. u.last = last /\ u.details = details
  BY <1>1, <1>2, ZenonT(60) DEF WebFields
<1>4. web' = u
  BY Zenon DEF disconnect_client, u
<1>5. QED
  BY <1>1, <1>3, <1>4, Zenon DEF Paired, SameReport, last, details

LEMMA EventsReport ==
  ASSUME WebGood(web), process_events
  PROVE  SameReport(web', web)
<1> DEFINE r == reset_session(web)
           w == IF web.disconnected \/ (web.connected /\ web.active # None) THEN r ELSE web
           v == [w EXCEPT !.disconnected = FALSE, !.connected = FALSE]
<1>1. web' = v
  BY ZenonT(60) DEF process_events, AfterEvents
<1>2. SameReport(r, web) /\ DOMAIN r = WebFields /\ DOMAIN web = WebFields
  BY ResetReport, WebFacts, Zenon
<1> HIDE DEF r
<1>3. SameReport(w, web) /\ DOMAIN w = WebFields
  BY <1>2, Zenon DEF SameReport
<1> HIDE DEF w
<1>4. SameReport(v, w)
  BY <1>3, ZenonT(60) DEF WebFields, SameReport
<1>5. QED
  BY <1>1, <1>3, <1>4, Zenon DEF SameReport

LEMMA AcceptReport ==
  ASSUME NEW w, WebGood(w), NEW n, Accept(w, n)
  PROVE  SameReport(web', w)
<1> DEFINE taken == w.pending_input # <<>> /\ BrowserAccepts(term, w.pending_input)
           t == [w EXCEPT !.pending_input = <<>>, !.in_seq = Next1(w.in_seq),
                          !.ack_pending = TRUE]
           v == IF taken THEN t ELSE w
           left == AckLeft(v, n)
           u == [v EXCEPT !.ack_pending = left]
<1>1. DOMAIN w = WebFields
  BY WebFacts, Zenon
<1>2. t = [w EXCEPT !.pending_input = <<>>, !.in_seq = Next1(@), !.ack_pending = TRUE]
  BY <1>1, Zenon DEF WebFields
<1>3. web' = IF v.active = None THEN v ELSE u
  BY <1>2, ZenonT(60) DEF Accept, Accepted
<1>4. DOMAIN t = WebFields /\ SameReport(t, w)
  BY <1>1, ZenonT(60) DEF WebFields, SameReport
<1> HIDE DEF t, left
<1>5. DOMAIN v = WebFields /\ SameReport(v, w)
  BY <1>1, <1>4, Zenon DEF SameReport
<1> HIDE DEF v
<1>6. SameReport(u, v)
  BY <1>5, ZenonT(60) DEF WebFields, SameReport
<1>7. QED
  BY <1>3, <1>5, <1>6, Zenon DEF SameReport

LEMMA TakenReport ==
  ASSUME InputInv, NEW c \in Conns, OnReady(c) \/ OnOutputAck(c) \/ OnPong(c)
  PROVE  SameReport(web', web)
<1> DEFINE v == note_browser_activity(web)
<1>1. WebGood(web) /\ DOMAIN web = WebFields
  BY WebFacts, Zenon DEF InputInv, RoomInv
<1>2. SameReport(v, web) /\ DOMAIN v = WebFields
  BY <1>1, NotedReport, Zenon
<1>3. CASE OnReady(c)
  <2>1. web' = [v EXCEPT !.ready = TRUE]
    BY <1>3, Zenon DEF OnReady
  <2> HIDE DEF v
  <2>2. SameReport(web', v)
    BY <1>2, <2>1, ZenonT(60) DEF WebFields, SameReport
  <2>3. QED
    BY <1>2, <2>2, Zenon DEF SameReport
<1>4. CASE OnOutputAck(c)
  <2> DEFINE hit == {i \in DOMAIN web.window :
                       web.window[i].sent /\ web.window[i].seq = Head(net[c].up).seq}
             k == CHOOSE i \in hit : \A j \in hit : i <= j
             left == IF hit = {} THEN v.window ELSE Rest(v.window, k)
  <2>1. web' = [v EXCEPT !.window = left]
    BY <1>2, <1>4, Zenon DEF OnOutputAck, WebFields
  <2> HIDE DEF v, left
  <2>2. SameReport(web', v)
    BY <1>2, <2>1, ZenonT(60) DEF WebFields, SameReport
  <2>3. QED
    BY <1>2, <2>2, Zenon DEF SameReport
<1>5. CASE OnPong(c)
  <2> DEFINE u == [web EXCEPT !.awaiting = FALSE, !.missed = 0, !.activity = FALSE]
  <2>1. SameReport(u, web)
    BY <1>1, ZenonT(60) DEF WebFields, SameReport
  <2>2. web' = u \/ web' = v
    BY <1>5, Zenon DEF OnPong
  <2> HIDE DEF u, v
  <2>3. QED
    BY <1>2, <2>1, <2>2, Zenon
<1>6. QED
  BY <1>3, <1>4, <1>5, Zenon

LEMMA InputReport ==
  ASSUME InputInv, NEW c \in Conns, OnInput(c)
  PROVE  SameReport(web', web)
<1> DEFINE m == Head(net[c].up)
           v == note_browser_activity(web)
           w == [v EXCEPT !.pending_input = m.data]
           z == [v EXCEPT !.ack_pending = TRUE]
           left == AckLeft(z, Arrived(c))
<1>1. WebGood(web)
  BY Zenon DEF InputInv, RoomInv
<1>2. SameReport(v, web) /\ DOMAIN v = WebFields
  BY <1>1, NotedReport, Zenon
<1>3. /\ WebGood(w)
      /\ Accept(w, Arrived(c)) \/ AckDuplicate(c)
  BY InputFields, Zenon
<1>4. AckDuplicate(c) => web' = [z EXCEPT !.ack_pending = left]
  BY Zenon DEF AckDuplicate
<1> HIDE DEF v, m, left
<1>5. SameReport(w, v) /\ SameReport(z, v) /\ DOMAIN z = WebFields
  BY <1>2, ZenonT(60) DEF WebFields, SameReport
<1> HIDE DEF w, z
<1>6. CASE Accept(w, Arrived(c))
  <2>1. SameReport(web', w)
    BY <1>3, <1>6, AcceptReport, Zenon
  <2>2. QED
    BY <1>2, <1>5, <2>1, Zenon DEF SameReport
<1>7. CASE AckDuplicate(c)
  <2>1. web' = [z EXCEPT !.ack_pending = left]
    BY <1>4, <1>7, Zenon
  <2>2. SameReport(web', z)
    BY <1>5, <2>1, ZenonT(60) DEF WebFields, SameReport
  <2>3. QED
    BY <1>2, <1>5, <2>2, Zenon DEF SameReport
<1>8. QED
  BY <1>3, <1>6, <1>7, Zenon

LEMMA PollReport ==
  ASSUME InputInv, \/ PollOnline \/ PollInput \/ Ping \/ Stage
                   \/ \E due : SendFrames(due)
  PROVE  SameReport(web', web)
<1>1. WebGood(web) /\ DOMAIN web = WebFields
  BY WebFacts, Zenon DEF InputInv, RoomInv
<1>2. CASE PollOnline
  BY <1>1, <1>2, EventsReport, Zenon DEF PollOnline
<1>3. CASE PollInput
  <2>1. process_events \/ Accept(web, net)
    BY <1>3, Zenon DEF PollInput
  <2>2. QED
    BY <1>1, <2>1, EventsReport, AcceptReport, Zenon
<1>4. CASE Ping
  <2> DEFINE seq == (web.ping_seq + 1) % PingModulus
             v == [web EXCEPT !.ping_seq = seq, !.awaiting = TRUE, !.activity = FALSE]
             u == [web EXCEPT !.ping_seq = seq]
  <2>1. web' = v \/ web' = u
    BY <1>4, Zenon DEF Ping
  <2> HIDE DEF seq
  <2>2. SameReport(v, web) /\ SameReport(u, web)
    BY <1>1, ZenonT(60) DEF WebFields, SameReport
  <2> HIDE DEF u, v
  <2>3. QED
    BY <2>1, <2>2, Zenon
<1>5. CASE Stage
  <2> DEFINE ws == Append(web.window, [seq |-> web.out_seq, data |-> Staged, sent |-> FALSE])
             o == Next1(web.out_seq)
  <2>1. web' = [web EXCEPT !.window = ws, !.out_seq = o, !.staged = <<>>]
    BY <1>1, <1>5, Zenon DEF Stage, WebFields
  <2> HIDE DEF ws, o
  <2>2. QED
    BY <1>1, <2>1, ZenonT(60) DEF WebFields, SameReport
<1>6. ASSUME NEW due, SendFrames(due)
      PROVE  SameReport(web', web)
  <2> DEFINE now == First(Unsent(web, due), ChannelDepth - Len(net[web.active].down))
             vs == Marked(web.window, Range(now))
             st == IF Len(web.window) = OUTPUT_WINDOW THEN web.staged ELSE Staged
  <2>1. web' = [web EXCEPT !.staged = st, !.window = vs]
    BY <1>1, <1>6, ZenonT(60) DEF SendFrames, WebFields, Marked
  <2> HIDE DEF vs, st
  <2>2. QED
    BY <1>1, <2>1, ZenonT(60) DEF WebFields, SameReport
<1>7. QED
  BY <1>2, <1>3, <1>4, <1>5, <1>6, Zenon

LEMMA MissReport ==
  ASSUME InputInv, Paired(web), PongTimeout
  PROVE  Paired(web')
<1> DEFINE v == AfterMiss(web)
<1>1. WebGood(web) /\ DOMAIN web = WebFields
  BY WebFacts, Zenon DEF InputInv, RoomInv
<1>2. SameReport(v, web)
  BY <1>1, ZenonT(60) DEF AfterMiss, WebFields, SameReport
<1>3. disconnect_client \/ web' = v
  BY Zenon DEF PongTimeout
<1> HIDE DEF v
<1>4. QED
  BY <1>1, <1>2, <1>3, DisconnectReport, SamePaired, Zenon

LEMMA ConnectReport ==
  ASSUME InputInv, NEW c \in Conns, on_connect(c)
  PROVE  SameReport(web', web)
<1> DEFINE v == [web EXCEPT !.active = c, !.connected = TRUE]
<1>1. DOMAIN web = WebFields
  BY WebFacts, Zenon DEF InputInv, RoomInv
<1>2. web' = v \/ web' = web
  BY Zenon DEF on_connect
<1>3. SameReport(v, web)
  BY <1>1, ZenonT(60) DEF WebFields, SameReport
<1> HIDE DEF v
<1>4. QED
  BY <1>2, <1>3, Zenon DEF SameReport

LEMMA OthersReport ==
  ASSUME \/ web' = web \/ NoPing \/ Core0 \/ UsbChange \/ UsbType \/ UsbPeek
         \/ \E n \in 0 .. Len(peeked) : UsbSupply(n)
         \/ \E c \in Conns :
              PageType(c) \/ PageRetry(c) \/ PageReceive(c) \/ PageConsumed(c) \/ PageLeaves(c)
              \/ TcpGivesUp(c) \/ RawClient(c)
  PROVE  web' = web
<1>1. CASE NoPing
  BY <1>1, Zenon DEF NoPing
<1>2. CASE Core0
  BY <1>2, ZenonT(60) DEF Core0, StatusClient, StatusRoom, Z80Write, Z80Read
<1>3. CASE UsbChange \/ UsbType \/ UsbPeek
  BY <1>3, ZenonT(60) DEF UsbChange, UsbType, UsbPeek
<1>4. ASSUME NEW n, UsbSupply(n)
      PROVE  web' = web
  BY <1>4, Zenon DEF UsbSupply
<1>5. ASSUME NEW c,
             PageType(c) \/ PageRetry(c) \/ PageConsumed(c) \/ PageLeaves(c)
             \/ TcpGivesUp(c) \/ RawClient(c)
      PROVE  web' = web
  BY <1>5, ZenonT(60) DEF PageType, PageRetry, PageConsumed, PageLeaves, TcpGivesUp, RawClient,
     PageStep
<1>6. ASSUME NEW c, PageReceive(c)
      PROVE  web' = web
  BY <1>6, ZenonT(60) DEF PageReceive, PageHello, PageInputAck, PageOutput, PageStep
<1>7. QED
  BY <1>1, <1>2, <1>3, <1>4, <1>5, <1>6, Zenon

LEMMA NextPaired ==
  ASSUME OutInv, Paired(web), [Next]_vars
  PROVE  Paired(web')
<1>1. InputInv /\ WebGood(web)
  BY SessionFacts, Zenon DEF RoomInv
<1>2. CASE UNCHANGED vars \/ NoPing \/ Core0 \/ UsbChange \/ UsbType \/ UsbPeek
           \/ (\E n \in 0 .. Len(peeked) : UsbSupply(n))
           \/ \E c \in Conns :
                PageType(c) \/ PageRetry(c) \/ PageReceive(c) \/ PageConsumed(c) \/ PageLeaves(c)
                \/ TcpGivesUp(c) \/ RawClient(c)
  <2>1. UNCHANGED vars => web' = web
    BY Zenon DEF vars
  <2>2. web' = web
    BY <1>2, <2>1, OthersReport, Zenon
  <2>3. QED
    BY <2>2, Zenon
<1>3. ASSUME NEW c \in Conns, OnReady(c) \/ OnOutputAck(c) \/ OnPong(c) \/ OnInput(c) \/ on_connect(c)
      PROVE  Paired(web')
  <2>1. SameReport(web', web)
    BY <1>1, <1>3, TakenReport, InputReport, ConnectReport, Zenon
  <2>2. QED
    BY <2>1, SamePaired, Zenon
<1>4. CASE PollOnline \/ PollInput \/ Ping \/ Stage \/ \E due \in SUBSET DOMAIN web.window : SendFrames(due)
  <2>1. SameReport(web', web)
    BY <1>1, <1>4, PollReport, Zenon
  <2>2. QED
    BY <2>1, SamePaired, Zenon
<1>5. CASE PollOffline \/ AckTimeout \/ SendError \/ \E c \in Conns : OnInvalid(c)
  <2>1. disconnect_client
    BY <1>5, Zenon DEF PollOffline, AckTimeout, SendError, OnInvalid
  <2>2. QED
    BY <1>1, <2>1, DisconnectReport, Zenon
<1>6. CASE PongTimeout
  BY <1>1, <1>6, MissReport, Zenon
<1>7. ASSUME NEW c \in Conns, Closed(c)
      PROVE  Paired(web')
  <2>1. web' = on_close(on_close_details(web, c), c)
    BY <1>7, Zenon DEF Closed
  <2>2. QED
    BY <1>1, <2>1, ClosedReport, Zenon
<1>8. QED
  BY <1>2, <1>3, <1>4, <1>5, <1>6, <1>7, Zenon DEF Next, Core1, Environment

(* No live page or session ever has cause to end the other for a protocol   *)
(* error, and the diagnostics of a close are those of the last session, in  *)
(* whatever order the reports, aborts and new sessions come                 *)
(* (z80_web_terminal_on_message, on_close_details, index.html).             *)
THEOREM SessionsHold == Spec => []SessionsAreSound
<1> DEFINE Inv == OutInv /\ Paired(web)
<1>1. Init => Inv
  <2>1. ASSUME Init
        PROVE  web.details = None
    BY <2>1 DEF Init, WebInit, FreshSession
  <2>2. Init => Paired(web)
    BY <2>1, Zenon DEF Paired
  <2>3. QED
    BY <2>2, InitOut, Zenon
<1>2. Inv /\ [Next]_vars => Inv'
  <2>1. ASSUME OutInv, Paired(web), [Next]_vars
        PROVE  OutInv' /\ Paired(web')
    BY <2>1, NextOut, NextPaired, Zenon
  <2>2. QED
    BY <2>1 DEF Paired
<1>3. Inv => SessionsAreSound
  BY NoErrorFollows, Zenon DEF SessionsAreSound, DetailsArePaired, Paired
<1> HIDE DEF Inv
<1>4. QED
  BY <1>1, <1>2, <1>3, PTL DEF Spec
=============================================================================
