------------------------------- MODULE MCHost -------------------------------
(***************************************************************************)
(* The debug host, one part at a time: "part" says which one a behaviour   *)
(* is about and never changes, "st" is that module's state.                *)
(***************************************************************************)
EXTENDS Integers, Sequences

VARIABLES part, st

vars == <<part, st>>

-----------------------------------------------------------------------------
(* The CPU core: single instructions from two register files, arithmetic    *)
(* over edge values, a program with interrupts in each mode, and the panel.  *)
Core == INSTANCE Z80Cpu WITH cpu <- st, MemSize <- 64, InputByte <- 66,
  PanelAddrs <- {0, 63}, PanelBytes <- {118, 251}

Cleared ==
  [r |-> [k \in 0..7 |-> 0], alt |-> [k \in 0..7 |-> 16 + k],
   f |-> Core!unmaterializeFlags(0), falt |-> Core!unmaterializeFlags(255),
   ix |-> 0, iy |-> 0, sp |-> 56, pc |-> 0, memptr |-> 0, rr |-> 0, i |-> 0, im |-> 0,
   iff1 |-> FALSE, iff2 |-> FALSE, mem |-> [a \in 0..63 |-> 0], halted |-> FALSE,
   exited |-> FALSE, io |-> <<>>, sbc |-> FALSE, lastOp |-> 0, bus |-> 0, data |-> 0,
   left |-> 0, ints |-> 0, vec |-> 0, kind |-> "step", goal |-> <<>>]
Load(c, code, org) ==
  [c EXCEPT !.mem = [a \in 0..63 |-> IF a - org + 1 \in DOMAIN code THEN code[a - org + 1]
                                     ELSE c.mem[a]]]

Seeds ==
  {[Cleared EXCEPT !.r = [k \in 0..7 |-> (37 * k + 9) % 256], !.ix = 800, !.iy = 2090, !.sp = 48,
      !.mem = [a \in 0..63 |-> (a * 29 + 3) % 256], !.pc = 1, !.left = 1],
   [Cleared EXCEPT !.r = [k \in 0..7 |-> (255 - 51 * k) % 256], !.ix = 65530, !.iy = 32767,
      !.sp = 50, !.mem = [a \in 0..63 |-> (a * 77 + 128) % 256], !.pc = 1, !.left = 1,
      !.f = Core!unmaterializeFlags(255)]}
Codes ==
  {<<prefix, op, 253, 37, 11>> : prefix \in {221, 253}, op \in 0..255}
  \cup UNION {{<<0, 203, op, 5, 6>>, <<0, 237, op, 40, 0>>, <<221, 203, 4, op, 0>>,
               <<0, 221, 203, 250, op>>} : op \in 0..255}
StepStarts == {Load(c, code, 0) : c \in Seeds, code \in Codes}

Words == {0, 1, 4095, 4096, 32767, 32768, 36863, 65535}
MathStarts ==
  {[Cleared EXCEPT !.kind = "math", !.r[7] = a, !.r[0] = b, !.f = Core!unmaterializeFlags(k)] :
     a \in {16 * h + l : h, l \in 0..9}, b \in {0, 1, 9, 16, 25, 80, 144, 153}, k \in {0, 1}}
  \cup {[Core!SetPair(Core!SetPair(Cleared, 2, x), 1, y)
           EXCEPT !.kind = "math", !.f = Core!unmaterializeFlags(k),
                  !.r[0] = x \div 256, !.r[7] = y % 256] : x, y \in Words, k \in {0, 1}}

Program(im) == <<237, im, 251, 62, 25, 198, 40, 39, 50, 32, 0, 33, 32, 0, 17, 33, 0, 1, 3, 0,
                 237, 176, 118, 24, 253>>
Handler == <<245, 175, 241, 251, 237, 77, 56, 0>>
RunStarts ==
  {LET c == Load(Load([Cleared EXCEPT !.kind = "run", !.left = 90, !.ints = 3, !.vec = m[2]],
                      Program(m[1]), 0), Handler, 56)
   IN [c EXCEPT !.goal = Core!Outcome(Core!Finish(c), 32..36)] :
     m \in {<<70, 255>>, <<86, 0>>, <<94, 62>>}}
PanelStarts ==
  {Load([Cleared EXCEPT !.kind = "panel", !.left = 3], <<62, 165, 211, 21, 219, 8, 118>>, 0)}

-----------------------------------------------------------------------------
(* The MI server: a recursive program with breakpoints, the same with frames *)
(* and variable objects, and one that reads the console.                    *)
I(o, a) == [op |-> o, to |-> a]
CallCode == <<I("call", 3), I("jump", 0),                             \* 1, 2: startup
              I("enter", 0), I("call", 7), I("leave", 0), I("ret", 0), \* 3..6: main
              I("enter", 0), I("maybe", 10), I("jump", 11),           \* 7..12: f
              I("call", 7), I("leave", 0), I("ret", 0)>>
CallLine == <<0, 0, 1, 2, 3, 3, 4, 4, 4, 5, 6, 6>>
CallFunction == [i \in 1..12 |-> IF i < 3 THEN "none" ELSE IF i < 7 THEN "main" ELSE "f"]
CallLocals == [main |-> {"x"}, f |-> {"x", "x.y"}]

Breaks == INSTANCE MiServer WITH mi <- st, Code <- CallCode, Line <- CallLine,
  Function <- CallFunction, Locals <- CallLocals, Children <- [e \in {"x"} |-> {"x.y"}],
  InputWaitPolls <- 2, InputRelease <- 1, MaxInput <- 0, MaxStack <- 6, Breakables <- {1, 8},
  Conditions <- {"expr"}, IgnoreCounts <- {0, 1}, MaxBreakpoints <- 1, MaxHits <- 2,
  MaxObjects <- 0, MaxFrames <- 3, Direct <- TRUE, Lines <- {}, Terminal <- FALSE,
  InlineFrames <- {-1}

Frames == INSTANCE MiServer WITH mi <- st, Code <- CallCode, Line <- CallLine,
  Function <- CallFunction, Locals <- CallLocals,
  Children <- [e \in {"x", "x.y"} |-> IF e = "x" THEN {"x.y"} ELSE {}],
  InputWaitPolls <- 2, InputRelease <- 1, MaxInput <- 0, MaxStack <- 4, Breakables <- {8},
  Conditions <- {""}, IgnoreCounts <- {0}, MaxBreakpoints <- 0, MaxHits <- 1,
  MaxObjects <- 2, MaxFrames <- 3, Direct <- TRUE, Lines <- {}, Terminal <- FALSE,
  InlineFrames <- {-1, 1}

IoCode == <<I("status", 0), I("read", 0), I("write", 0), I("maybe", 1), I("jump", 0)>>
Console == INSTANCE MiServer WITH mi <- st, Code <- IoCode, Line <- <<1, 1, 2, 2, 2>>,
  Function <- [i \in 1..5 |-> "main"], Locals <- [main |-> {}], Children <- <<>>,
  InputWaitPolls <- 2, InputRelease <- 2, MaxInput <- 2, MaxStack <- 6, Breakables <- {3},
  Conditions <- {""}, IgnoreCounts <- {0}, MaxBreakpoints <- 0, MaxHits <- 1,
  MaxObjects <- 0, MaxFrames <- 1, Direct <- FALSE, Terminal <- TRUE, InlineFrames <- {-1},
  Lines <- {"control-c", "interrupt", "exit", "other", "eof", "signal"}

-----------------------------------------------------------------------------
(* The program's metadata, the drive built from a directory, the fixtures.   *)
Meta == INSTANCE DebugMetadata WITH meta <- st, Names <- {"x"}, Offsets <- {1, 2},
  MaxAddress <- 3, MaxFunctions <- 2, MaxVariables <- 2, MaxLines <- 2

File(n, t, d) == [name |-> n, valid |-> TRUE, text |-> t, data |-> d]
P == <<"p1", "p2", "p3", "p4", "p5", "p6", "p7", "p8", "p9">>
Q == <<"q1", "q2", "q3", "q4", "q5", "q6", "q7", "q8", "q9">>
Drive == INSTANCE DirectoryDisk WITH dd <- st, RecordSize <- 2, BlockSize <- 4, ExtentSize <- 8,
  DirectoryEntries <- 4, LastDataBlock <- 6, MaxSteps <- 4,
  HostFiles <-
    {<<>>, <<File("A", FALSE, <<>>), File("B", TRUE, <<"a", "\n", "\r", "\n">>)>>,
     <<File("A", FALSE, P), File("B", TRUE, <<"^Z">>)>>,
     <<File("B", FALSE, Q), File("A", FALSE, P)>>,
     <<File("A", FALSE, <<"a">>), File("A", FALSE, <<"b">>)>>,
     <<[name |-> "long", valid |-> FALSE, text |-> FALSE, data |-> <<>>]>>,
     <<File("B", FALSE, Q \o Tail(P)), File("A", FALSE, <<"a">>), File("C", TRUE, <<>>)>>},
  Written <- {<<"w", "v">>, <<"1", "2", "3", "4", "5", "6", "7", "8">>}

Fixtures == INSTANCE FixturePublish WITH pub <- st

-----------------------------------------------------------------------------
(* Expressions over one stopped frame: bytes of three bits, so that an int   *)
(* has 6 bits, a long 12 and memory 64 cells.                                *)
T(base, ptr, uns, id) == [base |-> base, ptr |-> ptr, uns |-> uns, id |-> id]
Scalar(t, size, loc, at) == [type |-> t, size |-> size, array |-> FALSE, fn |-> FALSE, elem |-> 0,
                             dims |-> <<>>, loc |-> loc, at |-> at, vla |-> FALSE]
ArrayOf(t, elem, dims, size, at) == [Scalar(t, size, "global", at) EXCEPT !.array = TRUE,
                                                                   !.elem = elem, !.dims = dims]
TInt == T("int", 0, FALSE, 0)
TChar == T("char", 0, FALSE, 0)
TStruct == T("struct", 0, FALSE, 1)
EvalVariables ==
  [c |-> Scalar(TChar, 1, "frame", -2), i |-> Scalar(TInt, 2, "frame", -4),
   b |-> Scalar(T("bool", 0, TRUE, 0), 1, "frame", -1), r |-> Scalar(T("int", 0, TRUE, 0), 2, "BC", 0),
   l |-> Scalar(T("long", 0, FALSE, 0), 4, "HL_DE", 0), k |-> Scalar(TInt, 2, "constant", -3),
   o |-> Scalar(TInt, 2, "out", 0), lost |-> Scalar(TInt, 2, "frame", -30),
   end |-> Scalar(TInt, 2, "global", 63), a |-> ArrayOf(TInt, 2, <<2, 2>>, 8, 20),
   s |-> Scalar(TStruct, 5, "global", 30), x |-> Scalar(T("struct", 0, FALSE, 2), 2, "global", 40),
   p |-> Scalar(T("struct", 1, FALSE, 1), 2, "global", 36), q |-> Scalar(T("int", 1, FALSE, 0), 2, "IY", 0),
   pp |-> Scalar(T("struct", 2, FALSE, 1), 2, "global", 38), f |-> [Scalar(TInt, 2, "global", 50)
     EXCEPT !.type.ptr = 1, !.fn = TRUE],
   v |-> [ArrayOf(TInt, 2, <<0>>, 4, 42) EXCEPT !.vla = TRUE]]
EvalField(of, name, offset, t, size, width, shift) ==
  [of |-> of, name |-> name, offset |-> offset, type |-> t, size |-> size, array |-> FALSE,
   elem |-> 0, dims |-> <<>>, width |-> width, shift |-> shift]
EvalFields ==
  <<EvalField(1, "f", 0, TChar, 1, 0, 0), EvalField(1, "m", 1, T("int", 0, TRUE, 0), 2, 2, 0),
    EvalField(1, "n", 1, TInt, 2, 3, 2),
    [EvalField(1, "d", 3, TChar, 2, 0, 0) EXCEPT !.array = TRUE, !.elem = 1, !.dims = <<2>>],
    EvalField(2, "y", 0, TInt, 2, 0, 0), EvalField(2, "z", 0, TChar, 1, 0, 0)>>

Path(stars, name, suffix) == [stars |-> stars, name |-> name, suffix |-> suffix]
Num(n, u, l, dec) == [t |-> "num", n |-> n, u |-> u, l |-> l, dec |-> dec]
At(n) == [k |-> "index", text |-> <<Num(n, FALSE, FALSE, n # 0)>>]
Dot(f) == [k |-> "dot", field |-> f]
Arrow(f) == [k |-> "arrow", field |-> f]
EvalWritten ==
  {Path(0, n, <<>>) : n \in {"c", "b", "r", "l", "end"}}
  \cup {Path(0, "a", <<At(0), At(1)>>), Path(0, "s", <<Dot("m")>>), Path(0, "s", <<Dot("n")>>),
        Path(0, "p", <<Arrow("f")>>), Path(1, "q", <<>>), Path(0, "v", <<At(1)>>),
        Path(0, "s", <<Dot("d"), [k |-> "index", text |-> <<[t |-> "path", path |-> Path(0, "k", <<>>)],
                                 [t |-> "op", op |-> "+"], Num(4, FALSE, FALSE, TRUE)>>]>>)}
EvalPaths ==
  EvalWritten \cup {Path(0, n, <<>>) : n \in DOMAIN EvalVariables}
  \cup {Path(0, "a", <<At(1)>>), Path(0, "a", <<At(2)>>), Path(2, "pp", <<>>), Path(1, "pp", <<>>),
        Path(0, "x", <<Dot("y")>>), Path(0, "s", <<Dot("none")>>), Path(0, "i", <<Arrow("f")>>),
        Path(0, "c", <<At(0)>>), Path(0, "o", <<At(0)>>), Path(0, "nobody", <<>>)}

EvalExpressions ==
  LET ty(size, uns) == [size |-> size, uns |-> uns]
      leaf(tok, t, value) == [k |-> "var", tok |-> tok, ty |-> t, n |-> value]
      var(n, t, value) == leaf([t |-> "path", path |-> Path(0, n, <<>>)], t, value)
      sizeof(n, size, value) ==
        leaf([t |-> "sizeof", path |-> Path(0, n, <<>>), size |-> size], ty(2, TRUE), value)
      num(n, u, l, dec) == [k |-> "num", num |-> Num(n, u, l, dec)]
      bin(op, l, r) == [k |-> "bin", op |-> op, l |-> l, r |-> r]
      c == var("c", ty(1, FALSE), -2)
      i == var("i", ty(2, FALSE), 20)
      r == var("r", ty(2, TRUE), 60)
      l == var("l", ty(4, FALSE), -2000)
      zero == num(0, FALSE, FALSE, FALSE)
      one == num(1, FALSE, FALSE, TRUE)
      three == num(3, TRUE, FALSE, TRUE)
      leaves == {c, i, r, l, zero, one, three, num(40, FALSE, FALSE, TRUE),
                 num(40, FALSE, FALSE, FALSE), num(2, TRUE, TRUE, TRUE), num(3000, FALSE, FALSE, FALSE),
                 sizeof("a", 0, 8), sizeof("nobody", 4, 4), leaf([t |-> "chr", n |-> 10], ty(2, FALSE), 10)}
      ops == {"*", "/", "%", "+", "-", "<<", ">>", "<=", ">=", "<", ">", "==", "!=",
              "&", "^", "|", "&&", "||", ","}
      unary(e) == {[k |-> "un", op |-> op, e |-> e] : op \in {"+", "-", "~", "!"}}
                  \cup {[k |-> "cast", ty |-> ty(z, u), bool |-> FALSE, e |-> e] :
                          z \in {1, 2, 4}, u \in BOOLEAN}
                  \cup {[k |-> "cast", ty |-> ty(1, TRUE), bool |-> TRUE, e |-> e]}
      triples == {<<c, r, one>>, <<l, i, zero>>, <<zero, one, zero>>, <<i, three, one>>}
      pairs == {<<c, r>>, <<three, l>>, <<i, zero>>}
      arms == {i, r, l, bin("/", one, zero), bin("/", l, bin("-", i, i)), bin("%", i, three),
               bin("<<", one, l)}
      conds == {[k |-> "cond", e |-> e, l |-> x, r |-> y] : e \in {zero, c}, x, y \in arms}
  IN  UNION {unary(e) : e \in leaves} \cup {bin(op, x, y) : op \in ops, x, y \in leaves}
      \cup {bin(o, bin(op, t[1], t[2]), t[3]) : o, op \in ops, t \in triples}
      \cup {bin(o, t[1], bin(op, t[2], t[3])) : o, op \in ops, t \in triples}
      \cup UNION {unary(bin(op, t[1], t[2])) : op \in ops, t \in pairs}
      \cup UNION {{bin(op, u, t[2]) : u \in unary(t[1])} : op \in ops, t \in pairs}
      \cup conds \cup {bin(op, t, c) : op \in {"+", ">", "&&", ","}, t \in conds}
      \cup {bin(op, one, t) : op \in {"-", "||", "/"}, t \in conds}

Eval == INSTANCE DebugEvaluator WITH ev <- st, ByteBits <- 3, Variables <- EvalVariables,
  Fields <- EvalFields, Structs <- <<[size |-> 5, union |-> FALSE], [size |-> 2, union |-> TRUE]>>,
  Frame <- 16, Paths <- EvalPaths, Written <- EvalWritten, Values <- {0, 5, 4095}, MaxWrites <- 2

EvalStart ==
  [kind |-> "store", expr |-> <<>>, writes |-> 0, wrote |-> <<>>, old |-> <<>>,
   regs |-> [HL |-> 48, DE |-> 32, BC |-> 60, IY |-> 20],
   mem |-> [a \in 0..63 |-> CASE a = 14 -> 6 [] a = 13 -> 2 [] a = 12 -> 4
                              [] a = 36 -> 6 [] a = 37 -> 3 [] a = 38 -> 4 [] a = 39 -> 4
                              [] a = 42 -> 4 [] a = 43 -> 5 [] OTHER -> (a * 3) % 8]]
EvalStarts == {EvalStart} \cup {[EvalStart EXCEPT !.kind = "expression", !.expr = e] :
                                  e \in EvalExpressions}

-----------------------------------------------------------------------------
Init == \/ (part = "cpu" /\ Core!Init(StepStarts \cup MathStarts \cup RunStarts \cup PanelStarts))
        \/ (part = "breaks" /\ Breaks!Init)
        \/ (part = "frames" /\ Frames!Init)
        \/ (part = "console" /\ Console!Init)
        \/ (part = "metadata" /\ Meta!Init)
        \/ (part = "expressions" /\ st \in EvalStarts)
        \/ (part = "drive" /\ Drive!Init)
        \/ (part = "fixtures" /\ Fixtures!Init)

Next == UNCHANGED part /\
        (\/ (part = "cpu" /\ Core!Next)
         \/ (part = "breaks" /\ Breaks!Next)
         \/ (part = "frames" /\ Frames!Next)
         \/ (part = "console" /\ Console!Next)
         \/ (part = "metadata" /\ Meta!Next)
         \/ (part = "expressions" /\ Eval!Next)
         \/ (part = "drive" /\ Drive!Next)
         \/ (part = "fixtures" /\ Fixtures!Next))

(* The server's loop goes on executing the target while it runs.             *)
Spec == /\ Init /\ [][Next]_vars
        /\ WF_vars(part = "console" /\ Console!run_target /\ UNCHANGED part)

-----------------------------------------------------------------------------
(* An instruction does through IX or IY what its plain twin does through HL, *)
(* its length is what the debugger steps over, and arithmetic and decimal    *)
(* adjust give what integers give (x80.cxx); interrupts taken anywhere leave *)
(* a program's result as it is without them (cpu_x80_adapter.cpp).           *)
CoreAgrees == part = "cpu" => /\ Core!TwinsAgree /\ Core!LengthAgrees
                              /\ Core!ArithmeticAgrees /\ Core!InterruptsAreTransparent

(* A breakpoint counts one hit per arrival and a step ends where it was      *)
(* asked to, through recursion too (dcc_host_mi_server.cpp).                 *)
StopsAreRight ==
  /\ part = "breaks" => Breaks!OneHitPerArrival /\ Breaks!StepsEndWhereAsked
  /\ part = "frames" => Frames!StepsEndWhereAsked

(* An interrupt of a running target stops it, also one that waits for its    *)
(* console (dcc_host_mi_server.cpp run_target).                              *)
InterruptStops ==
  (part = "console" /\ (st.signal \/ st.cin \in {"interrupt", "control-c"}))
    ~> (part # "console" \/ st.mode = "idle")

(* The innermost scope decides what a name, a line and an address mean       *)
(* (dcc_host_debug_metadata.cpp); an expression means what it means in C,    *)
(* and an assignment changes its variable and nothing else                   *)
(* (dcc_host_debug_evaluator.cpp).                                           *)
InspectionAgrees ==
  /\ part = "metadata" => Meta!LookupsAgree
  /\ part = "expressions" => /\ Eval!EvaluatesAsC /\ Eval!WritesAreLocal
                             /\ Eval!ChildrenAreInside /\ Eval!AddressesPointBack

(* What the host stores for the target is read back: the drive built from a  *)
(* directory (directory_disk.cpp) and the published fixtures                 *)
(* (dcc_host_fixture_publish.cpp).                                           *)
FilesAreKept == /\ part = "drive" => Drive!DiskRoundTrips
                /\ part = "fixtures" => Fixtures!FixturesAreKept
=============================================================================
