--------------------------- MODULE DebugEvaluator ---------------------------
(***************************************************************************)
(* The expressions a debugger user types: dcc_host_debug_evaluator.cpp.    *)
(*                                                                         *)
(* A byte has ByteBits bits (8 in the code), so that a char, an int and a  *)
(* long of 1, 2 and 4 bytes keep their proportions within TLC's integers,  *)
(* and an address is an int.  An expression is a sequence of tokens; what  *)
(* the scanner takes as one piece, a path such as *p, a[i][1] or s.f, is   *)
(* one token.  A type is its base, its pointer depth, its sign and the     *)
(* struct it names.  Formatting of results is left out.                    *)
(***************************************************************************)
EXTENDS Bitwise, Integers, Sequences, FiniteSets

CONSTANTS ByteBits,
          Variables,   \* name -> the variable found at the stop's pc
          Fields,      \* sequence of the members of all structs
          Structs,     \* struct id -> its size and whether it is a union
          Frame,       \* ix at the stop
          Paths,       \* paths that are read back after every write
          Written,     \* those the user assigns to
          Values,      \* the values assigned
          MaxWrites    \* bound on the assignments of one stop

VARIABLE ev   \* kind, the expression, memory, registers, and the last write

Bits(size) == ByteBits * size
W(size) == 2 ^ Bits(size)
Cells == W(2)

-----------------------------------------------------------------------------
(* Integers are kept as the 4-byte pattern uint32_t holds.                   *)

Type(s, u) == [size |-> s, uns |-> u]
IntType == Type(2, FALSE)

normalize(v, t) ==
  LET x == v % W(t.size)
  IN  IF t.uns \/ x < W(t.size) \div 2 THEN x ELSE (x + W(4) - W(t.size)) % W(4)
signed_value(v, size) ==
  LET x == v % W(size) IN IF x < W(size) \div 2 THEN x ELSE x - W(size)
promote(t) == IF t.size < 2 THEN IntType ELSE t
common_type(l, r) ==
  LET a == promote(l)
      b == promote(r)
  IN  IF a.size = b.size THEN Type(a.size, a.uns \/ b.uns)
      ELSE IF a.size > b.size THEN a ELSE b
One(b) == IF b THEN 1 ELSE 0
Quotient(a, b) ==   \* C's division truncates
  LET q == (IF a < 0 THEN -a ELSE a) \div (IF b < 0 THEN -b ELSE b)
  IN  IF (a < 0) # (b < 0) THEN -q ELSE q

\* One operator of a binary level on normalized operands of the common type.
parse_multiplicative(op, l, r, t) ==
  LET a == IF t.uns THEN l ELSE signed_value(l, t.size)
      b == IF t.uns THEN r ELSE signed_value(r, t.size)
  IN  CASE op = "*" -> l * r
        [] op = "/" -> Quotient(a, b)
        [] op = "%" -> a - b * Quotient(a, b)
parse_additive(op, l, r) == IF op = "+" THEN l + r ELSE l - r
parse_shift(op, l, r, t) ==
  IF op = "<<" THEN l * 2 ^ r ELSE (IF t.uns THEN l ELSE signed_value(l, t.size)) \div 2 ^ r
parse_relational(op, l, r, t) ==
  LET a == IF t.uns THEN l ELSE signed_value(l, t.size)
      b == IF t.uns THEN r ELSE signed_value(r, t.size)
  IN  One(CASE op = "<=" -> a <= b [] op = ">=" -> a >= b
            [] op = "<" -> a < b [] op = ">" -> a > b)

\* The eight levels that loop over operators of one precedence.
Levels == <<{"*", "/", "%"}, {"+", "-"}, {"<<", ">>"}, {"<=", ">=", "<", ">"},
            {"==", "!="}, {"&"}, {"^"}, {"|"}>>
Fails(op, lt, r, t) == \/ op \in {"/", "%"} /\ normalize(r, t) = 0
                       \/ op \in Levels[3] /\ r >= Bits(promote(lt).size)
Apply(op, x, lt, y, t) ==
  LET p == promote(lt)
      l == normalize(x, t)
      r == normalize(y, t)
  IN  CASE op \in Levels[1] -> <<normalize(parse_multiplicative(op, l, r, t), t), t>>
        [] op \in Levels[2] -> <<normalize(parse_additive(op, l, r), t), t>>
        [] op \in Levels[3] -> <<normalize(parse_shift(op, normalize(x, p), y, p), p), p>>
        [] op \in Levels[4] -> <<parse_relational(op, l, r, t), IntType>>
        [] op \in Levels[5] -> <<One((l = r) = (op = "==")), IntType>>
        [] op = "&" -> <<l & r, t>>
        [] op = "^" -> <<l ^^ r, t>>
        [] op = "|" -> <<l | r, t>>

\* The type of a literal: suffixes, base and size.
LiteralType(k) ==
  LET long == k.l \/ k.n >= W(2)
  IN  CASE k.u -> Type(IF long THEN 4 ELSE 2, TRUE)
        [] ~k.u /\ k.n < W(2) \div 2 /\ ~k.l -> IntType
        [] ~k.u /\ ~k.l /\ ~k.dec /\ k.n < W(2) -> Type(2, TRUE)
        [] OTHER -> Type(4, k.n >= W(4) \div 2)

-----------------------------------------------------------------------------
(* Values and where they are.                                               *)

read_word(a) == ev.mem[a] + W(1) * ev.mem[(a + 1) % Cells]
range_valid(a, size) == size >= 0 /\ size <= Cells - a
type_size(t) ==
  CASE t.ptr > 0 -> 2
    [] t.ptr = 0 /\ t.base = "struct" -> Structs[t.id].size
    [] t.ptr = 0 /\ t.base \in {"char", "bool"} -> 1
    [] t.ptr = 0 /\ t.base \in {"long", "float"} -> 4
    [] OTHER -> 2
decay_pointer_type(t) == [t EXCEPT !.ptr = @ - 1]

Invalid == [ok |-> FALSE]
Registered(loc) ==
  LET low == [HL |-> "HL", DE |-> "DE", BC |-> "BC", IY |-> "IY", HL_DE |-> "HL", BC_IY |-> "BC"]
      high == [HL_DE |-> "DE", BC_IY |-> "IY"]
  IN  ev.regs[low[loc]] + (IF loc \in DOMAIN high THEN W(2) * ev.regs[high[loc]] ELSE 0)

value_from_variable(v) ==
  LET value == [ok |-> TRUE, addr |-> 0, type |-> v.type, size |-> v.size, imm |-> FALSE, ival |-> 0,
                out |-> FALSE, loc |-> "out", array |-> v.array, fn |-> v.fn, elem |-> v.elem,
                dims |-> v.dims, width |-> 0, shift |-> 0]
      at == IF v.loc = "global" THEN v.at ELSE Frame + v.at
      cell == [value EXCEPT !.addr = at]
  IN  CASE v.loc = "out" -> [value EXCEPT !.out = TRUE]
        [] v.loc = "constant" -> [value EXCEPT !.imm = TRUE, !.loc = v.loc, !.ival = v.at % W(4)]
        [] v.loc \notin {"out", "constant", "frame", "global"} ->
             [value EXCEPT !.imm = TRUE, !.loc = v.loc, !.ival = Registered(v.loc)]
        [] v.loc \in {"frame", "global"} /\ at \notin 0..(Cells - 1) -> Invalid
        [] v.loc \in {"frame", "global"} /\ at \in 0..(Cells - 1) /\ v.vla ->
             IF range_valid(at, 2) THEN [cell EXCEPT !.addr = read_word(at)] ELSE Invalid
        [] OTHER -> cell

Checked(v) == IF v.ok /\ range_valid(v.addr, v.size) THEN v ELSE Invalid
Pointee(v) == (IF v.imm THEN v.ival ELSE read_word(v.addr)) % Cells

Dereferenced(v) ==
  LET t == decay_pointer_type(v.type)
  IN  IF ~v.ok THEN v ELSE IF v.type.ptr = 0 THEN Invalid
      ELSE Checked([v EXCEPT !.addr = Pointee(v), !.imm = FALSE, !.ival = 0, !.type = t,
                             !.size = type_size(t), !.array = FALSE, !.dims = <<>>])

Element(v, n) ==
  LET array == v.array /\ v.dims # <<>>
      t == IF array THEN v.type ELSE decay_pointer_type(v.type)
      stride == IF ~array THEN type_size(t)
                ELSE IF Head(v.dims) > 0 THEN v.size \div Head(v.dims) ELSE v.elem
      base == IF array THEN v.addr ELSE Pointee(v)
      moved == [v EXCEPT !.type = t, !.addr = base + n * stride, !.size = stride]
  IN  IF \/ ~array /\ v.type.ptr = 0
         \/ array /\ Head(v.dims) > 0 /\ n >= Head(v.dims)
         \/ stride <= 0 \/ n > (Cells - 1 - base) \div stride
      THEN Invalid
      ELSE IF array THEN [moved EXCEPT !.dims = Tail(@), !.array = Len(v.dims) > 1]
      ELSE moved

\* "->" takes the pointer from memory, wherever the value is.
Member(v, name, indirect) ==
  LET t == IF indirect THEN decay_pointer_type(v.type) ELSE v.type
      addr == IF indirect THEN read_word(v.addr) ELSE v.addr
      named == {i \in DOMAIN Fields : Fields[i].of = t.id /\ Fields[i].name = name}
      f == Fields[CHOOSE i \in named : TRUE]
  IN  IF (indirect /\ v.type.ptr = 0) \/ t.ptr > 0 \/ t.base # "struct" \/ named = {} THEN Invalid
      ELSE IF f.offset > Cells - 1 - addr THEN Invalid
      ELSE [v EXCEPT !.addr = addr + f.offset, !.type = f.type, !.size = f.size, !.array = f.array,
                     !.elem = f.elem, !.dims = f.dims, !.width = f.width, !.shift = f.shift]

integer(v) ==
  LET raw == IF v.imm THEN v.ival
             ELSE ev.mem[v.addr] + (IF v.size > 1 THEN W(1) * ev.mem[(v.addr + 1) % Cells] ELSE 0)
                  + (IF v.size > 2 THEN W(2) * read_word((v.addr + 2) % Cells) ELSE 0)
      field == (raw \div 2 ^ v.shift) % 2 ^ v.width
  IN  IF v.width > 0
      THEN IF v.width + v.shift > Bits(v.size) THEN 0
           ELSE IF ~v.type.uns /\ v.width < Bits(4) /\ field >= 2 ^ (v.width - 1)
                THEN field + W(4) - 2 ^ v.width ELSE field
      ELSE IF ~v.type.uns /\ v.size \in {1, 2} THEN normalize(raw, Type(v.size, FALSE)) ELSE raw

-----------------------------------------------------------------------------
(* The recursive descent.  A parser p has its place i, ok_, whether errors   *)
(* of evaluation are suppressed, and the type and value it has last found.  *)

RECURSIVE parse_unary(_, _), BinaryLoop(_, _, _), parse_binary(_, _, _), AndLoop(_, _)
RECURSIVE OrLoop(_, _), parse_conditional(_, _), CommaLoop(_, _), parse_comma(_, _)
RECURSIVE Suffixed(_, _), resolve(_)

At(text, p) == IF p.i <= Len(text) THEN text[p.i] ELSE [t |-> "end"]
IsOp(text, p, ops) == p.ok /\ At(text, p).t = "op" /\ At(text, p).op \in ops
Past(p) == [p EXCEPT !.i = @ + 1]
Failed(p) == [p EXCEPT !.ok = FALSE, !.val = 0]
Found(p, v, t) == [p EXCEPT !.val = v, !.ty = t]

Whole(text, p) == [p EXCEPT !.ok = @ /\ p.i > Len(text)]
evaluate_integer(text) ==
  Whole(text, parse_comma(text, [i |-> 1, ok |-> TRUE, sup |-> FALSE, left |-> FALSE,
                                 ty |-> IntType, val |-> 0]))

Indexed(v, index) == IF index.ok THEN Element(v, index.val) ELSE Invalid
Selected(v, s) == IF s.k = "index" THEN Indexed(v, evaluate_integer(s.text))
                  ELSE Member(v, s.field, s.k = "arrow")
Suffixed(v, suffix) == IF ~v.ok \/ suffix = <<>> THEN v
                       ELSE Suffixed(Checked(Selected(v, Head(suffix))), Tail(suffix))

Started(v, suffix) ==
  CASE ~v.ok -> Invalid
    [] v.ok /\ v.out -> IF suffix = <<>> THEN v ELSE Invalid
    [] OTHER -> Suffixed(IF v.imm THEN v ELSE Checked(v), suffix)
resolve(path) ==
  IF path.stars > 0 THEN Dereferenced(resolve([path EXCEPT !.stars = @ - 1]))
  ELSE IF path.name \notin DOMAIN Variables THEN Invalid
  ELSE Started(value_from_variable(Variables[path.name]), path.suffix)

IsScalar(v) == v.ok /\ ~v.out /\ ~v.array /\ ~(v.type.base = "struct" /\ v.type.ptr = 0)
               /\ v.type.base # "float"
Read(p, v) ==
  IF IsScalar(v)
  THEN Found(Past(p), integer(v), Type(IF v.type.ptr > 0 THEN 2 ELSE v.size, v.type.ptr > 0 \/ v.type.uns))
  ELSE Failed(p)
Closed(text, p) == IF p.ok /\ At(text, p).t = ")" THEN Past(p) ELSE Failed(p)
parse_primary(text, p) ==
  LET k == At(text, p)
  IN  CASE k.t = "(" -> Closed(text, parse_comma(text, Past(p)))
        [] k.t = "num" -> Found(Past(p), normalize(k.n, LiteralType(k)), LiteralType(k))
        [] k.t = "chr" -> Found(Past(p), k.n, IntType)
        [] k.t = "path" -> Read(p, resolve(k.path))
        [] OTHER -> Failed(p)

Measured(p, size) == IF size = 0 THEN Failed(p) ELSE Found(Past(p), size, Type(2, TRUE))
SizeOf(k, v) == IF v.ok THEN v.size ELSE IF k.path.stars > 0 THEN 2 ELSE k.size
Promoted(p, v) == Found(p, normalize(v, promote(p.ty)), promote(p.ty))
Cast(k, p) == Found(p, IF k.bool THEN One(p.val # 0) ELSE normalize(p.val, k.ty), k.ty)
Unary(op, p) == CASE op = "+" -> Promoted(p, p.val)
                  [] op = "-" -> Promoted(p, -p.val)
                  [] op = "~" -> Promoted(p, -p.val - 1)
                  [] op = "!" -> Found(p, One(p.val = 0), IntType)
parse_unary(text, p) ==
  LET k == At(text, p)
  IN  CASE k.t = "sizeof" -> Measured(p, SizeOf(k, resolve(k.path)))
        [] k.t = "cast" -> Cast(k, parse_unary(text, Past(p)))
        [] IsOp(text, p, {"+", "-", "~", "!"}) -> Unary(k.op, parse_unary(text, Past(p)))
        [] OTHER -> parse_primary(text, p)

\* A failing division or shift leaves its level at once: what follows on the
\* level stays unread, and the type stays that of the right operand.
Operated(r, a) == Found(r, a[1], a[2])
Combined(op, p, r, t) ==
  IF ~r.ok THEN r
  ELSE IF Fails(op, p.ty, r.val, t) THEN [r EXCEPT !.val = 0, !.ok = p.sup, !.left = TRUE]
  ELSE Operated(r, Apply(op, p.val, p.ty, r.val, t))
Operate(op, p, r) == Combined(op, p, r, common_type(p.ty, r.ty))
BinaryLoop(text, k, p) ==
  IF p.left \/ ~IsOp(text, p, Levels[k]) THEN [p EXCEPT !.left = FALSE]
  ELSE BinaryLoop(text, k, Operate(At(text, p).op, p, parse_binary(text, k - 1, Past(p))))
parse_binary(text, k, p) ==
  IF k = 0 THEN parse_unary(text, p) ELSE BinaryLoop(text, k, parse_binary(text, k - 1, p))

\* The operand that decides nothing is read with errors suppressed.
Quietly(p, quiet) == [p EXCEPT !.i = @ + 1, !.sup = @ \/ quiet]
Loudly(p, c) == [p EXCEPT !.sup = c.sup]
Logical(p, r, v) == Found(Loudly(r, p), One(v), IntType)
Both(p, r) == Logical(p, r, p.val # 0 /\ r.val # 0)
AndLoop(text, p) ==
  IF IsOp(text, p, {"&&"}) THEN AndLoop(text, Both(p, parse_binary(text, 8, Quietly(p, p.val = 0))))
  ELSE p
parse_logical_and(text, p) == AndLoop(text, parse_binary(text, 8, p))
Either(p, r) == Logical(p, r, p.val # 0 \/ r.val # 0)
OrLoop(text, p) ==
  IF IsOp(text, p, {"||"}) THEN OrLoop(text, Either(p, parse_logical_and(text, Quietly(p, p.val # 0))))
  ELSE p
parse_logical_or(text, p) == OrLoop(text, parse_logical_and(text, p))

Chosen(c, yes, no) ==
  LET t == common_type(yes.ty, no.ty)
  IN  Found(Loudly(no, c), normalize(IF c.val # 0 THEN yes.val ELSE no.val, t), t)
Otherwise(text, c, yes) ==
  IF IsOp(text, yes, {":"})
  THEN Chosen(c, yes, parse_conditional(text, Quietly(Loudly(yes, c), c.val # 0)))
  ELSE Failed(yes)
Branched(text, c) ==
  IF IsOp(text, c, {"?"}) THEN Otherwise(text, c, parse_comma(text, Quietly(c, c.val = 0))) ELSE c
parse_conditional(text, p) == Branched(text, parse_logical_or(text, p))

CommaLoop(text, p) ==
  IF IsOp(text, p, {","}) THEN CommaLoop(text, parse_conditional(text, Past(p))) ELSE p
parse_comma(text, p) == CommaLoop(text, parse_conditional(text, p))

\* What the variables view asks for beside a path: its address, or an integer.
AddressOf(v) ==
  IF ~v.ok THEN Invalid
  ELSE IF v.imm \/ v.out THEN Invalid
  ELSE [v EXCEPT !.imm = TRUE, !.ival = v.addr, !.size = 2, !.array = FALSE, !.dims = <<>>,
                 !.type.ptr = IF @ < 2 THEN @ + 1 ELSE 2]
Immediate(p) == IF p.ok THEN [ok |-> TRUE, imm |-> TRUE, ival |-> p.val, size |-> p.ty.size]
                ELSE Invalid
evaluate(e) == CASE e.k = "path" -> resolve(e.path)
                 [] e.k = "address" -> AddressOf(resolve(e.path))
                 [] e.k = "integer" -> Immediate(evaluate_integer(e.text))

-----------------------------------------------------------------------------
(* Assignment, and the children a variable is expanded into.                *)

writable(v) ==
  /\ ~v.out /\ ~v.array /\ v.type.base \notin {"struct", "float"} /\ v.size \in {1, 2, 4}
  /\ IF v.imm THEN v.loc \notin {"constant", "out"} ELSE range_valid(v.addr, v.size)

Stored(v, n) ==
  LET b == IF v.type.base = "bool" THEN One(n # 0) ELSE n
      old == integer([v EXCEPT !.width = 0, !.type.uns = TRUE])
      unit == 2 ^ v.shift
      field == (old \div unit) % 2 ^ v.width
  IN  CASE v.imm /\ v.size = 1 -> normalize(b, Type(1, v.type.uns))
        [] v.imm /\ v.size = 2 -> b % W(2)
        [] ~v.imm /\ v.width > 0 -> old + unit * ((n % 2 ^ v.width) - field)
        [] OTHER -> b

\* The register writer: z80_debug_set_location_register.
SetRegisters(regs, loc, n) ==
  CASE loc = "HL_DE" -> [regs EXCEPT !.HL = n % W(2), !.DE = n \div W(2)]
    [] loc = "BC_IY" -> [regs EXCEPT !.BC = n % W(2), !.IY = n \div W(2)]
    [] OTHER -> [regs EXCEPT ![loc] = n % W(2)]

write(v, n) ==
  IF v.imm THEN [ev EXCEPT !.regs = SetRegisters(@, v.loc, Stored(v, n))]
  ELSE [ev EXCEPT !.mem = [a \in DOMAIN @ |-> IF a \in v.addr..(v.addr + v.size - 1)
                                              THEN (Stored(v, n) \div W(a - v.addr)) % W(1)
                                              ELSE @[a]]]

IsArray(v) == v.array /\ v.dims # <<>>
Members(v) == SelectSeq(Fields, LAMBDA f : f.of = v.type.id)
child_count(v) ==
  IF v.out THEN 0
  ELSE IF IsArray(v) THEN Head(v.dims)
  ELSE IF v.fn THEN 0
  ELSE IF v.type.ptr > 0 THEN 1
  ELSE IF v.type.base = "struct" THEN Len(Members(v)) ELSE 0

Literal(n) == [t |-> "num", n |-> n, u |-> FALSE, l |-> FALSE, dec |-> n # 0]
child_expression(v, path, n) ==
  IF IsArray(v) THEN [path EXCEPT !.suffix = Append(@, [k |-> "index", text |-> <<Literal(n)>>])]
  ELSE IF ~v.fn /\ v.type.ptr > 0 THEN [path EXCEPT !.stars = @ + 1]
  ELSE [path EXCEPT !.suffix = Append(@, [k |-> "dot", field |-> Members(v)[n + 1].name])]

Reading(v) == IF v.ok /\ ~v.out THEN integer(v) ELSE -1
Readings == [q \in Paths |-> Reading(resolve(q))]

\* -var-assign: the right side is a value, the left a path that is writable.
Assign(path, v, n) ==
  /\ ev.kind = "store" /\ ev.writes < MaxWrites
  /\ v.ok /\ writable(v)
  /\ ev' = [write(v, n) EXCEPT !.writes = @ + 1, !.wrote = <<path, n>>, !.old = Readings]

Next == \E path \in Written, n \in Values : Assign(path, resolve(path), n)

-----------------------------------------------------------------------------
(* The reference: what C gives an expression tree, over the integers.       *)

\* The arithmetic types in the order of the usual conversions.
Ranked == <<Type(2, FALSE), Type(2, TRUE), Type(4, FALSE), Type(4, TRUE)>>
Rank(t) == IF t.size = 1 THEN 1 ELSE CHOOSE i \in 1..4 : Ranked[i] = t
Usual(a, b) == Ranked[IF Rank(a) > Rank(b) THEN Rank(a) ELSE Rank(b)]
Lowest(t) == IF t.uns THEN 0 ELSE -(W(t.size) \div 2)
Wrapped(n, t) == Lowest(t) + ((n - Lowest(t)) % W(t.size))
Holds(n, t) == Wrapped(n, t) = n

\* The first type of C's list for its form that holds a literal.
LiteralRanks(k) == CASE k.u /\ k.l -> <<4>> [] k.u /\ ~k.l -> <<2, 4>> [] ~k.u /\ k.l -> <<3, 4>>
                     [] OTHER -> IF k.dec THEN <<1, 3, 4>> ELSE <<1, 2, 3, 4>>
LiteralIn(k) ==
  LET ts == [i \in DOMAIN LiteralRanks(k) |-> Ranked[LiteralRanks(k)[i]]]
  IN  ts[CHOOSE i \in DOMAIN ts : Holds(k.n, ts[i]) /\ \A j \in 1..(i - 1) : ~Holds(k.n, ts[j])]

RECURSIVE TypeOf(_), Meaning(_), Render(_, _), Miscounted(_, _)
TypeOf(e) ==
  CASE e.k = "num" -> LiteralIn(e.num)
    [] e.k = "var" -> e.ty
    [] e.k = "cast" -> e.ty
    [] e.k = "un" -> IF e.op = "!" THEN IntType ELSE Usual(TypeOf(e.e), IntType)
    [] e.k = "bin" /\ e.op \in Levels[3] -> Usual(TypeOf(e.l), IntType)
    [] e.k = "bin" /\ e.op \in Levels[4] \cup Levels[5] \cup {"&&", "||"} -> IntType
    [] e.k = "bin" /\ e.op = "," -> TypeOf(e.r)
    [] e.k = "bin" /\ e.op \notin UNION {Levels[i] : i \in 3..5} \cup {"&&", "||", ","} ->
         Usual(TypeOf(e.l), TypeOf(e.r))
    [] e.k = "cond" -> Usual(TypeOf(e.l), TypeOf(e.r))

\* A value, or <<>> where C leaves the result undefined.
Computed(op, x, y, t) ==
  LET a == Wrapped(x, t)
      b == Wrapped(y, t)
  IN  CASE op = "*" -> a * b [] op = "+" -> a + b [] op = "-" -> a - b
        [] op = "/" -> Quotient(a, b) [] op = "%" -> a - b * Quotient(a, b)
        [] op = "<<" -> a * 2 ^ y [] op = ">>" -> a \div 2 ^ y
        [] op = "<=" -> One(a <= b) [] op = ">=" -> One(a >= b)
        [] op = "<" -> One(a < b) [] op = ">" -> One(a > b)
        [] op = "==" -> One(a = b) [] op = "!=" -> One(a # b)
        [] op = "&" -> (a % W(4)) & (b % W(4)) [] op = "^" -> (a % W(4)) ^^ (b % W(4))
        [] op = "|" -> (a % W(4)) | (b % W(4))
Undefined(op, x, y, t) == \/ op \in {"/", "%"} /\ Wrapped(y, t) = 0
                          \/ op \in Levels[3] /\ y \notin 0..(Bits(t.size) - 1)

Meaning(e) ==
  LET l == Meaning(e.l)
      r == Meaning(e.r)
      operand == Meaning(e.e)
      under == IF e.op \in Levels[3] THEN TypeOf(e) ELSE Usual(TypeOf(e.l), TypeOf(e.r))
  IN  CASE e.k = "num" -> <<e.num.n>>
        [] e.k = "var" -> <<e.n>>
        [] e.k = "cast" ->
             IF operand = <<>> THEN <<>>
             ELSE IF e.bool THEN <<One(operand[1] # 0)>> ELSE <<Wrapped(operand[1], e.ty)>>
        [] e.k = "un" ->
             IF operand = <<>> THEN <<>>
             ELSE LET n == operand[1]
                  IN <<Wrapped(CASE e.op = "+" -> n [] e.op = "-" -> -n [] e.op = "~" -> -n - 1
                                 [] e.op = "!" -> One(n = 0), TypeOf(e))>>
        [] e.k = "cond" -> IF operand = <<>> THEN <<>>
                           ELSE LET v == IF operand[1] # 0 THEN l ELSE r
                                IN IF v = <<>> THEN v ELSE <<Wrapped(v[1], TypeOf(e))>>
        [] e.k = "bin" /\ e.op = "," -> IF l = <<>> THEN l ELSE r
        [] e.k = "bin" /\ e.op \in {"&&", "||"} ->
             IF l = <<>> THEN l
             ELSE IF (l[1] = 0) = (e.op = "&&") THEN <<One(l[1] # 0)>>
             ELSE IF r = <<>> THEN r ELSE <<One(r[1] # 0)>>
        [] e.k = "bin" /\ e.op \notin {"&&", "||", ","} ->
             IF l = <<>> \/ r = <<>> THEN <<>>
             ELSE IF Undefined(e.op, l[1], r[1], under) THEN <<>>
             ELSE <<Wrapped(Computed(e.op, l[1], r[1], under), TypeOf(e))>>

\* The text of a tree, with the parentheses that precedence asks for.
Op(o) == [t |-> "op", op |-> o]
Precedence(e) ==
  CASE e.k \in {"num", "var"} -> 13
    [] e.k \in {"un", "cast"} -> 12
    [] e.k = "cond" -> 1
    [] e.k = "bin" -> IF e.op = "," THEN 0 ELSE IF e.op = "||" THEN 2 ELSE IF e.op = "&&" THEN 3
                      ELSE 12 - (CHOOSE i \in 1..8 : e.op \in Levels[i])
Render(e, min) ==
  LET p == Precedence(e)
      text == CASE e.k = "num" -> <<e.num>>
                [] e.k = "var" -> <<e.tok>>
                [] e.k = "cast" -> <<[t |-> "cast", ty |-> e.ty, bool |-> e.bool]>> \o Render(e.e, 12)
                [] e.k = "un" -> <<Op(e.op)>> \o Render(e.e, 12)
                [] e.k = "bin" -> Render(e.l, p) \o <<Op(e.op)>> \o Render(e.r, p + 1)
                [] e.k = "cond" -> Render(e.e, 2) \o <<Op("?")>> \o Render(e.l, 0) \o <<Op(":")>>
                                   \o Render(e.r, 1)
  IN  IF p < min THEN <<[t |-> "("]>> \o text \o <<[t |-> ")"]>> ELSE text

\* Where a failing division or shift that is not evaluated shows: as the left
\* operand of its own level it cuts the level short, and in a conditional the
\* type is that of its right operand.
Failing(e) == e.k = "bin" /\ e.op \in {"/", "%"} \cup Levels[3]
Miscounted(e, typed) ==
  CASE e.k \in {"num", "var"} -> FALSE
    [] e.k \in {"un", "cast"} -> Miscounted(e.e, typed)
    [] e.k = "cond" -> Miscounted(e.e, typed) \/ Miscounted(e.l, TRUE) \/ Miscounted(e.r, TRUE)
    [] e.k = "bin" -> \/ Miscounted(e.l, typed) \/ Miscounted(e.r, typed)
                      \/ Failing(e.l) /\ Precedence(e) = Precedence(e.l)
                      \/ typed /\ Failing(e) /\ TypeOf(e) # Usual(TypeOf(e.r), IntType)

IsMeant(p, m, t) == IF m = <<>> THEN ~p.ok ELSE p.ok /\ p.ty = t /\ p.val = m[1] % W(4)

(* An expression means what it means in C: precedence and grouping, the      *)
(* types of literals and of every operator's result, wrap-around, and the    *)
(* operand that is not evaluated (DebugExpressionParser).                    *)
EvaluatesAsC == ev.kind = "expression" => \/ Miscounted(ev.expr, FALSE)
                                         \/ IsMeant(evaluate_integer(Render(ev.expr, 0)),
                                                    Meaning(ev.expr), TypeOf(ev.expr))

\* The bits a value occupies.
Storage(v) ==
  IF v.out THEN {}
  ELSE IF v.imm THEN {<<v.loc, 0, 0>>}
  ELSE LET bits == IF v.width > 0 THEN v.shift..(v.shift + v.width - 1) ELSE 0..(Bits(v.size) - 1)
       IN  {<<"memory", v.addr + (b \div ByteBits), b % ByteBits>> : b \in bits}

\* What an assignment leaves in a variable or a bit-field.
Converted(v, n) ==
  LET x == IF v.width > 0 THEN n % 2 ^ v.width ELSE n % W(v.size)
      top == IF v.width > 0 THEN 2 ^ v.width ELSE W(v.size)
  IN  IF v.type.base = "bool" THEN One(n # 0)
      ELSE IF v.type.uns \/ x < top \div 2 THEN x ELSE (x - top) % W(4)

Kept(u, v, old) == (u.ok /\ Storage(u) \cap Storage(v) = {}) => Reading(u) = old
Wrote(v, n) == integer(v) = Converted(v, n) /\ \A q \in Paths : Kept(resolve(q), v, ev.old[q])

(* A variable assigned in the debugger reads back as the value converted to  *)
(* its type, and nothing beside it changes: not the other bits of its unit,  *)
(* not its neighbours, not the registers that hold other variables (write,   *)
(* integer).                                                                 *)
WritesAreLocal == ev.wrote # <<>> => Wrote(resolve(ev.wrote[1]), ev.wrote[2])

PointsBack(v, a) ==
  (v.ok /\ ~v.imm /\ ~v.out /\ ~v.array /\ v.width = 0 /\ v.type.ptr < 2) =>
    a.ok /\ Storage(a) = Storage(v) /\ a.type = v.type

(* The address of what is in memory points back at it (evaluate).            *)
AddressesPointBack ==
  ev.kind = "store" =>
    \A q \in Paths : PointsBack(resolve(q), Dereferenced(evaluate([k |-> "address", path |-> q])))

IsPlainStruct(v) == v.type.base = "struct" /\ v.type.ptr = 0 /\ ~Structs[v.type.id].union
Tiled(v, bits) ==   \* bits[n]: the storage of child n - 1, none if it does not resolve
  \A n \in DOMAIN bits :
    /\ bits[n] # {}
    /\ v.type.ptr = 0 => bits[n] \subseteq Storage(v)
    /\ v.array \/ IsPlainStruct(v) => \A k \in 1..(n - 1) : bits[n] \cap bits[k] = {}
Occupied(v) == IF v.ok THEN Storage(v) ELSE {}
Children(v, q) == [n \in 1..child_count(v) |-> Occupied(resolve(child_expression(v, q, n - 1)))]
Expands(v, q) == v.ok /\ ~v.imm => Tiled(v, Children(v, q))

(* Expanding an array or a struct shows all of its elements or members, each *)
(* inside it and, in a struct, none over another (child_expression, resolve).*)
ChildrenAreInside ==
  ev.kind = "store" => \A q \in {p \in Paths : p.stars = 0} : Expands(resolve(q), q)
=============================================================================
