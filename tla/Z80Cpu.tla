------------------------------- MODULE Z80Cpu -------------------------------
(***************************************************************************)
(* The debugger's Z80: the instruction core of x80.cxx and the front       *)
(* panel and interrupt entry points of cpu_x80_adapter.cpp.                *)
(*                                                                         *)
(* Registers, flags and memory keep their widths: a byte is 0..255, a      *)
(* register pair is computed modulo 65536 and the 64 KiB array is seen     *)
(* through an address taken modulo MemSize.  Cycle counts, tracing and the *)
(* lamps of the front panel are left out.                                  *)
(***************************************************************************)
EXTENDS Bitwise, Integers, Sequences, FiniteSets

CONSTANTS MemSize,   \* cells of memory the model keeps (a power of two)
          InputByte, \* what a port read returns
          PanelAddrs, PanelBytes   \* what the front panel's switches are set to

VARIABLE cpu

byte(x) == x % 256
word(x) == x % 65536
Bit(x, i) == (x \div (2 ^ i)) % 2 = 1
One(b) == IF b THEN 1 ELSE 0
Signed(x) == IF x >= 128 THEN x - 256 ELSE x
is_parity_even8(x) == Cardinality({i \in 0..7 : Bit(x, i)}) % 2 = 0

-----------------------------------------------------------------------------
(* Registers: r is indexed as the opcodes index it (b c d e h l - a).      *)

A(c) == c.r[7]
Pair(c, p) == IF p = 3 THEN c.sp ELSE c.r[2 * p] * 256 + c.r[2 * p + 1]
SetPair(c, p, x) ==
    IF p = 3 THEN [c EXCEPT !.sp = word(x)]
    ELSE [c EXCEPT !.r[2 * p] = word(x) \div 256, !.r[2 * p + 1] = byte(x)]
HL(c) == Pair(c, 2)
SetA(c, x) == [c EXCEPT !.r[7] = x]

mbyte(c, a) == c.mem[a % MemSize]
mword(c, a) == mbyte(c, a) + 256 * mbyte(c, a + 1)
setmbyte(c, a, x) == [c EXCEPT !.mem[a % MemSize] = x]
setmword(c, a, x) ==
    [c EXCEPT !.mem[a % MemSize] = byte(x), !.mem[(a + 1) % MemSize] = x \div 256]

pcbyte(c) == mbyte(c, c.pc)
pcword(c) == mword(c, c.pc)
Skip(c, n) == [c EXCEPT !.pc = word(@ + n)]
pushword(c, x) == LET sp == word(c.sp - 2) IN setmword([c EXCEPT !.sp = sp], sp, x)
popword(c) == [c EXCEPT !.sp = word(@ + 2)]
Memptr(c, x) == [c EXCEPT !.memptr = word(x)]
Jump(c, a) == [c EXCEPT !.pc = word(a), !.memptr = word(a)]
Bump(c) == [c EXCEPT !.rr = (@ \div 128) * 128 + ((@ + 1) % 128)]

src_value_rm(c, rm) == IF rm = 6 THEN mbyte(c, HL(c)) ELSE c.r[rm]
set_rm(c, rm, x) == IF rm = 6 THEN setmbyte(c, HL(c), x) ELSE [c EXCEPT !.r[rm] = x]

Index(c, op) == IF op = 221 THEN c.ix ELSE c.iy
SetIndex(c, op, x) ==
    IF op = 221 THEN [c EXCEPT !.ix = word(x)] ELSE [c EXCEPT !.iy = word(x)]
IndexByte(c, op, hl) == IF hl = 0 THEN Index(c, op) \div 256 ELSE byte(Index(c, op))
SetIndexByte(c, op, hl, x) ==
    SetIndex(c, op, IF hl = 0 THEN x * 256 + byte(Index(c, op))
                    ELSE (Index(c, op) \div 256) * 256 + x)

-----------------------------------------------------------------------------
(* Flags: S Z Y H X V N C, unpacked as the core keeps them.                *)

materializeFlags(f) == 128 * One(f.S) + 64 * One(f.Z) + 32 * One(f.Y) + 16 * One(f.H)
                        + 8 * One(f.X) + 4 * One(f.V) + 2 * One(f.N) + One(f.C)
unmaterializeFlags(x) ==
    [S |-> Bit(x, 7), Z |-> Bit(x, 6), Y |-> Bit(x, 5), H |-> Bit(x, 4),
     X |-> Bit(x, 3), V |-> Bit(x, 2), N |-> Bit(x, 1), C |-> Bit(x, 0)]
set_sign_zero(f, x) == [f EXCEPT !.S = x >= 128, !.Z = x = 0]
z80_assignYX(f, x) == [f EXCEPT !.Y = Bit(x, 5), !.X = Bit(x, 3)]
clearHN(f) == [f EXCEPT !.H = FALSE, !.N = FALSE]

\* Sign, zero and the undocumented bits from a result, the rest given.
Result8(x, h, v, n, c) ==
    z80_assignYX(set_sign_zero([unmaterializeFlags(0) EXCEPT !.H = h, !.V = v, !.N = n, !.C = c],
                               x), x)

-----------------------------------------------------------------------------
(* Eight-bit arithmetic.                                                   *)

op_inc(c, x) ==   \* <<result, flags>>
    LET y == byte(x + 1) IN <<y, Result8(y, y % 16 = 0, y = 128, FALSE, c.f.C)>>

op_dec(c, x) ==
    LET y == byte(x - 1) IN <<y, Result8(y, y % 16 = 15, x = 128, TRUE, c.f.C)>>

op_add(c, x, carry) ==
    LET sum == A(c) + x + One(carry)
        res == byte(sum)
    IN [c EXCEPT !.r[7] = res,
                 !.f = Result8(res, (A(c) % 16) + (x % 16) + One(carry) >= 16,
                               Bit(A(c), 7) = Bit(x, 7) /\ Bit(A(c), 7) # Bit(res, 7),
                               FALSE, sum >= 256)]

op_sub(c, x, borrow) ==
    LET com == 255 - x
        k == One(~borrow)
        sum == A(c) + com + k
        res == byte(sum)
    IN <<res, Result8(res, (A(c) % 16) + (com % 16) + k < 16,
                      Bit(A(c), 7) = Bit(com, 7) /\ Bit(A(c), 7) # Bit(res, 7),
                      TRUE, sum < 256)>>

op_sbb(c, x, borrow) ==
    LET d == op_sub(c, x, borrow) IN [SetA(c, d[1]) EXCEPT !.f = d[2]]

op_cmp(c, x) == [c EXCEPT !.f = z80_assignYX(op_sub(c, x, FALSE)[2], x)]

Logic(c, x, h) ==
    [SetA(c, x) EXCEPT !.f = Result8(x, h, is_parity_even8(x), FALSE, FALSE)]
op_ana(c, x) == Logic(c, A(c) & x, TRUE)
op_xra(c, x) == Logic(c, A(c) ^^ x, FALSE)
op_ora(c, x) == Logic(c, A(c) | x, FALSE)

\* The eight operations of opcode bits 5..3.
op_math(c, y, x) ==
    CASE y = 0 -> op_add(c, x, FALSE)
      [] y = 1 -> op_add(c, x, c.f.C)
      [] y = 2 -> op_sbb(c, x, FALSE)
      [] y = 3 -> op_sbb(c, x, c.f.C)
      [] y = 4 -> op_ana(c, x)
      [] y = 5 -> op_xra(c, x)
      [] y = 6 -> op_ora(c, x)
      [] y = 7 -> op_cmp(c, x)

op_dad(c, x) ==
    LET sum == HL(c) + x
    IN Memptr(SetPair([c EXCEPT !.f = z80_assignYX(
                          [@ EXCEPT !.C = sum >= 65536, !.N = FALSE,
                                    !.H = (HL(c) % 4096) + (x % 4096) >= 4096],
                          byte(sum \div 256))], 2, sum), HL(c) + 1)

op_cma(c) ==
    LET x == 255 - A(c)
    IN [SetA(c, x) EXCEPT !.f = z80_assignYX([@ EXCEPT !.H = TRUE, !.N = TRUE], x)]

op_cmc(c) ==
    [c EXCEPT !.f = z80_assignYX([@ EXCEPT !.C = ~@, !.N = FALSE, !.H = c.f.C], A(c))]

op_stc(c) == [c EXCEPT !.f = z80_assignYX([clearHN(@) EXCEPT !.C = TRUE], A(c))]

op_daa(c) ==
    LET hn == A(c) \div 16
        ln == A(c) % 16
        diff == IF c.f.C THEN (IF ~c.f.H /\ ln <= 9 THEN 96 ELSE 102)
                ELSE IF hn <= 9 /\ ~c.f.H /\ ln <= 9 THEN 0
                ELSE IF (hn <= 9 /\ c.f.H /\ ln <= 9) \/ (hn <= 8 /\ ln > 9) THEN 6
                ELSE IF hn > 9 /\ ~c.f.H /\ ln <= 9 THEN 96
                ELSE 102
        carry == c.f.C \/ (hn >= 9 /\ ln > 9) \/ (hn > 9 /\ ln <= 9)
        aux == IF c.f.N THEN c.f.H /\ ln < 6 ELSE ln > 9
        res == byte(IF c.f.N THEN A(c) - diff ELSE A(c) + diff)
    IN [SetA(c, res) EXCEPT !.f = Result8(res, aux, is_parity_even8(res), c.f.N, carry)]

-----------------------------------------------------------------------------
(* Rotates, shifts and bits.  <<result, flags>> of the operation y of the  *)
(* CB page: rlc rrc rl rr sla sra sll srl.                                 *)

ShiftedOut(y, x) == IF y % 2 = 0 THEN Bit(x, 7) ELSE Bit(x, 0)
ShiftedIn(c, y, x) ==
    CASE y \in {0, 1} -> ShiftedOut(y, x)
      [] y \in {2, 3} -> c.f.C
      [] y \in {4, 7} -> FALSE
      [] y = 5 -> Bit(x, 7)
      [] y = 6 -> TRUE
Shift(c, y, x) ==
    LET in == One(ShiftedIn(c, y, x))
        res == IF y % 2 = 0 THEN byte(2 * x) + in ELSE (x \div 2) + 128 * in
    IN <<res, Result8(res, FALSE, is_parity_even8(res), FALSE, ShiftedOut(y, x))>>

\* rlca rrca rla rra: the same rotation, but sign, zero and parity stand.
RotateA(c, y) ==
    LET s == Shift(c, y, A(c))
    IN [SetA(c, s[1]) EXCEPT
            !.f = z80_assignYX([clearHN(@) EXCEPT !.C = s[2].C], s[1])]

z80_op_bit(c, x, b, yx) ==
    [c EXCEPT !.f = z80_assignYX(
        [@ EXCEPT !.H = TRUE, !.N = FALSE, !.S = b = 7 /\ Bit(x, 7),
                  !.Z = ~Bit(x, b), !.V = ~Bit(x, b)], yx)]

ResBit(x, b) == IF Bit(x, b) THEN x - 2 ^ b ELSE x
SetBit(x, b) == IF Bit(x, b) THEN x ELSE x + 2 ^ b

-----------------------------------------------------------------------------
(* Sixteen-bit arithmetic.                                                 *)

Result16(f, x) ==
    z80_assignYX([f EXCEPT !.S = x >= 32768, !.Z = x = 0], x \div 256)

z80_op_sub_16(c, lhs, rhs, borrow) ==
    LET sum == lhs + (65535 - rhs) + One(~borrow)
        res == word(sum)
    IN SetPair([c EXCEPT !.f = Result16(
           [@ EXCEPT !.C = sum < 65536, !.N = TRUE,
                     !.V = Bit(lhs, 15) # Bit(rhs, 15) /\ Bit(lhs, 15) # Bit(res, 15),
                     !.H = word(rhs + One(borrow)) % 4096 > lhs % 4096], res)], 2, res)

z80_op_adc_16(c, lhs, rhs) ==
    LET sum == lhs + rhs + One(c.f.C)
        res == word(sum)
        carryOut == IF c.f.C THEN lhs >= 65535 - rhs ELSE lhs > 65535 - rhs
    IN SetPair([c EXCEPT !.f = Result16(
           [@ EXCEPT !.C = carryOut, !.N = FALSE,
                     !.V = (Bit(res, 15) # (Bit(lhs, 15) # Bit(rhs, 15))) # carryOut,
                     !.H = (lhs % 4096) + (rhs % 4096) + One(c.f.C) >= 4096], res)], 2, res)

z80_op_add_16(c, op, lhs, rhs) ==
    SetIndex([c EXCEPT !.f = z80_assignYX(
                 [@ EXCEPT !.H = (lhs % 4096) + (rhs % 4096) >= 4096, !.N = FALSE,
                           !.C = lhs + rhs >= 65536], byte((lhs + rhs) \div 256))],
             op, lhs + rhs)

-----------------------------------------------------------------------------
(* The instruction bodies the main dispatch and the prefixed fall-through  *)
(* both spell out.                                                         *)

StoreA(c, a) == Memptr(setmbyte(c, a, A(c)), A(c) * 256 + byte(a + 1))
LoadA(c, a) == Memptr(SetA(c, mbyte(c, a)), a + 1)
UpdateRm(c, rm, d) == [set_rm(c, rm, d[1]) EXCEPT !.f = d[2]]

check_conditional(c, y) ==
    LET flag == CASE y \div 2 = 0 -> c.f.Z [] y \div 2 = 1 -> c.f.C
                  [] y \div 2 = 2 -> c.f.V [] y \div 2 = 3 -> c.f.S
    IN IF y % 2 = 0 THEN ~flag ELSE flag

Ret(c) == Jump(popword(c), mword(c, c.sp))
RetIf(c, y) == IF check_conditional(c, y) THEN Ret(c) ELSE c
JumpIf(c, y) ==
    LET n == Memptr(Skip(c, 2), pcword(c))
    IN IF check_conditional(c, y) THEN Jump(n, pcword(c)) ELSE n
Call(c) == LET n == Skip(c, 2) IN Jump(pushword(n, n.pc), pcword(c))
CallIf(c, y) ==
    IF check_conditional(c, y) THEN Call(c) ELSE Memptr(Skip(c, 2), pcword(c))
Rst(c, y) == Jump(pushword(c, c.pc), 8 * y)

\* Who serves a port: the loader's A5 on port 21 hands the SBC's ports over
\* to the I/O adapter until the next reset.  Port 0 is the SBC's console.
InRoute(c, port) ==
    CASE port = 255 -> "sense"
      [] port = 0 -> IF c.sbc THEN "terminal" ELSE "none"
      [] port \in {1, 16, 17} /\ ~c.sbc -> "terminal"
      [] port \in {8, 9, 10} /\ ~c.sbc -> "disk"
      [] OTHER -> "adapter"
OutRoute(c, port) ==
    CASE port = 0 -> IF c.sbc THEN "terminal" ELSE "none"
      [] port = 1 -> IF c.sbc THEN "none" ELSE "terminal"
      [] port = 17 /\ ~c.sbc -> "terminal"
      [] port \in {8, 9, 10} /\ ~c.sbc -> "disk"
      [] OTHER -> "adapter"

\* io is the last access: who served it, the port and the byte sent.
invoke_out(c, port) ==
    [c EXCEPT !.io = <<OutRoute(c, port), port, A(c)>>,
              !.sbc = @ \/ (port = 21 /\ A(c) = 165)]
invoke_in(c, port) ==
    [SetA(c, IF InRoute(c, port) = "none" THEN 0 ELSE InputByte)
        EXCEPT !.io = <<InRoute(c, port), port>>]
Out(c) ==
    LET port == pcbyte(c)
    IN Memptr(invoke_out(Skip(c, 1), port), A(c) * 256 + byte(port + 1))
In(c) ==
    LET port == pcbyte(c)
    IN invoke_in(Memptr(Skip(c, 1), A(c) * 256 + port + 1), port)

ExDeHl(c) == SetPair(SetPair(c, 2, Pair(c, 1)), 1, HL(c))
PSW(c) == A(c) * 256 + materializeFlags(c.f)
SetPSW(c, x) == [SetA(c, x \div 256) EXCEPT !.f = unmaterializeFlags(byte(x))]
Iff(c, b) == [c EXCEPT !.iff1 = b, !.iff2 = b]
z80_ni(c) == [c EXCEPT !.exited = TRUE]

\* The jump relative to the address of the instruction's second byte.
Relative(c, taken) ==
    IF taken THEN Jump(c, c.pc + 1 + Signed(pcbyte(c))) ELSE Skip(c, 1)

-----------------------------------------------------------------------------
(* Pages of the opcode table.  Every operator takes the state whose pc is  *)
(* already past the bytes that selected it.                                *)

Y(op) == (op \div 8) % 8
Z(op) == op % 8
P(op) == (op \div 16) % 4

\* z80_emulate's instructions that use neither H nor L.
Exchanges(c, op) ==
    CASE op = 8 -> [c EXCEPT !.r[7] = c.alt[7], !.alt[7] = A(c), !.f = c.falt, !.falt = c.f]
      [] op = 16 -> LET b == byte(c.r[0] - 1)
                    IN Relative([c EXCEPT !.r[0] = b], b # 0)
      [] op = 24 -> Relative(c, TRUE)
      [] op = 32 -> Relative(c, ~c.f.Z)
      [] op = 40 -> Relative(c, c.f.Z)
      [] op = 48 -> Relative(c, ~c.f.C)
      [] op = 56 -> Relative(c, c.f.C)
      [] op = 217 -> [c EXCEPT !.r = [c.alt EXCEPT ![7] = A(c)],
                               !.alt = [c.r EXCEPT ![7] = c.alt[7]]]

BitPage(b) ==   \* CB
    LET op == pcbyte(b)
        c == Skip(b, 1)
        rm == Z(op)
        x == src_value_rm(c, rm)
        m == IF rm = 6 THEN Memptr(c, HL(c) + 1) ELSE c
    IN CASE op < 64 -> UpdateRm(c, rm, Shift(c, Y(op), x))
         [] op \in 64..127 -> z80_op_bit(m, x, Y(op), IF rm = 6 THEN m.memptr \div 256 ELSE x)
         [] op \in 128..191 -> set_rm(c, rm, ResBit(x, Y(op)))
         [] op >= 192 -> set_rm(c, rm, SetBit(x, Y(op)))

\* The block instructions: step is +1 or -1, again is TRUE for the repeating
\* forms, which move pc back over themselves until they are done.
Rewind(c) == Memptr(Skip(c, -2), c.pc - 1)
BlockFlags(f, n, h, sub, bc) ==
    [f EXCEPT !.Y = Bit(n, 1), !.X = Bit(n, 3), !.H = h, !.N = sub, !.V = bc # 0]

BlockLoad(c, step, again) ==
    LET value == mbyte(c, HL(c))
        bc == word(Pair(c, 0) - 1)
        m == setmbyte(c, Pair(c, 1), value)
        n == [SetPair(SetPair(SetPair(m, 2, HL(c) + step), 1, Pair(c, 1) + step), 0, bc)
                EXCEPT !.f = BlockFlags(@, value + A(c), FALSE, FALSE, bc)]
    IN IF again /\ bc # 0 THEN Rewind(n) ELSE n

BlockCompare(c, step, again) ==
    LET x == mbyte(c, HL(c))
        bc == word(Pair(c, 0) - 1)
        cmp == op_sub(c, x, FALSE)[2]
        n == [SetPair(SetPair(c, 2, HL(c) + step), 0, bc)
                EXCEPT !.f = BlockFlags([cmp EXCEPT !.C = c.f.C],
                                        byte(A(c) - x - One(cmp.H)), cmp.H, TRUE, bc)]
    IN IF again /\ ~cmp.Z /\ bc # 0 THEN Rewind(n) ELSE Memptr(n, c.memptr + step)

BlockIo(c, input, step, again) ==
    LET port == c.r[1]
        m == IF input THEN LET i == invoke_in(Memptr(c, Pair(c, 0) + step), port)
                           IN setmbyte(i, HL(c), A(i))
             ELSE invoke_out(SetA(c, mbyte(c, HL(c))), port)
        b == byte(c.r[0] - 1)
        n == [SetPair(SetA(m, A(c)), 2, HL(c) + step)
                EXCEPT !.r[0] = b, !.f = [@ EXCEPT !.Z = b = 0, !.N = TRUE]]
        k == IF input THEN n ELSE Memptr(n, Pair(n, 0) + step)
    IN IF again /\ b # 0 THEN Skip(k, -2) ELSE k

\* LD A,I and LD A,R; RRD and RLD.
LoadSpecial(c, x, v) ==
    [SetA(c, x) EXCEPT !.f = z80_assignYX(set_sign_zero([clearHN(@) EXCEPT !.V = v], x), x)]
RotateDigit(c, a, m) ==
    Memptr([setmbyte(SetA(c, a), HL(c), m) EXCEPT
                !.f = Result8(a, FALSE, is_parity_even8(a), FALSE, c.f.C)], HL(c) + 1)

Extended(b) ==   \* ED
    LET op == pcbyte(b)
        c == Bump(Skip(b, 1))
        step == IF Bit(op, 3) THEN -1 ELSE 1
        x == mbyte(c, HL(c))
        low == A(c) % 16
        high == (A(c) \div 16) * 16
        nn == pcword(c)
    IN CASE op \in {70, 78, 102, 110} -> [c EXCEPT !.im = 0]
         [] op \in {86, 118} -> [c EXCEPT !.im = 1]
         [] op \in {94, 126} -> [c EXCEPT !.im = 2]
         [] op \in 64..127 /\ Z(op) = 5 -> [Ret(c) EXCEPT !.iff1 = c.iff2]
         [] op \in 64..127 /\ op % 16 = 3 ->
                Memptr(setmword(Skip(c, 2), nn, Pair(c, P(op))), nn + 1)
         [] op \in 64..127 /\ op % 16 = 11 ->
                SetPair(Memptr(Skip(c, 2), nn + 1), P(op), mword(c, nn))
         [] op \in 64..127 /\ Z(op) = 4 ->
                [SetA(c, byte(-A(c))) EXCEPT
                    !.f = Result8(byte(-A(c)), low # 0, A(c) = 128, TRUE, A(c) # 0)]
         [] op = 71 -> [c EXCEPT !.i = A(c)]
         [] op = 79 -> [c EXCEPT !.rr = A(c)]
         [] op = 87 -> LoadSpecial(c, c.i, c.iff2)
         [] op = 95 -> LoadSpecial(c, c.rr % 128, FALSE)
         [] op = 103 -> RotateDigit(c, high + (x % 16), low * 16 + (x \div 16))
         [] op = 111 -> RotateDigit(c, high + (x \div 16), (x % 16) * 16 + low)
         [] op \in 64..127 /\ op % 16 = 10 ->
                Memptr(z80_op_adc_16(c, HL(c), Pair(c, P(op))), HL(c) + 1)
         [] op \in 64..127 /\ op % 16 = 2 ->
                Memptr(z80_op_sub_16(c, HL(c), Pair(c, P(op)), c.f.C), HL(c) + 1)
         [] op \in {160, 168, 176, 184} -> BlockLoad(c, step, op >= 176)
         [] op \in {161, 169, 177, 185} -> BlockCompare(c, step, op >= 176)
         [] op \in {162, 163, 170, 171, 178, 179, 186, 187} ->
                BlockIo(c, ~Bit(op, 0), step, op >= 176)
         [] OTHER -> z80_ni(c)

\* A prefixed opcode the DD/FD chain below does not claim.
Plain == {0, 1, 2, 3, 7}   \* the operands other than h, l and (hl)
z80_execute_unprefixed(c, op) ==
    CASE op = 0 -> c
      [] op \in {1, 17, 49} -> SetPair(Skip(c, 2), P(op), pcword(c))
      [] op \in {2, 18} -> StoreA(c, Pair(c, P(op)))
      [] op \in {3, 19, 51} -> SetPair(c, P(op), Pair(c, P(op)) + 1)
      [] op \in {11, 27, 59} -> SetPair(c, P(op), Pair(c, P(op)) - 1)
      [] op < 64 /\ Z(op) = 4 /\ Y(op) \in Plain -> UpdateRm(c, Y(op), op_inc(c, c.r[Y(op)]))
      [] op < 64 /\ Z(op) = 5 /\ Y(op) \in Plain -> UpdateRm(c, Y(op), op_dec(c, c.r[Y(op)]))
      [] op < 64 /\ Z(op) = 6 /\ Y(op) \in Plain -> set_rm(Skip(c, 1), Y(op), pcbyte(c))
      [] op \in {7, 15, 23, 31} -> RotateA(c, Y(op))
      [] op \in {10, 26} -> LoadA(c, Pair(c, P(op)))
      [] op = 39 -> op_daa(c)
      [] op = 47 -> op_cma(c)
      [] op = 50 -> StoreA(Skip(c, 2), pcword(c))
      [] op = 55 -> op_stc(c)
      [] op = 58 -> LoadA(Skip(c, 2), pcword(c))
      [] op = 63 -> op_cmc(c)
      [] op \in 128..191 /\ Z(op) \in Plain -> op_math(c, Y(op), c.r[Z(op)])
      [] op >= 192 /\ Z(op) = 0 -> RetIf(c, Y(op))
      [] op \in {193, 209} -> SetPair(popword(c), P(op), mword(c, c.sp))
      [] op >= 192 /\ Z(op) = 2 -> JumpIf(c, Y(op))
      [] op = 195 -> Jump(c, pcword(c))
      [] op >= 192 /\ Z(op) = 4 -> CallIf(c, Y(op))
      [] op \in {197, 213} -> pushword(c, Pair(c, P(op)))
      [] op >= 192 /\ Z(op) = 6 -> op_math(Skip(c, 1), Y(op), pcbyte(c))
      [] op >= 192 /\ Z(op) = 7 -> Rst(c, Y(op))
      [] op = 201 -> Ret(c)
      [] op = 205 -> Call(c)
      [] op = 211 -> Out(c)
      [] op = 219 -> In(c)
      [] op = 235 -> ExDeHl(c)
      [] op = 241 -> SetPSW(popword(c), mword(c, c.sp))
      [] op = 243 -> Iff(c, FALSE)
      [] op = 245 -> pushword(c, PSW(c))
      [] op = 251 -> Iff(c, TRUE)
      [] op \in {8, 16, 24, 32, 40, 48, 56, 217} -> Exchanges(c, op)
      [] op = 237 -> Extended(c)
      [] OTHER -> z80_ni(c)

\* DD CB and FD CB: shifts and bits on (index + d).
IndexedBits(b, op) ==
    LET op4 == mbyte(b, b.pc + 1)
        at == word(Index(b, op) + Signed(pcbyte(b)))
        c == Memptr(Skip(Bump(b), 2), at)
        x == mbyte(b, at)
        s == Shift(b, Y(op4), x)
        shifted == [setmbyte(c, at, s[1]) EXCEPT !.f = s[2]]
    IN CASE op4 < 64 -> IF Z(op4) = 6 THEN shifted ELSE [shifted EXCEPT !.r[Z(op4)] = s[1]]
         [] op4 \in 64..127 /\ Z(op4) = 6 -> z80_op_bit(c, x, Y(op4), at \div 256)
         [] op4 \in 128..191 /\ Z(op4) = 6 -> setmbyte(c, at, ResBit(x, Y(op4)))
         [] op4 >= 192 /\ Z(op4) = 6 -> setmbyte(c, at, SetBit(x, Y(op4)))
         [] OTHER -> Bump(b)   \* no branch: not even the operand bytes are consumed

\* ix or iy takes the place of hl, its halves of h and l, (index + d) of (hl).
\* Mutant: the halves of hl are not redirected.
PlainOperand(c, op, rm) == c.r[rm]
IndexedOperand(c, op, rm) ==
    IF rm \in {4, 5} THEN IndexByte(c, op, rm - 4) ELSE c.r[rm]
SetIndexedOperand(c, op, rm, x) ==
    IF rm \in {4, 5} THEN SetIndexByte(c, op, rm - 4, x) ELSE [c EXCEPT !.r[rm] = x]

IndexedAddress(c, op) == word(Index(c, op) + Signed(pcbyte(c)))
AtIndexed(c, op) == Memptr(Skip(c, 1), IndexedAddress(c, op))

IndexedLoads(c, op, op2) ==
    LET at == IndexedAddress(c, op)
        d == AtIndexed(c, op)
        nn == pcword(c)
        update(x) == [setmbyte(d, at, x[1]) EXCEPT !.f = x[2]]
    IN CASE op2 = 33 -> SetIndex(Skip(c, 2), op, nn)
         [] op2 = 34 -> Memptr(setmword(Skip(c, 2), nn, Index(c, op)), nn + 1)
         [] op2 = 35 -> SetIndex(c, op, Index(c, op) + 1)
         [] op2 \in {38, 46} -> SetIndexByte(Skip(c, 1), op, Y(op2) - 4, pcbyte(c))
         [] op2 = 42 -> Memptr(SetIndex(Skip(c, 2), op, mword(c, nn)), nn + 1)
         [] op2 = 43 -> SetIndex(c, op, Index(c, op) - 1)
         [] op2 = 52 -> update(op_inc(c, mbyte(c, at)))
         [] op2 = 53 -> update(op_dec(c, mbyte(c, at)))
         [] op2 = 54 -> setmbyte(Skip(d, 1), at, pcbyte(d))

IndexedMath(c, op, op2) ==
    LET half == Y(op2) - 4
        update(x) == [SetIndexByte(c, op, half, x[1]) EXCEPT !.f = x[2]]
    IN CASE op2 \in 112..119 -> setmbyte(AtIndexed(c, op), IndexedAddress(c, op), c.r[Z(op2)])
         [] op2 \in 64..127 -> set_rm(AtIndexed(c, op), Y(op2), mbyte(c, IndexedAddress(c, op)))
         [] op2 >= 128 /\ Z(op2) \in {4, 5} ->
                op_math(c, Y(op2), IndexByte(c, op, Z(op2) - 4))
         [] op2 >= 128 /\ Z(op2) = 6 ->
                op_math(AtIndexed(c, op), Y(op2), mbyte(c, IndexedAddress(c, op)))
         [] op2 \in {36, 44} -> update(op_inc(c, IndexByte(c, op, half)))
         [] op2 \in {37, 45} -> update(op_dec(c, IndexByte(c, op, half)))
         [] op2 \in {9, 25, 41, 57} ->
                Memptr(z80_op_add_16(c, op, Index(c, op),
                                     IF op2 = 41 THEN Index(c, op) ELSE Pair(c, P(op2))),
                       Index(c, op) + 1)

IndexedStack(c, op, op2) ==
    CASE op2 = 225 -> SetIndex(popword(c), op, mword(c, c.sp))
      [] op2 = 227 -> Memptr(setmword(SetIndex(c, op, mword(c, c.sp)), c.sp, Index(c, op)),
                             mword(c, c.sp))
      [] op2 = 229 -> pushword(c, Index(c, op))
      [] op2 = 233 -> [c EXCEPT !.pc = Index(c, op)]
      [] op2 = 249 -> [c EXCEPT !.sp = Index(c, op)]

Indexed(b, op) ==   \* DD and FD
    LET op2 == pcbyte(b)
        c == Bump(Skip(b, 1))
    IN CASE op2 = 118 -> z80_ni(c)
         [] op2 \in {33, 34, 35, 38, 42, 43, 46, 52, 53, 54} -> IndexedLoads(c, op, op2)
         [] op2 \in (64..111) \cup (120..127) /\ Z(op2) # 6 ->
                SetIndexedOperand(c, op, Y(op2), IndexedOperand(c, op, Z(op2)))
         [] \/ op2 \in {9, 25, 41, 57, 36, 37, 44, 45}
            \/ op2 \in (64..127) \ {118} /\ (Z(op2) = 6 \/ Y(op2) = 6)
            \/ op2 \in 128..191 /\ Z(op2) \in {4, 5, 6} -> IndexedMath(c, op, op2)
         [] op2 = 203 -> IndexedBits(c, op)
         [] op2 \in {225, 227, 229, 233, 249} -> IndexedStack(c, op, op2)
         [] OTHER -> z80_execute_unprefixed(c, op2)

\* The main dispatch, first half of the opcode table and then the second.
Dispatch0(c, op) ==
    CASE op \in {0, 100} -> c   \* the hook answers with a nop
      [] op \in {1, 17, 33, 49} -> SetPair(Skip(c, 2), P(op), pcword(c))
      [] op \in {2, 18} -> StoreA(c, Pair(c, P(op)))
      [] op \in {3, 19, 35, 51} -> SetPair(c, P(op), Pair(c, P(op)) + 1)
      [] op \in {11, 27, 43, 59} -> SetPair(c, P(op), Pair(c, P(op)) - 1)
      [] op < 64 /\ Z(op) = 4 -> UpdateRm(c, Y(op), op_inc(c, src_value_rm(c, Y(op))))
      [] op < 64 /\ Z(op) = 5 -> UpdateRm(c, Y(op), op_dec(c, src_value_rm(c, Y(op))))
      [] op < 64 /\ Z(op) = 6 -> set_rm(Skip(c, 1), Y(op), pcbyte(c))
      [] op \in {7, 15, 23, 31} -> RotateA(c, Y(op))
      [] op \in {9, 25, 41, 57} -> op_dad(c, Pair(c, P(op)))
      [] op \in {10, 26} -> LoadA(c, Pair(c, P(op)))
      [] op = 34 -> Memptr(setmword(Skip(c, 2), pcword(c), HL(c)), pcword(c) + 1)
      [] op = 39 -> op_daa(c)
      [] op = 42 -> Memptr(SetPair(Skip(c, 2), 2, mword(c, pcword(c))), pcword(c) + 1)
      [] op = 47 -> op_cma(c)
      [] op = 50 -> StoreA(Skip(c, 2), pcword(c))
      [] op = 55 -> op_stc(c)
      [] op = 58 -> LoadA(Skip(c, 2), pcword(c))
      [] op = 63 -> op_cmc(c)
      [] op = 118 -> [c EXCEPT !.halted = TRUE]
      [] op \in (64..127) \ {100, 118} -> set_rm(c, Y(op), src_value_rm(c, Z(op)))
      [] op \in {8, 16, 24, 32, 40, 48, 56} -> Exchanges(c, op)

Dispatch1(c, op) ==
    CASE op \in 128..191 -> op_math(c, Y(op), src_value_rm(c, Z(op)))
      [] op >= 192 /\ Z(op) = 0 -> RetIf(c, Y(op))
      [] op \in {193, 209, 225} -> SetPair(popword(c), P(op), mword(c, c.sp))
      [] op >= 192 /\ Z(op) = 2 -> JumpIf(c, Y(op))
      [] op = 195 -> Jump(c, pcword(c))
      [] op >= 192 /\ Z(op) = 4 -> CallIf(c, Y(op))
      [] op \in {197, 213, 229} -> pushword(c, Pair(c, P(op)))
      [] op >= 192 /\ Z(op) = 6 -> op_math(Skip(c, 1), Y(op), pcbyte(c))
      [] op >= 192 /\ Z(op) = 7 -> Rst(c, Y(op))
      [] op = 201 -> Ret(c)
      [] op = 205 -> Call(c)
      [] op = 211 -> Out(c)
      [] op = 219 -> In(c)
      [] op = 227 -> Memptr(setmword(SetPair(c, 2, mword(c, c.sp)), c.sp, HL(c)), mword(c, c.sp))
      [] op = 233 -> [c EXCEPT !.pc = HL(c)]
      [] op = 235 -> ExDeHl(c)
      [] op = 241 -> SetPSW(popword(c), mword(c, c.sp))
      [] op = 243 -> Iff(c, FALSE)
      [] op = 245 -> pushword(c, PSW(c))
      [] op = 249 -> [c EXCEPT !.sp = HL(c)]
      [] op = 251 -> Iff(c, TRUE)
      [] op = 217 -> Exchanges(c, op)
      [] op = 203 -> BitPage(c)
      [] op = 237 -> Extended(c)
      [] op \in {221, 253} -> Indexed(c, op)

\* One instruction: fetch, dispatch, refresh counter (a halt leaves the loop
\* before it), and the opcode the batch publishes.
Published(n, op) ==
    [IF n.halted THEN n ELSE Bump(n) EXCEPT !.lastOp = IF op = 100 THEN 0 ELSE op]
Execute(c, op) == Published(IF op < 128 THEN Dispatch0(c, op) ELSE Dispatch1(c, op), op)
x80_emulate_budget(c) == Execute(Skip(c, 1), mbyte(c, c.pc))

x80_instruction_length(c, a) ==
    LET op == mbyte(c, a)
        op2 == mbyte(c, a + 1)
    IN CASE op = 203 -> 2
         [] op = 237 -> IF op2 % 16 \in {3, 11} THEN 4 ELSE 2
         [] op \in {221, 253} ->
                IF op2 \in {203, 33, 34, 42, 54} THEN 4
                ELSE IF \/ Bit(op2, 6) /\ Z(op2) = 6
                        \/ op2 \in 112..119
                        \/ op2 \in 128..191 /\ Z(op2) = 6
                        \/ op2 \in {52, 53, 38, 46}
                     THEN 3 ELSE 2
         [] op \in {1, 17, 33, 49, 34, 42, 50, 58, 195, 205} -> 3
         [] op >= 192 /\ Z(op) \in {2, 4} -> 3
         [] op \in {211, 219, 16, 24, 32, 40, 48, 56} -> 2
         [] (op < 64 \/ op >= 192) /\ Z(op) = 6 -> 2
         [] OTHER -> 1

-----------------------------------------------------------------------------
(* The adapter: one CPU, stepped by the debugger, interrupted by a device  *)
(* and edited from the front panel.  The model's bounds are two fields of  *)
(* the state: left, the steps still to take, and ints, the interrupts the  *)
(* device still raises (its data-bus byte is vec); kind says who drives    *)
(* the machine, and goal is what a run must come to.                       *)

\* The bus lamps show the next fetch.
Shown(c, a) == [c EXCEPT !.bus = word(a), !.data = mbyte(c, a)]

Cycled(n) == Shown([n EXCEPT !.left = @ - 1], n.pc)
z80_cycle ==
    /\ cpu.left > 0 /\ ~cpu.exited /\ ~cpu.halted
    /\ cpu' = Cycled(x80_emulate_budget(cpu))

z80_interrupt ==
    /\ cpu.ints > 0 /\ ~cpu.exited
    /\ cpu.iff1 /\ cpu.lastOp # 251
    /\ cpu.im = 0 => cpu.vec >= 192 /\ Z(cpu.vec) = 7
    /\ LET n == pushword([cpu EXCEPT !.halted = FALSE, !.iff1 = FALSE, !.iff2 = FALSE,
                                     !.ints = @ - 1], cpu.pc)
           to == CASE cpu.im = 2 -> mword(n, cpu.i * 256 + cpu.vec)
                   [] cpu.im = 1 -> 56
                   [] cpu.im = 0 -> 8 * Y(cpu.vec)
       IN cpu' = Shown(Jump(n, to), to)

Panel == cpu.kind = "panel" /\ cpu.left > 0 /\ ~cpu.exited
Used(c) == [c EXCEPT !.left = @ - 1]

z80_examine(a) ==
    Panel /\ cpu' = Used(Shown([cpu EXCEPT !.halted = FALSE, !.pc = a], a))

z80_examine_next == Panel /\ cpu' = Used(Shown(cpu, cpu.bus + 1))

Deposited(c, x) == [setmbyte(c, c.bus, x) EXCEPT !.data = x]
z80_deposit(x) == Panel /\ cpu' = Used(Deposited(cpu, x))
z80_deposit_next(x) == Panel /\ cpu' = Used(Deposited(Shown(cpu, cpu.bus + 1), x))

\* A variable the debugger changes in the registers that hold it: 2 hl, 3 de,
\* 4 bc, 5 iy, 6 de:hl, 7 iy:bc; any other location is refused.
z80_debug_set_location_register(location, low, high) ==
    /\ Panel
    /\ cpu' = Used(CASE location = 2 -> SetPair(cpu, 2, low)
                     [] location = 3 -> SetPair(cpu, 1, low)
                     [] location = 4 -> SetPair(cpu, 0, low)
                     [] location = 5 -> [cpu EXCEPT !.iy = low]
                     [] location = 6 -> SetPair(SetPair(cpu, 2, low), 1, high)
                     [] location = 7 -> [SetPair(cpu, 0, low) EXCEPT !.iy = high]
                     [] OTHER -> cpu)

\* Every register to zero; memory and the opcode last published stay.
z80_reset ==
    /\ Panel
    /\ cpu' = Used([cpu EXCEPT !.r = [k \in 0..7 |-> 0], !.alt = [k \in 0..7 |-> 0],
                    !.f = unmaterializeFlags(0), !.falt = unmaterializeFlags(0),
                    !.ix = 0, !.iy = 0, !.sp = 0, !.pc = 0, !.memptr = 0, !.rr = 0, !.i = 0,
                    !.im = 0, !.iff1 = FALSE, !.iff2 = FALSE, !.halted = FALSE, !.sbc = FALSE,
                    !.bus = 0, !.data = 0])

\* The machine as it is loaded: one of the given states.
Init(starts) == cpu \in starts

Next ==
    \/ z80_cycle
    \/ z80_interrupt
    \/ z80_examine_next
    \/ z80_reset
    \/ \E a \in PanelAddrs : z80_examine(a)
    \/ \E x \in PanelBytes : z80_deposit(x) \/ z80_deposit_next(x)
    \/ \E l \in 1..7, a, b \in PanelAddrs : z80_debug_set_location_register(l, a, b)

-----------------------------------------------------------------------------
(* Properties.                                                             *)

\* Opcodes whose text in z80_instructions names h, l or (hl); EX DE,HL is not
\* redirected by a prefix.
UsesHl == {34, 42, 54} \cup {9, 25, 33, 35, 41, 43, 57, 225, 227, 229, 233, 249}
          \cup {op \in 0..63 : Z(op) \in {4, 5, 6} /\ Y(op) \in {4, 5, 6}}
          \cup {op \in 64..127 : Y(op) \in {4, 5, 6} \/ Z(op) \in {4, 5, 6}}
          \cup {op \in 128..191 : Z(op) \in {4, 5, 6}}
\* Those whose operand is the cell hl points at, and no other half of hl.
UsesCell == {52, 53} \cup {op \in 128..191 : Z(op) = 6}
            \cup {op \in (64..127) \ {118} : (Z(op) = 6 /\ Y(op) \in Plain)
                                            \/ (Y(op) = 6 /\ Z(op) \in Plain)}
UsesHalves == UsesHl \ (UsesCell \cup {54, 118} \cup {op \in 64..127 : Y(op) = 6 \/ Z(op) = 6})

\* What a program can see of a state, the refresh counter aside.
Seen(c) == [c EXCEPT !.rr = 0, !.lastOp = 0, !.memptr = 0]
SwapIndex(c, pre) == SetIndex(SetPair(c, 2, Index(c, pre)), pre, HL(c))

\* A DD or FD before an instruction that does not name h, l or (hl) changes
\* nothing the program can see, and before one that does it puts ix or iy
\* exactly where hl was (x80.cxx spells out each instruction twice or more,
\* and a mask of the prefixed chain that is too wide steals an opcode).
TwinsAgree ==
    LET pre == mbyte(cpu, cpu.pc - 1)
        op == pcbyte(cpu)
        at == Index(cpu, pre) + Signed(mbyte(cpu, cpu.pc + 1))
        \* the plain twin's machine before, and what its result n is to the other
        before == IF op \in UsesHalves THEN SwapIndex(cpu, pre)
                  ELSE IF op \in UsesCell THEN SetPair(cpu, 2, at) ELSE cpu
        after(n) == IF op \in UsesHalves THEN SwapIndex(n, pre)
                    ELSE IF op \in UsesCell THEN Skip(SetPair(n, 2, HL(cpu)), 1) ELSE n
    IN (/\ cpu.kind = "step" /\ pre \in {221, 253}
        /\ op \in UsesHalves \cup UsesCell \/ op \notin UsesHl \cup {118, 203, 221, 253}) =>
          Seen(x80_emulate_budget(Skip(cpu, -1))) = Seen(after(x80_emulate_budget(before)))

\* The instructions x80_instruction_length gets wrong: the block outputs, what
\* a superfluous prefix precedes, and the DD CB forms nothing executes.
Mismeasured(c, a) ==
    LET op == mbyte(c, a)
        op2 == mbyte(c, a + 1)
    IN \/ op = 237 /\ op2 \in {163, 171, 179, 187}
       \/ /\ op \in {221, 253}
          /\ \/ x80_instruction_length(c, a + 1) > 1 /\ op2 \notin UsesHl \cup {203}
             \/ op2 = 203 /\ mbyte(c, a + 3) >= 64 /\ Z(mbyte(c, a + 3)) # 6

\* Jumps, calls and returns, and the repeating block instructions.
Transfers(c, a) ==
    LET op == mbyte(c, a)
    IN \/ op \in {16, 24, 32, 40, 48, 56, 195, 201, 205, 233}
       \/ op >= 192 /\ Z(op) \in {0, 2, 4, 7}
       \/ op = 237 /\ (mbyte(c, a + 1) >= 176 \/ Z(mbyte(c, a + 1)) = 5)

\* The debugger plants its temporary breakpoint behind an instruction at the
\* address x80_instruction_length gives: it is where execution arrives.
ArrivesBehind(c, n) ==
    LET prefixed == mbyte(c, c.pc) \in {221, 253}
    IN (/\ ~n.exited /\ ~Mismeasured(c, c.pc)
        /\ ~Transfers(c, c.pc) /\ (prefixed => ~Transfers(c, c.pc + 1)))
       => n.pc = word(c.pc + x80_instruction_length(c, c.pc))
LengthAgrees ==
    cpu.kind = "step" =>
        \A back \in {0, 1} :
            ArrivesBehind(Skip(cpu, -back), x80_emulate_budget(Skip(cpu, -back)))

Bcd(x) == (x \div 16) * 10 + (x % 16)
IsBcd(x) == x \div 16 <= 9 /\ x % 16 <= 9

\* Decimal arithmetic: an addition or subtraction of two decimal bytes and
\* DAA give the decimal result and its carry.
DecimalAgrees(c, x) ==
    \A y \in 0..3 :
        LET n == op_daa(op_math(c, y, x))
            k == IF y \in {1, 3} THEN One(c.f.C) ELSE 0
            total == IF y < 2 THEN Bcd(A(c)) + Bcd(x) + k ELSE Bcd(A(c)) - Bcd(x) - k
        IN /\ IsBcd(A(n)) /\ Bcd(A(n)) = total % 100
           /\ n.f.C = (total \notin 0..99)

\* After a comparison carry orders the bytes unsigned, sign and overflow signed.
OrderAgrees(c, x) ==
    LET f == op_cmp(c, x).f
    IN /\ f.Z = (A(c) = x) /\ f.C = (A(c) < x)
       /\ (f.S # f.V) = (Signed(A(c)) < Signed(x))

\* A sixteen-bit ADC or SBC is the low and then the high byte's; the half
\* borrow of SBC is the one exception, where the borrow makes rhs wrap.
WordAgrees(c) ==
    LET bytes(y) == op_math(SetA(op_math(SetA(c, c.r[5]), y, c.r[3]), c.r[4]), y, c.r[2])
        low(y) == A(op_math(SetA(c, c.r[5]), y, c.r[3]))
        add == z80_op_adc_16(c, HL(c), Pair(c, 1))
        sub == z80_op_sub_16(c, HL(c), Pair(c, 1), c.f.C)
        agree(n, y) ==
            /\ HL(n) = A(bytes(y)) * 256 + low(y)
            /\ n.f.Z = (HL(n) = 0)
            /\ \A k \in {"S", "V", "N", "C", "Y", "X"} : n.f[k] = bytes(y).f[k]
    IN /\ agree(add, 1) /\ add.f.H = bytes(1).f.H
       /\ agree(sub, 3)
       /\ ~(c.f.C /\ Pair(c, 1) % 4096 = 4095) => sub.f.H = bytes(3).f.H

\* What the flags mean: decimal adjustment, the order after a comparison and
\* carries across bytes are those of the arithmetic they stand for.
ArithmeticAgrees ==
    cpu.kind = "math" =>
        /\ IsBcd(A(cpu)) /\ IsBcd(cpu.r[0]) => DecimalAgrees(cpu, cpu.r[0])
        /\ OrderAgrees(cpu, cpu.r[0])
        /\ WordAgrees(cpu)

\* Where a run ends without further interrupts, and what it leaves.
RECURSIVE Finish(_)
Finish(c) == IF c.halted \/ c.exited THEN c ELSE Finish(x80_emulate_budget(c))
Outcome(c, cells) ==
    [r |-> c.r, f |-> c.f, sp |-> c.sp, halted |-> c.halted,
     mem |-> [a \in cells |-> c.mem[a]]]

\* An interrupt is transparent to the program it interrupts: whenever it is
\* taken, between EI and the next instruction or inside a block move, the
\* program still comes to the registers, flags, stack and data it comes to
\* alone; and because EI delays the next one by an instruction, handlers that
\* end in EI and RETI never stack up.
InterruptsAreTransparent ==
    cpu.kind = "run" =>
        /\ Outcome(Finish(cpu), DOMAIN cpu.goal.mem) = cpu.goal
        /\ cpu.sp >= cpu.goal.sp - 4   \* the return address and one pushed pair

\* The machine keeps its widths, and the bus lamps show the memory they name.
TypeOK ==
    /\ cpu.r \in [0..7 -> 0..255] /\ cpu.alt \in [0..7 -> 0..255]
    /\ {cpu.ix, cpu.iy, cpu.sp, cpu.pc, cpu.memptr, cpu.bus} \subseteq 0..65535
    /\ cpu.mem \in [0..(MemSize - 1) -> 0..255]
    /\ cpu.f \in [{"S", "Z", "Y", "H", "X", "V", "N", "C"} -> BOOLEAN]
    /\ cpu.im \in 0..2 /\ cpu.rr \in 0..255 /\ cpu.left >= 0
=============================================================================
