--------------------------- MODULE DebugMetadata ---------------------------
(***************************************************************************)
(* The debug metadata of a program (dcc_host_debug_metadata.cpp): the      *)
(* records of a .DBG file are read into tables of lines, functions and      *)
(* variables, which are searched by address while the program is debugged.  *)
(*                                                                         *)
(* The compiler that writes the records is external: it emits one function  *)
(* after the other, with nested blocks of variables, and remembers in       *)
(* "truth" what was visible at each instruction.  A record is its fields;   *)
(* a malformed one ends the load.                                          *)
(***************************************************************************)
EXTENDS Integers, Sequences, SequencesExt

CONSTANTS
  Names,        \* names of variables
  Offsets,      \* their places in the frame
  MaxAddress,   \* instructions of the program
  MaxFunctions, MaxVariables, MaxLines

VARIABLE meta

Open == MaxAddress + 1        \* 0xffff, the end of what has not ended

Init ==
  meta = [\* the loader's tables
          lines |-> <<>>, functions |-> <<>>, variables |-> <<>>, pending |-> <<>>,
          result |-> "reading",
          \* the compiler
          address |-> 0, function |-> 0, blocks |-> <<>>, line |-> <<>>, truth |-> <<>>]

Reading == meta.result = "reading"
InFunction == Reading /\ meta.function # 0

-----------------------------------------------------------------------------
(* load_for_program: the records.                                           *)

(* "line" *)
Lines(m) == Append(m.lines, [address |-> m.address, line |-> Len(m.lines) + 1])

(* "function-begin" and "function-end", which also ends the variables of the *)
(* function that are still open.                                            *)
function_begin ==
  /\ Reading /\ meta.function = 0 /\ Len(meta.functions) < MaxFunctions
  /\ meta' = [meta EXCEPT !.functions = Append(@, [start |-> meta.address, end |-> Open]),
                          !.function = Len(meta.functions) + 1, !.line = <<>>]

IsOpen(v) == ~v.global /\ v.end = Open

Ended(v, m) == IF IsOpen(v) /\ v.function = m.function THEN [v EXCEPT !.end = m.address] ELSE v

function_end ==
  /\ InFunction /\ meta.functions[meta.function].start < meta.address
  /\ meta' = [meta EXCEPT !.functions[meta.function].end = meta.address,
                          !.variables = [i \in DOMAIN @ |-> Ended(@[i], meta)],
                          !.function = 0, !.blocks = <<>>]

(* "variable" and "global" *)
Variable(m, n, o, isGlobal) ==
  [global |-> isGlobal, function |-> m.function, name |-> n, offset |-> o,
   declaration |-> IF isGlobal THEN 0 ELSE m.address, end |-> Open, locations |-> <<>>]

variable(n, o) ==
  /\ InFunction /\ Len(meta.variables) < MaxVariables
  /\ \A i \in Range(meta.blocks) : meta.variables[i].offset # o
  /\ meta' = [meta EXCEPT !.variables = Append(@, Variable(meta, n, o, FALSE)),
                          !.blocks = Append(@, Len(meta.variables) + 1)]

global(n) ==
  /\ Reading /\ meta.function = 0 /\ Len(meta.variables) < MaxVariables
  /\ \A i \in DOMAIN meta.variables : ~(meta.variables[i].global /\ meta.variables[i].name = n)
  /\ meta' = [meta EXCEPT !.variables = Append(@, Variable(meta, n, 0, TRUE))]

(* "variable-end": the latest open variable with that name and offset. *)
FirstEnd(m, v) ==       \* mutant: the first variable with that name, ended or not
  SelectInSeq(m.variables, LAMBDA u : ~u.global /\ u.function = m.function /\ u.name = v.name)

EndOf(m, v) ==
  SelectLastInSeq(m.variables, LAMBDA u :
    IsOpen(u) /\ u.offset = v.offset /\ u.function = m.function /\ u.name = v.name)

variable_end ==
  /\ InFunction /\ meta.blocks # <<>>
  /\ meta' = [meta EXCEPT !.variables[EndOf(meta, meta.variables[Last(meta.blocks)])].end = meta.address,
                          !.blocks = Front(@)]

(* "location": where an optimised variable is from this address on. *)
Location(m, v, kind) ==
  [address |-> m.address, function |-> m.function, name |-> v.name, offset |-> v.offset, kind |-> kind]

malformed == Reading /\ meta' = [meta EXCEPT !.result = "error"]

(* The end of the file: locations find the variable they are about, unless   *)
(* the tables are empty or a function has no end.                           *)
Belongs(p, v) ==
  /\ ~v.global /\ v.function = p.function /\ v.name = p.name /\ v.offset = p.offset
  /\ v.declaration <= p.address /\ p.address < v.end

Located(m, i) ==
  [m.variables[i] EXCEPT
     !.locations = SelectSeq(m.pending, LAMBDA p :
                     SelectLastInSeq(m.variables, LAMBDA v : Belongs(p, v)) = i)]

end_of_file ==
  /\ Reading
  /\ meta' = IF \/ meta.lines = <<>> \/ meta.functions = <<>>
                \/ \E i \in DOMAIN meta.functions : meta.functions[i].end = Open
             THEN [meta EXCEPT !.result = "error"]
             ELSE [meta EXCEPT !.result = "ok", !.pending = <<>>,
                               !.variables = [i \in DOMAIN @ |-> Located(meta, i)]]

-----------------------------------------------------------------------------
(* The compiler emits an instruction, after a line record or the location    *)
(* of a variable, and notes what is visible there.                          *)

Visible(m, n) ==      \* the innermost variable of that name, 0 with none
  LET i == SelectLastInSeq(m.blocks, LAMBDA b : m.variables[b].name = n)
  IN  IF i = 0 THEN 0 ELSE m.blocks[i]

Instruction(m, moved) ==
  [m EXCEPT !.address = @ + 1,
            !.truth = Append(@, [function |-> m.function, line |-> m.line, moved |-> moved,
                                 visible |-> [n \in Names |-> Visible(m, n)]])]

NewLine(m) == [m EXCEPT !.lines = Lines(m), !.line = <<Len(m.lines) + 1, m.address>>]

emit ==
  /\ InFunction /\ meta.address < MaxAddress
  /\ \/ meta' = Instruction(meta, 0)
     \/ Len(meta.lines) < MaxLines /\ meta' = Instruction(NewLine(meta), 0)
     \/ \E i \in Range(meta.blocks) :
          meta' = Instruction([meta EXCEPT !.pending =
                    Append(@, Location(meta, meta.variables[i], Len(meta.pending)))], i)

Next ==
  \/ function_begin \/ function_end
  \/ \E n \in Names, o \in Offsets : variable(n, o)
  \/ \E n \in Names : global(n)
  \/ variable_end \/ emit \/ malformed \/ end_of_file

-----------------------------------------------------------------------------
(* Looking up.                                                              *)

(* The last of the candidates with the highest address, 0 with none. *)
Latest(candidates, address(_)) ==
  LET best == {i \in candidates : \A j \in candidates : address(j) <= address(i)}
  IN  IF best = {} THEN 0 ELSE CHOOSE i \in best : \A j \in best : j <= i

find_function(m, a) ==
  LET in == {i \in DOMAIN m.functions : m.functions[i].start <= a /\ a < m.functions[i].end}
      best == {i \in in : \A j \in in : m.functions[j].start <= m.functions[i].start}
  IN  IF in = {} THEN 0 ELSE CHOOSE i \in best : \A j \in best : i <= j

(* A line record at an address where one function ends and the next begins  *)
(* is not used.                                                             *)
SharedBoundary(m, f) ==
  \E i \in DOMAIN m.functions : i # f /\ m.functions[i].end = m.functions[f].start

find_address_line(m, a) ==
  LET f == find_function(m, a)
  IN  IF f = 0 THEN 0
      ELSE Latest({i \in DOMAIN m.lines :
                     LET at == m.lines[i].address
                     IN  /\ m.functions[f].start <= at /\ at <= a
                         /\ ~(SharedBoundary(m, f) /\ at = m.functions[f].start)},
                  LAMBDA i : m.lines[i].address)

InRange(v, a) == v.declaration <= a /\ a < v.end

find_global(m, n) == SelectInSeq(m.variables, LAMBDA v : v.global /\ v.name = n)

(* Of the variables in scope the one declared last, else the global.        *)
find_variable(m, n, a) ==
  LET f == find_function(m, a)
      scope == {i \in DOMAIN m.variables :
                  LET v == m.variables[i]
                  IN  f # 0 /\ ~v.global /\ v.function = f /\ v.name = n /\ InRange(v, a)}
  IN  IF scope # {} THEN Latest(scope, LAMBDA i : m.variables[i].declaration)
      ELSE find_global(m, n)

find_location(v, a) ==
  Latest({i \in DOMAIN v.locations : v.locations[i].address <= a}, LAMBDA i : v.locations[i].address)

scoped_variables(m, a) ==
  {i \in DOMAIN m.variables :
     /\ ~m.variables[i].global /\ m.variables[i].function = find_function(m, a)
     /\ InRange(m.variables[i], a) /\ find_variable(m, m.variables[i].name, a) = i}

-----------------------------------------------------------------------------
(* Of a file that was loaded, the debugger finds at every instruction the    *)
(* function it is in; the variable that is visible there under each name,   *)
(* with shadowing and blocks that reuse names and places in the frame; the   *)
(* place that variable was last moved to; and the last source line its       *)
(* function announced, unless on the boundary of two functions.             *)
LookupsAgree ==
  meta.result = "ok" =>
    \A a \in 0 .. meta.address - 1 :
      LET t == meta.truth[a + 1]
          line == find_address_line(meta, a)
      IN  /\ find_function(meta, a) = t.function
          /\ \A n \in Names :
               LET i == find_variable(meta, n, a)
                   moves == {b \in 0 .. a : i # 0 /\ meta.truth[b + 1].moved = i}
                   l == IF i = 0 THEN 0 ELSE find_location(meta.variables[i], a)
               IN  /\ i = IF t.visible[n] # 0 THEN t.visible[n] ELSE find_global(meta, n)
                   /\ l = 0 <=> moves = {}
                   /\ \A b \in moves : b <= meta.variables[i].locations[l].address
          /\ scoped_variables(meta, a) = {t.visible[n] : n \in Names} \ {0}
          /\ t.line = <<>> => line = 0
          /\ t.line # <<>> =>
               \/ line = t.line[1]
               \/ t.line[2] = meta.functions[t.function].start /\ SharedBoundary(meta, t.function)
=============================================================================
