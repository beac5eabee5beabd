------------------------------ MODULE CpmHost ------------------------------
(***************************************************************************)
(* The emulated CP/M machine behind the debugger (dcc_host_full_cpm.cpp):  *)
(* launching the target and its console.                                   *)
(*                                                                         *)
(* Operators on a record h.  The console queue is a number of bytes, the   *)
(* target a program of a few instructions that call, build frames, return, *)
(* use the console and end; a stack is a sequence of words and a stack      *)
(* address an index into it, the oldest word first.  Everything the boot   *)
(* of CP/M runs is one outcome of prepare_program.                         *)
(***************************************************************************)
EXTENDS Integers, Sequences, FiniteSets

CONSTANTS
  Code,                \* address -> [op, to], the target program; 0 is the warm boot
  InputWaitPolls,      \* kInputWaitPolls
  InputRelease,        \* kInputReleaseInstructions
  MaxInput,            \* console bytes queued at once
  MaxStack             \* words the target may push

Entry == 1             \* 0x0100

-----------------------------------------------------------------------------
(* The console.  "held" is a byte the key translator keeps back until it    *)
(* knows that no more of an escape sequence follows.                        *)

Room(h) == MaxInput - h.input - h.held

terminal_poll(h) ==
  IF h.input = 0 /\ h.held > 0 THEN {h, [h EXCEPT !.input = h.held, !.held = 0]} ELSE {h}

Starved(h) ==
  IF h.active /\ h.input = 0
    THEN [h EXCEPT !.polls = IF @ < InputWaitPolls THEN @ + 1 ELSE @,
                   !.requested = @ \/ h.polls + 1 >= InputWaitPolls]
    ELSE h

Released(h) == h.input > 0 /\ (h.active => h.delay = 0)

(* What an IN from the data port does: the states, and whether a byte came. *)
terminal_read(h) ==
  {IF Released(p)
     THEN <<TRUE, [p EXCEPT !.input = @ - 1, !.polls = 0, !.requested = FALSE,
                            !.delay = IF p.active THEN InputRelease ELSE @]>>
     ELSE <<FALSE, Starved(p)>> : p \in terminal_poll(h)}

terminal_status(h) == {<<Released(p), Starved(p)>> : p \in terminal_poll(h)}

terminal_write(h) ==
  [h EXCEPT !.polls = 0, !.requested = FALSE, !.delay = IF h.active THEN InputRelease ELSE @]

Waiting(h, n) ==
  [h EXCEPT !.input = @ + n, !.polls = 0, !.requested = FALSE, !.delay = 0]

queue_input(h, n) == Waiting(h, n)

(* The terminal's own thread: a byte is queued, or held back. *)
queue_terminal_input(h) ==
  IF h.active THEN {Waiting(h, 1), [Waiting(h, 0) EXCEPT !.held = @ + 1]} ELSE {h}

clear_input_request(h) == [h EXCEPT !.requested = FALSE, !.polls = 0]

-----------------------------------------------------------------------------
(* One instruction of the target.                                           *)

Push(h, kind, v) == [h EXCEPT !.stack = Append(@, [kind |-> kind, value |-> v])]
Pop(h) == [h EXCEPT !.stack = SubSeq(@, 1, Len(@) - 1)]
Top(h) == h.stack[Len(h.stack)].value
Goto(h, a) == [h EXCEPT !.pc = a]
Loop(h, outcomes) == {Goto(o[2], IF o[1] THEN h.pc + 1 ELSE h.pc) : o \in outcomes}

(* At the warm boot the target has ended. *)
Op(h) == IF h.pc = 0 THEN [op |-> "jump", to |-> 0] ELSE Code[h.pc]

z80_cycle(h) ==
  LET i == Op(h)
  IN  CASE i.op = "plain" -> {Goto(h, h.pc + 1)}
        [] i.op = "jump" -> {Goto(h, i.to)}
        [] i.op = "maybe" -> {Goto(h, h.pc + 1)} \cup
                             (IF Len(h.stack) + 2 <= MaxStack THEN {Goto(h, i.to)} ELSE {})
        [] i.op = "call" -> {Goto(Push(h, "return", h.pc + 1), i.to)}
        [] i.op = "enter" -> {[Goto(Push(h, "ix", h.ix), h.pc + 1) EXCEPT !.ix = Len(h.stack) + 1]}
        [] i.op = "leave" -> {[Goto(Pop(h), h.pc + 1) EXCEPT !.ix = Top(h)]}
        [] i.op = "ret" -> {Goto(Pop(h), Top(h))}
        [] i.op = "read" -> Loop(h, terminal_read(h))
        [] i.op = "status" -> Loop(h, terminal_status(h))
        [] i.op = "write" -> {Goto(terminal_write(h), h.pc + 1)}
        [] i.op = "halt" -> {[h EXCEPT !.halted = TRUE]}

step(h) == z80_cycle([h EXCEPT !.delay = IF @ > 0 THEN @ - 1 ELSE 0])

target_exited(h) == h.active /\ h.pc = 0

-----------------------------------------------------------------------------
(* prepare_program: a target that is active is left alone; otherwise it is   *)
(* launched, or the launch fails before CP/M is up, or after it: the name,  *)
(* the files or an image are bad, a command does not return to the prompt   *)
(* (its text then stays queued), or the target never reaches the entry.     *)

Launched(h) ==
  [clear_input_request(h) EXCEPT !.active = TRUE, !.booted = TRUE, !.pc = Entry, !.input = 0]

start_direct_loader(h) == [h EXCEPT !.active = TRUE, !.pc = Entry]

NotLaunched(h) ==
  {h, [h EXCEPT !.booted = TRUE]} \cup
  (IF Room(h) > 0 THEN {[queue_input(h, 1) EXCEPT !.booted = TRUE]} ELSE {})

prepare_program(h, direct) ==
  CASE h.active -> {<<TRUE, h>>}
    [] ~h.active /\ direct -> {<<TRUE, start_direct_loader(h)>>, <<FALSE, h>>}
    [] OTHER -> {<<TRUE, Launched(h)>>} \cup {<<FALSE, f>> : f \in NotLaunched(h)}
=============================================================================
