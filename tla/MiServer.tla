------------------------------ MODULE MiServer ------------------------------
(***************************************************************************)
(* The debugger's machine interface (dcc_host_mi_server.cpp): commands read *)
(* from standard input while the target is stopped, and the loop that runs  *)
(* the target one instruction at a time between two stops, watching for     *)
(* breakpoints, signals and the client.                                     *)
(*                                                                         *)
(* A command is given by its parsed arguments; its answer is not kept, only *)
(* the reason of a stop.  What a condition evaluates to is any value.       *)
(* "counted", "twice", "begun" and "astray" only serve the properties.      *)
(***************************************************************************)
EXTENDS CpmHost, FiniteSetsExt

CONSTANTS
  Line,            \* address -> source line, 0 with none
  Function,        \* address -> function, "none" outside the program's metadata
  Locals,          \* function -> the expressions that can be evaluated in it
  Children,        \* expression -> the expressions of its children
  Breakables,      \* the addresses the client asks breakpoints for
  Conditions,      \* "" for none, "expr"
  IgnoreCounts,    \* the ignore counts it gives
  InlineFrames,    \* the frames a command names, NoFrame with none
  MaxBreakpoints, MaxHits, MaxObjects, MaxFrames,
  Lines,           \* what the client may do while the target runs
  Terminal,        \* whether a target terminal is connected
  Direct           \* --direct-loader

VARIABLE mi

NoFrame == -1          \* no --frame in the command

Init ==
  mi = [\* the machine
        active |-> FALSE, booted |-> FALSE, halted |-> FALSE, connected |-> Terminal,
        pc |-> 0, ix |-> 0, stack |-> <<>>,
        input |-> 0, held |-> 0, delay |-> 0, polls |-> 0, requested |-> FALSE,
        \* the server
        program |-> FALSE, symbols |-> FALSE, started |-> FALSE, quit |-> FALSE,
        signal |-> FALSE, cin |-> "",
        breakpoints |-> <<>>, next |-> 1, stopped |-> 0, skip |-> FALSE,
        selected |-> 0, saved |-> NoFrame,
        mode |-> "idle", line |-> 0, sp |-> 0, return |-> <<0, 0>>,
        objects |-> <<>>, reason |-> "",
        counted |-> {}, twice |-> FALSE, begun |-> <<>>, astray |-> FALSE]

-----------------------------------------------------------------------------
(* Frames.  The word at ix is the caller's ix and the one above it the       *)
(* return address; the walk ends where that cannot be a frame.              *)

LineOf(s, a) == IF s.symbols /\ a \in DOMAIN Line THEN Line[a] ELSE 0
FunctionOf(s, a) == IF s.symbols /\ a \in DOMAIN Function THEN Function[a] ELSE "none"

ReturnOf(s, f) == IF f.ix > 1 THEN s.stack[f.ix - 1].value ELSE 0
CallerIx(s, f) == IF f.ix > 1 THEN s.stack[f.ix].value ELSE 0
Caller(s, f) == [pc |-> ReturnOf(s, f) - 1, ix |-> CallerIx(s, f)]
HasCaller(s, f) ==
  /\ f.ix > 0 /\ CallerIx(s, f) < f.ix /\ ReturnOf(s, f) # 0
  /\ FunctionOf(s, ReturnOf(s, f) - 1) # "none"

stack_frames(s) ==
  LET walk[n \in 1 .. MaxFrames] ==
        IF n = 1 THEN <<[pc |-> s.pc, ix |-> s.ix]>>
        ELSE LET w == walk[n - 1]
             IN  IF Len(w) = n - 1 /\ HasCaller(s, w[n - 1])
                   THEN Append(w, Caller(s, w[n - 1])) ELSE w
  IN  walk[MaxFrames]

frame_context(s, frame) == frame < Len(stack_frames(s))
Context(s, frame) == stack_frames(s)[frame + 1]

(* An evaluator of a frame that is gone works on the innermost one. *)
evaluator(s, frame) == Context(s, IF frame_context(s, frame) THEN frame ELSE 0)
Evaluates(s, frame, e) ==
  LET f == FunctionOf(s, evaluator(s, frame).pc) IN f \in DOMAIN Locals /\ e \in Locals[f]

-----------------------------------------------------------------------------
(* Stops.  A command that named a frame gives the selection back at its end, *)
(* after a run too.                                                         *)

Restored(s) ==
  IF s.saved = NoFrame THEN s ELSE [s EXCEPT !.selected = s.saved, !.saved = NoFrame]

Depth(s) == Cardinality({i \in DOMAIN s.stack : s.stack[i].kind = "return"})
Framed(s) == s.ix > 0 /\ \A i \in s.ix .. Len(s.stack) : s.stack[i].kind # "return"

(* How deep the calls are to be when the step ends. *)
Expected(s, mode) ==
  CASE mode = "next" -> 0 .. Depth(s)
    [] mode = "finish" /\ Framed(s) /\ frame_context(s, s.selected) ->
         {Depth(s) - s.selected - 1}
    [] OTHER -> 0 .. MaxStack

(* The variables of the loop end with it. *)
Leave(s, reason) ==
  [s EXCEPT !.mode = "idle", !.reason = reason, !.line = 0, !.sp = 0, !.return = <<0, 0>>,
            !.skip = FALSE, !.begun = <<>>,
            !.astray = @ \/ (reason = "step" /\ Depth(s) \notin s.begun[1])]

emit_stop(s, reason) == Restored([Leave(s, reason) EXCEPT !.selected = 0])
emit_exit(s) == Restored(Leave(s, "exited"))

breakpoint_at(s, a) ==
  {i \in DOMAIN s.breakpoints :
     LET b == s.breakpoints[i] IN b.active /\ b.enabled /\ b.address = a}

(* A hit, when the condition comes to v: one that cannot be read stops. *)
Stops(b, v) == b.hits + 1 > b.ignore /\ (b.condition = "" \/ v # "false")
Counted(b, v) ==
  [b EXCEPT !.hits = IF @ < MaxHits THEN @ + 1 ELSE @,
            !.active = ~(Stops(b, v) /\ b.temporary)]

prepare_breakpoint_stop(s, v) ==
  LET here == breakpoint_at(s, s.pc)
      stops == {i \in here : Stops(s.breakpoints[i], v[i])}
  IN  [s EXCEPT !.breakpoints = [i \in DOMAIN @ |-> IF i \in here THEN Counted(@[i], v[i]) ELSE @[i]],
                !.stopped = IF stops = {} THEN 0 ELSE Min(stops),
                !.counted = @ \cup here,
                !.twice = @ \/ s.counted \cap here # {}]

-----------------------------------------------------------------------------
(* run_target: one turn of the loop.                                        *)

StepEndsAtReturn(s) ==     \* mutant: finish stops at the first return to that address
  CASE s.mode = "instruction" -> TRUE
    [] s.mode = "finish" -> s.return[1] # 0 /\ s.pc = s.return[1]
    [] s.mode \in {"step", "next"} ->
         /\ LineOf(s, s.pc) # 0 /\ LineOf(s, s.pc) # s.line
         /\ s.mode = "next" => Len(s.stack) <= s.sp
    [] OTHER -> FALSE

StepEnds(s) ==
  CASE s.mode = "instruction" -> TRUE
    [] s.mode = "finish" -> s.return[1] # 0 /\ s.pc = s.return[1] /\ s.ix = s.return[2]
    [] s.mode \in {"step", "next"} ->
         /\ LineOf(s, s.pc) # 0 /\ LineOf(s, s.pc) # s.line
         /\ s.mode = "next" => Len(s.stack) <= s.sp
    [] OTHER -> FALSE

(* The tests at the end of a turn, in their order. *)
Continue(s) ==
  CASE s.requested /\ ~s.connected -> emit_stop(s, "input")
    [] ~(s.requested /\ ~s.connected) /\ (target_exited(s) \/ s.halted) -> emit_exit(s)
    [] OTHER -> IF StepEnds(s) THEN emit_stop(s, "step") ELSE s

InputLineIgnored(s) ==     \* mutant: an interrupt is answered but does not stop
  LET t == [s EXCEPT !.cin = ""]
  IN  CASE s.cin = "exit" -> Restored([Leave(t, "") EXCEPT !.quit = TRUE])
        [] OTHER -> Continue(t)

(* A line of the client while the target runs. *)
InputLine(s) ==
  LET t == [s EXCEPT !.cin = ""]
  IN  CASE s.cin = "control-c" -> emit_stop(t, "interrupt")
        [] s.cin = "interrupt" -> emit_stop(t, "interrupt")
        [] s.cin = "exit" -> Restored([Leave(t, "") EXCEPT !.quit = TRUE])
        [] s.cin = "other" -> Continue(t)

Executed(s) ==
  LET t == [s EXCEPT !.skip = FALSE, !.counted = {}]
  IN  CASE t.signal -> emit_stop([t EXCEPT !.signal = FALSE], "interrupt")
        [] ~t.signal /\ t.cin \notin {"", "eof"} -> InputLine(t)
        [] OTHER -> Continue(t)

run_target ==
  /\ mi.mode # "idle"
  /\ \E v \in [breakpoint_at(mi, mi.pc) -> {"true", "false", "fails"}] :
       LET b == IF mi.skip THEN mi ELSE prepare_breakpoint_stop(mi, v)
       IN  IF b.stopped # 0 THEN mi' = emit_stop(b, "breakpoint")
           ELSE \E e \in step(b) : mi' = Executed(e)

-----------------------------------------------------------------------------
(* handle_run: the target is launched the first time; a resumed one does not *)
(* hit the breakpoint it stands on.                                         *)

Skips(s, resumed) == resumed /\ breakpoint_at(s, s.pc) # {}

Running(s, resumed, mode) ==
  LET f == evaluator(s, s.selected)
  IN  [clear_input_request(s) EXCEPT
         !.mode = mode, !.reason = "", !.stopped = 0,
         !.skip = Skips(s, resumed), !.line = LineOf(s, s.pc), !.sp = Len(s.stack),
         !.return = IF mode = "finish" /\ frame_context(s, s.selected)
                      THEN <<ReturnOf(s, f), CallerIx(s, f)>> ELSE <<0, 0>>,
         !.begun = <<Expected(s, mode)>>]

handle_run(s, mode) ==
  {IF p[1] THEN Running(p[2], s.active, mode) ELSE Restored(p[2]) :
     p \in IF s.program THEN prepare_program(s, Direct) ELSE {<<FALSE, s>>}}

-----------------------------------------------------------------------------
(* handle_command: the commands of a stopped target.                        *)

Idle == mi.mode = "idle" /\ ~mi.quit /\ mi.cin = ""
Done(s) == Restored(s)
Error(s) == Restored(s)

(* --frame: the command works in that frame. *)
InFrame(s, frame) ==
  IF frame = NoFrame THEN s ELSE [s EXCEPT !.saved = s.selected, !.selected = frame]

(* With a frame that does not exist the command is refused. *)
Refused(frame) == frame # NoFrame /\ ~frame_context(mi, frame)
Command(frame, outcomes(_)) ==
  /\ Idle
  /\ mi' \in IF Refused(frame) THEN {mi} ELSE outcomes(InFrame(mi, frame))

file_exec_and_symbols(s) ==
  {Error([s EXCEPT !.program = TRUE]), Error([s EXCEPT !.program = TRUE, !.symbols = FALSE]),
   LET t == [s EXCEPT !.program = TRUE, !.symbols = TRUE, !.objects = <<>>, !.selected = 0]
   IN  Done(IF s.started THEN t
            ELSE [t EXCEPT !.started = TRUE, !.reason = "entry"])}

Breakpoint(s, a, temporary, condition, ignore) ==
  [number |-> s.next, address |-> a, active |-> TRUE, enabled |-> TRUE, temporary |-> temporary,
   condition |-> condition, ignore |-> ignore, hits |-> 0]

Inserted(s, b) == [s EXCEPT !.next = @ + 1, !.breakpoints = Append(@, b)]
CanInsert(s) == s.next <= MaxBreakpoints

(* A location that cannot be parsed is refused before a number is used, an  *)
(* empty condition or a bad ignore count after it.                          *)
break_insert(s, a, temporary, condition, ignore) ==
  {Error(s), Error([s EXCEPT !.next = @ + 1]),
   Done(Inserted(s, Breakpoint(s, a, temporary, condition, ignore)))}

Change(s, n, by(_)) ==
  [s EXCEPT !.breakpoints = [i \in DOMAIN @ |-> IF @[i].number = n THEN by(@[i]) ELSE @[i]]]

break_delete(s, n) == {Error(s), Done(Change(s, n, LAMBDA b : [b EXCEPT !.active = FALSE]))}
break_enable(s, n, on) ==
  {Done(Change(s, n, LAMBDA b : [b EXCEPT !.enabled = IF b.active THEN on ELSE @]))}
break_after(s, n, k) == {Done(Change(s, n, LAMBDA b : [b EXCEPT !.ignore = k]))}
break_condition(s, n, c) ==
  {Done(Change(s, n, LAMBDA b : [b EXCEPT !.condition = c]))}

exec_until(s, a) == handle_run(Inserted(s, Breakpoint(s, a, TRUE, "", 0)), "continue")

(* The client types for the target, which goes on. *)
interpreter_input(s) == handle_run(clear_input_request(queue_input(s, 1)), "continue")

stack_select_frame(s, frame) ==
  {IF frame_context(s, frame) THEN Done([s EXCEPT !.selected = frame]) ELSE Error(s)}

-----------------------------------------------------------------------------
(* Variable objects: an expression in a frame, which is the same frame while *)
(* its ix is the same.                                                      *)

Object(s, frame, e) == [frame |-> frame, ix |-> Context(s, frame).ix, expression |-> e, active |-> TRUE]

InScope(s, o) ==
  /\ o.active
  /\ frame_context(s, o.frame) /\ Context(s, o.frame).ix = o.ix
  /\ Evaluates(s, o.frame, o.expression)

var_create(s, e) ==
  {IF Evaluates(s, s.selected, e) /\ frame_context(s, s.selected)
     THEN Done([s EXCEPT !.objects = Append(@, Object(s, s.selected, e))]) ELSE Error(s)}

(* Reading an object; its children become objects of the same frame once.   *)
var_list_children(s, i) ==
  LET o == s.objects[i]
      new == {e \in Children[o.expression] :
                Evaluates(s, o.frame, e) /\
                \A j \in DOMAIN s.objects : s.objects[j] # [o EXCEPT !.expression = e]}
      Add(e, os) == Append(os, [o EXCEPT !.expression = e])
  IN  {IF InScope(s, o) THEN Done([s EXCEPT !.objects = FoldSet(Add, @, new)]) ELSE Error(s)}

var_evaluate(s, i) == {IF InScope(s, s.objects[i]) THEN Done(s) ELSE Error(s)}

(* The memory written is not part of the model. *)
var_assign(s, i) == {IF InScope(s, s.objects[i]) THEN Done(s) ELSE Error(s), Error(s)}
var_delete(s, i) == {Done([s EXCEPT !.objects[i].active = FALSE])}

(* The commands that only look: lists, registers, memory, disassembly,      *)
(* frames and expressions; those with a bad argument answer an error.       *)
inspect(s) == {Done(s), Error(s)}

Modes == {"instruction", "continue", "finish", "step", "next"}

BreakpointCommand(frame) ==
  \/ \E a \in Breakables, t \in BOOLEAN, c \in Conditions, k \in IgnoreCounts :
       CanInsert(mi) /\ Command(frame, LAMBDA s : break_insert(s, a, t, c, k))
  \/ \E n \in 1 .. mi.next - 1 :
       \/ Command(frame, LAMBDA s : break_delete(s, n))
       \/ \E on \in BOOLEAN : Command(frame, LAMBDA s : break_enable(s, n, on))
       \/ \E k \in IgnoreCounts : Command(frame, LAMBDA s : break_after(s, n, k))
       \/ \E c \in Conditions : Command(frame, LAMBDA s : break_condition(s, n, c))

RunCommand(frame) ==
  \/ \E m \in Modes : Command(frame, LAMBDA s : handle_run(s, m))
  \/ \E a \in Breakables : CanInsert(mi) /\ Command(frame, LAMBDA s : exec_until(s, a))
  \/ Room(mi) > 0 /\ Command(frame, interpreter_input)

VariableCommand(frame) ==
  \/ \E e \in DOMAIN Children :
       Len(mi.objects) < MaxObjects /\ Command(frame, LAMBDA s : var_create(s, e))
  \/ \E i \in DOMAIN mi.objects :
       \/ Len(mi.objects) < MaxObjects /\ Command(frame, LAMBDA s : var_list_children(s, i))
       \/ Command(frame, LAMBDA s : var_evaluate(s, i))
       \/ Command(frame, LAMBDA s : var_assign(s, i))
       \/ Command(frame, LAMBDA s : var_delete(s, i))

handle_command(frame) ==
  \/ Command(frame, file_exec_and_symbols)
  \/ BreakpointCommand(frame)
  \/ RunCommand(frame)
  \/ VariableCommand(frame)
  \/ \E f \in 0 .. MaxFrames : Command(frame, LAMBDA s : stack_select_frame(s, f))
  \/ Command(frame, inspect)

-----------------------------------------------------------------------------
(* The world around the server: the client's next line, which is read while *)
(* the target runs or handled as a command when it has stopped; signals;    *)
(* the terminal's thread.                                                   *)

ClientWrites ==
  /\ ~mi.quit /\ mi.cin = "" /\ mi.mode # "idle"
  /\ \E l \in Lines \ {"signal"} : mi' = [mi EXCEPT !.cin = l]

LateLine ==
  /\ mi.mode = "idle" /\ mi.cin # "" /\ ~mi.quit
  /\ mi' = [mi EXCEPT !.cin = "", !.quit = mi.cin \in {"exit", "eof"}]

debugger_interrupt_handler ==
  "signal" \in Lines /\ ~mi.quit /\ ~mi.signal /\ mi' = [mi EXCEPT !.signal = TRUE]

TerminalTypes == ~mi.quit /\ mi.connected /\ Room(mi) > 0 /\ mi' \in queue_terminal_input(mi)
TerminalCloses == ~mi.quit /\ mi.connected /\ mi' = [mi EXCEPT !.connected = FALSE]

Next ==
  \/ run_target
  \/ \E frame \in InlineFrames : handle_command(frame)
  \/ ClientWrites \/ LateLine \/ debugger_interrupt_handler
  \/ TerminalTypes \/ TerminalCloses

-----------------------------------------------------------------------------
(* A breakpoint is counted, and can stop the target, once for each time the *)
(* target comes to it: a resumed target executes an instruction before the   *)
(* breakpoint it stands on is looked at again.                              *)
OneHitPerArrival == ~mi.twice

(* A step over a line ends in the same call or in a caller, never in one     *)
(* the line made; and a finish ends in the caller of the selected frame,    *)
(* recursive calls through the same return address included.  (From a        *)
(* function whose frame is not built yet, finish works on its caller.)      *)
StepsEndWhereAsked == ~mi.astray

(* A request to interrupt the running target stops it, whatever it does.    *)
InterruptStops == mi.signal \/ mi.cin \in {"interrupt", "control-c"} ~> mi.mode = "idle"
=============================================================================
