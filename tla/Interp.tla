------------------------------- MODULE Interp -------------------------------
(***************************************************************************)
(* The interpreter's stacks (src/runtime/src/interp/mod.rs, run_loop and   *)
(* its callers): one value stack and one frame stack per fiber, hoisted    *)
(* while the fiber runs.  A callee's frame lies over its arguments, which  *)
(* stay where the caller pushed them.                                      *)
(*                                                                         *)
(* The program is any program: at every step the running frame executes    *)
(* any instruction whose operands are above its locals, which compiled     *)
(* code guarantees.  What instructions compute, and the jumps between      *)
(* them, are left open; pc is kept only for the one thing that moves it    *)
(* back, the native that has to be called again.                           *)
(*                                                                         *)
(* A virtual call without an implementation runs Rust code, which may call *)
(* back into a run_loop of its own: rust lists the loops waiting for it.   *)
(***************************************************************************)
EXTENDS Integers, Sequences, SequencesExt

CONSTANTS
  Fibers,
  Functions,
  Params,          \* param_count of each function
  Locals,          \* local_count of each function
  Value,
  Unit,
  Closure,         \* the closures among the values: their func and captures
  MAX_CALL_DEPTH,
  MaxStack,        \* bound: the values on one stack
  MaxNest,         \* bound: run_loops inside each other
  NoFiber

Onward == -1      \* a pc at any instruction
InFallback == -2  \* a pc inside a virtual call

ASSUME InterpAssumption ==
  /\ Params \in [Functions -> Nat] /\ Locals \in [Functions -> Nat]
  /\ \A func \in Functions : Params[func] <= Locals[func]
  /\ Unit \in Value /\ DOMAIN Closure \subseteq Value
  /\ MAX_CALL_DEPTH \in Nat /\ MaxStack \in Nat /\ MaxNest \in Nat
  /\ NoFiber \notin Fibers

VARIABLES
  current,     \* the running fiber
  frame,       \* the active frame; its func is "rust" in Rust code
  frames, vstack,
  base_depth,
  rust,        \* frame and base_depth of each run_loop that waits for Rust code
  fiber,       \* the fibers that do not run, with their saved stacks
  trap

loopVars == <<frame, frames, vstack, base_depth, rust>>
vars == <<current, loopVars, fiber, trap>>

Rust == [func |-> "rust", base |-> 0, pc |-> Onward]
Fresh == [state |-> "new", vstack |-> <<>>, frames |-> <<>>]

Init ==
  /\ current = NoFiber
  /\ frame = Rust /\ frames = <<>> /\ vstack = <<>> /\ base_depth = 0 /\ rust = <<>>
  /\ fiber = [f \in Fibers |-> Fresh]
  /\ trap = "none"

Drop(s, n) == SubSeq(s, 1, Len(s) - n)
Floor(fr) == fr.base + Locals[fr.func]

\* The next instruction may pop n operands.
Executes(n) ==
  /\ trap = "none" /\ current # NoFiber /\ frame # Rust /\ frame.pc = Onward
  /\ Len(vstack) - Floor(frame) >= n

\* Instructions that only move values: vstack becomes s.
Leaves(s) ==
  /\ Len(s) <= MaxStack
  /\ vstack' = s
  /\ UNCHANGED <<current, frame, frames, base_depth, rust, fiber, trap>>

-----------------------------------------------------------------------------
(* Constants, locals, operations and constructors.                         *)

\* Pops n values; pushes one or none.
Operate(n) ==
  /\ Executes(n)
  /\ Leaves(Drop(vstack, n)) \/ \E v \in Value : Leaves(Append(Drop(vstack, n), v))

Dup == Executes(1) /\ Leaves(Append(vstack, Last(vstack)))

Load(slot) ==
  /\ Executes(0) /\ slot <= Locals[frame.func]
  /\ Leaves(Append(vstack, vstack[frame.base + slot]))

Store(slot) ==
  /\ Executes(1) /\ slot <= Locals[frame.func]
  /\ Leaves([Drop(vstack, 1) EXCEPT ![frame.base + slot] = Last(vstack)])

-----------------------------------------------------------------------------
(* Calls.                                                                  *)

\* enter_frame over the arguments on top of s: the frame, and the stack with
\* the other locals.
EnterFrame(s, func) == [func |-> func, base |-> Len(s) - Params[func], pc |-> Onward]
Resized(s, func) == s \o [i \in 1 .. Locals[func] - Params[func] |-> Unit]

\* enter_call!
EnterCall(s, func) ==
  IF Len(frames) >= MAX_CALL_DEPTH
  THEN trap' = "StackOverflow" /\ UNCHANGED <<current, loopVars, fiber>>
  ELSE /\ Len(Resized(s, func)) <= MaxStack
       /\ frames' = Append(frames, frame)
       /\ frame' = EnterFrame(s, func)
       /\ vstack' = Resized(s, func)
       /\ UNCHANGED <<current, base_depth, rust, fiber, trap>>

\* Call, and CallVirtual where the receiver's type has an implementation.
Call(func) == Executes(Params[func]) /\ EnterCall(vstack, func)

Spliced_After(slot, captures) ==
  Drop(vstack, Len(vstack) - slot + 1) \o SubSeq(vstack, slot + 1, Len(vstack)) \o captures

\* The stack with the closure in slot replaced by its captures.
Spliced(slot, captures) ==
  Drop(vstack, Len(vstack) - slot + 1) \o captures \o SubSeq(vstack, slot + 1, Len(vstack))

CallIndirect(argc) ==
  /\ Executes(argc + 1)
  /\ LET slot == Len(vstack) - argc
         k == vstack[slot]
     IN /\ k \in DOMAIN Closure
        /\ Params[Closure[k].func] = Len(Closure[k].captures) + argc
        /\ EnterCall(Spliced(slot, Closure[k].captures), Closure[k].func)

\* CallVirtual without an implementation: the arguments are copied and dropped.
VirtualFallback(argc) ==
  /\ argc > 0 /\ Executes(argc) /\ Len(rust) < MaxNest
  /\ vstack' = Drop(vstack, argc)
  /\ rust' = Append(rust, [frame |-> frame, base_depth |-> base_depth])
  /\ frame' = Rust
  /\ UNCHANGED <<current, frames, base_depth, fiber, trap>>

\* debug_value calls an implementation of debug.
NestedCall(func, v) ==
  /\ trap = "none" /\ rust # <<>> /\ frame = Rust /\ Params[func] = 1
  /\ LET s == Append(vstack, v) IN
     /\ Len(Resized(s, func)) <= MaxStack
     /\ frame' = EnterFrame(s, func) /\ vstack' = Resized(s, func)
  /\ base_depth' = Len(frames)
  /\ UNCHANGED <<current, frames, rust, fiber, trap>>

FallbackReturn(v) ==
  /\ trap = "none" /\ rust # <<>> /\ frame = Rust /\ Len(vstack) < MaxStack
  /\ vstack' = Append(vstack, v)
  /\ frame' = Last(rust).frame /\ base_depth' = Last(rust).base_depth
  /\ rust' = Front(rust)
  /\ UNCHANGED <<current, frames, fiber, trap>>

Unwound_ToFloor == SubSeq(vstack, 1, Floor(frame))

\* The stack without the returning frame's slots.
Unwound == SubSeq(vstack, 1, frame.base)

Return ==
  /\ Executes(0)
  /\ LET value == IF Len(vstack) > Floor(frame) THEN Last(vstack) ELSE Unit IN
     IF Len(frames) > base_depth
     THEN /\ frame' = Last(frames) /\ frames' = Front(frames)
          /\ vstack' = Append(Unwound, value)
          /\ UNCHANGED <<current, fiber>>
     ELSE /\ frame' = Rust /\ vstack' = Unwound
          /\ UNCHANGED frames
          /\ IF rust # <<>> THEN UNCHANGED <<current, fiber>>
             ELSE /\ current' = NoFiber
                  /\ fiber' = [fiber EXCEPT ![current] = [Fresh EXCEPT !.state = "done"]]
  /\ UNCHANGED <<base_depth, rust, trap>>

-----------------------------------------------------------------------------
(* Native calls, and the fibers they park.                                 *)

CallsNative(argc) ==
  /\ trap = "none" /\ current # NoFiber /\ frame # Rust /\ frame.pc \in {Onward, argc}
  /\ Len(vstack) - Floor(frame) >= argc

NativeReturns(argc, v) ==
  /\ CallsNative(argc) /\ Len(vstack) - argc < MaxStack
  /\ vstack' = Append(Drop(vstack, argc), v)
  /\ frame' = [frame EXCEPT !.pc = Onward]
  /\ UNCHANGED <<current, frames, base_depth, rust, fiber, trap>>

\* The run_loop hands the fiber's stacks over, with the active frame as fr.  In
\* a nested run_loop that is the Bug trap of call.
Parks(state, s, fr) ==
  IF rust # <<>>
  THEN trap' = "Bug" /\ UNCHANGED <<current, loopVars, fiber>>
  ELSE /\ fiber' = [fiber EXCEPT ![current] =
                      [state |-> state, vstack |-> s, frames |-> Append(frames, fr)]]
       /\ current' = NoFiber
       /\ frame' = Rust /\ frames' = <<>> /\ vstack' = <<>>
       /\ UNCHANGED <<base_depth, rust, trap>>

\* BlockRetry, Ready: the call is executed again, with the arguments it left.
NativeRetries(argc) ==
  CallsNative(argc) /\ Parks("ready", vstack, [frame EXCEPT !.pc = argc])

\* YieldReady, Timer, Multi ("ready"), and Await, whose placeholder is a Unit.
NativeParks(argc, state) ==
  /\ CallsNative(argc) /\ Len(vstack) - argc < MaxStack
  /\ Parks(state, Append(Drop(vstack, argc), Unit), [frame EXCEPT !.pc = Onward])

\* deliver
Deliver(f, v) ==
  /\ trap = "none" /\ fiber[f].state = "await"
  /\ fiber' = [fiber EXCEPT ![f].state = "ready", ![f].vstack[Len(fiber[f].vstack)] = v]
  /\ UNCHANGED <<current, loopVars, trap>>

\* next_ready, on a fiber that was spawned on closure k ...
Start(f, k) ==
  /\ trap = "none" /\ current = NoFiber /\ fiber[f].state = "new"
  /\ LET s == vstack \o Closure[k].captures
         func == Closure[k].func
     IN /\ Params[func] = Len(Closure[k].captures)
        /\ frame' = EnterFrame(s, func) /\ vstack' = Resized(s, func)
  /\ current' = f
  /\ fiber' = [fiber EXCEPT ![f].state = "running"]
  /\ base_depth' = 0
  /\ UNCHANGED <<frames, rust, trap>>

\* ... and on one that was suspended.
Resume(f) ==
  /\ trap = "none" /\ current = NoFiber /\ fiber[f].state = "ready"
  /\ vstack' = fiber[f].vstack
  /\ frame' = Last(fiber[f].frames) /\ frames' = Front(fiber[f].frames)
  /\ current' = f
  /\ fiber' = [fiber EXCEPT ![f] = [Fresh EXCEPT !.state = "running"]]
  /\ base_depth' = 0
  /\ UNCHANGED <<rust, trap>>

-----------------------------------------------------------------------------

Argc == 0 .. 2

Instr ==
  \/ \E n \in Argc : Operate(n)
  \/ Dup
  \/ \E slot \in 1 .. MaxStack : Load(slot) \/ Store(slot)
  \/ \E func \in Functions : Call(func)
  \/ \E argc \in Argc : CallIndirect(argc)
  \/ \E argc \in Argc : VirtualFallback(argc)
  \/ Return
  \/ \E argc \in Argc, v \in Value : NativeReturns(argc, v)
  \/ \E argc \in Argc : NativeRetries(argc)
  \/ \E argc \in Argc, state \in {"ready", "await"} : NativeParks(argc, state)

Next ==
  \/ Instr
  \/ \E func \in Functions, v \in Value : NestedCall(func, v)
  \/ \E v \in Value : FallbackReturn(v)
  \/ \E f \in Fibers, v \in Value : Deliver(f, v)
  \/ \E f \in Fibers, k \in DOMAIN Closure : Start(f, k)
  \/ \E f \in Fibers : Resume(f)

Spec == Init /\ [][Next]_vars

-----------------------------------------------------------------------------

Frame == [func : Functions, base : 0 .. MaxStack, pc : {Onward} \cup Argc]

\* The stacks hold values and frames, and no call gets past MAX_CALL_DEPTH.
TypeOK ==
  /\ current \in Fibers \cup {NoFiber}
  /\ frame \in Frame \cup {Rust}
  /\ frames \in Seq(Frame) /\ Len(frames) <= MAX_CALL_DEPTH
  /\ vstack \in Seq(Value)
  /\ base_depth \in 0 .. Len(frames)
  /\ rust \in Seq([frame : Frame, base_depth : 0 .. MAX_CALL_DEPTH])
  /\ \A f \in Fibers : fiber[f].state \in {"new", "running", "ready", "await", "done"}
  /\ trap \in {"none", "StackOverflow", "Bug"}

\* "self.vstack is empty here": a fiber that parks or ends leaves nothing behind
\* for the next one, an ended fiber has unwound its whole stack, and no fiber is
\* left while Rust code waits for it.
SwitchesClean == current = NoFiber => vstack = <<>> /\ frames = <<>> /\ rust = <<>>

-----------------------------------------------------------------------------
(* The shared stack holds separate activations.                            *)

\* Where the frame of the k-th waiting run_loop belongs among frames.
Depth(k) ==
  IF k < Len(rust) THEN rust[k + 1].base_depth
  ELSE IF frame = Rust THEN Len(frames) ELSE base_depth

AllFrames ==
  LET loops == [k \in DOMAIN rust |-> [frame |-> rust[k].frame, at |-> Depth(k)]]
      insert(l, s) == InsertAt(s, l.at + 1, [l.frame EXCEPT !.pc = InFallback])
      own == IF frame = Rust THEN frames ELSE Append(frames, frame)
  IN IF rust = <<>> THEN own ELSE FoldRight(insert, loops, own)

\* The activations that frames fs cut stack s into.
Activations(fs, s, awaits) ==
  [i \in DOMAIN fs |->
    LET end == IF i < Len(fs) THEN fs[i + 1].base
               ELSE IF awaits THEN Len(s) - 1 ELSE Len(s)
    IN [func |-> fs[i].func,
        locals |-> SubSeq(s, fs[i].base + 1, Floor(fs[i])),
        operands |-> SubSeq(s, Floor(fs[i]) + 1, end),
        status |-> IF fs[i].pc = InFallback THEN "fallback"
                   ELSE IF awaits /\ i = Len(fs) THEN "await" ELSE "runs"]]

F == INSTANCE FrameStack WITH stack <-
       [f \in Fibers |-> IF f = current THEN Activations(AllFrames, vstack, FALSE)
                         ELSE Activations(fiber[f].frames, fiber[f].vstack,
                                          fiber[f].state = "await")]

\* One value stack shared by all frames of a fiber, saved and restored around
\* parks, behaves like a stack of activations with locals and operands each:
\* calls hand over their arguments in order, every call leaves one result, and
\* nothing else of a caller changes while its callees run.
ImplementsFrameStack == F!Spec

\* "Valid bytecode from a correct producer never triggers this" (Trap::Bug).
NoBugTrap == trap # "Bug"

\* "runaway recursion traps rather than growing the stack until the process
\* dies": the native stack, which every nested run_loop grows, is bounded by
\* the call depth limit.
NativeStackBounded == Len(rust) <= MAX_CALL_DEPTH
=============================================================================
