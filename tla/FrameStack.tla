----------------------------- MODULE FrameStack -----------------------------
(***************************************************************************)
(* What the instruction set promises (src/runtime/src/instr.rs): every     *)
(* activation of a function has locals and operands of its own, and an     *)
(* instruction touches those of the innermost activation only.             *)
(*                                                                         *)
(* What an instruction computes is left open; the values that calls hand   *)
(* over, in which order, and where the result goes, are not.               *)
(***************************************************************************)
EXTENDS Integers, Sequences, SequencesExt

CONSTANTS Fibers, Functions, Params, Locals, Value, Unit, Closure

VARIABLE stack   \* each fiber's activations, the innermost last

Activation(func, args) ==
  [func |-> func, operands |-> <<>>, status |-> "runs",
   locals |-> args \o [i \in 1 .. Locals[func] - Params[func] |-> Unit]]

Top(f) == Last(stack[f])
Runs(f) == stack[f] # <<>> /\ Top(f).status = "runs"
Operands(f) == Top(f).operands

\* The last n operands of the innermost activation, and the others.
Args(f, n) == SubSeq(Operands(f), Len(Operands(f)) - n + 1, Len(Operands(f)))
Rest(f, n) == SubSeq(Operands(f), 1, Len(Operands(f)) - n)
Has(f, n) == Runs(f) /\ Len(Operands(f)) >= n

\* The innermost activation of f has the given operands and status.
Left(f, operands, status) ==
  Front(stack[f]) \o <<[Top(f) EXCEPT !.operands = operands, !.status = status]>>
Becomes(f, activations) == stack' = [stack EXCEPT ![f] = activations]

Init == stack = [f \in Fibers |-> <<>>]

\* An instruction that pops n operands and pushes what it computes.
Operate(f) ==
  \E n \in 0 .. Len(Operands(f)) : Has(f, n) /\ \E out \in {<<>>} \cup {<<v>> : v \in Value} :
    Becomes(f, Left(f, Rest(f, n) \o out, "runs"))

Dup(f) == Has(f, 1) /\ Becomes(f, Left(f, Operands(f) \o Args(f, 1), "runs"))

Load(f) ==
  Runs(f) /\ \E i \in DOMAIN Top(f).locals :
    Becomes(f, Left(f, Append(Operands(f), Top(f).locals[i]), "runs"))

Store(f) ==
  Has(f, 1) /\ \E i \in DOMAIN Top(f).locals :
    Becomes(f, Front(stack[f]) \o
      <<[Top(f) EXCEPT !.operands = Rest(f, 1), !.locals[i] = Last(Operands(f))]>>)

Call(f) ==
  \E func \in Functions : LET n == Params[func] IN
    /\ Has(f, n)
    /\ Becomes(f, Append(Left(f, Rest(f, n), "runs"), Activation(func, Args(f, n))))

CallIndirect(f) ==
  \E n \in 0 .. Len(Operands(f)) - 1 : Has(f, n + 1) /\ LET k == Args(f, n + 1)[1] IN
    /\ k \in DOMAIN Closure
    /\ Becomes(f, Append(Left(f, Rest(f, n + 1), "runs"),
                         Activation(Closure[k].func, Closure[k].captures \o Args(f, n))))

\* The value returned goes to the caller, unless Rust code called.
Return(f) ==
  /\ Runs(f)
  /\ LET value == IF Operands(f) = <<>> THEN Unit ELSE Last(Operands(f))
         callers == Front(stack[f])
     IN Becomes(f, IF callers = <<>> \/ Last(callers).status = "fallback" THEN callers
                   ELSE Front(callers) \o <<[Last(callers) EXCEPT !.operands = Append(@, value)]>>)

\* A native, or the structural fallback of a virtual call, takes its arguments,
\* and later leaves one result.
Suspend(f) ==
  \E n \in 0 .. Len(Operands(f)) : Has(f, n) /\ \E status \in {"await", "fallback"} :
    Becomes(f, Left(f, Rest(f, n), status))

Result(f) ==
  /\ stack[f] # <<>> /\ Top(f).status \in {"await", "fallback"}
  /\ \E v \in Value : Becomes(f, Left(f, Append(Operands(f), v), "runs"))

\* The fallback calls back into Thera code.
Reenter(f) ==
  /\ stack[f] # <<>> /\ Top(f).status = "fallback"
  /\ \E func \in Functions, v \in Value :
       Params[func] = 1 /\ Becomes(f, Append(stack[f], Activation(func, <<v>>)))

Start(f) ==
  /\ stack[f] = <<>>
  /\ \E k \in DOMAIN Closure :
       Becomes(f, <<Activation(Closure[k].func, Closure[k].captures)>>)

Next == \E f \in Fibers :
  \/ Start(f)
  \/ stack[f] # <<>> /\ \/ Operate(f) \/ Dup(f) \/ Load(f) \/ Store(f)
                        \/ Call(f) \/ CallIndirect(f) \/ Return(f)
                        \/ Suspend(f) \/ Result(f) \/ Reenter(f)

Spec == Init /\ [][Next]_stack
=============================================================================
