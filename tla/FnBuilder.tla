----------------------------- MODULE FnBuilder -----------------------------
(* The assembler: FnBuilder of src/runtime/src/builder.rs. A job is what a  *)
(* caller sets out to build, and calls bounds what it does per function. A  *)
(* label is named by its place, an instruction is its name and operands.    *)
EXTENDS Integers, Sequences, FiniteSets

CONSTANTS
  Jobs,    \* functions (name and parameters), and what may be emitted in them
  MaxU16   \* u16::MAX, the largest slot

VARIABLES
  job, doing,
  fn,         \* the builder in use
  functions,  \* what has been finished
  calls,      \* the calls made on fn (history)
  listings    \* the calls that made each of functions (history)

builderVars == <<job, doing, fn, functions, calls, listings>>

Jumps == {"Jump", "JumpIfTrue", "JumpIfFalse"}
Unbound == -1

\* Slots are u16, and what a caller gives to emit_jump is a jump.
ASSUME JobsAssumption ==
  /\ MaxU16 \in Nat
  /\ \A j \in Jobs :
       /\ Len(j.functions) \in Nat \ {0} /\ DOMAIN j.functions = 1..Len(j.functions)
       /\ \A n \in DOMAIN j.functions : j.functions[n].param_count \in Nat
       /\ j.slots \subseteq 0..MaxU16 /\ j.jumps \subseteq Jumps

new(f) ==
  [name |-> f.name, param_count |-> f.param_count, local_count |-> f.param_count,
   code |-> <<>>, label_addrs |-> <<>>, fixups |-> <<>>]

BuilderInit ==
  /\ job \in Jobs
  /\ doing = "build"
  /\ fn = new(job.functions[1])
  /\ functions = <<>> /\ calls = <<>> /\ listings = <<>>

Calls(c) ==
  /\ doing = "build" /\ Len(calls) < job.calls
  /\ calls' = Append(calls, c)
  /\ UNCHANGED <<job, functions, listings>>

-----------------------------------------------------------------------------
label ==
  /\ Len(fn.label_addrs) < job.labels
  /\ Calls([does |-> "label"])
  /\ fn' = [fn EXCEPT !.label_addrs = Append(@, Unbound)]
  /\ UNCHANGED doing

\* Names the instruction emitted last.
Bound_Last(l) == [fn EXCEPT !.label_addrs[l] = IF fn.code = <<>> THEN 0 ELSE Len(fn.code) - 1]

\* The next instruction emitted is what the label names. Binding it again is the
\* caller's mistake, and panics.
Bound(l) == [fn EXCEPT !.label_addrs[l] = Len(fn.code)]

bind(l) ==
  /\ Calls([does |-> "bind", label |-> l])
  /\ IF fn.label_addrs[l] # Unbound
     THEN doing' = "panic" /\ UNCHANGED fn
     ELSE fn' = Bound(l) /\ UNCHANGED doing

Emitted(b, i) == [b EXCEPT !.code = Append(@, i)]

\* Also what a caller that makes its Function by hand puts in the code.
emit(i) ==
  /\ Calls([does |-> "emit", instr |-> i])
  /\ fn' = Emitted(fn, i)
  /\ UNCHANGED doing

\* load, store: the frame grows to hold the slot, and saturates.
bump_locals(b, slot) ==
  LET next == IF slot = MaxU16 THEN MaxU16 ELSE slot + 1
  IN [b EXCEPT !.local_count = IF next > @ THEN next ELSE @]

touch(op, slot) ==
  /\ Calls([does |-> "touch", instr |-> [op |-> op, args |-> <<slot>>]])
  /\ fn' = Emitted(bump_locals(fn, slot), [op |-> op, args |-> <<slot>>])
  /\ UNCHANGED doing

emit_jump(op, l) ==
  /\ Calls([does |-> "jump", op |-> op, label |-> l])
  /\ fn' = Emitted([fn EXCEPT !.fixups = Append(@, [at |-> Len(fn.code) + 1, label |-> l])],
                   [op |-> op, args |-> <<0>>])
  /\ UNCHANGED doing

\* Every jump gets the address of its label. A label that is referenced and was
\* never bound panics.
Unresolved(b) ==
  \E k \in DOMAIN b.fixups : \/ b.label_addrs[b.fixups[k].label] = Unbound
                             \/ b.code[b.fixups[k].at].op \notin Jumps

Patched(b) ==
  [i \in DOMAIN b.code |->
     IF \E k \in DOMAIN b.fixups : b.fixups[k].at = i
     THEN LET k == CHOOSE k \in DOMAIN b.fixups : b.fixups[k].at = i
          IN [b.code[i] EXCEPT !.args = <<b.label_addrs[b.fixups[k].label]>>]
     ELSE b.code[i]]

Function(b, code) ==
  [name |-> b.name, param_count |-> b.param_count, local_count |-> b.local_count, code |-> code]

finish ==
  /\ doing = "build"
  /\ UNCHANGED job
  /\ IF Unresolved(fn)
     THEN doing' = "panic" /\ UNCHANGED <<fn, functions, calls, listings>>
     ELSE /\ functions' = Append(functions, Function(fn, Patched(fn)))
          /\ listings' = Append(listings, calls)
          /\ calls' = <<>>
          /\ IF Len(functions') < Len(job.functions)
             THEN fn' = new(job.functions[Len(functions') + 1]) /\ UNCHANGED doing
             ELSE doing' = "link" /\ UNCHANGED fn

BuilderNext ==
  \/ label
  \/ \E l \in DOMAIN fn.label_addrs : bind(l)
  \/ \E i \in job.instrs : emit(i)
  \/ \E op \in {"Load", "Store"}, slot \in job.slots : touch(op, slot)
  \/ \E op \in job.jumps, l \in DOMAIN fn.label_addrs : emit_jump(op, l)
  \/ finish

BuilderSpec == BuilderInit /\ [][BuilderNext]_builderVars

-----------------------------------------------------------------------------
\* What a listing means, read off the calls themselves.
IsInstr(c) == c.does \in {"emit", "touch", "jump"}
Before(list, k) == Cardinality({i \in 1..k - 1 : IsInstr(list[i])})
Binds(list, l) == {k \in DOMAIN list : list[k].does = "bind" /\ list[k].label = l}
Means(list, c) ==
  IF c.does # "jump" THEN c.instr
  ELSE [op |-> c.op, args |-> <<Before(list, CHOOSE k \in Binds(list, c.label) : TRUE)>>]

Touched(list) ==
  {list[k].instr.args[1] : k \in {j \in DOMAIN list : list[j].does = "touch"}}

\* "Jumps reference Labels that are resolved to addresses at finish, and
\* local_count is tracked from the slots that load/store touch" (builder.rs:6):
\* a finished function is its listing, a jump leads to the instruction that
\* follows the bind of its label, however the two were interleaved with others,
\* and the frame is just large enough. What has no such meaning was refused.
AssemblesListing ==
  \A n \in DOMAIN functions :
    LET f == functions[n]
        list == listings[n]
        slots == Touched(list)
    IN /\ Len(f.code) = Before(list, Len(list) + 1)
       /\ \A k \in DOMAIN list :
            /\ list[k].does \in {"bind", "jump"} => Cardinality(Binds(list, list[k].label)) = 1
            /\ IsInstr(list[k]) => f.code[Before(list, k) + 1] = Means(list, list[k])
       /\ \A slot \in slots : slot < f.local_count
       /\ f.local_count = f.param_count \/ f.local_count - 1 \in slots
=============================================================================
