-------------------------------- MODULE Roots --------------------------------
(***************************************************************************)
(* The heap under the interpreter: who holds values while a program runs,  *)
(* and what a safepoint hands to the collector as roots                    *)
(* (src/runtime/src/interp/mod.rs, natives.rs and main.rs).                *)
(*                                                                         *)
(* A program is any sequence of the instructions that move values around.  *)
(* Values live on the running fiber's value stack, in the saved fibers, in *)
(* channel buffers, in module globals, and in Rust locals: those of a      *)
(* native, of the structural debug fallback, and of main.rs around the     *)
(* run.  Any parked fiber may run next: the order is module Scheduler's    *)
(* subject.                                                                *)
(***************************************************************************)
EXTENDS Heap

CONSTANTS
  EntryForms,  \* [params, init, ops]: main's parameters; is there an init
               \* thunk; the instructions the program uses, by name
  MaxKids,     \* bound: values an object holds
  MaxStack,    \* bound: values on a fiber's stack
  MaxFibers,   \* bound: fibers, main included
  MaxNested    \* bound: debug fallbacks inside one another

VARIABLES
  stage,      \* where main.rs is
  form,       \* the program's entry form
  host,       \* values main.rs will still use: the arguments, then the result
  vstack,     \* Vm.vstack
  fibers,     \* the Fibers, with the values each one saved
  current,    \* the fiber that runs; 0: none, the driver is choosing
  buffer,     \* the buffers of the channels, as one
  fallbacks,  \* the virtual_fallback calls under way: stack base and locals
  native,     \* is a native between two of its steps?
  locals      \* and the values in its locals

hostVars == <<stage, form, host>>
fiberVars == <<fibers, current, buffer>>
rustVars == <<fallbacks, native, locals>>
progVars == <<hostVars, vstack, fiberVars, rustVars>>
vars == <<heapVars, progVars>>

MAIN == 1
NoFiber == 0
FiberStates == {"Running", "NotStarted", "Suspended", "Awaiting", "Done"}
Saved(st, values) == [st |-> st, vals |-> values]

ASSUME RootsAssumption ==
  /\ \A p \in EntryForms : p.params \in {0, 1} /\ p.init \in BOOLEAN
  /\ MaxKids \in Nat /\ MaxStack \in Nat /\ MaxKids <= MaxStack
  /\ MaxFibers \in Nat \ {0} /\ MaxNested \in Nat

Init ==
  /\ HeapInit
  /\ stage = "args" /\ form \in EntryForms /\ host = <<>>
  /\ vstack = <<>> /\ fibers = <<>> /\ current = NoFiber /\ buffer = <<>>
  /\ fallbacks = <<>> /\ native = FALSE /\ locals = <<>>

-----------------------------------------------------------------------------
(* Around the run: main.rs builds the arguments, runs the init thunk, and  *)
(* then runs the entry over them.                                          *)

StartRun(args) ==
  /\ vstack' = args
  /\ fibers' = <<Saved("Running", <<>>)>> /\ current' = MAIN

\* Each argument becomes a string, ...
NewArg ==
  /\ stage = "args" /\ host = <<>>
  /\ Alloc(<<>>)
  /\ host' = <<NewHandle>>
  /\ UNCHANGED <<envVars, stage, form, vstack, fiberVars, rustVars>>

\* ... their list becomes the one argument of main, if it takes one, and
\* the globals are set up before the init thunk runs.
NewArgv ==
  /\ stage = "args" /\ host # <<>>
  /\ Alloc(host)
  /\ SetGlobals
  /\ LET args == IF form.params = 1 THEN <<NewHandle>> ELSE <<>>
     IN IF form.init
        THEN stage' = "init" /\ StartRun(<<>>) /\ host' = args
        ELSE stage' = "main" /\ StartRun(args) /\ host' = <<>>
  /\ UNCHANGED <<GC_PAUSED, INTERN, form, buffer, rustVars>>

-----------------------------------------------------------------------------
(* Between two instructions of the running fiber.                          *)

Executing == /\ gc.phase = "off" /\ stage \in {"init", "main"}
             /\ current # NoFiber /\ ~native

GatherRoots_NoResults ==
  Range(vstack) \cup Range(buffer)
  \cup UNION {Range(fibers[f].vals) : f \in {g \in DOMAIN fibers : fibers[g].st # "Done"}}

\* The running fiber's stack, and gather_scheduler_roots.
GatherRoots ==
  Range(vstack) \cup Range(buffer) \cup UNION {Range(fibers[f].vals) : f \in DOMAIN fibers}

\* poll_gc!: the instructions guarded by Safepoint run it first.
PollGc ==
  /\ Executing /\ ShouldCollect
  /\ Collect(GatherRoots)
  /\ UNCHANGED progVars

\* Every nested safepoint finds the collector paused.
Safepoint == Executing /\ ~ShouldCollect

Ceiling_EstimateBefore == heap_bytes > MAX_HEAP

\* The end of poll_gc!: the ceiling is enforced once garbage is gone.
Ceiling == OverCeiling

FinishGc ==
  /\ SweepDone
  /\ stage' = IF Ceiling THEN "oom" ELSE stage
  /\ UNCHANGED <<form, host, vstack, fiberVars, rustVars>>

Collecting == (MarkStep \/ MarkDone \/ SweepStep) /\ UNCHANGED progVars

-----------------------------------------------------------------------------
(* The instructions.                                                       *)

Base == IF fallbacks = <<>> THEN 0 ELSE Last(fallbacks).base
Depth == Len(vstack) - Base
Below(n) == SubSeq(vstack, 1, Len(vstack) - n)
Top(n) == SubSeq(vstack, Len(vstack) - n + 1, Len(vstack))
Room == Len(vstack) < MaxStack

heapQuiet == UNCHANGED heapVars
elsewhere == UNCHANGED <<hostVars, fiberVars, rustVars>>

Load ==
  /\ "load" \in form.ops /\ Executing /\ Room
  /\ \E i \in (Base + 1) .. Len(vstack) : vstack' = Append(vstack, vstack[i])
  /\ heapQuiet /\ elsewhere

Store ==
  /\ "load" \in form.ops /\ Executing /\ Depth > 1
  /\ \E i \in (Base + 1) .. (Len(vstack) - 1) : vstack' = [Below(1) EXCEPT ![i] = Last(vstack)]
  /\ heapQuiet /\ elsewhere

Pop ==
  /\ Executing /\ Depth > 0
  /\ vstack' = Below(1)
  /\ heapQuiet /\ elsewhere

GlobalGet ==
  /\ "global" \in form.ops /\ Executing /\ Room
  /\ \E g \in Global : vstack' = Append(vstack, GLOBALS[g])
  /\ heapQuiet /\ elsewhere

GlobalSet ==
  /\ "global" \in form.ops /\ Executing /\ Depth > 0
  /\ \E g \in Global : GLOBALS' = [GLOBALS EXCEPT ![g] = Last(vstack)]
  /\ vstack' = Below(1)
  /\ UNCHANGED <<slabVars, byteVars, GC_PAUSED, INTERN, gc>>
  /\ elsewhere

\* ConstStr: intern_str allocates a literal's string on first use only.
ConstStr ==
  /\ "const" \in form.ops /\ Safepoint /\ Room
  /\ \E s \in Literals :
       IF INTERN[s] # Plain
       THEN vstack' = Append(vstack, INTERN[s]) /\ heapQuiet
       ELSE /\ Alloc(<<>>)
            /\ INTERN' = [INTERN EXCEPT ![s] = NewHandle]
            /\ vstack' = Append(vstack, NewHandle)
            /\ UNCHANGED <<GC_PAUSED, GLOBALS>>
  /\ elsewhere

\* ListNew, StructNew, EnumNew, ClosureNew: the operands move into the object.
New ==
  /\ Safepoint
  /\ \E n \in 0 .. MaxKids :
       /\ Depth >= n /\ Len(vstack) - n < MaxStack
       /\ Alloc(Top(n))
       /\ vstack' = Append(Below(n), NewHandle)
  /\ UNCHANGED envVars /\ elsewhere

\* FieldGet, EnumGet, ListGet: an object is replaced by one of its values.
FieldGet ==
  /\ "field" \in form.ops /\ Executing /\ Depth > 0 /\ Last(vstack) # Plain
  /\ slots[Last(vstack)] # Hole
  /\ \E i \in DOMAIN slots[Last(vstack)] :
       vstack' = Append(Below(1), slots[Last(vstack)][i])
  /\ heapQuiet /\ elsewhere

\* FieldSet, ListSet: object and value are popped, the value is stored.
FieldSet ==
  /\ "field" \in form.ops /\ Executing /\ Depth > 1
  /\ LET h == vstack[Len(vstack) - 1]
     IN /\ h # Plain /\ slots[h] # Hole
        /\ \E i \in DOMAIN slots[h] : slots' = [slots EXCEPT ![h][i] = Last(vstack)]
  /\ vstack' = Below(2)
  /\ UNCHANGED <<slab, free, byteVars, envVars, gc>>
  /\ elsewhere

-----------------------------------------------------------------------------
(* Natives: no safepoint lies between their steps.                         *)

\* list.push, and likewise map inserts and BytesBuilder writes: the object
\* grows in place, through with_obj_mut or take_obj and restore_obj.
ListPush ==
  /\ "push" \in form.ops /\ Safepoint /\ Depth > 1
  /\ LET h == vstack[Len(vstack) - 1]
     IN /\ h # Plain /\ slots[h] # Hole /\ Len(slots[h]) < MaxKids
        /\ slots' = [slots EXCEPT ![h] = Append(@, Last(vstack))]
  /\ vstack' = Append(Below(2), Plain)
  /\ UNCHANGED <<slab, free, byteVars, envVars, gc>>
  /\ elsewhere

\* A native that returns a list of new strings (split, read_dir, ...).
CallNative ==
  /\ "native" \in form.ops /\ Safepoint /\ Room
  /\ native' = TRUE
  /\ heapQuiet /\ UNCHANGED <<hostVars, vstack, fiberVars, fallbacks, locals>>

InNative == native /\ gc.phase = "off"

NativeNewStr ==
  /\ InNative /\ Len(locals) < MaxKids
  /\ Alloc(<<>>)
  /\ locals' = Append(locals, NewHandle)
  /\ UNCHANGED <<envVars, hostVars, vstack, fiberVars, fallbacks, native>>

NativeReturn ==
  /\ InNative
  /\ Alloc(locals)
  /\ vstack' = Append(vstack, NewHandle)
  /\ native' = FALSE /\ locals' = <<>>
  /\ UNCHANGED <<envVars, hostVars, fiberVars, fallbacks>>

-----------------------------------------------------------------------------
(* CallVirtual without a dispatch row: virtual_fallback and debug_value    *)
(* hold the receiver and what they cloned out of it in Rust locals, call   *)
(* debug implementations, and return a string.                             *)

Pause_Forgotten == GC_PAUSED' = GC_PAUSED

Pause == GC_PAUSED' = GC_PAUSED + 1

VirtualFallback ==
  /\ "virtual" \in form.ops /\ Safepoint /\ Depth > 0 /\ Len(fallbacks) < MaxNested
  /\ Last(vstack) # Plain /\ slots[Last(vstack)] # Hole
  /\ vstack' = Below(1)
  /\ fallbacks' = Append(fallbacks, [base |-> Len(vstack) - 1,
                                     vals |-> <<Last(vstack)>> \o slots[Last(vstack)]])
  /\ Pause
  /\ UNCHANGED <<slabVars, byteVars, INTERN, GLOBALS, gc, hostVars, fiberVars, native, locals>>

\* Vm::call: the nested function runs above the base until it returns.
NestedCall ==
  /\ Executing /\ fallbacks # <<>> /\ Depth = 0 /\ Room
  /\ \E v \in Range(Last(fallbacks).vals) : vstack' = Append(vstack, v)
  /\ heapQuiet /\ elsewhere

FallbackReturn ==
  /\ Executing /\ fallbacks # <<>> /\ Depth = 0 /\ Room
  /\ Alloc(<<>>)
  /\ GC_PAUSED' = GC_PAUSED - 1
  /\ vstack' = Append(vstack, NewHandle)
  /\ fallbacks' = Front(fallbacks)
  /\ UNCHANGED <<INTERN, GLOBALS, hostVars, fiberVars, native, locals>>

-----------------------------------------------------------------------------
(* Fibers and channels.                                                    *)

Spawn ==
  /\ "fiber" \in form.ops /\ Safepoint /\ Depth > 0 /\ Len(fibers) < MaxFibers
  /\ Last(vstack) # Plain /\ slots[Last(vstack)] # Hole
  /\ fibers' = Append(fibers, Saved("NotStarted", <<Last(vstack)>>))
  /\ vstack' = Append(Below(1), Plain)
  /\ heapQuiet /\ UNCHANGED <<hostVars, current, buffer, rustVars>>

\* A native parks.  An Await leaves a placeholder on the stack; inside a
\* nested call there is no one to resume the fiber, and the run ends.
Park ==
  /\ "fiber" \in form.ops /\ Safepoint
  /\ IF fallbacks # <<>>
     THEN stage' = "bug" /\ UNCHANGED <<vstack, fibers, current>>
     ELSE /\ \/ fibers' = [fibers EXCEPT ![current] = Saved("Suspended", vstack)]
             \/ /\ Room
                /\ fibers' = [fibers EXCEPT ![current] = Saved("Awaiting", Append(vstack, Plain))]
          /\ vstack' = <<>> /\ current' = NoFiber /\ UNCHANGED stage
  /\ heapQuiet /\ UNCHANGED <<form, host, buffer, rustVars>>

Idling == gc.phase = "off" /\ stage \in {"init", "main"} /\ current = NoFiber

\* deliver: the finish allocates the result, which takes the placeholder's place.
Deliver ==
  /\ Idling
  /\ \E f \in DOMAIN fibers :
       /\ fibers[f].st = "Awaiting"
       /\ Alloc(<<>>)
       /\ fibers' = [fibers EXCEPT ![f] =
                       Saved("Suspended", Append(Front(@.vals), NewHandle))]
  /\ UNCHANGED <<envVars, hostVars, vstack, current, buffer, rustVars>>

\* next_ready: a new fiber's stack is its closure's captures.
Resume ==
  /\ Idling
  /\ \E f \in DOMAIN fibers :
       /\ fibers[f].st \in {"NotStarted", "Suspended"}
       /\ vstack' = IF fibers[f].st = "NotStarted" THEN slots[fibers[f].vals[1]]
                    ELSE fibers[f].vals
       /\ fibers' = [fibers EXCEPT ![f] = Saved("Running", <<>>)]
       /\ current' = f
  /\ heapQuiet /\ UNCHANGED <<hostVars, buffer, rustVars>>

Complete(f, v) == fibers' = [fibers EXCEPT ![f] = Saved("Done", <<v>>)]

\* The top operand, or Unit when only locals are left.
Results == {Plain} \cup IF vstack = <<>> THEN {} ELSE {Last(vstack)}

\* Return from a spawned fiber's last frame.
FiberReturn ==
  /\ Executing /\ fallbacks = <<>> /\ current # MAIN
  /\ \E v \in Results : Complete(current, v)
  /\ vstack' = <<>> /\ current' = NoFiber
  /\ heapQuiet /\ UNCHANGED <<hostVars, buffer, rustVars>>

\* Return from main's last frame ends the run: the scheduler is reset.  After
\* the init thunk main.rs runs the entry, over the arguments it kept.
MainReturn ==
  /\ Executing /\ fallbacks = <<>> /\ current = MAIN
  /\ buffer' = <<>>
  /\ IF stage = "init"
     THEN stage' = "main" /\ StartRun(host) /\ host' = <<>>
     ELSE /\ stage' = "ended" /\ (\E v \in Results : host' = <<v>>)
          /\ vstack' = <<>> /\ fibers' = <<>> /\ current' = NoFiber
  /\ heapQuiet /\ UNCHANGED <<form, rustVars>>

Join ==
  /\ "fiber" \in form.ops /\ Safepoint /\ Room
  /\ \E f \in DOMAIN fibers :
       fibers[f].st = "Done" /\ vstack' = vstack \o fibers[f].vals
  /\ heapQuiet /\ elsewhere

Send ==
  /\ "chan" \in form.ops /\ Safepoint /\ Depth > 0 /\ buffer = <<>>
  /\ buffer' = <<Last(vstack)>>
  /\ vstack' = Append(Below(1), Plain)
  /\ heapQuiet /\ UNCHANGED <<hostVars, fibers, current, rustVars>>

\* The received value is wrapped in a new Some.
Receive ==
  /\ "chan" \in form.ops /\ Safepoint /\ Room /\ buffer # <<>>
  /\ Alloc(<<Head(buffer)>>)
  /\ vstack' = Append(vstack, NewHandle)
  /\ buffer' = Tail(buffer)
  /\ UNCHANGED <<envVars, hostVars, fibers, current, rustVars>>

-----------------------------------------------------------------------------
Startup == NewArg \/ NewArgv
Safepoints == PollGc \/ Collecting \/ FinishGc
Instr == Load \/ Store \/ Pop \/ GlobalGet \/ GlobalSet \/ ConstStr \/ New \/ FieldGet \/ FieldSet
Natives == ListPush \/ CallNative \/ NativeNewStr \/ NativeReturn
Fallbacks == VirtualFallback \/ NestedCall \/ FallbackReturn
Fibers == Spawn \/ Park \/ Deliver \/ Resume \/ FiberReturn \/ MainReturn \/ Join
Channels == Send \/ Receive

Next == Startup \/ Safepoints \/ Instr \/ Natives \/ Fallbacks \/ Fibers \/ Channels

Spec == Init /\ [][Next]_vars

-----------------------------------------------------------------------------
(* Properties.                                                             *)

\* Everything the program, a native or main.rs may still use.
Held ==
  Range(INTERN) \cup Range(GLOBALS)
  \cup UNION {Range(q) : q \in {vstack, buffer, host, locals}
                             \cup {fibers[f].vals : f \in DOMAIN fibers}
                             \cup {fallbacks[i].vals : i \in DOMAIN fallbacks}}

\* A set of handles that no object of it points out of.
Closed(S) == \A h \in S \cap Occupied : Children(slots[h]) \subseteq S

\* Reachability, with no worklist: what is in every closed set around values.
Reach(values) ==
  {h \in Handle : \A S \in SUBSET Handle : Refs(values) \subseteq S /\ Closed(S) => h \in S}

\* The bytes of the objects of S, each with its object.
Cells(S) == UNION {{h} \X (1 .. HeapBytes(slots[h])) : h \in S}

LiveBytes == Cardinality(Cells(Reach(Held) \cap Occupied))

\* The heap, the stacks and every holder of values keep their shape.
TypeOK ==
  /\ HeapTypeOK
  /\ stage \in {"args", "init", "main", "ended", "oom", "bug"} /\ form \in EntryForms
  /\ host \in Seq(Value) /\ vstack \in Seq(Value) /\ buffer \in Seq(Value)
  /\ fibers \in Seq([st : FiberStates, vals : Seq(Value)])
  /\ current \in 0 .. Len(fibers)
  /\ fallbacks \in Seq([base : Nat, vals : Seq(Value)])
  /\ native \in BOOLEAN /\ locals \in Seq(Value)

\* No use after free: whatever a program, a native, a fallback or main.rs
\* can still reach is an object, at every step of a collection too.  This is
\* what the expect("live handle") of with_obj and its kin relies on.
NoDangling == Reach(Held) \subseteq Occupied

\* The free list holds each hole of the slab once and nothing else, so that
\* alloc never overwrites an object and never forgets a hole.
FreeListExact ==
  /\ \A i, j \in DOMAIN free : free[i] = free[j] => i = j
  /\ Range(free) = {h \in Handle : h < slab /\ slots[h] = Hole}
  /\ Occupied \subseteq 0 .. (slab - 1)

\* A collection keeps what can be reached and frees everything else, cycles
\* included: the sweep ends with the reachable objects in the slab and no other,
\* and with an estimate equal to their bytes, however far lists that grew in
\* place (ListPush), uncounted, had let it stray.
CollectsExactly ==
  [][gc.phase = "sweep" /\ gc'.phase = "off" =>
       (Occupied = Reach(Held) /\ heap_bytes = LiveBytes)']_vars

\* A heap past its threshold or its ceiling has a collection armed for the next
\* safepoint, where the ceiling is tested.
CollectionArmed ==
  gc.phase = "off" /\ stage # "oom" /\ (heap_bytes >= next_gc_bytes \/ heap_bytes > MAX_HEAP)
    => GC_PENDING

\* The ceiling of the estimate is enforced both ways: past it a collection is
\* armed, and Trap::OutOfMemory is raised only if the bytes that can be reached
\* exceed it.
CeilingExact ==
  /\ CollectionArmed
  /\ stage = "oom" => LiveBytes > MAX_HEAP

\* "the interpreter traps instead of growing": a safepoint that has nothing
\* to collect is passed only by a program whose live data fits.
CeilingHolds == Safepoint /\ ~GC_PENDING => LiveBytes <= MAX_HEAP
=============================================================================
