-------------------------------- MODULE Heap --------------------------------
(***************************************************************************)
(* The object heap and its collector (src/runtime/src/heap.rs).            *)
(*                                                                         *)
(* A value is a handle or a plain value (Int, Double, Bool, Unit), and an  *)
(* object is the sequence of values it holds: for_each_child visits every  *)
(* field, element, key, entry or capture alike, and strings and byte       *)
(* buffers hold none.  The slab is a function on the handles there may     *)
(* ever be, of which the first slab exist.                                 *)
(*                                                                         *)
(* A collection runs to its end inside one safepoint.  It is a sequence of *)
(* steps here, one per iteration of its mark and sweep loops, and no other *)
(* action is enabled while gc.phase is not "off".  The mark worklist is a  *)
(* set: the order in which it is drained is not observable.                *)
(*                                                                         *)
(* A definition named X_What is X with a plausible mistake, here as in the *)
(* other modules.                                                          *)
(***************************************************************************)
EXTENDS Integers, Sequences, FiniteSets, Functions

CONSTANTS
  MaxSlots,      \* bound: slots the slab may grow to
  MIN_GC_BYTES,  \* the collection floor
  MAX_HEAP,      \* the ceiling on the live heap
  Literals,      \* the string constants of the program
  GlobalCount,   \* module.global_count
  Plain,         \* a value that is no reference
  Hole           \* a free slot

Handle == 0 .. (MaxSlots - 1)
Value == Handle \cup {Plain}
Obj == Seq(Value)
Global == 1 .. GlobalCount

ASSUME HeapAssumption ==
  /\ MaxSlots \in Nat \ {0}
  /\ MIN_GC_BYTES \in Nat \ {0}
  /\ MAX_HEAP \in Nat
  /\ GlobalCount \in Nat
  /\ Plain \notin Int
  /\ Hole \notin Obj

VARIABLES
  slots,          \* Heap.slots
  slab,           \* Heap.slots.len()
  free,           \* Heap.free
  heap_bytes,     \* Heap.heap_bytes
  next_gc_bytes,  \* Heap.next_gc_bytes
  GC_PENDING,
  GC_PAUSED,
  INTERN,         \* literal -> its string; Plain: not interned yet
  GLOBALS,
  gc              \* the collection under way: the locals of collect

slabVars == <<slots, slab, free>>
byteVars == <<heap_bytes, next_gc_bytes, GC_PENDING>>
envVars  == <<GC_PAUSED, INTERN, GLOBALS>>
heapVars == <<slabVars, byteVars, envVars, gc>>

Idle == [phase |-> "off", marked |-> {}, worklist |-> {}, live |-> 0, i |-> 0]

HeapInit ==
  /\ slots = [h \in Handle |-> Hole] /\ slab = 0 /\ free = <<>>
  /\ heap_bytes = 0 /\ next_gc_bytes = MIN_GC_BYTES
  /\ GC_PENDING = FALSE /\ GC_PAUSED = 0
  /\ INTERN = [s \in Literals |-> Plain]
  /\ GLOBALS = [g \in Global |-> Plain]
  /\ gc = Idle

HeapTypeOK ==
  /\ slots \in [Handle -> Obj \cup {Hole}]
  /\ slab \in 0 .. MaxSlots
  /\ free \in Seq(Handle)
  /\ heap_bytes \in Nat /\ next_gc_bytes \in Nat
  /\ GC_PENDING \in BOOLEAN /\ GC_PAUSED \in Nat
  /\ INTERN \in [Literals -> Value]
  /\ GLOBALS \in [Global -> Value]
  /\ gc \in [phase : {"off", "mark", "sweep"}, marked : SUBSET Handle,
             worklist : SUBSET Handle, live : Nat, i : 0 .. MaxSlots]

\* The top of a Vec, and the Vec once pop has taken it.
Last(q) == q[Len(q)]
Front(q) == SubSeq(q, 1, Len(q) - 1)

Refs(values) == values \ {Plain}
Children(o) == Refs(Range(o))
Occupied == {h \in Handle : slots[h] # Hole}

\* Obj::heap_bytes: one unit for the slot and one for each value of the
\* backing store, whose spare capacity is left out.
HeapBytes(o) == 1 + Len(o)

-----------------------------------------------------------------------------
(* Allocation.                                                             *)

\* GC_PENDING once an allocation has brought the estimate to bytes.
Armed(bytes) == GC_PENDING \/ bytes >= next_gc_bytes \/ bytes >= MAX_HEAP

HasSlot == free # <<>> \/ slab < MaxSlots
NewHandle == IF free # <<>> THEN Last(free) ELSE slab

Alloc(o) ==
  /\ HasSlot
  /\ heap_bytes' = heap_bytes + HeapBytes(o)
  /\ GC_PENDING' = Armed(heap_bytes')
  /\ slots' = [slots EXCEPT ![NewHandle] = o]
  /\ slab' = IF free # <<>> THEN slab ELSE slab + 1
  /\ free' = IF free # <<>> THEN Front(free) ELSE free
  /\ UNCHANGED <<next_gc_bytes, gc>>

\* set_globals
SetGlobals == GLOBALS' = [g \in Global |-> Plain]

-----------------------------------------------------------------------------
(* Collection.                                                             *)

ShouldCollect == GC_PENDING /\ GC_PAUSED = 0

PermanentRoots == Range(INTERN) \cup Range(GLOBALS)

\* The roots, the interned constants and the globals are marked and queued.
Collect(roots) ==
  /\ gc.phase = "off"
  /\ LET grey == Refs(roots \cup PermanentRoots)
     IN gc' = [Idle EXCEPT !.phase = "mark", !.marked = grey, !.worklist = grey]
  /\ UNCHANGED <<slabVars, byteVars, envVars>>

MarkStep ==
  /\ gc.phase = "mark"
  /\ \E h \in gc.worklist :
       LET new == IF slots[h] = Hole THEN {} ELSE Children(slots[h]) \ gc.marked
       IN gc' = [gc EXCEPT !.worklist = (@ \ {h}) \cup new, !.marked = @ \cup new,
                           !.live = @ + IF slots[h] = Hole THEN 0 ELSE HeapBytes(slots[h])]
  /\ UNCHANGED <<slabVars, byteVars, envVars>>

MarkDone ==
  /\ gc.phase = "mark" /\ gc.worklist = {}
  /\ gc' = [gc EXCEPT !.phase = "sweep"]
  /\ UNCHANGED <<slabVars, byteVars, envVars>>

Swept_HolesToo(h) == h \notin gc.marked

Swept(h) == slots[h] # Hole /\ h \notin gc.marked

SweepStep ==
  /\ gc.phase = "sweep" /\ gc.i < slab
  /\ slots' = [slots EXCEPT ![gc.i] = IF Swept(gc.i) THEN Hole ELSE @]
  /\ free' = IF Swept(gc.i) THEN Append(free, gc.i) ELSE free
  /\ gc' = [gc EXCEPT !.i = @ + 1]
  /\ UNCHANGED <<slab, byteVars, envVars>>

\* next_threshold, with its saturating subtraction.
NextThreshold(bytes, live) ==
  LET reclaimed == IF bytes > live THEN bytes - live ELSE 0
      grow == IF bytes > 0 /\ reclaimed * 4 < bytes THEN 4 ELSE 2
  IN IF live * grow > MIN_GC_BYTES THEN live * grow ELSE MIN_GC_BYTES

SweepDone ==
  /\ gc.phase = "sweep" /\ gc.i = slab
  /\ next_gc_bytes' = NextThreshold(heap_bytes, gc.live)
  /\ heap_bytes' = gc.live
  /\ GC_PENDING' = FALSE
  /\ gc' = Idle
  /\ UNCHANGED <<slabVars, envVars>>

OverCeiling == heap_bytes' > MAX_HEAP
=============================================================================
