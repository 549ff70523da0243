----------------------------- MODULE RootsProofs -----------------------------
(***************************************************************************)
(* The collector never frees an object that is still in use, and frees     *)
(* every other: proofs about module Roots for every size of the slab, of   *)
(* the stacks and of the objects, and for every number of fibers.          *)
(*                                                                         *)
(* The hypothesis ArgsSafe sets one kind of program aside: the one with    *)
(* both an init thunk and a main that takes its arguments, whose argument  *)
(* list no root covers while the thunk runs.  TLC finds the collection     *)
(* that frees it; of every other program the theorems are true.            *)
(*                                                                         *)
(* The argument is about sets of values.  While no collection runs every   *)
(* holder of values holds Live ones only, and so does every object.  From  *)
(* the moment the roots are marked the holders hold Black values only; an  *)
(* object that has left the worklist does so too; and what is marked is in *)
(* every closed set around the holders.                                    *)
(***************************************************************************)
EXTENDS Roots, TLAPS

\* No program has an init thunk and a main that takes its arguments.
ArgsSafe == \A p \in EntryForms : p.params = 0 \/ ~p.init

\* The values that are no reference to a hole, and those the mark phase has seen.
Live == Occupied \cup {Plain}
Black == gc.marked \cup {Plain}

\* Every holder of values holds values of V only, ...
HeldIn(V) ==
  /\ INTERN \in [Literals -> V] /\ GLOBALS \in [Global -> V]
  /\ vstack \in Seq(V) /\ buffer \in Seq(V) /\ host \in Seq(V) /\ locals \in Seq(V)
  /\ fibers \in Seq([st : FiberStates, vals : Seq(V)])
  /\ fallbacks \in Seq([base : Nat, vals : Seq(V)])

\* ... and so do the objects of S.
ObjectsIn(S, V) == \A h \in S : slots[h] \in Seq(V)

\* The slab and its free list.
SlabInv ==
  /\ slots \in [Handle -> Obj \cup {Hole}]
  /\ slab \in 0 .. MaxSlots
  /\ free \in Seq(Handle)
  /\ FreeListExact

\* What the run of a program keeps of its own shape.  In particular the
\* collector is paused exactly while a fallback is under way, and main.rs holds
\* nothing while instructions run.
ControlInv ==
  /\ form \in EntryForms
  /\ stage \in {"args", "init", "main", "ended", "oom", "bug"}
  /\ stage \in {"init", "main"} => host = <<>>
  /\ current \in 0 .. Len(fibers)
  /\ \A f \in DOMAIN fibers :
       /\ fibers[f].st \in {"NotStarted", "Awaiting"} => fibers[f].vals # <<>>
       /\ fibers[f].st = "NotStarted" => fibers[f].vals[1] # Plain
  /\ native \in BOOLEAN
  /\ ~native => locals = <<>>
  /\ GC_PAUSED = Len(fallbacks)

\* The mark phase reaches nothing by a detour: a set around the holders that no
\* marked object points out of contains whatever is marked.
MarkedNeeded ==
  \A S \in SUBSET Handle :
    /\ Refs(Held) \subseteq S
    /\ \A h \in S \cap gc.marked : Children(slots[h]) \subseteq S
    => gc.marked \subseteq S

\* The collection under way.
GcType ==
  gc \in [phase : {"off", "mark", "sweep"}, marked : SUBSET Handle,
          worklist : SUBSET Handle, live : Nat, i : 0 .. MaxSlots]

Solid == HeldIn(Live) /\ ObjectsIn(Occupied, Live)

Colours ==
  /\ stage \in {"init", "main"}
  /\ gc.marked \subseteq Occupied /\ gc.worklist \subseteq gc.marked
  /\ HeldIn(Black) /\ ObjectsIn(gc.marked \ gc.worklist, Black)
  /\ MarkedNeeded

Sweeping ==
  /\ gc.worklist = {}
  /\ \A h \in Occupied : h < gc.i => h \in gc.marked

RootsInv ==
  /\ SlabInv /\ ControlInv /\ GcType
  /\ gc.phase \in {"off", "mark"} => Solid
  /\ gc.phase # "off" => Colours
  /\ gc.phase = "sweep" => Sweeping
  /\ gc.phase # "sweep" => gc.i = 0

-----------------------------------------------------------------------------
(* Sequences.                                                              *)

\* A sequence of values of V is one of values of any larger set.
LEMMA SeqMono ==
  ASSUME NEW V, NEW W, V \subseteq W, NEW q \in Seq(V)
  PROVE  q \in Seq(W)
OBVIOUS

\* A value of a sequence is replaced.
LEMMA Replaced ==
  ASSUME NEW V, NEW q \in Seq(V), NEW i \in 1 .. Len(q), NEW v \in V
  PROVE  [q EXCEPT ![i] = v] \in Seq(V) /\ Len([q EXCEPT ![i] = v]) = Len(q)
OBVIOUS

\* Last and Front of a sequence that is not empty.
LEMMA Ends ==
  ASSUME NEW V, NEW q \in Seq(V), q # <<>>
  PROVE  /\ Last(q) \in V /\ Last(q) = q[Len(q)] /\ Len(q) \in Nat \ {0}
         /\ Front(q) \in Seq(V) /\ Len(Front(q)) = Len(q) - 1
         /\ \A i \in 1 .. (Len(q) - 1) : Front(q)[i] = q[i]
<1>1. Len(q) \in Nat \ {0}
  OBVIOUS
<1>2. Last(q) = q[Len(q)] /\ Last(q) \in V
  BY <1>1 DEF Last
<1>3. Front(q) = SubSeq(q, 1, Len(q) - 1)
  BY DEF Front
<1> DEFINE n == Len(q) - 1
<1>4. n \in 0 .. Len(q) /\ 1 <= n + 1
  BY <1>1
<1>5. /\ SubSeq(q, 1, n) \in Seq(V) /\ Len(SubSeq(q, 1, n)) = n
      /\ \A i \in 1 .. n : SubSeq(q, 1, n)[i] = q[i]
  <2> HIDE DEF n
  <2> QED BY <1>1, <1>4
<1> QED BY <1>1, <1>2, <1>3, <1>5

\* The two parts the topmost n values split a stack into.
LEMMA Splits ==
  ASSUME NEW V, vstack \in Seq(V), NEW n \in 0 .. Len(vstack)
  PROVE  /\ Below(n) \in Seq(V) /\ Len(Below(n)) = Len(vstack) - n
         /\ Top(n) \in Seq(V)
<1>1. Len(vstack) \in Nat
  OBVIOUS
<1>2. /\ SubSeq(vstack, 1, Len(vstack) - n) \in Seq(V)
      /\ Len(SubSeq(vstack, 1, Len(vstack) - n)) = Len(vstack) - n
  BY <1>1
<1>3. SubSeq(vstack, Len(vstack) - n + 1, Len(vstack)) \in Seq(V)
  BY <1>1
<1> QED BY <1>2, <1>3 DEF Below, Top

\* What the values of a sequence are.
LEMMA RangeOf ==
  ASSUME NEW V, NEW q \in Seq(V)
  PROVE  Range(q) \subseteq V /\ Range(q) = {q[i] : i \in 1 .. Len(q)}
BY DEF Range

\* The base of the innermost fallback.
LEMMA BaseNat ==
  ASSUME NEW V, HeldIn(V)
  PROVE  Base \in Nat
<1>1. CASE fallbacks = <<>>
  BY <1>1 DEF Base
<1>2. CASE fallbacks # <<>>
  <2>1. Last(fallbacks) \in [base : Nat, vals : Seq(V)]
    BY <1>2, Ends, Zenon DEF HeldIn
  <2> QED BY <2>1, <1>2 DEF Base
<1> QED BY <1>1, <1>2

\* What a fiber has saved.
LEMMA FiberIn ==
  ASSUME NEW V, HeldIn(V), NEW f \in DOMAIN fibers
  PROVE  /\ f \in 1 .. Len(fibers) /\ Len(fibers) \in Nat
         /\ fibers[f] \in [st : FiberStates, vals : Seq(V)]
         /\ fibers[f].vals \in Seq(V)
<1> DEFINE R == [st : FiberStates, vals : Seq(V)]
<1>1. fibers \in Seq(R)
  BY DEF HeldIn
<1>2. f \in 1 .. Len(fibers) /\ Len(fibers) \in Nat /\ fibers[f] \in R
  <2> HIDE DEF R
  <2> QED BY <1>1
<1> QED BY <1>2

\* Holders of values of V hold values of any larger set.
LEMMA HeldMono ==
  ASSUME NEW V, NEW W, V \subseteq W, HeldIn(V)
  PROVE  HeldIn(W)
<1>1. INTERN \in [Literals -> W] /\ GLOBALS \in [Global -> W]
  BY DEF HeldIn
<1>2. vstack \in Seq(W) /\ buffer \in Seq(W) /\ host \in Seq(W) /\ locals \in Seq(W)
  BY SeqMono DEF HeldIn
<1>3. [st : FiberStates, vals : Seq(V)] \subseteq [st : FiberStates, vals : Seq(W)]
  BY SeqMono
<1>4. [base : Nat, vals : Seq(V)] \subseteq [base : Nat, vals : Seq(W)]
  BY SeqMono
<1>5. fibers \in Seq([st : FiberStates, vals : Seq(W)])
  BY <1>3, SeqMono, Zenon DEF HeldIn
<1>6. fallbacks \in Seq([base : Nat, vals : Seq(W)])
  BY <1>4, SeqMono, Zenon DEF HeldIn
<1> QED BY <1>1, <1>2, <1>5, <1>6 DEF HeldIn

\* So do objects.
LEMMA ObjectsMono ==
  ASSUME NEW S, NEW V, NEW W, V \subseteq W, ObjectsIn(S, V)
  PROVE  ObjectsIn(S, W)
BY SeqMono DEF ObjectsIn

-----------------------------------------------------------------------------
(* The slab.                                                               *)

\* An allocation takes a hole of the slab or a new slot, never an object.
LEMMA AllocSlab ==
  ASSUME SlabInv, NEW o \in Obj, Alloc(o)
  PROVE  /\ SlabInv'
         /\ NewHandle \in Handle /\ NewHandle \notin Occupied
         /\ Occupied' = Occupied \cup {NewHandle}
         /\ slots' = [slots EXCEPT ![NewHandle] = o]
<1> DEFINE h == NewHandle
<1>0. Hole \notin Obj /\ MaxSlots \in Nat
  BY HeapAssumption
<1>1. slots' = [slots EXCEPT ![h] = o]
  BY DEF Alloc
<1>2. CASE free # <<>>
  <2>1. /\ h = free[Len(free)] /\ Len(free) \in Nat \ {0} /\ free' \in Seq(Handle)
        /\ Len(free') = Len(free) - 1
        /\ \A i \in 1 .. (Len(free) - 1) : free'[i] = free[i]
    BY <1>2, Ends DEF SlabInv, Alloc, NewHandle
  <2>2. DOMAIN free = 1 .. Len(free) /\ DOMAIN free' = 1 .. (Len(free) - 1)
    BY <2>1 DEF SlabInv
  <2>3. h \in Range(free) /\ h \in Handle
    BY <2>1, <2>2 DEF Range, SlabInv
  <2>4. h < slab /\ slots[h] = Hole
    BY <2>3 DEF SlabInv, FreeListExact
  <2>5. Range(free') = Range(free) \ {h}
    <3>1. \A i, j \in DOMAIN free : free[i] = free[j] => i = j
      BY DEF SlabInv, FreeListExact
    <3>2. \A g : g \in Range(free') <=> \E i \in 1 .. (Len(free) - 1) : g = free[i]
      BY <2>1, <2>2, Zenon DEF Range
    <3>3. \A g : g \in Range(free) <=> \E i \in 1 .. Len(free) : g = free[i]
      BY <2>2 DEF Range
    <3>4. \A i \in 1 .. (Len(free) - 1) : i \in 1 .. Len(free) /\ free[i] # h
      BY <2>1, <2>2, <3>1
    <3>5. \A i \in 1 .. Len(free) : free[i] # h => i \in 1 .. (Len(free) - 1)
      BY <2>1
    <3> QED
      BY <3>2, <3>3, <3>4, <3>5, Zenon
  <2>6. slots' \in [Handle -> Obj \cup {Hole}] /\ slab' = slab
    BY <1>1, <1>2, <2>3 DEF SlabInv, Alloc
  <2>7. Range(free') = {g \in Handle : g < slab' /\ slots'[g] = Hole}
    BY <1>0, <1>1, <2>3, <2>4, <2>5, <2>6 DEF SlabInv, FreeListExact
  <2>8. Occupied' = Occupied \cup {h} /\ h \notin Occupied
    BY <1>0, <1>1, <2>3, <2>4 DEF SlabInv, Occupied
  <2>9. Occupied' \subseteq 0 .. (slab' - 1)
    BY <2>8, <2>4, <2>6, <2>3, <1>0 DEF SlabInv, FreeListExact, Handle
  <2>10. \A i, j \in DOMAIN free' : free'[i] = free'[j] => i = j
    BY <2>1, <2>2 DEF SlabInv, FreeListExact
  <2> QED BY <1>1, <2>1, <2>3, <2>6, <2>7, <2>8, <2>9, <2>10 DEF SlabInv, FreeListExact
<1>3. CASE free = <<>>
  <2>1. h = slab /\ slab < MaxSlots /\ slab' = slab + 1 /\ free' = free
    BY <1>3 DEF Alloc, HasSlot, NewHandle
  <2>2. h \in Handle /\ h \notin Occupied
    BY <2>1, <1>0 DEF SlabInv, FreeListExact, Handle
  <2>3. slots' \in [Handle -> Obj \cup {Hole}] /\ slab' \in 0 .. MaxSlots
    BY <1>1, <2>1, <2>2, <1>0 DEF SlabInv
  <2>4. Occupied' = Occupied \cup {h}
    BY <1>0, <1>1, <2>2 DEF SlabInv, Occupied
  <2>5. Occupied' \subseteq 0 .. (slab' - 1)
    BY <2>4, <2>1, <1>0 DEF SlabInv, FreeListExact
  <2>6. {g \in Handle : g < slab' /\ slots'[g] = Hole} = {g \in Handle : g < slab /\ slots[g] = Hole}
    BY <1>0, <1>1, <2>1, <2>2, <2>3 DEF SlabInv, Handle
  <2> QED BY <1>1, <2>1, <2>2, <2>3, <2>4, <2>5, <2>6 DEF SlabInv, FreeListExact
<1> QED BY <1>2, <1>3

\* Storing into an object that is there changes nothing of the slab's shape.
LEMMA StoreSlab ==
  ASSUME SlabInv, NEW h \in Occupied, NEW o \in Obj,
         slots' = [slots EXCEPT ![h] = o], UNCHANGED <<slab, free>>
  PROVE  SlabInv' /\ Occupied' = Occupied
<1>0. Hole \notin Obj /\ h \in Handle /\ slots[h] # Hole
  BY HeapAssumption DEF Occupied
<1>1. slots' \in [Handle -> Obj \cup {Hole}]
  BY <1>0 DEF SlabInv
<1>2. \A g \in Handle : slots'[g] = Hole <=> slots[g] = Hole
  BY <1>0 DEF SlabInv
<1>3. Occupied' = Occupied
  BY <1>2 DEF Occupied
<1>4. {g \in Handle : g < slab' /\ slots'[g] = Hole} = {g \in Handle : g < slab /\ slots[g] = Hole}
  BY <1>2
<1> QED BY <1>1, <1>3, <1>4 DEF SlabInv, FreeListExact

\* The sweep moves an object nobody marked to the free list.
LEMMA SweepSlab ==
  ASSUME SlabInv, GcType, SweepStep
  PROVE  /\ SlabInv'
         /\ gc.i \in Handle
         /\ Occupied' = IF Swept(gc.i) THEN Occupied \ {gc.i} ELSE Occupied
         /\ \A h \in Occupied' : slots'[h] = slots[h]
<1> DEFINE k == gc.i
<1>0. Hole \notin Obj /\ MaxSlots \in Nat
  BY HeapAssumption
<1>1. k \in Nat /\ k < slab /\ k \in Handle
  BY <1>0 DEF SweepStep, GcType, SlabInv, Handle
<1>2. CASE ~Swept(k)
  <2>1. slots' = slots /\ UNCHANGED <<slab, free>>
    BY <1>1, <1>2 DEF SweepStep, SlabInv
  <2> QED BY <1>1, <1>2, <2>1 DEF SlabInv, FreeListExact, Occupied
<1>3. CASE Swept(k)
  <2>1. slots' = [slots EXCEPT ![k] = Hole] /\ slab' = slab /\ free' = Append(free, k)
    BY <1>3 DEF SweepStep
  <2>2. k \in Occupied
    BY <1>1, <1>3 DEF Swept, Occupied
  <2>3. slots' \in [Handle -> Obj \cup {Hole}] /\ free' \in Seq(Handle)
    BY <1>1, <2>1 DEF SlabInv
  <2>4. Occupied' = Occupied \ {k} /\ \A h \in Occupied' : slots'[h] = slots[h]
    BY <1>1, <2>1 DEF SlabInv, Occupied
  <2>5. /\ Len(free) \in Nat /\ DOMAIN free = 1 .. Len(free) /\ DOMAIN free' = 1 .. (Len(free) + 1)
        /\ free'[Len(free) + 1] = k /\ \A i \in 1 .. Len(free) : free'[i] = free[i]
    BY <2>1, <1>1 DEF SlabInv
  <2>6. Range(free') = Range(free) \cup {k}
    BY <2>5 DEF Range
  <2>7. k \notin Range(free)
    BY <2>2 DEF SlabInv, FreeListExact, Occupied
  <2>8. \A i, j \in DOMAIN free' : free'[i] = free'[j] => i = j
    BY <2>5, <2>7 DEF SlabInv, FreeListExact, Range
  <2>9. Range(free') = {h \in Handle : h < slab' /\ slots'[h] = Hole}
    BY <1>1, <2>1, <2>6 DEF SlabInv, FreeListExact
  <2> QED BY <1>1, <1>3, <2>1, <2>3, <2>4, <2>8, <2>9, Zenon DEF SlabInv, FreeListExact
<1> QED BY <1>2, <1>3

-----------------------------------------------------------------------------
(* The program: steps taken while no collection runs.                      *)

\* What such a step has to show.
LEMMA Mutates ==
  ASSUME RootsInv, gc.phase = "off", gc' = gc,
         SlabInv', ControlInv', HeldIn(Live)', ObjectsIn(Occupied, Live)'
  PROVE  RootsInv'
BY DEF RootsInv, GcType, Solid

\* Live values are values, and Plain is not a handle.
LEMMA LiveValues ==
  Live \subseteq Value /\ Seq(Live) \subseteq Obj /\ Plain \in Live /\ Plain \notin Handle
<1>1. Live \subseteq Value /\ Plain \in Live
  BY DEF Live, Occupied, Value
<1>2. Plain \notin Handle
  BY HeapAssumption DEF Handle
<1> QED BY <1>1, <1>2, SeqMono DEF Obj

\* After an allocation of an object of live values, the objects hold live
\* values, and so do the holders as they were.
LEMMA AllocSolid ==
  ASSUME RootsInv, gc.phase = "off", NEW o \in Seq(Live), Alloc(o)
  PROVE  /\ SlabInv' /\ gc' = gc /\ ObjectsIn(Occupied, Live)'
         /\ Live \subseteq Live' /\ HeldIn(Live')
         /\ NewHandle \in Live' /\ NewHandle # Plain /\ Plain \in Live'
<1>1. o \in Obj
  BY LiveValues
<1>2. /\ SlabInv'
      /\ NewHandle \in Handle /\ NewHandle \notin Occupied
      /\ Occupied' = Occupied \cup {NewHandle}
      /\ slots' = [slots EXCEPT ![NewHandle] = o]
  BY <1>1, AllocSlab DEF RootsInv
<1>3. Live \subseteq Live' /\ NewHandle \in Live' /\ Plain \in Live'
  BY <1>2 DEF Live
<1>4. HeldIn(Live')
  BY <1>3, HeldMono DEF RootsInv, Solid
<1>5. \A h \in Occupied' : slots'[h] \in Seq(Live')
  <2> SUFFICES ASSUME NEW h \in Occupied' PROVE slots'[h] \in Seq(Live')
    OBVIOUS
  <2>1. CASE h = NewHandle
    BY <1>2, <1>3, <2>1, SeqMono DEF RootsInv, SlabInv
  <2>2. CASE h # NewHandle
    <3>1. h \in Occupied /\ slots'[h] = slots[h]
      BY <1>2, <2>2 DEF RootsInv, SlabInv, Occupied
    <3>2. slots[h] \in Seq(Live)
      BY <3>1 DEF RootsInv, Solid, ObjectsIn
    <3> QED BY <3>1, <3>2, <1>3, SeqMono
  <2> QED BY <2>1, <2>2
<1>6. ObjectsIn(Occupied, Live)'
  BY <1>5 DEF ObjectsIn
<1>7. NewHandle # Plain
  BY <1>2, LiveValues
<1> QED BY <1>2, <1>3, <1>4, <1>6, <1>7 DEF Alloc

\* After a store of live values into an object the same is true.
LEMMA StoreSolid ==
  ASSUME RootsInv, gc.phase = "off", NEW h \in Occupied, NEW o \in Seq(Live),
         slots' = [slots EXCEPT ![h] = o], UNCHANGED <<slab, free>>
  PROVE  SlabInv' /\ Live' = Live /\ ObjectsIn(Occupied, Live)'
<1>1. o \in Obj
  BY LiveValues
<1>2. SlabInv' /\ Occupied' = Occupied
  BY <1>1, StoreSlab, Zenon DEF RootsInv
<1>3. Live' = Live
  BY <1>2 DEF Live
<1>4. \A g \in Occupied : slots'[g] \in Seq(Live)
  BY DEF RootsInv, Solid, ObjectsIn, SlabInv, Occupied
<1> QED BY <1>2, <1>3, <1>4 DEF ObjectsIn

\* And after a step that leaves the slab alone.
LEMMA QuietSolid ==
  ASSUME RootsInv, gc.phase = "off", UNCHANGED slabVars
  PROVE  SlabInv' /\ Live' = Live /\ ObjectsIn(Occupied, Live)'
BY DEF RootsInv, SlabInv, FreeListExact, Solid, ObjectsIn, Live, Occupied, slabVars

\* A step that leaves fibers, fallbacks, native and host alone keeps ControlInv.
LEMMA ControlKept ==
  ASSUME ControlInv, UNCHANGED <<hostVars, fibers, current, rustVars, GC_PAUSED>>
  PROVE  ControlInv'
BY DEF ControlInv, hostVars, rustVars

\* A step that only moves live values to the stack.
LEMMA StackMoves ==
  ASSUME RootsInv, gc.phase = "off", heapQuiet, elsewhere, vstack' \in Seq(Live)
  PROVE  RootsInv'
<1>1. SlabInv' /\ Live' = Live /\ ObjectsIn(Occupied, Live)'
  BY QuietSolid DEF heapQuiet, heapVars
<1>2. ControlInv'
  BY ControlKept DEF RootsInv, heapQuiet, heapVars, envVars, elsewhere, fiberVars
<1>3. HeldIn(Live)'
  BY <1>1 DEF RootsInv, Solid, HeldIn, heapQuiet, heapVars, envVars, elsewhere, hostVars,
     fiberVars, rustVars
<1>4. gc' = gc
  BY DEF heapQuiet, heapVars
<1> QED BY <1>1, <1>2, <1>3, <1>4, Mutates

\* A step that allocates an object of live values and leaves its handle, with
\* live values, on the stack.
LEMMA StackAllocs ==
  ASSUME RootsInv, gc.phase = "off", NEW o \in Seq(Live), Alloc(o),
         UNCHANGED <<GC_PAUSED, INTERN, GLOBALS>>, elsewhere, vstack' \in Seq(Live')
  PROVE  RootsInv'
<1>1. SlabInv' /\ gc' = gc /\ ObjectsIn(Occupied, Live)' /\ HeldIn(Live')
  BY AllocSolid
<1>2. ControlInv'
  BY ControlKept DEF RootsInv, elsewhere, fiberVars
<1>3. HeldIn(Live)'
  BY <1>1 DEF HeldIn, elsewhere, hostVars, fiberVars, rustVars
<1> QED BY <1>1, <1>2, <1>3, Mutates

\* The facts the instructions start from.
LEMMA AtRest ==
  ASSUME RootsInv, gc.phase = "off"
  PROVE  /\ SlabInv /\ ControlInv /\ HeldIn(Live) /\ ObjectsIn(Occupied, Live)
         /\ vstack \in Seq(Live) /\ Len(vstack) \in Nat /\ Base \in Nat
         /\ Plain \in Live /\ <<>> \in Seq(Live)
<1>1. SlabInv /\ ControlInv /\ HeldIn(Live) /\ ObjectsIn(Occupied, Live)
  BY DEF RootsInv, Solid
<1>2. vstack \in Seq(Live) /\ Len(vstack) \in Nat
  BY <1>1 DEF HeldIn
<1> QED BY <1>1, <1>2, BaseNat, LiveValues

\* The stack of an instruction that finds n operands.
LEMMA Operands ==
  ASSUME RootsInv, gc.phase = "off", NEW n \in Nat, Depth >= n
  PROVE  /\ n \in 0 .. Len(vstack)
         /\ Below(n) \in Seq(Live) /\ Len(Below(n)) = Len(vstack) - n /\ Top(n) \in Seq(Live)
         /\ n > 0 => /\ vstack # <<>> /\ Last(vstack) \in Live
                     /\ Last(vstack) = vstack[Len(vstack)]
         /\ n > 1 => vstack[Len(vstack) - 1] \in Live
<1>1. vstack \in Seq(Live) /\ Len(vstack) \in Nat /\ Base \in Nat
  BY AtRest
<1>2. n \in 0 .. Len(vstack)
  BY <1>1 DEF Depth
<1>3. Below(n) \in Seq(Live) /\ Len(Below(n)) = Len(vstack) - n /\ Top(n) \in Seq(Live)
  BY <1>1, <1>2, Splits
<1>4. n > 0 => vstack # <<>>
  BY <1>1, <1>2
<1>5. n > 0 => Last(vstack) \in Live /\ Last(vstack) = vstack[Len(vstack)]
  BY <1>1, <1>4, Ends
<1>6. n > 1 => vstack[Len(vstack) - 1] \in Live
  BY <1>1, <1>2
<1> QED BY <1>2, <1>3, <1>4, <1>5, <1>6

\* A live value that is no Plain is the handle of an object, of live values.
LEMMA Object ==
  ASSUME RootsInv, gc.phase = "off", NEW v \in Live, v # Plain
  PROVE  v \in Occupied /\ slots[v] \in Seq(Live)
BY AtRest DEF Live, ObjectsIn

\* Instructions that move values.
LEMMA MovesInv ==
  ASSUME RootsInv, Load \/ Store \/ Pop \/ GlobalGet \/ FieldGet \/ NestedCall \/ Join
  PROVE  RootsInv'
<1>0. gc.phase = "off" /\ elsewhere
  BY DEF Load, Store, Pop, GlobalGet, FieldGet, NestedCall, Join, Safepoint, Executing
<1>1. vstack \in Seq(Live) /\ Len(vstack) \in Nat /\ Base \in Nat /\ HeldIn(Live)
  BY <1>0, AtRest
<1>2. CASE Load
  <2>1. PICK i \in (Base + 1) .. Len(vstack) : vstack' = Append(vstack, vstack[i])
    BY <1>2 DEF Load
  <2>2. vstack[i] \in Live
    BY <1>1, <2>1
  <2> QED BY <1>0, <1>1, <1>2, <2>1, <2>2, StackMoves DEF Load
<1>3. CASE Store
  <2>1. PICK i \in (Base + 1) .. (Len(vstack) - 1) : vstack' = [Below(1) EXCEPT ![i] = Last(vstack)]
    BY <1>3 DEF Store
  <2>2. Below(1) \in Seq(Live) /\ Len(Below(1)) = Len(vstack) - 1 /\ Last(vstack) \in Live
    BY <1>0, <1>1, <1>3, Operands DEF Store, Depth
  <2>3. vstack' \in Seq(Live)
    BY <1>1, <2>1, <2>2, Replaced
  <2> QED BY <1>0, <1>3, <2>3, StackMoves DEF Store
<1>4. CASE Pop
  <2>1. Below(1) \in Seq(Live)
    BY <1>0, <1>1, <1>4, Operands DEF Pop, Depth
  <2> QED BY <1>0, <1>4, <2>1, StackMoves DEF Pop
<1>5. CASE GlobalGet
  <2>1. PICK g \in Global : vstack' = Append(vstack, GLOBALS[g])
    BY <1>5 DEF GlobalGet
  <2>2. GLOBALS[g] \in Live
    BY <1>1 DEF HeldIn
  <2> QED BY <1>0, <1>1, <1>5, <2>1, <2>2, StackMoves DEF GlobalGet
<1>6. CASE FieldGet
  <2>1. Below(1) \in Seq(Live) /\ Last(vstack) \in Live
    BY <1>0, <1>1, <1>6, Operands DEF FieldGet, Depth
  <2>2. slots[Last(vstack)] \in Seq(Live)
    BY <1>0, <1>6, <2>1, Object DEF FieldGet
  <2>3. PICK i \in DOMAIN slots[Last(vstack)] : vstack' = Append(Below(1), slots[Last(vstack)][i])
    BY <1>6 DEF FieldGet
  <2>4. vstack' \in Seq(Live)
    BY <2>1, <2>2, <2>3
  <2> QED BY <1>0, <1>6, <2>4, StackMoves DEF FieldGet
<1>7. CASE NestedCall
  <2>1. PICK v \in Range(Last(fallbacks).vals) : vstack' = Append(vstack, v)
    BY <1>7 DEF NestedCall
  <2>2. Last(fallbacks) \in [base : Nat, vals : Seq(Live)]
    BY <1>1, <1>7, Ends, Zenon DEF HeldIn, NestedCall
  <2>3. v \in Live
    BY <2>1, <2>2, RangeOf
  <2> QED BY <1>0, <1>1, <1>7, <2>1, <2>3, StackMoves DEF NestedCall
<1>8. CASE Join
  <2>1. PICK f \in DOMAIN fibers : vstack' = vstack \o fibers[f].vals
    BY <1>8 DEF Join
  <2>2. fibers[f].vals \in Seq(Live)
    BY <1>1, FiberIn
  <2> QED BY <1>0, <1>1, <1>8, <2>1, <2>2, StackMoves DEF Join
<1> QED BY <1>2, <1>3, <1>4, <1>5, <1>6, <1>7, <1>8

\* Instructions and natives that allocate, and leave the handle on the stack.
LEMMA AllocatesInv ==
  ASSUME RootsInv, ConstStr \/ New
  PROVE  RootsInv'
<1>0. gc.phase = "off" /\ elsewhere
  BY DEF ConstStr, New, Safepoint, Executing
<1>1. /\ vstack \in Seq(Live) /\ Len(vstack) \in Nat /\ HeldIn(Live) /\ ControlInv
      /\ <<>> \in Seq(Live)
  BY <1>0, AtRest
<1>2. CASE New
  <2>1. PICK n \in 0 .. MaxKids : Depth >= n /\ Alloc(Top(n)) /\ vstack' = Append(Below(n), NewHandle)
    BY <1>2 DEF New
  <2>2. n \in Nat
    BY RootsAssumption
  <2>3. Top(n) \in Seq(Live) /\ Below(n) \in Seq(Live)
    BY <1>0, <2>1, <2>2, Operands
  <2>4. Live \subseteq Live' /\ NewHandle \in Live'
    BY <1>0, <2>1, <2>3, AllocSolid
  <2>5. vstack' \in Seq(Live')
    BY <2>1, <2>3, <2>4, SeqMono
  <2>6. UNCHANGED <<GC_PAUSED, INTERN, GLOBALS>>
    BY <1>2 DEF New, envVars
  <2> QED BY <1>0, <2>1, <2>3, <2>5, <2>6, StackAllocs
<1>3. CASE ConstStr
  <2>1. PICK s \in Literals :
          IF INTERN[s] # Plain
          THEN vstack' = Append(vstack, INTERN[s]) /\ heapQuiet
          ELSE /\ Alloc(<<>>)
               /\ INTERN' = [INTERN EXCEPT ![s] = NewHandle]
               /\ vstack' = Append(vstack, NewHandle)
               /\ UNCHANGED <<GC_PAUSED, GLOBALS>>
    BY <1>3 DEF ConstStr
  <2>2. CASE INTERN[s] # Plain
    <3>1. INTERN[s] \in Live
      BY <1>1 DEF HeldIn
    <3> QED BY <1>0, <1>1, <2>1, <2>2, <3>1, StackMoves
  <2>3. CASE INTERN[s] = Plain
    <3>1. /\ SlabInv' /\ gc' = gc /\ ObjectsIn(Occupied, Live)'
          /\ NewHandle \in Live' /\ HeldIn(Live')
      BY <1>0, <1>1, <2>1, <2>3, AllocSolid, Zenon
    <3>2. INTERN' \in [Literals -> Live'] /\ vstack' \in Seq(Live')
      <4>1. INTERN \in [Literals -> Live'] /\ vstack \in Seq(Live')
        BY <3>1 DEF HeldIn
      <4>2. INTERN' = [INTERN EXCEPT ![s] = NewHandle] /\ vstack' = Append(vstack, NewHandle)
        BY <2>1, <2>3
      <4> QED BY <3>1, <4>1, <4>2
    <3>3. HeldIn(Live)'
      BY <1>0, <2>1, <2>3, <3>1, <3>2 DEF HeldIn, elsewhere, hostVars, fiberVars, rustVars
    <3>4. ControlInv'
      BY <1>0, <1>1, <2>1, <2>3, ControlKept DEF elsewhere, fiberVars
    <3> QED BY <1>0, <3>1, <3>3, <3>4, Mutates
  <2> QED BY <2>2, <2>3
<1> QED BY <1>2, <1>3

\* Instructions and natives that store.
LEMMA StoresInv ==
  ASSUME RootsInv, GlobalSet \/ FieldSet \/ ListPush
  PROVE  RootsInv'
<1>0. gc.phase = "off" /\ elsewhere /\ GC_PAUSED' = GC_PAUSED /\ INTERN' = INTERN /\ gc' = gc
  BY DEF GlobalSet, FieldSet, ListPush, Safepoint, Executing, envVars
<1>1. HeldIn(Live) /\ ControlInv /\ Plain \in Live /\ Depth \in Int
  BY <1>0, AtRest DEF Depth
<1>2. ControlInv'
  BY <1>0, <1>1, ControlKept DEF elsewhere, fiberVars
<1>3. CASE GlobalSet
  <2>1. Last(vstack) \in Live /\ Below(1) \in Seq(Live)
    BY <1>0, <1>1, <1>3, Operands DEF GlobalSet
  <2>2. SlabInv' /\ Live' = Live /\ ObjectsIn(Occupied, Live)'
    BY <1>0, <1>3, QuietSolid DEF GlobalSet
  <2>3. GLOBALS' \in [Global -> Live]
    BY <1>1, <1>3, <2>1 DEF GlobalSet, HeldIn
  <2>4. HeldIn(Live)'
    BY <1>0, <1>1, <1>3, <2>1, <2>2, <2>3
       DEF GlobalSet, HeldIn, elsewhere, hostVars, fiberVars, rustVars
  <2> QED BY <1>0, <1>2, <2>2, <2>4, Mutates
<1>4. CASE FieldSet \/ ListPush
  <2> DEFINE h == vstack[Len(vstack) - 1]
  <2>1. /\ Depth >= 2 /\ h # Plain /\ UNCHANGED <<slab, free, GLOBALS>>
        /\ vstack' \in {Below(2), Append(Below(2), Plain)}
    <3>1. Depth > 1 /\ h # Plain /\ UNCHANGED <<slab, free, envVars>>
          /\ (vstack' = Below(2) \/ vstack' = Append(Below(2), Plain))
      BY <1>4, Zenon DEF FieldSet, ListPush
    <3> QED BY <1>1, <3>1 DEF envVars
  <2>2. Last(vstack) \in Live /\ Below(2) \in Seq(Live) /\ h \in Live
    BY <1>0, <2>1, Operands
  <2>3. h \in Occupied /\ slots[h] \in Seq(Live)
    BY <1>0, <2>1, <2>2, Object
  <2>4. h \in Handle /\ slots \in [Handle -> Obj \cup {Hole}]
    BY <2>3 DEF RootsInv, SlabInv, Occupied
  <2>5. \E o \in Seq(Live) : slots' = [slots EXCEPT ![h] = o]
    <3>1. CASE FieldSet
      <4>1. PICK i \in DOMAIN slots[h] : slots' = [slots EXCEPT ![h][i] = Last(vstack)]
        BY <3>1, Zenon DEF FieldSet
      <4>2. [slots[h] EXCEPT ![i] = Last(vstack)] \in Seq(Live)
        BY <2>2, <2>3, Replaced
      <4>3. slots' = [slots EXCEPT ![h] = [slots[h] EXCEPT ![i] = Last(vstack)]]
        BY <2>4, <4>1
      <4> QED BY <4>2, <4>3, Zenon
    <3>2. CASE ListPush
      <4>1. slots' = [slots EXCEPT ![h] = Append(slots[h], Last(vstack))]
        BY <2>4, <3>2 DEF ListPush
      <4>2. Append(slots[h], Last(vstack)) \in Seq(Live)
        BY <2>2, <2>3
      <4> QED BY <4>1, <4>2, Zenon
    <3> QED BY <1>4, <3>1, <3>2
  <2>6. SlabInv' /\ Live' = Live /\ ObjectsIn(Occupied, Live)'
    BY <1>0, <2>1, <2>3, <2>5, StoreSolid, Zenon
  <2>7. vstack' \in Seq(Live)
    BY <1>1, <2>1, <2>2
  <2>8. HeldIn(Live)'
    BY <1>0, <1>1, <2>1, <2>6, <2>7 DEF HeldIn, elsewhere, hostVars, fiberVars, rustVars
  <2> QED BY <1>0, <1>2, <2>6, <2>8, Mutates
<1> QED BY <1>3, <1>4

\* The steps of a native: what it has allocated is in its locals.
LEMMA NativesInv ==
  ASSUME RootsInv, CallNative \/ NativeNewStr \/ NativeReturn
  PROVE  RootsInv'
<1>0. gc.phase = "off" /\ UNCHANGED <<hostVars, fiberVars, fallbacks>>
  BY DEF CallNative, NativeNewStr, NativeReturn, Safepoint, Executing, InNative
<1>1. vstack \in Seq(Live) /\ locals \in Seq(Live) /\ HeldIn(Live) /\ ControlInv /\ <<>> \in Seq(Live)
  BY <1>0, AtRest DEF HeldIn
<1>2. CASE CallNative
  <2>1. SlabInv' /\ Live' = Live /\ ObjectsIn(Occupied, Live)' /\ gc' = gc /\ UNCHANGED envVars
    BY <1>0, <1>2, QuietSolid DEF CallNative, heapQuiet, heapVars
  <2>2. HeldIn(Live)'
    BY <1>0, <1>1, <1>2, <2>1 DEF CallNative, HeldIn, envVars, hostVars, fiberVars
  <2>3. ControlInv'
    BY <1>0, <1>1, <1>2, <2>1 DEF CallNative, ControlInv, envVars, hostVars, fiberVars
  <2> QED BY <1>0, <2>1, <2>2, <2>3, Mutates
<1>3. CASE NativeNewStr
  <2>1. /\ SlabInv' /\ gc' = gc /\ ObjectsIn(Occupied, Live)'
        /\ NewHandle \in Live' /\ HeldIn(Live')
    BY <1>0, <1>1, <1>3, AllocSolid, Zenon DEF NativeNewStr
  <2>2. locals' \in Seq(Live')
    BY <1>3, <2>1 DEF NativeNewStr, HeldIn
  <2>3. HeldIn(Live)'
    BY <1>0, <1>3, <2>1, <2>2 DEF NativeNewStr, HeldIn, envVars, hostVars, fiberVars
  <2>4. ControlInv'
    BY <1>0, <1>1, <1>3, Zenon DEF NativeNewStr, InNative, ControlInv, envVars, hostVars, fiberVars
  <2> QED BY <1>0, <2>1, <2>3, <2>4, Mutates
<1>4. CASE NativeReturn
  <2>1. /\ SlabInv' /\ gc' = gc /\ ObjectsIn(Occupied, Live)'
        /\ NewHandle \in Live' /\ HeldIn(Live')
    BY <1>0, <1>1, <1>4, AllocSolid DEF NativeReturn
  <2>2. vstack' \in Seq(Live') /\ locals' \in Seq(Live')
    BY <1>4, <2>1 DEF NativeReturn, HeldIn
  <2>3. HeldIn(Live)'
    BY <1>0, <1>4, <2>1, <2>2 DEF NativeReturn, HeldIn, envVars, hostVars, fiberVars
  <2>4. ControlInv'
    BY <1>0, <1>1, <1>4, Zenon DEF NativeReturn, ControlInv, envVars, hostVars, fiberVars
  <2> QED BY <1>0, <2>1, <2>3, <2>4, Mutates
<1> QED BY <1>2, <1>3, <1>4

\* The structural debug fallback: what it has cloned out is in its locals,
\* and the collector is paused for as long.
LEMMA FallbacksInv ==
  ASSUME RootsInv, VirtualFallback \/ FallbackReturn
  PROVE  RootsInv'
<1>0. gc.phase = "off" /\ UNCHANGED <<INTERN, GLOBALS, hostVars, fiberVars, native, locals>>
  BY DEF VirtualFallback, FallbackReturn, Safepoint, Executing
<1>1. /\ vstack \in Seq(Live) /\ Len(vstack) \in Nat /\ Base \in Nat /\ HeldIn(Live) /\ ControlInv
      /\ <<>> \in Seq(Live) /\ fallbacks \in Seq([base : Nat, vals : Seq(Live)])
  BY <1>0, AtRest DEF HeldIn
<1>2. CASE VirtualFallback
  <2> DEFINE call == [base |-> Len(vstack) - 1, vals |-> <<Last(vstack)>> \o slots[Last(vstack)]]
  <2>1. Depth >= 1 /\ vstack' = Below(1) /\ fallbacks' = Append(fallbacks, call)
    BY <1>1, <1>2 DEF VirtualFallback, Depth
  <2>2. Last(vstack) \in Live /\ Below(1) \in Seq(Live) /\ Len(vstack) - 1 \in Nat
    BY <1>0, <1>1, <2>1, Operands
  <2>3. slots[Last(vstack)] \in Seq(Live)
    BY <1>0, <1>2, <2>2, Object DEF VirtualFallback
  <2>4. call.vals \in Seq(Live)
    BY <2>2, <2>3
  <2>5. call \in [base : Nat, vals : Seq(Live)]
    BY <2>2, <2>4
  <2>6. fallbacks' \in Seq([base : Nat, vals : Seq(Live)]) /\ Len(fallbacks') = Len(fallbacks) + 1
    <3> HIDE DEF call
    <3> QED BY <1>1, <2>1, <2>5
  <2>7. SlabInv' /\ Live' = Live /\ ObjectsIn(Occupied, Live)' /\ gc' = gc
    BY <1>0, <1>2, QuietSolid, Zenon DEF VirtualFallback
  <2>8. HeldIn(Live)'
    BY <1>0, <1>1, <2>1, <2>2, <2>6, <2>7 DEF HeldIn, hostVars, fiberVars
  <2>9. ControlInv'
    BY <1>0, <1>1, <1>2, <2>6 DEF VirtualFallback, Pause, ControlInv, hostVars, fiberVars
  <2> QED BY <1>0, <2>7, <2>8, <2>9, Mutates
<1>3. CASE FallbackReturn
  <2>1. /\ SlabInv' /\ gc' = gc /\ ObjectsIn(Occupied, Live)'
        /\ NewHandle \in Live' /\ HeldIn(Live')
    BY <1>0, <1>1, <1>3, AllocSolid, Zenon DEF FallbackReturn
  <2>2. vstack' \in Seq(Live')
    BY <1>3, <2>1 DEF FallbackReturn, HeldIn
  <2>3. /\ fallbacks' \in Seq([base : Nat, vals : Seq(Live')])
        /\ Len(fallbacks') = Len(fallbacks) - 1
    BY <1>3, <2>1, Ends, Zenon DEF FallbackReturn, HeldIn
  <2>4. HeldIn(Live)'
    BY <1>0, <2>1, <2>2, <2>3 DEF HeldIn, hostVars, fiberVars
  <2>5. ControlInv'
    BY <1>0, <1>1, <1>3, <2>3 DEF FallbackReturn, ControlInv, hostVars, fiberVars
  <2> QED BY <1>0, <2>1, <2>4, <2>5, Mutates
<1> QED BY <1>2, <1>3

\* What replacing a fiber's entry leaves of the fibers.
LEMMA FiberSet ==
  ASSUME NEW V, HeldIn(V), NEW f \in DOMAIN fibers, NEW st \in FiberStates, NEW vals \in Seq(V),
         fibers' = [fibers EXCEPT ![f] = Saved(st, vals)]
  PROVE  /\ fibers' \in Seq([st : FiberStates, vals : Seq(V)])
         /\ Len(fibers') = Len(fibers) /\ Len(fibers) \in Nat
         /\ f \in 1 .. Len(fibers) /\ DOMAIN fibers = 1 .. Len(fibers)
         /\ DOMAIN fibers' = DOMAIN fibers
         /\ \A g \in DOMAIN fibers : fibers'[g] = IF g = f THEN Saved(st, vals) ELSE fibers[g]
<1> DEFINE R == [st : FiberStates, vals : Seq(V)]
           e == Saved(st, vals)
<1>1. fibers \in Seq(R)
  BY DEF HeldIn
<1>2. e \in R
  BY DEF Saved
<1> HIDE DEF R, e
<1>3. f \in 1 .. Len(fibers) /\ DOMAIN fibers = 1 .. Len(fibers) /\ Len(fibers) \in Nat
  BY <1>1
<1>4. fibers' = [fibers EXCEPT ![f] = e]
  BY DEF e
<1>5. fibers' \in Seq(R) /\ Len(fibers') = Len(fibers)
  BY <1>1, <1>2, <1>3, <1>4, Replaced
<1>6. \A g \in DOMAIN fibers : fibers'[g] = IF g = f THEN e ELSE fibers[g]
  BY <1>1, <1>3, <1>4
<1>7. DOMAIN fibers' = DOMAIN fibers
  BY <1>4
<1> QED BY <1>3, <1>5, <1>6, <1>7 DEF R, e

\* The fibers' part of ControlInv, when one entry is replaced.
LEMMA FiberSetControl ==
  ASSUME ControlInv, NEW V, HeldIn(V), NEW f \in DOMAIN fibers,
         NEW st \in FiberStates, NEW vals \in Seq(V),
         fibers' = [fibers EXCEPT ![f] = Saved(st, vals)],
         st # "NotStarted", st = "Awaiting" => vals # <<>>,
         current' \in {current, f, NoFiber},
         UNCHANGED <<form, native, locals, fallbacks, GC_PAUSED, stage, host>>
  PROVE  ControlInv'
<1>1. /\ Len(fibers') = Len(fibers) /\ Len(fibers) \in Nat
      /\ f \in 1 .. Len(fibers) /\ DOMAIN fibers' = DOMAIN fibers
      /\ \A g \in DOMAIN fibers : fibers'[g] = IF g = f THEN Saved(st, vals) ELSE fibers[g]
  BY FiberSet
<1>2. current' \in 0 .. Len(fibers')
  BY <1>1 DEF ControlInv, NoFiber
<1>3. Saved(st, vals).st = st /\ Saved(st, vals).vals = vals
  BY DEF Saved
<1>4. \A g \in DOMAIN fibers' :
        /\ fibers'[g].st \in {"NotStarted", "Awaiting"} => fibers'[g].vals # <<>>
        /\ fibers'[g].st = "NotStarted" => fibers'[g].vals[1] # Plain
  <2> SUFFICES ASSUME NEW g \in DOMAIN fibers
               PROVE  /\ fibers'[g].st \in {"NotStarted", "Awaiting"} => fibers'[g].vals # <<>>
                      /\ fibers'[g].st = "NotStarted" => fibers'[g].vals[1] # Plain
    BY <1>1
  <2>1. CASE g = f
    BY <1>1, <1>3, <2>1
  <2>2. CASE g # f
    BY <1>1, <2>2 DEF ControlInv
  <2> QED BY <2>1, <2>2
<1> QED BY <1>2, <1>4 DEF ControlInv

\* A step of the fibers that leaves the heap alone, replaces one entry and
\* the running stack.
LEMMA Switches ==
  ASSUME RootsInv, gc.phase = "off", heapQuiet,
         NEW f \in DOMAIN fibers, NEW st \in FiberStates, NEW vals \in Seq(Live),
         fibers' = [fibers EXCEPT ![f] = Saved(st, vals)],
         st # "NotStarted", st = "Awaiting" => vals # <<>>,
         current' \in {current, f, NoFiber}, vstack' \in Seq(Live),
         UNCHANGED <<hostVars, buffer, rustVars>>
  PROVE  RootsInv'
<1>1. SlabInv' /\ Live' = Live /\ ObjectsIn(Occupied, Live)' /\ gc' = gc /\ UNCHANGED envVars
  BY QuietSolid DEF heapQuiet, heapVars
<1>2. HeldIn(Live) /\ ControlInv
  BY AtRest
<1>3. fibers' \in Seq([st : FiberStates, vals : Seq(Live)])
  BY <1>2, FiberSet, Zenon
<1>4. HeldIn(Live)'
  BY <1>1, <1>2, <1>3 DEF HeldIn, envVars, hostVars, rustVars
<1>5. ControlInv'
  BY <1>1, <1>2, FiberSetControl, Zenon DEF envVars, hostVars, rustVars
<1> QED BY <1>1, <1>4, <1>5, Mutates

\* Fibers park, run again and return.
LEMMA SwitchesInv ==
  ASSUME RootsInv, Park \/ Resume \/ FiberReturn
  PROVE  RootsInv'
<1>0. gc.phase = "off" /\ heapQuiet
  BY DEF Park, Resume, FiberReturn, Safepoint, Executing, Idling
<1>1. /\ HeldIn(Live) /\ ControlInv /\ vstack \in Seq(Live) /\ Plain \in Live /\ <<>> \in Seq(Live)
      /\ DOMAIN fibers = 1 .. Len(fibers) /\ Len(fibers) \in Nat
  BY <1>0, AtRest DEF HeldIn
<1>2. current # NoFiber => current \in DOMAIN fibers
  BY <1>1 DEF ControlInv, NoFiber
<1>3. CASE Park /\ fallbacks # <<>>
  <2>1. SlabInv' /\ Live' = Live /\ ObjectsIn(Occupied, Live)' /\ gc' = gc /\ UNCHANGED envVars
    BY <1>0, QuietSolid DEF heapQuiet, heapVars
  <2>2. stage' = "bug" /\ UNCHANGED <<vstack, fibers, current, form, host, buffer, rustVars>>
    BY <1>3 DEF Park
  <2>3. HeldIn(Live)'
    BY <1>1, <2>1, <2>2 DEF HeldIn, envVars, rustVars
  <2>4. ControlInv'
    BY <1>1, <2>1, <2>2 DEF ControlInv, envVars, rustVars
  <2> QED BY <1>0, <2>1, <2>3, <2>4, Mutates
<1>4. CASE Park /\ fallbacks = <<>>
  <2>1. /\ vstack' = <<>> /\ current' = NoFiber /\ UNCHANGED <<hostVars, buffer, rustVars>>
        /\ current \in DOMAIN fibers
        /\ \/ fibers' = [fibers EXCEPT ![current] = Saved("Suspended", vstack)]
           \/ fibers' = [fibers EXCEPT ![current] = Saved("Awaiting", Append(vstack, Plain))]
    BY <1>2, <1>4 DEF Park, Safepoint, Executing, hostVars
  <2>2. Append(vstack, Plain) \in Seq(Live) /\ Append(vstack, Plain) # <<>>
    BY <1>1
  <2>3. {"Suspended", "Awaiting"} \subseteq FiberStates
    BY DEF FiberStates
  <2>4. CASE fibers' = [fibers EXCEPT ![current] = Saved("Suspended", vstack)]
    BY <1>0, <1>1, <2>1, <2>3, <2>4, Switches, Zenon
  <2>5. CASE fibers' = [fibers EXCEPT ![current] = Saved("Awaiting", Append(vstack, Plain))]
    BY <1>0, <1>1, <2>1, <2>2, <2>3, <2>5, Switches, Zenon
  <2> QED BY <2>1, <2>4, <2>5
<1>5. CASE Resume
  <2>1. PICK f \in DOMAIN fibers :
          /\ fibers[f].st \in {"NotStarted", "Suspended"}
          /\ vstack' = IF fibers[f].st = "NotStarted" THEN slots[fibers[f].vals[1]]
                       ELSE fibers[f].vals
          /\ fibers' = [fibers EXCEPT ![f] = Saved("Running", <<>>)]
          /\ current' = f
    BY <1>5, Zenon DEF Resume
  <2>2. fibers[f].vals \in Seq(Live)
    BY <1>1, FiberIn
  <2>3. fibers[f].st = "NotStarted" => slots[fibers[f].vals[1]] \in Seq(Live)
    <3> SUFFICES ASSUME fibers[f].st = "NotStarted" PROVE slots[fibers[f].vals[1]] \in Seq(Live)
      OBVIOUS
    <3>1. fibers[f].vals # <<>> /\ fibers[f].vals[1] # Plain
      BY <1>1 DEF ControlInv
    <3>2. fibers[f].vals[1] \in Live
      BY <2>2, <3>1
    <3> QED BY <1>0, <3>1, <3>2, Object
  <2>4. vstack' \in Seq(Live)
    BY <2>1, <2>2, <2>3
  <2>5. "Running" \in FiberStates /\ UNCHANGED <<hostVars, buffer, rustVars>>
    BY <1>5 DEF FiberStates, Resume
  <2> QED BY <1>0, <1>1, <2>1, <2>4, <2>5, Switches, Zenon
<1>6. CASE FiberReturn
  <2>1. PICK v \in Results : Complete(current, v)
    BY <1>6 DEF FiberReturn
  <2>2. v \in Live
    BY <1>1, Ends DEF Results
  <2>3. fibers' = [fibers EXCEPT ![current] = Saved("Done", <<v>>)] /\ current \in DOMAIN fibers
    BY <1>2, <1>6, <2>1, Zenon DEF Complete, FiberReturn, Executing
  <2>4. "Done" \in FiberStates /\ <<v>> \in Seq(Live)
    BY <2>2 DEF FiberStates
  <2> QED BY <1>0, <1>1, <1>6, <2>3, <2>4, Switches, Zenon DEF FiberReturn
<1> QED BY <1>3, <1>4, <1>5, <1>6

\* A fiber is spawned over its closure.
LEMMA SpawnInv ==
  ASSUME RootsInv, Spawn
  PROVE  RootsInv'
<1> DEFINE new == Saved("NotStarted", <<Last(vstack)>>)
           R == [st : FiberStates, vals : Seq(Live)]
<1>0. gc.phase = "off" /\ heapQuiet /\ UNCHANGED <<hostVars, current, buffer, rustVars>>
  BY DEF Spawn, Safepoint, Executing
<1>1. HeldIn(Live) /\ ControlInv /\ Plain \in Live /\ fibers \in Seq(R) /\ Depth \in Int
  BY <1>0, AtRest DEF HeldIn, Depth
<1>2. Last(vstack) \in Live /\ Last(vstack) # Plain /\ Below(1) \in Seq(Live)
  <2>1. Depth >= 1 /\ Last(vstack) # Plain
    BY <1>1 DEF Spawn
  <2> QED BY <1>0, <2>1, Operands
<1>3. new \in R /\ new.vals = <<Last(vstack)>> /\ fibers' = Append(fibers, new)
  BY <1>2 DEF Saved, FiberStates, Spawn
<1>4. /\ fibers' \in Seq(R) /\ Len(fibers') = Len(fibers) + 1 /\ Len(fibers) \in Nat
      /\ \A f \in DOMAIN fibers' : \/ f = Len(fibers) + 1 /\ fibers'[f] = new
                                   \/ f \in DOMAIN fibers /\ fibers'[f] = fibers[f]
  <2> HIDE DEF new, R
  <2> QED BY <1>1, <1>3
<1>5. SlabInv' /\ Live' = Live /\ ObjectsIn(Occupied, Live)' /\ gc' = gc /\ UNCHANGED envVars
  BY <1>0, QuietSolid DEF heapQuiet, heapVars
<1>6. vstack' \in Seq(Live)
  BY <1>1, <1>2 DEF Spawn
<1>7. HeldIn(Live)'
  BY <1>0, <1>1, <1>4, <1>5, <1>6 DEF HeldIn, envVars, hostVars, rustVars
<1>8. \A f \in DOMAIN fibers' :
        /\ fibers'[f].st \in {"NotStarted", "Awaiting"} => fibers'[f].vals # <<>>
        /\ fibers'[f].st = "NotStarted" => fibers'[f].vals[1] # Plain
  <2> SUFFICES ASSUME NEW f \in DOMAIN fibers'
               PROVE  /\ fibers'[f].st \in {"NotStarted", "Awaiting"} => fibers'[f].vals # <<>>
                      /\ fibers'[f].st = "NotStarted" => fibers'[f].vals[1] # Plain
    OBVIOUS
  <2>1. CASE fibers'[f] = new
    BY <1>2, <1>3, <2>1
  <2>2. CASE f \in DOMAIN fibers /\ fibers'[f] = fibers[f]
    BY <1>1, <2>2 DEF ControlInv
  <2> QED BY <1>4, <2>1, <2>2
<1>9. ControlInv'
  <2>1. UNCHANGED <<stage, form, host, current, native, locals, fallbacks, GC_PAUSED>>
    BY <1>0, <1>5 DEF envVars, hostVars, rustVars, heapQuiet, heapVars, Spawn
  <2>2. current' \in 0 .. Len(fibers')
    BY <1>1, <1>4, <2>1 DEF ControlInv
  <2> QED BY <1>1, <1>8, <2>1, <2>2, Zenon DEF ControlInv
<1> QED BY <1>0, <1>5, <1>7, <1>9, Mutates

\* The finish of a job allocates the result, in the place of the placeholder.
LEMMA DeliverInv ==
  ASSUME RootsInv, Deliver
  PROVE  RootsInv'
<1>0. gc.phase = "off" /\ UNCHANGED <<envVars, hostVars, vstack, current, buffer, rustVars>>
  BY DEF Deliver, Idling
<1>1. PICK f \in DOMAIN fibers :
        /\ fibers[f].st = "Awaiting"
        /\ Alloc(<<>>)
        /\ fibers' = [fibers EXCEPT ![f] = Saved("Suspended", Append(Front(fibers[f].vals), NewHandle))]
  BY Zenon DEF Deliver
<1>2. ControlInv /\ <<>> \in Seq(Live)
  BY <1>0, AtRest
<1>3. /\ SlabInv' /\ gc' = gc /\ ObjectsIn(Occupied, Live)'
      /\ NewHandle \in Live' /\ HeldIn(Live')
  BY <1>0, <1>1, <1>2, AllocSolid, Zenon
<1>4. fibers[f].vals \in Seq(Live') /\ fibers[f].vals # <<>>
  BY <1>1, <1>2, <1>3, FiberIn DEF ControlInv
<1>5. Front(fibers[f].vals) \in Seq(Live')
  BY <1>4, Ends
<1>6. Append(Front(fibers[f].vals), NewHandle) \in Seq(Live') /\ "Suspended" \in FiberStates
  BY <1>3, <1>5 DEF FiberStates
<1>7. fibers' \in Seq([st : FiberStates, vals : Seq(Live')])
  BY <1>1, <1>3, <1>6, FiberSet, Zenon
<1>8. HeldIn(Live)'
  BY <1>0, <1>3, <1>7 DEF HeldIn, envVars, hostVars, rustVars
<1>9. ControlInv'
  BY <1>0, <1>1, <1>2, <1>3, <1>6, FiberSetControl, Zenon DEF envVars, hostVars, rustVars
<1> QED BY <1>0, <1>3, <1>8, <1>9, Mutates

\* main's return resets the scheduler.
LEMMA MainReturnInv ==
  ASSUME RootsInv, MainReturn
  PROVE  RootsInv'
<1>0. gc.phase = "off" /\ heapQuiet /\ UNCHANGED <<form, rustVars>> /\ buffer' = <<>>
  BY DEF MainReturn, Executing
<1>1. HeldIn(Live) /\ ControlInv /\ vstack \in Seq(Live) /\ Plain \in Live /\ <<>> \in Seq(Live)
  BY <1>0, AtRest
<1>2. SlabInv' /\ Live' = Live /\ ObjectsIn(Occupied, Live)' /\ gc' = gc /\ UNCHANGED envVars
  BY <1>0, QuietSolid DEF heapQuiet, heapVars
<1>3. /\ vstack' = <<>> /\ host' \in Seq(Live)
      /\ \/ stage' = "main" /\ host' = <<>> /\ fibers' = <<Saved("Running", <<>>)>> /\ current' = 1
         \/ stage' = "ended" /\ fibers' = <<>> /\ current' = 0
  <2>1. CASE stage = "init"
    BY <1>1, <2>1 DEF MainReturn, StartRun, ControlInv, MAIN
  <2>2. CASE stage # "init"
    <3>1. PICK v \in Results : host' = <<v>>
      BY <2>2 DEF MainReturn
    <3>2. v \in Live
      BY <1>1, Ends DEF Results
    <3> QED BY <1>1, <2>2, <3>1, <3>2 DEF MainReturn, NoFiber
  <2> QED BY <2>1, <2>2
<1>4. fibers' \in Seq([st : FiberStates, vals : Seq(Live)])
  <2> DEFINE R == [st : FiberStates, vals : Seq(Live)]
             e == Saved("Running", <<>>)
  <2>1. e \in R
    BY <1>1 DEF Saved, FiberStates
  <2>2. fibers' \in {<<>>, <<e>>}
    BY <1>3
  <2>3. fibers' \in Seq(R)
    <3> HIDE DEF R, e
    <3>1. <<>> \in Seq(R) /\ <<e>> \in Seq(R)
      BY <2>1
    <3> QED BY <2>2, <3>1, Zenon
  <2> QED BY <2>3
<1>5. HeldIn(Live)'
  BY <1>0, <1>1, <1>2, <1>3, <1>4 DEF HeldIn, envVars, rustVars
<1>6. current' \in 0 .. Len(fibers') /\ \A f \in DOMAIN fibers' : fibers'[f].st = "Running"
  BY <1>3 DEF Saved
<1>7. ControlInv'
  BY <1>0, <1>1, <1>2, <1>3, <1>6 DEF ControlInv, envVars, rustVars
<1> QED BY <1>0, <1>2, <1>5, <1>7, Mutates

\* Channels.
LEMMA ChannelsInv ==
  ASSUME RootsInv, Send \/ Receive
  PROVE  RootsInv'
<1>0. gc.phase = "off" /\ UNCHANGED <<envVars, hostVars, fibers, current, rustVars>>
  BY Zenon DEF Send, Receive, Safepoint, Executing, heapQuiet, heapVars
<1>1. HeldIn(Live) /\ ControlInv /\ Plain \in Live /\ buffer \in Seq(Live) /\ Depth \in Int
  BY <1>0, AtRest DEF HeldIn, Depth
<1>2. ControlInv'
  BY <1>0, <1>1, ControlKept DEF envVars
<1>3. CASE Send
  <2>1. Last(vstack) \in Live /\ Below(1) \in Seq(Live)
    BY <1>0, <1>1, <1>3, Operands DEF Send
  <2>2. vstack' \in Seq(Live) /\ buffer' \in Seq(Live)
    BY <1>1, <1>3, <2>1 DEF Send
  <2>3. SlabInv' /\ Live' = Live /\ ObjectsIn(Occupied, Live)' /\ gc' = gc
    BY <1>0, <1>3, QuietSolid DEF Send, heapQuiet, heapVars
  <2>4. HeldIn(Live)'
    BY <1>0, <1>1, <2>2, <2>3 DEF HeldIn, envVars, hostVars, rustVars
  <2> QED BY <1>0, <1>2, <2>3, <2>4, Mutates
<1>4. CASE Receive
  <2>1. <<Head(buffer)>> \in Seq(Live) /\ Alloc(<<Head(buffer)>>) /\ buffer # <<>>
    <3>1. Alloc(<<Head(buffer)>>) /\ buffer # <<>>
      BY <1>4, Zenon DEF Receive
    <3>2. Head(buffer) \in Live
      BY <1>1, <3>1
    <3> HIDE DEF Live
    <3> QED BY <3>1, <3>2
  <2>2. /\ SlabInv' /\ gc' = gc /\ ObjectsIn(Occupied, Live)'
        /\ NewHandle \in Live' /\ HeldIn(Live')
    BY <1>0, <2>1, AllocSolid, Zenon
  <2>3. vstack' \in Seq(Live') /\ buffer' \in Seq(Live')
    <3>1. vstack' = Append(vstack, NewHandle) /\ buffer' = Tail(buffer)
      BY <1>4, Zenon DEF Receive
    <3>2. vstack \in Seq(Live') /\ buffer \in Seq(Live')
      BY <2>2, Zenon DEF HeldIn
    <3> HIDE DEF Live, NewHandle
    <3> QED BY <2>1, <2>2, <3>1, <3>2
  <2>4. HeldIn(Live)'
    BY <1>0, <2>2, <2>3 DEF HeldIn, envVars, hostVars, rustVars
  <2> QED BY <1>0, <1>2, <2>2, <2>4, Mutates
<1> QED BY <1>3, <1>4

\* main.rs before the run.  ArgsSafe says that it keeps no argument for later.
LEMMA StartupInv ==
  ASSUME RootsInv, ArgsSafe, Startup
  PROVE  RootsInv'
<1>0. gc.phase = "off" /\ stage = "args" /\ UNCHANGED <<GC_PAUSED, INTERN, form, buffer, rustVars>>
  BY DEF Startup, NewArg, NewArgv, RootsInv, Colours, GcType, envVars, fiberVars
<1>1. HeldIn(Live) /\ ControlInv /\ host \in Seq(Live) /\ <<>> \in Seq(Live)
  BY <1>0, AtRest DEF HeldIn
<1>2. PICK o \in Seq(Live) : Alloc(o)
  BY <1>1 DEF Startup, NewArg, NewArgv
<1>3. /\ SlabInv' /\ gc' = gc /\ ObjectsIn(Occupied, Live)'
      /\ NewHandle \in Live' /\ HeldIn(Live') /\ Plain \in Live' /\ <<NewHandle>> \in Seq(Live')
      /\ <<>> \in Seq(Live')
  BY <1>0, <1>2, AllocSolid
<1>4. CASE NewArg
  <2>1. HeldIn(Live)'
    BY <1>3, <1>4 DEF NewArg, HeldIn, envVars, fiberVars, rustVars
  <2>2. ControlInv'
    BY <1>0, <1>1, <1>4 DEF NewArg, ControlInv, envVars, fiberVars, rustVars
  <2> QED BY <1>0, <1>3, <2>1, <2>2, Mutates
<1>5. CASE NewArgv
  <2>1. /\ fibers' = <<Saved("Running", <<>>)>> /\ current' = 1 /\ stage' \in {"init", "main"}
        /\ vstack' \in Seq(Live') /\ host' \in Seq(Live')
    BY <1>3, <1>5, Zenon DEF NewArgv, StartRun, MAIN
  <2>2. host' = <<>>
    BY <1>0, <1>1, <1>5 DEF NewArgv, ArgsSafe, ControlInv
  <2>3. GLOBALS' \in [Global -> Live']
    BY <1>3, <1>5 DEF NewArgv, SetGlobals
  <2>4. fibers' \in Seq([st : FiberStates, vals : Seq(Live')])
    BY <1>3, <2>1 DEF Saved, FiberStates
  <2>5. HeldIn(Live)'
    BY <1>0, <1>3, <2>1, <2>3, <2>4 DEF HeldIn, rustVars
  <2>6. Len(fibers') = 1 /\ \A f \in DOMAIN fibers' : fibers'[f].st = "Running"
    BY <2>1 DEF Saved
  <2>7. ControlInv'
    BY <1>0, <1>1, <2>1, <2>2, <2>6 DEF ControlInv, rustVars
  <2> QED BY <1>0, <1>3, <2>5, <2>7, Mutates
<1> QED BY <1>4, <1>5 DEF Startup

-----------------------------------------------------------------------------
(* The collector.                                                          *)

\* A sequence whose values are in W is one of values of W.
LEMMA SeqNarrow ==
  ASSUME NEW V, NEW W, NEW q \in Seq(V), Range(q) \subseteq W
  PROVE  q \in Seq(W)
<1>1. \A i \in 1 .. Len(q) : q[i] \in W
  BY RangeOf
<1> QED BY <1>1

\* What the holders hold, once as a set and once holder by holder.
LEMMA HeldValues ==
  ASSUME NEW V, HeldIn(V)
  PROVE  /\ Held \subseteq V
         /\ \A W : Held \subseteq W => HeldIn(W)
<1> DEFINE F(W) == [st : FiberStates, vals : Seq(W)]
           B(W) == [base : Nat, vals : Seq(W)]
<1>1. /\ Range(INTERN) \subseteq V /\ Range(GLOBALS) \subseteq V
      /\ INTERN \in [Literals -> Range(INTERN)] /\ GLOBALS \in [Global -> Range(GLOBALS)]
  BY DEF HeldIn, Range
<1>2. vstack \in Seq(V) /\ buffer \in Seq(V) /\ host \in Seq(V) /\ locals \in Seq(V)
  BY DEF HeldIn
<1>3. \A f \in DOMAIN fibers : fibers[f] \in F(V) /\ fibers[f].vals \in Seq(V)
  BY FiberIn
<1>4. \A i \in DOMAIN fallbacks : fallbacks[i] \in B(V) /\ fallbacks[i].vals \in Seq(V)
  <2>1. fallbacks \in Seq(B(V))
    BY DEF HeldIn
  <2>2. \A i \in DOMAIN fallbacks : fallbacks[i] \in B(V)
    <3> HIDE DEF B
    <3> QED BY <2>1
  <2> QED BY <2>2
<1>5. Held \subseteq V
  BY <1>1, <1>2, <1>3, <1>4, RangeOf DEF Held
<1>6. ASSUME NEW W, Held \subseteq W PROVE HeldIn(W)
  <2>1. INTERN \in [Literals -> W] /\ GLOBALS \in [Global -> W]
    BY <1>1, <1>6 DEF Held
  <2>2. /\ Range(vstack) \subseteq W /\ Range(buffer) \subseteq W
        /\ Range(host) \subseteq W /\ Range(locals) \subseteq W
    BY <1>6 DEF Held
  <2>3. vstack \in Seq(W) /\ buffer \in Seq(W) /\ host \in Seq(W) /\ locals \in Seq(W)
    BY <1>2, <2>2, SeqNarrow
  <2>4. \A f \in DOMAIN fibers : fibers[f] \in F(W)
    <3> SUFFICES ASSUME NEW f \in DOMAIN fibers PROVE fibers[f] \in F(W)
      OBVIOUS
    <3>1. Range(fibers[f].vals) \subseteq W
      BY <1>6 DEF Held
    <3>2. fibers[f].vals \in Seq(W)
      BY <1>3, <3>1, SeqNarrow
    <3> QED BY <1>3, <3>2
  <2>5. \A i \in DOMAIN fallbacks : fallbacks[i] \in B(W)
    <3> SUFFICES ASSUME NEW i \in DOMAIN fallbacks PROVE fallbacks[i] \in B(W)
      OBVIOUS
    <3>1. Range(fallbacks[i].vals) \subseteq W
      BY <1>6 DEF Held
    <3>2. fallbacks[i].vals \in Seq(W)
      BY <1>4, <3>1, SeqNarrow
    <3> QED BY <1>4, <3>2
  <2>6. fibers \in Seq(F(W)) /\ fallbacks \in Seq(B(W))
    <3>1. fibers \in Seq(F(V)) /\ fallbacks \in Seq(B(V))
      BY DEF HeldIn
    <3> HIDE DEF F, B
    <3> QED BY <2>4, <2>5, <3>1
  <2> QED BY <2>1, <2>3, <2>6 DEF HeldIn
<1> QED BY <1>5, <1>6

\* The holders are as they were while a collection runs.
LEMMA HeldKept ==
  ASSUME UNCHANGED <<envVars, progVars>>
  PROVE  /\ Held' = Held
         /\ ControlInv => ControlInv'
         /\ \A V : HeldIn(V) => HeldIn(V)'
<1>1. UNCHANGED <<GC_PAUSED, INTERN, GLOBALS, stage, form, host, vstack, fibers, current, buffer,
                  fallbacks, native, locals>>
  BY DEF envVars, progVars, hostVars, fiberVars, rustVars
<1>2. Held' = Held
  BY <1>1 DEF Held
<1>3. ControlInv => ControlInv'
  BY <1>1 DEF ControlInv
<1>4. \A V : HeldIn(V) => HeldIn(V)'
  BY <1>1 DEF HeldIn
<1> QED BY <1>2, <1>3, <1>4

\* At a safepoint that collects, the roots are everything that is held: no
\* native and no fallback is under way, and main.rs holds nothing.
LEMMA RootsAreHeld ==
  ASSUME ControlInv, Executing, ShouldCollect, NEW V, HeldIn(V)
  PROVE  Held = GatherRoots \cup PermanentRoots
<1>1. host = <<>> /\ locals = <<>>
  BY DEF ControlInv, Executing
<1>2. fallbacks = <<>>
  <2>1. Len(fallbacks) = 0
    BY DEF ControlInv, ShouldCollect
  <2> QED BY <2>1 DEF HeldIn
<1>3. Range(host) = {} /\ Range(locals) = {} /\ DOMAIN fallbacks = {}
  BY <1>1, <1>2 DEF Range
<1>4. \A v : v \in Held <=> \/ v \in Range(INTERN) \/ v \in Range(GLOBALS)
                            \/ v \in Range(vstack) \/ v \in Range(buffer)
                            \/ \E f \in DOMAIN fibers : v \in Range(fibers[f].vals)
  BY <1>3 DEF Held
<1>5. \A v : v \in GatherRoots \cup PermanentRoots <=>
                            \/ v \in Range(INTERN) \/ v \in Range(GLOBALS)
                            \/ v \in Range(vstack) \/ v \in Range(buffer)
                            \/ \E f \in DOMAIN fibers : v \in Range(fibers[f].vals)
  BY DEF GatherRoots, PermanentRoots
<1> QED BY <1>4, <1>5

\* The roots are marked: whatever is held is black, and nothing else is marked.
LEMMA PollGcInv ==
  ASSUME RootsInv, PollGc
  PROVE  RootsInv'
<1>0. /\ gc.phase = "off" /\ Executing /\ ShouldCollect
      /\ UNCHANGED <<slabVars, envVars, progVars>>
  BY DEF PollGc, Executing, Collect
<1>1. SlabInv /\ ControlInv /\ HeldIn(Live) /\ ObjectsIn(Occupied, Live)
  BY <1>0, AtRest
<1> DEFINE grey == Refs(Held)
<1>2. gc' = [phase |-> "mark", marked |-> grey, worklist |-> grey, live |-> 0, i |-> 0]
  <2>1. Held = GatherRoots \cup PermanentRoots
    BY <1>0, <1>1, RootsAreHeld
  <2> QED BY <2>1, Zenon DEF PollGc, Collect, Idle
<1>3. grey \subseteq Occupied
  BY <1>1, HeldValues DEF Refs, Live
<1>4. gc'.phase = "mark" /\ gc'.marked = grey /\ gc'.worklist = grey /\ gc'.i = 0
  BY <1>2
<1>5. GcType'
  <2>1. grey \subseteq Handle /\ MaxSlots \in Nat
    BY <1>3, HeapAssumption DEF Occupied
  <2> HIDE DEF grey
  <2> QED BY <1>2, <2>1 DEF GcType
<1>6. Held' = Held /\ ControlInv' /\ \A V : HeldIn(V) => HeldIn(V)'
  BY <1>0, <1>1, HeldKept
<1>7. SlabInv' /\ Live' = Live /\ ObjectsIn(Occupied, Live)' /\ Occupied' = Occupied
  BY <1>0, QuietSolid DEF Occupied, slabVars
<1>8. HeldIn(Live)'
  BY <1>1, <1>6, <1>7, Zenon DEF HeldIn
<1>9. HeldIn(Black)'
  <2>1. Held \subseteq Black'
    BY <1>4 DEF Black, Refs
  <2>2. HeldIn(Black')
    BY <1>1, <2>1, HeldValues
  <2> QED BY <1>0, <2>2 DEF HeldIn, envVars, progVars, hostVars, fiberVars, rustVars
<1>10. ObjectsIn(gc.marked \ gc.worklist, Black)'
  BY <1>4 DEF ObjectsIn
<1>11. MarkedNeeded'
  BY <1>4, <1>6 DEF MarkedNeeded
<1>12. stage' \in {"init", "main"}
  BY <1>0 DEF Executing, progVars, hostVars
<1>13. Colours'
  BY <1>3, <1>4, <1>7, <1>9, <1>10, <1>11, <1>12 DEF Colours
<1> QED BY <1>4, <1>5, <1>6, <1>7, <1>8, <1>13, Zenon DEF RootsInv, Solid

\* One object of the worklist is scanned.
LEMMA MarkStepInv ==
  ASSUME RootsInv, MarkStep, UNCHANGED progVars
  PROVE  RootsInv'
<1>0. /\ gc.phase = "mark" /\ gc.i = 0 /\ UNCHANGED <<slabVars, envVars>>
      /\ SlabInv /\ ControlInv /\ GcType /\ HeldIn(Live) /\ ObjectsIn(Occupied, Live) /\ Colours
  BY DEF MarkStep, RootsInv, Solid
<1>1. PICK h \in gc.worklist :
        LET new == IF slots[h] = Hole THEN {} ELSE Children(slots[h]) \ gc.marked
        IN gc' = [gc EXCEPT !.worklist = (@ \ {h}) \cup new, !.marked = @ \cup new,
                            !.live = @ + IF slots[h] = Hole THEN 0 ELSE HeapBytes(slots[h])]
  BY Zenon DEF MarkStep
<1>2. h \in gc.marked /\ h \in Occupied /\ slots[h] # Hole /\ slots[h] \in Seq(Live)
  BY <1>0, Zenon DEF Colours, ObjectsIn, Occupied
<1> DEFINE new == Children(slots[h]) \ gc.marked
<1>3. gc' = [gc EXCEPT !.worklist = (@ \ {h}) \cup new, !.marked = @ \cup new,
                       !.live = @ + HeapBytes(slots[h])]
  BY <1>1, <1>2
<1>4. Range(slots[h]) \subseteq Live /\ Children(slots[h]) \subseteq Occupied
  BY <1>2, RangeOf DEF Children, Refs, Live
<1>5. new \subseteq Occupied /\ new \subseteq Handle
  BY <1>4 DEF Occupied
<1>6. HeapBytes(slots[h]) \in Nat
  BY <1>2 DEF HeapBytes
<1>7. /\ gc'.phase = "mark" /\ gc'.i = 0 /\ gc'.marked = gc.marked \cup new
      /\ gc'.worklist = (gc.worklist \ {h}) \cup new
  <2> HIDE DEF new
  <2> QED BY <1>0, <1>3 DEF GcType
<1>8. GcType'
  <2> HIDE DEF new
  <2> DEFINE marked == gc.marked \cup new
             worklist == (gc.worklist \ {h}) \cup new
             live == gc.live + HeapBytes(slots[h])
  <2>1. marked \in SUBSET Handle /\ worklist \in SUBSET Handle /\ live \in Nat
    BY <1>0, <1>5, <1>6 DEF GcType
  <2>2. gc' = [gc EXCEPT !.worklist = worklist, !.marked = marked, !.live = live]
    BY <1>3
  <2> HIDE DEF marked, worklist, live
  <2> QED BY <1>0, <2>1, <2>2, Zenon DEF GcType
<1>9. Held' = Held /\ ControlInv' /\ \A V : HeldIn(V) => HeldIn(V)'
  BY <1>0, HeldKept
<1>10. SlabInv' /\ Live' = Live /\ ObjectsIn(Occupied, Live)' /\ Occupied' = Occupied /\ slots' = slots
  BY <1>0 DEF SlabInv, FreeListExact, ObjectsIn, Live, Occupied, slabVars
<1>11. HeldIn(Live)'
  BY <1>0, <1>9, <1>10, Zenon DEF HeldIn
<1>12. Black \subseteq Black' /\ Range(slots[h]) \subseteq Black'
  BY <1>7 DEF Black, Children, Refs
<1>13. HeldIn(Black)'
  <2>1. HeldIn(Black')
    BY <1>0, <1>12, HeldMono DEF Colours
  <2> QED BY <1>0, <2>1, Zenon DEF HeldIn, envVars, progVars, hostVars, fiberVars, rustVars
<1>14. ObjectsIn(gc.marked \ gc.worklist, Black)'
  <2> SUFFICES ASSUME NEW g \in gc'.marked \ gc'.worklist PROVE slots[g] \in Seq(Black')
    BY <1>10 DEF ObjectsIn
  <2>1. g \in gc.marked /\ (g = h \/ g \notin gc.worklist)
    BY <1>7
  <2>2. CASE g = h
    BY <1>2, <1>12, <2>2, SeqNarrow
  <2>3. CASE g \notin gc.worklist
    <3>1. slots[g] \in Seq(Black)
      BY <1>0, <2>1, <2>3 DEF Colours, ObjectsIn
    <3> QED BY <1>12, <3>1, SeqMono, Zenon
  <2> QED BY <2>1, <2>2, <2>3
<1>15. MarkedNeeded'
  <2> SUFFICES ASSUME NEW S \in SUBSET Handle, Refs(Held) \subseteq S,
                      \A g \in S \cap gc'.marked : Children(slots[g]) \subseteq S
               PROVE  gc'.marked \subseteq S
    BY <1>9, <1>10 DEF MarkedNeeded, Children, Refs
  <2>1. gc.marked \subseteq S
    BY <1>0, <1>7 DEF Colours, MarkedNeeded
  <2>2. Children(slots[h]) \subseteq S
    BY <1>2, <1>7, <2>1
  <2> QED BY <1>7, <2>1, <2>2
<1>16. gc'.marked \subseteq Occupied' /\ gc'.worklist \subseteq gc'.marked
  BY <1>0, <1>5, <1>7, <1>10, Zenon DEF Colours
<1>17. Colours'
  BY <1>0, <1>13, <1>14, <1>15, <1>16, Zenon DEF Colours, progVars, hostVars
<1> QED BY <1>7, <1>8, <1>9, <1>10, <1>11, <1>17, Zenon DEF RootsInv, Solid

\* The worklist is empty: the sweep starts.
LEMMA MarkDoneInv ==
  ASSUME RootsInv, MarkDone, UNCHANGED progVars
  PROVE  RootsInv'
<1>0. /\ gc.phase = "mark" /\ gc.worklist = {} /\ gc.i = 0 /\ UNCHANGED <<slabVars, envVars>>
      /\ gc' = [gc EXCEPT !.phase = "sweep"]
      /\ SlabInv /\ ControlInv /\ GcType /\ Colours
  BY DEF MarkDone, RootsInv
<1>1. gc'.phase = "sweep" /\ gc'.marked = gc.marked /\ gc'.worklist = {} /\ gc'.i = gc.i /\ GcType'
  BY <1>0 DEF GcType
<1>2. Held' = Held /\ ControlInv'
  BY <1>0, HeldKept
<1>3. SlabInv' /\ Occupied' = Occupied /\ slots' = slots
  BY <1>0 DEF SlabInv, FreeListExact, Occupied, slabVars
<1>4. HeldIn(Black)'
  BY <1>0, <1>1 DEF Colours, HeldIn, Black, envVars, progVars, hostVars, fiberVars, rustVars
<1>5. ObjectsIn(gc.marked \ gc.worklist, Black)'
  BY <1>0, <1>1, <1>3 DEF Colours, ObjectsIn, Black
<1>6. MarkedNeeded'
  BY <1>0, <1>1, <1>2, <1>3 DEF Colours, MarkedNeeded, Children, Refs
<1>7. Colours'
  BY <1>0, <1>1, <1>3, <1>4, <1>5, <1>6 DEF Colours, progVars, hostVars
<1>8. Sweeping'
  <2>1. \A h \in Occupied' : ~(h < gc'.i)
    BY <1>0, <1>1 DEF Occupied, Handle
  <2> QED BY <1>1, <2>1 DEF Sweeping
<1> QED BY <1>1, <1>2, <1>3, <1>7, <1>8, Zenon DEF RootsInv

\* One slot is swept: no marked object is touched.
LEMMA SweepStepInv ==
  ASSUME RootsInv, SweepStep, UNCHANGED progVars
  PROVE  RootsInv'
<1>0. /\ gc.phase = "sweep" /\ UNCHANGED envVars
      /\ gc' = [gc EXCEPT !.i = @ + 1] /\ gc.i < slab
      /\ SlabInv /\ ControlInv /\ GcType /\ Colours /\ Sweeping
  BY DEF SweepStep, RootsInv
<1>1. /\ SlabInv' /\ gc.i \in Handle
      /\ Occupied' = IF Swept(gc.i) THEN Occupied \ {gc.i} ELSE Occupied
      /\ \A h \in Occupied' : slots'[h] = slots[h]
  BY <1>0, SweepSlab
<1>2. gc.i + 1 \in 0 .. MaxSlots
  BY <1>0, HeapAssumption DEF SlabInv, GcType
<1>3. /\ gc'.phase = "sweep" /\ gc'.marked = gc.marked /\ gc'.worklist = gc.worklist
      /\ gc'.i = gc.i + 1
  BY <1>0 DEF GcType
<1>4. GcType'
  BY <1>0, <1>2 DEF GcType
<1>5. Held' = Held /\ ControlInv'
  BY <1>0, HeldKept
<1>6. gc.marked \subseteq Occupied' /\ \A h \in gc.marked : slots'[h] = slots[h]
  BY <1>0, <1>1 DEF Colours, Swept
<1>7. HeldIn(Black)'
  BY <1>0, <1>3 DEF Colours, HeldIn, Black, envVars, progVars, hostVars, fiberVars, rustVars
<1>8. ObjectsIn(gc.marked \ gc.worklist, Black)'
  BY <1>0, <1>3, <1>6 DEF Colours, ObjectsIn, Black
<1>9. MarkedNeeded'
  <2> SUFFICES ASSUME NEW S \in SUBSET Handle, Refs(Held) \subseteq S,
                      \A h \in S \cap gc.marked : Children(slots'[h]) \subseteq S
               PROVE  gc.marked \subseteq S
    BY <1>3, <1>5 DEF MarkedNeeded, Children, Refs
  <2>1. \A h \in S \cap gc.marked : Children(slots[h]) \subseteq S
    BY <1>6
  <2> QED BY <1>0, <2>1 DEF Colours, MarkedNeeded
<1>10. Colours'
  BY <1>0, <1>3, <1>6, <1>7, <1>8, <1>9 DEF Colours, progVars, hostVars
<1>11. Sweeping'
  <2> SUFFICES ASSUME NEW h \in Occupied', h < gc.i + 1 PROVE h \in gc.marked
    BY <1>0, <1>3 DEF Sweeping
  <2>1. h \in Occupied /\ h \in Handle /\ slots[h] # Hole
    BY <1>1 DEF Occupied
  <2>2. h < gc.i \/ h = gc.i
    BY <1>1, <2>1 DEF Handle
  <2>3. CASE h < gc.i
    BY <1>0, <2>1, <2>3 DEF Sweeping
  <2>4. CASE h = gc.i
    BY <1>1, <2>1, <2>4 DEF Swept
  <2> QED BY <2>2, <2>3, <2>4
<1> QED BY <1>1, <1>3, <1>4, <1>5, <1>10, <1>11 DEF RootsInv

\* Behind the sweep only what was marked is left.
LEMMA SweptAll ==
  ASSUME RootsInv, SweepDone
  PROVE  /\ Occupied = gc.marked /\ Black = Live /\ gc.worklist = {} /\ Colours
<1>1. gc.phase = "sweep" /\ gc.i = slab /\ SlabInv /\ Colours /\ Sweeping
  BY DEF SweepDone, RootsInv
<1>2. \A h \in Occupied : h < slab
  BY <1>1 DEF SlabInv, FreeListExact
<1>3. Occupied = gc.marked
  BY <1>1, <1>2 DEF Colours, Sweeping
<1> QED BY <1>1, <1>3 DEF Live, Black, Sweeping

\* The end of a collection.
LEMMA FinishGcInv ==
  ASSUME RootsInv, FinishGc
  PROVE  RootsInv'
<1>1. Occupied = gc.marked /\ Black = Live /\ gc.worklist = {} /\ Colours
  BY SweptAll DEF FinishGc
<1>2. UNCHANGED <<slabVars, envVars, form, host, vstack, fiberVars, rustVars>> /\ gc' = Idle
  BY DEF FinishGc, SweepDone
<1>3. SlabInv' /\ Live' = Live /\ Occupied' = Occupied /\ slots' = slots
  BY <1>2 DEF RootsInv, SlabInv, FreeListExact, Live, Occupied, slabVars
<1>4. HeldIn(Live)'
  BY <1>1, <1>2, <1>3, Zenon DEF Colours, HeldIn, envVars, fiberVars, rustVars
<1>5. ObjectsIn(Occupied, Live)'
  BY <1>1, <1>3 DEF Colours, ObjectsIn
<1>6. gc'.phase = "off" /\ gc'.i = 0 /\ GcType'
  BY <1>2, HeapAssumption DEF GcType, Idle
<1>7. ControlInv'
  <2>1. stage' \in {stage, "oom"}
    BY DEF FinishGc
  <2> QED BY <1>2, <2>1 DEF RootsInv, ControlInv, envVars, fiberVars, rustVars
<1> QED BY <1>3, <1>4, <1>5, <1>6, <1>7 DEF RootsInv, Solid

-----------------------------------------------------------------------------
(* The theorems.                                                           *)

\* The initial states.
LEMMA InitInv == Init => RootsInv
<1> SUFFICES ASSUME Init PROVE RootsInv
  OBVIOUS
<1>1. Occupied = {} /\ slots \in [Handle -> Obj \cup {Hole}]
  BY DEF Init, HeapInit, Occupied
<1>2. SlabInv
  <2>1. slab = 0 /\ free = <<>> /\ slab \in 0 .. MaxSlots /\ free \in Seq(Handle)
    BY HeapAssumption DEF Init, HeapInit
  <2>2. Range(free) = {}
    BY <2>1 DEF Range
  <2>3. {h \in Handle : h < slab /\ slots[h] = Hole} = {}
    BY <2>1 DEF Handle
  <2> QED BY <1>1, <2>1, <2>2, <2>3 DEF SlabInv, FreeListExact
<1>3. ControlInv
  <2>1. DOMAIN fibers = {} /\ current \in 0 .. Len(fibers) /\ GC_PAUSED = Len(fallbacks)
    BY DEF Init, HeapInit, NoFiber
  <2>2. form \in EntryForms /\ stage = "args" /\ native \in BOOLEAN /\ locals = <<>>
    BY Zenon DEF Init
  <2> QED BY <2>1, <2>2 DEF ControlInv
<1>4. GcType /\ gc.phase = "off" /\ gc.i = 0
  <2>1. gc = Idle /\ 0 \in 0 .. MaxSlots
    BY HeapAssumption DEF Init, HeapInit
  <2> QED BY <2>1 DEF GcType, Idle
<1>5. HeldIn(Live)
  BY DEF Init, HeapInit, HeldIn, Live
<1>6. ObjectsIn(Occupied, Live)
  BY <1>1 DEF ObjectsIn
<1> QED BY <1>2, <1>3, <1>4, <1>5, <1>6 DEF RootsInv, Solid

\* Every step keeps the invariant.
LEMMA NextInv ==
  ASSUME ArgsSafe, RootsInv, [Next]_vars
  PROVE  RootsInv'
<1>1. CASE Startup
  BY <1>1, StartupInv
<1>2. CASE Safepoints
  BY <1>2, PollGcInv, MarkStepInv, MarkDoneInv, SweepStepInv, FinishGcInv DEF Safepoints, Collecting
<1>3. CASE Instr
  BY <1>3, MovesInv, AllocatesInv, StoresInv DEF Instr
<1>4. CASE Natives
  BY <1>4, StoresInv, NativesInv DEF Natives
<1>5. CASE Fallbacks
  BY <1>5, MovesInv, FallbacksInv DEF Fallbacks
<1>6. CASE Fibers
  BY <1>6, MovesInv, SpawnInv, SwitchesInv, DeliverInv, MainReturnInv DEF Fibers
<1>7. CASE Channels
  BY <1>7, ChannelsInv DEF Channels
<1>8. CASE UNCHANGED vars
  <2>1. UNCHANGED <<slots, slab, free, gc, GC_PAUSED, INTERN, GLOBALS, stage, form, host, vstack,
                    fibers, current, buffer, fallbacks, native, locals>>
    BY <1>8 DEF vars, heapVars, slabVars, envVars, progVars, hostVars, fiberVars, rustVars
  <2>2. UNCHANGED <<Occupied, Live, Black, Held>>
    BY <2>1 DEF Occupied, Live, Black, Held
  <2>3. SlabInv' = SlabInv /\ ControlInv' = ControlInv /\ GcType' = GcType
    BY <2>1, <2>2, Zenon DEF SlabInv, FreeListExact, ControlInv, GcType
  <2>4. Solid' = Solid /\ Colours' = Colours /\ Sweeping' = Sweeping
    BY <2>1, <2>2, Zenon DEF Solid, Colours, Sweeping, HeldIn, ObjectsIn, MarkedNeeded, Children, Refs
  <2> QED BY <2>1, <2>3, <2>4 DEF RootsInv
<1> QED BY <1>1, <1>2, <1>3, <1>4, <1>5, <1>6, <1>7, <1>8 DEF Next

\* The invariant holds in every state of every run.
THEOREM RootsInvariance ==
  ASSUME ArgsSafe
  PROVE  Spec => []RootsInv
<1>1. Init => RootsInv
  BY InitInv
<1>2. RootsInv /\ [Next]_vars => RootsInv'
  BY NextInv
<1> QED BY <1>1, <1>2, PTL DEF Spec

\* A closed set around the holders contains whatever can be reached.
LEMMA Around ==
  ASSUME NEW S \in SUBSET Handle, NEW values, Refs(values) \subseteq S, Closed(S)
  PROVE  Reach(values) \subseteq S
BY DEF Reach

\* No use after free: what a program, a native, a fallback or main.rs can still
\* reach is an object, at every step of a collection too.
THEOREM NoUseAfterFree ==
  ASSUME ArgsSafe
  PROVE  Spec => []NoDangling
<1>1. RootsInv => NoDangling
  <2> SUFFICES ASSUME RootsInv PROVE Reach(Held) \subseteq Occupied
    BY DEF NoDangling
  <2>1. CASE gc.phase # "sweep"
    <3>1. HeldIn(Live) /\ ObjectsIn(Occupied, Live)
      BY <2>1 DEF RootsInv, GcType, Solid
    <3>2. Refs(Held) \subseteq Occupied
      BY <3>1, HeldValues DEF Refs, Live
    <3>3. Closed(Occupied)
      BY <3>1, RangeOf DEF Closed, ObjectsIn, Children, Refs, Live
    <3> QED BY <3>2, <3>3, Around DEF Occupied
  <2>2. CASE gc.phase = "sweep"
    <3>1. /\ gc.marked \subseteq Occupied /\ gc.worklist = {}
          /\ HeldIn(Black) /\ ObjectsIn(gc.marked \ gc.worklist, Black)
      BY <2>2, Zenon DEF RootsInv, Colours, Sweeping
    <3>2. Refs(Held) \subseteq gc.marked
      BY <3>1, HeldValues, Zenon DEF Refs, Black
    <3>3. Closed(gc.marked)
      BY <3>1, RangeOf DEF Closed, ObjectsIn, Children, Refs, Black
    <3>4. gc.marked \in SUBSET Handle
      BY <3>1 DEF Occupied
    <3> QED BY <3>1, <3>2, <3>3, <3>4, Around
  <2> QED BY <2>1, <2>2
<1> QED BY <1>1, RootsInvariance, PTL

\* The free list holds each hole of the slab once and nothing else.
THEOREM FreeListIsExact ==
  ASSUME ArgsSafe
  PROVE  Spec => []FreeListExact
<1>1. RootsInv => FreeListExact
  BY DEF RootsInv, SlabInv
<1> QED BY <1>1, RootsInvariance, PTL

\* While a collection runs nothing else does.
LEMMA CollectingOnly ==
  ASSUME RootsInv, gc.phase # "off"
  PROVE  ~ (Startup \/ PollGc \/ Instr \/ Natives \/ Fallbacks \/ Fibers \/ Channels)
<1>1. gc.phase # "off" /\ stage \in {"init", "main"}
  BY Zenon DEF RootsInv, Colours
<1>2. ~ PollGc
  BY <1>1, Zenon DEF PollGc, Executing
<1> QED
  BY <1>1, <1>2, Zenon DEF Startup, NewArg, NewArgv, Instr, Load, Store, Pop, GlobalGet, GlobalSet, ConstStr,
       New, FieldGet, FieldSet, Natives, ListPush, CallNative, NativeNewStr, NativeReturn,
       Fallbacks, VirtualFallback, NestedCall, FallbackReturn, Fibers, Spawn, Park, Deliver,
       Resume, FiberReturn, MainReturn, Join, Channels, Send, Receive, Safepoint, Executing,
       InNative, Idling

\* A sweep ends with FinishGc.
LEMMA SweepEnds ==
  ASSUME RootsInv, [Next]_vars, gc.phase = "sweep", gc'.phase = "off"
  PROVE  FinishGc
<1>1. ~ (Startup \/ PollGc \/ Instr \/ Natives \/ Fallbacks \/ Fibers \/ Channels)
  BY CollectingOnly
<1>2. ~ (MarkStep \/ MarkDone)
  BY DEF MarkStep, MarkDone
<1>3. ~ SweepStep
  BY DEF SweepStep, RootsInv, GcType
<1>4. ~ UNCHANGED vars
  BY DEF vars, heapVars
<1> QED BY <1>1, <1>2, <1>3, <1>4 DEF Next, Safepoints, Collecting

\* The objects a collection leaves are the marked ones, and they are the ones
\* that can be reached.
LEMMA MarkedIsReached ==
  ASSUME RootsInv, FinishGc
  PROVE  /\ gc.worklist = {} /\ slots' = slots
         /\ Occupied' = gc.marked /\ Reach(Held)' = gc.marked
<1>1. Occupied = gc.marked /\ Black = Live /\ gc.worklist = {} /\ Colours
  BY SweptAll DEF FinishGc
<1>2. UNCHANGED <<slots, INTERN, GLOBALS, host, vstack, fibers, buffer, fallbacks, locals>>
  BY DEF FinishGc, SweepDone, slabVars, envVars, fiberVars, rustVars
<1>3. Held' = Held /\ Occupied' = Occupied
  BY <1>2 DEF Held, Occupied
<1>4. Reach(Held)' = Reach(Held)
  BY <1>2, <1>3 DEF Reach, Closed, Children, Refs
<1>5. Occupied \subseteq Reach(Held)
  <2> SUFFICES ASSUME NEW h \in Occupied, NEW S \in SUBSET Handle, Refs(Held) \subseteq S, Closed(S)
               PROVE  h \in S
    BY DEF Reach, Occupied
  <2>1. \A g \in S \cap gc.marked : Children(slots[g]) \subseteq S
    BY <1>1 DEF Closed
  <2> QED BY <1>1, <2>1, Zenon DEF Colours, MarkedNeeded
<1>6. Reach(Held) \subseteq Occupied
  <2>1. Refs(Held) \subseteq Occupied
    BY <1>1, HeldValues DEF Colours, Refs, Black, Live
  <2>2. Closed(Occupied)
    BY <1>1, RangeOf DEF Closed, Colours, ObjectsIn, Children, Refs, Black, Live
  <2> QED BY <2>1, <2>2, Around DEF Occupied
<1> QED BY <1>1, <1>2, <1>3, <1>4, <1>5, <1>6

\* The estimate, with what keeps it a number.
BytesInv ==
  /\ heap_bytes \in Nat /\ next_gc_bytes \in Nat /\ GC_PENDING \in BOOLEAN
  /\ CollectionArmed

\* An allocation arms a collection once it brings the estimate to a limit.
LEMMA AllocBytes ==
  ASSUME BytesInv, NEW V, NEW o \in Seq(V), Alloc(o), gc.phase = "off"
  PROVE  BytesInv'
<1>1. HeapBytes(o) \in Nat
  BY DEF HeapBytes
<1>2. /\ heap_bytes' \in Nat /\ next_gc_bytes' = next_gc_bytes
      /\ GC_PENDING' = (GC_PENDING \/ heap_bytes' >= next_gc_bytes \/ heap_bytes' >= MAX_HEAP)
  BY <1>1 DEF Alloc, BytesInv, Armed
<1>3. MAX_HEAP \in Nat
  BY HeapAssumption
<1>4. GC_PENDING' \in BOOLEAN
  BY <1>2
<1>5. heap_bytes' > MAX_HEAP => heap_bytes' >= MAX_HEAP
  BY <1>2, <1>3
<1>6. heap_bytes' >= next_gc_bytes' \/ heap_bytes' > MAX_HEAP => GC_PENDING'
  BY <1>2, <1>5, Zenon
<1> QED BY <1>2, <1>4, <1>6 DEF BytesInv, CollectionArmed

\* The next threshold lies above what is left.
LEMMA Threshold ==
  ASSUME NEW bytes \in Nat, NEW live \in Nat
  PROVE  NextThreshold(bytes, live) \in Nat /\ live < NextThreshold(bytes, live)
<1> DEFINE grow == IF bytes > 0 /\ (IF bytes > live THEN bytes - live ELSE 0) * 4 < bytes THEN 4 ELSE 2
<1>1. MIN_GC_BYTES \in Nat \ {0}
  BY HeapAssumption
<1>2. NextThreshold(bytes, live) = IF live * grow > MIN_GC_BYTES THEN live * grow ELSE MIN_GC_BYTES
  BY DEF NextThreshold
<1>3. grow = 2 \/ grow = 4
  OBVIOUS
<1> HIDE DEF grow
<1>4. CASE grow = 2
  BY <1>1, <1>2, <1>4
<1>5. CASE grow = 4
  BY <1>1, <1>2, <1>5
<1> QED BY <1>3, <1>4, <1>5

\* The estimate is reset to what was marked; past the ceiling the run ends.
LEMMA FinishBytes ==
  ASSUME BytesInv, RootsInv, FinishGc
  PROVE  BytesInv'
<1>1. gc.live \in Nat /\ MAX_HEAP \in Nat
  BY HeapAssumption DEF RootsInv, GcType
<1>2. /\ heap_bytes' = gc.live /\ next_gc_bytes' = NextThreshold(heap_bytes, gc.live)
      /\ GC_PENDING' = FALSE
      /\ stage' # "oom" => ~(heap_bytes' > MAX_HEAP)
  BY DEF FinishGc, SweepDone, Ceiling, OverCeiling
<1>3. next_gc_bytes' \in Nat /\ gc.live < next_gc_bytes'
  BY <1>1, <1>2, Threshold, Zenon DEF BytesInv
<1>4. ~(heap_bytes' >= next_gc_bytes')
  BY <1>1, <1>2, <1>3
<1> QED BY <1>1, <1>2, <1>3, <1>4, Zenon DEF BytesInv, CollectionArmed

\* A collection starts or goes on.
LEMMA StartsOrGoesOn ==
  ASSUME RootsInv, PollGc \/ Collecting
  PROVE  UNCHANGED byteVars /\ gc'.phase # "off"
<1>1. PollGc => UNCHANGED byteVars /\ gc'.phase # "off"
  BY DEF PollGc, Collect, Idle
<1>2. Collecting => UNCHANGED byteVars /\ gc'.phase # "off"
  BY Zenon DEF Collecting, MarkStep, MarkDone, SweepStep, RootsInv, GcType
<1> QED BY <1>1, <1>2

\* Every other step leaves the estimate alone, or allocates while no collection
\* runs.
LEMMA ByteSteps ==
  ASSUME RootsInv, [Next]_vars
  PROVE  \/ FinishGc
         \/ gc.phase = "off" /\ \E o \in Seq(Live) : Alloc(o)
         \/ PollGc \/ Collecting
         \/ UNCHANGED byteVars /\ gc' = gc /\ (stage' # "oom" => stage # "oom")
<1> DEFINE Allocs == gc.phase = "off" /\ \E o \in Seq(Live) : Alloc(o)
           Quiet == UNCHANGED byteVars /\ gc' = gc /\ (stage' # "oom" => stage # "oom")
<1>1. gc.phase = "off" => /\ <<>> \in Seq(Live) /\ host \in Seq(Live) /\ locals \in Seq(Live)
                          /\ buffer \in Seq(Live)
  BY AtRest DEF HeldIn
<1>2. Startup => Allocs
  <2>1. stage = "args" => gc.phase = "off"
    BY DEF RootsInv, Colours
  <2> QED BY <1>1, <2>1 DEF Startup, NewArg, NewArgv
<1>3. Load \/ Store \/ Pop \/ GlobalGet \/ GlobalSet \/ FieldGet \/ FieldSet => Quiet
  BY Zenon DEF Load, Store, Pop, GlobalGet, GlobalSet, FieldGet, FieldSet, heapQuiet, heapVars, elsewhere,
         hostVars
<1>4. ListPush \/ CallNative \/ VirtualFallback \/ NestedCall => Quiet
  BY Zenon DEF ListPush, CallNative, VirtualFallback, NestedCall, heapQuiet, heapVars, elsewhere, hostVars
<1>5. Spawn \/ Park \/ Resume \/ FiberReturn \/ MainReturn \/ Join \/ Send => Quiet
  BY Zenon DEF Spawn, Park, Resume, FiberReturn, MainReturn, Join, Send, Executing, heapQuiet, heapVars,
         elsewhere, hostVars, Safepoint
<1>6. New => Allocs
  <2> SUFFICES ASSUME New PROVE Allocs
    OBVIOUS
  <2>1. PICK n \in 0 .. MaxKids : Depth >= n /\ Alloc(Top(n))
    BY DEF New
  <2>2. n \in Nat /\ gc.phase = "off"
    BY RootsAssumption DEF New, Safepoint, Executing
  <2>3. Top(n) \in Seq(Live)
    BY <2>1, <2>2, Operands
  <2> QED BY <2>1, <2>2, <2>3
<1>7. ConstStr => Allocs \/ Quiet
  BY <1>1, Zenon DEF ConstStr, Safepoint, Executing, heapQuiet, heapVars, elsewhere, hostVars
<1>8. NativeNewStr \/ NativeReturn \/ FallbackReturn \/ Deliver => Allocs
  BY <1>1, Zenon DEF NativeNewStr, NativeReturn, FallbackReturn, Deliver, InNative, Executing, Idling
<1>9. Receive => Allocs
  <2> SUFFICES ASSUME Receive PROVE Allocs
    OBVIOUS
  <2>1. gc.phase = "off" /\ buffer # <<>> /\ Alloc(<<Head(buffer)>>)
    BY DEF Receive, Safepoint, Executing
  <2>2. <<Head(buffer)>> \in Seq(Live)
    BY <1>1, <2>1
  <2> QED BY <2>1, <2>2, Zenon
<1>10. UNCHANGED vars => Quiet
  BY DEF vars, heapVars, progVars, hostVars
<1> QED
  BY <1>2, <1>3, <1>4, <1>5, <1>6, <1>7, <1>8, <1>9, <1>10
     DEF Next, Startup, Safepoints, Instr, Natives, Fallbacks, Fibers, Channels

\* A heap past its threshold or its ceiling always has a collection armed.
THEOREM CollectionsArm ==
  ASSUME ArgsSafe
  PROVE  Spec => []CollectionArmed
<1>1. Init => BytesInv
  <2> SUFFICES ASSUME Init PROVE BytesInv
    OBVIOUS
  <2>1. heap_bytes = 0 /\ next_gc_bytes = MIN_GC_BYTES /\ GC_PENDING = FALSE
    BY DEF Init, HeapInit
  <2>2. MIN_GC_BYTES \in Nat \ {0} /\ MAX_HEAP \in Nat
    BY HeapAssumption
  <2>3. ~(heap_bytes >= next_gc_bytes) /\ ~(heap_bytes > MAX_HEAP)
    BY <2>1, <2>2
  <2> QED BY <2>1, <2>2, <2>3, Zenon DEF BytesInv, CollectionArmed
<1>2. RootsInv /\ BytesInv /\ [Next]_vars => BytesInv'
  <2> SUFFICES ASSUME RootsInv, BytesInv, [Next]_vars PROVE BytesInv'
    OBVIOUS
  <2>1. CASE FinishGc
    BY <2>1, FinishBytes
  <2>2. CASE gc.phase = "off" /\ \E o \in Seq(Live) : Alloc(o)
    BY <2>2, AllocBytes
  <2>3. CASE PollGc \/ Collecting
    BY <2>3, StartsOrGoesOn DEF BytesInv, CollectionArmed, byteVars
  <2>4. CASE UNCHANGED byteVars /\ gc' = gc /\ (stage' # "oom" => stage # "oom")
    BY <2>4 DEF BytesInv, CollectionArmed, byteVars
  <2> QED BY <2>1, <2>2, <2>3, <2>4, ByteSteps
<1>3. BytesInv => CollectionArmed
  BY DEF BytesInv
<1> QED BY <1>1, <1>2, <1>3, RootsInvariance, PTL DEF Spec

-----------------------------------------------------------------------------
(* The end of a run.                                                       *)

\* A native is between two steps only while instructions run.
NativeInv == native => gc.phase = "off" /\ stage \in {"init", "main"}

\* No step other than CallNative enters a native, and no step ends the run or
\* collects under one.
LEMMA NativeKept ==
  ASSUME RootsInv, NativeInv, [Next]_vars
  PROVE  NativeInv'
<1>1. CASE Startup
  <2>1. ~native /\ native' = native
    BY <1>1, Zenon DEF Startup, NewArg, NewArgv, NativeInv, rustVars
  <2> QED BY <2>1, Zenon DEF NativeInv
<1>2. CASE Safepoints
  <2>1. ~native /\ native' = native
    BY <1>2, Zenon DEF Safepoints, PollGc, Executing, Collecting, MarkStep, MarkDone, SweepStep, FinishGc,
         SweepDone, NativeInv, progVars, rustVars
  <2> QED BY <2>1, Zenon DEF NativeInv
<1>3. CASE Instr
  <2>1. ~native /\ native' = native
    BY <1>3, Zenon DEF Instr, Load, Store, Pop, GlobalGet, GlobalSet, ConstStr, New, FieldGet, FieldSet,
         Safepoint, Executing, elsewhere, rustVars
  <2> QED BY <2>1, Zenon DEF NativeInv
<1>4. CASE Natives
  <2>1. gc.phase = "off" /\ gc' = gc /\ stage' = stage /\ (native \/ stage \in {"init", "main"})
    BY <1>4, Zenon DEF Natives, ListPush, CallNative, NativeNewStr, NativeReturn, InNative, Safepoint,
         Executing, Alloc, elsewhere, heapQuiet, heapVars, hostVars
  <2> QED BY <2>1, Zenon DEF NativeInv
<1>5. CASE Fallbacks
  <2>1. ~native /\ native' = native
    BY <1>5, Zenon DEF Fallbacks, VirtualFallback, NestedCall, FallbackReturn, Safepoint, Executing,
         elsewhere, rustVars
  <2> QED BY <2>1, Zenon DEF NativeInv
<1>6. CASE Spawn \/ Park \/ FiberReturn \/ MainReturn \/ Join
  <2>1. ~native /\ native' = native
    BY <1>6, Zenon DEF Spawn, Park, FiberReturn, MainReturn, Join, Safepoint, Executing, elsewhere, rustVars
  <2> QED BY <2>1, Zenon DEF NativeInv
<1>7. CASE Deliver \/ Resume
  <2>1. native' = native /\ gc' = gc /\ stage' = stage
    BY <1>7, Zenon DEF Deliver, Resume, Alloc, heapQuiet, heapVars, hostVars, rustVars
  <2> QED BY <2>1, Zenon DEF NativeInv
<1>8. CASE Channels
  <2>1. ~native /\ native' = native
    BY <1>8, Zenon DEF Channels, Send, Receive, Safepoint, Executing, rustVars
  <2> QED BY <2>1, Zenon DEF NativeInv
<1>9. CASE UNCHANGED vars
  BY <1>9, Zenon DEF NativeInv, vars, heapVars, progVars, hostVars, rustVars
<1> QED BY <1>1, <1>2, <1>3, <1>4, <1>5, <1>6, <1>7, <1>8, <1>9, Zenon DEF Next, Fibers

\* Trap::OutOfMemory ends the run: no step follows it.
LEMMA OutOfMemoryIsFinal ==
  ASSUME RootsInv, NativeInv, [Next]_vars, stage = "oom"
  PROVE  UNCHANGED vars
<1>1. gc.phase = "off" /\ ~native
  BY Zenon DEF RootsInv, Colours, NativeInv
<1>2. ~ Safepoints
  BY <1>1, Zenon DEF Safepoints, PollGc, Executing, Collecting, MarkStep, MarkDone, SweepStep, FinishGc, SweepDone
<1>3. ~ (Startup \/ Instr \/ Natives \/ Fallbacks \/ Fibers \/ Channels)
  BY <1>1, Zenon DEF Startup, NewArg, NewArgv, Instr, Load, Store, Pop, GlobalGet, GlobalSet, ConstStr,
       New, FieldGet, FieldSet, Natives, ListPush, CallNative, NativeNewStr, NativeReturn,
       Fallbacks, VirtualFallback, NestedCall, FallbackReturn, Fibers, Spawn, Park, Deliver,
       Resume, FiberReturn, MainReturn, Join, Channels, Send, Receive, Safepoint, Executing,
       InNative, Idling
<1> QED BY <1>2, <1>3, Zenon DEF Next

\* Only the end of a collection raises it.
LEMMA OutOfMemoryByFinishGc ==
  ASSUME [Next]_vars, stage # "oom", stage' = "oom"
  PROVE  FinishGc
<1>1. ~ (Startup \/ PollGc \/ Collecting)
  BY Zenon DEF Startup, NewArg, NewArgv, PollGc, Collecting, progVars, hostVars
<1>2. ~ Instr
  BY Zenon DEF Instr, Load, Store, Pop, GlobalGet, GlobalSet, ConstStr, New, FieldGet, FieldSet,
       elsewhere, hostVars
<1>3. ~ (Natives \/ Fallbacks \/ Channels)
  BY Zenon DEF Natives, ListPush, CallNative, NativeNewStr, NativeReturn, Fallbacks, VirtualFallback,
       NestedCall, FallbackReturn, Channels, Send, Receive, elsewhere, hostVars
<1>4. ~ Fibers
  BY Zenon DEF Fibers, Spawn, Park, Deliver, Resume, FiberReturn, MainReturn, Join, elsewhere, hostVars
<1>5. ~ UNCHANGED vars
  BY Zenon DEF vars, progVars, hostVars
<1> QED BY <1>1, <1>2, <1>3, <1>4, <1>5, Zenon DEF Next, Safepoints

-----------------------------------------------------------------------------
(* The bytes of the live objects.                                          *)
INSTANCE FiniteSetTheorems

\* What collect has added up: the bytes of the objects that have left the
\* worklist.
Counted ==
  LET done == gc.marked \ gc.worklist
  IN gc.phase # "off" => IsFiniteSet(Cells(done)) /\ gc.live = Cardinality(Cells(done))

\* One more object adds its bytes.
LEMMA OneMore ==
  ASSUME NEW S, NEW h, h \notin S, IsFiniteSet(Cells(S)), HeapBytes(slots[h]) \in Nat
  PROVE  /\ IsFiniteSet(Cells(S \cup {h}))
         /\ Cardinality(Cells(S \cup {h})) = Cardinality(Cells(S)) + HeapBytes(slots[h])
<1> DEFINE n == HeapBytes(slots[h])
           own == {h} \X (1 .. n)
<1>1. Cells(S \cup {h}) = Cells(S) \cup own
  BY DEF Cells
<1>2. Cells(S) \cap own = {}
  BY DEF Cells
<1>3. IsFiniteSet(1 .. n) /\ Cardinality(1 .. n) = n
  <2> HIDE DEF n
  <2>1. n \in Nat
    BY DEF n
  <2>2. IsFiniteSet(1 .. n) /\ Cardinality(1 .. n) = IF 1 > n THEN 0 ELSE n - 1 + 1
    BY <2>1, FS_Interval
  <2> QED BY <2>1, <2>2
<1>4. IsFiniteSet({h}) /\ Cardinality({h}) = 1
  BY FS_Singleton
<1>5. IsFiniteSet(own) /\ Cardinality(own) = n
  <2> HIDE DEF n
  <2>1. IsFiniteSet(own) /\ Cardinality(own) = Cardinality({h}) * Cardinality(1 .. n)
    BY <1>3, <1>4, FS_Product, Zenon
  <2>2. n \in Nat
    BY DEF n
  <2> HIDE DEF own
  <2> QED BY <1>3, <1>4, <2>1, <2>2
<1> HIDE DEF n, own
<1>6. /\ IsFiniteSet(Cells(S) \cup own)
      /\ Cardinality(Cells(S) \cup own) = Cardinality(Cells(S)) + Cardinality(own) - Cardinality({})
  BY <1>2, <1>5, FS_Union
<1>7. Cardinality({}) = 0 /\ Cardinality(Cells(S)) \in Nat /\ n \in Nat
  BY FS_EmptySet, FS_CardinalityType DEF n
<1>8. Cardinality(Cells(S)) + Cardinality(own) - Cardinality({}) = Cardinality(Cells(S)) + n
  BY <1>5, <1>7
<1> QED BY <1>1, <1>6, <1>8, Zenon DEF n

\* The step that takes an object off the worklist counts it.
LEMMA MarkStepCounts ==
  ASSUME RootsInv, Counted, MarkStep
  PROVE  Counted'
<1>0. gc.phase = "mark" /\ slots' = slots /\ GcType /\ Colours /\ SlabInv
  BY DEF MarkStep, RootsInv, slabVars
<1>1. PICK h \in gc.worklist :
        LET new == IF slots[h] = Hole THEN {} ELSE Children(slots[h]) \ gc.marked
        IN gc' = [gc EXCEPT !.worklist = (@ \ {h}) \cup new, !.marked = @ \cup new,
                            !.live = @ + IF slots[h] = Hole THEN 0 ELSE HeapBytes(slots[h])]
  BY Zenon DEF MarkStep
<1>2. h \in gc.marked /\ h \in Handle /\ slots[h] # Hole
  BY <1>0, Zenon DEF Colours, Occupied
<1>3. HeapBytes(slots[h]) \in Nat
  <2>1. slots[h] \in Seq(Value)
    BY <1>0, <1>2, Zenon DEF SlabInv, Obj
  <2> QED BY <2>1 DEF HeapBytes
<1> DEFINE new == Children(slots[h]) \ gc.marked
           done == gc.marked \ gc.worklist
<1>4. gc' = [gc EXCEPT !.worklist = (@ \ {h}) \cup new, !.marked = @ \cup new,
                       !.live = @ + HeapBytes(slots[h])]
  BY <1>1, <1>2
<1>5. new \cap gc.marked = {}
  OBVIOUS
<1>6. /\ gc'.marked = gc.marked \cup new /\ gc'.worklist = (gc.worklist \ {h}) \cup new
      /\ gc'.live = gc.live + HeapBytes(slots[h])
  <2> HIDE DEF new
  <2> QED BY <1>0, <1>4 DEF GcType
<1>7. gc'.marked \ gc'.worklist = done \cup {h} /\ h \notin done
  <2> HIDE DEF new
  <2> QED BY <1>2, <1>5, <1>6
<1>8. IsFiniteSet(Cells(done)) /\ gc.live = Cardinality(Cells(done))
  BY <1>0 DEF Counted
<1>9. /\ IsFiniteSet(Cells(done \cup {h}))
      /\ Cardinality(Cells(done \cup {h})) = Cardinality(Cells(done)) + HeapBytes(slots[h])
  <2> HIDE DEF done
  <2> QED BY <1>3, <1>7, <1>8, OneMore, Zenon
<1> QED
  <2> HIDE DEF done, new
  <2>1. Cells(gc.marked \ gc.worklist)' = Cells(done \cup {h})
    BY <1>0, <1>7, Zenon DEF Cells, HeapBytes
  <2>2. gc'.live = Cardinality(Cells(done \cup {h}))
    BY <1>6, <1>8, <1>9, Zenon
  <2> QED BY <1>9, <2>1, <2>2, Zenon DEF Counted

\* What is counted stays so until the collection ends.
LEMMA CountedInv ==
  ASSUME RootsInv, Counted, [Next]_vars
  PROVE  Counted'
<1>1. CASE gc'.phase = "off"
  BY <1>1, Zenon DEF Counted
<1>2. CASE PollGc
  <2>1. gc'.marked \ gc'.worklist = {} /\ gc'.live = 0
    BY <1>2 DEF PollGc, Collect, Idle
  <2>2. Cells({})' = {}
    BY DEF Cells
  <2>3. IsFiniteSet({}) /\ Cardinality({}) = 0
    BY FS_EmptySet
  <2> QED BY <2>1, <2>2, <2>3, Zenon DEF Counted, Cells
<1>3. CASE MarkStep
  BY <1>3, MarkStepCounts
<1>4. CASE MarkDone
  <2>1. /\ gc.phase = "mark" /\ slots' = slots
        /\ gc'.marked = gc.marked /\ gc'.worklist = gc.worklist /\ gc'.live = gc.live
    BY <1>4 DEF MarkDone, slabVars, RootsInv, GcType
  <2> QED BY <2>1, Zenon DEF Counted, Cells, HeapBytes
<1>5. CASE SweepStep
  <2>1. /\ gc.phase = "sweep" /\ GcType /\ SlabInv
        /\ gc'.marked = gc.marked /\ gc'.worklist = gc.worklist /\ gc'.live = gc.live
    BY <1>5 DEF SweepStep, RootsInv, GcType
  <2>2. \A h \in gc.marked : slots'[h] = slots[h]
    BY <1>5, <2>1 DEF SweepStep, Swept, GcType, SlabInv
  <2>3. Cells(gc.marked \ gc.worklist)' = Cells(gc.marked \ gc.worklist)
    BY <2>1, <2>2 DEF Cells, HeapBytes
  <2> QED BY <2>1, <2>3, Zenon DEF Counted
<1>6. CASE gc.phase = "off" /\ gc'.phase # "off"
  <2>1. PollGc \/ Collecting
    BY <1>6, ByteSteps DEF Alloc, FinishGc, SweepDone
  <2>2. ~ Collecting
    BY <1>6 DEF Collecting, MarkStep, MarkDone, SweepStep
  <2> QED BY <1>2, <2>1, <2>2
<1>7. CASE gc.phase # "off" /\ gc'.phase # "off"
  <2>1. ~ FinishGc
    BY <1>7 DEF FinishGc, SweepDone, Idle
  <2>2. Collecting \/ UNCHANGED vars
    BY <1>7, <2>1, CollectingOnly DEF Next, Safepoints
  <2>3. CASE UNCHANGED vars
    <3>1. slots' = slots /\ gc' = gc
      BY <2>3 DEF vars, heapVars, slabVars
    <3> QED BY <3>1, Zenon DEF Counted, Cells, HeapBytes
  <2> QED BY <1>3, <1>4, <1>5, <2>2, <2>3 DEF Collecting
<1> QED BY <1>1, <1>6, <1>7

\* The initial states.
LEMMA CountedInit == Init => Counted
BY DEF Init, HeapInit, Idle, Counted

\* The estimate a collection ends with is the bytes that can be reached.
LEMMA FinishExact ==
  ASSUME RootsInv, Counted, FinishGc
  PROVE  (Occupied = Reach(Held))' /\ heap_bytes' = LiveBytes' /\ heap_bytes' \in Nat
<1>1. gc.worklist = {} /\ slots' = slots /\ Occupied' = gc.marked /\ Reach(Held)' = gc.marked
  BY MarkedIsReached
<1>2. gc.phase = "sweep" /\ heap_bytes' = gc.live /\ gc.live \in Nat
  BY DEF FinishGc, SweepDone, RootsInv, GcType
<1>3. gc.marked \ gc.worklist = gc.marked
  BY <1>1
<1>4. gc.live = Cardinality(Cells(gc.marked))
  BY <1>2, <1>3, Zenon DEF Counted
<1>5. (Reach(Held) \cap Occupied)' = gc.marked
  BY <1>1
<1>6. LiveBytes' = Cardinality(Cells(gc.marked))
  BY <1>1, <1>5, Zenon DEF LiveBytes, Cells, HeapBytes
<1> QED BY <1>1, <1>2, <1>4, <1>6

\* A collection frees whatever cannot be reached, cycles included, and nothing
\* else, and leaves the estimate equal to the bytes of what is left.
THEOREM CollectionsAreExact ==
  ASSUME ArgsSafe
  PROVE  Spec => CollectsExactly
<1>1. RootsInv /\ Counted /\ [Next]_vars
        => [gc.phase = "sweep" /\ gc'.phase = "off" =>
              (Occupied = Reach(Held) /\ heap_bytes = LiveBytes)']_vars
  BY SweepEnds, FinishExact
<1>2. RootsInv /\ Counted /\ [Next]_vars => Counted'
  BY CountedInv
<1> QED BY <1>1, <1>2, CountedInit, RootsInvariance, PTL DEF Spec, CollectsExactly

\* What is known of a run that ended out of memory.
OomInv == stage = "oom" => LiveBytes > MAX_HEAP

\* The ceiling is enforced both ways: past it a collection is armed, and
\* Trap::OutOfMemory is raised only if the bytes that can be reached exceed it.
THEOREM CeilingIsExact ==
  ASSUME ArgsSafe
  PROVE  Spec => []CeilingExact
<1>1. Init => NativeInv /\ OomInv
  BY Zenon DEF Init, NativeInv, OomInv
<1>2. RootsInv /\ NativeInv /\ Counted /\ OomInv /\ [Next]_vars => NativeInv' /\ Counted' /\ OomInv'
  <2> SUFFICES ASSUME RootsInv, NativeInv, Counted, OomInv, [Next]_vars, stage' = "oom" PROVE OomInv'
    BY NativeKept, CountedInv, Zenon DEF OomInv
  <2>1. CASE stage = "oom"
    <3>1. UNCHANGED vars
      BY <2>1, OutOfMemoryIsFinal
    <3>2. UNCHANGED <<slots, INTERN, GLOBALS, host, vstack, fibers, buffer, fallbacks, locals>>
      BY <3>1 DEF vars, heapVars, slabVars, envVars, progVars, hostVars, fiberVars, rustVars
    <3>3. Held' = Held /\ Occupied' = Occupied
      BY <3>2 DEF Held, Occupied
    <3>4. LiveBytes' = LiveBytes
      BY <3>2, <3>3 DEF LiveBytes, Cells, HeapBytes, Reach, Closed, Children, Refs
    <3> QED BY <2>1, <3>4, Zenon DEF OomInv
  <2>2. CASE stage # "oom"
    <3>1. FinishGc
      BY <2>2, OutOfMemoryByFinishGc
    <3>2. heap_bytes' > MAX_HEAP
      BY <2>2, <3>1, Zenon DEF FinishGc, Ceiling, OverCeiling
    <3> QED BY <3>1, <3>2, FinishExact, Zenon DEF OomInv
  <2> QED BY <2>1, <2>2
<1>3. CollectionArmed /\ OomInv => CeilingExact
  BY DEF CeilingExact, OomInv
<1> QED BY <1>1, <1>2, <1>3, CountedInit, RootsInvariance, CollectionsArm, PTL DEF Spec
=============================================================================
