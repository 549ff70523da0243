-------------------------- MODULE FnBuilderProofs --------------------------
(* AssemblesListing for every job: any number of functions, labels and      *)
(* calls, in any order.                                                     *)
EXTENDS FnBuilder, FiniteSetTheorems, TLAPS

(***************************************************************************)
(* What a call, an instruction and a builder are made of.                  *)
(***************************************************************************)
Call(j) ==
  [does : {"label"}] \cup [does : {"bind"}, label : Nat] \cup [does : {"emit"}, instr : j.instrs]
    \cup [does : {"touch"}, instr : [op : {"Load", "Store"}, args : {<<s>> : s \in j.slots}]]
    \cup [does : {"jump"}, op : j.jumps, label : Nat]

Code(j) ==
  j.instrs \cup [op : {"Load", "Store"}, args : {<<s>> : s \in j.slots}]
    \cup [op : Jumps, args : {<<a>> : a \in Int}]

Name(j) == {j.functions[n].name : n \in DOMAIN j.functions}

Builder(j) ==
  [name : Name(j), param_count : Nat, local_count : Nat, code : Seq(Code(j)),
   label_addrs : Seq(Int), fixups : Seq([at : Nat, label : Nat])]

(***************************************************************************)
(* The builder half way through a listing.  Place is where a call's         *)
(* instruction goes; a jump stands there with address 0 and is owed one     *)
(* fixup.  A label is bound to the place its one bind names.               *)
(***************************************************************************)
Place(list, k) == Before(list, k) + 1

InstrsPlaced(b, list) ==
  \A k \in DOMAIN list : list[k].does \in {"emit", "touch"} =>
    /\ Place(list, k) \in DOMAIN b.code
    /\ b.code[Place(list, k)] = list[k].instr
    /\ \A m \in DOMAIN b.fixups : b.fixups[m].at # Place(list, k)

JumpsOwed(b, list) ==
  \A k \in DOMAIN list : list[k].does = "jump" =>
    /\ Place(list, k) \in DOMAIN b.code
    /\ b.code[Place(list, k)] = [op |-> list[k].op, args |-> <<0>>]
    /\ \E m \in DOMAIN b.fixups : b.fixups[m] = [at |-> Place(list, k), label |-> list[k].label]

FixupsApart(b) ==
  /\ \A m \in DOMAIN b.fixups : /\ b.fixups[m].at \in DOMAIN b.code
                                /\ b.fixups[m].label \in DOMAIN b.label_addrs
  /\ \A m, n \in DOMAIN b.fixups : b.fixups[m].at = b.fixups[n].at => m = n

LabelsBound(b, list) ==
  /\ \A k \in DOMAIN list : list[k].does = "bind" => list[k].label \in DOMAIN b.label_addrs
  /\ \A l \in DOMAIN b.label_addrs :
       IF b.label_addrs[l] = Unbound THEN Binds(list, l) = {}
       ELSE \E k \in DOMAIN list : Binds(list, l) = {k} /\ b.label_addrs[l] = Before(list, k)

FrameFits(b, list) ==
  /\ \A k \in DOMAIN list : list[k].does = "touch" => list[k].instr.args[1] < b.local_count
  /\ \/ b.local_count = b.param_count
     \/ \E k \in DOMAIN list : list[k].does = "touch" /\ list[k].instr.args[1] = b.local_count - 1

HalfBuilt(b, list) ==
  /\ Len(b.code) = Before(list, Len(list) + 1)
  /\ InstrsPlaced(b, list)
  /\ JumpsOwed(b, list)
  /\ FixupsApart(b)
  /\ LabelsBound(b, list)
  /\ FrameFits(b, list)

\* A finished function and the calls that made it: the body of AssemblesListing.
IsListing(f, list) ==
  /\ Len(f.code) = Before(list, Len(list) + 1)
  /\ \A k \in DOMAIN list :
       /\ list[k].does \in {"bind", "jump"} => Cardinality(Binds(list, list[k].label)) = 1
       /\ IsInstr(list[k]) => f.code[Before(list, k) + 1] = Means(list, list[k])
  /\ \A slot \in Touched(list) : slot < f.local_count
  /\ f.local_count = f.param_count \/ f.local_count - 1 \in Touched(list)

BuilderTypes ==
  /\ job \in Jobs
  /\ (\E S : functions \in Seq(S)) /\ Len(listings) = Len(functions)
  /\ listings \in Seq(Seq(Call(job)))
  /\ doing = "build" => fn \in Builder(job) /\ calls \in Seq(Call(job))

BuilderInv ==
  /\ BuilderTypes
  /\ \A n \in DOMAIN functions : IsListing(functions[n], listings[n])
  /\ doing = "build" => HalfBuilt(fn, calls)

(***************************************************************************)
(* Counting the instructions of a listing, and the binds of a label.        *)
(***************************************************************************)
Earlier(list, k) == {i \in 1..k - 1 : IsInstr(list[i])}

LEMMA BeforeIsNat ==
  ASSUME NEW list, NEW k \in Nat
  PROVE  /\ IsFiniteSet(Earlier(list, k))
         /\ Before(list, k) = Cardinality(Earlier(list, k))
         /\ Before(list, k) \in Nat
<1>1. IsFiniteSet(1..k - 1)
  BY FS_Interval
<1>2. Earlier(list, k) \in SUBSET (1..k - 1)
  BY DEF Earlier
<1>3. IsFiniteSet(Earlier(list, k))
  BY <1>1, <1>2, FS_Subset
<1>4. Before(list, k) = Cardinality(Earlier(list, k))
  BY DEF Before, Earlier
<1> QED
  BY <1>3, <1>4, FS_CardinalityType

LEMMA BeforeAppend ==
  ASSUME NEW S, NEW list \in Seq(S), NEW c \in S
  PROVE  /\ \A k \in 1..Len(list) + 1 : Before(Append(list, c), k) = Before(list, k)
         /\ Before(Append(list, c), Len(list) + 2)
              = Before(list, Len(list) + 1) + (IF IsInstr(c) THEN 1 ELSE 0)
<1>1. /\ Len(list) \in Nat
      /\ Append(list, c)[Len(list) + 1] = c
      /\ \A i \in 1..Len(list) : Append(list, c)[i] = list[i]
  OBVIOUS
<1>2. ASSUME NEW k \in 1..Len(list) + 1
      PROVE  Earlier(Append(list, c), k) = Earlier(list, k)
  BY <1>1 DEF Earlier
<1>3. ASSUME NEW k \in 1..Len(list) + 1
      PROVE  Before(Append(list, c), k) = Before(list, k)
  BY <1>1, <1>2, BeforeIsNat
<1> DEFINE old == Earlier(list, Len(list) + 1)
           all == Earlier(Append(list, c), Len(list) + 2)
<1>4. all = IF IsInstr(c) THEN old \cup {Len(list) + 1} ELSE old
  BY <1>1 DEF Earlier
<1>5. Len(list) + 1 \notin old
  BY <1>1 DEF Earlier
<1>6. /\ IsFiniteSet(old)
      /\ Before(list, Len(list) + 1) = Cardinality(old) /\ Before(list, Len(list) + 1) \in Nat
      /\ Before(Append(list, c), Len(list) + 2) = Cardinality(all)
  <2>1. Len(list) + 1 \in Nat /\ Len(list) + 2 \in Nat
    BY <1>1
  <2> QED
    BY <2>1, BeforeIsNat
<1> HIDE DEF old, all
<1>7. Cardinality(old \cup {Len(list) + 1}) = Cardinality(old) + 1
  BY <1>5, <1>6, FS_AddElement, Zenon
<1>8. Before(Append(list, c), Len(list) + 2)
        = Before(list, Len(list) + 1) + (IF IsInstr(c) THEN 1 ELSE 0)
  BY <1>4, <1>6, <1>7
<1> QED
  BY <1>3, <1>8

LEMMA BindsAppend ==
  ASSUME NEW S, NEW list \in Seq(S), NEW c \in S, NEW l
  PROVE  Binds(Append(list, c), l)
           = Binds(list, l) \cup (IF c.does = "bind" /\ c.label = l THEN {Len(list) + 1} ELSE {})
BY DEF Binds

(***************************************************************************)
(* One more call: what it leaves alone, and where its instruction goes.    *)
(***************************************************************************)
Longer(b, list, c, more) ==
  /\ Len(list) \in Nat /\ Len(more) = Len(list) + 1
  /\ DOMAIN list = 1..Len(list) /\ DOMAIN more = DOMAIN list \cup {Len(list) + 1}
  /\ \A k \in DOMAIN list : /\ more[k] = list[k] /\ Before(more, k) = Before(list, k)
                             /\ Place(more, k) = Place(list, k)
  /\ more[Len(list) + 1] = c /\ Before(more, Len(list) + 1) = Len(b.code)
  /\ Before(more, Len(more) + 1) = Len(b.code) + (IF IsInstr(c) THEN 1 ELSE 0)
  /\ \A l : Binds(more, l) =
       Binds(list, l) \cup (IF c.does = "bind" /\ c.label = l THEN {Len(list) + 1} ELSE {})

LEMMA OneMoreCall ==
  ASSUME NEW S, NEW b, NEW list \in Seq(S), HalfBuilt(b, list), NEW c \in S
  PROVE  Longer(b, list, c, Append(list, c))
<1>1. /\ Len(Append(list, c)) = Len(list) + 1
      /\ Len(list) \in Nat
      /\ DOMAIN list = 1..Len(list) /\ DOMAIN Append(list, c) = DOMAIN list \cup {Len(list) + 1}
      /\ Append(list, c)[Len(list) + 1] = c
      /\ \A k \in DOMAIN list : Append(list, c)[k] = list[k]
  OBVIOUS
<1>2. /\ \A k \in 1..Len(list) + 1 : Before(Append(list, c), k) = Before(list, k)
      /\ Before(Append(list, c), Len(list) + 2)
           = Before(list, Len(list) + 1) + (IF IsInstr(c) THEN 1 ELSE 0)
  BY BeforeAppend
<1>3. Len(b.code) = Before(list, Len(list) + 1)
  BY DEF HalfBuilt
<1>4. Len(Append(list, c)) + 1 = Len(list) + 2
  BY <1>1
<1>5. \A l : Binds(Append(list, c), l) =
        Binds(list, l) \cup (IF c.does = "bind" /\ c.label = l THEN {Len(list) + 1} ELSE {})
  BY BindsAppend
<1>6. \A k \in DOMAIN list : Place(Append(list, c), k) = Place(list, k)
  BY <1>1, <1>2 DEF Place
<1>7. /\ \A k \in DOMAIN list : Before(Append(list, c), k) = Before(list, k)
      /\ Before(Append(list, c), Len(list) + 1) = Len(b.code)
      /\ Before(Append(list, c), Len(Append(list, c)) + 1)
           = Len(b.code) + (IF IsInstr(c) THEN 1 ELSE 0)
  BY <1>1, <1>2, <1>3, <1>4
<1> DEFINE more == Append(list, c)
<1> HIDE DEF more
<1> QED
  BY <1>1, <1>5, <1>6, <1>7, Zenon DEF Longer

(***************************************************************************)
(* A call that binds no label leaves the labels as bound as they were.     *)
(***************************************************************************)
LEMMA LabelsKept ==
  ASSUME NEW b, NEW list, HalfBuilt(b, list), NEW c, NEW more, Longer(b, list, c, more),
         c.does # "bind",
         NEW d, d.label_addrs = b.label_addrs
  PROVE  LabelsBound(d, more)
<1>1. LabelsBound(b, list)
  BY DEF HalfBuilt
<1>2. \A l : Binds(more, l) = Binds(list, l)
  BY Zenon DEF Longer
<1>3. ASSUME NEW k \in DOMAIN more, more[k].does = "bind"
      PROVE  more[k].label \in DOMAIN d.label_addrs
  BY <1>1, <1>3 DEF LabelsBound, Longer
<1>4. ASSUME NEW l \in DOMAIN d.label_addrs
      PROVE  IF d.label_addrs[l] = Unbound THEN Binds(more, l) = {}
             ELSE \E k \in DOMAIN more : Binds(more, l) = {k} /\ d.label_addrs[l] = Before(more, k)
  BY <1>1, <1>2, <1>4 DEF LabelsBound, Longer
<1> QED
  BY <1>3, <1>4 DEF LabelsBound

(***************************************************************************)
(* A call that touches no slot leaves the frame as it is.                  *)
(***************************************************************************)
LEMMA FrameKept ==
  ASSUME NEW b, NEW list, HalfBuilt(b, list), NEW c, NEW more, Longer(b, list, c, more),
         c.does # "touch",
         NEW d, d.local_count = b.local_count, d.param_count = b.param_count
  PROVE  FrameFits(d, more)
BY DEF HalfBuilt, FrameFits, Longer

(***************************************************************************)
(* Code that keeps what it had, and has one more instruction or none.      *)
(***************************************************************************)
Extended(code, more) ==
  /\ Len(code) \in Nat /\ DOMAIN code = 1..Len(code) /\ DOMAIN more = 1..Len(more)
  /\ DOMAIN code \subseteq DOMAIN more
  /\ \A i \in DOMAIN code : more[i] = code[i]

Continues(b, c, d) ==
  /\ d.fixups = b.fixups /\ DOMAIN b.label_addrs \subseteq DOMAIN d.label_addrs
  /\ Extended(b.code, d.code)
  /\ Len(d.code) = Len(b.code) + (IF IsInstr(c) THEN 1 ELSE 0)
  /\ IsInstr(c) => d.code[Len(b.code) + 1] = c.instr

LEMMA CodeKept ==
  ASSUME NEW b, NEW list, HalfBuilt(b, list), NEW c, NEW more, Longer(b, list, c, more),
         c.does # "jump", NEW d, Continues(b, c, d)
  PROVE  /\ Len(d.code) = Before(more, Len(more) + 1)
         /\ InstrsPlaced(d, more)
         /\ JumpsOwed(d, more)
         /\ FixupsApart(d)
<1>1. InstrsPlaced(b, list) /\ JumpsOwed(b, list) /\ FixupsApart(b)
  BY DEF HalfBuilt
<1>2. InstrsPlaced(d, more)
  <2> SUFFICES ASSUME NEW k \in DOMAIN more, more[k].does \in {"emit", "touch"}
               PROVE  /\ Place(more, k) \in DOMAIN d.code
                      /\ d.code[Place(more, k)] = more[k].instr
                      /\ \A m \in DOMAIN d.fixups : d.fixups[m].at # Place(more, k)
    BY DEF InstrsPlaced
  <2>1. CASE k \in DOMAIN list
    <3>1. more[k] = list[k] /\ Place(more, k) = Place(list, k)
      BY <2>1 DEF Longer
    <3>2. /\ Place(list, k) \in DOMAIN b.code /\ b.code[Place(list, k)] = list[k].instr
          /\ \A m \in DOMAIN b.fixups : b.fixups[m].at # Place(list, k)
      BY <2>1, <3>1, <1>1 DEF InstrsPlaced
    <3>3. /\ Place(list, k) \in DOMAIN d.code /\ d.code[Place(list, k)] = b.code[Place(list, k)]
          /\ d.fixups = b.fixups
      BY <3>2, Zenon DEF Continues, Extended
    <3> QED
      BY <3>1, <3>2, <3>3
  <2>2. CASE k = Len(list) + 1
    <3>1. IsInstr(c) /\ Place(more, k) = Len(b.code) + 1 /\ more[k] = c
      BY <2>2 DEF IsInstr, Place, Longer
    <3>2. \A m \in DOMAIN b.fixups : b.fixups[m].at # Len(b.code) + 1
      BY <1>1 DEF FixupsApart, Continues, Extended
    <3>3. Len(b.code) + 1 \in DOMAIN d.code
      BY <3>1 DEF Continues, Extended
    <3> QED
      BY <3>1, <3>2, <3>3 DEF Continues
  <2> QED
    BY <2>1, <2>2 DEF Longer
<1>3. JumpsOwed(d, more)
  <2> SUFFICES ASSUME NEW k \in DOMAIN more, more[k].does = "jump"
               PROVE  /\ Place(more, k) \in DOMAIN d.code
                      /\ d.code[Place(more, k)] = [op |-> more[k].op, args |-> <<0>>]
                      /\ \E m \in DOMAIN d.fixups :
                           d.fixups[m] = [at |-> Place(more, k), label |-> more[k].label]
    BY DEF JumpsOwed
  <2>1. k \in DOMAIN list /\ more[k] = list[k] /\ Place(more, k) = Place(list, k)
    BY DEF Longer
  <2>2. /\ Place(list, k) \in DOMAIN b.code
        /\ b.code[Place(list, k)] = [op |-> list[k].op, args |-> <<0>>]
        /\ \E m \in DOMAIN b.fixups :
             b.fixups[m] = [at |-> Place(list, k), label |-> list[k].label]
    BY <2>1, <1>1 DEF JumpsOwed
  <2>3. /\ Place(list, k) \in DOMAIN d.code /\ d.code[Place(list, k)] = b.code[Place(list, k)]
        /\ d.fixups = b.fixups
    BY <2>2, Zenon DEF Continues, Extended
  <2> QED
    BY <2>1, <2>2, <2>3
<1>4. FixupsApart(d)
  BY <1>1, Zenon DEF FixupsApart, Continues, Extended
<1> QED
  BY <1>2, <1>3, <1>4, Zenon DEF Longer, Continues

(***************************************************************************)
(* A call on the builder in use disturbs nothing that is finished.         *)
(***************************************************************************)
LEMMA CallStep ==
  ASSUME BuilderInv, NEW c \in Call(job), Calls(c),
         doing' = "build" => fn' \in Builder(job) /\ HalfBuilt(fn', calls')
  PROVE  BuilderInv'
<1>1. /\ doing = "build" /\ calls' = Append(calls, c)
      /\ job' = job /\ functions' = functions /\ listings' = listings
  BY DEF Calls
<1>2. calls \in Seq(Call(job))
  BY <1>1 DEF BuilderInv, BuilderTypes
<1>3. calls' \in Seq(Call(job))
  BY <1>1, <1>2
<1>4. BuilderTypes'
  BY <1>1, <1>3 DEF BuilderInv, BuilderTypes
<1>5. \A n \in DOMAIN functions' : IsListing(functions'[n], listings'[n])
  BY <1>1 DEF BuilderInv
<1> QED
  BY <1>4, <1>5 DEF BuilderInv

(***************************************************************************)
(* What every call may rely on.                                            *)
(***************************************************************************)
LEMMA Calling ==
  ASSUME BuilderInv, NEW c \in Call(job), Calls(c)
  PROVE  /\ fn \in Builder(job) /\ HalfBuilt(fn, calls)
         /\ Longer(fn, calls, c, calls')
         /\ fn.code \in Seq(Code(job)) /\ fn.label_addrs \in Seq(Int)
         /\ fn.fixups \in Seq([at : Nat, label : Nat])
<1>1. doing = "build" /\ calls' = Append(calls, c)
  BY DEF Calls
<1>2. fn \in Builder(job) /\ calls \in Seq(Call(job)) /\ HalfBuilt(fn, calls)
  BY <1>1 DEF BuilderInv, BuilderTypes
<1>3. Longer(fn, calls, c, calls')
  BY <1>1, <1>2, OneMoreCall
<1> QED
  BY <1>2, <1>3 DEF Builder

LEMMA LabelStep ==
  ASSUME BuilderInv, label
  PROVE  BuilderInv'
<1> DEFINE c == [does |-> "label"]
<1>1. /\ c \in Call(job) /\ Calls(c) /\ c.does = "label" /\ ~IsInstr(c)
      /\ fn' = [fn EXCEPT !.label_addrs = Append(@, Unbound)]
  BY DEF label, Call, IsInstr
<1> HIDE DEF c
<1>2. /\ fn \in Builder(job) /\ HalfBuilt(fn, calls) /\ Longer(fn, calls, c, calls')
      /\ fn.code \in Seq(Code(job)) /\ fn.label_addrs \in Seq(Int)
  BY <1>1, Calling
<1>3. /\ fn' \in Builder(job) /\ fn'.code = fn.code /\ fn'.fixups = fn.fixups
      /\ fn'.local_count = fn.local_count /\ fn'.param_count = fn.param_count
      /\ fn'.label_addrs = Append(fn.label_addrs, Unbound)
  <2> DEFINE addrs == Append(fn.label_addrs, Unbound)
  <2>1. addrs \in Seq(Int) /\ fn' = [fn EXCEPT !.label_addrs = addrs]
    BY <1>1, <1>2 DEF Unbound
  <2> HIDE DEF addrs
  <2>2. /\ fn' \in Builder(job) /\ fn'.code = fn.code /\ fn'.fixups = fn.fixups
        /\ fn'.local_count = fn.local_count /\ fn'.param_count = fn.param_count
        /\ fn'.label_addrs = addrs
    BY <2>1, <1>2, Zenon DEF Builder
  <2> QED
    BY <2>2 DEF addrs
<1>4. /\ DOMAIN fn'.label_addrs = DOMAIN fn.label_addrs \cup {Len(fn.label_addrs) + 1}
      /\ \A l \in DOMAIN fn.label_addrs : fn'.label_addrs[l] = fn.label_addrs[l]
      /\ fn'.label_addrs[Len(fn.label_addrs) + 1] = Unbound
      /\ Len(fn.label_addrs) + 1 \notin DOMAIN fn.label_addrs
  BY <1>2, <1>3 DEF Unbound
<1>5. Continues(fn, c, fn') /\ c.does # "jump"
  BY <1>1, <1>2, <1>3, <1>4 DEF Continues, Extended
<1>6. /\ Len(fn'.code) = Before(calls', Len(calls') + 1)
      /\ InstrsPlaced(fn', calls') /\ JumpsOwed(fn', calls') /\ FixupsApart(fn')
  BY <1>2, <1>5, CodeKept
<1>7. FrameFits(fn', calls')
  BY <1>1, <1>2, <1>3, FrameKept, Zenon
<1>8. LabelsBound(fn', calls')
  <2>1. LabelsBound(fn, calls)
    BY <1>2 DEF HalfBuilt
  <2>2. \A l : Binds(calls', l) = Binds(calls, l)
    BY <1>1, <1>2 DEF Longer
  <2>3. Binds(calls, Len(fn.label_addrs) + 1) = {}
    BY <2>1, <1>4 DEF LabelsBound, Binds
  <2>4. \A k \in DOMAIN calls' : calls'[k].does = "bind" =>
          calls'[k].label \in DOMAIN fn'.label_addrs
    BY <2>1, <1>1, <1>2, <1>4, Zenon DEF LabelsBound, Longer
  <2>5. ASSUME NEW l \in DOMAIN fn'.label_addrs
        PROVE  IF fn'.label_addrs[l] = Unbound THEN Binds(calls', l) = {}
               ELSE \E k \in DOMAIN calls' :
                      Binds(calls', l) = {k} /\ fn'.label_addrs[l] = Before(calls', k)
    <3>1. CASE l = Len(fn.label_addrs) + 1
      BY <3>1, <2>2, <2>3, <1>4
    <3>2. CASE l \in DOMAIN fn.label_addrs
      <4>1. Binds(calls', l) = Binds(calls, l) /\ fn'.label_addrs[l] = fn.label_addrs[l]
        BY <3>2, <2>2, <1>4
      <4>2. \A k \in DOMAIN calls : k \in DOMAIN calls' /\ Before(calls', k) = Before(calls, k)
        BY <1>2 DEF Longer
      <4> QED
        BY <3>2, <4>1, <4>2, <2>1 DEF LabelsBound
    <3> QED
      BY <3>1, <3>2, <1>4
  <2> QED
    BY <2>4, <2>5 DEF LabelsBound
<1>9. HalfBuilt(fn', calls')
  BY <1>6, <1>7, <1>8 DEF HalfBuilt
<1> QED
  BY <1>1, <1>3, <1>9, CallStep

LEMMA BindStep ==
  ASSUME BuilderInv, NEW l \in DOMAIN fn.label_addrs, bind(l)
  PROVE  BuilderInv'
<1> DEFINE c == [does |-> "bind", label |-> l]
<1>1. Calls(c) /\ doing = "build"
  BY DEF bind, Calls
<1>2. fn \in Builder(job) /\ fn.label_addrs \in Seq(Int) /\ fn.code \in Seq(Code(job))
  BY <1>1 DEF BuilderInv, BuilderTypes, Builder
<1>3. l \in Nat /\ c \in Call(job) /\ c.does = "bind" /\ c.label = l /\ ~IsInstr(c)
  BY <1>2 DEF Call, IsInstr
<1> HIDE DEF c
<1>4. CASE fn.label_addrs[l] # Unbound
  <2>1. doing' # "build"
    BY <1>4 DEF bind
  <2> QED
    BY <2>1, <1>1, <1>3, CallStep
<1>5. CASE fn.label_addrs[l] = Unbound
  <2>1. fn' = [fn EXCEPT !.label_addrs[l] = Len(fn.code)]
    BY <1>5 DEF bind, Bound
  <2>2. HalfBuilt(fn, calls) /\ Longer(fn, calls, c, calls') /\ Len(fn.code) \in Nat
    BY <1>1, <1>2, <1>3, Calling
  <2>3. /\ fn' \in Builder(job) /\ fn'.code = fn.code /\ fn'.fixups = fn.fixups
        /\ fn'.local_count = fn.local_count /\ fn'.param_count = fn.param_count
        /\ fn'.label_addrs = [fn.label_addrs EXCEPT ![l] = Len(fn.code)]
    <3> DEFINE addrs == [fn.label_addrs EXCEPT ![l] = Len(fn.code)]
    <3>1. addrs \in Seq(Int)
      BY <2>2, <1>2
    <3>2. fn' = [fn EXCEPT !.label_addrs = addrs]
      BY <2>1, <1>2 DEF Builder
    <3> HIDE DEF addrs
    <3>3. /\ fn' \in Builder(job) /\ fn'.code = fn.code /\ fn'.fixups = fn.fixups
          /\ fn'.local_count = fn.local_count /\ fn'.param_count = fn.param_count
          /\ fn'.label_addrs = addrs
      BY <3>1, <3>2, <1>2, Zenon DEF Builder
    <3> QED
      BY <3>3 DEF addrs
  <2>4. DOMAIN fn'.label_addrs = DOMAIN fn.label_addrs
    BY <2>3
  <2>5. Continues(fn, c, fn')
    BY <2>2, <2>3, <2>4, <1>2, <1>3 DEF Continues, Extended
  <2>6. /\ Len(fn'.code) = Before(calls', Len(calls') + 1)
        /\ InstrsPlaced(fn', calls') /\ JumpsOwed(fn', calls') /\ FixupsApart(fn')
    BY <1>3, <2>2, <2>5, CodeKept
  <2>7. FrameFits(fn', calls')
    BY <1>3, <2>2, <2>3, FrameKept
  <2>8. LabelsBound(fn', calls')
    <3>1. LabelsBound(fn, calls)
      BY <2>2 DEF HalfBuilt
    <3>2. \A k \in DOMAIN calls' : calls'[k].does = "bind" =>
            calls'[k].label \in DOMAIN fn'.label_addrs
      BY <3>1, <2>2, <2>4, <1>3 DEF LabelsBound, Longer
    <3>3. ASSUME NEW m \in DOMAIN fn'.label_addrs
          PROVE  IF fn'.label_addrs[m] = Unbound THEN Binds(calls', m) = {}
                 ELSE \E k \in DOMAIN calls' :
                        Binds(calls', m) = {k} /\ fn'.label_addrs[m] = Before(calls', k)
      <4>1. CASE m = l
        <5>1. Binds(calls', l) = {Len(calls) + 1} /\ Len(calls) + 1 \in DOMAIN calls'
          BY <1>3, <1>5, <2>2, <3>1 DEF LabelsBound, Longer
        <5>2. Before(calls', Len(calls) + 1) = Len(fn.code)
          BY <2>2 DEF Longer
        <5>3. fn'.label_addrs[m] = Len(fn.code) /\ Len(fn.code) # Unbound
          BY <4>1, <2>2, <2>3 DEF Unbound
        <5> QED
          BY <4>1, <5>1, <5>2, <5>3
      <4>2. CASE m # l
        <5>1. Binds(calls', m) = Binds(calls, m)
          BY <4>2, <1>3, <2>2, Zenon DEF Longer
        <5>2. m \in DOMAIN fn.label_addrs /\ fn'.label_addrs[m] = fn.label_addrs[m]
          BY <4>2, <2>3
        <5> QED
          BY <5>1, <5>2, <3>1, <2>2 DEF LabelsBound, Longer
      <4> QED
        BY <4>1, <4>2
    <3> QED
      BY <3>2, <3>3 DEF LabelsBound
  <2>9. HalfBuilt(fn', calls')
    BY <2>6, <2>7, <2>8 DEF HalfBuilt
  <2> QED
    BY <1>1, <1>3, <2>3, <2>9, CallStep
<1> QED
  BY <1>4, <1>5

(***************************************************************************)
(* Emitted puts one instruction after the others.                          *)
(***************************************************************************)
OneMoreInstr(b, i, d) ==
  /\ d.label_addrs = b.label_addrs /\ d.fixups = b.fixups
  /\ d.local_count = b.local_count /\ d.param_count = b.param_count
  /\ Extended(b.code, d.code) /\ Len(d.code) = Len(b.code) + 1 /\ d.code[Len(b.code) + 1] = i

LEMMA EmittedBuilder ==
  ASSUME NEW j, NEW b \in Builder(j), NEW i \in Code(j)
  PROVE  Emitted(b, i) \in Builder(j) /\ OneMoreInstr(b, i, Emitted(b, i))
<1> DEFINE code == Append(b.code, i)
<1>1. b.code \in Seq(Code(j))
  BY DEF Builder
<1>2. code \in Seq(Code(j)) /\ Extended(b.code, code) /\ Len(code) = Len(b.code) + 1
      /\ code[Len(b.code) + 1] = i
  BY <1>1 DEF Extended
<1>3. Emitted(b, i) = [b EXCEPT !.code = code]
  BY DEF Emitted
<1> HIDE DEF code
<1>4. /\ Emitted(b, i) \in Builder(j) /\ Emitted(b, i).code = code
      /\ Emitted(b, i).label_addrs = b.label_addrs /\ Emitted(b, i).fixups = b.fixups
      /\ Emitted(b, i).local_count = b.local_count /\ Emitted(b, i).param_count = b.param_count
  BY <1>2, <1>3, Zenon DEF Builder
<1> QED
  BY <1>2, <1>4 DEF OneMoreInstr

LEMMA EmitStep ==
  ASSUME BuilderInv, NEW i \in job.instrs, emit(i)
  PROVE  BuilderInv'
<1> DEFINE c == [does |-> "emit", instr |-> i]
<1>1. c \in Call(job) /\ Calls(c) /\ fn' = Emitted(fn, i)
  BY DEF emit, Call
<1>2. c.does = "emit" /\ c.instr = i /\ IsInstr(c)
  BY DEF IsInstr
<1> HIDE DEF c
<1>3. fn \in Builder(job) /\ HalfBuilt(fn, calls) /\ Longer(fn, calls, c, calls')
  BY <1>1, Calling
<1>4. fn' \in Builder(job) /\ OneMoreInstr(fn, i, fn')
  <2>1. i \in Code(job)
    BY DEF Code
  <2> QED
    BY <2>1, <1>1, <1>3, EmittedBuilder
<1>5. Continues(fn, c, fn') /\ c.does # "jump" /\ c.does # "bind" /\ c.does # "touch"
  BY <1>2, <1>4 DEF Continues, OneMoreInstr
<1>6. /\ Len(fn'.code) = Before(calls', Len(calls') + 1)
      /\ InstrsPlaced(fn', calls') /\ JumpsOwed(fn', calls') /\ FixupsApart(fn')
  BY <1>3, <1>5, CodeKept
<1>7. FrameFits(fn', calls') /\ LabelsBound(fn', calls')
  BY <1>3, <1>4, <1>5, FrameKept, LabelsKept DEF OneMoreInstr
<1>8. HalfBuilt(fn', calls')
  BY <1>6, <1>7 DEF HalfBuilt
<1> QED
  BY <1>1, <1>4, <1>8, CallStep

(***************************************************************************)
(* load and store.  The frame grows by what the slot needs, which it may    *)
(* not at the last slot, where bump_locals saturates.                      *)
(***************************************************************************)
LEMMA TouchStep ==
  ASSUME BuilderInv, NEW op \in {"Load", "Store"}, NEW slot \in job.slots, touch(op, slot),
         \A j \in Jobs : MaxU16 \notin j.slots
  PROVE  BuilderInv'
<1> DEFINE i == [op |-> op, args |-> <<slot>>]
           c == [does |-> "touch", instr |-> i]
           b == bump_locals(fn, slot)
<1>1. c \in Call(job) /\ Calls(c) /\ fn' = Emitted(b, i)
  BY DEF touch, Call
<1>2. c.does = "touch" /\ c.instr = i /\ IsInstr(c) /\ i.args[1] = slot /\ i \in Code(job)
  BY DEF IsInstr, Code
<1> HIDE DEF c, i
<1>3. fn \in Builder(job) /\ HalfBuilt(fn, calls) /\ Longer(fn, calls, c, calls')
  BY <1>1, Calling
<1>4. job \in Jobs
  BY DEF BuilderInv, BuilderTypes
<1>5. slot \in Nat /\ slot # MaxU16 /\ MaxU16 \in Nat
  BY <1>4, JobsAssumption
<1>6. fn.local_count \in Nat
  BY <1>3 DEF Builder
<1>7. b = [fn EXCEPT !.local_count = IF slot + 1 > fn.local_count THEN slot + 1 ELSE fn.local_count]
  BY <1>5 DEF bump_locals
<1>8. /\ b \in Builder(job)
      /\ b.local_count = IF slot + 1 > fn.local_count THEN slot + 1 ELSE fn.local_count
      /\ b.code = fn.code /\ b.fixups = fn.fixups
      /\ b.label_addrs = fn.label_addrs /\ b.param_count = fn.param_count
  <2> DEFINE n == IF slot + 1 > fn.local_count THEN slot + 1 ELSE fn.local_count
  <2>1. n \in Nat
    BY <1>5, <1>6
  <2>2. b = [fn EXCEPT !.local_count = n]
    BY <1>7
  <2> HIDE DEF n, b
  <2>3. /\ b \in Builder(job) /\ b.local_count = n
        /\ b.code = fn.code /\ b.fixups = fn.fixups
        /\ b.label_addrs = fn.label_addrs /\ b.param_count = fn.param_count
    BY <1>3, <2>1, <2>2, Zenon DEF Builder
  <2> QED
    BY <2>3 DEF n
<1> HIDE DEF b
<1>9. fn' \in Builder(job) /\ OneMoreInstr(b, i, fn')
  BY <1>1, <1>2, <1>8, EmittedBuilder
<1>10. Continues(fn, c, fn') /\ c.does # "jump" /\ c.does # "bind"
  BY <1>2, <1>8, <1>9 DEF Continues, OneMoreInstr
<1>11. /\ Len(fn'.code) = Before(calls', Len(calls') + 1)
       /\ InstrsPlaced(fn', calls') /\ JumpsOwed(fn', calls') /\ FixupsApart(fn')
  BY <1>3, <1>10, CodeKept
<1>12. LabelsBound(fn', calls')
  BY <1>3, <1>8, <1>9, <1>10, LabelsKept DEF OneMoreInstr
<1>13. FrameFits(fn', calls')
  <2>1. /\ fn'.local_count = IF slot + 1 > fn.local_count THEN slot + 1 ELSE fn.local_count
        /\ fn'.param_count = fn.param_count
    BY <1>8, <1>9 DEF OneMoreInstr
  <2>2. FrameFits(fn, calls)
    BY <1>3 DEF HalfBuilt
  <2>3. /\ DOMAIN calls' = DOMAIN calls \cup {Len(calls) + 1} /\ calls'[Len(calls) + 1] = c
        /\ \A k \in DOMAIN calls : calls'[k] = calls[k]
    BY <1>3 DEF Longer
  <2>4. ASSUME NEW k \in DOMAIN calls', calls'[k].does = "touch"
        PROVE  calls'[k].instr.args[1] < fn'.local_count
    <3>1. CASE k \in DOMAIN calls
      <4>1. calls'[k] = calls[k] /\ calls[k].instr.args[1] < fn.local_count
        BY <3>1, <2>2, <2>3, <2>4 DEF FrameFits
      <4>2. calls[k].instr.args[1] \in Nat
        <5>1. calls[k] \in Call(job)
          BY <3>1, <1>1 DEF BuilderInv, BuilderTypes, Calls
        <5>2. calls[k].instr.args[1] \in job.slots
          BY <5>1, <4>1, <2>4 DEF Call
        <5> QED
          BY <5>2, <1>4, JobsAssumption
      <4> QED
        BY <4>1, <4>2, <2>1, <1>5, <1>6
    <3>2. CASE k = Len(calls) + 1
      BY <3>2, <2>1, <2>3, <1>2, <1>5, <1>6
    <3> QED
      BY <3>1, <3>2, <2>3
  <2>5. \/ fn'.local_count = fn'.param_count
        \/ \E k \in DOMAIN calls' :
             calls'[k].does = "touch" /\ calls'[k].instr.args[1] = fn'.local_count - 1
    <3>1. CASE slot + 1 > fn.local_count
      <4>1. calls'[Len(calls) + 1].instr.args[1] = fn'.local_count - 1
        BY <3>1, <2>1, <2>3, <1>2, <1>5
      <4> QED
        BY <4>1, <2>3, <1>2
    <3>2. CASE ~(slot + 1 > fn.local_count)
      BY <3>2, <2>1, <2>2, <2>3 DEF FrameFits
    <3> QED
      BY <3>1, <3>2
  <2> QED
    BY <2>4, <2>5 DEF FrameFits
<1>14. HalfBuilt(fn', calls')
  BY <1>11, <1>12, <1>13 DEF HalfBuilt
<1> QED
  BY <1>1, <1>9, <1>14, CallStep

(***************************************************************************)
(* A jump is placed with address 0, and its fixup is the only one there.   *)
(***************************************************************************)
LEMMA JumpStep ==
  ASSUME BuilderInv, NEW op \in job.jumps, NEW l \in DOMAIN fn.label_addrs, emit_jump(op, l)
  PROVE  BuilderInv'
<1> DEFINE i == [op |-> op, args |-> <<0>>]
           c == [does |-> "jump", op |-> op, label |-> l]
           fixup == [at |-> Len(fn.code) + 1, label |-> l]
           b == [fn EXCEPT !.fixups = Append(fn.fixups, fixup)]
<1>1. Calls(c) /\ doing = "build" /\ fn' = Emitted(b, i)
  BY DEF emit_jump, Calls
<1>2. job \in Jobs /\ fn \in Builder(job) /\ fn.label_addrs \in Seq(Int)
      /\ fn.code \in Seq(Code(job)) /\ fn.fixups \in Seq([at : Nat, label : Nat])
  BY <1>1 DEF BuilderInv, BuilderTypes, Builder
<1>3. l \in Nat /\ c \in Call(job) /\ IsInstr(c)
      /\ c.does = "jump" /\ c.op = op /\ c.label = l
  BY <1>2 DEF Call, IsInstr
<1>4. i \in Code(job)
  BY <1>2, JobsAssumption DEF Code
<1>5. fixup \in [at : Nat, label : Nat] /\ fixup.at = Len(fn.code) + 1 /\ fixup.label = l
  BY <1>2, <1>3
<1> HIDE DEF c, fixup
<1>6. HalfBuilt(fn, calls) /\ Longer(fn, calls, c, calls')
  BY <1>1, <1>3, Calling
<1> DEFINE fixups == Append(fn.fixups, fixup)
<1>7. /\ fixups \in Seq([at : Nat, label : Nat]) /\ b = [fn EXCEPT !.fixups = fixups]
      /\ DOMAIN fixups = DOMAIN fn.fixups \cup {Len(fn.fixups) + 1}
      /\ Len(fn.fixups) + 1 \notin DOMAIN fn.fixups
      /\ fixups[Len(fn.fixups) + 1] = fixup
      /\ \A m \in DOMAIN fn.fixups : fixups[m] = fn.fixups[m]
  <2>1. b = [fn EXCEPT !.fixups = fixups]
    OBVIOUS
  <2> DEFINE S == [at : Nat, label : Nat]
             old == fn.fixups
  <2>2. old \in Seq(S) /\ fixup \in S
    BY <1>2, <1>5
  <2> HIDE DEF S, old
  <2>3. /\ Append(old, fixup) \in Seq(S)
        /\ DOMAIN Append(old, fixup) = DOMAIN old \cup {Len(old) + 1}
        /\ Len(old) + 1 \notin DOMAIN old
        /\ Append(old, fixup)[Len(old) + 1] = fixup
        /\ \A m \in DOMAIN old : Append(old, fixup)[m] = old[m]
    BY <2>2
  <2> QED
    BY <2>1, <2>3 DEF S, old
<1> HIDE DEF fixups, b
<1>8. /\ b \in Builder(job) /\ b.fixups = fixups /\ b.code = fn.code
      /\ b.label_addrs = fn.label_addrs
      /\ b.local_count = fn.local_count /\ b.param_count = fn.param_count
  BY <1>2, <1>7, Zenon DEF Builder
<1> HIDE DEF i
<1>9. fn' \in Builder(job) /\ OneMoreInstr(b, i, fn')
  BY <1>1, <1>4, <1>8, EmittedBuilder
<1>10. /\ fn'.fixups = fixups /\ fn'.label_addrs = fn.label_addrs
       /\ fn'.local_count = fn.local_count /\ fn'.param_count = fn.param_count
       /\ Extended(fn.code, fn'.code) /\ Len(fn'.code) = Len(fn.code) + 1
       /\ fn'.code[Len(fn.code) + 1] = i
  BY <1>8, <1>9 DEF OneMoreInstr
<1>11. LabelsBound(fn', calls') /\ FrameFits(fn', calls')
  <2>1. c.does # "bind" /\ c.does # "touch"
    BY <1>3
  <2> QED
    BY <2>1, <1>6, <1>10, LabelsKept, FrameKept
<1>12. InstrsPlaced(fn, calls) /\ JumpsOwed(fn, calls) /\ FixupsApart(fn)
  BY <1>6 DEF HalfBuilt
<1>13. /\ Len(fn.code) \in Nat /\ DOMAIN fn.code = 1..Len(fn.code)
       /\ DOMAIN fn'.code = DOMAIN fn.code \cup {Len(fn.code) + 1}
       /\ Len(fn.code) + 1 \notin DOMAIN fn.code
       /\ \A n \in DOMAIN fn.code : fn'.code[n] = fn.code[n]
  BY <1>10 DEF Extended
<1>14. /\ DOMAIN calls' = DOMAIN calls \cup {Len(calls) + 1}
       /\ calls'[Len(calls) + 1] = c /\ Place(calls', Len(calls) + 1) = Len(fn.code) + 1
       /\ \A k \in DOMAIN calls : calls'[k] = calls[k] /\ Place(calls', k) = Place(calls, k)
  BY <1>6 DEF Longer, Place
<1>15. Len(fn'.code) = Before(calls', Len(calls') + 1)
  BY <1>3, <1>6, <1>10 DEF Longer
<1>16. InstrsPlaced(fn', calls')
  <2> SUFFICES ASSUME NEW k \in DOMAIN calls', calls'[k].does \in {"emit", "touch"}
               PROVE  /\ Place(calls', k) \in DOMAIN fn'.code
                      /\ fn'.code[Place(calls', k)] = calls'[k].instr
                      /\ \A m \in DOMAIN fn'.fixups : fn'.fixups[m].at # Place(calls', k)
    BY DEF InstrsPlaced
  <2>1. k \in DOMAIN calls /\ calls'[k] = calls[k] /\ Place(calls', k) = Place(calls, k)
    BY <1>3, <1>14
  <2>2. /\ Place(calls, k) \in DOMAIN fn.code /\ fn.code[Place(calls, k)] = calls[k].instr
        /\ \A m \in DOMAIN fn.fixups : fn.fixups[m].at # Place(calls, k)
    BY <2>1, <1>12 DEF InstrsPlaced
  <2>3. Place(calls, k) # fixup.at
    BY <2>2, <1>5, <1>13
  <2> QED
    BY <2>1, <2>2, <2>3, <1>7, <1>10, <1>13, Zenon
<1>17. JumpsOwed(fn', calls')
  <2> SUFFICES ASSUME NEW k \in DOMAIN calls', calls'[k].does = "jump"
               PROVE  /\ Place(calls', k) \in DOMAIN fn'.code
                      /\ fn'.code[Place(calls', k)] = [op |-> calls'[k].op, args |-> <<0>>]
                      /\ \E m \in DOMAIN fn'.fixups :
                           fn'.fixups[m] = [at |-> Place(calls', k), label |-> calls'[k].label]
    BY DEF JumpsOwed
  <2>1. CASE k \in DOMAIN calls
    <3>1. calls'[k] = calls[k] /\ Place(calls', k) = Place(calls, k) /\ calls[k].does = "jump"
      BY <2>1, <1>14
    <3>2. /\ Place(calls, k) \in DOMAIN fn.code
          /\ fn.code[Place(calls, k)] = [op |-> calls[k].op, args |-> <<0>>]
      BY <2>1, <3>1, <1>12, Zenon DEF JumpsOwed
    <3>3. PICK m \in DOMAIN fn.fixups :
            fn.fixups[m] = [at |-> Place(calls, k), label |-> calls[k].label]
      BY <2>1, <3>1, <1>12, Zenon DEF JumpsOwed
    <3>4. m \in DOMAIN fn'.fixups /\ fn'.fixups[m] = fn.fixups[m]
      BY <1>7, <1>10
    <3> QED
      BY <3>1, <3>2, <3>3, <3>4, <1>13
  <2>2. CASE k = Len(calls) + 1
    <3>1. /\ Place(calls', k) = Len(fn.code) + 1 /\ calls'[k] = c
          /\ Place(calls', k) \in DOMAIN fn'.code
      BY <2>2, <1>13, <1>14
    <3>2. fn'.code[Place(calls', k)] = [op |-> calls'[k].op, args |-> <<0>>]
      BY <3>1, <1>3, <1>10 DEF i
    <3>3. fixup = [at |-> Place(calls', k), label |-> calls'[k].label]
      BY <3>1, <1>3 DEF fixup
    <3>4. Len(fn.fixups) + 1 \in DOMAIN fn'.fixups /\ fn'.fixups[Len(fn.fixups) + 1] = fixup
      BY <1>7, <1>10
    <3> QED
      BY <3>1, <3>2, <3>3, <3>4
  <2> QED
    BY <2>1, <2>2, <1>14
<1>18. FixupsApart(fn')
  <2>1. \A m \in DOMAIN fn.fixups : fn.fixups[m].at \in DOMAIN fn.code
                                    /\ fn.fixups[m].label \in DOMAIN fn.label_addrs
    BY <1>12 DEF FixupsApart
  <2>2. ASSUME NEW m \in DOMAIN fixups
        PROVE  fixups[m].at \in DOMAIN fn'.code /\ fixups[m].label \in DOMAIN fn'.label_addrs
    BY <2>1, <1>5, <1>7, <1>10, <1>13
  <2>3. ASSUME NEW m \in DOMAIN fixups, NEW n \in DOMAIN fixups, fixups[m].at = fixups[n].at
        PROVE  m = n
    <3>1. \A q \in DOMAIN fn.fixups : fixups[q].at # fixup.at
      BY <2>1, <1>5, <1>7, <1>13
    <3> QED
      BY <3>1, <2>3, <1>7, <1>12 DEF FixupsApart
  <2> QED
    BY <2>2, <2>3, <1>10 DEF FixupsApart
<1>19. HalfBuilt(fn', calls')
  BY <1>11, <1>15, <1>16, <1>17, <1>18 DEF HalfBuilt
<1> QED
  BY <1>1, <1>3, <1>9, <1>19, CallStep

(***************************************************************************)
(* A builder that nothing was called on.                                   *)
(***************************************************************************)
LEMMA NewBuilder ==
  ASSUME NEW j \in Jobs, NEW n \in DOMAIN j.functions
  PROVE  new(j.functions[n]) \in Builder(j) /\ HalfBuilt(new(j.functions[n]), <<>>)
<1> DEFINE b == new(j.functions[n])
<1>1. j.functions[n].param_count \in Nat /\ j.functions[n].name \in Name(j)
  BY JobsAssumption DEF Name
<1>2. /\ b \in Builder(j) /\ b.code = <<>> /\ b.fixups = <<>> /\ b.label_addrs = <<>>
      /\ b.local_count = b.param_count
  BY <1>1 DEF new, Builder
<1>3. Before(<<>>, Len(<<>>) + 1) = 0
  <2>1. Earlier(<<>>, 1) = {}
    BY DEF Earlier
  <2>2. Before(<<>>, 1) = 0
    BY <2>1, BeforeIsNat, FS_EmptySet
  <2> QED
    BY <2>2
<1> HIDE DEF b
<1>4. HalfBuilt(b, <<>>)
  BY <1>2, <1>3 DEF HalfBuilt, InstrsPlaced, JumpsOwed, FixupsApart, LabelsBound, FrameFits
<1> QED
  BY <1>2, <1>4 DEF b

(***************************************************************************)
(* finish.  Each jump has one fixup, whose label is bound to the place its  *)
(* only bind names: what is patched is what the listing means.             *)
(***************************************************************************)
LEMMA Finished ==
  ASSUME NEW j \in Jobs, NEW b \in Builder(j), NEW list \in Seq(Call(j)),
         HalfBuilt(b, list), ~Unresolved(b)
  PROVE  IsListing(Function(b, Patched(b)), list)
<1> DEFINE f == Function(b, Patched(b))
<1>1. b.code \in Seq(Code(j))
  BY DEF Builder
<1>2. /\ InstrsPlaced(b, list) /\ JumpsOwed(b, list) /\ FixupsApart(b)
      /\ LabelsBound(b, list) /\ FrameFits(b, list) /\ Len(b.code) = Before(list, Len(list) + 1)
  BY DEF HalfBuilt
<1>3. \A m \in DOMAIN b.fixups : b.label_addrs[b.fixups[m].label] # Unbound
  BY DEF Unresolved
<1>4. ASSUME NEW i \in DOMAIN b.code
      PROVE  /\ (\A m \in DOMAIN b.fixups : b.fixups[m].at # i) => Patched(b)[i] = b.code[i]
             /\ \A m \in DOMAIN b.fixups : b.fixups[m].at = i =>
                  Patched(b)[i] = [b.code[i] EXCEPT !.args = <<b.label_addrs[b.fixups[m].label]>>]
  <2>1. (\A m \in DOMAIN b.fixups : b.fixups[m].at # i) => Patched(b)[i] = b.code[i]
    BY Zenon DEF Patched
  <2>2. ASSUME NEW m \in DOMAIN b.fixups, b.fixups[m].at = i
        PROVE  Patched(b)[i] = [b.code[i] EXCEPT !.args = <<b.label_addrs[b.fixups[m].label]>>]
    <3>1. (CHOOSE k \in DOMAIN b.fixups : b.fixups[k].at = i) = m
      BY <2>2, <1>2 DEF FixupsApart
    <3> QED
      BY <2>2, <3>1, Zenon DEF Patched
  <2> QED
    BY <2>1, <2>2
<1>5. ASSUME NEW k \in DOMAIN list, list[k].does = "jump"
      PROVE  \E m \in DOMAIN b.fixups :
               /\ b.fixups[m].label = list[k].label
               /\ Patched(b)[Place(list, k)] =
                    [op |-> list[k].op, args |-> <<b.label_addrs[list[k].label]>>]
  <2>1. Place(list, k) \in DOMAIN b.code
        /\ b.code[Place(list, k)] = [op |-> list[k].op, args |-> <<0>>]
    BY <1>2, <1>5, Zenon DEF JumpsOwed
  <2>2. PICK m \in DOMAIN b.fixups :
          b.fixups[m] = [at |-> Place(list, k), label |-> list[k].label]
    BY <1>2, <1>5, Zenon DEF JumpsOwed
  <2>3. b.fixups[m].at = Place(list, k) /\ b.fixups[m].label = list[k].label
    BY <2>2
  <2>4. Patched(b)[Place(list, k)] =
          [b.code[Place(list, k)] EXCEPT !.args = <<b.label_addrs[list[k].label]>>]
    BY <2>1, <2>3, <1>4
  <2>5. Patched(b)[Place(list, k)] =
          [op |-> list[k].op, args |-> <<b.label_addrs[list[k].label]>>]
    BY <2>1, <2>4
  <2> QED
    BY <2>3, <2>5
<1>6. /\ f.code = Patched(b) /\ f.local_count = b.local_count /\ f.param_count = b.param_count
  BY DEF Function
<1>7. Len(f.code) = Len(b.code)
  <2>1. DOMAIN Patched(b) = 1..Len(b.code) /\ Len(b.code) \in Nat
    BY <1>1 DEF Patched
  <2>2. Patched(b) = [i \in 1..Len(b.code) |-> Patched(b)[i]]
    BY <2>1, <1>1, Zenon DEF Patched
  <2>3. Len([i \in 1..Len(b.code) |-> Patched(b)[i]]) = Len(b.code)
    BY <2>1
  <2> QED
    BY <2>2, <2>3, <1>6
<1> HIDE DEF f
<1>8. ASSUME NEW l \in DOMAIN b.label_addrs, b.label_addrs[l] # Unbound
      PROVE  /\ Cardinality(Binds(list, l)) = 1
             /\ Before(list, CHOOSE k \in Binds(list, l) : TRUE) = b.label_addrs[l]
  <2>1. PICK k \in DOMAIN list : Binds(list, l) = {k} /\ b.label_addrs[l] = Before(list, k)
    BY <1>2, <1>8 DEF LabelsBound
  <2>2. Cardinality({k}) = 1
    BY FS_Singleton, Zenon
  <2>3. (CHOOSE x \in {k} : TRUE) = k
    OBVIOUS
  <2> QED
    BY <2>1, <2>2, <2>3
<1>9. ASSUME NEW k \in DOMAIN list, list[k].does = "jump"
      PROVE  /\ Cardinality(Binds(list, list[k].label)) = 1
             /\ f.code[Place(list, k)] = Means(list, list[k])
  <2>1. PICK m \in DOMAIN b.fixups :
          /\ b.fixups[m].label = list[k].label
          /\ Patched(b)[Place(list, k)] =
               [op |-> list[k].op, args |-> <<b.label_addrs[list[k].label]>>]
    BY <1>5, <1>9
  <2>2. list[k].label \in DOMAIN b.label_addrs /\ b.label_addrs[list[k].label] # Unbound
    BY <2>1, <1>2, <1>3 DEF FixupsApart
  <2>3. /\ Cardinality(Binds(list, list[k].label)) = 1
        /\ Before(list, CHOOSE i \in Binds(list, list[k].label) : TRUE) = b.label_addrs[list[k].label]
    BY <2>2, <1>8, Zenon
  <2> QED
    BY <2>1, <2>3, <1>6, <1>9 DEF Means
<1>10. ASSUME NEW k \in DOMAIN list, list[k].does \in {"emit", "touch"}
       PROVE  f.code[Place(list, k)] = Means(list, list[k])
  <2>1. Place(list, k) \in DOMAIN b.code /\ b.code[Place(list, k)] = list[k].instr
        /\ \A m \in DOMAIN b.fixups : b.fixups[m].at # Place(list, k)
    BY <1>2, <1>10 DEF InstrsPlaced
  <2>2. Patched(b)[Place(list, k)] = list[k].instr
    BY <2>1, <1>4
  <2> QED
    BY <2>2, <1>6, <1>10 DEF Means
<1>11. ASSUME NEW k \in DOMAIN list, list[k].does = "bind"
       PROVE  Cardinality(Binds(list, list[k].label)) = 1
  <2>1. list[k].label \in DOMAIN b.label_addrs
    BY <1>2, <1>11 DEF LabelsBound
  <2>2. k \in Binds(list, list[k].label)
    BY <1>11 DEF Binds
  <2>3. b.label_addrs[list[k].label] # Unbound
    BY <2>1, <2>2, <1>2 DEF LabelsBound
  <2> QED
    BY <2>1, <2>3, <1>8, Zenon
<1>12. /\ \A slot \in Touched(list) : slot < f.local_count
       /\ f.local_count = f.param_count \/ f.local_count - 1 \in Touched(list)
  BY <1>2, <1>6 DEF FrameFits, Touched
<1>13. \A k \in DOMAIN list :
         /\ list[k].does \in {"bind", "jump"} => Cardinality(Binds(list, list[k].label)) = 1
         /\ IsInstr(list[k]) => f.code[Before(list, k) + 1] = Means(list, list[k])
  BY <1>9, <1>10, <1>11 DEF IsInstr, Place
<1>14. IsListing(f, list)
  BY <1>2, <1>7, <1>12, <1>13 DEF IsListing
<1> QED
  BY <1>14 DEF f

LEMMA FinishStep ==
  ASSUME BuilderInv, finish
  PROVE  BuilderInv'
<1>1. job' = job /\ job \in Jobs /\ doing = "build"
  BY DEF finish, BuilderInv, BuilderTypes
<1>2. CASE Unresolved(fn)
  <2>1. doing' = "panic" /\ UNCHANGED <<functions, listings>>
    BY <1>2 DEF finish
  <2> QED
    BY <2>1, <1>1 DEF BuilderInv, BuilderTypes
<1>3. CASE ~Unresolved(fn)
  <2> DEFINE f == Function(fn, Patched(fn))
  <2>1. /\ functions' = Append(functions, f) /\ listings' = Append(listings, calls)
        /\ calls' = <<>>
        /\ IF Len(functions') < Len(job.functions)
           THEN fn' = new(job.functions[Len(functions') + 1]) /\ UNCHANGED doing
           ELSE doing' = "link" /\ UNCHANGED fn
    BY <1>3 DEF finish
  <2>2. /\ fn \in Builder(job) /\ calls \in Seq(Call(job)) /\ HalfBuilt(fn, calls)
        /\ listings \in Seq(Seq(Call(job))) /\ Len(listings) = Len(functions)
        /\ \A n \in DOMAIN functions : IsListing(functions[n], listings[n])
    BY <1>1 DEF BuilderInv, BuilderTypes
  <2>3. IsListing(f, calls)
    BY <2>2, <1>1, <1>3, Finished
  <2> HIDE DEF f
  <2>4. PICK S : functions \in Seq(S)
    BY DEF BuilderInv, BuilderTypes
  <2>5. functions \in Seq(S \cup {f})
    BY <2>4
  <2>6. /\ functions' \in Seq(S \cup {f}) /\ Len(functions') = Len(functions) + 1
        /\ Len(functions) \in Nat /\ DOMAIN functions = 1..Len(functions)
        /\ DOMAIN functions' = 1..Len(functions) + 1 /\ functions'[Len(functions) + 1] = f
        /\ \A n \in DOMAIN functions : functions'[n] = functions[n]
    BY <2>1, <2>5
  <2> DEFINE L == Seq(Call(job))
  <2>7. listings \in Seq(L) /\ calls \in L
    BY <2>2
  <2> HIDE DEF L
  <2>8. /\ listings' \in Seq(L) /\ Len(listings') = Len(listings) + 1
        /\ listings'[Len(listings) + 1] = calls
        /\ \A n \in 1..Len(listings) : listings'[n] = listings[n]
    BY <2>1, <2>7
  <2>9. \A n \in DOMAIN functions' : IsListing(functions'[n], listings'[n])
    <3> SUFFICES ASSUME NEW n \in DOMAIN functions'
                 PROVE  IsListing(functions'[n], listings'[n])
      OBVIOUS
    <3>1. CASE n \in DOMAIN functions
      <4>1. functions'[n] = functions[n] /\ listings'[n] = listings[n]
        BY <3>1, <2>2, <2>6, <2>8
      <4> QED
        BY <3>1, <4>1, <2>2
    <3>2. CASE n = Len(functions) + 1
      <4>1. functions'[n] = f /\ listings'[n] = calls
        BY <3>2, <2>2, <2>6, <2>8
      <4> QED
        BY <4>1, <2>3
    <3> QED
      BY <3>1, <3>2, <2>6
  <2>10. doing' = "build" => fn' \in Builder(job) /\ HalfBuilt(fn', calls')
    <3> SUFFICES ASSUME doing' = "build"
                 PROVE  fn' \in Builder(job) /\ HalfBuilt(fn', calls')
      OBVIOUS
    <3>1. Len(functions') < Len(job.functions) /\ fn' = new(job.functions[Len(functions') + 1])
      BY <2>1
    <3>2. Len(functions') + 1 \in DOMAIN job.functions
      BY <3>1, <2>6, <1>1, JobsAssumption
    <3> QED
      BY <3>1, <3>2, <2>1, <1>1, NewBuilder
  <2>11. BuilderTypes'
    <3>1. calls' \in Seq(Call(job'))
      BY <2>1
    <3>2. listings' \in Seq(Seq(Call(job')))
      BY <2>8, <1>1 DEF L
    <3> QED
      BY <3>1, <3>2, <2>2, <2>6, <2>8, <2>10, <1>1 DEF BuilderTypes
  <2> QED
    BY <2>9, <2>10, <2>11 DEF BuilderInv
<1> QED
  BY <1>2, <1>3

LEMMA BuilderInitially ==
  BuilderInit => BuilderInv
<1> SUFFICES ASSUME BuilderInit
             PROVE  BuilderInv
  OBVIOUS
<1>1. /\ job \in Jobs /\ fn = new(job.functions[1])
      /\ functions = <<>> /\ calls = <<>> /\ listings = <<>>
  BY DEF BuilderInit
<1>2. 1 \in DOMAIN job.functions
  BY <1>1, JobsAssumption
<1>3. fn \in Builder(job) /\ HalfBuilt(fn, calls)
  BY <1>1, <1>2, NewBuilder
<1>4. functions \in Seq({})
  BY <1>1
<1>5. BuilderTypes
  BY <1>1, <1>3, <1>4 DEF BuilderTypes
<1> QED
  BY <1>1, <1>3, <1>5 DEF BuilderInv

(***************************************************************************)
(* Every function that is finished is the one its caller spelled out, for  *)
(* any jobs that leave the last slot alone (builder.rs:6 and 94): labels    *)
(* bound before or after their jumps, shared or crossing, any number of    *)
(* calls, functions and slots.                                             *)
(***************************************************************************)
THEOREM Assembles ==
  ASSUME \A j \in Jobs : MaxU16 \notin j.slots
  PROVE  BuilderSpec => []AssemblesListing
<1>1. BuilderInv /\ [BuilderNext]_builderVars => BuilderInv'
  <2> SUFFICES ASSUME BuilderInv, [BuilderNext]_builderVars
               PROVE  BuilderInv'
    OBVIOUS
  <2>1. CASE label
    BY <2>1, LabelStep
  <2>2. ASSUME NEW l \in DOMAIN fn.label_addrs, bind(l)
        PROVE  BuilderInv'
    BY <2>2, BindStep
  <2>3. ASSUME NEW i \in job.instrs, emit(i)
        PROVE  BuilderInv'
    BY <2>3, EmitStep
  <2>4. ASSUME NEW op \in {"Load", "Store"}, NEW slot \in job.slots, touch(op, slot)
        PROVE  BuilderInv'
    BY <2>4, TouchStep
  <2>5. ASSUME NEW op \in job.jumps, NEW l \in DOMAIN fn.label_addrs, emit_jump(op, l)
        PROVE  BuilderInv'
    BY <2>5, JumpStep
  <2>6. CASE finish
    BY <2>6, FinishStep
  <2>7. CASE UNCHANGED builderVars
    BY <2>7 DEF builderVars, BuilderInv, BuilderTypes
  <2> QED
    BY <2>1, <2>2, <2>3, <2>4, <2>5, <2>6, <2>7 DEF BuilderNext
<1>2. BuilderInv => AssemblesListing
  BY DEF BuilderInv, AssemblesListing, IsListing
<1> QED
  BY <1>1, <1>2, BuilderInitially, PTL DEF BuilderSpec
=============================================================================
