--------------------------- MODULE SchedulerProofs ---------------------------
(***************************************************************************)
(* The scheduler's safety, for any number of fibers, channels, sockets and *)
(* any program: what the order-preserving filters of Subsequences keep,    *)
(* the inductive invariant and the lemmas on its wake paths, the theorems  *)
(* it gives, and a second invariant for wake-ups, channels, sleeps and the *)
(* outcomes of the driver.                                                 *)
(***************************************************************************)
EXTENDS Scheduler, FiniteSetTheorems, TLAPS

(* The filters of Subsequences.                                            *)

(***************************************************************************)
(* Rank numbers the positions of K from 1 without gap or repetition.       *)
(***************************************************************************)
LEMMA RankBijection ==
  ASSUME NEW n \in Nat, NEW K \in SUBSET (1 .. n)
  PROVE  /\ Cardinality(K) \in Nat
         /\ \A i \in K : Rank(K, i) \in 1 .. Cardinality(K)
         /\ \A i, j \in K : i < j => Rank(K, i) < Rank(K, j)
         /\ \A k \in 1 .. Cardinality(K) : \E i \in K : Rank(K, i) = k
<1> DEFINE Below(i) == {j \in K : j =< i}
           r == [i \in K |-> Rank(K, i)]
           N == Cardinality(K)
<1>1. IsFiniteSet(K) /\ N \in Nat
  <2>1. IsFiniteSet(1 .. n)
    BY FS_Interval
  <2>2. IsFiniteSet(K)
    BY <2>1, FS_Subset, Zenon
  <2> QED
    BY <2>2, FS_CardinalityType
<1>2. ASSUME NEW i \in K
      PROVE  Rank(K, i) \in 1 .. N
  <2>1. Below(i) \subseteq K /\ IsFiniteSet(Below(i)) /\ Cardinality(Below(i)) =< N
    BY <1>1, FS_Subset
  <2>2. i \in Below(i)
    BY <1>2
  <2>3. Cardinality(Below(i)) \in Nat /\ Cardinality(Below(i)) # 0
    BY <2>1, <2>2, FS_CardinalityType, FS_EmptySet
  <2> QED
    BY <1>1, <2>1, <2>3 DEF Rank
<1>3. ASSUME NEW i \in K, NEW j \in K, i < j
      PROVE  Rank(K, i) < Rank(K, j)
  <2>1. i \in Int /\ j \in Int /\ \A x \in K : x \in Int
    OBVIOUS
  <2>2. \A x \in K : x =< i => x =< j
    BY <1>3, <2>1
  <2>3. j =< j /\ ~ (j =< i)
    BY <1>3, <2>1
  <2>4. Below(i) \subseteq Below(j) /\ j \in Below(j) /\ j \notin Below(i)
    BY <2>2, <2>3, Zenon
  <2>5. IsFiniteSet(Below(j))
    BY <1>1, FS_Subset
  <2>6. /\ Cardinality(Below(i)) =< Cardinality(Below(j))
        /\ Cardinality(Below(j)) = Cardinality(Below(i)) => Below(j) = Below(i)
    BY <2>4, <2>5, FS_Subset
  <2>7. Rank(K, i) \in Nat /\ Rank(K, j) \in Nat
    BY <1>1, <1>2
  <2> QED
    BY <2>4, <2>6, <2>7 DEF Rank
<1>4. \A i, j \in K : Rank(K, i) = Rank(K, j) => i = j
  <2> SUFFICES ASSUME NEW i \in K, NEW j \in K, i # j PROVE Rank(K, i) # Rank(K, j)
    OBVIOUS
  <2>1. i < j \/ j < i
    OBVIOUS
  <2>2. Rank(K, i) < Rank(K, j) \/ Rank(K, j) < Rank(K, i)
    BY <1>3, <2>1
  <2>3. Rank(K, i) \in Int /\ Rank(K, j) \in Int
    BY <1>1, <1>2
  <2> QED
    BY <2>2, <2>3
<1>5. r \in Injection(K, 1 .. N)
  BY <1>2, <1>4 DEF Injection, IsInjective
<1>6. IsFiniteSet(1 .. N) /\ Cardinality(1 .. N) = N
  BY <1>1, FS_Interval
<1>7. r \in Surjection(K, 1 .. N)
  BY <1>5, <1>6, FS_Injection
<1>8. \A k \in 1 .. N : \E i \in K : Rank(K, i) = k
  BY <1>7, Zenon DEF Surjection
<1> QED
  BY <1>1, <1>2, <1>3, <1>8

(***************************************************************************)
(* Keep returns a sequence of exactly the elements at the positions kept,  *)
(* and repeats none that s does not repeat at those positions.             *)
(***************************************************************************)
THEOREM KeepProperties ==
  ASSUME NEW S, NEW s \in Seq(S), NEW K \in SUBSET (DOMAIN s)
  PROVE  /\ Keep(s, K) \in Seq(S)
         /\ Range(Keep(s, K)) = {s[i] : i \in K}
         /\ (\A i, j \in K : s[i] = s[j] => i = j) => IsInjective(Keep(s, K))
<1> DEFINE N == Cardinality(K)
           at(k) == CHOOSE i \in K : Rank(K, i) = k
           t == Keep(s, K)
<1>1. Len(s) \in Nat /\ DOMAIN s = 1 .. Len(s) /\ \A i \in DOMAIN s : s[i] \in S
  OBVIOUS
<1>2. /\ N \in Nat
      /\ \A i \in K : Rank(K, i) \in 1 .. N
      /\ \A i, j \in K : i < j => Rank(K, i) < Rank(K, j)
      /\ \A k \in 1 .. N : \E i \in K : Rank(K, i) = k
  BY <1>1, RankBijection, Zenon
<1>3. \A k \in 1 .. N : at(k) \in K /\ Rank(K, at(k)) = k
  BY <1>2
<1>4. t = [k \in 1 .. N |-> s[at(k)]]
  BY DEF Keep
<1> HIDE DEF t, at, N
<1>5. t \in [1 .. N -> S]
  BY <1>1, <1>3, <1>4
<1>6. t \in Seq(S)
  BY <1>2, <1>5
<1>7. DOMAIN t = 1 .. N /\ \A k \in 1 .. N : t[k] = s[at(k)]
  BY <1>4
<1>8. \A i \in K : \E k \in 1 .. N : at(k) = i
  <2> SUFFICES ASSUME NEW i \in K PROVE at(Rank(K, i)) = i
    BY <1>2
  <2> DEFINE j == at(Rank(K, i))
  <2>1. j \in K /\ Rank(K, j) = Rank(K, i) /\ Rank(K, i) \in Int
    BY <1>2, <1>3
  <2>2. ~ (i < j) /\ ~ (j < i) /\ i \in Int /\ j \in Int
    BY <1>1, <1>2, <2>1
  <2> QED
    BY <2>2
<1>9. Range(t) = {s[i] : i \in K}
  BY <1>3, <1>7, <1>8 DEF Range
<1>10. ASSUME \A i, j \in K : s[i] = s[j] => i = j
       PROVE  IsInjective(t)
  BY <1>3, <1>7, <1>10 DEF IsInjective
<1> QED
  BY <1>6, <1>9, <1>10 DEF t

(***************************************************************************)
(* `retain(|x| x != e)` removes e and nothing else.                        *)
(***************************************************************************)
THEOREM WithoutProperties ==
  ASSUME NEW S, NEW s \in Seq(S), NEW e
  PROVE  /\ Without(s, e) \in Seq(S)
         /\ Range(Without(s, e)) = Range(s) \ {e}
<1> DEFINE K == {i \in DOMAIN s : s[i] # e}
<1>1. /\ Keep(s, K) \in Seq(S)
      /\ Range(Keep(s, K)) = {s[i] : i \in K}
  BY KeepProperties
<1>2. {s[i] : i \in K} = Range(s) \ {e}
  BY DEF Range
<1> QED
  BY <1>1, <1>2 DEF Without

(***************************************************************************)
(* Every sequence has a first position for each of its elements.           *)
(***************************************************************************)
LEMMA FirstPosition ==
  ASSUME NEW S, NEW s \in Seq(S), NEW i \in DOMAIN s
  PROVE  \E j \in DOMAIN s : s[j] = s[i] /\ \A k \in 1 .. (j - 1) : s[k] # s[j]
<1>1. Len(s) \in Nat /\ DOMAIN s = 1 .. Len(s)
  OBVIOUS
<1> DEFINE P == {j \in DOMAIN s : s[j] = s[i]}
<1>2. P \in SUBSET (1 .. Len(s)) /\ i \in P
  BY <1>1
<1>3. /\ Cardinality(P) \in Nat
      /\ \A k \in P : Rank(P, k) \in 1 .. Cardinality(P)
      /\ \A k, l \in P : k < l => Rank(P, k) < Rank(P, l)
      /\ \A k \in 1 .. Cardinality(P) : \E l \in P : Rank(P, l) = k
  BY <1>1, <1>2, RankBijection, Zenon
<1> HIDE DEF P
<1>4. 1 \in 1 .. Cardinality(P)
  BY <1>2, <1>3
<1> USE DEF P
<1>5. PICK j \in P : Rank(P, j) = 1
  BY <1>3, <1>4, Zenon
<1>6. ASSUME NEW k \in 1 .. (j - 1) PROVE s[k] # s[j]
  <2>1. k \in DOMAIN s /\ k < j
    BY <1>1, <1>2, <1>5
  <2>2. k \notin P
    BY <1>3, <1>5, <2>1
  <2> QED
    BY <1>5, <2>1, <2>2
<1> QED
  BY <1>5, <1>6

(***************************************************************************)
(* FirstsOutside lists every element of s outside T, once.                 *)
(***************************************************************************)
THEOREM FirstsOutsideProperties ==
  ASSUME NEW S, NEW s \in Seq(S), NEW T
  PROVE  /\ FirstsOutside(s, T) \in Seq(S)
         /\ Range(FirstsOutside(s, T)) = Range(s) \ T
         /\ IsInjective(FirstsOutside(s, T))
<1> DEFINE K == {i \in DOMAIN s : s[i] \notin T /\ \A j \in 1 .. (i - 1) : s[j] # s[i]}
<1>1. Len(s) \in Nat /\ DOMAIN s = 1 .. Len(s)
  OBVIOUS
<1>2. \A i, j \in K : s[i] = s[j] => i = j
  <2> SUFFICES ASSUME NEW i \in K, NEW j \in K, i # j PROVE s[i] # s[j]
    OBVIOUS
  <2>1. i \in 1 .. (j - 1) \/ j \in 1 .. (i - 1)
    BY <1>1
  <2> QED
    BY <2>1
<1>3. /\ Keep(s, K) \in Seq(S)
      /\ Range(Keep(s, K)) = {s[i] : i \in K}
      /\ IsInjective(Keep(s, K))
  BY <1>2, KeepProperties
<1>4. {s[i] : i \in K} = Range(s) \ T
  <2>1. \A i \in DOMAIN s : s[i] \notin T => \E j \in K : s[j] = s[i]
    BY FirstPosition, Zenon
  <2>2. \A i \in K : i \in DOMAIN s /\ s[i] \notin T
    OBVIOUS
  <2> HIDE DEF K
  <2> QED
    BY <2>1, <2>2, Zenon DEF Range
<1> QED
  BY <1>3, <1>4 DEF FirstsOutside

-----------------------------------------------------------------------------
(* Members and repetitions of lists as they are pushed, popped and joined.  *)

\* t is s with e pushed.
Pushed(t, s, e) ==
  /\ DOMAIN t = DOMAIN s \cup {Len(s) + 1}
  /\ \A i \in DOMAIN s : i # Len(s) + 1 /\ t[i] = s[i]
  /\ t[Len(s) + 1] = e

(***************************************************************************)
(* Pushing on a list leaves its elements where they are.                   *)
(***************************************************************************)
LEMMA PushElements ==
  ASSUME NEW S, NEW s \in Seq(S), NEW e \in S
  PROVE  Pushed(Append(s, e), s, e)
<1>1. /\ DOMAIN s = 1 .. Len(s) /\ Len(s) \in Nat
      /\ DOMAIN Append(s, e) = 1 .. (Len(s) + 1)
  OBVIOUS
<1>2. /\ \A i \in 1 .. Len(s) : Append(s, e)[i] = s[i]
      /\ Append(s, e)[Len(s) + 1] = e
  OBVIOUS
<1>3. 1 .. (Len(s) + 1) = (1 .. Len(s)) \cup {Len(s) + 1} /\ Len(s) + 1 \notin 1 .. Len(s)
  BY <1>1
<1> QED
  BY <1>1, <1>2, <1>3, Zenon DEF Pushed

(***************************************************************************)
(* Pushing on a list adds one member.                                      *)
(***************************************************************************)
LEMMA PushRange ==
  ASSUME NEW S, NEW s \in Seq(S), NEW e \in S
  PROVE  Append(s, e) \in Seq(S) /\ Range(Append(s, e)) = Range(s) \cup {e}
<1>1. /\ Append(s, e) \in Seq(S)
      /\ DOMAIN s = 1 .. Len(s) /\ Len(s) \in Nat
      /\ DOMAIN Append(s, e) = 1 .. (Len(s) + 1)
      /\ \A i \in 1 .. Len(s) : Append(s, e)[i] = s[i]
      /\ Append(s, e)[Len(s) + 1] = e
  OBVIOUS
<1> QED
  BY <1>1 DEF Range

(***************************************************************************)
(* Taking the head off a list without repetition removes that member.      *)
(***************************************************************************)
LEMMA PopRange ==
  ASSUME NEW S, NEW s \in Seq(S), s # <<>>, IsInjective(s)
  PROVE  /\ Head(s) \in S /\ Head(s) \in Range(s)
         /\ Tail(s) \in Seq(S) /\ IsInjective(Tail(s))
         /\ Range(Tail(s)) = Range(s) \ {Head(s)}
<1>1. /\ Len(s) \in Nat /\ DOMAIN s = 1 .. Len(s) /\ Len(s) # 0
      /\ Head(s) = s[1] /\ Head(s) \in S
      /\ Tail(s) \in Seq(S) /\ DOMAIN Tail(s) = 1 .. (Len(s) - 1)
      /\ \A i \in 1 .. (Len(s) - 1) : Tail(s)[i] = s[i + 1]
  OBVIOUS
<1>2. \A i \in 1 .. (Len(s) - 1) : i + 1 \in DOMAIN s /\ i + 1 # 1
  BY <1>1
<1>3. IsInjective(Tail(s))
  BY <1>1, <1>2 DEF IsInjective
<1>4. ASSUME NEW x \in Range(Tail(s)) PROVE x \in Range(s) /\ x # Head(s)
  <2>1. PICK i \in 1 .. (Len(s) - 1) : x = s[i + 1]
    BY <1>1 DEF Range
  <2>2. 1 \in DOMAIN s /\ i + 1 \in DOMAIN s /\ i + 1 # 1
    BY <1>1
  <2> QED
    BY <1>1, <2>1, <2>2 DEF Range, IsInjective
<1>5. ASSUME NEW x \in Range(s), x # Head(s) PROVE x \in Range(Tail(s))
  <2>1. PICK i \in DOMAIN s : x = s[i]
    BY DEF Range
  <2>2. i # 1
    BY <1>1, <1>5, <2>1
  <2>3. i - 1 \in 1 .. (Len(s) - 1) /\ (i - 1) + 1 = i
    BY <1>1, <2>1, <2>2
  <2>4. Tail(s)[i - 1] = x
    BY <1>1, <2>1, <2>3
  <2> QED
    BY <1>1, <2>3, <2>4 DEF Range
<1>6. Head(s) \in Range(s)
  <2>1. 1 \in DOMAIN s
    BY <1>1
  <2> QED
    BY <1>1, <2>1 DEF Range
<1> QED
  BY <1>1, <1>3, <1>4, <1>5, <1>6

(***************************************************************************)
(* A one-element list.                                                     *)
(***************************************************************************)
LEMMA SingletonRange ==
  ASSUME NEW S, NEW e \in S
  PROVE  <<e>> \in Seq(S) /\ Range(<<e>>) = {e}
  BY DEF Range

(***************************************************************************)
(* The empty list.                                                         *)
(***************************************************************************)
LEMMA EmptyRange == Range(<<>>) = {} /\ IsInjective(<<>>)
  BY DEF Range, IsInjective

(***************************************************************************)
(* Only the empty list has no members.                                     *)
(***************************************************************************)
LEMMA RangeEmpty ==
  ASSUME NEW S, NEW s \in Seq(S)
  PROVE  (Range(s) = {} <=> s = <<>>) /\ Range(s) \subseteq S
<1>1. Len(s) \in Nat /\ DOMAIN s = 1 .. Len(s) /\ Range(s) \subseteq S
  BY DEF Range
<1>2. ASSUME s # <<>> PROVE Range(s) # {}
  <2>1. Len(s) # 0
    BY <1>2
  <2>2. 1 \in DOMAIN s
    BY <1>1, <2>1
  <2> QED
    BY <2>2 DEF Range
<1> QED
  BY <1>1, <1>2, EmptyRange

(***************************************************************************)
(* Appending a list adds its members.                                      *)
(***************************************************************************)
LEMMA ConcatRange ==
  ASSUME NEW S, NEW s \in Seq(S), NEW t \in Seq(S)
  PROVE  s \o t \in Seq(S) /\ Range(s \o t) = Range(s) \cup Range(t)
<1>1. /\ Len(s) \in Nat /\ Len(t) \in Nat /\ s \o t \in Seq(S)
      /\ DOMAIN s = 1 .. Len(s) /\ DOMAIN t = 1 .. Len(t)
      /\ DOMAIN (s \o t) = 1 .. (Len(s) + Len(t))
      /\ \A i \in 1 .. (Len(s) + Len(t)) :
           (s \o t)[i] = IF i =< Len(s) THEN s[i] ELSE t[i - Len(s)]
  OBVIOUS
<1>2. ASSUME NEW i \in DOMAIN t
      PROVE  Len(s) + i \in DOMAIN (s \o t) /\ (s \o t)[Len(s) + i] = t[i]
  BY <1>1
<1>3. ASSUME NEW i \in DOMAIN s
      PROVE  i \in DOMAIN (s \o t) /\ (s \o t)[i] = s[i]
  BY <1>1
<1>4. ASSUME NEW i \in DOMAIN (s \o t)
      PROVE  \/ i \in DOMAIN s /\ (s \o t)[i] = s[i]
             \/ i - Len(s) \in DOMAIN t /\ (s \o t)[i] = t[i - Len(s)]
  BY <1>1
<1>5. Range(s) \cup Range(t) \subseteq Range(s \o t)
  BY <1>2, <1>3, Zenon DEF Range
<1>6. Range(s \o t) \subseteq Range(s) \cup Range(t)
  BY <1>4, Zenon DEF Range
<1> QED
  BY <1>1, <1>5, <1>6, Zenon

(***************************************************************************)
(* Appending a list without repetition, whose members are all new, keeps   *)
(* a list free of repetition.                                              *)
(***************************************************************************)
LEMMA ConcatInjective ==
  ASSUME NEW S, NEW s \in Seq(S), NEW t \in Seq(S), IsInjective(s), IsInjective(t),
         Range(s) \cap Range(t) = {}
  PROVE  IsInjective(s \o t)
<1>1. /\ Len(s) \in Nat /\ Len(t) \in Nat
      /\ DOMAIN s = 1 .. Len(s) /\ DOMAIN t = 1 .. Len(t)
      /\ DOMAIN (s \o t) = 1 .. (Len(s) + Len(t))
      /\ \A i \in 1 .. (Len(s) + Len(t)) :
           (s \o t)[i] = IF i =< Len(s) THEN s[i] ELSE t[i - Len(s)]
  OBVIOUS
<1>2. \A i \in DOMAIN s, j \in DOMAIN t : s[i] # t[j]
  BY Zenon DEF Range
<1> SUFFICES ASSUME NEW i \in 1 .. (Len(s) + Len(t)), NEW j \in 1 .. (Len(s) + Len(t)),
                    (s \o t)[i] = (s \o t)[j]
             PROVE  i = j
  BY <1>1 DEF IsInjective
<1>3. CASE i =< Len(s) /\ j =< Len(s)
  BY <1>1, <1>3 DEF IsInjective
<1>4. CASE ~ (i =< Len(s)) /\ ~ (j =< Len(s))
  <2>1. i - Len(s) \in DOMAIN t /\ j - Len(s) \in DOMAIN t
    BY <1>1, <1>4
  <2>2. i - Len(s) = j - Len(s)
    BY <1>1, <1>4, <2>1, Zenon DEF IsInjective
  <2> QED
    BY <1>1, <2>2
<1>5. CASE i =< Len(s) /\ ~ (j =< Len(s))
  <2>1. i \in DOMAIN s /\ j - Len(s) \in DOMAIN t
    BY <1>1, <1>5
  <2> QED
    BY <1>1, <1>2, <1>5, <2>1
<1>6. CASE ~ (i =< Len(s)) /\ j =< Len(s)
  <2>1. j \in DOMAIN s /\ i - Len(s) \in DOMAIN t
    BY <1>1, <1>6
  <2> QED
    BY <1>1, <1>2, <1>6, <2>1
<1> QED
  BY <1>3, <1>4, <1>5, <1>6

-----------------------------------------------------------------------------
(* The inductive invariant and the wake paths.                             *)

(***************************************************************************)
(* The inductive invariant.  The properties of Scheduler speak of lists    *)
(* and waits; what carries them from step to step is which fiber runs,     *)
(* which native each fiber is in, and what the driver holds meanwhile.     *)
(***************************************************************************)

\* One fiber runs, the driver's; ids are handed out in order.
Control ==
  /\ phase = "run" => current \in Fiber /\ state[current] = "Running"
  /\ \A f \in Fiber : state[f] = "Running" => phase = "halt" \/ (phase = "run" /\ f = current)
  /\ \A f \in Fiber : state[f] = "Unspawned" <=> f >= nfibers
  /\ outcome = "running" <=> phase # "halt"

\* The sources a wait may have, by native.
Shape(o) ==
  /\ o.kind = "none" => o = NoOp
  /\ o.kind \in BlockRetryOps \cup {"yield", "await", "sleep"} => o.handles = {}
  /\ o.kind \in BlockRetryOps \cup {"yield", "await", "socket"} => o.deadline = NoDeadline
  /\ o.kind = "socket" => \A g, h \in o.handles : g = h

\* A fiber is inside a native exactly while it waits or runs it again.
Natives ==
  \A f \in Fiber :
    /\ Shape(op[f])
    /\ state[f] \in {"Unspawned", "NotStarted", "Done"} => op[f] = NoOp
    /\ state[f] = "Running" => op[f].kind \in Reruns \cup {"none"}
    /\ state[f] = "Suspended" => op[f].kind # "none"

\* What the driver took from the pool is owed, once, to waiting fibers.
Owed ==
  /\ IsInjective(completions)
  /\ \A f \in Range(completions) : pending[f]
  /\ completions # <<>> => phase = "deliver"

\* A fiber has one timer at most, with the deadline of its wait.
TimersExact ==
  \A i \in DOMAIN timers :
    /\ timers[i].deadline = op[timers[i].id].deadline
    /\ \A j \in DOMAIN timers : timers[i].id = timers[j].id => i = j

\* The types of what the lists and waits are made of.
CoreType ==
  /\ nfibers \in 1 .. MaxFibers
  /\ state \in [Fiber -> {"Unspawned", "NotStarted", "Suspended", "Running", "Done"}]
  /\ queued \in [Fiber -> BOOLEAN]
  /\ pending \in [Fiber -> BOOLEAN]
  /\ park_sources \in [Fiber -> ParkSources]
  /\ op \in [Fiber -> Op]
  /\ ready \in Seq(Fiber) /\ blocked \in Seq(Fiber)
  /\ timers \in Seq(TimerEntry)
  /\ poll_blocked \in [Handles -> Seq(Fiber)]

\* The part of the invariant that is about fibers and lists alone.
Core == CoreType /\ Natives /\ TimersExact /\ ReadyIsSound /\ ListsMatchWaits

\* The types of the rest.
RestType ==
  /\ io_blocked \in Nat
  /\ channels \in Seq(Chan) /\ Len(channels) =< MaxChans
  /\ sockets \in [Handles -> {"unused", "open", "closed"}]
  /\ now \in Time
  /\ phase \in {"run", "pick", "poll", "events", "recv", "deliver", "sleep", "timers", "halt"}
  /\ current \in Fiber \cup {NoFiber}
  /\ events \in SUBSET Handles
  /\ completions \in Seq(Fiber)
  /\ outcome \in {"running", "returned", "trap", "deadlock", "unit", "bug"}

Inv == Core /\ RestType /\ Control /\ Owed /\ IoCountExact

-----------------------------------------------------------------------------
(* The scheduler's lists.                                                  *)

(***************************************************************************)
(* make_ready adds exactly the fibers it is given to the ready queue and   *)
(* keeps the queue free of repetition.                                     *)
(***************************************************************************)
LEMMA MakeReadyFacts ==
  ASSUME ready \in Seq(Fiber), queued \in [Fiber -> BOOLEAN],
         Range(ready) = {f \in Fiber : queued[f]}, IsInjective(ready),
         NEW w \in Seq(Fiber), MakeReady(w)
  PROVE  /\ ready' \in Seq(Fiber) /\ queued' \in [Fiber -> BOOLEAN]
         /\ Range(ready') = {f \in Fiber : queued'[f]} /\ IsInjective(ready')
         /\ \A f \in Fiber : queued'[f] <=> queued[f] \/ f \in Range(w)
<1> DEFINE Q == {f \in Fiber : queued[f]}
           new == FirstsOutside(w, Q)
<1>1. new \in Seq(Fiber) /\ Range(new) = Range(w) \ Q /\ IsInjective(new)
  BY FirstsOutsideProperties
<1>2. ready' = ready \o new /\ queued' = [f \in Fiber |-> queued[f] \/ f \in Range(w)]
  BY DEF MakeReady
<1>3. Range(w) \subseteq Fiber
  BY RangeEmpty, Zenon
<1> HIDE DEF new
<1>4. ready' \in Seq(Fiber) /\ Range(ready') = Range(ready) \cup Range(new)
  BY <1>1, <1>2, ConcatRange
<1>5. IsInjective(ready')
  BY <1>1, <1>2, ConcatInjective
<1>6. queued' \in [Fiber -> BOOLEAN] /\ \A f \in Fiber : queued'[f] <=> queued[f] \/ f \in Range(w)
  BY <1>2, Zenon
<1>7. Range(ready') = {f \in Fiber : queued'[f]}
  BY <1>1, <1>3, <1>4, <1>6
<1> QED
  BY <1>4, <1>5, <1>6, <1>7

(***************************************************************************)
(* Pushing a timer, and keeping some of the timers.                        *)
(***************************************************************************)
LEMMA TimerFacts ==
  ASSUME NEW ts \in Seq(TimerEntry)
  PROVE  /\ Ids(ts) \subseteq Fiber
         /\ \A e \in TimerEntry : /\ Append(ts, e) \in Seq(TimerEntry)
                                   /\ Ids(Append(ts, e)) = Ids(ts) \cup {e.id}
         /\ \A K \in SUBSET (DOMAIN ts) : /\ Keep(ts, K) \in Seq(TimerEntry)
                                           /\ Ids(Keep(ts, K)) = {ts[i].id : i \in K}
<1>1. ASSUME NEW us \in Seq(TimerEntry)
      PROVE  Ids(us) = {x.id : x \in Range(us)}
  BY DEF Ids, Range
<1>2. Ids(ts) \subseteq Fiber
  <2>1. Range(ts) \subseteq TimerEntry
    BY RangeEmpty, Zenon
  <2>2. \A x \in TimerEntry : x.id \in Fiber
    BY DEF TimerEntry
  <2> QED
    BY <1>1, <2>1, <2>2
<1>3. ASSUME NEW e \in TimerEntry
      PROVE  /\ Append(ts, e) \in Seq(TimerEntry)
             /\ Ids(Append(ts, e)) = Ids(ts) \cup {e.id}
  <2>1. Append(ts, e) \in Seq(TimerEntry) /\ Range(Append(ts, e)) = Range(ts) \cup {e}
    BY PushRange
  <2> QED
    BY <1>1, <2>1, Zenon
<1>4. ASSUME NEW K \in SUBSET (DOMAIN ts)
      PROVE  /\ Keep(ts, K) \in Seq(TimerEntry)
             /\ Ids(Keep(ts, K)) = {ts[i].id : i \in K}
  <2>1. Keep(ts, K) \in Seq(TimerEntry) /\ Range(Keep(ts, K)) = {ts[i] : i \in K}
    BY KeepProperties
  <2> QED
    BY <1>1, <2>1
<1> QED
  BY <1>2, <1>3, <1>4

(***************************************************************************)
(* The waits natives park in have their type and shape.                    *)
(***************************************************************************)
LEMMA OpFacts ==
  /\ \A k \in Kinds : /\ Plain(k) \in Op /\ Plain(k).kind = k
                       /\ Plain(k).handles = {} /\ Plain(k).deadline = NoDeadline
  /\ \A t \in Fiber : /\ JoinOp(t) \in Op /\ JoinOp(t).kind = "join"
                       /\ JoinOp(t).joins = {t} /\ JoinOp(t).handles = {}
                       /\ JoinOp(t).chans = {} /\ JoinOp(t).deadline = NoDeadline
  /\ \A c \in 1 .. MaxChans, k \in {"send", "receive"} :
       /\ ChanOp(k, c) \in Op /\ ChanOp(k, c).kind = k /\ ChanOp(k, c).joins = {}
       /\ ChanOp(k, c).handles = {} /\ ChanOp(k, c).chans = {c}
       /\ ChanOp(k, c).deadline = NoDeadline
  /\ \A h \in Handles : /\ SocketOp(h) \in Op /\ SocketOp(h).kind = "socket"
                         /\ SocketOp(h).handles = {h} /\ SocketOp(h).deadline = NoDeadline
  /\ \A d \in Time : /\ SleepOp(d) \in Op /\ SleepOp(d).kind = "sleep"
                      /\ SleepOp(d).handles = {} /\ SleepOp(d).deadline = d
<1>1. NoDeadline \in Time \cup {NoDeadline}
  OBVIOUS
<1> QED
  BY <1>1, Zenon DEF Op, Wait, Plain, JoinOp, ChanOp, SocketOp, SleepOp, Kinds, Reruns, BlockRetryOps

(***************************************************************************)
(* A wait on a channel is one the scan list serves.                        *)
(***************************************************************************)
LEMMA ChanOpFacts ==
  ASSUME NEW c \in 1 .. MaxChans, NEW k \in {"send", "receive"}
  PROVE  /\ ChanOp(k, c) \in Op /\ ChanOp(k, c).kind \in BlockRetryOps
         /\ ChanOp(k, c).handles = {} /\ ChanOp(k, c).deadline = NoDeadline
<1>1. ChanOp(k, c) \in Op
  BY OpFacts, Zenon
<1>2. ChanOp(k, c).kind = k /\ ChanOp(k, c).handles = {} /\ ChanOp(k, c).deadline = NoDeadline
  BY Zenon DEF ChanOp, Wait
<1> QED
  BY <1>1, <1>2, Zenon DEF BlockRetryOps

-----------------------------------------------------------------------------
(* What the parts of a step do to fibers and lists.                        *)

Running == current \in Fiber /\ state[current] = "Running"

(***************************************************************************)
(* Timers that stay are right as long as their fibers' waits stay; the     *)
(* running fiber has none.                                                 *)
(***************************************************************************)
LEMMA SameTimers ==
  ASSUME CoreType, TimersExact, ListsMatchWaits, Running, timers' = timers,
         \A f \in Fiber \ {current} : op'[f] = op[f]
  PROVE  TimersExact'
<1>1. \A i \in DOMAIN timers : timers[i].id \in Fiber \ {current}
  <2>1. Ids(timers) \subseteq Fiber
    BY TimerFacts DEF CoreType
  <2>2. current \notin Ids(timers)
    BY Zenon DEF ListsMatchWaits, Timed, Running
  <2> QED
    BY <2>1, <2>2 DEF Ids
<1> QED
  BY <1>1 DEF TimersExact

(***************************************************************************)
(* A fiber the step does not touch waits as it did.                        *)
(***************************************************************************)
Untouched(f) ==
  /\ f \in Range(blocked') <=> f \in Range(blocked)
  /\ f \in Ids(timers') <=> f \in Ids(timers)
  /\ \A h \in Handles : f \in Range(poll_blocked'[h]) <=> f \in Range(poll_blocked[h])
  /\ op'[f] = op[f] /\ state'[f] = state[f] /\ park_sources'[f] = park_sources[f]
  /\ queued'[f] = queued[f] /\ pending'[f] = pending[f]

LEMMA SameWait ==
  ASSUME CoreType, ListsMatchWaits, NEW f \in Fiber, Untouched(f)
  PROVE  ListsMatchWaits!(f)'
<1>1. ListsMatchWaits!(f)
  BY DEF ListsMatchWaits
<1>2. op[f].handles \subseteq Handles
  BY DEF CoreType, Op
<1> QED
  BY <1>1, <1>2 DEF Untouched, Blocked, Timed, Polled, Parked

(***************************************************************************)
(* A fiber that suspends inside a native, in a wait of the right shape,    *)
(* keeps every fiber inside the native it waits in.                        *)
(***************************************************************************)
LEMMA SuspendNatives ==
  ASSUME CoreType, Natives, current \in Fiber, NEW o \in Op, Shape(o), o.kind # "none",
         op' = [op EXCEPT ![current] = o],
         state' = [state EXCEPT ![current] = "Suspended"]
  PROVE  Natives'
<1> SUFFICES ASSUME NEW f \in Fiber PROVE Natives!(f)'
  BY Zenon DEF Natives
<1>1. op \in [Fiber -> Op] /\ DOMAIN state = Fiber
  BY DEF CoreType
<1>2. CASE f = current
  <2>1. op'[f] = o /\ state'[f] = "Suspended"
    BY <1>1, <1>2
  <2> QED
    BY <2>1
<1>3. CASE f # current
  <2>1. op'[f] = op[f] /\ state'[f] = state[f]
    BY <1>1, <1>3
  <2> QED
    BY <2>1, Zenon DEF Natives
<1> QED
  BY <1>2, <1>3

(***************************************************************************)
(* A step that touches neither fibers nor lists.                           *)
(***************************************************************************)
LEMMA QuietCore ==
  ASSUME Core, UNCHANGED <<fiberVars, readyVars, blocked, timers, poll_blocked>>
  PROVE  Core'
<1>1. /\ UNCHANGED <<nfibers, state, queued, pending, park_sources, op, ready>>
      /\ UNCHANGED <<blocked, timers, poll_blocked>>
  BY DEF fiberVars, readyVars
<1>2. CoreType'
  BY <1>1 DEF Core, CoreType
<1>3. Natives' /\ TimersExact' /\ ReadyIsSound'
  BY <1>1 DEF Core, Natives, TimersExact, ReadyIsSound
<1>4. ListsMatchWaits'
  BY <1>1 DEF Core, ListsMatchWaits, Blocked, Timed, Polled, Parked
<1> QED
  BY <1>2, <1>3, <1>4 DEF Core

(***************************************************************************)
(* A native returns to its fiber.                                          *)
(***************************************************************************)
LEMMA ReturnCore ==
  ASSUME Core, Running, Returns, UNCHANGED <<readyVars, blocked, timers, poll_blocked>>
  PROVE  Core'
<1>1. NoOp \in Op /\ NoOp.kind = "none" /\ NoOp.handles = {} /\ NoOp.deadline = NoDeadline
  BY OpFacts DEF Kinds, NoOp
<1>2. /\ op' = [op EXCEPT ![current] = NoOp]
      /\ UNCHANGED <<nfibers, state, pending, park_sources, queued, ready, blocked, timers,
                     poll_blocked>>
  BY DEF Returns, readyVars
<1>3. current \in Fiber /\ state[current] = "Running"
  BY DEF Running
<1>4. CoreType'
  BY <1>1, <1>2, <1>3 DEF Core, CoreType
<1>5. Natives'
  BY <1>1, <1>2, <1>3 DEF Core, CoreType, Natives, Shape, Reruns, BlockRetryOps
<1>6. TimersExact'
  BY <1>2, <1>3 DEF Core, CoreType, TimersExact, ListsMatchWaits, Timed, Ids
<1>7. ReadyIsSound'
  BY <1>2, Zenon DEF Core, ReadyIsSound
<1>8. ListsMatchWaits'
  <2> SUFFICES ASSUME NEW f \in Fiber
               PROVE  ListsMatchWaits!(f)'
    BY Zenon DEF ListsMatchWaits
  <2>1. ListsMatchWaits!(f) /\ ListsMatchWaits!(current)
    BY <1>3, Zenon DEF Core, ListsMatchWaits
  <2>2. CASE f = current
    BY <1>1, <1>2, <1>3, <2>1, <2>2, Zenon
    DEF Core, CoreType, ReadyIsSound, Blocked, Timed, Polled, Parked, BlockRetryOps
  <2>3. CASE f # current
    <3>1. Untouched(f)
      BY <1>2, <1>3, <2>3 DEF Core, CoreType, Untouched
    <3> QED
      BY <3>1, SameWait, Zenon DEF Core
  <2> QED
    BY <2>2, <2>3
<1> QED
  BY <1>4, <1>5, <1>6, <1>7, <1>8 DEF Core

(***************************************************************************)
(* A join, send or receive parks its fiber on the blocked list.            *)
(***************************************************************************)
LEMMA BlockRetryCore ==
  ASSUME Core, Running, NEW o \in Op, o.kind \in BlockRetryOps, o.handles = {},
         o.deadline = NoDeadline, ParkBlockRetry(o)
  PROVE  Core'
<1>1. /\ op' = [op EXCEPT ![current] = o]
      /\ state' = [state EXCEPT ![current] = "Suspended"]
      /\ blocked' = Append(blocked, current)
      /\ UNCHANGED <<nfibers, pending, park_sources, queued, ready, timers, poll_blocked>>
  BY DEF ParkBlockRetry, Suspends, readyVars
<1>2. current \in Fiber /\ state[current] = "Running"
  BY DEF Running
<1>3. blocked' \in Seq(Fiber) /\ Range(blocked') = Range(blocked) \cup {current}
  BY <1>1, <1>2, PushRange DEF Core, CoreType
<1>4. CoreType'
  BY <1>1, <1>2, <1>3 DEF Core, CoreType
<1>5. Natives'
  <2>1. Shape(o) /\ o.kind # "none"
    BY DEF Shape, BlockRetryOps
  <2>2. \A f \in Fiber : /\ op'[f] = IF f = current THEN o ELSE op[f]
                         /\ state'[f] = IF f = current THEN "Suspended" ELSE state[f]
    BY <1>1 DEF Core, CoreType
  <2> QED
    BY <2>1, <2>2 DEF Core, Natives
<1>6. TimersExact'
  <2>1. current \notin Ids(timers)
    BY <1>2, Zenon DEF Core, ListsMatchWaits, Timed
  <2> QED
    BY <1>1, <1>2, <2>1 DEF Core, CoreType, TimersExact, Ids
<1>7. ReadyIsSound'
  BY <1>1, <1>2 DEF Core, CoreType, ReadyIsSound
<1>8. ListsMatchWaits'
  <2> SUFFICES ASSUME NEW f \in Fiber
               PROVE  ListsMatchWaits!(f)'
    BY Zenon DEF ListsMatchWaits
  <2>1. ListsMatchWaits!(f) /\ ListsMatchWaits!(current)
    BY <1>2, Zenon DEF Core, ListsMatchWaits
  <2>2. CASE f = current
    BY <1>1, <1>2, <1>3, <2>1, <2>2, Zenon
    DEF Core, CoreType, ReadyIsSound, Blocked, Timed, Polled, Parked, BlockRetryOps
  <2>3. CASE f # current
    <3>1. Untouched(f)
      BY <1>1, <1>2, <1>3, <2>3 DEF Core, CoreType, Untouched
    <3> QED
      BY <3>1, SameWait DEF Core
  <2> QED
    BY <2>2, <2>3, Zenon
<1> QED
  BY <1>4, <1>5, <1>6, <1>7, <1>8 DEF Core

(***************************************************************************)
(* wake_all, in the step of a fiber that goes on or finishes.              *)
(***************************************************************************)
LEMMA WakeAllCore ==
  ASSUME Core, Running, WakeAll, op' = [op EXCEPT ![current] = NoOp],
         state' \in {state, [state EXCEPT ![current] = "Done"]},
         UNCHANGED <<nfibers, pending, park_sources, timers, poll_blocked>>
  PROVE  Core'
<1>1. NoOp \in Op /\ NoOp.kind = "none" /\ NoOp.handles = {} /\ NoOp.deadline = NoDeadline
  BY OpFacts DEF Kinds, NoOp
<1>2. current \in Fiber /\ state[current] = "Running"
  BY DEF Running
<1>3. blocked' = <<>> /\ blocked' \in Seq(Fiber) /\ Range(blocked') = {}
  BY EmptyRange DEF WakeAll
<1>4. /\ ready' \in Seq(Fiber) /\ queued' \in [Fiber -> BOOLEAN]
      /\ Range(ready') = {f \in Fiber : queued'[f]} /\ IsInjective(ready')
      /\ \A f \in Fiber : queued'[f] <=> queued[f] \/ f \in Range(blocked)
  BY MakeReadyFacts DEF WakeAll, Core, CoreType, ReadyIsSound
<1>5. CoreType'
  BY <1>1, <1>2, <1>3, <1>4, Zenon DEF Core, CoreType
<1>6. Natives'
  BY <1>1, <1>2, SMTT(30) DEF Core, CoreType, Natives, Shape, Reruns, BlockRetryOps
<1>7. TimersExact'
  <2>1. current \notin Ids(timers)
    BY <1>2, Zenon DEF Core, ListsMatchWaits, Timed
  <2> QED
    BY <1>2, <2>1 DEF Core, CoreType, TimersExact, Ids
<1>8. ReadyIsSound'
  <2>1. \A f \in Fiber : f \in Range(blocked) => state[f] = "Suspended" /\ ~ pending[f]
    BY Zenon DEF Core, ListsMatchWaits, Blocked, BlockRetryOps
  <2>2. \A f \in Fiber : queued'[f] => state'[f] \in {"NotStarted", "Suspended"} /\ ~ pending'[f]
    BY <1>2, <1>4, <2>1 DEF Core, CoreType, ReadyIsSound
  <2> QED
    BY <1>4, <2>2 DEF ReadyIsSound
<1>9. ListsMatchWaits'
  <2> SUFFICES ASSUME NEW f \in Fiber
               PROVE  ListsMatchWaits!(f)'
    BY Zenon DEF ListsMatchWaits
  <2>1. ListsMatchWaits!(f)
    BY Zenon DEF Core, ListsMatchWaits
  <2>2. Shape(op[f]) /\ (queued[f] => state[f] # "Running")
    BY DEF Core, Natives, ReadyIsSound
  <2>3. CASE f = current
    <3>1. /\ f \notin Blocked /\ f \notin Timed /\ \A h \in Handles : f \notin Polled(h)
          /\ ~ pending[f] /\ park_sources[f] = NoSources /\ ~ queued[f]
      BY <1>2, <2>1, <2>2, <2>3 DEF Parked
    <3>2. /\ f \notin Blocked' /\ f \notin Timed' /\ \A h \in Handles : f \notin Polled(h)'
          /\ ~ pending'[f] /\ park_sources'[f] = NoSources
      BY <1>3, <3>1 DEF Blocked, Timed, Polled, Ids
    <3>3. op'[f] = NoOp /\ state'[f] # "Suspended"
      BY <1>2, <2>3 DEF Core, CoreType
    <3> QED
      BY <1>1, <3>2, <3>3 DEF Parked
  <2>4. CASE f # current /\ f \in Range(blocked)
    <3>1. op'[f] = op[f] /\ state'[f] = state[f] /\ queued'[f] /\ ~ Parked(f)'
      BY <1>2, <1>4, <2>4 DEF Core, CoreType, Parked
    <3>2. /\ op[f].kind \in BlockRetryOps \cup {"select"}
          /\ op[f].kind # "select" => op[f].handles = {} /\ op[f].deadline = NoDeadline
      BY <2>1, <2>2, <2>4, Zenon DEF Shape, Blocked
    <3>3. op[f].kind # "select" =>
            f \notin Ids(timers) /\ \A h \in Handles : f \notin Range(poll_blocked[h])
      BY <2>1, <3>2, Zenon DEF Timed, Polled
    <3>4. Ids(timers') = Ids(timers) /\ ~ pending'[f] /\ park_sources'[f] = park_sources[f]
      BY <2>1, <3>2, Zenon DEF BlockRetryOps
    <3> QED
      BY <1>3, <2>1, <3>1, <3>3, <3>4, Zenon DEF Blocked, Timed, Polled
  <2>5. CASE f # current /\ f \notin Range(blocked)
    <3>1. Untouched(f)
      BY <1>2, <1>3, <1>4, <2>5, Zenon DEF Core, CoreType, Untouched
    <3> QED
      BY <3>1, SameWait, Zenon DEF Core
  <2> QED
    BY <2>3, <2>4, <2>5, Zenon
<1> QED
  BY <1>5, <1>6, <1>7, <1>8, <1>9 DEF Core

(***************************************************************************)
(* wake_poll, when a socket is closed or has an event.                     *)
(***************************************************************************)
LEMMA WakePollCore ==
  ASSUME Core, NEW h \in Handles, WakePoll(h), UNCHANGED <<fiberVars, blocked, timers>>
  PROVE  Core'
<1>1. /\ poll_blocked' = [poll_blocked EXCEPT ![h] = <<>>]
      /\ UNCHANGED <<nfibers, state, pending, park_sources, op>>
  BY DEF WakePoll, fiberVars
<1>2. /\ poll_blocked' \in [Handles -> Seq(Fiber)]
      /\ Range(poll_blocked'[h]) = {}
      /\ \A g \in Handles \ {h} : poll_blocked'[g] = poll_blocked[g]
  BY <1>1, EmptyRange DEF Core, CoreType
<1>3. /\ ready' \in Seq(Fiber) /\ queued' \in [Fiber -> BOOLEAN]
      /\ Range(ready') = {f \in Fiber : queued'[f]} /\ IsInjective(ready')
      /\ \A f \in Fiber : queued'[f] <=> queued[f] \/ f \in Range(poll_blocked[h])
  BY MakeReadyFacts DEF WakePoll, Core, CoreType, ReadyIsSound
<1>4. CoreType'
  BY <1>1, <1>2, <1>3 DEF Core, CoreType
<1>5. Natives'
  BY <1>1 DEF Core, Natives
<1>6. TimersExact'
  BY <1>1 DEF Core, TimersExact
<1>7. ReadyIsSound'
  <2>1. \A f \in Fiber : f \in Range(poll_blocked[h]) => state[f] = "Suspended" /\ ~ pending[f]
    BY Zenon DEF Core, CoreType, Natives, Shape, ListsMatchWaits, Polled
  <2>2. \A f \in Fiber : queued'[f] => state'[f] \in {"NotStarted", "Suspended"} /\ ~ pending'[f]
    BY <1>1, <1>3, <2>1 DEF Core, CoreType, ReadyIsSound
  <2> QED
    BY <1>3, <2>2 DEF ReadyIsSound
<1>8. ListsMatchWaits'
  <2>1. \A f \in Fiber : f \in Range(poll_blocked[h]) /\ op[f].kind # "select" =>
          /\ f \notin Range(blocked) /\ f \notin Ids(timers)
          /\ \A g \in Handles \ {h} : f \notin Range(poll_blocked[g])
    <3> SUFFICES ASSUME NEW f \in Fiber, f \in Range(poll_blocked[h]), op[f].kind # "select"
                 PROVE  /\ f \notin Range(blocked) /\ f \notin Ids(timers)
                        /\ \A g \in Handles \ {h} : f \notin Range(poll_blocked[g])
      OBVIOUS
    <3>1. ListsMatchWaits!(f) /\ Shape(op[f]) /\ op[f].kind \in Kinds
      BY Zenon DEF Core, CoreType, Natives, ListsMatchWaits, Op
    <3>2. op[f].handles # {} /\ state[f] = "Suspended" /\ op[f].kind # "none"
      BY <3>1, Zenon DEF Core, Natives, Polled
    <3>3. op[f].kind = "socket"
      BY <3>1, <3>2 DEF Shape, Kinds, Reruns, BlockRetryOps
    <3> QED
      BY <3>1, <3>3, Zenon DEF Shape, Blocked, Timed, Polled, BlockRetryOps
  <2>2. \A f \in Fiber : queued[f] => queued'[f]
    BY <1>3, SMTT(30)
  <2>3. \A f \in Fiber : f \in Range(poll_blocked[h]) => ~ pending[f]
    BY Zenon DEF Core, CoreType, Natives, Shape, ListsMatchWaits, Polled
  <2> SUFFICES ASSUME NEW f \in Fiber
               PROVE  ListsMatchWaits!(f)'
    BY Zenon DEF ListsMatchWaits
  <2>4. ListsMatchWaits!(f)
    BY Zenon DEF Core, ListsMatchWaits
  <2>5. CASE f \in Range(poll_blocked[h])
    <3>1. queued'[f] /\ ~ pending'[f] /\ ~ Parked(f)'
      BY <1>1, <1>3, <2>3, <2>5, Zenon DEF Parked
    <3>2. \A g \in Handles : f \in Polled(g)' => g # h /\ f \in Polled(g)
      BY <1>2 DEF Polled
    <3>3. /\ f \in Blocked' <=> f \in Blocked
          /\ f \in Timed' <=> f \in Timed
      BY Zenon DEF Blocked, Timed, Ids
    <3>4. op'[f].kind # "select" =>
            f \notin Blocked' /\ f \notin Timed' /\ \A g \in Handles : f \notin Polled(g)'
      BY <1>1, <2>1, <2>5, <3>2, <3>3 DEF Blocked, Timed, Polled
    <3> QED
      BY <1>1, <2>4, <3>1, <3>2, <3>3, <3>4, Zenon
  <2>6. CASE f \notin Range(poll_blocked[h])
    <3>1. Untouched(f)
      BY <1>1, <1>2, <1>3, <2>6, SMTT(30) DEF Core, CoreType, Untouched
    <3> QED
      BY <3>1, SameWait, Zenon DEF Core
  <2> QED
    BY <2>5, <2>6, Zenon
<1> QED
  BY <1>4, <1>5, <1>6, <1>7, <1>8 DEF Core
(***************************************************************************)
(* A fiber starts a timer: the entry is its only one.                      *)
(***************************************************************************)
LEMMA PushTimer ==
  ASSUME CoreType, TimersExact, ListsMatchWaits, Running, NEW o \in Op, o.deadline \in Time,
         op' = [op EXCEPT ![current] = o],
         timers' = Append(timers, [deadline |-> o.deadline, id |-> current])
  PROVE  /\ timers' \in Seq(TimerEntry) /\ Ids(timers') = Ids(timers) \cup {current}
         /\ TimersExact'
<1> DEFINE e == [deadline |-> o.deadline, id |-> current]
<1>1. current \in Fiber /\ state[current] = "Running"
  BY DEF Running
<1>2. e \in TimerEntry /\ e.id = current /\ e.deadline = o.deadline
  BY <1>1 DEF TimerEntry
<1> HIDE DEF e
<1>3. timers' = Append(timers, e)
  BY DEF e
<1>4. timers' \in Seq(TimerEntry) /\ Ids(timers') = Ids(timers) \cup {current}
  BY <1>2, <1>3, TimerFacts, SMTT(30) DEF CoreType
<1>5. \A i \in DOMAIN timers : timers[i].id \in Fiber /\ timers[i].id # current
  <2>1. Ids(timers) \subseteq Fiber
    BY TimerFacts DEF CoreType
  <2>2. current \notin Ids(timers)
    BY <1>1, Zenon DEF ListsMatchWaits, Timed
  <2> QED
    BY <2>1, <2>2 DEF Ids
<1>6. /\ DOMAIN timers = 1 .. Len(timers) /\ Len(timers) \in Nat
      /\ DOMAIN timers' = 1 .. Len(timers) + 1
      /\ \A i \in 1 .. Len(timers) : timers'[i] = timers[i]
      /\ timers'[Len(timers) + 1] = e
  BY <1>2, <1>3, SMTT(30) DEF CoreType
<1>7. \A i \in DOMAIN timers : op'[timers[i].id] = op[timers[i].id]
  BY <1>1, <1>5 DEF CoreType
<1>8. op'[current] = o
  BY <1>1 DEF CoreType
<1>9. TimersExact'
  BY <1>2, <1>5, <1>6, <1>7, <1>8, SMTT(30) DEF TimersExact
<1> QED
  BY <1>4, <1>9

-----------------------------------------------------------------------------
(* Every way to park a fiber, to wake it and to resume it keeps the lists,  *)
(* the ready queue and the waits in step.                                   *)

(***************************************************************************)
(* time.sleep parks its fiber on a timer alone.                            *)
(***************************************************************************)
LEMMA SleepCore ==
  ASSUME Core, Running, NEW d \in Time, TimeSleep(d)
  PROVE  Core'
<1> DEFINE o == SleepOp(d)
<1>1. o \in Op /\ o.kind = "sleep" /\ o.handles = {} /\ o.deadline = d /\ d # NoDeadline
  BY OpFacts, BoundsAssumption DEF Time, NoDeadline
<1>2. /\ op' = [op EXCEPT ![current] = o]
      /\ state' = [state EXCEPT ![current] = "Suspended"]
      /\ timers' = Append(timers, [deadline |-> o.deadline, id |-> current])
      /\ UNCHANGED <<nfibers, pending, park_sources, queued, ready, blocked, poll_blocked>>
  BY <1>1, Zenon DEF TimeSleep, Suspends, readyVars
<1> HIDE DEF o
<1>3. current \in Fiber /\ state[current] = "Running"
  BY DEF Running
<1>4. timers' \in Seq(TimerEntry) /\ Ids(timers') = Ids(timers) \cup {current} /\ TimersExact'
  BY <1>1, <1>2, PushTimer, Zenon DEF Core
<1>5. CoreType'
  BY <1>1, <1>2, <1>3, <1>4, Zenon DEF Core, CoreType
<1>6. Natives'
  <2>1. Shape(o)
    BY <1>1 DEF Shape, BlockRetryOps
  <2> QED
    BY <1>1, <1>2, <1>3, <2>1, SuspendNatives, Zenon DEF Core
<1>7. ReadyIsSound'
  BY <1>2, <1>3 DEF Core, CoreType, ReadyIsSound
<1>8. ListsMatchWaits'
  <2> SUFFICES ASSUME NEW f \in Fiber
               PROVE  ListsMatchWaits!(f)'
    BY Zenon DEF ListsMatchWaits
  <2>1. ListsMatchWaits!(current)
    BY <1>3, Zenon DEF Core, ListsMatchWaits
  <2>2. CASE f = current
    BY <1>1, <1>2, <1>3, <1>4, <2>1, <2>2, Zenon
    DEF Core, CoreType, ReadyIsSound, Blocked, Timed, Polled, Parked, BlockRetryOps
  <2>3. CASE f # current
    <3>1. Untouched(f)
      BY <1>2, <1>3, <1>4, <2>3, Zenon DEF Core, CoreType, Untouched
    <3> QED
      BY <3>1, SameWait, Zenon DEF Core
  <2> QED
    BY <2>2, <2>3, Zenon
<1> QED
  BY <1>4, <1>5, <1>6, <1>7, <1>8 DEF Core

(***************************************************************************)
(* fiber.select parks its fiber on every source at once.                   *)
(***************************************************************************)
SelectParks(o) ==
  /\ op' = [op EXCEPT ![current] = o]
  /\ state' = [state EXCEPT ![current] = "Suspended"]
  /\ blocked' = Append(blocked, current)
  /\ timers' = IF o.deadline = NoDeadline THEN timers
               ELSE Append(timers, [deadline |-> o.deadline, id |-> current])
  /\ poll_blocked' = [h \in Handles |-> IF h \in o.handles
                                        THEN Append(poll_blocked[h], current)
                                        ELSE poll_blocked[h]]
  /\ park_sources' = [park_sources EXCEPT ![current] =
       [listed |-> TRUE, timer |-> o.deadline # NoDeadline, handles |-> o.handles]]
  /\ UNCHANGED <<nfibers, pending, queued, ready>>

LEMMA SelectCore ==
  ASSUME Core, Running, NEW o \in Op, o.kind = "select", SelectParks(o)
  PROVE  Core'
<1> USE DEF SelectParks
<1>1. current \in Fiber /\ state[current] = "Running"
  BY DEF Running
<1>2. o.handles \subseteq Handles /\ o.deadline \in Time \cup {NoDeadline}
  BY DEF Op
<1>3. blocked' \in Seq(Fiber) /\ Range(blocked') = Range(blocked) \cup {current}
  BY <1>1, PushRange DEF Core, CoreType
<1>4. /\ timers' \in Seq(TimerEntry) /\ TimersExact'
      /\ Ids(timers') = IF o.deadline = NoDeadline THEN Ids(timers) ELSE Ids(timers) \cup {current}
  <2>1. CASE o.deadline = NoDeadline
    <3>1. current \notin Ids(timers)
      BY <1>1, Zenon DEF Core, ListsMatchWaits, Timed
    <3> QED
      <4>1. timers' = timers /\ op' = [op EXCEPT ![current] = o] /\ DOMAIN op = Fiber
        BY <2>1, Zenon DEF Suspends, Core, CoreType
      <4>2. \A f \in Fiber \ {current} : op'[f] = op[f]
        BY <4>1, Zenon
      <4>3. TimersExact'
        BY <4>1, <4>2, SameTimers DEF Core
      <4> QED
        BY <2>1, <4>1, <4>3 DEF Core, CoreType
  <2>2. CASE o.deadline # NoDeadline
    BY <1>2, <2>2, PushTimer, Zenon DEF Core
  <2> QED
    BY <2>1, <2>2
<1>5. /\ poll_blocked' \in [Handles -> Seq(Fiber)]
      /\ \A h \in Handles : Range(poll_blocked'[h]) =
           IF h \in o.handles THEN Range(poll_blocked[h]) \cup {current} ELSE Range(poll_blocked[h])
  <2>1. \A h \in Handles : /\ Append(poll_blocked[h], current) \in Seq(Fiber)
                            /\ Range(Append(poll_blocked[h], current))
                                 = Range(poll_blocked[h]) \cup {current}
    <3>1. \A h \in Handles : poll_blocked[h] \in Seq(Fiber)
      BY DEF Core, CoreType
    <3> QED
      BY <1>1, <3>1, PushRange
  <2> QED
    BY <2>1, Zenon DEF Core, CoreType
<1>6. [listed |-> TRUE, timer |-> o.deadline # NoDeadline, handles |-> o.handles] \in ParkSources
  BY <1>2 DEF ParkSources
<1>7. CoreType'
  BY <1>1, <1>3, <1>4, <1>5, <1>6, Zenon DEF Core, CoreType
<1>8. Natives'
  <2>1. Shape(o) /\ o.kind # "none"
    BY DEF Shape, BlockRetryOps
  <2> QED
    BY <1>1, <2>1, SuspendNatives, Zenon DEF Core, Suspends
<1>9. ReadyIsSound'
  BY <1>1, Zenon DEF Core, CoreType, ReadyIsSound
<1>10. ASSUME NEW f \in Fiber, f # current
       PROVE  /\ f \in Range(blocked') <=> f \in Range(blocked)
              /\ f \in Ids(timers') <=> f \in Ids(timers)
              /\ \A h \in Handles : f \in Range(poll_blocked'[h]) <=> f \in Range(poll_blocked[h])
              /\ op'[f] = op[f] /\ state'[f] = state[f] /\ park_sources'[f] = park_sources[f]
  BY <1>1, <1>3, <1>4, <1>5, <1>10, Zenon DEF Core, CoreType
<1>11. /\ current \in Range(blocked')
       /\ current \in Ids(timers') <=> o.deadline # NoDeadline
       /\ \A h \in Handles : current \in Range(poll_blocked'[h]) <=> h \in o.handles
       /\ op'[current] = o /\ state'[current] = "Suspended"
       /\ park_sources'[current] =
            [listed |-> TRUE, timer |-> o.deadline # NoDeadline, handles |-> o.handles]
       /\ ~ pending[current] /\ ~ queued[current]
  <2>1. /\ current \notin Ids(timers) /\ \A h \in Handles : current \notin Range(poll_blocked[h])
        /\ ~ pending[current] /\ ~ queued[current]
    BY <1>1, Zenon DEF Core, ListsMatchWaits, ReadyIsSound, Blocked, Timed, Polled, Parked
  <2>2. /\ op'[current] = o /\ state'[current] = "Suspended"
        /\ park_sources'[current] =
             [listed |-> TRUE, timer |-> o.deadline # NoDeadline, handles |-> o.handles]
    BY <1>1, Zenon DEF Core, CoreType
  <2> QED
    BY <1>3, <1>4, <1>5, <2>1, <2>2, Zenon
<1> HIDE DEF SelectParks
<1>12. queued' = queued /\ pending' = pending
  BY DEF SelectParks
<1>13. ListsMatchWaits'
  <2> SUFFICES ASSUME NEW f \in Fiber
               PROVE  ListsMatchWaits!(f)'
    BY Zenon DEF ListsMatchWaits
  <2>1. CASE f = current
    BY <1>2, <1>11, <1>12, <2>1, Zenon DEF Blocked, Timed, Polled, Parked, BlockRetryOps
  <2>2. CASE f # current
    BY <1>10, <1>12, <2>2, SameWait, Zenon DEF Core, Untouched
  <2> QED
    BY <2>1, <2>2, Zenon
<1> QED
  BY <1>4, <1>7, <1>8, <1>9, <1>13 DEF Core
(***************************************************************************)
(* accept, read or write parks its fiber on one socket.                    *)
(***************************************************************************)
SocketParks(h) ==
  /\ op' = [op EXCEPT ![current] = SocketOp(h)]
  /\ state' = [state EXCEPT ![current] = "Suspended"]
  /\ poll_blocked' = [poll_blocked EXCEPT ![h] = Append(@, current)]
  /\ UNCHANGED <<nfibers, pending, park_sources, queued, ready, blocked, timers>>

LEMMA SocketCore ==
  ASSUME Core, Running, NEW h \in Handles, SocketParks(h)
  PROVE  Core'
<1> DEFINE o == SocketOp(h)
<1>1. o \in Op /\ o.kind = "socket" /\ o.handles = {h} /\ o.deadline = NoDeadline
  BY OpFacts, Zenon
<1>2. /\ op' = [op EXCEPT ![current] = o]
      /\ state' = [state EXCEPT ![current] = "Suspended"]
      /\ UNCHANGED <<nfibers, pending, park_sources, queued, ready, blocked, timers>>
  BY DEF SocketParks
<1> HIDE DEF o
<1>3. current \in Fiber /\ state[current] = "Running"
  BY DEF Running
<1>4. /\ poll_blocked' \in [Handles -> Seq(Fiber)]
      /\ \A g \in Handles : Range(poll_blocked'[g]) =
           IF g = h THEN Range(poll_blocked[g]) \cup {current} ELSE Range(poll_blocked[g])
  <2>1. /\ Append(poll_blocked[h], current) \in Seq(Fiber)
        /\ Range(Append(poll_blocked[h], current)) = Range(poll_blocked[h]) \cup {current}
    BY <1>3, PushRange DEF Core, CoreType
  <2> QED
    BY <2>1, Zenon DEF Core, CoreType, SocketParks
<1>5. CoreType'
  BY <1>1, <1>2, <1>3, <1>4 DEF Core, CoreType
<1>6. Natives'
  <2>1. Shape(o)
    BY <1>1 DEF Shape, BlockRetryOps
  <2> QED
    BY <1>1, <1>2, <1>3, <2>1, SuspendNatives, Zenon DEF Core
<1>7. TimersExact'
  BY <1>2, SameTimers DEF Core, CoreType
<1>8. ReadyIsSound'
  BY <1>2, <1>3 DEF Core, CoreType, ReadyIsSound
<1>9. ListsMatchWaits'
  <2> SUFFICES ASSUME NEW f \in Fiber
               PROVE  ListsMatchWaits!(f)'
    BY Zenon DEF ListsMatchWaits
  <2>1. ListsMatchWaits!(f) /\ op[f].handles \subseteq Handles
    BY Zenon DEF Core, CoreType, Op, ListsMatchWaits
  <2>2. CASE f = current
    BY <1>1, <1>2, <1>3, <1>4, <2>1, <2>2, Zenon
    DEF Core, CoreType, ReadyIsSound, Blocked, Timed, Polled, Parked, BlockRetryOps
  <2>3. CASE f # current
    <3>1. Untouched(f)
      BY <1>2, <1>3, <1>4, <2>3, Zenon DEF Core, CoreType, Untouched
    <3> QED
      BY <3>1, SameWait, Zenon DEF Core
  <2> QED
    BY <2>2, <2>3, Zenon
<1> QED
  BY <1>5, <1>6, <1>7, <1>8, <1>9 DEF Core

(***************************************************************************)
(* A syscall is handed to the pool and its fiber parks without a list.     *)
(***************************************************************************)
LEMMA AwaitCore ==
  ASSUME Core, Running, ParkAwait
  PROVE  Core'
<1> DEFINE o == Plain("await")
<1>1. o \in Op /\ o.kind = "await" /\ o.handles = {} /\ o.deadline = NoDeadline
  BY OpFacts, Zenon DEF Kinds
<1>2. /\ op' = [op EXCEPT ![current] = o]
      /\ state' = [state EXCEPT ![current] = "Suspended"]
      /\ pending' = [pending EXCEPT ![current] = TRUE]
      /\ UNCHANGED <<nfibers, park_sources, queued, ready, blocked, timers, poll_blocked>>
  BY DEF ParkAwait, Suspends, readyVars
<1> HIDE DEF o
<1>3. current \in Fiber /\ state[current] = "Running" /\ ~ queued[current]
  BY DEF Running, Core, ReadyIsSound
<1>4. CoreType'
  BY <1>1, <1>2, <1>3 DEF Core, CoreType
<1>5. Natives'
  <2>1. Shape(o)
    BY <1>1 DEF Shape, BlockRetryOps
  <2> QED
    BY <1>1, <1>2, <1>3, <2>1, SuspendNatives, Zenon DEF Core
<1>6. TimersExact'
  <2>1. current \notin Ids(timers)
    BY <1>3, Zenon DEF Core, ListsMatchWaits, Timed
  <2> QED
    BY <1>2, <1>3, <2>1 DEF Core, CoreType, TimersExact, Ids
<1>7. ReadyIsSound'
  BY <1>2, <1>3 DEF Core, CoreType, ReadyIsSound
<1>8. ListsMatchWaits'
  <2> SUFFICES ASSUME NEW f \in Fiber
               PROVE  ListsMatchWaits!(f)'
    BY Zenon DEF ListsMatchWaits
  <2>1. ListsMatchWaits!(current)
    BY <1>3, Zenon DEF Core, ListsMatchWaits
  <2>2. CASE f = current
    BY <1>1, <1>2, <1>3, <2>1, <2>2, Zenon
    DEF Core, CoreType, ReadyIsSound, Blocked, Timed, Polled, Parked, BlockRetryOps
  <2>3. CASE f # current
    <3>1. Untouched(f)
      BY <1>2, <1>3, <2>3 DEF Core, CoreType, Untouched
    <3> QED
      BY <3>1, SameWait, Zenon DEF Core
  <2> QED
    BY <2>2, <2>3, Zenon
<1> QED
  BY <1>4, <1>5, <1>6, <1>7, <1>8 DEF Core

(***************************************************************************)
(* A fiber that yields is ready at once and on no other list.              *)
(***************************************************************************)
LEMMA YieldCore ==
  ASSUME Core, Running, FiberYield
  PROVE  Core'
<1> DEFINE o == Plain("yield")
<1>1. o \in Op /\ o.kind = "yield" /\ o.handles = {} /\ o.deadline = NoDeadline
  BY OpFacts DEF Kinds
<1>2. /\ op' = [op EXCEPT ![current] = o]
      /\ state' = [state EXCEPT ![current] = "Suspended"]
      /\ UNCHANGED <<nfibers, pending, park_sources, blocked, timers, poll_blocked>>
  BY DEF FiberYield, Suspends, listVars
<1> HIDE DEF o
<1>3. current \in Fiber /\ state[current] = "Running"
  BY DEF Running
<1>4. /\ ready' \in Seq(Fiber) /\ queued' \in [Fiber -> BOOLEAN]
      /\ Range(ready') = {f \in Fiber : queued'[f]} /\ IsInjective(ready')
      /\ \A f \in Fiber : queued'[f] <=> queued[f] \/ f = current
  <2>1. <<current>> \in Seq(Fiber) /\ Range(<<current>>) = {current}
    BY <1>3, SingletonRange
  <2> QED
    BY <2>1, MakeReadyFacts, Zenon DEF FiberYield, Core, CoreType, ReadyIsSound
<1>5. CoreType'
  BY <1>1, <1>2, <1>3, <1>4, Zenon DEF Core, CoreType
<1>6. Natives'
  <2>1. Shape(o)
    BY <1>1 DEF Shape, BlockRetryOps
  <2> QED
    BY <1>1, <1>2, <1>3, <2>1, SuspendNatives, Zenon DEF Core
<1>7. TimersExact'
  <2>1. current \notin Ids(timers)
    BY <1>3, Zenon DEF Core, ListsMatchWaits, Timed
  <2> QED
    BY <1>2, <1>3, <2>1 DEF Core, CoreType, TimersExact, Ids
<1>8. ReadyIsSound'
  BY <1>2, <1>3, <1>4, Zenon DEF Core, CoreType, ReadyIsSound, ListsMatchWaits, Parked
<1>9. ListsMatchWaits'
  <2> SUFFICES ASSUME NEW f \in Fiber
               PROVE  ListsMatchWaits!(f)'
    BY Zenon DEF ListsMatchWaits
  <2>1. ListsMatchWaits!(current)
    BY <1>3, Zenon DEF Core, ListsMatchWaits
  <2>2. CASE f = current
    BY <1>1, <1>2, <1>3, <1>4, <2>1, <2>2, Zenon
    DEF Core, CoreType, ReadyIsSound, Blocked, Timed, Polled, Parked, BlockRetryOps
  <2>3. CASE f # current
    <3>1. Untouched(f)
      BY <1>2, <1>3, <1>4, <2>3, Zenon DEF Core, CoreType, Untouched
    <3> QED
      BY <3>1, SameWait, Zenon DEF Core
  <2> QED
    BY <2>2, <2>3, Zenon
<1> QED
  BY <1>5, <1>6, <1>7, <1>8, <1>9 DEF Core

(***************************************************************************)
(* A spawned fiber is ready and on no list.                                *)
(***************************************************************************)
LEMMA SpawnCore ==
  ASSUME Core, Control, FiberSpawn
  PROVE  Core'
<1>1. /\ state' = [state EXCEPT ![nfibers] = "NotStarted"]
      /\ nfibers < MaxFibers /\ nfibers' = nfibers + 1
      /\ UNCHANGED <<op, pending, park_sources, blocked, timers, poll_blocked>>
  BY DEF FiberSpawn, listVars
<1>2. nfibers \in Fiber /\ state[nfibers] = "Unspawned" /\ nfibers + 1 \in 1 .. MaxFibers
  BY <1>1, BoundsAssumption DEF Core, CoreType, Control, Fiber
<1>3. op[nfibers].kind = "none"
  BY <1>2, OpFacts DEF Core, Natives, NoOp, Kinds
<1>4. /\ ready' \in Seq(Fiber) /\ queued' \in [Fiber -> BOOLEAN]
      /\ Range(ready') = {f \in Fiber : queued'[f]} /\ IsInjective(ready')
      /\ \A f \in Fiber : queued'[f] <=> queued[f] \/ f = nfibers
  <2>1. <<nfibers>> \in Seq(Fiber) /\ Range(<<nfibers>>) = {nfibers}
    BY <1>2, SingletonRange
  <2> QED
    BY <2>1, MakeReadyFacts, Zenon DEF FiberSpawn, Core, CoreType, ReadyIsSound
<1>5. CoreType'
  BY <1>1, <1>2, <1>4, Zenon DEF Core, CoreType
<1>6. Natives'
  BY <1>1, <1>2 DEF Core, CoreType, Natives
<1>7. TimersExact'
  BY <1>1 DEF Core, TimersExact
<1>8. ReadyIsSound'
  BY <1>1, <1>2, <1>3, <1>4, Zenon DEF Core, CoreType, ReadyIsSound, ListsMatchWaits
<1>9. ListsMatchWaits'
  <2> SUFFICES ASSUME NEW f \in Fiber
               PROVE  ListsMatchWaits!(f)'
    BY Zenon DEF ListsMatchWaits
  <2>1. CASE f = nfibers
    <3>1. ListsMatchWaits!(f)
      BY Zenon DEF Core, ListsMatchWaits
    <3>2. f \notin Blocked /\ f \notin Timed /\ \A h \in Handles : f \notin Polled(h)
      BY <1>2, <2>1, <3>1
    <3>3. f \notin Blocked' /\ f \notin Timed' /\ \A h \in Handles : f \notin Polled(h)'
      BY <1>1, <3>2 DEF Blocked, Timed, Polled, Ids
    <3>4. ~ Parked(f)'
      BY <1>1, <1>2, <2>1 DEF Core, CoreType, Parked
    <3>5. ~ pending'[f] /\ op'[f] = op[f] /\ park_sources'[f] = NoSources
      BY <1>1, <1>2, <1>3, <2>1, <3>1, Zenon
    <3> QED
      BY <1>3, <2>1, <3>3, <3>4, <3>5, Zenon
  <2>2. CASE f # nfibers
    <3>1. Untouched(f)
      BY <1>1, <1>2, <1>4, <2>2, Zenon DEF Core, CoreType, Untouched
    <3> QED
      BY <3>1, SameWait, Zenon DEF Core
  <2> QED
    BY <2>1, <2>2, Zenon
<1> QED
  BY <1>5, <1>6, <1>7, <1>8, <1>9 DEF Core

-----------------------------------------------------------------------------
(* Waking and resuming.                                                    *)

(***************************************************************************)
(* deliver wakes the one fiber whose syscall completed.                    *)
(***************************************************************************)
LEMMA DeliverCore ==
  ASSUME Core, NEW f \in Fiber, pending[f], pending' = [pending EXCEPT ![f] = FALSE],
         MakeReady(<<f>>),
         UNCHANGED <<nfibers, state, park_sources, op, blocked, timers, poll_blocked>>
  PROVE  Core'
<1>1. state[f] = "Suspended" /\ op[f].kind = "await"
  BY Zenon DEF Core, ListsMatchWaits, Parked
<1>2. /\ ready' \in Seq(Fiber) /\ queued' \in [Fiber -> BOOLEAN]
      /\ Range(ready') = {g \in Fiber : queued'[g]} /\ IsInjective(ready')
      /\ \A g \in Fiber : queued'[g] <=> queued[g] \/ g = f
  <2>1. <<f>> \in Seq(Fiber) /\ Range(<<f>>) = {f}
    BY SingletonRange
  <2> QED
    BY <2>1, MakeReadyFacts, Zenon DEF Core, CoreType, ReadyIsSound
<1>3. CoreType'
  BY <1>2, Zenon DEF Core, CoreType
<1>4. Natives'
  BY DEF Core, Natives
<1>5. TimersExact'
  BY DEF Core, TimersExact
<1>6. ReadyIsSound'
  BY <1>1, <1>2 DEF Core, CoreType, ReadyIsSound
<1>7. ListsMatchWaits'
  <2> SUFFICES ASSUME NEW g \in Fiber
               PROVE  ListsMatchWaits!(g)'
    BY Zenon DEF ListsMatchWaits
  <2>1. CASE g = f
    <3>1. ListsMatchWaits!(g) /\ Shape(op[g])
      BY Zenon DEF Core, ListsMatchWaits, Natives
    <3>2. op[g].handles = {} /\ op[g].deadline = NoDeadline
      BY <1>1, <2>1, <3>1, Zenon DEF Shape
    <3> QED
      BY <1>1, <1>2, <2>1, <3>1, <3>2, Zenon
      DEF Core, CoreType, Blocked, Timed, Polled, Parked, BlockRetryOps
  <2>2. CASE g # f
    <3>1. Untouched(g)
      BY <1>2, <2>2, Zenon DEF Core, CoreType, Untouched
    <3> QED
      BY <3>1, SameWait, Zenon DEF Core
  <2> QED
    BY <2>1, <2>2, Zenon
<1> QED
  BY <1>3, <1>4, <1>5, <1>6, <1>7 DEF Core

(***************************************************************************)
(* Dropping timers keeps the rest exact, and drops their fibers' entries.  *)
(***************************************************************************)
LEMMA KeepTimers ==
  ASSUME CoreType, TimersExact, NEW K \in SUBSET (DOMAIN timers), timers' = Keep(timers, K),
         \A i \in K : op'[timers[i].id].deadline = op[timers[i].id].deadline
  PROVE  /\ timers' \in Seq(TimerEntry) /\ TimersExact'
         /\ Ids(timers') = {timers[i].id : i \in K}
         /\ Ids(timers') = Ids(timers) \ {timers[i].id : i \in DOMAIN timers \ K}
<1>1. timers \in Seq(TimerEntry)
  BY Zenon DEF CoreType
<1>2. /\ timers' \in Seq(TimerEntry) /\ Range(timers') = {timers[i] : i \in K}
      /\ (\A i, j \in K : timers[i] = timers[j] => i = j) => IsInjective(timers')
  BY <1>1, KeepProperties, Zenon
<1>3. IsInjective(timers')
  BY <1>2, Zenon DEF TimersExact
<1>4. \A k \in DOMAIN timers' : \E i \in K : timers'[k] = timers[i]
  BY <1>2, Zenon DEF Range
<1>5. TimersExact'
  BY <1>3, <1>4 DEF TimersExact, IsInjective
<1>6. Ids(timers') = {timers[i].id : i \in K}
  BY <1>1, TimerFacts
<1>7. {timers[i].id : i \in K} = Ids(timers) \ {timers[i].id : i \in DOMAIN timers \ K}
  BY DEF Ids, TimersExact
<1> QED
  BY <1>2, <1>5, <1>6, <1>7, Zenon

(***************************************************************************)
(* wake_due_timers wakes the fibers of the timers it drops.                *)
(***************************************************************************)
LEMMA DueCore ==
  ASSUME Core, NEW K \in SUBSET (DOMAIN timers),
         timers' = Keep(timers, DOMAIN timers \ K),
         LET due == Keep(timers, K) IN MakeReady([k \in DOMAIN due |-> due[k].id]),
         UNCHANGED <<fiberVars, blocked, poll_blocked>>
  PROVE  Core'
<1> DEFINE due == Keep(timers, K)
           w == [k \in DOMAIN due |-> due[k].id]
           D == {timers[i].id : i \in K}
<1>1. UNCHANGED <<nfibers, state, pending, park_sources, op, blocked, poll_blocked>>
  BY DEF fiberVars
<1>2. timers \in Seq(TimerEntry) /\ D \subseteq Ids(timers) /\ Ids(timers) \subseteq Fiber
  BY TimerFacts, Zenon DEF Core, CoreType, Ids
<1>3. w \in Seq(Fiber) /\ Range(w) = D
  <2>1. due \in Seq(TimerEntry) /\ Ids(due) = D
    BY <1>2, TimerFacts
  <2> HIDE DEF due
  <2>2. DOMAIN due = 1 .. Len(due) /\ Len(due) \in Nat
    BY <2>1
  <2>3. \A k \in DOMAIN due : due[k].id \in Fiber
    BY <1>2, <2>1, Zenon DEF Ids
  <2>4. Range(w) = Ids(due)
    BY DEF Range, Ids
  <2> HIDE DEF D
  <2> QED
    BY <2>1, <2>2, <2>3, <2>4
<1>4. MakeReady(w)
  OBVIOUS
<1>5. DOMAIN timers \ (DOMAIN timers \ K) = K
  OBVIOUS
<1>6. timers' \in Seq(TimerEntry) /\ TimersExact' /\ Ids(timers') = Ids(timers) \ D
  BY <1>1, <1>5, KeepTimers, Zenon DEF Core
<1> HIDE DEF w, D
<1>7. /\ ready' \in Seq(Fiber) /\ queued' \in [Fiber -> BOOLEAN]
      /\ Range(ready') = {f \in Fiber : queued'[f]} /\ IsInjective(ready')
      /\ \A f \in Fiber : queued'[f] <=> queued[f] \/ f \in D
  BY <1>3, <1>4, MakeReadyFacts DEF Core, CoreType, ReadyIsSound
<1>8. CoreType'
  BY <1>1, <1>6, <1>7 DEF Core, CoreType
<1>9. Natives'
  BY <1>1, Zenon DEF Core, Natives
<1>10. \A f \in D : f \in Fiber /\ state[f] = "Suspended" /\ op[f].deadline # NoDeadline /\ ~ pending[f]
  <2>1. \A f \in D : f \in Fiber /\ state[f] = "Suspended" /\ op[f].deadline # NoDeadline
    BY <1>2, Zenon DEF Core, ListsMatchWaits, Timed
  <2> QED
    BY <2>1, Zenon DEF Core, Natives, Shape, ListsMatchWaits
<1>11. ReadyIsSound'
  BY <1>1, <1>7, <1>10 DEF Core, CoreType, ReadyIsSound
<1>12. ListsMatchWaits'
  <2> SUFFICES ASSUME NEW f \in Fiber
               PROVE  ListsMatchWaits!(f)'
    BY Zenon DEF ListsMatchWaits
  <2>1. CASE f \in D
    <3>1. ListsMatchWaits!(f) /\ Shape(op[f]) /\ op[f].kind # "none" /\ op[f] \in Op
      BY <1>10, <2>1, Zenon DEF Core, CoreType, ListsMatchWaits, Natives
    <3>2. op[f].kind \in {"sleep", "select"}
      BY <1>10, <2>1, <3>1, Zenon DEF Shape, Op, Kinds, Reruns, BlockRetryOps
    <3>3. op[f].kind = "sleep" => op[f].handles = {}
      BY <3>1, Zenon DEF Shape
    <3> QED
      BY <1>1, <1>6, <1>7, <1>10, <2>1, <3>1, <3>2, <3>3, Zenon
      DEF Blocked, Timed, Polled, Parked, BlockRetryOps
  <2>2. CASE f \notin D
    <3>1. Untouched(f)
      BY <1>1, <1>6, <1>7, <2>2, Zenon DEF Core, CoreType, Untouched
    <3> QED
      BY <3>1, SameWait, Zenon DEF Core
  <2> QED
    BY <2>1, <2>2, Zenon
<1> QED
  BY <1>6, <1>8, <1>9, <1>11, <1>12 DEF Core

(***************************************************************************)
(* next_ready takes a fiber off the queue and unlist off every list.       *)
(***************************************************************************)
LEMMA NextReadyCore ==
  ASSUME Core, NextReady
  PROVE  Core' /\ Head(ready) \in Fiber /\ state[Head(ready)] \in {"NotStarted", "Suspended"}
<1> DEFINE f == Head(ready)
           s == park_sources[f]
           K == {i \in DOMAIN timers : timers[i].id # f}
<1>1. /\ f \in Fiber /\ f \in Range(ready) /\ Tail(ready) \in Seq(Fiber) /\ IsInjective(Tail(ready))
      /\ Range(Tail(ready)) = Range(ready) \ {f}
  BY PopRange DEF NextReady, Core, CoreType, ReadyIsSound
<1>2. /\ ready' = Tail(ready) /\ queued' = [queued EXCEPT ![f] = FALSE]
      /\ state' = [state EXCEPT ![f] = "Running"]
      /\ op' = [op EXCEPT ![f] = IF @.kind \in Reruns THEN @ ELSE NoOp]
      /\ park_sources' = [park_sources EXCEPT ![f] = NoSources]
      /\ blocked' = IF s.listed THEN Without(blocked, f) ELSE blocked
      /\ timers' = IF s.timer THEN Keep(timers, K) ELSE timers
      /\ poll_blocked' = [h \in Handles |-> IF h \in s.handles
                                            THEN Without(poll_blocked[h], f)
                                            ELSE poll_blocked[h]]
      /\ UNCHANGED <<nfibers, pending>>
  BY DEF NextReady, Unlist
<1> HIDE DEF f
<1>3. queued[f] /\ state[f] \in {"NotStarted", "Suspended"} /\ ~ pending[f]
  BY <1>1 DEF Core, ReadyIsSound
<1>4. /\ op[f].kind = "select" => /\ state[f] = "Suspended"
                                  /\ s.listed /\ (s.timer <=> op[f].deadline # NoDeadline)
                                  /\ s.handles = op[f].handles
      /\ op[f].kind # "select" => ~ s.listed /\ ~ s.timer /\ s.handles = {}
  <2>1. ListsMatchWaits!(f)
    BY <1>1, Zenon DEF Core, ListsMatchWaits
  <2>2. op[f].kind = "select" => state[f] = "Suspended"
    BY <1>1, <1>3, OpFacts, Zenon DEF Core, Natives, NoOp, Kinds
  <2>3. CASE op[f].kind = "select"
    <3>1. s = [listed |-> TRUE, timer |-> op[f].deadline # NoDeadline, handles |-> op[f].handles]
      BY <2>1, <2>2, <2>3, Zenon
    <3> HIDE DEF s
    <3> QED
      BY <2>2, <2>3, <3>1, Zenon
  <2>4. CASE op[f].kind # "select"
    <3>1. s = NoSources
      BY <2>1, <2>4, Zenon
    <3>2. ~ s.listed /\ ~ s.timer /\ s.handles = {}
      BY <3>1 DEF NoSources
    <3> HIDE DEF s
    <3> QED
      BY <2>4, <3>2, Zenon
  <2> HIDE DEF s
  <2> QED
    BY <2>3, <2>4, Zenon
<1> HIDE DEF s
<1>5. /\ op[f].kind # "select" => /\ f \notin Range(blocked) /\ f \notin Ids(timers)
                                  /\ \A h \in Handles : f \notin Range(poll_blocked[h])
      /\ op[f].deadline = NoDeadline => f \notin Ids(timers)
      /\ \A h \in Handles \ op[f].handles : f \notin Range(poll_blocked[h])
  <2>1. ListsMatchWaits!(f)
    BY <1>1, Zenon DEF Core, ListsMatchWaits
  <2> QED
    BY <1>3, <2>1, Zenon DEF Blocked, Timed, Polled
<1>6. blocked' \in Seq(Fiber) /\ Range(blocked') = Range(blocked) \ {f}
  <2>1. Without(blocked, f) \in Seq(Fiber) /\ Range(Without(blocked, f)) = Range(blocked) \ {f}
    BY WithoutProperties DEF Core, CoreType
  <2> QED
    BY <1>2, <1>4, <1>5, <2>1, Zenon DEF Core, CoreType
<1>7. /\ poll_blocked' \in [Handles -> Seq(Fiber)]
      /\ \A h \in Handles : Range(poll_blocked'[h]) = Range(poll_blocked[h]) \ {f}
  <2>1. \A h \in Handles : /\ Without(poll_blocked[h], f) \in Seq(Fiber)
                            /\ Range(Without(poll_blocked[h], f)) = Range(poll_blocked[h]) \ {f}
    BY WithoutProperties DEF Core, CoreType
  <2> QED
    BY <1>2, <1>4, <1>5, <2>1, Zenon DEF Core, CoreType
<1>8. \A g \in Fiber \ {f} : /\ op'[g] = op[g] /\ state'[g] = state[g] /\ queued'[g] = queued[g]
                              /\ park_sources'[g] = park_sources[g] /\ pending'[g] = pending[g]
  BY <1>1, <1>2, Zenon DEF Core, CoreType
<1>9. timers' \in Seq(TimerEntry) /\ TimersExact' /\ Ids(timers') = Ids(timers) \ {f}
  <2>1. Ids(timers) \subseteq Fiber
    BY TimerFacts DEF Core, CoreType
  <2>2. CASE s.timer
    <3>1. timers' = Keep(timers, K) /\ K \in SUBSET (DOMAIN timers)
      BY <1>2, <2>2
    <3>2. \A i \in K : op'[timers[i].id].deadline = op[timers[i].id].deadline
      BY <1>8, <2>1 DEF Ids
    <3>3. {timers[i].id : i \in K} = Ids(timers) \ {f}
      BY DEF Ids
    <3> HIDE DEF K
    <3> QED
      BY <3>1, <3>2, <3>3, KeepTimers DEF Core
  <2>3. CASE ~ s.timer
    <3>1. timers' = timers /\ f \notin Ids(timers)
      BY <1>2, <1>4, <1>5, <2>3
    <3>2. \A i \in DOMAIN timers : op'[timers[i].id] = op[timers[i].id]
      BY <1>8, <2>1, <3>1 DEF Ids
    <3>3. TimersExact'
      BY <3>1, <3>2 DEF Core, TimersExact
    <3> QED
      BY <3>1, <3>3 DEF Core, CoreType
  <2> QED
    BY <2>2, <2>3
<1> HIDE DEF K
<1>10. op'[f] \in Op /\ op'[f].kind \in Reruns \cup {"none"} /\ Shape(op'[f])
  <2>1. NoOp \in Op /\ NoOp.kind = "none" /\ NoOp.handles = {} /\ NoOp.deadline = NoDeadline
    BY OpFacts, Zenon DEF Kinds, NoOp
  <2>2. op[f] \in Op /\ Shape(op[f])
    BY <1>1 DEF Core, CoreType, Natives
  <2>3. Shape(NoOp)
    BY <2>1 DEF Shape
  <2>4. op'[f] = IF op[f].kind \in Reruns THEN op[f] ELSE NoOp
    BY <1>1, <1>2, Zenon DEF Core, CoreType
  <2> QED
    BY <2>1, <2>2, <2>3, <2>4
<1>11. /\ state'[f] = "Running" /\ park_sources'[f] = NoSources /\ queued'[f] = FALSE
       /\ ~ pending'[f]
  BY <1>1, <1>2, <1>3, Zenon DEF Core, CoreType
<1>12. CoreType'
  <2>1. state' \in [Fiber -> {"Unspawned", "NotStarted", "Suspended", "Running", "Done"}]
    BY <1>1, <1>2, Zenon DEF Core, CoreType
  <2>2. park_sources' \in [Fiber -> ParkSources] /\ queued' \in [Fiber -> BOOLEAN]
    BY <1>1, <1>2, Zenon DEF Core, CoreType, NoSources, ParkSources
  <2>3. op' \in [Fiber -> Op]
    BY <1>1, <1>2, <1>10, Zenon DEF Core, CoreType
  <2> QED
    BY <1>1, <1>2, <1>6, <1>7, <1>9, <2>1, <2>2, <2>3, Zenon DEF Core, CoreType
<1>13. Natives'
  BY <1>8, <1>10, <1>11, Zenon DEF Core, CoreType, Natives
<1>14. ReadyIsSound'
  <2>1. Range(ready') = {g \in Fiber : queued'[g]}
    BY <1>1, <1>2, <1>8, <1>11 DEF Core, ReadyIsSound
  <2> QED
    BY <1>1, <1>2, <1>8, <1>11, <2>1 DEF Core, ReadyIsSound
<1>15. ListsMatchWaits'
  <2> SUFFICES ASSUME NEW g \in Fiber
               PROVE  ListsMatchWaits!(g)'
    BY Zenon DEF ListsMatchWaits
  <2>1. CASE g = f
    BY <1>6, <1>7, <1>9, <1>11, <2>1, Zenon DEF Blocked, Timed, Polled, Parked
  <2>2. CASE g # f
    <3>1. Untouched(g)
      BY <1>6, <1>7, <1>8, <1>9, <2>2, Zenon DEF Untouched
    <3> QED
      BY <3>1, SameWait, Zenon DEF Core
  <2> QED
    BY <2>1, <2>2, Zenon
<1> QED
  BY <1>1, <1>3, <1>9, <1>12, <1>13, <1>14, <1>15 DEF Core, f

-----------------------------------------------------------------------------
(* The invariant.                                                          *)

(***************************************************************************)
(* The count of syscalls in flight follows the fibers that wait for one.   *)
(***************************************************************************)
LEMMA CountFacts ==
  ASSUME pending \in [Fiber -> BOOLEAN], NEW f \in Fiber, IoCountExact
  PROVE  /\ ~ pending[f] /\ pending' = [pending EXCEPT ![f] = TRUE] =>
              io_blocked \in Nat /\ Cardinality({g \in Fiber : pending'[g]}) = io_blocked + 1
         /\ pending[f] /\ pending' = [pending EXCEPT ![f] = FALSE] =>
              io_blocked - 1 \in Nat /\ Cardinality({g \in Fiber : pending'[g]}) = io_blocked - 1
<1> DEFINE P == {g \in Fiber : pending[g]}
           Q == {g \in Fiber : pending'[g]}
<1>1. IsFiniteSet(Fiber)
  BY FS_Interval, BoundsAssumption DEF Fiber
<1>2. IsFiniteSet(P) /\ IsFiniteSet(Q)
  BY <1>1, FS_Subset
<1>3. Cardinality(P) \in Nat /\ Cardinality(Q) \in Nat /\ io_blocked = Cardinality(P)
  BY <1>2, FS_CardinalityType DEF IoCountExact
<1>4. ASSUME ~ pending[f], pending' = [pending EXCEPT ![f] = TRUE]
      PROVE  Cardinality(Q) = Cardinality(P) + 1
  <2>1. f \notin P /\ Q = P \cup {f}
    BY <1>4
  <2> HIDE DEF P, Q
  <2> QED
    BY <1>2, <2>1, FS_AddElement
<1>5. ASSUME pending[f], pending' = [pending EXCEPT ![f] = FALSE]
      PROVE  Cardinality(P) = Cardinality(Q) + 1
  <2>1. f \notin Q /\ P = Q \cup {f}
    BY <1>5
  <2> HIDE DEF P, Q
  <2> QED
    BY <1>2, <2>1, FS_AddElement
<1> HIDE DEF P
<1> QED
  BY <1>3, <1>4, <1>5

(***************************************************************************)
(* The invariant holds at the start.                                       *)
(***************************************************************************)
LEMMA InitInv == Init => Inv
<1> SUFFICES ASSUME Init PROVE Inv
  OBVIOUS
<1> USE DEF Init
<1>1. 0 \in Fiber /\ MAIN_FIBER = 0 /\ 0 \in Time /\ 1 \in 1 .. MaxFibers
  BY BoundsAssumption DEF Fiber, MAIN_FIBER, Time
<1>2. NoOp \in Op /\ NoOp.kind = "none" /\ NoOp.handles = {} /\ NoOp.deadline = NoDeadline
  BY OpFacts, Zenon DEF Kinds, NoOp
<1>3. /\ ready \in Seq(Fiber) /\ blocked \in Seq(Fiber) /\ timers \in Seq(TimerEntry)
      /\ completions \in Seq(Fiber) /\ channels \in Seq(Chan) /\ Len(channels) = 0
      /\ Range(ready) = {} /\ Range(blocked) = {} /\ Ids(timers) = {} /\ DOMAIN timers = {}
      /\ IsInjective(ready) /\ IsInjective(completions) /\ Range(completions) = {}
  BY EmptyRange DEF Ids
<1>4. poll_blocked \in [Handles -> Seq(Fiber)] /\ \A h \in Handles : Range(poll_blocked[h]) = {}
  BY EmptyRange
<1>5. CoreType
  <2>1. NoSources \in ParkSources
    BY DEF NoSources, ParkSources
  <2> QED
    BY <1>1, <1>2, <1>3, <1>4, <2>1 DEF CoreType
<1>6. Natives
  BY <1>2 DEF Natives, Shape
<1>7. TimersExact
  BY <1>3 DEF TimersExact
<1>8. ReadyIsSound
  BY <1>3 DEF ReadyIsSound
<1>9. ListsMatchWaits
  BY <1>2, <1>3, <1>4, Zenon DEF ListsMatchWaits, Blocked, Timed, Polled, Parked
<1>10. RestType
  BY <1>1, <1>3, BoundsAssumption DEF RestType
<1>11. Control
  BY <1>1 DEF Control, Fiber
<1>12. Owed
  BY <1>3 DEF Owed
<1>13. IoCountExact
  <2>1. {f \in Fiber : pending[f]} = {}
    OBVIOUS
  <2> QED
    BY <2>1, FS_EmptySet, Zenon DEF IoCountExact
<1> QED
  BY <1>5, <1>6, <1>7, <1>8, <1>9, <1>10, <1>11, <1>12, <1>13 DEF Inv, Core

(***************************************************************************)
(* A step of the running fiber after which it goes on: only its own state, *)
(* the lists, and one channel or socket may have changed.                  *)
(***************************************************************************)
Continues ==
  /\ channels' \in Seq(Chan) /\ Len(channels') =< MaxChans
  /\ sockets' \in [Handles -> {"unused", "open", "closed"}]
  /\ UNCHANGED <<nfibers, state, pending, io_blocked, driveVars, now>>

LEMMA ContinuesInv ==
  ASSUME Inv, Core', Continues
  PROVE  Inv'
<1>1. UNCHANGED <<nfibers, state, pending, io_blocked, phase, current, events, completions, outcome,
                  now>>
  BY DEF Continues, driveVars
<1>2. RestType'
  BY <1>1 DEF Inv, RestType, Continues
<1>3. Control'
  BY <1>1 DEF Inv, Control
<1>4. Owed'
  BY <1>1 DEF Inv, Owed
<1>5. IoCountExact'
  BY <1>1 DEF Inv, IoCountExact
<1> QED
  BY <1>2, <1>3, <1>4, <1>5 DEF Inv

(***************************************************************************)
(* A step in which the running fiber parks.                                *)
(***************************************************************************)
LEMMA SuspendsInv ==
  ASSUME Inv, phase = "run", Core', NEW o, Suspends(o), UNCHANGED <<pending, io_blocked>>
  PROVE  Inv'
<1>1. /\ current \in Fiber /\ state[current] = "Running"
      /\ completions = <<>>
  BY DEF Inv, Control, Owed
<1>2. /\ state' = [state EXCEPT ![current] = "Suspended"]
      /\ phase' = "pick" /\ current' = NoFiber
      /\ UNCHANGED <<nfibers, events, completions, outcome, channels, sockets, now, pending, io_blocked>>
  BY DEF Suspends, resVars
<1>3. RestType'
  BY <1>2 DEF Inv, RestType
<1>4. Control'
  BY <1>1, <1>2 DEF Inv, Core, CoreType, Control, Fiber
<1>5. Owed'
  BY <1>1, <1>2 DEF Inv, Owed
<1>6. IoCountExact'
  BY <1>2 DEF Inv, IoCountExact
<1> QED
  BY <1>3, <1>4, <1>5, <1>6 DEF Inv

(***************************************************************************)
(* A trap ends the run and leaves the scheduler as it is.                  *)
(***************************************************************************)
LEMMA TrapsInv ==
  ASSUME Inv, phase \in {"run", "poll"}, Traps
  PROVE  Inv'
<1>1. /\ phase' = "halt" /\ current' = NoFiber /\ outcome' = "trap"
      /\ UNCHANGED <<fiberVars, readyVars, blocked, timers, poll_blocked>>
      /\ UNCHANGED <<nfibers, state, pending, io_blocked, events, completions, channels, sockets, now>>
  BY DEF Traps, Halts, fiberVars, listVars, resVars
<1>2. Core'
  BY <1>1, QuietCore DEF Inv
<1>3. RestType'
  BY <1>1 DEF Inv, RestType
<1>4. Control'
  BY <1>1 DEF Inv, Control
<1>5. Owed'
  BY <1>1 DEF Inv, Owed
<1>6. IoCountExact'
  BY <1>1 DEF Inv, IoCountExact
<1> QED
  BY <1>2, <1>3, <1>4, <1>5, <1>6 DEF Inv

(***************************************************************************)
(* A step of the driver that only moves it to its next phase, perhaps with *)
(* what a wait has brought.                                                *)
(***************************************************************************)
LEMMA DriverInv ==
  ASSUME Inv, phase \notin {"run", "halt"},
         phase' \in {"pick", "poll", "events", "recv", "deliver", "sleep", "timers"},
         Core', events' \in SUBSET Handles, completions' \in Seq(Fiber), Owed',
         UNCHANGED <<nfibers, state, pending, io_blocked, current, outcome, resVars, now>>
  PROVE  Inv'
<1>1. RestType'
  BY DEF Inv, RestType, resVars
<1>2. Control'
  BY DEF Inv, Control
<1>3. IoCountExact'
  BY DEF Inv, IoCountExact
<1> QED
  BY <1>1, <1>2, <1>3 DEF Inv

(***************************************************************************)
(* What a send, a receive or a close leaves in its channel.                *)
(***************************************************************************)
LEMMA ChannelFacts ==
  ASSUME channels \in Seq(Chan), Len(channels) =< MaxChans, NEW c \in DOMAIN channels
  PROVE  /\ channels[c] \in Chan /\ c \in 1 .. MaxChans
         /\ \A n \in Nat, b \in BOOLEAN : SetChan(c, n, b) \in Seq(Chan) /\ Len(SetChan(c, n, b)) =< MaxChans
<1>1. channels[c] \in Chan /\ c \in 1 .. MaxChans /\ DOMAIN channels = 1 .. Len(channels)
  BY BoundsAssumption
<1>2. \A x \in Chan : [channels EXCEPT ![c] = x] \in Seq(Chan) /\ Len([channels EXCEPT ![c] = x]) =< MaxChans
  BY <1>1
<1>3. \A n \in Nat, b \in BOOLEAN : [len |-> n, capacity |-> channels[c].capacity, closed |-> b] \in Chan
  BY <1>1 DEF Chan
<1> QED
  BY <1>1, <1>2, <1>3 DEF SetChan

(***************************************************************************)
(* Every native keeps the invariant.                                       *)
(***************************************************************************)
LEMMA FiberStepInv ==
  ASSUME Inv, FiberStep
  PROVE  Inv'
<1>1. phase = "run" /\ Running /\ op[current] \in Op
  <2>1. FiberSpawn \/ FiberYield \/ ParkAwait \/ FiberDone \/ FiberTrap => phase = "run"
    BY DEF FiberSpawn, FiberYield, ParkAwait, FiberDone, FiberTrap, Fresh, BetweenNatives, Calls
  <2>2. ASSUME NEW t, FiberJoin(t) \/ TimeSleep(t) \/ FiberSelect(t) PROVE phase = "run"
    BY <2>2 DEF FiberJoin, TimeSleep, FiberSelect, Calls
  <2>3. ASSUME NEW c, ChannelNew(c) \/ ChannelSend(c) \/ ChannelReceive(c) \/ ChannelClose(c)
        PROVE  phase = "run"
    BY <2>3, Zenon DEF ChannelNew, ChannelSend, ChannelReceive, ChannelClose, Fresh, BetweenNatives, Calls
  <2>4. ASSUME NEW h, SocketOpen(h) \/ SocketCall(h) \/ SocketClose(h) PROVE phase = "run"
    BY <2>4, Zenon DEF SocketOpen, SocketCall, SocketClose, Fresh, BetweenNatives, Calls
  <2>5. phase = "run"
    BY <2>1, <2>2, <2>3, <2>4 DEF FiberStep
  <2> QED
    BY <2>5 DEF Inv, Control, Running, Core, CoreType
<1>2. Core /\ Control /\ CoreType /\ RestType
  BY DEF Inv, Core
<1>3. CASE FiberSpawn
  <2>1. Core'
    BY <1>2, <1>3, SpawnCore
  <2>2. /\ nfibers' = nfibers + 1 /\ state' = [state EXCEPT ![nfibers] = "NotStarted"]
        /\ UNCHANGED <<pending, io_blocked, phase, current, events, completions, outcome, channels,
                       sockets, now>>
    BY <1>3 DEF FiberSpawn, listVars, driveVars, resVars
  <2>3. RestType'
    BY <1>2, <2>2 DEF RestType
  <2>4. Control'
    <3>1. nfibers \in Fiber /\ state[nfibers] = "Unspawned"
      BY <1>2, <1>3, BoundsAssumption DEF FiberSpawn, CoreType, Control, Fiber
    <3> QED
      BY <1>1, <1>2, <2>2, <3>1, BoundsAssumption DEF CoreType, Control, Running, Fiber
  <2>5. Owed' /\ IoCountExact'
    BY <2>2 DEF Inv, Owed, IoCountExact
  <2> QED
    BY <2>1, <2>3, <2>4, <2>5 DEF Inv
<1>4. ASSUME NEW t \in Fiber, FiberJoin(t) PROVE Inv'
  <2>1. CASE ParkBlockRetry(JoinOp(t))
    <3>1. Core'
      BY <1>1, <1>2, <2>1, OpFacts, BlockRetryCore, Zenon DEF BlockRetryOps
    <3> QED
      BY <1>1, <2>1, <3>1, SuspendsInv DEF ParkBlockRetry
  <2>2. CASE Returns /\ UNCHANGED <<readyVars, listVars, driveVars, resVars, now>>
    <3>1. Core'
      BY <1>1, <1>2, <2>2, ReturnCore DEF listVars
    <3>2. Continues
      BY <1>2, <2>2 DEF Continues, Returns, RestType, listVars, resVars
    <3> QED
      BY <3>1, <3>2, ContinuesInv
  <2> QED
    BY <1>4, <2>1, <2>2 DEF FiberJoin
<1>5. CASE FiberYield
  <2>1. Core'
    BY <1>1, <1>2, <1>5, YieldCore
  <2> QED
    BY <1>1, <1>5, <2>1, SuspendsInv DEF FiberYield, listVars
<1>6. ASSUME NEW d \in Time, TimeSleep(d) PROVE Inv'
  <2>1. Core'
    BY <1>1, <1>2, <1>6, SleepCore
  <2> QED
    BY <1>1, <1>6, <2>1, SuspendsInv DEF TimeSleep
<1>7. ASSUME NEW o \in Selects, FiberSelect(o) PROVE Inv'
  <2>1. o \in Op /\ o.kind = "select"
    BY InputsAssumption
  <2>2. CASE Returns /\ UNCHANGED <<readyVars, listVars, driveVars, resVars, now>>
    <3>1. Core'
      BY <1>1, <1>2, <2>2, ReturnCore DEF listVars
    <3>2. Continues
      BY <1>2, <2>2 DEF Continues, Returns, RestType, listVars, resVars
    <3> QED
      BY <3>1, <3>2, ContinuesInv
  <2>3. CASE ~ (Returns /\ UNCHANGED <<readyVars, listVars, driveVars, resVars, now>>)
    <3>1. SelectParks(o) /\ Suspends(o) /\ UNCHANGED <<pending, io_blocked>>
      BY <1>7, <2>3, Zenon DEF FiberSelect, SelectParks, Suspends, readyVars
    <3>2. Core'
      BY <1>1, <1>2, <2>1, <3>1, SelectCore
    <3> QED
      BY <1>1, <3>1, <3>2, SuspendsInv
  <2> QED
    BY <2>2, <2>3
<1>8. ASSUME NEW n \in Capacities, ChannelNew(n) PROVE Inv'
  <2>1. Core'
    BY <1>2, <1>8, QuietCore DEF ChannelNew, listVars
  <2>2. channels' \in Seq(Chan) /\ Len(channels') =< MaxChans
    <3> DEFINE ch == [len |-> 0, closed |-> FALSE, capacity |-> IF n < 1 THEN 1 ELSE n]
    <3>1. ch \in Chan
      BY InputsAssumption DEF Chan
    <3>2. channels' = Append(channels, ch) /\ Len(channels) < MaxChans
      BY <1>8 DEF ChannelNew
    <3> HIDE DEF ch
    <3> QED
      BY <1>2, <3>1, <3>2, BoundsAssumption DEF RestType
  <2>3. Continues
    BY <1>2, <1>8, <2>2 DEF Continues, ChannelNew, RestType, fiberVars, listVars
  <2> QED
    BY <2>1, <2>3, ContinuesInv
<1>9. ASSUME NEW c \in DOMAIN channels, ChannelSend(c) \/ ChannelReceive(c) \/ ChannelClose(c) PROVE Inv'
  <2>1. /\ channels[c] \in Chan /\ c \in 1 .. MaxChans
        /\ \A n \in Nat, b \in BOOLEAN : /\ SetChan(c, n, b) \in Seq(Chan)
                                         /\ Len(SetChan(c, n, b)) =< MaxChans
    BY <1>2, ChannelFacts, Zenon DEF RestType
  <2>2. channels[c].len \in Nat /\ channels[c].closed \in BOOLEAN
    BY <2>1 DEF Chan
  <2>3. CASE Traps
    BY <1>1, <2>3, TrapsInv
  <2>4. ASSUME NEW k \in {"send", "receive"}, ParkBlockRetry(ChanOp(k, c)) PROVE Inv'
    <3>1. ChanOp(k, c) \in Op /\ ChanOp(k, c).kind \in BlockRetryOps /\ ChanOp(k, c).handles = {}
          /\ ChanOp(k, c).deadline = NoDeadline
      BY <2>1, ChanOpFacts, Zenon
    <3>2. Core'
      BY <1>1, <1>2, <2>4, <3>1, BlockRetryCore, Zenon
    <3> QED
      BY <1>1, <2>4, <3>2, SuspendsInv DEF ParkBlockRetry
  <2>5. CASE Returns /\ UNCHANGED <<readyVars, listVars, driveVars, resVars, now>>
    <3>1. Core'
      BY <1>1, <1>2, <2>5, ReturnCore DEF listVars
    <3>2. Continues
      BY <1>2, <2>5 DEF Continues, Returns, RestType, listVars, resVars
    <3> QED
      BY <3>1, <3>2, ContinuesInv
  <2>6. ASSUME NEW n \in Nat, NEW b \in BOOLEAN, channels' = SetChan(c, n, b), WakeAll,
               op' = [op EXCEPT ![current] = NoOp], UNCHANGED <<nfibers, state, pending, park_sources>>,
               UNCHANGED <<timers, io_blocked, poll_blocked, driveVars, sockets, now>>
        PROVE  Inv'
    <3>1. Core'
      BY <1>1, <1>2, <2>6, WakeAllCore
    <3>2. channels' \in Seq(Chan) /\ Len(channels') =< MaxChans
      BY <2>1, <2>6
    <3>3. Continues
      BY <1>2, <2>6, <3>2 DEF Continues, RestType
    <3> QED
      BY <3>1, <3>3, ContinuesInv
  <2>7. CASE ChannelSend(c)
    <3>1. \/ Traps
          \/ channels' = SetChan(c, channels[c].len + 1, FALSE) /\ WakeAll /\ Returns
             /\ UNCHANGED <<timers, io_blocked, poll_blocked, driveVars, sockets, now>>
          \/ ParkBlockRetry(ChanOp("send", c))
      BY <2>7, Zenon DEF ChannelSend
    <3>2. channels[c].len + 1 \in Nat
      BY <2>2
    <3> QED
      BY <2>3, <2>4, <2>6, <3>1, <3>2, Zenon DEF Returns
  <2>8. CASE ChannelReceive(c)
    <3>1. \/ channels[c].len > 0 /\ channels' = SetChan(c, channels[c].len - 1, channels[c].closed)
             /\ WakeAll /\ Returns
             /\ UNCHANGED <<timers, io_blocked, poll_blocked, driveVars, sockets, now>>
          \/ Returns /\ UNCHANGED <<readyVars, listVars, driveVars, resVars, now>>
          \/ ParkBlockRetry(ChanOp("receive", c))
      BY <2>8, Zenon DEF ChannelReceive
    <3>2. channels[c].len > 0 => channels[c].len - 1 \in Nat
      BY <2>2
    <3> QED
      BY <2>2, <2>4, <2>5, <2>6, <3>1, <3>2, Zenon DEF Returns
  <2>9. CASE ChannelClose(c)
    <3>1. op' = [op EXCEPT ![current] = NoOp]
      BY <1>1, <1>2, <2>9 DEF ChannelClose, Fresh, BetweenNatives, fiberVars, CoreType, Running
    <3> QED
      BY <2>2, <2>6, <2>9, <3>1, Zenon DEF ChannelClose, fiberVars
  <2> QED
    BY <1>9, <2>7, <2>8, <2>9
<1>10. CASE ParkAwait
  <2>1. Core'
    BY <1>1, <1>2, <1>10, AwaitCore
  <2>2. current \in Fiber /\ state[current] = "Running" /\ completions = <<>> /\ ~ pending[current]
    <3>1. completions = <<>>
      BY <1>1 DEF Inv, Owed
    <3>2. current \in Fiber /\ state[current] = "Running"
      BY <1>1 DEF Running
    <3>3. ~ pending[current]
      <4>1. ListsMatchWaits!(current)
        BY <1>2, <3>2, Zenon DEF Core, ListsMatchWaits
      <4> QED
        BY <3>2, <4>1, Zenon DEF Parked
    <3> QED
      BY <3>1, <3>2, <3>3, Zenon
  <2>3. /\ state' = [state EXCEPT ![current] = "Suspended"]
        /\ pending' = [pending EXCEPT ![current] = TRUE] /\ io_blocked' = io_blocked + 1
        /\ phase' = "pick" /\ current' = NoFiber
        /\ UNCHANGED <<nfibers, events, completions, outcome, channels, sockets, now>>
    BY <1>10 DEF ParkAwait, Suspends, resVars
  <2>4. io_blocked \in Nat /\ IoCountExact'
    <3>1. io_blocked \in Nat /\ Cardinality({g \in Fiber : pending'[g]}) = io_blocked + 1
      BY <1>2, <2>2, <2>3, CountFacts, Zenon DEF Inv, CoreType
    <3> QED
      BY <2>3, <3>1 DEF IoCountExact
  <2>5. RestType'
    BY <1>2, <2>3, <2>4 DEF RestType
  <2>6. Control'
    BY <1>1, <1>2, <2>2, <2>3 DEF CoreType, Control, Fiber
  <2>7. Owed'
    BY <2>2, <2>3, EmptyRange DEF Inv, Owed
  <2> QED
    BY <2>1, <2>4, <2>5, <2>6, <2>7 DEF Inv
<1>11. ASSUME NEW h \in Handles, SocketOpen(h) PROVE Inv'
  <2>1. Core'
    BY <1>2, <1>11, QuietCore DEF SocketOpen, listVars
  <2>2. Continues
    BY <1>2, <1>11 DEF Continues, SocketOpen, RestType, fiberVars, listVars
  <2> QED
    BY <2>1, <2>2, ContinuesInv
<1>12. ASSUME NEW h \in Handles, SocketCall(h) PROVE Inv'
  <2>1. CASE Returns /\ UNCHANGED <<readyVars, listVars, driveVars, resVars, now>>
    <3>1. Core'
      BY <1>1, <1>2, <2>1, ReturnCore DEF listVars
    <3>2. Continues
      BY <1>2, <2>1 DEF Continues, Returns, RestType, listVars, resVars
    <3> QED
      BY <3>1, <3>2, ContinuesInv
  <2>2. CASE ~ (Returns /\ UNCHANGED <<readyVars, listVars, driveVars, resVars, now>>)
    <3>1. SocketParks(h) /\ Suspends(SocketOp(h)) /\ UNCHANGED <<pending, io_blocked>>
      BY <1>12, <2>2 DEF SocketCall, SocketParks, Suspends, readyVars
    <3>2. Core'
      BY <1>1, <1>2, <3>1, SocketCore
    <3> QED
      BY <1>1, <3>1, <3>2, SuspendsInv
  <2> QED
    BY <2>1, <2>2
<1>13. ASSUME NEW h \in Handles, SocketClose(h) PROVE Inv'
  <2>1. Core'
    BY <1>2, <1>13, WakePollCore DEF SocketClose
  <2>2. Continues
    BY <1>2, <1>13 DEF Continues, SocketClose, RestType, fiberVars
  <2> QED
    BY <2>1, <2>2, ContinuesInv
<1>14. CASE FiberDone
  <2>1. /\ state' = [state EXCEPT ![current] = "Done"] /\ WakeAll /\ op[current] = NoOp
        /\ \/ phase' = "halt" /\ outcome' = "returned"
           \/ phase' = "pick" /\ outcome' = outcome
        /\ current' = NoFiber
        /\ UNCHANGED <<nfibers, pending, park_sources, op, timers, io_blocked, poll_blocked, events,
                       completions, channels, sockets, now>>
    BY <1>14 DEF FiberDone, Halts, BetweenNatives, resVars
  <2>2. op' = [op EXCEPT ![current] = NoOp]
    BY <1>1, <1>2, <2>1 DEF CoreType
  <2>3. Core'
    <3>1. /\ state' \in {state, [state EXCEPT ![current] = "Done"]} /\ WakeAll
          /\ UNCHANGED <<nfibers, pending, park_sources, timers, poll_blocked>>
      BY <2>1
    <3> QED
      BY <1>1, <1>2, <2>2, <3>1, WakeAllCore
  <2>4. RestType'
    BY <1>2, <2>1 DEF RestType
  <2>5. Control'
    BY <1>1, <1>2, <2>1 DEF Control, CoreType, Running, Fiber
  <2>6. Owed' /\ IoCountExact'
    BY <1>1, <2>1 DEF Inv, Owed, IoCountExact
  <2> QED
    BY <2>3, <2>4, <2>5, <2>6 DEF Inv
<1>15. CASE FiberTrap
  BY <1>1, <1>15, TrapsInv DEF FiberTrap
<1> QED
  BY <1>3, <1>4, <1>5, <1>6, <1>7, <1>8, <1>9, <1>10, <1>11, <1>12, <1>13, <1>14, <1>15 DEF FiberStep

(***************************************************************************)
(* Every step of the driver keeps the invariant.                           *)
(***************************************************************************)
LEMMA DriverStepInv ==
  ASSUME Inv, DriverStep
  PROVE  Inv'
<1>1. Core /\ Control /\ CoreType /\ RestType /\ Owed
  BY DEF Inv, Core
<1>2. CASE NextReady
  <2>1. Core' /\ Head(ready) \in Fiber /\ state[Head(ready)] \in {"NotStarted", "Suspended"}
    BY <1>1, <1>2, NextReadyCore
  <2> DEFINE f == Head(ready)
  <2>2. /\ phase = "pick" /\ phase' = "run" /\ current' = f
        /\ state' = [state EXCEPT ![f] = "Running"]
        /\ UNCHANGED <<nfibers, pending, io_blocked, events, completions, outcome, channels, sockets, now>>
    BY <1>2, <2>1 DEF NextReady, resVars
  <2> HIDE DEF f
  <2>3. f \in Fiber /\ state[f] \in {"NotStarted", "Suspended"}
    BY <2>1 DEF f
  <2>4. RestType'
    BY <1>1, <2>2, <2>3 DEF RestType
  <2>5. Control'
    BY <1>1, <2>2, <2>3 DEF CoreType, Control, Fiber
  <2>6. Owed' /\ IoCountExact'
    BY <2>2 DEF Inv, Owed, IoCountExact
  <2> QED
    BY <2>1, <2>4, <2>5, <2>6 DEF Inv
<1>3. CASE BeginPoll \/ BeginRecv \/ BeginSleep
  <2>1. /\ phase = "pick" /\ phase' \in {"poll", "recv", "sleep"}
        /\ UNCHANGED <<fiberVars, readyVars, listVars, current, events, completions, outcome, resVars, now>>
    BY <1>3 DEF BeginPoll, BeginRecv, BeginSleep, Idle
  <2>2. Core'
    BY <1>1, <2>1, QuietCore DEF listVars
  <2>3. Owed'
    BY <1>1, <2>1 DEF Owed, fiberVars
  <2> QED
    BY <1>1, <2>1, <2>2, <2>3, DriverInv DEF RestType, fiberVars, listVars
<1>4. CASE NothingPending
  <2>1. /\ phase = "pick" /\ phase' = "halt" /\ outcome' \in {"deadlock", "unit"}
        /\ UNCHANGED <<fiberVars, readyVars, listVars, current, events, completions, resVars, now>>
    BY <1>4 DEF NothingPending, Idle
  <2>2. Core'
    BY <1>1, <2>1, QuietCore DEF listVars
  <2>3. RestType'
    BY <1>1, <2>1 DEF RestType, listVars, resVars
  <2>4. Control'
    BY <1>1, <2>1 DEF Control, fiberVars
  <2>5. Owed' /\ IoCountExact'
    BY <2>1 DEF Inv, Owed, IoCountExact, fiberVars, listVars
  <2> QED
    BY <2>2, <2>3, <2>4, <2>5 DEF Inv
<1>5. CASE PollReturns
  <2>1. /\ phase = "poll" /\ phase' = "events" /\ events' \in SUBSET Handles
        /\ UNCHANGED <<fiberVars, readyVars, listVars, current, completions, outcome, resVars, now>>
    BY <1>5 DEF PollReturns
  <2>2. Core'
    BY <1>1, <2>1, QuietCore DEF listVars
  <2>3. Owed'
    BY <1>1, <2>1 DEF Owed, fiberVars
  <2> QED
    BY <1>1, <2>1, <2>2, <2>3, DriverInv DEF RestType, fiberVars, listVars
<1>6. CASE PollFails
  BY <1>6, TrapsInv DEF PollFails
<1>7. ASSUME NEW h \in Handles, PollEvent(h) PROVE Inv'
  <2>1. /\ phase = "events" /\ events' = events \ {h} /\ WakePoll(h)
        /\ UNCHANGED <<fiberVars, blocked, timers, io_blocked, phase, current, completions, outcome,
                       resVars, now>>
    BY <1>7 DEF PollEvent
  <2>2. Core'
    BY <1>1, <2>1, WakePollCore
  <2>3. Owed'
    BY <1>1, <2>1, Zenon DEF Owed, fiberVars
  <2> QED
    BY <1>1, <2>1, <2>2, <2>3, DriverInv DEF RestType, fiberVars
<1>8. CASE DrainCompletions \/ AwaitCompletions
  <2>1. /\ phase \in {"events", "recv"} /\ phase' = "deliver" /\ TakeCompletions
        /\ UNCHANGED <<fiberVars, readyVars, listVars, current, events, outcome, resVars, now>>
    BY <1>8 DEF DrainCompletions, AwaitCompletions, BeginDelivery
  <2>2. Core'
    BY <1>1, <2>1, QuietCore DEF listVars
  <2>3. completions' \in Seq(Fiber) /\ IsInjective(completions')
        /\ \A i \in DOMAIN completions' : pending[completions'[i]]
    BY <2>1, BoundsAssumption DEF TakeCompletions
  <2>4. Owed'
    BY <2>1, <2>3 DEF Owed, Range, fiberVars
  <2> QED
    BY <1>1, <2>1, <2>2, <2>3, <2>4, DriverInv, Zenon DEF RestType, fiberVars, listVars
<1>9. CASE DeliverCompletion
  <2> DEFINE f == Head(completions)
  <2>1. /\ phase = "deliver" /\ completions # <<>> /\ completions' = Tail(completions)
        /\ pending' = [pending EXCEPT ![f] = FALSE] /\ MakeReady(<<f>>)
        /\ io_blocked' = io_blocked - 1
        /\ UNCHANGED <<nfibers, state, park_sources, op, blocked, timers, poll_blocked>>
        /\ UNCHANGED <<phase, current, events, outcome, channels, sockets, now>>
    BY <1>9 DEF DeliverCompletion, resVars
  <2>2. /\ f \in Fiber /\ f \in Range(completions)
        /\ completions' \in Seq(Fiber) /\ IsInjective(completions')
        /\ Range(completions') = Range(completions) \ {f}
    BY <1>1, <2>1, PopRange DEF Owed, RestType
  <2> HIDE DEF f
  <2>3. pending[f] /\ \A g \in Range(completions') : g \in Fiber /\ g # f /\ pending[g]
    BY <1>1, <2>2, RangeEmpty DEF Owed, RestType
  <2>4. Core'
    BY <1>1, <2>1, <2>2, <2>3, DeliverCore, Zenon
  <2>5. io_blocked' \in Nat /\ IoCountExact'
    <3>1. /\ io_blocked - 1 \in Nat
          /\ Cardinality({g \in Fiber : pending'[g]}) = io_blocked - 1
      BY <1>1, <2>1, <2>2, <2>3, CountFacts, Zenon DEF Inv, CoreType
    <3> QED
      BY <2>1, <3>1 DEF IoCountExact
  <2>6. RestType'
    BY <1>1, <2>1, <2>2, <2>5 DEF RestType
  <2>7. Control'
    BY <1>1, <2>1 DEF Control
  <2>8. Owed'
    BY <1>1, <2>1, <2>2, <2>3 DEF CoreType, Owed
  <2> QED
    BY <2>4, <2>5, <2>6, <2>7, <2>8 DEF Inv
<1>10. CASE SleepEnds
  <2>1. /\ phase = "sleep" /\ phase' = "timers"
        /\ UNCHANGED <<fiberVars, readyVars, listVars, current, events, completions, outcome, resVars, now>>
    BY <1>10 DEF SleepEnds
  <2>2. Core'
    BY <1>1, <2>1, QuietCore DEF listVars
  <2>3. Owed'
    BY <1>1, <2>1 DEF Owed, fiberVars
  <2> QED
    BY <1>1, <2>1, <2>2, <2>3, DriverInv DEF RestType, fiberVars, listVars
<1>11. CASE WakeDueTimers
  <2>1. /\ phase \in {"timers", "deliver"} /\ phase' = "pick" /\ (phase = "deliver" => completions = <<>>)
        /\ UNCHANGED <<fiberVars, blocked, io_blocked, poll_blocked, current, events, completions,
                       outcome, resVars, now>>
    BY <1>11 DEF WakeDueTimers
  <2>2. Core'
    <3>1. Due \in SUBSET (DOMAIN timers)
      BY DEF Due
    <3> QED
      BY <1>1, <1>11, <3>1, DueCore DEF WakeDueTimers
  <2>3. Owed'
    BY <1>1, <2>1 DEF Owed, fiberVars
  <2> QED
    BY <1>1, <2>1, <2>2, <2>3, DriverInv DEF RestType, fiberVars
<1> QED
  BY <1>2, <1>3, <1>4, <1>5, <1>6, <1>7, <1>8, <1>9, <1>10, <1>11 DEF DriverStep

(***************************************************************************)
(* Every step, also of the clock, keeps the invariant.                     *)
(***************************************************************************)
LEMMA NextInv == Inv /\ [Next]_vars => Inv'
<1> SUFFICES ASSUME Inv, [Next]_vars PROVE Inv'
  OBVIOUS
<1>1. Core /\ CoreType /\ RestType
  BY DEF Inv, Core
<1>2. CASE Tick
  <2>1. Core'
    BY <1>1, <1>2, QuietCore DEF Tick, listVars
  <2>2. /\ now < MaxTime /\ now' = now + 1
        /\ UNCHANGED <<nfibers, state, pending, io_blocked, phase, current, events, completions, outcome,
                       channels, sockets>>
    BY <1>2 DEF Tick, fiberVars, listVars, driveVars, resVars
  <2>3. RestType'
    BY <1>1, <2>2, BoundsAssumption DEF RestType, Time
  <2>4. Control' /\ Owed' /\ IoCountExact'
    BY <2>2 DEF Inv, Control, Owed, IoCountExact
  <2> QED
    BY <2>1, <2>3, <2>4 DEF Inv
<1>3. CASE UNCHANGED vars
  <2>1. Core'
    BY <1>1, <1>3, QuietCore DEF vars, listVars
  <2>2. Continues
    BY <1>1, <1>3 DEF Continues, RestType, vars, fiberVars, listVars, resVars
  <2> QED
    BY <2>1, <2>2, ContinuesInv
<1> QED
  BY <1>2, <1>3, FiberStepInv, DriverStepInv DEF Next, Halted

-----------------------------------------------------------------------------
(* The theorems.                                                           *)

(***************************************************************************)
(* The inductive invariant holds in every reachable state.                 *)
(***************************************************************************)
THEOREM Invariance == Spec => []Inv
  BY InitInv, NextInv, PTL DEF Spec

(***************************************************************************)
(* Every variable keeps its type; in particular deliver never takes the    *)
(* count of syscalls below zero (io_blocked is a usize, mod.rs:460).       *)
(***************************************************************************)
THEOREM TypeCorrect == Spec => []TypeOK
<1>1. Inv => TypeOK
  BY DEF Inv, Core, CoreType, RestType, TypeOK
<1> QED
  BY <1>1, Invariance, PTL

(***************************************************************************)
(* make_ready and next_ready keep the ready queue exact: each fiber once,  *)
(* flagged, and resumable.                                                 *)
(***************************************************************************)
THEOREM ReadyQueueSound == Spec => []ReadyIsSound
<1>1. Inv => ReadyIsSound
  BY DEF Inv, Core
<1> QED
  BY <1>1, Invariance, PTL

(***************************************************************************)
(* park, the wake paths and unlist keep every wait on exactly its lists.   *)
(***************************************************************************)
THEOREM WaitsListed == Spec => []ListsMatchWaits
<1>1. Inv => ListsMatchWaits
  BY DEF Inv, Core
<1> QED
  BY <1>1, Invariance, PTL

(***************************************************************************)
(* park_io and deliver keep the count of syscalls in flight exact.         *)
(***************************************************************************)
THEOREM IoCounted == Spec => []IoCountExact
<1>1. Inv => IoCountExact
  BY DEF Inv
<1> QED
  BY <1>1, Invariance, PTL

-----------------------------------------------------------------------------
(* The second invariant.                                                   *)

\* A wait has the sources its native needs, over channels that exist.
Ground(o) ==
  /\ o.kind = "sleep" => o.deadline # NoDeadline
  /\ o.kind = "socket" => o.handles # {} /\ o.joins = {} /\ o.chans = {}
  /\ o.chans \subseteq DOMAIN channels /\ o.joins \subseteq Fiber
Grounded == \A f \in Fiber : Ground(op[f])

\* A new fiber is in the ready queue, and main ends with the run.
Started ==
  /\ \A f \in Fiber : state[f] = "NotStarted" => queued[f]
  /\ state[MAIN_FIBER] = "Done" => outcome = "returned"

\* The invariant from which the rest of the scheduler's safety follows.
Safe ==
  /\ Grounded /\ Started
  /\ ChannelsBounded /\ NoLostWakeup /\ NoImpossibleArm /\ DeadlockIsReal

(***************************************************************************)
(* The program starts in a fiber.                                          *)
(***************************************************************************)
LEMMA MainIsFiber == MAIN_FIBER \in Fiber
  BY BoundsAssumption DEF MAIN_FIBER, Fiber

\* A step may end the wait of fiber f, but neither begins nor changes it.
StaysParked(f) == Parked(f)' => Parked(f) /\ op'[f] = op[f]

(***************************************************************************)
(* make_ready takes nobody off the ready queue.                            *)
(***************************************************************************)
LEMMA MoreQueued ==
  ASSUME NEW w, MakeReady(w)
  PROVE  \A f \in Fiber : ~ queued'[f] => ~ queued[f] /\ f \notin Range(w)
  BY Zenon DEF MakeReady

(***************************************************************************)
(* When the running fiber parks, the others only leave their waits.        *)
(***************************************************************************)
LEMMA SuspendsOne ==
  ASSUME Inv, Running, NEW o, Suspends(o),
         readyVars' = readyVars \/ \E w : MakeReady(w)
  PROVE  \A f \in Fiber \ {current} : StaysParked(f)
<1>1. \A f \in Fiber : ~ queued'[f] => ~ queued[f]
  BY MoreQueued DEF readyVars
<1>2. \A f \in Fiber \ {current} : state'[f] = state[f] /\ op'[f] = op[f]
  BY DEF Suspends, Inv, Core, CoreType
<1> QED
  BY <1>1, <1>2, Zenon DEF StaysParked, Parked

(***************************************************************************)
(* When the running fiber goes on or finishes, no wait begins.             *)
(***************************************************************************)
LEMMA ContinuesParked ==
  ASSUME Inv, Running, op' = [op EXCEPT ![current] = NoOp] \/ op' = op,
         state' \in {state, [state EXCEPT ![current] = "Done"]},
         readyVars' = readyVars \/ \E w : MakeReady(w)
  PROVE  \A f \in Fiber : StaysParked(f)
<1>1. \A f \in Fiber : ~ queued'[f] => ~ queued[f]
  BY MoreQueued DEF readyVars
<1>2. \A f \in Fiber \ {current} : state'[f] = state[f] /\ op'[f] = op[f]
  BY DEF Inv, Core, CoreType
<1>3. current \in Fiber /\ state'[current] # "Suspended"
  BY DEF Running, Inv, Core, CoreType
<1> QED
  BY <1>1, <1>2, <1>3, Zenon DEF StaysParked, Parked

\* No fiber ends, no channel changes and no socket closes.
Undisturbed ==
  /\ \A t \in Fiber : state'[t] = "Done" => state[t] = "Done"
  /\ \A c \in DOMAIN channels : c \in DOMAIN channels' /\ channels'[c] = channels[c]
  /\ \A h \in Handles : sockets'[h] = "closed" => sockets[h] = "closed"

(***************************************************************************)
(* A parked fiber stays stuck while none of its sources fires.             *)
(***************************************************************************)
LEMMA StillStuck ==
  ASSUME Inv, Grounded, NoLostWakeup, Undisturbed, NEW f \in Fiber, StaysParked(f), Parked(f)'
  PROVE  ~ CanProceed(op[f])'
<1>1. op'[f] = op[f] /\ ~ CanProceed(op[f])
  BY DEF StaysParked, NoLostWakeup
<1>2. /\ op[f].joins \subseteq Fiber /\ op[f].handles \subseteq Handles
      /\ op[f].chans \subseteq DOMAIN channels
  BY DEF Inv, Core, CoreType, Op, Grounded, Ground
<1>3. \A c \in op[f].chans : channels'[c] = channels[c]
  BY <1>2, Zenon DEF Undisturbed
<1>4. ProgressReady(op[f])' => ProgressReady(op[f])
  BY <1>1, <1>2, <1>3, Zenon DEF Undisturbed, ProgressReady, ChanReady
<1> QED
  BY <1>1, <1>3, <1>4, Zenon DEF CanProceed, HasRoom

(***************************************************************************)
(* wake_all leaves no fiber parked that a channel or a fiber could help.   *)
(***************************************************************************)
LEMMA WakeAllStuck ==
  ASSUME Inv, Grounded, NoLostWakeup, WakeAll, sockets' = sockets,
         NEW f \in Fiber, StaysParked(f), Parked(f)'
  PROVE  ~ CanProceed(op[f])'
<1>1. Parked(f) /\ op'[f] = op[f] /\ ~ CanProceed(op[f])
  BY Zenon DEF StaysParked, NoLostWakeup
<1>2. f \notin Blocked
  BY MoreQueued DEF WakeAll, Parked, Blocked
<1>3. op[f].kind \notin BlockRetryOps \cup {"select"}
  BY <1>1, <1>2, Zenon DEF Inv, Core, ListsMatchWaits
<1>4. op[f].kind = "socket" => op[f].joins = {} /\ op[f].chans = {}
  BY Zenon DEF Grounded, Ground
<1>5. op[f].kind = "socket" => ~ ProgressReady(op[f])'
  BY <1>1, <1>4, Zenon DEF CanProceed, ProgressReady
<1> QED
  BY <1>1, <1>3, <1>5, Zenon DEF CanProceed, BlockRetryOps

(***************************************************************************)
(* A fiber whose wait the scheduler cannot end yet parks.                  *)
(***************************************************************************)
LEMMA SuspendsSafe ==
  ASSUME Inv, Safe, phase = "run", NEW o, Suspends(o), Ground(o),
         readyVars' = readyVars \/ \E w : MakeReady(w),
         ~ queued'[current] => ~ CanProceed(o)
  PROVE  Safe'
<1>1. /\ Running /\ outcome = "running" /\ Grounded /\ Started /\ ChannelsBounded /\ NoLostWakeup
      /\ CoreType
  BY DEF Inv, Control, Running, Safe, Core
<1>2. /\ state' = [state EXCEPT ![current] = "Suspended"] /\ op' = [op EXCEPT ![current] = o]
      /\ UNCHANGED <<outcome, channels, sockets>>
  BY DEF Suspends, resVars
<1>3. \A f \in Fiber \ {current} : StaysParked(f)
  BY <1>1, SuspendsOne
<1>4. \A f \in Fiber : /\ op'[f] = IF f = current THEN o ELSE op[f]
                       /\ state'[f] = IF f = current THEN "Suspended" ELSE state[f]
  BY <1>1, <1>2 DEF CoreType
<1>5. Grounded'
  <2>1. \A f \in Fiber : op'[f] = o \/ op'[f] = op[f]
    BY <1>4, Zenon
  <2>2. ASSUME NEW f \in Fiber PROVE Ground(op[f])'
    <3>1. CASE op'[f] = o
      BY <1>2, <3>1, Zenon DEF Ground
    <3>2. CASE op'[f] = op[f]
      BY <1>1, <1>2, <3>2, Zenon DEF Grounded, Ground
    <3> QED
      BY <2>1, <3>1, <3>2, Zenon
  <2> QED
    BY <2>2, Zenon DEF Grounded
<1>6. Started'
  <2>1. \A f \in Fiber : queued[f] => queued'[f]
    BY <1>1, Zenon DEF MakeReady, readyVars
  <2>2. ASSUME NEW f \in Fiber, state'[f] = "NotStarted" PROVE queued'[f]
    <3>1. state[f] = "NotStarted"
      BY <1>4, <2>2
    <3> QED
      BY <1>1, <2>1, <3>1, Zenon DEF Started
  <2>3. ASSUME state'[MAIN_FIBER] = "Done" PROVE outcome' = "returned"
    <3>1. state[MAIN_FIBER] = "Done"
      BY <1>4, <2>3, MainIsFiber
    <3> QED
      BY <1>1, <1>2, <3>1, Zenon DEF Started
  <2> QED
    BY <2>2, <2>3, Zenon DEF Started
<1>7. NoLostWakeup'
  <2>1. Undisturbed
    BY <1>2, <1>4 DEF Undisturbed
  <2>2. ASSUME NEW f \in Fiber, f # current, Parked(f)' PROVE ~ CanProceed(op[f])'
    BY <1>1, <1>3, <2>1, <2>2, StillStuck
  <2>3. ASSUME ~ queued'[current] PROVE ~ CanProceed(o)'
    <3>1. ASSUME NEW t \in o.joins, state'[t] = "Done" PROVE state[t] = "Done"
      <4>1. t \in Fiber
        BY <3>1, Zenon DEF Ground
      <4> QED
        BY <1>4, <3>1, <4>1
    <3> QED
      BY <1>2, <2>3, <3>1, Zenon DEF CanProceed, ProgressReady, ChanReady, HasRoom
  <2>4. ASSUME NEW f \in Fiber, f = current, Parked(f)' PROVE ~ CanProceed(op[f])'
    BY <1>4, <2>3, <2>4, Zenon DEF Parked, CanProceed, ProgressReady
  <2> QED
    BY <2>2, <2>4 DEF NoLostWakeup
<1> QED
  BY <1>1, <1>2, <1>5, <1>6, <1>7, Zenon DEF Safe, ChannelsBounded, NoImpossibleArm, DeadlockIsReal

(***************************************************************************)
(* A step that leaves fibers, waits, channels and sockets alone, and may   *)
(* make fibers ready.                                                      *)
(***************************************************************************)
LEMMA QuietSafe ==
  ASSUME Inv, Safe, phase # "halt", UNCHANGED <<state, op, channels, sockets>>,
         readyVars' = readyVars \/ \E w : MakeReady(w),
         outcome' \in {outcome, "trap"}
  PROVE  Safe'
<1>1. outcome = "running" /\ Grounded /\ Started /\ ChannelsBounded /\ NoLostWakeup
  BY DEF Inv, Control, Safe
<1>2. \A f \in Fiber : (~ queued'[f] => ~ queued[f]) /\ (queued[f] => queued'[f])
  BY Zenon DEF readyVars, MakeReady
<1>3. Grounded' /\ ChannelsBounded'
  BY <1>1, Zenon DEF Grounded, Ground, ChannelsBounded
<1>4. Started'
  BY <1>1, <1>2, Zenon DEF Started
<1>5. NoLostWakeup'
  <2>1. Undisturbed /\ \A f \in Fiber : StaysParked(f)
    BY <1>2 DEF Undisturbed, StaysParked, Parked
  <2> QED
    BY <1>1, <2>1, StillStuck DEF NoLostWakeup
<1> QED
  BY <1>1, <1>3, <1>4, <1>5, Zenon DEF Safe, NoImpossibleArm, DeadlockIsReal

(***************************************************************************)
(* A native returns, having changed nothing that a parked fiber waits for. *)
(***************************************************************************)
LEMMA ContinuesSafe ==
  ASSUME Inv, Safe, phase = "run", op' = op \/ op' = [op EXCEPT ![current] = NoOp],
         UNCHANGED <<state, readyVars, outcome>>, Undisturbed, ChannelsBounded'
  PROVE  Safe'
<1>1. /\ Running /\ outcome = "running" /\ Grounded /\ Started /\ NoLostWakeup
      /\ CoreType
  BY DEF Inv, Control, Running, Safe, Core
<1>2. \A f \in Fiber : op'[f] \in {op[f], NoOp}
  BY <1>1 DEF CoreType
<1>3. Grounded'
  <2>1. Ground(NoOp)'
    BY DEF Ground, NoOp, Plain, Wait
  <2> QED
    BY <1>1, <1>2, <2>1, Zenon DEF Grounded, Ground, Undisturbed
<1>4. Started'
  BY <1>1 DEF Started, readyVars
<1>5. NoLostWakeup'
  <2>1. \A f \in Fiber : StaysParked(f)
    BY <1>1, ContinuesParked
  <2> QED
    BY <1>1, <2>1, StillStuck DEF NoLostWakeup
<1> QED
  BY <1>1, <1>3, <1>4, <1>5, Zenon DEF Safe, NoImpossibleArm, DeadlockIsReal

(***************************************************************************)
(* A step of the running fiber that wakes every blocked fiber: a send, a   *)
(* receive, a close or the end of the fiber.                               *)
(***************************************************************************)
LEMMA WakeAllSafe ==
  ASSUME Inv, Safe, phase = "run", WakeAll, sockets' = sockets,
         op' = op \/ op' = [op EXCEPT ![current] = NoOp],
         \/ state' = state /\ outcome' = outcome
         \/ /\ state' = [state EXCEPT ![current] = "Done"]
            /\ outcome' = IF current = MAIN_FIBER THEN "returned" ELSE outcome,
         DOMAIN channels \subseteq DOMAIN channels', ChannelsBounded'
  PROVE  Safe'
<1>1. /\ Running /\ outcome = "running" /\ Grounded /\ Started /\ NoLostWakeup
      /\ CoreType
  BY Zenon DEF Inv, Control, Running, Safe, Core
<1>2. \A f \in Fiber : op'[f] \in {op[f], NoOp}
  BY <1>1 DEF CoreType
<1>3. Grounded'
  <2>1. Ground(NoOp)'
    BY Zenon DEF Ground, NoOp, Plain, Wait
  <2> QED
    BY <1>1, <1>2, <2>1, Zenon DEF Grounded, Ground
<1>4. Started'
  <2>1. \A f \in Fiber : queued[f] => queued'[f]
    BY Zenon DEF WakeAll, MakeReady
  <2>2. \A f \in Fiber : state'[f] = state[f] \/ (f = current /\ state'[f] = "Done")
    BY <1>1 DEF CoreType
  <2>3. state[MAIN_FIBER] # "Done"
    BY <1>1 DEF Started
  <2> QED
    BY <1>1, <2>1, <2>2, <2>3, MainIsFiber, Zenon DEF Started
<1>5. NoLostWakeup'
  <2>1. \A f \in Fiber : StaysParked(f)
    BY <1>1, ContinuesParked, Zenon DEF WakeAll
  <2> QED
    BY <1>1, <2>1, WakeAllStuck, Zenon DEF NoLostWakeup
<1> QED
  BY <1>1, <1>3, <1>4, <1>5, Zenon DEF Safe, NoImpossibleArm, DeadlockIsReal

(***************************************************************************)
(* Closing a socket wakes every fiber that waits for it.                   *)
(***************************************************************************)
LEMMA CloseSafe ==
  ASSUME Inv, Safe, NEW h \in Handles, SocketClose(h)
  PROVE  Safe'
<1>1. /\ phase = "run" /\ WakePoll(h) /\ sockets' = [sockets EXCEPT ![h] = "closed"]
      /\ UNCHANGED <<state, op, channels, outcome>>
  BY DEF SocketClose, Fresh, BetweenNatives, fiberVars, driveVars
<1>2. /\ outcome = "running" /\ Grounded /\ Started /\ NoLostWakeup /\ ListsMatchWaits
      /\ CoreType /\ RestType /\ ChannelsBounded
  BY <1>1 DEF Inv, Control, Safe, Core
<1>3. Grounded' /\ ChannelsBounded'
  BY <1>1, <1>2, Zenon DEF Grounded, Ground, ChannelsBounded
<1>4. Started'
  BY <1>1, <1>2, Zenon DEF Started, WakePoll, MakeReady
<1>5. ASSUME NEW f \in Fiber, Parked(f)' PROVE ~ CanProceed(op[f])'
  <2>1. Parked(f) /\ f \notin Polled(h)
    BY <1>1, <1>5, MoreQueued, Zenon DEF Parked, WakePoll, Polled
  <2>2. op[f].handles \subseteq Handles \ {h}
    BY <1>2, <2>1, Zenon DEF ListsMatchWaits, CoreType, Op
  <2>3. ~ CanProceed(op[f])
    BY <1>2, <2>1 DEF NoLostWakeup
  <2>4. \A g \in op[f].handles : sockets'[g] = sockets[g]
    BY <1>1, <1>2, <2>2, Zenon DEF RestType
  <2> QED
    BY <1>1, <2>3, <2>4, Zenon DEF CanProceed, ProgressReady, ChanReady, HasRoom
<1> QED
  BY <1>1, <1>2, <1>3, <1>4, <1>5, Zenon DEF Safe, NoLostWakeup, NoImpossibleArm, DeadlockIsReal

(***************************************************************************)
(* A spawned fiber is queued at once.                                      *)
(***************************************************************************)
LEMMA SpawnSafe ==
  ASSUME Inv, Safe, FiberSpawn
  PROVE  Safe'
<1>1. /\ phase = "run" /\ nfibers < MaxFibers /\ state' = [state EXCEPT ![nfibers] = "NotStarted"]
      /\ MakeReady(<<nfibers>>) /\ UNCHANGED <<op, channels, sockets, outcome>>
  BY DEF FiberSpawn, Fresh, BetweenNatives, driveVars, resVars
<1>2. /\ outcome = "running" /\ Grounded /\ Started /\ NoLostWakeup /\ CoreType /\ ChannelsBounded
  BY <1>1 DEF Inv, Control, Safe, Core
<1>3. nfibers \in Fiber /\ nfibers # MAIN_FIBER
  BY <1>1, <1>2, BoundsAssumption DEF CoreType, Fiber, MAIN_FIBER
<1>4. /\ \A f \in Fiber : state'[f] = IF f = nfibers THEN "NotStarted" ELSE state[f]
      /\ \A f \in Fiber : queued'[f] <=> queued[f] \/ f = nfibers
  <2>1. Range(<<nfibers>>) = {nfibers}
    BY <1>3, SingletonRange
  <2> QED
    BY <1>1, <1>2, <1>3, <2>1, Zenon DEF CoreType, MakeReady
<1>5. Grounded' /\ ChannelsBounded'
  BY <1>1, <1>2, Zenon DEF Grounded, Ground, ChannelsBounded
<1>6. Started'
  <2>1. \A f \in Fiber : state'[f] = "NotStarted" => queued'[f]
    BY <1>2, <1>4 DEF Started
  <2>2. state'[MAIN_FIBER] = state[MAIN_FIBER]
    BY <1>3, <1>4, MainIsFiber
  <2> QED
    BY <1>1, <1>2, <2>1, <2>2, Zenon DEF Started
<1>7. NoLostWakeup'
  <2>1. Undisturbed
    <3>1. \A f \in Fiber : state'[f] = "Done" => state[f] = "Done"
      BY <1>4
    <3> QED
      BY <1>1, <3>1, Zenon DEF Undisturbed
  <2>2. \A f \in Fiber : StaysParked(f)
    <3>1. \A f \in Fiber : state'[f] = "Suspended" => state[f] = "Suspended"
      BY <1>4
    <3> QED
      BY <1>1, <1>4, <3>1, Zenon DEF StaysParked, Parked
  <2> QED
    BY <1>2, <2>1, <2>2, StillStuck, Zenon DEF NoLostWakeup
<1> QED
  BY <1>1, <1>2, <1>5, <1>6, <1>7 DEF Safe, NoImpossibleArm, DeadlockIsReal

(***************************************************************************)
(* The driver resumes a fiber that may be resumed.                         *)
(***************************************************************************)
LEMMA NextReadySafe ==
  ASSUME Inv, Safe, NextReady
  PROVE  Safe'
<1> DEFINE f == Head(ready)
<1>1. f \in Fiber /\ state[f] \in {"NotStarted", "Suspended"}
  BY NextReadyCore DEF Inv
<1>2. /\ phase = "pick" /\ state' = [state EXCEPT ![f] = "Running"]
      /\ op' = [op EXCEPT ![f] = IF @.kind \in Reruns THEN @ ELSE NoOp]
      /\ queued' = [queued EXCEPT ![f] = FALSE]
      /\ UNCHANGED <<outcome, channels, sockets>>
  BY <1>1 DEF NextReady, resVars
<1> HIDE DEF f
<1>3. /\ outcome = "running" /\ Grounded /\ Started /\ NoLostWakeup /\ CoreType /\ ChannelsBounded
  BY <1>2 DEF Inv, Control, Safe, Core
<1>4. /\ \A g \in Fiber : state'[g] = IF g = f THEN "Running" ELSE state[g]
      /\ \A g \in Fiber : g # f => op'[g] = op[g] /\ queued'[g] = queued[g]
      /\ op'[f] \in {op[f], NoOp}
  BY <1>1, <1>2, <1>3 DEF CoreType
<1>5. Grounded' /\ ChannelsBounded'
  <2>1. Ground(NoOp)'
    BY DEF Ground, NoOp, Plain, Wait
  <2>2. \A g \in Fiber : op'[g] \in {op[g], NoOp}
    BY <1>4, Zenon
  <2>3. \A g \in Fiber : Ground(op[g])'
    BY <1>2, <1>3, <2>1, <2>2, Zenon DEF Grounded, Ground
  <2> QED
    BY <1>2, <1>3, <2>3, Zenon DEF Grounded, ChannelsBounded
<1>6. Started'
  <2>1. \A g \in Fiber : state'[g] = "NotStarted" => g # f /\ state[g] = "NotStarted"
    BY <1>4
  <2>2. state'[MAIN_FIBER] = "Done" => state[MAIN_FIBER] = "Done"
    BY <1>4, MainIsFiber
  <2> QED
    BY <1>2, <1>3, <1>4, <2>1, <2>2, Zenon DEF Started
<1>7. NoLostWakeup'
  <2>1. Undisturbed
    <3>1. \A g \in Fiber : state'[g] = "Done" => state[g] = "Done"
      BY <1>4
    <3> QED
      BY <1>2, <3>1, Zenon DEF Undisturbed
  <2>2. \A g \in Fiber : StaysParked(g)
    <3>1. \A g \in Fiber : state'[g] = "Suspended" => g # f /\ state[g] = "Suspended"
      BY <1>4
    <3> QED
      BY <1>4, <3>1, Zenon DEF StaysParked, Parked
  <2> QED
    BY <1>3, <2>1, <2>2, StillStuck, Zenon DEF NoLostWakeup
<1> QED
  BY <1>2, <1>3, <1>5, <1>6, <1>7 DEF Safe, NoImpossibleArm, DeadlockIsReal

(***************************************************************************)
(* When the driver finds nothing ready and nothing pending, every fiber    *)
(* that is not done is parked for good, main among them: main cannot have  *)
(* ended, or the run would have.                                           *)
(***************************************************************************)
LEMMA IdleSafe ==
  ASSUME Inv, Safe, NothingPending
  PROVE  Safe'
<1>1. /\ phase = "pick" /\ ready = <<>> /\ ~ PollPending /\ ~ IoPending /\ ~ TimerPending
      /\ outcome' = IF blocked # <<>> THEN "deadlock" ELSE "unit"
      /\ UNCHANGED <<nfibers, state, op, queued, pending, timers, poll_blocked, channels, sockets>>
  BY DEF NothingPending, Idle, fiberVars, readyVars, listVars, resVars
<1>2. /\ Grounded /\ Started /\ NoLostWakeup /\ CoreType /\ ChannelsBounded /\ Control
      /\ ReadyIsSound /\ ListsMatchWaits /\ IoCountExact /\ outcome = "running"
  BY <1>1 DEF Inv, Control, Safe, Core
<1>3. \A f \in Fiber : ~ queued[f]
  <2>1. Range(ready) = {}
    BY <1>1, EmptyRange
  <2> QED
    BY <1>2, <2>1, Zenon DEF ReadyIsSound
<1>4. \A f \in Fiber : ~ pending[f]
  <2> DEFINE P == {f \in Fiber : pending[f]}
  <2>1. IsFiniteSet(P)
    <3>1. IsFiniteSet(Fiber)
      BY FS_Interval, BoundsAssumption DEF Fiber
    <3> QED
      BY <3>1, FS_Subset
  <2>2. Cardinality(P) \in Nat /\ io_blocked = Cardinality(P)
    BY <1>2, <2>1, FS_CardinalityType DEF IoCountExact
  <2>3. Cardinality(P) = 0
    BY <1>1, <2>2 DEF IoPending
  <2>4. P = {}
    BY <2>1, <2>3, FS_EmptySet
  <2> QED
    BY <2>4
<1>5. \A f \in Fiber : f \notin Timed /\ \A h \in Handles : f \notin Polled(h)
  BY <1>1, EmptyRange DEF TimerPending, PollPending, Timed, Ids, Polled
<1>6. \A f \in Fiber : state[f] \in {"Unspawned", "Done"} \/ Parked(f)
  BY <1>1, <1>2, <1>3, Zenon DEF CoreType, Started, Control, Parked
<1>7. state[MAIN_FIBER] # "Done"
  BY <1>2 DEF Started
<1>8. MAIN_FIBER \in Blocked
  <2>1. Parked(MAIN_FIBER)
    BY <1>2, <1>6, <1>7, MainIsFiber DEF Control, CoreType, MAIN_FIBER
  <2>2. ListsMatchWaits!(MAIN_FIBER) /\ Ground(op[MAIN_FIBER]) /\ op[MAIN_FIBER] \in Op
    BY <1>2, MainIsFiber, Zenon DEF ListsMatchWaits, Grounded, CoreType
  <2>3. op[MAIN_FIBER].kind \notin {"sleep", "await", "socket"}
    BY <1>4, <1>5, <2>1, <2>2, MainIsFiber, Zenon DEF Ground, Op
  <2> QED
    BY <2>1, <2>2, <2>3, Zenon DEF Op, Kinds, Reruns
<1>9. outcome' = "deadlock"
  BY <1>1, <1>8, EmptyRange DEF Blocked
<1>10. Grounded' /\ Started' /\ ChannelsBounded' /\ NoLostWakeup'
  BY <1>1, <1>2, <1>7, Zenon
  DEF Grounded, Ground, Started, ChannelsBounded, NoLostWakeup, Parked, CanProceed, ProgressReady,
      ChanReady, HasRoom
<1>11. DeadlockIsReal'
  <2>1. \A f \in Fiber : Parked(f) => Parked(f)' /\ ~ CanProceed(op[f])'
    BY <1>1, <1>10, Zenon DEF NoLostWakeup, Parked
  <2>2. UNCHANGED <<state, pending, Timed>> /\ \A h \in Handles : Polled(h)' = Polled(h)
    BY <1>1 DEF Timed, Ids, Polled
  <2> QED
    BY <1>4, <1>5, <1>6, <1>7, <2>1, <2>2, Zenon DEF DeadlockIsReal
<1> QED
  BY <1>9, <1>10, <1>11 DEF Safe, NoImpossibleArm

(***************************************************************************)
(* Every native keeps the scheduler safe.                                  *)
(***************************************************************************)
LEMMA FiberStepSafe ==
  ASSUME Inv, Safe, FiberStep
  PROVE  Safe'
<1>1. ChannelsBounded /\ CoreType /\ RestType
  BY DEF Inv, Core, Safe
<1>2. ASSUME phase = "run", Returns, UNCHANGED <<readyVars, listVars, driveVars, resVars, now>>
      PROVE  Safe'
  BY <1>1, <1>2, ContinuesSafe, Zenon DEF Returns, driveVars, resVars, Undisturbed, ChannelsBounded
<1>3. ASSUME phase = "run", Traps PROVE Safe'
  BY <1>3, QuietSafe DEF Traps, Halts, fiberVars, resVars
<1>4. ASSUME NEW o, phase = "run", Suspends(o), Ground(o), ~ CanProceed(o), UNCHANGED readyVars
      PROVE  Safe'
  BY <1>4, SuspendsSafe
<1>5. CASE FiberSpawn
  BY <1>5, SpawnSafe
<1>6. ASSUME NEW t \in Fiber, FiberJoin(t) PROVE Safe'
  <2>1. Ground(JoinOp(t)) /\ (state[t] # "Done" => ~ CanProceed(JoinOp(t)))
    BY Zenon DEF Ground, JoinOp, Wait, CanProceed, ProgressReady
  <2> QED
    BY <1>2, <1>4, <1>6, <2>1 DEF FiberJoin, Calls, ParkBlockRetry
<1>7. CASE FiberYield
  <2>1. Ground(Plain("yield")) /\ ~ CanProceed(Plain("yield"))
    BY DEF Ground, Plain, Wait, CanProceed
  <2> QED
    BY <1>7, <2>1, SuspendsSafe, Zenon DEF FiberYield, Calls
<1>8. ASSUME NEW d \in Time, TimeSleep(d) PROVE Safe'
  <2>1. Ground(SleepOp(d)) /\ ~ CanProceed(SleepOp(d))
    <3>1. d # NoDeadline
      BY BoundsAssumption DEF Time, NoDeadline
    <3> QED
      BY <3>1, Zenon DEF Ground, SleepOp, Wait, CanProceed
  <2> QED
    BY <1>4, <1>8, <2>1 DEF TimeSleep, Calls
<1>9. ASSUME NEW o \in Selects, FiberSelect(o) PROVE Safe'
  <2>1. o \in Op /\ o.kind = "select"
    BY InputsAssumption
  <2>2. Ground(o)
    <3>1. o.chans \subseteq 1 .. MaxChans /\ \A c \in o.chans : c =< Len(channels)
      BY <1>9, <2>1, Zenon DEF FiberSelect, Selectable, Op
    <3>2. channels \in Seq(Chan)
      BY <1>1 DEF RestType
    <3>3. o.chans \subseteq DOMAIN channels
      BY <3>1, <3>2
    <3>4. o.joins \subseteq Fiber
      BY <2>1, Zenon DEF Op
    <3>5. o.kind # "sleep" /\ o.kind # "socket"
      BY <2>1, Zenon
    <3> QED
      BY <3>3, <3>4, <3>5, Zenon DEF Ground
  <2>3. ~ SourceReady(o) => ~ CanProceed(o)
    BY <2>1 DEF SourceReady, CanProceed
  <2> QED
    BY <1>2, <1>4, <1>9, <2>2, <2>3, Zenon DEF FiberSelect, Calls
<1>10. ASSUME NEW n \in Capacities, ChannelNew(n) PROVE Safe'
  <2> DEFINE ch == [len |-> 0, closed |-> FALSE, capacity |-> IF n < 1 THEN 1 ELSE n]
  <2>1. /\ phase = "run" /\ channels' = Append(channels, ch)
        /\ UNCHANGED <<op, state, readyVars, outcome, sockets>>
    BY <1>10 DEF ChannelNew, Fresh, BetweenNatives, fiberVars, driveVars
  <2>2. ch.len =< ch.capacity /\ ch \in Chan
    BY InputsAssumption DEF Chan
  <2> HIDE DEF ch
  <2>3. /\ DOMAIN channels' = DOMAIN channels \cup {Len(channels) + 1}
        /\ \A c \in DOMAIN channels : c # Len(channels) + 1 /\ channels'[c] = channels[c]
        /\ channels'[Len(channels) + 1] = ch
    <3>1. channels \in Seq(Chan)
      BY <1>1 DEF RestType
    <3>2. Pushed(Append(channels, ch), channels, ch)
      BY <2>2, <3>1, PushElements, Zenon
    <3> QED
      BY <2>1, <3>2, Zenon DEF Pushed
  <2>4. Undisturbed
    BY <2>1, <2>3, Zenon DEF Undisturbed
  <2>5. ChannelsBounded'
    <3>1. ASSUME NEW c \in DOMAIN channels' PROVE channels'[c].len =< channels'[c].capacity
      <4>1. CASE c \in DOMAIN channels
        BY <1>1, <2>3, <4>1, Zenon DEF ChannelsBounded
      <4>2. CASE c = Len(channels) + 1
        BY <2>2, <2>3, <4>2, Zenon
      <4> QED
        BY <2>3, <3>1, <4>1, <4>2, Zenon
    <3> QED
      BY <3>1, Zenon DEF ChannelsBounded
  <2> QED
    BY <2>1, <2>4, <2>5, ContinuesSafe
<1>11. ASSUME NEW c \in DOMAIN channels, ChannelSend(c) \/ ChannelReceive(c) \/ ChannelClose(c)
       PROVE  Safe'
  <2>1. channels[c] \in Chan /\ channels[c].len \in Nat /\ channels[c].capacity \in Nat
    BY <1>1, ChannelFacts, Zenon DEF RestType, Chan
  <2>2. ASSUME NEW n \in Nat, NEW b, n =< channels[c].capacity, channels' = SetChan(c, n, b),
               WakeAll, phase = "run", op' = op \/ op' = [op EXCEPT ![current] = NoOp],
               UNCHANGED <<state, outcome, sockets>>
        PROVE  Safe'
    <3>1. ChannelsBounded' /\ DOMAIN channels' = DOMAIN channels
      BY <1>1, <2>2 DEF ChannelsBounded, SetChan, RestType
    <3> QED
      BY <2>2, <3>1, WakeAllSafe, Zenon
  <2>3. ASSUME NEW k \in {"send", "receive"} PROVE Ground(ChanOp(k, c))
    BY <2>3 DEF Ground, ChanOp, Wait
  <2>4. CASE ChannelSend(c)
    <3>1. ~ channels[c].closed /\ ~ HasRoom(c) => ~ CanProceed(ChanOp("send", c))
      BY Zenon DEF CanProceed, ChanOp, Wait
    <3>2. HasRoom(c) => channels[c].len + 1 \in Nat /\ channels[c].len + 1 =< channels[c].capacity
      BY <2>1 DEF HasRoom
    <3>3. /\ phase = "run"
          /\ \/ Traps
             \/ /\ HasRoom(c) /\ channels' = SetChan(c, channels[c].len + 1, FALSE) /\ WakeAll /\ Returns
                /\ UNCHANGED <<driveVars, sockets>>
             \/ ~ channels[c].closed /\ ~ HasRoom(c) /\ ParkBlockRetry(ChanOp("send", c))
      BY <2>4, Zenon DEF ChannelSend, Calls
    <3> QED
      BY <1>3, <1>4, <2>2, <2>3, <3>1, <3>2, <3>3, Zenon DEF ParkBlockRetry, Returns, driveVars
  <2>5. CASE ChannelReceive(c)
    <3>1. channels[c].len = 0 /\ ~ channels[c].closed => ~ CanProceed(ChanOp("receive", c))
      <4>1. /\ ChanOp("receive", c).kind = "receive" /\ ChanOp("receive", c).chans = {c}
            /\ ChanOp("receive", c).joins = {} /\ ChanOp("receive", c).handles = {}
        BY DEF ChanOp, Wait
      <4>2. channels[c].len = 0 /\ ~ channels[c].closed => ~ ChanReady(c)
        BY <2>1 DEF ChanReady
      <4> HIDE DEF ChanReady
      <4> QED
        BY <4>1, <4>2, Zenon DEF CanProceed, ProgressReady
    <3>2. channels[c].len > 0 => /\ channels[c].len - 1 \in Nat
                                 /\ channels[c].len - 1 =< channels[c].capacity
      BY <1>1, <2>1 DEF ChannelsBounded
    <3> QED
      BY <1>2, <1>4, <2>2, <2>3, <2>5, <3>1, <3>2, Zenon
      DEF ChannelReceive, Calls, ParkBlockRetry, Returns, driveVars
  <2>6. CASE ChannelClose(c)
    BY <1>1, <2>1, <2>2, <2>6, Zenon
    DEF ChannelsBounded, ChannelClose, Fresh, BetweenNatives, fiberVars, driveVars
  <2> QED
    BY <1>11, <2>4, <2>5, <2>6
<1>12. CASE ParkAwait
  <2>1. Ground(Plain("await")) /\ ~ CanProceed(Plain("await"))
    BY DEF Ground, Plain, Wait, CanProceed
  <2> QED
    BY <1>4, <1>12, <2>1 DEF ParkAwait, Calls
<1>13. ASSUME NEW h \in Handles, SocketOpen(h) PROVE Safe'
  <2>1. Undisturbed /\ ChannelsBounded'
    BY <1>1, <1>13, Zenon DEF Undisturbed, ChannelsBounded, SocketOpen, RestType, fiberVars
  <2> QED
    BY <1>13, <2>1, ContinuesSafe DEF SocketOpen, Fresh, BetweenNatives, fiberVars, driveVars
<1>14. ASSUME NEW h \in Handles, SocketCall(h) PROVE Safe'
  <2>1. Ground(SocketOp(h)) /\ (sockets[h] = "open" => ~ CanProceed(SocketOp(h)))
    BY Zenon DEF Ground, SocketOp, Wait, CanProceed, ProgressReady
  <2> QED
    BY <1>2, <1>4, <1>14, <2>1 DEF SocketCall, Calls
<1>15. ASSUME NEW h \in Handles, SocketClose(h) PROVE Safe'
  BY <1>15, CloseSafe
<1>16. CASE FiberDone
  <2>1. /\ phase = "run" /\ WakeAll /\ state' = [state EXCEPT ![current] = "Done"]
        /\ outcome' = IF current = MAIN_FIBER THEN "returned" ELSE outcome
        /\ UNCHANGED <<op, channels, sockets>>
    BY <1>16 DEF FiberDone, BetweenNatives, Halts, resVars
  <2>2. ChannelsBounded' /\ DOMAIN channels \subseteq DOMAIN channels'
    BY <1>1, <2>1 DEF ChannelsBounded
  <2> QED
    BY <2>1, <2>2, WakeAllSafe
<1>17. CASE FiberTrap
  BY <1>3, <1>17 DEF FiberTrap, Fresh, BetweenNatives
<1> QED
  BY <1>5, <1>6, <1>7, <1>8, <1>9, <1>10, <1>11, <1>12, <1>13, <1>14, <1>15, <1>16, <1>17 DEF FiberStep

(***************************************************************************)
(* Every step keeps the scheduler safe.                                    *)
(***************************************************************************)
LEMMA NextSafe == Inv /\ Safe /\ [Next]_vars => Safe'
<1> SUFFICES ASSUME Inv, Safe, [Next]_vars PROVE Safe'
  OBVIOUS
<1>1. CASE NextReady
  BY <1>1, NextReadySafe
<1>2. CASE NothingPending
  BY <1>2, IdleSafe
<1>3. CASE DriverStep /\ ~ NextReady /\ ~ NothingPending
  <2>1. /\ phase # "halt" /\ UNCHANGED <<state, op, channels, sockets>>
        /\ outcome' \in {outcome, "trap"}
        /\ readyVars' = readyVars \/ \E w : MakeReady(w)
    <3>1. CASE BeginPoll \/ BeginRecv \/ BeginSleep
      BY <3>1 DEF BeginPoll, BeginRecv, BeginSleep, Idle, fiberVars, resVars
    <3>2. CASE PollReturns \/ PollFails \/ SleepEnds
      BY <3>2 DEF PollReturns, PollFails, SleepEnds, Traps, Halts, fiberVars, resVars
    <3>3. CASE DrainCompletions \/ AwaitCompletions
      BY <3>3 DEF DrainCompletions, AwaitCompletions, BeginDelivery, fiberVars, resVars
    <3>4. CASE \E h \in Handles : PollEvent(h)
      BY <3>4 DEF PollEvent, WakePoll, fiberVars, resVars
    <3>5. CASE DeliverCompletion
      BY <3>5 DEF DeliverCompletion, resVars
    <3>6. CASE WakeDueTimers
      BY <3>6 DEF WakeDueTimers, fiberVars, resVars
    <3> QED
      BY <1>3, <3>1, <3>2, <3>3, <3>4, <3>5, <3>6 DEF DriverStep
  <2> QED
    BY <2>1, QuietSafe
<1>4. CASE Tick
  BY <1>4, QuietSafe DEF Tick, fiberVars, driveVars, resVars
<1>5. CASE UNCHANGED vars
  <2>1. UNCHANGED <<state, op, queued, pending, timers, poll_blocked, channels, sockets, outcome>>
    BY <1>5 DEF vars, fiberVars, readyVars, listVars, driveVars, resVars
  <2>2. Grounded' /\ Started' /\ ChannelsBounded' /\ NoImpossibleArm'
    BY <2>1, Zenon DEF Safe, Grounded, Ground, Started, ChannelsBounded, NoImpossibleArm
  <2>3. NoLostWakeup' /\ DeadlockIsReal'
    BY <2>1, Zenon
    DEF Safe, NoLostWakeup, DeadlockIsReal, Parked, Timed, Ids, Polled, CanProceed, ProgressReady,
        ChanReady, HasRoom
  <2> QED
    BY <2>2, <2>3 DEF Safe
<1> QED
  BY <1>1, <1>2, <1>3, <1>4, <1>5, FiberStepSafe DEF Next, Halted

(***************************************************************************)
(* The scheduler is safe at the start.                                     *)
(***************************************************************************)
LEMMA InitSafe == Init => Safe
<1> SUFFICES ASSUME Init PROVE Safe
  OBVIOUS
<1>1. Grounded
  BY Zenon DEF Init, Grounded, Ground, NoOp, Plain, Wait
<1>2. ChannelsBounded /\ Started /\ NoLostWakeup
  BY MainIsFiber DEF Init, ChannelsBounded, Started, NoLostWakeup, Parked
<1> QED
  BY <1>1, <1>2 DEF Init, Safe, NoImpossibleArm, DeadlockIsReal

\* What a wake path may make ready.
Woken(f) ==
  \/ f \in Blocked
  \/ \E h \in Handles : f \in Polled(h)
  \/ pending[f]
  \/ \E i \in Due : f = timers[i].id
  \/ state[f] # "Suspended"

(***************************************************************************)
(* Who a step makes ready: a fiber with an entry in a list it emptied, one *)
(* whose syscall it delivered, or one that does not wait at all.           *)
(***************************************************************************)
LEMMA WakesOnly ==
  ASSUME Inv, [Next]_vars, NEW f \in Fiber, queued'[f]
  PROVE  queued[f] \/ Woken(f)
<1>1. CoreType /\ RestType /\ Control /\ Owed
  BY DEF Inv, Core
<1>2. ASSUME NEW w, MakeReady(w), f \in Range(w) => Woken(f) PROVE queued[f] \/ Woken(f)
  BY <1>2, Zenon DEF MakeReady
<1>3. CASE readyVars' = readyVars
  BY <1>3 DEF readyVars
<1>4. CASE WakeAll
  BY <1>2, <1>4, Zenon DEF WakeAll, Woken, Blocked
<1>5. ASSUME NEW h \in Handles, WakePoll(h) PROVE queued[f] \/ Woken(f)
  BY <1>2, <1>5, Zenon DEF WakePoll, Woken, Polled
<1>6. ASSUME NEW g \in Fiber, MakeReady(<<g>>), pending[g] \/ state[g] # "Suspended"
      PROVE  queued[f] \/ Woken(f)
  <2>1. Range(<<g>>) = {g}
    BY SingletonRange
  <2>2. f \in Range(<<g>>) => Woken(f)
    BY <1>6, <2>1, Zenon DEF Woken
  <2> QED
    BY <1>2, <1>6, <2>2, Zenon
<1>7. CASE FiberSpawn
  <2>1. nfibers \in Fiber
    <3>1. nfibers < MaxFibers
      BY <1>7, Zenon DEF FiberSpawn
    <3>2. nfibers \in 1 .. MaxFibers
      BY <1>1, Zenon DEF CoreType
    <3> QED
      BY <3>1, <3>2, BoundsAssumption DEF Fiber
  <2>2. nfibers >= nfibers
    BY <1>1 DEF CoreType
  <2>3. state[nfibers] = "Unspawned"
    BY <1>1, <2>1, <2>2, Zenon DEF Control
  <2>4. state[nfibers] # "Suspended"
    BY <2>3, Zenon
  <2> QED
    BY <1>6, <1>7, <2>1, <2>4, Zenon DEF FiberSpawn
<1>8. CASE FiberYield
  <2>1. current \in Fiber /\ state[current] # "Suspended"
    BY <1>1, <1>8 DEF FiberYield, Calls, Control
  <2> QED
    BY <1>6, <1>8, <2>1, Zenon DEF FiberYield
<1>9. CASE DeliverCompletion
  <2>1. Head(completions) \in Fiber /\ Head(completions) \in Range(completions)
    BY <1>1, <1>9, PopRange, Zenon DEF DeliverCompletion, RestType, Owed
  <2>2. pending[Head(completions)]
    BY <1>1, <2>1 DEF Owed
  <2> QED
    BY <1>6, <1>9, <2>1, <2>2, Zenon DEF DeliverCompletion
<1>10. CASE WakeDueTimers
  <2> DEFINE due == Keep(timers, Due)
             w == [k \in DOMAIN due |-> due[k].id]
  <2>1. Range(due) = {timers[i] : i \in Due}
    BY <1>1, KeepProperties, Zenon DEF Due, CoreType
  <2>2. \A k \in DOMAIN due : \E i \in Due : due[k] = timers[i]
    BY <2>1 DEF Range
  <2> HIDE DEF due
  <2>3. f \in Range(w) => Woken(f)
    BY <2>2, Zenon DEF Range, Woken
  <2>4. MakeReady(w)
    BY <1>10 DEF WakeDueTimers, due
  <2> HIDE DEF w
  <2> QED
    BY <1>2, <2>3, <2>4, Zenon
<1>11. CASE NextReady
  BY <1>1, <1>11, Zenon DEF NextReady, CoreType
<1>12. CASE FiberStep /\ ~ FiberSpawn /\ ~ FiberYield
  <2>1. ASSUME NEW t \in Fiber, FiberJoin(t) PROVE readyVars' = readyVars
    BY <2>1 DEF FiberJoin, ParkBlockRetry
  <2>2. ASSUME NEW d \in Time, TimeSleep(d) PROVE readyVars' = readyVars
    BY <2>2 DEF TimeSleep
  <2>3. ASSUME NEW o \in Selects, FiberSelect(o) PROVE readyVars' = readyVars
    BY <2>3, Zenon DEF FiberSelect
  <2>4. ASSUME NEW n \in Capacities, ChannelNew(n) PROVE readyVars' = readyVars
    BY <2>4 DEF ChannelNew
  <2>5. ASSUME NEW c \in DOMAIN channels, ChannelSend(c) \/ ChannelReceive(c) \/ ChannelClose(c)
        PROVE  WakeAll \/ readyVars' = readyVars
    BY <2>5, Zenon DEF ChannelSend, ChannelReceive, ChannelClose, ParkBlockRetry, Traps
  <2>6. ASSUME NEW h \in Handles, SocketOpen(h) \/ SocketCall(h) \/ SocketClose(h)
        PROVE  WakePoll(h) \/ readyVars' = readyVars
    BY <2>6, Zenon DEF SocketOpen, SocketCall, SocketClose
  <2>7. ParkAwait \/ FiberTrap => readyVars' = readyVars
    BY DEF ParkAwait, FiberTrap, Traps
  <2>8. FiberDone => WakeAll
    BY DEF FiberDone
  <2> QED
    BY <1>3, <1>4, <1>5, <1>12, <2>1, <2>2, <2>3, <2>4, <2>5, <2>6, <2>7, <2>8, Zenon DEF FiberStep
<1>13. CASE DriverStep /\ ~ NextReady /\ ~ DeliverCompletion /\ ~ WakeDueTimers
  <2>1. BeginPoll \/ BeginRecv \/ BeginSleep \/ NothingPending => readyVars' = readyVars
    BY DEF BeginPoll, BeginRecv, BeginSleep, NothingPending, Idle
  <2>2. PollReturns \/ PollFails \/ SleepEnds => readyVars' = readyVars
    BY DEF PollReturns, PollFails, SleepEnds, Traps
  <2>3. DrainCompletions \/ AwaitCompletions => readyVars' = readyVars
    BY DEF DrainCompletions, AwaitCompletions, BeginDelivery
  <2>4. ASSUME NEW h \in Handles, PollEvent(h) PROVE WakePoll(h)
    BY <2>4 DEF PollEvent
  <2> QED
    BY <1>3, <1>5, <1>13, <2>1, <2>2, <2>3, <2>4, Zenon DEF DriverStep
<1>14. CASE Tick \/ UNCHANGED vars
  BY <1>3, <1>14, Zenon DEF Tick, vars
<1> QED
  BY <1>7, <1>8, <1>9, <1>10, <1>11, <1>12, <1>13, <1>14, Zenon DEF Next, Halted

(***************************************************************************)
(* A sleep has no list but the timers', and its timer has its deadline.    *)
(***************************************************************************)
LEMMA SleepStep ==
  ASSUME Inv, [Next]_vars, NEW f \in Fiber, op[f].kind = "sleep", Parked(f), queued'[f]
  PROVE  op[f].deadline =< now
<1>1. ListsMatchWaits!(f) /\ Shape(op[f])
  BY Zenon DEF Inv, Core, ListsMatchWaits, Natives
<1>2. Woken(f)
  BY WakesOnly, Zenon DEF Parked
<1>3. op[f].handles = {}
  BY <1>1, Zenon DEF Shape
<1>4. PICK i \in Due : f = timers[i].id
  BY <1>1, <1>2, <1>3, Zenon DEF Woken, Parked, BlockRetryOps
<1> QED
  BY <1>4, Zenon DEF Due, Inv, Core, TimersExact

-----------------------------------------------------------------------------
(* The theorems on wake-ups, channels and outcomes.                        *)

(***************************************************************************)
(* Both invariants hold in every reachable state.                          *)
(***************************************************************************)
THEOREM Safety == Spec => [](Inv /\ Safe)
  BY InitInv, NextInv, InitSafe, NextSafe, PTL DEF Spec

(***************************************************************************)
(* No wake-up is lost: wake_all after every change a join, send, receive   *)
(* or select can wait for, and wake_poll on a close, reach every fiber     *)
(* that could go on, whatever the program and however many fibers.         *)
(***************************************************************************)
THEOREM NoWakeupLost == Spec => []NoLostWakeup
<1>1. Safe => NoLostWakeup
  BY DEF Safe
<1> QED
  BY <1>1, Safety, PTL

(***************************************************************************)
(* The driver reports a deadlock only when no fiber can ever go on.        *)
(***************************************************************************)
THEOREM DeadlocksAreReal == Spec => []DeadlockIsReal
<1>1. Safe => DeadlockIsReal
  BY DEF Safe
<1> QED
  BY <1>1, Safety, PTL

(***************************************************************************)
(* The driver's two arms for impossible situations (mod.rs:1277, 1331) are *)
(* unreachable.                                                            *)
(***************************************************************************)
THEOREM ImpossibleArmsUnreachable == Spec => []NoImpossibleArm
<1>1. Safe => NoImpossibleArm
  BY DEF Safe
<1> QED
  BY <1>1, Safety, PTL

(***************************************************************************)
(* No interleaving of senders, parked or not, overfills a channel.         *)
(***************************************************************************)
THEOREM ChannelsStayBounded == Spec => []ChannelsBounded
<1>1. Safe => ChannelsBounded
  BY DEF Safe
<1> QED
  BY <1>1, Safety, PTL

(***************************************************************************)
(* Nothing but its own timer, once due, ends a fiber's sleep.              *)
(***************************************************************************)
THEOREM SleepsLast == Spec => SleepsItsSpan
<1>1. Inv /\ [Next]_vars =>
        [\A f \in Fiber : op[f].kind = "sleep" /\ Parked(f) /\ queued'[f] => op[f].deadline =< now]_vars
  BY SleepStep
<1> QED
  BY <1>1, Invariance, PTL DEF Spec, SleepsItsSpan
=============================================================================
