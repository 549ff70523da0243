---------------------------- MODULE OffloadProofs ----------------------------
(***************************************************************************)
(* Where a job of the worker pool is, for any number of fibers and         *)
(* workers, whatever the jobs own.                                         *)
(***************************************************************************)
EXTENDS Offload, TLAPS

(***************************************************************************)
(* Pushing on a list adds one member.                                      *)
(***************************************************************************)
LEMMA PushRange ==
  ASSUME NEW S, NEW s \in Seq(S), NEW e \in S
  PROVE  Append(s, e) \in Seq(S) /\ Range(Append(s, e)) = Range(s) \cup {e}
<1>1. /\ Append(s, e) \in Seq(S)
      /\ DOMAIN s = 1 .. Len(s) /\ Len(s) \in Nat
      /\ DOMAIN Append(s, e) = 1 .. (Len(s) + 1)
      /\ \A i \in 1 .. Len(s) : Append(s, e)[i] = s[i]
      /\ Append(s, e)[Len(s) + 1] = e
  OBVIOUS
<1> QED
  BY <1>1 DEF Range

(***************************************************************************)
(* Taking the head off a list without repetition removes that member.      *)
(***************************************************************************)
LEMMA PopRange ==
  ASSUME NEW S, NEW s \in Seq(S), s # <<>>, IsInjective(s)
  PROVE  /\ Head(s) \in S /\ Head(s) \in Range(s)
         /\ Tail(s) \in Seq(S) /\ IsInjective(Tail(s))
         /\ Range(Tail(s)) = Range(s) \ {Head(s)}
<1>1. /\ Len(s) \in Nat /\ DOMAIN s = 1 .. Len(s) /\ Len(s) # 0
      /\ Head(s) = s[1] /\ Head(s) \in S
      /\ Tail(s) \in Seq(S) /\ DOMAIN Tail(s) = 1 .. (Len(s) - 1)
      /\ \A i \in 1 .. (Len(s) - 1) : Tail(s)[i] = s[i + 1]
  OBVIOUS
<1>2. \A i \in 1 .. (Len(s) - 1) : i + 1 \in DOMAIN s /\ i + 1 # 1
  BY <1>1
<1>3. IsInjective(Tail(s))
  BY <1>1, <1>2 DEF IsInjective
<1>4. ASSUME NEW x \in Range(Tail(s)) PROVE x \in Range(s) /\ x # Head(s)
  <2>1. PICK i \in 1 .. (Len(s) - 1) : x = s[i + 1]
    BY <1>1 DEF Range
  <2>2. 1 \in DOMAIN s /\ i + 1 \in DOMAIN s /\ i + 1 # 1
    BY <1>1
  <2> QED
    BY <1>1, <2>1, <2>2 DEF Range, IsInjective
<1>5. ASSUME NEW x \in Range(s), x # Head(s) PROVE x \in Range(Tail(s))
  <2>1. PICK i \in DOMAIN s : x = s[i]
    BY DEF Range
  <2>2. i # 1
    BY <1>1, <1>5, <2>1
  <2>3. i - 1 \in 1 .. (Len(s) - 1) /\ (i - 1) + 1 = i
    BY <1>1, <2>1, <2>2
  <2>4. Tail(s)[i - 1] = x
    BY <1>1, <2>1, <2>3
  <2> QED
    BY <1>1, <2>3, <2>4 DEF Range
<1>6. Head(s) \in Range(s)
  <2>1. 1 \in DOMAIN s
    BY <1>1
  <2> QED
    BY <1>1, <2>1 DEF Range
<1> QED
  BY <1>1, <1>3, <1>4, <1>5, <1>6

(***************************************************************************)
(* The empty list.                                                         *)
(***************************************************************************)
LEMMA EmptyRange == Range(<<>>) = {} /\ IsInjective(<<>>)
  BY DEF Range, IsInjective

(***************************************************************************)
(* A list without repetition is still one with a new member at its end.    *)
(***************************************************************************)
LEMMA PushInjective ==
  ASSUME NEW S, NEW s \in Seq(S), NEW e \in S, IsInjective(s), e \notin Range(s)
  PROVE  IsInjective(Append(s, e))
<1>1. /\ DOMAIN s = 1 .. Len(s) /\ Len(s) \in Nat
      /\ DOMAIN Append(s, e) = 1 .. (Len(s) + 1)
      /\ \A i \in 1 .. Len(s) : Append(s, e)[i] = s[i]
      /\ Append(s, e)[Len(s) + 1] = e
  OBVIOUS
<1>2. \A i \in DOMAIN s : s[i] # e
  BY Zenon DEF Range
<1> QED
  BY <1>1, <1>2 DEF IsInjective

-----------------------------------------------------------------------------

\* Every job is one of J and is in one place: queued, with a worker, or in the
\* completions.
Placed(J) ==
  /\ job \in [Fibers -> J \cup {Idle}] /\ Idle \notin J
  /\ queue \in Seq(Fibers) /\ IsInjective(queue) /\ Range(queue) \subseteq Busy
  /\ done \in Seq(Fibers) /\ IsInjective(done) /\ Range(done) \subseteq Busy
  /\ Range(queue) \cap Range(done) = {}
  /\ ran \subseteq OnWorker

\* The jobs that have returned, and whose builder has yet to run.
Returned == ran \cup Range(done)

(***************************************************************************)
(* park_syscall queues the job of a fiber that had none.                   *)
(***************************************************************************)
LEMMA ParkPlaced ==
  ASSUME NEW J, Placed(J), NEW f \in Fibers, NEW j \in J, ParkSyscall(f, j)
  PROVE  /\ Placed(J)' /\ Busy' = Busy \cup {f} /\ f \notin Busy
         /\ Returned' = Returned /\ f \notin Returned
         /\ job'[f] = j /\ \A g \in Fibers : g # f => job'[g] = job[g]
<1>1. /\ f \notin Busy /\ job' = [job EXCEPT ![f] = j] /\ queue' = Append(queue, f)
      /\ ran' = ran /\ done' = done
  BY DEF ParkSyscall
<1>2. j # Idle
  BY DEF Placed
<1>3. /\ job' \in [Fibers -> J \cup {Idle}] /\ Busy' = Busy \cup {f}
      /\ job'[f] = j /\ \A g \in Fibers : g # f => job'[g] = job[g]
  BY <1>1, <1>2 DEF Placed, Busy
<1>4. queue' \in Seq(Fibers) /\ Range(queue') = Range(queue) \cup {f}
  BY <1>1, PushRange DEF Placed
<1>5. f \notin Range(queue) /\ f \notin Range(done) /\ f \notin ran
  BY <1>1, Zenon DEF Placed, OnWorker
<1>6. IsInjective(queue')
  BY <1>1, <1>5, PushInjective DEF Placed
<1>7. OnWorker' = OnWorker
  BY <1>1, <1>3, <1>4, Zenon DEF OnWorker
<1>8. Returned' = Returned
  BY <1>1, Zenon DEF Returned
<1>9. Placed(J)'
  BY <1>1, <1>3, <1>4, <1>5, <1>6, <1>7, Zenon DEF Placed
<1> QED
  BY <1>1, <1>3, <1>5, <1>8, <1>9, Zenon DEF Returned

(***************************************************************************)
(* A worker takes the oldest job, if a worker is free.                     *)
(***************************************************************************)
LEMMA TakePlaced ==
  ASSUME NEW J, Placed(J), WorkerTake
  PROVE  Placed(J)' /\ Returned' = Returned /\ Busy' = Busy
<1> DEFINE f == Head(queue)
<1>1. /\ queue # <<>> /\ queue' = Tail(queue) /\ job' = job /\ ran' = ran /\ done' = done
  BY DEF WorkerTake
<1>2. /\ queue' \in Seq(Fibers) /\ IsInjective(queue') /\ f \in Range(queue)
      /\ Range(queue') = Range(queue) \ {f}
  BY <1>1, PopRange DEF Placed
<1> HIDE DEF f
<1>3. Busy' = Busy /\ Returned' = Returned
  BY <1>1, Zenon DEF Busy, Returned
<1>4. f \in Busy /\ f \notin Range(done) /\ f \notin OnWorker
  BY <1>2, Zenon DEF Placed, OnWorker
<1>5. OnWorker' = OnWorker \cup {f}
  BY <1>1, <1>2, <1>3, <1>4, Zenon DEF OnWorker
<1> QED
  BY <1>1, <1>2, <1>3, <1>5, Zenon DEF Placed

(***************************************************************************)
(* A running job returns, with what it has computed.                       *)
(***************************************************************************)
LEMMA FinishPlaced ==
  ASSUME NEW J, Placed(J), NEW f \in Fibers, NEW j \in J, Finish(f, j)
  PROVE  /\ Placed(J)' /\ Busy' = Busy /\ f \in Busy
         /\ Returned' = Returned \cup {f} /\ f \notin Returned
         /\ job'[f] = j /\ \A g \in Fibers : g # f => job'[g] = job[g]
<1>1. /\ f \in Running /\ job' = [job EXCEPT ![f] = j] /\ ran' = ran \cup {f}
      /\ queue' = queue /\ done' = done
  BY DEF Finish
<1>2. f \in Busy /\ f \in OnWorker /\ f \notin Returned
  BY <1>1, Zenon DEF Running, OnWorker, Returned
<1>3. j # Idle
  BY DEF Placed
<1>4. /\ job' \in [Fibers -> J \cup {Idle}] /\ Busy' = Busy
      /\ job'[f] = j /\ \A g \in Fibers : g # f => job'[g] = job[g]
  BY <1>1, <1>2, <1>3 DEF Placed, Busy
<1>5. OnWorker' = OnWorker /\ Returned' = Returned \cup {f}
  BY <1>1, <1>4, Zenon DEF OnWorker, Returned
<1> QED
  BY <1>1, <1>2, <1>4, <1>5, Zenon DEF Placed

(***************************************************************************)
(* A running job goes on.                                                  *)
(***************************************************************************)
LEMMA ProgressPlaced ==
  ASSUME NEW J, Placed(J), NEW f \in Fibers, NEW j \in J, Progress(f, j)
  PROVE  /\ Placed(J)' /\ Busy' = Busy /\ f \in Busy
         /\ Returned' = Returned /\ f \notin Returned
         /\ job'[f] = j /\ \A g \in Fibers : g # f => job'[g] = job[g]
<1>1. /\ f \in Running /\ job' = [job EXCEPT ![f] = j] /\ ran' = ran
      /\ queue' = queue /\ done' = done
  BY DEF Progress
<1>2. f \in Busy /\ f \notin Returned
  BY <1>1, Zenon DEF Running, OnWorker, Returned
<1>3. j # Idle
  BY DEF Placed
<1>4. /\ job' \in [Fibers -> J \cup {Idle}] /\ Busy' = Busy
      /\ job'[f] = j /\ \A g \in Fibers : g # f => job'[g] = job[g]
  BY <1>1, <1>2, <1>3 DEF Placed, Busy
<1>5. OnWorker' = OnWorker /\ Returned' = Returned
  BY <1>1, <1>4, Zenon DEF OnWorker, Returned
<1> QED
  BY <1>1, <1>2, <1>4, <1>5, Zenon DEF Placed

(***************************************************************************)
(* The worker sends the completion of a job that has returned.             *)
(***************************************************************************)
LEMMA SendPlaced ==
  ASSUME NEW J, Placed(J), NEW f \in Fibers, WorkerSend(f)
  PROVE  Placed(J)' /\ Busy' = Busy /\ Returned' = Returned
<1>1. /\ f \in ran /\ ran' = ran \ {f} /\ done' = Append(done, f)
      /\ job' = job /\ queue' = queue
  BY DEF WorkerSend
<1>2. f \in OnWorker /\ f \in Busy /\ f \notin Range(queue) /\ f \notin Range(done)
  BY <1>1, Zenon DEF Placed, OnWorker
<1>3. done' \in Seq(Fibers) /\ Range(done') = Range(done) \cup {f}
  BY <1>1, PushRange DEF Placed
<1>4. IsInjective(done')
  BY <1>1, <1>2, PushInjective DEF Placed
<1>5. Busy' = Busy
  BY <1>1, Zenon DEF Busy
<1>6. OnWorker' = OnWorker \ {f} /\ Returned' = Returned
  BY <1>1, <1>3, <1>5, Zenon DEF OnWorker, Returned
<1> QED
  BY <1>1, <1>2, <1>3, <1>4, <1>5, <1>6, Zenon DEF Placed

(***************************************************************************)
(* The oldest completion is delivered: its fiber has no job any more.      *)
(***************************************************************************)
LEMMA DeliverPlaced ==
  ASSUME NEW J, Placed(J), NEW f \in Fibers, Deliver(f)
  PROVE  /\ Placed(J)' /\ f \in Busy /\ f \in Returned
         /\ Busy' = Busy \ {f} /\ Returned' = Returned \ {f}
         /\ job'[f] = Idle /\ \A g \in Fibers : g # f => job'[g] = job[g]
<1>1. /\ done # <<>> /\ f = Head(done) /\ job' = [job EXCEPT ![f] = Idle]
      /\ done' = Tail(done) /\ queue' = queue /\ ran' = ran
  BY DEF Deliver
<1>2. /\ f \in Range(done) /\ done' \in Seq(Fibers) /\ IsInjective(done')
      /\ Range(done') = Range(done) \ {f}
  BY <1>1, PopRange DEF Placed
<1>3. f \in Busy /\ f \notin Range(queue) /\ f \notin OnWorker /\ f \notin ran
  BY <1>2, Zenon DEF Placed, OnWorker
<1>4. /\ job' \in [Fibers -> J \cup {Idle}] /\ Busy' = Busy \ {f}
      /\ job'[f] = Idle /\ \A g \in Fibers : g # f => job'[g] = job[g]
  BY <1>1 DEF Placed, Busy
<1>5. OnWorker' = OnWorker /\ Returned' = Returned \ {f}
  BY <1>1, <1>2, <1>3, <1>4, Zenon DEF OnWorker, Returned
<1> QED
  BY <1>1, <1>2, <1>3, <1>4, <1>5, Zenon DEF Placed, Returned

(***************************************************************************)
(* At the start no fiber has a job.                                        *)
(***************************************************************************)
LEMMA InitPlaced ==
  ASSUME NEW J, Idle \notin J, OffloadInit
  PROVE  Placed(J) /\ Busy = {}
<1>1. job = [f \in Fibers |-> Idle] /\ queue = <<>> /\ ran = {} /\ done = <<>>
  BY DEF OffloadInit
<1>2. Busy = {} /\ job \in [Fibers -> J \cup {Idle}]
  BY <1>1 DEF Busy
<1>3. Range(<<>>) = {} /\ IsInjective(<<>>) /\ <<>> \in Seq(Fibers)
  BY EmptyRange
<1> QED
  BY <1>1, <1>2, <1>3, Zenon DEF Placed

-----------------------------------------------------------------------------

\* What one step of a program does to the pool.
PoolStep ==
  \/ WorkerTake
  \/ \E f \in Fibers : WorkerSend(f) \/ Deliver(f)
  \/ \E f \in Fibers : \E j : ParkSyscall(f, j) \/ Progress(f, j) \/ Finish(f, j)
  \/ UNCHANGED offloadVars

\* The facts about cardinalities that the number of workers rests on.
Counting ==
  /\ Cardinality({}) = 0
  /\ \A S : IsFiniteSet(S) => Cardinality(S) \in Nat
  /\ \A S, T : IsFiniteSet(S) /\ T \subseteq S =>
       IsFiniteSet(T) /\ Cardinality(T) =< Cardinality(S)
  /\ \A S, x : IsFiniteSet(S) /\ x \notin S => Cardinality(S \cup {x}) = Cardinality(S) + 1

(***************************************************************************)
(* Only a worker that takes a job is one worker more that is not free.     *)
(***************************************************************************)
LEMMA PoolWorkers ==
  ASSUME NEW J, Placed(J), PoolStep
  PROVE  \/ OnWorker' \subseteq OnWorker
         \/ /\ Cardinality(OnWorker) < WORKER_COUNT
            /\ \E f \in Fibers : f \notin OnWorker /\ OnWorker' = OnWorker \cup {f}
<1>1. CASE WorkerTake
  <2>1. /\ queue # <<>> /\ queue' = Tail(queue) /\ job' = job /\ done' = done
        /\ Cardinality(OnWorker) < WORKER_COUNT
    BY <1>1 DEF WorkerTake
  <2>2. PICK f \in Fibers : f \in Range(queue) /\ Range(queue') = Range(queue) \ {f}
    BY <2>1, PopRange DEF Placed
  <2>3. f \notin OnWorker /\ OnWorker' = OnWorker \cup {f}
    BY <2>1, <2>2, Zenon DEF Placed, OnWorker, Busy
  <2> QED
    BY <2>1, <2>3, Zenon
<1>2. ASSUME NEW f \in Fibers, WorkerSend(f) PROVE OnWorker' \subseteq OnWorker
  <2>1. f \in ran /\ done' = Append(done, f) /\ job' = job /\ queue' = queue
    BY <1>2 DEF WorkerSend
  <2>2. Range(done') = Range(done) \cup {f}
    BY <2>1, PushRange DEF Placed
  <2> QED
    BY <2>1, <2>2, Zenon DEF OnWorker, Busy
<1>3. ASSUME NEW f \in Fibers, Deliver(f) PROVE OnWorker' \subseteq OnWorker
  <2>1. /\ f = Head(done) /\ done # <<>> /\ done' = Tail(done) /\ queue' = queue
        /\ job' = [job EXCEPT ![f] = Idle]
    BY <1>3 DEF Deliver
  <2>2. Range(done') = Range(done) \ {f}
    BY <2>1, PopRange DEF Placed
  <2>3. Busy' = Busy \ {f}
    BY <2>1 DEF Placed, Busy
  <2> QED
    BY <2>1, <2>2, <2>3, Zenon DEF OnWorker
<1>4. ASSUME NEW f \in Fibers, NEW j, ParkSyscall(f, j) PROVE OnWorker' \subseteq OnWorker
  <2>1. job' = [job EXCEPT ![f] = j] /\ queue' = Append(queue, f) /\ done' = done
    BY <1>4 DEF ParkSyscall
  <2>2. Range(queue') = Range(queue) \cup {f}
    BY <2>1, PushRange DEF Placed
  <2>3. Busy' \subseteq Busy \cup {f}
    BY <2>1 DEF Placed, Busy
  <2> QED
    BY <2>1, <2>2, <2>3, Zenon DEF OnWorker
<1>5. ASSUME NEW f \in Fibers, NEW j, Progress(f, j) \/ Finish(f, j) PROVE OnWorker' \subseteq OnWorker
  <2>1. f \in Busy /\ job' = [job EXCEPT ![f] = j] /\ queue' = queue /\ done' = done
    BY <1>5, Zenon DEF Progress, Finish, Running, OnWorker
  <2>2. Busy' \subseteq Busy
    BY <2>1 DEF Placed, Busy
  <2> QED
    BY <2>1, <2>2, Zenon DEF OnWorker
<1>6. CASE UNCHANGED offloadVars
  BY <1>6, Zenon DEF offloadVars, OnWorker, Busy
<1> QED
  BY <1>1, <1>2, <1>3, <1>4, <1>5, <1>6, Zenon DEF PoolStep

(***************************************************************************)
(* No more jobs run than there are workers.                                *)
(***************************************************************************)
LEMMA WorkersBounded ==
  ASSUME Counting, NEW J, Placed(J), PoolStep, Cardinality(OnWorker) =< WORKER_COUNT
  PROVE  Cardinality(OnWorker') =< WORKER_COUNT
<1>1. IsFiniteSet(OnWorker) /\ Cardinality(OnWorker) \in Nat /\ WORKER_COUNT \in Nat
  <2>1. OnWorker \subseteq Fibers
    BY Zenon DEF OnWorker, Busy
  <2> QED
    BY <2>1, OffloadAssumption, Zenon DEF Counting
<1>2. CASE OnWorker' \subseteq OnWorker
  <2>1. Cardinality(OnWorker') \in Nat /\ Cardinality(OnWorker') =< Cardinality(OnWorker)
    BY <1>1, <1>2, Zenon DEF Counting
  <2> QED
    BY <1>1, <2>1
<1>3. ASSUME Cardinality(OnWorker) < WORKER_COUNT,
             NEW f \in Fibers, f \notin OnWorker, OnWorker' = OnWorker \cup {f}
      PROVE  Cardinality(OnWorker') =< WORKER_COUNT
  <2>1. Cardinality(OnWorker') = Cardinality(OnWorker) + 1
    BY <1>1, <1>3, Zenon DEF Counting
  <2> QED
    BY <1>1, <1>3, <2>1
<1> QED
  BY <1>2, <1>3, PoolWorkers, Zenon

(***************************************************************************)
(* At the start none runs.                                                 *)
(***************************************************************************)
LEMMA NoneRuns ==
  ASSUME Counting, OffloadInit
  PROVE  Cardinality(OnWorker) =< WORKER_COUNT
<1>1. OnWorker = {}
  BY DEF OffloadInit, OnWorker, Busy
<1>2. Cardinality(OnWorker) = 0
  BY <1>1, Zenon DEF Counting
<1> QED
  BY <1>2, OffloadAssumption

(***************************************************************************)
(* The pool is as its type says.                                           *)
(***************************************************************************)
LEMMA PlacedTyped ==
  ASSUME NEW J, Placed(J), Cardinality(OnWorker) =< WORKER_COUNT
  PROVE  OffloadTypeOK
<1>1. ASSUME NEW s \in Seq(Fibers), Range(s) \subseteq Busy PROVE s \in Seq(Busy)
  <2>1. Len(s) \in Nat /\ DOMAIN s = 1 .. Len(s) /\ s \in [1 .. Len(s) -> Fibers]
    OBVIOUS
  <2>2. \A i \in 1 .. Len(s) : s[i] \in Busy
    BY <1>1, <2>1 DEF Range
  <2>3. s \in [1 .. Len(s) -> Busy]
    BY <2>1, <2>2
  <2> QED
    BY <2>1, <2>3
<1> QED
  BY <1>1, Zenon DEF Placed, OffloadTypeOK
=============================================================================
