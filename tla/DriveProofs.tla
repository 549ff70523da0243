----------------------------- MODULE DriveProofs -----------------------------
(***************************************************************************)
(* The pool, the poller and the kernel keep the scheduler's promises and   *)
(* their own, for any number of worker threads, fibers and sockets.        *)
(***************************************************************************)
EXTENDS Drive, SchedulerProofs

(* The invariants.                                                         *)

\* The fibers whose job a worker runs, or died in.
OnWorkers == {f \in Fiber : \E w \in Workers : running[w] = f}

\* The fibers with a job anywhere between submit_io_job and deliver.
InFlight == Range(jobs) \cup OnWorkers \cup Range(done) \cup Range(completions)

PoolType ==
  /\ jobs \in Seq(Fiber) /\ done \in Seq(Fiber)
  /\ worker \in [Workers -> {"idle", "running", "waking", "dead"}]
  /\ running \in [Workers -> Fiber \cup {NoFiber}]

\* A fiber's job is in one place, once.
Apart ==
  /\ IsInjective(jobs) /\ IsInjective(done)
  /\ \A v, w \in Workers : running[v] = running[w] /\ running[v] \in Fiber => v = w
  /\ Range(jobs) \cap OnWorkers = {} /\ Range(done) \cap OnWorkers = {}
  /\ Range(jobs) \cap Range(done) = {} /\ Range(completions) \cap OnWorkers = {}
  /\ Range(completions) \cap Range(jobs) = {} /\ Range(completions) \cap Range(done) = {}

\* The jobs in flight are those of the fibers that wait for one.
Counted ==
  /\ \A w \in Workers : running[w] \in Fiber <=> worker[w] \in {"running", "dead"}
  /\ \A f \in InFlight : pending[f]
  /\ ~ AllDead => \A f \in Fiber : pending[f] => f \in InFlight

PoolInv == PoolType /\ Apart /\ Counted

\* The events of a poll are all woken before the driver goes on.
EventsWoken == events # {} => phase = "events"

\* With the poller there before the first syscall, a completion has its wake-up.
WakeupOwed ==
  PollerFirst =>
    /\ ~ poller => jobs = <<>> /\ done = <<>> /\ \A w \in Workers : running[w] \notin Fiber
    /\ done # <<>> => woken \/ phase = "events" \/ \E w \in Workers : worker[w] = "waking"

DriveInv == Inv /\ PoolInv /\ EventsWoken /\ NoLostEdge /\ WakeupOwed

-----------------------------------------------------------------------------
(* The pool.                                                               *)

(***************************************************************************)
(* A step that touches neither the pool nor what is owed by it.            *)
(***************************************************************************)
LEMMA QuietPool ==
  ASSUME PoolInv, UNCHANGED <<pending, completions, poolVars>>
  PROVE  PoolInv'
<1>1. UNCHANGED <<pending, completions, jobs, worker, running, done>>
  BY DEF poolVars
<1>2. UNCHANGED <<OnWorkers, InFlight, AllDead>>
  BY <1>1 DEF OnWorkers, InFlight, AllDead
<1> QED
  BY <1>1, <1>2 DEF PoolInv, PoolType, Apart, Counted

(***************************************************************************)
(* A queue stays free of repetition when a newcomer joins it.              *)
(***************************************************************************)
LEMMA PushInjective ==
  ASSUME NEW S, NEW s \in Seq(S), NEW e \in S, IsInjective(s), e \notin Range(s)
  PROVE  IsInjective(Append(s, e))
<1>1. /\ DOMAIN s = 1 .. Len(s) /\ Len(s) \in Nat
      /\ DOMAIN Append(s, e) = 1 .. (Len(s) + 1)
      /\ \A i \in 1 .. Len(s) : Append(s, e)[i] = s[i] /\ s[i] # e
      /\ Append(s, e)[Len(s) + 1] = e
  BY DEF Range
<1> QED
  BY <1>1 DEF IsInjective

(***************************************************************************)
(* submit_io_job queues one job for a fiber that had none.                 *)
(***************************************************************************)
LEMMA SubmitPool ==
  ASSUME Inv, PoolInv, SubmitIoJob
  PROVE  PoolInv'
<1>1. /\ phase = "run" /\ pending' = [pending EXCEPT ![current] = TRUE]
      /\ jobs' = IF AllDead THEN jobs ELSE Append(jobs, current)
      /\ UNCHANGED <<completions, worker, running, done>>
  BY DEF SubmitIoJob, ParkAwait, Calls, Suspends
<1>2. current \in Fiber /\ state[current] = "Running" /\ pending \in [Fiber -> BOOLEAN]
  BY <1>1 DEF Inv, Control, Core, CoreType
<1>3. ~ pending[current]
  <2>1. ListsMatchWaits!(current)
    BY <1>2, Zenon DEF Inv, Core, ListsMatchWaits
  <2> QED
    BY <1>2, <2>1 DEF Parked
<1>4. current \notin InFlight
  BY <1>3 DEF PoolInv, Counted
<1>5. UNCHANGED <<OnWorkers, AllDead>>
  BY <1>1 DEF OnWorkers, AllDead
<1>6. /\ jobs' \in Seq(Fiber) /\ IsInjective(jobs')
      /\ Range(jobs') = IF AllDead THEN Range(jobs) ELSE Range(jobs) \cup {current}
  <2>1. jobs \in Seq(Fiber) /\ IsInjective(jobs) /\ current \notin Range(jobs)
    BY <1>4 DEF PoolInv, PoolType, Apart, InFlight
  <2> QED
    <3>1. CASE AllDead
      BY <1>1, <2>1, <3>1
    <3>2. CASE ~ AllDead
      <4>1. jobs' = Append(jobs, current)
        BY <1>1, <3>2
      <4>2. Append(jobs, current) \in Seq(Fiber)
        BY <1>2, <2>1
      <4> QED
        BY <1>2, <2>1, <3>2, <4>1, <4>2, PushRange, PushInjective
    <3> QED
      BY <3>1, <3>2
<1>7. InFlight' = IF AllDead THEN InFlight ELSE InFlight \cup {current}
  BY <1>1, <1>5, <1>6 DEF InFlight
<1>8. PoolType'
  BY <1>1, <1>6 DEF PoolInv, PoolType
<1>9. Apart'
  BY <1>1, <1>4, <1>5, <1>6 DEF PoolInv, Apart, InFlight
<1>10. Counted'
  <2>1. \A f \in Fiber : pending'[f] <=> pending[f] \/ f = current
    BY <1>1, <1>2
  <2>2. InFlight \subseteq Fiber
    BY RangeEmpty DEF PoolInv, PoolType, Inv, RestType, InFlight, OnWorkers
  <2> QED
    BY <1>1, <1>2, <1>5, <1>7, <2>1, <2>2 DEF PoolInv, Counted
<1> QED
  BY <1>8, <1>9, <1>10 DEF PoolInv

(***************************************************************************)
(* A worker takes the oldest job.                                          *)
(***************************************************************************)
LEMMA TakePool ==
  ASSUME Inv, PoolInv, NEW w \in Workers, WorkerTake(w), UNCHANGED <<pending, completions>>
  PROVE  PoolInv'
<1> DEFINE j == Head(jobs)
<1>1. /\ worker[w] = "idle" /\ worker' = [worker EXCEPT ![w] = "running"]
      /\ running' = [running EXCEPT ![w] = j]
      /\ UNCHANGED done
  BY DEF WorkerTake
<1>2. /\ j \in Fiber /\ j \in Range(jobs) /\ jobs' \in Seq(Fiber) /\ IsInjective(jobs')
      /\ Range(jobs') = Range(jobs) \ {j}
  BY PopRange DEF WorkerTake, PoolInv, PoolType, Apart
<1> HIDE DEF j
<1>3. PoolType /\ Apart /\ Counted
  BY DEF PoolInv
<1>4. running[w] \notin Fiber
  BY <1>1, <1>3 DEF Counted
<1>5. OnWorkers' = OnWorkers \cup {j}
  BY <1>1, <1>2, <1>3, <1>4 DEF OnWorkers, PoolType
<1>6. InFlight' = InFlight
  BY <1>1, <1>2, <1>5 DEF InFlight
<1>7. ~ AllDead
  BY <1>1 DEF AllDead
<1>8. PoolType'
  BY <1>1, <1>2, <1>3 DEF PoolType
<1>9. Apart'
  <2>1. j \notin OnWorkers
    BY <1>2, <1>3 DEF Apart
  <2>2. \A u, v \in Workers : running'[u] = running'[v] /\ running'[u] \in Fiber => u = v
    BY <1>1, <1>2, <1>3, <2>1 DEF PoolType, Apart, OnWorkers
  <2> QED
    BY <1>1, <1>2, <1>3, <1>5, <2>2 DEF Apart
<1>10. Counted'
  <2>1. \A v \in Workers : running'[v] \in Fiber <=> worker'[v] \in {"running", "dead"}
    BY <1>1, <1>2, <1>3 DEF PoolType, Counted
  <2> QED
    BY <1>3, <1>6, <1>7, <2>1 DEF Counted
<1> QED
  BY <1>8, <1>9, <1>10 DEF PoolInv

(***************************************************************************)
(* A worker sends its job's result.                                        *)
(***************************************************************************)
LEMMA SendPool ==
  ASSUME Inv, PoolInv, NEW w \in Workers, WorkerSend(w), UNCHANGED <<pending, completions>>
  PROVE  PoolInv'
<1> DEFINE j == running[w]
<1>1. /\ worker[w] = "running" /\ worker' = [worker EXCEPT ![w] = "waking"]
      /\ running' = [running EXCEPT ![w] = NoFiber]
      /\ done' = Append(done, j) /\ UNCHANGED jobs
  BY DEF WorkerSend
<1>2. PoolType /\ Apart /\ Counted
  BY DEF PoolInv
<1>3. j \in Fiber /\ j \in OnWorkers
  BY <1>1, <1>2 DEF Counted, OnWorkers
<1> HIDE DEF j
<1>4. j \notin Range(done) /\ j \notin Range(jobs) /\ j \notin Range(completions)
  BY <1>2, <1>3 DEF Apart
<1>5. done' \in Seq(Fiber) /\ IsInjective(done') /\ Range(done') = Range(done) \cup {j}
  BY <1>1, <1>2, <1>3, <1>4, PushRange, PushInjective DEF PoolType, Apart
<1>6. NoFiber \notin Fiber
  BY DEF NoFiber, Fiber
<1>7. OnWorkers' = OnWorkers \ {j}
  <2>1. \A v \in Workers : running'[v] = IF v = w THEN NoFiber ELSE running[v]
    BY <1>1, <1>2 DEF PoolType
  <2>2. \A v \in Workers : running[v] = j => v = w
    BY <1>2, <1>3 DEF Apart, j
  <2> QED
    BY <1>6, <2>1, <2>2 DEF OnWorkers, j
<1>8. InFlight' = InFlight
  BY <1>1, <1>3, <1>5, <1>7 DEF InFlight
<1>9. ~ AllDead
  BY <1>1 DEF AllDead
<1>10. PoolType'
  BY <1>1, <1>2, <1>5 DEF PoolType
<1>11. Apart'
  <2>1. \A u, v \in Workers : running'[u] = running'[v] /\ running'[u] \in Fiber => u = v
    BY <1>1, <1>2, <1>6 DEF PoolType, Apart
  <2> QED
    BY <1>1, <1>2, <1>4, <1>5, <1>7, <2>1 DEF Apart
<1>12. Counted'
  <2>1. \A v \in Workers : running'[v] \in Fiber <=> worker'[v] \in {"running", "dead"}
    BY <1>1, <1>2, <1>6 DEF PoolType, Counted
  <2> QED
    BY <1>2, <1>8, <1>9, <2>1 DEF Counted
<1> QED
  BY <1>10, <1>11, <1>12 DEF PoolInv

(***************************************************************************)
(* A worker wakes the poller, or dies.                                     *)
(***************************************************************************)
LEMMA WorkerPool ==
  ASSUME PoolInv, NEW w \in Workers, WakePoller(w) \/ WorkerPanic(w),
         UNCHANGED <<pending, completions>>
  PROVE  PoolInv'
<1>1. /\ \/ worker[w] = "waking" /\ worker' = [worker EXCEPT ![w] = "idle"]
         \/ worker[w] = "running" /\ worker' = [worker EXCEPT ![w] = "dead"]
      /\ UNCHANGED <<jobs, running, done>>
  BY DEF WakePoller, WorkerPanic
<1>2. UNCHANGED <<OnWorkers, InFlight>>
  BY <1>1 DEF OnWorkers, InFlight
<1>3. AllDead => AllDead'
  BY <1>1 DEF AllDead
<1>4. \A v \in Workers : running'[v] \in Fiber <=> worker'[v] \in {"running", "dead"}
  BY <1>1 DEF PoolInv, PoolType, Counted
<1> QED
  BY <1>1, <1>2, <1>3, <1>4 DEF PoolInv, PoolType, Apart, Counted

(***************************************************************************)
(* The driver takes the finished jobs for delivery.                        *)
(***************************************************************************)
LEMMA DrainPool ==
  ASSUME PoolInv, completions = <<>>, completions' = done, done' = <<>>,
         UNCHANGED <<pending, jobs, worker, running>>
  PROVE  PoolInv'
<1>1. UNCHANGED <<OnWorkers, AllDead>> /\ Range(completions) = {} /\ Range(done') = {}
  BY EmptyRange DEF OnWorkers, AllDead
<1>2. InFlight' = InFlight
  BY <1>1 DEF InFlight
<1>3. done' \in Seq(Fiber) /\ IsInjective(done')
  BY EmptyRange
<1> QED
  BY <1>1, <1>2, <1>3 DEF PoolInv, PoolType, Apart, Counted

(***************************************************************************)
(* deliver gives the oldest result to its fiber.                           *)
(***************************************************************************)
LEMMA DeliverPool ==
  ASSUME Inv, PoolInv, DeliverCompletion, UNCHANGED poolVars
  PROVE  PoolInv'
<1> DEFINE g == Head(completions)
<1>1. /\ pending' = [pending EXCEPT ![g] = FALSE] /\ completions' = Tail(completions)
      /\ completions # <<>> /\ UNCHANGED <<jobs, worker, running, done>>
  BY DEF DeliverCompletion, poolVars
<1>2. g \in Fiber /\ g \in Range(completions) /\ Range(completions') = Range(completions) \ {g}
  BY <1>1, PopRange DEF Inv, RestType, Owed
<1> HIDE DEF g
<1>3. UNCHANGED <<OnWorkers, AllDead>>
  BY <1>1 DEF OnWorkers, AllDead
<1>4. InFlight' = InFlight \ {g}
  BY <1>1, <1>2, <1>3 DEF InFlight, PoolInv, Apart
<1>5. Counted'
  <2>1. \A f \in Fiber : pending'[f] <=> pending[f] /\ f # g
    BY <1>1, <1>2 DEF Inv, Core, CoreType
  <2>2. InFlight \subseteq Fiber
    BY RangeEmpty DEF PoolInv, PoolType, Inv, RestType, InFlight, OnWorkers
  <2> QED
    BY <1>1, <1>3, <1>4, <2>1, <2>2 DEF PoolInv, Counted
<1> QED
  BY <1>1, <1>2, <1>3, <1>5 DEF PoolInv, PoolType, Apart

-----------------------------------------------------------------------------
(* The steps of the whole, as the scheduler sees them.                     *)

\* A native other than a syscall.
NativeStep ==
  \/ LocalStep \/ FiberYield \/ FiberDone
  \/ \E h \in Handles : SocketOpen(h) \/ SocketCall(h) \/ SocketClose(h)
  \/ \E o \in Selects : FiberSelect(o)

\* A step of the driver that takes nothing from the pool or the poller.
IdleStep ==
  \/ NextReady \/ BeginPoll \/ BeginRecv \/ BeginSleep \/ NothingPending
  \/ SleepEnds \/ WakeDueTimers \/ PollFails

(***************************************************************************)
(* Each step of the whole is one of these.                                 *)
(***************************************************************************)
LEMMA StepKinds ==
  ASSUME [DriveNext]_driveAllVars
  PROVE  \/ phase = "run" /\ NativeStep /\ UNCHANGED <<poolVars, woken>> /\ (poller => poller')
         \/ SubmitIoJob
         \/ IdleStep /\ UNCHANGED <<poolVars, netVars>>
         \/ (\E h \in Handles : PollEvent(h)) /\ UNCHANGED <<poolVars, netVars>>
         \/ DeliverCompletion /\ UNCHANGED <<poolVars, netVars>>
         \/ PollReturns /\ events' \subseteq edges /\ edges \subseteq edges' \cup events'
            /\ UNCHANGED <<poolVars, poller, able>>
         \/ Drain \/ Recv
         \/ \E w \in Workers : WorkerStep(w)
         \/ \E h \in Handles : KernelReady(h)
         \/ (Tick \/ UNCHANGED vars) /\ UNCHANGED <<poolVars, netVars>>
<1>1. CASE DriveFiberStep
  <2>1. CASE Burn /\ LocalStep /\ UNCHANGED <<poolVars, netVars>>
    BY <2>1 DEF Burn, NativeStep, netVars
  <2>2. ASSUME Burn, NEW h \in Handles,
               RegisterSocket(h) \/ DeregisterSocket(h) \/ SocketProceeds(h) \/ SocketWouldBlock(h)
        PROVE  phase = "run" /\ NativeStep /\ UNCHANGED <<poolVars, woken>> /\ (poller => poller')
    BY <2>2
    DEF Burn, NativeStep, RegisterSocket, DeregisterSocket, SocketProceeds, SocketWouldBlock, netVars
  <2>3. ASSUME Burn, NEW o \in Selects, SelectStep(o)
        PROVE  phase = "run" /\ NativeStep /\ UNCHANGED <<poolVars, woken>> /\ (poller => poller')
    BY <2>3 DEF Burn, NativeStep, SelectStep, netVars
  <2>4. CASE (FiberYield \/ FiberDone) /\ UNCHANGED <<fuel, poolVars, netVars>>
    BY <2>4 DEF FiberYield, FiberDone, Calls, BetweenNatives, NativeStep, netVars
  <2> QED
    BY <1>1, <2>1, <2>2, <2>3, <2>4 DEF DriveFiberStep
<1>2. CASE DriverLocalStep
  BY <1>2 DEF DriverLocalStep, IdleStep
<1>3. CASE PollWait
  BY <1>3 DEF PollWait
<1>4. CASE PollDisturbed
  BY <1>4 DEF PollDisturbed, IdleStep, netVars
<1>5. CASE DriveTick \/ DriveHalted \/ UNCHANGED driveAllVars
  BY <1>5 DEF DriveTick, DriveHalted, Halted, driveAllVars
<1> QED
  BY <1>1, <1>2, <1>3, <1>4, <1>5, Zenon DEF DriveNext, DriveDriverStep

(***************************************************************************)
(* Natives other than syscalls, and the driver's own steps, leave what the *)
(* pool owes and what the poller has reported alone.                       *)
(***************************************************************************)
LEMMA OwesNothing ==
  ASSUME NativeStep \/ IdleStep
  PROVE  UNCHANGED <<pending, completions, events>>
<1>1. CASE LocalStep
  <2>1. FiberSpawn \/ FiberTrap => UNCHANGED <<pending, completions, events>>
    BY DEF FiberSpawn, FiberTrap, Traps, fiberVars, driveVars
  <2>2. ASSUME NEW t, FiberJoin(t) \/ TimeSleep(t) \/ ChannelNew(t)
        PROVE  UNCHANGED <<pending, completions, events>>
    BY <2>2 DEF FiberJoin, TimeSleep, ChannelNew, Returns, ParkBlockRetry, Suspends, fiberVars, driveVars
  <2>3. ASSUME NEW c, ChannelSend(c) \/ ChannelReceive(c) \/ ChannelClose(c)
        PROVE  UNCHANGED <<pending, completions, events>>
    BY <2>3, Zenon
    DEF ChannelSend, ChannelReceive, ChannelClose, Returns, Traps, ParkBlockRetry, Suspends, fiberVars,
        driveVars
  <2> QED
    BY <1>1, <2>1, <2>2, <2>3 DEF LocalStep
<1>2. CASE FiberYield \/ FiberDone
  BY <1>2 DEF FiberYield, FiberDone, Suspends
<1>3. ASSUME NEW h, SocketOpen(h) \/ SocketCall(h) \/ SocketClose(h)
      PROVE  UNCHANGED <<pending, completions, events>>
  BY <1>3 DEF SocketOpen, SocketCall, SocketClose, Returns, Suspends, fiberVars, driveVars
<1>4. ASSUME NEW o, FiberSelect(o) PROVE UNCHANGED <<pending, completions, events>>
  BY <1>4, Zenon DEF FiberSelect, Returns, Suspends, driveVars
<1>5. CASE IdleStep
  BY <1>5, Zenon
  DEF IdleStep, NextReady, BeginPoll, BeginRecv, BeginSleep, NothingPending, Idle, SleepEnds,
      WakeDueTimers, PollFails, Traps, fiberVars
<1> QED
  BY <1>1, <1>2, <1>3, <1>4, <1>5 DEF NativeStep

(***************************************************************************)
(* Every step keeps the pool's accounts.                                   *)
(***************************************************************************)
LEMMA PoolStep ==
  ASSUME Inv, PoolInv, [DriveNext]_driveAllVars
  PROVE  PoolInv'
<1>1. CASE (NativeStep \/ IdleStep) /\ UNCHANGED poolVars
  BY <1>1, OwesNothing, QuietPool
<1>2. CASE SubmitIoJob
  BY <1>2, SubmitPool
<1>3. CASE (\E h \in Handles : PollEvent(h)) /\ UNCHANGED poolVars
  BY <1>3, QuietPool DEF PollEvent, fiberVars
<1>4. CASE DeliverCompletion /\ UNCHANGED poolVars
  BY <1>4, DeliverPool
<1>5. CASE PollReturns /\ UNCHANGED poolVars
  BY <1>5, QuietPool DEF PollReturns, fiberVars
<1>6. CASE Drain \/ Recv
  <2>1. completions = <<>>
    BY <1>6 DEF Drain, Recv, Inv, Owed
  <2>2. completions' = done /\ done' = <<>> /\ UNCHANGED <<pending, jobs, worker, running>>
    BY <1>6 DEF Drain, Recv, BeginDelivery, fiberVars
  <2> QED
    BY <2>1, <2>2, DrainPool
<1>7. ASSUME NEW w \in Workers, WorkerStep(w) PROVE PoolInv'
  <2>1. UNCHANGED <<pending, completions>>
    BY <1>7 DEF WorkerStep, vars, fiberVars, driveVars
  <2> QED
    BY <1>7, <2>1, TakePool, SendPool, WorkerPool DEF WorkerStep, WorkerRuns
<1>8. CASE \E h \in Handles : KernelReady(h)
  BY <1>8, QuietPool DEF KernelReady, vars, fiberVars, driveVars
<1>9. CASE (Tick \/ UNCHANGED vars) /\ UNCHANGED poolVars
  BY <1>9, QuietPool DEF Tick, vars, fiberVars, driveVars
<1> QED
  BY <1>1, <1>2, <1>3, <1>4, <1>5, <1>6, <1>7, <1>8, <1>9, StepKinds

(***************************************************************************)
(* What the pool hands over is what the scheduler may take: each fiber     *)
(* once, and only fibers that wait for it.                                 *)
(***************************************************************************)
LEMMA HandsOver ==
  ASSUME PoolInv, completions' = done
  PROVE  TakeCompletions
<1> DEFINE n == Len(done)
<1>1. done \in Seq(Fiber) /\ IsInjective(done)
  BY DEF PoolInv, PoolType, Apart
<1>2. n \in Nat /\ done \in [1 .. n -> Fiber]
  BY <1>1
<1> HIDE DEF n
<1>3. n \in 0 .. MaxFibers
  <2>1. IsFiniteSet(Fiber) /\ Cardinality(Fiber) = MaxFibers
    BY FS_Interval, BoundsAssumption DEF Fiber
  <2>2. Cardinality(1 .. n) = n
    BY <1>2, FS_Interval
  <2>3. done \in Injection(1 .. n, Fiber)
    BY <1>1, <1>2 DEF Injection
  <2>4. Cardinality(1 .. n) =< Cardinality(Fiber)
    BY <2>1, <2>3, FS_Injection
  <2> QED
    BY <1>2, <2>1, <2>2, <2>4, BoundsAssumption
<1>4. \A i \in DOMAIN done : pending[done[i]]
  BY <1>1 DEF PoolInv, Counted, InFlight, Range
<1>5. \E k \in 0 .. MaxFibers : completions' \in [1 .. k -> Fiber]
  BY <1>2, <1>3
<1> QED
  BY <1>1, <1>4, <1>5 DEF TakeCompletions

(***************************************************************************)
(* Every step of the whole is a step of the scheduler, or none.            *)
(***************************************************************************)
LEMMA StepRefines ==
  ASSUME Inv, PoolInv, [DriveNext]_driveAllVars
  PROVE  [Next]_vars
<1>1. CASE NativeStep
  BY <1>1 DEF NativeStep, LocalStep, Next, FiberStep
<1>2. CASE SubmitIoJob
  BY <1>2 DEF SubmitIoJob, Next, FiberStep
<1>3. CASE IdleStep \/ (\E h \in Handles : PollEvent(h)) \/ DeliverCompletion \/ PollReturns
  BY <1>3 DEF IdleStep, Next, DriverStep
<1>4. CASE Drain \/ Recv
  <2>1. TakeCompletions
    BY <1>4, HandsOver DEF Drain, Recv
  <2> QED
    BY <1>4, <2>1 DEF Drain, Recv, DrainCompletions, AwaitCompletions, Next, DriverStep
<1>5. CASE (\E w \in Workers : WorkerStep(w)) \/ \E h \in Handles : KernelReady(h)
  BY <1>5 DEF WorkerStep, KernelReady
<1>6. CASE Tick \/ UNCHANGED vars
  BY <1>6 DEF Next
<1> QED
  BY <1>1, <1>2, <1>3, <1>4, <1>5, <1>6, StepKinds

-----------------------------------------------------------------------------
(* Readiness events and wake-ups.                                          *)

(***************************************************************************)
(* The driver wakes for every event of a poll before it does anything      *)
(* else.                                                                   *)
(***************************************************************************)
LEMMA EventsStep ==
  ASSUME EventsWoken, [DriveNext]_driveAllVars
  PROVE  EventsWoken'
<1>1. CASE phase = "run" /\ NativeStep
  BY <1>1, OwesNothing DEF EventsWoken
<1>2. CASE SubmitIoJob
  BY <1>2 DEF SubmitIoJob, ParkAwait, Calls, Suspends, EventsWoken
<1>3. CASE IdleStep
  <2>1. phase # "events"
    BY <1>3
    DEF IdleStep, NextReady, BeginPoll, BeginRecv, BeginSleep, NothingPending, Idle, SleepEnds,
        WakeDueTimers, PollFails
  <2> QED
    BY <1>3, <2>1, OwesNothing DEF EventsWoken
<1>4. CASE \E h \in Handles : PollEvent(h)
  BY <1>4 DEF PollEvent, EventsWoken
<1>5. CASE DeliverCompletion
  BY <1>5 DEF DeliverCompletion, EventsWoken
<1>6. CASE PollReturns
  BY <1>6 DEF PollReturns, EventsWoken
<1>7. CASE Drain \/ Recv
  BY <1>7 DEF Drain, Recv, BeginDelivery, EventsWoken
<1>8. CASE (\E w \in Workers : WorkerStep(w)) \/ \E h \in Handles : KernelReady(h)
  BY <1>8 DEF WorkerStep, KernelReady, vars, driveVars, EventsWoken
<1>9. CASE Tick \/ UNCHANGED vars
  BY <1>9 DEF Tick, vars, driveVars, EventsWoken
<1> QED
  BY <1>1, <1>2, <1>3, <1>4, <1>5, <1>6, <1>7, <1>8, <1>9, StepKinds

(***************************************************************************)
(* A worker that has sent a completion wakes the poller after it; the      *)
(* driver drains the queue after each wake-up it consumes.                 *)
(***************************************************************************)
LEMMA WakeupStep ==
  ASSUME Inv, PoolInv, WakeupOwed, [DriveNext]_driveAllVars
  PROVE  WakeupOwed'
<1> SUFFICES ASSUME PollerFirst PROVE WakeupOwed'
  BY DEF WakeupOwed
<1> DEFINE Unused == jobs = <<>> /\ done = <<>> /\ \A w \in Workers : running[w] \notin Fiber
           Wakes == woken \/ phase = "events" \/ \E w \in Workers : worker[w] = "waking"
<1>1. (~ poller => Unused) /\ (done # <<>> => Wakes)
  BY DEF WakeupOwed
<1>2. CASE UNCHANGED <<poolVars, woken>> /\ (poller => poller')
           /\ (phase = "events" => phase' = "events")
  BY <1>1, <1>2 DEF WakeupOwed, poolVars
<1>3. CASE phase = "run" /\ NativeStep /\ UNCHANGED <<poolVars, woken>> /\ (poller => poller')
  BY <1>2, <1>3
<1>4. CASE SubmitIoJob
  <2>1. phase = "run" /\ poller /\ UNCHANGED <<worker, running, done, poller, woken>>
    BY <1>4 DEF SubmitIoJob, ParkAwait, Calls, netVars
  <2>2. poller' /\ (done' # <<>> => woken' \/ \E w \in Workers : worker'[w] = "waking")
    BY <1>1, <2>1
  <2> QED
    BY <2>2, Zenon DEF WakeupOwed
<1>5. CASE IdleStep /\ UNCHANGED <<poolVars, netVars>>
  <2>1. phase # "events"
    BY <1>5
    DEF IdleStep, NextReady, BeginPoll, BeginRecv, BeginSleep, NothingPending, Idle, SleepEnds,
        WakeDueTimers, PollFails
  <2> QED
    BY <1>2, <1>5, <2>1 DEF netVars
<1>6. CASE (DeliverCompletion \/ \E h \in Handles : PollEvent(h)) /\ UNCHANGED <<poolVars, netVars>>
  BY <1>2, <1>6 DEF DeliverCompletion, PollEvent, netVars
<1>7. CASE PollReturns /\ UNCHANGED <<poolVars, poller>>
  BY <1>1, <1>7, Zenon DEF PollReturns, poolVars, WakeupOwed
<1>8. CASE Drain \/ Recv
  BY <1>1, <1>8, Zenon DEF Drain, Recv, netVars, WakeupOwed
<1>9. ASSUME NEW w \in Workers, WorkerStep(w) PROVE WakeupOwed'
  <2>1. phase' = phase /\ worker \in [Workers -> {"idle", "running", "waking", "dead"}]
        /\ running \in [Workers -> Fiber \cup {NoFiber}]
    BY <1>9 DEF WorkerStep, vars, driveVars, PoolInv, PoolType
  <2>2. CASE WorkerTake(w) /\ UNCHANGED netVars
    <3>1. /\ worker[w] = "idle" /\ worker' = [worker EXCEPT ![w] = "running"]
          /\ jobs # <<>> /\ UNCHANGED <<done, woken, poller>>
      BY <2>2 DEF WorkerTake, netVars
    <3>2. \A v \in Workers : worker[v] = "waking" => worker'[v] = "waking"
      BY <2>1, <3>1
    <3> QED
      BY <1>1, <2>1, <3>1, <3>2 DEF WakeupOwed
  <2>3. CASE WorkerSend(w) /\ UNCHANGED netVars
    <3>1. running[w] \in Fiber
      BY <2>3 DEF WorkerSend, PoolInv, Counted
    <3>2. worker'[w] = "waking" /\ poller
      BY <1>1, <2>1, <2>3, <3>1 DEF WorkerSend
    <3> QED
      BY <2>3, <3>2 DEF WakeupOwed, netVars
  <2>4. CASE WakePoller(w)
    BY <1>1, <2>4, Zenon DEF WakePoller, WakeupOwed
  <2>5. CASE WorkerPanic(w) /\ UNCHANGED netVars
    <3>1. /\ worker[w] = "running" /\ worker' = [worker EXCEPT ![w] = "dead"]
          /\ UNCHANGED <<jobs, running, done, woken, poller>>
      BY <2>5 DEF WorkerPanic, netVars
    <3>2. \A v \in Workers : worker[v] = "waking" => worker'[v] = "waking"
      BY <2>1, <3>1
    <3> QED
      BY <1>1, <2>1, <3>1, <3>2 DEF WakeupOwed
  <2> QED
    BY <1>9, <2>2, <2>3, <2>4, <2>5 DEF WorkerStep, WorkerRuns
<1>10. CASE \E h \in Handles : KernelReady(h)
  BY <1>2, <1>10 DEF KernelReady, vars, driveVars
<1>11. CASE (Tick \/ UNCHANGED vars) /\ UNCHANGED <<poolVars, netVars>>
  BY <1>2, <1>11 DEF Tick, vars, driveVars, netVars
<1> QED
  BY <1>3, <1>4, <1>5, <1>6, <1>7, <1>8, <1>9, <1>10, <1>11, StepKinds

(***************************************************************************)
(* A step begins the wait of no fiber but the running one, which it        *)
(* suspends.                                                               *)
(***************************************************************************)
LEMMA WhoParks ==
  ASSUME Inv, [Next]_vars, NEW f \in Fiber
  PROVE  StaysParked(f) \/ (phase = "run" /\ f = current /\ state'[current] = "Suspended")
<1> DEFINE Goal == StaysParked(f) \/ (phase = "run" /\ f = current /\ state'[current] = "Suspended")
<1>1. ASSUME phase = "run", NEW o, Suspends(o), readyVars' = readyVars \/ \E w : MakeReady(w)
      PROVE  StaysParked(f) \/ (f = current /\ state'[current] = "Suspended")
  <2>1. Running /\ CoreType
    BY <1>1 DEF Inv, Control, Running, Core
  <2> QED
    BY <1>1, <2>1, SuspendsOne, Zenon DEF Suspends, Running, CoreType
<1>2. ASSUME phase = "run", op' = [op EXCEPT ![current] = NoOp] \/ op' = op,
             state' \in {state, [state EXCEPT ![current] = "Done"]},
             readyVars' = readyVars \/ \E w : MakeReady(w)
      PROVE  StaysParked(f)
  <2>1. Running
    BY <1>2, Zenon DEF Inv, Control, Running
  <2> QED
    BY <1>2, <2>1, ContinuesParked
<1>3. ASSUME UNCHANGED <<state, op>>, readyVars' = readyVars \/ \E w : MakeReady(w)
      PROVE  StaysParked(f)
  BY <1>3, MoreQueued, Zenon DEF readyVars, StaysParked, Parked
<1>4. CASE FiberSpawn
  <2>1. /\ state' = [state EXCEPT ![nfibers] = "NotStarted"] /\ op' = op
        /\ \E w : MakeReady(w)
    BY <1>4 DEF FiberSpawn
  <2>2. state'[f] = "Suspended" => state[f] = "Suspended"
    BY <2>1 DEF Inv, Core, CoreType
  <2> QED
    BY <2>1, <2>2, MoreQueued, Zenon DEF StaysParked, Parked
<1>5. CASE FiberYield \/ ParkAwait \/ \E d \in Time : TimeSleep(d)
  BY <1>1, <1>5, Zenon DEF FiberYield, ParkAwait, TimeSleep, Calls
<1>6. CASE (\E t \in Fiber : FiberJoin(t)) \/ \E o \in Selects : FiberSelect(o)
  BY <1>1, <1>2, <1>6, Zenon DEF FiberJoin, FiberSelect, Calls, Returns, ParkBlockRetry
<1>7. CASE \E n \in Capacities : ChannelNew(n)
  BY <1>3, <1>7 DEF ChannelNew, fiberVars
<1>8. ASSUME NEW c, ChannelSend(c) PROVE Goal
  BY <1>1, <1>2, <1>3, <1>8, Zenon DEF ChannelSend, Calls, WakeAll, Returns, ParkBlockRetry, Traps, fiberVars
<1>9. ASSUME NEW c, ChannelReceive(c) PROVE Goal
  BY <1>1, <1>2, <1>9, Zenon DEF ChannelReceive, Calls, WakeAll, Returns, ParkBlockRetry
<1>10. ASSUME NEW c, ChannelClose(c) PROVE Goal
  BY <1>3, <1>10 DEF ChannelClose, WakeAll, fiberVars
<1>11. ASSUME NEW h, SocketOpen(h) \/ SocketClose(h) PROVE Goal
  BY <1>3, <1>11 DEF SocketOpen, SocketClose, WakePoll, fiberVars
<1>12. ASSUME NEW h, SocketCall(h) PROVE Goal
  BY <1>1, <1>2, <1>12 DEF SocketCall, Calls, Returns
<1>13. CASE FiberDone
  BY <1>2, <1>13 DEF FiberDone, BetweenNatives, WakeAll
<1>14. CASE FiberTrap
  BY <1>3, <1>14 DEF FiberTrap, Traps, fiberVars
<1>15. CASE NextReady
  <2> DEFINE g == Head(ready)
  <2>1. /\ state' = [state EXCEPT ![g] = "Running"] /\ queued' = [queued EXCEPT ![g] = FALSE]
        /\ op' = [op EXCEPT ![g] = IF @.kind \in Reruns THEN @ ELSE NoOp]
    BY <1>15 DEF NextReady
  <2> HIDE DEF g
  <2> QED
    BY <2>1 DEF Inv, Core, CoreType, StaysParked, Parked
<1>16. CASE DriverStep /\ ~ NextReady
  <2>1. UNCHANGED <<state, op>> /\ (readyVars' = readyVars \/ \E w : MakeReady(w))
    <3>1. CASE BeginPoll \/ BeginRecv \/ BeginSleep \/ NothingPending
      BY <3>1 DEF BeginPoll, BeginRecv, BeginSleep, NothingPending, Idle, fiberVars
    <3>2. CASE PollReturns \/ PollFails \/ SleepEnds
      BY <3>2 DEF PollReturns, PollFails, SleepEnds, Traps, fiberVars
    <3>3. CASE DrainCompletions \/ AwaitCompletions
      BY <3>3 DEF DrainCompletions, AwaitCompletions, BeginDelivery, fiberVars
    <3>4. CASE (\E h \in Handles : PollEvent(h)) \/ DeliverCompletion \/ WakeDueTimers
      BY <3>4 DEF PollEvent, WakePoll, DeliverCompletion, WakeDueTimers, fiberVars
    <3> QED
      BY <1>16, <3>1, <3>2, <3>3, <3>4, Zenon DEF DriverStep
  <2> QED
    BY <1>3, <2>1
<1>17. CASE Tick \/ UNCHANGED vars
  BY <1>3, <1>17 DEF Tick, vars, fiberVars
<1> QED
  BY <1>4, <1>5, <1>6, <1>7, <1>8, <1>9, <1>10, <1>11, <1>12, <1>13, <1>14, <1>15, <1>16, <1>17
  DEF Next, FiberStep, Halted

(***************************************************************************)
(* A fiber parks on a socket only when a syscall or the probe has just     *)
(* found it not ready.                                                     *)
(***************************************************************************)
LEMMA ParksOnSilent ==
  ASSUME Inv, [DriveNext]_driveAllVars, phase = "run", state'[current] = "Suspended",
         NEW h \in op'[current].handles
  PROVE  h \notin able'
<1>1. /\ current \in Fiber /\ state[current] = "Running" /\ op \in [Fiber -> Op]
      /\ state \in [Fiber -> {"Unspawned", "NotStarted", "Suspended", "Running", "Done"}]
      /\ (\A f \in Fiber : state[f] = "Unspawned" <=> f >= nfibers)
  BY DEF Inv, Control, Core, CoreType
<1>2. ASSUME NEW o, Suspends(o) PROVE h \in o.handles
  BY <1>1, <1>2 DEF Suspends
<1>3. state' # state /\ state' # [state EXCEPT ![current] = "Done"]
  BY <1>1
<1>4. ASSUME NEW k, Suspends(Plain(k)) PROVE FALSE
  <2>1. Plain(k).handles = {}
    BY Zenon DEF Plain, Wait
  <2> QED
    BY <1>2, <1>4, <2>1, Zenon
<1>5. CASE LocalStep
  <2>1. CASE FiberSpawn
    <3>1. current # nfibers /\ state' = [state EXCEPT ![nfibers] = "NotStarted"]
      BY <1>1, <2>1 DEF FiberSpawn, Fiber
    <3> QED
      BY <1>1, <3>1
  <2>2. ASSUME NEW t, FiberJoin(t) PROVE FALSE
    <3>1. ASSUME Suspends(JoinOp(t)) PROVE FALSE
      <4>1. JoinOp(t).handles = {}
        BY Zenon DEF JoinOp, Wait
      <4> QED
        BY <1>2, <3>1, <4>1, Zenon
    <3> QED
      BY <1>3, <2>2, <3>1, Zenon DEF FiberJoin, Returns, ParkBlockRetry
  <2>3. ASSUME NEW d, TimeSleep(d) PROVE FALSE
    <3>1. SleepOp(d).handles = {}
      BY Zenon DEF SleepOp, Wait
    <3> QED
      BY <1>2, <2>3, <3>1, Zenon DEF TimeSleep
  <2>4. ASSUME NEW n, ChannelNew(n) PROVE FALSE
    BY <1>3, <2>4 DEF ChannelNew, fiberVars
  <2>5. ASSUME NEW c, ChannelSend(c) \/ ChannelReceive(c) \/ ChannelClose(c) PROVE FALSE
    <3>1. ASSUME NEW k, ParkBlockRetry(ChanOp(k, c)) PROVE FALSE
      <4>1. ChanOp(k, c).handles = {}
        BY DEF ChanOp, Wait
      <4> QED
        BY <1>2, <3>1, <4>1, Zenon DEF ParkBlockRetry
    <3> QED
      BY <1>3, <2>5, <3>1, Zenon DEF ChannelSend, ChannelReceive, ChannelClose, Returns, Traps, fiberVars
  <2>6. FiberTrap => FALSE
    BY <1>3 DEF FiberTrap, Traps, fiberVars
  <2> QED
    BY <1>5, <2>1, <2>2, <2>3, <2>4, <2>5, <2>6, Zenon DEF LocalStep
<1>6. CASE SubmitIoJob \/ FiberYield
  BY <1>4, <1>6, Zenon DEF SubmitIoJob, ParkAwait, FiberYield
<1>7. ASSUME NEW g \in Handles,
             RegisterSocket(g) \/ DeregisterSocket(g) \/ SocketProceeds(g) \/ SocketWouldBlock(g)
      PROVE  h \notin able'
  <2>1. RegisterSocket(g) \/ DeregisterSocket(g) => FALSE
    BY <1>3, Zenon DEF RegisterSocket, DeregisterSocket, SocketOpen, SocketClose, fiberVars
  <2>2. SocketProceeds(g) => FALSE
    BY <1>3, Zenon DEF SocketProceeds, SocketCall, Returns, Suspends
  <2>3. SocketWouldBlock(g) => h = g /\ g \notin able'
    <3>1. SocketWouldBlock(g) => Suspends(SocketOp(g)) /\ g \notin able'
      BY <1>3, Zenon DEF SocketWouldBlock, SocketCall, Returns, netVars
    <3> QED
      <4>1. SocketOp(g).handles = {g}
        BY Zenon DEF SocketOp, Wait
      <4> QED
        BY <1>2, <3>1, <4>1, Zenon
  <2> QED
    BY <1>7, <2>1, <2>2, <2>3, Zenon
<1>8. ASSUME NEW o \in Selects, SelectStep(o) PROVE h \notin able'
  <2>1. Suspends(o)
    BY <1>3, <1>8, Zenon DEF SelectStep, FiberSelect, Returns
  <2>2. phase' # "run" /\ able' = able
    BY <1>8, <2>1, Zenon DEF SelectStep, Suspends, netVars
  <2>3. o.handles \cap able = {}
    BY <1>8, <2>2 DEF SelectStep
  <2> QED
    BY <1>2, <2>1, <2>2, <2>3
<1>9. FiberDone => FALSE
  BY <1>3, Zenon DEF FiberDone
<1>10. DriveDriverStep \/ PollDisturbed => FALSE
  BY Zenon DEF DriveDriverStep, DriverLocalStep, NextReady, BeginPoll, BeginRecv, BeginSleep, NothingPending,
         Idle, PollEvent, DeliverCompletion, SleepEnds, WakeDueTimers, PollWait, PollDisturbed,
         PollReturns, PollFails, Drain, Recv
<1>11. (\E w \in Workers : WorkerStep(w)) \/ (\E g \in Handles : KernelReady(g)) => FALSE
  BY <1>3, Zenon DEF WorkerStep, KernelReady, vars, fiberVars
<1>12. DriveTick \/ DriveHalted \/ UNCHANGED driveAllVars => FALSE
  BY <1>3, Zenon DEF DriveTick, DriveHalted, Tick, Halted, driveAllVars, vars, fiberVars
<1> QED
  BY <1>5, <1>6, <1>7, <1>8, <1>9, <1>10, <1>11, <1>12 DEF DriveNext, DriveFiberStep

(***************************************************************************)
(* An event leaves the poller only for the driver's hands, and those only  *)
(* by waking every fiber parked on its socket.                             *)
(***************************************************************************)
LEMMA EdgesKept ==
  ASSUME EventsWoken, [DriveNext]_driveAllVars, NEW h \in Handles, h \in able',
         poll_blocked \in [Handles -> Seq(Fiber)]
  PROVE  \/ h \in edges' \/ Polled(h)' = {}
         \/ h \in able /\ (h \in edges \cup events => h \in edges' \cup events')
<1> DEFINE Goal == \/ h \in edges' \/ Polled(h)' = {}
                   \/ h \in able /\ (h \in edges \cup events => h \in edges' \cup events')
<1>1. CASE UNCHANGED <<edges, events>> /\ able' \subseteq able
  BY <1>1
<1>2. CASE DriveFiberStep
  <2>1. CASE LocalStep /\ UNCHANGED <<poolVars, netVars>>
    BY <1>1, <2>1, OwesNothing DEF NativeStep, netVars
  <2>2. CASE SubmitIoJob
    BY <1>1, <2>2 DEF SubmitIoJob, ParkAwait, Suspends, netVars
  <2>3. ASSUME NEW g \in Handles, RegisterSocket(g) \/ SocketProceeds(g) \/ SocketWouldBlock(g)
        PROVE  Goal
    <3>1. events' = events
      BY <2>3, OwesNothing DEF NativeStep, RegisterSocket, SocketProceeds, SocketWouldBlock
    <3>2. edges' = edges /\ able' \subseteq able
      BY <2>3 DEF RegisterSocket, SocketProceeds, SocketWouldBlock, netVars
    <3> QED
      BY <1>1, <3>1, <3>2
  <2>4. ASSUME NEW g \in Handles, DeregisterSocket(g) PROVE Goal
    <3>1. events' = events
      BY <2>4, OwesNothing DEF NativeStep, DeregisterSocket
    <3> QED
      BY <2>4, <3>1 DEF DeregisterSocket
  <2>5. ASSUME NEW o \in Selects, SelectStep(o) PROVE Goal
    BY <1>1, <2>5, OwesNothing, Zenon DEF NativeStep, SelectStep, netVars
  <2>6. CASE (FiberYield \/ FiberDone) /\ UNCHANGED netVars
    BY <1>1, <2>6, OwesNothing DEF NativeStep, netVars
  <2> QED
    BY <1>2, <2>1, <2>2, <2>3, <2>4, <2>5, <2>6 DEF DriveFiberStep
<1>3. ASSUME NEW g \in Handles, PollEvent(g), UNCHANGED netVars PROVE Goal
  <2>1. events' = events \ {g} /\ UNCHANGED <<edges, able>>
    BY <1>3 DEF PollEvent, netVars
  <2>2. h = g => Polled(h)' = {}
    BY <1>3, EmptyRange DEF PollEvent, WakePoll, Polled
  <2> QED
    BY <2>1, <2>2
<1>4. CASE DriverLocalStep
  <2>1. CASE IdleStep /\ UNCHANGED netVars
    BY <1>1, <2>1, OwesNothing DEF netVars
  <2>2. CASE DeliverCompletion /\ UNCHANGED netVars
    BY <1>1, <2>2 DEF DeliverCompletion, netVars
  <2> QED
    BY <1>3, <1>4, <2>1, <2>2 DEF DriverLocalStep, IdleStep
<1>5. CASE PollWait
  BY <1>5 DEF PollWait, PollReturns, EventsWoken
<1>6. CASE PollDisturbed
  BY <1>1, <1>6 DEF PollDisturbed, PollReturns, PollFails, Traps, EventsWoken, netVars
<1>7. CASE Drain \/ Recv
  BY <1>1, <1>7 DEF Drain, Recv, BeginDelivery, netVars
<1>8. ASSUME NEW w \in Workers, WorkerStep(w) PROVE Goal
  BY <1>1, <1>8 DEF WorkerStep, WorkerRuns, WakePoller, vars, driveVars, netVars
<1>9. ASSUME NEW g \in Handles, KernelReady(g) PROVE Goal
  BY <1>9 DEF KernelReady, vars, driveVars
<1>10. CASE DriveTick \/ DriveHalted \/ UNCHANGED driveAllVars
  BY <1>1, <1>10 DEF DriveTick, DriveHalted, Tick, Halted, driveAllVars, vars, driveVars, netVars
<1> QED
  BY <1>2, <1>4, <1>5, <1>6, <1>7, <1>8, <1>9, <1>10 DEF DriveNext, DriveDriverStep

(***************************************************************************)
(* No step loses an edge.                                                  *)
(***************************************************************************)
LEMMA EdgeStep ==
  ASSUME Inv, Inv', PoolInv, EventsWoken, NoLostEdge, [DriveNext]_driveAllVars
  PROVE  NoLostEdge'
<1> SUFFICES ASSUME NEW h \in Handles, NEW f \in Fiber, f \in Polled(h)', Parked(f)', h \in able'
             PROVE  h \in edges' \cup events'
  BY DEF NoLostEdge
<1>1. h \in op'[f].handles
  BY Zenon DEF Inv, Core, ListsMatchWaits
<1>2. [Next]_vars
  BY StepRefines
<1>3. StaysParked(f)
  BY <1>1, <1>2, WhoParks, ParksOnSilent, Zenon
<1>4. Parked(f) /\ f \in Polled(h)
  BY <1>1, <1>3, Zenon DEF StaysParked, Inv, Core, ListsMatchWaits
<1>5. \/ h \in edges'
      \/ h \in able /\ (h \in edges \cup events => h \in edges' \cup events')
  BY EdgesKept, Zenon DEF Inv, Core, CoreType
<1> QED
  BY <1>4, <1>5 DEF NoLostEdge

-----------------------------------------------------------------------------
(* The theorems.                                                           *)

(***************************************************************************)
(* The invariant holds at the start.                                       *)
(***************************************************************************)
LEMMA DriveInitInv == DriveInit => DriveInv
<1> SUFFICES ASSUME DriveInit PROVE DriveInv
  OBVIOUS
<1>1. Inv
  BY InitInv DEF DriveInit
<1>2. /\ jobs = <<>> /\ done = <<>> /\ completions = <<>> /\ events = {} /\ able = {}
      /\ worker = [w \in Workers |-> "idle"] /\ running = [w \in Workers |-> NoFiber]
      /\ pending = [f \in Fiber |-> FALSE] /\ NoFiber \notin Fiber
  BY DEF DriveInit, Init, NoFiber, Fiber
<1>3. OnWorkers = {} /\ InFlight = {}
  BY <1>2, EmptyRange DEF OnWorkers, InFlight
<1>4. PoolInv
  <2>1. PoolType
    BY <1>2 DEF PoolType
  <2>2. Apart
    BY <1>2, <1>3, EmptyRange DEF Apart
  <2>3. Counted
    BY <1>2, <1>3 DEF Counted
  <2> QED
    BY <2>1, <2>2, <2>3 DEF PoolInv
<1> QED
  BY <1>1, <1>2, <1>4 DEF DriveInv, EventsWoken, NoLostEdge, WakeupOwed

(***************************************************************************)
(* Every step keeps it, and is one the scheduler allows.                   *)
(***************************************************************************)
LEMMA DriveNextInv == DriveInv /\ [DriveNext]_driveAllVars => DriveInv' /\ [Next]_vars
<1> SUFFICES ASSUME DriveInv, [DriveNext]_driveAllVars PROVE DriveInv' /\ [Next]_vars
  OBVIOUS
<1>1. Inv /\ PoolInv /\ EventsWoken /\ NoLostEdge /\ WakeupOwed
  BY DEF DriveInv
<1>2. [Next]_vars
  BY <1>1, StepRefines
<1>3. Inv'
  BY <1>1, <1>2, NextInv
<1>4. PoolInv' /\ EventsWoken' /\ NoLostEdge' /\ WakeupOwed'
  BY <1>1, <1>3, PoolStep, EventsStep, EdgeStep, WakeupStep
<1> QED
  BY <1>2, <1>3, <1>4 DEF DriveInv

(***************************************************************************)
(* The invariant holds in every reachable state.                           *)
(***************************************************************************)
THEOREM DriveInvariance == DriveSpec => []DriveInv
  BY DriveInitInv, DriveNextInv, PTL DEF DriveSpec

(***************************************************************************)
(* The pool, the poller and the kernel implement the open world of the     *)
(* scheduler: whatever the workers and the kernel do, and in whatever      *)
(* order, the driver takes a completion only for a fiber that waits for    *)
(* it, once, so every theorem on Spec holds of the whole.                  *)
(***************************************************************************)
THEOREM Refinement == DriveSpec => ImplementsScheduler
<1>1. DriveInit => Init
  BY DEF DriveInit
<1> QED
  BY <1>1, DriveInitInv, DriveNextInv, PTL DEF DriveSpec, Spec, ImplementsScheduler

(***************************************************************************)
(* How often a fiber occurs in a queue without repetition.                 *)
(***************************************************************************)
LEMMA TimesOnce ==
  ASSUME NEW q \in Seq(Fiber), IsInjective(q), NEW f
  PROVE  Times(f, q) = IF f \in Range(q) THEN 1 ELSE 0
<1> DEFINE P == {i \in DOMAIN q : q[i] = f}
<1>1. CASE f \in Range(q)
  <2>1. PICK i \in DOMAIN q : q[i] = f
    BY <1>1 DEF Range
  <2>2. P = {i}
    BY <2>1 DEF IsInjective
  <2> QED
    BY <1>1, <2>2, FS_Singleton, Zenon DEF Times
<1>2. CASE f \notin Range(q)
  <2>1. P = {}
    BY <1>2 DEF Range
  <2> QED
    BY <1>2, <2>1, FS_EmptySet, Zenon DEF Times
<1> QED
  BY <1>1, <1>2

(***************************************************************************)
(* No result is lost, doubled or given to another fiber.                   *)
(***************************************************************************)
THEOREM NoJobLost == DriveSpec => []JobsAccounted
<1>1. ASSUME DriveInv PROVE JobsAccounted
  <2> SUFFICES ASSUME ~ AllDead, NEW f \in Fiber
               PROVE  Times(f, jobs) + Times(f, done) + Times(f, completions)
                        + Cardinality({w \in Workers : running[w] = f}) = IF pending[f] THEN 1 ELSE 0
    BY Zenon DEF JobsAccounted
  <2>1. PoolType /\ Apart /\ Counted /\ completions \in Seq(Fiber) /\ IsInjective(completions)
    BY <1>1 DEF DriveInv, PoolInv, Inv, RestType, Owed
  <2>2. Cardinality({w \in Workers : running[w] = f}) = IF f \in OnWorkers THEN 1 ELSE 0
    <3>1. CASE f \in OnWorkers
      <4>1. PICK w \in Workers : running[w] = f
        BY <3>1 DEF OnWorkers
      <4>2. {v \in Workers : running[v] = f} = {w}
        BY <2>1, <4>1 DEF Apart
      <4> QED
        BY <3>1, <4>2, FS_Singleton, Zenon
    <3>2. CASE f \notin OnWorkers
      <4>1. {v \in Workers : running[v] = f} = {}
        BY <3>2 DEF OnWorkers
      <4> QED
        BY <3>2, <4>1, FS_EmptySet
    <3> QED
      BY <3>1, <3>2
  <2>3. /\ Times(f, jobs) = IF f \in Range(jobs) THEN 1 ELSE 0
        /\ Times(f, done) = IF f \in Range(done) THEN 1 ELSE 0
        /\ Times(f, completions) = IF f \in Range(completions) THEN 1 ELSE 0
    BY <2>1, TimesOnce DEF PoolType, Apart
  <2>4. pending[f] <=> f \in InFlight
    BY <2>1, Zenon DEF Counted
  <2>5. f \in InFlight <=> \/ f \in Range(jobs) \/ f \in Range(done) \/ f \in Range(completions)
                            \/ f \in OnWorkers
    BY DEF InFlight
  <2>6. /\ f \in Range(jobs) => f \notin Range(done) /\ f \notin Range(completions) /\ f \notin OnWorkers
        /\ f \in Range(done) => f \notin Range(completions) /\ f \notin OnWorkers
        /\ f \in Range(completions) => f \notin OnWorkers
    BY <2>1 DEF Apart
  <2> HIDE DEF Times
  <2>7. CASE f \in Range(jobs)
    <3>1. /\ Times(f, jobs) = 1 /\ Times(f, done) = 0 /\ Times(f, completions) = 0
          /\ Cardinality({w \in Workers : running[w] = f}) = 0
      BY <2>2, <2>3, <2>6, <2>7, Zenon
    <3>2. pending[f]
      BY <2>4, <2>5, <2>7, Zenon
    <3> QED
      BY <3>1, <3>2
  <2>8. CASE f \in Range(done)
    <3>1. /\ Times(f, jobs) = 0 /\ Times(f, done) = 1 /\ Times(f, completions) = 0
          /\ Cardinality({w \in Workers : running[w] = f}) = 0
      BY <2>2, <2>3, <2>6, <2>8, Zenon
    <3>2. pending[f]
      BY <2>4, <2>5, <2>8, Zenon
    <3> QED
      BY <3>1, <3>2
  <2>9. CASE f \in Range(completions)
    <3>1. /\ Times(f, jobs) = 0 /\ Times(f, done) = 0 /\ Times(f, completions) = 1
          /\ Cardinality({w \in Workers : running[w] = f}) = 0
      BY <2>2, <2>3, <2>6, <2>9, Zenon
    <3>2. pending[f]
      BY <2>4, <2>5, <2>9, Zenon
    <3> QED
      BY <3>1, <3>2
  <2>10. CASE f \in OnWorkers
    <3>1. /\ Times(f, jobs) = 0 /\ Times(f, done) = 0 /\ Times(f, completions) = 0
          /\ Cardinality({w \in Workers : running[w] = f}) = 1
      BY <2>2, <2>3, <2>6, <2>10, Zenon
    <3>2. pending[f]
      BY <2>4, <2>5, <2>10, Zenon
    <3> QED
      BY <3>1, <3>2
  <2>11. CASE /\ f \notin Range(jobs) /\ f \notin Range(done)
              /\ f \notin Range(completions) /\ f \notin OnWorkers
    <3>1. /\ Times(f, jobs) = 0 /\ Times(f, done) = 0 /\ Times(f, completions) = 0
          /\ Cardinality({w \in Workers : running[w] = f}) = 0
      BY <2>2, <2>3, <2>6, <2>11, Zenon
    <3>2. ~ pending[f]
      BY <2>4, <2>5, <2>11, Zenon
    <3> QED
      BY <3>1, <3>2
  <2> QED
    BY <2>7, <2>8, <2>9, <2>10, <2>11, Zenon
<1> QED
  BY <1>1, DriveInvariance, PTL

(***************************************************************************)
(* No readiness event is lost to a fiber parked on its socket.             *)
(***************************************************************************)
THEOREM NoEdgeLost == DriveSpec => []NoLostEdge
<1>1. DriveInv => NoLostEdge
  BY DEF DriveInv
<1> QED
  BY <1>1, DriveInvariance, PTL

(***************************************************************************)
(* A program that opens a socket before its first syscall never leaves the *)
(* driver blocked in poll() on a finished syscall.                         *)
(***************************************************************************)
THEOREM CompletionsInterrupt == DriveSpec => [](PollerFirst => CompletionInterruptsPoll)
<1>1. DriveInv => (PollerFirst => CompletionInterruptsPoll)
  BY DEF DriveInv, WakeupOwed, CompletionInterruptsPoll
<1> QED
  BY <1>1, DriveInvariance, PTL

(***************************************************************************)
(* With the pool, the poller and the kernel, too, no wake-up is lost,      *)
(* every reported deadlock is real, and the driver's impossible arms are   *)
(* never taken.                                                            *)
(***************************************************************************)
THEOREM DriveSafety == DriveSpec => [](NoLostWakeup /\ DeadlockIsReal /\ NoImpossibleArm)
<1>1. Safe => NoLostWakeup /\ DeadlockIsReal /\ NoImpossibleArm
  BY DEF Safe
<1> QED
  BY <1>1, Refinement, Safety, PTL DEF ImplementsScheduler
=============================================================================
