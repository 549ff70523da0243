-------------------------------- MODULE Drive --------------------------------
(***************************************************************************)
(* The scheduler closed with what it waits for: the pool of worker threads *)
(* that runs blocking syscalls, the readiness poller and its waker, and    *)
(* the kernel's edge-triggered socket readiness.                           *)
(*                                                                         *)
(* Threads: the Thera thread (fibers and driver), and one per worker.      *)
(***************************************************************************)
EXTENDS Scheduler

CONSTANTS
  Workers,      \* the pool's threads (WORKER_COUNT)
  EventBuffer,  \* events one poll() returns at most (Events::with_capacity)
  Fuel,         \* bound: natives a fiber calls, yields not counted
  MayPanic,     \* may a worker's job panic?
  PollerFirst   \* only programs that open a socket before their first syscall?

ASSUME DriveAssumption ==
  /\ IsFiniteSet(Workers) /\ Workers # {}
  /\ EventBuffer \in Nat \ {0}
  /\ Fuel \in Nat
  /\ MayPanic \in BOOLEAN /\ PollerFirst \in BOOLEAN

VARIABLES
  fuel,     \* natives each fiber may still call
  jobs,     \* the queue job_tx -> job_rx, by issuing fiber
  worker,   \* each worker's place in its loop
  running,  \* the fiber whose job it runs
  done,     \* the queue done_tx -> done_rx
  poller,   \* POLLER, REGISTRY and WAKER are Some
  woken,    \* the waker's event is pending in the poller
  edges,    \* sockets with a readiness event pending in the poller
  able      \* sockets whose next syscall would not block

poolVars == <<jobs, worker, running, done>>
netVars == <<poller, woken, edges, able>>
driveAllVars == <<vars, fuel, poolVars, netVars>>

DriveInit ==
  /\ Init
  /\ fuel = [f \in Fiber |-> Fuel]
  /\ jobs = <<>> /\ done = <<>>
  /\ worker = [w \in Workers |-> "idle"]
  /\ running = [w \in Workers |-> NoFiber]
  /\ poller = FALSE /\ woken = FALSE
  /\ edges = {} /\ able = {}

AllDead == \A w \in Workers : worker[w] = "dead"

-----------------------------------------------------------------------------
(* The Thera thread: fibers.                                               *)

\* A fresh call uses fuel; running a parked call again does not.
Burn ==
  /\ phase = "run"
  /\ IF op[current] = NoOp
     THEN fuel[current] > 0 /\ fuel' = [fuel EXCEPT ![current] = @ - 1]
     ELSE UNCHANGED fuel

LocalStep ==
  \/ FiberSpawn
  \/ \E t \in Fiber : FiberJoin(t)
  \/ \E d \in Time : TimeSleep(d)
  \/ \E n \in Capacities : ChannelNew(n)
  \/ \E c \in DOMAIN channels : ChannelSend(c) \/ ChannelReceive(c) \/ ChannelClose(c)
  \/ FiberTrap

\* submit_io_job: with every worker gone the send fails, and that is ignored.
SubmitIoJob ==
  /\ PollerFirst => poller
  /\ ParkAwait
  /\ jobs' = IF AllDead THEN jobs ELSE Append(jobs, current)
  /\ UNCHANGED <<worker, running, done, netVars>>

\* register_socket creates the poller with the first socket.
RegisterSocket(h) ==
  /\ SocketOpen(h)
  /\ poller' = TRUE
  /\ UNCHANGED <<poolVars, woken, edges, able>>

\* A call succeeds when the socket is able to, and may use that up.
SocketProceeds(h) ==
  /\ SocketCall(h) /\ phase' = "run"
  /\ sockets[h] = "closed" \/ h \in able
  /\ able' \in {able, able \ {h}}
  /\ UNCHANGED <<poolVars, poller, woken, edges>>

SocketWouldBlock(h) ==
  /\ h \notin able
  /\ SocketCall(h) /\ phase' = "pick"
  /\ UNCHANGED <<poolVars, netVars>>

\* The probe of select is a peek: it uses nothing up.
SelectStep(o) ==
  /\ FiberSelect(o)
  /\ phase' = "run" <=> (SourceReady(o) \/ o.handles \cap able # {})
  /\ UNCHANGED <<poolVars, netVars>>

\* Deregistered, a socket has no more events.
DeregisterSocket(h) ==
  /\ SocketClose(h)
  /\ edges' = edges \ {h}
  /\ able' = able \ {h}
  /\ UNCHANGED <<poolVars, poller, woken>>

DriveFiberStep ==
  \/ Burn /\ LocalStep /\ UNCHANGED <<poolVars, netVars>>
  \/ Burn /\ SubmitIoJob
  \/ Burn /\ \E h \in Handles : \/ RegisterSocket(h) \/ DeregisterSocket(h)
                                \/ SocketProceeds(h) \/ SocketWouldBlock(h)
  \/ Burn /\ \E o \in Selects : SelectStep(o)
  \/ FiberYield /\ UNCHANGED <<fuel, poolVars, netVars>>
  \/ FiberDone /\ UNCHANGED <<fuel, poolVars, netVars>>

-----------------------------------------------------------------------------
(* The Thera thread: the driver.                                           *)

DriverLocalStep ==
  /\ \/ NextReady \/ BeginPoll \/ BeginRecv \/ BeginSleep \/ NothingPending
     \/ (\E h \in Handles : PollEvent(h)) \/ DeliverCompletion \/ SleepEnds
     \/ WakeDueTimers
  /\ UNCHANGED <<fuel, poolVars, netVars>>

\* poll() blocks until a socket event, the waker, or the earliest deadline.  It takes
\* what is pending, or as much of it as fits the buffer.
PollWait ==
  /\ edges # {} \/ woken \/ Due # {}
  /\ PollReturns
  /\ events' \subseteq edges
  /\ edges' = edges \ events'
  /\ woken' \in {FALSE, woken}
  /\ LET taken == Cardinality(events') + IF woken /\ ~ woken' THEN 1 ELSE 0 IN
     /\ taken =< EventBuffer
     /\ taken = EventBuffer \/ (edges' = {} /\ ~ woken')
  /\ UNCHANGED <<fuel, poolVars, poller, able>>

PollDisturbed_EatsEvents ==
  /\ \/ PollFails
     \/ PollReturns /\ events' = {}
  /\ edges' = {}
  /\ UNCHANGED <<fuel, poolVars, poller, woken, able>>

\* poll() fails, or a signal interrupts it: no events, and what is pending stays.
PollDisturbed ==
  /\ \/ PollFails
     \/ PollReturns /\ events' = {}
  /\ UNCHANGED <<fuel, poolVars, netVars>>

Drain_LeavesQueue ==
  /\ phase = "events" /\ events = {}
  /\ BeginDelivery
  /\ completions' = done
  /\ UNCHANGED <<fuel, poolVars, netVars>>

Drain ==
  /\ phase = "events" /\ events = {}
  /\ BeginDelivery
  /\ completions' = done /\ done' = <<>>
  /\ UNCHANGED <<fuel, jobs, worker, running, netVars>>

\* recv fails at once when every worker, and so every sender, is gone.
Recv ==
  /\ phase = "recv"
  /\ done # <<>> \/ Due # {} \/ AllDead
  /\ BeginDelivery
  /\ completions' = done /\ done' = <<>>
  /\ UNCHANGED <<fuel, jobs, worker, running, netVars>>

DriveDriverStep == DriverLocalStep \/ PollWait \/ Drain \/ Recv

-----------------------------------------------------------------------------
(* The worker threads.  The pool outlives its use only until the run ends. *)

WorkerTake(w) ==
  /\ worker[w] = "idle" /\ jobs # <<>>
  /\ worker' = [worker EXCEPT ![w] = "running"]
  /\ running' = [running EXCEPT ![w] = Head(jobs)]
  /\ jobs' = Tail(jobs)
  /\ UNCHANGED done

\* The job returns and its payload is sent; the waker comes after.
WorkerSend(w) ==
  /\ worker[w] = "running"
  /\ worker' = [worker EXCEPT ![w] = "waking"]
  /\ running' = [running EXCEPT ![w] = NoFiber]
  /\ done' = Append(done, running[w])
  /\ UNCHANGED jobs

WakePoller_Forgets(w) ==
  /\ worker[w] = "waking"
  /\ worker' = [worker EXCEPT ![w] = "idle"]
  /\ UNCHANGED <<jobs, running, done, netVars>>

\* wake_poller: nothing to wake while there is no poller.
WakePoller(w) ==
  /\ worker[w] = "waking"
  /\ worker' = [worker EXCEPT ![w] = "idle"]
  /\ woken' = (woken \/ poller)
  /\ UNCHANGED <<jobs, running, done, poller, edges, able>>

\* The thread unwinds and takes its job's result with it.
WorkerPanic(w) ==
  /\ MayPanic
  /\ worker[w] = "running"
  /\ worker' = [worker EXCEPT ![w] = "dead"]
  /\ UNCHANGED <<jobs, running, done>>

WorkerRuns(w) ==
  \/ (WorkerTake(w) \/ WorkerSend(w)) /\ UNCHANGED netVars
  \/ WakePoller(w)

WorkerStep(w) ==
  /\ phase # "halt"
  /\ \/ WorkerRuns(w)
     \/ WorkerPanic(w) /\ UNCHANGED netVars
  /\ UNCHANGED <<vars, fuel>>

-----------------------------------------------------------------------------
\* The kernel: data, room, a connection or an end of file arrives.
KernelReady(h) ==
  /\ phase # "halt" /\ sockets[h] = "open"
  /\ able' = able \cup {h}
  /\ edges' = edges \cup {h}
  /\ UNCHANGED <<vars, fuel, poolVars, poller, woken>>

DriveTick == Tick /\ UNCHANGED <<fuel, poolVars, netVars>>

DriveHalted == Halted /\ UNCHANGED <<fuel, poolVars, netVars>>

DriveNext ==
  \/ DriveFiberStep
  \/ DriveDriverStep \/ PollDisturbed
  \/ \E w \in Workers : WorkerStep(w)
  \/ \E h \in Handles : KernelReady(h)
  \/ DriveTick \/ DriveHalted

DriveSpec == DriveInit /\ [][DriveNext]_driveAllVars

(***************************************************************************)
(* The Thera thread runs whenever it can; a worker thread runs, and the    *)
(* syscall it is in ends; time passes; signals do not disturb every single *)
(* poll().  The kernel owes nothing else: a peer may stay silent.          *)
(***************************************************************************)
FairDriveSpec ==
  /\ DriveSpec
  /\ WF_driveAllVars(DriveFiberStep)
  /\ WF_driveAllVars(DriveDriverStep)
  /\ SF_driveAllVars(PollWait)
  /\ \A w \in Workers : WF_driveAllVars(WorkerStep(w))
  /\ WF_driveAllVars(DriveTick)

-----------------------------------------------------------------------------
\* The workers, the queues between the threads and the poller hold fibers and
\* sockets that exist.
DriveTypeOK ==
  /\ fuel \in [Fiber -> 0 .. Fuel]
  /\ jobs \in Seq(Fiber) /\ done \in Seq(Fiber)
  /\ worker \in [Workers -> {"idle", "running", "waking", "dead"}]
  /\ running \in [Workers -> Fiber \cup {NoFiber}]
  /\ poller \in BOOLEAN /\ woken \in BOOLEAN
  /\ edges \subseteq Handles /\ able \subseteq Handles

(***************************************************************************)
(* The pool and the poller keep the scheduler's promises: to the           *)
(* scheduler, every step of a worker, the kernel and the driver's waits is *)
(* one it allows, so a completion is taken only for a fiber that waits for *)
(* it and only once (take_pending's expect, mod.rs:693, never fails).      *)
(***************************************************************************)
ImplementsScheduler == Spec

\* How many times fiber f occurs in the queue q.
Times(f, q) == Cardinality({i \in DOMAIN q : q[i] = f})

(***************************************************************************)
(* A syscall's result is never lost, doubled or given to another fiber: a  *)
(* fiber waiting in a syscall has exactly one job queued, running, done or *)
(* about to be delivered, or dead with the worker that panicked in it, and *)
(* no other fiber has any.  (With every worker dead, jobs are dropped.)    *)
(***************************************************************************)
JobsAccounted ==
  ~ AllDead => \A f \in Fiber :
    Times(f, jobs) + Times(f, done) + Times(f, completions)
      + Cardinality({w \in Workers : running[w] = f}) = IF pending[f] THEN 1 ELSE 0

(***************************************************************************)
(* With edge-triggered readiness a missed event is never repeated, so it   *)
(* matters that none is dropped: when a socket could serve a fiber parked  *)
(* on it, the event is still pending, or already taken for waking.         *)
(***************************************************************************)
NoLostEdge ==
  \A h \in Handles, f \in Fiber :
    f \in Polled(h) /\ Parked(f) /\ h \in able => h \in edges \cup events

(***************************************************************************)
(* "A completion interrupts the poll through the Waker" (mod.rs:1251): the *)
(* driver never blocks in poll() on a finished syscall without a wake-up   *)
(* pending or about to be made by the worker that finished it.             *)
(***************************************************************************)
CompletionInterruptsPoll ==
  phase = "poll" /\ done # <<>> => woken \/ \E w \in Workers : worker[w] = "waking"

\* No fiber can go on until a peer answers on a socket, and none of those has.
OnlySilentPeers ==
  /\ phase # "run" /\ completions = <<>> /\ ready = <<>> /\ timers = <<>> /\ io_blocked = 0
  /\ \E h \in Handles : poll_blocked[h] # <<>>
  /\ \A h \in able : poll_blocked[h] = <<>>

(***************************************************************************)
(* A program of finitely many calls ends: main returns, something traps or *)
(* the deadlock is reported, unless it is left waiting for peers that stay *)
(* silent.  The driver neither hangs on a source that has fired nor spins. *)
(* Timers and completions wait for the ready queue to empty (mod.rs:1232), *)
(* so this is said of programs whose fibers do not yield for ever.         *)
(***************************************************************************)
RunEnds ==
  <>[][~FiberYield]_driveAllVars => <>[](phase = "halt" \/ OnlySilentPeers)

(***************************************************************************)
(* A fiber that sleeps, or waits in a syscall, goes on at last, unless the *)
(* run ends first.                                                         *)
(***************************************************************************)
WaitsEnd ==
  \A f \in Fiber :
    (Parked(f) /\ op[f].kind \in {"sleep", "await"}) ~> (~ Parked(f) \/ phase = "halt")

(***************************************************************************)
(* submit_io_job's comment (mod.rs:1017): when the workers have panicked,  *)
(* "the driver's `recv` will then see the disconnect and surface a         *)
(* deadlock rather than hang silently".                                    *)
(***************************************************************************)
PanicSurfaces == (AllDead /\ io_blocked > 0) ~> (phase = "halt")
=============================================================================
