------------------------------ MODULE Scheduler ------------------------------
(***************************************************************************)
(* The cooperative fiber scheduler of the Thera runtime                    *)
(* (src/runtime/src/interp/mod.rs), the natives that park a fiber, and the *)
(* driver loop that picks the next fiber or waits for the outside world.   *)
(*                                                                         *)
(* The outside world (worker pool, kernel) is left open here: any syscall  *)
(* may complete and any socket may report an event at any time.  Module    *)
(* Drive closes it with the pool, the poller and the wakers.               *)
(*                                                                         *)
(* A fiber's program is any sequence of natives; what it computes between  *)
(* two of them is not visible to the scheduler.  A buffered channel value  *)
(* is opaque too, so a channel is its length, capacity and closed flag.    *)
(*                                                                         *)
(* A definition named X_What is X with a plausible mistake; it is used     *)
(* only to see that the properties notice it.                              *)
(***************************************************************************)
EXTENDS Subsequences

CONSTANTS
  MaxFibers,    \* bound: fibers a program spawns, main included
  MaxChans,     \* bound: channels a program creates
  Capacities,   \* the capacities it asks for
  Handles,      \* the socket handles it may be given
  MaxTime,      \* bound: the clock stops here
  Ops,          \* the natives its fibers call, by name
  Selects       \* the waits it hands to fiber.select

MAIN_FIBER == 0
Fiber == 0 .. (MaxFibers - 1)
NoFiber == -1
NoDeadline == -1
Time == 0 .. MaxTime

(***************************************************************************)
(* What a fiber is waiting in: the native it parked in and the sources of  *)
(* that wait.  The natives of Reruns are executed again when the fiber     *)
(* resumes: CallNative rewinds the pc of a BlockRetry or Ready park, and   *)
(* fiber.select loops around select_park.                                  *)
(***************************************************************************)
BlockRetryOps == {"join", "send", "receive"}
Reruns == BlockRetryOps \cup {"socket", "select"}
Kinds == Reruns \cup {"none", "yield", "sleep", "await"}

Op == [kind : Kinds, joins : SUBSET Fiber, chans : SUBSET (1 .. MaxChans),
       handles : SUBSET Handles, deadline : Time \cup {NoDeadline}]

Wait(k, joins, chans, handles, deadline) ==
  [kind |-> k, joins |-> joins, chans |-> chans, handles |-> handles, deadline |-> deadline]
Plain(k) == Wait(k, {}, {}, {}, NoDeadline)
NoOp == Plain("none")
JoinOp(t) == Wait("join", {t}, {}, {}, NoDeadline)
ChanOp(k, c) == Wait(k, {}, {c}, {}, NoDeadline)
SocketOp(h) == Wait("socket", {}, {}, {h}, NoDeadline)
SleepOp(d) == Wait("sleep", {}, {}, {}, d)

NoSources == [listed |-> FALSE, timer |-> FALSE, handles |-> {}]
ParkSources == [listed : BOOLEAN, timer : BOOLEAN, handles : SUBSET Handles]

ASSUME BoundsAssumption ==
  /\ MaxFibers \in Nat \ {0}
  /\ MaxChans \in Nat
  /\ MaxTime \in Nat

ASSUME InputsAssumption ==
  /\ Capacities \subseteq Nat
  /\ Ops \subseteq STRING
  /\ Selects \subseteq {o \in Op : o.kind = "select"}

VARIABLES
  nfibers,       \* fibers.len()
  state,         \* Fiber.state, without the saved stacks
  queued,        \* Fiber.queued
  pending,       \* Fiber.pending.is_some()
  park_sources,  \* Fiber.park_sources
  op,            \* the native each fiber is inside
  ready,         \* Scheduler.ready
  blocked,       \* Scheduler.blocked
  timers,        \* Scheduler.timers
  io_blocked,    \* Scheduler.io_blocked
  poll_blocked,  \* Scheduler.poll_blocked; no entry is the empty sequence
  channels,      \* Scheduler.channels
  sockets,       \* the registry SOCKETS, per handle: unused, open or closed
  now,           \* Instant::now()
  phase,         \* where the driver loop is
  current,       \* the fiber it runs
  events,        \* handles poll_wait returned, not yet woken
  completions,   \* completions taken from the pool, not yet delivered
  outcome        \* how the run ended

fiberVars == <<nfibers, state, pending, park_sources, op>>
readyVars == <<ready, queued>>
listVars  == <<blocked, timers, io_blocked, poll_blocked>>
driveVars == <<phase, current, events, completions, outcome>>
resVars   == <<channels, sockets>>
vars == <<fiberVars, readyVars, listVars, driveVars, resVars, now>>

Chan == [len : Nat, capacity : Nat \ {0}, closed : BOOLEAN]
TimerEntry == [deadline : Time, id : Fiber]

Init ==
  /\ nfibers = 1
  /\ state = [f \in Fiber |-> IF f = MAIN_FIBER THEN "Running" ELSE "Unspawned"]
  /\ queued = [f \in Fiber |-> FALSE]
  /\ pending = [f \in Fiber |-> FALSE]
  /\ park_sources = [f \in Fiber |-> NoSources]
  /\ op = [f \in Fiber |-> NoOp]
  /\ ready = <<>> /\ blocked = <<>> /\ timers = <<>> /\ io_blocked = 0
  /\ poll_blocked = [h \in Handles |-> <<>>]
  /\ channels = <<>>
  /\ sockets = [h \in Handles |-> "unused"]
  /\ now = 0
  /\ phase = "run" /\ current = MAIN_FIBER
  /\ events = {} /\ completions = <<>> /\ outcome = "running"

-----------------------------------------------------------------------------
(* The scheduler's wake paths.                                             *)

MakeReady_NotIdempotent(w) ==
  /\ ready' = ready \o w
  /\ queued' = [f \in Fiber |-> queued[f] \/ f \in Range(w)]

\* make_ready on every fiber of w in turn: a queued fiber is left alone.
MakeReady(w) ==
  /\ ready' = ready \o FirstsOutside(w, {f \in Fiber : queued[f]})
  /\ queued' = [f \in Fiber |-> queued[f] \/ f \in Range(w)]

WakeAll_OldestOnly ==
  IF blocked = <<>> THEN UNCHANGED <<blocked, readyVars>>
  ELSE blocked' = Tail(blocked) /\ MakeReady(<<Head(blocked)>>)

WakeAll ==
  /\ blocked' = <<>>
  /\ MakeReady(blocked)

WakePoll(h) ==
  /\ poll_blocked' = [poll_blocked EXCEPT ![h] = <<>>]
  /\ MakeReady(poll_blocked[h])

Unlist_TimerKept(f) ==
  LET s == park_sources[f] IN
  /\ blocked' = IF s.listed THEN Without(blocked, f) ELSE blocked
  /\ UNCHANGED timers
  /\ poll_blocked' = [h \in Handles |-> IF h \in s.handles
                                        THEN Without(poll_blocked[h], f)
                                        ELSE poll_blocked[h]]
  /\ park_sources' = [park_sources EXCEPT ![f] = NoSources]

\* unlist: sweep a Multi park's entries when its fiber is scheduled.
Unlist(f) ==
  LET s == park_sources[f] IN
  /\ blocked' = IF s.listed THEN Without(blocked, f) ELSE blocked
  /\ timers' = IF s.timer
               THEN Keep(timers, {i \in DOMAIN timers : timers[i].id # f})
               ELSE timers
  /\ poll_blocked' = [h \in Handles |-> IF h \in s.handles
                                        THEN Without(poll_blocked[h], f)
                                        ELSE poll_blocked[h]]
  /\ park_sources' = [park_sources EXCEPT ![f] = NoSources]

-----------------------------------------------------------------------------
(* How a native ends: it returns, it parks the fiber, or it traps.         *)

\* The running fiber is between two natives.
BetweenNatives == phase = "run" /\ op[current] = NoOp

\* It calls a native that never waits.
Fresh(name) == BetweenNatives /\ name \in Ops

\* It calls o, afresh or again after the wait o.
Calls(o) ==
  /\ phase = "run"
  /\ o.kind \in Ops
  /\ op[current] \in {NoOp, o}

Returns ==
  /\ op' = [op EXCEPT ![current] = NoOp]
  /\ UNCHANGED <<nfibers, state, pending, park_sources>>

\* The interpreter hands the fiber to the driver, which saves its stacks.
Suspends(o) ==
  /\ state' = [state EXCEPT ![current] = "Suspended"]
  /\ op' = [op EXCEPT ![current] = o]
  /\ phase' = "pick" /\ current' = NoFiber
  /\ UNCHANGED <<nfibers, events, completions, outcome, resVars, now>>

ParkBlockRetry_Spins(o) ==
  /\ Suspends(o)
  /\ MakeReady(<<current>>)
  /\ UNCHANGED <<pending, park_sources, listVars>>

ParkBlockRetry(o) ==
  /\ Suspends(o)
  /\ blocked' = Append(blocked, current)
  /\ UNCHANGED <<pending, park_sources, readyVars, timers, io_blocked, poll_blocked>>

Halts(o) == phase' = "halt" /\ current' = NoFiber /\ outcome' = o

Traps ==
  /\ Halts("trap")
  /\ UNCHANGED <<fiberVars, readyVars, listVars, events, completions, resVars, now>>

-----------------------------------------------------------------------------
(* std.fiber: spawn, join, yield, sleep, select.                           *)

FiberSpawn ==
  /\ Fresh("spawn")
  /\ nfibers < MaxFibers
  /\ nfibers' = nfibers + 1
  /\ state' = [state EXCEPT ![nfibers] = "NotStarted"]
  /\ MakeReady(<<nfibers>>)
  /\ UNCHANGED <<pending, park_sources, op, listVars, driveVars, resVars, now>>

FiberJoin(t) ==
  /\ t < nfibers
  /\ Calls(JoinOp(t))
  /\ \/ /\ state[t] = "Done"
        /\ Returns
        /\ UNCHANGED <<readyVars, listVars, driveVars, resVars, now>>
     \/ /\ state[t] # "Done"
        /\ ParkBlockRetry(JoinOp(t))

FiberYield ==
  /\ Calls(Plain("yield"))
  /\ Suspends(Plain("yield"))
  /\ MakeReady(<<current>>)
  /\ UNCHANGED <<pending, park_sources, listVars>>

\* A non-positive span returns at once and changes nothing.
TimeSleep(d) ==
  /\ d > now
  /\ Calls(SleepOp(d))
  /\ Suspends(SleepOp(d))
  /\ timers' = Append(timers, [deadline |-> d, id |-> current])
  /\ UNCHANGED <<pending, park_sources, readyVars, blocked, io_blocked, poll_blocked>>

ChanReady(c) == channels[c].len > 0 \/ channels[c].closed

\* The sources a fiber can make ready, and all that are the runtime's own to know.
ProgressReady(o) ==
  \/ \E t \in o.joins : state[t] = "Done"
  \/ \E c \in o.chans : ChanReady(c)
  \/ \E h \in o.handles : sockets[h] = "closed"
SourceReady(o) ==
  \/ ProgressReady(o)
  \/ o.deadline # NoDeadline /\ o.deadline =< now

\* A source is a fiber, channel or socket the program holds.
Selectable(o) ==
  /\ \A t \in o.joins : t < nfibers
  /\ \A c \in o.chans : c =< Len(channels)
  /\ \A h \in o.handles : sockets[h] # "unused"

\* An open socket may turn out ready to the probe or not.
FiberSelect(o) ==
  /\ Selectable(o)
  /\ Calls(o)
  /\ \/ /\ SourceReady(o) \/ o.handles # {}
        /\ Returns
        /\ UNCHANGED <<readyVars, listVars, driveVars, resVars, now>>
     \/ /\ ~ SourceReady(o)
        /\ Suspends(o)
        /\ blocked' = Append(blocked, current)
        /\ timers' = IF o.deadline = NoDeadline THEN timers
                     ELSE Append(timers, [deadline |-> o.deadline, id |-> current])
        /\ poll_blocked' = [h \in Handles |-> IF h \in o.handles
                                              THEN Append(poll_blocked[h], current)
                                              ELSE poll_blocked[h]]
        /\ park_sources' = [park_sources EXCEPT ![current] =
             [listed |-> TRUE, timer |-> o.deadline # NoDeadline, handles |-> o.handles]]
        /\ UNCHANGED <<pending, readyVars, io_blocked>>

-----------------------------------------------------------------------------
(* Channels.                                                               *)

ChannelNew(capacity) ==
  /\ Fresh("channel")
  /\ Len(channels) < MaxChans
  /\ channels' = Append(channels, [len |-> 0, closed |-> FALSE,
                                   capacity |-> IF capacity < 1 THEN 1 ELSE capacity])
  /\ UNCHANGED <<fiberVars, readyVars, listVars, driveVars, sockets, now>>

\* Channel c with n buffered values.
SetChan(c, n, closed) ==
  [channels EXCEPT ![c] = [len |-> n, capacity |-> channels[c].capacity, closed |-> closed]]

HasRoom_OffByOne(c) == channels[c].len =< channels[c].capacity

HasRoom(c) == channels[c].len < channels[c].capacity

ChannelSend(c) ==
  /\ Calls(ChanOp("send", c))
  /\ \/ /\ channels[c].closed
        /\ Traps
     \/ /\ ~ channels[c].closed
        /\ HasRoom(c)
        /\ channels' = SetChan(c, channels[c].len + 1, FALSE)
        /\ WakeAll
        /\ Returns
        /\ UNCHANGED <<timers, io_blocked, poll_blocked, driveVars, sockets, now>>
     \/ /\ ~ channels[c].closed
        /\ ~ HasRoom(c)
        /\ ParkBlockRetry(ChanOp("send", c))

ChannelReceive_Unchecked(c) ==
  /\ Calls(ChanOp("receive", c))
  /\ channels' = SetChan(c, channels[c].len - 1, channels[c].closed)
  /\ WakeAll
  /\ Returns
  /\ UNCHANGED <<timers, io_blocked, poll_blocked, driveVars, sockets, now>>

ChannelReceive(c) ==
  /\ Calls(ChanOp("receive", c))
  /\ \/ /\ channels[c].len > 0
        /\ channels' = SetChan(c, channels[c].len - 1, channels[c].closed)
        /\ WakeAll
        /\ Returns
        /\ UNCHANGED <<timers, io_blocked, poll_blocked, driveVars, sockets, now>>
     \/ /\ channels[c].len = 0
        /\ channels[c].closed
        /\ Returns
        /\ UNCHANGED <<readyVars, listVars, driveVars, resVars, now>>
     \/ /\ channels[c].len = 0
        /\ ~ channels[c].closed
        /\ ParkBlockRetry(ChanOp("receive", c))

ChannelClose(c) ==
  /\ Fresh("close")
  /\ channels' = SetChan(c, channels[c].len, TRUE)
  /\ WakeAll
  /\ UNCHANGED <<fiberVars, timers, io_blocked, poll_blocked, driveVars, sockets, now>>

-----------------------------------------------------------------------------
(* Blocking syscalls and sockets.                                          *)

ParkAwait_NotCounted ==
  /\ Calls(Plain("await"))
  /\ Suspends(Plain("await"))
  /\ pending' = [pending EXCEPT ![current] = TRUE]
  /\ UNCHANGED <<park_sources, readyVars, blocked, timers, io_blocked, poll_blocked>>

\* park_io: the driver counts the fiber and submits its job to the pool.
ParkAwait ==
  /\ Calls(Plain("await"))
  /\ Suspends(Plain("await"))
  /\ pending' = [pending EXCEPT ![current] = TRUE]
  /\ io_blocked' = io_blocked + 1
  /\ UNCHANGED <<park_sources, readyVars, blocked, timers, poll_blocked>>

\* listen, connect, accept: a new handle enters the registry.
SocketOpen(h) ==
  /\ Fresh("socket")
  /\ sockets[h] = "unused"
  /\ sockets' = [sockets EXCEPT ![h] = "open"]
  /\ UNCHANGED <<fiberVars, readyVars, listVars, driveVars, channels, now>>

\* accept, connect_finish, read, write: the syscall succeeds or would block.
SocketCall(h) ==
  /\ sockets[h] # "unused"
  /\ Calls(SocketOp(h))
  /\ \/ /\ Returns
        /\ UNCHANGED <<readyVars, listVars, driveVars, resVars, now>>
     \/ /\ sockets[h] = "open"
        /\ Suspends(SocketOp(h))
        /\ poll_blocked' = [poll_blocked EXCEPT ![h] = Append(@, current)]
        /\ UNCHANGED <<pending, park_sources, readyVars, blocked, timers, io_blocked>>

SocketClose(h) ==
  /\ Fresh("socket")
  /\ sockets[h] = "open"
  /\ sockets' = [sockets EXCEPT ![h] = "closed"]
  /\ WakePoll(h)
  /\ UNCHANGED <<fiberVars, blocked, timers, io_blocked, driveVars, channels, now>>

-----------------------------------------------------------------------------
(* The driver: the end of a fiber, and the loop that finds the next one.   *)

FiberDone ==
  /\ BetweenNatives
  /\ state' = [state EXCEPT ![current] = "Done"]
  /\ WakeAll
  /\ IF current = MAIN_FIBER
     THEN Halts("returned")
     ELSE phase' = "pick" /\ current' = NoFiber /\ UNCHANGED outcome
  /\ UNCHANGED <<nfibers, pending, park_sources, op, timers, io_blocked, poll_blocked,
                 events, completions, resVars, now>>

\* Any native or instruction may trap, which ends the run.
FiberTrap ==
  /\ Fresh("trap")
  /\ Traps

NextReady ==
  /\ phase = "pick" /\ ready # <<>>
  /\ LET f == Head(ready) IN
     /\ ready' = Tail(ready)
     /\ queued' = [queued EXCEPT ![f] = FALSE]
     /\ Unlist(f)
     /\ state' = [state EXCEPT ![f] = "Running"]
     /\ op' = [op EXCEPT ![f] = IF @.kind \in Reruns THEN @ ELSE NoOp]
     /\ IF state[f] \in {"NotStarted", "Suspended"}
        THEN phase' = "run" /\ current' = f /\ UNCHANGED outcome
        ELSE Halts("bug")
  /\ UNCHANGED <<nfibers, pending, io_blocked, events, completions, resVars, now>>

\* Is some wait for the outside world pending?  (The driver tests in this order.)
PollPending == \E h \in Handles : poll_blocked[h] # <<>>
IoPending == io_blocked > 0
TimerPending_Forgotten == FALSE

TimerPending == timers # <<>>

Idle(next) ==
  /\ phase = "pick" /\ ready = <<>>
  /\ phase' = next
  /\ UNCHANGED <<fiberVars, readyVars, listVars, current, events, completions, resVars, now>>

BeginPoll == Idle("poll") /\ PollPending /\ UNCHANGED outcome
BeginRecv == Idle("recv") /\ ~ PollPending /\ IoPending /\ UNCHANGED outcome
BeginSleep ==
  Idle("sleep") /\ ~ PollPending /\ ~ IoPending /\ TimerPending /\ UNCHANGED outcome
NothingPending ==
  /\ Idle("halt")
  /\ ~ PollPending /\ ~ IoPending /\ ~ TimerPending
  /\ outcome' = IF blocked # <<>> THEN "deadlock" ELSE "unit"

-----------------------------------------------------------------------------
(* The driver's waits, and what it does with what they bring.              *)

\* poll_wait returns: an event per ready handle, or a wake-up, or the timeout.
PollReturns ==
  /\ phase = "poll"
  /\ events' \in SUBSET Handles
  /\ phase' = "events"
  /\ UNCHANGED <<fiberVars, readyVars, listVars, current, completions, outcome, resVars, now>>

PollFails == phase = "poll" /\ Traps

PollEvent(h) ==
  /\ phase = "events" /\ h \in events
  /\ events' = events \ {h}
  /\ WakePoll(h)
  /\ UNCHANGED <<fiberVars, blocked, timers, io_blocked, phase, current, completions,
                 outcome, resVars, now>>

\* The completions queued for the driver, in the order the workers sent them.
TakeCompletions ==
  /\ \E n \in 0 .. MaxFibers : completions' \in [1 .. n -> Fiber]
  /\ IsInjective(completions')
  /\ \A i \in DOMAIN completions' : pending[completions'[i]]

BeginDelivery ==
  /\ phase' = "deliver"
  /\ UNCHANGED <<fiberVars, readyVars, listVars, current, events, outcome, resVars, now>>

DrainCompletions ==
  /\ phase = "events" /\ events = {}
  /\ TakeCompletions
  /\ BeginDelivery

AwaitCompletions ==
  /\ phase = "recv"
  /\ TakeCompletions
  /\ BeginDelivery

\* take_pending, the finish closure and deliver.  A finish never traps: park_syscall
\* is the only native that supplies one, and it wraps an infallible one in Ok.
DeliverCompletion ==
  /\ phase = "deliver" /\ completions # <<>>
  /\ LET f == Head(completions) IN
     /\ pending' = [pending EXCEPT ![f] = FALSE]
     /\ MakeReady(<<f>>)
  /\ io_blocked' = io_blocked - 1
  /\ completions' = Tail(completions)
  /\ UNCHANGED <<nfibers, state, park_sources, op, blocked, timers, poll_blocked,
                 phase, current, events, outcome, resVars, now>>

Due_TickEarly == {i \in DOMAIN timers : timers[i].deadline =< now + 1}

Due == {i \in DOMAIN timers : timers[i].deadline =< now}

SleepEnds ==
  /\ phase = "sleep" /\ Due # {}
  /\ phase' = "timers"
  /\ UNCHANGED <<fiberVars, readyVars, listVars, current, events, completions, outcome,
                 resVars, now>>

\* The last step of every wait; the driver then looks at ready again.
WakeDueTimers ==
  /\ \/ phase = "timers"
     \/ phase = "deliver" /\ completions = <<>>
  /\ timers' = Keep(timers, DOMAIN timers \ Due)
  /\ LET due == Keep(timers, Due) IN MakeReady([k \in DOMAIN due |-> due[k].id])
  /\ phase' = "pick"
  /\ UNCHANGED <<fiberVars, blocked, io_blocked, poll_blocked, current, events,
                 completions, outcome, resVars, now>>

Tick ==
  /\ phase # "halt" /\ now < MaxTime
  /\ now' = now + 1
  /\ UNCHANGED <<fiberVars, readyVars, listVars, driveVars, resVars>>

Halted == phase = "halt" /\ UNCHANGED vars

-----------------------------------------------------------------------------
\* A step of the running fiber.
FiberStep ==
  \/ FiberSpawn
  \/ \E t \in Fiber : FiberJoin(t)
  \/ FiberYield
  \/ \E d \in Time : TimeSleep(d)
  \/ \E o \in Selects : FiberSelect(o)
  \/ \E n \in Capacities : ChannelNew(n)
  \/ \E c \in DOMAIN channels : ChannelSend(c) \/ ChannelReceive(c) \/ ChannelClose(c)
  \/ ParkAwait
  \/ \E h \in Handles : SocketOpen(h) \/ SocketCall(h) \/ SocketClose(h)
  \/ FiberDone
  \/ FiberTrap

\* A step of the driver loop.
DriverStep ==
  \/ NextReady
  \/ BeginPoll \/ BeginRecv \/ BeginSleep \/ NothingPending
  \/ PollReturns \/ PollFails \/ (\E h \in Handles : PollEvent(h)) \/ DrainCompletions
  \/ AwaitCompletions
  \/ DeliverCompletion
  \/ SleepEnds
  \/ WakeDueTimers

Next == FiberStep \/ DriverStep \/ Tick \/ Halted

Spec == Init /\ [][Next]_vars

-----------------------------------------------------------------------------
\* The scheduler's lists hold fibers that exist, io_blocked never underflows and
\* no channel's length does.
TypeOK ==
  /\ nfibers \in 1 .. MaxFibers
  /\ state \in [Fiber -> {"Unspawned", "NotStarted", "Suspended", "Running", "Done"}]
  /\ queued \in [Fiber -> BOOLEAN]
  /\ pending \in [Fiber -> BOOLEAN]
  /\ park_sources \in [Fiber -> ParkSources]
  /\ op \in [Fiber -> Op]
  /\ ready \in Seq(Fiber) /\ blocked \in Seq(Fiber)
  /\ timers \in Seq(TimerEntry)
  /\ io_blocked \in Nat
  /\ poll_blocked \in [Handles -> Seq(Fiber)]
  /\ channels \in Seq(Chan) /\ Len(channels) =< MaxChans
  /\ sockets \in [Handles -> {"unused", "open", "closed"}]
  /\ now \in Time
  /\ phase \in {"run", "pick", "poll", "events", "recv", "deliver", "sleep", "timers", "halt"}
  /\ current \in Fiber \cup {NoFiber}
  /\ events \in SUBSET Handles
  /\ completions \in Seq(Fiber)
  /\ outcome \in {"running", "returned", "trap", "deadlock", "unit", "bug"}

\* The fibers with an entry in each list.
Blocked == Range(blocked)
Ids(ts) == {ts[i].id : i \in DOMAIN ts}
Timed == Ids(timers)
Polled(h) == Range(poll_blocked[h])

\* A fiber parked and not yet woken.
Parked(f) == state[f] = "Suspended" /\ ~ queued[f]

(***************************************************************************)
(* The ready queue holds exactly the fibers flagged `queued`, each once,   *)
(* and every one of them can be resumed: it is not running, not finished   *)
(* and not still waiting for a syscall whose placeholder result is on its  *)
(* stack.  This is what keeps next_ready's "scheduled a running or         *)
(* finished fiber" (mod.rs:1331) unreachable.                              *)
(***************************************************************************)
ReadyIsSound ==
  /\ Range(ready) = {f \in Fiber : queued[f]}
  /\ IsInjective(ready)
  /\ \A f \in Fiber : queued[f] => state[f] \in {"NotStarted", "Suspended"} /\ ~ pending[f]

(***************************************************************************)
(* No fiber is forgotten and none is woken for a wait it has left: a       *)
(* parked fiber is in exactly the lists its wait names (park, park_io), a  *)
(* woken one only where a select left it, to be swept by unlist, and no    *)
(* other fiber is in any list.                                             *)
(***************************************************************************)
ListsMatchWaits ==
  \A f \in Fiber :
    /\ f \in Blocked => state[f] = "Suspended" /\ op[f].kind \in BlockRetryOps \cup {"select"}
    /\ f \in Timed => state[f] = "Suspended" /\ op[f].deadline # NoDeadline
    /\ \A h \in Handles :
         f \in Polled(h) => state[f] = "Suspended" /\ h \in op[f].handles
    /\ Parked(f) =>
         /\ op[f].kind \in BlockRetryOps \cup {"select"} => f \in Blocked
         /\ op[f].deadline # NoDeadline => f \in Timed
         /\ \A h \in op[f].handles : f \in Polled(h)
         /\ op[f].kind = "await" => pending[f]
         /\ op[f].kind \notin {"none", "yield"}
    /\ queued[f] /\ op[f].kind # "select" =>
         f \notin Blocked /\ f \notin Timed /\ \A h \in Handles : f \notin Polled(h)
    /\ pending[f] => op[f].kind = "await" /\ Parked(f)
    /\ park_sources[f] = IF op[f].kind = "select" /\ state[f] = "Suspended"
                         THEN [listed |-> TRUE, timer |-> op[f].deadline # NoDeadline,
                               handles |-> op[f].handles]
                         ELSE NoSources

(***************************************************************************)
(* The driver's count of syscalls in flight is exact, so it never waits    *)
(* for a completion nobody owes it, nor calls a deadlock while one is due. *)
(***************************************************************************)
IoCountExact == io_blocked = Cardinality({f \in Fiber : pending[f]})

\* What the native a fiber waits in could do now, were it run again.
CanProceed(o) ==
  \/ o.kind = "send" /\ \E c \in o.chans : channels[c].closed \/ HasRoom(c)
  \/ o.kind \in {"join", "receive", "socket", "select"} /\ ProgressReady(o)

(***************************************************************************)
(* No wake-up is lost: as long as a fiber stays parked, the join, send,    *)
(* receive or select it waits in would only park it again, and its sockets *)
(* are open (close_socket_entry, natives.rs:3259: "a fiber parked on it    *)
(* would never be woken by anything: a permanent hang").                   *)
(***************************************************************************)
NoLostWakeup == \A f \in Fiber : Parked(f) => ~ CanProceed(op[f])

(***************************************************************************)
(* "A deadlock is only when nothing is ready and there is no external      *)
(* source pending" (mod.rs:1229): when the driver reports one, main is not *)
(* done, and every fiber is done or parked in a wait that nothing can end. *)
(***************************************************************************)
DeadlockIsReal ==
  outcome = "deadlock" =>
    /\ state[MAIN_FIBER] # "Done"
    /\ \A f \in Fiber : \/ state[f] \in {"Unspawned", "Done"}
                         \/ /\ Parked(f) /\ ~ pending[f] /\ f \notin Timed
                            /\ \A h \in Handles : f \notin Polled(h)
                            /\ ~ CanProceed(op[f])

(***************************************************************************)
(* The driver ends a run only by main's return, a trap or a deadlock: the  *)
(* two arms it keeps for impossible situations, a running fiber in ready   *)
(* (mod.rs:1331) and an idle loop with nothing blocked (mod.rs:1277), are  *)
(* never taken.                                                            *)
(***************************************************************************)
NoImpossibleArm == outcome \notin {"bug", "unit"}

(***************************************************************************)
(* Every send stays within the channel's capacity, also after a parked     *)
(* sender is woken together with others and runs its send again.           *)
(***************************************************************************)
ChannelsBounded == \A c \in DOMAIN channels : channels[c].len =< channels[c].capacity

(***************************************************************************)
(* A sleeping fiber is not woken before its deadline, whatever else wakes  *)
(* fibers in between (wake_all, wake_poll, deliver).                       *)
(***************************************************************************)
SleepsItsSpan ==
  [][\A f \in Fiber : op[f].kind = "sleep" /\ Parked(f) /\ queued'[f]
                      => op[f].deadline =< now]_vars
=============================================================================
