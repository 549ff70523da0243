# The Thera runtime in TLA+

Thera is a small language with a compiler written in Thera (`src/pkgs/cli`), a
standard library (`src/sdk/std`) and a bytecode runtime in Rust (`src/runtime`).
This directory models the runtime: the part of the system where fibers, worker
threads, the kernel, child processes and a garbage collector meet, and where a
test only ever sees one of the many orders in which they can act.

Contents: [the system](#the-system), [modules](#modules), [runs](#runs),
[disagreements found](#disagreements-found), [proofs](#proofs),
[not modelled](#not-modelled), [plan](#plan).
`PROJECT.json` lists the same things for machines, with the source lines of
every definition, the hazards the code is exposed to, and for every property a
mutation of the model that breaks it.

## The system

    program.thera --compiler--> bytecode --runtime--> effects

    one thread                          other threads / the kernel
    +---------------------------+       +--------------------------+
    | run_loop   one fiber      | jobs  | worker pool (4 threads)  |
    |   natives ----------------|------>|   files, processes, DNS  |
    | driver     picks a fiber, |<------|   done queue, waker      |
    |   or waits                | poll  +--------------------------+
    | heap       at safepoints  |<------| readiness poller (epoll) |
    +---------------------------+       +--------------------------+

| part | source | state | operations | what is hard about it |
|---|---|---|---|---|
| fiber scheduler | `interp/mod.rs`, natives in `natives.rs` | fibers, ready queue, blocked list, timers, per-socket lists, channels, count of syscalls in flight | spawn, join, yield, sleep, select, send, receive, close, park and wake paths, the driver's loop | a fiber waits on several sources at once and must leave all lists when one fires; broadcast wakes followed by retries; when to report a deadlock |
| worker pool | `mod.rs` | job queue, completion queue, threads | submit, take, run, send, drain | panicking jobs, completions racing the driver's choice of where to wait |
| poller and waker | `mod.rs` | registrations, pending events, the waker | register, poll, wake, deregister | edge-triggered readiness is reported once; the waker exists only from the first socket on |
| heap and collector | `heap.rs` | slab, free list, byte estimate, threshold, interned strings, globals | alloc, mark, sweep, pause | reclaiming exactly the unreachable |
| roots | `mod.rs`, `natives.rs`, `main.rs` | value stack, saved fibers, channel buffers, Rust locals | every instruction and native that moves a value | a value held only by a Rust local across a safepoint |
| map object | `map.rs`, `natives.rs` | entries, hashes, open-addressing index | get, insert, remove, clear | index and entries kept in step over growth and removal; keys that change |
| child processes | `natives.rs` | process registry, pipe ends | spawn, read, write, close, wait, kill | a native borrows a pipe end for the time of a job and puts it back later |
| open files | `natives.rs` | file registry | open, create, temp, read, write, seek, close | the same |
| interpreter stacks | `mod.rs`, `instr.rs` | value stack, frames, saved stacks | calls, returns, native calls that park, nested loops | frames overlap on one stack; a parked native is resumed in three different ways |
| sockets, TLS | `natives.rs`, `tls.rs`, `net.thera` | socket registry, send and receive buffers, sessions with their queued output and plaintext | listen, accept, connect, read, write, close, handshake, wrap | readiness of a session is not readiness of its socket; an operation parks in the middle and is run again from its start |
| bytecode | `builder.rs`, `module.rs`, `codec.rs`, `serialize.rs`, `main.rs` | a builder, a module, a file | label, bind, emit, finish; encode, decode; start | forward jumps, widths, two formats, files cut short, runtimes that number natives differently |
| compiler, language server, formatter | `src/pkgs/cli` | per-file caches in the session | parse, check, generate, edit | invalidation after an edit |

All of Thera's code runs on one thread. What happens concurrently is therefore
narrow and entirely visible: worker threads run jobs, the kernel turns sockets
ready and lets time pass, children write to pipes. Fibers interleave only at
natives that park. The models keep exactly these boundaries as their atomic
steps: a native runs to its end or to its park in one action, a collection
takes as many steps as its loops have iterations but lets nothing else happen,
and a worker takes a job, sends its result and uses the waker in separate
actions.

## Modules

Constants named like the code's are the code's; constants named `Max...`,
`Fuel`, `HashSize` and `Sizes` are bounds. A definition named `X_What` is `X`
with a plausible mistake and is used only to see that a property notices it.

**`Subsequences`** holds the order-preserving filters of the runtime's queues
(`Vec::retain`, and make_ready's test-and-set). They are plain set and function
definitions, so that what they keep can be proved.

**`Scheduler`** is `interp/mod.rs`'s `Scheduler` and driver. Variables carry
the names of the Rust fields (`ready`, `blocked`, `timers`, `io_blocked`,
`poll_blocked`, `park_sources`, `queued`, `pending`); `op[f]` is the native the
fiber is inside, with the sources it waits on; `phase` is the driver's place in
its loop. There is one action per native that spawns, parks or wakes
(`FiberSpawn`, `FiberJoin`, `FiberYield`, `TimeSleep`, `FiberSelect`,
`ParkAwait`, the socket and channel natives), each with its whole wake path,
and one per step of the driver (`NextReady`, the three waits of the idle loop,
delivery, `WakeDueTimers`). A program is any sequence of these natives. The
outside world may complete any syscall and signal any socket at any time.

**`Drive`** replaces that open world by the worker threads, their two queues,
the poller with its bounded event buffer, the waker and edge-triggered sockets.
Each worker's take, send and wake are separate steps. `ImplementsScheduler`
states that every behaviour of `Drive` is one of `Scheduler`.

**`Heap`** is `heap.rs`: an object is the sequence of values it holds, a
collection runs one mark or sweep iteration per step. **`Roots`** puts the heap
under the interpreter: value stack, saved fibers, channel buffers, the locals
of natives, of the structural debug fallback and of `main.rs`, and the
safepoints that turn these into roots.

**`OrderedMap`** says what `Map<K, V>` promises. **`MapIndex`** is `map.rs`
under the map natives and refines it. Hashing mixes the same bytes the code
mixes, modulo a small number, so that collisions are the rule. Equality is
`values_eq`: a double's two zeros are one key, a NaN equals not even itself, so
its entry is never found again, and a list equals itself by its handle even if
it holds a NaN.

**`Offload`** is a blocking syscall as a native sees it: `park_syscall` hands
over a job that may own things, a worker runs it, and the value-builder runs
when the completion is delivered. **`Process`** and **`Files`** extend it with
the two registries whose entries are taken out for the time of a job and put
back by the builder. The child is external: a filter, or a source, with pipes
of capacity `PIPE_CAP`. Syscalls fail where the natives handle it: a spawn, a
read (the pipe is kept), a kill and a wait. The last two have taken the child out
of the registry by then, so it is `lost`: nobody reaps it, and no later call
finds it. A call that only returns an error (no such process, no stdin, a start
whose spawn fails) changes nothing and is a stuttering step.

**`FrameStack`** says what the instruction set promises: activations with their
own locals and operands. **`Interp`** is `run_loop`: one value stack on which
frames overlap, native calls that park and are retried, resumed with a
placeholder or delivered to, closures that splice captures under arguments,
and nested loops below the debug fallback. It refines `FrameStack`.

**`Sockets`** is the socket registry: listeners, connects in progress, streams
with bounded buffers in both directions, and the natives that try, park on
readiness and are run again. Poll and deregistration are those of `Drive`,
reduced to what a fiber sees of them. An accept may fail, and so may the
registration of a new socket, which costs an id and drops the socket; a read of
zero bytes returns at once. **`Tls`** puts a session over a stream:
the handshake's flights, `drain` and `fill`, queued output, buffered plaintext,
close_notify, the certificate check and the natives that wrap a socket. The
rustls session is external and modelled by the calls `tls.rs` makes on it. Any
fiber may read or write any handle at any time, a plain write on a stream that
gets its session later included. A program that leaves plain bytes where a
session will look for records has `mixed` the two; such a connection is exempt
from what is said of bytes and of peers. A member of `Programs` says what its fibers
do (accept, use a stream plain, or with a session), whether certificates are
trusted, and how far it goes: connections, handles, fibers, and how many bytes
each side starts to write.

**`Serialize`** is the byte layer of a bytecode file, **`Codec`** the module and
its wire format, **`FnBuilder`** the assembler. **`Bytecode`** composes them: a
job is assembled, linked, written (whole, or as far as a crash let it), loaded
by a runtime whose native table may differ, and started as `main.rs` does. A
call to a native the table does not know makes the writer panic (`WritePanics`,
`codec.rs:609`). The
reader's `?` is one operator (`OnOk`) and its loops are one (`Counted`), so a
decoder reads like the layout it accepts. Writers that are not in `src/` (v2, a
build without names, a newer runtime) are external and modelled from what the
decoder accepts. The compiler has a writer of its own
(`src/pkgs/cli/bytecode/encoder.thera`) that mirrors `codec.rs` byte for byte; it
is not modelled apart.

`MCX` instantiates `X` for TLC. Every state machine states its types (`TypeOK`,
`HeapTypeOK`, `OffloadTypeOK`, `DriveTypeOK`); the
runs check the scheduler's, which is also proved, and of the others the
properties that say more. The modules named `...Proofs` hold the proofs.

## Runs

Each run is `tlc -config <cfg> <module>`; the properties are commented where
they are defined, with the source line they are about.

| run | configuration | question |
|---|---|---|
| `scheduler` | `MCScheduler.cfg` | Does the scheduler lose a wake-up, queue a fiber twice, leave a stale list entry, miscount syscalls, overfill a channel, wake a sleeper early, or report a deadlock that is none? |
| `drive_safety` | `MCDrive_safety.cfg` | With real threads behind it, is a syscall's result lost, doubled or misdelivered, is a readiness edge dropped, and does the whole still behave like `Scheduler`? |
| `drive_live` | `MCDrive_live.cfg` | Does a program of finitely many calls end, if no fiber yields for ever? |
| `heap` | `MCRoots_heap.cfg` | Does a collection keep exactly the reachable objects, with natives and debug fallbacks holding values in Rust locals, and with two fibers, their results, growing lists and a channel holding others? Are free list, byte count, threshold and ceiling kept right? |
| `heap_argv_swept` | `MCRoots_argv.cfg` | violation, see below |
| `map_index` | `MCMapIndex_index.cfg` | Does the indexed map behave like an insertion-ordered map through growth, removal and collisions? If a key object is written to after its insertion, are the other keys still found? |
| `process_streams` | `MCProcess_streams.cfg` | Has every child one owner that reaps it, unless a kill or a wait failed, do the ends survive being borrowed by jobs, is an empty read the end of output, do bytes arrive once and in order? |
| `process_wait_returns` | `MCProcess_wait.cfg` | Does a wait return while pipes are full and other fibers use them, unless reads occupy every worker? |
| `file_handles` | `MCFiles_handles.cfg` | Does a handle stand for its file until closed, and never after? |
| `interp_stacks` | `MCInterp_stacks.cfg` | Does one shared value stack behave like separate activations, across parks and nested loops? |
| `net` | `MCTls_net.cfg` | Is a readiness edge lost between a try and its park, do bytes arrive once, in order and all of them before the end of the stream, do two handshakes meet, do a writer and a reader of both ends go on, does a session ever get out of step with its wire, and does an error leave a descriptor open? |
| `bytecode` | `MCBytecode_file.cfg` | Does a jump lead where its label was bound, does a file load as what was written for every instruction and table and from every writer, what is left of a file that a crash cut short, and does the right function start? |

**Bounds, and why they are enough.** Three fibers are what the scheduler's
hazards need: one that acts, and two that wait for the same thing. A channel
asked for with capacity 0 is given room for one value, so every second send
parks and a broadcast wake lets several senders retry for one place; one socket and one tick of the clock
let every pair of wait sources race in a `select`. In `Drive` two workers are
the least that can finish out of order or die one by one; an event buffer of
one is the least that can overflow. Three heap slots hold a chain, a cycle and
something unreachable at once; the byte limits (3 and 4) make every second
allocation cross one. The map has its threshold lowered from 16 to 2 and its
table from 32 to 4, so that it is built, grown, rebuilt and dropped within
four entries; its keys are a double's two
zeros, a NaN and two equal lists, into each of which the program may write a NaN. Streams carry two bytes; pipes hold one in the run about waiting, so that
both sides block, and two in the other, so that a read can be cut short. Writes
are of nothing or of both bytes, and reads ask for nothing, which is clamped to
one byte, or for two. Three
fibers use one child: one writes, one reads, one waits. The interpreter's stack
of five values holds a caller, a callee with arguments, and a closure call with
captures; call depth 2 and two nested loops meet both limits. `interp_stacks` has
one fiber: what it shows is that a fiber's stacks survive its own parks; a mix-up
between two fibers' saved stacks is outside it. A socket buffer
of two bytes and a session that queues two make every second write block, in
either layer; one connection is used, plain and with TLS, and two are accepted,
so that an accept can take the wrong one. Plain streams are used by two fibers.
With TLS three fibers (a writer, a reader and one that closes, or two writers)
send one way, from the client, and two fibers send both ways; three fibers
sending both ways are outside the run. Bytecode files have the code's bytes, opcodes and groups
of seven bits; the word has 15 bits (two groups and one bit, as 64 is nine and
one), and 16 and 32-bit fields have 9 and 12, so every operand is tried at zero,
at the edges of a group and at its largest value. Labels cross with two of them
and seven calls; a file is cut at every byte. The job whose file is cut has `main`
as its entry, as the compiler's encoder and `docs/bytecode.md` make it always:
with another one, cut off before the Entry section, the loader would fall back to
the name and start `main` (`module.rs:238`). What grows
without bound is only cut by the constants named as bounds, always in a guard.

**Symmetry** is used in `Process`, `Files` and `Tls`, over the fibers, and only in
runs without liveness: no definition there tells fibers apart.

**Fairness.** `FairDriveSpec` assumes that the Thera thread and every worker
thread are scheduled, that a syscall returns, that the clock ticks, and that
signals do not disturb every single `poll()` (strong fairness of `PollWait`).
A peer may be silent for ever: `RunEnds` allows for it. Fuel bounds the calls
of a fiber, not its yields: `RunEnds` is about runs in which yielding stops,
and `MCDrive_yield.cfg` shows what happens when it does not. `Process`'s `FairSpec` assumes
that worker threads and children are run and completions delivered, which
`drive_live` shows; what the program calls is never assumed.

**Deadlock checking** is off where the modelled program may simply stop
(`Roots`, `Process`, `Files`, `Interp`, `Tls`, `Bytecode`), and in `drive_safety`, where a worker
that panicked leaves its fiber, and with it the driver, waiting for ever.

## Disagreements found

One listed run ends in a violation. It is what the code does, against what the
repository says of it.

* `heap_argv_swept` (code bug, `main.rs:192`): the list of program arguments is
  allocated, kept in a Rust local, and the init thunk runs before `main` gets
  it. A collection inside the thunk sweeps the list.

Others have a configuration of their own but no entry among the listed runs.
In each of them TLC violates the property named; where a configuration names
two, `tlc -continue` shows both.

| configuration | property | what happens |
|---|---|---|
| `MCDrive_waker.cfg` | `CompletionInterruptsPoll` | a syscall that finishes before the first socket is opened finds no waker, and the driver may then block in `poll()` on a result that is already there (`mod.rs:923`, comment at 1249) |
| `MCDrive_yield.cfg` | `WaitsEnd` | a fiber yielding in a loop keeps `ready` non-empty; timers and completions are looked at only when it is empty (`mod.rs:1231`) |
| `MCDrive_panic.cfg` | `PanicSurfaces` | when every worker has panicked, `recv` fails at once and the driver spins instead of reporting a deadlock (`mod.rs:1043`, comment at 1017) |
| `MCRoots_ceiling.cfg` | `CeilingHolds` | growing a list in place adds nothing to `heap_bytes`, so the ceiling is not enforced (`natives.rs:2103`) |
| `MCMapIndex_stale.cfg` | `MismatchProvesInequality` | a key object written to after its insertion keeps its old hash (`map.rs:151`) |
| `MCProcess_shared.cfg` | `CloseEndsInput` | `close_stdin` during another fiber's write is undone when the write puts the pipe back (`natives.rs:2667`) |
| `MCProcess_shared.cfg` | `EmptyReadIsEof` | a second reader of a stream finds `None` and reports end of output of a live child (`natives.rs:2683`) |
| `MCProcess_saturated.cfg` | `WriteReturns` | blocked reads occupy every worker, and the write that would end them stays queued (`mod.rs:951`, `docs/stdlib.md:565`) |
| `MCInterp_deep.cfg` | `NoBugTrap` | a native that parks below a structural debug rendering ends in `Trap::Bug` (`mod.rs:1393`, comment at 62) |
| `MCInterp_deep.cfg` | `NativeStackBounded` | recursion through the fallback nests `run_loop`s on the native stack without meeting the depth limit (`mod.rs:1468`, comment at 1464) |
| `MCTls_standoff.cfg` | `NoStandoff` | a TLS read sends what is queued before it reads; with both directions full, neither end reads what has arrived (`tls.rs:176`) |
| `MCBytecode_torn.cfg` | `TornNeverStarts` | a file cut between two sections, after Symbols, decodes without an error and starts, without its dispatch table or its globals (`codec.rs:54`) |
| `MCBytecode_slot.cfg` | `AssemblesListing` | `bump_locals` saturates, so a frame that uses slot `u16::MAX` is one slot short (`builder.rs:94`) |

One comment is wrong about code that is right. `natives.rs:2569` says of
`process_wait` that the pipes "drop after the wait"; the closure captures the child
alone, so they drop when the native returns, before the wait.
`ProcessWait_KeepsPipes` does as the comment says, and then TLC violates
`WaitReturns`: a child that reads to its end of input never exits.

`OneOwner` states its exception: `Process.kill` promises to "terminate the child
... and reap it" (`process.thera:182`), but after a failed kill or wait the child
is no longer in the registry, so it is neither reaped nor found by another call
(`natives.rs:2611`). `PeersMeet` states its own: a TLS reader whose session has
output that does not fit sends that first, which is the standoff above.

## Proofs

Seven developments are proved: the scheduler's safety, its implementation by
worker threads and a poller, the collector, the map with its index, the registry
of open files, child processes with their pipes, and the assembler. TLC checked every inductive invariant on the instance of the matching
run before it was proved.

### The scheduler

`SchedulerProofs` proves, for any number of fibers, channels and sockets, any
capacities, any clock bound and any programs:

| theorem | statement |
|---|---|
| `Invariance` | `Spec => []Inv`, the inductive invariant |
| `TypeCorrect` | `Spec => []TypeOK`: in particular `io_blocked` never underflows |
| `ReadyQueueSound` | `Spec => []ReadyIsSound`: the ready queue holds exactly the fibers flagged `queued`, once each, all of them resumable |
| `WaitsListed` | `Spec => []ListsMatchWaits`: a parked fiber is in exactly the lists its wait names, and no other fiber is in any |
| `IoCounted` | `Spec => []IoCountExact`: `io_blocked` is the number of fibers with a syscall in flight |
| `NoWakeupLost` | `Spec => []NoLostWakeup`: while a fiber stays parked, what it waits for would only park it again |
| `DeadlocksAreReal` | `Spec => []DeadlockIsReal`: a deadlock is reported only when nothing can end any wait |
| `ImpossibleArmsUnreachable` | `Spec => []NoImpossibleArm` |
| `ChannelsStayBounded` | `Spec => []ChannelsBounded` |
| `SleepsLast` | `Spec => SleepsItsSpan`, an action property: no step wakes a sleeper early |

They assume only `BoundsAssumption` and `InputsAssumption` of `Scheduler`: the
bounds are natural numbers, there is room for the main fiber, and the inputs
are of the right kind. With these theorems every safety property of the run
`scheduler` is proved.

**The invariants.** `ReadyIsSound` and `ListsMatchWaits` are not inductive: they
speak of lists and waits, but whether a step keeps them depends on who runs it
and what the driver holds. `Inv` adds `Control` (one fiber runs, the driver's,
and ids are handed out in order), `Natives` (a fiber is inside a native exactly
while it waits in it or runs it again, and a wait has the sources its native
may have), `TimersExact` (one timer entry per fiber, with the deadline of its
wait), and `Owed` (what the driver took from the pool is owed once each to
fibers that wait for it). `Safe` stands on `Inv` and adds to the
properties proved that a wait has the sources its native needs, over channels
that exist (`Grounded`), that a new fiber is in the ready queue, and that the run
ends with main (`Started`).

**The argument.** The first part shows what the filters of `Subsequences` keep.
The second states what each wake path (`make_ready`, `wake_all`, `wake_poll`,
the timers) does to the lists, given the part `Core` of the invariant, and that
every way to park, to be woken and to be scheduled keeps `Core`. The third adds
the driver's state, one step per action of `Next`. The last shows of every
native that whoever could go on after it is woken by it: a step that leaves the
channels and the finished fibers alone enables nobody (`StillStuck`), and one
that does not wakes all of `blocked` (`WakeAllStuck`).

### Threads and poller

`DriveProofs` proves, for any finite set of workers, any event buffer, with or
without panics (`DriveAssumption`):

| theorem | statement |
|---|---|
| `DriveInvariance` | `DriveSpec => []DriveInv` |
| `Refinement` | `DriveSpec => ImplementsScheduler`: the detailed system implements `Scheduler` |
| `NoJobLost` | `DriveSpec => []JobsAccounted`: as long as one worker lives, a fiber waiting in a syscall has exactly one job or result, and no other fiber has any |
| `NoEdgeLost` | `DriveSpec => []NoLostEdge` |
| `CompletionsInterrupt` | `DriveSpec => [](PollerFirst => CompletionInterruptsPoll)` |
| `DriveSafety` | the scheduler's `NoLostWakeup`, `DeadlockIsReal` and `NoImpossibleArm`, of `DriveSpec` |

`PollerFirst` says that a program opens a socket before its first syscall;
without it the property is false (`MCDrive_waker.cfg`). The steps that need an
argument in the refinement are those that take a completion: `Scheduler` lets
the world answer a fiber that waits in a syscall, so the proof must show that
what a worker sent is for such a fiber, and is sent once. `DriveInv` says so:
the queue, the workers, the done queue and the driver's own list hold
disjoint sets of waiting fibers, without repetition (`Apart`, `Counted`). The other
properties need that all events of a poll are woken before the driver goes on
(`EventsWoken`) and that a finished syscall has its wake-up pending or about to be
made (`WakeupOwed`).

### The collector

`RootsProofs` proves, for any number of slots, fibers, literals, globals and
nested fallbacks, any limits, and every program that is `ArgsSafe`:

| theorem | statement |
|---|---|
| `RootsInvariance` | `Spec => []RootsInv` |
| `NoUseAfterFree` | `Spec => []NoDangling`: what can still be reached is an object, at every step of a collection too |
| `FreeListIsExact` | `Spec => []FreeListExact` |
| `CollectionsAreExact` | `Spec => CollectsExactly`, an action property: when a sweep ends, the objects left are those that can be reached, and the byte estimate is the sum of their sizes |
| `CollectionsArm` | `Spec => []CollectionArmed` |
| `CeilingIsExact` | `Spec => []CeilingExact`: past a limit a collection is armed, and out of memory is raised only if the reachable bytes exceed the ceiling |

`ArgsSafe` sets aside the programs of `heap_argv_swept`, those with both an init
thunk and a `main` that takes its arguments: for them `NoDangling` is false.

The invariant is about sets of values. Outside a collection, and while it marks,
every holder (stack, saved fibers, channel buffer, natives' locals, fallbacks,
`main.rs`, interned strings, globals) and every object holds `Live` values only
(`Solid`). From the marking of the roots on, the holders hold `Black` ones only,
and so does every object that has left the worklist (`Colours`); and whatever is
marked lies in every closed set around the holders (`MarkedNeeded`). So when the
worklist is empty, marked and reachable are the same, and `Sweeping` says that
what the sweep has passed is a marked object or a hole. That the roots cover
every holder rests on `ControlInv`: a native's locals are empty between natives,
the collector is paused exactly while a fallback is under way, and `main.rs`
holds nothing while instructions run. `Reach` is defined as what the closed sets
around a set of values have in common, which needs no recursion.

Bytes are counted as elements: `Cells` pairs each object with its bytes, and a sum
of sizes is the cardinality of such a set, so that adding an object is a disjoint
union (`OneMore`). `Counted` says that what `collect` has added up are the bytes
of the objects that have left the worklist. `OutOfMemoryIsFinal` and
`OutOfMemoryByFinishGc` say that the trap is raised by the end of a collection
only and that nothing moves after it; the first needs that no native is under
way then (`NativeInv`). With these theorems every property of the run `heap` is
proved.

### The map

`MapIndexProofs` proves, for any keys and values, any number of hashes, any
threshold and floor and any bound on the entries:

| theorem | statement |
|---|---|
| `MapTypeCorrect` | `Spec => []TypeOK`: in particular an index has a power of two of slots, at least the floor |
| `IndexIsExact` | `Spec => []IndexExact`: the index leads to each entry, and keeps an empty slot, at which every probe ends |
| `OthersAreFound` | `Spec => []OthersFound`: as long as an entry's key was not written to, a lookup with any object equal to it finds it, whatever happened to the others |
| `MapImplementsOrderedMap` | `Spec => ImplementsOrderedMap`: with keys left alone the natives behave like an insertion-ordered map |

from `MapAssumption` (the numbers are positive, the keys are numbers or lists of
numbers, and some power of two is a capacity for a full map). `MapInv` says that
an index leads to every entry under its *stored* hash (`Leads`) and has more
slots than entries; it needs nothing of the keys, so it survives writes to them.
`KeysInv` is what a program that leaves its keys alone adds: stored hashes are
the keys' hashes, and no two entries have equal keys. `OthersAreFound` and the
refinement rest on these and on `EqualValuesHashEqual`: what `values_eq` calls
equal, a double's two zeros included, hashes equal. That `values_eq` is not
reflexive (a NaN) costs nothing: a lookup compares an entry's key with the key
looked for, and no proof step needs that an entry finds itself.

The table is built, and a list is hashed, by recursion over a list. What such a
function computes is shown without an induction rule: `LeastExists` derives from
the well-foundedness of the naturals that a set of them has a least element, and
each induction looks at the least case that fails (`Recursion` for the existence
of the function, `RebuildLeads` for the table). That a table with more slots than
entries has an empty one (`EmptySlot`) is a count of its slots.

### Open files

`FilesProofs` proves, for any number of fibers, workers and files, over the facts
about the pool in `OffloadProofs`:

| theorem | statement |
|---|---|
| `FilesInvariance` | `Spec => []FilesInv` |
| `FilesTyped` | `Spec => []TypeOK`: in particular no more jobs run than there are workers |
| `HandlesStay` | `Spec => []HandlesKept` |
| `ClosesAreFinal` | `Spec => []ClosedForever` |

from `OffloadAssumption` and `FilesAssumption` (finitely many fibers, a worker,
and `Idle` is no job). What a job owns depends on how far it is, so `FilesInv`
follows each one: it is in one place of the pool (`Placed`); until its syscall
returns an open owns nothing, then it has the new file, or, for a temporary one,
a handle that nobody was told (`JobOwns`); a file operation has the file of its
handle, whose entry is empty meanwhile; no two jobs are about one handle
(`Alone`). `OneHandle` reduces each step to its own fiber and its own handle.
`OffloadProofs` has what holds of the pool whatever the jobs own: what each of its
steps does to the place of a job, and that no more run than there are workers
(`WorkersBounded`).

### Child processes

`ProcessProofs` proves, for any number of fibers, workers, children and bytes,
any capacity of a pipe and any programs:

| theorem | statement |
|---|---|
| `ProcessInvariance` | `Spec => []ProcInv` |
| `OutputIsExact` | `Spec => []OutputExact`: whoever reads, the bytes come once each and in order; with one fiber per stream an empty read is the end |
| `StreamsAreExact` | `Spec => []StreamsExact`: a borrowed pipe end is neither lost nor revived |
| `OneOwnerReaps` | `Spec => []OneOwner`: until it is reaped a child has one owner that will reap it, unless its kill or its wait failed |
| `ProcessTyped` | `Spec => []TypeOK` |

from `OffloadAssumption` and `ProcessAssumption`. A byte on its way from the
child to the program is left to write, in the pipe, in the buffer of a job, or
delivered. `Flows` says that these places, read in this order, hold the stream
from its first byte on: `Fetched` that at most one job carries bytes of a stream,
and which, `Ahead` that the pipe and what the child will write follow. A second
job can take bytes only if it holds the pipe end, and `OneHolder` says that an end
is with the registry or with one job; `JobShape` that a job that returned with
bytes still holds its end, so that the next reader finds none until they are
delivered. `Owned` is what `OneOwner` needs besides: a job that reaps
has reaped when it returns, or has failed and lost the child. `AtEnd` and `Exclusive` carry the two properties of
programs that keep to one fiber per stream. Each action has a lemma per conjunct
that it disturbs; the steps of the pool that move a job only are shown to disturb
none.

### The assembler

`FnBuilderProofs` proves

| theorem | statement |
|---|---|
| `Assembles` | `BuilderSpec => []AssemblesListing`, if no job uses slot `u16::MAX`: every finished function is the listing its caller spelled out |

for any number of functions, labels, calls and slots, from `JobsAssumption` of
`FnBuilder` (slots are `u16`, what is given to `emit_jump` is a jump). The
hypothesis is needed: at the last slot `bump_locals` saturates, and
`MCBytecode_slot.cfg` shows the property fail. `AssemblesListing` speaks of
finished functions only, so the invariant `BuilderInv` says what holds half way
through a listing (`HalfBuilt`): each instruction emitted so far stands at the
place counted by the instructions before it; a jump stands there with address 0
and is owed one fixup, the only one for that place; a label is unbound and has
no bind in the listing, or has one, and the address is the number of
instructions before it. `OneMoreCall` is the fact about counting on which the
steps rest (a call moves no earlier place); `CodeKept`, `LabelsKept` and
`FrameKept` say what a call leaves alone, one lemma per operation says what it
adds, and `Finished` that patching such a builder yields the listing.

### Only model-checked

* Liveness (`RunEnds`, `WaitReturns`) is beyond the prover.
* `Serialize`, `Codec` and with them `Bytecode` decode with `RECURSIVE`
  operators, of which the prover knows nothing: `LoadsWhatWasSaved`,
  `TornIsPrefix`, `IndicesResolve` and `StartsTheEntry` are checked on every
  file of the run's bounds.
* `Interp`, with its refinement of `FrameStack`, `Sockets` and `Tls` have been
  checked on the instances above and not proved.

## Not modelled

* Arithmetic and conversion instructions: planned as operators against a
  reference.
* Text, bytes, regex, hash and math natives: pure functions on the Thera thread.
* Disassembler and profiler: nothing reads what they produce. Of the command
  line, the choice of the entry and the order in which a program is started are
  modelled, parsing and printing are not.
* Lexer, parser, resolution, checker, code generation, formatter, linter: pure
  functions of unbounded input, specified case by case by their tests. `Interp`
  states the one thing it assumes of generated code.
* Session, loader and language server: caches and a request loop, planned.
* HTTP and the rest of the standard library: planned after sockets, or thin
  wrappers; packages: sequential clients.

Within the modelled parts: string contents and numbers in the heap, spare
capacity in byte estimates, what files contain, channel values in `Scheduler`
(they are in `Roots`), jumps in `Interp`; TLS
configuration files and cryptography; names of hosts; the hash function of the
dispatch index.

## Plan

Order of importance, next first.

1. *Interpreter and network proofs*: the refinement of `FrameStack` by `Interp`,
   and the safety of `Sockets` and `Tls`.
2. *Sockets over `Drive`*: `Sockets` has a poller of its own; composing it with
   the real one would let a socket operation race a worker's completion.
3. *Arithmetic* as operators over a reduced width.
4. *Session caches and the language server*: an answer never mixes two versions
   of a file.
