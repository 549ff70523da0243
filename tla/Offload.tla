------------------------------ MODULE Offload ------------------------------
(***************************************************************************)
(* A blocking syscall shipped to the worker pool, as the natives see it:   *)
(* park_syscall hands over a job and parks the fiber, a worker runs the    *)
(* job, and the value-builder runs on the Thera thread once the completion *)
(* is delivered (src/runtime/src/interp/natives.rs and mod.rs).  The       *)
(* scheduler around it is in Drive.                                        *)
(*                                                                         *)
(* job[f] is what fiber f's job owns and what it has computed so far.  A   *)
(* job is queued, running, returned or done, by the list that holds its    *)
(* fiber.                                                                  *)
(***************************************************************************)
EXTENDS Integers, Sequences, FiniteSets, Functions

CONSTANTS
  Fibers,
  WORKER_COUNT,
  Idle          \* no job: the fiber runs Thera code

ASSUME OffloadAssumption ==
  /\ IsFiniteSet(Fibers)
  /\ WORKER_COUNT \in Nat \ {0}

VARIABLES
  job,
  queue,   \* job_tx: submitted jobs, by their fiber
  ran,     \* jobs that have returned, whose worker has yet to send
  done     \* done_rx: completions, in the order the workers sent them

offloadVars == <<job, queue, ran, done>>

OffloadInit ==
  job = [f \in Fibers |-> Idle] /\ queue = <<>> /\ ran = {} /\ done = <<>>

Busy == {f \in Fibers : job[f] # Idle}
OnWorker == Busy \ (Range(queue) \cup Range(done))
Running == OnWorker \ ran

OffloadTypeOK ==
  /\ queue \in Seq(Busy) /\ IsInjective(queue)
  /\ done \in Seq(Busy) /\ IsInjective(done)
  /\ ran \subseteq OnWorker
  /\ Cardinality(OnWorker) <= WORKER_COUNT

\* park_syscall, down to submit_io_job.
ParkSyscall(f, j) ==
  /\ f \notin Busy
  /\ job' = [job EXCEPT ![f] = j]
  /\ queue' = Append(queue, f)
  /\ UNCHANGED <<ran, done>>

\* A worker with nothing to do takes the oldest job.
WorkerTake ==
  /\ queue # <<>> /\ Cardinality(OnWorker) < WORKER_COUNT
  /\ queue' = Tail(queue)
  /\ UNCHANGED <<job, ran, done>>

\* The running job of f goes on as j; with Finish, it returns.
Progress(f, j) ==
  /\ f \in Running
  /\ job' = [job EXCEPT ![f] = j]
  /\ UNCHANGED <<queue, ran, done>>

Finish(f, j) ==
  /\ f \in Running
  /\ job' = [job EXCEPT ![f] = j]
  /\ ran' = ran \cup {f}
  /\ UNCHANGED <<queue, done>>

\* The worker sends the completion, and is free again.
WorkerSend(f) ==
  /\ f \in ran
  /\ ran' = ran \ {f}
  /\ done' = Append(done, f)
  /\ UNCHANGED <<job, queue>>

\* deliver: the oldest completion's builder runs, and its fiber is ready again.
Deliver(f) ==
  /\ done # <<>> /\ f = Head(done)
  /\ job' = [job EXCEPT ![f] = Idle]
  /\ done' = Tail(done)
  /\ UNCHANGED <<queue, ran>>
=============================================================================
