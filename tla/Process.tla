------------------------------ MODULE Process ------------------------------
(***************************************************************************)
(* Child processes and their pipes (src/runtime/src/interp/natives.rs, the *)
(* process natives): the registry of running processes, and the pipe ends  *)
(* a native takes out of it for the time of a pool job and puts back.      *)
(*                                                                         *)
(* A pipe end of ours is open while the registry or a job owns it.  Bytes  *)
(* are numbered, per stream, in the order they were written.  A native     *)
(* that finds no process, or no stdin, and a start whose spawn fails,      *)
(* return an error and change nothing: such a call is a stuttering step.   *)
(*                                                                         *)
(* The children are outside the runtime: a "filter" copies its stdin to    *)
(* its stdout and ends at end of input, a "source" writes MaxBytes bytes   *)
(* to its stderr.  Both die of writing to a pipe without a reader.         *)
(***************************************************************************)
EXTENDS Offload

CONSTANTS
  Procs,
  Programs,   \* what a child may do: "filter" or "source"
  PIPE_CAP,   \* what a pipe holds
  MaxBytes,   \* bound: the bytes a stream may carry
  WriteSizes, \* the lengths given to write
  ReadSizes,  \* the limits given to read
  Sharing     \* may two fibers use one stream of a child at the same time?

Outputs == {"stdout", "stderr"}
Streams == {"stdin"} \cup Outputs
Bytes == 1 .. MaxBytes

\* What a job's closure captures, the buffer it fills, and whether it failed.
Jobs == [op : {"run", "exec", "wait", "write", "read"}, proc : Procs,
         stream : Streams \cup {"none"}, holds : SUBSET Streams, n : Nat, buf : Seq(Bytes),
         err : BOOLEAN]

ASSUME ProcessAssumption ==
  /\ Programs \subseteq {"filter", "source"}
  /\ PIPE_CAP \in Nat \ {0} /\ MaxBytes \in Nat
  /\ WriteSizes \subseteq Nat /\ ReadSizes \subseteq Nat /\ Sharing \subseteq BOOLEAN
  /\ Idle \notin Jobs

VARIABLES
  registered,  \* the keys of process_registry
  ends,        \* RunningProcess.stdin, stdout, stderr: those that are Some
  child,       \* the child itself: its state, what it has yet to write, and
               \* whether a kill or a wait of it has failed (it is lost then)
  pipe,        \* what each pipe holds
  sent,        \* how many bytes went into each child's stdin
  got,         \* what the program has read from each stream
  eof,         \* the streams a read has reported the end of
  closed       \* the children whose close_stdin has returned Ok

regVars == <<registered, ends>>
osVars == <<child, pipe, sent>>
seenVars == <<got, eof, closed>>
vars == <<offloadVars, regVars, osVars, seenVars>>

Unborn == [state |-> "unborn", program |-> "none", ok |-> FALSE, tty |-> FALSE,
           shared |-> FALSE, lost |-> FALSE, todo |-> <<>>]

Init ==
  /\ OffloadInit
  /\ registered = {} /\ ends = [p \in Procs |-> {}]
  /\ child = [p \in Procs |-> Unborn]
  /\ pipe = [p \in Procs |-> [s \in Streams |-> <<>>]]
  /\ sent = [p \in Procs |-> 0]
  /\ got = [p \in Procs |-> [s \in Streams |-> <<>>]]
  /\ eof = [p \in Procs |-> {}]
  /\ closed = {}

On(p) == {f \in Busy : job[f].proc = p}
Using(p, s) == {f \in On(p) : s = job[f].stream}
Open(p, s) == s \in ends[p] \/ \E f \in On(p) : s \in job[f].holds
Alive(p) == child[p].state = "running"

Job(op, p, s, holds, n) ==
  [op |-> op, proc |-> p, stream |-> s, holds |-> holds, n |-> n, buf |-> <<>>,
   err |-> FALSE]

-----------------------------------------------------------------------------
(* The natives, on the Thera thread.                                       *)

\* The stream a child writes to.
Out(p) == IF child[p].program = "filter" THEN "stdout" ELSE "stderr"

Born(program, tty, shared) ==
  [state |-> "running", program |-> program, ok |-> FALSE, tty |-> tty, shared |-> shared,
   lost |-> FALSE, todo |-> IF program = "source" THEN [i \in Bytes |-> i] ELSE <<>>]

\* A program shares a child's streams between its fibers, or keeps to one fiber
\* per stream.
MayUse(p, s) == p \in registered /\ (child[p].shared \/ Using(p, s) = {})

New(p) == child[p] = Unborn /\ On(p) = {}

ProcessStart(f, p) ==
  /\ f \notin Busy /\ New(p)
  /\ registered' = registered \cup {p}
  /\ ends' = [ends EXCEPT ![p] = Streams]
  /\ \E program \in Programs, shared \in Sharing :
       child' = [child EXCEPT ![p] = Born(program, FALSE, shared)]
  /\ UNCHANGED <<offloadVars, pipe, sent, seenVars>>

\* process_run and process_exec: the job spawns, drains and waits by itself.
ProcessRun(f, p, op) ==
  /\ New(p)
  /\ ParkSyscall(f, Job(op, p, "none", {}, 0))
  /\ UNCHANGED <<regVars, osVars, seenVars>>

ProcessWait_KeepsPipes(f, p) ==
  /\ p \in registered
  /\ registered' = registered \ {p}
  /\ ends' = [ends EXCEPT ![p] = {}]
  /\ ParkSyscall(f, Job("wait", p, "none", ends[p], 0))
  /\ UNCHANGED <<osVars, seenVars>>

ProcessWait_StaysRegistered(f, p) ==
  /\ p \in registered
  /\ ends' = [ends EXCEPT ![p] = {}]
  /\ ParkSyscall(f, Job("wait", p, "none", {}, 0))
  /\ UNCHANGED <<registered, osVars, seenVars>>

\* The closure captures running.child alone, so the pipes that are left in
\* running drop when the native returns.
ProcessWait(f, p) ==
  /\ p \in registered
  /\ registered' = registered \ {p}
  /\ ends' = [ends EXCEPT ![p] = {}]
  /\ ParkSyscall(f, Job("wait", p, "none", {}, 0))
  /\ UNCHANGED <<osVars, seenVars>>

\* Child::kill and the wait after it; or the kill fails, and the child, which is
\* out of the registry already, is dropped with its pipes.
ProcessKill(f, p) ==
  /\ f \notin Busy /\ p \in registered
  /\ registered' = registered \ {p}
  /\ ends' = [ends EXCEPT ![p] = {}]
  /\ \/ child' = [child EXCEPT ![p].state = "reaped"]
     \/ child' = [child EXCEPT ![p].lost = TRUE]
  /\ UNCHANGED <<offloadVars, pipe, sent, seenVars>>

ProcessStdinWrite(f, p, n) ==
  /\ MayUse(p, "stdin") /\ "stdin" \in ends[p]
  /\ sent[p] + n <= MaxBytes
  /\ ends' = [ends EXCEPT ![p] = @ \ {"stdin"}]
  /\ ParkSyscall(f, Job("write", p, "stdin", {"stdin"}, n))
  /\ UNCHANGED <<registered, osVars, seenVars>>

ProcessStdinClose(f, p) ==
  /\ f \notin Busy /\ MayUse(p, "stdin")
  /\ ends' = [ends EXCEPT ![p] = @ \ {"stdin"}]
  /\ closed' = closed \cup {p}
  /\ UNCHANGED <<offloadVars, registered, osVars, got, eof>>

Taken_Cloned(p, s) == ends[p]

\* What the registry keeps when stream s is taken out of it.
Taken(p, s) == ends[p] \ {s}

\* process_stdout_read and process_stderr_read, down to park_pipe_read.  A
\* stream that is not there is handed over as None.
ProcessRead(f, p, s, max) ==
  /\ MayUse(p, s)
  /\ ends' = [ends EXCEPT ![p] = Taken(p, s)]
  /\ ParkSyscall(f, Job("read", p, s, {s} \cap ends[p], max))
  /\ UNCHANGED <<registered, osVars, seenVars>>

-----------------------------------------------------------------------------
(* The jobs, on the worker threads.                                        *)

\* write_all goes on until everything is in the pipe, or the child is gone; of
\* no bytes, it does nothing.
WriteJob(f) ==
  /\ f \in Running /\ job[f].op = "write"
  /\ LET j == job[f]  p == j.proc IN
     \/ /\ j.n = 0 \/ ~Alive(p)
        /\ Finish(f, j) /\ UNCHANGED osVars
     \/ /\ j.n > 0 /\ Alive(p) /\ Len(pipe[p]["stdin"]) < PIPE_CAP
        /\ sent' = [sent EXCEPT ![p] = @ + 1]
        /\ pipe' = [pipe EXCEPT ![p]["stdin"] = Append(@, sent'[p])]
        /\ IF j.n = 1 THEN Finish(f, j) ELSE Progress(f, [j EXCEPT !.n = @ - 1])
        /\ UNCHANGED child
  /\ UNCHANGED <<regVars, seenVars>>

\* max.clamp(1, 1 << 20)
Clamped(max) == IF max < 1 THEN 1 ELSE max

\* read_pipe_owned: None and end of file both end the stream and read nothing.
ReadPipeOwned(f) ==
  /\ f \in Running /\ job[f].op = "read"
  /\ LET j == job[f]
         data == pipe[j.proc][j.stream]
         n == IF Len(data) < Clamped(j.n) THEN Len(data) ELSE Clamped(j.n)
     IN \/ /\ j.holds = {}
           /\ Finish(f, j) /\ UNCHANGED pipe
        \/ /\ j.holds # {} /\ (data # <<>> \/ ~Alive(j.proc))
           /\ Finish(f, [j EXCEPT !.buf = SubSeq(data, 1, n),
                                  !.holds = IF n = 0 THEN {} ELSE @])
           /\ pipe' = [pipe EXCEPT ![j.proc][j.stream] = SubSeq(@, n + 1, Len(@))]
  /\ UNCHANGED <<child, sent, regVars, seenVars>>

\* read_pipe_owned, if the read fails: the pipe is kept.
ReadErr(f) ==
  /\ f \in Running /\ job[f].op = "read" /\ job[f].holds # {}
  /\ Finish(f, [job[f] EXCEPT !.err = TRUE])
  /\ UNCHANGED <<osVars, regVars, seenVars>>

\* Child::wait fails, on its own or in Command::status: the child is dropped.
WaitErr(f) ==
  /\ f \in Running /\ job[f].op \in {"wait", "exec"}
  /\ child[job[f].proc].state \in {"running", "exited"}
  /\ child' = [child EXCEPT ![job[f].proc].lost = TRUE]
  /\ Finish(f, [job[f] EXCEPT !.err = TRUE])
  /\ UNCHANGED <<pipe, sent, regVars, seenVars>>

\* Command::output and Command::status fail to spawn a child.  (A failure of
\* Command::output after the spawn is left out.)
SpawnErr(f) ==
  /\ f \in Running /\ job[f].op \in {"run", "exec"}
  /\ child[job[f].proc] = Unborn
  /\ Finish(f, [job[f] EXCEPT !.err = TRUE])
  /\ UNCHANGED <<osVars, regVars, seenVars>>

\* Child::wait
WaitJob(f) ==
  /\ f \in Running /\ job[f].op = "wait"
  /\ child[job[f].proc].state = "exited"
  /\ child' = [child EXCEPT ![job[f].proc].state = "reaped"]
  /\ Finish(f, [job[f] EXCEPT !.holds = {}])
  /\ UNCHANGED <<pipe, sent, regVars, seenVars>>

\* Command::output (piped) and Command::status (inherited): spawn, ...
RunSpawn(f) ==
  /\ f \in Running /\ job[f].op \in {"run", "exec"}
  /\ LET p == job[f].proc IN
     /\ child[p] = Unborn
     /\ \E program \in Programs :
          child' = [child EXCEPT ![p] = Born(program, job[f].op = "exec", FALSE)]
     /\ Progress(f, [job[f] EXCEPT !.holds = IF job[f].op = "run" THEN Outputs ELSE {}])
  /\ UNCHANGED <<pipe, sent, regVars, seenVars>>

\* ... read what comes, ...
RunDrain(f) ==
  /\ f \in Running /\ job[f].op = "run"
  /\ \E s \in Outputs :
       /\ pipe[job[f].proc][s] # <<>>
       /\ Progress(f, [job[f] EXCEPT !.buf = @ \o pipe[job[f].proc][s]])
       /\ pipe' = [pipe EXCEPT ![job[f].proc][s] = <<>>]
  /\ UNCHANGED <<child, sent, regVars, seenVars>>

\* ... and wait for the exit once both pipes are at their end.
RunWait(f) ==
  /\ f \in Running /\ job[f].op \in {"run", "exec"}
  /\ LET p == job[f].proc IN
     /\ child[p].state = "exited" /\ \A s \in Outputs : pipe[p][s] = <<>>
     /\ child' = [child EXCEPT ![p].state = "reaped"]
     /\ Finish(f, [job[f] EXCEPT !.holds = {}])
  /\ UNCHANGED <<pipe, sent, regVars, seenVars>>

-----------------------------------------------------------------------------
(* The builders, back on the Thera thread.                                 *)

PutBack_Lost(j) == ends[j.proc]

\* The stream goes back where it came from, if the process is still there.
PutBack(j) ==
  IF j.proc \in registered /\ j.op \in {"write", "read"}
  THEN (ends[j.proc] \ {j.stream}) \cup j.holds
  ELSE ends[j.proc]

\* The streams whose end the program learns of.
Reported(j) ==
  IF j.err THEN {}
  ELSE IF j.op = "run" THEN Outputs
  ELSE IF j.op = "read" /\ j.buf = <<>> THEN {j.stream} ELSE {}

Finished(f) ==
  /\ Deliver(f)
  /\ LET j == job[f]
         s == IF j.op = "run" THEN Out(j.proc) ELSE j.stream
     IN /\ ends' = [ends EXCEPT ![j.proc] = PutBack(j)]
        /\ got' = IF j.buf = <<>> THEN got ELSE [got EXCEPT ![j.proc][s] = @ \o j.buf]
        /\ eof' = [eof EXCEPT ![j.proc] = @ \cup Reported(j)]
  /\ UNCHANGED <<registered, osVars, closed>>

-----------------------------------------------------------------------------
(* The children.                                                           *)

ChildRead(p) ==
  /\ Alive(p) /\ child[p].program = "filter" /\ child[p].todo = <<>>
  /\ pipe[p]["stdin"] # <<>>
  /\ child' = [child EXCEPT ![p].todo = <<Head(pipe[p]["stdin"])>>]
  /\ pipe' = [pipe EXCEPT ![p]["stdin"] = Tail(@)]
  /\ UNCHANGED <<sent, offloadVars, regVars, seenVars>>

ChildWrite(p) ==
  /\ Alive(p) /\ child[p].todo # <<>>
  /\ child[p].tty \/ (Open(p, Out(p)) /\ Len(pipe[p][Out(p)]) < PIPE_CAP)
  /\ child' = [child EXCEPT ![p].todo = Tail(@)]
  /\ pipe' = IF child[p].tty THEN pipe
             ELSE [pipe EXCEPT ![p][Out(p)] = Append(@, Head(child[p].todo))]
  /\ UNCHANGED <<sent, offloadVars, regVars, seenVars>>

ChildBrokenPipe(p) ==
  /\ Alive(p) /\ child[p].todo # <<>> /\ ~child[p].tty /\ ~Open(p, Out(p))
  /\ child' = [child EXCEPT ![p].state = "exited"]
  /\ UNCHANGED <<pipe, sent, offloadVars, regVars, seenVars>>

ChildExit(p) ==
  /\ Alive(p) /\ child[p].todo = <<>>
  /\ child[p].program = "source" \/ (pipe[p]["stdin"] = <<>> /\ ~Open(p, "stdin"))
  /\ child' = [child EXCEPT ![p].state = "exited", ![p].ok = TRUE]
  /\ UNCHANGED <<pipe, sent, offloadVars, regVars, seenVars>>

-----------------------------------------------------------------------------

Native(f, p) ==
  \/ ProcessStart(f, p)
  \/ \E op \in {"run", "exec"} : ProcessRun(f, p, op)
  \/ ProcessWait(f, p)
  \/ ProcessKill(f, p)
  \/ \E n \in WriteSizes : ProcessStdinWrite(f, p, n)
  \/ ProcessStdinClose(f, p)
  \/ \E s \in Outputs, max \in ReadSizes : ProcessRead(f, p, s, max)

Worker(f) ==
  \/ WriteJob(f) \/ ReadPipeOwned(f) \/ WaitJob(f)
  \/ RunSpawn(f) \/ RunDrain(f) \/ RunWait(f)

WorkerErr(f) == ReadErr(f) \/ WaitErr(f) \/ SpawnErr(f)

PoolTake == WorkerTake /\ UNCHANGED <<regVars, osVars, seenVars>>
PoolSend(f) == WorkerSend(f) /\ UNCHANGED <<regVars, osVars, seenVars>>

Child(p) == ChildRead(p) \/ ChildWrite(p) \/ ChildBrokenPipe(p) \/ ChildExit(p)

Next ==
  \/ \E f \in Fibers, p \in Procs : Native(f, p)
  \/ PoolTake
  \/ \E f \in Fibers : Worker(f) \/ WorkerErr(f) \/ PoolSend(f)
  \/ \E f \in Fibers : Finished(f)
  \/ \E p \in Procs : Child(p)

Spec == Init /\ [][Next]_vars

\* Worker threads and children are run by the kernel, and the driver delivers
\* every completion.  What the program calls, and when, is not assumed, and no
\* call has to fail.
FairSpec ==
  /\ Spec
  /\ WF_vars(PoolTake)
  /\ \A f \in Fibers : WF_vars(Worker(f) \/ PoolSend(f)) /\ WF_vars(Finished(f))
  /\ \A p \in Procs : WF_vars(Child(p))

-----------------------------------------------------------------------------

\* The registry, the jobs and the pipes have the values the natives expect,
\* and no job holds more than it was given or reads more than it was asked.
TypeOK ==
  /\ OffloadTypeOK /\ job \in [Fibers -> Jobs \cup {Idle}]
  /\ registered \subseteq Procs /\ closed \subseteq Procs
  /\ ends \in [Procs -> SUBSET Streams]
  /\ child \in [Procs -> [state : {"unborn", "running", "exited", "reaped"},
                         program : Programs \cup {"none"}, ok : BOOLEAN, tty : BOOLEAN,
                         shared : BOOLEAN, lost : BOOLEAN, todo : Seq(Bytes)]]
  /\ pipe \in [Procs -> [Streams -> Seq(Bytes)]]
  /\ sent \in [Procs -> 0 .. MaxBytes]
  /\ got \in [Procs -> [Streams -> Seq(Bytes)]]
  /\ eof \in [Procs -> SUBSET Outputs]
  /\ \A p \in Procs : p \notin registered => ends[p] = {}
  /\ \A f \in Busy : job[f].op = "read" => Len(job[f].buf) <= Clamped(job[f].n)

Drained(p, s) == child[p].state \in {"exited", "reaped"} /\ pipe[p][s] = <<>>

\* "An empty read is EOF": an empty read is reported only when the child will
\* write no more and nothing it wrote is left unread.
EmptyReadIsEof == \A p \in Procs : \A s \in eof[p] : Drained(p, s)

\* Whichever fibers read a child's output, and however their jobs finish, the
\* program gets its bytes once each and in the order the child wrote them.  If
\* it keeps to one fiber per stream, an empty read is the end of the output: the
\* child will write no more and nothing it wrote is left unread.
OutputExact ==
  \A p \in Procs :
    /\ \A s \in Outputs : got[p][s] = [i \in DOMAIN got[p][s] |-> i]
    /\ ~child[p].shared => \A s \in eof[p] : Drained(p, s)

\* A stream that no job uses is in the registry exactly until it is closed or
\* at its end, if the program keeps to one fiber per stream: taking it out for
\* a job never loses it, and never revives it.
StreamsExact ==
  \A p \in registered, s \in Streams : ~child[p].shared /\ Using(p, s) = {} =>
    (s \in ends[p] <=> ~(s \in eof[p] \/ (s = "stdin" /\ p \in closed)))

\* "Close the child's stdin, signalling end-of-input": once close_stdin has
\* returned Ok and no write is under way, our end of the pipe is closed.
CloseEndsInput ==
  \A p \in closed : Using(p, "stdin") = {} => ~Open(p, "stdin")

\* A wait takes the child out of the registry before it blocks, so kill does not
\* find it (natives.rs:2598), and wait and kill race for it: until it is reaped,
\* a child has one owner that will reap it, the registry or one job.  The one
\* way to lose it is an error of the kill or the wait itself: both have taken it
\* out of the registry by then, so no later call finds it (natives.rs:2611), and
\* nobody reaps it.
OneOwner ==
  \A p \in Procs : child[p].state \in {"running", "exited"} =>
    LET reapers == {f \in On(p) : job[f].op \in {"wait", "run", "exec"} /\ ~job[f].err}
    IN IF p \in registered THEN reapers = {} /\ ~child[p].lost
       ELSE Cardinality(reapers) = IF child[p].lost THEN 0 ELSE 1

\* The workers (mod.rs:951) are not all in blocked jobs for ever.
Unsaturated == []<>(Cardinality(OnWorker) < WORKER_COUNT)

\* A wait returns, whatever else the program is doing with the child, unless
\* jobs that never end keep every worker: no queued job is forgotten, and the
\* child's stdin is closed when the wait starts.  The comment at
\* natives.rs:2569 has the pipes drop after the wait; ProcessWait_KeepsPipes
\* does as it says, and a child that reads to its end of input never exits.
WaitReturns ==
  Unsaturated => \A f \in Fibers : (f \in Busy /\ job[f].op = "wait") ~> f \notin Busy

\* "a slow read never stalls the other fibers": a write that fits in the pipe
\* is done in the end, whoever else waits for output.
WriteReturns ==
  \A f \in Fibers : (f \in Busy /\ job[f].op = "write") ~> f \notin Busy
=============================================================================
