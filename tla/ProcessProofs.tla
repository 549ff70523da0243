----------------------------- MODULE ProcessProofs -----------------------------
(***************************************************************************)
(* A child's output reaches the program once and in order, its pipe ends   *)
(* are neither lost nor revived, and it is reaped by one owner, for any    *)
(* number of fibers, workers, children and bytes.                          *)
(***************************************************************************)
EXTENDS Process, OffloadProofs

(* The invariant.                                                          *)

\* The records that describe a child.
Children == [state : {"unborn", "running", "exited", "reaped"}, program : Programs \cup {"none"},
             ok : BOOLEAN, tty : BOOLEAN, shared : BOOLEAN, lost : BOOLEAN, todo : Seq(Bytes)]

\* The type of everything but the pool.
ProcessType ==
  /\ child \in [Procs -> Children] /\ registered \subseteq Procs /\ closed \subseteq Procs
  /\ pipe \in [Procs -> [Streams -> Seq(Bytes)]] /\ got \in [Procs -> [Streams -> Seq(Bytes)]]
  /\ ends \in [Procs -> SUBSET Streams] /\ eof \in [Procs -> SUBSET Outputs]
  /\ sent \in [Procs -> 0 .. MaxBytes]

\* The job of f waits for its child.
Reaps(f) == job[f].op \in {"wait", "run", "exec"}

\* A child that was not spawned has left no trace, and its job has done nothing
\* and has returned only if the spawn failed.
Untouched(p) == child[p].state = "unborn" =>
  /\ child[p] = Unborn /\ p \notin closed /\ eof[p] = {} /\ sent[p] = 0
  /\ \A s \in Streams : pipe[p][s] = <<>> /\ got[p][s] = <<>>
  /\ \A f \in On(p) : /\ job[f].op \in {"run", "exec"} /\ (f \in Returned => job[f].err)
                      /\ job[f].buf = <<>> /\ job[f].holds = {}

\* What a job of each kind holds, has read and has left to write.  A job fails
\* by returning; a read that fails keeps its pipe and has read nothing.
JobShape(f) ==
  LET j == job[f] IN
  /\ f \notin Returned => ~j.err
  /\ j.op = "read" =>
       /\ j.stream \in Outputs /\ j.holds \subseteq {j.stream} /\ Len(j.buf) =< Clamped(j.n)
       /\ f \notin Returned \/ j.err => j.buf = <<>>
       /\ f \in Returned /\ ~j.err => (j.buf = <<>> <=> j.holds = {})
       /\ j.err => j.holds # {}
  /\ j.op = "write" =>
       /\ j.stream = "stdin" /\ j.holds = {"stdin"} /\ j.buf = <<>>
       /\ f \notin Returned => sent[j.proc] + j.n =< MaxBytes
  /\ j.op \in {"run", "exec", "wait"} => j.stream = "none"
  /\ j.op \in {"exec", "wait"} => j.holds = {} /\ j.buf = <<>>

\* An end of a pipe is with the registry or with one job.
OneHolder(p) ==
  /\ p \notin registered => ends[p] = {}
  /\ \A f \in On(p) : \A s \in job[f].holds :
       s \notin ends[p] /\ \A g \in On(p) : s \in job[g].holds => g = f

\* Of the jobs on a child, only that of f reaps it.
SoleReaper(p, f) == f \in On(p) /\ \A g \in On(p) : Reaps(g) <=> g = f

\* A registered child is live and not lost, and no job reaps it; any other live
\* child is lost, or has one job that reaps it; the child of a process_run is its
\* job's alone; and a job that reaps has done so, or failed, when it returns.
Owned(p) ==
  /\ p \in registered => /\ child[p].state \in {"running", "exited"} /\ ~child[p].lost
                         /\ \A f \in On(p) : ~Reaps(f)
  /\ p \notin registered /\ child[p].state \in {"running", "exited"} /\ ~child[p].lost =>
       \E f \in Fibers : SoleReaper(p, f)
  /\ \A f \in On(p) : job[f].op \in {"run", "exec"} => p \notin registered /\ \A g \in On(p) : g = f
  /\ \A f \in On(p) : Reaps(f) /\ f \in Returned => child[p].state = "reaped" \/ job[f].err
  /\ \A f \in On(p) : Reaps(f) /\ job[f].err => child[p].state = "unborn" \/ child[p].lost
  /\ child[p].lost => \A f \in On(p) : Reaps(f) => job[f].err

\* t is what comes after the first n bytes of a stream.
Follows(t, n) == \A i \in 1 .. Len(t) : t[i] = n + i

\* The job of f has bytes of stream s that the program has yet to be given.
Carries(p, f, s) ==
  /\ f \in On(p) /\ job[f].buf # <<>>
  /\ \/ job[f].op = "read" /\ s = job[f].stream
     \/ job[f].op = "run" /\ s = Out(p)

\* The first n bytes of the stream have left the pipe: the program has them, or
\* one job does.
Fetched(p, s, n) ==
  \/ n = Len(got[p][s]) /\ \A f \in Fibers : ~Carries(p, f, s)
  \/ \E f \in Fibers : /\ Carries(p, f, s) /\ \A g \in Fibers : Carries(p, g, s) => g = f
                       /\ n = Len(got[p][s]) + Len(job[f].buf)
                       /\ Follows(job[f].buf, Len(got[p][s]))

\* Behind them come those in the pipe, then those the child has yet to write
\* and, for a filter, those in its stdin.
Ahead(p, s, n) ==
  LET m == n + Len(pipe[p][s])
      k == m + Len(child[p].todo)
  IN /\ Follows(pipe[p][s], n)
     /\ s = Out(p) /\ ~child[p].tty =>
          /\ Follows(child[p].todo, m)
          /\ child[p].program = "filter" =>
               Follows(pipe[p]["stdin"], k) /\ sent[p] = k + Len(pipe[p]["stdin"])

\* What the program got of a stream is its beginning, and the rest follows.
Flows(p, s) ==
  /\ Follows(got[p][s], 0)
  /\ s # Out(p) => pipe[p][s] = <<>>
  /\ \E n \in Nat : Fetched(p, s, n) /\ Ahead(p, s, n)

\* A stream that a job has read to its end is drained.
JobAtEnd(p, f) ==
  /\ job[f].op = "run" /\ f \in Returned /\ ~job[f].err => \A s \in Outputs : Drained(p, s)
  /\ ~child[p].shared /\ job[f].op = "read" /\ job[f].holds = {} => Drained(p, job[f].stream)

\* A stream whose end was reported, or that a job has read to its end, is drained.
AtEnd(p) ==
  /\ ~child[p].shared => \A s \in eof[p] : Drained(p, s)
  /\ \A f \in On(p) : JobAtEnd(p, f)

\* The program has seen the end of the stream, or has closed it.
Ended(p, s) == s \in eof[p] \/ (s = "stdin" /\ p \in closed)

\* With one fiber per stream, no stream is lost or revived.
Exclusive(p) ==
  p \in registered /\ ~child[p].shared => \A s \in Streams :
    /\ \A f, g \in Using(p, s) : f = g
    /\ Using(p, s) = {} => (s \in ends[p] <=> ~Ended(p, s))
    /\ \A f \in Using(p, s) : s \in job[f].holds => ~Ended(p, s)

\* What holds of every child, and of the jobs on it.
ChildOK(p) ==
  /\ Untouched(p) /\ OneHolder(p) /\ Owned(p) /\ AtEnd(p) /\ Exclusive(p)
  /\ \A s \in Outputs : Flows(p, s)
  /\ \A f \in On(p) : JobShape(f)

\* The inductive invariant.
ProcInv == Placed(Jobs) /\ ProcessType /\ \A p \in Procs : ChildOK(p)

-----------------------------------------------------------------------------
(* Streams of numbered bytes.                                              *)

(***************************************************************************)
(* Bytes are numbers, and a list of bytes has a length and members.        *)
(***************************************************************************)
LEMMA ByteSeq ==
  /\ MaxBytes \in Nat /\ Bytes \subseteq Nat /\ <<>> \in Seq(Bytes) /\ Len(<<>>) = 0
  /\ \A t \in Seq(Bytes) :
       /\ Len(t) \in Nat /\ (t = <<>> <=> Len(t) = 0)
       /\ \A i \in 1 .. Len(t) : t[i] \in Bytes
<1>1. MaxBytes \in Nat /\ Bytes \subseteq Nat
  BY ProcessAssumption DEF Bytes
<1>2. <<>> \in Seq(Bytes) /\ Len(<<>>) = 0
  OBVIOUS
<1>3. ASSUME NEW t \in Seq(Bytes)
      PROVE  /\ Len(t) \in Nat /\ (t = <<>> <=> Len(t) = 0)
             /\ \A i \in 1 .. Len(t) : t[i] \in Bytes
  OBVIOUS
<1> QED
  BY <1>1, <1>2, <1>3, Zenon

(***************************************************************************)
(* A stream starts at 0.                                                   *)
(***************************************************************************)
LEMMA ZeroPlus == 0 \in Nat /\ \A n \in Nat : 0 + n = n
  OBVIOUS

(***************************************************************************)
(* The next byte goes at the end.                                          *)
(***************************************************************************)
LEMMA FollowsAppend ==
  ASSUME NEW t \in Seq(Bytes), NEW n \in Nat, Follows(t, n), NEW b \in Bytes, b = n + Len(t) + 1
  PROVE  /\ Append(t, b) \in Seq(Bytes) /\ Len(Append(t, b)) = Len(t) + 1
         /\ Follows(Append(t, b), n)
<1>1. /\ Append(t, b) \in Seq(Bytes) /\ Len(Append(t, b)) = Len(t) + 1 /\ Len(t) \in Nat
      /\ \A i \in 1 .. Len(t) : Append(t, b)[i] = t[i]
      /\ Append(t, b)[Len(t) + 1] = b
  BY ByteSeq
<1>2. ASSUME NEW i \in 1 .. Len(Append(t, b)) PROVE Append(t, b)[i] = n + i
  <2>1. CASE i = Len(t) + 1
    BY <1>1, <2>1
  <2>2. CASE i # Len(t) + 1
    <3>1. i \in 1 .. Len(t)
      BY <1>1, <2>2
    <3> QED
      BY <1>1, <3>1 DEF Follows
  <2> QED
    BY <2>1, <2>2
<1> QED
  BY <1>1, <1>2, Zenon DEF Follows

(***************************************************************************)
(* The oldest byte comes off the front.                                    *)
(***************************************************************************)
LEMMA FollowsTail ==
  ASSUME NEW t \in Seq(Bytes), NEW n \in Nat, Follows(t, n), t # <<>>
  PROVE  /\ Head(t) \in Bytes /\ Head(t) = n + 1
         /\ Tail(t) \in Seq(Bytes) /\ Len(t) = 1 + Len(Tail(t)) /\ Follows(Tail(t), n + 1)
<1>1. /\ Len(t) \in Nat /\ Len(t) # 0 /\ Head(t) = t[1] /\ Head(t) \in Bytes
      /\ Tail(t) \in Seq(Bytes) /\ Len(Tail(t)) = Len(t) - 1
      /\ \A i \in 1 .. (Len(t) - 1) : Tail(t)[i] = t[i + 1]
  BY ByteSeq
<1>2. t[1] = n + 1
  BY <1>1 DEF Follows
<1>3. ASSUME NEW i \in 1 .. Len(Tail(t)) PROVE Tail(t)[i] = (n + 1) + i
  <2>1. i \in 1 .. (Len(t) - 1) /\ i + 1 \in 1 .. Len(t)
    BY <1>1
  <2>2. t[i + 1] = n + (i + 1)
    BY <2>1, Zenon DEF Follows
  <2> QED
    BY <1>1, <2>1, <2>2
<1>4. Follows(Tail(t), n + 1)
  BY <1>3, Zenon DEF Follows
<1> QED
  BY <1>1, <1>2, <1>4

(***************************************************************************)
(* One part of a stream behind another.                                    *)
(***************************************************************************)
LEMMA FollowsConcat ==
  ASSUME NEW t \in Seq(Bytes), NEW u \in Seq(Bytes), NEW n \in Nat, Follows(t, n),
         Follows(u, n + Len(t))
  PROVE  t \o u \in Seq(Bytes) /\ Len(t \o u) = Len(t) + Len(u) /\ Follows(t \o u, n)
<1>1. /\ t \o u \in Seq(Bytes) /\ Len(t \o u) = Len(t) + Len(u) /\ Len(t) \in Nat /\ Len(u) \in Nat
      /\ \A i \in 1 .. (Len(t) + Len(u)) :
           (t \o u)[i] = IF i =< Len(t) THEN t[i] ELSE u[i - Len(t)]
  BY ByteSeq
<1>2. ASSUME NEW i \in 1 .. Len(t \o u) PROVE (t \o u)[i] = n + i
  <2>1. CASE i =< Len(t)
    BY <1>1, <2>1 DEF Follows
  <2>2. CASE ~ (i =< Len(t))
    <3>1. i - Len(t) \in 1 .. Len(u)
      BY <1>1, <2>2
    <3>2. u[i - Len(t)] = (n + Len(t)) + (i - Len(t))
      BY <3>1, Zenon DEF Follows
    <3> QED
      BY <1>1, <2>2, <3>2
  <2> QED
    BY <2>1, <2>2
<1> QED
  BY <1>1, <1>2, Zenon DEF Follows

(***************************************************************************)
(* The first k bytes and the rest.                                         *)
(***************************************************************************)
LEMMA FollowsSplit ==
  ASSUME NEW t \in Seq(Bytes), NEW n \in Nat, Follows(t, n), NEW k \in 0 .. Len(t)
  PROVE  /\ SubSeq(t, 1, k) \in Seq(Bytes) /\ Len(SubSeq(t, 1, k)) = k
         /\ Follows(SubSeq(t, 1, k), n)
         /\ SubSeq(t, k + 1, Len(t)) \in Seq(Bytes)
         /\ Len(SubSeq(t, k + 1, Len(t))) = Len(t) - k
         /\ Follows(SubSeq(t, k + 1, Len(t)), n + k)
<1>1. Len(t) \in Nat /\ \A i \in 1 .. Len(t) : t[i] \in Bytes
  BY ByteSeq
<1> DEFINE a == SubSeq(t, 1, k)
           b == SubSeq(t, k + 1, Len(t))
<1>2. a \in Seq(Bytes) /\ Len(a) = k /\ \A i \in 1 .. k : a[i] = t[i]
  BY <1>1
<1>3. b \in Seq(Bytes) /\ Len(b) = Len(t) - k /\ \A i \in 1 .. (Len(t) - k) : b[i] = t[k + i]
  BY <1>1
<1> HIDE DEF a, b
<1>4. Follows(a, n)
  BY <1>1, <1>2 DEF Follows
<1>5. ASSUME NEW i \in 1 .. Len(b) PROVE b[i] = (n + k) + i
  <2>1. i \in 1 .. (Len(t) - k) /\ k + i \in 1 .. Len(t)
    BY <1>1, <1>3
  <2>2. t[k + i] = n + (k + i)
    BY <2>1, Zenon DEF Follows
  <2> QED
    BY <1>1, <1>3, <2>1, <2>2
<1>6. Follows(b, n + k)
  BY <1>5, Zenon DEF Follows
<1> QED
  BY <1>2, <1>3, <1>4, <1>6 DEF a, b

-----------------------------------------------------------------------------
(* Jobs, and the children a step does not touch.                           *)

(***************************************************************************)
(* The fields of a job, and of the job a native hands over.                *)
(***************************************************************************)
LEMMA JobFields ==
  /\ \A j \in Jobs :
       /\ j.op \in {"run", "exec", "wait", "write", "read"} /\ j.proc \in Procs
       /\ j.stream \in Streams \cup {"none"} /\ j.holds \subseteq Streams
       /\ j.n \in Nat /\ j.buf \in Seq(Bytes) /\ j.err \in BOOLEAN
  /\ \A op \in {"run", "exec", "wait", "write", "read"}, p \in Procs,
        s \in Streams \cup {"none"}, h \in SUBSET Streams, n \in Nat :
       /\ Job(op, p, s, h, n) \in Jobs
       /\ Job(op, p, s, h, n).op = op /\ Job(op, p, s, h, n).proc = p
       /\ Job(op, p, s, h, n).stream = s /\ Job(op, p, s, h, n).holds = h
       /\ Job(op, p, s, h, n).n = n /\ Job(op, p, s, h, n).buf = <<>>
       /\ Job(op, p, s, h, n).err = FALSE
<1>1. <<>> \in Seq(Bytes)
  BY ByteSeq
<1> QED
  BY <1>1 DEF Jobs, Job

(***************************************************************************)
(* A job on a child is a job.                                              *)
(***************************************************************************)
LEMMA OnJobs ==
  ASSUME Placed(Jobs), NEW p, NEW f \in On(p)
  PROVE  f \in Fibers /\ f \in Busy /\ job[f] \in Jobs /\ job[f].proc = p
<1>1. f \in Busy /\ f \in Fibers /\ job[f] # Idle /\ job[f].proc = p
  BY Zenon DEF On, Busy
<1>2. job[f] \in Jobs \cup {Idle}
  BY <1>1 DEF Placed
<1> QED
  BY <1>1, <1>2, Zenon

\* A step that leaves the jobs on child q, or the child itself, alone.
SameJobs(q) ==
  /\ On(q)' = On(q)
  /\ \A g \in On(q) : job'[g] = job[g] /\ (g \in Returned' <=> g \in Returned)

SameChild(q) ==
  /\ child'[q] = child[q] /\ pipe'[q] = pipe[q] /\ sent'[q] = sent[q]
  /\ got'[q] = got[q] /\ eof'[q] = eof[q] /\ ends'[q] = ends[q]
  /\ (q \in registered' <=> q \in registered) /\ (q \in closed' <=> q \in closed)

(***************************************************************************)
(* What holds of a child goes on holding if a step leaves it and its jobs  *)
(* alone.                                                                  *)
(***************************************************************************)
LEMMA Elsewhere ==
  ASSUME NEW q \in Procs, ChildOK(q), SameJobs(q), SameChild(q)
  PROVE  ChildOK(q)'
<1>1. /\ On(q)' = On(q)
      /\ \A g \in On(q) : job'[g] = job[g] /\ (g \in Returned' <=> g \in Returned)
  BY Zenon DEF SameJobs
<1>2. /\ child'[q] = child[q] /\ pipe'[q] = pipe[q] /\ sent'[q] = sent[q]
      /\ got'[q] = got[q] /\ eof'[q] = eof[q] /\ ends'[q] = ends[q]
      /\ (q \in registered' <=> q \in registered) /\ (q \in closed' <=> q \in closed)
  BY Zenon DEF SameChild
<1>3. Untouched(q)'
  <2>1. Untouched(q)
    BY Zenon DEF ChildOK
  <2>2. ASSUME child'[q].state = "unborn", NEW f \in On(q)
        PROVE  /\ job'[f].op \in {"run", "exec"} /\ (f \in Returned' => job'[f].err)
               /\ job'[f].buf = <<>> /\ job'[f].holds = {}
    BY <1>1, <1>2, <2>1, <2>2, Zenon DEF Untouched
  <2> QED
    BY <1>1, <1>2, <2>1, <2>2, Zenon DEF Untouched
<1>4. OneHolder(q)'
  BY <1>1, <1>2, Zenon DEF ChildOK, OneHolder
<1>5. Owned(q)'
  <2>1. Owned(q) /\ \A g \in On(q) : (Reaps(g)' <=> Reaps(g))
    BY <1>1, Zenon DEF ChildOK, Reaps
  <2>2. \A f : SoleReaper(q, f) => SoleReaper(q, f)'
    BY <1>1, <2>1, Zenon DEF SoleReaper
  <2>3. \A f \in On(q) : job'[f].op = job[f].op
    BY <1>1, Zenon
  <2> QED
    BY <1>1, <1>2, <2>1, <2>2, <2>3, Zenon DEF Owned
<1>6. AtEnd(q)'
  BY <1>1, <1>2, Zenon DEF ChildOK, AtEnd, JobAtEnd, Drained
<1>7. \A s \in Streams : /\ Using(q, s)' = Using(q, s) /\ (Ended(q, s)' <=> Ended(q, s))
                         /\ \A f \in Using(q, s) : f \in On(q)
  BY <1>1, <1>2, Zenon DEF Using, Ended
<1>8. Exclusive(q)'
  BY <1>1, <1>2, <1>7, Zenon DEF ChildOK, Exclusive
<1>9. \A f \in On(q)' : JobShape(f)'
  <2> SUFFICES ASSUME NEW f \in On(q) PROVE JobShape(f)'
    BY <1>1, Zenon
  <2>1. job'[f] = job[f] /\ (f \in Returned' <=> f \in Returned) /\ job[f].proc = q
    BY <1>1, Zenon DEF On
  <2>2. sent'[job[f].proc] = sent[job[f].proc] /\ JobShape(f)
    BY <1>2, <2>1, Zenon DEF ChildOK
  <2> QED
    BY <2>1, <2>2, Zenon DEF JobShape
<1>10. ASSUME NEW s \in Outputs PROVE Flows(q, s)'
  <2>1. Out(q)' = Out(q)
    BY <1>2, Zenon DEF Out
  <2>2. \A f : (Carries(q, f, s)' <=> Carries(q, f, s)) /\ (Carries(q, f, s) => f \in On(q))
    BY <1>1, <2>1, Zenon DEF Carries
  <2>3. \A n \in Nat : Fetched(q, s, n) => Fetched(q, s, n)'
    BY <1>1, <1>2, <2>2, Zenon DEF Fetched
  <2>4. \A n \in Nat : Ahead(q, s, n) => Ahead(q, s, n)'
    BY <1>2, <2>1, Zenon DEF Ahead
  <2> QED
    BY <1>2, <2>1, <2>3, <2>4, Zenon DEF ChildOK, Flows
<1> QED
  BY <1>3, <1>4, <1>5, <1>6, <1>8, <1>9, <1>10, Zenon DEF ChildOK

(***************************************************************************)
(* A step about one child keeps the invariant if it keeps it there.        *)
(***************************************************************************)
LEMMA OneChild ==
  ASSUME ProcInv, Placed(Jobs)', ProcessType', NEW p \in Procs,
         \A q \in Procs : q # p => SameJobs(q) /\ SameChild(q),
         ChildOK(p)'
  PROVE  ProcInv'
<1>1. ASSUME NEW q \in Procs PROVE ChildOK(q)'
  <2>1. CASE q = p
    BY <2>1, Zenon
  <2>2. CASE q # p
    BY <2>2, Elsewhere, Zenon DEF ProcInv
  <2> QED
    BY <2>1, <2>2, Zenon
<1> QED
  BY <1>1, Zenon DEF ProcInv

\* A native parks its fiber f on a job j about child p.
Parked(p, f, j) ==
  /\ f \notin On(p) /\ On(p)' = On(p) \cup {f}
  /\ job'[f] = j /\ \A g \in On(p) : job'[g] = job[g]
  /\ f \notin Returned /\ Returned' = Returned

\* The job of f on child p goes on as j, or returns.
Worked(p, f, j) ==
  /\ f \in On(p) /\ On(p)' = On(p)
  /\ job'[f] = j /\ \A g \in On(p) : g # f => job'[g] = job[g]
  /\ f \notin Returned

\* The builder of the job of f on child p runs, and the job is gone.
Delivered(p, f) ==
  /\ f \in On(p) /\ On(p)' = On(p) \ {f} /\ f \in Returned
  /\ \A g \in On(p) : g # f => job'[g] = job[g] /\ (g \in Returned' <=> g \in Returned)

(***************************************************************************)
(* park_syscall, as the children see it.                                   *)
(***************************************************************************)
LEMMA Parks ==
  ASSUME Placed(Jobs), NEW f \in Fibers, NEW j \in Jobs, ParkSyscall(f, j), NEW p, j.proc = p
  PROVE  Placed(Jobs)' /\ Parked(p, f, j) /\ \A q : q # p => SameJobs(q)
<1>1. /\ Placed(Jobs)' /\ Busy' = Busy \cup {f} /\ f \notin Busy /\ Busy \subseteq Fibers
      /\ Returned' = Returned /\ f \notin Returned
      /\ job'[f] = j /\ \A g \in Fibers : g # f => job'[g] = job[g]
  BY ParkPlaced, Zenon DEF Busy
<1>2. \A g \in Busy : job'[g] = job[g]
  BY <1>1, Zenon
<1>3. On(p)' = On(p) \cup {f} /\ f \notin On(p)
  BY <1>1, <1>2, Zenon DEF On
<1>4. \A q : q # p => On(q)' = On(q)
  BY <1>1, <1>2, Zenon DEF On
<1>5. \A q : \A g \in On(q) : g \in Busy
  BY Zenon DEF On
<1> QED
  BY <1>1, <1>2, <1>3, <1>4, <1>5, Zenon DEF SameJobs, Parked

(***************************************************************************)
(* The worker of a job, as the children see it.                            *)
(***************************************************************************)
LEMMA Works ==
  ASSUME Placed(Jobs), NEW f \in Fibers, NEW j \in Jobs, Progress(f, j) \/ Finish(f, j),
         NEW p, job[f].proc = p, j.proc = p
  PROVE  /\ Placed(Jobs)' /\ Worked(p, f, j) /\ \A q : q # p => SameJobs(q)
         /\ Progress(f, j) => Returned' = Returned
         /\ Finish(f, j) => Returned' = Returned \cup {f}
<1>1. /\ Placed(Jobs)' /\ Busy' = Busy /\ f \in Busy /\ f \notin Returned
      /\ job'[f] = j /\ \A g \in Fibers : g # f => job'[g] = job[g]
      /\ Progress(f, j) => Returned' = Returned
      /\ Finish(f, j) => Returned' = Returned \cup {f}
  <2>1. CASE Progress(f, j)
    <3>1. Finish(f, j) => Returned' = Returned \cup {f}
      BY FinishPlaced, Zenon
    <3> QED
      BY <2>1, <3>1, ProgressPlaced, Zenon
  <2>2. CASE Finish(f, j)
    <3>1. Progress(f, j) => Returned' = Returned
      BY ProgressPlaced, Zenon
    <3> QED
      BY <2>2, <3>1, FinishPlaced, Zenon
  <2> QED
    BY <2>1, <2>2, Zenon
<1> Busy \subseteq Fibers
  BY Zenon DEF Busy
<1>2. f \in On(p) /\ \A q : \A g \in On(q) : g \in Busy /\ (q # p => g # f)
  BY <1>1, Zenon DEF On
<1>3. \A g \in Busy : job'[g].proc = job[g].proc
  BY <1>1, Zenon
<1>4. \A q : On(q)' = On(q)
  BY <1>1, <1>3, Zenon DEF On
<1>6. ASSUME NEW q, q # p PROVE SameJobs(q)
  <2>1. \A g \in On(q) : g # f /\ g \in Fibers
    BY <1>6, Zenon DEF On, Busy
  <2>2. \A g \in On(q) : job'[g] = job[g] /\ (g \in Returned' <=> g \in Returned)
    BY <1>1, <2>1, Zenon
  <2> QED
    BY <1>4, <2>2, Zenon DEF SameJobs
<1>7. \A g \in On(p) : g # f => job'[g] = job[g]
  BY <1>1, <1>2, Zenon
<1>8. Worked(p, f, j)
  BY <1>1, <1>2, <1>4, <1>7, Zenon DEF Worked
<1> QED
  BY <1>1, <1>6, <1>8, Zenon

(***************************************************************************)
(* deliver, as the children see it.                                        *)
(***************************************************************************)
LEMMA Delivers ==
  ASSUME Placed(Jobs), NEW f \in Fibers, Deliver(f), NEW p, job[f].proc = p
  PROVE  Placed(Jobs)' /\ Delivered(p, f) /\ \A q : q # p => SameJobs(q)
<1>1. /\ Placed(Jobs)' /\ f \in Busy /\ f \in Returned /\ Busy \subseteq Fibers
      /\ Busy' = Busy \ {f} /\ Returned' = Returned \ {f}
      /\ \A g \in Fibers : g # f => job'[g] = job[g]
  BY DeliverPlaced, Zenon DEF Busy
<1>2. f \in On(p) /\ \A q : \A g \in On(q) : g \in Busy /\ (q # p => g # f)
  BY <1>1, Zenon DEF On
<1>3. On(p)' = On(p) \ {f}
  BY <1>1, Zenon DEF On
<1>4. \A q : q # p => On(q)' = On(q)
  BY <1>1, <1>2, Zenon DEF On
<1>6. ASSUME NEW q, q # p PROVE SameJobs(q)
  <2>1. \A g \in On(q) : g # f /\ g \in Fibers
    BY <1>1, <1>2, <1>6, Zenon
  <2>2. \A g \in On(q) : job'[g] = job[g] /\ (g \in Returned' <=> g \in Returned)
    BY <1>1, <2>1, Zenon
  <2> QED
    BY <1>4, <1>6, <2>2, Zenon DEF SameJobs
<1>7. \A g \in On(p) : g # f => job'[g] = job[g] /\ (g \in Returned' <=> g \in Returned)
  BY <1>1, <1>2, Zenon
<1>8. Delivered(p, f)
  BY <1>1, <1>2, <1>3, <1>7, Zenon DEF Delivered
<1> QED
  BY <1>1, <1>6, <1>8, Zenon

(***************************************************************************)
(* A step that leaves the pool alone leaves every job where it is.         *)
(***************************************************************************)
LEMMA NoJobs ==
  ASSUME Placed(Jobs), UNCHANGED offloadVars
  PROVE  Placed(Jobs)' /\ \A q : SameJobs(q)
<1>1. job' = job /\ queue' = queue /\ ran' = ran /\ done' = done
  BY DEF offloadVars
<1>2. Busy' = Busy /\ Returned' = Returned
  BY <1>1, Zenon DEF Busy, Returned
<1>3. OnWorker' = OnWorker
  BY <1>1, <1>2, Zenon DEF OnWorker
<1>4. \A q : On(q)' = On(q)
  BY <1>1, <1>2, Zenon DEF On
<1> QED
  BY <1>1, <1>2, <1>3, <1>4, Zenon DEF Placed, SameJobs

-----------------------------------------------------------------------------
(* The natives.                                                            *)

(***************************************************************************)
(* What the types say of one child.                                        *)
(***************************************************************************)
LEMMA ChildTypes ==
  ASSUME ProcessType, NEW p \in Procs
  PROVE  /\ child[p] \in Children /\ ends[p] \subseteq Streams /\ eof[p] \subseteq Outputs
         /\ child[p].state \in {"unborn", "running", "exited", "reaped"}
         /\ child[p].program \in {"filter", "source", "none"}
         /\ child[p].tty \in BOOLEAN /\ child[p].shared \in BOOLEAN
         /\ child[p].todo \in Seq(Bytes) /\ Out(p) \in Outputs /\ sent[p] \in 0 .. MaxBytes
         /\ \A s \in Streams : pipe[p][s] \in Seq(Bytes) /\ got[p][s] \in Seq(Bytes)
<1>1. child[p] \in Children /\ ends[p] \subseteq Streams /\ eof[p] \subseteq Outputs
  BY DEF ProcessType
<1>2. /\ child[p].state \in {"unborn", "running", "exited", "reaped"}
      /\ child[p].program \in {"filter", "source", "none"}
      /\ child[p].tty \in BOOLEAN /\ child[p].shared \in BOOLEAN
      /\ child[p].todo \in Seq(Bytes)
  BY <1>1, ProcessAssumption, Zenon DEF Children
<1>3. Out(p) \in Outputs
  BY DEF Out, Outputs
<1>4. sent[p] \in 0 .. MaxBytes
  BY DEF ProcessType
<1>5. \A s \in Streams : pipe[p][s] \in Seq(Bytes) /\ got[p][s] \in Seq(Bytes)
  BY DEF ProcessType
<1> QED
  BY <1>1, <1>2, <1>3, <1>4, <1>5

(***************************************************************************)
(* The parts of a stream stay as they are if no part of it moves.          *)
(***************************************************************************)
LEMMA FlowsKept ==
  ASSUME NEW p \in Procs, NEW s \in Outputs, Flows(p, s),
         got'[p][s] = got[p][s], pipe'[p][s] = pipe[p][s],
         pipe'[p]["stdin"] = pipe[p]["stdin"], sent'[p] = sent[p],
         child'[p].program = child[p].program, child'[p].tty = child[p].tty,
         child'[p].todo = child[p].todo,
         \A f \in Fibers : Carries(p, f, s)' <=> Carries(p, f, s),
         \A f \in Fibers : Carries(p, f, s) => job'[f].buf = job[f].buf
  PROVE  Flows(p, s)'
<1>1. Out(p)' = Out(p)
  BY Zenon DEF Out
<1>2. \A n \in Nat : Fetched(p, s, n) => Fetched(p, s, n)'
  BY Zenon DEF Fetched
<1>3. \A n \in Nat : Ahead(p, s, n) => Ahead(p, s, n)'
  BY <1>1, Zenon DEF Ahead
<1> QED
  BY <1>1, <1>2, <1>3, Zenon DEF Flows

(***************************************************************************)
(* A job keeps its shape while it does not change and nothing is sent.     *)
(***************************************************************************)
LEMMA ShapeKept ==
  ASSUME NEW p, NEW g \in On(p), JobShape(g), job'[g] = job[g], g \in Returned' <=> g \in Returned,
         job[g].op = "write" => sent'[p] = sent[p]
  PROVE  JobShape(g)'
<1>1. job[g].proc = p
  BY Zenon DEF On
<1>2. job[g].op = "write" => sent'[job[g].proc] = sent[job[g].proc]
  BY <1>1, Zenon
<1> QED
  BY <1>2, Zenon DEF JobShape

(***************************************************************************)
(* What is drained stays so, and the jobs that do not change are at the    *)
(* end of what they were at the end of.                                    *)
(***************************************************************************)
LEMMA AtEndKept ==
  ASSUME NEW p, AtEnd(p), \A s : Drained(p, s) => Drained(p, s)',
         child'[p].shared = child[p].shared, eof'[p] = eof[p],
         \A g \in On(p)' :
           \/ JobAtEnd(p, g)'
           \/ g \in On(p) /\ job'[g] = job[g] /\ (g \in Returned' <=> g \in Returned)
  PROVE  AtEnd(p)'
<1>1. ASSUME NEW g \in On(p)' PROVE JobAtEnd(p, g)'
  <2>1. CASE g \in On(p) /\ job'[g] = job[g] /\ (g \in Returned' <=> g \in Returned)
    <3>1. JobAtEnd(p, g)
      BY <2>1, Zenon DEF AtEnd
    <3> QED
      BY <2>1, <3>1, Zenon DEF JobAtEnd
  <2> QED
    BY <2>1, Zenon
<1> QED
  BY <1>1, Zenon DEF AtEnd

(***************************************************************************)
(* A pipe end still has one owner when ends are only dropped.              *)
(***************************************************************************)
LEMMA HolderKept ==
  ASSUME NEW p, OneHolder(p), On(p)' \subseteq On(p),
         \A g \in On(p)' : job'[g].holds \subseteq job[g].holds,
         ends'[p] \subseteq ends[p], p \notin registered' => ends'[p] = {}
  PROVE  OneHolder(p)'
<1>1. ASSUME NEW g \in On(p)', NEW s \in job'[g].holds
      PROVE  s \notin ends'[p] /\ \A h \in On(p)' : s \in job'[h].holds => h = g
  <2>1. g \in On(p) /\ s \in job[g].holds
    BY <1>1, Zenon
  <2>2. s \notin ends[p] /\ \A h \in On(p) : s \in job[h].holds => h = g
    BY <2>1, Zenon DEF OneHolder
  <2> QED
    BY <2>2, Zenon
<1> QED
  BY <1>1, Zenon DEF OneHolder

(***************************************************************************)
(* A native that parks its fiber on a job with nothing read yet moves no   *)
(* byte, and the other jobs are as they were.                              *)
(***************************************************************************)
LEMMA ParkKeeps ==
  ASSUME ProcInv, NEW p \in Procs, NEW f \in Fibers, NEW j \in Jobs, ParkSyscall(f, j),
         j.proc = p, j.buf = <<>>, UNCHANGED <<osVars, seenVars>>
  PROVE  /\ \A s \in Outputs : Flows(p, s)'
         /\ \A g \in On(p) : JobShape(g)'
         /\ \A s : Drained(p, s)' <=> Drained(p, s)
         /\ \A s : Using(p, s)' = IF s = j.stream THEN Using(p, s) \cup {f} ELSE Using(p, s)
         /\ \A s : f \notin Using(p, s)
         /\ \A g \in On(p) : (Reaps(g)' <=> Reaps(g))
<1>1. /\ child' = child /\ pipe' = pipe /\ sent' = sent /\ got' = got /\ eof' = eof
      /\ closed' = closed
  BY DEF osVars, seenVars
<1>2. /\ f \notin On(p) /\ On(p)' = On(p) \cup {f} /\ job'[f] = j
      /\ \A g \in On(p) : job'[g] = job[g]
      /\ Returned' = Returned
  <2>1. Parked(p, f, j)
    BY Parks, Zenon DEF ProcInv
  <2> QED
    BY <2>1, Zenon DEF Parked
<1>3. Out(p)' = Out(p)
  BY <1>1, Zenon DEF Out
<1>4. ASSUME NEW s \in Outputs PROVE Flows(p, s)'
  <2>1. \A g \in Fibers : Carries(p, g, s)' <=> Carries(p, g, s)
    BY <1>2, <1>3, Zenon DEF Carries
  <2>2. \A g \in Fibers : Carries(p, g, s) => job'[g].buf = job[g].buf
    BY <1>2, Zenon DEF Carries
  <2>3. Flows(p, s)
    BY Zenon DEF ProcInv, ChildOK
  <2> QED
    BY <1>1, <2>1, <2>2, <2>3, FlowsKept, Zenon
<1>5. ASSUME NEW g \in On(p) PROVE JobShape(g)'
  <2>1. JobShape(g) /\ job'[g] = job[g] /\ (g \in Returned' <=> g \in Returned)
    BY <1>2, Zenon DEF ProcInv, ChildOK
  <2> QED
    BY <1>1, <2>1, ShapeKept, Zenon
<1>6. \A s : Using(p, s)' = IF s = j.stream THEN Using(p, s) \cup {f} ELSE Using(p, s)
  BY <1>2, Zenon DEF Using
<1>7. \A s : f \notin Using(p, s)
  BY <1>2, Zenon DEF Using
<1>8. \A g \in On(p) : (Reaps(g)' <=> Reaps(g))
  BY <1>2, Zenon DEF Reaps
<1>9. \A s : Drained(p, s)' <=> Drained(p, s)
  BY <1>1, Zenon DEF Drained
<1> QED
  BY <1>4, <1>5, <1>6, <1>7, <1>8, <1>9, Zenon

(***************************************************************************)
(* process_run and process_exec hand over a job for a child to be.         *)
(***************************************************************************)
LEMMA RunInv ==
  ASSUME ProcInv, NEW f \in Fibers, NEW p \in Procs, NEW op \in {"run", "exec"},
         ProcessRun(f, p, op)
  PROVE  ProcInv'
<1> DEFINE j == Job(op, p, "none", {}, 0)
<1>1. /\ child[p] = Unborn /\ On(p) = {} /\ ParkSyscall(f, j)
      /\ child' = child /\ pipe' = pipe /\ sent' = sent /\ got' = got /\ eof' = eof
      /\ closed' = closed /\ registered' = registered /\ ends' = ends
      /\ UNCHANGED <<osVars, seenVars>>
  BY DEF ProcessRun, New, regVars, osVars, seenVars
<1>2. /\ j \in Jobs /\ j.op = op /\ j.proc = p /\ j.stream = "none" /\ j.holds = {}
      /\ j.buf = <<>> /\ ~j.err
  BY JobFields
<1> HIDE DEF j
<1>3. /\ Placed(Jobs)' /\ On(p)' = {f} /\ job'[f] = j /\ f \notin Returned /\ Returned' = Returned
      /\ \A q : q # p => SameJobs(q)
  <2>1. Placed(Jobs)' /\ Parked(p, f, j) /\ \A q : q # p => SameJobs(q)
    BY <1>1, <1>2, Parks, Zenon DEF ProcInv
  <2> QED
    BY <1>1, <2>1, Zenon DEF Parked
<1>4. ProcessType' /\ \A q : SameChild(q)
  BY <1>1, Zenon DEF ProcInv, ProcessType, SameChild
<1>5. ChildOK(p) /\ child[p].state = "unborn" /\ Untouched(p) /\ Owned(p) /\ p \notin registered
      /\ ~child[p].lost
  <2>1. ChildOK(p) /\ child[p].state = "unborn" /\ ~child[p].lost
    BY <1>1 DEF ProcInv, Unborn
  <2>2. p \notin registered
    BY <2>1 DEF ChildOK, Owned
  <2> QED
    BY <2>1, <2>2, Zenon DEF ChildOK
<1>6. \A s \in Outputs : Flows(p, s)'
  BY <1>1, <1>2, ParkKeeps, Zenon
<1>7. Untouched(p)'
  BY <1>1, <1>2, <1>3, <1>5, Zenon DEF Untouched
<1>8. OneHolder(p)'
  BY <1>1, <1>2, <1>3, <1>5, Zenon DEF OneHolder, ChildOK
<1>9. Owned(p)'
  <2>1. ~job'[f].err /\ ~child'[p].lost /\ child'[p].state = "unborn" /\ p \notin registered'
    BY <1>1, <1>2, <1>3, <1>5, Zenon
  <2> QED
    BY <1>3, <2>1 DEF Owned
<1>10. AtEnd(p)'
  BY <1>1, <1>2, <1>3, <1>5 DEF AtEnd, JobAtEnd, Untouched
<1>11. Exclusive(p)'
  BY <1>1, <1>5, Zenon DEF Exclusive
<1>12. JobShape(f)'
  BY <1>2, <1>3 DEF JobShape
<1>13. ChildOK(p)'
  BY <1>3, <1>6, <1>7, <1>8, <1>9, <1>10, <1>11, <1>12, Zenon DEF ChildOK
<1> QED
  BY <1>3, <1>4, <1>13, OneChild, Zenon

(***************************************************************************)
(* A registered child was spawned and not reaped.                          *)
(***************************************************************************)
LEMMA Registered ==
  ASSUME ProcInv, NEW p \in Procs, p \in registered
  PROVE  /\ ChildOK(p) /\ child[p].state \in {"running", "exited"} /\ child[p].state # "unborn"
         /\ child[p].state # "reaped" /\ ~child[p].lost /\ \A g \in On(p) : ~Reaps(g)
<1>1. ChildOK(p) /\ Owned(p)
  BY Zenon DEF ProcInv, ChildOK
<1> QED
  BY <1>1 DEF Owned

(***************************************************************************)
(* process_wait takes the child, and drops its pipe ends.                  *)
(***************************************************************************)
LEMMA WaitInv ==
  ASSUME ProcInv, NEW f \in Fibers, NEW p \in Procs, ProcessWait(f, p)
  PROVE  ProcInv'
<1> DEFINE j == Job("wait", p, "none", {}, 0)
<1>1. /\ p \in registered /\ ParkSyscall(f, j)
      /\ registered' = registered \ {p} /\ ends' = [ends EXCEPT ![p] = {}]
      /\ child' = child /\ pipe' = pipe /\ sent' = sent /\ got' = got /\ eof' = eof
      /\ closed' = closed
      /\ UNCHANGED <<osVars, seenVars>>
  BY DEF ProcessWait, osVars, seenVars
<1>2. /\ j \in Jobs /\ j.op = "wait" /\ j.proc = p /\ j.stream = "none" /\ j.holds = {}
      /\ j.buf = <<>> /\ ~j.err
  BY JobFields
<1> HIDE DEF j
<1>3. /\ Placed(Jobs)' /\ f \notin On(p) /\ On(p)' = On(p) \cup {f} /\ job'[f] = j
      /\ \A g \in On(p) : job'[g] = job[g]
      /\ f \notin Returned /\ Returned' = Returned
      /\ \A q : q # p => SameJobs(q)
  <2>1. Placed(Jobs)' /\ Parked(p, f, j) /\ \A q : q # p => SameJobs(q)
    BY <1>1, <1>2, Parks, Zenon DEF ProcInv
  <2> QED
    BY <2>1, Zenon DEF Parked
<1>4. ends'[p] = {} /\ ProcessType' /\ \A q \in Procs : q # p => ends'[q] = ends[q]
  BY <1>1 DEF ProcInv, ProcessType
<1>5. \A q \in Procs : q # p => SameChild(q)
  BY <1>1, <1>4, Zenon DEF SameChild
<1>6. /\ ChildOK(p) /\ child[p].state \in {"running", "exited"} /\ child[p].state # "unborn"
      /\ child[p].state # "reaped" /\ ~child[p].lost /\ \A g \in On(p) : ~Reaps(g)
  BY <1>1, Registered, Zenon
<1>7. /\ \A s \in Outputs : Flows(p, s)'
      /\ \A g \in On(p) : JobShape(g)'
      /\ \A s : Drained(p, s)' <=> Drained(p, s)
      /\ \A g \in On(p) : (Reaps(g)' <=> Reaps(g))
  BY <1>1, <1>2, ParkKeeps, Zenon
<1>8. Untouched(p)'
  BY <1>1, <1>6, Zenon DEF Untouched
<1>9. OneHolder(p)'
  <2>1. OneHolder(p)
    BY <1>6, Zenon DEF ChildOK
  <2>2. job'[f].holds = {} /\ \A g \in On(p) : job'[g].holds = job[g].holds
    BY <1>2, <1>3, Zenon
  <2> QED
    BY <1>3, <1>4, <2>1, <2>2, Zenon DEF OneHolder
<1>10. Owned(p)'
  <2>1. Reaps(f)' /\ job'[f].op \notin {"run", "exec"}
    BY <1>2, <1>3 DEF Reaps
  <2>2. SoleReaper(p, f)'
    BY <1>3, <1>6, <1>7, <2>1, Zenon DEF SoleReaper
  <2>3. \A g \in On(p) : job'[g].op \notin {"run", "exec"} /\ ~Reaps(g)'
    BY <1>3, <1>6, <1>7, Zenon DEF Reaps
  <2>4. p \notin registered' /\ ~child'[p].lost /\ ~job'[f].err
    BY <1>1, <1>2, <1>3, <1>6, Zenon
  <2> QED
    BY <1>3, <2>1, <2>2, <2>3, <2>4, Zenon DEF Owned
<1>11. AtEnd(p)'
  <2>1. AtEnd(p) /\ job'[f].op = "wait"
    BY <1>2, <1>3, <1>6, Zenon DEF ChildOK
  <2>2. JobAtEnd(p, f)'
    BY <2>1 DEF JobAtEnd
  <2>3. \A g \in On(p)' :
          \/ JobAtEnd(p, g)'
          \/ g \in On(p) /\ job'[g] = job[g] /\ (g \in Returned' <=> g \in Returned)
    BY <1>3, <2>2, Zenon
  <2>4. \A i : Drained(p, i) => Drained(p, i)'
    BY <1>7, Zenon
  <2>5. child'[p].shared = child[p].shared /\ eof'[p] = eof[p]
    BY <1>1, Zenon
  <2> QED
    BY <2>1, <2>3, <2>4, <2>5, AtEndKept, Zenon
<1>12. Exclusive(p)'
  BY <1>1, Zenon DEF Exclusive
<1>13. JobShape(f)'
  BY <1>2, <1>3 DEF JobShape
<1>14. ChildOK(p)'
  BY <1>3, <1>7, <1>8, <1>9, <1>10, <1>11, <1>12, <1>13, Zenon DEF ChildOK
<1> QED
  BY <1>3, <1>4, <1>5, <1>14, OneChild, Zenon

(***************************************************************************)
(* A stream that is not there, and that no fiber uses, is at its end.      *)
(***************************************************************************)
LEMMA GoneIsDrained ==
  ASSUME ProcInv, NEW p \in Procs, p \in registered, ~child[p].shared,
         NEW s \in Outputs, Using(p, s) = {}, s \notin ends[p]
  PROVE  Drained(p, s)
<1>1. Exclusive(p) /\ AtEnd(p) /\ s \in Streams /\ s # "stdin"
  BY DEF ProcInv, ChildOK, Outputs, Streams
<1>2. Ended(p, s)
  BY <1>1, Zenon DEF Exclusive
<1>3. s \in eof[p]
  BY <1>1, <1>2, Zenon DEF Ended
<1> QED
  BY <1>1, <1>3, Zenon DEF AtEnd

(***************************************************************************)
(* A native takes a stream of a registered child out of the registry for   *)
(* the time of a job, or hands the job None.                               *)
(***************************************************************************)
LEMMA TakeInv ==
  ASSUME ProcInv, NEW f \in Fibers, NEW p \in Procs, NEW s \in Streams, NEW j \in Jobs,
         p \in registered, child[p].shared \/ Using(p, s) = {},
         j.op \in {"write", "read"}, j.op = "read" => s \in Outputs,
         j.proc = p, j.stream = s, j.holds = {s} \cap ends[p], j.buf = <<>>,
         ParkSyscall(f, j), JobShape(f)',
         ends' = [ends EXCEPT ![p] = @ \ {s}], registered' = registered,
         UNCHANGED <<osVars, seenVars>>
  PROVE  ProcInv'
<1>1. /\ child' = child /\ pipe' = pipe /\ sent' = sent /\ got' = got /\ eof' = eof
      /\ closed' = closed
  BY DEF osVars, seenVars
<1>2. /\ Placed(Jobs)' /\ f \notin On(p) /\ On(p)' = On(p) \cup {f} /\ job'[f] = j
      /\ \A g \in On(p) : job'[g] = job[g]
      /\ f \notin Returned /\ Returned' = Returned
      /\ \A q : q # p => SameJobs(q)
  <2>1. Placed(Jobs)' /\ Parked(p, f, j) /\ \A q : q # p => SameJobs(q)
    BY Parks, Zenon DEF ProcInv
  <2> QED
    BY <2>1, Zenon DEF Parked
<1>3. ends'[p] = ends[p] \ {s} /\ ProcessType' /\ \A q \in Procs : q # p => ends'[q] = ends[q]
  BY <1>1 DEF ProcInv, ProcessType
<1>4. \A q \in Procs : q # p => SameChild(q)
  BY <1>1, <1>3, Zenon DEF SameChild
<1>5. /\ ChildOK(p) /\ child[p].state # "unborn" /\ \A g \in On(p) : ~Reaps(g)
  BY Registered, Zenon
<1>6. /\ \A i \in Outputs : Flows(p, i)'
      /\ \A g \in On(p) : JobShape(g)'
      /\ \A i : Drained(p, i)' <=> Drained(p, i)
      /\ \A i : Using(p, i)' = IF i = j.stream THEN Using(p, i) \cup {f} ELSE Using(p, i)
      /\ \A i : f \notin Using(p, i)
      /\ \A g \in On(p) : (Reaps(g)' <=> Reaps(g))
  BY ParkKeeps, Zenon
<1>7. Untouched(p)'
  BY <1>1, <1>5, Zenon DEF Untouched
<1>8. OneHolder(p)'
  <2>1. OneHolder(p)
    BY <1>5, Zenon DEF ChildOK
  <2>2. \A i \in job'[f].holds : i = s /\ i \in ends[p] /\ i \notin ends'[p]
    BY <1>2, <1>3, Zenon
  <2>3. \A g \in On(p) : job'[g].holds = job[g].holds
    BY <1>2, Zenon
  <2>4. \A g \in On(p) : \A i \in job[g].holds : i \notin ends[p] /\ i \notin ends'[p]
    BY <1>3, <2>1, Zenon DEF OneHolder
  <2>5. \A g \in On(p) : \A i \in job[g].holds : i \notin job'[f].holds
    BY <2>2, <2>4, Zenon
  <2>6. \A g, h \in On(p) : \A i : i \in job[g].holds /\ i \in job[h].holds => h = g
    BY <2>1, Zenon DEF OneHolder
  <2>7. ASSUME NEW g \in On(p)', NEW i \in job'[g].holds
        PROVE  i \notin ends'[p] /\ \A h \in On(p)' : i \in job'[h].holds => h = g
    <3>1. CASE g = f
      BY <1>2, <2>2, <2>3, <2>5, <2>7, <3>1, Zenon
    <3>2. CASE g # f
      <4>1. g \in On(p) /\ i \in job[g].holds
        BY <1>2, <2>3, <2>7, <3>2, Zenon
      <4> QED
        BY <1>2, <2>3, <2>4, <2>5, <2>6, <4>1, Zenon
    <3> QED
      BY <3>1, <3>2, Zenon
  <2> QED
    BY <2>7, Zenon DEF OneHolder
<1>9. Owned(p)'
  <2>1. ~Reaps(f)' /\ job'[f].op \notin {"run", "exec"}
    BY <1>2 DEF Reaps
  <2>2. \A g \in On(p) : ~Reaps(g)' /\ job'[g].op \notin {"run", "exec"}
    BY <1>2, <1>5, <1>6, Zenon DEF Reaps
  <2>3. Owned(p)
    BY <1>5, Zenon DEF ChildOK
  <2> QED
    BY <1>1, <1>2, <2>1, <2>2, <2>3, Zenon DEF Owned
<1>10. AtEnd(p)'
  <2>1. AtEnd(p)
    BY <1>5, Zenon DEF ChildOK
  <2>2. job'[f].op = "read" /\ ~child[p].shared /\ job'[f].holds = {} => Drained(p, s)
    <3> SUFFICES ASSUME job'[f].op = "read", ~child[p].shared, job'[f].holds = {}
                 PROVE  Drained(p, s)
      OBVIOUS
    <3>1. s \notin ends[p] /\ s \in Outputs /\ Using(p, s) = {}
      BY <1>2, Zenon
    <3> QED
      BY <3>1, GoneIsDrained, Zenon
  <2>3. job'[f].op # "run" /\ job'[f].stream = s
    BY <1>2
  <2>4. JobAtEnd(p, f)'
    BY <1>1, <1>6, <2>2, <2>3, Zenon DEF JobAtEnd
  <2>5. \A g \in On(p)' :
          \/ JobAtEnd(p, g)'
          \/ g \in On(p) /\ job'[g] = job[g] /\ (g \in Returned' <=> g \in Returned)
    BY <1>2, <2>4, Zenon
  <2>6. \A i : Drained(p, i) => Drained(p, i)'
    BY <1>6, Zenon
  <2>7. child'[p].shared = child[p].shared /\ eof'[p] = eof[p]
    BY <1>1, Zenon
  <2> QED
    BY <2>1, <2>5, <2>6, <2>7, AtEndKept, Zenon
<1>11. Exclusive(p)'
  <2> SUFFICES ASSUME ~child[p].shared, NEW i \in Streams
               PROVE  /\ \A g, h \in Using(p, i)' : g = h
                      /\ Using(p, i)' = {} => (i \in ends'[p] <=> ~Ended(p, i)')
                      /\ \A g \in Using(p, i)' : i \in job'[g].holds => ~Ended(p, i)'
    BY <1>1, Zenon DEF Exclusive
  <2>1. Ended(p, i)' <=> Ended(p, i)
    BY <1>1, Zenon DEF Ended
  <2>2. Exclusive(p)
    BY <1>5, Zenon DEF ChildOK
  <2>3. /\ \A g, h \in Using(p, i) : g = h
        /\ Using(p, i) = {} => (i \in ends[p] <=> ~Ended(p, i))
        /\ \A g \in Using(p, i) : i \in job[g].holds => ~Ended(p, i)
    BY <2>2, Zenon DEF Exclusive
  <2>4. CASE i = s
    <3>1. Using(p, i) = {} /\ Using(p, i)' = {f}
      BY <1>6, <2>4, Zenon
    <3>2. i \in job'[f].holds => i \in ends[p]
      BY <1>2, Zenon
    <3> QED
      BY <2>1, <2>3, <3>1, <3>2, Zenon
  <2>5. CASE i # s
    <3>1. Using(p, i)' = Using(p, i) /\ (i \in ends'[p] <=> i \in ends[p])
      BY <1>3, <1>6, <2>5, Zenon
    <3>2. \A g \in Using(p, i) : job'[g] = job[g]
      BY <1>2, Zenon DEF Using
    <3> QED
      BY <2>1, <2>3, <3>1, <3>2, Zenon
  <2> QED
    BY <2>4, <2>5, Zenon
<1>12. ChildOK(p)'
  BY <1>2, <1>6, <1>7, <1>8, <1>9, <1>10, <1>11, Zenon DEF ChildOK
<1> QED
  BY <1>2, <1>3, <1>4, <1>12, OneChild, Zenon

(***************************************************************************)
(* process_stdin_write.                                                    *)
(***************************************************************************)
LEMMA StdinWriteInv ==
  ASSUME ProcInv, NEW f \in Fibers, NEW p \in Procs, NEW n \in WriteSizes, ProcessStdinWrite(f, p, n)
  PROVE  ProcInv'
<1> DEFINE j == Job("write", p, "stdin", {"stdin"}, n)
<1>1. /\ p \in registered /\ (child[p].shared \/ Using(p, "stdin") = {})
      /\ "stdin" \in ends[p] /\ sent[p] + n =< MaxBytes /\ ParkSyscall(f, j)
      /\ ends' = [ends EXCEPT ![p] = @ \ {"stdin"}] /\ registered' = registered
      /\ UNCHANGED <<osVars, seenVars>>
  BY DEF ProcessStdinWrite, MayUse
<1>2. "stdin" \in Streams /\ {"stdin"} \in SUBSET Streams /\ n \in Nat
  BY ProcessAssumption DEF Streams
<1>3. /\ j \in Jobs /\ j.op = "write" /\ j.proc = p /\ j.stream = "stdin"
      /\ j.holds = {"stdin"} /\ j.n = n /\ j.buf = <<>> /\ ~j.err
  BY <1>2, JobFields
<1> HIDE DEF j
<1>4. job'[f] = j /\ sent' = sent
  BY <1>1, <1>3, Parks, Zenon DEF Parked, ProcInv, osVars
<1>5. JobShape(f)'
  BY <1>1, <1>3, <1>4 DEF JobShape
<1>6. j.holds = {"stdin"} \cap ends[p]
  BY <1>1, <1>3, Zenon
<1>7. j.op \in {"write", "read"} /\ (j.op = "read" => "stdin" \in Outputs)
  BY <1>3
<1> QED
  BY <1>1, <1>2, <1>3, <1>5, <1>6, <1>7, TakeInv, Zenon

(***************************************************************************)
(* process_stdout_read and process_stderr_read.                            *)
(***************************************************************************)
LEMMA ReadInv ==
  ASSUME ProcInv, NEW f \in Fibers, NEW p \in Procs, NEW s \in Outputs, NEW max \in ReadSizes,
         ProcessRead(f, p, s, max)
  PROVE  ProcInv'
<1> DEFINE j == Job("read", p, s, {s} \cap ends[p], max)
<1>1. /\ p \in registered /\ (child[p].shared \/ Using(p, s) = {}) /\ ParkSyscall(f, j)
      /\ ends' = [ends EXCEPT ![p] = ends[p] \ {s}] /\ registered' = registered
      /\ UNCHANGED <<osVars, seenVars>>
  BY DEF ProcessRead, MayUse, Taken
<1>2. s \in Streams /\ {s} \cap ends[p] \in SUBSET Streams /\ max \in Nat
  BY ProcessAssumption DEF Streams
<1>3. /\ j \in Jobs /\ j.op = "read" /\ j.proc = p /\ j.stream = s
      /\ j.holds = {s} \cap ends[p] /\ j.n = max /\ j.buf = <<>> /\ ~j.err
  BY <1>2, JobFields
<1> HIDE DEF j
<1>4. job'[f] = j /\ f \notin Returned'
  BY <1>1, <1>3, Parks, Zenon DEF Parked, ProcInv
<1>5. JobShape(f)'
  <2>1. Len(<<>>) =< Clamped(max)
    BY <1>2 DEF Clamped
  <2> QED
    BY <1>3, <1>4, <2>1 DEF JobShape
<1>6. j.op \in {"write", "read"}
  BY <1>3
<1> QED
  BY <1>1, <1>2, <1>3, <1>5, <1>6, TakeInv, Zenon

(***************************************************************************)
(* A child that has just been spawned has written nothing, and has the     *)
(* bytes of its program to write.                                          *)
(***************************************************************************)
LEMMA BornFlows ==
  ASSUME NEW p \in Procs, NEW program \in Programs, NEW tty \in BOOLEAN, NEW shared \in BOOLEAN,
         child'[p] = Born(program, tty, shared), sent'[p] = 0,
         \A s \in Streams : pipe'[p][s] = <<>> /\ got'[p][s] = <<>>,
         \A f \in Fibers, s \in Outputs : ~Carries(p, f, s)'
  PROVE  /\ child'[p] \in Children /\ child'[p].state = "running"
         /\ child'[p].shared = shared /\ child'[p].tty = tty /\ child'[p].program = program
         /\ ~child'[p].lost
         /\ \A s \in Outputs : Flows(p, s)'
<1> DEFINE todo == IF program = "source" THEN [i \in Bytes |-> i] ELSE <<>>
<1>1. MaxBytes \in Nat /\ program \in {"filter", "source"}
  BY ProcessAssumption
<1>2. todo \in Seq(Bytes) /\ Follows(todo, 0) /\ (program = "filter" => todo = <<>>)
  <2>1. [i \in Bytes |-> i] \in Seq(Bytes) /\ Len([i \in Bytes |-> i]) = MaxBytes
    BY <1>1 DEF Bytes
  <2>2. Follows([i \in Bytes |-> i], 0)
    BY <1>1, <2>1 DEF Follows, Bytes
  <2>3. <<>> \in Seq(Bytes) /\ Follows(<<>>, 0)
    BY DEF Follows
  <2> QED
    BY <1>1, <2>1, <2>2, <2>3
<1>3. /\ child'[p].state = "running" /\ child'[p].shared = shared /\ child'[p].tty = tty
      /\ child'[p].program = program /\ child'[p].todo = todo /\ ~child'[p].lost
  BY DEF Born
<1>4. child'[p] \in Children
  BY <1>2 DEF Born, Children
<1> HIDE DEF todo
<1>5. ASSUME NEW s \in Outputs PROVE Flows(p, s)'
  <2>1. s \in Streams /\ "stdin" \in Streams
    BY DEF Outputs, Streams
  <2>2. pipe'[p][s] = <<>> /\ got'[p][s] = <<>> /\ pipe'[p]["stdin"] = <<>>
    BY <2>1, Zenon
  <2>3. Follows(<<>>, 0) /\ Len(<<>>) = 0 /\ Follows(<<>>, 0 + 0 + 0)
    BY DEF Follows
  <2>4. Fetched(p, s, 0)'
    BY <2>2, <2>3, Zenon DEF Fetched
  <2>5. Len(todo) \in Nat /\ (program = "filter" => Len(todo) = 0)
    BY <1>2, <2>3, ByteSeq
  <2>6. 0 + Len(<<>>) = 0
    BY <2>3
  <2>7. Ahead(p, s, 0)'
    BY <1>2, <1>3, <2>2, <2>3, <2>5, <2>6 DEF Ahead
  <2> QED
    BY <2>2, <2>3, <2>4, <2>7 DEF Flows
<1> QED
  BY <1>3, <1>4, <1>5, Zenon

(***************************************************************************)
(* process_start.                                                          *)
(***************************************************************************)
LEMMA StartInv ==
  ASSUME ProcInv, NEW f \in Fibers, NEW p \in Procs, ProcessStart(f, p)
  PROVE  ProcInv'
<1>1. PICK program \in Programs, shared \in Sharing :
        child' = [child EXCEPT ![p] = Born(program, FALSE, shared)]
  BY Zenon DEF ProcessStart
<1>2. /\ child[p] = Unborn /\ On(p) = {} /\ registered' = registered \cup {p}
      /\ ends' = [ends EXCEPT ![p] = Streams] /\ UNCHANGED offloadVars
      /\ pipe' = pipe /\ sent' = sent /\ got' = got /\ eof' = eof /\ closed' = closed
  BY DEF ProcessStart, New, seenVars
<1>3. Placed(Jobs)' /\ \A q : SameJobs(q)
  BY <1>2, NoJobs, Zenon DEF ProcInv
<1>4. On(p)' = {}
  BY <1>2, <1>3, Zenon DEF SameJobs
<1>5. /\ child'[p] = Born(program, FALSE, shared) /\ ends'[p] = Streams
      /\ \A q \in Procs : q # p => child'[q] = child[q] /\ ends'[q] = ends[q]
  BY <1>1, <1>2 DEF ProcInv, ProcessType
<1>6. child[p].state = "unborn" /\ Untouched(p)
  BY <1>2 DEF Unborn, ProcInv, ChildOK
<1>7. /\ p \notin closed /\ eof[p] = {} /\ sent[p] = 0
      /\ \A s \in Streams : pipe[p][s] = <<>> /\ got[p][s] = <<>>
  BY <1>6, Zenon DEF Untouched
<1>8. /\ child'[p] \in Children /\ child'[p].state = "running" /\ ~child'[p].lost
      /\ \A s \in Outputs : Flows(p, s)'
  <2>1. \A g \in Fibers, s \in Outputs : ~Carries(p, g, s)'
    BY <1>4, Zenon DEF Carries
  <2>2. shared \in BOOLEAN
    BY ProcessAssumption
  <2>3. /\ sent'[p] = 0
        /\ \A s \in Streams : pipe'[p][s] = <<>> /\ got'[p][s] = <<>>
    BY <1>2, <1>7, Zenon
  <2> QED
    BY <1>5, <2>1, <2>2, <2>3, BornFlows, Zenon
<1>9. ProcessType'
  <2>1. child' \in [Procs -> Children]
    BY <1>1, <1>5, <1>8, Zenon DEF ProcInv, ProcessType
  <2>2. ends' \in [Procs -> SUBSET Streams] /\ registered' \subseteq Procs
    BY <1>2 DEF ProcInv, ProcessType
  <2> QED
    BY <1>2, <2>1, <2>2, Zenon DEF ProcInv, ProcessType
<1>10. \A q \in Procs : q # p => SameChild(q)
  BY <1>2, <1>5, Zenon DEF SameChild
<1>11. Untouched(p)'
  BY <1>8 DEF Untouched
<1>12. OneHolder(p)' /\ Owned(p)'
  BY <1>2, <1>4, <1>8 DEF OneHolder, Owned
<1>13. AtEnd(p)'
  BY <1>2, <1>4, <1>7, Zenon DEF AtEnd
<1>14. Exclusive(p)'
  <2>1. \A s \in Streams : Using(p, s)' = {} /\ ~Ended(p, s)' /\ s \in ends'[p]
    BY <1>2, <1>4, <1>5, <1>7, Zenon DEF Using, Ended
  <2> QED
    BY <2>1, Zenon DEF Exclusive
<1>15. ChildOK(p)'
  BY <1>4, <1>8, <1>11, <1>12, <1>13, <1>14, Zenon DEF ChildOK
<1> QED
  BY <1>3, <1>9, <1>10, <1>15, OneChild, Zenon

(***************************************************************************)
(* A step of a child, or of the registry, that leaves the jobs alone and   *)
(* moves no byte.                                                          *)
(***************************************************************************)
LEMMA StillFlows ==
  ASSUME ProcInv, NEW p \in Procs, SameJobs(p),
         got' = got, pipe' = pipe, sent' = sent,
         child'[p].program = child[p].program, child'[p].tty = child[p].tty,
         child'[p].todo = child[p].todo
  PROVE  \A s \in Outputs : Flows(p, s)'
<1>1. On(p)' = On(p) /\ \A g \in On(p) : job'[g] = job[g]
  BY Zenon DEF SameJobs
<1>2. Out(p)' = Out(p)
  BY Zenon DEF Out
<1> SUFFICES ASSUME NEW s \in Outputs PROVE Flows(p, s)'
  OBVIOUS
<1>3. \A g \in Fibers : Carries(p, g, s)' <=> Carries(p, g, s)
  BY <1>1, <1>2, Zenon DEF Carries
<1>4. \A g \in Fibers : Carries(p, g, s) => job'[g].buf = job[g].buf
  BY <1>1, Zenon DEF Carries
<1>5. Flows(p, s)
  BY Zenon DEF ProcInv, ChildOK
<1> QED
  BY <1>3, <1>4, <1>5, FlowsKept, Zenon

(***************************************************************************)
(* process_kill takes the child, kills it and reaps it.                    *)
(***************************************************************************)
LEMMA KillInv ==
  ASSUME ProcInv, NEW f \in Fibers, NEW p \in Procs, ProcessKill(f, p)
  PROVE  ProcInv'
<1>1. /\ p \in registered /\ registered' = registered \ {p} /\ ends' = [ends EXCEPT ![p] = {}]
      /\ \/ child' = [child EXCEPT ![p].state = "reaped"]
         \/ child' = [child EXCEPT ![p].lost = TRUE]
      /\ UNCHANGED offloadVars
      /\ pipe' = pipe /\ sent' = sent /\ got' = got /\ eof' = eof /\ closed' = closed
  BY DEF ProcessKill, seenVars
<1>2. Placed(Jobs)' /\ \A q : SameJobs(q)
  BY <1>1, NoJobs, Zenon DEF ProcInv
<1>3. /\ On(p)' = On(p)
      /\ \A g \in On(p) : job'[g] = job[g] /\ (g \in Returned' <=> g \in Returned)
  BY <1>2, Zenon DEF SameJobs
<1>4. child[p] \in Children /\ child \in [Procs -> Children]
  BY DEF ProcInv, ProcessType
<1>5. /\ child'[p].state = "reaped" \/ (child'[p].state = child[p].state /\ child'[p].lost)
      /\ child'[p].program = child[p].program
      /\ child'[p].tty = child[p].tty /\ child'[p].todo = child[p].todo
      /\ child'[p].shared = child[p].shared /\ child' \in [Procs -> Children]
      /\ \A q \in Procs : q # p => child'[q] = child[q]
  <2>1. CASE child' = [child EXCEPT ![p].state = "reaped"]
    BY <1>4, <2>1, Zenon DEF Children
  <2>2. CASE child' = [child EXCEPT ![p].lost = TRUE]
    BY <1>4, <2>2, Zenon DEF Children
  <2> QED
    BY <1>1, <2>1, <2>2, Zenon
<1>6. /\ ends' \in [Procs -> SUBSET Streams] /\ ends'[p] = {}
      /\ \A q \in Procs : q # p => ends'[q] = ends[q]
  BY <1>1 DEF ProcInv, ProcessType
<1>7. ProcessType'
  BY <1>1, <1>5, <1>6, Zenon DEF ProcInv, ProcessType
<1>8. \A q \in Procs : q # p => SameChild(q)
  BY <1>1, <1>5, <1>6, Zenon DEF SameChild
<1>9. ChildOK(p) /\ child[p].state # "unborn" /\ \A g \in On(p) : ~Reaps(g)
  BY <1>1, Registered, Zenon
<1>10. \A s \in Outputs : Flows(p, s)'
  BY <1>1, <1>2, <1>5, StillFlows, Zenon
<1>11. Untouched(p)'
  BY <1>5, <1>9 DEF Untouched
<1>12. OneHolder(p)'
  BY <1>3, <1>6, <1>9, Zenon DEF OneHolder, ChildOK
<1>13. Owned(p)'
  <2>1. \A g \in On(p) : ~Reaps(g)' /\ job'[g].op \notin {"run", "exec"}
    BY <1>3, <1>9, Zenon DEF Reaps
  <2>2. child'[p].state \notin {"running", "exited"} \/ child'[p].lost
    BY <1>5
  <2>3. p \notin registered'
    BY <1>1, Zenon
  <2> QED
    BY <1>3, <2>1, <2>2, <2>3, Zenon DEF Owned
<1>14. AtEnd(p)'
  <2>1. \A s : Drained(p, s) => Drained(p, s)'
    BY <1>1, <1>5 DEF Drained
  <2>2. AtEnd(p) /\ eof'[p] = eof[p]
    BY <1>1, <1>9, Zenon DEF ChildOK
  <2>3. \A g \in On(p)' :
          \/ JobAtEnd(p, g)'
          \/ g \in On(p) /\ job'[g] = job[g] /\ (g \in Returned' <=> g \in Returned)
    BY <1>3, Zenon
  <2> QED
    BY <1>5, <2>1, <2>2, <2>3, AtEndKept, Zenon
<1>15. Exclusive(p)'
  BY <1>1, Zenon DEF Exclusive
<1>16. \A g \in On(p)' : JobShape(g)'
  <2> SUFFICES ASSUME NEW g \in On(p) PROVE JobShape(g)'
    BY <1>3, Zenon
  <2> QED
    BY <1>1, <1>3, <1>9, ShapeKept, Zenon DEF ChildOK
<1>17. ChildOK(p)'
  BY <1>10, <1>11, <1>12, <1>13, <1>14, <1>15, <1>16, Zenon DEF ChildOK
<1> QED
  BY <1>2, <1>7, <1>8, <1>17, OneChild, Zenon

(***************************************************************************)
(* process_stdin_close drops the end that is in the registry.              *)
(***************************************************************************)
LEMMA CloseInv ==
  ASSUME ProcInv, NEW f \in Fibers, NEW p \in Procs, ProcessStdinClose(f, p)
  PROVE  ProcInv'
<1>1. /\ p \in registered /\ (child[p].shared \/ Using(p, "stdin") = {})
      /\ ends' = [ends EXCEPT ![p] = @ \ {"stdin"}] /\ closed' = closed \cup {p}
      /\ UNCHANGED offloadVars /\ registered' = registered
      /\ child' = child /\ pipe' = pipe /\ sent' = sent /\ got' = got /\ eof' = eof
  BY DEF ProcessStdinClose, MayUse, osVars
<1>2. Placed(Jobs)' /\ \A q : SameJobs(q)
  BY <1>1, NoJobs, Zenon DEF ProcInv
<1>3. /\ On(p)' = On(p)
      /\ \A g \in On(p) : job'[g] = job[g] /\ (g \in Returned' <=> g \in Returned)
  BY <1>2, Zenon DEF SameJobs
<1>4. /\ ends' \in [Procs -> SUBSET Streams] /\ ends'[p] = ends[p] \ {"stdin"}
      /\ \A q \in Procs : q # p => ends'[q] = ends[q]
  BY <1>1 DEF ProcInv, ProcessType
<1>5. ProcessType'
  BY <1>1, <1>4, Zenon DEF ProcInv, ProcessType
<1>6. \A q \in Procs : q # p => SameChild(q)
  BY <1>1, <1>4, Zenon DEF SameChild
<1>7. ChildOK(p) /\ child[p].state # "unborn" /\ \A g \in On(p) : ~Reaps(g)
  BY <1>1, Registered, Zenon
<1>8. \A s \in Outputs : Flows(p, s)'
  BY <1>1, <1>2, StillFlows, Zenon
<1>9. Untouched(p)'
  BY <1>1, <1>7, Zenon DEF Untouched
<1>10. OneHolder(p)'
  <2>1. OneHolder(p) /\ On(p)' \subseteq On(p) /\ ends'[p] \subseteq ends[p]
    BY <1>3, <1>4, <1>7, Zenon DEF ChildOK
  <2>2. \A g \in On(p)' : job'[g].holds \subseteq job[g].holds
    BY <1>3, Zenon
  <2>3. p \in registered'
    BY <1>1, Zenon
  <2> QED
    BY <2>1, <2>2, <2>3, HolderKept, Zenon
<1>11. Owned(p)'
  <2>1. \A g \in On(p) : ~Reaps(g)' /\ job'[g].op \notin {"run", "exec"}
    BY <1>3, <1>7, Zenon DEF Reaps
  <2>2. Owned(p)
    BY <1>7, Zenon DEF ChildOK
  <2> QED
    BY <1>1, <1>3, <2>1, <2>2, Zenon DEF Owned
<1>12. AtEnd(p)'
  <2>1. \A s : Drained(p, s) => Drained(p, s)'
    BY <1>1, Zenon DEF Drained
  <2>2. AtEnd(p) /\ eof'[p] = eof[p] /\ child'[p].shared = child[p].shared
    BY <1>1, <1>7, Zenon DEF ChildOK
  <2>3. \A g \in On(p)' :
          \/ JobAtEnd(p, g)'
          \/ g \in On(p) /\ job'[g] = job[g] /\ (g \in Returned' <=> g \in Returned)
    BY <1>3, Zenon
  <2> QED
    BY <2>1, <2>2, <2>3, AtEndKept, Zenon
<1>13. Exclusive(p)'
  <2> SUFFICES ASSUME ~child[p].shared, NEW i \in Streams
               PROVE  /\ \A g, h \in Using(p, i)' : g = h
                      /\ Using(p, i)' = {} => (i \in ends'[p] <=> ~Ended(p, i)')
                      /\ \A g \in Using(p, i)' : i \in job'[g].holds => ~Ended(p, i)'
    BY <1>1, Zenon DEF Exclusive
  <2>1. /\ \A g, h \in Using(p, i) : g = h
        /\ Using(p, i) = {} => (i \in ends[p] <=> ~Ended(p, i))
        /\ \A g \in Using(p, i) : i \in job[g].holds => ~Ended(p, i)
    BY <1>1, <1>7, Zenon DEF ChildOK, Exclusive
  <2>2. Using(p, i)' = Using(p, i) /\ \A g \in Using(p, i) : job'[g] = job[g]
    BY <1>3, Zenon DEF Using
  <2>3. CASE i = "stdin"
    <3>1. Using(p, i) = {} /\ i \notin ends'[p] /\ Ended(p, i)'
      BY <1>1, <1>4, <2>3, Zenon DEF Ended
    <3> QED
      BY <2>2, <3>1, Zenon
  <2>4. CASE i # "stdin"
    <3>1. (i \in ends'[p] <=> i \in ends[p]) /\ (Ended(p, i)' <=> Ended(p, i))
      BY <1>1, <1>4, <2>4, Zenon DEF Ended
    <3> QED
      BY <2>1, <2>2, <3>1, Zenon
  <2> QED
    BY <2>3, <2>4, Zenon
<1>14. \A g \in On(p)' : JobShape(g)'
  <2> SUFFICES ASSUME NEW g \in On(p) PROVE JobShape(g)'
    BY <1>3, Zenon
  <2> QED
    BY <1>1, <1>3, <1>7, ShapeKept, Zenon DEF ChildOK
<1>15. ChildOK(p)'
  BY <1>8, <1>9, <1>10, <1>11, <1>12, <1>13, <1>14, Zenon DEF ChildOK
<1> QED
  BY <1>2, <1>5, <1>6, <1>15, OneChild, Zenon

-----------------------------------------------------------------------------
(* The children.                                                           *)

(***************************************************************************)
(* A step of a live child keeps the invariant if its output still flows.   *)
(***************************************************************************)
LEMMA ChildInv ==
  ASSUME ProcInv, NEW p \in Procs, Alive(p), ProcessType',
         UNCHANGED <<sent, offloadVars, regVars, seenVars>>,
         \A q \in Procs : q # p => child'[q] = child[q] /\ pipe'[q] = pipe[q],
         child'[p].state \in {"running", "exited"}, child'[p].shared = child[p].shared,
         child'[p].lost = child[p].lost,
         \A s \in Outputs : Flows(p, s)'
  PROVE  ProcInv'
<1>1. /\ UNCHANGED offloadVars /\ sent' = sent /\ registered' = registered /\ ends' = ends
      /\ got' = got /\ eof' = eof /\ closed' = closed
  BY DEF regVars, seenVars
<1>2. Placed(Jobs)' /\ \A q : SameJobs(q)
  BY <1>1, NoJobs, Zenon DEF ProcInv
<1>3. /\ On(p)' = On(p)
      /\ \A g \in On(p) : job'[g] = job[g] /\ (g \in Returned' <=> g \in Returned)
  BY <1>2, Zenon DEF SameJobs
<1>4. \A q \in Procs : q # p => SameChild(q)
  BY <1>1, Zenon DEF SameChild
<1>5. ChildOK(p) /\ child[p].state = "running"
  BY Zenon DEF ProcInv, Alive
<1>6. Untouched(p)'
  BY DEF Untouched
<1>7. OneHolder(p)'
  <2>1. OneHolder(p) /\ On(p)' \subseteq On(p) /\ ends'[p] \subseteq ends[p]
    BY <1>1, <1>3, <1>5, Zenon DEF ChildOK
  <2>2. \A g \in On(p)' : job'[g].holds \subseteq job[g].holds
    BY <1>3, Zenon
  <2>3. p \notin registered' => ends'[p] = {}
    BY <1>1, <2>1, Zenon DEF OneHolder
  <2> QED
    BY <2>1, <2>2, <2>3, HolderKept, Zenon
<1>8. Owned(p)'
  <2>1. Owned(p) /\ child[p].state \in {"running", "exited"} /\ child[p].state # "reaped"
    BY <1>5, Zenon DEF ChildOK
  <2>2. \A g \in On(p) : (Reaps(g)' <=> Reaps(g)) /\ job'[g].op = job[g].op
    BY <1>3, Zenon DEF Reaps
  <2>3. \A g : SoleReaper(p, g) => SoleReaper(p, g)'
    BY <1>3, <2>2, Zenon DEF SoleReaper
  <2>4. \A g \in On(p) : /\ Reaps(g) /\ g \in Returned => job[g].err
                         /\ Reaps(g) /\ job[g].err => child[p].lost
    BY <2>1, <1>5 DEF Owned
  <2> QED
    BY <1>1, <1>3, <2>1, <2>2, <2>3, <2>4, Zenon DEF Owned
<1>9. AtEnd(p)'
  <2>1. \A s : Drained(p, s) => Drained(p, s)'
    BY <1>5 DEF Drained
  <2>2. AtEnd(p) /\ eof'[p] = eof[p]
    BY <1>1, <1>5, Zenon DEF ChildOK
  <2>3. \A g \in On(p)' :
          \/ JobAtEnd(p, g)'
          \/ g \in On(p) /\ job'[g] = job[g] /\ (g \in Returned' <=> g \in Returned)
    BY <1>3, Zenon
  <2> QED
    BY <2>1, <2>2, <2>3, AtEndKept, Zenon
<1>10. Exclusive(p)'
  <2>1. Exclusive(p)
    BY <1>5, Zenon DEF ChildOK
  <2>2. \A s \in Streams : /\ Using(p, s)' = Using(p, s) /\ (Ended(p, s)' <=> Ended(p, s))
                           /\ \A g \in Using(p, s) : job'[g] = job[g]
    BY <1>1, <1>3, Zenon DEF Using, Ended
  <2> QED
    BY <1>1, <2>1, <2>2, Zenon DEF Exclusive
<1>11. \A g \in On(p)' : JobShape(g)'
  <2> SUFFICES ASSUME NEW g \in On(p) PROVE JobShape(g)'
    BY <1>3, Zenon
  <2> QED
    BY <1>1, <1>3, <1>5, ShapeKept, Zenon DEF ChildOK
<1>12. ChildOK(p)'
  BY <1>6, <1>7, <1>8, <1>9, <1>10, <1>11, Zenon DEF ChildOK
<1> QED
  BY <1>2, <1>4, <1>12, OneChild, Zenon

(***************************************************************************)
(* A child that ends moves no byte.                                        *)
(***************************************************************************)
LEMMA ChildEnds ==
  ASSUME ProcInv, NEW p \in Procs, ChildBrokenPipe(p) \/ ChildExit(p)
  PROVE  ProcInv'
<1>1. /\ Alive(p) /\ UNCHANGED <<sent, offloadVars, regVars, seenVars>> /\ pipe' = pipe
      /\ got' = got /\ sent' = sent /\ UNCHANGED offloadVars
      /\ \/ child' = [child EXCEPT ![p].state = "exited"]
         \/ child' = [child EXCEPT ![p].state = "exited", ![p].ok = TRUE]
  BY DEF ChildBrokenPipe, ChildExit, seenVars
<1>2. child[p] \in Children /\ child \in [Procs -> Children]
  BY DEF ProcInv, ProcessType
<1>3. /\ child'[p].state = "exited" /\ child'[p].program = child[p].program
      /\ child'[p].tty = child[p].tty /\ child'[p].todo = child[p].todo
      /\ child'[p].shared = child[p].shared /\ child'[p].lost = child[p].lost
      /\ child' \in [Procs -> Children]
      /\ \A q \in Procs : q # p => child'[q] = child[q]
  <2>1. CASE child' = [child EXCEPT ![p].state = "exited"]
    BY <1>2, <2>1, Zenon DEF Children
  <2>2. CASE child' = [child EXCEPT ![p].state = "exited", ![p].ok = TRUE]
    BY <1>2, <2>2, Zenon DEF Children
  <2> QED
    BY <1>1, <2>1, <2>2, Zenon
<1>4. ProcessType'
  <2>1. /\ registered' = registered /\ ends' = ends /\ eof' = eof /\ closed' = closed
    BY <1>1 DEF regVars, seenVars
  <2> QED
    BY <1>1, <1>3, <2>1, Zenon DEF ProcInv, ProcessType
<1>5. SameJobs(p)
  BY <1>1, NoJobs, Zenon DEF ProcInv
<1>6. \A s \in Outputs : Flows(p, s)'
  BY <1>1, <1>3, <1>5, StillFlows, Zenon
<1>7. \A q \in Procs : q # p => child'[q] = child[q] /\ pipe'[q] = pipe[q]
  BY <1>1, <1>3, Zenon
<1>8. child'[p].state \in {"running", "exited"}
  BY <1>3
<1> QED
  BY <1>1, <1>3, <1>4, <1>6, <1>7, <1>8, ChildInv, Zenon

(***************************************************************************)
(* The program and the jobs have what they had, if the jobs do not change. *)
(***************************************************************************)
LEMMA FetchedKept ==
  ASSUME NEW p, NEW s, SameJobs(p), got' = got, child'[p].program = child[p].program,
         NEW n, Fetched(p, s, n)
  PROVE  Fetched(p, s, n)' /\ Out(p)' = Out(p)
<1>1. On(p)' = On(p) /\ \A g \in On(p) : job'[g] = job[g]
  BY Zenon DEF SameJobs
<1>2. Out(p)' = Out(p)
  BY Zenon DEF Out
<1>3. \A g : (Carries(p, g, s)' <=> Carries(p, g, s)) /\ (Carries(p, g, s) => g \in On(p))
  BY <1>1, <1>2, Zenon DEF Carries
<1> QED
  BY <1>1, <1>2, <1>3, Zenon DEF Fetched

(***************************************************************************)
(* A filter takes the oldest byte of its stdin.                            *)
(***************************************************************************)
LEMMA ChildReadInv ==
  ASSUME ProcInv, NEW p \in Procs, ChildRead(p)
  PROVE  ProcInv'
<1> DEFINE in == pipe[p]["stdin"]
<1>1. /\ Alive(p) /\ child[p].program = "filter" /\ child[p].todo = <<>> /\ in # <<>>
      /\ child' = [child EXCEPT ![p].todo = <<Head(in)>>]
      /\ pipe' = [pipe EXCEPT ![p]["stdin"] = Tail(@)]
      /\ UNCHANGED <<sent, offloadVars, regVars, seenVars>>
      /\ UNCHANGED offloadVars /\ sent' = sent /\ got' = got
  BY DEF ChildRead, seenVars
<1>2. /\ child[p] \in Children /\ child \in [Procs -> Children]
      /\ pipe \in [Procs -> [Streams -> Seq(Bytes)]] /\ pipe[p] \in [Streams -> Seq(Bytes)]
  BY DEF ProcInv, ProcessType
<1>3. "stdin" \in Streams /\ "stdin" \notin Outputs /\ Outputs \subseteq Streams
  BY DEF Streams, Outputs
<1>4. in \in Seq(Bytes) /\ Tail(in) \in Seq(Bytes) /\ Head(in) \in Bytes
  BY <1>1, <1>2, <1>3
<1>5. <<Head(in)>> \in Seq(Bytes) /\ Len(<<Head(in)>>) = 1 /\ <<Head(in)>>[1] = Head(in)
  BY <1>4
<1>6. /\ child'[p].todo = <<Head(in)>> /\ child'[p].state = child[p].state
      /\ child'[p].program = child[p].program /\ child'[p].tty = child[p].tty
      /\ child'[p].shared = child[p].shared /\ child'[p].lost = child[p].lost
      /\ child' \in [Procs -> Children]
      /\ \A q \in Procs : q # p => child'[q] = child[q]
  BY <1>1, <1>2, <1>5, Zenon DEF Children
<1>7. /\ pipe'[p]["stdin"] = Tail(in) /\ \A s \in Outputs : pipe'[p][s] = pipe[p][s]
      /\ \A q \in Procs : q # p => pipe'[q] = pipe[q]
      /\ pipe' \in [Procs -> [Streams -> Seq(Bytes)]]
  BY <1>1, <1>2, <1>3, <1>4
<1>8. SameJobs(p)
  BY <1>1, NoJobs, Zenon DEF ProcInv
<1>9. ASSUME NEW s \in Outputs PROVE Flows(p, s)'
  <2>1. Flows(p, s) /\ pipe[p][s] \in Seq(Bytes) /\ Len(pipe[p][s]) \in Nat
    BY <1>2, <1>3, ByteSeq DEF ProcInv, ChildOK
  <2>2. PICK n \in Nat : Fetched(p, s, n) /\ Ahead(p, s, n)
    BY <2>1, Zenon DEF Flows
  <2>3. Fetched(p, s, n)' /\ Out(p)' = Out(p)
    BY <1>1, <1>6, <1>8, <2>2, FetchedKept, Zenon
  <2>4. Ahead(p, s, n)'
    <3> DEFINE m == n + Len(pipe[p][s])
    <3>1. Follows(pipe'[p][s], n) /\ n + Len(pipe'[p][s]) = m /\ m \in Nat
      <4>1. Follows(pipe[p][s], n) /\ pipe'[p][s] = pipe[p][s]
        BY <1>7, <2>2, Zenon DEF Ahead
      <4>2. m \in Nat
        BY <2>1
      <4> QED
        BY <4>1, <4>2, Zenon
    <3>2. ASSUME s = Out(p), ~child[p].tty
          PROVE  /\ Follows(child'[p].todo, m)
                 /\ Follows(pipe'[p]["stdin"], m + Len(child'[p].todo))
                 /\ sent'[p] = (m + Len(child'[p].todo)) + Len(pipe'[p]["stdin"])
      <4>1. Follows(in, m + Len(<<>>)) /\ sent[p] = (m + Len(<<>>)) + Len(in)
        BY <1>1, <2>2, <3>2 DEF Ahead
      <4>2. Follows(in, m) /\ sent[p] = m + Len(in)
        <5>1. m + Len(<<>>) = m
          BY <3>1
        <5> QED
          BY <4>1, <5>1, Zenon
      <4> HIDE DEF in, m
      <4>3. Head(in) = m + 1 /\ Len(in) = 1 + Len(Tail(in)) /\ Follows(Tail(in), m + 1)
        BY <1>1, <1>4, <3>1, <4>2, FollowsTail
      <4>4. Follows(<<Head(in)>>, m)
        BY <1>5, <4>3 DEF Follows
      <4>5. m + Len(child'[p].todo) = m + 1 /\ Len(Tail(in)) \in Nat
        BY <1>4, <1>5, <1>6, ByteSeq
      <4>6. sent'[p] = (m + 1) + Len(Tail(in))
        BY <1>1, <3>1, <4>2, <4>3, <4>5
      <4> QED
        BY <1>6, <1>7, <4>3, <4>4, <4>5, <4>6, Zenon
    <3> HIDE DEF m
    <3> QED
      BY <1>6, <2>3, <3>1, <3>2, Zenon DEF Ahead
  <2>5. Follows(got'[p][s], 0) /\ (s # Out(p)' => pipe'[p][s] = <<>>)
    BY <1>1, <1>7, <2>1, <2>3, Zenon DEF Flows
  <2> QED
    BY <2>2, <2>3, <2>4, <2>5, Zenon DEF Flows
<1>10. ProcessType'
  <2>1. registered' = registered /\ ends' = ends /\ eof' = eof /\ closed' = closed
    BY <1>1 DEF regVars, seenVars
  <2> QED
    BY <1>1, <1>6, <1>7, <2>1, Zenon DEF ProcInv, ProcessType
<1>11. child'[p].state \in {"running", "exited"}
  BY <1>1, <1>6 DEF Alive
<1>12. \A q \in Procs : q # p => child'[q] = child[q] /\ pipe'[q] = pipe[q]
  BY <1>6, <1>7, Zenon
<1> QED
  BY <1>1, <1>6, <1>9, <1>10, <1>11, <1>12, ChildInv, Zenon

(***************************************************************************)
(* A child writes its next byte, to its pipe or to the terminal.           *)
(***************************************************************************)
LEMMA ChildWriteInv ==
  ASSUME ProcInv, NEW p \in Procs, ChildWrite(p)
  PROVE  ProcInv'
<1> DEFINE o == Out(p)
           todo == child[p].todo
<1>1. /\ Alive(p) /\ todo # <<>>
      /\ child' = [child EXCEPT ![p].todo = Tail(@)]
      /\ pipe' = IF child[p].tty THEN pipe ELSE [pipe EXCEPT ![p][o] = Append(@, Head(todo))]
      /\ UNCHANGED <<sent, offloadVars, regVars, seenVars>>
      /\ UNCHANGED offloadVars /\ sent' = sent /\ got' = got
  BY DEF ChildWrite, seenVars
<1>2. /\ child[p] \in Children /\ child \in [Procs -> Children] /\ todo \in Seq(Bytes)
      /\ pipe \in [Procs -> [Streams -> Seq(Bytes)]] /\ pipe[p] \in [Streams -> Seq(Bytes)]
      /\ o \in Outputs
  BY ChildTypes DEF ProcInv, ProcessType
<1>3. "stdin" \in Streams /\ "stdin" \notin Outputs /\ Outputs \subseteq Streams
  BY DEF Streams, Outputs
<1>4. Tail(todo) \in Seq(Bytes) /\ Head(todo) \in Bytes
  BY <1>1, <1>2
<1>5. /\ child'[p].todo = Tail(todo) /\ child'[p].state = child[p].state
      /\ child'[p].program = child[p].program /\ child'[p].tty = child[p].tty
      /\ child'[p].shared = child[p].shared /\ child'[p].lost = child[p].lost
      /\ child' \in [Procs -> Children]
      /\ \A q \in Procs : q # p => child'[q] = child[q]
  BY <1>1, <1>2, <1>4, Zenon DEF Children
<1> HIDE DEF o, todo
<1>6. pipe[p][o] \in Seq(Bytes) /\ Append(pipe[p][o], Head(todo)) \in Seq(Bytes)
  BY <1>2, <1>3, <1>4
<1>7. /\ \A q \in Procs : q # p => pipe'[q] = pipe[q]
      /\ \A s \in Streams : s # o => pipe'[p][s] = pipe[p][s]
      /\ pipe'[p][o] = IF child[p].tty THEN pipe[p][o] ELSE Append(pipe[p][o], Head(todo))
      /\ pipe' \in [Procs -> [Streams -> Seq(Bytes)]]
  BY <1>1, <1>2, <1>3, <1>6
<1>8. SameJobs(p)
  BY <1>1, NoJobs, Zenon DEF ProcInv
<1>9. ASSUME NEW s \in Outputs PROVE Flows(p, s)'
  <2>1. Flows(p, s) /\ pipe[p][s] \in Seq(Bytes) /\ Len(pipe[p][s]) \in Nat /\ s \in Streams
    BY <1>2, <1>3, ByteSeq DEF ProcInv, ChildOK
  <2>2. PICK n \in Nat : Fetched(p, s, n) /\ Ahead(p, s, n)
    BY <2>1, Zenon DEF Flows
  <2>3. Fetched(p, s, n)' /\ Out(p)' = o
    BY <1>1, <1>5, <1>8, <2>2, FetchedKept, Zenon DEF o
  <2>4. Follows(got'[p][s], 0) /\ (s # Out(p)' => pipe'[p][s] = <<>>)
    <3>1. Follows(got[p][s], 0) /\ (s # o => pipe[p][s] = <<>>)
      BY <2>1, Zenon DEF Flows, o
    <3> QED
      BY <1>1, <1>7, <2>1, <2>3, <3>1, Zenon
  <2>5. Ahead(p, s, n)'
    <3> DEFINE m == n + Len(pipe[p][s])
               in == pipe[p]["stdin"]
    <3>1. Follows(pipe[p][s], n) /\ m \in Nat
      BY <2>1, <2>2 DEF Ahead
    <3>2. CASE s # o \/ child[p].tty
      <4>1. pipe'[p][s] = pipe[p][s] /\ ~(s = Out(p)' /\ ~child'[p].tty)
        BY <1>5, <1>7, <2>1, <2>3, <3>2, Zenon
      <4> QED
        BY <3>1, <4>1, Zenon DEF Ahead
    <3>3. CASE s = o /\ ~child[p].tty
      <4>1. /\ Follows(todo, m)
            /\ child[p].program = "filter" =>
                 Follows(in, m + Len(todo)) /\ sent[p] = (m + Len(todo)) + Len(in)
        BY <2>2, <3>3, Zenon DEF Ahead, todo, o
      <4>2. /\ Head(todo) = m + 1 /\ Len(todo) = 1 + Len(Tail(todo)) /\ Follows(Tail(todo), m + 1)
        BY <1>1, <1>2, <3>1, <4>1, FollowsTail DEF todo
      <4>3. pipe'[p][s] = Append(pipe[p][s], Head(todo)) /\ pipe'[p]["stdin"] = in
        BY <1>2, <1>3, <1>7, <3>3, Zenon
      <4>4. Len(pipe'[p][s]) = Len(pipe[p][s]) + 1 /\ Follows(pipe'[p][s], n)
        BY <1>4, <2>1, <3>1, <4>2, <4>3, FollowsAppend
      <4>5. n + Len(pipe'[p][s]) = m + 1 /\ Len(Tail(todo)) \in Nat
        BY <1>4, <2>1, <4>4, ByteSeq
      <4> HIDE DEF m, in
      <4>6. (m + 1) + Len(Tail(todo)) = m + Len(todo)
        <5>1. \A a, b, c \in Nat : c = 1 + b => (a + 1) + b = a + c
          OBVIOUS
        <5>2. m \in Nat /\ Len(Tail(todo)) \in Nat /\ Len(todo) \in Nat
          BY <1>2, <3>1, <4>5, ByteSeq, Zenon DEF todo
        <5> QED
          BY <4>2, <5>1, <5>2, Zenon
      <4> QED
        BY <1>1, <1>5, <4>1, <4>2, <4>3, <4>4, <4>5, <4>6, Zenon DEF Ahead
    <3> QED
      BY <3>2, <3>3, Zenon
  <2> QED
    BY <2>2, <2>3, <2>4, <2>5, Zenon DEF Flows
<1>10. ProcessType'
  <2>1. registered' = registered /\ ends' = ends /\ eof' = eof /\ closed' = closed
    BY <1>1 DEF regVars, seenVars
  <2> QED
    BY <1>1, <1>5, <1>7, <2>1, Zenon DEF ProcInv, ProcessType
<1>11. child'[p].state \in {"running", "exited"}
  BY <1>1, <1>5 DEF Alive
<1>12. \A q \in Procs : q # p => child'[q] = child[q] /\ pipe'[q] = pipe[q]
  BY <1>5, <1>7, Zenon
<1> QED
  BY <1>1, <1>5, <1>9, <1>10, <1>11, <1>12, ChildInv, Zenon

-----------------------------------------------------------------------------
(* The jobs.                                                               *)

(***************************************************************************)
(* A job that goes on or returns without reading moves no byte of the      *)
(* output.                                                                 *)
(***************************************************************************)
LEMMA WorkCarries ==
  ASSUME NEW p, NEW f, NEW j, Worked(p, f, j), j.buf = job[f].buf, j.op = job[f].op,
         j.stream = job[f].stream, child'[p].program = child[p].program
  PROVE  /\ Out(p)' = Out(p)
         /\ \A g, s : Carries(p, g, s)' <=> Carries(p, g, s)
         /\ \A g, s : Carries(p, g, s) => job'[g].buf = job[g].buf
<1>1. /\ On(p)' = On(p) /\ job'[f] = j
      /\ \A g \in On(p) : g # f => job'[g] = job[g]
  BY Zenon DEF Worked
<1>2. Out(p)' = Out(p)
  BY Zenon DEF Out
<1>3. \A g \in On(p) : /\ job'[g].buf = job[g].buf /\ job'[g].op = job[g].op
                       /\ job'[g].stream = job[g].stream
  BY <1>1, Zenon
<1> QED
  BY <1>1, <1>2, <1>3, Zenon DEF Carries

(***************************************************************************)
(* The other jobs on the child of a job that works are as they were.       *)
(***************************************************************************)
LEMMA WorkOthers ==
  ASSUME ProcInv, NEW p \in Procs, NEW f, NEW j, Worked(p, f, j),
         Returned' = Returned \/ Returned' = Returned \cup {f},
         j.op = job[f].op, j.stream = job[f].stream,
         \A g \in On(p) : g # f /\ job[g].op = "write" => sent'[p] = sent[p]
  PROVE  /\ \A g \in On(p) : g # f => job'[g] = job[g] /\ (g \in Returned' <=> g \in Returned)
         /\ \A g \in On(p) : g # f => JobShape(g)'
         /\ \A g \in On(p) : Reaps(g)' <=> Reaps(g)
         /\ \A s : Using(p, s)' = Using(p, s)
         /\ \A g : SoleReaper(p, g) => SoleReaper(p, g)'
<1>1. /\ On(p)' = On(p) /\ job'[f] = j
      /\ \A g \in On(p) : g # f => job'[g] = job[g]
  BY Zenon DEF Worked
<1>2. \A g \in On(p) : g # f => job'[g] = job[g] /\ (g \in Returned' <=> g \in Returned)
  BY <1>1, Zenon
<1>3. \A g \in On(p) : job'[g].op = job[g].op /\ job'[g].stream = job[g].stream
  BY <1>1, Zenon
<1>4. ASSUME NEW g \in On(p), g # f PROVE JobShape(g)'
  <2>1. JobShape(g) /\ job'[g] = job[g] /\ (g \in Returned' <=> g \in Returned)
    BY <1>2, <1>4, Zenon DEF ProcInv, ChildOK
  <2>2. job[g].op = "write" => sent'[p] = sent[p]
    BY <1>4, Zenon
  <2> QED
    BY <2>1, <2>2, ShapeKept, Zenon
<1>5. \A g \in On(p) : Reaps(g)' <=> Reaps(g)
  BY <1>3, Zenon DEF Reaps
<1>6. \A s : Using(p, s)' = Using(p, s)
  BY <1>1, <1>3, Zenon DEF Using
<1>7. \A g : SoleReaper(p, g) => SoleReaper(p, g)'
  BY <1>1, <1>5, Zenon DEF SoleReaper
<1> QED
  BY <1>2, <1>4, <1>5, <1>6, <1>7, Zenon

(***************************************************************************)
(* A job that reaps no child, on a child that goes on living, keeps the    *)
(* invariant if its own part and the output still hold.  It may drop the   *)
(* end it holds, at the end of the stream.                                 *)
(***************************************************************************)
LEMMA WorkInv ==
  ASSUME ProcInv, NEW f \in Fibers, NEW p \in Procs, NEW j \in Jobs,
         Progress(f, j) \/ Finish(f, j), job[f].proc = p, j.proc = p,
         j.op = job[f].op, j.stream = job[f].stream, j.holds \subseteq job[f].holds,
         job[f].op \in {"write", "read"},
         ProcessType', UNCHANGED <<child, regVars, seenVars>>,
         \A q \in Procs : q # p => pipe'[q] = pipe[q] /\ sent'[q] = sent[q],
         \A g \in On(p) : g # f /\ job[g].op = "write" => sent'[p] = sent[p],
         \A s \in Outputs : pipe[p][s] = <<>> /\ ~Alive(p) => pipe'[p][s] = <<>>,
         JobShape(f)', JobAtEnd(p, f)', \A s \in Outputs : Flows(p, s)'
  PROVE  ProcInv'
<1>1. /\ child' = child /\ registered' = registered /\ ends' = ends
      /\ got' = got /\ eof' = eof /\ closed' = closed
  BY DEF regVars, seenVars
<1>2. /\ Placed(Jobs)' /\ Worked(p, f, j) /\ \A q : q # p => SameJobs(q)
      /\ Returned' = Returned \/ Returned' = Returned \cup {f}
  BY Works, Zenon DEF ProcInv
<1>3. On(p)' = On(p) /\ f \in On(p) /\ job'[f] = j /\ f \notin Returned
  BY <1>2, Zenon DEF Worked
<1>4. /\ \A g \in On(p) : g # f => job'[g] = job[g] /\ (g \in Returned' <=> g \in Returned)
      /\ \A g \in On(p) : g # f => JobShape(g)'
      /\ \A g \in On(p) : Reaps(g)' <=> Reaps(g)
      /\ \A s : Using(p, s)' = Using(p, s)
      /\ \A g : SoleReaper(p, g) => SoleReaper(p, g)'
  BY <1>2, WorkOthers, Zenon
<1>5. \A q \in Procs : q # p => SameChild(q)
  BY <1>1, Zenon DEF SameChild
<1>6. ChildOK(p) /\ child[p].state # "unborn" /\ ~Reaps(f)
  <2>1. ChildOK(p) /\ Untouched(p) /\ ~Reaps(f) /\ job[f].op \notin {"run", "exec"}
    BY Zenon DEF ProcInv, ChildOK, Reaps
  <2> QED
    BY <1>3, <2>1, Zenon DEF Untouched
<1>7. Untouched(p)'
  BY <1>1, <1>6, Zenon DEF Untouched
<1>8. OneHolder(p)'
  <2>1. OneHolder(p) /\ On(p)' \subseteq On(p) /\ ends'[p] \subseteq ends[p]
    BY <1>1, <1>3, <1>6, Zenon DEF ChildOK
  <2>2. \A g \in On(p)' : job'[g].holds \subseteq job[g].holds
    BY <1>3, <1>4, Zenon
  <2>3. p \notin registered' => ends'[p] = {}
    BY <1>1, <2>1, Zenon DEF OneHolder
  <2> QED
    BY <2>1, <2>2, <2>3, HolderKept, Zenon
<1>9. Owned(p)'
  <2>1. Owned(p) /\ ~Reaps(f)'
    BY <1>3, <1>4, <1>6, Zenon DEF ChildOK
  <2>2. \A g \in On(p) : job'[g].op = job[g].op
    BY <1>3, <1>4, Zenon
  <2>3. \A g \in On(p) : Reaps(g)' => /\ Reaps(g) /\ (g \in Returned' => g \in Returned)
                                      /\ job'[g].err = job[g].err
    BY <1>4, <2>1, Zenon
  <2>4. p \in registered => /\ child[p].state \in {"running", "exited"} /\ ~child[p].lost
                            /\ \A g \in On(p) : ~Reaps(g)'
    BY <1>4, <2>1, Zenon DEF Owned
  <2>5. /\ p \notin registered /\ child[p].state \in {"running", "exited"} /\ ~child[p].lost =>
             \E g \in Fibers : SoleReaper(p, g)'
        /\ \A g \in On(p) : job'[g].op \in {"run", "exec"} => p \notin registered /\ \A h \in On(p) : h = g
    BY <1>4, <2>1, <2>2, Zenon DEF Owned
  <2>6. \A g \in On(p) : /\ Reaps(g)' /\ g \in Returned' => child[p].state = "reaped" \/ job'[g].err
                         /\ Reaps(g)' /\ job'[g].err => child[p].state = "unborn" \/ child[p].lost
    BY <2>1, <2>3, Zenon DEF Owned
  <2>7. child[p].lost => \A g \in On(p) : Reaps(g)' => job'[g].err
    BY <2>1, <2>3, Zenon DEF Owned
  <2> QED
    BY <1>1, <1>3, <2>4, <2>5, <2>6, <2>7, Zenon DEF Owned
<1>10. AtEnd(p)'
  <2>1. AtEnd(p) /\ eof'[p] = eof[p] /\ child'[p].shared = child[p].shared
    BY <1>1, <1>6, Zenon DEF ChildOK
  <2>2. \A s \in Outputs : Drained(p, s) => Drained(p, s)'
    <3>1. child[p].state \in {"exited", "reaped"} => ~Alive(p)
      BY DEF Alive
    <3> QED
      BY <1>1, <3>1, Zenon DEF Drained
  <2>3. eof[p] \subseteq Outputs
    BY ChildTypes, Zenon DEF ProcInv
  <2>4. ASSUME NEW g \in On(p), g # f PROVE JobAtEnd(p, g)'
    <3>1. JobAtEnd(p, g) /\ job'[g] = job[g] /\ (g \in Returned' <=> g \in Returned) /\ JobShape(g)
      BY <1>4, <1>6, <2>1, <2>4, Zenon DEF AtEnd, ChildOK
    <3>2. job[g].op = "read" => job[g].stream \in Outputs
      BY <3>1, Zenon DEF JobShape
    <3> QED
      BY <2>1, <2>2, <3>1, <3>2, Zenon DEF JobAtEnd
  <2>5. \A g \in On(p)' : JobAtEnd(p, g)'
    BY <1>3, <2>4, Zenon
  <2> QED
    BY <2>1, <2>2, <2>3, <2>5, Zenon DEF AtEnd
<1>11. Exclusive(p)'
  <2>1. \A g \in On(p) : job'[g].holds \subseteq job[g].holds
    BY <1>3, <1>4, Zenon
  <2>2. \A s : (Ended(p, s)' <=> Ended(p, s)) /\ \A g \in Using(p, s) : g \in On(p)
    BY <1>1, Zenon DEF Ended, Using
  <2>3. Exclusive(p)
    BY <1>6, Zenon DEF ChildOK
  <2> QED
    BY <1>1, <1>4, <2>1, <2>2, <2>3, Zenon DEF Exclusive
<1>12. ChildOK(p)'
  BY <1>3, <1>4, <1>7, <1>8, <1>9, <1>10, <1>11, Zenon DEF ChildOK
<1> QED
  BY <1>2, <1>5, <1>12, OneChild, Zenon

(***************************************************************************)
(* write_all puts a byte in the pipe, or finds the child gone.             *)
(***************************************************************************)
LEMMA WriteJobInv ==
  ASSUME ProcInv, NEW f \in Fibers, WriteJob(f)
  PROVE  ProcInv'
<1>1. f \in Running /\ job[f].op = "write" /\ f \in Busy /\ f \notin Returned
  BY Zenon DEF WriteJob, Running, OnWorker, Returned
<1>2. PICK j \in Jobs : job[f] = j
  BY <1>1 DEF ProcInv, Placed, Busy
<1>3. PICK p \in Procs : j.proc = p
  BY JobFields, Zenon
<1> DEFINE in == pipe[p]["stdin"]
<1>4. /\ f \in On(p) /\ UNCHANGED <<child, regVars, seenVars>> /\ child' = child /\ got' = got
       /\ j.n \in Nat /\ j.holds \subseteq Streams /\ j.op = "write"
  BY <1>1, <1>2, <1>3, JobFields DEF On, WriteJob, osVars, seenVars
<1>5. JobShape(f) /\ OneHolder(p)
  BY <1>4, Zenon DEF ProcInv, ChildOK
<1>6. /\ j.stream = "stdin" /\ j.holds = {"stdin"} /\ j.buf = <<>>
      /\ ~j.err /\ sent[p] + j.n =< MaxBytes
  BY <1>1, <1>2, <1>3, <1>5, Zenon DEF JobShape
<1>7. "stdin" \in Streams /\ "stdin" \notin Outputs /\ Outputs \subseteq Streams
  BY DEF Streams, Outputs
<1>8. CASE (j.n = 0 \/ ~Alive(p)) /\ Finish(f, j) /\ UNCHANGED osVars
  <2>1. pipe' = pipe /\ sent' = sent
    BY <1>8 DEF osVars
  <2>2. Worked(p, f, j) /\ Returned' = Returned \cup {f} /\ job'[f] = j
    <3>1. /\ Placed(Jobs)' /\ Worked(p, f, j) /\ \A q : q # p => SameJobs(q)
          /\ Progress(f, j) => Returned' = Returned
          /\ Finish(f, j) => Returned' = Returned \cup {f}
      BY <1>2, <1>3, <1>8, Works, Zenon DEF ProcInv
    <3> QED
      BY <1>8, <3>1, Zenon DEF Worked
  <2>3. JobShape(f)' /\ JobAtEnd(p, f)'
    BY <1>4, <1>6, <2>2 DEF JobShape, JobAtEnd
  <2>4. ASSUME NEW s \in Outputs PROVE Flows(p, s)'
    <3>1. /\ \A g, i : Carries(p, g, i)' <=> Carries(p, g, i)
          /\ \A g, i : Carries(p, g, i) => job'[g].buf = job[g].buf
      BY <1>4, <2>2, <1>2, WorkCarries, Zenon
    <3>2. Flows(p, s)
      BY <1>3, Zenon DEF ProcInv, ChildOK
    <3> QED
      BY <1>4, <1>3, <2>1, <3>1, <3>2, FlowsKept, Zenon
  <2>5. ProcessType'
    BY <1>4, <2>1 DEF ProcInv, ProcessType, regVars, seenVars
  <2>6. /\ \A q \in Procs : q # p => pipe'[q] = pipe[q] /\ sent'[q] = sent[q]
        /\ \A g \in On(p) : g # f /\ job[g].op = "write" => sent'[p] = sent[p]
        /\ \A s \in Outputs : pipe[p][s] = <<>> /\ ~Alive(p) => pipe'[p][s] = <<>>
    BY <2>1, Zenon
  <2>7. j.op \in {"write", "read"}
    BY <1>4
  <2> QED
    BY <1>4, <1>3, <1>8, <2>3, <2>4, <2>5, <2>6, <2>7, <1>2, WorkInv, Zenon
<1>9. CASE /\ j.n > 0 /\ Alive(p) /\ sent' = [sent EXCEPT ![p] = @ + 1]
           /\ pipe' = [pipe EXCEPT ![p]["stdin"] = Append(@, sent'[p])]
           /\ IF j.n = 1 THEN Finish(f, j) ELSE Progress(f, [j EXCEPT !.n = @ - 1])
  <2> DEFINE k == IF j.n = 1 THEN j ELSE [j EXCEPT !.n = @ - 1]
  <2>1. /\ sent \in [Procs -> 0 .. MaxBytes] /\ pipe \in [Procs -> [Streams -> Seq(Bytes)]]
        /\ pipe[p] \in [Streams -> Seq(Bytes)] /\ in \in Seq(Bytes) /\ sent[p] \in Nat
        /\ MaxBytes \in Nat
    BY <1>3, <1>7, ByteSeq DEF ProcInv, ProcessType
  <2>2. /\ sent'[p] = sent[p] + 1 /\ sent[p] + 1 \in Bytes
        /\ sent' \in [Procs -> 0 .. MaxBytes]
        /\ \A q \in Procs : q # p => sent'[q] = sent[q]
    BY <1>3, <1>4, <1>6, <1>9, <2>1 DEF Bytes
  <2>3. Append(in, sent[p] + 1) \in Seq(Bytes)
    BY <2>1, <2>2
  <2>4. /\ pipe'[p]["stdin"] = Append(in, sent[p] + 1)
        /\ \A s \in Outputs : pipe'[p][s] = pipe[p][s]
        /\ \A q \in Procs : q # p => pipe'[q] = pipe[q]
        /\ pipe' \in [Procs -> [Streams -> Seq(Bytes)]]
    BY <1>3, <1>7, <1>9, <2>1, <2>2, <2>3
  <2>5. /\ k \in Jobs /\ k.op = "write" /\ k.stream = j.stream /\ k.holds = j.holds
        /\ k.buf = <<>> /\ k.proc = p /\ ~k.err /\ (j.n # 1 => k.n = j.n - 1)
    <3>1. CASE j.n = 1
      BY <1>4, <1>3, <1>6, <3>1
    <3>2. CASE j.n # 1
      BY <1>4, <1>3, <1>6, <1>9, <3>2 DEF Jobs
    <3> QED
      BY <3>1, <3>2, Zenon
  <2>6. Progress(f, k) \/ Finish(f, k)
    BY <1>9, Zenon
  <2>7. j.n = 1 => Finish(f, k)
    BY <1>9, Zenon
  <2> HIDE DEF k
  <2>8. /\ Worked(p, f, k) /\ job'[f] = k /\ (Finish(f, k) => Returned' = Returned \cup {f})
    <3>1. /\ Placed(Jobs)' /\ Worked(p, f, k) /\ \A q : q # p => SameJobs(q)
          /\ Progress(f, k) => Returned' = Returned
          /\ Finish(f, k) => Returned' = Returned \cup {f}
      BY <1>2, <1>3, <2>5, <2>6, Works, Zenon DEF ProcInv
    <3> QED
      BY <3>1, Zenon DEF Worked
  <2>9. JobShape(f)' /\ JobAtEnd(p, f)'
    <3>1. f \notin Returned' => sent'[k.proc] + k.n =< MaxBytes
      <4> SUFFICES ASSUME f \notin Returned' PROVE sent'[k.proc] + k.n =< MaxBytes
        OBVIOUS
      <4>1. j.n # 1
        BY <2>7, <2>8, Zenon
      <4> QED
        BY <1>3, <1>4, <1>6, <1>9, <2>1, <2>2, <2>5, <4>1
    <3> QED
      BY <1>6, <2>5, <2>8, <3>1 DEF JobShape, JobAtEnd
  <2>10. /\ \A g, i : Carries(p, g, i)' <=> Carries(p, g, i)
         /\ \A g, i : Carries(p, g, i) => job'[g].buf = job[g].buf
         /\ Out(p)' = Out(p)
    BY <1>4, <1>6, <2>5, <2>8, <1>2, WorkCarries, Zenon
  <2>11. ASSUME NEW s \in Outputs PROVE Flows(p, s)'
    <3>1. Flows(p, s) /\ s \in Streams
      BY <1>3, <1>7, Zenon DEF ProcInv, ChildOK
    <3>2. PICK n \in Nat : Fetched(p, s, n) /\ Ahead(p, s, n)
      BY <3>1, Zenon DEF Flows
    <3>3. Fetched(p, s, n)'
      BY <1>4, <2>10, <3>2, Zenon DEF Fetched
    <3>4. Ahead(p, s, n)'
      <4> DEFINE e == (n + Len(pipe[p][s])) + Len(child[p].todo)
      <4>1. e \in Nat
        <5>1. pipe[p][s] \in Seq(Bytes) /\ child[p].todo \in Seq(Bytes)
          BY <3>1, ChildTypes, Zenon DEF ProcInv
        <5>2. Len(pipe[p][s]) \in Nat /\ Len(child[p].todo) \in Nat
          BY <5>1, ByteSeq, Zenon
        <5>3. \A a, b, c \in Nat : (a + b) + c \in Nat
          OBVIOUS
        <5> QED
          BY <5>2, <5>3, Zenon
      <4>2. ASSUME s = Out(p), ~child[p].tty, child[p].program = "filter"
            PROVE  /\ Follows(pipe'[p]["stdin"], e)
                   /\ sent'[p] = e + Len(pipe'[p]["stdin"])
        <5>1. Follows(in, e) /\ sent[p] = e + Len(in)
          BY <3>2, <4>2, Zenon DEF Ahead
        <5> HIDE DEF e, in
        <5>2. sent[p] + 1 = e + Len(in) + 1 /\ Len(in) \in Nat
          BY <2>1, <5>1, ByteSeq
        <5>3. /\ Len(Append(in, sent[p] + 1)) = Len(in) + 1
              /\ Follows(Append(in, sent[p] + 1), e)
          BY <2>1, <2>2, <4>1, <5>1, <5>2, FollowsAppend
        <5>4. sent[p] + 1 = e + (Len(in) + 1)
          BY <4>1, <5>2
        <5> QED
          BY <2>2, <2>4, <5>3, <5>4, Zenon
      <4> QED
        BY <1>4, <2>4, <2>10, <3>2, <4>2, Zenon DEF Ahead
    <3> QED
      BY <1>4, <2>4, <2>10, <3>1, <3>2, <3>3, <3>4, Zenon DEF Flows
  <2>12. ProcessType'
    BY <1>4, <2>2, <2>4, Zenon DEF ProcInv, ProcessType, regVars, seenVars
  <2>13. /\ \A q \in Procs : q # p => pipe'[q] = pipe[q] /\ sent'[q] = sent[q]
         /\ \A s \in Outputs : pipe[p][s] = <<>> /\ ~Alive(p) => pipe'[p][s] = <<>>
    BY <2>2, <2>4, Zenon
  <2>14. ASSUME NEW g \in On(p), g # f, job[g].op = "write" PROVE FALSE
    <3>1. JobShape(g)
      BY <1>3, Zenon DEF ProcInv, ChildOK
    <3>2. "stdin" \in job[g].holds /\ "stdin" \in job[f].holds
      BY <1>2, <1>6, <2>14, <3>1, Zenon DEF JobShape
    <3> QED
      BY <1>4, <1>5, <2>14, <3>2, Zenon DEF OneHolder
  <2>15. j.op \in {"write", "read"} /\ k.op = j.op /\ k.holds \subseteq j.holds
    BY <1>4, <2>5
  <2> QED
    BY <1>4, <1>3, <2>5, <2>6, <2>9, <2>11, <2>12, <2>13, <2>14, <2>15, <1>2, WorkInv, Zenon
<1> QED
  BY <1>2, <1>3, <1>8, <1>9, Zenon DEF WriteJob

(***************************************************************************)
(* No job has bytes of the stream that another job is about to read.       *)
(***************************************************************************)
LEMMA NothingCarried ==
  ASSUME ProcInv, NEW p \in Procs, NEW f \in On(p), f \notin Returned, job[f].op = "read",
         job[f].holds # {}, NEW g, Carries(p, g, job[f].stream)
  PROVE  FALSE
<1>1. JobShape(f) /\ g \in On(p) /\ JobShape(g) /\ OneHolder(p) /\ Owned(p)
  BY Zenon DEF ProcInv, ChildOK, Carries
<1>2. job[f].buf = <<>> /\ job[f].stream \in job[f].holds
  BY <1>1, Zenon DEF JobShape
<1>3. job[g].buf # <<>> /\ g # f
  BY <1>2, Zenon DEF Carries
<1>4. job[g].op = "run" => FALSE
  BY <1>1, <1>3, Zenon DEF Owned
<1>5. job[g].op = "read" /\ job[f].stream = job[g].stream
  BY <1>4, Zenon DEF Carries
<1>6. job[g].stream \in job[g].holds
  BY <1>1, <1>3, <1>5, Zenon DEF JobShape
<1> QED
  BY <1>1, <1>2, <1>3, <1>5, <1>6, Zenon DEF OneHolder

(***************************************************************************)
(* read_pipe_owned is handed None, and reads nothing.                      *)
(***************************************************************************)
LEMMA ReadNoneInv ==
  ASSUME ProcInv, NEW f \in Fibers, ReadPipeOwned(f), job[f].holds = {}
  PROVE  ProcInv'
<1>1. /\ f \in Running /\ job[f].op = "read" /\ f \in Busy /\ f \notin Returned
      /\ Finish(f, job[f]) /\ pipe' = pipe
  BY Zenon DEF ReadPipeOwned, Running, OnWorker, Returned
<1>2. PICK j \in Jobs : job[f] = j
  BY <1>1 DEF ProcInv, Placed, Busy
<1>3. PICK p \in Procs : j.proc = p
  BY JobFields, Zenon
<1>4. /\ f \in On(p) /\ UNCHANGED <<child, regVars, seenVars>> /\ child' = child /\ got' = got
      /\ sent' = sent /\ j.op = "read" /\ j.holds = {}
  BY <1>1, <1>2, <1>3 DEF On, ReadPipeOwned, seenVars
<1>5. JobShape(f) /\ JobAtEnd(p, f)
  BY <1>4, Zenon DEF ProcInv, ChildOK, AtEnd
<1>6. Worked(p, f, j) /\ Returned' = Returned \cup {f} /\ job'[f] = j
  <2>1. /\ Placed(Jobs)' /\ Worked(p, f, j) /\ \A q : q # p => SameJobs(q)
        /\ Progress(f, j) => Returned' = Returned
        /\ Finish(f, j) => Returned' = Returned \cup {f}
    BY <1>1, <1>2, <1>3, Works, Zenon DEF ProcInv
  <2> QED
    BY <1>1, <1>2, <2>1, Zenon DEF Worked
<1>7. JobShape(f)'
  <2>1. j.stream \in Outputs /\ Len(j.buf) =< Clamped(j.n) /\ j.buf = <<>> /\ ~j.err
    BY <1>1, <1>2, <1>4, <1>5, Zenon DEF JobShape
  <2> QED
    BY <1>4, <1>6, <2>1 DEF JobShape
<1>8. JobAtEnd(p, f)'
  <2>1. \A s : Drained(p, s)' <=> Drained(p, s)
    BY <1>1, <1>4, Zenon DEF Drained
  <2> QED
    BY <1>2, <1>4, <1>5, <1>6, <2>1 DEF JobAtEnd
<1>9. ASSUME NEW s \in Outputs PROVE Flows(p, s)'
  <2>1. /\ \A g, i : Carries(p, g, i)' <=> Carries(p, g, i)
        /\ \A g, i : Carries(p, g, i) => job'[g].buf = job[g].buf
    BY <1>2, <1>4, <1>6, WorkCarries, Zenon
  <2>2. Flows(p, s)
    BY Zenon DEF ProcInv, ChildOK
  <2> QED
    BY <1>1, <1>4, <2>1, <2>2, FlowsKept, Zenon
<1>10. ProcessType'
  BY <1>1, <1>4, Zenon DEF ProcInv, ProcessType, regVars, seenVars
<1>11. /\ \A q \in Procs : q # p => pipe'[q] = pipe[q] /\ sent'[q] = sent[q]
       /\ \A g \in On(p) : g # f /\ job[g].op = "write" => sent'[p] = sent[p]
       /\ \A s \in Outputs : pipe[p][s] = <<>> /\ ~Alive(p) => pipe'[p][s] = <<>>
       /\ j.op \in {"write", "read"} /\ Finish(f, j)
  BY <1>1, <1>2, <1>4
<1> QED
  BY <1>2, <1>3, <1>4, <1>7, <1>8, <1>9, <1>10, <1>11, WorkInv, Zenon

(***************************************************************************)
(* read_pipe_owned takes what is in the pipe, up to its limit, or finds    *)
(* the pipe at its end.                                                    *)
(***************************************************************************)
LEMMA ReadSomeInv ==
  ASSUME ProcInv, NEW f \in Fibers, ReadPipeOwned(f), job[f].holds # {}
  PROVE  ProcInv'
<1>1. f \in Running /\ job[f].op = "read" /\ f \in Busy /\ f \notin Returned
  BY Zenon DEF ReadPipeOwned, Running, OnWorker, Returned
<1>2. PICK j \in Jobs : job[f] = j
  BY <1>1 DEF ProcInv, Placed, Busy
<1>3. PICK p \in Procs : j.proc = p
  BY JobFields, Zenon
<1>4. /\ f \in On(p) /\ UNCHANGED <<child, regVars, seenVars>> /\ child' = child /\ got' = got
      /\ sent' = sent /\ j.op = "read" /\ j.n \in Nat
  BY <1>1, <1>2, <1>3, JobFields, Zenon DEF On, ReadPipeOwned, seenVars
<1>5. /\ ChildOK(p) /\ JobShape(f) /\ Outputs \subseteq Streams
      /\ "stdin" \in Streams /\ "stdin" \notin Outputs
  BY <1>4, Zenon DEF ProcInv, ChildOK, Outputs, Streams
<1>6. PICK s \in Outputs : j.stream = s
  BY <1>1, <1>2, <1>5, Zenon DEF JobShape
<1>7. j.holds = {s} /\ j.buf = <<>> /\ ~j.err
  BY <1>1, <1>2, <1>5, <1>6, Zenon DEF JobShape
<1>8. PICK data \in Seq(Bytes) : pipe[p][s] = data
  BY <1>5, ChildTypes, Zenon DEF ProcInv
<1> DEFINE n == IF Len(data) < Clamped(j.n) THEN Len(data) ELSE Clamped(j.n)
           k == [j EXCEPT !.buf = SubSeq(data, 1, n), !.holds = IF n = 0 THEN {} ELSE @]
           rest == SubSeq(data, n + 1, Len(data))
<1>9. /\ data # <<>> \/ ~Alive(p)
      /\ Finish(f, k) /\ pipe' = [pipe EXCEPT ![p][s] = rest]
  <2>1. pipe' = [pipe EXCEPT ![p][s] = SubSeq(@, n + 1, Len(@))]
    BY <1>2, <1>3, <1>6, <1>8, Zenon DEF ReadPipeOwned
  <2>2. pipe' = [pipe EXCEPT ![p][s] = rest]
    BY <1>5, <1>8, <2>1, Zenon DEF ProcInv, ProcessType
  <2>3. (data # <<>> \/ ~Alive(p)) /\ Finish(f, k)
    BY <1>2, <1>3, <1>6, <1>8, Zenon DEF ReadPipeOwned
  <2> QED
    BY <2>2, <2>3, Zenon
<1>10. /\ n \in 0 .. Len(data) /\ n \in Nat /\ (n = 0 <=> data = <<>>) /\ n =< Clamped(j.n)
       /\ Len(data) \in Nat
  <2>1. Len(data) \in Nat /\ (data = <<>> <=> Len(data) = 0)
    BY <1>8, ByteSeq, Zenon
  <2>2. Clamped(j.n) \in Nat \ {0}
    BY <1>4 DEF Clamped
  <2> QED
    BY <2>1, <2>2
<1>11. PICK m \in Nat : Fetched(p, s, m) /\ Ahead(p, s, m)
  BY <1>5, <1>6, Zenon DEF ChildOK, Flows
<1> DEFINE h == SubSeq(data, 1, n)
<1> HIDE DEF n
<1>12. /\ h \in Seq(Bytes) /\ Len(h) = n /\ Follows(h, m)
       /\ rest \in Seq(Bytes) /\ Len(rest) = Len(data) - n /\ Follows(rest, m + n)
  <2>1. Follows(data, m)
    BY <1>8, <1>11, Zenon DEF Ahead
  <2> QED
    BY <1>8, <1>10, <2>1, FollowsSplit
<1>13. /\ k \in Jobs /\ k.op = "read" /\ k.proc = p /\ k.stream = s /\ k.buf = h /\ k.n = j.n
       /\ k.holds = (IF n = 0 THEN {} ELSE {s}) /\ k.err = j.err
  BY <1>3, <1>4, <1>6, <1>7, <1>12, Zenon DEF Jobs
<1> HIDE DEF k, rest, h
<1>14. (n = 0 <=> h = <<>>) /\ (data = <<>> => rest = <<>>) /\ Len(rest) \in Nat
  <2>1. /\ Len(h) = 0 <=> h = <<>>
        /\ Len(rest) = 0 <=> rest = <<>>
        /\ Len(rest) \in Nat
    BY <1>12, ByteSeq, Zenon
  <2>2. data = <<>> => Len(rest) = 0
    BY <1>10, <1>12
  <2> QED
    BY <1>12, <2>1, <2>2, Zenon
<1>15. Worked(p, f, k) /\ Returned' = Returned \cup {f} /\ job'[f] = k
  <2>1. /\ Placed(Jobs)' /\ Worked(p, f, k) /\ \A q : q # p => SameJobs(q)
        /\ Progress(f, k) => Returned' = Returned
        /\ Finish(f, k) => Returned' = Returned \cup {f}
    BY <1>2, <1>3, <1>9, <1>13, Works, Zenon DEF ProcInv
  <2> QED
    BY <1>9, <2>1, Zenon DEF Worked
<1>16. /\ pipe \in [Procs -> [Streams -> Seq(Bytes)]] /\ s \in Streams
       /\ pipe'[p][s] = rest /\ \A i \in Streams : i # s => pipe'[p][i] = pipe[p][i]
       /\ \A q \in Procs : q # p => pipe'[q] = pipe[q]
       /\ pipe' \in [Procs -> [Streams -> Seq(Bytes)]]
  BY <1>5, <1>9, <1>12 DEF ProcInv, ProcessType
<1>17. JobShape(f)'
  <2>1. k.holds \subseteq {k.stream} /\ (k.buf = <<>> <=> k.holds = {}) /\ f \in Returned'
    BY <1>13, <1>14, <1>15, Zenon
  <2>2. Len(k.buf) =< Clamped(k.n)
    BY <1>10, <1>12, <1>13, Zenon
  <2>3. k.op = "read" /\ k.stream \in Outputs /\ ~k.err
    BY <1>7, <1>13, Zenon
  <2> QED
    BY <1>15, <2>1, <2>2, <2>3 DEF JobShape
<1>18. JobAtEnd(p, f)'
  <2>1. k.holds = {} => data = <<>> /\ ~Alive(p) /\ rest = <<>>
    BY <1>9, <1>10, <1>13, <1>14, Zenon
  <2>2. child[p].state # "unborn"
    BY <1>1, <1>4, <1>5, Zenon DEF ChildOK, Untouched
  <2>3. ~Alive(p) => child[p].state \in {"exited", "reaped"}
    BY <2>2, ChildTypes DEF ProcInv, Alive
  <2>4. k.holds = {} => Drained(p, s)'
    BY <1>4, <1>16, <2>1, <2>3, Zenon DEF Drained
  <2>5. k.op # "run"
    BY <1>13
  <2> QED
    BY <1>13, <1>15, <2>4, <2>5, Zenon DEF JobAtEnd
<1>19. /\ Out(p)' = Out(p)
       /\ \A g, i : Carries(p, g, i)' <=> (Carries(p, g, i) \/ (g = f /\ i = s /\ n # 0))
       /\ \A g, i : Carries(p, g, i) => job'[g].buf = job[g].buf
  <2>1. Out(p)' = Out(p)
    BY <1>4, Zenon DEF Out
  <2>2. /\ On(p)' = On(p) /\ f \in On(p) /\ \A g \in On(p) : g # f => job'[g] = job[g]
    BY <1>15, Zenon DEF Worked
  <2>3. k.op = "read" /\ k.op # "run"
    BY <1>13
  <2>4. \A i : Carries(p, f, i)' <=> (i = s /\ n # 0)
    BY <1>13, <1>14, <1>15, <2>2, <2>3, Zenon DEF Carries
  <2>5. \A i : ~Carries(p, f, i)
    BY <1>2, <1>7, Zenon DEF Carries
  <2>6. \A g, i : g # f => (Carries(p, g, i)' <=> Carries(p, g, i))
    BY <2>1, <2>2, Zenon DEF Carries
  <2>7. \A g, i : Carries(p, g, i) => g # f /\ g \in On(p)
    BY <2>5, Zenon DEF Carries
  <2> QED
    BY <2>1, <2>2, <2>4, <2>5, <2>6, <2>7, Zenon
<1>20. Flows(p, s)'
  <2>1. \A g : ~Carries(p, g, s)
    BY <1>1, <1>2, <1>4, <1>6, NothingCarried, Zenon
  <2>2. m = Len(got[p][s]) /\ Flows(p, s)
    BY <1>5, <1>11, <2>1, Zenon DEF Fetched, ChildOK
  <2>3. Fetched(p, s, m + n)'
    <3>1. CASE n = 0
      <4>1. m + n = m
        BY <3>1
      <4> QED
        BY <1>4, <1>19, <2>1, <2>2, <3>1, <4>1, Zenon DEF Fetched
    <3>2. CASE n # 0
      <4>1. Carries(p, f, s)' /\ \A g : Carries(p, g, s)' => g = f
        BY <1>19, <2>1, <3>2, Zenon
      <4>2. job'[f].buf = h /\ Len(job'[f].buf) = n /\ got'[p][s] = got[p][s]
        BY <1>4, <1>12, <1>13, <1>15, Zenon
      <4> QED
        BY <1>12, <2>2, <4>1, <4>2, Zenon DEF Fetched
    <3> QED
      BY <3>1, <3>2, Zenon
  <2>4. Ahead(p, s, m + n)'
    <3>1. \A a, b, c \in Nat : b =< a => (c + b) + (a - b) = c + a
      OBVIOUS
    <3>2. (m + n) + Len(rest) = m + Len(data)
      BY <1>10, <1>12, <3>1
    <3>3. pipe'[p]["stdin"] = pipe[p]["stdin"]
      BY <1>5, <1>16, Zenon
    <3> QED
      BY <1>4, <1>8, <1>11, <1>12, <1>16, <1>19, <3>2, <3>3, Zenon DEF Ahead
  <2>5. s # Out(p)' => pipe'[p][s] = <<>>
    BY <1>8, <1>14, <1>16, <1>19, <2>2, Zenon DEF Flows
  <2>6. m + n \in Nat /\ Follows(got'[p][s], 0)
    BY <1>4, <1>10, <2>2 DEF Flows
  <2> QED
    BY <2>3, <2>4, <2>5, <2>6, Zenon DEF Flows
<1>21. ASSUME NEW i \in Outputs, i # s PROVE Flows(p, i)'
  <2>1. /\ \A g : Carries(p, g, i)' <=> Carries(p, g, i)
        /\ \A g : Carries(p, g, i) => job'[g].buf = job[g].buf
    <3>1. \A g : Carries(p, g, i)' <=> (Carries(p, g, i) \/ (g = f /\ i = s /\ n # 0))
      BY <1>19, Zenon
    <3>2. \A g : Carries(p, g, i)' <=> Carries(p, g, i)
      BY <1>21, <3>1, Zenon
    <3> QED
      BY <1>19, <3>2, Zenon
  <2>2. Flows(p, i) /\ pipe'[p][i] = pipe[p][i] /\ pipe'[p]["stdin"] = pipe[p]["stdin"]
    BY <1>5, <1>16, <1>21, Zenon DEF ChildOK
  <2> QED
    BY <1>4, <2>1, <2>2, FlowsKept, Zenon
<1>22. ProcessType'
  BY <1>4, <1>16, Zenon DEF ProcInv, ProcessType, regVars, seenVars
<1>23. \A i \in Outputs : pipe[p][i] = <<>> /\ ~Alive(p) => pipe'[p][i] = <<>>
  BY <1>5, <1>8, <1>14, <1>16, Zenon
<1>24. /\ \A q \in Procs : q # p => pipe'[q] = pipe[q] /\ sent'[q] = sent[q]
       /\ \A g \in On(p) : g # f /\ job[g].op = "write" => sent'[p] = sent[p]
       /\ job[f].op \in {"write", "read"} /\ k.op = job[f].op /\ k.stream = job[f].stream
       /\ k.holds \subseteq job[f].holds
  <2>1. job[f].op \in {"write", "read"}
    BY <1>1
  <2> QED
    BY <1>1, <1>2, <1>4, <1>6, <1>7, <1>13, <1>16, <2>1, Zenon
<1>25. \A i \in Outputs : Flows(p, i)'
  BY <1>20, <1>21, Zenon
<1> QED
  BY <1>2, <1>3, <1>4, <1>9, <1>13, <1>17, <1>18, <1>22, <1>23, <1>24, <1>25, WorkInv, Zenon

(***************************************************************************)
(* The job that waits for a child that has exited reaps it, and returns.   *)
(***************************************************************************)
LEMMA ReapInv ==
  ASSUME ProcInv, NEW f \in Fibers, NEW p \in Procs, NEW j \in Jobs, Finish(f, j),
         job[f].proc = p, j.proc = p, j.op = job[f].op, j.stream = job[f].stream,
         j.buf = job[f].buf, j.err = job[f].err, j.holds = {}, Reaps(f),
         job[f].op = "run" => \A s \in Outputs : pipe[p][s] = <<>>,
         child[p].state = "exited", child' = [child EXCEPT ![p].state = "reaped"],
         UNCHANGED <<pipe, sent, regVars, seenVars>>
  PROVE  ProcInv'
<1>1. /\ pipe' = pipe /\ sent' = sent /\ registered' = registered /\ ends' = ends
      /\ got' = got /\ eof' = eof /\ closed' = closed
  BY DEF regVars, seenVars
<1>2. /\ Placed(Jobs)' /\ Worked(p, f, j) /\ \A q : q # p => SameJobs(q)
      /\ Progress(f, j) => Returned' = Returned
      /\ Finish(f, j) => Returned' = Returned \cup {f}
  BY Works, Zenon DEF ProcInv
<1>3. /\ On(p)' = On(p) /\ f \in On(p) /\ job'[f] = j /\ f \notin Returned
      /\ Returned' = Returned \cup {f}
  BY <1>2, Zenon DEF Worked
<1>4. /\ \A g \in On(p) : g # f => job'[g] = job[g] /\ (g \in Returned' <=> g \in Returned)
      /\ \A g \in On(p) : g # f => JobShape(g)'
      /\ \A g \in On(p) : Reaps(g)' <=> Reaps(g)
  BY <1>1, <1>2, <1>3, WorkOthers, Zenon
<1>5. child[p] \in Children /\ child \in [Procs -> Children]
  BY DEF ProcInv, ProcessType
<1>6. /\ child'[p].state = "reaped" /\ child'[p].program = child[p].program
      /\ child'[p].tty = child[p].tty /\ child'[p].todo = child[p].todo
      /\ child'[p].shared = child[p].shared /\ child'[p].lost = child[p].lost
      /\ child' \in [Procs -> Children]
      /\ \A q \in Procs : q # p => child'[q] = child[q]
  BY <1>5 DEF Children
<1>7. ProcessType'
  BY <1>1, <1>6, Zenon DEF ProcInv, ProcessType
<1>8. \A q \in Procs : q # p => SameChild(q)
  BY <1>1, <1>6, Zenon DEF SameChild
<1>9. ChildOK(p) /\ p \notin registered /\ job[f].op \in {"wait", "run", "exec"} /\ JobShape(f)
  <2>1. ChildOK(p) /\ Owned(p) /\ JobShape(f)
    BY <1>3, Zenon DEF ProcInv, ChildOK
  <2> QED
    BY <1>3, <2>1, Zenon DEF Owned, Reaps
<1>10. \A s \in Outputs : Flows(p, s)'
  <2> SUFFICES ASSUME NEW s \in Outputs PROVE Flows(p, s)'
    OBVIOUS
  <2>1. /\ \A g, i : Carries(p, g, i)' <=> Carries(p, g, i)
        /\ \A g, i : Carries(p, g, i) => job'[g].buf = job[g].buf
    BY <1>2, <1>6, WorkCarries, Zenon
  <2>2. Flows(p, s)
    BY <1>9, Zenon DEF ChildOK
  <2> QED
    BY <1>1, <1>6, <2>1, <2>2, FlowsKept, Zenon
<1>11. Untouched(p)'
  BY <1>6 DEF Untouched
<1>12. OneHolder(p)'
  <2>1. OneHolder(p) /\ On(p)' \subseteq On(p) /\ ends'[p] \subseteq ends[p]
    BY <1>1, <1>3, <1>9, Zenon DEF ChildOK
  <2>2. \A g \in On(p)' : job'[g].holds \subseteq job[g].holds
    BY <1>3, <1>4, Zenon
  <2>3. p \notin registered' => ends'[p] = {}
    BY <1>1, <2>1, Zenon DEF OneHolder
  <2> QED
    BY <2>1, <2>2, <2>3, HolderKept, Zenon
<1>13. Owned(p)'
  <2>1. Owned(p) /\ p \notin registered'
    BY <1>1, <1>9, Zenon DEF ChildOK
  <2>2. child'[p].state \notin {"running", "exited"}
    BY <1>6
  <2>3. \A g \in On(p) : job'[g].op = job[g].op
    BY <1>3, <1>4, Zenon
  <2>4. \A g \in On(p) : job[g].op \in {"run", "exec"} => \A h \in On(p) : h = g
    BY <2>1, Zenon DEF Owned
  <2>5. \A g \in On(p)' : job'[g].op \in {"run", "exec"} => p \notin registered' /\ \A h \in On(p)' : h = g
    BY <1>3, <2>1, <2>3, <2>4, Zenon
  <2>6. ~child[p].lost /\ child[p].state # "unborn" /\ ~job[f].err
    <3>1. ~job[f].err
      BY <1>3, <1>9, Zenon DEF JobShape
    <3> QED
      BY <1>3, <2>1, <3>1 DEF Owned
  <2>7. \A g \in On(p) : Reaps(g) => ~job[g].err
    BY <2>1, <2>6, Zenon DEF Owned
  <2>8. \A g \in On(p)' : Reaps(g)' => ~job'[g].err
    BY <1>3, <1>4, <2>6, <2>7, Zenon
  <2> QED
    BY <1>6, <2>1, <2>2, <2>5, <2>6, <2>8, Zenon DEF Owned
<1>14. AtEnd(p)'
  <2>1. AtEnd(p) /\ eof'[p] = eof[p]
    BY <1>1, <1>9, Zenon DEF ChildOK
  <2>2. \A s : Drained(p, s) => Drained(p, s)'
    BY <1>1, <1>6 DEF Drained
  <2>3. JobAtEnd(p, f)'
    <3>1. job'[f].op # "read"
      BY <1>3, <1>9
    <3>2. job'[f].op = "run" => \A s \in Outputs : Drained(p, s)'
      BY <1>1, <1>3, <1>6 DEF Drained
    <3> QED
      BY <3>1, <3>2, Zenon DEF JobAtEnd
  <2>4. \A g \in On(p)' :
          \/ JobAtEnd(p, g)'
          \/ g \in On(p) /\ job'[g] = job[g] /\ (g \in Returned' <=> g \in Returned)
    BY <1>3, <1>4, <2>3, Zenon
  <2> QED
    BY <1>6, <2>1, <2>2, <2>4, AtEndKept, Zenon
<1>15. Exclusive(p)'
  BY <1>1, <1>9, Zenon DEF Exclusive
<1>16. JobShape(f)'
  BY <1>3, <1>9 DEF JobShape
<1>17. ChildOK(p)'
  BY <1>3, <1>4, <1>10, <1>11, <1>12, <1>13, <1>14, <1>15, <1>16, Zenon DEF ChildOK
<1> QED
  BY <1>2, <1>7, <1>8, <1>17, OneChild, Zenon

(***************************************************************************)
(* Child::wait of a process_wait, and of a process_run or process_exec     *)
(* whose pipes are at their end.                                           *)
(***************************************************************************)
LEMMA WaitJobInv ==
  ASSUME ProcInv, NEW f \in Fibers, WaitJob(f) \/ RunWait(f)
  PROVE  ProcInv'
<1>1. f \in Running /\ f \in Busy /\ job[f].op \in {"wait", "run", "exec"}
  BY DEF WaitJob, RunWait, Running, OnWorker
<1>2. PICK j \in Jobs : job[f] = j
  BY <1>1 DEF ProcInv, Placed, Busy
<1>3. PICK p \in Procs : j.proc = p
  BY JobFields, Zenon
<1> DEFINE k == [j EXCEPT !.holds = {}]
<1>4. /\ k \in Jobs /\ k.op = j.op /\ k.proc = p /\ k.stream = j.stream /\ k.buf = j.buf
      /\ k.holds = {} /\ k.err = j.err
  BY <1>3 DEF Jobs
<1>5. /\ Finish(f, k) /\ child[p].state = "exited" /\ child' = [child EXCEPT ![p].state = "reaped"]
      /\ UNCHANGED <<pipe, sent, regVars, seenVars>>
      /\ job[f].op = "run" => \A s \in Outputs : pipe[p][s] = <<>>
  <2>1. CASE WaitJob(f)
    BY <1>2, <1>3, <2>1, Zenon DEF WaitJob
  <2>2. CASE RunWait(f)
    BY <1>2, <1>3, <2>2, Zenon DEF RunWait
  <2> QED
    BY <2>1, <2>2, Zenon
<1> HIDE DEF k
<1>6. Reaps(f) /\ job[f].proc = p /\ k.op = job[f].op /\ k.stream = job[f].stream /\ k.buf = job[f].buf
      /\ k.err = job[f].err
  BY <1>1, <1>2, <1>3, <1>4, Zenon DEF Reaps
<1> QED
  BY <1>4, <1>5, <1>6, ReapInv, Zenon

(***************************************************************************)
(* The job of a process_run or process_exec is alone with its child, which *)
(* is not registered.                                                      *)
(***************************************************************************)
LEMMA RunsAlone ==
  ASSUME ProcInv, NEW p \in Procs, NEW f \in On(p), job[f].op \in {"run", "exec"}
  PROVE  /\ ChildOK(p) /\ p \notin registered /\ ends[p] = {} /\ On(p) = {f}
         /\ Reaps(f) /\ JobShape(f)
<1>1. ChildOK(p) /\ Owned(p) /\ OneHolder(p) /\ JobShape(f)
  BY Zenon DEF ProcInv, ChildOK
<1>2. p \notin registered /\ \A g \in On(p) : g = f
  BY <1>1, Zenon DEF Owned
<1>3. ends[p] = {} /\ On(p) = {f}
  BY <1>1, <1>2, Zenon DEF OneHolder
<1>4. Reaps(f)
  BY DEF Reaps
<1> QED
  BY <1>1, <1>2, <1>3, <1>4, Zenon

(***************************************************************************)
(* Command::output and Command::status spawn the child.                    *)
(***************************************************************************)
LEMMA RunSpawnInv ==
  ASSUME ProcInv, NEW f \in Fibers, RunSpawn(f)
  PROVE  ProcInv'
<1>1. f \in Running /\ f \in Busy /\ job[f].op \in {"run", "exec"} /\ f \notin Returned
  BY Zenon DEF RunSpawn, Running, OnWorker, Returned
<1>2. PICK j \in Jobs : job[f] = j
  BY <1>1 DEF ProcInv, Placed, Busy
<1>3. PICK p \in Procs : j.proc = p
  BY JobFields, Zenon
<1> DEFINE k == [j EXCEPT !.holds = IF j.op = "run" THEN Outputs ELSE {}]
<1>4. /\ k \in Jobs /\ k.op = j.op /\ k.proc = p /\ k.stream = j.stream /\ k.buf = j.buf
      /\ (j.op = "exec" => k.holds = {}) /\ k.err = j.err
  BY <1>3 DEF Jobs, Streams
<1>5. PICK program \in Programs : child' = [child EXCEPT ![p] = Born(program, j.op = "exec", FALSE)]
  BY <1>2, <1>3, Zenon DEF RunSpawn
<1>6. child[p] = Unborn /\ Progress(f, k)
  BY <1>2, <1>3, Zenon DEF RunSpawn
<1>7. /\ pipe' = pipe /\ sent' = sent /\ registered' = registered /\ ends' = ends
      /\ got' = got /\ eof' = eof /\ closed' = closed
  BY DEF RunSpawn, regVars, seenVars
<1> HIDE DEF k
<1>8. f \in On(p) /\ job[f].proc = p
  BY <1>1, <1>2, <1>3, Zenon DEF On
<1>9. /\ ChildOK(p) /\ p \notin registered /\ ends[p] = {} /\ On(p) = {f} /\ JobShape(f)
  BY <1>1, <1>8, RunsAlone, Zenon
<1>10. child[p].state = "unborn" /\ Untouched(p)
  BY <1>6, <1>9 DEF Unborn, ChildOK
<1>11. /\ p \notin closed /\ eof[p] = {} /\ sent[p] = 0 /\ j.buf = <<>>
       /\ \A s \in Streams : pipe[p][s] = <<>> /\ got[p][s] = <<>>
  BY <1>2, <1>8, <1>10, Zenon DEF Untouched
<1>12. /\ Placed(Jobs)' /\ Worked(p, f, k) /\ \A q : q # p => SameJobs(q)
       /\ Progress(f, k) => Returned' = Returned
       /\ Finish(f, k) => Returned' = Returned \cup {f}
  BY <1>4, <1>6, <1>8, Works, Zenon DEF ProcInv
<1>13. On(p)' = {f} /\ job'[f] = k /\ f \notin Returned /\ Returned' = Returned /\ ~k.err
  <2>1. ~j.err
    BY <1>1, <1>2, <1>9, Zenon DEF JobShape
  <2> QED
    BY <1>4, <1>6, <1>9, <1>12, <2>1, Zenon DEF Worked
<1>14. /\ child'[p] = Born(program, j.op = "exec", FALSE)
       /\ \A q \in Procs : q # p => child'[q] = child[q]
  BY <1>5 DEF ProcInv, ProcessType
<1>15. /\ child'[p] \in Children /\ child'[p].state = "running" /\ ~child'[p].lost
       /\ \A s \in Outputs : Flows(p, s)'
  <2>1. \A g \in Fibers, s \in Outputs : ~Carries(p, g, s)'
    BY <1>4, <1>11, <1>13, Zenon DEF Carries
  <2>2. /\ sent'[p] = 0
        /\ \A s \in Streams : pipe'[p][s] = <<>> /\ got'[p][s] = <<>>
    BY <1>7, <1>11, Zenon
  <2>3. FALSE \in BOOLEAN /\ (j.op = "exec") \in BOOLEAN
    OBVIOUS
  <2> QED
    BY <1>14, <2>1, <2>2, <2>3, BornFlows, Zenon
<1>16. ProcessType'
  <2>1. child' \in [Procs -> Children]
    BY <1>5, <1>14, <1>15, Zenon DEF ProcInv, ProcessType
  <2> QED
    BY <1>7, <2>1, Zenon DEF ProcInv, ProcessType
<1>17. \A q \in Procs : q # p => SameChild(q)
  BY <1>7, <1>14, Zenon DEF SameChild
<1>18. Untouched(p)'
  BY <1>15, Zenon DEF Untouched
<1>19. OneHolder(p)'
  BY <1>7, <1>9, <1>13, Zenon DEF OneHolder
<1>20. Owned(p)'
  <2>1. Reaps(f)'
    BY <1>1, <1>2, <1>4, <1>13, Zenon DEF Reaps
  <2>2. SoleReaper(p, f)'
    BY <1>13, <2>1, Zenon DEF SoleReaper
  <2> QED
    BY <1>7, <1>9, <1>13, <1>15, <2>2, Zenon DEF Owned
<1>21. AtEnd(p)'
  <2>1. job'[f].op # "read" /\ f \notin Returned' /\ eof'[p] = {}
    BY <1>1, <1>2, <1>4, <1>7, <1>11, <1>13, Zenon
  <2> QED
    BY <1>13, <2>1, Zenon DEF AtEnd, JobAtEnd
<1>22. Exclusive(p)'
  BY <1>7, <1>9, Zenon DEF Exclusive
<1>23. JobShape(f)'
  <2>1. j.stream = "none"
    BY <1>1, <1>2, <1>9 DEF JobShape
  <2> QED
    BY <1>1, <1>2, <1>4, <1>11, <1>13, <2>1, Zenon DEF JobShape
<1>24. ChildOK(p)'
  BY <1>13, <1>15, <1>18, <1>19, <1>20, <1>21, <1>22, <1>23, Zenon DEF ChildOK
<1> QED
  BY <1>12, <1>16, <1>17, <1>24, OneChild, Zenon

(***************************************************************************)
(* Command::output takes everything there is in a pipe.                    *)
(***************************************************************************)
LEMMA RunDrainInv ==
  ASSUME ProcInv, NEW f \in Fibers, RunDrain(f)
  PROVE  ProcInv'
<1>1. f \in Running /\ f \in Busy /\ job[f].op = "run" /\ f \notin Returned
  BY Zenon DEF RunDrain, Running, OnWorker, Returned
<1>2. PICK j \in Jobs : job[f] = j
  BY <1>1 DEF ProcInv, Placed, Busy
<1>3. PICK p \in Procs : j.proc = p
  BY JobFields, Zenon
<1>4. PICK s \in Outputs :
        /\ pipe[p][s] # <<>> /\ Progress(f, [j EXCEPT !.buf = @ \o pipe[p][s]])
        /\ pipe' = [pipe EXCEPT ![p][s] = <<>>]
  BY <1>2, <1>3, Zenon DEF RunDrain
<1>5. /\ child' = child /\ sent' = sent /\ registered' = registered /\ ends' = ends
      /\ got' = got /\ eof' = eof /\ closed' = closed
  BY DEF RunDrain, regVars, seenVars
<1>6. f \in On(p) /\ job[f].proc = p /\ job[f].op \in {"run", "exec"} /\ j.op = "run"
  BY <1>1, <1>2, <1>3 DEF On
<1>7. ChildOK(p) /\ p \notin registered /\ ends[p] = {} /\ On(p) = {f} /\ JobShape(f) /\ Reaps(f)
  BY <1>6, RunsAlone, Zenon
<1>8. /\ Flows(p, s) /\ s = Out(p) /\ s \in Streams /\ "stdin" \in Streams /\ s # "stdin"
      /\ Outputs \subseteq Streams
  <2>1. /\ Flows(p, s) /\ s \in Streams /\ "stdin" \in Streams /\ s # "stdin"
        /\ Outputs \subseteq Streams
    BY <1>7 DEF ChildOK, Outputs, Streams
  <2> QED
    BY <1>4, <2>1, Zenon DEF Flows
<1>9. PICK data \in Seq(Bytes) : pipe[p][s] = data
  BY <1>8, ChildTypes, Zenon DEF ProcInv
<1>10. got[p][s] \in Seq(Bytes) /\ Len(got[p][s]) \in Nat
  BY <1>8, ChildTypes, ByteSeq, Zenon DEF ProcInv
<1>11. PICK n \in Nat : Fetched(p, s, n) /\ Ahead(p, s, n)
  BY <1>8, Zenon DEF Flows
<1>12. j.buf \in Seq(Bytes) /\ Len(j.buf) \in Nat /\ (j.buf = <<>> <=> Len(j.buf) = 0)
  BY JobFields, ByteSeq, Zenon
<1>13. n = Len(got[p][s]) + Len(j.buf) /\ Follows(j.buf, Len(got[p][s]))
  <2>1. \A g : Carries(p, g, s) <=> g = f /\ j.buf # <<>>
    BY <1>1, <1>2, <1>7, <1>8, Zenon DEF Carries
  <2>2. CASE j.buf = <<>>
    <3>1. n = Len(got[p][s])
      BY <1>11, <2>1, <2>2, Zenon DEF Fetched
    <3>2. Follows(<<>>, Len(got[p][s]))
      BY DEF Follows
    <3>3. Len(got[p][s]) = Len(got[p][s]) + 0
      BY <1>10
    <3> QED
      BY <1>12, <2>2, <3>1, <3>2, <3>3, Zenon
  <2>3. CASE j.buf # <<>>
    BY <1>2, <1>11, <2>1, <2>3, Zenon DEF Fetched
  <2> QED
    BY <2>2, <2>3, Zenon
<1> DEFINE b == j.buf \o data
           k == [j EXCEPT !.buf = b]
<1>14. /\ b \in Seq(Bytes) /\ Len(b) = Len(j.buf) + Len(data) /\ Follows(b, Len(got[p][s]))
       /\ Len(data) \in Nat /\ Len(data) # 0
  <2>1. Follows(data, Len(got[p][s]) + Len(j.buf))
    BY <1>9, <1>11, <1>13, Zenon DEF Ahead
  <2>2. Len(data) \in Nat /\ Len(data) # 0
    BY <1>4, <1>9, ByteSeq, Zenon
  <2> QED
    BY <1>9, <1>10, <1>12, <1>13, <2>1, <2>2, FollowsConcat, Zenon
<1>15. /\ k \in Jobs /\ k.op = "run" /\ k.proc = p /\ k.stream = j.stream /\ k.buf = b
       /\ k.holds = j.holds /\ k.err = j.err
  BY <1>3, <1>6, <1>14, Zenon DEF Jobs
<1>16. Progress(f, k)
  BY <1>4, <1>9, Zenon
<1> HIDE DEF b, k
<1>17. b # <<>>
  <2>1. Len(b) # 0
    BY <1>12, <1>14
  <2> QED
    BY <1>14, <2>1, ByteSeq, Zenon
<1>18. /\ Placed(Jobs)' /\ Worked(p, f, k) /\ \A q : q # p => SameJobs(q)
       /\ Progress(f, k) => Returned' = Returned
       /\ Finish(f, k) => Returned' = Returned \cup {f}
  BY <1>6, <1>15, <1>16, Works, Zenon DEF ProcInv
<1>19. On(p)' = {f} /\ job'[f] = k /\ f \notin Returned /\ Returned' = Returned /\ ~k.err
  <2>1. ~j.err
    BY <1>1, <1>2, <1>7, Zenon DEF JobShape
  <2> QED
    BY <1>7, <1>15, <1>16, <1>18, <2>1, Zenon DEF Worked
<1>20. /\ pipe'[p][s] = <<>> /\ \A i \in Streams : i # s => pipe'[p][i] = pipe[p][i]
       /\ \A q \in Procs : q # p => pipe'[q] = pipe[q]
       /\ pipe' \in [Procs -> [Streams -> Seq(Bytes)]]
  BY <1>4, <1>8, ByteSeq DEF ProcInv, ProcessType
<1>21. ProcessType'
  BY <1>5, <1>20, Zenon DEF ProcInv, ProcessType
<1>22. \A q \in Procs : q # p => SameChild(q)
  BY <1>5, <1>20, Zenon DEF SameChild
<1>23. /\ Out(p)' = Out(p) /\ \A g : Carries(p, g, s)' <=> g = f
       /\ \A g : \A i : i # s => ~Carries(p, g, i) /\ ~Carries(p, g, i)'
  <2>1. Out(p)' = Out(p) /\ k.op # "read" /\ job[f].op # "read"
    BY <1>1, <1>5, <1>15 DEF Out
  <2>2. \A g : Carries(p, g, s)' <=> g = f
    BY <1>8, <1>15, <1>17, <1>19, <2>1, Zenon DEF Carries
  <2>3. \A g : \A i : i # s => ~Carries(p, g, i)
    BY <1>7, <1>8, <2>1, Zenon DEF Carries
  <2>4. \A g : \A i : i # s => ~Carries(p, g, i)'
    BY <1>8, <1>19, <2>1, Zenon DEF Carries
  <2> QED
    BY <2>1, <2>2, <2>3, <2>4, Zenon
<1>24. Flows(p, s)'
  <2>1. PICK m \in Nat : /\ m = Len(got[p][s]) + Len(b) /\ m = n + Len(data)
                         /\ m + Len(<<>>) = n + Len(data)
    <3>1. \A x, y, z \in Nat : /\ x + (y + z) \in Nat /\ x + (y + z) = (x + y) + z
                               /\ (x + (y + z)) + 0 = (x + y) + z
      OBVIOUS
    <3>2. LET e == Len(got[p][s]) + (Len(j.buf) + Len(data))
          IN  e \in Nat /\ e = n + Len(data) /\ e + 0 = n + Len(data)
      <4>1. LET x == Len(got[p][s])  y == Len(j.buf)  z == Len(data)
            IN  /\ x + (y + z) \in Nat /\ x + (y + z) = (x + y) + z
                /\ (x + (y + z)) + 0 = (x + y) + z
        BY <1>10, <1>12, <1>14, <3>1, Zenon
      <4> QED
        BY <1>13, <4>1, Zenon
    <3>3. Len(<<>>) = 0
      BY ByteSeq, Zenon
    <3> QED
      BY <1>14, <3>2, <3>3, Zenon
  <2>2. Fetched(p, s, m)'
    BY <1>5, <1>14, <1>15, <1>19, <1>23, <2>1, Zenon DEF Fetched
  <2>3. Ahead(p, s, m)'
    <3>1. Follows(<<>>, m)
      BY DEF Follows
    <3>2. pipe'[p]["stdin"] = pipe[p]["stdin"]
      BY <1>8, <1>20, Zenon
    <3> QED
      BY <1>5, <1>9, <1>11, <1>20, <1>23, <2>1, <3>1, <3>2, Zenon DEF Ahead
  <2>4. Follows(got'[p][s], 0) /\ pipe'[p][s] = <<>>
    BY <1>5, <1>8, <1>20, Zenon DEF Flows
  <2> QED
    BY <2>1, <2>2, <2>3, <2>4, Zenon DEF Flows
<1>25. ASSUME NEW i \in Outputs, i # s PROVE Flows(p, i)'
  <2>1. Flows(p, i) /\ pipe'[p][i] = pipe[p][i] /\ pipe'[p]["stdin"] = pipe[p]["stdin"]
    BY <1>7, <1>8, <1>20, <1>25, Zenon DEF ChildOK
  <2>2. \A g : ~Carries(p, g, i) /\ ~Carries(p, g, i)'
    BY <1>23, <1>25, Zenon
  <2> QED
    BY <1>5, <2>1, <2>2, FlowsKept, Zenon
<1>26. Untouched(p)'
  <2>1. child[p].state # "unborn"
    BY <1>4, <1>7, <1>8, Zenon DEF ChildOK, Untouched
  <2> QED
    BY <1>5, <2>1, Zenon DEF Untouched
<1>27. OneHolder(p)'
  BY <1>5, <1>7, <1>19, Zenon DEF OneHolder
<1>28. Owned(p)'
  <2>1. Reaps(f)'
    BY <1>15, <1>19 DEF Reaps
  <2>2. SoleReaper(p, f)'
    BY <1>19, <2>1, Zenon DEF SoleReaper
  <2>3. ~child[p].lost
    <3>1. Owned(p) /\ f \in On(p) /\ ~job[f].err
      BY <1>1, <1>7, Zenon DEF ChildOK, JobShape
    <3> QED
      BY <1>7, <3>1, Zenon DEF Owned
  <2> QED
    BY <1>5, <1>7, <1>19, <2>2, <2>3, Zenon DEF Owned
<1>29. AtEnd(p)'
  <2>1. AtEnd(p) /\ eof'[p] = eof[p] /\ child'[p].shared = child[p].shared
    BY <1>5, <1>7, Zenon DEF ChildOK
  <2>2. \A i \in Outputs : Drained(p, i) => Drained(p, i)'
    BY <1>5, <1>8, <1>20, Zenon DEF Drained
  <2>3. eof[p] \subseteq Outputs
    BY ChildTypes, Zenon DEF ProcInv
  <2>4. job'[f].op # "read" /\ f \notin Returned'
    BY <1>15, <1>19
  <2>5. \A g \in On(p)' : JobAtEnd(p, g)'
    BY <1>19, <2>4, Zenon DEF JobAtEnd
  <2> QED
    BY <2>1, <2>2, <2>3, <2>5, Zenon DEF AtEnd
<1>30. Exclusive(p)'
  BY <1>5, <1>7, Zenon DEF Exclusive
<1>31. JobShape(f)'
  <2>1. j.stream = "none"
    BY <1>1, <1>2, <1>7, Zenon DEF JobShape
  <2> QED
    BY <1>15, <1>19, <2>1 DEF JobShape
<1>32. ChildOK(p)'
  BY <1>19, <1>24, <1>25, <1>26, <1>27, <1>28, <1>29, <1>30, <1>31, Zenon DEF ChildOK
<1> QED
  BY <1>18, <1>21, <1>22, <1>32, OneChild, Zenon

(***************************************************************************)
(* A read that fails keeps its pipe, and moves no byte.                    *)
(***************************************************************************)
LEMMA ReadErrInv ==
  ASSUME ProcInv, NEW f \in Fibers, ReadErr(f)
  PROVE  ProcInv'
<1>1. f \in Running /\ job[f].op = "read" /\ job[f].holds # {} /\ f \in Busy /\ f \notin Returned
  BY Zenon DEF ReadErr, Running, OnWorker, Returned
<1>2. PICK j \in Jobs : job[f] = j
  BY <1>1 DEF ProcInv, Placed, Busy
<1>3. PICK p \in Procs : j.proc = p
  BY JobFields, Zenon
<1> DEFINE k == [j EXCEPT !.err = TRUE]
<1>4. /\ k \in Jobs /\ k.op = j.op /\ k.proc = p /\ k.stream = j.stream /\ k.buf = j.buf
      /\ k.holds = j.holds /\ k.n = j.n /\ k.err
  BY <1>3 DEF Jobs
<1>5. Finish(f, k) /\ UNCHANGED <<osVars, regVars, seenVars>>
  BY <1>2, Zenon DEF ReadErr
<1> HIDE DEF k
<1>6. /\ child' = child /\ pipe' = pipe /\ sent' = sent /\ got' = got
      /\ UNCHANGED <<child, regVars, seenVars>>
  BY <1>5 DEF osVars, seenVars
<1>7. f \in On(p) /\ job[f].proc = p /\ ChildOK(p) /\ JobShape(f)
  BY <1>1, <1>2, <1>3, Zenon DEF On, ProcInv, ChildOK
<1>8. Worked(p, f, k) /\ Returned' = Returned \cup {f} /\ job'[f] = k
  <2>1. /\ Placed(Jobs)' /\ Worked(p, f, k) /\ \A q : q # p => SameJobs(q)
        /\ Progress(f, k) => Returned' = Returned
        /\ Finish(f, k) => Returned' = Returned \cup {f}
    BY <1>4, <1>5, <1>7, Works, Zenon DEF ProcInv
  <2> QED
    BY <1>5, <2>1, Zenon DEF Worked
<1>9. JobShape(f)'
  <2>1. j.stream \in Outputs /\ j.holds \subseteq {j.stream} /\ Len(j.buf) =< Clamped(j.n) /\ j.buf = <<>>
    BY <1>1, <1>2, <1>7, Zenon DEF JobShape
  <2>2. k.op = "read" /\ k.holds # {} /\ f \in Returned'
    BY <1>1, <1>2, <1>4, <1>8, Zenon
  <2> QED
    BY <1>4, <1>8, <2>1, <2>2 DEF JobShape
<1>10. JobAtEnd(p, f)'
  <2>1. job'[f].op # "run" /\ job'[f].holds # {}
    BY <1>1, <1>2, <1>4, <1>8
  <2> QED
    BY <2>1, Zenon DEF JobAtEnd
<1>11. ASSUME NEW s \in Outputs PROVE Flows(p, s)'
  <2>1. /\ \A g, i : Carries(p, g, i)' <=> Carries(p, g, i)
        /\ \A g, i : Carries(p, g, i) => job'[g].buf = job[g].buf
    BY <1>2, <1>4, <1>6, <1>8, WorkCarries, Zenon
  <2>2. Flows(p, s)
    BY <1>7, Zenon DEF ChildOK
  <2>3. /\ got'[p][s] = got[p][s] /\ pipe'[p][s] = pipe[p][s] /\ sent'[p] = sent[p]
        /\ pipe'[p]["stdin"] = pipe[p]["stdin"] /\ child'[p] = child[p]
    BY <1>6, Zenon
  <2> QED
    BY <1>3, <2>1, <2>2, <2>3, FlowsKept, Zenon
<1>12. ProcessType'
  BY <1>5, Zenon DEF ProcInv, ProcessType, osVars, regVars, seenVars
<1>13. job[f].op \in {"write", "read"} /\ k.holds \subseteq job[f].holds
  BY <1>1, <1>2, <1>4
<1> QED
  BY <1>2, <1>4, <1>5, <1>6, <1>7, <1>9, <1>10, <1>11, <1>12, <1>13, WorkInv, Zenon

(***************************************************************************)
(* A wait that fails loses its child, and a spawn that fails makes none.   *)
(***************************************************************************)
LEMMA FailedInv ==
  ASSUME ProcInv, NEW f \in Fibers, WaitErr(f) \/ SpawnErr(f)
  PROVE  ProcInv'
<1>1. f \in Busy /\ job[f].op \in {"wait", "run", "exec"} /\ f \notin Returned
  BY DEF WaitErr, SpawnErr, Running, OnWorker, Returned
<1>2. PICK j \in Jobs : job[f] = j
  BY <1>1 DEF ProcInv, Placed, Busy
<1>3. PICK p \in Procs : j.proc = p
  BY JobFields, Zenon
<1> DEFINE k == [j EXCEPT !.err = TRUE]
<1>4. /\ k \in Jobs /\ k.op = j.op /\ k.proc = p /\ k.stream = j.stream /\ k.buf = j.buf
      /\ k.holds = j.holds /\ k.err
  BY <1>3 DEF Jobs
<1>5. /\ pipe' = pipe /\ sent' = sent /\ registered' = registered /\ ends' = ends
      /\ got' = got /\ eof' = eof /\ closed' = closed
  BY DEF WaitErr, SpawnErr, osVars, regVars, seenVars
<1>6. Finish(f, k)
  BY <1>2, Zenon DEF WaitErr, SpawnErr
<1>7. \/ child[p].state \in {"running", "exited"} /\ child' = [child EXCEPT ![p].lost = TRUE]
      \/ child[p].state = "unborn" /\ child' = child
  <2>1. CASE WaitErr(f)
    BY <1>2, <1>3, <2>1, Zenon DEF WaitErr
  <2>2. CASE SpawnErr(f)
    <3>1. child[p] = Unborn /\ child' = child
      BY <1>2, <1>3, <2>2 DEF SpawnErr, osVars
    <3> QED
      BY <3>1 DEF Unborn
  <2> QED
    BY <2>1, <2>2, Zenon
<1> HIDE DEF k
<1>8. child[p] \in Children /\ child \in [Procs -> Children]
  BY DEF ProcInv, ProcessType
<1>9. /\ child'[p].state = child[p].state /\ child'[p].program = child[p].program
      /\ child'[p].tty = child[p].tty /\ child'[p].todo = child[p].todo
      /\ child'[p].shared = child[p].shared /\ child' \in [Procs -> Children]
      /\ \A q \in Procs : q # p => child'[q] = child[q]
      /\ IF child[p].state = "unborn" THEN child'[p] = child[p]
         ELSE child[p].state \in {"running", "exited"} /\ child'[p].lost
  <2>1. CASE child[p].state \in {"running", "exited"} /\ child' = [child EXCEPT ![p].lost = TRUE]
    <3>1. child[p].state # "unborn"
      BY <2>1
    <3> QED
      BY <1>8, <2>1, <3>1, Zenon DEF Children
  <2>2. CASE child[p].state = "unborn" /\ child' = child
    BY <1>8, <2>2, Zenon
  <2> QED
    BY <1>7, <2>1, <2>2, Zenon
<1>10. ProcessType'
  BY <1>5, <1>9, Zenon DEF ProcInv, ProcessType
<1>11. \A q \in Procs : q # p => SameChild(q)
  BY <1>5, <1>9, Zenon DEF SameChild
<1>12. /\ Placed(Jobs)' /\ Worked(p, f, k) /\ \A q : q # p => SameJobs(q)
       /\ Progress(f, k) => Returned' = Returned
       /\ Finish(f, k) => Returned' = Returned \cup {f}
  BY <1>2, <1>3, <1>4, <1>6, Works, Zenon DEF ProcInv
<1>13. /\ On(p)' = On(p) /\ f \in On(p) /\ job'[f] = k
       /\ Returned' = Returned \cup {f}
  BY <1>6, <1>12, Zenon DEF Worked
<1>14. /\ \A g \in On(p) : g # f => job'[g] = job[g] /\ (g \in Returned' <=> g \in Returned)
       /\ \A g \in On(p) : g # f => JobShape(g)'
       /\ \A g \in On(p) : Reaps(g)' <=> Reaps(g)
  BY <1>2, <1>4, <1>5, <1>12, <1>13, WorkOthers, Zenon
<1>15. /\ ChildOK(p) /\ Owned(p) /\ Untouched(p) /\ OneHolder(p) /\ AtEnd(p) /\ JobShape(f)
       /\ Reaps(f) /\ ~job[f].err
  <2>1. /\ ChildOK(p) /\ Owned(p) /\ Untouched(p) /\ OneHolder(p) /\ AtEnd(p) /\ JobShape(f)
        /\ Reaps(f)
    BY <1>1, <1>13, Zenon DEF ProcInv, ChildOK, Reaps
  <2> QED
    BY <1>1, <2>1, Zenon DEF JobShape
<1>16. p \notin registered /\ ~child[p].lost
  BY <1>13, <1>15, Zenon DEF Owned
<1>17. \A s \in Outputs : Flows(p, s)'
  <2> SUFFICES ASSUME NEW s \in Outputs PROVE Flows(p, s)'
    OBVIOUS
  <2>1. /\ \A g, i : Carries(p, g, i)' <=> Carries(p, g, i)
        /\ \A g, i : Carries(p, g, i) => job'[g].buf = job[g].buf
    BY <1>2, <1>4, <1>9, <1>12, WorkCarries, Zenon
  <2>2. Flows(p, s)
    BY <1>15, Zenon DEF ChildOK
  <2> QED
    BY <1>5, <1>9, <2>1, <2>2, FlowsKept, Zenon
<1>18. Untouched(p)'
  <2> SUFFICES ASSUME child[p].state = "unborn" PROVE Untouched(p)'
    BY <1>9, Zenon DEF Untouched
  <2>1. child'[p] = child[p]
    BY <1>9, Zenon
  <2>2. ASSUME NEW g \in On(p)
        PROVE  /\ job'[g].op \in {"run", "exec"} /\ (g \in Returned' => job'[g].err)
               /\ job'[g].buf = <<>> /\ job'[g].holds = {}
    <3>1. CASE g = f
      BY <1>2, <1>4, <1>13, <1>15, <3>1, Zenon DEF Untouched
    <3>2. CASE g # f
      BY <1>14, <1>15, <3>2, Zenon DEF Untouched
    <3> QED
      BY <3>1, <3>2, Zenon
  <2> QED
    BY <1>5, <1>13, <1>15, <2>1, <2>2, Zenon DEF Untouched
<1>19. OneHolder(p)'
  <2>1. OneHolder(p) /\ On(p)' \subseteq On(p) /\ ends'[p] \subseteq ends[p]
    BY <1>5, <1>13, <1>15, Zenon
  <2>2. \A g \in On(p)' : job'[g].holds \subseteq job[g].holds
    BY <1>2, <1>4, <1>13, <1>14, Zenon
  <2>3. p \notin registered' => ends'[p] = {}
    BY <1>5, <2>1, Zenon DEF OneHolder
  <2> QED
    BY <2>1, <2>2, <2>3, HolderKept, Zenon
<1>20. Owned(p)'
  <2>1. \A g \in On(p) : job'[g].op = job[g].op /\ (job[g].err => job'[g].err)
    BY <1>2, <1>4, <1>13, <1>14, Zenon
  <2>2. ASSUME NEW g \in On(p), Reaps(g)', g # f PROVE FALSE
    <3>1. Reaps(g)
      BY <1>14, <2>2, Zenon
    <3>2. CASE child[p].state = "unborn"
      <4>1. job[f].op \in {"run", "exec"}
        BY <1>13, <1>15, <3>2, Zenon DEF Untouched
      <4> QED
        BY <1>13, <1>15, <2>2, <4>1, Zenon DEF Owned
    <3>3. CASE child[p].state # "unborn"
      <4>1. PICK h \in Fibers : SoleReaper(p, h)
        BY <1>9, <1>15, <1>16, <3>3, Zenon DEF Owned
      <4> QED
        BY <1>13, <1>15, <2>2, <3>1, <4>1, Zenon DEF SoleReaper
    <3> QED
      BY <3>2, <3>3, Zenon
  <2>3. \A g \in On(p)' : Reaps(g)' => job'[g].err
    BY <1>4, <1>13, <2>2, Zenon
  <2>4. child'[p].state = "unborn" \/ child'[p].lost
    BY <1>9, Zenon
  <2>5. child'[p].state \in {"running", "exited"} => child'[p].lost
    BY <2>4
  <2>6. \A g \in On(p)' : job'[g].op \in {"run", "exec"} => \A h \in On(p)' : h = g
    BY <1>13, <1>15, <2>1, Zenon DEF Owned
  <2> QED
    BY <1>5, <1>16, <2>3, <2>4, <2>5, <2>6, Zenon DEF Owned
<1>21. AtEnd(p)'
  <2>1. eof'[p] = eof[p] /\ \A s : Drained(p, s) => Drained(p, s)'
    BY <1>5, <1>9, Zenon DEF Drained
  <2>2. JobAtEnd(p, f)'
    <3>1. job'[f].op # "read" /\ job'[f].err
      BY <1>1, <1>2, <1>4, <1>13
    <3> QED
      BY <3>1, Zenon DEF JobAtEnd
  <2>3. \A g \in On(p)' :
          \/ JobAtEnd(p, g)'
          \/ g \in On(p) /\ job'[g] = job[g] /\ (g \in Returned' <=> g \in Returned)
    BY <1>13, <1>14, <2>2, Zenon
  <2> QED
    BY <1>9, <1>15, <2>1, <2>3, AtEndKept, Zenon
<1>22. Exclusive(p)'
  BY <1>5, <1>16, Zenon DEF Exclusive
<1>23. JobShape(f)'
  <2>1. f \in Returned' /\ k.op \in {"wait", "run", "exec"} /\ k.op # "read" /\ k.op # "write"
    BY <1>1, <1>2, <1>4, <1>13
  <2>2. k.stream = "none" /\ (k.op \in {"exec", "wait"} => k.holds = {} /\ k.buf = <<>>)
    BY <1>1, <1>2, <1>4, <1>15 DEF JobShape
  <2> QED
    BY <1>13, <2>1, <2>2, Zenon DEF JobShape
<1>24. ChildOK(p)'
  BY <1>13, <1>14, <1>17, <1>18, <1>19, <1>20, <1>21, <1>22, <1>23, Zenon DEF ChildOK
<1> QED
  BY <1>10, <1>11, <1>12, <1>24, OneChild, Zenon

-----------------------------------------------------------------------------
(* The builders.                                                           *)

\* What the builder of f's job j changes, of child p and of the rest.
Given(p, f, j) ==
  /\ Placed(Jobs)' /\ Delivered(p, f) /\ ProcessType'
  /\ \A q : q # p => SameJobs(q)
  /\ \A q \in Procs : q # p => SameChild(q)
  /\ child' = child /\ pipe' = pipe /\ sent' = sent /\ registered' = registered
  /\ closed' = closed
  /\ ends'[p] = PutBack(j) /\ eof'[p] = eof[p] \cup Reported(j)
  /\ \A s \in Streams : ~Carries(p, f, s) => got'[p][s] = got[p][s]
  /\ \A s \in Streams : Carries(p, f, s) => got'[p][s] = got[p][s] \o j.buf

(***************************************************************************)
(* What a builder changes, of the child its job was about.                 *)
(***************************************************************************)
LEMMA FinishedChanges ==
  ASSUME ProcInv, NEW f \in Fibers, Finished(f), NEW j \in Jobs, job[f] = j,
         NEW p \in Procs, j.proc = p
  PROVE  Given(p, f, j)
<1> DEFINE u == IF j.op = "run" THEN Out(p) ELSE j.stream
<1>1. /\ Deliver(f) /\ ends' = [ends EXCEPT ![p] = PutBack(j)]
      /\ got' = (IF j.buf = <<>> THEN got ELSE [got EXCEPT ![p][u] = @ \o j.buf])
      /\ eof' = [eof EXCEPT ![p] = @ \cup Reported(j)]
  BY Zenon DEF Finished
<1>2. /\ child' = child /\ pipe' = pipe /\ sent' = sent /\ registered' = registered
      /\ closed' = closed
  BY DEF Finished, osVars
<1>3. Placed(Jobs)' /\ Delivered(p, f) /\ \A q : q # p => SameJobs(q)
  BY <1>1, Delivers, Zenon DEF ProcInv
<1>4. f \in On(p) /\ JobShape(f)
  BY <1>3, Zenon DEF Delivered, ProcInv, ChildOK
<1>5. /\ j.op \in {"run", "exec", "wait", "write", "read"} /\ j.holds \subseteq Streams
      /\ j.buf \in Seq(Bytes)
  BY JobFields, Zenon
<1>6. j.op = "read" => j.stream \in Outputs
  BY <1>4, Zenon DEF JobShape
<1>7. j.buf # <<>> => j.op \in {"read", "run"}
  BY <1>4, <1>5 DEF JobShape
<1>8. u \in Streams \/ j.buf = <<>>
  <2>1. Out(p) \in Streams /\ Outputs \subseteq Streams
    BY DEF Out, Outputs, Streams
  <2> QED
    BY <1>6, <1>7, <2>1
<1>9. \A s : Carries(p, f, s) <=> j.buf # <<>> /\ s = u
  BY <1>4, <1>7 DEF Carries
<1> HIDE DEF u
<1>10. /\ got' \in [Procs -> [Streams -> Seq(Bytes)]]
       /\ \A q \in Procs : q # p => got'[q] = got[q]
       /\ \A s \in Streams : ~Carries(p, f, s) => got'[p][s] = got[p][s]
       /\ \A s \in Streams : Carries(p, f, s) => got'[p][s] = got[p][s] \o j.buf
  <2>1. CASE j.buf = <<>>
    BY <1>1, <1>9, <2>1, Zenon DEF ProcInv, ProcessType
  <2>2. CASE j.buf # <<>>
    <3>1. got' = [got EXCEPT ![p][u] = got[p][u] \o j.buf] /\ u \in Streams
      BY <1>1, <1>8, <2>2, Zenon
    <3>2. got \in [Procs -> [Streams -> Seq(Bytes)]] /\ got[p][u] \in Seq(Bytes)
      BY <3>1 DEF ProcInv, ProcessType
    <3>3. got[p][u] \o j.buf \in Seq(Bytes)
      BY <1>5, <3>2
    <3>4. /\ got' \in [Procs -> [Streams -> Seq(Bytes)]]
          /\ \A q \in Procs : q # p => got'[q] = got[q]
          /\ \A s \in Streams : s # u => got'[p][s] = got[p][s]
          /\ got'[p][u] = got[p][u] \o j.buf
      BY <3>1, <3>2, <3>3, Zenon
    <3>5. \A s \in Streams : ~Carries(p, f, s) => got'[p][s] = got[p][s]
      BY <1>9, <2>2, <3>4, Zenon
    <3>6. \A s \in Streams : Carries(p, f, s) => s = u
      BY <1>9, Zenon
    <3>7. \A s \in Streams : Carries(p, f, s) => got'[p][s] = got[p][s] \o j.buf
      BY <3>4, <3>6, Zenon
    <3> QED
      BY <3>4, <3>5, <3>7, Zenon
  <2> QED
    BY <2>1, <2>2, Zenon
<1>11. PutBack(j) \subseteq Streams /\ Reported(j) \subseteq Outputs
  <2>1. ends[p] \subseteq Streams
    BY ChildTypes, Zenon DEF ProcInv
  <2>2. PutBack(j) \subseteq Streams
    BY <1>5, <2>1, Zenon DEF PutBack
  <2>3. Reported(j) \subseteq Outputs
    BY <1>6 DEF Reported
  <2> QED
    BY <2>2, <2>3, Zenon
<1>12. /\ ends' \in [Procs -> SUBSET Streams] /\ ends'[p] = PutBack(j)
       /\ \A q \in Procs : q # p => ends'[q] = ends[q]
  <2>1. ends \in [Procs -> SUBSET Streams]
    BY DEF ProcInv, ProcessType
  <2> HIDE DEF PutBack
  <2> QED
    BY <1>1, <1>11, <2>1
<1>13. /\ eof' \in [Procs -> SUBSET Outputs] /\ eof'[p] = eof[p] \cup Reported(j)
       /\ \A q \in Procs : q # p => eof'[q] = eof[q]
  <2>1. eof \in [Procs -> SUBSET Outputs]
    BY DEF ProcInv, ProcessType
  <2> QED
    BY <1>1, <1>11, <2>1
<1>14. ProcessType'
  BY <1>2, <1>10, <1>12, <1>13, Zenon DEF ProcInv, ProcessType
<1>15. \A q \in Procs : q # p => SameChild(q)
  BY <1>2, <1>10, <1>12, <1>13, Zenon DEF SameChild
<1> QED
  BY <1>2, <1>3, <1>10, <1>12, <1>13, <1>14, <1>15, Zenon DEF Given

(***************************************************************************)
(* The program is given the bytes of the job, and nothing else moves.      *)
(***************************************************************************)
LEMMA FinishedFlows ==
  ASSUME ProcInv, NEW f \in Fibers, NEW j \in Jobs, job[f] = j, NEW p \in Procs,
         Delivered(p, f), child' = child, pipe' = pipe, sent' = sent, NEW s \in Outputs,
         ~Carries(p, f, s) => got'[p][s] = got[p][s],
         Carries(p, f, s) => got'[p][s] = got[p][s] \o j.buf
  PROVE  Flows(p, s)'
<1>1. /\ f \in On(p) /\ On(p)' = On(p) \ {f}
      /\ \A g \in On(p) : g # f => job'[g] = job[g]
  BY Zenon DEF Delivered
<1>2. Out(p)' = Out(p) /\ Flows(p, s) /\ s \in Streams
  BY Zenon DEF Out, ProcInv, ChildOK, Streams
<1>3. \A g : Carries(p, g, s)' <=> Carries(p, g, s) /\ g # f
  BY <1>1, <1>2, Zenon DEF Carries
<1>4. \A g : Carries(p, g, s) /\ g # f => job'[g].buf = job[g].buf
  BY <1>1, Zenon DEF Carries
<1>5. CASE ~Carries(p, f, s)
  <2>1. \A g : Carries(p, g, s)' <=> Carries(p, g, s)
    BY <1>3, <1>5, Zenon
  <2>2. \A g : Carries(p, g, s) => job'[g].buf = job[g].buf
    BY <1>4, <1>5, Zenon
  <2> QED
    BY <1>2, <1>5, <2>1, <2>2, FlowsKept, Zenon
<1>6. CASE Carries(p, f, s)
  <2>1. PICK n \in Nat : Fetched(p, s, n) /\ Ahead(p, s, n)
    BY <1>2, Zenon DEF Flows
  <2>2. /\ \A g \in Fibers : Carries(p, g, s) => g = f
        /\ n = Len(got[p][s]) + Len(j.buf) /\ Follows(j.buf, Len(got[p][s]))
    BY <1>6, <2>1, Zenon DEF Fetched
  <2>3. got[p][s] \in Seq(Bytes) /\ j.buf \in Seq(Bytes) /\ Len(got[p][s]) \in Nat
    <3>1. got[p][s] \in Seq(Bytes)
      BY <1>2, ChildTypes, Zenon DEF ProcInv
    <3>2. j.buf \in Seq(Bytes)
      BY JobFields, Zenon
    <3> QED
      BY <3>1, <3>2, ByteSeq, Zenon
  <2>4. Follows(got[p][s], 0) /\ 0 + Len(got[p][s]) = Len(got[p][s]) /\ 0 \in Nat
    <3>1. Follows(got[p][s], 0)
      BY <1>2, Zenon DEF Flows
    <3> QED
      BY <2>3, <3>1, ZeroPlus, Zenon
  <2>5. /\ got[p][s] \o j.buf \in Seq(Bytes)
        /\ Len(got[p][s] \o j.buf) = Len(got[p][s]) + Len(j.buf)
        /\ Follows(got[p][s] \o j.buf, 0)
    <3>1. Follows(j.buf, 0 + Len(got[p][s]))
      BY <2>2, <2>4, Zenon
    <3> QED
      BY <2>3, <2>4, <3>1, FollowsConcat, Zenon
  <2>6. n = Len(got'[p][s]) /\ Follows(got'[p][s], 0)
    BY <1>6, <2>2, <2>5, Zenon
  <2>7. Fetched(p, s, n)'
    BY <1>3, <2>2, <2>6, Zenon DEF Fetched
  <2>8. Ahead(p, s, n)'
    BY <1>2, <2>1, Zenon DEF Ahead
  <2> QED
    BY <1>2, <2>6, <2>7, <2>8, Zenon DEF Flows
<1> QED
  BY <1>5, <1>6, Zenon

(***************************************************************************)
(* A stream that its one user gives back is in the registry again, unless  *)
(* its end was reported.                                                   *)
(***************************************************************************)
LEMMA FinishedExclusive ==
  ASSUME ProcInv, NEW f \in Fibers, NEW j \in Jobs, job[f] = j, NEW p \in Procs, j.proc = p,
         Delivered(p, f), child' = child, registered' = registered, closed' = closed,
         ends'[p] = PutBack(j), eof'[p] = eof[p] \cup Reported(j)
  PROVE  Exclusive(p)'
<1> SUFFICES ASSUME p \in registered, ~child[p].shared, NEW i \in Streams
             PROVE  /\ \A g, h \in Using(p, i)' : g = h
                    /\ Using(p, i)' = {} => (i \in ends'[p] <=> ~Ended(p, i)')
                    /\ \A g \in Using(p, i)' : i \in job'[g].holds => ~Ended(p, i)'
  BY Zenon DEF Exclusive
<1>1. /\ f \in On(p) /\ On(p)' = On(p) \ {f} /\ f \in Returned
      /\ \A g \in On(p) : g # f => job'[g] = job[g]
  BY Zenon DEF Delivered
<1>2. Exclusive(p) /\ ~Reaps(f) /\ JobShape(f)
  BY <1>1, Registered, Zenon DEF ChildOK
<1>3. j.op \in {"write", "read"}
  BY <1>2, JobFields, Zenon DEF Reaps
<1>4. /\ \A g, h \in Using(p, i) : g = h
      /\ Using(p, i) = {} => (i \in ends[p] <=> ~Ended(p, i))
      /\ \A g \in Using(p, i) : i \in job[g].holds => ~Ended(p, i)
  BY <1>2, Zenon DEF Exclusive
<1>5. /\ Using(p, i)' = Using(p, i) \ {f} /\ (f \in Using(p, i) <=> i = j.stream)
      /\ \A g \in Using(p, i) : g # f => job'[g] = job[g]
  BY <1>1, Zenon DEF Using
<1>6. Ended(p, i)' <=> Ended(p, i) \/ i \in Reported(j)
  BY Zenon DEF Ended
<1>7. ends'[p] = (ends[p] \ {j.stream}) \cup j.holds
  BY <1>3, Zenon DEF PutBack
<1>8. /\ j.holds \subseteq {j.stream}
      /\ Reported(j) = IF j.holds = {} THEN {j.stream} ELSE {}
  <2>1. CASE j.op = "write"
    <3>1. j.stream = "stdin" /\ j.holds = {"stdin"}
      BY <1>2, <2>1, Zenon DEF JobShape
    <3>2. Reported(j) = {}
      BY <2>1 DEF Reported
    <3> QED
      BY <3>1, <3>2, Zenon
  <2>2. CASE j.op = "read"
    <3>1. /\ j.holds \subseteq {j.stream}
          /\ IF j.err THEN j.holds # {} ELSE (j.buf = <<>> <=> j.holds = {})
      BY <1>1, <1>2, <2>2, Zenon DEF JobShape
    <3>2. Reported(j) = IF ~j.err /\ j.buf = <<>> THEN {j.stream} ELSE {}
      BY <2>2 DEF Reported
    <3> QED
      BY <3>1, <3>2, Zenon
  <2> QED
    BY <1>3, <2>1, <2>2, Zenon
<1>9. CASE i = j.stream
  <2>1. f \in Using(p, i) /\ Using(p, i)' = {}
    BY <1>4, <1>5, <1>9, Zenon
  <2>2. (i \in ends'[p] <=> i \in j.holds) /\ (i \in j.holds <=> j.holds # {})
    BY <1>7, <1>8, <1>9, Zenon
  <2>3. i \in Reported(j) <=> j.holds = {}
    BY <1>8, <1>9, Zenon
  <2>4. i \in j.holds => ~Ended(p, i)
    BY <1>4, <2>1, Zenon
  <2> QED
    BY <1>6, <2>1, <2>2, <2>3, <2>4, Zenon
<1>10. CASE i # j.stream
  <2>1. Using(p, i)' = Using(p, i) /\ f \notin Using(p, i)
    BY <1>5, <1>10, Zenon
  <2>2. i \notin j.holds /\ i \notin Reported(j)
    BY <1>8, <1>10, Zenon
  <2>3. (i \in ends'[p] <=> i \in ends[p]) /\ (Ended(p, i)' <=> Ended(p, i))
    BY <1>6, <1>7, <1>10, <2>2, Zenon
  <2>4. \A g \in Using(p, i) : job'[g] = job[g]
    BY <1>5, <2>1, Zenon
  <2>5. \A g, h \in Using(p, i)' : g = h
    BY <1>4, <2>1, Zenon
  <2>6. Using(p, i)' = {} => (i \in ends'[p] <=> ~Ended(p, i)')
    BY <1>4, <2>1, <2>3, Zenon
  <2>7. \A g \in Using(p, i)' : i \in job'[g].holds => ~Ended(p, i)'
    BY <1>4, <2>1, <2>3, <2>4, Zenon
  <2> QED
    BY <2>5, <2>6, <2>7, Zenon
<1> QED
  BY <1>9, <1>10, Zenon

(***************************************************************************)
(* A builder puts the stream back and hands over the bytes.                *)
(***************************************************************************)
LEMMA FinishedInv ==
  ASSUME ProcInv, NEW f \in Fibers, Finished(f)
  PROVE  ProcInv'
<1>1. f \in Busy
  BY DeliverPlaced, Zenon DEF Finished, ProcInv
<1>2. PICK j \in Jobs : job[f] = j
  BY <1>1 DEF ProcInv, Placed, Busy
<1>3. PICK p \in Procs : j.proc = p
  BY JobFields, Zenon
<1>4. /\ Placed(Jobs)' /\ Delivered(p, f) /\ ProcessType'
      /\ \A q : q # p => SameJobs(q)
      /\ \A q \in Procs : q # p => SameChild(q)
      /\ child' = child /\ pipe' = pipe /\ sent' = sent /\ registered' = registered
      /\ closed' = closed
      /\ ends'[p] = PutBack(j) /\ eof'[p] = eof[p] \cup Reported(j)
      /\ \A s \in Streams : ~Carries(p, f, s) => got'[p][s] = got[p][s]
      /\ \A s \in Streams : Carries(p, f, s) => got'[p][s] = got[p][s] \o j.buf
  <2>1. Given(p, f, j)
    BY <1>2, <1>3, FinishedChanges, Zenon
  <2> QED
    BY <2>1, Zenon DEF Given
<1>5. /\ f \in On(p) /\ On(p)' = On(p) \ {f} /\ f \in Returned
      /\ \A g \in On(p) : g # f => job'[g] = job[g] /\ (g \in Returned' <=> g \in Returned)
  BY <1>4, Zenon DEF Delivered
<1>6. /\ ChildOK(p) /\ Untouched(p) /\ OneHolder(p) /\ Owned(p) /\ AtEnd(p) /\ JobShape(f)
      /\ Outputs \subseteq Streams
  BY <1>5 DEF ProcInv, ChildOK, Streams
<1>7. \A s \in Outputs : Flows(p, s)'
  BY <1>2, <1>4, <1>6, FinishedFlows, Zenon
<1>8. Untouched(p)'
  <2> SUFFICES ASSUME child[p].state = "unborn" PROVE Untouched(p)'
    BY <1>4, Zenon DEF Untouched
  <2>1. j.err /\ j.buf = <<>>
    BY <1>2, <1>5, <1>6, Zenon DEF Untouched
  <2>2. eof'[p] = eof[p] /\ \A s \in Streams : got'[p][s] = got[p][s]
    <3>1. \A s : ~Carries(p, f, s)
      BY <1>2, <2>1, Zenon DEF Carries
    <3>2. Reported(j) = {}
      BY <2>1, Zenon DEF Reported
    <3> QED
      BY <1>4, <3>1, <3>2, Zenon
  <2>3. ASSUME NEW g \in On(p)'
        PROVE  /\ job'[g].op \in {"run", "exec"} /\ (g \in Returned' => job'[g].err)
               /\ job'[g].buf = <<>> /\ job'[g].holds = {}
    BY <1>5, <1>6, <2>3, Zenon DEF Untouched
  <2> QED
    BY <1>4, <1>6, <2>2, <2>3, Zenon DEF Untouched
<1>9. OneHolder(p)'
  <2>1. ends'[p] \subseteq ends[p] \cup j.holds /\ (p \notin registered => ends'[p] = {})
    BY <1>3, <1>4, <1>6, Zenon DEF PutBack, OneHolder
  <2>2. ASSUME NEW g \in On(p)', NEW s \in job'[g].holds
        PROVE  s \notin ends'[p] /\ \A h \in On(p)' : s \in job'[h].holds => h = g
    <3>1. g \in On(p) /\ g # f /\ s \in job[g].holds
      BY <1>5, <2>2, Zenon
    <3>2. s \notin ends[p] /\ \A h \in On(p) : s \in job[h].holds => h = g
      BY <1>6, <3>1, Zenon DEF OneHolder
    <3>3. s \notin j.holds
      BY <1>2, <1>5, <3>1, <3>2, Zenon
    <3>4. \A h \in On(p)' : h \in On(p) /\ job'[h] = job[h]
      BY <1>5, Zenon
    <3> QED
      BY <2>1, <3>2, <3>3, <3>4, Zenon
  <2> QED
    BY <1>4, <2>1, <2>2, Zenon DEF OneHolder
<1>10. Owned(p)'
  <2>1. \A g \in On(p)' : /\ g \in On(p) /\ g # f /\ job'[g] = job[g] /\ (Reaps(g)' <=> Reaps(g))
                          /\ (g \in Returned' <=> g \in Returned)
    BY <1>5, Zenon DEF Reaps
  <2>2. child[p].state \in {"running", "exited"} /\ ~child[p].lost => ~Reaps(f)
    <3>1. Reaps(f) => child[p].state \in {"reaped", "unborn"} \/ child[p].lost
      BY <1>5, <1>6, Zenon DEF Owned
    <3> QED
      BY <3>1
  <2>3. ASSUME NEW g \in Fibers, SoleReaper(p, g), child[p].state \in {"running", "exited"},
               ~child[p].lost
        PROVE  SoleReaper(p, g)'
    <3>1. g # f /\ g \in On(p)'
      BY <1>5, <2>2, <2>3, Zenon DEF SoleReaper
    <3> QED
      BY <2>1, <2>3, <3>1, Zenon DEF SoleReaper
  <2> QED
    BY <1>4, <1>6, <2>1, <2>3, Zenon DEF Owned
<1>11. AtEnd(p)'
  <2>1. \A s : Drained(p, s)' <=> Drained(p, s)
    BY <1>4, Zenon DEF Drained
  <2>2. ~child[p].shared => \A s \in Reported(j) : Drained(p, s)
    <3> SUFFICES ASSUME ~child[p].shared, NEW s \in Reported(j) PROVE Drained(p, s)
      OBVIOUS
    <3>1. JobAtEnd(p, f)
      BY <1>5, <1>6, Zenon DEF AtEnd
    <3>2. CASE j.op = "run"
      <4>1. s \in Outputs /\ ~j.err
        BY <3>2 DEF Reported
      <4> QED
        BY <1>2, <1>5, <3>1, <3>2, <4>1, Zenon DEF JobAtEnd
    <3>3. CASE j.op # "run"
      <4>1. j.op = "read" /\ j.buf = <<>> /\ s = j.stream /\ ~j.err
        BY <3>3 DEF Reported
      <4>2. j.holds = {}
        BY <1>2, <1>5, <1>6, <4>1, Zenon DEF JobShape
      <4> QED
        BY <1>2, <3>1, <4>1, <4>2, Zenon DEF JobAtEnd
    <3> QED
      BY <3>2, <3>3, Zenon
  <2>3. ASSUME NEW g \in On(p)' PROVE JobAtEnd(p, g)'
    <3>1. g \in On(p) /\ job'[g] = job[g] /\ (g \in Returned' <=> g \in Returned)
      BY <1>5, <2>3, Zenon
    <3>2. JobAtEnd(p, g)
      BY <1>6, <3>1, Zenon DEF AtEnd
    <3> QED
      BY <1>4, <2>1, <3>1, <3>2, Zenon DEF JobAtEnd
  <2> QED
    BY <1>4, <1>6, <2>1, <2>2, <2>3, Zenon DEF AtEnd
<1>12. Exclusive(p)'
  BY <1>2, <1>3, <1>4, FinishedExclusive, Zenon
<1>13. \A g \in On(p)' : JobShape(g)'
  <2> SUFFICES ASSUME NEW g \in On(p), g # f PROVE JobShape(g)'
    BY <1>5, Zenon
  <2>1. JobShape(g) /\ job'[g] = job[g] /\ (g \in Returned' <=> g \in Returned)
    BY <1>5, <1>6, Zenon DEF ChildOK
  <2> QED
    BY <1>4, <2>1, ShapeKept, Zenon
<1>14. ChildOK(p)'
  BY <1>7, <1>8, <1>9, <1>10, <1>11, <1>12, <1>13, Zenon DEF ChildOK
<1> QED
  BY <1>4, <1>14, OneChild, Zenon

-----------------------------------------------------------------------------
(* Every step.                                                             *)

(***************************************************************************)
(* A worker that takes a job or sends a completion changes nothing of it.  *)
(***************************************************************************)
LEMMA PoolInv ==
  ASSUME ProcInv, PoolTake \/ \E f \in Fibers : PoolSend(f)
  PROVE  ProcInv'
<1>1. UNCHANGED <<regVars, osVars, seenVars>>
  BY DEF PoolTake, PoolSend
<1>2. /\ child' = child /\ pipe' = pipe /\ sent' = sent /\ registered' = registered
      /\ ends' = ends /\ got' = got /\ eof' = eof /\ closed' = closed
  BY <1>1 DEF regVars, osVars, seenVars
<1>3. Placed(Jobs)' /\ Busy' = Busy /\ Returned' = Returned /\ job' = job
  <2>1. CASE PoolTake
    <3>1. WorkerTake /\ job' = job
      BY <2>1 DEF PoolTake, WorkerTake
    <3> QED
      BY <3>1, TakePlaced, Zenon DEF ProcInv
  <2>2. ASSUME NEW f \in Fibers, PoolSend(f)
        PROVE  Placed(Jobs)' /\ Busy' = Busy /\ Returned' = Returned /\ job' = job
    <3>1. WorkerSend(f) /\ job' = job
      BY <2>2 DEF PoolSend, WorkerSend
    <3> QED
      BY <3>1, SendPlaced, Zenon DEF ProcInv
  <2> QED
    BY <2>1, <2>2, Zenon
<1>4. \A q \in Procs : SameJobs(q)
  BY <1>3, Zenon DEF SameJobs, On
<1>5. \A q \in Procs : SameChild(q)
  BY <1>2, Zenon DEF SameChild
<1>6. ProcessType'
  BY <1>2, Zenon DEF ProcInv, ProcessType
<1>7. \A q \in Procs : ChildOK(q)'
  BY <1>4, <1>5, Elsewhere, Zenon DEF ProcInv
<1> QED
  BY <1>3, <1>6, <1>7, Zenon DEF ProcInv

(***************************************************************************)
(* A step that changes nothing.                                            *)
(***************************************************************************)
LEMMA StutterInv ==
  ASSUME ProcInv, UNCHANGED vars
  PROVE  ProcInv'
<1>1. /\ child' = child /\ pipe' = pipe /\ sent' = sent /\ registered' = registered
      /\ ends' = ends /\ got' = got /\ eof' = eof /\ closed' = closed
      /\ UNCHANGED offloadVars
  BY DEF vars, regVars, osVars, seenVars
<1>2. Placed(Jobs)' /\ \A q : SameJobs(q)
  BY <1>1, NoJobs, Zenon DEF ProcInv
<1>3. ProcessType' /\ \A q \in Procs : SameChild(q)
  BY <1>1, Zenon DEF ProcInv, ProcessType, SameChild
<1>4. \A q \in Procs : ChildOK(q)'
  BY <1>2, <1>3, Elsewhere, Zenon DEF ProcInv
<1> QED
  BY <1>2, <1>3, <1>4, Zenon DEF ProcInv

(***************************************************************************)
(* At the start there is no child.                                         *)
(***************************************************************************)
LEMMA InitInv == Init => ProcInv
<1> SUFFICES ASSUME Init PROVE ProcInv
  OBVIOUS
<1>1. /\ OffloadInit /\ registered = {} /\ ends = [p \in Procs |-> {}]
      /\ child = [p \in Procs |-> Unborn]
      /\ pipe = [p \in Procs |-> [s \in Streams |-> <<>>]]
      /\ sent = [p \in Procs |-> 0]
      /\ got = [p \in Procs |-> [s \in Streams |-> <<>>]]
      /\ eof = [p \in Procs |-> {}]
      /\ closed = {}
  BY DEF Init
<1>2. Placed(Jobs) /\ Busy = {}
  BY <1>1, ProcessAssumption, InitPlaced, Zenon
<1>3. Unborn \in Children /\ <<>> \in Seq(Bytes) /\ 0 \in 0 .. MaxBytes
  BY ByteSeq DEF Unborn, Children
<1>4. ProcessType
  <2>1. child \in [Procs -> Children] /\ registered \subseteq Procs /\ closed \subseteq Procs
    BY <1>1, <1>3, Zenon
  <2>2. /\ pipe \in [Procs -> [Streams -> Seq(Bytes)]]
        /\ got \in [Procs -> [Streams -> Seq(Bytes)]]
    BY <1>1, <1>3, Zenon
  <2>3. ends \in [Procs -> SUBSET Streams] /\ eof \in [Procs -> SUBSET Outputs]
    BY <1>1, Zenon
  <2>4. sent \in [Procs -> 0 .. MaxBytes]
    BY <1>1, <1>3, Zenon
  <2> QED
    BY <2>1, <2>2, <2>3, <2>4, Zenon DEF ProcessType
<1>5. ASSUME NEW p \in Procs PROVE ChildOK(p)
  <2>1. /\ On(p) = {} /\ child[p] = Unborn /\ ends[p] = {} /\ eof[p] = {} /\ sent[p] = 0
        /\ \A s \in Streams : pipe[p][s] = <<>> /\ got[p][s] = <<>>
    BY <1>1, <1>2 DEF On
  <2>2. /\ child[p].state = "unborn" /\ child[p].todo = <<>> /\ child[p].program = "none"
        /\ child[p].program # "filter"
    BY <2>1 DEF Unborn
  <2>3. Untouched(p)
    BY <1>1, <2>1, Zenon DEF Untouched
  <2>4. OneHolder(p) /\ Owned(p)
    BY <1>1, <2>1, <2>2, Zenon DEF OneHolder, Owned
  <2>5. AtEnd(p) /\ Exclusive(p)
    BY <1>1, <2>1, Zenon DEF AtEnd, Exclusive
  <2>6. ASSUME NEW s \in Outputs PROVE Flows(p, s)
    <3>1. pipe[p][s] = <<>> /\ got[p][s] = <<>>
      BY <2>1, Zenon DEF Streams
    <3>2. Follows(<<>>, 0) /\ Len(<<>>) = 0 /\ 0 + Len(<<>>) = 0
      BY DEF Follows
    <3>3. Fetched(p, s, 0)
      BY <2>1, <3>1, <3>2, Zenon DEF Fetched, Carries
    <3>4. Ahead(p, s, 0)
      BY <2>2, <3>1, <3>2, Zenon DEF Ahead
    <3> QED
      BY <3>1, <3>2, <3>3, <3>4 DEF Flows
  <2> QED
    BY <2>1, <2>3, <2>4, <2>5, <2>6, Zenon DEF ChildOK
<1> QED
  BY <1>2, <1>4, <1>5, Zenon DEF ProcInv

(***************************************************************************)
(* The invariant is inductive.                                             *)
(***************************************************************************)
LEMMA NextInv == ProcInv /\ [Next]_vars => ProcInv'
<1> SUFFICES ASSUME ProcInv, [Next]_vars PROVE ProcInv'
  OBVIOUS
<1>1. ASSUME NEW f \in Fibers, NEW p \in Procs, Native(f, p) PROVE ProcInv'
  <2>1. CASE ProcessStart(f, p) \/ ProcessWait(f, p) \/ ProcessKill(f, p) \/ ProcessStdinClose(f, p)
    BY <2>1, StartInv, WaitInv, KillInv, CloseInv, Zenon
  <2>2. CASE \E op \in {"run", "exec"} : ProcessRun(f, p, op)
    BY <2>2, RunInv, Zenon
  <2>3. CASE \E n \in WriteSizes : ProcessStdinWrite(f, p, n)
    BY <2>3, StdinWriteInv, Zenon
  <2>4. CASE \E s \in Outputs, max \in ReadSizes : ProcessRead(f, p, s, max)
    BY <2>4, ReadInv, Zenon
  <2> QED
    BY <1>1, <2>1, <2>2, <2>3, <2>4, Zenon DEF Native
<1>2. ASSUME NEW f \in Fibers, Worker(f) PROVE ProcInv'
  <2>1. CASE ReadPipeOwned(f)
    BY <2>1, ReadNoneInv, ReadSomeInv, Zenon
  <2>2. CASE WriteJob(f) \/ WaitJob(f) \/ RunWait(f)
    BY <2>2, WriteJobInv, WaitJobInv, Zenon
  <2>3. CASE RunSpawn(f) \/ RunDrain(f)
    BY <2>3, RunSpawnInv, RunDrainInv, Zenon
  <2> QED
    BY <1>2, <2>1, <2>2, <2>3, Zenon DEF Worker
<1>8. ASSUME NEW f \in Fibers, WorkerErr(f) PROVE ProcInv'
  BY <1>8, ReadErrInv, FailedInv, Zenon DEF WorkerErr
<1>3. ASSUME NEW f \in Fibers, Finished(f) PROVE ProcInv'
  BY <1>3, FinishedInv, Zenon
<1>4. ASSUME NEW p \in Procs, Child(p) PROVE ProcInv'
  BY <1>4, ChildReadInv, ChildWriteInv, ChildEnds, Zenon DEF Child
<1>5. CASE PoolTake \/ \E f \in Fibers : PoolSend(f)
  BY <1>5, PoolInv, Zenon
<1>6. CASE UNCHANGED vars
  BY <1>6, StutterInv, Zenon
<1>7. CASE Next
  BY <1>1, <1>2, <1>3, <1>4, <1>5, <1>7, <1>8, Zenon DEF Next
<1> QED
  BY <1>6, <1>7, Zenon

(***************************************************************************)
(* The invariant holds in every reachable state.                           *)
(***************************************************************************)
THEOREM ProcessInvariance == Spec => []ProcInv
  BY InitInv, NextInv, PTL DEF Spec

(***************************************************************************)
(* Whichever fibers read a child's output, and whichever jobs of theirs    *)
(* run at once, the program gets the bytes once each and in the order the  *)
(* child wrote them; with one fiber per stream, an empty read is the end   *)
(* of the output (park_pipe_read, read_pipe_owned in natives.rs).          *)
(***************************************************************************)
THEOREM OutputIsExact == Spec => []OutputExact
<1>1. ProcInv => OutputExact
  <2> SUFFICES ASSUME ProcInv, NEW p \in Procs
               PROVE  /\ \A s \in Outputs : got[p][s] = [i \in DOMAIN got[p][s] |-> i]
                      /\ ~child[p].shared => \A s \in eof[p] : Drained(p, s)
    BY Zenon DEF OutputExact
  <2>1. ASSUME NEW s \in Outputs PROVE got[p][s] = [i \in DOMAIN got[p][s] |-> i]
    <3>1. got[p][s] \in Seq(Bytes) /\ Follows(got[p][s], 0)
      BY ChildTypes, Zenon DEF ProcInv, ChildOK, Flows, Streams
    <3>2. /\ Len(got[p][s]) \in Nat /\ DOMAIN got[p][s] = 1 .. Len(got[p][s])
          /\ got[p][s] \in [1 .. Len(got[p][s]) -> Bytes]
      BY <3>1
    <3>3. \A i \in DOMAIN got[p][s] : got[p][s][i] = i
      BY <3>1, <3>2 DEF Follows
    <3> QED
      BY <3>2, <3>3
  <2>2. ~child[p].shared => \A s \in eof[p] : Drained(p, s)
    BY Zenon DEF ProcInv, ChildOK, AtEnd
  <2> QED
    BY <2>1, <2>2, Zenon
<1> QED
  BY <1>1, ProcessInvariance, PTL

(***************************************************************************)
(* Taking a stream out of the registry for a job neither loses it nor      *)
(* revives it: with one fiber per stream, a stream that no job uses is     *)
(* there exactly until it is closed or at its end (the builders of         *)
(* process_stdin_write and park_pipe_read in natives.rs).                  *)
(***************************************************************************)
THEOREM StreamsAreExact == Spec => []StreamsExact
<1>1. ProcInv => StreamsExact
  <2> SUFFICES ASSUME ProcInv, NEW p \in registered, NEW s \in Streams,
                      ~child[p].shared, Using(p, s) = {}
               PROVE  s \in ends[p] <=> ~(s \in eof[p] \/ (s = "stdin" /\ p \in closed))
    BY Zenon DEF StreamsExact
  <2>1. p \in Procs
    BY Zenon DEF ProcInv, ProcessType
  <2>2. Exclusive(p)
    BY <2>1, Zenon DEF ProcInv, ChildOK
  <2> QED
    BY <2>2, Zenon DEF Exclusive, Ended
<1> QED
  BY <1>1, ProcessInvariance, PTL

-----------------------------------------------------------------------------
(* What is counted, last.                                                  *)

INSTANCE FiniteSetTheorems

(***************************************************************************)
(* Until it is reaped, a child has one owner that will reap it: the        *)
(* registry, or one job.  process_wait and process_kill in natives.rs take *)
(* it out of the registry before they reap it, so if they fail it has none *)
(* and never again has one.                                                *)
(***************************************************************************)
THEOREM OneOwnerReaps == Spec => []OneOwner
<1>1. ProcInv => OneOwner
  <2> SUFFICES ASSUME ProcInv, NEW p \in Procs, child[p].state \in {"running", "exited"}
               PROVE  LET reapers == {f \in On(p) : job[f].op \in {"wait", "run", "exec"} /\ ~job[f].err}
                      IN IF p \in registered THEN reapers = {} /\ ~child[p].lost
                         ELSE Cardinality(reapers) = IF child[p].lost THEN 0 ELSE 1
    BY Zenon DEF OneOwner
  <2> DEFINE reapers == {f \in On(p) : job[f].op \in {"wait", "run", "exec"} /\ ~job[f].err}
  <2>1. Owned(p) /\ child[p].state # "unborn"
    BY DEF ProcInv, ChildOK
  <2>2. reapers = {f \in On(p) : Reaps(f) /\ ~job[f].err}
    BY Zenon DEF Reaps
  <2> HIDE DEF reapers
  <2>3. CASE p \in registered
    <3>1. reapers = {} /\ ~child[p].lost
      BY <2>1, <2>2, <2>3, Zenon DEF Owned
    <3> QED
      BY <2>3, <3>1, Zenon DEF reapers
  <2>4. CASE p \notin registered /\ child[p].lost
    <3>1. reapers = {}
      BY <2>1, <2>2, <2>4, Zenon DEF Owned
    <3> QED
      BY <2>4, <3>1, FS_EmptySet, Zenon DEF reapers
  <2>5. CASE p \notin registered /\ ~child[p].lost
    <3>1. PICK f \in Fibers : SoleReaper(p, f)
      BY <2>1, <2>5, Zenon DEF Owned
    <3>2. ~job[f].err
      BY <2>1, <2>5, <3>1, Zenon DEF Owned, SoleReaper
    <3>3. reapers = {f}
      BY <2>2, <3>1, <3>2, Zenon DEF SoleReaper
    <3> QED
      BY <2>5, <3>3, FS_Singleton, Zenon DEF reapers
  <2> QED
    BY <2>3, <2>4, <2>5, Zenon
<1> QED
  BY <1>1, ProcessInvariance, PTL

(***************************************************************************)
(* The facts about cardinalities that the pool's bound rests on hold.      *)
(***************************************************************************)
LEMMA CountingHolds == Counting
  BY FS_EmptySet, FS_CardinalityType, FS_Subset, FS_AddElement, Zenon DEF Counting

(***************************************************************************)
(* Every action takes one step of the pool, or leaves it alone.            *)
(***************************************************************************)
LEMMA PoolSteps == [Next]_vars => PoolStep
<1> SUFFICES ASSUME [Next]_vars PROVE PoolStep
  OBVIOUS
<1>1. ASSUME NEW f \in Fibers, NEW p \in Procs, Native(f, p) PROVE PoolStep
  <2>1. CASE ProcessStart(f, p) \/ ProcessWait(f, p) \/ ProcessKill(f, p) \/ ProcessStdinClose(f, p)
    BY <2>1, Zenon DEF ProcessStart, ProcessWait, ProcessKill, ProcessStdinClose, PoolStep
  <2>2. CASE \E op \in {"run", "exec"} : ProcessRun(f, p, op)
    BY <2>2, Zenon DEF ProcessRun, PoolStep
  <2>3. CASE \E n \in WriteSizes : ProcessStdinWrite(f, p, n)
    BY <2>3, Zenon DEF ProcessStdinWrite, PoolStep
  <2>4. CASE \E s \in Outputs, max \in ReadSizes : ProcessRead(f, p, s, max)
    BY <2>4, Zenon DEF ProcessRead, PoolStep
  <2> QED
    BY <1>1, <2>1, <2>2, <2>3, <2>4, Zenon DEF Native
<1>2. ASSUME NEW f \in Fibers, Worker(f) PROVE PoolStep
  <2>1. CASE ReadPipeOwned(f)
    BY <2>1, Zenon DEF ReadPipeOwned, PoolStep
  <2>2. CASE WriteJob(f) \/ WaitJob(f) \/ RunWait(f)
    BY <2>2, Zenon DEF WriteJob, WaitJob, RunWait, PoolStep
  <2>3. CASE RunSpawn(f) \/ RunDrain(f)
    BY <2>3, Zenon DEF RunSpawn, RunDrain, PoolStep
  <2> QED
    BY <1>2, <2>1, <2>2, <2>3, Zenon DEF Worker
<1>7. ASSUME NEW f \in Fibers, WorkerErr(f) PROVE PoolStep
  BY <1>7, Zenon DEF WorkerErr, ReadErr, WaitErr, SpawnErr, PoolStep
<1>3. ASSUME NEW f \in Fibers, Finished(f) \/ PoolSend(f) PROVE PoolStep
  BY <1>3, Zenon DEF Finished, PoolSend, PoolStep
<1>4. ASSUME NEW p \in Procs, Child(p) PROVE PoolStep
  BY <1>4, Zenon DEF Child, ChildRead, ChildWrite, ChildBrokenPipe, ChildExit, PoolStep
<1>5. CASE PoolTake
  BY <1>5, Zenon DEF PoolTake, PoolStep
<1>6. CASE UNCHANGED vars
  BY <1>6, Zenon DEF vars, PoolStep
<1> QED
  BY <1>1, <1>2, <1>3, <1>4, <1>5, <1>6, <1>7, Zenon DEF Next

(***************************************************************************)
(* Type correctness: an unregistered child has no pipe end in the          *)
(* registry, no more jobs run than there are workers, and a read returns   *)
(* no more than it was asked for (read_pipe_owned in natives.rs).          *)
(***************************************************************************)
THEOREM ProcessTyped == Spec => []TypeOK
<1> DEFINE Bounded == Cardinality(OnWorker) =< WORKER_COUNT
<1>1. Init => Bounded
  BY NoneRuns, CountingHolds, Zenon DEF Init
<1>2. ProcInv /\ Bounded /\ [Next]_vars => Bounded'
  BY WorkersBounded, CountingHolds, PoolSteps, Zenon DEF ProcInv
<1>3. ProcInv /\ Bounded => TypeOK
  <2> SUFFICES ASSUME ProcInv, Bounded PROVE TypeOK
    OBVIOUS
  <2>1. OffloadTypeOK /\ job \in [Fibers -> Jobs \cup {Idle}]
    BY PlacedTyped, Zenon DEF ProcInv, Placed
  <2>2. \A p \in Procs : p \notin registered => ends[p] = {}
    BY Zenon DEF ProcInv, ChildOK, OneHolder
  <2>3. ASSUME NEW f \in Busy, job[f].op = "read" PROVE Len(job[f].buf) =< Clamped(job[f].n)
    <3>1. PICK j \in Jobs : job[f] = j
      BY DEF ProcInv, Placed, Busy
    <3>2. j.proc \in Procs /\ f \in On(j.proc)
      BY <3>1, JobFields, Zenon DEF On
    <3>3. JobShape(f)
      BY <3>2, Zenon DEF ProcInv, ChildOK
    <3> QED
      BY <2>3, <3>3, Zenon DEF JobShape
  <2> QED
    BY <2>1, <2>2, <2>3, Zenon DEF TypeOK, ProcInv, ProcessType, Children
<1> HIDE DEF Bounded
<1> QED
  BY <1>1, <1>2, <1>3, ProcessInvariance, PTL DEF Spec
=============================================================================
