----------------------------- MODULE FilesProofs -----------------------------
(***************************************************************************)
(* A file handle stands for its file until it is closed and never after,   *)
(* for any number of fibers, workers and files.                            *)
(***************************************************************************)
EXTENDS Files, OffloadProofs

(* The registry: where a file is.                                           *)

RegistryType ==
  /\ NEXT_FILE_ID \in 1 .. MaxFiles + 1 /\ opened \in 0 .. MaxFiles
  /\ file_registry \in [Handle -> File \cup {None}]
  /\ given \in [Handle -> File \cup {None}]
  /\ closed \subseteq Handle

\* The fiber has the file of handle h out for a job.
Borrows(f, h) == f \in Busy /\ job[f].handle = h /\ job[f].file # None

\* A handle is in use only once it was handed out; the file it stands for is in
\* the registry or with a job, until it is closed.
HandleKept(h) ==
  /\ file_registry[h] # None => h < NEXT_FILE_ID
  /\ given[h] # None => h < NEXT_FILE_ID
  /\ h \in closed => given[h] # None /\ file_registry[h] = None
  /\ given[h] # None /\ h \notin closed =>
       \/ file_registry[h] = given[h]
       \/ file_registry[h] = None /\ \E f \in Busy : Borrows(f, h)

\* A job owns what its native or its syscall gave it: an open has the new file
\* once it has returned, a temp file is then registered under a handle nobody
\* was told, and a use has the file of its handle.
JobOwns(f) ==
  LET j == job[f] IN
  /\ j.op \in {"open", "temp"} /\ f \notin Returned => j.handle = None /\ j.file = None
  /\ j.op = "open" /\ f \in Returned => j.handle = None /\ j.file # None
  /\ j.op = "temp" /\ f \in Returned =>
       /\ j.handle # None /\ j.handle < NEXT_FILE_ID /\ j.file = None
       /\ file_registry[j.handle] # None /\ given[j.handle] = None
  /\ j.op = "use" => j.handle # None /\ j.file # None
  /\ j.op = "failed" => (j.handle = None <=> j.file = None)
  /\ j.handle # None /\ j.file # None =>
       /\ given[j.handle] = j.file /\ file_registry[j.handle] = None
       /\ j.handle \notin closed

\* No two jobs are about the same handle.
Alone == \A f, g \in Busy : job[f].handle # None /\ job[f].handle = job[g].handle => f = g

FilesInv ==
  /\ Placed(Jobs) /\ RegistryType
  /\ \A h \in Handle : HandleKept(h)
  /\ \A f \in Busy : JobOwns(f)
  /\ Alone

(***************************************************************************)
(* The fields of a job, and of what its native makes it.                   *)
(***************************************************************************)
LEMMA JobFields ==
  /\ \A f \in Busy : Placed(Jobs) => f \in Fibers /\ job[f] \in Jobs
  /\ \A op \in {"open", "temp", "use", "failed"}, h \in Handle \cup {None},
        x \in File \cup {None} :
       /\ Job(op, h, x) \in Jobs
       /\ Job(op, h, x).op = op /\ Job(op, h, x).handle = h /\ Job(op, h, x).file = x
  /\ \A j \in Jobs : /\ j.op \in {"open", "temp", "use", "failed"}
                     /\ j.handle \in Handle \cup {None} /\ j.file \in File \cup {None}
                     /\ j = Job(j.op, j.handle, j.file)
<1>1. \A f \in Busy : Placed(Jobs) => f \in Fibers /\ job[f] \in Jobs
  BY DEF Busy, Placed
<1>2. \A op \in {"open", "temp", "use", "failed"}, h \in Handle \cup {None},
        x \in File \cup {None} :
        /\ Job(op, h, x) \in Jobs
        /\ Job(op, h, x).op = op /\ Job(op, h, x).handle = h /\ Job(op, h, x).file = x
  BY DEF Job, Jobs
<1>3. \A j \in Jobs : /\ j.op \in {"open", "temp", "use", "failed"}
                      /\ j.handle \in Handle \cup {None} /\ j.file \in File \cup {None}
                      /\ j = Job(j.op, j.handle, j.file)
  BY DEF Job, Jobs
<1> QED
  BY <1>1, <1>2, <1>3

(***************************************************************************)
(* A job keeps what it owns through a step that touches neither the job    *)
(* nor its handle.                                                         *)
(***************************************************************************)
LEMMA OwnsKept ==
  ASSUME NEW g, JobOwns(g), job'[g] = job[g], g \in Returned' <=> g \in Returned,
         NEXT_FILE_ID \in Nat, NEXT_FILE_ID' \in Nat, NEXT_FILE_ID =< NEXT_FILE_ID',
         job[g].handle \in Nat,
         job[g].handle # None =>
           /\ file_registry'[job[g].handle] = file_registry[job[g].handle]
           /\ given'[job[g].handle] = given[job[g].handle]
           /\ (job[g].handle \in closed' => job[g].handle \in closed)
  PROVE  JobOwns(g)'
<1> DEFINE j == job[g]
<1>1. job'[g] = j
  OBVIOUS
<1>2. j.handle < NEXT_FILE_ID => j.handle < NEXT_FILE_ID'
  OBVIOUS
<1> HIDE DEF j
<1>3. /\ j.op \in {"open", "temp"} /\ g \notin Returned => j.handle = None /\ j.file = None
      /\ j.op = "open" /\ g \in Returned => j.handle = None /\ j.file # None
      /\ j.op = "temp" /\ g \in Returned =>
           /\ j.handle # None /\ j.handle < NEXT_FILE_ID /\ j.file = None
           /\ file_registry[j.handle] # None /\ given[j.handle] = None
      /\ j.op = "use" => j.handle # None /\ j.file # None
      /\ j.op = "failed" => (j.handle = None <=> j.file = None)
      /\ j.handle # None /\ j.file # None =>
           /\ given[j.handle] = j.file /\ file_registry[j.handle] = None
           /\ j.handle \notin closed
  BY Zenon DEF JobOwns, j
<1>4. j.handle # None =>
        /\ file_registry'[j.handle] = file_registry[j.handle]
        /\ given'[j.handle] = given[j.handle]
        /\ (j.handle \in closed' => j.handle \in closed)
  BY Zenon DEF j
<1>5. ASSUME j.op = "temp", g \in Returned'
      PROVE  /\ j.handle # None /\ j.handle < NEXT_FILE_ID' /\ j.file = None
             /\ file_registry'[j.handle] # None /\ given'[j.handle] = None
  BY <1>2, <1>3, <1>4, <1>5, Zenon
<1>6. ASSUME j.handle # None, j.file # None
      PROVE  /\ given'[j.handle] = j.file /\ file_registry'[j.handle] = None
             /\ j.handle \notin closed'
  BY <1>3, <1>4, <1>6, Zenon
<1> QED
  BY <1>1, <1>3, <1>5, <1>6, Zenon DEF JobOwns

(***************************************************************************)
(* A handle is kept through a step that touches neither its entry nor the  *)
(* job that has its file.                                                  *)
(***************************************************************************)
LEMMA HandleSame ==
  ASSUME NEW h \in Handle, HandleKept(h), Placed(Jobs),
         NEXT_FILE_ID \in Nat, NEXT_FILE_ID' \in Nat, NEXT_FILE_ID =< NEXT_FILE_ID',
         file_registry'[h] = file_registry[h], given'[h] = given[h],
         h \in closed' <=> h \in closed,
         \A f \in Busy : Borrows(f, h) => f \in Busy' /\ Borrows(f, h)'
  PROVE  HandleKept(h)'
<1>1. h < NEXT_FILE_ID => h < NEXT_FILE_ID'
  BY DEF Handle
<1>2. (\E f \in Busy : Borrows(f, h)) => (\E f \in Busy : Borrows(f, h))'
  BY Zenon
<1> QED
  BY <1>1, <1>2, Zenon DEF HandleKept

(***************************************************************************)
(* The invariant holds before anything is opened.                          *)
(***************************************************************************)
LEMMA InitFiles == Init => FilesInv
<1> SUFFICES ASSUME Init PROVE FilesInv
  OBVIOUS
<1>1. /\ OffloadInit
      /\ file_registry = [h \in Handle |-> None] /\ NEXT_FILE_ID = 1 /\ opened = 0
      /\ given = [h \in Handle |-> None] /\ closed = {}
  BY DEF Init
<1>2. Placed(Jobs) /\ Busy = {}
  BY <1>1, FilesAssumption, InitPlaced, Zenon
<1>3. RegistryType
  BY <1>1, FilesAssumption DEF RegistryType, None
<1>4. \A h \in Handle : HandleKept(h)
  BY <1>1 DEF HandleKept
<1> QED
  BY <1>2, <1>3, <1>4, Zenon DEF FilesInv, Alone

(***************************************************************************)
(* A step of fiber f that touches one handle k, which no other fiber's job *)
(* is about, keeps the invariant if it keeps it for f and for k.           *)
(***************************************************************************)
LEMMA OneHandle ==
  ASSUME FilesInv, Placed(Jobs)', RegistryType', NEXT_FILE_ID =< NEXT_FILE_ID',
         NEW f \in Fibers, NEW k \in Handle \cup {None},
         \A g \in Busy \cup Busy' : g # f =>
           /\ g \in Busy /\ g \in Busy' /\ job'[g] = job[g] /\ (g \in Returned' <=> g \in Returned)
           /\ k # None => job[g].handle # k,
         \A h \in Handle : h # k =>
           /\ file_registry'[h] = file_registry[h] /\ given'[h] = given[h]
           /\ (h \in closed' <=> h \in closed)
           /\ Borrows(f, h) => Borrows(f, h)',
         k # None => HandleKept(k)',
         f \in Busy' => JobOwns(f)',
         f \in Busy' => \A g \in Busy : g # f /\ job[g].handle # None =>
                          job[g].handle # job'[f].handle
  PROVE  FilesInv'
<1>1. NEXT_FILE_ID \in Nat /\ NEXT_FILE_ID' \in Nat
  BY FilesAssumption DEF FilesInv, RegistryType
<1>2. ASSUME NEW h \in Handle PROVE HandleKept(h)'
  <2>1. CASE h = k
    BY <2>1 DEF Handle, None
  <2>2. CASE h # k
    <3>1. \A g \in Busy : Borrows(g, h) => g \in Busy' /\ Borrows(g, h)'
      BY <2>2, Zenon DEF Borrows
    <3>2. HandleKept(h) /\ Placed(Jobs)
      BY Zenon DEF FilesInv
    <3>3. /\ file_registry'[h] = file_registry[h] /\ given'[h] = given[h]
          /\ (h \in closed' <=> h \in closed)
      BY <2>2, Zenon
    <3> QED
      BY <1>1, <3>1, <3>2, <3>3, HandleSame
  <2> QED
    BY <2>1, <2>2, Zenon
<1>3. ASSUME NEW g \in Busy' PROVE JobOwns(g)'
  <2>1. CASE g = f
    BY <2>1, <1>3, Zenon
  <2>2. CASE g # f
    <3>1. /\ g \in Busy /\ job'[g] = job[g] /\ (g \in Returned' <=> g \in Returned)
          /\ k # None => job[g].handle # k
      BY <2>2, Zenon
    <3>2. JobOwns(g) /\ job[g] \in Jobs
      BY <3>1, JobFields, Zenon DEF FilesInv
    <3>3. job[g].handle \in Handle \cup {None} /\ job[g].handle \in Nat
      BY <3>2, JobFields DEF Handle, None
    <3>4. job[g].handle # None =>
            /\ file_registry'[job[g].handle] = file_registry[job[g].handle]
            /\ given'[job[g].handle] = given[job[g].handle]
            /\ (job[g].handle \in closed' => job[g].handle \in closed)
      <4> DEFINE h == job[g].handle
      <4>1. h # None => h \in Handle /\ h # k
        BY <3>1, <3>3, Zenon
      <4> HIDE DEF h
      <4>2. h # None => /\ file_registry'[h] = file_registry[h] /\ given'[h] = given[h]
                        /\ (h \in closed' => h \in closed)
        BY <4>1, Zenon
      <4> QED
        BY <4>2, Zenon DEF h
    <3> QED
      BY <1>1, <3>1, <3>2, <3>3, <3>4, OwnsKept
  <2> QED
    BY <2>1, <2>2, Zenon
<1>4. Alone'
  <2> SUFFICES ASSUME NEW g \in Busy', NEW i \in Busy', job'[g].handle # None,
                      job'[g].handle = job'[i].handle, g # i
               PROVE  FALSE
    BY Zenon DEF Alone
  <2>1. CASE g # f /\ i # f
    <3>1. g \in Busy /\ i \in Busy /\ job'[g] = job[g] /\ job'[i] = job[i]
      BY <2>1, Zenon
    <3>2. job[g].handle # None /\ job[g].handle = job[i].handle
      BY <3>1, Zenon
    <3> QED
      BY <3>1, <3>2, Zenon DEF FilesInv, Alone
  <2>2. CASE g = f
    BY <2>2, Zenon
  <2>3. CASE i = f
    BY <2>3, Zenon
  <2> QED
    BY <2>1, <2>2, <2>3, Zenon
<1> QED
  BY <1>2, <1>3, <1>4, Zenon DEF FilesInv

(***************************************************************************)
(* What a pool step does to the places of jobs changes nothing else.       *)
(***************************************************************************)
LEMMA PoolFiles ==
  ASSUME FilesInv, PoolTake \/ \E f \in Fibers : PoolSend(f)
  PROVE  FilesInv'
<1>1. /\ job' = job /\ file_registry' = file_registry /\ NEXT_FILE_ID' = NEXT_FILE_ID
      /\ opened' = opened /\ given' = given /\ closed' = closed
  BY DEF PoolTake, PoolSend, WorkerTake, WorkerSend, registryVars, seenVars
<1>2. Placed(Jobs)' /\ Busy' = Busy /\ Returned' = Returned
  BY TakePlaced, SendPlaced, Zenon DEF PoolTake, PoolSend, FilesInv
<1>3. RegistryType'
  BY <1>1, Zenon DEF FilesInv, RegistryType
<1>4. \A h \in Handle : HandleKept(h)'
  BY <1>1, <1>2, Zenon DEF FilesInv, HandleKept, Borrows
<1>5. \A f \in Busy' : JobOwns(f)'
  BY <1>1, <1>2, Zenon DEF FilesInv, JobOwns
<1>6. Alone'
  BY <1>1, <1>2, Zenon DEF FilesInv, Alone
<1> QED
  BY <1>2, <1>3, <1>4, <1>5, <1>6, Zenon DEF FilesInv

(***************************************************************************)
(* fs_open, fs_create and fs_temp_file hand over a job that owns nothing.  *)
(***************************************************************************)
LEMMA FsOpenFiles ==
  ASSUME FilesInv, NEW f \in Fibers, NEW op \in {"open", "temp"}, FsOpen(f, op)
  PROVE  FilesInv'
<1> DEFINE j == Job(op, None, None)
<1>1. /\ ParkSyscall(f, j) /\ file_registry' = file_registry /\ NEXT_FILE_ID' = NEXT_FILE_ID
      /\ opened' = opened /\ given' = given /\ closed' = closed
  BY DEF FsOpen, registryVars, seenVars
<1>2. j \in Jobs /\ j.op = op /\ j.handle = None /\ j.file = None
  BY JobFields
<1> HIDE DEF j
<1>3. /\ Placed(Jobs)' /\ Busy' = Busy \cup {f} /\ f \notin Busy
      /\ Returned' = Returned /\ f \notin Returned
  BY <1>1, <1>2, ParkPlaced DEF FilesInv
<1>4. job' = [job EXCEPT ![f] = j] /\ job \in [Fibers -> Jobs \cup {Idle}]
  BY <1>1 DEF ParkSyscall, FilesInv, Placed
<1>5. job'[f] = j /\ \A g \in Fibers : g # f => job'[g] = job[g]
  BY <1>4
<1>6. RegistryType' /\ NEXT_FILE_ID =< NEXT_FILE_ID'
  BY <1>1, FilesAssumption DEF FilesInv, RegistryType
<1>7. \A g \in Busy \cup Busy' : g # f =>
        /\ g \in Busy /\ g \in Busy' /\ job'[g] = job[g] /\ (g \in Returned' <=> g \in Returned)
        /\ None # None => job[g].handle # None
  BY <1>3, <1>5, Zenon DEF Busy
<1>8. \A h \in Handle : h # None =>
        /\ file_registry'[h] = file_registry[h] /\ given'[h] = given[h]
        /\ (h \in closed' <=> h \in closed)
        /\ Borrows(f, h) => Borrows(f, h)'
  BY <1>1, <1>3, Zenon DEF Borrows
<1>9. JobOwns(f)'
  BY <1>2, <1>3, <1>5 DEF JobOwns
<1>10. \A g \in Busy : g # f /\ job[g].handle # None => job[g].handle # job'[f].handle
  BY <1>2, <1>5, Zenon
<1> QED
  BY <1>3, <1>6, <1>7, <1>8, <1>9, <1>10, OneHandle, Zenon

(***************************************************************************)
(* A handle whose file is in the registry and that the program was given   *)
(* is open, and no job is about it.                                        *)
(***************************************************************************)
LEMMA Present ==
  ASSUME FilesInv, NEW h \in Handle, given[h] # None, file_registry[h] # None
  PROVE  /\ file_registry[h] = given[h] /\ h \notin closed /\ h < NEXT_FILE_ID
         /\ \A g \in Busy : job[g].handle # h
<1>1. HandleKept(h) /\ h # None
  BY DEF FilesInv, Handle, None
<1>2. file_registry[h] = given[h] /\ h \notin closed /\ h < NEXT_FILE_ID
  BY <1>1, Zenon DEF HandleKept
<1>3. ASSUME NEW g \in Busy, job[g].handle = h PROVE FALSE
  <2> DEFINE j == job[g]
  <2>1. JobOwns(g) /\ j.op \in {"open", "temp", "use", "failed"} /\ j.handle = h
    BY <1>3, JobFields, Zenon DEF FilesInv
  <2>2. j.file = None
    BY <1>1, <2>1, Zenon DEF JobOwns
  <2> QED
    BY <1>1, <2>1, <2>2 DEF JobOwns
<1> QED
  BY <1>2, <1>3, Zenon

(***************************************************************************)
(* file_read, file_write and file_seek hand the file over with the job.    *)
(***************************************************************************)
LEMMA FileOpFiles ==
  ASSUME FilesInv, NEW f \in Fibers, NEW h \in Handle, FileOp(f, h)
  PROVE  FilesInv'
<1> DEFINE x == file_registry[h]
           j == Job("use", h, x)
<1>1. /\ given[h] # None /\ x # None /\ ParkSyscall(f, j)
      /\ file_registry' = [file_registry EXCEPT ![h] = None] /\ NEXT_FILE_ID' = NEXT_FILE_ID
      /\ opened' = opened /\ given' = given /\ closed' = closed
  BY DEF FileOp, TakeFile, seenVars
<1>2. file_registry \in [Handle -> File \cup {None}] /\ x \in File \cup {None} /\ h # None
  BY DEF FilesInv, RegistryType, Handle, None
<1>3. j \in Jobs /\ j.op = "use" /\ j.handle = h /\ j.file = x
  BY <1>2, JobFields
<1>4. x = given[h] /\ h \notin closed /\ h < NEXT_FILE_ID /\ \A g \in Busy : job[g].handle # h
  BY <1>1, Present
<1> HIDE DEF j, x
<1>5. /\ Placed(Jobs)' /\ Busy' = Busy \cup {f} /\ f \notin Busy
      /\ Returned' = Returned /\ f \notin Returned
  BY <1>1, <1>3, ParkPlaced DEF FilesInv
<1>6. job' = [job EXCEPT ![f] = j] /\ job \in [Fibers -> Jobs \cup {Idle}]
  BY <1>1 DEF ParkSyscall, FilesInv, Placed
<1>7. job'[f] = j /\ \A g \in Fibers : g # f => job'[g] = job[g]
  BY <1>6
<1>8. file_registry'[h] = None /\ \A i \in Handle : i # h => file_registry'[i] = file_registry[i]
  BY <1>1, <1>2
<1>9. RegistryType' /\ NEXT_FILE_ID =< NEXT_FILE_ID'
  <2>1. file_registry' \in [Handle -> File \cup {None}]
    BY <1>1, <1>2
  <2> QED
    BY <1>1, <2>1, FilesAssumption DEF FilesInv, RegistryType
<1>10. \A g \in Busy \cup Busy' : g # f =>
         /\ g \in Busy /\ g \in Busy' /\ job'[g] = job[g] /\ (g \in Returned' <=> g \in Returned)
         /\ h # None => job[g].handle # h
  BY <1>4, <1>5, <1>7, Zenon DEF Busy
<1>11. \A i \in Handle : i # h =>
         /\ file_registry'[i] = file_registry[i] /\ given'[i] = given[i]
         /\ (i \in closed' <=> i \in closed)
         /\ Borrows(f, i) => Borrows(f, i)'
  BY <1>1, <1>5, <1>8, Zenon DEF Borrows
<1>12. HandleKept(h)'
  <2>1. f \in Busy' /\ Borrows(f, h)'
    BY <1>1, <1>3, <1>5, <1>7, Zenon DEF Borrows
  <2>2. h < NEXT_FILE_ID' /\ h \notin closed'
    BY <1>1, <1>4, Zenon
  <2> QED
    BY <1>8, <2>1, <2>2, Zenon DEF HandleKept
<1>13. JobOwns(f)'
  <2>1. given'[h] = x /\ file_registry'[h] = None /\ h \notin closed'
    BY <1>1, <1>4, <1>8, Zenon
  <2> QED
    BY <1>1, <1>2, <1>3, <1>7, <2>1 DEF JobOwns
<1>14. \A g \in Busy : g # f /\ job[g].handle # None => job[g].handle # job'[f].handle
  BY <1>3, <1>4, <1>7, Zenon
<1> QED
  BY <1>5, <1>9, <1>10, <1>11, <1>12, <1>13, <1>14, OneHandle, Zenon

(***************************************************************************)
(* file_close drops a file that is in the registry.                        *)
(***************************************************************************)
LEMMA FileCloseFiles ==
  ASSUME FilesInv, NEW f \in Fibers, NEW h \in Handle, FileClose(f, h)
  PROVE  FilesInv'
<1>1. /\ given[h] # None /\ file_registry[h] # None /\ f \notin Busy
      /\ file_registry' = [file_registry EXCEPT ![h] = None] /\ NEXT_FILE_ID' = NEXT_FILE_ID
      /\ opened' = opened /\ given' = given /\ closed' = closed \cup {h}
      /\ job' = job /\ queue' = queue /\ ran' = ran /\ done' = done
  BY DEF FileClose, offloadVars
<1>2. h < NEXT_FILE_ID /\ \A g \in Busy : job[g].handle # h
  BY <1>1, Present
<1>3. Placed(Jobs)' /\ Busy' = Busy /\ Returned' = Returned
  BY <1>1, Zenon DEF FilesInv, Placed, Busy, OnWorker, Returned
<1>4. file_registry \in [Handle -> File \cup {None}] /\ h # None
  BY DEF FilesInv, RegistryType, Handle, None
<1>5. file_registry'[h] = None /\ \A i \in Handle : i # h => file_registry'[i] = file_registry[i]
  BY <1>1, <1>4
<1>6. RegistryType' /\ NEXT_FILE_ID =< NEXT_FILE_ID'
  <2>1. file_registry' \in [Handle -> File \cup {None}] /\ closed' \subseteq Handle
    BY <1>1, <1>4 DEF FilesInv, RegistryType
  <2> QED
    BY <1>1, <2>1, FilesAssumption DEF FilesInv, RegistryType
<1>7. \A g \in Busy \cup Busy' : g # f =>
        /\ g \in Busy /\ g \in Busy' /\ job'[g] = job[g] /\ (g \in Returned' <=> g \in Returned)
        /\ h # None => job[g].handle # h
  BY <1>1, <1>2, <1>3, Zenon
<1>8. \A i \in Handle : i # h =>
        /\ file_registry'[i] = file_registry[i] /\ given'[i] = given[i]
        /\ (i \in closed' <=> i \in closed)
        /\ Borrows(f, i) => Borrows(f, i)'
  BY <1>1, <1>5, Zenon DEF Borrows
<1>9. HandleKept(h)'
  BY <1>1, <1>2, <1>5, Zenon DEF HandleKept
<1>10. f \notin Busy'
  BY <1>1, <1>3, Zenon
<1> QED
  BY <1>3, <1>6, <1>7, <1>8, <1>9, <1>10, OneHandle, Zenon

(***************************************************************************)
(* A job that has not returned and whose fields change as its syscall      *)
(* returns, on a step that leaves the registry alone.                      *)
(***************************************************************************)
LEMMA ReturnsFiles ==
  ASSUME FilesInv, NEW f \in Fibers, NEW j \in Jobs, Finish(f, j),
         file_registry' = file_registry, NEXT_FILE_ID' = NEXT_FILE_ID,
         opened' \in 0 .. MaxFiles, given' = given, closed' = closed,
         j.handle = job[f].handle,
         \/ j.handle = None /\ job[f].file = None
            /\ \/ j.op = "open" /\ j.file # None
               \/ j.op = "failed" /\ j.file = None
         \/ j.op \in {"use", "failed"} /\ job[f].op = "use" /\ j.file = job[f].file
  PROVE  FilesInv'
<1>1. /\ Placed(Jobs)' /\ Busy' = Busy /\ f \in Busy
      /\ Returned' = Returned \cup {f} /\ f \notin Returned
  BY FinishPlaced DEF FilesInv
<1>2. job' = [job EXCEPT ![f] = j] /\ job \in [Fibers -> Jobs \cup {Idle}]
  BY DEF Finish, FilesInv, Placed
<1>3. job'[f] = j /\ \A g \in Fibers : g # f => job'[g] = job[g]
  BY <1>2
<1>4. RegistryType' /\ NEXT_FILE_ID =< NEXT_FILE_ID'
  BY FilesAssumption DEF FilesInv, RegistryType
<1>5. \A g \in Busy \cup Busy' : g # f =>
        /\ g \in Busy /\ g \in Busy' /\ job'[g] = job[g] /\ (g \in Returned' <=> g \in Returned)
        /\ None # None => job[g].handle # None
  BY <1>1, <1>3, Zenon DEF Busy
<1>6. \A h \in Handle : h # None =>
        /\ file_registry'[h] = file_registry[h] /\ given'[h] = given[h]
        /\ (h \in closed' <=> h \in closed)
        /\ Borrows(f, h) => Borrows(f, h)'
  BY <1>1, <1>3, Zenon DEF Borrows
<1>7. JobOwns(f)'
  <2>1. JobOwns(f)
    BY <1>1, Zenon DEF FilesInv
  <2>2. CASE j.handle = None
    <3>1. job[f].op = "use" => FALSE
      BY <2>1, <2>2, Zenon DEF JobOwns
    <3> QED
      BY <1>1, <1>3, <2>2, <3>1 DEF JobOwns
  <2>3. CASE j.handle # None
    <3>1. j.op \in {"use", "failed"} /\ job[f].op = "use" /\ j.file = job[f].file
      BY <2>3, Zenon
    <3>2. /\ j.file # None /\ given[j.handle] = j.file /\ file_registry[j.handle] = None
          /\ j.handle \notin closed
      BY <2>1, <2>3, <3>1, Zenon DEF JobOwns
    <3> QED
      BY <1>1, <1>3, <2>3, <3>1, <3>2 DEF JobOwns
  <2> QED
    BY <2>2, <2>3, Zenon
<1>8. \A g \in Busy : g # f /\ job[g].handle # None => job[g].handle # job'[f].handle
  BY <1>1, <1>3, Zenon DEF FilesInv, Alone
<1> QED
  BY <1>1, <1>4, <1>5, <1>6, <1>7, <1>8, OneHandle, Zenon

(***************************************************************************)
(* A file operation and an open that fails, on a worker.                   *)
(***************************************************************************)
LEMMA UseJobFiles ==
  ASSUME FilesInv, NEW f \in Fibers, UseJob(f) \/ OpenFails(f)
  PROVE  FilesInv'
<1> DEFINE j == job[f]
<1>1. /\ file_registry' = file_registry /\ NEXT_FILE_ID' = NEXT_FILE_ID
      /\ opened' \in 0 .. MaxFiles /\ given' = given /\ closed' = closed
  BY DEF UseJob, OpenFails, registryVars, seenVars, FilesInv, RegistryType
<1>2. f \in Busy /\ f \notin Returned
  BY DEF UseJob, OpenFails, Running, OnWorker, Returned
<1>3. JobOwns(f) /\ j \in Jobs /\ j.handle \in Handle \cup {None} /\ j.file \in File \cup {None}
  BY <1>2, JobFields, Zenon DEF FilesInv
<1>4. CASE UseJob(f)
  <2>1. j.op = "use"
    BY <1>4, Zenon DEF UseJob
  <2>2. PICK failed \in BOOLEAN :
          Finish(f, IF failed THEN [j EXCEPT !.op = "failed"] ELSE j)
    BY <1>4, Zenon DEF UseJob
  <2>3. CASE failed
    <3> DEFINE k == [j EXCEPT !.op = "failed"]
    <3>1. k \in Jobs /\ k.op = "failed" /\ k.handle = j.handle /\ k.file = j.file
      BY <1>3 DEF Jobs
    <3>2. Finish(f, k)
      BY <2>2, <2>3, Zenon
    <3> HIDE DEF k
    <3> QED
      BY <1>1, <2>1, <3>1, <3>2, ReturnsFiles
  <2>4. CASE ~ failed
    <3>1. Finish(f, j)
      BY <2>2, <2>4, Zenon
    <3> QED
      BY <1>1, <1>3, <2>1, <3>1, ReturnsFiles
  <2> QED
    BY <2>3, <2>4, Zenon
<1>5. CASE OpenFails(f)
  <2> DEFINE k == [j EXCEPT !.op = "failed"]
  <2>1. Finish(f, k) /\ j.op \in {"open", "temp"}
    BY <1>5, Zenon DEF OpenFails
  <2>2. k \in Jobs /\ k.op = "failed" /\ k.handle = j.handle /\ k.file = j.file
    BY <1>3 DEF Jobs
  <2>3. j.handle = None /\ j.file = None
    BY <1>2, <1>3, <2>1, Zenon DEF JobOwns
  <2> HIDE DEF k
  <2> QED
    BY <1>1, <2>1, <2>2, <2>3, ReturnsFiles
<1> QED
  BY <1>4, <1>5, Zenon

(***************************************************************************)
(* The next handle is new: nobody was given it, and no job is about it.    *)
(***************************************************************************)
LEMMA NextIsNew ==
  ASSUME FilesInv, NEXT_FILE_ID \in Handle
  PROVE  /\ given[NEXT_FILE_ID] = None /\ NEXT_FILE_ID \notin closed
         /\ file_registry[NEXT_FILE_ID] = None
         /\ \A g \in Busy : job[g].handle # NEXT_FILE_ID
<1>1. HandleKept(NEXT_FILE_ID) /\ NEXT_FILE_ID \in Int /\ ~ (NEXT_FILE_ID < NEXT_FILE_ID)
  BY DEF FilesInv, Handle
<1>2. /\ given[NEXT_FILE_ID] = None /\ NEXT_FILE_ID \notin closed
      /\ file_registry[NEXT_FILE_ID] = None
  BY <1>1, Zenon DEF HandleKept
<1>3. ASSUME NEW g \in Busy, job[g].handle = NEXT_FILE_ID PROVE FALSE
  <2> DEFINE j == job[g]
  <2>1. /\ JobOwns(g) /\ j.op \in {"open", "temp", "use", "failed"}
        /\ j.handle = NEXT_FILE_ID /\ NEXT_FILE_ID # None
    BY <1>3, JobFields DEF FilesInv, Handle, None
  <2>2. j.file = None
    BY <1>2, <2>1 DEF JobOwns
  <2> QED
    BY <1>1, <2>1, <2>2 DEF JobOwns
<1> QED
  BY <1>2, <1>3, Zenon

(***************************************************************************)
(* The kernel opens a file; fs_temp_file registers it on the worker.       *)
(***************************************************************************)
LEMMA OpenJobFiles ==
  ASSUME FilesInv, NEW f \in Fibers, OpenJob(f)
  PROVE  FilesInv'
<1> DEFINE j == job[f]
           x == opened'
<1>0. PICK n : n = NEXT_FILE_ID
  OBVIOUS
<1>1. /\ f \in Running /\ j.op \in {"open", "temp"} /\ opened < MaxFiles /\ x = opened + 1
      /\ given' = given /\ closed' = closed
  BY DEF OpenJob, seenVars
<1>2. opened \in 0 .. MaxFiles /\ x \in File /\ x # None /\ x \in 0 .. MaxFiles
  BY <1>1, FilesAssumption DEF FilesInv, RegistryType, File, None
<1>3. f \in Busy /\ f \notin Returned
  BY <1>1, Zenon DEF Running, OnWorker, Returned
<1>4. /\ JobOwns(f) /\ j \in Jobs /\ j.handle \in Handle \cup {None}
      /\ j.handle = None /\ j.file = None
  BY <1>1, <1>3, JobFields, Zenon DEF FilesInv, JobOwns
<1> HIDE DEF x
<1>5. CASE j.op = "open"
  <2> DEFINE k == [j EXCEPT !.file = x]
  <2>1. /\ Finish(f, k) /\ file_registry' = file_registry /\ NEXT_FILE_ID' = NEXT_FILE_ID
    BY <1>5 DEF OpenJob, registryVars, x
  <2>2. k \in Jobs /\ k.op = "open" /\ k.handle = j.handle /\ k.file = x
    BY <1>2, <1>4, <1>5 DEF Jobs
  <2>3. opened' \in 0 .. MaxFiles
    BY <1>2 DEF x
  <2> HIDE DEF k
  <2> QED
    BY <1>1, <1>2, <1>4, <2>1, <2>2, <2>3, ReturnsFiles
<1>6. CASE j.op = "temp"
  <2> DEFINE k == [j EXCEPT !.handle = n]
  <2>1. /\ Finish(f, k) /\ n \in Handle /\ NEXT_FILE_ID' = n + 1
        /\ file_registry' = [file_registry EXCEPT ![n] = x]
    BY <1>0, <1>6 DEF OpenJob, RegisterFile, x
  <2>2. k \in Jobs /\ k.op = "temp" /\ k.handle = n /\ k.file = None
    BY <1>4, <1>6, <2>1 DEF Jobs
  <2> HIDE DEF k
  <2>3. /\ Placed(Jobs)' /\ Busy' = Busy /\ Returned' = Returned \cup {f}
    BY <2>1, <2>2, FinishPlaced DEF FilesInv
  <2>4. job' = [job EXCEPT ![f] = k] /\ job \in [Fibers -> Jobs \cup {Idle}]
    BY <2>1 DEF Finish, FilesInv, Placed
  <2>5. job'[f] = k /\ \A g \in Fibers : g # f => job'[g] = job[g]
    BY <2>4
  <2>6. /\ given[n] = None /\ n \notin closed /\ \A g \in Busy : job[g].handle # n
    BY <1>0, <2>1, NextIsNew
  <2>7. file_registry \in [Handle -> File \cup {None}]
    BY DEF FilesInv, RegistryType
  <2>8. file_registry'[n] = x /\ \A i \in Handle : i # n => file_registry'[i] = file_registry[i]
    BY <2>1, <2>7
  <2>9. RegistryType' /\ NEXT_FILE_ID =< NEXT_FILE_ID' /\ n < NEXT_FILE_ID' /\ n # None
    <3>1. file_registry' \in [Handle -> File \cup {None}]
      BY <1>2, <2>1, <2>7
    <3>2. NEXT_FILE_ID' \in 1 .. MaxFiles + 1 /\ n < NEXT_FILE_ID' /\ n # None
      BY <2>1, FilesAssumption DEF Handle, None
    <3>3. opened' \in 0 .. MaxFiles
      BY <1>2 DEF x
    <3>4. given' \in [Handle -> File \cup {None}] /\ closed' \subseteq Handle
      BY <1>1 DEF FilesInv, RegistryType
    <3>5. NEXT_FILE_ID =< NEXT_FILE_ID'
      BY <1>0, <2>1 DEF Handle
    <3> QED
      BY <3>1, <3>2, <3>3, <3>4, <3>5, Zenon DEF RegistryType
  <2>10. \A g \in Busy \cup Busy' : g # f =>
           /\ g \in Busy /\ g \in Busy' /\ job'[g] = job[g] /\ (g \in Returned' <=> g \in Returned)
           /\ n # None => job[g].handle # n
    BY <2>3, <2>5, <2>6, Zenon DEF Busy
  <2>11. \A i \in Handle : i # n =>
           /\ file_registry'[i] = file_registry[i] /\ given'[i] = given[i]
           /\ (i \in closed' <=> i \in closed)
           /\ Borrows(f, i) => Borrows(f, i)'
    BY <1>1, <1>4, <2>8, Zenon DEF Borrows
  <2>12. HandleKept(n)'
    BY <1>1, <2>6, <2>9, Zenon DEF HandleKept
  <2>13. JobOwns(f)'
    <3>1. f \in Returned' /\ given'[n] = None /\ file_registry'[n] # None
      BY <1>1, <1>2, <2>3, <2>6, <2>8, Zenon
    <3> QED
      BY <2>2, <2>5, <2>9, <3>1 DEF JobOwns
  <2>14. \A g \in Busy : g # f /\ job[g].handle # None => job[g].handle # job'[f].handle
    BY <2>2, <2>5, <2>6, Zenon
  <2>15. n \in Handle \cup {None}
    BY <2>1, Zenon
  <2> QED
    BY <2>3, <2>9, <2>10, <2>11, <2>12, <2>13, <2>14, <2>15, OneHandle, Zenon
<1> QED
  BY <1>1, <1>5, <1>6, Zenon

(***************************************************************************)
(* The builder of an open gives the program the handle of the new file.    *)
(***************************************************************************)
LEMMA BuildOpenFiles ==
  ASSUME FilesInv, NEW f \in Fibers, BuildOpen(f)
  PROVE  FilesInv'
<1>1. /\ Deliver(f) /\ job[f].op \in {"open", "temp"} /\ opened' = opened /\ closed' = closed
  BY DEF BuildOpen
<1>2. /\ Placed(Jobs)' /\ f \in Busy /\ f \in Returned
      /\ Busy' = Busy \ {f} /\ Returned' = Returned \ {f}
  BY <1>1, DeliverPlaced DEF FilesInv
<1>3. job' = [job EXCEPT ![f] = Idle] /\ job \in [Fibers -> Jobs \cup {Idle}]
  BY <1>1 DEF Deliver, FilesInv, Placed
<1>4. \A g \in Fibers : g # f => job'[g] = job[g]
  BY <1>3
<1>5. /\ file_registry \in [Handle -> File \cup {None}] /\ given \in [Handle -> File \cup {None}]
      /\ NEXT_FILE_ID \in Nat
  BY DEF FilesInv, RegistryType
<1>6. PICK j : j = job[f]
  OBVIOUS
<1>7. /\ j.op = "open" => j.handle = None /\ j.file # None
      /\ j.op = "temp" => /\ j.handle # None /\ j.handle < NEXT_FILE_ID /\ j.file = None
                          /\ file_registry[j.handle] # None /\ given[j.handle] = None
      /\ j \in Jobs /\ j.handle \in Handle \cup {None} /\ j.file \in File \cup {None}
      /\ j.op \in {"open", "temp"}
  BY <1>1, <1>2, <1>6, JobFields, Zenon DEF FilesInv, JobOwns
<1>8. CASE j.op = "temp"
  <2>0. PICK k : k = j.handle
    OBVIOUS
  <2>1. /\ k \in Handle /\ k # None /\ k < NEXT_FILE_ID /\ j.file = None
        /\ file_registry[k] # None /\ given[k] = None
    BY <1>7, <1>8, <2>0, Zenon
  <2>2. /\ given' = [given EXCEPT ![k] = file_registry[k]]
        /\ file_registry' = file_registry /\ NEXT_FILE_ID' = NEXT_FILE_ID
    BY <1>6, <1>8, <2>0 DEF BuildOpen, registryVars
  <2>3. given'[k] = file_registry[k] /\ \A i \in Handle : i # k => given'[i] = given[i]
    BY <1>5, <2>1, <2>2
  <2>4. RegistryType' /\ NEXT_FILE_ID =< NEXT_FILE_ID'
    <3>1. given' \in [Handle -> File \cup {None}]
      BY <1>5, <2>1, <2>2
    <3> QED
      BY <1>1, <1>5, <2>2, <3>1 DEF FilesInv, RegistryType
  <2>5. \A g \in Busy : g # f => job[g].handle # k
    BY <1>2, <1>6, <2>0, <2>1, Zenon DEF FilesInv, Alone
  <2>6. \A g \in Busy \cup Busy' : g # f =>
          /\ g \in Busy /\ g \in Busy' /\ job'[g] = job[g] /\ (g \in Returned' <=> g \in Returned)
          /\ k # None => job[g].handle # k
    BY <1>2, <1>4, <2>5, Zenon DEF Busy
  <2>7. \A i \in Handle : i # k =>
          /\ file_registry'[i] = file_registry[i] /\ given'[i] = given[i]
          /\ (i \in closed' <=> i \in closed)
          /\ Borrows(f, i) => Borrows(f, i)'
    BY <1>1, <1>6, <2>1, <2>2, <2>3, Zenon DEF Borrows
  <2>8. k \notin closed
    BY <2>1, Zenon DEF FilesInv, HandleKept
  <2>9. HandleKept(k)'
    BY <1>1, <2>1, <2>2, <2>3, <2>8, Zenon DEF HandleKept
  <2>10. f \notin Busy' /\ k \in Handle \cup {None}
    BY <1>2, <2>1, Zenon
  <2> QED
    BY <1>2, <2>4, <2>6, <2>7, <2>9, <2>10, OneHandle, Zenon
<1>9. CASE j.op = "open"
  <2>0. PICK n : n = NEXT_FILE_ID
    OBVIOUS
  <2>1. /\ n \in Handle /\ NEXT_FILE_ID' = n + 1
        /\ file_registry' = [file_registry EXCEPT ![n] = j.file]
        /\ given' = [given EXCEPT ![n] = j.file]
    BY <1>6, <1>9, <2>0 DEF BuildOpen, RegisterFile
  <2>2. j.handle = None /\ j.file # None /\ j.file \in File \cup {None}
    BY <1>7, <1>9, Zenon
  <2>3. n \notin closed /\ \A g \in Busy : job[g].handle # n
    BY <2>0, <2>1, NextIsNew
  <2>4. /\ file_registry'[n] = j.file /\ given'[n] = j.file
        /\ \A i \in Handle : i # n => file_registry'[i] = file_registry[i] /\ given'[i] = given[i]
    BY <1>5, <2>1
  <2>5. n < NEXT_FILE_ID' /\ n # None /\ NEXT_FILE_ID =< NEXT_FILE_ID'
    BY <2>0, <2>1 DEF Handle, None
  <2>6. RegistryType'
    <3>1. /\ file_registry' \in [Handle -> File \cup {None}]
          /\ given' \in [Handle -> File \cup {None}]
      BY <1>5, <2>1, <2>2
    <3>2. NEXT_FILE_ID' \in 1 .. MaxFiles + 1
      BY <2>1, FilesAssumption DEF Handle
    <3> QED
      BY <1>1, <3>1, <3>2 DEF FilesInv, RegistryType
  <2>7. \A g \in Busy \cup Busy' : g # f =>
          /\ g \in Busy /\ g \in Busy' /\ job'[g] = job[g] /\ (g \in Returned' <=> g \in Returned)
          /\ n # None => job[g].handle # n
    BY <1>2, <1>4, <2>3, Zenon DEF Busy
  <2>8. \A i \in Handle : i # n =>
          /\ file_registry'[i] = file_registry[i] /\ given'[i] = given[i]
          /\ (i \in closed' <=> i \in closed)
          /\ Borrows(f, i) => Borrows(f, i)'
    <3>1. \A i \in Handle : i # None
      BY DEF Handle, None
    <3> QED
      BY <1>1, <1>6, <2>2, <2>4, <3>1, Zenon DEF Borrows
  <2>9. HandleKept(n)'
    BY <1>1, <2>2, <2>3, <2>4, <2>5, Zenon DEF HandleKept
  <2>10. f \notin Busy' /\ n \in Handle \cup {None}
    BY <1>2, <2>1, Zenon
  <2> QED
    BY <1>2, <2>5, <2>6, <2>7, <2>8, <2>9, <2>10, OneHandle, Zenon
<1> QED
  BY <1>7, <1>8, <1>9, Zenon

(***************************************************************************)
(* return_file puts the file back where it came from.                      *)
(***************************************************************************)
LEMMA BuildUseFiles ==
  ASSUME FilesInv, NEW f \in Fibers, BuildUse(f)
  PROVE  FilesInv'
<1>0. PICK j : j = job[f]
  OBVIOUS
<1>1. /\ Deliver(f) /\ j.op \in {"use", "failed"} /\ NEXT_FILE_ID' = NEXT_FILE_ID
      /\ opened' = opened /\ given' = given /\ closed' = closed
      /\ file_registry' = IF j.handle = None THEN file_registry
                          ELSE [file_registry EXCEPT ![j.handle] = j.file]
  BY <1>0 DEF BuildUse, ReturnFile, seenVars
<1>2. /\ Placed(Jobs)' /\ f \in Busy /\ f \in Returned
      /\ Busy' = Busy \ {f} /\ Returned' = Returned \ {f}
  BY <1>1, DeliverPlaced DEF FilesInv
<1>3. job' = [job EXCEPT ![f] = Idle] /\ job \in [Fibers -> Jobs \cup {Idle}]
  BY <1>1 DEF Deliver, FilesInv, Placed
<1>4. \A g \in Fibers : g # f => job'[g] = job[g]
  BY <1>3
<1>5. file_registry \in [Handle -> File \cup {None}] /\ NEXT_FILE_ID \in Nat
  BY DEF FilesInv, RegistryType
<1>6. JobOwns(f) /\ j.handle \in Handle \cup {None} /\ j.file \in File \cup {None}
  BY <1>0, <1>2, JobFields, Zenon DEF FilesInv
<1>7. PICK k : k = j.handle
  OBVIOUS
<1>8. k # None => /\ k \in Handle /\ j.file # None /\ given[k] = j.file
                  /\ file_registry[k] = None /\ k \notin closed
  BY <1>0, <1>1, <1>6, <1>7, Zenon DEF JobOwns
<1>9. /\ k # None => file_registry'[k] = j.file
      /\ \A i \in Handle : i # k => file_registry'[i] = file_registry[i]
  BY <1>1, <1>5, <1>7, <1>8
<1>10. RegistryType' /\ NEXT_FILE_ID =< NEXT_FILE_ID'
  <2>1. file_registry' \in [Handle -> File \cup {None}]
    BY <1>1, <1>5, <1>6, <1>7, <1>8
  <2> QED
    BY <1>1, <1>5, <2>1 DEF FilesInv, RegistryType
<1>11. \A g \in Busy \cup Busy' : g # f =>
         /\ g \in Busy /\ g \in Busy' /\ job'[g] = job[g] /\ (g \in Returned' <=> g \in Returned)
         /\ k # None => job[g].handle # k
  <2>1. \A g \in Busy : g # f => (k # None => job[g].handle # k)
    BY <1>0, <1>2, <1>7, Zenon DEF FilesInv, Alone
  <2> QED
    BY <1>2, <1>4, <2>1, Zenon DEF Busy
<1>12. \A i \in Handle : i # k =>
         /\ file_registry'[i] = file_registry[i] /\ given'[i] = given[i]
         /\ (i \in closed' <=> i \in closed)
         /\ Borrows(f, i) => Borrows(f, i)'
  BY <1>0, <1>1, <1>7, <1>9, Zenon DEF Borrows
<1>13. k # None => HandleKept(k)'
  <2> SUFFICES ASSUME k # None PROVE HandleKept(k)'
    OBVIOUS
  <2>1. k < NEXT_FILE_ID
    BY <1>8, Zenon DEF FilesInv, HandleKept
  <2> QED
    BY <1>1, <1>8, <1>9, <2>1, Zenon DEF HandleKept
<1>14. f \notin Busy' /\ k \in Handle \cup {None}
  BY <1>2, <1>6, <1>7, Zenon
<1> QED
  BY <1>2, <1>10, <1>11, <1>12, <1>13, <1>14, OneHandle, Zenon

(***************************************************************************)
(* Every native, job and builder keeps the invariant.                      *)
(***************************************************************************)
LEMMA NextFiles == FilesInv /\ [Next]_vars => FilesInv'
<1> SUFFICES ASSUME FilesInv, [Next]_vars PROVE FilesInv'
  OBVIOUS
<1>1. ASSUME NEW f \in Fibers, NEW op \in {"open", "temp"}, FsOpen(f, op) PROVE FilesInv'
  BY <1>1, FsOpenFiles
<1>2. ASSUME NEW f \in Fibers, NEW h \in Handle, FileOp(f, h) PROVE FilesInv'
  BY <1>2, FileOpFiles
<1>3. ASSUME NEW f \in Fibers, NEW h \in Handle, FileClose(f, h) PROVE FilesInv'
  BY <1>3, FileCloseFiles
<1>4. CASE PoolTake
  BY <1>4, PoolFiles, Zenon
<1>5. ASSUME NEW f \in Fibers, OpenJob(f) PROVE FilesInv'
  BY <1>5, OpenJobFiles
<1>6. ASSUME NEW f \in Fibers, UseJob(f) \/ OpenFails(f) PROVE FilesInv'
  BY <1>6, UseJobFiles
<1>7. ASSUME NEW f \in Fibers, PoolSend(f) PROVE FilesInv'
  BY <1>7, PoolFiles, Zenon
<1>8. ASSUME NEW f \in Fibers, BuildOpen(f) PROVE FilesInv'
  BY <1>8, BuildOpenFiles
<1>9. ASSUME NEW f \in Fibers, BuildUse(f) PROVE FilesInv'
  BY <1>9, BuildUseFiles
<1>10. CASE UNCHANGED vars
  <2>1. /\ job' = job /\ queue' = queue /\ ran' = ran /\ done' = done
        /\ file_registry' = file_registry /\ NEXT_FILE_ID' = NEXT_FILE_ID
        /\ opened' = opened /\ given' = given /\ closed' = closed
    BY <1>10 DEF vars, offloadVars, registryVars, seenVars
  <2>2. Busy' = Busy /\ OnWorker' = OnWorker /\ Returned' = Returned
    BY <2>1, Zenon DEF Busy, OnWorker, Returned
  <2>3. Placed(Jobs)' /\ RegistryType' /\ Alone'
    BY <2>1, <2>2, Zenon DEF FilesInv, Placed, RegistryType, Alone
  <2>4. \A h \in Handle : HandleKept(h)'
    BY <2>1, <2>2, Zenon DEF FilesInv, HandleKept, Borrows
  <2>5. \A f \in Busy' : JobOwns(f)'
    BY <2>1, <2>2, Zenon DEF FilesInv, JobOwns
  <2> QED
    BY <2>3, <2>4, <2>5, Zenon DEF FilesInv
<1> QED
  BY <1>1, <1>2, <1>3, <1>4, <1>5, <1>6, <1>7, <1>8, <1>9, <1>10, Zenon DEF Next

(***************************************************************************)
(* The files that jobs have out for a handle, from the invariant.          *)
(***************************************************************************)
LEMMA InUseFacts ==
  ASSUME FilesInv, NEW h \in Handle
  PROVE  /\ \A f \in InUse(h) : /\ InUse(h) = {f} /\ job[f].file = given[h]
                                /\ file_registry[h] = None /\ h \notin closed
         /\ (\E f \in Busy : Borrows(f, h)) => InUse(h) # {}
<1>0. h # None
  BY DEF Handle, None
<1>1. ASSUME NEW f \in InUse(h)
      PROVE  /\ InUse(h) = {f} /\ job[f].file = given[h]
             /\ file_registry[h] = None /\ h \notin closed
  <2>1. f \in Busy /\ job[f].handle = h /\ job[f].file # None
    BY DEF InUse
  <2>2. \A g \in InUse(h) : g = f
    BY <1>0, <2>1, Zenon DEF InUse, FilesInv, Alone
  <2>3. JobOwns(f)
    BY <2>1, Zenon DEF FilesInv
  <2>4. given[h] = job[f].file /\ file_registry[h] = None /\ h \notin closed
    BY <1>0, <2>1, <2>3, Zenon DEF JobOwns
  <2> QED
    BY <2>2, <2>4, Zenon
<1>2. (\E f \in Busy : Borrows(f, h)) => InUse(h) # {}
  BY Zenon DEF Borrows, InUse
<1> QED
  BY <1>1, <1>2, Zenon

-----------------------------------------------------------------------------
(* The theorems.                                                            *)

(***************************************************************************)
(* The invariant holds in every reachable state.                           *)
(***************************************************************************)
THEOREM FilesInvariance == Spec => []FilesInv
  BY InitFiles, NextFiles, PTL DEF Spec

(***************************************************************************)
(* A handle stands for the file it was opened with until the program       *)
(* closes it, whatever other fibers do with it and whatever their          *)
(* operations return (take_file and return_file in natives.rs).            *)
(***************************************************************************)
THEOREM HandlesStay == Spec => []HandlesKept
<1>1. FilesInv => HandlesKept
  <2> SUFFICES ASSUME FilesInv, NEW h \in Handle, given[h] # None, h \notin closed
               PROVE  \/ file_registry[h] = given[h] /\ InUse(h) = {}
                      \/ file_registry[h] = None /\ \E f \in InUse(h) :
                           InUse(h) = {f} /\ job[f].file = given[h]
    BY Zenon DEF HandlesKept
  <2>1. \/ file_registry[h] = given[h]
        \/ file_registry[h] = None /\ \E f \in Busy : Borrows(f, h)
    BY Zenon DEF FilesInv, HandleKept
  <2> QED
    BY <2>1, InUseFacts, Zenon
<1> QED
  BY <1>1, FilesInvariance, PTL

(***************************************************************************)
(* A close that returned Ok is final: no operation brings the file back    *)
(* (native_file_close in natives.rs).                                      *)
(***************************************************************************)
THEOREM ClosesAreFinal == Spec => []ClosedForever
<1>1. FilesInv => ClosedForever
  <2> SUFFICES ASSUME FilesInv, NEW h \in closed
               PROVE  file_registry[h] = None /\ InUse(h) = {}
    BY Zenon DEF ClosedForever
  <2>1. h \in Handle
    BY Zenon DEF FilesInv, RegistryType
  <2>2. file_registry[h] = None
    BY <2>1, Zenon DEF FilesInv, HandleKept
  <2> QED
    BY <2>1, <2>2, InUseFacts, Zenon
<1> QED
  BY <1>1, FilesInvariance, PTL

-----------------------------------------------------------------------------
(* Type correctness, last: only it counts.                                 *)

INSTANCE FiniteSetTheorems

(***************************************************************************)
(* The facts about cardinalities that the pool's bound rests on hold.      *)
(***************************************************************************)
LEMMA CountingHolds == Counting
  BY FS_EmptySet, FS_CardinalityType, FS_Subset, FS_AddElement, Zenon DEF Counting

(***************************************************************************)
(* Every action takes one step of the pool, or leaves it alone.            *)
(***************************************************************************)
LEMMA PoolSteps == [Next]_vars => PoolStep
<1> SUFFICES ASSUME [Next]_vars PROVE PoolStep
  OBVIOUS
<1>1. ASSUME NEW f \in Fibers, NEW op \in {"open", "temp"}, FsOpen(f, op) PROVE PoolStep
  BY <1>1, Zenon DEF FsOpen, PoolStep
<1>2. ASSUME NEW f \in Fibers, NEW h \in Handle, FileOp(f, h) \/ FileClose(f, h) PROVE PoolStep
  BY <1>2, Zenon DEF FileOp, FileClose, PoolStep
<1>3. ASSUME NEW f \in Fibers, OpenJob(f) \/ UseJob(f) \/ OpenFails(f) PROVE PoolStep
  BY <1>3, Zenon DEF OpenJob, UseJob, OpenFails, PoolStep
<1>4. ASSUME NEW f \in Fibers, BuildOpen(f) \/ BuildUse(f) \/ PoolSend(f) PROVE PoolStep
  BY <1>4, Zenon DEF BuildOpen, BuildUse, PoolSend, PoolStep
<1>5. CASE PoolTake
  BY <1>5, Zenon DEF PoolTake, PoolStep
<1>6. CASE UNCHANGED vars
  BY <1>6, Zenon DEF vars, PoolStep
<1> QED
  BY <1>1, <1>2, <1>3, <1>4, <1>5, <1>6, Zenon DEF Next

(***************************************************************************)
(* Type correctness: a job is in one of the pool's places, no more jobs    *)
(* run than there are workers, and every handle in the registry was given  *)
(* out by the counter.                                                     *)
(***************************************************************************)
THEOREM FilesTyped == Spec => []TypeOK
<1> DEFINE Bounded == Cardinality(OnWorker) =< WORKER_COUNT
<1>1. Init => Bounded
  BY NoneRuns, CountingHolds, Zenon DEF Init
<1>2. FilesInv /\ Bounded /\ [Next]_vars => Bounded'
  BY WorkersBounded, CountingHolds, PoolSteps, Zenon DEF FilesInv
<1>3. FilesInv /\ Bounded => TypeOK
  <2> SUFFICES ASSUME FilesInv, Bounded PROVE TypeOK
    OBVIOUS
  <2>1. OffloadTypeOK
    BY PlacedTyped, Zenon DEF FilesInv
  <2>2. \A h \in Handle : file_registry[h] # None => h < NEXT_FILE_ID
    BY Zenon DEF FilesInv, HandleKept
  <2> QED
    BY <2>1, <2>2, Zenon DEF TypeOK, FilesInv, RegistryType, Placed
<1> HIDE DEF Bounded
<1> QED
  BY <1>1, <1>2, <1>3, FilesInvariance, PTL DEF Spec
=============================================================================
