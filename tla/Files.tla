------------------------------- MODULE Files -------------------------------
(***************************************************************************)
(* Open files (src/runtime/src/interp/natives.rs, streaming file handles): *)
(* the registry from Int handles to open files, and the file a native      *)
(* takes out of it for the time of a pool job and puts back.               *)
(*                                                                         *)
(* An open file is known by a number of its own, given by the kernel when  *)
(* it is opened; it stays open while the registry or a job owns it.  What  *)
(* is read and written is left out: the blocking operations differ only in *)
(* what they do to the file.  A native that finds no file under its handle *)
(* returns an error and changes nothing: such a call is a stuttering step. *)
(***************************************************************************)
EXTENDS Offload

CONSTANT MaxFiles  \* bound: files opened during the run

File == 1 .. MaxFiles
Handle == 1 .. MaxFiles
None == 0

Jobs == [op : {"open", "temp", "use", "failed"},
         handle : Handle \cup {None}, file : File \cup {None}]

ASSUME FilesAssumption == MaxFiles \in Nat /\ Idle \notin Jobs

VARIABLES
  file_registry,  \* handle -> its file; None: no such key
  NEXT_FILE_ID,
  opened,         \* files the kernel has opened so far
  given,          \* handle -> the file the program was told it stands for
  closed          \* handles whose close has returned Ok

registryVars == <<file_registry, NEXT_FILE_ID>>
seenVars == <<given, closed>>
vars == <<offloadVars, registryVars, opened, seenVars>>

Init ==
  /\ OffloadInit
  /\ file_registry = [h \in Handle |-> None] /\ NEXT_FILE_ID = 1
  /\ opened = 0
  /\ given = [h \in Handle |-> None] /\ closed = {}

Job(op, h, file) == [op |-> op, handle |-> h, file |-> file]

-----------------------------------------------------------------------------
(* The natives, on the Thera thread.                                       *)

\* fs_open and fs_create ("open"), fs_temp_file ("temp").
FsOpen(f, op) ==
  /\ ParkSyscall(f, Job(op, None, None))
  /\ UNCHANGED <<registryVars, opened, seenVars>>

TakeFile_Cloned(h) == file_registry

\* What take_file leaves.
TakeFile(h) == [file_registry EXCEPT ![h] = None]

\* file_read (of one byte or more), file_write and file_seek.
FileOp(f, h) ==
  /\ given[h] # None /\ file_registry[h] # None
  /\ file_registry' = TakeFile(h)
  /\ ParkSyscall(f, Job("use", h, file_registry[h]))
  /\ UNCHANGED <<NEXT_FILE_ID, opened, seenVars>>

FileClose(f, h) ==
  /\ f \notin Busy
  /\ given[h] # None /\ file_registry[h] # None
  /\ file_registry' = [file_registry EXCEPT ![h] = None]
  /\ closed' = closed \cup {h}
  /\ UNCHANGED <<offloadVars, NEXT_FILE_ID, opened, given>>

-----------------------------------------------------------------------------
(* The jobs, on the worker threads; any of them may fail.                  *)

\* register_file
RegisterFile(file) ==
  /\ NEXT_FILE_ID \in Handle
  /\ file_registry' = [file_registry EXCEPT ![NEXT_FILE_ID] = file]
  /\ NEXT_FILE_ID' = NEXT_FILE_ID + 1

\* The kernel opens the file.  fs_temp_file also registers it, on the worker.
OpenJob(f) ==
  /\ f \in Running /\ job[f].op \in {"open", "temp"}
  /\ opened < MaxFiles
  /\ opened' = opened + 1
  /\ IF job[f].op = "temp"
     THEN /\ RegisterFile(opened')
          /\ Finish(f, [job[f] EXCEPT !.handle = NEXT_FILE_ID])
     ELSE /\ Finish(f, [job[f] EXCEPT !.file = opened'])
          /\ UNCHANGED registryVars
  /\ UNCHANGED seenVars

\* A file operation, whether it fails or not, keeps the file.
UseJob(f) ==
  /\ f \in Running /\ job[f].op = "use"
  /\ \E failed \in BOOLEAN :
       Finish(f, IF failed THEN [job[f] EXCEPT !.op = "failed"] ELSE job[f])
  /\ UNCHANGED <<registryVars, opened, seenVars>>

OpenFails(f) ==
  /\ f \in Running /\ job[f].op \in {"open", "temp"}
  /\ Finish(f, [job[f] EXCEPT !.op = "failed"])
  /\ UNCHANGED <<registryVars, opened, seenVars>>

-----------------------------------------------------------------------------
(* The builders, back on the Thera thread.                                 *)

BuildOpen(f) ==
  /\ Deliver(f) /\ job[f].op \in {"open", "temp"}
  /\ IF job[f].op = "temp"
     THEN /\ given' = [given EXCEPT ![job[f].handle] = file_registry[job[f].handle]]
          /\ UNCHANGED registryVars
     ELSE /\ RegisterFile(job[f].file)
          /\ given' = [given EXCEPT ![NEXT_FILE_ID] = job[f].file]
  /\ UNCHANGED <<opened, closed>>

ReturnFile_OnSuccess(j) == IF j.op = "failed" THEN None ELSE j.file

\* What return_file puts under the handle, of a failed operation too.
ReturnFile(j) == j.file

BuildUse(f) ==
  /\ Deliver(f) /\ job[f].op \in {"use", "failed"}
  /\ file_registry' = IF job[f].handle = None THEN file_registry
                      ELSE [file_registry EXCEPT ![job[f].handle] = ReturnFile(job[f])]
  /\ UNCHANGED <<NEXT_FILE_ID, opened, seenVars>>

-----------------------------------------------------------------------------

PoolTake == WorkerTake /\ UNCHANGED <<registryVars, opened, seenVars>>
PoolSend(f) == WorkerSend(f) /\ UNCHANGED <<registryVars, opened, seenVars>>

Next ==
  \/ \E f \in Fibers, op \in {"open", "temp"} : FsOpen(f, op)
  \/ \E f \in Fibers, h \in Handle : FileOp(f, h) \/ FileClose(f, h)
  \/ PoolTake
  \/ \E f \in Fibers : OpenJob(f) \/ UseJob(f) \/ OpenFails(f) \/ PoolSend(f)
  \/ \E f \in Fibers : BuildOpen(f) \/ BuildUse(f)

Spec == Init /\ [][Next]_vars

-----------------------------------------------------------------------------

\* Every handle of the registry is one that was given out by the counter.
TypeOK ==
  /\ OffloadTypeOK /\ job \in [Fibers -> Jobs \cup {Idle}]
  /\ NEXT_FILE_ID \in 1 .. MaxFiles + 1
  /\ opened \in 0 .. MaxFiles
  /\ file_registry \in [Handle -> File \cup {None}]
  /\ given \in [Handle -> File \cup {None}]
  /\ closed \subseteq Handle
  /\ \A h \in Handle : file_registry[h] # None => h < NEXT_FILE_ID

InUse(h) == {f \in Busy : job[f].handle = h /\ job[f].file # None}

\* A handle the program was given stands for the file it was opened with until
\* the program closes it: in the registry, or with the one job that uses it.
HandlesKept ==
  \A h \in Handle : given[h] # None /\ h \notin closed =>
    \/ file_registry[h] = given[h] /\ InUse(h) = {}
    \/ file_registry[h] = None /\ \E f \in InUse(h) :
         InUse(h) = {f} /\ job[f].file = given[h]

\* A close that returned Ok is final: no operation that was under way, in this
\* fiber or another, brings the file back.
ClosedForever ==
  \A h \in closed : file_registry[h] = None /\ InUse(h) = {}
=============================================================================
