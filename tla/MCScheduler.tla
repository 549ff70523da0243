----------------------------- MODULE MCScheduler -----------------------------
(* Instances of Scheduler for TLC: the waits its programs hand to select.   *)
EXTENDS Scheduler

\* A join or a channel, with a time limit.
FiberSelects == {Wait("select", {1}, {}, {}, 1), Wait("select", {}, {1}, {}, NoDeadline)}

\* A socket with a time limit, and a socket or a fiber, whichever is first.
SocketSelects == {Wait("select", {}, {}, {1}, 1), Wait("select", {1}, {}, {1}, NoDeadline)}

AllSelects == FiberSelects \cup SocketSelects
=============================================================================
