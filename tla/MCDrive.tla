------------------------------- MODULE MCDrive -------------------------------
(* Instances of Drive for TLC.                                              *)
EXTENDS Drive

NoSelects == {}

\* A socket or a fiber, with a time limit.
SocketSelects == {Wait("select", {1}, {}, {1}, 1)}
=============================================================================
