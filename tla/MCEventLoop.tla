---------------------------- MODULE MCEventLoop ----------------------------
(* Small instances of EventLoop for TLC.                                   *)
EXTENDS EventLoop, TLC

CONSTANTS h1, h2, h3, t1, t2, w1

\* Handles and threads are interchangeable; sound for the safety runs.
Interchangeable == Permutations(Handle) \cup Permutations(Thread)
=============================================================================
