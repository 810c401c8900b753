----------------------------- MODULE MCEventLoop -----------------------------
(* EventLoop with two connections, two threads that stop the server, and a  *)
(* destructor that may make three passes (64 in the code: fewer is harder). *)
EXTENDS EventLoop

CONSTANTS c1, c2, t1, t2

MCConns    == {c1, c2}
MCStoppers == {t1, t2}
===============================================================================
