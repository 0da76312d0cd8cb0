---------------------------- MODULE MCEventLoop ----------------------------
(* An instance of EventLoop for TLC: two clients and a third user of         *)
(* descriptors, but only two of these.                                       *)
EXTENDS EventLoop

CONSTANTS c1, c2

MCClients == {c1, c2}
MCFds     == {5, 6}
=============================================================================
