----------------------------- MODULE MCDelivery -----------------------------
(* Instances of Delivery for TLC: two servers with one descriptor each, so   *)
(* that its number is reused; a user with a message or two, and another user *)
(* who may get that number.                                                  *)
EXTENDS Delivery

CONSTANTS s1, s2, u1, u2, m1, m2

MCServers   == {s1, s2}
MCUsers     == {u1, u2}
MCOneUser   == {u1}
MCMsgs      == {m1, m2}
MCToFirst   == [m \in MCMsgs |-> u1]
MCToEach    == [m \in MCMsgs |-> IF m = m1 THEN u1 ELSE u2]
MCRowOwn    == [m \in MCMsgs |-> m]
MCBad       == {m1}
MCNoBad     == {}
MCQuiet     == {"patient", "quiet_leave", "quiet_login"}
MCLeave     == {"patient", "quiet_leave"}
=============================================================================
