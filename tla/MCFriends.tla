------------------------------ MODULE MCFriends ------------------------------
EXTENDS Friends
CONSTANTS ann, bob, cyd
(* Ann's friend Cyd shares a key of the cache with Bob, who comes and goes.  *)
MCAcquainted == {{ann, bob}}
MCOld        == {{ann, cyd}}
===============================================================================
