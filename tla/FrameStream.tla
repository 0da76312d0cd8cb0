----------------------------- MODULE FrameStream -----------------------------
(***************************************************************************)
(* What the framing layer promises: whatever the chunks in which the bytes *)
(* leave and arrive, the messages handed on are those sent, in order, each *)
(* once, up to the first one whose frame was torn by its sender; what      *)
(* comes after that is anybody's guess.  The connection may be given up at *)
(* any moment.                                                             *)
(***************************************************************************)
EXTENDS Naturals, Sequences

CONSTANT Messages

VARIABLES
    sent,       \* the messages begun on this connection
    torn,       \* the first of them that was torn, 0 if none was
    delivered,  \* those handed to the worker pool so far
    closed      \* the server has given the connection up

vars == <<sent, torn, delivered, closed>>

Init == sent = <<>> /\ torn = 0 /\ delivered = <<>> /\ closed = FALSE

Send ==
    /\ \E m \in Messages : sent' = Append(sent, m)
    /\ UNCHANGED <<torn, delivered, closed>>

(* The message torn has not been handed on.                                  *)
Tear ==
    /\ torn = 0 /\ torn' \in (Len(delivered) + 1)..Len(sent)
    /\ UNCHANGED <<delivered, closed>>
    /\ UNCHANGED sent \/ (\E m \in Messages : sent' = Append(sent, m))

Turn == Len(delivered) + 1
Deliver ==
    /\ ~closed /\ Turn <= Len(sent)
    /\ torn = 0 \/ Turn < torn
    /\ delivered' = Append(delivered, sent[Turn])
    /\ UNCHANGED <<sent, torn, closed>>

DeliverAnything ==
    /\ ~closed /\ torn # 0 /\ Turn >= torn
    /\ Len(delivered') = Turn
    /\ SubSeq(delivered', 1, Len(delivered)) = delivered
    /\ UNCHANGED <<sent, torn, closed>>

Close == ~closed /\ closed' = TRUE /\ UNCHANGED <<sent, torn, delivered>>

Next == Send \/ Tear \/ Deliver \/ DeliverAnything \/ Close

(* A message sent whole is handed on.                                        *)
Spec == Init /\ [][Next]_vars /\ WF_vars(Deliver)
===============================================================================
