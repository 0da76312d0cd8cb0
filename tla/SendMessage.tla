----------------------------- MODULE SendMessage -----------------------------
(***************************************************************************)
(* sendMessage, the sending end of a connection: a frame is written to a   *)
(* socket that takes as many bytes as it has room for; when it has none    *)
(* the thread sleeps and tries again, a few times, and then gives up with  *)
(* whatever part of the frame is out.  The reactor is the only thread that *)
(* writes to a client; in the console client the main thread and the       *)
(* heartbeat thread write to the same socket.                              *)
(***************************************************************************)
EXTENDS Integers, Sequences, FiniteSets

CONSTANTS Radix,        \* number of values of a byte
          Messages,     \* messages that may be sent, sequences of bytes
          Filler,       \* bytes a client may put before a frame: sequences of 0
          Threads,      \* threads that write to this socket
          SendBuffer,   \* bytes the socket holds until they are received
          MaxRetries,   \* max_retries
          MaxFrames     \* bound: frames begun on the connection

ASSUME SendMessageAssumption ==
    /\ Radix \in Nat \ {0, 1} /\ SendBuffer \in Nat \ {0}
    /\ MaxRetries \in Nat /\ MaxFrames \in Nat
    /\ \A m \in Messages : m \in Seq(0..(Radix - 1)) /\ Len(m) > 0
    /\ Filler \subseteq Seq({0})

VARIABLES
    sent,    \* the messages of which a byte is out, in this order
    wire,    \* bytes sent and not yet received
    frame,   \* what each thread is sending: the bytes not out yet, retry_count,
             \* and its place in sent once a byte is out
    torn     \* ghost: the first of sent whose frame is broken, 0 if none is

sender == <<sent, wire, frame, torn>>

(* encodeMessage: the length in two digits, most significant first.          *)
Encode(m) == <<Len(m) \div Radix, Len(m) % Radix>> \o m

NoFrame  == [rest |-> <<>>, msg |-> <<>>, retries |-> 0, place |-> 0]
Begun(t) == frame[t].place > 0   \* in the middle of a frame
Waiting  == {t \in Threads : frame[t] # NoFrame /\ ~Begun(t)}

SendInit ==
    /\ sent = <<>> /\ wire = <<>> /\ torn = 0
    /\ frame = [t \in Threads |-> NoFrame]

(* sendMessage is called.  Bound: not after a torn frame, since what follows *)
(* one is not specified.                                                     *)
Start(t, m, z) ==
    /\ frame[t] = NoFrame /\ torn = 0
    /\ Len(sent) + Cardinality(Waiting) < MaxFrames
    /\ frame' = [frame EXCEPT ![t] = [NoFrame EXCEPT !.rest = z \o Encode(m), !.msg = m]]
    /\ UNCHANGED <<sent, wire, torn>>

(* The frames in whose middle t writes; the first torn frame is remembered.  *)
Others(t) == {frame[u].place : u \in {u \in Threads \ {t} : Begun(u)}}
Tear(places) ==
    torn' = IF torn = 0 /\ places # {} THEN CHOOSE p \in places : \A q \in places : p <= q
            ELSE torn

SmallerOf(a, b) == IF a < b THEN a ELSE b
RoomLeft == SendBuffer - Len(wire)

(* send takes what there is room for, at least a byte: retry_count starts    *)
(* over, and the loop goes on with the rest.                                 *)
Progress(t) ==
    /\ frame[t] # NoFrame /\ RoomLeft > 0
    /\ LET f == frame[t]
           n == SmallerOf(RoomLeft, Len(f.rest))
           place == IF Begun(t) THEN f.place ELSE Len(sent) + 1
       IN  /\ wire' = wire \o SubSeq(f.rest, 1, n)
           /\ sent' = IF Begun(t) THEN sent ELSE Append(sent, f.msg)
           /\ frame' = [frame EXCEPT ![t] =
                IF n = Len(f.rest) THEN NoFrame
                ELSE [f EXCEPT !.rest = SubSeq(@, n + 1, Len(@)), !.retries = 0, !.place = place]]
    /\ Tear(Others(t))

(* EAGAIN: sleep a millisecond and try again ...                             *)
Retry(t) ==
    /\ frame[t] # NoFrame /\ RoomLeft = 0 /\ frame[t].retries < MaxRetries
    /\ frame' = [frame EXCEPT ![t].retries = @ + 1]
    /\ UNCHANGED <<sent, wire, torn>>

(* ... but not for ever: sendMessage returns false in the middle of a frame, *)
(* and nobody closes the connection.                                         *)
GiveUp(t) ==
    /\ frame[t] # NoFrame /\ RoomLeft = 0 /\ frame[t].retries = MaxRetries
    /\ frame' = [frame EXCEPT ![t] = NoFrame]
    /\ Tear(IF Begun(t) THEN {frame[t].place} ELSE {})
    /\ UNCHANGED <<sent, wire>>

SendStep == \E t \in Threads :
    \/ \E m \in Messages, z \in Filler : Start(t, m, z)
    \/ Progress(t) \/ Retry(t) \/ GiveUp(t)
=============================================================================
