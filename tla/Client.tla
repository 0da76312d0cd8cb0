-------------------------------- MODULE Client --------------------------------
(***************************************************************************)
(* The console client at the other end of one connection.  Its main thread *)
(* is a menu driven by lines from the keyboard, which another thread puts  *)
(* into a pipe, and by messages from the server; a third thread, started   *)
(* by the first successful sign_in, sends heartbeats.  Of the server only  *)
(* what the client can see is here: it answers requests, pushes messages,  *)
(* and hangs up on a connection whose time is over (module Heartbeat).     *)
(* Time is counted in units of which Timeout and Period are multiples.     *)
(***************************************************************************)
EXTENDS Integers, Sequences

CONSTANTS
    Timeout,    \* HEARTBEAT_TIMEOUT_SEC
    Period,     \* the sleep of heartbeat_thread
    MaxInbox,   \* bound: messages not yet read when another is pushed
    MaxFaults   \* bound: sends given up, requests answered unintelligibly

ASSUME ClientAssumption ==
    /\ Timeout \in Nat /\ Period \in Nat \ {0} /\ Period < Timeout
    /\ MaxInbox \in Nat \ {0} /\ MaxFaults \in Nat

VARIABLES
    cur,      \* cur_state; "end" once main has left its loop
    pipe,     \* what waits in pipe_fd, "" if nothing
    hb,       \* heartbeat_thread: "none" before it starts, "sleep", "ended"
    nap,      \* what is left of its sleep
    req,      \* the request the server has not answered, or "none"
    inbox,    \* messages of the server not yet read
    server,   \* the server's end: "down", "open", "closed"
    signed,   \* the server knows the name of this connection
    left,     \* time until the connection expires
    beat,     \* a heartbeat is on its way to the server
    late,     \* ghost: the thread started too late for its first heartbeat
    faults    \* faults so far

keyboard == <<pipe>>
thread   == <<hb, nap, late>>
network  == <<req, inbox, server, signed, left, beat>>
vars     == <<cur, pipe, thread, network, faults>>

(* What the menu asks for; where each question leads; what an answer ends.   *)
MenuLine == {<<"1", "signin_username">>, <<"2", "signup_username">>,
             <<"4", "single_chat_user">>, <<"5", "multi_chat_user">>,
             <<"6", "broadcast_chat_msg">>}
MenuRequest == {<<"3", "show_online_user">>, <<"7", "show_history">>}
Question == {<<"signin_username", "signin_password">>,
             <<"signup_username", "signup_password">>,
             <<"single_chat_user", "single_chat_text">>,
             <<"multi_chat_user", "multi_chat_msg">>}
LastQuestion == {<<"signin_password", "sign_in">>, <<"signup_password", "sign_up">>,
                 <<"single_chat_text", "single_chat">>,
                 <<"multi_chat_msg", "multi_chat">>,
                 <<"broadcast_chat_msg", "broadcast_chat">>}

Asking   == {"signin_username", "signin_password", "signup_username",
             "signup_password", "single_chat_user", "single_chat_text",
             "multi_chat_user", "multi_chat_msg", "broadcast_chat_msg"}
States   == {"connect", "menu", "wait_resp", "end"} \cup Asking
Requests == {"sign_in", "sign_up", "single_chat", "multi_chat",
             "broadcast_chat", "show_online_user", "show_history"}
Lines    == {"1", "2", "3", "4", "5", "6", "7", "q", "text"}

(* The codes of the server's answers, and of what others' messages look like *)
(* to their recipients; "notice" is every message the client only prints.    *)
AnswerCodes(r) ==
    {"0"} \cup (IF r \in {"single_chat", "broadcast_chat"} THEN {"2"} ELSE {"1"})
Pushes == {<<"single_chat", "1">>, <<"multi_chat", "2">>,
           <<"broadcast_chat", "1">>, <<"notice", "1">>}

Init ==
    /\ cur = "connect" /\ pipe = ""
    /\ hb = "none" /\ nap = 0 /\ late = FALSE
    /\ req = "none" /\ inbox = <<>> /\ server = "down"
    /\ signed = FALSE /\ left = Timeout /\ beat = FALSE
    /\ faults = 0

-----------------------------------------------------------------------------
(* The main thread.                                                          *)

(* The loop is left: finish() cancels the other two threads.                 *)
Finish ==
    /\ cur' = "end" /\ hb' = "ended"
    /\ UNCHANGED <<nap, late, faults>>

(* Mutant: the heartbeat thread is started with the connection. *)
ConnectBeating ==
    /\ cur = "connect" /\ server = "down"
    /\ cur' = "menu" /\ server' = "open" /\ hb' = "sleep" /\ nap' = Period
    /\ UNCHANGED <<late, keyboard, req, inbox, signed, left, beat, faults>>

(* EPOLLOUT on the socket: connected, or the connection failed.              *)
Connect ==
    /\ cur = "connect" /\ server = "down"
    /\ \/ cur' = "menu" /\ server' = "open" /\ UNCHANGED <<thread, faults>>
       \/ Finish /\ server' = "closed"
    /\ UNCHANGED <<keyboard, req, inbox, signed, left, beat>>

(* send_message, whose result nobody looks at: it reaches the server, or the *)
(* server is gone, or the socket was full for too long.                      *)
Send(r) ==
    /\ \/ server = "open" /\ req' = r /\ UNCHANGED faults
       \/ server # "open" /\ UNCHANGED <<req, faults>>
       \/ faults < MaxFaults /\ faults' = faults + 1 /\ UNCHANGED req
    /\ UNCHANGED <<inbox, server, signed, left, beat>>

(* handle_pipe_input reads all the pipe holds as one line.                   *)
Read == cur # "end" /\ pipe # "" /\ pipe' = ""

Quit ==
    /\ Read /\ pipe = "q"
    /\ Finish
    /\ UNCHANGED network

Ask ==
    /\ Read /\ pipe # "q" /\ UNCHANGED thread
    /\ \E s \in Asking :
         /\ \/ cur = "menu" /\ <<pipe, s>> \in MenuLine
            \/ <<cur, s>> \in Question
         /\ cur' = s
    /\ UNCHANGED <<network, faults>>

(* Mutant: the menu stays open while the answer is on its way. *)
RequestKeepsMenu ==
    /\ Read /\ pipe # "q" /\ UNCHANGED thread
    /\ \E r \in Requests :
         /\ \/ cur = "menu" /\ <<pipe, r>> \in MenuRequest
            \/ <<cur, r>> \in LastQuestion
         /\ Send(r)
    /\ cur' = IF cur = "menu" THEN "menu" ELSE "wait_resp"

Request ==
    /\ Read /\ pipe # "q" /\ UNCHANGED thread
    /\ \E r \in Requests :
         /\ \/ cur = "menu" /\ <<pipe, r>> \in MenuRequest
            \/ <<cur, r>> \in LastQuestion
         /\ Send(r)
    /\ cur' = "wait_resp"

(* A line the menu does not know, or one typed too early.                    *)
Ignore ==
    /\ Read /\ pipe # "q" /\ UNCHANGED thread
    /\ \/ cur \in {"connect", "wait_resp"}
       \/ cur = "menu" /\ pipe \notin {"1", "2", "3", "4", "5", "6", "7"}
    /\ UNCHANGED <<cur, network, faults>>

(* handle_server_message: m is somebody else's message.                      *)
IsPush(m) == m \in Pushes

(* Where an answer leads: a new account goes on to sign in.                  *)
Then(m) == IF m = <<"sign_up", "1">> THEN "signin_username" ELSE "menu"

(* Mutant: the thread sleeps for as long as the server is patient. *)
StartsLazily(m) ==
    IF m = <<"sign_in", "1">> /\ hb = "none"
    THEN hb' = "sleep" /\ nap' = Timeout /\ late' = (left <= Period)
    ELSE UNCHANGED thread

(* heartbeat_started is never cleared: a thread that has ended stays so.     *)
Starts(m) ==
    IF m = <<"sign_in", "1">> /\ hb = "none"
    THEN hb' = "sleep" /\ nap' = Period /\ late' = (left <= Period)
    ELSE UNCHANGED thread

Receive ==
    /\ cur \notin {"connect", "end"} /\ inbox # <<>>
    /\ LET m == Head(inbox)
       IN  IF IsPush(m) THEN UNCHANGED <<cur, thread>>
                        ELSE cur' = Then(m) /\ Starts(m)
    /\ inbox' = Tail(inbox)
    /\ UNCHANGED <<keyboard, req, server, signed, left, beat, faults>>

(* recv_message returns false on the end of the connection before it has     *)
(* looked at what came with it.                                              *)
EndOfFile ==
    /\ cur \notin {"connect", "end"} /\ server = "closed"
    /\ Finish
    /\ UNCHANGED <<keyboard, network>>

-----------------------------------------------------------------------------
(* The other threads.                                                        *)

(* handle_stdin: a line typed before the last one was read makes one text    *)
(* of both.                                                                  *)
Type(l) ==
    /\ cur # "end"
    /\ pipe' = IF pipe = "" THEN l ELSE "text"
    /\ UNCHANGED <<cur, thread, network, faults>>

(* heartbeat_thread: the first send on a dead connection may still succeed.  *)
Beat ==
    /\ hb = "sleep" /\ nap = 0
    /\ nap' = Period
    /\ beat' = (server = "open")
    /\ UNCHANGED <<cur, keyboard, hb, late, req, inbox, server, signed, left, faults>>

BeatFails ==
    /\ hb = "sleep" /\ nap = 0
    /\ \/ server # "open" /\ UNCHANGED faults
       \/ faults < MaxFaults /\ faults' = faults + 1
    /\ hb' = "ended"
    /\ UNCHANGED <<cur, keyboard, nap, late, network>>

-----------------------------------------------------------------------------
(* The server.                                                               *)

Answer(c) ==
    /\ server = "open" /\ c \in AnswerCodes(req) /\ req # "none"
    /\ req = "show_history" => signed /\ c = "1"
    /\ req \in {"single_chat", "broadcast_chat"} /\ c = "2" => signed
    /\ inbox' = Append(inbox, <<req, c>>)
    /\ signed' = (signed \/ <<req, c>> = <<"sign_in", "1">>)
    /\ req' = "none"
    /\ UNCHANGED <<cur, keyboard, thread, server, left, beat, faults>>

(* The history of somebody who has not signed in: no answer at all.          *)
NoAnswer ==
    /\ server = "open" /\ req = "show_history" /\ ~signed
    /\ req' = "none"
    /\ UNCHANGED <<cur, keyboard, thread, inbox, server, signed, left, beat, faults>>

(* Without a database connection the answer is a text the client skips.      *)
NoDatabase ==
    /\ server = "open" /\ req # "none" /\ faults < MaxFaults
    /\ req' = "none" /\ faults' = faults + 1
    /\ UNCHANGED <<cur, keyboard, thread, inbox, server, signed, left, beat>>

Push(m) ==
    /\ server = "open" /\ Len(inbox) < MaxInbox /\ (signed \/ m[1] = "notice")
    /\ inbox' = Append(inbox, m)
    /\ UNCHANGED <<cur, keyboard, thread, req, server, signed, left, beat, faults>>

(* The command heartbeat: update_expire.                                     *)
BeatArrives ==
    /\ server = "open" /\ beat
    /\ beat' = FALSE /\ left' = Timeout /\ late' = FALSE
    /\ UNCHANGED <<cur, keyboard, hb, nap, req, inbox, server, signed, faults>>

(* check_timeout, on a connection whose time is over.                        *)
TimeOut ==
    /\ server = "open" /\ left = 0
    /\ server' = "closed"
    /\ UNCHANGED <<cur, keyboard, thread, req, inbox, signed, left, beat, faults>>

(* Every other end of the connection.                                        *)
HangUp ==
    /\ server = "open"
    /\ server' = "closed"
    /\ UNCHANGED <<cur, keyboard, thread, req, inbox, signed, left, beat, faults>>

(* Time passes.  A heartbeat that is due is sent, and one sent arrives,      *)
(* within a unit.                                                            *)
Tick ==
    /\ server = "open" /\ ~beat /\ left > 0
    /\ hb = "sleep" => nap > 0
    /\ left' = left - 1
    /\ nap' = IF hb = "sleep" THEN nap - 1 ELSE nap
    /\ UNCHANGED <<cur, keyboard, hb, late, req, inbox, server, signed, beat, faults>>

-----------------------------------------------------------------------------
HandleInput == Quit \/ Ask \/ Request \/ Ignore
Serve == (\E c \in {"0", "1", "2"} : Answer(c)) \/ NoAnswer

Next == \/ Connect \/ HandleInput \/ Receive \/ EndOfFile
        \/ \E l \in Lines : Type(l)
        \/ Beat \/ BeatFails
        \/ Serve \/ NoDatabase \/ (\E m \in Pushes : Push(m))
        \/ BeatArrives \/ TimeOut \/ HangUp \/ Tick

Spec == Init /\ [][Next]_vars

(* The client reads what arrives, its heartbeats are sent and handled, the   *)
(* server serves, time passes and check_timeout runs.                        *)
FairSpec ==
    /\ Spec
    /\ WF_vars(Receive) /\ WF_vars(EndOfFile) /\ WF_vars(Beat)
    /\ WF_vars(Serve) /\ WF_vars(BeatArrives) /\ WF_vars(Tick) /\ WF_vars(TimeOut)

-----------------------------------------------------------------------------
TypeOK ==
    /\ cur \in States /\ pipe \in Lines \cup {""}
    /\ hb \in {"none", "sleep", "ended"} /\ nap \in 0..Period /\ late \in BOOLEAN
    /\ req \in Requests \cup {"none"}
    /\ inbox \in Seq((Requests \cup {"notice"}) \X {"0", "1", "2"})
    /\ server \in {"down", "open", "closed"}
    /\ signed \in BOOLEAN /\ left \in 0..Timeout /\ beat \in BOOLEAN
    /\ faults \in 0..MaxFaults

(* A request under way, and then its answer, finds the client waiting, and   *)
(* there is one of them at a time: so nothing the server says, neither an    *)
(* answer nor the messages of others, which have the same types, ends a      *)
(* dialog the user is in (handle_server_message, epoll_client.cpp:373).      *)
Answers == {i \in 1..Len(inbox) : ~IsPush(inbox[i])}
Matched ==
    /\ req # "none" \/ Answers # {} => cur \in {"wait_resp", "end"}
    /\ \A i, j \in Answers : i = j
    /\ req # "none" => Answers = {}

(* The server takes the connection of no client whose heartbeat thread runs  *)
(* (sleep(15) against HEARTBEAT_TIMEOUT_SEC), unless the thread was started  *)
(* too late: by a sign_in within a Period of the end of the connection.      *)
KeptAlive == [][TimeOut => hb # "sleep" \/ late]_vars

(* Who waits for an answer gets out of it, if by losing the connection: also *)
(* who asked for a history before signing in, which is not answered, since   *)
(* without a sign_in there are no heartbeats either.                         *)
EventuallyFree ==
    cur = "wait_resp" /\ faults = 0 ~> cur # "wait_resp" \/ faults > 0
===============================================================================
