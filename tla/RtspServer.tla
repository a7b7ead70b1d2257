----------------------------- MODULE RtspServer -----------------------------
(***************************************************************************)
(* The RTSP side of mpp_rtsp_server.cpp: the listening thread, which gives *)
(* every accepted connection a slot of g_rtspClients and a message thread, *)
(* and the message threads, which answer requests and end sessions.        *)
(*                                                                         *)
(* Nothing here is locked.  All threads read and write g_rtspClients, and  *)
(* a message thread reads pClient->socket anew each time it uses it.       *)
(* Descriptors are numbers, so a number that was closed comes back as      *)
(* another socket; the global udpfd starts as 0, which is standard input.  *)
(*                                                                         *)
(* A client makes one connection, so a client, its connection and the      *)
(* message thread created for it share one name.                           *)
(***************************************************************************)
EXTENDS Integers, Sequences, FiniteSets

CONSTANTS Client,
          MAX_RTSP_CLIENT,
          MaxFd,            \* bound: the highest descriptor the process can open
          Patient           \* do clients wait until the server is quiet?

ASSUME ServerAssumption ==
    /\ MAX_RTSP_CLIENT \in Nat \ {0}
    /\ MaxFd \in Nat
    /\ Patient \in BOOLEAN
    /\ Client \cap {"none", "free", "stdin", "udp"} = {}

VARIABLES
    slots,       \* g_rtspClients
    udpfd,
    fdt,         \* the descriptor table
    listener,    \* where rtsp_server_listen_thread is
    newfd,       \* s32CSocket
    guest,       \* the client it accepted
    target,      \* the slot it fills
    thread,      \* the message threads
    backlog,     \* connections not accepted yet
    gone         \* clients that closed their end

vars == <<slots, udpfd, fdt, listener, newfd, guest, target, thread,
          backlog, gone>>
listenVars == <<listener, newfd, guest, target, backlog>>

-----------------------------------------------------------------------------

Slot == 0 .. MAX_RTSP_CLIENT - 1
FD   == 0 .. MaxFd
NoFd == -1

Status  == {"RTSP_IDLE", "RTSP_CONNECTED", "RTSP_SENDING"}
Request == {"OPTIONS", "DESCRIBE", "SETUP", "PLAY", "PAUSE", "TEARDOWN", "other"}

\* session stands for sessionid and IP: whose session the slot holds.
RTSP_CLIENT == [status : Status, socket : FD \cup {NoFd},
                session : Client \cup {"none"}]
Zeroed == [status |-> "RTSP_IDLE", socket |-> 0, session |-> "none"]

\* Message thread locations:
\*   "test" the loop condition        "call" reads pClient->socket for recv
\*   "recv" blocked in recv           "answer" has a request
\*   "socket" in PlayAnswer, answer sent     "sending" status = RTSP_SENDING
\*   "closeudp" in TeardownAnswer, answer sent
\*   "idle" status = RTSP_IDLE        "close" close(pClient->socket)
\*   "failed" pthread_create failed: there is no such thread
Busy     == {"test", "call", "recv", "answer", "socket", "sending", "closeudp", "idle", "close"}
Location == Busy \cup {"none", "exited", "failed"}

\* peer: the open file the thread's recv waits on, whatever its number becomes.
Thread == [pc : Location, slot : Slot, peer : Client \cup {"udp", "none"},
           cmd : Request \cup {"error", "none"}]

Goto(c, location) == thread' = [thread EXCEPT ![c].pc = location]
\* To a point where the request is over.
Done(c, location) ==
    thread' = [thread EXCEPT ![c] = [@ EXCEPT !.pc = location, !.peer = "none", !.cmd = "none"]]
Mine(c) == slots[thread[c].slot]          \* *pClient

\* The process opens and closes descriptors all the time (dma_buf_alloc, for
\* every frame), so the lowest free number may be any number free here.
Free == {f \in FD : fdt[f] = "free"}

Closed(f) == IF f \in FD THEN [fdt EXCEPT ![f] = "free"] ELSE fdt

Accepted(c) == thread[c].pc # "none"
Quiet ==
    /\ backlog = <<>> /\ listener \in {"accept", "exited"}
    /\ \A c \in Client : thread[c].pc \in {"none", "exited", "failed"}

\* rtsp_server_init
Init ==
    /\ slots = [s \in Slot |-> Zeroed]
    /\ udpfd = 0
    /\ fdt = [f \in FD |-> IF f = 0 THEN "stdin" ELSE "free"]
    /\ listener = "accept"
    /\ newfd = NoFd
    /\ guest = "none"
    /\ target = 0
    /\ thread = [c \in Client |-> [pc |-> "none", slot |-> 0, peer |-> "none", cmd |-> "none"]]
    /\ backlog = <<>>
    /\ gone = {}

-----------------------------------------------------------------------------
(* The clients *)

InBacklog(c) == \E n \in DOMAIN backlog : backlog[n] = c

Connect(c) ==
    /\ ~Accepted(c) /\ ~InBacklog(c) /\ c \notin gone
    /\ guest # c
    /\ Patient => Quiet
    /\ backlog' = Append(backlog, c)
    /\ UNCHANGED <<slots, udpfd, fdt, listener, newfd, guest, target, thread, gone>>

Leave(c) ==
    /\ Accepted(c) /\ c \notin gone
    /\ gone' = gone \cup {c}
    /\ UNCHANGED <<slots, udpfd, fdt, listenVars, thread>>

-----------------------------------------------------------------------------
(* rtsp_server_listen_thread *)

Accept ==
    /\ listener = "accept"
    /\ backlog # <<>>
    /\ \E f \in Free : newfd' = f /\ fdt' = [fdt EXCEPT ![f] = Head(backlog)]
    /\ guest' = Head(backlog)
    /\ backlog' = Tail(backlog)
    /\ listener' = "claim"
    /\ UNCHANGED <<slots, udpfd, target, thread, gone>>

\* accept fails (no descriptor is left in the process, a signal, a connection
\* that was aborted), and the thread returns.
AcceptError ==
    /\ listener = "accept"
    /\ listener' = "exited"
    /\ UNCHANGED <<slots, udpfd, fdt, newfd, guest, target, thread, backlog, gone>>

\* Mutant: the excess client goes where the loop index was left.
ClaimPastEnd ==
    /\ listener = "claim"
    /\ \E s \in 0 .. MAX_RTSP_CLIENT :
          /\ \A r \in 0 .. s - 1 : slots[r].status # "RTSP_IDLE"
          /\ s \in Slot => slots[s].status = "RTSP_IDLE"
          /\ slots' = [r \in Slot |-> IF r = s THEN Zeroed ELSE slots[r]]
          /\ target' = s
    /\ listener' = "publish"
    /\ UNCHANGED <<udpfd, fdt, newfd, guest, thread, backlog, gone>>

Idle(s) == slots[s].status = "RTSP_IDLE"

\* Mutant: without an idle slot the listening thread waits for one.
ClaimIdleOnly ==
    /\ listener = "claim"
    /\ \E s \in Slot :
          /\ Idle(s) /\ \A r \in 0 .. s - 1 : ~Idle(r)
          /\ slots' = [slots EXCEPT ![s] = Zeroed]
          /\ target' = s
    /\ listener' = "publish"
    /\ UNCHANGED <<udpfd, fdt, newfd, guest, thread, backlog, gone>>

\* The first idle slot, or slot 0 whoever is in it, is zeroed.
Claim ==
    /\ listener = "claim"
    /\ \E s \in Slot :
          /\ \/ Idle(s) /\ \A r \in 0 .. s - 1 : ~Idle(r)
             \/ s = 0 /\ \A r \in Slot : ~Idle(r)
          /\ slots' = [slots EXCEPT ![s] = Zeroed]
          /\ target' = s
    /\ listener' = "publish"
    /\ UNCHANGED <<udpfd, fdt, newfd, guest, thread, backlog, gone>>

\* The slot is filled, and a message thread gets a pointer to it. Whether it was
\* created is not looked at.
Publish ==
    /\ listener = "publish"
    /\ slots' = [slots EXCEPT ![target] =
                   [status |-> "RTSP_CONNECTED", socket |-> newfd,
                    session |-> guest]]
    /\ \E pc \in {"test", "failed"} :
          thread' = [thread EXCEPT ![guest] = [@ EXCEPT !.pc = pc, !.slot = target]]
    /\ listener' = "accept"
    /\ newfd' = NoFd
    /\ guest' = "none"
    /\ UNCHANGED <<udpfd, fdt, target, backlog, gone>>

rtsp_server_listen_thread == Accept \/ AcceptError \/ Claim \/ Publish

-----------------------------------------------------------------------------
(* repose_rtsp_clinet_msg_thread *)

Test(c) ==
    /\ thread[c].pc = "test"
    /\ Goto(c, IF Mine(c).status = "RTSP_IDLE" THEN "exited" ELSE "call")
    /\ UNCHANGED <<slots, udpfd, fdt, listenVars, gone>>

\* recv(pClient->socket) holds on to the file that has this number now.
Call(c) ==
    LET f == Mine(c).socket
        file == IF f \in FD THEN fdt[f] ELSE "free"
    IN  /\ thread[c].pc = "call"
        /\ thread' = [thread EXCEPT ![c].pc = "recv",
                          ![c].peer = IF file \in {"free", "stdin"} THEN "none" ELSE file]
        /\ UNCHANGED <<slots, udpfd, fdt, listenVars, gone>>

\* ParseRequestString's result is ignored: anything received is a request.
RecvRequest(c) ==
    /\ thread[c].pc = "recv"
    /\ thread[c].peer \in Client \ gone
    /\ \E r \in Request :
          thread' = [thread EXCEPT ![c].pc = "answer", ![c].cmd = r]
    /\ UNCHANGED <<slots, udpfd, fdt, listenVars, gone>>

\* Mutant: recv's 0 is no error, only -1 is.
RecvErrorRetries(c) ==
    /\ thread[c].pc = "recv"
    /\ thread[c].peer \notin Client \ gone
    /\ thread' = [thread EXCEPT ![c].pc = IF thread[c].peer \in gone THEN "test" ELSE "idle",
                                ![c].cmd = IF thread[c].peer \in gone THEN "none" ELSE "error"]
    /\ UNCHANGED <<slots, udpfd, fdt, listenVars, gone>>

\* recv returns 0 when the client has left, -1 for what is no TCP socket.
RecvError(c) ==
    /\ thread[c].pc = "recv"
    /\ thread[c].peer \notin Client \ gone
    /\ thread' = [thread EXCEPT ![c].pc = "idle", ![c].cmd = "error"]
    /\ UNCHANGED <<slots, udpfd, fdt, listenVars, gone>>

\* send(sock): 0 counts as no socket. A send to a client that has left, or on
\* a UDP socket that got the number, may succeed or fail. (SIGPIPE would end the
\* process, and with it all that is modelled here.)
Sendable(sock) == sock \in FD \ {0} /\ fdt[sock] \in Client \cup {"udp"}
SendOutcomes(sock) ==
    IF ~Sendable(sock) THEN {FALSE}
    ELSE IF fdt[sock] \in Client \ gone THEN {TRUE} ELSE BOOLEAN

\* OptionAnswer, DescribeAnswer, SetupAnswer (whose ports matter to the sender
\* only), PauseAnswer, and requests nobody answers.  Whether the answer was sent
\* is ignored.
AnswerOnly(c) ==
    /\ thread[c].pc = "answer"
    /\ thread[c].cmd \in {"OPTIONS", "DESCRIBE", "SETUP", "PAUSE", "other"}
    /\ Done(c, "test")
    /\ UNCHANGED <<slots, udpfd, fdt, listenVars, gone>>

\* PlayAnswer, up to its send.
AnswerPlay(c) ==
    /\ thread[c].pc = "answer"
    /\ thread[c].cmd = "PLAY"
    /\ \E sent \in SendOutcomes(Mine(c).socket) :
          Goto(c, IF sent THEN "socket" ELSE "sending")
    /\ UNCHANGED <<slots, udpfd, fdt, listenVars, gone>>

\* PlayAnswer after a successful send: the previous udpfd is not closed.
OpenUdp(c) ==
    /\ thread[c].pc = "socket"
    /\ \/ \E f \in Free : udpfd' = f /\ fdt' = [fdt EXCEPT ![f] = "udp"]
       \/ udpfd' = NoFd /\ UNCHANGED fdt
    /\ Goto(c, "sending")
    /\ UNCHANGED <<slots, listenVars, gone>>

\* Whatever became of PlayAnswer.
StartSending(c) ==
    /\ thread[c].pc = "sending"
    /\ slots' = [slots EXCEPT ![thread[c].slot].status = "RTSP_SENDING"]
    /\ Done(c, "test")
    /\ UNCHANGED <<udpfd, fdt, listenVars, gone>>

\* TeardownAnswer, up to its send.
AnswerTeardown(c) ==
    /\ thread[c].pc = "answer"
    /\ thread[c].cmd = "TEARDOWN"
    /\ \E sent \in SendOutcomes(Mine(c).socket) :
          Goto(c, IF sent THEN "closeudp" ELSE "idle")
    /\ UNCHANGED <<slots, udpfd, fdt, listenVars, gone>>

\* TeardownAnswer after a successful send: udpfd keeps the number it closed.
CloseUdp(c) ==
    /\ thread[c].pc = "closeudp"
    /\ fdt' = Closed(udpfd)
    /\ Goto(c, "idle")
    /\ UNCHANGED <<slots, udpfd, listenVars, gone>>

\* Mutant: the session is not marked idle.
EndSessionSilently(c) ==
    /\ thread[c].pc = "idle"
    /\ Goto(c, "close")
    /\ UNCHANGED <<slots, udpfd, fdt, listenVars, gone>>

\* The slot is offered for reuse here, before its socket is closed.
EndSession(c) ==
    /\ thread[c].pc = "idle"
    /\ slots' = [slots EXCEPT ![thread[c].slot].status = "RTSP_IDLE"]
    /\ Goto(c, "close")
    /\ UNCHANGED <<udpfd, fdt, listenVars, gone>>

\* Mutant: the thread breaks out of its loop before close.
CloseSocketForgotten(c) ==
    /\ thread[c].pc = "close"
    /\ fdt' = IF thread[c].cmd = "error" THEN fdt ELSE Closed(Mine(c).socket)
    /\ Done(c, IF thread[c].cmd = "error" THEN "exited" ELSE "test")
    /\ UNCHANGED <<slots, udpfd, listenVars, gone>>

\* close(pClient->socket), then break after a failed recv, or the loop
\* condition after TEARDOWN.
CloseSocket(c) ==
    /\ thread[c].pc = "close"
    /\ fdt' = Closed(Mine(c).socket)
    /\ Done(c, IF thread[c].cmd = "error" THEN "exited" ELSE "test")
    /\ UNCHANGED <<slots, udpfd, listenVars, gone>>

repose_rtsp_clinet_msg_thread(c) ==
    \/ Test(c) \/ Call(c) \/ RecvRequest(c) \/ RecvError(c)
    \/ AnswerOnly(c)
    \/ AnswerPlay(c) \/ OpenUdp(c) \/ StartSending(c)
    \/ AnswerTeardown(c) \/ CloseUdp(c)
    \/ EndSession(c) \/ CloseSocket(c)

-----------------------------------------------------------------------------

Next ==
    \/ rtsp_server_listen_thread
    \/ \E c \in Client : Connect(c) \/ Leave(c) \/ repose_rtsp_clinet_msg_thread(c)

Spec == Init /\ [][Next]_vars

(* Fairness: the server's threads are scheduled, accept returns once there is *)
(* a connection, with an error when there is no descriptor for it, and recv   *)
(* once there is something to return (on a UDP socket there may never be).    *)
(* Nothing is assumed of the clients.                                         *)
FairSpec ==
    /\ Spec
    /\ WF_vars(Accept \/ (backlog # <<>> /\ Free = {} /\ AcceptError) \/ Claim \/ Publish)
    /\ \A c \in Client :
          WF_vars((thread[c].pc = "recv" => thread[c].peer # "udp")
                    /\ repose_rtsp_clinet_msg_thread(c))

-----------------------------------------------------------------------------
(* Properties *)

\* Every variable keeps its type, and the listening thread fills a slot that
\* exists.
TypeOK ==
    /\ slots \in [Slot -> RTSP_CLIENT]
    /\ udpfd \in FD \cup {NoFd}
    /\ fdt \in [FD -> Client \cup {"free", "stdin", "udp"}]
    /\ listener \in {"accept", "claim", "publish", "exited"}
    /\ newfd \in FD \cup {NoFd}
    /\ guest \in Client \cup {"none"}
    /\ target \in Slot
    /\ thread \in [Client -> Thread]
    /\ backlog \in Seq(Client)
    /\ gone \subseteq Client

\* A thread that will test the slot's status again before it returns.
Looping(c) == thread[c].pc \in Busy /\ ~(thread[c].pc = "close" /\ thread[c].cmd = "error")

\* The slot belongs to a client for which pthread_create failed.
Abandoned(s) == slots[s].session \in Client /\ thread[slots[s].session].pc = "failed"

\* A session never outlives its threads: a slot that is in use has a message
\* thread that will notice the end of the connection, in spite of every race
\* between the listening thread reusing a slot and threads ending its session.
\* The only session nobody ends is one whose thread could not be created.
NoOrphanSession ==
    \A s \in Slot :
        slots[s].status # "RTSP_IDLE" =>
            Abandoned(s) \/ \E c \in Client : thread[c].slot = s /\ Looping(c)

\* When no session is left, no accepted socket is left open, however the
\* sessions ended and also when the listening thread has returned, but for
\* those that pthread_create gave no thread.  For patient clients.
SocketsClosed ==
    Quiet => \A f \in FD : fdt[f] \in Client => thread[fdt[f]].pc = "failed"

\* A message thread only ends the session of its own client, also after the
\* listening thread gave the slot to another one.
EndsOwnSession ==
    [][\A c \in Client :
          thread[c].pc = "idle" /\ thread'[c].pc = "close" /\ Mine(c).session # "none"
            => Mine(c).session = c]_vars

\* The answer to a request goes out on the connection the request came from, as
\* long as the client is there.
RequestsAnswered ==
    [][\A c \in Client :
          thread[c].pc = "answer" /\ thread'[c].pc # "answer"
            => \/ thread[c].peer \in gone \/ thread[c].cmd = "other"
               \/ /\ Sendable(Mine(c).socket)
                  /\ fdt[Mine(c).socket] = thread[c].peer]_vars

\* A client that left is noticed: its thread returns, having freed the slot.
\* For patient clients.
SessionEnds ==
    \A c \in Client : c \in gone /\ thread[c].pc \in Busy ~> thread[c].pc = "exited"

\* A connection does not wait for the sessions before it: it is accepted even
\* when every slot is in use and will stay so (an idle client, a session whose
\* thread could not be created), unless accept fails and nobody listens any more.
BacklogServed ==
    \A c \in Client : InBacklog(c) ~> Accepted(c) \/ listener = "exited"

=============================================================================
