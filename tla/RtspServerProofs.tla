-------------------------- MODULE RtspServerProofs --------------------------
(***************************************************************************)
(* For any number of clients, slots and descriptors: the types of          *)
(* RtspServer, that a slot in use always has a message thread, and, for    *)
(* patient clients, what becomes of their sockets.                         *)
(*                                                                         *)
(* NoOrphanSession is not inductive: Publish restarts the thread of the    *)
(* guest, which would take the thread away from another slot if it were    *)
(* running.  GuestFresh says it never is, and needs the backlog to hold    *)
(* only clients that have no thread, each once.                            *)
(*                                                                         *)
(* A socket is closed by the number that its slot has.  That this is still *)
(* its number needs the connection to be the only one (OneAtATime) and a   *)
(* record of who has the number of the open socket (SocketTracked).        *)
(***************************************************************************)
EXTENDS RtspServer, TLAPS

BacklogFresh ==
    /\ \A n \in DOMAIN backlog : thread[backlog[n]].pc = "none"
    /\ \A m, n \in DOMAIN backlog : backlog[m] = backlog[n] => m = n

GuestFresh ==
    IF listener \in {"claim", "publish"}
      THEN guest \in Client /\ thread[guest].pc = "none" /\ ~InBacklog(guest) /\ newfd \in FD
      ELSE guest = "none"

ServerInv == TypeOK /\ BacklogFresh /\ GuestFresh /\ NoOrphanSession

USE DEF Slot, FD, NoFd

-----------------------------------------------------------------------------

LEMMA InitInv == Init => ServerInv
<1> SUFFICES ASSUME Init PROVE ServerInv
  OBVIOUS
<1>1. TypeOK
  BY ServerAssumption DEF Init, TypeOK, RTSP_CLIENT, Status, Zeroed, Thread, Location, Busy, Request
<1>2. BacklogFresh /\ GuestFresh
  BY DEF Init, BacklogFresh, GuestFresh
<1>3. NoOrphanSession
  BY DEF Init, NoOrphanSession, Zeroed
<1> QED
  BY <1>1, <1>2, <1>3 DEF ServerInv

\* What a message thread's own step leaves alone, in the shape the proof of
\* every such step needs: only thread[c] changes, and c keeps its slot and had
\* a thread before.
OwnStep(c) ==
    /\ thread[c].pc \in Busy
    /\ thread'[c].pc \in Busy \cup {"exited"}
    /\ thread'[c].slot = thread[c].slot
    /\ \A d \in Client \ {c} : thread'[d] = thread[d]
    /\ UNCHANGED listenVars

LEMMA OwnStepKeepsFresh ==
    ASSUME ServerInv, NEW c \in Client, OwnStep(c)
    PROVE  BacklogFresh' /\ GuestFresh'
<1>1. thread[c].pc # "none"
  BY DEF OwnStep, Busy
<1>2. \A n \in DOMAIN backlog : backlog[n] \in Client /\ backlog[n] # c
  BY <1>1 DEF ServerInv, BacklogFresh, TypeOK
<1>3. BacklogFresh'
  BY <1>2 DEF ServerInv, BacklogFresh, OwnStep, listenVars
<1>4. GuestFresh'
  BY <1>1 DEF ServerInv, GuestFresh, OwnStep, listenVars, InBacklog
<1> QED
  BY <1>3, <1>4

\* A client whose thread was not created has none later.
LEMMA StaysAbandoned ==
    ASSUME ServerInv, NEW c \in Client, OwnStep(c), NEW s \in Slot,
           slots'[s].session = slots[s].session, Abandoned(s)
    PROVE  Abandoned(s)'
<1>1. slots[s].session # c
  BY DEF Abandoned, OwnStep, Busy
<1> QED
  BY <1>1 DEF Abandoned, OwnStep

\* A thread that goes on looping, and changes no status or only marks its own
\* slot, orphans no session.
LEMMA LoopingKeepsSessions ==
    ASSUME ServerInv, NEW c \in Client, OwnStep(c), Looping(c)',
           \A s \in Slot : slots'[s].status # "RTSP_IDLE" =>
               slots[s].status # "RTSP_IDLE" \/ s = thread[c].slot,
           \A s \in Slot : slots'[s].session = slots[s].session
    PROVE  NoOrphanSession'
<1> SUFFICES ASSUME NEW s \in Slot, slots'[s].status # "RTSP_IDLE", ~Abandoned(s)
             PROVE  \E d \in Client : thread'[d].slot = s /\ Looping(d)'
  BY StaysAbandoned DEF NoOrphanSession
<1>1. CASE s = thread[c].slot
  BY <1>1 DEF OwnStep
<1>2. CASE s # thread[c].slot
  <2>1. PICK d \in Client : thread[d].slot = s /\ Looping(d)
    BY <1>2 DEF ServerInv, NoOrphanSession
  <2>2. thread'[d] = thread[d]
    BY <1>2, <2>1 DEF OwnStep
  <2> QED
    BY <2>1, <2>2 DEF Looping
<1> QED
  BY <1>1, <1>2

\* A thread that stops looping leaves its slot idle.
LEMMA StoppingKeepsSessions ==
    ASSUME ServerInv, NEW c \in Client, OwnStep(c),
           \/ ~Looping(c)
           \/ slots'[thread[c].slot].status = "RTSP_IDLE",
           \A s \in Slot : slots'[s].status # "RTSP_IDLE" => slots[s].status # "RTSP_IDLE",
           \A s \in Slot : slots'[s].session = slots[s].session
    PROVE  NoOrphanSession'
<1> SUFFICES ASSUME NEW s \in Slot, slots'[s].status # "RTSP_IDLE", ~Abandoned(s)
             PROVE  \E d \in Client : thread'[d].slot = s /\ Looping(d)'
  BY StaysAbandoned DEF NoOrphanSession
<1>1. PICK d \in Client : thread[d].slot = s /\ Looping(d)
  BY DEF ServerInv, NoOrphanSession
<1>2. d # c
  BY <1>1
<1>3. thread'[d] = thread[d]
  BY <1>2 DEF OwnStep
<1> QED
  BY <1>1, <1>3 DEF Looping

-----------------------------------------------------------------------------
(* Message threads *)

\* Updates of one thread keep the type of all, with no set of locations or
\* requests expanded.
LEMMA GotoType ==
    ASSUME thread \in [Client -> Thread], NEW c \in Client, NEW a \in Location, Goto(c, a)
    PROVE  thread' \in [Client -> Thread]
<1>1. [thread[c] EXCEPT !.pc = a] \in Thread
  BY DEF Thread
<1> QED
  BY <1>1 DEF Goto

LEMMA DoneType ==
    ASSUME thread \in [Client -> Thread], NEW c \in Client, NEW a \in Location, Done(c, a)
    PROVE  thread' \in [Client -> Thread]
<1>1. [thread[c] EXCEPT !.pc = a, !.peer = "none", !.cmd = "none"] \in Thread
  BY DEF Thread
<1> QED
  BY <1>1 DEF Done

LEMMA PeerType ==
    ASSUME thread \in [Client -> Thread], NEW c \in Client, NEW a \in Location,
           NEW p \in Client \cup {"udp", "none"},
           thread' = [thread EXCEPT ![c].pc = a, ![c].peer = p]
    PROVE  thread' \in [Client -> Thread]
<1>1. [thread[c] EXCEPT !.pc = a, !.peer = p] \in Thread
  BY DEF Thread
<1>2. thread' = [thread EXCEPT ![c] = [thread[c] EXCEPT !.pc = a, !.peer = p]]
  OBVIOUS
<1> QED
  BY <1>1, <1>2

LEMMA CmdType ==
    ASSUME thread \in [Client -> Thread], NEW c \in Client, NEW a \in Location,
           NEW r \in Request \cup {"error", "none"},
           thread' = [thread EXCEPT ![c].pc = a, ![c].cmd = r]
    PROVE  thread' \in [Client -> Thread]
<1>1. [thread[c] EXCEPT !.pc = a, !.cmd = r] \in Thread
  BY DEF Thread
<1>2. thread' = [thread EXCEPT ![c] = [thread[c] EXCEPT !.pc = a, !.cmd = r]]
  OBVIOUS
<1> QED
  BY <1>1, <1>2

LEMMA StatusType ==
    ASSUME slots \in [Slot -> RTSP_CLIENT], NEW s \in Slot, NEW a \in Status
    PROVE  [slots EXCEPT ![s].status = a] \in [Slot -> RTSP_CLIENT]
<1>1. [slots[s] EXCEPT !.status = a] \in RTSP_CLIENT
  BY DEF RTSP_CLIENT
<1> QED
  BY <1>1

LEMMA ClosedType ==
    ASSUME fdt \in [FD -> Client \cup {"free", "stdin", "udp"}], NEW f
    PROVE  Closed(f) \in [FD -> Client \cup {"free", "stdin", "udp"}]
  BY DEF Closed

LEMMA MessageStepTypes ==
    ASSUME TypeOK, NEW c \in Client, repose_rtsp_clinet_msg_thread(c)
    PROVE  TypeOK'
<1>t. thread[c].slot \in Slot /\ Busy \subseteq Location /\ "exited" \in Location
  BY DEF TypeOK, Thread, Location
<1>b. {"test", "call", "recv", "answer", "socket", "sending", "closeudp", "idle", "close"}
        \subseteq Location
  BY DEF Location, Busy
<1>1. CASE Test(c)
  <2>1. thread' \in [Client -> Thread]
    BY <1>1, <1>t, <1>b, GotoType DEF TypeOK, Test
  <2> QED
    BY <1>1, <2>1 DEF TypeOK, Test, listenVars
<1>2. CASE Call(c)
  <2> DEFINE f == Mine(c).socket
             file == IF f \in FD THEN fdt[f] ELSE "free"
             p == IF file \in {"free", "stdin"} THEN "none" ELSE file
  <2>1. p \in Client \cup {"udp", "none"}
    BY DEF TypeOK
  <2>2. thread' \in [Client -> Thread]
    <3>1. thread' = [thread EXCEPT ![c].pc = "recv", ![c].peer = p]
      BY <1>2 DEF Call
    <3> HIDE DEF p
    <3> QED
      BY <2>1, <3>1, <1>b, PeerType DEF TypeOK
  <2> QED
    BY <1>2, <2>2 DEF TypeOK, Call, listenVars
<1>3. CASE RecvRequest(c)
  <2>1. thread' \in [Client -> Thread]
    BY <1>3, <1>t, <1>b, CmdType DEF TypeOK, RecvRequest
  <2> QED
    BY <1>3, <2>1 DEF TypeOK, RecvRequest, listenVars
<1>4. CASE RecvError(c)
  <2>1. thread' \in [Client -> Thread]
    BY <1>4, <1>t, <1>b, CmdType DEF TypeOK, RecvError
  <2> QED
    BY <1>4, <2>1 DEF TypeOK, RecvError, listenVars
<1>5. CASE AnswerOnly(c)
  <2>1. thread' \in [Client -> Thread]
    BY <1>5, <1>t, <1>b, DoneType DEF TypeOK, AnswerOnly
  <2> QED
    BY <1>5, <2>1 DEF TypeOK, AnswerOnly, listenVars
<1>6. CASE AnswerPlay(c)
  <2>1. thread' \in [Client -> Thread]
    BY <1>6, <1>t, <1>b, GotoType DEF TypeOK, AnswerPlay
  <2> QED
    BY <1>6, <2>1 DEF TypeOK, AnswerPlay, listenVars
<1>7. CASE OpenUdp(c)
  <2>1. thread' \in [Client -> Thread]
    BY <1>7, <1>b, GotoType DEF TypeOK, OpenUdp
  <2>2. udpfd' \in FD \cup {NoFd} /\ fdt' \in [FD -> Client \cup {"free", "stdin", "udp"}]
    BY <1>7 DEF TypeOK, OpenUdp, Free
  <2> QED
    BY <1>7, <2>1, <2>2 DEF TypeOK, OpenUdp, listenVars
<1>8. CASE StartSending(c)
  <2>1. thread' \in [Client -> Thread]
    BY <1>8, <1>b, DoneType DEF TypeOK, StartSending
  <2>2. slots' \in [Slot -> RTSP_CLIENT]
    BY <1>8, <1>t, StatusType DEF TypeOK, StartSending, Status
  <2> QED
    BY <1>8, <2>1, <2>2 DEF TypeOK, StartSending, listenVars
<1>9. CASE AnswerTeardown(c)
  <2>1. thread' \in [Client -> Thread]
    BY <1>9, <1>t, <1>b, GotoType DEF TypeOK, AnswerTeardown
  <2> QED
    BY <1>9, <2>1 DEF TypeOK, AnswerTeardown, listenVars
<1>10. CASE CloseUdp(c)
  <2>1. thread' \in [Client -> Thread]
    BY <1>10, <1>b, GotoType DEF TypeOK, CloseUdp
  <2> QED
    BY <1>10, <2>1, ClosedType DEF TypeOK, CloseUdp, listenVars
<1>11. CASE EndSession(c)
  <2>1. thread' \in [Client -> Thread]
    BY <1>11, <1>b, GotoType DEF TypeOK, EndSession
  <2>2. slots' \in [Slot -> RTSP_CLIENT]
    BY <1>11, <1>t, StatusType DEF TypeOK, EndSession, Status
  <2> QED
    BY <1>11, <2>1, <2>2 DEF TypeOK, EndSession, listenVars
<1>12. CASE CloseSocket(c)
  <2>1. thread' \in [Client -> Thread]
    BY <1>12, <1>t, <1>b, DoneType DEF TypeOK, CloseSocket
  <2> QED
    BY <1>12, <2>1, ClosedType DEF TypeOK, CloseSocket, listenVars
<1> QED
  BY <1>1, <1>2, <1>3, <1>4, <1>5, <1>6, <1>7, <1>8, <1>9, <1>10, <1>11, <1>12
     DEF repose_rtsp_clinet_msg_thread

LEMMA MessageStepOwn ==
    ASSUME TypeOK, NEW c \in Client, repose_rtsp_clinet_msg_thread(c)
    PROVE  OwnStep(c)
<1> USE DEF TypeOK, Thread, Busy, OwnStep
<1>1. CASE Test(c)
  BY <1>1 DEF Test, Goto
<1>2. CASE Call(c)
  BY <1>2 DEF Call, Mine
<1>3. CASE RecvRequest(c)
  BY <1>3 DEF RecvRequest
<1>4. CASE RecvError(c)
  BY <1>4 DEF RecvError
<1>5. CASE AnswerOnly(c)
  BY <1>5 DEF AnswerOnly, Done
<1>6. CASE AnswerPlay(c)
  BY <1>6 DEF AnswerPlay, Goto
<1>7. CASE OpenUdp(c)
  BY <1>7 DEF OpenUdp, Goto, Free
<1>8. CASE StartSending(c)
  BY <1>8 DEF StartSending, Done
<1>9. CASE AnswerTeardown(c)
  BY <1>9 DEF AnswerTeardown, Goto
<1>10. CASE CloseUdp(c)
  BY <1>10 DEF CloseUdp, Goto, Closed
<1>11. CASE EndSession(c)
  BY <1>11 DEF EndSession, Goto
<1>12. CASE CloseSocket(c)
  BY <1>12 DEF CloseSocket, Done, Closed
<1> QED
  BY <1>1, <1>2, <1>3, <1>4, <1>5, <1>6, <1>7, <1>8, <1>9, <1>10, <1>11, <1>12
     DEF repose_rtsp_clinet_msg_thread

LEMMA MessageStepSessions ==
    ASSUME ServerInv, NEW c \in Client, repose_rtsp_clinet_msg_thread(c)
    PROVE  NoOrphanSession'
<1>1. OwnStep(c)
  BY MessageStepOwn DEF ServerInv
<1> USE <1>1
<1>t. TypeOK
  BY DEF ServerInv
\* The loop condition fails: the thread's slot is idle.
<1>2. CASE Test(c)
  <2>1. CASE Mine(c).status = "RTSP_IDLE"
    BY <1>2, <2>1, StoppingKeepsSessions DEF Test, Mine
  <2>2. CASE Mine(c).status # "RTSP_IDLE"
    <3>1. Looping(c)'
      BY <1>2, <1>t, <2>2 DEF Test, Goto, Looping, Busy, TypeOK, Thread
    <3> QED
      BY <1>2, <3>1, LoopingKeepsSessions DEF Test
  <2> QED
    BY <2>1, <2>2
\* The slot is marked idle by the thread that will stop.
<1>3. CASE EndSession(c)
  BY <1>3, <1>t, StoppingKeepsSessions DEF EndSession, TypeOK, RTSP_CLIENT, Thread
\* After a failed recv the thread had stopped looping; after TEARDOWN it goes on.
<1>4. CASE CloseSocket(c)
  <2>1. CASE thread[c].cmd = "error"
    BY <1>4, <2>1, StoppingKeepsSessions DEF CloseSocket, Looping
  <2>2. CASE thread[c].cmd # "error"
    <3>1. Looping(c)'
      BY <1>4, <1>t, <2>2 DEF CloseSocket, Done, Looping, Busy, TypeOK, Thread
    <3> QED
      BY <1>4, <3>1, LoopingKeepsSessions DEF CloseSocket
  <2> QED
    BY <2>1, <2>2
\* Only PLAY puts a slot in use, and it is the thread's own.
<1>5. CASE StartSending(c)
  <2>1. Looping(c)'
    BY <1>5, <1>t DEF StartSending, Done, Looping, Busy, TypeOK, Thread
  <2>2. \A s \in Slot : /\ s # thread[c].slot => slots'[s] = slots[s]
                        /\ slots'[s].session = slots[s].session
    BY <1>5, <1>t DEF StartSending, TypeOK, RTSP_CLIENT
  <2> QED
    BY <2>1, <2>2, LoopingKeepsSessions
\* The others go on looping and leave the slots alone.
<1>6. CASE Call(c)
  <2>1. Looping(c)' /\ slots' = slots
    BY <1>6, <1>t DEF Call, Mine, Looping, Busy, TypeOK, Thread
  <2> QED
    BY <2>1, LoopingKeepsSessions
<1>7. CASE RecvRequest(c)
  <2>1. Looping(c)' /\ slots' = slots
    BY <1>7, <1>t DEF RecvRequest, Looping, Busy, TypeOK, Thread
  <2> QED
    BY <2>1, LoopingKeepsSessions
<1>8. CASE RecvError(c)
  <2>1. Looping(c)' /\ slots' = slots
    BY <1>8, <1>t DEF RecvError, Looping, Busy, TypeOK, Thread
  <2> QED
    BY <2>1, LoopingKeepsSessions
<1>9. CASE AnswerOnly(c)
  <2>1. Looping(c)' /\ slots' = slots
    BY <1>9, <1>t DEF AnswerOnly, Done, Looping, Busy, TypeOK, Thread
  <2> QED
    BY <2>1, LoopingKeepsSessions
<1>10. CASE AnswerPlay(c)
  <2>1. Looping(c)' /\ slots' = slots
    BY <1>10, <1>t DEF AnswerPlay, Goto, Looping, Busy, TypeOK, Thread
  <2> QED
    BY <2>1, LoopingKeepsSessions
<1>11. CASE OpenUdp(c)
  <2>1. Looping(c)' /\ slots' = slots
    BY <1>11, <1>t DEF OpenUdp, Goto, Free, Looping, Busy, TypeOK, Thread
  <2> QED
    BY <2>1, LoopingKeepsSessions
<1>12. CASE AnswerTeardown(c)
  <2>1. Looping(c)' /\ slots' = slots
    BY <1>12, <1>t DEF AnswerTeardown, Goto, Looping, Busy, TypeOK, Thread
  <2> QED
    BY <2>1, LoopingKeepsSessions
<1>13. CASE CloseUdp(c)
  <2>1. Looping(c)' /\ slots' = slots
    BY <1>13, <1>t DEF CloseUdp, Goto, Closed, Looping, Busy, TypeOK, Thread
  <2> QED
    BY <2>1, LoopingKeepsSessions
<1> QED
  BY <1>2, <1>3, <1>4, <1>5, <1>6, <1>7, <1>8, <1>9, <1>10, <1>11, <1>12, <1>13
     DEF repose_rtsp_clinet_msg_thread

-----------------------------------------------------------------------------
(* The listening thread and the clients *)

LEMMA AcceptInv == ServerInv /\ Accept => ServerInv'
<1> SUFFICES ASSUME ServerInv, Accept PROVE ServerInv'
  OBVIOUS
<1> USE DEF ServerInv
<1>1. /\ Head(backlog) = backlog[1] /\ Head(backlog) \in Client /\ 1 \in DOMAIN backlog
      /\ Tail(backlog) \in Seq(Client)
      /\ \A n \in DOMAIN Tail(backlog) :
            n + 1 \in DOMAIN backlog /\ Tail(backlog)[n] = backlog[n + 1]
      /\ DOMAIN Tail(backlog) \subseteq Nat \ {0}
  BY DEF TypeOK, Accept
<1>2. TypeOK'
  BY <1>1 DEF TypeOK, Accept, Free
<1>3. BacklogFresh'
  BY <1>1 DEF BacklogFresh, Accept
<1>4. GuestFresh'
  <2>1. ~InBacklog(guest)'
    BY <1>1 DEF InBacklog, BacklogFresh, Accept
  <2> QED
    BY <1>1, <2>1 DEF GuestFresh, BacklogFresh, Accept, Free
<1>5. NoOrphanSession'
  BY DEF NoOrphanSession, Abandoned, Looping, Accept
<1> QED
  BY <1>2, <1>3, <1>4, <1>5

LEMMA AcceptErrorInv == ServerInv /\ AcceptError => ServerInv'
  BY DEF ServerInv, AcceptError, TypeOK, BacklogFresh, GuestFresh, InBacklog,
         NoOrphanSession, Abandoned, Looping

LEMMA ClaimInv == ServerInv /\ Claim => ServerInv'
<1> SUFFICES ASSUME ServerInv, Claim PROVE ServerInv'
  OBVIOUS
<1> USE DEF ServerInv
<1>1. PICK r \in Slot : slots' = [slots EXCEPT ![r] = Zeroed] /\ target' = r
  BY DEF Claim
<1>2. Zeroed \in RTSP_CLIENT
  BY ServerAssumption DEF Zeroed, RTSP_CLIENT, Status
<1>4. TypeOK'
  BY <1>1, <1>2 DEF TypeOK, Claim
<1>5. BacklogFresh' /\ GuestFresh'
  BY DEF BacklogFresh, GuestFresh, InBacklog, Claim
<1>6. NoOrphanSession'
  <2>1. \A s \in Slot : slots'[s].status # "RTSP_IDLE" => slots'[s] = slots[s]
    BY <1>1 DEF TypeOK, Zeroed
  <2> QED
    BY <2>1 DEF NoOrphanSession, Abandoned, Looping, Claim
<1> QED
  BY <1>4, <1>5, <1>6

LEMMA PublishInv == ServerInv /\ Publish => ServerInv'
<1> SUFFICES ASSUME ServerInv, Publish PROVE ServerInv'
  OBVIOUS
<1> USE DEF ServerInv
<1>1. guest \in Client /\ thread[guest].pc = "none" /\ ~InBacklog(guest) /\ newfd \in FD
  BY DEF GuestFresh, Publish
<1>2. target \in Slot
  BY DEF TypeOK
<1>3. slots' \in [Slot -> RTSP_CLIENT]
  <2>1. [status |-> "RTSP_CONNECTED", socket |-> newfd, session |-> guest] \in RTSP_CLIENT
    BY <1>1 DEF RTSP_CLIENT, Status
  <2> QED
    BY <2>1 DEF TypeOK, Publish
<1>0. PICK pc \in {"test", "failed"} :
         thread' = [thread EXCEPT ![guest] = [@ EXCEPT !.pc = pc, !.slot = target]]
  BY DEF Publish
<1>4. thread' \in [Client -> Thread]
  <2>1. pc \in Location
    BY DEF Location, Busy
  <2>2. [thread[guest] EXCEPT !.pc = pc, !.slot = target] \in Thread
    BY ZenonT(40), <1>1, <1>2, <2>1 DEF TypeOK, Thread
  <2> QED
    BY <1>0, <2>2 DEF TypeOK
<1>5. TypeOK'
  BY <1>3, <1>4 DEF TypeOK, Publish
<1>6. \A d \in Client \ {guest} : thread'[d] = thread[d]
  BY <1>0 DEF TypeOK
<1>7. thread'[guest].pc = pc /\ thread'[guest].slot = target
  BY <1>0, <1>1 DEF TypeOK, Thread
<1>8. BacklogFresh' /\ GuestFresh'
  <2>1. \A n \in DOMAIN backlog : backlog[n] \in Client \ {guest}
    BY <1>1 DEF TypeOK, InBacklog
  <2> QED
    BY <1>6, <2>1 DEF BacklogFresh, GuestFresh, Publish
<1>9. NoOrphanSession'
  <2> SUFFICES ASSUME NEW s \in Slot, slots'[s].status # "RTSP_IDLE"
               PROVE  Abandoned(s)' \/ \E d \in Client : thread'[d].slot = s /\ Looping(d)'
    BY DEF NoOrphanSession
  <2>1. CASE s = target /\ pc = "test"
    BY <1>1, <1>7, <2>1 DEF Looping, Busy
  <2>2. CASE s = target /\ pc = "failed"
    <3>1. slots'[s].session = guest
      BY <1>2, <2>2 DEF TypeOK, Publish
    <3> QED
      BY <1>1, <1>7, <2>2, <3>1 DEF Abandoned
  <2>3. CASE s # target
    <3>1. slots'[s] = slots[s]
      BY <2>3 DEF TypeOK, Publish
    <3>2. CASE Abandoned(s)
      <4>1. slots[s].session # guest
        BY <1>1, <3>2 DEF Abandoned
      <4> QED
        BY <1>6, <3>1, <3>2, <4>1 DEF Abandoned
    <3>3. ASSUME NEW d \in Client, thread[d].slot = s, Looping(d)
          PROVE  thread'[d].slot = s /\ Looping(d)'
      <4>1. d # guest
        BY <1>1, <3>3 DEF Looping, Busy
      <4> QED
        BY <1>6, <3>3, <4>1 DEF Looping
    <3> QED
      BY <3>1, <3>2, <3>3 DEF NoOrphanSession
  <2> QED
    BY <2>1, <2>2, <2>3
<1> QED
  BY <1>5, <1>8, <1>9

LEMMA ConnectInv ==
    ASSUME ServerInv, NEW c \in Client, Connect(c)
    PROVE  ServerInv'
<1> USE DEF ServerInv
<1>1. /\ backlog' \in Seq(Client)
      /\ DOMAIN backlog' = DOMAIN backlog \cup {Len(backlog) + 1}
      /\ Len(backlog) + 1 \notin DOMAIN backlog
      /\ backlog'[Len(backlog) + 1] = c
      /\ \A n \in DOMAIN backlog : backlog'[n] = backlog[n]
  BY DEF TypeOK, Connect
<1>2. TypeOK'
  BY <1>1 DEF TypeOK, Connect
<1>3. BacklogFresh'
  BY <1>1 DEF BacklogFresh, Connect, Accepted, InBacklog
<1>4. GuestFresh'
  BY <1>1 DEF GuestFresh, Connect, InBacklog
<1>5. NoOrphanSession'
  BY DEF NoOrphanSession, Abandoned, Looping, Connect
<1> QED
  BY <1>2, <1>3, <1>4, <1>5

LEMMA LeaveInv ==
    ASSUME ServerInv, NEW c \in Client, Leave(c)
    PROVE  ServerInv'
  BY DEF ServerInv, Leave, listenVars, TypeOK, BacklogFresh, GuestFresh, InBacklog,
         NoOrphanSession, Abandoned, Looping

-----------------------------------------------------------------------------

\* ServerInv is an invariant of the RTSP server.
THEOREM ServerInvariant == Spec => []ServerInv
<1>1. ServerInv /\ [Next]_vars => ServerInv'
  <2> SUFFICES ASSUME ServerInv, [Next]_vars PROVE ServerInv'
    OBVIOUS
  <2>1. CASE rtsp_server_listen_thread
    BY <2>1, AcceptInv, AcceptErrorInv, ClaimInv, PublishInv DEF rtsp_server_listen_thread
  <2>2. ASSUME NEW c \in Client, Connect(c) \/ Leave(c) PROVE ServerInv'
    BY <2>2, ConnectInv, LeaveInv
  <2>3. ASSUME NEW c \in Client, repose_rtsp_clinet_msg_thread(c) PROVE ServerInv'
    <3>1. TypeOK'
      BY <2>3, MessageStepTypes DEF ServerInv
    <3>2. OwnStep(c)
      BY <2>3, MessageStepOwn DEF ServerInv
    <3>3. BacklogFresh' /\ GuestFresh'
      BY <3>2, OwnStepKeepsFresh
    <3>4. NoOrphanSession'
      BY <2>3, MessageStepSessions
    <3> QED
      BY <3>1, <3>3, <3>4 DEF ServerInv
  <2>4. CASE UNCHANGED vars
    BY <2>4 DEF vars, ServerInv, TypeOK, BacklogFresh, GuestFresh, InBacklog,
         NoOrphanSession, Abandoned, Looping
  <2> QED
    BY <2>1, <2>2, <2>3, <2>4 DEF Next
<1> QED
  BY <1>1, InitInv, PTL DEF Spec

\* The variables of the RTSP server keep their types, the target of the
\* listening thread included, for any number of clients, slots and descriptors.
THEOREM ServerTypes == Spec => []TypeOK
<1>1. ServerInv => TypeOK
  BY DEF ServerInv
<1> QED
  BY <1>1, ServerInvariant, PTL

\* However many clients connect, replace each other, send requests and leave, a
\* slot that is in use has a message thread that will notice the end of its
\* connection, or belongs to a client that pthread_create gave no thread.
THEOREM SessionsAreServed == Spec => []NoOrphanSession
<1>1. ServerInv => NoOrphanSession
  BY DEF ServerInv
<1> QED
  BY <1>1, ServerInvariant, PTL

-----------------------------------------------------------------------------
(* Patient clients *)

\* A message thread that has not returned.
Alive(c) == thread[c].pc \in Busy

\* A client's socket, unless pthread_create left the client without a thread.
Open(f) == fdt[f] \in Client /\ thread[fdt[f]].pc # "failed"

\* A patient client waits until nobody else is served: there is one connection
\* at a time, in the backlog, with the listening thread or with its own thread.
OneAtATime ==
    /\ \A c, d \in Client : Alive(c) /\ Alive(d) => c = d
    /\ backlog # <<>> \/ listener \in {"claim", "publish"} => \A c \in Client : ~Alive(c)
    /\ listener \in {"claim", "publish"} => backlog = <<>>
    /\ \A n \in DOMAIN backlog : n = 1

\* The socket of that connection is the only one that is open, under the number
\* the listening thread or the slot of the thread has for it.
SocketTracked ==
    /\ \A f \in FD : Open(f) =>
          \/ listener \in {"claim", "publish"} /\ f = newfd /\ fdt[f] = guest
          \/ \E c \in Client : Alive(c) /\ f = Mine(c).socket
    /\ \A c \in Client : Alive(c) =>
          /\ thread[c].pc \notin {"test", "close"} => Mine(c).status # "RTSP_IDLE"
          /\ thread[c].pc = "test" /\ Mine(c).status = "RTSP_IDLE" =>
                \A f \in FD : ~Open(f)

\* The inductive invariant for patient clients, beside ServerInv.
PatientInv == OneAtATime /\ SocketTracked

LEMMA NobodyServed ==
    ASSUME ServerInv, PatientInv, \A c \in Client : ~Alive(c)
    PROVE  \A f \in FD : Open(f) =>
              listener \in {"claim", "publish"} /\ f = newfd /\ fdt[f] = guest
  BY DEF PatientInv, SocketTracked

\* A message thread's step opens no client's socket.
LEMMA StaysClosed ==
    ASSUME NEW c \in Client, OwnStep(c), NEW f \in FD,
           fdt'[f] \in Client => fdt'[f] = fdt[f], Open(f)'
    PROVE  Open(f)
  BY DEF Open, OwnStep, Busy

LEMMA InitPatient == Init => PatientInv
  BY ServerAssumption DEF Init, PatientInv, OneAtATime, SocketTracked, Alive, Busy

LEMMA ConnectPatient ==
    ASSUME Patient, ServerInv, PatientInv, NEW c \in Client, Connect(c)
    PROVE  PatientInv'
<1>1. /\ backlog = <<>> /\ listener \in {"accept", "exited"}
      /\ \A d \in Client : ~Alive(d)
  BY DEF Connect, Quiet, Alive, Busy
<1>2. \A d \in Client : ~Alive(d)'
  BY <1>1 DEF Connect, Alive
<1>3. \A f \in FD : ~Open(f)
  BY <1>1, NobodyServed
<1>4. \A n \in DOMAIN backlog' : n = 1
  BY <1>1 DEF Connect
<1>5. OneAtATime'
  BY <1>1, <1>2, <1>4 DEF OneAtATime, Connect
<1> QED
  BY <1>1, <1>2, <1>3, <1>5 DEF PatientInv, SocketTracked, Open, Connect

LEMMA LeavePatient ==
    ASSUME PatientInv, NEW c \in Client, Leave(c)
    PROVE  PatientInv'
  BY DEF Leave, listenVars, PatientInv, OneAtATime, SocketTracked, Alive, Open, Mine

LEMMA AcceptPatient == ServerInv /\ PatientInv /\ Accept => PatientInv'
<1> SUFFICES ASSUME ServerInv, PatientInv, Accept PROVE PatientInv'
  OBVIOUS
<1>1. \A c \in Client : ~Alive(c)
  BY DEF PatientInv, OneAtATime, Accept
<1>2. \A c \in Client : ~Alive(c)'
  BY <1>1 DEF Accept, Alive
<1>3. \A f \in FD : ~Open(f)
  BY <1>1, NobodyServed DEF Accept
<1>4. \A f \in FD : Open(f)' => f = newfd' /\ fdt'[f] = guest'
  BY <1>3 DEF ServerInv, TypeOK, Accept, Open
<1>5. backlog' = <<>>
  <2>1. backlog \in Seq(Client) /\ backlog # <<>> /\ \A n \in DOMAIN backlog : n = 1
    BY DEF ServerInv, TypeOK, Accept, PatientInv, OneAtATime
  <2>2. Len(backlog) = 1
    BY <2>1
  <2> QED
    BY <2>1, <2>2 DEF Accept
<1>6. listener' = "claim"
  BY DEF Accept
<1>7. OneAtATime'
  BY <1>2, <1>5 DEF OneAtATime
<1>8. SocketTracked'
  BY <1>2, <1>4, <1>6 DEF SocketTracked
<1> QED
  BY <1>6, <1>7, <1>8 DEF PatientInv

LEMMA AcceptErrorPatient == PatientInv /\ AcceptError => PatientInv'
  BY DEF AcceptError, PatientInv, OneAtATime, SocketTracked, Alive, Open, Mine

LEMMA ClaimPatient == ServerInv /\ PatientInv /\ Claim => PatientInv'
<1> SUFFICES ASSUME ServerInv, PatientInv, Claim PROVE PatientInv'
  OBVIOUS
<1>1. \A c \in Client : ~Alive(c)
  BY DEF PatientInv, OneAtATime, Claim
<1>2. \A c \in Client : ~Alive(c)'
  BY <1>1 DEF Claim, Alive
<1>3. \A f \in FD : Open(f) => f = newfd /\ fdt[f] = guest
  BY <1>1, NobodyServed
<1>4. OneAtATime'
  BY <1>2 DEF OneAtATime, PatientInv, Claim
<1> QED
  BY <1>2, <1>3, <1>4 DEF PatientInv, SocketTracked, Open, Claim

\* The accepted socket passes from the listening thread to the guest's slot.
LEMMA PublishPatient == ServerInv /\ PatientInv /\ Publish => PatientInv'
<1> SUFFICES ASSUME ServerInv, PatientInv, Publish PROVE PatientInv'
  OBVIOUS
<1>1. guest \in Client /\ target \in Slot
  BY DEF ServerInv, TypeOK, GuestFresh, Publish
<1>2. \A c \in Client : ~Alive(c)
  BY DEF PatientInv, OneAtATime, Publish
<1>3. \A f \in FD : Open(f) => f = newfd /\ fdt[f] = guest
  BY <1>2, NobodyServed
<1>4. thread'[guest].pc \in {"test", "failed"} /\ thread'[guest].slot = target
  BY <1>1 DEF ServerInv, TypeOK, Thread, Publish
<1>a. \A d \in Client \ {guest} : thread'[d] = thread[d]
  BY DEF ServerInv, TypeOK, Publish
<1>5. \A d \in Client \ {guest} : ~Alive(d)'
  BY <1>2, <1>a DEF Alive
<1>6. /\ slots'[target].socket = newfd
      /\ slots'[target].status = "RTSP_CONNECTED"
  BY <1>1 DEF ServerInv, TypeOK, Publish
<1>7. backlog' = <<>> /\ listener' = "accept" /\ fdt' = fdt
  BY DEF PatientInv, OneAtATime, Publish
<1>8. OneAtATime'
  BY <1>5, <1>7 DEF OneAtATime
\* Whose number this is: the guest's, if anybody's.
<1>b. \A f \in FD : Open(f)' => f = newfd /\ thread'[guest].pc = "test"
  <2> SUFFICES ASSUME NEW f \in FD, Open(f)' PROVE f = newfd /\ thread'[guest].pc = "test"
    OBVIOUS
  <2>1. fdt[f] \in Client /\ thread'[fdt[f]].pc # "failed"
    BY <1>7 DEF Open
  <2>2. Open(f)
    <3>1. thread[guest].pc = "none"
      BY DEF ServerInv, GuestFresh, Publish
    <3> QED
      BY <1>a, <2>1, <3>1 DEF Open
  <2>3. f = newfd /\ fdt[f] = guest
    BY <1>3, <2>2
  <2> QED
    BY <1>4, <2>1, <2>3
<1>9. SocketTracked'
  BY <1>1, <1>b, <1>4, <1>5, <1>6, <1>7 DEF SocketTracked, Alive, Mine, Busy
<1> QED
  BY <1>7, <1>8, <1>9 DEF PatientInv

\* A step of the one thread there is that opens no connection, leaves the number
\* in its slot alone, and leaves its loop only when its connection is closed.
LEMMA OwnStepPatient ==
    ASSUME ServerInv, PatientInv, NEW c \in Client, OwnStep(c),
           slots'[thread[c].slot].socket = Mine(c).socket,
           \A f \in FD : fdt'[f] \in Client => fdt'[f] = fdt[f],
           thread'[c].pc \notin {"test", "close", "exited"} =>
              slots'[thread[c].slot].status # "RTSP_IDLE",
           (\/ thread'[c].pc = "exited"
            \/ thread'[c].pc = "test" /\ slots'[thread[c].slot].status = "RTSP_IDLE")
             => \A f \in FD : ~Open(f)'
    PROVE  PatientInv'
<1>1. Alive(c) /\ \A d \in Client \ {c} : ~Alive(d)
  BY DEF OwnStep, Alive, PatientInv, OneAtATime
<1>2. \A d \in Client \ {c} : ~Alive(d)'
  BY <1>1 DEF OwnStep, Alive
<1>3. backlog' = <<>> /\ listener' \notin {"claim", "publish"}
  BY <1>1 DEF PatientInv, OneAtATime, OwnStep, listenVars
<1>4. \A f \in FD : Open(f) => f = Mine(c).socket
  BY <1>1, <1>3 DEF PatientInv, SocketTracked, OwnStep, listenVars
<1>5. thread'[c].slot = thread[c].slot /\ (Alive(c)' \/ thread'[c].pc = "exited")
  BY DEF OwnStep, Alive
<1>6. "exited" \notin Busy
  BY DEF Busy
<1>7. OneAtATime'
  BY <1>2, <1>3 DEF OneAtATime
<1>8. SocketTracked'
  <2>1. ASSUME NEW f \in FD, Open(f)'
        PROVE  Alive(c)' /\ f = Mine(c)'.socket
    <3>1. Open(f)
      BY <2>1, StaysClosed
    <3> QED
      BY <1>4, <1>5, <2>1, <3>1 DEF Mine
  <2>2. ASSUME Alive(c)'
        PROVE  /\ thread'[c].pc \notin {"test", "close"} => Mine(c)'.status # "RTSP_IDLE"
               /\ thread'[c].pc = "test" /\ Mine(c)'.status = "RTSP_IDLE" =>
                     \A f \in FD : ~Open(f)'
    BY <1>5, <1>6, <2>2 DEF Mine, Alive
  <2> QED
    BY <1>2, <2>1, <2>2 DEF SocketTracked
<1> QED
  BY <1>3, <1>7, <1>8 DEF PatientInv

LEMMA MessageStepPatient ==
    ASSUME ServerInv, PatientInv, NEW c \in Client, repose_rtsp_clinet_msg_thread(c)
    PROVE  PatientInv'
<1>1. OwnStep(c)
  BY MessageStepOwn DEF ServerInv
<1>2. TypeOK /\ thread[c] \in Thread /\ thread[c].slot \in Slot
  BY DEF ServerInv, TypeOK, Thread
<1>3. Alive(c)
  BY <1>1 DEF OwnStep, Alive
\* What SocketTracked says of the thread's slot where it is.
<1>4. /\ thread[c].pc \notin {"test", "close"} => Mine(c).status # "RTSP_IDLE"
      /\ thread[c].pc = "test" /\ Mine(c).status = "RTSP_IDLE" =>
            \A f \in FD : ~Open(f)
      /\ \A f \in FD : Open(f) => f = Mine(c).socket
  BY <1>3 DEF PatientInv, SocketTracked, OneAtATime
\* Steps of an ongoing session, which leave the slots alone.
<1>5. ASSUME slots' = slots, \A f \in FD : fdt'[f] \in Client => fdt'[f] = fdt[f],
             Mine(c).status # "RTSP_IDLE", thread'[c].pc # "exited"
      PROVE  PatientInv'
  BY <1>1, <1>5, OwnStepPatient DEF Mine
<1>6. CASE Test(c)
  <2>1. fdt' = fdt /\ slots' = slots
    BY <1>6 DEF Test
  <2>2. CASE Mine(c).status = "RTSP_IDLE"
    <3>1. \A f \in FD : ~Open(f)'
      BY <1>1, <1>4, <1>6, <2>1, <2>2, StaysClosed DEF Test
    <3>2. thread'[c].pc = "exited"
      BY <1>2, <1>6, <2>2 DEF Test, Goto, TypeOK, Thread
    <3> QED
      BY <1>1, <2>1, <3>1, <3>2, OwnStepPatient DEF Mine
  <2>3. CASE Mine(c).status # "RTSP_IDLE"
    <3>1. thread'[c].pc = "call"
      BY <1>2, <1>6, <2>3 DEF Test, Goto, TypeOK, Thread
    <3> QED
      BY <1>5, <2>1, <2>3, <3>1
  <2> QED
    BY <2>2, <2>3
<1>7. CASE Call(c)
  <2>1. thread'[c].pc = "recv"
    BY <1>2, <1>7 DEF Call, TypeOK, Thread
  <2> QED
    BY <1>4, <1>5, <1>7, <2>1 DEF Call
<1>8. CASE RecvRequest(c)
  <2>1. thread'[c].pc = "answer"
    BY <1>2, <1>8 DEF RecvRequest, TypeOK, Thread
  <2> QED
    BY <1>4, <1>5, <1>8, <2>1 DEF RecvRequest
<1>9. CASE RecvError(c)
  <2>1. thread'[c].pc = "idle"
    BY <1>2, <1>9 DEF RecvError, TypeOK, Thread
  <2> QED
    BY <1>4, <1>5, <1>9, <2>1 DEF RecvError
<1>10. CASE AnswerOnly(c)
  <2>1. thread'[c].pc = "test"
    BY <1>2, <1>10 DEF AnswerOnly, Done, TypeOK, Thread
  <2> QED
    BY <1>4, <1>5, <1>10, <2>1 DEF AnswerOnly
<1>11. CASE AnswerPlay(c)
  <2>1. thread'[c].pc # "exited"
    BY <1>2, <1>11 DEF AnswerPlay, Goto, TypeOK, Thread
  <2> QED
    BY <1>4, <1>5, <1>11, <2>1 DEF AnswerPlay
<1>12. CASE OpenUdp(c)
  <2>1. thread'[c].pc = "sending"
    BY <1>2, <1>12 DEF OpenUdp, Goto, TypeOK, Thread
  <2>2. \A f \in FD : fdt'[f] \in Client => fdt'[f] = fdt[f]
    BY <1>2, <1>12, ServerAssumption DEF OpenUdp, TypeOK, Free
  <2> QED
    BY <1>4, <1>5, <1>12, <2>1, <2>2 DEF OpenUdp
<1>13. CASE StartSending(c)
  <2>1. thread'[c].pc = "test"
    BY <1>2, <1>13 DEF StartSending, Done, TypeOK, Thread
  <2>2. /\ slots'[thread[c].slot].socket = Mine(c).socket
        /\ slots'[thread[c].slot].status = "RTSP_SENDING"
    BY <1>2, <1>13 DEF StartSending, TypeOK, RTSP_CLIENT, Mine
  <2>3. fdt' = fdt
    BY <1>13 DEF StartSending
  <2> QED
    BY <1>1, <2>1, <2>2, <2>3, OwnStepPatient
<1>14. CASE AnswerTeardown(c)
  <2>1. thread'[c].pc # "exited"
    BY <1>2, <1>14 DEF AnswerTeardown, Goto, TypeOK, Thread
  <2> QED
    BY <1>4, <1>5, <1>14, <2>1 DEF AnswerTeardown
<1>15. CASE CloseUdp(c)
  <2>1. thread'[c].pc = "idle"
    BY <1>2, <1>15 DEF CloseUdp, Goto, TypeOK, Thread
  <2>2. \A f \in FD : fdt'[f] \in Client => fdt'[f] = fdt[f]
    BY <1>2, <1>15, ServerAssumption DEF CloseUdp, TypeOK, Closed
  <2> QED
    BY <1>4, <1>5, <1>15, <2>1, <2>2 DEF CloseUdp
<1>16. CASE EndSession(c)
  <2>1. thread'[c].pc = "close"
    BY <1>2, <1>16 DEF EndSession, Goto, TypeOK, Thread
  <2>2. slots'[thread[c].slot].socket = Mine(c).socket
    BY <1>2, <1>16 DEF EndSession, TypeOK, RTSP_CLIENT, Mine
  <2>3. fdt' = fdt
    BY <1>16 DEF EndSession
  <2> QED
    BY <1>1, <2>1, <2>2, <2>3, OwnStepPatient
\* The number in the slot is still that of the connection: it is closed.
<1>17. CASE CloseSocket(c)
  <2>1. thread'[c].pc \in {"test", "exited"}
    BY <1>2, <1>17 DEF CloseSocket, Done, TypeOK, Thread
  <2>2. \A f \in FD : fdt'[f] \in Client => fdt'[f] = fdt[f] /\ f # Mine(c).socket
    BY <1>2, <1>17, ServerAssumption DEF CloseSocket, TypeOK, Closed
  <2>3. \A f \in FD : ~Open(f)'
    <3> SUFFICES ASSUME NEW f \in FD, Open(f)' PROVE FALSE
      OBVIOUS
    <3>1. f # Mine(c).socket
      BY <2>2 DEF Open
    <3> QED
      BY <1>1, <1>4, <2>2, <3>1, StaysClosed
  <2>4. slots' = slots
    BY <1>17 DEF CloseSocket
  <2> QED
    BY <1>1, <2>1, <2>2, <2>3, <2>4, OwnStepPatient DEF Mine
<1> QED
  BY <1>6, <1>7, <1>8, <1>9, <1>10, <1>11, <1>12, <1>13, <1>14, <1>15, <1>16, <1>17
     DEF repose_rtsp_clinet_msg_thread

\* With patient clients, whose connections never overlap, PatientInv is an
\* invariant of the RTSP server.
THEOREM PatientInvariant ==
    ASSUME Patient
    PROVE  Spec => []PatientInv
<1>1. ServerInv /\ PatientInv /\ [Next]_vars => PatientInv'
  <2> SUFFICES ASSUME ServerInv, PatientInv, [Next]_vars PROVE PatientInv'
    OBVIOUS
  <2>1. CASE rtsp_server_listen_thread
    BY <2>1, AcceptPatient, AcceptErrorPatient, ClaimPatient, PublishPatient
       DEF rtsp_server_listen_thread
  <2>2. ASSUME NEW c \in Client, Connect(c) \/ Leave(c) PROVE PatientInv'
    BY <2>2, ConnectPatient, LeavePatient
  <2>3. ASSUME NEW c \in Client, repose_rtsp_clinet_msg_thread(c) PROVE PatientInv'
    BY <2>3, MessageStepPatient
  <2>4. CASE UNCHANGED vars
    BY <2>4 DEF vars, PatientInv, OneAtATime, SocketTracked, Alive, Open, Mine
  <2> QED
    BY <2>1, <2>2, <2>3, <2>4 DEF Next
<1> QED
  BY <1>1, InitPatient, ServerInvariant, PTL DEF Spec

\* When clients do not overlap, an accepted socket is always closed, unless
\* pthread_create failed for it: no other is open when no session is left,
\* however the sessions before ended.
THEOREM SocketsAreClosed ==
    ASSUME Patient
    PROVE  Spec => []SocketsClosed
<1>1. ServerInv /\ PatientInv => SocketsClosed
  <2> SUFFICES ASSUME ServerInv, PatientInv, Quiet PROVE \A f \in FD : ~Open(f)
    BY DEF SocketsClosed, Open
  <2>1. \A c \in Client : ~Alive(c)
    BY DEF Quiet, Alive, Busy
  <2> QED
    BY <2>1, NobodyServed DEF Quiet
<1> QED
  BY <1>1, ServerInvariant, PatientInvariant, PTL

=============================================================================
