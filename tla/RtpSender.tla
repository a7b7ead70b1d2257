----------------------------- MODULE RtpSender -----------------------------
(***************************************************************************)
(* The media side of mpp_rtsp_server.cpp: push_h264_stream, which queues a *)
(* copy of an encoded frame for each client that plays, and                *)
(* rtp_send_thread, which takes frames from the queue and sends them as    *)
(* RTP packets, in fragments when they are long.                           *)
(*                                                                         *)
(* The two threads share rtp_buf_deque, h264_frame_cnt and g_rtspClients   *)
(* without a lock, with each other and with the RTSP side (RtspServer),    *)
(* whose effects on a slot are the session actions below.  A push_back     *)
(* that runs into a call of the sender on the deque is undefined: the      *)
(* model records it (Torn) and says nothing of what happens afterwards.    *)
(***************************************************************************)
EXTENDS Integers, Sequences, FiniteSets

CONSTANTS MAX_RTSP_CLIENT,
          nalu_sent_len,
          timestamp_increse,
          LenMod,          \* 2^16: push_h264_stream takes its length as uint16_t
          FrameSize,       \* sizes the encoder can return, 0 when it fails
          MaxFrames,       \* bound: calls of push_stream
          MaxSessions      \* bound: connections

ASSUME SenderAssumption ==
    /\ {MAX_RTSP_CLIENT, nalu_sent_len, timestamp_increse, LenMod} \subseteq Nat \ {0}
    /\ FrameSize \subseteq Nat
    /\ MaxFrames \in Nat /\ MaxSessions \in Nat

VARIABLES
    status, seqnum, tsvid,      \* g_rtspClients[s]
    sessions,                   \* connections made so far
    rtp_buf_deque,
    heap,                       \* the rtp_buf_s that are allocated
    h264_frame_cnt,
    producer,                   \* rtsp_thread inside push_stream
    sender,                     \* rtp_send_thread
    wire                        \* per slot, the packets of the last frame sent

clients == <<status, seqnum, tsvid, sessions>>
vars == <<clients, rtp_buf_deque, heap, h264_frame_cnt, producer, sender, wire>>

-----------------------------------------------------------------------------

Slot   == 0 .. MAX_RTSP_CLIENT - 1
Frame  == 0 .. MaxFrames
Length == 0 .. LenMod - 1

\* A copy of a frame; slot tells the copies of one frame apart.
Buffer == [frame : Frame, slot : Slot, len : Length]
NoBuf  == [frame |-> 0, slot |-> 0, len |-> 0]

\* from, size: the bytes of the frame that the packet carries.
\* S, E: the FU-A header; a packet with a whole frame has none.
Packet == [frame : Frame, seq : Nat, timestamp : Nat, marker : BOOLEAN,
           S : BOOLEAN, E : BOOLEAN, from : Nat, size : Nat]

\* reg: the value of h264_frame_cnt the thread has loaded and will store.
Producer == [pc : {"idle", "scan", "push", "load", "store", "torn"},
             frame : Frame, len : Length, j : 0 .. MAX_RTSP_CLIENT, reg : Int]
Sender   == [pc : {"poll", "client", "packet", "pop", "load", "store"}, buf : Buffer,
             is : 0 .. MAX_RTSP_CLIENT, t : Nat, timestamp : Nat, reg : Int]

\* push_back overlapped a call of the sender on the deque.
Torn == producer.pc = "torn"

Queued(b) == \E n \in DOMAIN rtp_buf_deque : rtp_buf_deque[n] = b

Init ==
    /\ status = [s \in Slot |-> "RTSP_IDLE"]
    /\ seqnum = [s \in Slot |-> 0]
    /\ tsvid = [s \in Slot |-> 0]
    /\ sessions = 0
    /\ rtp_buf_deque = <<>>
    /\ heap = {}
    /\ h264_frame_cnt = 0
    /\ producer = [pc |-> "idle", frame |-> 0, len |-> 0, j |-> 0, reg |-> 0]
    /\ sender = [pc |-> "poll", buf |-> NoBuf, is |-> 0, t |-> 0, timestamp |-> 0, reg |-> 0]
    /\ wire = [s \in Slot |-> <<>>]

-----------------------------------------------------------------------------
(* What the RTSP threads do to a slot *)

\* A write of 0 to a counter the sender is incrementing may be lost.
Zeroed(counter, s) ==
    {[counter EXCEPT ![s] = 0]} \cup
    (IF sender.is = s /\ sender.pc \in {"client", "packet"} THEN {counter} ELSE {})

\* The listening thread puts a new client in the slot, whoever was there.
Connect(s) ==
    /\ sessions < MaxSessions
    /\ sessions' = sessions + 1
    /\ status' = [status EXCEPT ![s] = "RTSP_CONNECTED"]
    /\ seqnum' \in Zeroed(seqnum, s)
    /\ tsvid' \in Zeroed(tsvid, s)
    /\ UNCHANGED <<rtp_buf_deque, heap, h264_frame_cnt, producer, sender, wire>>

\* A thread whose client was replaced answers and ends too, so status is not tested.
Play(s) ==
    /\ sessions > 0
    /\ status' = [status EXCEPT ![s] = "RTSP_SENDING"]
    /\ UNCHANGED <<seqnum, tsvid, sessions, rtp_buf_deque, heap, h264_frame_cnt,
                   producer, sender, wire>>

\* TEARDOWN, or recv failed.
End(s) ==
    /\ sessions > 0
    /\ status' = [status EXCEPT ![s] = "RTSP_IDLE"]
    /\ seqnum' \in Zeroed(seqnum, s)
    /\ tsvid' \in Zeroed(tsvid, s)
    /\ UNCHANGED <<sessions, rtp_buf_deque, heap, h264_frame_cnt, producer, sender, wire>>

-----------------------------------------------------------------------------
(* push_stream and push_h264_stream, the producer *)

\* Mutant: the length is taken as a signed number of 16 bits.
EncodeSigned ==
    /\ producer.pc = "idle"
    /\ producer.frame < MaxFrames
    /\ \E size \in FrameSize :
          producer' = [producer EXCEPT !.frame = @ + 1, !.j = 0,
                       !.len = ((size + LenMod \div 2) % LenMod) - LenMod \div 2,
                       !.pc = IF size = 0 THEN "idle" ELSE "scan"]
    /\ UNCHANGED <<clients, rtp_buf_deque, heap, h264_frame_cnt, sender, wire>>

\* The length is cut to 16 bits. Nothing is pushed when the encoder fails.
Encode ==
    /\ producer.pc = "idle"
    /\ producer.frame < MaxFrames
    /\ \E size \in FrameSize :
          producer' = [producer EXCEPT !.frame = @ + 1, !.len = size % LenMod, !.j = 0,
                                       !.pc = IF size = 0 THEN "idle" ELSE "scan"]
    /\ UNCHANGED <<clients, rtp_buf_deque, heap, h264_frame_cnt, sender, wire>>

NextClient ==
    /\ producer.pc = "scan"
    /\ producer.j \in Slot
    /\ status[producer.j] # "RTSP_SENDING"
    /\ producer' = [producer EXCEPT !.j = @ + 1]
    /\ UNCHANGED <<clients, rtp_buf_deque, heap, h264_frame_cnt, sender, wire>>

PushBegin ==
    /\ producer.pc = "scan"
    /\ producer.j \in Slot
    /\ status[producer.j] = "RTSP_SENDING"
    /\ producer' = [producer EXCEPT !.pc = "push"]
    /\ UNCHANGED <<clients, rtp_buf_deque, heap, h264_frame_cnt, sender, wire>>

\* Mutant: the frame is put at the front.
PushFront ==
    LET b == [frame |-> producer.frame, slot |-> producer.j, len |-> producer.len]
    IN  /\ producer.pc = "push"
        /\ heap' = heap \cup {b}
        /\ rtp_buf_deque' = <<b>> \o rtp_buf_deque
        /\ producer' = [producer EXCEPT !.pc = "load"]
        /\ UNCHANGED <<clients, h264_frame_cnt, sender, wire>>

\* push_back runs by itself.
Push ==
    LET b == [frame |-> producer.frame, slot |-> producer.j, len |-> producer.len]
    IN  /\ producer.pc = "push"
        /\ heap' = heap \cup {b}
        /\ rtp_buf_deque' = Append(rtp_buf_deque, b)
        /\ producer' = [producer EXCEPT !.pc = "load"]
        /\ UNCHANGED <<clients, h264_frame_cnt, sender, wire>>

\* push_back runs while the sender is in empty and front, or in pop_front.
Tear ==
    /\ producer.pc = "push"
    /\ sender.pc \in {"poll", "pop"}
    /\ producer' = [producer EXCEPT !.pc = "torn"]
    /\ UNCHANGED <<clients, rtp_buf_deque, heap, h264_frame_cnt, sender, wire>>

\* h264_frame_cnt++ is a load and a store.
LoadForIncrement ==
    /\ producer.pc = "load"
    /\ producer' = [producer EXCEPT !.pc = "store", !.reg = h264_frame_cnt]
    /\ UNCHANGED <<clients, rtp_buf_deque, heap, h264_frame_cnt, sender, wire>>

StoreIncrement ==
    /\ producer.pc = "store"
    /\ h264_frame_cnt' = producer.reg + 1
    /\ producer' = [producer EXCEPT !.pc = "scan", !.j = @ + 1, !.reg = 0]
    /\ UNCHANGED <<clients, rtp_buf_deque, heap, sender, wire>>

PushReturn ==
    /\ producer.pc = "scan"
    /\ producer.j = MAX_RTSP_CLIENT
    /\ producer' = [producer EXCEPT !.pc = "idle"]
    /\ UNCHANGED <<clients, rtp_buf_deque, heap, h264_frame_cnt, sender, wire>>

push_stream ==
    \/ Encode \/ NextClient \/ PushBegin \/ Push \/ Tear
    \/ LoadForIncrement \/ StoreIncrement \/ PushReturn

-----------------------------------------------------------------------------
(* send_h264_for_rtsp_client *)

\* Mutant: the sender waits for a client that does not play.
SkipClientWaits ==
    /\ sender.pc = "client"
    /\ sender.is \in Slot
    /\ status[sender.is] # "RTSP_SENDING"
    /\ UNCHANGED vars

SkipClient ==
    /\ sender.pc = "client"
    /\ sender.is \in Slot
    /\ status[sender.is] # "RTSP_SENDING"
    /\ sender' = [sender EXCEPT !.is = @ + 1]
    /\ UNCHANGED <<clients, rtp_buf_deque, heap, h264_frame_cnt, producer, wire>>

\* A short frame is one packet: stamped, and then tsvid advances.
SendWhole ==
    LET s == sender.is
        p == [frame |-> sender.buf.frame, seq |-> seqnum[s], timestamp |-> tsvid[s],
              marker |-> TRUE, S |-> FALSE, E |-> FALSE, from |-> 0, size |-> sender.buf.len]
    IN  /\ sender.pc = "client"
        /\ s \in Slot
        /\ status[s] = "RTSP_SENDING"
        /\ sender.buf.len <= nalu_sent_len
        /\ wire' = [wire EXCEPT ![s] = <<p>>]
        /\ seqnum' = [seqnum EXCEPT ![s] = @ + 1]
        /\ tsvid' = [tsvid EXCEPT ![s] = @ + timestamp_increse]
        /\ sender' = [sender EXCEPT !.is = @ + 1]
        /\ UNCHANGED <<status, sessions, rtp_buf_deque, heap, h264_frame_cnt, producer>>

\* A long frame: tsvid advances, and then stamps all its packets.
StartFragments ==
    LET s == sender.is
    IN  /\ sender.pc = "client"
        /\ s \in Slot
        /\ status[s] = "RTSP_SENDING"
        /\ sender.buf.len > nalu_sent_len
        /\ tsvid' = [tsvid EXCEPT ![s] = @ + timestamp_increse]
        /\ sender' = [sender EXCEPT !.pc = "packet", !.t = 0, !.timestamp = tsvid'[s]]
        /\ UNCHANGED <<status, seqnum, sessions, rtp_buf_deque, heap, h264_frame_cnt,
                       producer, wire>>

\* Fragments 0 .. k of nalu_sent_len bytes, the last one of l bytes, which may
\* be none.
k == sender.buf.len \div nalu_sent_len
l == sender.buf.len % nalu_sent_len

Fragment(t) ==
    [frame |-> sender.buf.frame, seq |-> seqnum[sender.is], timestamp |-> sender.timestamp,
     marker |-> t = k, S |-> t = 0, E |-> t = k,
     from |-> t * nalu_sent_len, size |-> IF t = k THEN l ELSE nalu_sent_len]

Sent(packets, t) ==
    IF t = 0 THEN <<Fragment(t)>> ELSE Append(packets, Fragment(t))

\* Mutant: while (t < k).
SendFragmentsBelowK ==
    LET s == sender.is
    IN  /\ sender.pc = "packet"
        /\ wire' = [wire EXCEPT ![s] = Sent(@, sender.t)]
        /\ seqnum' = [seqnum EXCEPT ![s] = @ + 1]
        /\ sender' = IF sender.t + 1 < k
                       THEN [sender EXCEPT !.t = @ + 1]
                       ELSE [sender EXCEPT !.pc = "client", !.is = @ + 1, !.t = 0]
        /\ UNCHANGED <<status, tsvid, sessions, rtp_buf_deque, heap, h264_frame_cnt, producer>>

\* status is not looked at again: the rest of a frame is sent even when the
\* session ended or the slot has a new client.
SendFragment ==
    LET s == sender.is
    IN  /\ sender.pc = "packet"
        /\ wire' = [wire EXCEPT ![s] = Sent(@, sender.t)]
        /\ seqnum' = [seqnum EXCEPT ![s] = @ + 1]
        /\ sender' = IF sender.t < k
                       THEN [sender EXCEPT !.t = @ + 1]
                       ELSE [sender EXCEPT !.pc = "client", !.is = @ + 1, !.t = 0]
        /\ UNCHANGED <<status, tsvid, sessions, rtp_buf_deque, heap, h264_frame_cnt, producer>>

ClientsDone ==
    /\ sender.pc = "client"
    /\ sender.is = MAX_RTSP_CLIENT
    /\ sender' = [sender EXCEPT !.pc = "pop", !.is = 0]
    /\ UNCHANGED <<clients, rtp_buf_deque, heap, h264_frame_cnt, producer, wire>>

-----------------------------------------------------------------------------
(* rtp_send_thread, the consumer *)

\* The frame stays in the deque while it is sent.
Poll ==
    /\ sender.pc = "poll"
    /\ rtp_buf_deque # <<>>
    /\ sender' = [sender EXCEPT !.pc = "client", !.buf = Head(rtp_buf_deque), !.is = 0]
    /\ UNCHANGED <<clients, rtp_buf_deque, heap, h264_frame_cnt, producer, wire>>

\* Mutant: whatever is last is removed.
PopBack ==
    /\ sender.pc = "pop"
    /\ rtp_buf_deque' = SubSeq(rtp_buf_deque, 1, Len(rtp_buf_deque) - 1)
    /\ heap' = heap \ {sender.buf}
    /\ sender' = [sender EXCEPT !.pc = "load", !.buf = NoBuf]
    /\ UNCHANGED <<clients, h264_frame_cnt, producer, wire>>

\* pop_front and the two frees.
Pop ==
    /\ sender.pc = "pop"
    /\ rtp_buf_deque' = Tail(rtp_buf_deque)
    /\ heap' = heap \ {sender.buf}
    /\ sender' = [sender EXCEPT !.pc = "load", !.buf = NoBuf]
    /\ UNCHANGED <<clients, h264_frame_cnt, producer, wire>>

\* h264_frame_cnt-- is a load and a store.
LoadForDecrement ==
    /\ sender.pc = "load"
    /\ sender' = [sender EXCEPT !.pc = "store", !.reg = h264_frame_cnt]
    /\ UNCHANGED <<clients, rtp_buf_deque, heap, h264_frame_cnt, producer, wire>>

StoreDecrement ==
    /\ sender.pc = "store"
    /\ h264_frame_cnt' = sender.reg - 1
    /\ sender' = [sender EXCEPT !.pc = "poll", !.reg = 0]
    /\ UNCHANGED <<clients, rtp_buf_deque, heap, producer, wire>>

rtp_send_thread ==
    \/ Poll \/ SkipClient \/ SendWhole \/ StartFragments \/ SendFragment \/ ClientsDone
    \/ Pop \/ LoadForDecrement \/ StoreDecrement

-----------------------------------------------------------------------------

Next ==
    \/ ~Torn /\ \E s \in Slot : Connect(s) \/ Play(s) \/ End(s)
    \/ push_stream
    \/ ~Torn /\ rtp_send_thread

Spec == Init /\ [][Next]_vars

(* Fairness: rtp_send_thread, which polls every 5 ms, is scheduled.          *)
FairSpec == Spec /\ WF_vars(~Torn /\ rtp_send_thread)

-----------------------------------------------------------------------------
(* Properties: of the runs in which no push_back overlaps a call of the      *)
(* sender on the deque, and of the others up to the first one that does.     *)

\* Every variable keeps its type.
TypeOK ==
    /\ status \in [Slot -> {"RTSP_IDLE", "RTSP_CONNECTED", "RTSP_SENDING"}]
    /\ seqnum \in [Slot -> Nat] /\ tsvid \in [Slot -> Nat]
    /\ sessions \in 0 .. MaxSessions
    /\ rtp_buf_deque \in Seq(Buffer)
    /\ heap \subseteq Buffer
    /\ h264_frame_cnt \in Int
    /\ producer \in Producer
    /\ sender \in Sender
    /\ wire \in [Slot -> Seq(Packet)]

\* The allocated buffers are exactly those in the deque, each there once, and
\* the one being sent is its first.
Owned ==
    /\ heap = {rtp_buf_deque[n] : n \in DOMAIN rtp_buf_deque}
    /\ Cardinality(heap) = Len(rtp_buf_deque)
    /\ sender.pc \in {"client", "packet", "pop"} =>
          rtp_buf_deque # <<>> /\ sender.buf = Head(rtp_buf_deque)

\* So long as no push_back has run into empty, front or pop_front, the sender
\* reads live memory and nothing leaks, though frames are pushed while it is
\* sending and sessions come and go.
BuffersOwned == ~Torn => Owned

\* A sequence of packets from which a receiver rebuilds the frame of b: they
\* carry its bytes in order and without gaps, none longer than nalu_sent_len,
\* with one timestamp; the first and the last are marked as such; they are
\* numbered one after the other, from 0 again where the slot's session changed.
Rebuilds(packets, b) ==
    LET n == Len(packets)
        cut == b.len > nalu_sent_len
    IN  /\ n > 0
        /\ packets[1].from = 0
        /\ \A i \in 1 .. n - 1 : 
              /\ packets[i].from + packets[i].size = packets[i + 1].from
              /\ packets[i + 1].seq \in {packets[i].seq + 1, 0}
        /\ packets[n].from + packets[n].size = b.len
        /\ \A i \in 1 .. n :
              /\ packets[i].frame = b.frame
              /\ packets[i].size <= nalu_sent_len
              /\ packets[i].timestamp = packets[1].timestamp
              /\ packets[i].marker <=> i = n
              /\ packets[i].S <=> cut /\ i = 1
              /\ packets[i].E <=> cut /\ i = n

\* Once the sender has gone through the clients, a slot it began to send the
\* frame to has all of it, whatever became of the session meanwhile; lengths
\* that are a multiple of nalu_sent_len included.
FrameComplete ==
    sender.pc = "pop" =>
        \A s \in Slot :
            wire[s] # <<>> /\ wire[s][1].frame = sender.buf.frame => Rebuilds(wire[s], sender.buf)

\* Frames are sent to a slot in the order in which they were encoded; with one
\* client slot, as in the build, each at most once (with more, every client is
\* sent the copies queued for the others too).
FramesInOrder ==
    [][\A s \in Slot :
          wire[s] # <<>> /\ wire'[s] # wire[s] /\ Len(wire'[s]) = 1
            => \/ wire'[s][1].frame > wire[s][1].frame
               \/ /\ MAX_RTSP_CLIENT > 1
                  /\ wire'[s][1].frame = wire[s][1].frame]_wire

\* What the comment at h264_frame_cnt++ says of it: whenever neither thread is in the
\* middle of an update, it is the number of encoded frames that remain.
FrameCountExact ==
    producer.pc \in {"idle", "scan", "push"} /\ sender.pc \in {"poll", "client", "packet", "pop"}
      => h264_frame_cnt = Len(rtp_buf_deque)

\* What the comment at timestamp_increse says of it: within a session a frame is stamped one
\* interval after the frame before it.
TimestampsAdvance ==
    [][\A s \in Slot :
          wire[s] # <<>> /\ wire'[s] # <<>> /\ wire'[s] # wire[s] /\ Len(wire'[s]) = 1
            => wire'[s][1].timestamp = wire[s][1].timestamp + timestamp_increse]_wire

\* Every queued frame leaves the deque, sent or, when nobody plays any more,
\* unsent, unless the deque is torn.
QueueDrains ==
    \A f \in Frame, s \in Slot :
        (\E b \in heap : b.frame = f /\ b.slot = s)
          ~> Torn \/ ~(\E b \in heap : b.frame = f /\ b.slot = s)

=============================================================================
