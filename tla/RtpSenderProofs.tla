-------------------------- MODULE RtpSenderProofs --------------------------
(***************************************************************************)
(* What is proved of RtpSender for every number of slots, every length of  *)
(* packet and every size of frame, in the runs of the model, which end     *)
(* when a push_back overlaps a call of the sender on the deque (Torn): the *)
(* buffers are neither lost nor read after they are freed, a receiver can  *)
(* rebuild each frame it was sent, and frames are sent in the order in     *)
(* which they were encoded.                                                *)
(*                                                                         *)
(* The invariant SenderInv ties the three places a frame can be in to each *)
(* other.  The deque is ordered by frame and slot, and the producer is     *)
(* past everything in it.  What was last sent to a slot is no newer than   *)
(* anything in the deque, and it is all of its frame unless the sender is  *)
(* in the middle of it, in which case it is the fragments before t.        *)
(***************************************************************************)
EXTENDS RtpSender, FiniteSetTheorems, SequenceTheorems, TLAPS

-----------------------------------------------------------------------------
(* The inductive invariant *)

\* push_h264_stream queues b before c.
Before(b, c) ==
    \/ b.frame < c.frame
    \/ b.frame = c.frame /\ b.slot < c.slot

\* The producer has no copy before b, or b itself, left to push.
Passed(b) ==
    \/ b.frame < producer.frame
    \/ /\ b.frame = producer.frame
       /\ \/ producer.pc = "idle"
          \/ b.slot < producer.j
          \/ b.slot = producer.j /\ producer.pc \in {"load", "store"}

\* The copies of a frame are pushed in the order of the slots.
DequeInOrder ==
    /\ producer.pc \in {"push", "load", "store"} => producer.j \in Slot
    /\ \A n \in DOMAIN rtp_buf_deque : Passed(rtp_buf_deque[n])
    /\ \A m, n \in DOMAIN rtp_buf_deque :
          m < n => Before(rtp_buf_deque[m], rtp_buf_deque[n])

\* A copy that is in the deque or that the producer may still push.
Known(b) ==
    \/ Queued(b)
    \/ b.frame = producer.frame /\ b.len = producer.len

\* The copies of one frame are of one length.
LengthsAgree ==
    \A b, c \in Buffer : Known(b) /\ Known(c) /\ b.frame = c.frame => b.len = c.len

\* What was sent to a slot is no newer than what is still to be sent.
WireBehind ==
    \A s \in Slot :
        wire[s] # <<>> =>
            /\ wire[s][1].frame <= producer.frame
            /\ \A n \in DOMAIN rtp_buf_deque : wire[s][1].frame <= rtp_buf_deque[n].frame

\* The sender has handled the first buffer of the deque for slot s, or has begun to.
Begun(s) ==
    \/ sender.pc = "pop"
    \/ sender.pc \in {"client", "packet"} /\ s < sender.is
    \/ sender.pc = "packet" /\ s = sender.is /\ sender.t > 0

\* With one slot there is one copy of a frame, and what was sent is older than
\* what is still to be sent.
SentOnce ==
    MAX_RTSP_CLIENT = 1 =>
        \A s \in Slot :
            wire[s] # <<>> =>
                /\ wire[s][1].frame = producer.frame /\ producer.pc \in {"scan", "push"}
                      => producer.j = 1
                /\ \A n \in DOMAIN rtp_buf_deque :
                      wire[s][1].frame = rtp_buf_deque[n].frame => n = 1 /\ Begun(s)

\* Fragment i of b, stamped with stamp, when it is not the last one.
Inner(p, i, b, stamp) ==
    /\ p.frame = b.frame
    /\ p.timestamp = stamp
    /\ p.marker = FALSE
    /\ p.E = FALSE
    /\ p.S = (i = 1)
    /\ p.from = (i - 1) * nalu_sent_len
    /\ p.size = nalu_sent_len

\* The first t fragments of b, stamped with stamp, when the next sequence
\* number is seq.
Prefix(packets, t, b, stamp, seq) ==
    /\ Len(packets) = t
    /\ \A i \in 1 .. t : Inner(packets[i], i, b, stamp)
    /\ \A i \in 1 .. t - 1 : packets[i + 1].seq \in {packets[i].seq + 1, 0}
    /\ seq \in {packets[t].seq + 1, 0}

\* In the middle of a frame the fragments before t have been sent.
PartSent ==
    sender.pc = "packet" =>
        /\ sender.is \in Slot
        /\ sender.t <= k
        /\ sender.buf.len > nalu_sent_len
        /\ sender.t > 0 =>
              Prefix(wire[sender.is], sender.t, sender.buf, sender.timestamp, seqnum[sender.is])

\* The sender is in the middle of a frame for slot s.
Cutting(s) == sender.pc = "packet" /\ s = sender.is /\ sender.t > 0

\* What was sent to a slot is all of a frame, unless the sender is in the middle of it.
WireWhole ==
    \A s \in Slot : \A b \in Buffer :
        /\ wire[s] # <<>>
        /\ ~Cutting(s)
        /\ Known(b)
        /\ wire[s][1].frame = b.frame
        => Rebuilds(wire[s], b)

SenderInv ==
    /\ TypeOK
    /\ DequeInOrder
    /\ Owned
    /\ LengthsAgree
    /\ WireBehind
    /\ SentOnce
    /\ PartSent
    /\ WireWhole

-----------------------------------------------------------------------------
(* Facts *)

\* The fields of a buffer are numbers.
LEMMA BufferFields ==
    ASSUME NEW b \in Buffer
    PROVE  /\ b.frame \in Frame /\ b.frame \in Nat
           /\ b.slot \in Slot /\ b.slot \in Nat
           /\ b.len \in Length /\ b.len \in Nat
BY SenderAssumption DEF Buffer, Frame, Slot, Length

LEMMA SlotNext ==
    ASSUME NEW s \in Slot
    PROVE  s + 1 \in 0 .. MAX_RTSP_CLIENT
BY SenderAssumption DEF Slot

\* What TypeOK says of the parts that the proofs below look at.
LEMMA Typed ==
    ASSUME TypeOK
    PROVE  /\ producer.pc \in {"idle", "scan", "push", "load", "store", "torn"}
           /\ producer.frame \in Frame /\ producer.frame \in Nat
           /\ producer.len \in Length /\ producer.len \in Nat
           /\ producer.j \in 0 .. MAX_RTSP_CLIENT /\ producer.j \in Nat
           /\ sender.pc \in {"poll", "client", "packet", "pop", "load", "store"}
           /\ sender.buf \in Buffer
           /\ sender.is \in 0 .. MAX_RTSP_CLIENT /\ sender.is \in Nat
           /\ sender.t \in Nat /\ sender.timestamp \in Nat
           /\ \A n \in DOMAIN rtp_buf_deque : rtp_buf_deque[n] \in Buffer
<1>1. producer \in Producer /\ sender \in Sender /\ rtp_buf_deque \in Seq(Buffer)
  BY DEF TypeOK
<1>2. MAX_RTSP_CLIENT \in Nat /\ MaxFrames \in Nat /\ LenMod \in Nat
  BY SenderAssumption
<1>3. \A n \in DOMAIN rtp_buf_deque : rtp_buf_deque[n] \in Buffer
  BY <1>1, ElementOfSeq
<1>. QED  BY <1>1, <1>2, <1>3 DEF Producer, Sender, Frame, Length

\* The first packet sent to a slot.
LEMMA FirstPacket ==
    ASSUME TypeOK, NEW s \in Slot, wire[s] # <<>>
    PROVE  wire[s][1].frame \in Nat
<1>1. wire[s] \in Seq(Packet)
  BY DEF TypeOK
<1>2. wire[s][1] \in Packet
  BY <1>1
<1>. QED  BY <1>2, SenderAssumption DEF Packet, Frame

LEMMA CounterNext ==
    ASSUME NEW counter \in [Slot -> Nat], NEW s \in Slot, NEW d \in Nat
    PROVE  /\ [counter EXCEPT ![s] = @ + d] \in [Slot -> Nat]
           /\ [counter EXCEPT ![s] = @ + d][s] = counter[s] + d
OBVIOUS

\* Multiplication, for the offsets of the fragments.
LEMMA MulNext ==
    ASSUME NEW i \in Nat, NEW n \in Nat
    PROVE  i * n \in Nat /\ (i + 1) * n = i * n + n
OBVIOUS

\* k fragments of n bytes and one of l make up a frame.
LEMMA DivMod ==
    ASSUME NEW m \in Nat, NEW n \in Nat \ {0}
    PROVE  /\ m \div n \in Nat
           /\ m % n \in Nat /\ m % n < n
           /\ (m \div n) * n + (m % n) = m
           /\ m > n => m \div n > 0
<1>1. m \div n \in Nat /\ m % n \in 0 .. n - 1 /\ m = n * (m \div n) + (m % n)
  OBVIOUS
<1>2. ASSUME m > n, m \div n = 0 PROVE FALSE
  BY <1>1, <1>2
<1>. QED  BY <1>1, <1>2

\* Rebuilds looks only at the frame and the length of a buffer.
LEMMA SameFrame ==
    ASSUME NEW packets, NEW b, NEW c, b.frame = c.frame, b.len = c.len, Rebuilds(packets, b)
    PROVE  Rebuilds(packets, c)
BY DEF Rebuilds

\* The heap is finite.
LEMMA HeapFinite ==
    ASSUME TypeOK, Owned
    PROVE  IsFiniteSet(heap)
<1>1. rtp_buf_deque \in Seq(Buffer) /\ heap = {rtp_buf_deque[n] : n \in DOMAIN rtp_buf_deque}
  BY DEF TypeOK, Owned
<1>2. DOMAIN rtp_buf_deque = 1 .. Len(rtp_buf_deque) /\ Len(rtp_buf_deque) \in Nat
  BY <1>1
<1>3. IsFiniteSet(1 .. Len(rtp_buf_deque))
  BY <1>2, FS_Interval
<1>4. rtp_buf_deque \in Surjection(1 .. Len(rtp_buf_deque), heap)
  BY <1>1, <1>2 DEF Surjection
<1>. QED  BY <1>3, <1>4, FS_Surjection

\* The order and the lengths of the queued copies concern only the deque and
\* what the producer has passed.
LEMMA QueueKept ==
    ASSUME DequeInOrder, LengthsAgree, UNCHANGED <<rtp_buf_deque, producer>>
    PROVE  DequeInOrder' /\ LengthsAgree'
<1>1. DequeInOrder'
  BY DEF DequeInOrder, Passed, Before
<1>2. LengthsAgree'
  BY DEF LengthsAgree, Known, Queued
<1>. QED  BY <1>1, <1>2

-----------------------------------------------------------------------------
(* The RTSP threads *)

\* What they do concerns the sender only through the next sequence number,
\* which stays or becomes 0.
LEMMA SessionKeeps ==
    ASSUME SenderInv,
           UNCHANGED <<rtp_buf_deque, heap, h264_frame_cnt, producer, sender, wire>>,
           status' \in [Slot -> {"RTSP_IDLE", "RTSP_CONNECTED", "RTSP_SENDING"}],
           seqnum' \in [Slot -> Nat], tsvid' \in [Slot -> Nat],
           sessions' \in 0 .. MaxSessions,
           \A r \in Slot : seqnum'[r] \in {seqnum[r], 0}
    PROVE  SenderInv'
<1>1. TypeOK'
  BY DEF SenderInv, TypeOK
<1>2. DequeInOrder' /\ LengthsAgree'
  BY QueueKept DEF SenderInv
<1>3. Owned'
  BY DEF SenderInv, Owned
<1>4. WireBehind'
  BY DEF SenderInv, WireBehind
<1>5. SentOnce'
  BY DEF SenderInv, SentOnce, Begun
<1>6. PartSent'
  BY DEF SenderInv, PartSent, Prefix, k
<1>7. WireWhole'
  BY DEF SenderInv, WireWhole, Known, Queued, Cutting
<1>. QED  BY <1>1, <1>2, <1>3, <1>4, <1>5, <1>6, <1>7 DEF SenderInv

LEMMA ZeroedTyped ==
    ASSUME NEW s \in Slot, NEW counter \in [Slot -> Nat], NEW next \in Zeroed(counter, s)
    PROVE  next \in [Slot -> Nat] /\ \A r \in Slot : next[r] \in {counter[r], 0}
BY DEF Zeroed

LEMMA ConnectKeeps ==
    ASSUME SenderInv, NEW s \in Slot, Connect(s)
    PROVE  SenderInv'
<1>1. seqnum' \in [Slot -> Nat] /\ tsvid' \in [Slot -> Nat]
      /\ \A r \in Slot : seqnum'[r] \in {seqnum[r], 0}
  BY ZeroedTyped DEF SenderInv, TypeOK, Connect
<1>2. status' \in [Slot -> {"RTSP_IDLE", "RTSP_CONNECTED", "RTSP_SENDING"}]
  BY DEF SenderInv, TypeOK, Connect
<1>3. sessions' \in 0 .. MaxSessions
  BY SenderAssumption DEF SenderInv, TypeOK, Connect
<1>. QED  BY <1>1, <1>2, <1>3, SessionKeeps DEF Connect

LEMMA PlayKeeps ==
    ASSUME SenderInv, NEW s \in Slot, Play(s)
    PROVE  SenderInv'
<1>1. status' \in [Slot -> {"RTSP_IDLE", "RTSP_CONNECTED", "RTSP_SENDING"}]
  BY DEF SenderInv, TypeOK, Play
<1>2. seqnum' \in [Slot -> Nat] /\ tsvid' \in [Slot -> Nat] /\ sessions' \in 0 .. MaxSessions
      /\ \A r \in Slot : seqnum'[r] \in {seqnum[r], 0}
  BY DEF SenderInv, TypeOK, Play
<1>. QED  BY <1>1, <1>2, SessionKeeps DEF Play

LEMMA EndKeeps ==
    ASSUME SenderInv, NEW s \in Slot, End(s)
    PROVE  SenderInv'
<1>1. seqnum' \in [Slot -> Nat] /\ tsvid' \in [Slot -> Nat]
      /\ \A r \in Slot : seqnum'[r] \in {seqnum[r], 0}
  BY ZeroedTyped DEF SenderInv, TypeOK, End
<1>2. status' \in [Slot -> {"RTSP_IDLE", "RTSP_CONNECTED", "RTSP_SENDING"}]
      /\ sessions' \in 0 .. MaxSessions
  BY DEF SenderInv, TypeOK, End
<1>. QED  BY <1>1, <1>2, SessionKeeps DEF End

-----------------------------------------------------------------------------
(* The producer *)

\* The sender, the packets it sent and the deque are not concerned when the
\* producer goes on with its frame.
LEMMA ProducerStep ==
    ASSUME SenderInv, producer' \in Producer,
           UNCHANGED <<clients, rtp_buf_deque, heap, sender, wire>>,
           h264_frame_cnt' \in Int,
           producer'.frame = producer.frame, producer'.len = producer.len,
           DequeInOrder', SentOnce'
    PROVE  SenderInv'
<1>1. TypeOK'
  BY DEF SenderInv, TypeOK, clients
<1>2. Owned'
  BY DEF SenderInv, Owned
<1>3. LengthsAgree'
  BY DEF SenderInv, LengthsAgree, Known, Queued
<1>4. WireBehind'
  BY DEF SenderInv, WireBehind
<1>5. PartSent'
  BY DEF SenderInv, PartSent, k, clients
<1>6. WireWhole'
  BY DEF SenderInv, WireWhole, Known, Queued, Cutting
<1>. QED  BY <1>1, <1>2, <1>3, <1>4, <1>5, <1>6 DEF SenderInv

\* A new frame is newer than all that was queued or sent.
LEMMA EncodeKeeps ==
    ASSUME SenderInv, Encode
    PROVE  SenderInv'
<1>. USE Typed, BufferFields
<1>1. PICK size \in FrameSize :
        producer' = [producer EXCEPT !.frame = @ + 1, !.len = size % LenMod, !.j = 0,
                                     !.pc = IF size = 0 THEN "idle" ELSE "scan"]
  BY DEF Encode
<1>2. /\ producer' \in Producer
      /\ producer'.frame = producer.frame + 1
      /\ producer'.pc \in {"idle", "scan"}
  <2>1. size % LenMod \in Length
    BY SenderAssumption, DivMod DEF Length
  <2>2. producer.frame + 1 \in Frame
    BY SenderAssumption DEF SenderInv, Encode, Frame
  <2>3. 0 \in 0 .. MAX_RTSP_CLIENT
    BY SenderAssumption
  <2>4. producer \in Producer
    BY DEF SenderInv, TypeOK
  <2>. QED  BY <1>1, <2>1, <2>2, <2>3, <2>4 DEF Producer
<1>3. UNCHANGED <<clients, rtp_buf_deque, heap, h264_frame_cnt, sender, wire>>
      /\ producer.pc = "idle"
  BY DEF Encode
<1>4. \A n \in DOMAIN rtp_buf_deque :
        rtp_buf_deque[n] \in Buffer /\ rtp_buf_deque[n].frame < producer'.frame
  BY <1>2 DEF SenderInv, DequeInOrder, Passed
<1>5. \A s \in Slot : wire[s] # <<>> =>
        wire[s][1].frame \in Nat /\ wire[s][1].frame < producer'.frame
  BY <1>2, FirstPacket DEF SenderInv, WireBehind
<1>6. TypeOK'
  BY <1>2, <1>3 DEF SenderInv, TypeOK, clients
<1>7. DequeInOrder'
  <2>1. \A n \in DOMAIN rtp_buf_deque' : Passed(rtp_buf_deque[n])'
    BY <1>3, <1>4 DEF Passed
  <2>. QED  BY <2>1, <1>2, <1>3 DEF SenderInv, DequeInOrder, Before
<1>8. Owned'
  BY <1>3 DEF SenderInv, Owned
<1>9. LengthsAgree'
  <2>. SUFFICES ASSUME NEW b \in Buffer, NEW c \in Buffer, Known(b)', Known(c)', b.frame = c.frame
                PROVE  b.len = c.len
    BY DEF LengthsAgree
  <2>1. b.frame # producer'.frame => Queued(b)
    BY <1>3 DEF Known, Queued
  <2>2. c.frame # producer'.frame => Queued(c)
    BY <1>3 DEF Known, Queued
  <2>3. Queued(b) => b.frame # producer'.frame
    BY <1>2, <1>4 DEF Queued, SenderInv
  <2>4. Queued(c) => c.frame # producer'.frame
    BY <1>2, <1>4 DEF Queued, SenderInv
  <2>5. CASE b.frame = producer'.frame
    BY <2>5, <2>3, <2>4, <1>3 DEF Known, Queued
  <2>6. CASE b.frame # producer'.frame
    BY <2>6, <2>1, <2>2 DEF SenderInv, LengthsAgree, Known
  <2>. QED  BY <2>5, <2>6
<1>10. WireBehind'
  BY SMTT(30), <1>2, <1>3, <1>5 DEF SenderInv, WireBehind
<1>11. SentOnce'
  BY <1>2, <1>3, <1>5 DEF SenderInv, SentOnce, Begun
<1>12. PartSent'
  BY <1>3 DEF SenderInv, PartSent, k, clients
<1>13. WireWhole'
  <2>. SUFFICES ASSUME NEW s \in Slot, NEW b \in Buffer,
                       wire'[s] # <<>>, ~Cutting(s)', Known(b)', wire'[s][1].frame = b.frame
                PROVE  Rebuilds(wire'[s], b)
    BY DEF WireWhole
  <2>1. Queued(b)
    BY <1>2, <1>3, <1>5 DEF Known, Queued, SenderInv
  <2>. QED  BY <2>1, <1>3 DEF SenderInv, WireWhole, Known, Cutting
<1>. QED
  BY <1>6, <1>7, <1>8, <1>9, <1>10, <1>11, <1>12, <1>13 DEF SenderInv

LEMMA NextClientKeeps ==
    ASSUME SenderInv, NextClient
    PROVE  SenderInv'
<1>. USE Typed, BufferFields, SenderAssumption
<1>1. /\ producer.pc = "scan" /\ producer.j \in Slot
      /\ producer' = [producer EXCEPT !.j = @ + 1]
      /\ UNCHANGED <<clients, rtp_buf_deque, heap, h264_frame_cnt, sender, wire>>
  BY DEF NextClient
<1>2. producer \in Producer /\ producer.j + 1 \in 0 .. MAX_RTSP_CLIENT
  BY <1>1, SlotNext DEF SenderInv, TypeOK
<1>3. /\ producer' \in Producer
      /\ producer'.frame = producer.frame /\ producer'.len = producer.len
      /\ producer'.pc = "scan" /\ producer'.j = producer.j + 1
  BY <1>1, <1>2 DEF Producer
<1>4. DequeInOrder'
  <2>1. \A n \in DOMAIN rtp_buf_deque' : Passed(rtp_buf_deque[n])'
    BY <1>1, <1>3 DEF SenderInv, DequeInOrder, Passed
  <2>. QED  BY <2>1, <1>1, <1>3 DEF SenderInv, DequeInOrder, Before
<1>5. SentOnce'
  BY <1>1, <1>3 DEF SenderInv, SentOnce, Begun, Slot
<1>. QED  BY <1>1, <1>3, <1>4, <1>5, ProducerStep DEF SenderInv, TypeOK

LEMMA PushBeginKeeps ==
    ASSUME SenderInv, PushBegin
    PROVE  SenderInv'
<1>. USE Typed, SenderAssumption
<1>1. /\ producer.pc = "scan" /\ producer.j \in Slot
      /\ producer' = [producer EXCEPT !.pc = "push"]
      /\ UNCHANGED <<clients, rtp_buf_deque, heap, h264_frame_cnt, sender, wire>>
  BY DEF PushBegin
<1>2. producer \in Producer /\ h264_frame_cnt \in Int
  BY DEF SenderInv, TypeOK
<1>3. /\ producer' \in Producer
      /\ producer'.frame = producer.frame /\ producer'.len = producer.len
      /\ producer'.pc = "push" /\ producer'.j = producer.j
  BY <1>1, <1>2 DEF Producer
<1>4. DequeInOrder'
  BY <1>1, <1>3 DEF SenderInv, DequeInOrder, Passed, Before
<1>5. SentOnce'
  BY SMTT(30), <1>1, <1>3 DEF SenderInv, SentOnce, Begun
<1>. QED  BY <1>1, <1>2, <1>3, <1>4, <1>5, ProducerStep

LEMMA TearKeeps ==
    ASSUME SenderInv, Tear
    PROVE  SenderInv'
<1>. USE Typed, SenderAssumption
<1>1. /\ producer.pc = "push"
      /\ producer' = [producer EXCEPT !.pc = "torn"]
      /\ UNCHANGED <<clients, rtp_buf_deque, heap, h264_frame_cnt, sender, wire>>
  BY DEF Tear
<1>2. producer \in Producer /\ h264_frame_cnt \in Int
  BY DEF SenderInv, TypeOK
<1>3. /\ producer' \in Producer
      /\ producer'.frame = producer.frame /\ producer'.len = producer.len
      /\ producer'.pc = "torn" /\ producer'.j = producer.j
  BY <1>1, <1>2 DEF Producer
<1>4. DequeInOrder'
  BY <1>1, <1>3 DEF SenderInv, DequeInOrder, Passed, Before
<1>5. SentOnce'
  BY SMTT(30), <1>1, <1>3 DEF SenderInv, SentOnce, Begun
<1>. QED  BY <1>1, <1>2, <1>3, <1>4, <1>5, ProducerStep

\* The new copy goes after all the others and is a copy the deque does not hold.
LEMMA PushKeeps ==
    ASSUME SenderInv, Push
    PROVE  SenderInv'
<1>. USE Typed, BufferFields, SenderAssumption
<1>. DEFINE b == [frame |-> producer.frame, slot |-> producer.j, len |-> producer.len]
            m == Len(rtp_buf_deque)
<1>1. /\ producer.pc = "push" /\ producer.j \in Slot
      /\ heap' = heap \cup {b}
      /\ rtp_buf_deque' = Append(rtp_buf_deque, b)
      /\ producer' = [producer EXCEPT !.pc = "load"]
      /\ UNCHANGED <<clients, h264_frame_cnt, sender, wire>>
  BY DEF Push, SenderInv, DequeInOrder
<1>2. b \in Buffer
  BY <1>1 DEF SenderInv, Buffer
<1>3. rtp_buf_deque \in Seq(Buffer) /\ producer \in Producer /\ heap \subseteq Buffer
  BY DEF SenderInv, TypeOK
<1>4. /\ rtp_buf_deque' \in Seq(Buffer)
      /\ m = Len(rtp_buf_deque) /\ m \in Nat /\ DOMAIN rtp_buf_deque = 1 .. m
      /\ Len(rtp_buf_deque') = m + 1 /\ DOMAIN rtp_buf_deque' = 1 .. (m + 1)
      /\ rtp_buf_deque'[m + 1] = b
      /\ \A n \in 1 .. m : rtp_buf_deque'[n] = rtp_buf_deque[n]
  BY SMTT(30), <1>1, <1>2, <1>3
<1>5. /\ producer' \in Producer /\ producer'.pc = "load"
      /\ producer'.frame = producer.frame /\ producer'.len = producer.len
      /\ producer'.j = producer.j
  BY <1>1, <1>3 DEF Producer
<1>6. b.frame = producer.frame /\ b.slot = producer.j /\ b.len = producer.len
  OBVIOUS
<1>. HIDE DEF b, m
<1>7. \A n \in 1 .. m : Before(rtp_buf_deque[n], b) /\ rtp_buf_deque[n] # b
  <2>. SUFFICES ASSUME NEW n \in 1 .. m
                PROVE  Before(rtp_buf_deque[n], b) /\ rtp_buf_deque[n] # b
    OBVIOUS
  <2>1. PICK c \in Buffer : c = rtp_buf_deque[n]
    BY ONLY <1>3, <1>4, n \in 1 .. m
  <2>2. Passed(c)
    BY ONLY SenderInv, <1>4, <2>1, n \in 1 .. m DEF SenderInv, DequeInOrder
  <2>3. Before(c, b) /\ c # b
    BY ONLY <1>1, <1>6, <2>2, BufferFields, c \in Buffer, <1>2
       DEF Passed, Before
  <2>. QED  BY ONLY <2>1, <2>3, Zenon
<1>8. TypeOK'
  BY <1>1, <1>2, <1>3, <1>4, <1>5 DEF SenderInv, TypeOK, clients
<1>9. DequeInOrder'
  <2>1. \A n \in 1 .. m + 1 : Passed(rtp_buf_deque[n])'
    <3>. SUFFICES ASSUME NEW n \in 1 .. m + 1 PROVE Passed(rtp_buf_deque[n])'
      OBVIOUS
    <3>1. CASE n = m + 1
      BY ONLY <3>1, <1>4, <1>5, <1>6 DEF Passed
    <3>2. CASE n \in 1 .. m
      <4>1. Passed(rtp_buf_deque[n]) /\ rtp_buf_deque'[n] = rtp_buf_deque[n]
        BY ONLY <3>2, <1>4, SenderInv DEF SenderInv, DequeInOrder
      <4>. QED  BY ONLY <4>1, <1>1, <1>5 DEF Passed
    <3>. QED  BY ONLY <3>1, <3>2, <1>4, n \in 1 .. m + 1
  <2>2. \A i, n \in 1 .. m : i < n => Before(rtp_buf_deque[i], rtp_buf_deque[n])
    BY <1>4 DEF SenderInv, DequeInOrder
  <2>3. \A i, n \in 1 .. m + 1 : i < n => Before(rtp_buf_deque'[i], rtp_buf_deque'[n])
    <3>. SUFFICES ASSUME NEW i \in 1 .. m + 1, NEW n \in 1 .. m + 1, i < n
                  PROVE  Before(rtp_buf_deque'[i], rtp_buf_deque'[n])
      OBVIOUS
    <3>1. i \in 1 .. m /\ (n \in 1 .. m \/ n = m + 1)
      BY ONLY <1>4, i \in 1 .. m + 1, n \in 1 .. m + 1, i < n
    <3>2. rtp_buf_deque'[i] = rtp_buf_deque[i]
      BY ONLY <3>1, <1>4, Zenon
    <3>3. CASE n = m + 1
      BY ONLY <3>1, <3>2, <3>3, <1>4, <1>7, Zenon
    <3>4. CASE n \in 1 .. m
      BY ONLY <3>1, <3>2, <3>4, <1>4, <2>2, i < n, Zenon
    <3>. QED  BY ONLY <3>1, <3>3, <3>4, Zenon
  <2>4. producer'.j \in Slot
    BY <1>1, <1>5
  <2>. QED  BY ONLY <2>1, <2>3, <2>4, <1>4 DEF DequeInOrder, Before
<1>10. Owned'
  <2>1. heap = {rtp_buf_deque[n] : n \in 1 .. m} /\ Cardinality(heap) = m
    BY <1>4 DEF SenderInv, Owned
  <2>2. heap' = {rtp_buf_deque'[n] : n \in 1 .. m + 1}
    <3>. SUFFICES ASSUME NEW x PROVE x \in heap' <=> \E n \in 1 .. m + 1 : x = rtp_buf_deque'[n]
      OBVIOUS
    <3>1. x \in heap' <=> (\E n \in 1 .. m : x = rtp_buf_deque[n]) \/ x = b
      BY ONLY <2>1, <1>1, Zenon
    <3>2. \A n \in 1 .. m + 1 : n \in 1 .. m \/ n = m + 1
      BY ONLY <1>4
    <3>3. m + 1 \in 1 .. m + 1 /\ \A n \in 1 .. m : n \in 1 .. m + 1
      BY ONLY <1>4
    <3>. QED  BY ONLY <3>1, <3>2, <3>3, <1>4, Zenon
  <2>3. b \notin heap
    BY ONLY <2>1, <1>7, Zenon
  <2>4. IsFiniteSet(heap)
    BY HeapFinite DEF SenderInv
  <2>5. Cardinality(heap') = m + 1
    BY ONLY <2>1, <2>3, <2>4, <1>1, FS_AddElement, Zenon
  <2>6. sender'.pc \in {"client", "packet", "pop"} =>
          rtp_buf_deque' # <<>> /\ sender'.buf = Head(rtp_buf_deque')
    <3>. SUFFICES ASSUME sender.pc \in {"client", "packet", "pop"}
                  PROVE  rtp_buf_deque' # <<>> /\ sender.buf = Head(rtp_buf_deque')
      BY SMTT(30), <1>1
    <3>1. rtp_buf_deque # <<>> /\ sender.buf = Head(rtp_buf_deque)
      BY DEF SenderInv, Owned
    <3>2. m > 0 /\ 1 \in 1 .. m
      BY ONLY <3>1, <1>3, <1>4
    <3>. QED  BY ONLY <3>1, <3>2, <1>3, <1>4
  <2>7. DOMAIN rtp_buf_deque' = 1 .. m + 1 /\ Len(rtp_buf_deque') = m + 1
    BY ONLY <1>4
  <2>8. heap' = {rtp_buf_deque'[n] : n \in DOMAIN rtp_buf_deque'}
    BY ONLY <2>2, <2>7, Zenon
  <2>. QED  BY ONLY <2>5, <2>6, <2>7, <2>8, ZenonT(40) DEF Owned
<1>11. \A c \in Buffer : Known(c)' => Known(c)
  <2>. SUFFICES ASSUME NEW c \in Buffer, Known(c)' PROVE Known(c)
    OBVIOUS
  <2>1. CASE c.frame = producer.frame /\ c.len = producer.len
    BY ONLY <2>1 DEF Known
  <2>2. CASE Queued(c)'
    <3>1. PICK n \in 1 .. m + 1 : c = rtp_buf_deque'[n]
      BY ONLY <2>2, <1>4 DEF Queued
    <3>2. n = m + 1 \/ n \in 1 .. m
      BY ONLY <1>4, n \in 1 .. m + 1
    <3>. QED  BY ONLY <3>1, <3>2, <1>4, <1>6 DEF Known, Queued
  <2>. QED  BY ONLY <2>1, <2>2, <1>5, Known(c)' DEF Known
<1>12. LengthsAgree'
  BY <1>11 DEF SenderInv, LengthsAgree
<1>13. WireBehind'
  <2>1. \A s \in Slot : wire[s] # <<>> => wire[s][1].frame <= producer.frame
    BY ONLY SenderInv, Zenon DEF SenderInv, WireBehind
  <2>2. ASSUME NEW s \in Slot, wire[s] # <<>>, NEW n \in 1 .. m + 1
        PROVE  wire[s][1].frame <= rtp_buf_deque'[n].frame
    <3>1. CASE n = m + 1
      BY ONLY <2>1, <2>2, <3>1, <1>4, <1>6, s \in Slot
    <3>2. CASE n \in 1 .. m
      BY ONLY <2>2, <3>2, <1>4, SenderInv, s \in Slot DEF SenderInv, WireBehind
    <3>. QED  BY ONLY <3>1, <3>2, <1>4, n \in 1 .. m + 1
  <2>3. wire' = wire /\ producer'.frame = producer.frame /\ DOMAIN rtp_buf_deque' = 1 .. m + 1
    BY <1>1, <1>4, <1>5
  <2>. QED  BY ONLY <2>1, <2>2, <2>3 DEF WireBehind
<1>14. SentOnce'
  <2>. SUFFICES ASSUME MAX_RTSP_CLIENT = 1, NEW s \in Slot, wire[s] # <<>>, NEW n \in 1 .. m + 1,
                       wire[s][1].frame = rtp_buf_deque'[n].frame
                PROVE  n = 1 /\ Begun(s)
    BY SMTT(30), <1>1, <1>4, <1>5 DEF SentOnce, Begun
  <2>1. CASE n = m + 1
    BY <2>1, <1>1, <1>4, <1>6 DEF SenderInv, SentOnce, Slot
  <2>2. CASE n \in 1 .. m
    BY <2>2, <1>4 DEF SenderInv, SentOnce
  <2>. QED  BY <2>1, <2>2, <1>4
<1>15. PartSent'
  BY <1>1 DEF SenderInv, PartSent, k, clients
<1>16. WireWhole'
  BY <1>1, <1>11 DEF SenderInv, WireWhole, Cutting
<1>. QED
  BY <1>8, <1>9, <1>10, <1>12, <1>13, <1>14, <1>15, <1>16 DEF SenderInv

LEMMA LoadForIncrementKeeps ==
    ASSUME SenderInv, LoadForIncrement
    PROVE  SenderInv'
<1>. USE Typed, SenderAssumption
<1>1. /\ producer.pc = "load"
      /\ producer' = [producer EXCEPT !.pc = "store", !.reg = h264_frame_cnt]
      /\ UNCHANGED <<clients, rtp_buf_deque, heap, h264_frame_cnt, sender, wire>>
  BY DEF LoadForIncrement
<1>2. producer \in Producer /\ h264_frame_cnt \in Int
  BY DEF SenderInv, TypeOK
<1>3. /\ producer' \in Producer
      /\ producer'.frame = producer.frame /\ producer'.len = producer.len
      /\ producer'.pc = "store" /\ producer'.j = producer.j
  BY <1>1, <1>2 DEF Producer
<1>4. DequeInOrder'
  BY <1>1, <1>3 DEF SenderInv, DequeInOrder, Passed, Before
<1>5. SentOnce'
  BY SMTT(30), <1>1, <1>3 DEF SenderInv, SentOnce, Begun
<1>. QED  BY <1>1, <1>2, <1>3, <1>4, <1>5, ProducerStep

LEMMA StoreIncrementKeeps ==
    ASSUME SenderInv, StoreIncrement
    PROVE  SenderInv'
<1>. USE Typed, BufferFields, SenderAssumption
<1>1. /\ producer.pc = "store"
      /\ h264_frame_cnt' = producer.reg + 1
      /\ producer' = [producer EXCEPT !.pc = "scan", !.j = @ + 1, !.reg = 0]
      /\ UNCHANGED <<clients, rtp_buf_deque, heap, sender, wire>>
  BY DEF StoreIncrement
<1>2. /\ producer \in Producer /\ producer.reg \in Int
      /\ producer.j \in Slot /\ producer.j + 1 \in 0 .. MAX_RTSP_CLIENT
  BY <1>1, SlotNext DEF SenderInv, TypeOK, Producer, DequeInOrder
<1>3. /\ producer' \in Producer
      /\ producer'.frame = producer.frame /\ producer'.len = producer.len
      /\ producer'.pc = "scan" /\ producer'.j = producer.j + 1
  <2>1. /\ producer' = [pc |-> "scan", frame |-> producer.frame, len |-> producer.len,
                         j |-> producer.j + 1, reg |-> 0]
    BY <1>1, <1>2 DEF Producer
  <2>. QED  BY <2>1, <1>2 DEF Producer, SenderInv
<1>4. DequeInOrder'
  <2>1. \A n \in DOMAIN rtp_buf_deque' : Passed(rtp_buf_deque[n])'
    BY <1>1, <1>3 DEF SenderInv, DequeInOrder, Passed
  <2>. QED  BY <2>1, <1>1, <1>3 DEF SenderInv, DequeInOrder, Before
<1>5. SentOnce'
  BY <1>1, <1>2, <1>3 DEF SenderInv, SentOnce, Begun, Slot
<1>. QED  BY <1>1, <1>2, <1>3, <1>4, <1>5, ProducerStep

LEMMA PushReturnKeeps ==
    ASSUME SenderInv, PushReturn
    PROVE  SenderInv'
<1>. USE Typed, BufferFields, SenderAssumption
<1>1. /\ producer.pc = "scan" /\ producer.j = MAX_RTSP_CLIENT
      /\ producer' = [producer EXCEPT !.pc = "idle"]
      /\ UNCHANGED <<clients, rtp_buf_deque, heap, h264_frame_cnt, sender, wire>>
  BY DEF PushReturn
<1>2. producer \in Producer /\ h264_frame_cnt \in Int
  BY DEF SenderInv, TypeOK
<1>3. /\ producer' \in Producer
      /\ producer'.frame = producer.frame /\ producer'.len = producer.len
      /\ producer'.pc = "idle" /\ producer'.j = producer.j
  BY <1>1, <1>2 DEF Producer
<1>4. DequeInOrder'
  BY <1>1, <1>3 DEF SenderInv, DequeInOrder, Passed, Before
<1>5. SentOnce'
  BY SMTT(30), <1>1, <1>3 DEF SenderInv, SentOnce, Begun
<1>. QED  BY <1>1, <1>2, <1>3, <1>4, <1>5, ProducerStep

-----------------------------------------------------------------------------
(* The sender *)

\* A step of the sender that sends nothing and leaves the deque alone.
LEMMA SenderStep ==
    ASSUME SenderInv, sender' \in Sender,
           UNCHANGED <<status, seqnum, sessions, rtp_buf_deque, heap, producer, wire>>,
           tsvid' \in [Slot -> Nat], h264_frame_cnt' \in Int,
           sender'.pc \in {"client", "packet", "pop"} =>
              rtp_buf_deque # <<>> /\ sender'.buf = Head(rtp_buf_deque),
           \A s \in Slot : Cutting(s) => Cutting(s)',
           SentOnce', PartSent'
    PROVE  SenderInv'
<1>1. TypeOK'
  BY DEF SenderInv, TypeOK
<1>2. DequeInOrder' /\ LengthsAgree'
  BY QueueKept DEF SenderInv
<1>3. Owned'
  BY DEF SenderInv, Owned
<1>4. WireBehind'
  BY DEF SenderInv, WireBehind
<1>5. WireWhole'
  BY DEF SenderInv, WireWhole, Known, Queued
<1>. QED  BY <1>1, <1>2, <1>3, <1>4, <1>5 DEF SenderInv

LEMMA SkipClientKeeps ==
    ASSUME SenderInv, SkipClient
    PROVE  SenderInv'
<1>. USE Typed, SenderAssumption
<1>1. /\ sender.pc = "client" /\ sender.is \in Slot
      /\ sender' = [sender EXCEPT !.is = @ + 1]
      /\ UNCHANGED <<clients, rtp_buf_deque, heap, h264_frame_cnt, producer, wire>>
  BY DEF SkipClient
<1>2. sender \in Sender /\ sender.is + 1 \in 0 .. MAX_RTSP_CLIENT
  BY <1>1, SlotNext DEF SenderInv, TypeOK
<1>3. /\ sender' \in Sender /\ sender'.pc = "client" /\ sender'.buf = sender.buf
      /\ sender'.is = sender.is + 1
  BY <1>1, <1>2 DEF Sender
<1>4. SentOnce'
  BY <1>1, <1>3 DEF SenderInv, SentOnce, Begun, Slot
<1>5. PartSent'
  BY <1>3 DEF PartSent
<1>6. rtp_buf_deque # <<>> /\ sender'.buf = Head(rtp_buf_deque)
  BY <1>1, <1>3 DEF SenderInv, Owned
<1>. QED
  BY <1>1, <1>3, <1>4, <1>5, <1>6, SenderStep DEF SenderInv, TypeOK, Cutting, clients

LEMMA StartFragmentsKeeps ==
    ASSUME SenderInv, StartFragments
    PROVE  SenderInv'
<1>. USE Typed, SenderAssumption
<1>1. /\ sender.pc = "client" /\ sender.is \in Slot /\ sender.buf.len > nalu_sent_len
      /\ tsvid' = [tsvid EXCEPT ![sender.is] = @ + timestamp_increse]
      /\ sender' = [sender EXCEPT !.pc = "packet", !.t = 0, !.timestamp = tsvid'[sender.is]]
      /\ UNCHANGED <<status, seqnum, sessions, rtp_buf_deque, heap, h264_frame_cnt,
                     producer, wire>>
  BY DEF StartFragments
<1>2. sender \in Sender /\ tsvid' \in [Slot -> Nat] /\ tsvid'[sender.is] \in Nat
  <2>1. sender \in Sender /\ tsvid \in [Slot -> Nat]
    BY DEF SenderInv, TypeOK
  <2>2. tsvid[sender.is] + timestamp_increse \in Nat
    BY ONLY <1>1, <2>1, SenderAssumption
  <2>. QED  BY ONLY <1>1, <2>1, <2>2
<1>3. /\ sender' \in Sender /\ sender'.pc = "packet" /\ sender'.buf = sender.buf
      /\ sender'.is = sender.is /\ sender'.t = 0
  BY <1>1, <1>2 DEF Sender
<1>4. SentOnce'
  BY <1>1, <1>3 DEF SenderInv, SentOnce, Begun, Slot
<1>5. PartSent'
  <2>1. sender.buf.len \div nalu_sent_len \in Nat
    BY DivMod, BufferFields DEF SenderInv
  <2>. QED  BY <1>1, <1>3, <2>1 DEF PartSent, k
<1>6. rtp_buf_deque # <<>> /\ sender'.buf = Head(rtp_buf_deque)
  BY <1>1, <1>3 DEF SenderInv, Owned
<1>. QED
  BY <1>1, <1>2, <1>3, <1>4, <1>5, <1>6, SenderStep DEF SenderInv, TypeOK, Cutting

LEMMA ClientsDoneKeeps ==
    ASSUME SenderInv, ClientsDone
    PROVE  SenderInv'
<1>. USE Typed, SenderAssumption
<1>1. /\ sender.pc = "client" /\ sender.is = MAX_RTSP_CLIENT
      /\ sender' = [sender EXCEPT !.pc = "pop", !.is = 0]
      /\ UNCHANGED <<clients, rtp_buf_deque, heap, h264_frame_cnt, producer, wire>>
  BY DEF ClientsDone
<1>2. sender \in Sender /\ 0 \in 0 .. MAX_RTSP_CLIENT
  BY DEF SenderInv, TypeOK
<1>3. sender' \in Sender /\ sender'.pc = "pop" /\ sender'.buf = sender.buf
  BY <1>1, <1>2 DEF Sender
<1>4. SentOnce'
  BY <1>1, <1>3 DEF SenderInv, SentOnce, Begun
<1>5. PartSent'
  BY <1>3 DEF PartSent
<1>6. rtp_buf_deque # <<>> /\ sender'.buf = Head(rtp_buf_deque)
  BY <1>1, <1>3 DEF SenderInv, Owned
<1>. QED
  BY <1>1, <1>3, <1>4, <1>5, <1>6, SenderStep DEF SenderInv, TypeOK, Cutting, clients

LEMMA PollKeeps ==
    ASSUME SenderInv, Poll
    PROVE  SenderInv'
<1>. USE Typed, SenderAssumption
<1>1. /\ sender.pc = "poll" /\ rtp_buf_deque # <<>>
      /\ sender' = [sender EXCEPT !.pc = "client", !.buf = Head(rtp_buf_deque), !.is = 0]
      /\ UNCHANGED <<clients, rtp_buf_deque, heap, h264_frame_cnt, producer, wire>>
  BY DEF Poll
<1>2. sender \in Sender /\ 0 \in 0 .. MAX_RTSP_CLIENT /\ Head(rtp_buf_deque) \in Buffer
  BY <1>1 DEF SenderInv, TypeOK
<1>3. /\ sender' \in Sender /\ sender'.pc = "client"
      /\ sender'.buf = Head(rtp_buf_deque) /\ sender'.is = 0
  BY <1>1, <1>2 DEF Sender
<1>4. SentOnce'
  BY <1>1, <1>3 DEF SenderInv, SentOnce, Begun
<1>5. PartSent'
  BY <1>3 DEF PartSent
<1>. QED
  BY <1>1, <1>3, <1>4, <1>5, SenderStep DEF SenderInv, TypeOK, Cutting, clients

LEMMA LoadForDecrementKeeps ==
    ASSUME SenderInv, LoadForDecrement
    PROVE  SenderInv'
<1>. USE Typed, SenderAssumption
<1>1. /\ sender.pc = "load"
      /\ sender' = [sender EXCEPT !.pc = "store", !.reg = h264_frame_cnt]
      /\ UNCHANGED <<clients, rtp_buf_deque, heap, h264_frame_cnt, producer, wire>>
  BY DEF LoadForDecrement
<1>2. sender \in Sender /\ h264_frame_cnt \in Int
  BY DEF SenderInv, TypeOK
<1>3. sender' \in Sender /\ sender'.pc = "store"
  BY <1>1, <1>2 DEF Sender
<1>4. SentOnce'
  BY <1>1, <1>3 DEF SenderInv, SentOnce, Begun
<1>5. PartSent'
  BY <1>3 DEF PartSent
<1>. QED
  BY <1>1, <1>2, <1>3, <1>4, <1>5, SenderStep DEF SenderInv, TypeOK, Cutting, clients

LEMMA StoreDecrementKeeps ==
    ASSUME SenderInv, StoreDecrement
    PROVE  SenderInv'
<1>. USE Typed, SenderAssumption
<1>1. /\ sender.pc = "store" /\ h264_frame_cnt' = sender.reg - 1
      /\ sender' = [sender EXCEPT !.pc = "poll", !.reg = 0]
      /\ UNCHANGED <<clients, rtp_buf_deque, heap, producer, wire>>
  BY DEF StoreDecrement
<1>2. sender \in Sender /\ h264_frame_cnt' \in Int
  BY SMTT(30), <1>1 DEF SenderInv, TypeOK, Sender
<1>3. sender' \in Sender /\ sender'.pc = "poll"
  <2>1. sender' = [pc |-> "poll", buf |-> sender.buf, is |-> sender.is, t |-> sender.t,
                   timestamp |-> sender.timestamp, reg |-> 0]
    BY <1>1, <1>2 DEF Sender
  <2>. QED  BY <2>1 DEF Sender, SenderInv
<1>4. SentOnce'
  BY <1>1, <1>3 DEF SenderInv, SentOnce, Begun
<1>5. PartSent'
  BY <1>3 DEF PartSent
<1>. QED
  BY <1>1, <1>2, <1>3, <1>4, <1>5, SenderStep DEF SenderInv, TypeOK, Cutting, clients

\* The buffer that leaves is the first of the deque and none of the others.
LEMMA PopKeeps ==
    ASSUME SenderInv, Pop
    PROVE  SenderInv'
<1>. USE Typed, BufferFields, SenderAssumption
<1>. DEFINE m == Len(rtp_buf_deque)
<1>1. /\ sender.pc = "pop"
      /\ rtp_buf_deque' = Tail(rtp_buf_deque)
      /\ heap' = heap \ {sender.buf}
      /\ sender' = [sender EXCEPT !.pc = "load", !.buf = NoBuf]
      /\ UNCHANGED <<clients, h264_frame_cnt, producer, wire>>
  BY DEF Pop
<1>2. rtp_buf_deque # <<>> /\ sender.buf = Head(rtp_buf_deque)
  BY <1>1 DEF SenderInv, Owned
<1>3. rtp_buf_deque \in Seq(Buffer) /\ sender \in Sender /\ heap \subseteq Buffer
  BY DEF SenderInv, TypeOK
<1>4. /\ m \in Nat \ {0} /\ DOMAIN rtp_buf_deque = 1 .. m
      /\ sender.buf = rtp_buf_deque[1]
      /\ rtp_buf_deque' \in Seq(Buffer)
      /\ Len(rtp_buf_deque') = m - 1 /\ DOMAIN rtp_buf_deque' = 1 .. m - 1
      /\ \A n \in 1 .. m - 1 : rtp_buf_deque'[n] = rtp_buf_deque[n + 1]
  BY <1>1, <1>2, <1>3
<1>5. sender' \in Sender /\ sender'.pc = "load"
  <2>1. NoBuf \in Buffer
    BY DEF NoBuf, Buffer, Frame, Slot, Length
  <2>. QED  BY <1>1, <1>3, <2>1 DEF Sender
<1>6. 1 \in 1 .. m /\ \A n \in 1 .. m - 1 : n + 1 \in 1 .. m /\ 1 < n + 1
  BY SMTT(30), <1>4
<1>. HIDE DEF m
<1>7. \A n \in 1 .. m - 1 : rtp_buf_deque'[n] # sender.buf
  <2>. SUFFICES ASSUME NEW n \in 1 .. m - 1 PROVE rtp_buf_deque[n + 1] # sender.buf
    BY <1>4
  <2>1. Before(rtp_buf_deque[1], rtp_buf_deque[n + 1])
    BY <1>4, <1>6 DEF SenderInv, DequeInOrder
  <2>2. sender.buf \in Buffer
    BY DEF SenderInv
  <2>. QED  BY SMTT(30), <2>1, <2>2, <1>4 DEF Before
<1>8. TypeOK'
  BY <1>1, <1>3, <1>4, <1>5 DEF SenderInv, TypeOK, clients
<1>9. DequeInOrder'
  <2>1. \A n \in 1 .. m - 1 : Passed(rtp_buf_deque[n])'
    BY SMTT(30), <1>1, <1>4, <1>6 DEF SenderInv, DequeInOrder, Passed
  <2>2. \A i, n \in 1 .. m - 1 : i < n => Before(rtp_buf_deque[i], rtp_buf_deque[n])'
    <3>. SUFFICES ASSUME NEW i \in 1 .. m - 1, NEW n \in 1 .. m - 1, i < n
                  PROVE  Before(rtp_buf_deque[i], rtp_buf_deque[n])'
      OBVIOUS
    <3>1. i + 1 < n + 1
      BY <1>4
    <3>2. Before(rtp_buf_deque[i + 1], rtp_buf_deque[n + 1])
      BY <3>1, <1>4, <1>6 DEF SenderInv, DequeInOrder
    <3>. QED  BY <3>2, <1>4 DEF Before
  <2>. QED  BY <2>1, <2>2, <1>1, <1>4 DEF SenderInv, DequeInOrder
<1>10. Owned'
  <2>1. heap = {rtp_buf_deque[n] : n \in 1 .. m} /\ Cardinality(heap) = m
    BY <1>4 DEF SenderInv, Owned, m
  <2>2. heap' = {rtp_buf_deque'[n] : n \in 1 .. m - 1}
    <3>. SUFFICES ASSUME NEW x PROVE x \in heap' <=> \E n \in 1 .. m - 1 : x = rtp_buf_deque'[n]
      OBVIOUS
    <3>1. x \in heap' <=> x # sender.buf /\ \E n \in 1 .. m : x = rtp_buf_deque[n]
      BY ONLY <2>1, <1>1, Zenon
    <3>2. \A n \in 1 .. m : n = 1 \/ (n - 1 \in 1 .. m - 1 /\ (n - 1) + 1 = n)
      BY ONLY <1>4
    <3>3. ASSUME NEW n \in 1 .. m, x = rtp_buf_deque[n], x # sender.buf
          PROVE  \E i \in 1 .. m - 1 : x = rtp_buf_deque'[i]
      BY ONLY <3>2, <3>3, <1>4, n \in 1 .. m, ZenonT(40)
    <3>4. ASSUME NEW n \in 1 .. m - 1, x = rtp_buf_deque'[n]
          PROVE  x # sender.buf /\ \E i \in 1 .. m : x = rtp_buf_deque[i]
      BY <3>4, <1>4, <1>6, <1>7
    <3>. QED  BY <3>1, <3>3, <3>4
  <2>3. sender.buf \in heap
    BY ONLY <2>1, <1>4, <1>6, Zenon
  <2>4. IsFiniteSet(heap)
    BY HeapFinite DEF SenderInv
  <2>5. Cardinality(heap') = m - 1
    <3>1. Cardinality(heap \ {sender.buf}) = Cardinality(heap) - 1
      BY <2>3, <2>4, FS_RemoveElement
    <3>. QED  BY <3>1, <2>1, <1>1
  <2>. QED  BY <2>2, <2>5, <1>4, <1>5 DEF Owned
<1>11. \A c \in Buffer : Known(c)' => Known(c)
  BY <1>1, <1>4, <1>6 DEF Known, Queued
<1>12. LengthsAgree'
  BY <1>11 DEF SenderInv, LengthsAgree
<1>13. WireBehind'
  BY <1>1, <1>4, <1>6 DEF SenderInv, WireBehind
<1>14. SentOnce'
  <2>1. ASSUME MAX_RTSP_CLIENT = 1, NEW s \in Slot, wire[s] # <<>>, NEW n \in 1 .. m - 1
        PROVE  wire[s][1].frame # rtp_buf_deque'[n].frame
    <3>1. wire[s][1].frame = rtp_buf_deque[n + 1].frame => n + 1 = 1
      BY <2>1, <1>4, <1>6 DEF SenderInv, SentOnce
    <3>. QED  BY SMTT(30), <3>1, <1>4
  <2>. QED  BY <2>1, <1>1, <1>4 DEF SenderInv, SentOnce
<1>15. PartSent'
  BY <1>5 DEF PartSent
<1>16. WireWhole'
  BY <1>1, <1>11 DEF SenderInv, WireWhole, Cutting
<1>. QED
  BY <1>8, <1>9, <1>10, <1>12, <1>13, <1>14, <1>15, <1>16 DEF SenderInv

\* While it is sent, a buffer is the oldest in the deque, and no other copy of
\* its frame is in it when there is one slot.
LEMMA HeadOldest ==
    ASSUME SenderInv, sender.pc \in {"client", "packet", "pop"}
    PROVE  /\ Known(sender.buf) /\ Passed(sender.buf)
           /\ sender.buf.frame <= producer.frame
           /\ \A n \in DOMAIN rtp_buf_deque : sender.buf.frame <= rtp_buf_deque[n].frame
           /\ MAX_RTSP_CLIENT = 1 =>
                 \A n \in DOMAIN rtp_buf_deque :
                     sender.buf.frame = rtp_buf_deque[n].frame => n = 1
<1>. USE Typed, BufferFields, SenderAssumption
<1>1. /\ rtp_buf_deque \in Seq(Buffer) /\ rtp_buf_deque # <<>>
      /\ sender.buf = Head(rtp_buf_deque)
  BY DEF SenderInv, TypeOK, Owned
<1>2. /\ 1 \in DOMAIN rtp_buf_deque /\ sender.buf = rtp_buf_deque[1]
      /\ \A n \in DOMAIN rtp_buf_deque : n = 1 \/ 1 < n
  BY <1>1
<1>3. \A n \in DOMAIN rtp_buf_deque : n = 1 \/ Before(sender.buf, rtp_buf_deque[n])
  BY <1>2 DEF SenderInv, DequeInOrder
<1>4. sender.buf \in Buffer /\ \A n \in DOMAIN rtp_buf_deque : rtp_buf_deque[n] \in Buffer
  BY DEF SenderInv
<1>5. Known(sender.buf) /\ Passed(sender.buf)
  BY <1>2 DEF SenderInv, DequeInOrder, Known, Queued
<1>6. sender.buf.frame <= producer.frame
  BY <1>4, <1>5 DEF Passed, SenderInv
<1>7. \A n \in DOMAIN rtp_buf_deque : sender.buf.frame <= rtp_buf_deque[n].frame
  BY <1>2, <1>3, <1>4 DEF Before
<1>8. ASSUME MAX_RTSP_CLIENT = 1, NEW n \in DOMAIN rtp_buf_deque,
             sender.buf.frame = rtp_buf_deque[n].frame
      PROVE  n = 1
  BY <1>3, <1>4, <1>8 DEF Before, Slot
<1>. QED  BY <1>5, <1>6, <1>7, <1>8

\* What holds once the packets of slot s are of the buffer being sent, whether
\* it is their first packet or a later one.
LEMMA PacketsSent ==
    ASSUME SenderInv, sender.pc \in {"client", "packet"}, NEW r \in Slot, r = sender.is,
           NEW packets \in Seq(Packet), packets # <<>>, packets[1].frame = sender.buf.frame,
           wire' = [wire EXCEPT ![r] = packets],
           UNCHANGED <<status, sessions, rtp_buf_deque, heap, h264_frame_cnt, producer>>,
           seqnum' \in [Slot -> Nat], tsvid' \in [Slot -> Nat],
           sender' \in Sender, sender'.buf = sender.buf,
           sender'.pc \in {"client", "packet"},
           Begun(r)',
           \A s \in Slot : Begun(s) => Begun(s)',
           \A s \in Slot : s # r => ~Cutting(s) /\ ~Cutting(s)',
           Cutting(r)' \/ Rebuilds(packets, sender.buf),
           PartSent'
    PROVE  SenderInv'
<1>. USE Typed, BufferFields, SenderAssumption
<1>1. TypeOK'
  BY DEF SenderInv, TypeOK
<1>2. DequeInOrder' /\ LengthsAgree'
  BY QueueKept DEF SenderInv
<1>3. Owned'
  BY DEF SenderInv, Owned
<1>4. /\ wire'[r] = packets
      /\ \A s \in Slot : s # r => wire'[s] = wire[s]
  BY DEF SenderInv, TypeOK
<1>5. WireBehind'
  <2>. SUFFICES ASSUME NEW s \in Slot, wire'[s] # <<>>
                PROVE  /\ wire'[s][1].frame <= producer.frame
                       /\ \A n \in DOMAIN rtp_buf_deque :
                             wire'[s][1].frame <= rtp_buf_deque[n].frame
    BY DEF WireBehind
  <2>1. CASE s = r
    BY <2>1, <1>4, HeadOldest
  <2>2. CASE s # r
    BY <2>2, <1>4 DEF SenderInv, WireBehind
  <2>. QED  BY <2>1, <2>2
<1>6. SentOnce'
  <2>. SUFFICES ASSUME MAX_RTSP_CLIENT = 1, NEW s \in Slot
                PROVE  /\ wire'[s][1].frame = producer.frame /\ producer.pc \in {"scan", "push"}
                            => producer.j = 1
                       /\ \A n \in DOMAIN rtp_buf_deque :
                             wire'[s][1].frame = rtp_buf_deque[n].frame => n = 1 /\ Begun(s)'
    BY DEF SentOnce
  <2>1. s = r
    BY DEF Slot
  <2>2. \A n \in DOMAIN rtp_buf_deque :
          wire'[s][1].frame = rtp_buf_deque[n].frame => n = 1 /\ Begun(s)'
    BY <2>1, <1>4, HeadOldest
  <2>3. ASSUME sender.buf.frame = producer.frame, producer.pc \in {"scan", "push"}
        PROVE  producer.j = 1
    <3>1. Passed(sender.buf) /\ sender.buf.slot = 0
      BY SMTT(30), HeadOldest DEF SenderInv, Slot
    <3>. QED  BY SMTT(30), <2>3, <3>1 DEF Passed, SenderInv
  <2>. QED  BY <2>1, <2>2, <2>3, <1>4
<1>7. WireWhole'
  <2>. SUFFICES ASSUME NEW s \in Slot, NEW b \in Buffer, wire'[s] # <<>>, ~Cutting(s)',
                       Known(b)', wire'[s][1].frame = b.frame
                PROVE  Rebuilds(wire'[s], b)
    BY DEF WireWhole
  <2>1. Known(b)
    BY DEF Known, Queued
  <2>2. CASE s = r
    <3>1. Known(sender.buf) /\ sender.buf \in Buffer /\ b.frame = sender.buf.frame
      BY <2>2, <1>4, HeadOldest DEF SenderInv
    <3>2. b.len = sender.buf.len
      BY ONLY <2>1, <3>1, SenderInv, b \in Buffer, Zenon DEF SenderInv, LengthsAgree
    <3>3. Rebuilds(packets, sender.buf)
      BY ONLY <2>2, ~Cutting(s)', Cutting(r)' \/ Rebuilds(packets, sender.buf), Zenon
    <3>. QED  BY ONLY <2>2, <3>1, <3>2, <3>3, <1>4, SameFrame, Zenon
  <2>3. CASE s # r
    BY SMTT(30), <2>1, <2>3, <1>4 DEF SenderInv, WireWhole
  <2>. QED  BY <2>2, <2>3
<1>. QED  BY <1>1, <1>2, <1>3, <1>5, <1>6, <1>7 DEF SenderInv

LEMMA SendWholeKeeps ==
    ASSUME SenderInv, SendWhole
    PROVE  SenderInv'
<1>. USE Typed, SenderAssumption
<1>. DEFINE p == [frame |-> sender.buf.frame, seq |-> seqnum[sender.is],
                  timestamp |-> tsvid[sender.is], marker |-> TRUE, S |-> FALSE, E |-> FALSE,
                  from |-> 0, size |-> sender.buf.len]
<1>1. /\ sender.pc = "client" /\ sender.is \in Slot
      /\ sender.buf.len <= nalu_sent_len
      /\ wire' = [wire EXCEPT ![sender.is] = <<p>>]
      /\ seqnum' = [seqnum EXCEPT ![sender.is] = @ + 1]
      /\ tsvid' = [tsvid EXCEPT ![sender.is] = @ + timestamp_increse]
      /\ sender' = [sender EXCEPT !.is = @ + 1]
      /\ UNCHANGED <<status, sessions, rtp_buf_deque, heap, h264_frame_cnt, producer>>
  BY DEF SendWhole
<1>2. seqnum' \in [Slot -> Nat] /\ tsvid' \in [Slot -> Nat]
  <2>. HIDE DEF p
  <2>1. seqnum \in [Slot -> Nat] /\ tsvid \in [Slot -> Nat]
    BY DEF SenderInv, TypeOK
  <2>. QED  BY <1>1, <2>1, CounterNext
<1>3. sender.buf \in Buffer /\ sender.buf.len \in Nat /\ sender.buf.frame \in Frame
  BY BufferFields DEF SenderInv
<1>4. p \in Packet
  BY <1>1, <1>3 DEF SenderInv, TypeOK, Packet
<1>5. <<p>> \in Seq(Packet) /\ <<p>> # <<>> /\ <<p>>[1].frame = sender.buf.frame
  BY <1>4
<1>6. sender \in Sender /\ sender.is + 1 \in 0 .. MAX_RTSP_CLIENT
  BY <1>1, SlotNext DEF SenderInv, TypeOK
<1>7. /\ sender' \in Sender /\ sender'.pc = "client" /\ sender'.buf = sender.buf
      /\ sender'.is = sender.is + 1
  BY <1>1, <1>6 DEF Sender
<1>8. \A s \in Slot : s = sender.is \/ Begun(s) => Begun(s)'
  BY <1>1, <1>7 DEF Begun, Slot, SenderInv
<1>9. \A s \in Slot : ~Cutting(s) /\ ~Cutting(s)'
  BY <1>1, <1>7 DEF Cutting
<1>10. Rebuilds(<<p>>, sender.buf)
  BY <1>1, <1>3 DEF Rebuilds
<1>11. PartSent'
  BY <1>7 DEF PartSent
<1>. HIDE DEF p
<1>. QED  BY <1>1, <1>2, <1>5, <1>7, <1>8, <1>9, <1>10, <1>11, PacketsSent

\* One more fragment extends the prefix, and the last one completes the frame.
LEMMA FragmentSent ==
    ASSUME TypeOK, PartSent, sender.pc = "packet",
           NEW packets, packets = Sent(wire[sender.is], sender.t)
    PROVE  /\ packets \in Seq(Packet) /\ packets # <<>>
           /\ packets[1].frame = sender.buf.frame
           /\ sender.t < k =>
                 Prefix(packets, sender.t + 1, sender.buf, sender.timestamp,
                        seqnum[sender.is] + 1)
           /\ sender.t = k => Rebuilds(packets, sender.buf)
<1>. DEFINE t == sender.t
            f == Fragment(t)
            old == wire[sender.is]
            seq == seqnum[sender.is]
            n == nalu_sent_len
<1>1. /\ t \in Nat /\ n \in Nat \ {0} /\ seq \in Nat /\ sender.timestamp \in Nat
      /\ old \in Seq(Packet) /\ sender.is \in Slot
  BY Typed, SenderAssumption DEF TypeOK, PartSent
<1>2. sender.buf \in Buffer /\ sender.buf.len \in Nat /\ sender.buf.frame \in Frame
  BY Typed, BufferFields
<1>3. /\ k \in Nat /\ l \in Nat /\ l < n /\ k * n + l = sender.buf.len
      /\ k > 0 /\ t <= k /\ sender.buf.len > n
  BY <1>1, <1>2, DivMod DEF k, l, PartSent
<1>4. /\ f.frame = sender.buf.frame /\ f.seq = seq /\ f.timestamp = sender.timestamp
      /\ f.marker = (t = k) /\ f.S = (t = 0) /\ f.E = (t = k)
      /\ f.from = t * n /\ f.size = IF t = k THEN l ELSE n
  BY DEF Fragment
<1>5. f \in Packet
  <2>1. t * n \in Nat /\ (IF t = k THEN l ELSE n) \in Nat
    BY <1>1, <1>3, MulNext
  <2>. QED  BY <1>1, <1>2, <2>1 DEF Fragment, Packet
<1>6. /\ packets \in Seq(Packet) /\ Len(packets) = t + 1 /\ packets[t + 1] = f
      /\ t > 0 => \A i \in 1 .. t : packets[i] = old[i]
  <2>1. CASE t = 0
    BY <2>1, <1>1, <1>5 DEF Sent
  <2>2. CASE t # 0
    BY <2>2, <1>1, <1>5 DEF Sent, PartSent, Prefix
  <2>. QED  BY <2>1, <2>2
<1>7. \A i \in 1 .. t : Inner(packets[i], i, sender.buf, sender.timestamp)
  <2>1. CASE t = 0
    BY <2>1
  <2>2. CASE t > 0
    <3>1. Prefix(old, t, sender.buf, sender.timestamp, seq)
      BY <2>2 DEF PartSent
    <3>. QED  BY <2>2, <3>1, <1>6 DEF Prefix
  <2>. QED  BY <2>1, <2>2, <1>1
<1>8. \A i \in 1 .. t : packets[i + 1].seq \in {packets[i].seq + 1, 0}
  <2>. SUFFICES ASSUME NEW i \in 1 .. t PROVE packets[i + 1].seq \in {packets[i].seq + 1, 0}
    OBVIOUS
  <2>1. t > 0 /\ Prefix(old, t, sender.buf, sender.timestamp, seq)
    BY <1>1 DEF PartSent
  <2>2. CASE i = t
    BY <2>1, <2>2, <1>1, <1>4, <1>6 DEF Prefix
  <2>3. CASE i < t
    <3>1. i \in 1 .. t - 1 /\ i + 1 \in 1 .. t
      BY <2>3, <1>1
    <3>. QED  BY <2>1, <3>1, <1>6 DEF Prefix
  <2>. QED  BY <2>2, <2>3, <1>1
<1>9. packets # <<>> /\ packets[1].frame = sender.buf.frame
  <2>1. CASE t = 0
    BY <2>1, <1>4, <1>6
  <2>2. CASE t # 0
    <3>1. 1 \in 1 .. t
      BY <2>2, <1>1
    <3>2. packets[1].frame = sender.buf.frame
      BY <3>1, <1>7 DEF Inner
    <3>. QED  BY <3>2, <1>1, <1>6
  <2>. QED  BY <2>1, <2>2
<1>. HIDE DEF t, f, old, seq, n
<1>10. ASSUME t < k
       PROVE  Prefix(packets, t + 1, sender.buf, sender.timestamp, seq + 1)
  <2>1. ASSUME NEW i \in 1 .. t + 1
        PROVE  Inner(packets[i], i, sender.buf, sender.timestamp)
    <3>1. CASE i = t + 1
      <4>1. i - 1 = t /\ t # k /\ (i = 1 <=> t = 0)
        BY <3>1, <1>1, <1>3, <1>10
      <4>2. packets[i] = f
        BY <3>1, <1>6
      <4>3. f.size = n /\ f.from = (i - 1) * n
        BY <4>1, <1>4
      <4>4. f.marker = FALSE /\ f.E = FALSE /\ f.S = (i = 1)
        BY <4>1, <1>4, Zenon
      <4>. QED  BY <4>2, <4>3, <4>4, <1>4, Zenon DEF Inner, n
    <3>2. CASE i \in 1 .. t
      BY <3>2, <1>7
    <3>. QED  BY <3>1, <3>2, <1>1
  <2>2. \A i \in 1 .. (t + 1) - 1 : packets[i + 1].seq \in {packets[i].seq + 1, 0}
    BY <1>1, <1>8
  <2>3. seq + 1 \in {packets[t + 1].seq + 1, 0}
    BY SMTT(30), <1>4, <1>6
  <2>. QED  BY <2>1, <2>2, <2>3, <1>6 DEF Prefix, n
<1>11. ASSUME t = k
       PROVE  Rebuilds(packets, sender.buf)
  <2>1. t > 0 /\ t + 1 > 0 /\ 1 \in 1 .. t
    BY <1>1, <1>3, <1>11
  <2>2. packets[1].from = 0 /\ packets[1].timestamp = sender.timestamp
    BY <2>1, <1>1, <1>7 DEF Inner, n
  <2>3. ASSUME NEW i \in 1 .. t
        PROVE  packets[i].from + packets[i].size = packets[i + 1].from
    <3>1. packets[i].from + packets[i].size = i * n
      <4>1. i - 1 \in Nat /\ (i - 1) + 1 = i
        BY <1>1
      <4>2. (i - 1) * n + n = i * n
        BY <4>1, <1>1, MulNext
      <4>. QED  BY <4>2, <1>7 DEF Inner, n
    <3>2. CASE i = t
      BY <3>1, <3>2, <1>4, <1>6
    <3>3. CASE i + 1 \in 1 .. t
      <4>1. packets[i + 1].from = ((i + 1) - 1) * n
        BY <3>3, <1>7 DEF Inner, n
      <4>. QED  BY <3>1, <4>1, <1>1
    <3>. QED  BY <3>2, <3>3, <1>1
  <2>4. packets[t + 1].from + packets[t + 1].size = sender.buf.len
    BY <1>3, <1>4, <1>6, <1>11
  <2>5. ASSUME NEW i \in 1 .. t + 1
        PROVE  /\ packets[i].frame = sender.buf.frame
               /\ packets[i].size <= n
               /\ packets[i].timestamp = packets[1].timestamp
               /\ packets[i].marker <=> i = t + 1
               /\ packets[i].S <=> i = 1
               /\ packets[i].E <=> i = t + 1
    <3>1. CASE i = t + 1
      <4>1. packets[i] = f /\ t # 0 /\ i # 1
        BY <3>1, <2>1, <1>1, <1>6
      <4>2. f.size <= n
        BY <1>1, <1>3, <1>4
      <4>. QED  BY <3>1, <4>1, <4>2, <2>2, <1>4, <1>11, Zenon
    <3>2. CASE i \in 1 .. t
      <4>1. i # t + 1
        BY <3>2, <1>1
      <4>2. Inner(packets[i], i, sender.buf, sender.timestamp) /\ n <= n
        BY <3>2, <1>1, <1>7
      <4>. QED  BY <4>1, <4>2, <2>2, Zenon DEF Inner, n
    <3>. QED  BY <3>1, <3>2, <1>1
  <2>6. (t + 1) - 1 = t
    BY <1>1
  <2>. QED  BY <2>1, <2>2, <2>3, <2>4, <2>5, <2>6, <1>3, <1>6, <1>8 DEF Rebuilds, n
<1>. QED  BY <1>6, <1>9, <1>10, <1>11 DEF t, seq

LEMMA SendFragmentKeeps ==
    ASSUME SenderInv, SendFragment
    PROVE  SenderInv'
<1>. USE Typed, SenderAssumption
<1>. DEFINE packets == Sent(wire[sender.is], sender.t)
<1>1. /\ sender.pc = "packet"
      /\ wire' = [wire EXCEPT ![sender.is] = packets]
      /\ seqnum' = [seqnum EXCEPT ![sender.is] = @ + 1]
      /\ sender' = IF sender.t < k
                     THEN [sender EXCEPT !.t = @ + 1]
                     ELSE [sender EXCEPT !.pc = "client", !.is = @ + 1, !.t = 0]
      /\ UNCHANGED <<status, tsvid, sessions, rtp_buf_deque, heap, h264_frame_cnt, producer>>
  BY DEF SendFragment, SenderInv, TypeOK
<1>2. /\ sender.is \in Slot /\ sender.t <= k /\ sender.buf.len > nalu_sent_len
      /\ k \in Nat /\ sender.is \in Nat /\ sender.t \in Nat
  <2>1. sender.buf.len \div nalu_sent_len \in Nat
    BY DivMod, BufferFields DEF SenderInv
  <2>. QED  BY <1>1, <2>1 DEF SenderInv, PartSent, k
<1>3. /\ packets \in Seq(Packet) /\ packets # <<>> /\ packets[1].frame = sender.buf.frame
      /\ sender.t < k => Prefix(packets, sender.t + 1, sender.buf, sender.timestamp,
                                seqnum[sender.is] + 1)
      /\ sender.t = k => Rebuilds(packets, sender.buf)
  BY <1>1, FragmentSent DEF SenderInv
<1>. HIDE DEF packets
<1>4. /\ seqnum' \in [Slot -> Nat] /\ tsvid' \in [Slot -> Nat]
      /\ seqnum'[sender.is] = seqnum[sender.is] + 1
      /\ wire'[sender.is] = packets
  <2>1. seqnum \in [Slot -> Nat] /\ tsvid \in [Slot -> Nat] /\ wire \in [Slot -> Seq(Packet)]
    BY DEF SenderInv, TypeOK
  <2>. QED  BY ZenonT(40), <2>1, <1>1, <1>2, CounterNext
<1>5. sender \in Sender /\ sender.is + 1 \in 0 .. MAX_RTSP_CLIENT
  BY <1>2, SlotNext DEF SenderInv, TypeOK
<1>6. CASE sender.t < k
  <2>1. /\ sender' \in Sender /\ sender'.pc = "packet" /\ sender'.buf = sender.buf
        /\ sender'.is = sender.is /\ sender'.t = sender.t + 1
        /\ sender'.timestamp = sender.timestamp
    BY <1>1, <1>2, <1>5, <1>6 DEF Sender
  <2>2. \A s \in Slot : s = sender.is \/ Begun(s) => Begun(s)'
    BY <1>1, <1>2, <2>1 DEF Begun
  <2>3. \A s \in Slot :
          /\ s = sender.is => Cutting(s)'
          /\ s # sender.is => ~Cutting(s) /\ ~Cutting(s)'
    BY <1>2, <2>1 DEF Cutting
  <2>4. PartSent'
    <3>1. k' = k
      BY <2>1 DEF k
    <3>2. sender'.t <= k
      BY <1>2, <1>6, <2>1
    <3>. QED  BY <1>2, <1>3, <1>4, <1>6, <2>1, <3>1, <3>2 DEF PartSent
  <2>. QED  BY <1>1, <1>2, <1>3, <1>4, <2>1, <2>2, <2>3, <2>4, PacketsSent
<1>7. CASE sender.t = k
  <2>1. /\ sender' \in Sender /\ sender'.pc = "client" /\ sender'.buf = sender.buf
        /\ sender'.is = sender.is + 1
    <3>1. sender' = [pc |-> "client", buf |-> sender.buf, is |-> sender.is + 1, t |-> 0,
                     timestamp |-> sender.timestamp, reg |-> sender.reg]
      <4>1. ~(sender.t < k)
        BY <1>2, <1>7
      <4>. QED  BY <1>1, <1>5, <4>1 DEF Sender
    <3>2. sender.reg \in Int /\ sender.buf \in Buffer /\ sender.timestamp \in Nat
      BY <1>5 DEF Sender
    <3>. QED  BY <3>1, <3>2, <1>5 DEF Sender
  <2>2. \A s \in Slot : s = sender.is \/ Begun(s) => Begun(s)'
    BY <1>1, <1>2, <2>1 DEF Begun, Slot
  <2>3. \A s \in Slot : s # sender.is => ~Cutting(s) /\ ~Cutting(s)'
    BY <1>2, <2>1 DEF Cutting
  <2>4. PartSent'
    BY <2>1 DEF PartSent
  <2>. QED  BY <1>1, <1>2, <1>3, <1>4, <1>7, <2>1, <2>2, <2>3, <2>4, PacketsSent
<1>. QED  BY <1>2, <1>6, <1>7

-----------------------------------------------------------------------------
(* The theorems *)

\* At the start nothing is queued and nothing was sent.
LEMMA InitSenderInv == Init => SenderInv
<1>. SUFFICES ASSUME Init PROVE SenderInv
  OBVIOUS
<1>. USE SenderAssumption DEF Init
<1>1. NoBuf \in Buffer /\ 0 \in Slot /\ 0 \in Frame /\ 0 \in Length
  BY DEF NoBuf, Buffer, Frame, Slot, Length
<1>2. TypeOK
  <2>1. producer \in Producer
    BY <1>1 DEF Producer
  <2>2. sender \in Sender
    BY <1>1 DEF Sender
  <2>3. rtp_buf_deque \in Seq(Buffer) /\ wire \in [Slot -> Seq(Packet)]
    OBVIOUS
  <2>. QED  BY <2>1, <2>2, <2>3 DEF TypeOK
<1>3. rtp_buf_deque = <<>> /\ DOMAIN rtp_buf_deque = {} /\ \A s \in Slot : wire[s] = <<>>
  OBVIOUS
<1>4. Owned
  <2>1. Cardinality({}) = 0
    BY FS_EmptySet
  <2>. QED  BY <1>3, <2>1 DEF Owned
<1>5. DequeInOrder /\ WireBehind /\ SentOnce /\ PartSent /\ WireWhole
  BY <1>3 DEF DequeInOrder, WireBehind, SentOnce, PartSent, WireWhole
<1>6. LengthsAgree
  BY <1>3 DEF LengthsAgree, Known, Queued
<1>. QED  BY <1>2, <1>4, <1>5, <1>6 DEF SenderInv

\* Every step of the threads keeps the invariant.
LEMMA NextSenderInv == SenderInv /\ [Next]_vars => SenderInv'
<1>. SUFFICES ASSUME SenderInv, [Next]_vars PROVE SenderInv'
  OBVIOUS
<1>1. CASE ~Torn /\ \E s \in Slot : Connect(s) \/ Play(s) \/ End(s)
  BY <1>1, ConnectKeeps, PlayKeeps, EndKeeps
<1>2. CASE push_stream
  BY <1>2, EncodeKeeps, NextClientKeeps, PushBeginKeeps, PushKeeps, TearKeeps,
     LoadForIncrementKeeps, StoreIncrementKeeps, PushReturnKeeps DEF push_stream
<1>3. CASE ~Torn /\ rtp_send_thread
  BY <1>3, PollKeeps, SkipClientKeeps, SendWholeKeeps, StartFragmentsKeeps,
     SendFragmentKeeps, ClientsDoneKeeps, PopKeeps, LoadForDecrementKeeps,
     StoreDecrementKeeps DEF rtp_send_thread
<1>4. CASE UNCHANGED vars
  <2>1. UNCHANGED <<rtp_buf_deque, heap, h264_frame_cnt, producer, sender, wire>>
        /\ UNCHANGED <<status, seqnum, tsvid, sessions>>
    BY <1>4 DEF vars, clients
  <2>. QED  BY <2>1, SessionKeeps DEF SenderInv, TypeOK
<1>. QED  BY <1>1, <1>2, <1>3, <1>4 DEF Next

\* The invariant holds in every state the two threads and the sessions reach.
THEOREM SenderInvariant == Spec => []SenderInv
BY InitSenderInv, NextSenderInv, PTL DEF Spec

\* Every variable keeps its type: no length grows past the 16 bits that
\* push_h264_stream keeps and no index passes MAX_RTSP_CLIENT.
THEOREM SenderTypeCorrect == Spec => []TypeOK
<1>1. SenderInv => TypeOK
  BY DEF SenderInv
<1>. QED  BY <1>1, SenderInvariant, PTL

\* So long as no push_back has overlapped a call of the sender on the deque,
\* rtp_send_thread reads only memory that is allocated and every buffer is
\* freed when it leaves the deque, for any number of clients and frames.
THEOREM BuffersAreOwned == Spec => []BuffersOwned
<1>1. SenderInv => BuffersOwned
  BY DEF SenderInv, BuffersOwned
<1>. QED  BY <1>1, SenderInvariant, PTL

\* The packets send_h264_for_rtsp_client has sent to a slot make up the whole
\* frame, for every length of frame and of packet.
THEOREM FramesComplete == Spec => []FrameComplete
<1>1. SenderInv => FrameComplete
  <2>. SUFFICES ASSUME SenderInv, sender.pc = "pop", NEW s \in Slot,
                       wire[s] # <<>>, wire[s][1].frame = sender.buf.frame
                PROVE  Rebuilds(wire[s], sender.buf)
    BY DEF FrameComplete
  <2>1. sender.buf \in Buffer /\ Known(sender.buf)
    BY HeadOldest, Typed DEF SenderInv
  <2>2. ~Cutting(s)
    BY DEF Cutting
  <2>. QED  BY <2>1, <2>2 DEF SenderInv, WireWhole
<1>. QED  BY <1>1, SenderInvariant, PTL

\* No slot is sent an older frame after a newer one, and with one slot none is
\* sent a frame again, though the sender runs beside the encoder.
THEOREM FramesSentInOrder == Spec => FramesInOrder
<1>. DEFINE InOrder ==
              \A s \in Slot :
                  wire[s] # <<>> /\ wire'[s] # wire[s] /\ Len(wire'[s]) = 1
                    => \/ wire'[s][1].frame > wire[s][1].frame
                       \/ /\ MAX_RTSP_CLIENT > 1
                          /\ wire'[s][1].frame = wire[s][1].frame
<1>1. SenderInv /\ [Next]_vars => [InOrder]_wire
  <2>. SUFFICES ASSUME SenderInv, Next, wire' # wire, NEW s \in Slot, wire[s] # <<>>,
                       wire'[s] # wire[s], Len(wire'[s]) = 1
                PROVE  \/ wire'[s][1].frame > wire[s][1].frame
                       \/ /\ MAX_RTSP_CLIENT > 1
                          /\ wire'[s][1].frame = wire[s][1].frame
    BY DEF vars
  <2>1. SendWhole \/ SendFragment
    BY DEF Next, push_stream, rtp_send_thread, Connect, Play, End, Encode, NextClient,
           PushBegin, Push, Tear, LoadForIncrement, StoreIncrement, PushReturn, Poll, SkipClient,
           StartFragments,
           ClientsDone, Pop, LoadForDecrement, StoreDecrement
  <2>2. /\ sender.pc \in {"client", "packet"} /\ s = sender.is /\ ~Begun(s)
        /\ wire'[s][1].frame = sender.buf.frame
    <3>1. CASE SendWhole
      <4>. DEFINE p == [frame |-> sender.buf.frame, seq |-> seqnum[sender.is],
                        timestamp |-> tsvid[sender.is], marker |-> TRUE, S |-> FALSE,
                        E |-> FALSE, from |-> 0, size |-> sender.buf.len]
      <4>1. /\ sender.pc = "client" /\ sender.is \in Slot
            /\ wire' = [wire EXCEPT ![sender.is] = <<p>>]
            /\ p.frame = sender.buf.frame
        BY <3>1 DEF SendWhole
      <4>. HIDE DEF p
      <4>2. s = sender.is /\ wire'[s] = <<p>>
        BY <4>1 DEF SenderInv, TypeOK
      <4>3. ~(s < sender.is)
        BY <4>2, Typed DEF SenderInv
      <4>. QED  BY <4>1, <4>2, <4>3 DEF Begun
    <3>2. CASE SendFragment
      <4>1. /\ sender.pc = "packet" /\ sender.is \in Slot
            /\ wire' = [wire EXCEPT ![sender.is] = Sent(wire[sender.is], sender.t)]
        BY <3>2 DEF SenderInv, PartSent, SendFragment, TypeOK
      <4>2. s = sender.is /\ wire'[s] = Sent(wire[s], sender.t)
        BY <4>1 DEF SenderInv, TypeOK
      <4>3. wire'[s][1].frame = sender.buf.frame
        BY <4>1, <4>2, FragmentSent DEF SenderInv
      <4>4. sender.t = 0
        <5>1. ASSUME sender.t # 0 PROVE FALSE
          <6>1. sender.t \in Nat /\ sender.t > 0 /\ Len(wire[s]) = sender.t
            BY <5>1, <4>1, <4>2, Typed DEF SenderInv, PartSent, Prefix
          <6>2. wire[s] \in Seq(Packet) /\ wire'[s] = Append(wire[s], Fragment(sender.t))
            BY <5>1, <4>2 DEF SenderInv, TypeOK, Sent
          <6>. QED  BY <6>1, <6>2
        <5>. QED  BY <5>1
      <4>. QED  BY <4>1, <4>2, <4>3, <4>4, Typed DEF Begun, SenderInv
    <3>. QED  BY <2>1, <3>1, <3>2
  <2>3. /\ wire[s][1].frame \in Nat /\ sender.buf.frame \in Nat
        /\ MAX_RTSP_CLIENT \in Nat \ {0}
    BY FirstPacket, Typed, BufferFields, SenderAssumption DEF SenderInv
  <2>4. PICK n \in DOMAIN rtp_buf_deque : sender.buf = rtp_buf_deque[n]
    <3>1. /\ rtp_buf_deque \in Seq(Buffer) /\ rtp_buf_deque # <<>>
          /\ sender.buf = Head(rtp_buf_deque)
      BY <2>2 DEF SenderInv, TypeOK, Owned
    <3>2. 1 \in DOMAIN rtp_buf_deque /\ sender.buf = rtp_buf_deque[1]
      BY <3>1
    <3>. QED  BY <3>2
  <2>5. wire[s][1].frame <= sender.buf.frame
    BY <2>4 DEF SenderInv, WireBehind
  <2>6. MAX_RTSP_CLIENT = 1 => wire[s][1].frame # sender.buf.frame
    BY <2>2, <2>4 DEF SenderInv, SentOnce
  <2>. QED  BY <2>2, <2>3, <2>5, <2>6
<1>2. Spec => [][InOrder]_wire
  BY <1>1, SenderInvariant, PTL DEF Spec
<1>. QED  BY <1>2 DEF FramesInOrder

=============================================================================
