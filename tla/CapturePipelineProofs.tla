------------------------ MODULE CapturePipelineProofs ------------------------
(***************************************************************************)
(* Theorems about CapturePipeline for every THREAD_COUNT, every            *)
(* FRAMEBUFFER_COUNT, every set Faulty and every MaxFrames.                *)
(*                                                                         *)
(* Everything rests on one correspondence, which no variable holds: the    *)
(* s-th submission is a task of instance s % THREAD_COUNT, the futures in  *)
(* futs are those of THREAD_COUNT submissions in a row, and the image of   *)
(* an instance is not written before the result of its last submission has *)
(* been taken.  PipelineInv says so for the queue, the pool, the futures,  *)
(* the images and what rtsp_thread has seen of them.                       *)
(***************************************************************************)
EXTENDS CapturePipeline, SequenceTheorems, TLAPS

\* The s-th submission, how many there were, and the last one whose result main
\* has taken.
TaskOf(s) == [seq |-> s, inst |-> s % THREAD_COUNT]
Submitted == frame_num + Len(futs)
Taken     == IF pc \in {"signal", "resubmit"} THEN frame_num ELSE frame_num - 1

\* The iteration is between VIDIOC_DQBUF and the submission of its frame.
Busy == InLoop \ {"dequeue", "requeue"}

\* A frame is one of an earlier iteration, or was submitted in this one.
Dated(img) == img \in Frame => img <= round /\ (pc \in Busy => img < round)

\* The futures main holds are those of the last submissions.
FutsInOrder ==
    /\ Len(futs) <= THREAD_COUNT
    /\ pc \in InLoop => Len(futs) = THREAD_COUNT
    /\ pc \notin InLoop => frame_num = 0
    /\ \A n \in 1 .. Len(futs) : futs[n] = TaskOf(frame_num + n - 1)

\* Every iteration submits at most one frame, and only after it began.
RoundsCount ==
    /\ frame_num <= round
    /\ pc \in Busy => frame_num < round

\* Apart from the lost buffers, the one of the iteration is the only one the
\* driver may lack.
CameraTracked ==
    /\ pc \in {"boot", "spawn", "dequeue"} => camera = Buffers \ lost
    /\ camera \cap lost = {}
    /\ Buffers \ (lost \cup {index}) \subseteq camera
    /\ pc = "boot" => lost = {}

\* No task is twice in the queue.
QueuedOnce == \A i, j \in DOMAIN queue : queue[i] = queue[j] => i = j

\* What is in the pool was submitted, and is there once; what is not finished
\* has not been taken.
PoolInOrder ==
    /\ \A k \in Unfinished \cup done : k = TaskOf(k.seq) /\ k.seq < Submitted
    /\ \A k \in Unfinished : Taken < k.seq /\ k \notin done
    /\ \A k \in running : ~Pool!InQueue(k)
    /\ QueuedOnce

\* From the conversion of a frame to its submission bgr_buf holds that frame,
\* unless an instance drew into it; none does after the first THREAD_COUNT
\* submissions of the loop.
BgrTracked ==
    /\ pc = "copy" => bgr \in {Junk, Painted}
    /\ pc \in {"lock", "get", "signal", "resubmit"} => bgr \in {round, Painted}
    /\ frame_num >= THREAD_COUNT /\ pc \in {"copy", "lock", "get", "signal", "resubmit"} =>
          bgr # Painted
    /\ \A i \in Instance : i < frame_num => ori_img[i] # Shared

\* The image a submission is about, until the next frame is given to its
\* instance.
Image(s) == ori_img[s % THREAD_COUNT]
Pending  == {s \in Seq_ : frame_num <= s /\ s < Submitted}

\* Images are of earlier iterations, later submissions have later frames, and
\* those that cannot have been drawn on are frames.
ImagesInOrder ==
    /\ \A s \in Pending : Dated(Image(s))
    /\ \A r, s \in Pending : r < s /\ Image(r) \in Frame /\ Image(s) \in Frame =>
          Image(r) < Image(s)
    /\ \A s \in Pending : s >= 2 * THREAD_COUNT => Image(s) \in Frame

\* A worker has the image of its instance on the NPU; a result that has not been
\* taken is the image of its instance.
ResultsTracked ==
    /\ \A k \in running : input[k.inst] = ori_img[k.inst]
    /\ \A k \in done : k.seq > Taken =>
          value[k.seq] = [seq |-> k.seq, img |-> ori_img[k.inst], boxes |-> ori_img[k.inst]]

\* A result that has left the pool: it was taken, and what is still pending is
\* of later frames.
Handed(x) ==
    /\ x.seq <= Taken /\ Dated(x.img)
    /\ x.seq >= 2 * THREAD_COUNT => x.img \in Frame /\ x.boxes = x.img
    /\ x.img \in Frame => \A s \in Pending : s > x.seq /\ Image(s) \in Frame => x.img < Image(s)

\* What rtsp_thread has been given and has streamed.
HandoverTracked ==
    /\ Handed(rknn_img) /\ Handed(stream)
    /\ rknn_img # Empty =>
          /\ stream.seq < rknn_img.seq
          /\ stream.img \in Frame /\ rknn_img.img \in Frame => stream.img < rknn_img.img
    /\ rtsp = "pushing" => rknn_img # Empty
    /\ pc \notin InLoop => rtsp = "none"

\* The inductive invariant.
PipelineInv ==
    /\ TypeOK
    /\ FutsInOrder
    /\ RoundsCount
    /\ CameraTracked
    /\ PoolInOrder
    /\ BgrTracked
    /\ ImagesInOrder
    /\ ResultsTracked
    /\ HandoverTracked
    /\ NoLostWakeup

-----------------------------------------------------------------------------
(* Remainders. *)

\* What \div and % are.
LEMMA DivMod ==
    ASSUME NEW a \in Nat, NEW n \in Nat \ {0}
    PROVE  a \div n \in Nat /\ a % n \in 0 .. n - 1 /\ a = n * (a \div n) + (a % n)
OBVIOUS

\* Different multiples are apart.
LEMMA Multiples ==
    ASSUME NEW n \in Nat \ {0}, NEW p \in Nat, NEW q \in Nat, p < q
    PROVE  n * p + n <= n * q
<1>1. PICK d \in Nat : q = p + 1 + d
  <2>1. q - p - 1 \in Nat /\ q = p + 1 + (q - p - 1)
    OBVIOUS
  <2> QED
    BY <2>1
<1>2. n * (p + 1 + d) = n * p + n + n * d
  OBVIOUS
<1>3. n * d \in Nat /\ n * p \in Nat
  OBVIOUS
<1> QED
  BY <1>1, <1>2, <1>3

\* Of n numbers in a row no two have the same remainder.
LEMMA ModWindow ==
    ASSUME NEW n \in Nat \ {0}, NEW a \in Nat, NEW b \in Nat,
           a <= b, b < a + n, a % n = b % n
    PROVE  a = b
<1> DEFINE p == a \div n
           q == b \div n
           r == a % n
<1>1. p \in Nat /\ q \in Nat /\ r \in 0 .. n - 1 /\ a = n * p + r /\ b = n * q + r
  BY DivMod
<1> HIDE DEF p, q, r
<1>2. n * p \in Nat /\ n * q \in Nat
  BY <1>1
<1>3. CASE p < q
  <2>1. n * p + n <= n * q
    BY <1>1, <1>3, Multiples
  <2> QED
    BY <1>1, <1>2, <2>1
<1>4. CASE q < p
  <2>1. n * q + n <= n * p
    BY <1>1, <1>4, Multiples
  <2> QED
    BY <1>1, <1>2, <2>1
<1>5. CASE p = q
  BY <1>1, <1>5
<1> QED
  BY <1>1, <1>3, <1>4, <1>5

\* n submissions later it is the same instance's turn.
LEMMA ModNext ==
    ASSUME NEW n \in Nat \ {0}, NEW a \in Nat
    PROVE  (a + n) % n = a % n
<1> DEFINE p == a \div n
           r == a % n
           q == (a + n) \div n
           s == (a + n) % n
<1>1. /\ p \in Nat /\ q \in Nat /\ r \in 0 .. n - 1 /\ a = n * p + r
      /\ s \in 0 .. n - 1 /\ a + n = n * q + s
  <2>1. a + n \in Nat
    OBVIOUS
  <2> QED
    BY <2>1, DivMod
<1> HIDE DEF p, q, r, s
<1>2. n * p \in Nat /\ n * q \in Nat /\ n * (p + 1) = n * p + n
  BY <1>1
<1>3. CASE p + 1 < q
  <2>1. n * (p + 1) + n <= n * q
    BY <1>1, <1>3, Multiples
  <2> QED
    BY <1>1, <1>2, <2>1
<1>4. CASE q < p + 1
  <2>1. n * q + n <= n * (p + 1)
    BY <1>1, <1>4, Multiples
  <2> QED
    BY <1>1, <1>2, <2>1
<1>5. CASE p + 1 = q
  BY <1>1, <1>2, <1>5
<1>6. r = s
  BY <1>1, <1>3, <1>4, <1>5
<1> QED
  BY <1>6 DEF r, s

\* The first n numbers are their own remainders.
LEMMA ModSmall ==
    ASSUME NEW n \in Nat \ {0}, NEW a \in 0 .. n - 1
    PROVE  a % n = a
OBVIOUS

-----------------------------------------------------------------------------
(* What the parts of PipelineInv say together. *)

\* Constants.
LEMMA Sizes ==
    /\ THREAD_COUNT \in Nat \ {0} /\ FRAMEBUFFER_COUNT \in Nat \ {0} /\ MaxFrames \in Nat
    /\ \A s \in Nat : s % THREAD_COUNT \in Instance
    /\ \A s \in Seq_ : s \in Nat /\ TaskOf(s) \in Task
    /\ Shared \notin Frame /\ Junk \notin Frame /\ Painted \notin Frame
    /\ Shared # Junk /\ Shared # Painted /\ Junk # Painted
<1>1. THREAD_COUNT \in Nat \ {0} /\ FRAMEBUFFER_COUNT \in Nat \ {0} /\ MaxFrames \in Nat
  BY PipelineAssumption
<1>2. \A s \in Nat : s % THREAD_COUNT \in Instance
  BY <1>1, DivMod DEF Instance
<1>3. \A s \in Seq_ : s \in Nat
  BY <1>1 DEF Seq_
<1>4. \A s \in Seq_ : TaskOf(s) \in Task
  BY <1>2, <1>3 DEF TaskOf, Task
<1> QED
  BY <1>1, <1>2, <1>3, <1>4 DEF Shared, Junk, Painted, Frame

\* The counters.
LEMMA Counters ==
    ASSUME TypeOK, FutsInOrder, RoundsCount
    PROVE  /\ frame_num \in Nat /\ round \in Nat /\ Len(futs) \in Nat /\ Submitted \in Nat
           /\ Taken \in Int /\ frame_num - 1 <= Taken /\ Taken <= frame_num
           /\ Submitted <= frame_num + THREAD_COUNT
           /\ pc \in InLoop => Submitted = frame_num + THREAD_COUNT
           /\ frame_num <= MaxFrames /\ Submitted <= MaxFrames + THREAD_COUNT
<1>1. frame_num \in 0 .. MaxFrames /\ round \in 0 .. MaxFrames
  BY DEF TypeOK, Frame
<1>2. Len(futs) \in Nat
  BY LenProperties DEF TypeOK
<1>3. THREAD_COUNT \in Nat /\ MaxFrames \in Nat
  BY Sizes
<1>4. Taken \in Int /\ frame_num - 1 <= Taken /\ Taken <= frame_num
  BY <1>1, <1>3 DEF Taken
<1>5. Len(futs) <= THREAD_COUNT /\ (pc \in InLoop => Len(futs) = THREAD_COUNT)
  BY DEF FutsInOrder
<1> QED
  BY <1>1, <1>2, <1>3, <1>4, <1>5 DEF Submitted

\* The submissions that are pending are of different instances.
LEMMA OwnInstance ==
    ASSUME NEW f \in Nat, NEW r \in Nat, NEW s \in Nat,
           f <= r, r < f + THREAD_COUNT, f <= s, s < f + THREAD_COUNT,
           r % THREAD_COUNT = s % THREAD_COUNT
    PROVE  r = s
<1>1. THREAD_COUNT \in Nat \ {0}
  BY Sizes
<1>2. r < s + THREAD_COUNT /\ s < r + THREAD_COUNT /\ (r <= s \/ s <= r)
  BY <1>1
<1> QED
  BY <1>1, <1>2, ModWindow

\* The next submission is of another instance than those that stay pending.
LEMMA NextInstance ==
    ASSUME NEW f \in Nat, NEW g \in Nat, NEW s \in Nat, NEW n \in Nat,
           f <= g, g <= s, s < n, n < g + THREAD_COUNT
    PROVE  f <= s /\ s % THREAD_COUNT # n % THREAD_COUNT
<1>1. THREAD_COUNT \in Nat
  BY Sizes
<1>2. f <= s /\ s # n /\ g <= n /\ s < g + THREAD_COUNT
  BY <1>1
<1> QED
  BY <1>2, OwnInstance

\* A task in the pool is that of a pending submission.
LEMMA UnfinishedPending ==
    ASSUME PipelineInv, NEW k \in Unfinished
    PROVE  /\ k.seq \in Pending /\ k.seq \in Nat /\ k.seq > Taken
           /\ k.inst = k.seq % THREAD_COUNT /\ k = TaskOf(k.seq)
           /\ k.inst \in Instance
<1>1. k \in Task /\ k = TaskOf(k.seq) /\ k.seq < Submitted /\ Taken < k.seq
  BY DEF PipelineInv, PoolInOrder, Unfinished
<1>2. k.seq \in Seq_ /\ k.inst \in Instance /\ k.seq \in Nat
  BY <1>1, Sizes DEF Task
<1>3. k.inst = k.seq % THREAD_COUNT
  BY <1>1 DEF TaskOf
<1>4. frame_num <= k.seq
  BY <1>1, <1>2, Counters DEF PipelineInv
<1> QED
  BY <1>1, <1>2, <1>3, <1>4 DEF Pending

\* No instance has two tasks in the pool.
LEMMA Exclusive ==
    ASSUME PipelineInv
    PROVE  InstanceExclusive
<1> SUFFICES ASSUME NEW j \in Unfinished, NEW k \in Unfinished, j.inst = k.inst
             PROVE  j = k
  BY DEF InstanceExclusive
<1>1. /\ j.seq \in Pending /\ j.seq \in Nat /\ j.inst = j.seq % THREAD_COUNT /\ j = TaskOf(j.seq)
      /\ k.seq \in Pending /\ k.seq \in Nat /\ k.inst = k.seq % THREAD_COUNT /\ k = TaskOf(k.seq)
  BY UnfinishedPending
<1>2. frame_num \in Nat /\ Submitted \in Nat /\ Submitted <= frame_num + THREAD_COUNT
  BY Counters DEF PipelineInv
<1>3. /\ frame_num <= j.seq /\ j.seq < frame_num + THREAD_COUNT
      /\ frame_num <= k.seq /\ k.seq < frame_num + THREAD_COUNT
  BY <1>1, <1>2, PipelineAssumption DEF Pending
<1>4. j.seq = k.seq
  BY <1>1, <1>2, <1>3, OwnInstance
<1> QED
  BY <1>1, <1>4

-----------------------------------------------------------------------------
(* Steps that submit, run and take nothing. *)

\* They leave the pool and the images as they are.
LEMMA Steady ==
    ASSUME PipelineInv, UNCHANGED <<instVars, poolVars>>, Taken' = Taken
    PROVE  /\ PoolInOrder' /\ ResultsTracked'
           /\ Submitted' = Submitted /\ Pending' = Pending
           /\ \A s : Image(s)' = Image(s)
<1>1. UNCHANGED <<ori_img, frame_num, futs, queue, running, done, input, value>>
  BY DEF instVars, poolVars
<1>2. Submitted' = Submitted
  BY <1>1 DEF Submitted
<1>3. Pending' = Pending
  BY <1>1, <1>2 DEF Pending
<1>4. \A s : Image(s)' = Image(s)
  BY <1>1 DEF Image
<1>5. Unfinished' = Unfinished
  BY <1>1 DEF Unfinished, Pool!InQueue
<1>6. PoolInOrder'
  BY <1>1, <1>2, <1>5 DEF PipelineInv, PoolInOrder, QueuedOnce, Pool!InQueue
<1>7. ResultsTracked'
  BY <1>1 DEF PipelineInv, ResultsTracked
<1> QED
  BY <1>2, <1>3, <1>4, <1>6, <1>7

\* The iterations go on: either the same one, or a new one.
GoesOn == \/ round' = round /\ (pc' \in Busy => pc \in Busy)
          \/ round' = round + 1

\* What was dated stays so.
LEMMA StaysDated ==
    ASSUME PipelineInv, GoesOn, NEW img, Dated(img)
    PROVE  img \in Frame => img <= round' /\ (pc' \in Busy => img < round')
<1> SUFFICES ASSUME img \in Frame PROVE img <= round' /\ (pc' \in Busy => img < round')
  OBVIOUS
<1>1. img \in Int /\ round \in Nat /\ img <= round /\ (pc \in Busy => img < round)
  BY Counters, PipelineAssumption DEF Frame, Dated, PipelineInv
<1> QED
  BY <1>1 DEF GoesOn

\* The frames stay in order as the iterations go on.
LEMMA SteadyImages ==
    ASSUME PipelineInv, UNCHANGED <<instVars, poolVars>>, Taken' = Taken, GoesOn
    PROVE  ImagesInOrder'
<1>1. /\ Pending' = Pending
      /\ \A s : Image(s)' = Image(s)
  BY Steady
<1>2. ImagesInOrder
  BY DEF PipelineInv
<1>3. ASSUME NEW s \in Pending' PROVE Dated(Image(s))'
  <2>1. Dated(Image(s)) /\ Image(s)' = Image(s)
    BY <1>1, <1>2, <1>3 DEF ImagesInOrder
  <2> QED
    BY <2>1, StaysDated DEF Dated
<1>4. \A r, s \in Pending' : r < s /\ Image(r)' \in Frame /\ Image(s)' \in Frame =>
          Image(r)' < Image(s)'
  BY <1>1, <1>2 DEF ImagesInOrder
<1>5. \A s \in Pending' : s >= 2 * THREAD_COUNT => Image(s)' \in Frame
  BY <1>1, <1>2 DEF ImagesInOrder
<1> QED
  BY <1>3, <1>4, <1>5 DEF ImagesInOrder

\* main moves and what rtsp_thread has is untouched.
LEMMA SteadyMain ==
    ASSUME PipelineInv, UNCHANGED <<instVars, poolVars, rknn_img, stream>>, Taken' = Taken,
           GoesOn, rtsp' = "pushing" => rtsp = "pushing",
           pc' \notin InLoop => pc \notin InLoop /\ rtsp' = rtsp
    PROVE  HandoverTracked'
<1>1. Pending' = Pending /\ \A s : Image(s)' = Image(s)
  BY Steady
<1>2. HandoverTracked
  BY DEF PipelineInv
<1>3. Dated(rknn_img.img)' /\ Dated(stream.img)'
  BY <1>2, StaysDated DEF HandoverTracked, Handed, Dated
<1>4. Handed(rknn_img)' /\ Handed(stream)'
  BY <1>1, <1>2, <1>3 DEF HandoverTracked, Handed
<1> QED
  BY <1>2, <1>4 DEF HandoverTracked

\* PipelineInv survives the capture and conversion of the first frame.
LEMMA BootInv ==
    ASSUME PipelineInv, Boot
    PROVE  PipelineInv'
<1>1. /\ pc = "boot" /\ pc' = "spawn" /\ bgr' \in {0, Junk}
      /\ lost' \in {{}} \cup {{b} : b \in Faulty} /\ camera' = camera \ lost'
      /\ lost = {}
      /\ UNCHANGED <<index, round, instVars, poolVars, rtspVars>>
  BY DEF Boot, PipelineInv, CameraTracked
<1>2. TypeOK /\ FutsInOrder /\ RoundsCount /\ CameraTracked /\ BgrTracked /\ NoLostWakeup
  BY DEF PipelineInv
<1>3. Taken' = Taken
  BY <1>1 DEF Taken, instVars
<1>4. TypeOK'
  <2>1. bgr' \in Mat \ {Shared}
    BY <1>1, Sizes DEF Mat, Frame
  <2> QED
    BY <1>1, <1>2, <2>1, PipelineAssumption
       DEF TypeOK, InLoop, Buffers, instVars, poolVars, rtspVars
<1>5. FutsInOrder' /\ RoundsCount' /\ CameraTracked' /\ BgrTracked' /\ NoLostWakeup'
  BY <1>1, <1>2 DEF FutsInOrder, RoundsCount, CameraTracked, BgrTracked, NoLostWakeup, Busy, InLoop,
                    instVars, rtspVars
<1> QED
  BY <1>1, <1>3, <1>4, <1>5, Steady, SteadyImages, SteadyMain
     DEF PipelineInv, GoesOn, Busy, InLoop, rtspVars

\* PipelineInv survives the creation of rtsp_thread.
LEMMA CreateInv ==
    ASSUME PipelineInv, creat_rtsp_thread
    PROVE  PipelineInv'
<1>1. /\ pc = "spawn" /\ pc' = "dequeue" /\ Len(futs) = THREAD_COUNT /\ rtsp' = "locking"
      /\ UNCHANGED <<index, camera, lost, round, bgr, instVars, poolVars, mutex, rknn_img, stream>>
  BY DEF creat_rtsp_thread
<1>2. TypeOK /\ FutsInOrder /\ RoundsCount /\ CameraTracked /\ BgrTracked /\ NoLostWakeup
  BY DEF PipelineInv
<1>3. Taken' = Taken
  BY <1>1 DEF Taken, instVars
<1>4. TypeOK'
  <2>1. rtsp = "none"
    BY <1>1 DEF PipelineInv, HandoverTracked, InLoop
  <2> QED
    BY <1>1, <1>2, <2>1 DEF TypeOK, InLoop, instVars, poolVars
<1>5. FutsInOrder' /\ RoundsCount' /\ CameraTracked' /\ BgrTracked' /\ NoLostWakeup'
  BY <1>1, <1>2 DEF FutsInOrder, RoundsCount, CameraTracked, BgrTracked, NoLostWakeup, Busy, InLoop,
                    instVars
<1> QED
  BY <1>1, <1>3, <1>4, <1>5, Steady, SteadyImages, SteadyMain DEF PipelineInv, GoesOn, Busy, InLoop

\* PipelineInv survives VIDIOC_DQBUF, also when it fails.
LEMMA DequeueInv ==
    ASSUME PipelineInv, Dequeue
    PROVE  PipelineInv'
<1>1. /\ pc = "dequeue" /\ pc' = "convert" /\ round < MaxFrames /\ round' = round + 1
      /\ UNCHANGED <<lost, bgr, instVars, poolVars, rtspVars>>
      /\ \/ \E b \in camera : index' = b /\ camera' = camera \ {b}
         \/ UNCHANGED <<index, camera>>
  BY DEF Dequeue
<1>2. TypeOK /\ FutsInOrder /\ RoundsCount /\ CameraTracked /\ BgrTracked /\ NoLostWakeup
  BY DEF PipelineInv
<1>3. Taken' = Taken
  BY <1>1 DEF Taken, instVars
<1>4. /\ index' \in Buffers /\ camera' \subseteq Buffers /\ camera' \cap lost = {}
      /\ Buffers \ (lost \cup {index'}) \subseteq camera'
  BY <1>1, <1>2 DEF TypeOK, CameraTracked
<1>5. round' \in Frame /\ frame_num < round'
  <2>1. round \in Nat /\ frame_num \in Nat /\ MaxFrames \in Nat /\ frame_num <= round
    BY <1>2, Counters, Sizes DEF RoundsCount
  <2> QED
    BY <1>1, <2>1 DEF Frame
<1>6. TypeOK'
  BY <1>1, <1>2, <1>4, <1>5 DEF TypeOK, InLoop, instVars, poolVars, rtspVars
<1>7. FutsInOrder' /\ RoundsCount' /\ CameraTracked' /\ BgrTracked' /\ NoLostWakeup'
  BY <1>1, <1>2, <1>4, <1>5, Counters
     DEF FutsInOrder, RoundsCount, CameraTracked, BgrTracked, NoLostWakeup, Busy, InLoop, instVars,
         rtspVars
<1> QED
  BY <1>1, <1>3, <1>6, <1>7, Steady, SteadyImages, SteadyMain
     DEF PipelineInv, GoesOn, InLoop, rtspVars

\* PipelineInv survives a conversion, whether it succeeds or the frame is skipped.
LEMMA ConvertInv ==
    ASSUME PipelineInv, Convert
    PROVE  PipelineInv'
<1>1. /\ pc = "convert" /\ pc' \in {"copy", "requeue"}
      /\ bgr' \in {bgr, Junk}
      /\ pc' = "copy" => bgr' = Junk
      /\ UNCHANGED <<index, camera, lost, round, instVars, poolVars, rtspVars>>
  BY DEF Convert
<1>2. TypeOK /\ FutsInOrder /\ RoundsCount /\ CameraTracked /\ BgrTracked /\ NoLostWakeup
  BY DEF PipelineInv
<1>3. Taken' = Taken
  BY <1>1 DEF Taken, instVars
<1>4. TypeOK'
  <2>1. bgr' \in Mat \ {Shared}
    BY <1>1, <1>2, Sizes DEF Mat, TypeOK
  <2> QED
    BY <1>1, <1>2, <2>1 DEF TypeOK, InLoop, instVars, poolVars, rtspVars
<1>5. FutsInOrder' /\ RoundsCount' /\ CameraTracked' /\ BgrTracked' /\ NoLostWakeup'
  BY <1>1, <1>2, Sizes
     DEF FutsInOrder, RoundsCount, CameraTracked, BgrTracked, NoLostWakeup, Busy, InLoop, instVars,
         rtspVars
<1> QED
  BY <1>1, <1>3, <1>4, <1>5, Steady, SteadyImages, SteadyMain
     DEF PipelineInv, GoesOn, Busy, InLoop, rtspVars

\* PipelineInv survives the copy into bgr_buf.
LEMMA CopyInv ==
    ASSUME PipelineInv, Copy
    PROVE  PipelineInv'
<1>1. /\ pc = "copy" /\ pc' = "lock"
      /\ bgr' = IF bgr = Painted THEN Painted ELSE round
      /\ UNCHANGED <<index, camera, lost, round, instVars, poolVars, rtspVars>>
  BY DEF Copy
<1>2. TypeOK /\ FutsInOrder /\ RoundsCount /\ CameraTracked /\ BgrTracked /\ NoLostWakeup
  BY DEF PipelineInv
<1>3. Taken' = Taken
  BY <1>1 DEF Taken, instVars
<1>4. TypeOK' /\ bgr' \in {round, Painted} /\ (bgr # Painted => bgr' # Painted)
  <2>1. bgr' \in {round, Painted} /\ round \in Frame
    BY <1>1, <1>2 DEF TypeOK
  <2>2. bgr' \in Mat \ {Shared} /\ (bgr # Painted => bgr' # Painted)
    BY <1>1, <2>1, Sizes DEF Mat
  <2> QED
    BY <1>1, <1>2, <2>1, <2>2 DEF TypeOK, InLoop, instVars, poolVars, rtspVars
<1>5. FutsInOrder' /\ RoundsCount' /\ CameraTracked' /\ BgrTracked' /\ NoLostWakeup'
  BY <1>1, <1>2, <1>4
     DEF FutsInOrder, RoundsCount, CameraTracked, BgrTracked, NoLostWakeup, Busy, InLoop,
         instVars, rtspVars
<1> QED
  BY <1>1, <1>3, <1>4, <1>5, Steady, SteadyImages, SteadyMain
     DEF PipelineInv, GoesOn, Busy, InLoop, rtspVars

\* PipelineInv survives pthread_mutex_lock.
LEMMA LockInv ==
    ASSUME PipelineInv, Lock
    PROVE  PipelineInv'
<1>1. /\ pc = "lock" /\ pc' = "get" /\ mutex = "free" /\ mutex' = "main"
      /\ UNCHANGED <<index, camera, lost, round, bgr, instVars, poolVars, rknn_img, rtsp, stream>>
  BY DEF Lock
<1>2. TypeOK /\ FutsInOrder /\ RoundsCount /\ CameraTracked /\ BgrTracked /\ NoLostWakeup
  BY DEF PipelineInv
<1>3. Taken' = Taken
  BY <1>1 DEF Taken, instVars
<1>4. TypeOK'
  BY <1>1, <1>2 DEF TypeOK, InLoop, instVars, poolVars
<1>5. FutsInOrder' /\ RoundsCount' /\ CameraTracked' /\ BgrTracked' /\ NoLostWakeup'
  BY <1>1, <1>2 DEF FutsInOrder, RoundsCount, CameraTracked, BgrTracked, NoLostWakeup, Busy, InLoop,
                    instVars, rtspVars
<1> QED
  BY <1>1, <1>3, <1>4, <1>5, Steady, SteadyImages, SteadyMain
     DEF PipelineInv, GoesOn, Busy, InLoop, rtspVars

\* PipelineInv survives pthread_cond_signal, sent after the unlock.
LEMMA SignalInv ==
    ASSUME PipelineInv, Signal
    PROVE  PipelineInv'
<1>1. /\ pc = "signal" /\ pc' = "resubmit"
      /\ rtsp' = IF rtsp = "waiting" THEN "woken" ELSE rtsp
      /\ UNCHANGED <<index, camera, lost, round, bgr, instVars, poolVars, mutex, rknn_img, stream>>
  BY DEF Signal
<1>2. TypeOK /\ FutsInOrder /\ RoundsCount /\ CameraTracked /\ BgrTracked /\ NoLostWakeup
  BY DEF PipelineInv
<1>3. Taken' = Taken
  BY <1>1 DEF Taken, instVars
<1>4. TypeOK'
  BY <1>1, <1>2 DEF TypeOK, InLoop, instVars, poolVars
<1>5. FutsInOrder' /\ RoundsCount' /\ CameraTracked' /\ BgrTracked' /\ NoLostWakeup'
  BY <1>1, <1>2 DEF FutsInOrder, RoundsCount, CameraTracked, BgrTracked, NoLostWakeup, Busy, InLoop,
                    instVars, rtspVars
<1> QED
  BY <1>1, <1>3, <1>4, <1>5, Steady, SteadyImages, SteadyMain
     DEF PipelineInv, GoesOn, Busy, InLoop, rtspVars

\* PipelineInv survives VIDIOC_QBUF.
LEMMA RequeueInv ==
    ASSUME PipelineInv, Requeue
    PROVE  PipelineInv'
<1>1. /\ pc = "requeue" /\ pc' = "dequeue"
      /\ \/ camera' = camera \cup {index} /\ lost' = lost \ {index}
         \/ camera' = camera /\ lost' = lost \cup ({index} \ camera)
      /\ index' = (index + 1) % FRAMEBUFFER_COUNT
      /\ UNCHANGED <<round, bgr, instVars, poolVars, rtspVars>>
  BY DEF Requeue
<1>2. TypeOK /\ FutsInOrder /\ RoundsCount /\ CameraTracked /\ BgrTracked /\ NoLostWakeup
  BY DEF PipelineInv
<1>3. Taken' = Taken
  BY <1>1 DEF Taken, instVars
<1>4. TypeOK' /\ camera' = Buffers \ lost' /\ index' \in Buffers
  <2>1. camera' = Buffers \ lost' /\ camera' \subseteq Buffers /\ lost' \subseteq Buffers
    BY <1>1, <1>2 DEF CameraTracked, TypeOK
  <2>2. index + 1 \in Nat
    BY <1>2, Sizes DEF TypeOK, Buffers
  <2>3. index' \in Buffers
    BY <1>1, <2>2, Sizes, DivMod DEF Buffers
  <2> QED
    BY <1>1, <1>2, <2>1, <2>3 DEF TypeOK, InLoop, instVars, poolVars, rtspVars
<1>5. FutsInOrder' /\ RoundsCount' /\ CameraTracked' /\ BgrTracked' /\ NoLostWakeup'
  BY <1>1, <1>2, <1>4
     DEF FutsInOrder, RoundsCount, CameraTracked, BgrTracked, NoLostWakeup, Busy, InLoop,
         instVars, rtspVars
<1> QED
  BY <1>1, <1>3, <1>4, <1>5, Steady, SteadyImages, SteadyMain
     DEF PipelineInv, GoesOn, Busy, InLoop, rtspVars

\* PipelineInv survives the steps of rtsp_thread that stream nothing.
LEMMA RtspInv ==
    ASSUME PipelineInv, RtspLock \/ RtspTest \/ SpuriousWakeup
    PROVE  PipelineInv'
<1>1. /\ UNCHANGED <<pc, index, camera, lost, round, bgr, instVars, poolVars, rknn_img, stream>>
      /\ rtsp # "none" /\ rtsp' # "none"
      /\ rtsp' = "pushing" => rknn_img # Empty
      /\ rtsp' = "waiting" => rknn_img = Empty
  BY DEF RtspLock, RtspTest, SpuriousWakeup, captureVars
<1>2. TypeOK /\ FutsInOrder /\ RoundsCount /\ CameraTracked /\ BgrTracked /\ HandoverTracked
  BY DEF PipelineInv
<1>3. Taken' = Taken
  BY <1>1 DEF Taken, instVars
<1>4. TypeOK'
  <2>1. /\ rtsp' \in {"none", "locking", "testing", "waiting", "woken", "pushing"}
        /\ mutex' \in {"free", "main", "rtsp"}
        /\ mutex' = "main" <=> pc = "get"
        /\ mutex' = "rtsp" <=> rtsp' \in {"testing", "pushing"}
    BY <1>2 DEF TypeOK, RtspLock, RtspTest, SpuriousWakeup
  <2> QED
    BY <1>1, <1>2, <2>1 DEF TypeOK, instVars, poolVars
<1>5. FutsInOrder' /\ RoundsCount' /\ CameraTracked' /\ BgrTracked' /\ NoLostWakeup'
  BY <1>1, <1>2 DEF FutsInOrder, RoundsCount, CameraTracked, BgrTracked, NoLostWakeup, instVars
<1>6. HandoverTracked'
  <2>1. Pending' = Pending /\ \A s : Image(s)' = Image(s)
    BY <1>1, <1>3, Steady
  <2>2. Handed(rknn_img)' /\ Handed(stream)'
    BY <1>1, <1>2, <1>3, <2>1 DEF HandoverTracked, Handed, Dated
  <2> QED
    BY <1>1, <1>2, <2>2 DEF HandoverTracked
<1> QED
  BY <1>1, <1>3, <1>4, <1>5, <1>6, Steady, SteadyImages DEF PipelineInv, GoesOn

\* PipelineInv survives push_stream and the release of rknn_img.
LEMMA RtspPushInv ==
    ASSUME PipelineInv, RtspPush
    PROVE  PipelineInv'
<1>1. /\ UNCHANGED <<pc, index, camera, lost, round, bgr, instVars, poolVars>>
      /\ rtsp = "pushing" /\ rtsp' = "locking" /\ mutex' = "free"
      /\ stream' = rknn_img /\ rknn_img' = Empty
  BY DEF RtspPush, captureVars
<1>2. TypeOK /\ FutsInOrder /\ RoundsCount /\ CameraTracked /\ BgrTracked /\ HandoverTracked
  BY DEF PipelineInv
<1>3. Taken' = Taken
  BY <1>1 DEF Taken, instVars
<1>4. TypeOK'
  BY <1>1, <1>2 DEF TypeOK, instVars, poolVars
<1>5. FutsInOrder' /\ RoundsCount' /\ CameraTracked' /\ BgrTracked' /\ NoLostWakeup'
  BY <1>1, <1>2 DEF FutsInOrder, RoundsCount, CameraTracked, BgrTracked, NoLostWakeup, instVars
<1>6. HandoverTracked'
  <2>1. Pending' = Pending /\ \A s : Image(s)' = Image(s)
    BY <1>1, <1>3, Steady
  <2>2. Handed(stream)'
    BY <1>1, <1>2, <1>3, <2>1 DEF HandoverTracked, Handed, Dated
  <2>3. Empty.seq = -1 /\ Empty.img \notin Frame /\ THREAD_COUNT \in Nat
    BY ONLY Sizes DEF Empty
  <2>4. Taken \in Int /\ -1 <= Taken
    BY ONLY <1>2, Counters
  <2>5. Handed(rknn_img)'
    BY ONLY <1>1, <1>3, <2>3, <2>4 DEF Handed, Dated
  <2> QED
    BY <1>1, <1>2, <2>2, <2>5 DEF HandoverTracked
<1> QED
  BY <1>1, <1>3, <1>4, <1>5, <1>6, Steady, SteadyImages DEF PipelineInv, GoesOn

-----------------------------------------------------------------------------
(* What the pool's steps do to the tasks in it. *)

\* A submission adds its task.
LEMMA SubmitPool ==
    ASSUME TypeOK, NEW k \in Task, Pool!Submit(k), QueuedOnce
    PROVE  /\ queue' \in Seq(Task) /\ UNCHANGED <<running, done>>
           /\ \A j : Pool!InQueue(j)' <=> Pool!InQueue(j) \/ j = k
           /\ Unfinished' = Unfinished \cup {k}
           /\ k \notin Unfinished /\ k \notin running /\ k \notin done
           /\ QueuedOnce'
<1>1. queue \in Seq(Task) /\ running \subseteq Task
  BY DEF TypeOK
<1>2. /\ queue' = Append(queue, k) /\ UNCHANGED <<running, done>>
      /\ ~Pool!InQueue(k) /\ k \notin running /\ k \notin done
  BY DEF Pool!Submit, Pool!Fresh
<1>3. /\ queue' \in Seq(Task) /\ Len(queue) \in Nat /\ Len(queue') = Len(queue) + 1
      /\ DOMAIN queue = 1 .. Len(queue) /\ DOMAIN queue' = 1 .. Len(queue) + 1
      /\ \A i \in 1 .. Len(queue) : queue'[i] = queue[i]
      /\ queue'[Len(queue) + 1] = k
  BY <1>1, <1>2, LenProperties, AppendProperties
<1>4. ASSUME NEW j PROVE Pool!InQueue(j)' <=> Pool!InQueue(j) \/ j = k
  BY <1>3 DEF Pool!InQueue
<1>5. Unfinished' = Unfinished \cup {k}
  BY <1>1, <1>2, <1>4 DEF Unfinished
<1>6. k \notin Unfinished
  BY <1>2 DEF Unfinished
<1>7. QueuedOnce'
  BY <1>2, <1>3 DEF QueuedOnce, Pool!InQueue
<1> QED
  BY <1>2, <1>3, <1>4, <1>5, <1>6, <1>7

\* A start moves the head of the queue to the workers.
LEMMA StartPool ==
    ASSUME TypeOK, Pool!Start, QueuedOnce
    PROVE  /\ Head(queue) \in Task /\ Pool!InQueue(Head(queue))
           /\ queue' \in Seq(Task) /\ running' = running \cup {Head(queue)} /\ UNCHANGED done
           /\ \A j : Pool!InQueue(j)' <=> Pool!InQueue(j) /\ j # Head(queue)
           /\ Unfinished' = Unfinished
           /\ QueuedOnce'
<1>1. queue \in Seq(Task) /\ running \subseteq Task
  BY DEF TypeOK
<1>2. /\ queue # <<>> /\ queue' = Tail(queue) /\ running' = running \cup {Head(queue)}
      /\ UNCHANGED done
  BY DEF Pool!Start
<1>3. /\ Head(queue) \in Task /\ Head(queue) = queue[1] /\ Len(queue) \in Nat \ {0}
      /\ DOMAIN queue = 1 .. Len(queue)
  BY <1>1, <1>2, LenProperties, EmptySeq, HeadTailProperties
<1>4. /\ queue' \in Seq(Task) /\ Len(queue') = Len(queue) - 1
      /\ DOMAIN queue' = 1 .. Len(queue) - 1
      /\ \A i \in 1 .. Len(queue) - 1 : queue'[i] = queue[i + 1]
  BY <1>1, <1>2, LenProperties, HeadTailProperties
<1>5. Pool!InQueue(Head(queue))
  BY <1>3 DEF Pool!InQueue
<1>6. ASSUME NEW j PROVE Pool!InQueue(j)' <=> Pool!InQueue(j) /\ j # Head(queue)
  <2>1. ASSUME NEW i \in DOMAIN queue', queue'[i] = j
        PROVE  Pool!InQueue(j) /\ j # Head(queue)
    <3>1. i + 1 \in DOMAIN queue /\ queue[i + 1] = j /\ i + 1 # 1 /\ 1 \in DOMAIN queue
      BY <1>3, <1>4, <2>1
    <3> QED
      BY <1>3, <3>1 DEF Pool!InQueue, QueuedOnce
  <2>2. ASSUME NEW i \in DOMAIN queue, queue[i] = j, j # Head(queue)
        PROVE  \E m \in DOMAIN queue' : queue'[m] = j
    <3>1. i # 1
      BY <1>3, <2>2
    <3>2. i - 1 \in DOMAIN queue' /\ queue'[i - 1] = queue[(i - 1) + 1] /\ (i - 1) + 1 = i
      BY <1>3, <1>4, <3>1
    <3> QED
      BY <2>2, <3>2
  <2> QED
    BY <2>1, <2>2 DEF Pool!InQueue
<1>7. Unfinished' = Unfinished
  BY <1>2, <1>3, <1>5, <1>6 DEF Unfinished
<1>8. QueuedOnce'
  <2> SUFFICES ASSUME NEW i \in DOMAIN queue', NEW j \in DOMAIN queue', queue'[i] = queue'[j]
               PROVE  i = j
    BY DEF QueuedOnce
  <2>1. /\ i + 1 \in DOMAIN queue /\ j + 1 \in DOMAIN queue /\ i \in Int /\ j \in Int
        /\ queue[i + 1] = queue[j + 1]
    BY <1>3, <1>4
  <2>2. i + 1 = j + 1
    BY <2>1 DEF QueuedOnce
  <2> QED
    BY <2>1, <2>2
<1> QED
  BY <1>2, <1>3, <1>4, <1>5, <1>6, <1>7, <1>8

\* A worker that finishes moves its task to the finished ones.
LEMMA FinishPool ==
    ASSUME NEW k \in running, k \in Task, Pool!Finish(k), ~Pool!InQueue(k)
    PROVE  /\ running' = running \ {k} /\ done' = done \cup {k} /\ UNCHANGED queue
           /\ \A j : Pool!InQueue(j)' <=> Pool!InQueue(j)
           /\ Unfinished' = Unfinished \ {k} /\ k \in Unfinished
<1>1. running' = running \ {k} /\ done' = done \cup {k} /\ UNCHANGED queue
  BY DEF Pool!Finish
<1>2. \A j : Pool!InQueue(j)' <=> Pool!InQueue(j)
  BY <1>1 DEF Pool!InQueue
<1> QED
  BY <1>1, <1>2 DEF Unfinished

-----------------------------------------------------------------------------
(* The workers. *)

\* The steps of a worker move neither main nor rtsp_thread.
LEMMA WorkerSteady ==
    ASSUME PipelineInv, UNCHANGED <<pc, index, camera, lost, round, instVars, rtspVars>>
    PROVE  /\ FutsInOrder' /\ RoundsCount' /\ CameraTracked' /\ ImagesInOrder'
           /\ HandoverTracked' /\ NoLostWakeup'
           /\ Submitted' = Submitted /\ Taken' = Taken
<1>1. UNCHANGED <<ori_img, frame_num, futs, mutex, rknn_img, rtsp, stream>>
  BY DEF instVars, rtspVars
<1>2. Submitted' = Submitted /\ Taken' = Taken
  BY <1>1 DEF Submitted, Taken
<1>3. Pending' = Pending /\ \A x : Image(x)' = Image(x)
  BY <1>1, <1>2 DEF Pending, Image
<1>4. FutsInOrder' /\ RoundsCount' /\ CameraTracked' /\ NoLostWakeup'
  BY <1>1 DEF PipelineInv, FutsInOrder, RoundsCount, CameraTracked, NoLostWakeup
<1>5. ImagesInOrder'
  BY <1>1, <1>3 DEF PipelineInv, ImagesInOrder, Dated
<1>6. Handed(rknn_img)' /\ Handed(stream)'
  BY <1>1, <1>2, <1>3 DEF PipelineInv, HandoverTracked, Handed, Dated
<1>7. HandoverTracked'
  BY <1>1, <1>6 DEF PipelineInv, HandoverTracked
<1> QED
  BY <1>2, <1>4, <1>5, <1>7

\* PipelineInv survives the start of an inference.
LEMMA InterfStartInv ==
    ASSUME PipelineInv, InterfStart
    PROVE  PipelineInv'
<1> DEFINE h == Head(queue)
<1>1. /\ Pool!Start /\ input' = [input EXCEPT ![h.inst] = ori_img[h.inst]]
      /\ UNCHANGED <<pc, index, camera, lost, round, bgr, instVars, rtspVars, value>>
  BY DEF InterfStart, captureVars
<1>2. TypeOK /\ PoolInOrder /\ BgrTracked /\ ResultsTracked /\ QueuedOnce
  BY DEF PipelineInv, PoolInOrder
<1>3. /\ h \in Task /\ Pool!InQueue(h)
      /\ queue' \in Seq(Task) /\ running' = running \cup {h} /\ UNCHANGED done
      /\ \A j : Pool!InQueue(j)' <=> Pool!InQueue(j) /\ j # h
      /\ Unfinished' = Unfinished
      /\ QueuedOnce'
  BY <1>1, <1>2, StartPool
<1> HIDE DEF h
<1>4. UNCHANGED <<ori_img, frame_num, futs, mutex, rknn_img, rtsp, stream>>
  BY <1>1 DEF instVars, rtspVars
<1>5. h.inst \in Instance /\ ori_img[h.inst] \in Mat
  BY <1>2, <1>3 DEF Task, TypeOK
<1>6. TypeOK'
  <2>1. input' \in [Instance -> Mat]
    BY <1>1, <1>2, <1>5 DEF TypeOK
  <2>2. running' \subseteq Task
    BY <1>2, <1>3 DEF TypeOK
  <2> QED
    BY <1>1, <1>2, <1>3, <1>4, <2>1, <2>2 DEF TypeOK
<1>7. Submitted' = Submitted /\ Taken' = Taken
  BY <1>1, WorkerSteady
<1>8. PoolInOrder'
  <2>1. \A k \in running' : ~Pool!InQueue(k)'
    BY <1>2, <1>3 DEF PoolInOrder
  <2> QED
    BY <1>2, <1>3, <1>7, <2>1 DEF PoolInOrder
<1>9. ResultsTracked'
  <2>1. ASSUME NEW k \in running' PROVE input'[k.inst] = ori_img[k.inst]
    <3>1. k.inst \in Instance
      BY <1>2, <1>3, <1>5 DEF TypeOK, Task
    <3>2. CASE k.inst = h.inst
      BY <1>1, <1>2, <1>5, <3>2 DEF TypeOK
    <3>3. CASE k.inst # h.inst
      BY <1>1, <1>2, <1>3, <3>1, <3>3 DEF TypeOK, ResultsTracked
    <3> QED
      BY <3>2, <3>3
  <2> QED
    BY <1>1, <1>2, <1>3, <1>4, <1>7, <2>1 DEF ResultsTracked
<1>10. BgrTracked'
  BY <1>1, <1>2, <1>4 DEF BgrTracked
<1> QED
  BY <1>1, <1>6, <1>8, <1>9, <1>10, WorkerSteady DEF PipelineInv

\* PipelineInv survives the end of an inference: it may draw on bgr_buf only
\* while some instance still has its first image.
LEMMA InterfReturnInv ==
    ASSUME PipelineInv, NEW k \in running, InterfReturn(k)
    PROVE  PipelineInv'
<1>1. /\ Pool!Finish(k)
      /\ bgr' = IF ori_img[k.inst] = Shared THEN Painted ELSE bgr
      /\ value' = [value EXCEPT ![k.seq] =
                      [seq |-> k.seq, img |-> ori_img[k.inst], boxes |-> input[k.inst]]]
      /\ input' = [input EXCEPT ![k.inst] = Junk]
      /\ UNCHANGED <<pc, index, camera, lost, round, instVars, rtspVars>>
  BY DEF InterfReturn
<1>2. TypeOK /\ PoolInOrder /\ BgrTracked /\ ResultsTracked
  BY DEF PipelineInv
<1>3. /\ k \in Task /\ ~Pool!InQueue(k) /\ k.seq \in Seq_ /\ k.inst \in Instance
      /\ ori_img[k.inst] \in Mat /\ input[k.inst] = ori_img[k.inst]
  BY <1>2 DEF TypeOK, PoolInOrder, ResultsTracked, Task
<1>4. /\ running' = running \ {k} /\ done' = done \cup {k} /\ UNCHANGED queue
      /\ \A j : Pool!InQueue(j)' <=> Pool!InQueue(j)
      /\ Unfinished' = Unfinished \ {k} /\ k \in Unfinished
  BY <1>1, <1>3, FinishPool
<1>5. UNCHANGED <<ori_img, frame_num, futs, mutex, rknn_img, rtsp, stream>>
  BY <1>1 DEF instVars, rtspVars
<1>6. Submitted' = Submitted /\ Taken' = Taken
  BY <1>1, WorkerSteady
<1>7. k = TaskOf(k.seq) /\ k.seq < Submitted /\ k.seq > Taken /\ k \notin done
  BY <1>2, <1>4, UnfinishedPending DEF PoolInOrder
<1> DEFINE x == [seq |-> k.seq, img |-> ori_img[k.inst], boxes |-> ori_img[k.inst]]
<1>8. value' = [value EXCEPT ![k.seq] = x]
  BY <1>1, <1>3
<1>9. TypeOK'
  <2>1. x \in Result
    BY <1>3 DEF Result
  <2>2. value' \in [Seq_ -> Result \cup {Empty}]
    BY <1>2, <1>3, <1>8, <2>1 DEF TypeOK
  <2>3. input' \in [Instance -> Mat]
    BY <1>1, <1>2 DEF TypeOK, Mat
  <2>4. bgr' \in Mat \ {Shared}
    BY <1>1, <1>2, Sizes DEF TypeOK, Mat
  <2>5. running' \subseteq Task /\ done' \subseteq Task
    BY <1>2, <1>3, <1>4 DEF TypeOK
  <2> QED
    BY <1>1, <1>2, <1>4, <1>5, <2>2, <2>3, <2>4, <2>5 DEF TypeOK
<1>10. PoolInOrder'
  BY <1>2, <1>4, <1>6, <1>7 DEF PoolInOrder, QueuedOnce
<1>11. ResultsTracked'
  <2>1. ASSUME NEW j \in running' PROVE input'[j.inst] = ori_img[j.inst]
    <3>1. j \in running /\ j # k /\ j \in Unfinished /\ j.inst \in Instance
      BY <1>2, <1>4 DEF TypeOK, Unfinished, Task
    <3>2. j.inst # k.inst
      BY <1>4, <3>1, Exclusive DEF InstanceExclusive
    <3> QED
      BY <1>1, <1>2, <3>1, <3>2 DEF TypeOK, ResultsTracked
  <2>2. ASSUME NEW j \in done', j.seq > Taken'
        PROVE  value'[j.seq] = [seq |-> j.seq, img |-> ori_img[j.inst],
                                boxes |-> ori_img[j.inst]]
    <3>1. CASE j = k
      <4>1. value'[k.seq] = x
        BY <1>2, <1>3, <1>8 DEF TypeOK
      <4> QED
        BY <3>1, <4>1
    <3>2. CASE j # k
      <4>1. j \in done /\ j.seq \in Seq_ /\ j = TaskOf(j.seq)
        BY <1>2, <1>4, <3>2 DEF TypeOK, Task, PoolInOrder
      <4>2. j.seq # k.seq
        BY <1>7, <3>2, <4>1
      <4>3. value'[j.seq] = value[j.seq]
        BY <1>2, <1>8, <4>1, <4>2 DEF TypeOK
      <4> QED
        BY <1>2, <1>6, <2>2, <4>1, <4>3 DEF ResultsTracked
    <3> QED
      BY <3>1, <3>2
  <2> QED
    BY <1>5, <2>1, <2>2 DEF ResultsTracked
<1>12. BgrTracked'
  <2>1. CASE ori_img[k.inst] = Shared
    <3>1. ~(k.inst < frame_num)
      BY <1>2, <1>3, <2>1 DEF BgrTracked
    <3>2. frame_num \in Nat
      BY Counters DEF PipelineInv
    <3>3. ~(frame_num >= THREAD_COUNT)
      BY <1>3, <3>1, <3>2, PipelineAssumption DEF Instance
    <3> QED
      BY <1>1, <1>2, <1>5, <2>1, <3>3 DEF BgrTracked
  <2>2. CASE ori_img[k.inst] # Shared
    BY <1>1, <1>2, <1>5, <2>2 DEF BgrTracked
  <2> QED
    BY <2>1, <2>2
<1> QED
  BY <1>1, <1>9, <1>10, <1>11, <1>12, WorkerSteady DEF PipelineInv

-----------------------------------------------------------------------------
(* Submissions and results. *)

\* The front of futs is the submission whose turn it is.
LEMMA FrontOfFuts ==
    ASSUME PipelineInv, pc \in InLoop
    PROVE  /\ futs # <<>> /\ Head(futs) = TaskOf(frame_num)
           /\ Head(futs).seq = frame_num /\ Head(futs).inst = frame_num % THREAD_COUNT
           /\ frame_num \in Pending /\ frame_num \in Seq_
<1>1. Len(futs) = THREAD_COUNT /\ \A n \in 1 .. Len(futs) : futs[n] = TaskOf(frame_num + n - 1)
  BY DEF PipelineInv, FutsInOrder
<1>2. /\ frame_num \in Nat /\ frame_num <= MaxFrames
      /\ Submitted = frame_num + THREAD_COUNT
  BY Counters DEF PipelineInv
<1>3. futs \in Seq(Task)
  BY DEF PipelineInv, TypeOK
<1>4. futs # <<>> /\ Head(futs) = futs[1] /\ 1 \in 1 .. Len(futs)
  BY <1>1, <1>3, PipelineAssumption, EmptySeq, HeadTailProperties
<1>5. futs[1] = TaskOf(frame_num + 1 - 1) /\ frame_num + 1 - 1 = frame_num
  BY <1>1, <1>2, <1>4
<1>6. frame_num \in Seq_ /\ frame_num \in Pending
  BY <1>2, PipelineAssumption DEF Seq_, Pending
<1> QED
  BY <1>4, <1>5, <1>6 DEF TaskOf

\* PipelineInv survives futs.front().get(): the result is that of the instance
\* whose turn it is, and never an empty image.
LEMMA GetInv ==
    ASSUME PipelineInv, Get
    PROVE  PipelineInv'
<1> DEFINE x == value[frame_num]
<1>1. /\ TypeOK /\ FutsInOrder /\ RoundsCount /\ CameraTracked /\ BgrTracked /\ PoolInOrder
      /\ ResultsTracked /\ ImagesInOrder /\ HandoverTracked
  BY DEF PipelineInv
<1>2. /\ pc = "get" /\ pc \in InLoop /\ Taken = frame_num - 1 /\ frame_num \in Nat
      /\ frame_num > Taken
  <2>1. pc = "get"
    BY DEF Get
  <2> QED
    BY <1>1, <2>1, Counters DEF InLoop, Taken
<1>3. /\ Head(futs) = TaskOf(frame_num) /\ Head(futs).seq = frame_num
      /\ Head(futs).inst = frame_num % THREAD_COUNT
      /\ frame_num \in Pending /\ frame_num \in Seq_
  BY <1>2, FrontOfFuts
<1>4. /\ Head(futs) \in done /\ rknn_img' = x
      /\ value' = [value EXCEPT ![frame_num] = Empty]
      /\ UNCHANGED <<camera, lost, round, bgr, instVars, queue, running, done, input, rtsp, stream>>
      /\ IF x = Empty
           THEN mutex' = mutex /\ pc' = "dequeue" /\ index' = 0
           ELSE mutex' = "free" /\ pc' = "signal" /\ index' = index
  BY <1>3 DEF Get
<1>5. UNCHANGED <<ori_img, frame_num, futs>>
  BY <1>4 DEF instVars
<1>6. x = [seq |-> frame_num, img |-> Image(frame_num), boxes |-> Image(frame_num)]
  BY <1>1, <1>2, <1>3, <1>4 DEF ResultsTracked, Image
<1>7. x.seq = frame_num /\ x.img = Image(frame_num) /\ x.boxes = Image(frame_num) /\ x # Empty
  BY <1>2, <1>6 DEF Empty
<1> HIDE DEF x
<1>8. mutex' = "free" /\ pc' = "signal" /\ index' = index /\ Taken' = frame_num
  BY <1>4, <1>5, <1>7 DEF Taken
<1>9. TypeOK'
  <2>1. x \in Result \cup {Empty}
    BY <1>1, <1>3 DEF TypeOK, x
  <2>2. value' \in [Seq_ -> Result \cup {Empty}]
    BY <1>1, <1>4 DEF TypeOK
  <2>3. rtsp \notin {"testing", "pushing"}
    BY <1>1, <1>2 DEF TypeOK
  <2> QED
    BY <1>1, <1>4, <1>5, <1>8, <2>1, <2>2, <2>3 DEF TypeOK, InLoop
<1>10. FutsInOrder' /\ RoundsCount' /\ CameraTracked' /\ BgrTracked' /\ NoLostWakeup'
  BY <1>1, <1>2, <1>4, <1>5, <1>8
     DEF FutsInOrder, RoundsCount, CameraTracked, BgrTracked, NoLostWakeup, Busy, InLoop
<1>11. Submitted' = Submitted /\ Pending' = Pending /\ \A s : Image(s)' = Image(s)
  BY <1>5 DEF Submitted, Pending, Image
<1>12. ImagesInOrder'
  BY <1>1, <1>2, <1>4, <1>8, <1>11 DEF ImagesInOrder, Dated, Busy, InLoop
<1>13. PoolInOrder'
  <2>1. Unfinished' = Unfinished
    BY <1>4 DEF Unfinished, Pool!InQueue
  <2>2. ASSUME NEW k \in Unfinished PROVE frame_num < k.seq
    <3>1. k.seq \in Nat /\ k.seq > Taken /\ k = TaskOf(k.seq) /\ k \notin done
      BY <1>1, UnfinishedPending DEF PoolInOrder
    <3>2. k.seq # frame_num
      BY <1>3, <1>4, <3>1
    <3> QED
      BY <1>2, <3>1, <3>2
  <2> QED
    BY <1>1, <1>4, <1>8, <1>11, <2>1, <2>2 DEF PoolInOrder, QueuedOnce, Pool!InQueue
<1>14. ResultsTracked'
  <2>1. ASSUME NEW k \in done, k.seq > frame_num
        PROVE  value'[k.seq] = value[k.seq] /\ k.seq > Taken
    <3>1. k.seq \in Seq_ /\ k.seq \in Nat
      BY <1>1, Sizes DEF TypeOK, Task
    <3> QED
      BY <1>1, <1>2, <1>4, <2>1, <3>1 DEF TypeOK
  <2> QED
    BY <1>1, <1>4, <1>5, <1>8, <2>1 DEF ResultsTracked
<1>15. HandoverTracked'
  <2>1. Handed(rknn_img)'
    <3>1. rknn_img'.seq <= Taken'
      BY <1>2, <1>4, <1>7, <1>8
    <3>2. rknn_img'.seq >= 2 * THREAD_COUNT =>
             rknn_img'.img \in Frame /\ rknn_img'.boxes = rknn_img'.img
      BY <1>1, <1>3, <1>4, <1>7 DEF ImagesInOrder
    <3>3. rknn_img'.img \in Frame =>
             \A s \in Pending : s > rknn_img'.seq /\ Image(s) \in Frame => rknn_img'.img < Image(s)
      BY <1>1, <1>3, <1>4, <1>7 DEF ImagesInOrder
    <3>4. Dated(rknn_img.img)'
      BY <1>1, <1>2, <1>3, <1>4, <1>7, <1>8 DEF ImagesInOrder, Dated, Busy, InLoop
    <3> QED
      BY <1>11, <3>1, <3>2, <3>3, <3>4 DEF Handed
  <2>2. stream.seq <= Taken /\ stream.seq \in Int /\ stream.seq < frame_num
    <3>1. stream.seq <= Taken
      BY <1>1 DEF HandoverTracked, Handed
    <3>2. stream.seq \in Int
      BY <1>1, Sizes DEF TypeOK, Result, Empty
    <3> QED
      BY <1>2, <3>1, <3>2
  <2>3. Handed(stream)'
    BY <1>1, <1>2, <1>4, <1>8, <1>11, <2>2 DEF HandoverTracked, Handed, Dated, Busy, InLoop
  <2>4. rknn_img' # Empty =>
          /\ stream'.seq < rknn_img'.seq
          /\ stream'.img \in Frame /\ rknn_img'.img \in Frame => stream'.img < rknn_img'.img
    BY <1>1, <1>2, <1>3, <1>4, <1>7, <2>2 DEF HandoverTracked, Handed
  <2> QED
    BY <1>1, <1>4, <1>7, <1>8, <2>1, <2>3, <2>4 DEF HandoverTracked, InLoop
<1> QED
  BY <1>9, <1>10, <1>12, <1>13, <1>14, <1>15 DEF PipelineInv

\* A submission writes the image of its instance, which no task in the pool and
\* no result still to be taken is about. The frame, if it is one, is the latest.
LEMMA SubmitStep ==
    ASSUME PipelineInv, NEW m \in Mat, NEW n \in Seq_, n = Submitted,
           Pool!Submit(TaskOf(n)), ori_img' = [ori_img EXCEPT ![n % THREAD_COUNT] = m],
           Submitted' = n + 1, Taken < n,
           frame_num' \in Nat, frame_num <= frame_num', n < frame_num' + THREAD_COUNT,
           Taken' = Taken, frame_num' - 1 <= Taken,
           UNCHANGED <<input, value, rknn_img, stream, round>>,
           m \in Frame => m = round /\ pc \in Busy,
           pc' \notin Busy,
           n >= 2 * THREAD_COUNT => m \in Frame
    PROVE  /\ PoolInOrder' /\ ImagesInOrder' /\ ResultsTracked'
           /\ Handed(rknn_img)' /\ Handed(stream)'
           /\ \A k \in Unfinished : k.inst # n % THREAD_COUNT
<1> DEFINE i == n % THREAD_COUNT
<1>1. /\ TypeOK /\ PoolInOrder /\ ImagesInOrder /\ ResultsTracked /\ HandoverTracked
      /\ QueuedOnce
  BY DEF PipelineInv, PoolInOrder
<1>2. /\ frame_num \in Nat /\ n \in Nat /\ Taken \in Int /\ frame_num - 1 <= Taken
      /\ round \in Nat /\ n <= frame_num + THREAD_COUNT
  BY Counters DEF PipelineInv
<1>3. i \in Instance /\ TaskOf(n) \in Task /\ THREAD_COUNT \in Nat \ {0}
  BY <1>2, Sizes
<1>4. /\ UNCHANGED <<running, done>>
      /\ \A j : Pool!InQueue(j)' <=> Pool!InQueue(j) \/ j = TaskOf(n)
      /\ Unfinished' = Unfinished \cup {TaskOf(n)}
      /\ TaskOf(n) \notin Unfinished /\ TaskOf(n) \notin running /\ TaskOf(n) \notin done
      /\ QueuedOnce'
  BY <1>1, <1>3, SubmitPool
<1>5. ASSUME NEW s \in Nat, frame_num' <= s, s < n
      PROVE  s % THREAD_COUNT # i /\ s \in Pending
  <2>1. frame_num <= s /\ s % THREAD_COUNT # n % THREAD_COUNT
    BY <1>2, <1>5, NextInstance
  <2>2. s \in Seq_
    BY <1>2, <1>5, PipelineAssumption DEF Seq_
  <2> QED
    BY <1>5, <2>1, <2>2 DEF Pending
<1> HIDE DEF i
<1>6. ori_img \in [Instance -> Mat] /\ ori_img' = [ori_img EXCEPT ![i] = m]
  BY <1>1 DEF TypeOK, i
<1>7. ori_img'[i] = m /\ \A j \in Instance : j # i => ori_img'[j] = ori_img[j]
  BY <1>3, <1>6
<1>8. ASSUME NEW s \in Pending', s # n
      PROVE  /\ s \in Nat /\ s \in Pending /\ Image(s)' = Image(s)
  <2>1. s \in Nat /\ frame_num' <= s /\ s < n
    BY <1>2, <1>8, Sizes DEF Pending
  <2>2. s % THREAD_COUNT \in Instance /\ s % THREAD_COUNT # i /\ s \in Pending
    BY <1>5, <2>1, Sizes
  <2> QED
    BY <1>7, <2>1, <2>2 DEF Image
<1>9. Image(n)' = m
  BY <1>7 DEF Image, i
<1>10. ASSUME NEW k \in Task, k = TaskOf(k.seq), k.seq > Taken, k.seq < n
       PROVE  ori_img'[k.inst] = ori_img[k.inst] /\ k.inst # i
  <2>1. k.seq \in Nat /\ k.inst \in Instance /\ k.inst = k.seq % THREAD_COUNT
    BY <1>10, Sizes DEF Task, TaskOf
  <2>2. frame_num' <= k.seq
    <3> DEFINE g == frame_num'
               b == Taken
    <3>1. g \in Nat /\ b \in Int /\ g - 1 <= b /\ b < k.seq /\ k.seq \in Nat
      BY <1>2, <1>10, <2>1
    <3> HIDE DEF g, b
    <3>2. g <= k.seq
      BY <3>1
    <3> QED
      BY <3>2 DEF g
  <2> QED
    BY <1>5, <1>7, <1>10, <2>1, <2>2
<1>11. ASSUME NEW k \in Unfinished PROVE ori_img'[k.inst] = ori_img[k.inst] /\ k.inst # i
  BY <1>1, <1>10 DEF Unfinished, PoolInOrder
<1>12. PoolInOrder'
  <2>1. TaskOf(n).seq = n /\ Taken < n /\ n < Submitted'
    BY <1>2 DEF TaskOf
  <2>2. \A k \in Unfinished \cup done : k.seq < Submitted'
    <3>1. ASSUME NEW k \in Unfinished \cup done PROVE k.seq < n /\ k.seq \in Nat
      BY <1>1, Sizes DEF PoolInOrder, Unfinished, TypeOK, Task
    <3> QED
      BY <1>2, <3>1
  <2>3. \A k \in Unfinished' \cup done' : k = TaskOf(k.seq) /\ k.seq < Submitted'
    BY <1>1, <1>4, <2>1, <2>2 DEF PoolInOrder
  <2>4. \A k \in Unfinished' : Taken' < k.seq /\ k \notin done'
    BY <1>1, <1>4, <2>1 DEF PoolInOrder
  <2>5. \A k \in running' : ~Pool!InQueue(k)'
    BY <1>1, <1>4 DEF PoolInOrder
  <2> QED
    BY <1>4, <2>3, <2>4, <2>5 DEF PoolInOrder
<1>13. ResultsTracked'
  <2>1. ASSUME NEW k \in running PROVE input[k.inst] = ori_img'[k.inst]
    <3>1. k \in Unfinished
      BY <1>1 DEF TypeOK, Unfinished
    <3> QED
      BY <1>1, <1>11, <3>1 DEF ResultsTracked
  <2>2. ASSUME NEW k \in done, k.seq > Taken PROVE ori_img'[k.inst] = ori_img[k.inst]
    BY <1>1, <1>10, <2>2 DEF TypeOK, PoolInOrder
  <2> QED
    BY <1>1, <1>4, <2>1, <2>2 DEF ResultsTracked
<1>14. ImagesInOrder'
  <2>1. ASSUME NEW s \in Pending' PROVE Dated(Image(s))'
    <3>1. CASE s = n
      BY <1>2, <1>9, <3>1 DEF Dated
    <3>2. CASE s # n
      BY <1>1, <1>8, <3>2 DEF ImagesInOrder, Dated
    <3> QED
      BY <3>1, <3>2
  <2>2. ASSUME NEW r \in Pending', NEW s \in Pending', r < s,
               Image(r)' \in Frame, Image(s)' \in Frame
        PROVE  Image(r)' < Image(s)'
    <3>1. r \in Nat /\ s \in Nat /\ r <= n /\ s <= n
      BY <1>2, Sizes DEF Pending
    <3>2. r # n /\ r \in Pending /\ Image(r)' = Image(r)
      BY <1>2, <1>8, <2>2, <3>1
    <3>3. CASE s = n
      <4>1. Image(s)' = m /\ m = round /\ pc \in Busy
        BY <1>9, <2>2, <3>3
      <4>2. Image(r) < round
        BY <1>1, <2>2, <3>2, <4>1 DEF ImagesInOrder, Dated
      <4> QED
        BY <3>2, <4>1, <4>2
    <3>4. CASE s # n
      BY <1>1, <1>8, <2>2, <3>2, <3>4 DEF ImagesInOrder
    <3> QED
      BY <3>3, <3>4
  <2>3. ASSUME NEW s \in Pending', s >= 2 * THREAD_COUNT PROVE Image(s)' \in Frame
    <3>1. CASE s = n
      BY <1>9, <2>3, <3>1
    <3>2. CASE s # n
      BY <1>1, <1>8, <2>3, <3>2 DEF ImagesInOrder
    <3> QED
      BY <3>1, <3>2
  <2> QED
    BY <2>1, <2>2, <2>3 DEF ImagesInOrder
<1>15. ASSUME NEW x, Handed(x)
       PROVE  /\ x.seq <= Taken' /\ (x.img \in Frame => x.img <= round')
              /\ x.img \in Frame => \A s \in Pending' :
                    s > x.seq /\ Image(s)' \in Frame => x.img < Image(s)'
  <2>1. x.seq <= Taken /\ (x.img \in Frame => x.img <= round)
    BY <1>15 DEF Handed, Dated
  <2>2. ASSUME x.img \in Frame, NEW s \in Pending', s > x.seq, Image(s)' \in Frame
        PROVE  x.img < Image(s)'
    <3>1. CASE s = n
      <4>1. Image(s)' = m /\ m = round /\ pc \in Busy
        BY <1>9, <2>2, <3>1
      <4> QED
        BY <1>15, <2>2, <4>1 DEF Handed, Dated
    <3>2. CASE s # n
      BY <1>8, <1>15, <2>2, <3>2 DEF Handed
    <3> QED
      BY <3>1, <3>2
  <2> QED
    BY <2>1, <2>2
<1>16. Handed(rknn_img)' /\ Handed(stream)'
  BY <1>1, <1>15 DEF HandoverTracked, Handed, Dated
<1> QED
  BY <1>11, <1>12, <1>13, <1>14, <1>16 DEF i

\* PipelineInv survives the creation of an instance.
LEMMA SpawnInv ==
    ASSUME PipelineInv, Spawn
    PROVE  /\ PipelineInv'
           /\ \A i \in Instance : ori_img'[i] # ori_img[i] => \A k \in Unfinished : k.inst # i
<1> DEFINE n == Len(futs)
           k == [seq |-> n, inst |-> n]
<1>1. /\ TypeOK /\ FutsInOrder /\ RoundsCount /\ CameraTracked /\ BgrTracked
      /\ HandoverTracked /\ NoLostWakeup
  BY DEF PipelineInv
<1>2. /\ pc = "spawn" /\ n < THREAD_COUNT
      /\ ori_img' = [ori_img EXCEPT ![n] = Shared]
      /\ Pool!Submit(k) /\ futs' = Append(futs, k)
      /\ UNCHANGED <<pc, index, camera, lost, round, bgr, frame_num, input, value,
                     mutex, rknn_img, rtsp, stream>>
  BY DEF Spawn, captureVars, rtspVars
<1>3. frame_num = 0 /\ n \in Nat /\ Submitted = n /\ Taken = -1 /\ round \in Nat
  <2>1. frame_num = 0
    BY <1>1, <1>2 DEF FutsInOrder, InLoop
  <2>2. n \in Nat /\ round \in Nat
    BY <1>1, Counters
  <2> QED
    BY <1>2, <2>1, <2>2 DEF Submitted, Taken
<1>4. n \in Instance /\ n \in Seq_ /\ n % THREAD_COUNT = n /\ k = TaskOf(n) /\ k \in Task
  <2>1. n \in 0 .. THREAD_COUNT - 1 /\ n \in Seq_
    BY <1>2, <1>3, PipelineAssumption DEF Seq_
  <2>2. n % THREAD_COUNT = n
    BY <2>1, ModSmall, PipelineAssumption
  <2> QED
    BY <2>1, <2>2 DEF Instance, TaskOf, Task
<1>5. /\ futs' \in Seq(Task) /\ Len(futs') = n + 1
      /\ \A m \in 1 .. n : futs'[m] = futs[m]
      /\ futs'[n + 1] = k
  BY <1>1, <1>2, <1>4, AppendProperties, LenProperties DEF TypeOK
<1>6. /\ Submitted' = n + 1 /\ Taken' = Taken
  BY <1>2, <1>3, <1>5 DEF Submitted, Taken
<1>7. Shared \in Mat /\ Shared \notin Frame
  BY Sizes DEF Mat
<1> HIDE DEF n, k
<1>8. /\ PoolInOrder' /\ ImagesInOrder' /\ ResultsTracked'
      /\ Handed(rknn_img)' /\ Handed(stream)'
      /\ \A j \in Unfinished : j.inst # n
  <2>1. /\ Pool!Submit(TaskOf(n)) /\ ori_img' = [ori_img EXCEPT ![n % THREAD_COUNT] = Shared]
        /\ pc' \notin Busy
    BY <1>2, <1>4 DEF Busy, InLoop
  <2>2. /\ Taken < n /\ frame_num' \in Nat /\ frame_num <= frame_num'
        /\ n < frame_num' + THREAD_COUNT /\ frame_num' - 1 <= Taken
        /\ ~(n >= 2 * THREAD_COUNT)
    BY <1>2, <1>3, PipelineAssumption
  <2> QED
    BY <1>2, <1>3, <1>4, <1>6, <1>7, <2>1, <2>2, SubmitStep
<1>9. TypeOK'
  <2>1. ori_img' \in [Instance -> Mat]
    BY <1>1, <1>2, <1>7 DEF TypeOK
  <2>2. queue' \in Seq(Task) /\ UNCHANGED <<running, done>>
    BY <1>1, <1>2, <1>4, SubmitPool DEF PipelineInv, PoolInOrder
  <2> QED
    BY <1>1, <1>2, <1>5, <2>1, <2>2 DEF TypeOK
<1>10. FutsInOrder'
  <2>1. ASSUME NEW m \in 1 .. n + 1 PROVE futs'[m] = TaskOf(frame_num' + m - 1)
    <3>1. CASE m \in 1 .. n
      BY <1>1, <1>2, <1>5, <3>1 DEF FutsInOrder, n
    <3>2. CASE m = n + 1
      <4>1. frame_num' + m - 1 = n
        BY <1>2, <1>3, <3>2
      <4> QED
        BY <1>4, <1>5, <3>2, <4>1
    <3> QED
      BY <1>3, <2>1, <3>1, <3>2
  <2>2. Len(futs') <= THREAD_COUNT
    BY <1>2, <1>3, <1>5, PipelineAssumption
  <2> QED
    BY <1>2, <1>3, <1>5, <2>1, <2>2 DEF FutsInOrder, InLoop
<1>11. RoundsCount' /\ CameraTracked' /\ NoLostWakeup'
  BY <1>1, <1>2 DEF RoundsCount, CameraTracked, NoLostWakeup
<1>12. BgrTracked'
  BY <1>2, <1>3, PipelineAssumption DEF BgrTracked, Instance
<1>13. HandoverTracked'
  BY <1>1, <1>2, <1>8 DEF HandoverTracked
<1>14. \A i \in Instance : ori_img'[i] # ori_img[i] => i = n
  BY <1>1, <1>2 DEF TypeOK
<1> QED
  BY <1>8, <1>9, <1>10, <1>11, <1>12, <1>13, <1>14 DEF PipelineInv

\* PipelineInv survives the submission of a frame: the instance whose result was
\* taken gets it.
LEMMA ResubmitInv ==
    ASSUME PipelineInv, Resubmit
    PROVE  /\ PipelineInv'
           /\ \A i \in Instance : ori_img'[i] # ori_img[i] => \A k \in Unfinished : k.inst # i
<1> DEFINE n == frame_num + THREAD_COUNT
           i0 == frame_num % THREAD_COUNT
           k == [seq |-> n, inst |-> i0]
<1>1. /\ TypeOK /\ FutsInOrder /\ RoundsCount /\ CameraTracked /\ BgrTracked
      /\ HandoverTracked /\ NoLostWakeup
  BY DEF PipelineInv
<1>2. /\ pc = "resubmit" /\ pc' = "requeue"
      /\ ori_img' = [ori_img EXCEPT ![i0] = bgr]
      /\ Pool!Submit(k) /\ futs' = Append(Tail(futs), k) /\ frame_num' = frame_num + 1
      /\ UNCHANGED <<index, camera, lost, round, bgr, input, value, mutex, rknn_img, rtsp, stream>>
  BY DEF Resubmit, Clone, rtspVars
<1>3. /\ frame_num \in Nat /\ n \in Nat /\ n \in Seq_ /\ frame_num < round /\ round \in Nat
      /\ round \in Frame /\ Submitted = n /\ Len(futs) = THREAD_COUNT
  <2>1. frame_num \in Nat /\ round \in Nat /\ frame_num <= MaxFrames /\ round \in Frame
    BY <1>1, Counters DEF TypeOK
  <2>2. Len(futs) = THREAD_COUNT /\ frame_num < round
    BY <1>1, <1>2 DEF FutsInOrder, RoundsCount, Busy, InLoop
  <2> QED
    BY <2>1, <2>2, PipelineAssumption DEF Seq_, Submitted
<1>4. Taken = frame_num /\ Taken' = frame_num
  BY <1>2, <1>3 DEF Taken
<1>5. i0 \in Instance /\ n % THREAD_COUNT = i0 /\ k = TaskOf(n) /\ k \in Task
  <2>1. i0 \in Instance
    BY <1>3, Sizes
  <2>2. n % THREAD_COUNT = i0
    BY <1>3, ModNext, PipelineAssumption
  <2> QED
    BY <1>3, <2>1, <2>2 DEF TaskOf, Task
<1>6. /\ futs' \in Seq(Task) /\ Len(futs') = THREAD_COUNT
      /\ \A m \in 1 .. THREAD_COUNT - 1 : futs'[m] = futs[m + 1]
      /\ futs'[THREAD_COUNT] = k
  <2>1. futs \in Seq(Task) /\ futs # <<>>
    BY <1>1, <1>2, FrontOfFuts DEF TypeOK, InLoop
  <2>2. /\ Tail(futs) \in Seq(Task) /\ Len(Tail(futs)) = THREAD_COUNT - 1
        /\ \A m \in 1 .. THREAD_COUNT - 1 : Tail(futs)[m] = futs[m + 1]
    BY <1>3, <2>1, HeadTailProperties
  <2>3. THREAD_COUNT - 1 + 1 = THREAD_COUNT
    BY PipelineAssumption
  <2> QED
    BY <1>2, <1>5, <2>2, <2>3, AppendProperties
<1> HIDE DEF k, i0
<1>7. Submitted' = n + 1
  BY <1>2, <1>3, <1>6, PipelineAssumption DEF Submitted
<1>8. bgr \in Mat /\ bgr # Shared /\ bgr \in {round, Painted}
  BY <1>1, <1>2 DEF TypeOK, BgrTracked
<1>9. /\ PoolInOrder' /\ ImagesInOrder' /\ ResultsTracked'
      /\ Handed(rknn_img)' /\ Handed(stream)'
      /\ \A j \in Unfinished : j.inst # i0
  <2>1. /\ Pool!Submit(TaskOf(n)) /\ ori_img' = [ori_img EXCEPT ![n % THREAD_COUNT] = bgr]
        /\ pc \in Busy /\ pc' \notin Busy
    BY <1>2, <1>5 DEF Busy, InLoop
  <2>2. /\ Taken < n /\ frame_num' \in Nat /\ frame_num <= frame_num'
        /\ n < frame_num' + THREAD_COUNT /\ frame_num' - 1 <= Taken
    BY <1>2, <1>3, <1>4, PipelineAssumption
  <2>3. bgr \in Frame => bgr = round
    BY <1>8, Sizes
  <2>4. n >= 2 * THREAD_COUNT => bgr \in Frame
    <3> SUFFICES ASSUME n >= 2 * THREAD_COUNT PROVE bgr \in Frame
      OBVIOUS
    <3>1. frame_num >= THREAD_COUNT
      BY <1>3, PipelineAssumption
    <3>2. bgr # Painted
      BY <1>1, <1>2, <3>1 DEF BgrTracked
    <3> QED
      BY <1>3, <1>8, <3>2
  <2> HIDE DEF n
  <2> QED
    BY <1>2, <1>3, <1>4, <1>5, <1>7, <1>8, <2>1, <2>2, <2>3, <2>4, SubmitStep
<1>10. TypeOK'
  <2>1. ori_img' \in [Instance -> Mat]
    BY <1>1, <1>2, <1>8 DEF TypeOK
  <2>2. queue' \in Seq(Task) /\ UNCHANGED <<running, done>>
    BY <1>1, <1>2, <1>5, SubmitPool DEF PipelineInv, PoolInOrder
  <2>3. frame_num' \in Frame
    BY <1>2, <1>3, PipelineAssumption DEF Frame
  <2> QED
    BY <1>1, <1>2, <1>6, <2>1, <2>2, <2>3 DEF TypeOK, InLoop
<1>11. FutsInOrder'
  <2>1. ASSUME NEW m \in 1 .. THREAD_COUNT PROVE futs'[m] = TaskOf(frame_num' + m - 1)
    <3>1. CASE m < THREAD_COUNT
      <4>1. m \in 1 .. THREAD_COUNT - 1 /\ m + 1 \in 1 .. Len(futs)
        BY <1>3, <3>1, PipelineAssumption
      <4>2. futs'[m] = TaskOf(frame_num + (m + 1) - 1)
        BY <1>1, <1>6, <4>1 DEF FutsInOrder
      <4>3. frame_num + (m + 1) - 1 = frame_num' + m - 1
        BY <1>2, <1>3, <4>1
      <4> QED
        BY <4>2, <4>3
    <3>2. CASE m = THREAD_COUNT
      <4>1. frame_num' + m - 1 = n
        BY <1>2, <1>3, <3>2, PipelineAssumption
      <4> QED
        BY <1>5, <1>6, <3>2, <4>1
    <3> QED
      BY <2>1, <3>1, <3>2, PipelineAssumption
  <2> QED
    BY <1>2, <1>6, <2>1, PipelineAssumption DEF FutsInOrder, InLoop
<1>12. RoundsCount' /\ CameraTracked' /\ NoLostWakeup'
  <2>1. frame_num' <= round
    BY <1>2, <1>3
  <2> QED
    BY <1>1, <1>2, <2>1 DEF RoundsCount, CameraTracked, NoLostWakeup, Busy, InLoop
<1>13. BgrTracked'
  <2>1. ASSUME NEW i \in Instance, i < frame_num' PROVE ori_img'[i] # Shared
    <3>1. CASE i < frame_num
      BY <1>1, <1>2, <1>8, <3>1 DEF BgrTracked, TypeOK
    <3>2. CASE i = frame_num
      <4>1. i = i0
        BY <3>2, ModSmall, PipelineAssumption DEF Instance, i0
      <4> QED
        BY <1>1, <1>2, <1>5, <1>8, <4>1 DEF TypeOK
    <3> QED
      BY <1>2, <1>3, <2>1, <3>1, <3>2, PipelineAssumption DEF Instance
  <2> QED
    BY <1>2, <2>1 DEF BgrTracked
<1>14. HandoverTracked'
  BY <1>1, <1>2, <1>9 DEF HandoverTracked, InLoop
<1>15. \A i \in Instance : ori_img'[i] # ori_img[i] => i = i0
  BY <1>1, <1>2 DEF TypeOK
<1> QED
  BY <1>9, <1>10, <1>11, <1>12, <1>13, <1>14, <1>15 DEF PipelineInv

-----------------------------------------------------------------------------
(* The theorems. *)

\* PipelineInv holds when the program starts.
LEMMA PipelineInitial == Init => PipelineInv
<1> SUFFICES ASSUME Init PROVE PipelineInv
  OBVIOUS
<1>1. /\ pc = "boot" /\ frame_num = 0 /\ round = 0 /\ futs = <<>> /\ queue = <<>>
      /\ running = {} /\ done = {} /\ rknn_img = Empty /\ stream = Empty /\ rtsp = "none"
      /\ camera = Buffers /\ lost = {} /\ index = 0 /\ bgr = Junk /\ mutex = "free"
      /\ ori_img = [i \in Instance |-> Shared] /\ input = [i \in Instance |-> Junk]
      /\ value = [n \in Seq_ |-> Empty]
  BY DEF Init
<1>2. Len(futs) = 0 /\ futs \in Seq(Task) /\ queue \in Seq(Task) /\ DOMAIN queue = {}
  BY <1>1
<1>3. Submitted = 0 /\ Taken = -1 /\ Pending = {}
  BY <1>1, <1>2, Sizes DEF Submitted, Taken, Pending
<1>4. Unfinished = {}
  BY <1>1, <1>2 DEF Unfinished, Pool!InQueue
<1>5. Shared \in Mat /\ Junk \in Mat \ {Shared} /\ 0 \in Frame /\ 0 \in Buffers
  BY Sizes, PipelineAssumption DEF Mat, Frame, Buffers
<1>6. TypeOK
  BY <1>1, <1>2, <1>5 DEF TypeOK, InLoop
<1>7. FutsInOrder /\ RoundsCount /\ CameraTracked /\ NoLostWakeup
  BY <1>1, <1>2, <1>5, PipelineAssumption
     DEF FutsInOrder, RoundsCount, CameraTracked, NoLostWakeup, Busy, InLoop
<1>8. PoolInOrder /\ ResultsTracked /\ ImagesInOrder
  BY <1>1, <1>2, <1>3, <1>4
     DEF PoolInOrder, QueuedOnce, ResultsTracked, ImagesInOrder
<1>9. BgrTracked
  BY <1>1, PipelineAssumption DEF BgrTracked, Instance
<1>10. HandoverTracked
  <2>1. Handed(Empty)
    BY <1>3, Sizes DEF Handed, Dated, Empty
  <2> QED
    BY <1>1, <2>1 DEF HandoverTracked
<1> QED
  BY <1>6, <1>7, <1>8, <1>9, <1>10 DEF PipelineInv

\* The steps main and rtsp_thread take without writing an image.
LEMMA OtherSteps ==
    ASSUME PipelineInv,
           \/ Boot \/ creat_rtsp_thread \/ Dequeue \/ Convert \/ Copy \/ Lock \/ Get \/ Signal
           \/ Requeue \/ interf \/ rtsp_thread \/ SpuriousWakeup \/ UNCHANGED vars
    PROVE  PipelineInv' /\ UNCHANGED ori_img
<1>1. UNCHANGED ori_img
  BY DEF Boot, creat_rtsp_thread, Dequeue, Convert, Copy, Lock, Get, Signal, Requeue, interf,
         InterfStart, InterfReturn, rtsp_thread, RtspLock, RtspTest, RtspPush, SpuriousWakeup,
         vars, instVars
<1>2. CASE UNCHANGED vars
  <2>1. UNCHANGED <<pc, index, camera, lost, round, bgr, instVars, poolVars, rtspVars>>
    BY <1>2 DEF vars, captureVars
  <2>2. UNCHANGED <<ori_img, frame_num, futs, queue, running, done, input, value, mutex,
                    rknn_img, rtsp, stream>>
    BY <2>1 DEF instVars, poolVars, rtspVars
  <2>3. Taken' = Taken
    BY <2>1, <2>2 DEF Taken
  <2>4. TypeOK' /\ BgrTracked'
    BY <2>1, <2>2 DEF PipelineInv, TypeOK, BgrTracked
  <2>5. PoolInOrder' /\ ResultsTracked'
    BY <2>1, <2>3, Steady
  <2>6. /\ FutsInOrder' /\ RoundsCount' /\ CameraTracked' /\ ImagesInOrder'
        /\ HandoverTracked' /\ NoLostWakeup'
    BY <2>1, WorkerSteady
  <2> QED
    BY <1>1, <2>4, <2>5, <2>6 DEF PipelineInv
<1> QED
  BY <1>1, <1>2, BootInv, CreateInv, DequeueInv, ConvertInv, CopyInv, LockInv, GetInv, SignalInv,
     RequeueInv, InterfStartInv, InterfReturnInv, RtspInv, RtspPushInv
     DEF interf, rtsp_thread

\* Every step is one of those, or a submission.
LEMMA Steps ==
    ASSUME PipelineInv, [Next]_vars
    PROVE  \/ Spawn \/ Resubmit
           \/ Boot \/ creat_rtsp_thread \/ Dequeue \/ Convert \/ Copy \/ Lock \/ Get \/ Signal
           \/ Requeue \/ interf \/ rtsp_thread \/ SpuriousWakeup \/ UNCHANGED vars
BY DEF Next, main, OutOfFrames

\* PipelineInv is inductive.
THEOREM PipelineInvariant == Spec => []PipelineInv
<1>1. Init => PipelineInv
  BY PipelineInitial
<1>2. PipelineInv /\ [Next]_vars => PipelineInv'
  BY Steps, OtherSteps, SpawnInv, ResubmitInv
<1> QED
  BY <1>1, <1>2, PTL DEF Spec

\* Every variable keeps its type, and rtsp_mutex excludes.
THEOREM PipelineTypeCorrect == Spec => []TypeOK
<1>1. PipelineInv => TypeOK
  BY DEF PipelineInv
<1> QED
  BY <1>1, PipelineInvariant, PTL

\* No rknn_lite instance is ever in two tasks of the pool, for any number of
\* instances: what interf's use of members without a lock relies on.
THEOREM InstancesExclusive == Spec => []InstanceExclusive
<1>1. PipelineInv => InstanceExclusive
  BY Exclusive
<1> QED
  BY <1>1, PipelineInvariant, PTL

\* futs and rkpool advance together, whatever is skipped.
THEOREM FutsRoundRobin == Spec => []RoundRobin
<1>1. PipelineInv => RoundRobin
  <2> SUFFICES ASSUME PipelineInv, pc \in InLoop PROVE RoundRobin
    BY DEF RoundRobin
  <2>1. Len(futs) = THREAD_COUNT /\ \A n \in 1 .. Len(futs) : futs[n] = TaskOf(frame_num + n - 1)
    BY DEF PipelineInv, FutsInOrder
  <2>2. DOMAIN futs = 1 .. Len(futs)
    BY LenProperties DEF PipelineInv, TypeOK
  <2> QED
    BY <2>1, <2>2 DEF RoundRobin, TaskOf
<1> QED
  BY <1>1, PipelineInvariant, PTL

\* From the 2 * THREAD_COUNT-th submission on, what is streamed is one frame with
\* the boxes found in that frame.
THEOREM FramesIntact == Spec => []StreamedFramesIntact
<1>1. PipelineInv => StreamedFramesIntact
  BY DEF PipelineInv, HandoverTracked, Handed, StreamedFramesIntact
<1> QED
  BY <1>1, PipelineInvariant, PTL

\* The camera gets back every V4L2 buffer that VIDIOC_QBUF does not fail on,
\* whatever else fails.
THEOREM BuffersAreReturned == Spec => []BuffersReturned
<1>1. PipelineInv => BuffersReturned
  BY DEF PipelineInv, CameraTracked, BuffersReturned
<1> QED
  BY <1>1, PipelineInvariant, PTL

\* rtsp_thread never sleeps on a result that nobody will signal.
THEOREM WakeupsNotLost == Spec => []NoLostWakeup
<1>1. PipelineInv => NoLostWakeup
  BY DEF PipelineInv
<1> QED
  BY <1>1, PipelineInvariant, PTL

\* main never writes ori_img of an instance that has a task in the pool.
THEOREM WritesNotInFlight == Spec => NoWriteInFlight
<1>1. PipelineInv /\ [Next]_vars =>
          [\A i \in Instance :
              ori_img'[i] # ori_img[i] => \A k \in Unfinished : k.inst # i]_ori_img
  BY Steps, OtherSteps, SpawnInv, ResubmitInv
<1> QED
  BY <1>1, PipelineInvariant, PTL DEF Spec, NoWriteInFlight

\* Results are streamed in the order of their submission, their frames in the
\* order of capture.
THEOREM StreamedInOrder == Spec => StreamInOrder
<1>1. PipelineInv /\ [Next]_vars =>
          [rtsp = "pushing" /\ rtsp' # "pushing" =>
              /\ stream'.seq > stream.seq
              /\ {stream.img, stream'.img} \subseteq Frame => stream'.img > stream.img]_vars
  <2> SUFFICES ASSUME PipelineInv, Next, rtsp = "pushing", rtsp' # "pushing"
               PROVE  /\ stream'.seq > stream.seq
                      /\ {stream.img, stream'.img} \subseteq Frame => stream'.img > stream.img
    OBVIOUS
  <2>1. pc \in InLoop
    BY DEF PipelineInv, HandoverTracked
  <2>2. stream' = rknn_img
    BY <2>1 DEF Next, main, interf, rtsp_thread, Boot, Spawn, creat_rtsp_thread, Dequeue, Convert,
                Copy, Lock, Get, Signal, Resubmit, Requeue, InterfStart, InterfReturn, RtspLock,
                RtspTest, RtspPush, SpuriousWakeup, OutOfFrames, vars, rtspVars, InLoop
  <2>3. /\ stream.seq < rknn_img.seq
        /\ stream.img \in Frame /\ rknn_img.img \in Frame => stream.img < rknn_img.img
    BY DEF PipelineInv, HandoverTracked
  <2>4. \A f \in Frame : f \in Int
    BY PipelineAssumption DEF Frame
  <2>5. stream.seq \in Int /\ rknn_img.seq \in Int
    <3>1. rknn_img \in Result \cup {Empty} /\ stream \in Result \cup {Empty}
      BY DEF PipelineInv, TypeOK
    <3> QED
      BY <3>1, Sizes DEF Result, Empty
  <2> QED
    BY <2>2, <2>3, <2>4, <2>5
<1> QED
  BY <1>1, PipelineInvariant, PTL DEF Spec, StreamInOrder

=============================================================================
