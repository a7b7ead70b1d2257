-------------------------- MODULE CapturePipeline --------------------------
(***************************************************************************)
(* main.cc: the capture loop, the model instances it hands frames to       *)
(* through the thread pool, and the thread that streams the results.       *)
(*                                                                         *)
(*   camera --> bgr_buf --> rkpool[i]->ori_img --> pool --> futs           *)
(*                                  rtsp_thread <-- rknn_img <-- futs      *)
(*                                                                         *)
(* The pool is TaskExecutor, which ThreadPool implements.  A frame is the  *)
(* number of the loop iteration that read it from a camera buffer, 0 for   *)
(* the one read before the loop.  A cv::Mat either has its own pixels      *)
(* (clone()) or shares them with bgr_buf, where the next conversion        *)
(* overwrites them and an inference draws its boxes.                       *)
(***************************************************************************)
EXTENDS Integers, Sequences, FiniteSets

CONSTANTS THREAD_COUNT,
          FRAMEBUFFER_COUNT,
          Faulty,              \* bound: the buffers VIDIOC_QBUF may fail on
          MaxFrames            \* bound: iterations of the capture loop

ASSUME PipelineAssumption ==
    /\ THREAD_COUNT \in Nat \ {0}
    /\ FRAMEBUFFER_COUNT \in Nat \ {0}
    /\ Faulty \subseteq 0 .. FRAMEBUFFER_COUNT - 1
    /\ MaxFrames \in Nat

VARIABLES
    pc,          \* where main is
    index,       \* buf.index
    camera,      \* V4L2 buffers queued in the driver
    lost,        \* history: those main dequeued and could not queue again
    round,       \* iterations of the capture loop so far
    frame_num,
    bgr,         \* the frame whose pixels are in bgr_buf
    ori_img,     \* rkpool[i]->ori_img, for the instances created so far
    input,       \* the frame instance i has given to its NPU context
    futs,        \* the tasks whose futures main still holds
    value,       \* what a finished task returned
    queue, running, done,      \* the pool
    mutex,       \* rtsp_mutex
    rknn_img,
    rtsp,        \* where rtsp_thread is
    stream       \* the last image given to push_stream

captureVars == <<pc, index, camera, lost, round, bgr>>
instVars    == <<ori_img, frame_num, futs>>
poolVars    == <<queue, running, done, input, value>>
rtspVars    == <<mutex, rknn_img, rtsp, stream>>
vars == <<captureVars, instVars, poolVars, rtspVars>>

-----------------------------------------------------------------------------

Buffers  == 0 .. FRAMEBUFFER_COUNT - 1
Instance == 0 .. THREAD_COUNT - 1
Frame    == 0 .. MaxFrames
Seq_     == 0 .. MaxFrames + THREAD_COUNT    \* numbers of pool.submit calls
Task     == [seq : Seq_, inst : Instance]

\* What an image shows: a frame, or no single one, because it is not all
\* written yet (Junk), because an inference of another frame may have drawn on
\* it (Painted), or because it shares bgr_buf and may change while it is looked
\* at (Shared).
Junk    == -1
Painted == -2
Shared  == -3
Mat     == Frame \cup {Junk, Painted, Shared}

\* Mutant: ori_img_bgr itself.
CloneShallow == Shared
\* ori_img_bgr.clone()
Clone == bgr

\* What a future delivers: the image of its instance with the boxes found in
\* what the NPU was given.
Result == [seq : Seq_, img : Mat, boxes : Mat]
Empty  == [seq |-> -1, img |-> Junk, boxes |-> Junk]

Pool == INSTANCE TaskExecutor WITH maxThreads <- THREAD_COUNT, phase <- "open"

Unfinished == {k \in Task : Pool!InQueue(k) \/ k \in running}

Init ==
    /\ pc = "boot"
    /\ index = 0
    /\ camera = Buffers
    /\ lost = {}
    /\ round = 0
    /\ frame_num = 0
    /\ bgr = Junk
    /\ ori_img = [i \in Instance |-> Shared]
    /\ input = [i \in Instance |-> Junk]
    /\ futs = <<>>
    /\ value = [n \in Seq_ |-> Empty]
    /\ queue = <<>> /\ running = {} /\ done = {}
    /\ mutex = "free"
    /\ rknn_img = Empty
    /\ rtsp = "none"
    /\ stream = Empty

-----------------------------------------------------------------------------
(* main, before the loop *)

\* One frame is captured, converted and its buffer queued again; neither the
\* ioctls nor the conversion are checked. The driver has all its buffers again,
\* or lacks the one that VIDIOC_QBUF failed on.
Boot ==
    /\ pc = "boot"
    /\ bgr' \in {0, Junk}
    /\ lost' \in {{}} \cup {{b} : b \in Faulty}
    /\ camera' = camera \ lost'
    /\ pc' = "spawn"
    /\ UNCHANGED <<index, round, instVars, poolVars, rtspVars>>

\* One iteration of the loop that creates the instances: all of them get the
\* same image, which shares bgr_buf.
Spawn ==
    LET j == Len(futs)
        k == [seq |-> j, inst |-> j]
    IN  /\ pc = "spawn"
        /\ j < THREAD_COUNT
        /\ ori_img' = [ori_img EXCEPT ![j] = Shared]
        /\ Pool!Submit(k)
        /\ futs' = Append(futs, k)
        /\ UNCHANGED <<frame_num, captureVars, input, value, rtspVars>>

creat_rtsp_thread ==
    /\ pc = "spawn"
    /\ Len(futs) = THREAD_COUNT
    /\ rtsp' = "locking"
    /\ pc' = "dequeue"
    /\ UNCHANGED <<index, camera, lost, round, bgr, instVars, poolVars, mutex, rknn_img, stream>>

-----------------------------------------------------------------------------
(* main, the loop *)

\* VIDIOC_DQBUF names the buffer in buf.index. It is not checked: when it fails
\* buf.index keeps the loop's value and the buffer stays with the driver.
Dequeue ==
    /\ pc = "dequeue"
    /\ round < MaxFrames
    /\ \/ \E b \in camera : index' = b /\ camera' = camera \ {b}
       \/ UNCHANGED <<index, camera>>
    /\ round' = round + 1
    /\ pc' = "convert"
    /\ UNCHANGED <<lost, bgr, instVars, poolVars, rtspVars>>

\* Mutant: a frame that cannot be converted advances frame_num too.
ConvertCountsFailure ==
    /\ pc = "convert"
    /\ \/ bgr' = Junk /\ pc' = "copy" /\ UNCHANGED frame_num
       \/ UNCHANGED bgr /\ pc' = "requeue" /\ frame_num' = frame_num + 1
    /\ UNCHANGED <<index, camera, lost, round, ori_img, futs, poolVars, rtspVars>>

\* Mutant: the loop continues without queueing the buffer again.
ConvertDropsBuffer ==
    /\ pc = "convert"
    /\ \/ bgr' = Junk /\ pc' = "copy"
       \/ UNCHANGED bgr /\ pc' = "dequeue"
    /\ UNCHANGED <<index, camera, lost, round, instVars, poolVars, rtspVars>>

\* yuv420_to_bgr888 touches bgr_buf only once the conversion has succeeded, and
\* without rtsp_mutex: the pixels are those of no frame until the copy is over.
\* A frame that fails (an allocation, an import, a check, the RGA) is skipped.
Convert ==
    /\ pc = "convert"
    /\ \/ bgr' = Junk /\ pc' = "copy"
       \/ UNCHANGED bgr /\ pc' = "requeue"
    /\ UNCHANGED <<index, camera, lost, round, instVars, poolVars, rtspVars>>

\* What was drawn meanwhile may be overwritten or not.
Copy ==
    /\ pc = "copy"
    /\ bgr' = IF bgr = Painted THEN Painted ELSE round
    /\ pc' = "lock"
    /\ UNCHANGED <<index, camera, lost, round, instVars, poolVars, rtspVars>>

Lock ==
    /\ pc = "lock"
    /\ mutex = "free"
    /\ mutex' = "main"
    /\ pc' = "get"
    /\ UNCHANGED <<index, camera, lost, round, bgr, instVars, poolVars, rknn_img, rtsp, stream>>

\* futs.front().get() blocks with rtsp_mutex held until the task is done, and
\* moves the image out of the future. An
\* empty image would leave the inner loop with the mutex held.
Get ==
    LET result == value[Head(futs).seq]
    IN  /\ pc = "get"
        /\ Head(futs) \in done
        /\ rknn_img' = result
        /\ value' = [value EXCEPT ![Head(futs).seq] = Empty]
        /\ IF result = Empty
             THEN mutex' = mutex /\ pc' = "dequeue" /\ index' = 0
             ELSE mutex' = "free" /\ pc' = "signal" /\ index' = index
        /\ UNCHANGED <<camera, lost, round, bgr, instVars, queue, running, done, input,
                       rtsp, stream>>

\* Mutant: no signal.
SignalNobody ==
    /\ pc = "signal"
    /\ pc' = "resubmit"
    /\ UNCHANGED <<index, camera, lost, round, bgr, instVars, poolVars, rtspVars>>

\* pthread_cond_signal, after the unlock.
Signal ==
    /\ pc = "signal"
    /\ rtsp' = IF rtsp = "waiting" THEN "woken" ELSE rtsp
    /\ pc' = "resubmit"
    /\ UNCHANGED <<index, camera, lost, round, bgr, instVars, poolVars, mutex, rknn_img, stream>>

\* Mutant: the instance after the one whose result was taken gets the frame.
ResubmitNext ==
    LET thread_index == (frame_num + 1) % THREAD_COUNT
        k == [seq |-> frame_num + THREAD_COUNT, inst |-> thread_index]
    IN  /\ pc = "resubmit"
        /\ ori_img' = [ori_img EXCEPT ![thread_index] = Clone]
        /\ Pool!Submit(k)
        /\ futs' = Append(Tail(futs), k)
        /\ frame_num' = frame_num + 1
        /\ pc' = "requeue"
        /\ UNCHANGED <<index, camera, lost, round, bgr, input, value, rtspVars>>

\* The frame goes to the instance whose result was just taken.
Resubmit ==
    LET thread_index == frame_num % THREAD_COUNT
        k == [seq |-> frame_num + THREAD_COUNT, inst |-> thread_index]
    IN  /\ pc = "resubmit"
        /\ ori_img' = [ori_img EXCEPT ![thread_index] = Clone]
        /\ Pool!Submit(k)
        /\ futs' = Append(Tail(futs), k)
        /\ frame_num' = frame_num + 1
        /\ pc' = "requeue"
        /\ UNCHANGED <<index, camera, lost, round, bgr, input, value, rtspVars>>

\* VIDIOC_QBUF and the increment of the inner for loop. The call is not checked:
\* when it fails the buffer stays with main, which forgets it.
Requeue ==
    /\ pc = "requeue"
    /\ \/ camera' = camera \cup {index} /\ lost' = lost \ {index}
       \/ index \in Faulty /\ camera' = camera /\ lost' = lost \cup ({index} \ camera)
    /\ index' = (index + 1) % FRAMEBUFFER_COUNT
    /\ pc' = "dequeue"
    /\ UNCHANGED <<round, bgr, instVars, poolVars, rtspVars>>

main ==
    \/ Boot \/ Spawn \/ creat_rtsp_thread
    \/ Dequeue \/ Convert \/ Copy \/ Lock \/ Get \/ Signal \/ Resubmit \/ Requeue

-----------------------------------------------------------------------------
(* rknn_lite::interf in a worker of the pool *)

\* The instance gives the pixels it finds in ori_img to its NPU context.
InterfStart ==
    /\ Pool!Start
    /\ LET i == Head(queue).inst
       IN  input' = [input EXCEPT ![i] = ori_img[i]]
    /\ UNCHANGED <<value, captureVars, instVars, rtspVars>>

\* It draws the boxes, if any, into ori_img, which may be bgr_buf, frees its
\* input and returns that Mat.
InterfReturn(k) ==
    /\ Pool!Finish(k)
    /\ bgr' = IF ori_img[k.inst] = Shared THEN Painted ELSE bgr
    /\ value' = [value EXCEPT ![k.seq] =
                    [seq |-> k.seq, img |-> ori_img[k.inst], boxes |-> input[k.inst]]]
    /\ input' = [input EXCEPT ![k.inst] = Junk]
    /\ UNCHANGED <<pc, index, camera, lost, round, instVars, rtspVars>>

interf == InterfStart \/ \E k \in running : InterfReturn(k)

-----------------------------------------------------------------------------
(* rtsp_thread *)

RtspLock ==
    /\ rtsp \in {"locking", "woken"}
    /\ mutex = "free"
    /\ mutex' = "rtsp"
    /\ rtsp' = "testing"
    /\ UNCHANGED <<captureVars, instVars, poolVars, rknn_img, stream>>

RtspTest ==
    /\ rtsp = "testing"
    /\ IF rknn_img = Empty
         THEN mutex' = "free" /\ rtsp' = "waiting"
         ELSE mutex' = mutex /\ rtsp' = "pushing"
    /\ UNCHANGED <<captureVars, instVars, poolVars, rknn_img, stream>>

\* Mutant: rknn_img is not released.
RtspPushKeeps ==
    /\ rtsp = "pushing"
    /\ stream' = rknn_img
    /\ mutex' = "free"
    /\ rtsp' = "locking"
    /\ UNCHANGED <<captureVars, instVars, poolVars, rknn_img>>

\* Mutant: rtsp_mutex is not released.
RtspPushHolds ==
    /\ rtsp = "pushing"
    /\ stream' = rknn_img
    /\ rknn_img' = Empty
    /\ rtsp' = "locking"
    /\ UNCHANGED <<captureVars, instVars, poolVars, mutex>>

\* push_stream reads rknn_img.data under rtsp_mutex; then release and unlock.
RtspPush ==
    /\ rtsp = "pushing"
    /\ stream' = rknn_img
    /\ rknn_img' = Empty
    /\ mutex' = "free"
    /\ rtsp' = "locking"
    /\ UNCHANGED <<captureVars, instVars, poolVars>>

SpuriousWakeup ==
    /\ rtsp = "waiting"
    /\ rtsp' = "woken"
    /\ UNCHANGED <<captureVars, instVars, poolVars, mutex, rknn_img, stream>>

rtsp_thread == RtspLock \/ RtspTest \/ RtspPush

-----------------------------------------------------------------------------

\* The bound is reached: no more frames come.
OutOfFrames == pc = "dequeue" /\ round = MaxFrames /\ UNCHANGED vars

Next == main \/ interf \/ rtsp_thread \/ SpuriousWakeup \/ OutOfFrames

Spec == Init /\ [][Next]_vars

(* Fairness: a thread that can run does, an inference ends, and a thread     *)
(* waiting for rtsp_mutex gets it if it is released again and again. The     *)
(* camera need not deliver: main may stay in VIDIOC_DQBUF for ever.          *)
FairSpec ==
    /\ Spec
    /\ WF_vars(pc # "dequeue" /\ main)
    /\ SF_vars(Lock)
    /\ WF_vars(InterfStart)
    /\ \A i \in Instance : WF_vars(\E k \in running : k.inst = i /\ InterfReturn(k))
    /\ WF_vars(rtsp_thread)
    /\ SF_vars(RtspLock)

-----------------------------------------------------------------------------
(* Properties *)

InLoop == {"dequeue", "convert", "copy", "lock", "get", "signal", "resubmit", "requeue"}

\* Every variable keeps its type; one of main and rtsp_thread at most is where
\* the code holds rtsp_mutex, and it is the one mutex names.
TypeOK ==
    /\ pc \in InLoop \cup {"boot", "spawn"}
    /\ index \in Buffers
    /\ camera \subseteq Buffers /\ lost \subseteq Buffers
    /\ round \in Frame
    /\ frame_num \in Frame
    /\ bgr \in Mat \ {Shared}
    /\ ori_img \in [Instance -> Mat]
    /\ input \in [Instance -> Mat]
    /\ futs \in Seq(Task) /\ queue \in Seq(Task)
    /\ running \subseteq Task /\ done \subseteq Task
    /\ value \in [Seq_ -> Result \cup {Empty}]
    /\ rknn_img \in Result \cup {Empty} /\ stream \in Result \cup {Empty}
    /\ rtsp \in {"none", "locking", "testing", "waiting", "woken", "pushing"}
    /\ mutex \in {"free", "main", "rtsp"}
    /\ mutex = "main" <=> pc = "get"
    /\ mutex = "rtsp" <=> rtsp \in {"testing", "pushing"}

\* interf is not reentrant (m_info, letter_box and ori_img are members): two
\* tasks of one rknn_lite are never in the pool together.
InstanceExclusive ==
    \A j, k \in Unfinished : j.inst = k.inst => j = k

\* futs and rkpool advance together: inside the loop there is one future per
\* instance, in the order in which frame_num % THREAD_COUNT visits them, so the
\* instance that is given the next frame is the one whose result was taken,
\* however many frames were skipped.  futs.front() is never called on an empty
\* queue.
RoundRobin ==
    pc \in InLoop =>
        /\ Len(futs) = THREAD_COUNT
        /\ \A n \in DOMAIN futs :
              futs[n] = [seq |-> frame_num + n - 1,
                         inst |-> (frame_num + n - 1) % THREAD_COUNT]

\* The first THREAD_COUNT results share bgr_buf: they are overwritten while they
\* are streamed, and their boxes may be drawn into the frames of the next
\* THREAD_COUNT.  From then on what is streamed is the frame of one iteration
\* with the boxes the NPU found in that very frame: neither a conversion into
\* bgr_buf nor a later submission touches it.
StreamedFramesIntact ==
    stream.seq >= 2 * THREAD_COUNT =>
        stream.img \in Frame /\ stream.boxes = stream.img

\* VIDIOC_DQBUF and the conversion may fail in any iteration, and the loop still
\* goes on with every V4L2 buffer back in the driver.  What starves the camera
\* is VIDIOC_QBUF alone, whose result is not looked at: the buffers the driver
\* lacks are those it failed on.
BuffersReturned == pc = "dequeue" => camera = Buffers \ lost

\* rtsp_thread does not sleep on a result: it is streamed, or main is about to
\* signal it.  The signal is sent after the unlock.
NoLostWakeup == rknn_img # Empty /\ rtsp = "waiting" => pc = "signal"

\* main writes the image of an instance only when no task of the instance is
\* queued or running.
NoWriteInFlight ==
    [][\A i \in Instance :
          ori_img'[i] # ori_img[i] => \A k \in Unfinished : k.inst # i]_ori_img

\* Results are streamed in the order of submission, each at most once, though
\* the instances finish in any order and main may replace a result that was
\* not streamed yet; the frames they show are in the order of the iterations.
StreamInOrder ==
    [][rtsp = "pushing" /\ rtsp' # "pushing" =>
          /\ stream'.seq > stream.seq
          /\ {stream.img, stream'.img} \subseteq Frame => stream'.img > stream.img]_vars

\* main blocks in get() with rtsp_mutex held, and on rtsp_mutex while a result
\* is encoded; it comes out of both and queues the buffer again.
CaptureProgress == pc = "convert" ~> pc = "requeue"

\* A result given to rtsp_thread does not stay there: it is streamed, or was
\* replaced by a later one that is.
HandoverEnds == rknn_img # Empty ~> rknn_img = Empty

=============================================================================
