# A TLA+ model of rknn_yolo_rtsp

The program in `src/rknn_yolov8_demo` runs on an RK3588: it captures frames from
a camera, finds fire in them with YOLOv8 on the NPU, draws the boxes, encodes
the result as H.264 and offers it to RTSP clients. This directory holds TLA+
modules of its concurrent core and of its detection, conversion and encoding
algorithms, TLC runs that check them on small instances, and TLAPS proofs of
nearly all of their safety properties for instances of every size.

Paths below are relative to `src/rknn_yolov8_demo`.

## Inventory

### Parts, state, operations

| Part | Code | State | Operations | Hard because |
|---|---|---|---|---|
| Thread pool | `yolov8_demo/include/ThreadPool.hpp` | `quit_`, two counters, task queue, map of threads, queue of finished ids | `submit`, `worker`, `joinFinishedThreads`, destructor | timed waits racing notifications, joins under a mutex, an unlocked iteration |
| Capture loop | `yolov8_demo/src/main.cc` | V4L2 buffers, `bgr_buf`, `frame_num`, `futs`, `rkpool` | dequeue, convert, take a result, hand over, resubmit, requeue | images that share memory, skipped frames, blocking with a mutex held |
| Streaming thread | `main.cc` `rtsp_thread` | `rknn_img`, `rtsp_mutex`, `rtsp_cond` | wait, encode, release | signal after unlock, spurious wakeups |
| Model instances | `yolov8_demo/include/rknnPool.hpp` | `ori_img`, `letter_box`, tensors | `interf` | not reentrant |
| Post-processing | `yolov8_demo/src/yolo.cc` | result group, labels | threshold, sort, NMS | 8-bit quantisation, limits |
| Frame conversion | `yolo.cc` `yuv420_to_bgr888`, `mpp_main.cpp` `ori_data_to_yuv420p` | dma buffers, RGA handles | convert | many failure exits, two threads on one heap |
| Letter box | `yolo_utils/resize_function.cc` | geometry | scale, pad, reverse | rounding |
| Encoder | `z_rkmpp_enc/mpp_enc.cpp` | MPP context `p`, `countIdx_` | init, encode, deinit | failure of one step of many |
| Encoder front end | `z_rkmpp_enc/mpp_main.cpp` | YUV buffer | `push_stream` | 16-bit length, ignored results |
| RTSP server | `z_rkmpp_enc/mpp_rtsp_server.cpp` | `g_rtspClients`, `udpfd`, descriptors | accept, answer, end a session | no locks, descriptors as plain numbers |
| RTP sender | same file | `rtp_buf_deque`, `h264_frame_cnt`, sequence numbers, timestamps | queue, fragment, send | no locks, sessions that change under a frame |
| MPP OS layer | `z_rkmpp_enc/osal` | allocation log, timers | malloc wrapper, clocks, timers | copied from Rockchip; the CMake files compile `mpp_mem`, `mpp_log`, `mpp_lock`, `mpp_time`, `mpp_common` only |

Vendored code (`libs/`, `capi_tools/`, the non-Linux parts of `osal`) and the
ffmpeg path (`USE_FFMPEG` is 0) are left aside. The build has `THREAD_COUNT` 1
and `MAX_RTSP_CLIENT` 1 and is a debug build, so `assert` is active.

### How they interact

    camera -> main -> ThreadPool -> rknn_lite::interf
                |  futs (futures, in order of submission)
                v
             rknn_img (rtsp_mutex, rtsp_cond)
                v
             rtsp_thread -> push_stream -> push_h264_stream
                                               | rtp_buf_deque (no lock)
                                               v
     clients <- TCP -> message threads    rtp_send_thread -> UDP -> clients
                  \___ g_rtspClients, udpfd (no lock) ___/

`main` creates the pool's tasks and takes their results in order.
`rtsp_thread` encodes a result while it holds `rtsp_mutex`. The two threads of the
media side and the threads of the RTSP side share `g_rtspClients` without a lock.

### What makes each part correct

- Pool: every task runs exactly once, in order of submission, at most
  `maxThreads_` at a time; no wakeup is lost; the destructor returns and its
  iteration over `threads_` is safe; thread objects do not pile up.
- Capture loop: an instance is never used by two tasks nor written while it
  runs; every streamed frame is one captured frame with its own boxes; frames
  are streamed in order; camera buffers go back whatever else fails; nobody waits
  for ever.
- RTSP server: a session ends when its client leaves and not because another
  one does; requests are answered; sockets are closed.
- RTP sender: what is freed is what was sent; a frame can be rebuilt from its
  packets; frames go out in order; timestamps advance by one interval.
- Post-processing: the quantised test agrees with the real scores; a result has
  the score, box and class of one candidate; one result per object; no object is
  lost; the rectangle is drawn where the object is.
- Conversion and encoder: buffers go back to the heap whatever fails; what is
  streamed is the image that was given; a half-initialised encoder is not used.

The hazards behind these properties are listed, each at its line, in
`PROJECT.json` under "hazards".

## Modules

### `TaskExecutor`: what the pool promises

A queue, the set of running tasks, the set of finished ones and a phase. It has
no threads, no locks and no timeouts. `ThreadPool` is shown to implement it, and
`CapturePipeline` is composed with it instead of with the pool.

### `ThreadPool`: dpool::ThreadPool

The variables with a trailing underscore are the members of the class.
`pc` says where each worker is. Everything a worker does between locking and
unlocking `mutex_` is one action, with one exception: `joinFinishedThreads`
blocks in `join` with the mutex held, so a worker there is in `pc` "joining" and
everybody who needs the mutex waits (`MutexFree`).

| Action | Code |
|---|---|
| `submit` | the whole of `submit`, with `notify_one` or the creation of a thread |
| `EnterWait`, `WakeUp`, `TimeOut` | the lock at the top of the loop up to the end of the critical section, for a worker that finds work at once, was woken, or reached its deadline; all three end in `AfterWait` |
| `LeaveWaitSet` | the deadline, or a spurious wakeup: the worker still has to get the mutex |
| `JoinFinished`, `AnnounceExit` | `joinFinishedThreads` and pushing the own id |
| `RunTask`, `Exit` | `task()`, and the thread's termination after `return` |
| `SetQuit`, `NotifyAll`, `JoinElement`, `DtorReturn` | the destructor, whose joins run without the mutex and in any order |

A thread id may be reused after a join, as `std::thread::id` may.

### `CapturePipeline`: main.cc

One action per step of `main` between two points where another thread may
interfere, the two halves of `interf` (the NPU gets its input; the boxes are
drawn and the image returned), and `rtsp_thread`. Pixels are represented by the
number of the frame they show. A `cv::Mat` made by
`clone()` keeps the frame that `bgr_buf` showed at that moment; one that uses
`bgr_buf` itself is `Shared`, since it may change while it is looked at.
`bgr_buf` is `Junk` while `yuv420_to_bgr888` copies into it and `Painted` after
an inference whose image shares it has drawn its boxes there. `VIDIOC_DQBUF` may
fail, and so may each conversion and each `VIDIOC_QBUF`; the code looks at the
result of the conversion only. A buffer that could not be queued is `lost`: the
camera does without it, and without any buffer `main` blocks in `VIDIOC_DQBUF`.
`Faulty` names the buffers the driver may refuse. A frame is named by the iteration that read it: when `VIDIOC_DQBUF` failed that is
a buffer the driver still has, and what its pixels show is outside the model.

The model has no time: the `sleep` calls between the first submissions and before
the loop, which in practice let the first inferences end before the loop
begins, are not relied upon. This is why `StreamedFramesIntact` begins at
result `2 * THREAD_COUNT`: without the sleeps the first `THREAD_COUNT` results share
`bgr_buf`, and the next `THREAD_COUNT` frames may have been drawn on by them.

### `RtspServer`: the RTSP half of mpp_rtsp_server.cpp

`rtsp_server_listen_thread` is `Accept`, `Claim` (search and `memset`) and
`Publish` (fill the slot, create the thread); its socket was bound (otherwise it
returns at once and no client can connect). `accept` may fail at any moment,
which ends the thread for good (`AcceptError`), and `pthread_create`, whose
result is ignored, may fail too: the slot is then in use and has no thread (thread
location "failed"). `repose_rtsp_clinet_msg_thread` is cut wherever it reads or writes the
slot or the descriptor table, so that the listening thread and other message
threads can come in between. Descriptors are numbers with a table
(`fdt`) from numbers to open files; `accept` and `socket` may return any free
number because the other threads of the process open and close descriptors for
every frame. A thread blocked in `recv` keeps the open file it called with,
even if the number is closed and reused. A `send` that raises SIGPIPE, which the
program does not ignore, ends the process and is not modelled. Requests are reduced to their kind,
because `ParseRequestString`'s result is ignored. `Patient` restricts clients to
connecting when no other session is alive; the guarantees that need it are
checked with it, and the ones that do not, without.

### `RtpSender`: the RTP half

`push_stream` with `push_h264_stream` as producer, `rtp_send_thread` with
`send_h264_for_rtsp_client` as consumer. `h264_frame_cnt++` and `--` are a load
and a store each. The deque has no lock. A `push_back` has a beginning (`PushBegin`)
and an end: `Push` when it runs by itself, `Tear` when the sender is in `empty`,
`front` or `pop_front` at the time. What happens then is undefined; the model
goes to `Torn` and stops, and `BuffersOwned` and `QueueDrains` claim nothing of it. So
they are not claims that the unlocked deque works, but about everything around it:
frames that are pushed during the long time between `front` and `pop_front`, and
sessions that change meanwhile. The RTSP side appears as `Connect`, `Play` and
`End` of a slot, at any moment and whatever the slot's status is, since a thread
whose slot was given away goes on using it; their resets of `seqnum` and `tsvid` may be lost when the sender is
incrementing them. The frame length is cut modulo `LenMod`, which stands
for 2^16; `FrameComplete` speaks of what is left after the cut.

### `LetterBox` and `Detection`: rknn_lite::interf

`LetterBox` holds the pure geometry: `compute_letter_box` and its inverse.
`Detection` follows the choice of the letter box, `post_process` and the drawing loop step by step:

| Action | Code |
|---|---|
| `Resize` | the beginning of `interf`: a letter box is computed if the image does not have the size of the input; otherwise the instance's old one stays |
| `ScanCell`, `NextBranch`, `ScanDone` | `process_v2_i8` over the cells of the three branches |
| `SortCall`, `Partition`, `PlaceKey`, `SortDone` | `quick_sort_indice_inverse`; the recursion is a stack of ranges, one iteration of the outer `while` is one step |
| `nms`, `NextClass` | one iteration of the outer loop of `nms`, for each class |
| `NmsDone`, `FillGroup`, `Emit` | the loop that fills the result group: its start, one iteration, its end |
| `Draw`, `Return` | `w_reverse`, `h_reverse` and the rectangle of each result |

The code computes in floats, the model in integers: a real score is a multiple of
the scale, `NMS_THRESHOLD` is in percent and compared by cross-multiplication, and
the scale of a letter box is the rational `num / den`. What a float loses beyond
that is not modelled; the conversions to integers, which truncate, are. The NPU's
tensors are arbitrary scores at and around the threshold. Scores are not
negative. The sum tensor has a zero point and a scale of its own (`sum_zp`,
`sum_scale`), is clipped to eight bits and off by at most one quantum (`SumError`);
the fast test compares it with `CONF_THRESHOLD` quantised by that scale. This is
why `CellsJudged` promises only cells that are above the threshold by two quanta
of the sum as well as by one of the scores: with a coarse sum the fast test may drop
a cell in between. A model without a sum tensor has no fast test and is not
modelled. The size of the camera's image is fixed, as in the program. `compute_dfl` is abstracted to a choice of boxes.
`ZeroPointAssumption` names the zero points for which the initial `max_score` is
harmless: -128, which the models in use have, or one that is not negative. For
others a cell without a class can be reported. `found` and `n` are
history: the scores before sorting, and the candidate a result comes from.

### `FrameEncoder`: the conversions and the encoder

`main` and `rtsp_thread` convert concurrently with buffers of one dma heap. A
conversion is cut at every call that can fail, and each failure leaves what the
code leaves: `AllocFails` (with `mmap`, which keeps the buffer open), `Import`
(which keeps a handle), `Check` (which keeps everything), `Convert`. A
buffer returns to the heap when neither a descriptor nor an RGA handle refers to it;
`Free` is the only external definition. The process's end on a null pointer during
`MppEncoder::init` is `crashed`. `rtsp_thread`'s part ends in `Encode`: the header
every `GOP` (60) calls, the picture, and what `push_h264_stream` gets. `mpp` holds
the pictures that were put into MPP and whose packet was not fetched, because
`encode_get_packet` failed: the next call gets the first of them. All packets are
written to one `pkt_buf`, so it may show any of the pictures put since. An image is the number
of the call it was given to, so an image that is not the current one shows.
`LeaksExplained` counts in buffers; the descriptor of the heap itself, which
`dma_buf_alloc` also leaves open when its `ioctl` or `mmap` fails, is not counted.

### Mutants

Operators marked "Mutant" are plausible bugs of the definition that follows
them. They are used by no specification; each shows that a property can fail.

## Runs

| Run | Instance | Shows |
|---|---|---|
| `pool` | 4 tasks, 4 thread ids, at most 2 workers, fair | types, exact counters, safe joins, bounded thread objects, no stranded task, the destructor owns `threads_`, the pool implements `TaskExecutor`; every task runs and the destructor returns |
| `pipeline` | 2 instances, 2 camera buffers of which the driver may refuse one, 5 frames, fair | instances are exclusive and visited in turn, streamed frames are intact and in order, buffers go back but for those refused, no lost wakeup; `main` gets out of every wait, and results do not stay in `rknn_img` |
| `rtsp_concurrent` | 2 impatient clients, 1 slot, descriptors 0 to 2, fair | types; a used slot has a thread that will end its session, unless none could be created; a connection is accepted even if no session ever ends, unless the listening thread has returned |
| `rtsp_patient` | 3 patient clients, 1 slot, 4 descriptors, fair | no accepted socket is left open when all sessions are over, but those that got no thread; the end of a connection is noticed |
| `rtp_media` | 1 slot, 2 frames, 3 sessions, fragments of 3 bytes, fair | buffers are owned, frames complete and in order, the queue drains, all up to an overlap on the deque, which the run reaches |
| `detect` | 3 branches with 4 cells, 2 classes, 4 scores, 4 boxes, a group of 2, 3 image sizes | cells are judged as by their real scores; results are genuine, apart, complete and drawn in place |
| `encode` | 4 dma buffers, 3 conversions per thread, header every 2nd call, symmetry | leaks are exactly those of three failures, a streamed picture is old only after `IM_STATUS_FAILED` or when MPP had kept a packet, the encoder is set up completely or never streams |
| `rtsp_replaced` | 2 impatient clients, 1 slot, 4 descriptors | violated: a replaced client's thread ends the new client's session |
| `rtsp_answers` | 2 patient clients | violated: a TEARDOWN before PLAY closes descriptor 0, and a client accepted on 0 is never answered |
| `rtp_count` | 1 slot, 2 frames | violated: `h264_frame_cnt` loses updates |
| `rtp_timestamp` | 1 slot, 2 frames | violated: timestamps are repeated or skipped when lengths mix |
| `encode_stale` | 4 dma buffers, 2 conversions per thread | violated: `IM_STATUS_FAILED` is 0 and passes for a success, so an old image is streamed |

Why the bounds are enough:

- Pool: `maxThreads_ + 1` thread ids are never exceeded (proved) and the run has
  one more so that they could be; with 4 tasks a worker can be created, leave,
  be replaced and joined while the other one works. Safety of the pool is proved
  for all sizes.
- Pipeline: `2 * THREAD_COUNT + 1` frames are the fewest after which a result is
  streamed that `StreamedFramesIntact` speaks of; each instance processes the
  image that shares `bgr_buf`, images of its own, and is refilled; a conversion may
  fail at each position, and with one buffer refused the loop runs on the other
  one. `THREAD_COUNT` 2 is more than the build uses and is the
  smallest value at which instances can finish out of order.
- RTSP: two clients are needed for a replacement. A connection ends and its
  successors arrive twice with three. Four descriptors hold standard input, two
  sockets and a UDP socket. With the three of `rtsp_concurrent` an impatient client
  can also meet a full table.
- RTP: the sizes are a failed encoding, a short frame, a frame with a short last fragment, one
  whose last fragment is empty, and one that the 16-bit cut turns into a
  single packet. The build has one slot. With more, each frame is queued once per
  playing client and sent to all of them, so `FramesInOrder` lets a slot be sent
  the same frame again, but never an older one; the run has one slot, and the
  proof is for any number.

- Detection: four candidates are enough for both halves of a partition to hold
  more than one element, for equal scores, and for a chain of boxes of which the
  middle one overlaps both ends while the ends do not overlap; the group of two
  overflows. The thresholds lie between two quanta, and on one; the zero points
  are -128 and 0 for scores, -128 and 5 for sums, whose scales are finer and coarser
  than those of the scores; margins are even, odd at the sides, and absent, and a box
  reaches into one, and with half a pixel out of the input.
- Encoder: four buffers let both threads convert at once; two failures can use
  the heap up, after which the other thread's allocations fail. Three calls show
  an image that is stale by one and by two, a packet that waits in MPP for two calls,
  and two headers' worth of calls.

`CHECK_DEADLOCK` is off in the RTSP, RTP and encoder runs because their clients
may all have left, the bounded number of frames may be used up, or the process
has crashed; the pool and the
pipeline have an explicit stuttering step for their end states and are checked
for deadlock.

### Fairness

- Pool: weak fairness of each worker, of `NotifyAll`, of each join and of the
  destructor's return. Tasks terminate and `mutex_` is held for finite times.
  Nothing is assumed of clients, timeouts or spurious wakeups.
- Pipeline: weak fairness of `main` except in `VIDIOC_DQBUF` (the camera need not
  deliver), of the pool's start and of the end
  of each inference, and of `rtsp_thread`; strong fairness of the two places
  that lock `rtsp_mutex`, since each thread releases and re-acquires it in a
  loop and the kernel's futex queue wakes the other in the end. Without the
  latter either thread could starve the other. The spurious wakeup has none.
- RTSP: weak fairness of the server's threads: `accept` returns when there is a
  connection, with an error only if no descriptor is left for it (other errors may
  happen, but are not relied upon); a `recv` on a UDP socket (a
  recycled number) may block for ever. Nothing is assumed of clients.
- RTP: weak fairness of `rtp_send_thread`, which polls every 5 ms, as long as the
  deque is not torn.

## Proofs

TLAPS checks these for every value of the constants that satisfies the
assumption named in the module: `PoolAssumption`, `ServerAssumption`,
`EncoderAssumption`, `PipelineAssumption`, `SenderAssumption`, and for `Detection`
`DetectionAssumption` and `ZeroPointAssumption`. They say that sizes and bounds
are positive numbers, and of `Detection` also that scales are positive, that zero
points fit in eight bits and that boxes have no negative size. Each invariant was
checked with TLC on the instance of the run before it was proved.

- `ThreadPoolProofs`: `PoolInvariant` proves the inductive invariant
  `PoolInv`, and `TypeCorrect`, `CountersCorrect`, `JoinSafety`, `ThreadsBounded`
  and `NoTaskStranded` follow from it. The five properties hang together:
  `submit` relies on `idleThreads_`, which is exact only if every worker is
  where `threads_` says, and `threads_` is bounded only because before `quit_` a
  worker that left is in `finishedThreadIDs_` (`LeaversAnnounced`). The lemmas
  `MoveAt` and `MoveCount` say what a worker's move does to the sets the
  counters count. `NoTaskStranded` needs `CountersExact`: when
  `idleThreads_ > 0` and nobody is blocked, a worker that was notified or
  timed out is on its way to the queue.
- `ThreadPoolRefinement`: `PoolImplementsExecutor` proves
  `Spec => Executor!ExecSpec` under the mapping of queue, running tasks and phase
  in `ThreadPool`. It needs, beyond `PoolInv`, that no task is in two places
  (`TasksDistinct`) and what the destructor knows when it has joined a thread
  (`DestructorKnows`). `DestructorSafety` proves the action property
  that nobody changes `threads_` once `quit_` is set.
- `RtspServerProofs`: `ServerInvariant`, `ServerTypes` and
  `SessionsAreServed`. The invariant adds that a client in the backlog or being
  accepted has no message thread yet (`BacklogFresh`, `GuestFresh`), which is
  why publishing a slot cannot take the thread of another slot away. The steps
  of message threads are treated together: each changes only its own thread
  (`OwnStep`). For patient clients (`Patient`), `PatientInvariant` proves
  `PatientInv`, and `SocketsAreClosed` follows: there is
  one connection at a time, in the backlog, with the listening thread or with its own
  message thread (`OneAtATime`), and the only accepted socket that is open has the
  number in `newfd` or in that thread's slot (`SocketTracked`). It fails for
  overlapping clients, where `close(pClient->socket)` may hit another socket.
- `CapturePipelineProofs`: `PipelineInvariant` proves `PipelineInv`; types,
  `InstancesExclusive`, `FutsRoundRobin`, `FramesIntact`, `BuffersAreReturned`,
  `WakeupsNotLost` and the action properties `WritesNotInFlight` and
  `StreamedInOrder` follow. The argument is a correspondence that no variable of
  the program holds: the s-th submission is a task of instance
  `s % THREAD_COUNT` (`TaskOf`), `futs` has the futures of `THREAD_COUNT`
  submissions in a row, and so an instance is refilled only after the result of
  its last submission was taken (`PoolInOrder`, `ResultsTracked`). `FramesIntact`
  also needs to know until when an image may share `bgr_buf` (`BgrTracked`) and
  `StreamedInOrder` that later submissions have later frames (`ImagesInOrder`,
  `HandoverTracked`).
- `RtpSenderProofs`: `SenderInvariant` proves `SenderInv`; types,
  `BuffersAreOwned` (until `Torn`), `FramesComplete` and the action property
  `FramesSentInOrder` follow. The deque is ordered by frame and slot and the
  producer is past everything in it (`DequeInOrder`); what was sent to a slot is no
  newer than the deque (`WireBehind`, with one slot `SentOnce`); and it is the whole
  frame, or the fragments before `t` while the sender is in the middle of it
  (`WireWhole`, `PartSent`). `FramesComplete` holds for every length of frame and
  of packet.
- `DetectionProofs`: `DetectionInvariant` proves `DetectionInv`; types,
  `ResultsAreGenuine`, `ResultsAreApart`, `NothingIsLost` and
  `ResultsDrawnInPlace` follow, and `CellsAreJudged` with it, for any number of candidates, classes, results and any
  boxes. For the sort, the arrays with the key put back (`Score_`, `Index_`) are a
  permutation of the candidates, and two elements are in order unless one range
  still to be sorted has both (`Together`); an iteration of `quick_sort_indice_inverse`
  rotates three positions of its range, and placing the key splits the range.
  For `nms`, what is removed overlaps something that stays, in a row that is
  done (`RemovedCovered`), and the rows that are done overlap nothing that stays
  (`KeptApart`). For the group, positions before `i` are in it unless it is full
  (`GroupComplete`). Lemmas state what the operators compute: minima and maxima of
  sets of integers, truncating division, the quantised threshold (`ThresholdSound`:
  a quantised score above the quantised threshold is a real one above
  `CONF_THRESHOLD`; `ThresholdReached`: one a quantum above it passes), the class that
  wins (`BestAbove`, `BestOf`), the symmetry of `Overlaps`, and that the inverse
  letter box is monotonic and exact (`ReverseMonotonic`, `ReverseInPlace`). The fast test of `process_v2_i8` is right because the sum is at
  least its greatest term, less the quantum it is rounded down by
  (`SumAtLeast`), and because rounding the threshold and the sum by the sum
  tensor's scale loses at most two quanta (`SumReaches`, `SumReachesThreshold`). The sum is a recursive function over the classes; that it
  exists and what it is at least are shown by taking the least number of classes for
  which they fail (`NatMin`), which needs no induction scheme.
- `FrameEncoderProofs`: `EncoderInvariant` proves `EncoderInv`; types,
  `LeaksAreExplained`, `PushesAreFresh` and `InitIsAllOrNothing` follow. It says
  which buffers a conversion holds and has imported at each place of its code
  (`BuffersHeld`), without which leaks cannot be counted; that a picture is never
  later than its call (`CopyTracked`), nor one that MPP keeps (`MppTracked`); and what
  `init` has left in `p` (`InitTracked`).

Only model-checked: all liveness (TLAPS has no support for fairness and ENABLED
here). Every invariant and action property a passing run checks is also a theorem.

## Plan

Done: thread pool, its abstraction and proofs; capture pipeline; RTSP server
with its session proof; RTP sender; post-processing and letter box; conversions
and encoder; the proofs of the last five, and of what becomes of the sockets of
patient clients. Nothing of the plan is left to prove.

## Not modelled

Nearly all of the repository's lines are vendored: CImg, stb, libpng, ffmpeg and
drm headers, librga and its samples, OpenCV, the RKNN API, Rockchip's OSAL for
MPP. The program itself is about 3000 lines; of these the modules leave out

- the bytes of RTSP messages and RTP headers, and the texts of answers;
- the camera set-up and the loading of the model: linear, before anything runs
  concurrently, ending the process on failure;
- the loading of the labels, by the first `post_process` on a worker of the pool:
  when it fails `post_process` returns -1, which `interf` ignores, and what is drawn
  comes from an uninitialised `detect_result_group`; with several workers the
  unlocked `init` flag lets two of them load at once (the build has one);
- pixel loops (`stb_letter_box_resize`, drawing) and what the NPU computes;
- the configuration of the encoder, except that it may fail; partition packets, OSD and
  ROI, which the program does not turn on;
- a deque after a `push_back` overlapped a call on it (undefined);
- the ffmpeg path (`USE_FFMPEG` is 0);
- `osal`: only `mpp_calloc` and `mpp_free` are used, and their bookkeeping is off
  unless `mpp_mem_debug` is set; the timers, queues and threads have no caller in the
  program;
- SIGPIPE, which would end the process, and the overflow of the 32-bit
  `frame_num` after two years;
- a composition of `RtspServer` and `RtpSender` over one `g_rtspClients`: the
  sender sees sessions begin and end at any moment, which includes all the
  server does.
