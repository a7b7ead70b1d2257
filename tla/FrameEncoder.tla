---------------------------- MODULE FrameEncoder ----------------------------
(***************************************************************************)
(* The conversions of a frame by the RGA, and the encoder behind           *)
(* mpp_main::push_stream.                                                  *)
(*                                                                         *)
(* Two threads convert: main calls yuv420_to_bgr888 (yolo.cc) for every    *)
(* captured frame, rtsp_thread calls ori_data_to_yuv420p (mpp_main.cpp)    *)
(* for every frame it streams.  Each call takes two buffers from the same  *)
(* dma heap and imports them into the RGA.  rtsp_thread then gives what    *)
(* my_yuv420p_buf shows to MppEncoder::encode and pushes the result.       *)
(*                                                                         *)
(* An image is the number of the call that was given it.                   *)
(***************************************************************************)
EXTENDS Integers, Sequences, FiniteSets, Functions

CONSTANTS
    DmaBuffer,       \* what the dma heap has room for
    GOP,             \* 60: every GOP-th call of encode writes the header
    MaxCalls         \* bound: conversions of each thread

ASSUME EncoderAssumption ==
    /\ IsFiniteSet(DmaBuffer) /\ "none" \notin DmaBuffer
    /\ GOP \in Nat \ {0}
    /\ MaxCalls \in Nat

VARIABLES
    open,            \* dma buffers with an open descriptor
    imported,        \* dma buffers with an RGA handle
    conv,            \* the conversion each thread is in
    shows,           \* the image in bgr_buf, and in my_yuv420p_buf
    failures,        \* how often the failures that leave something behind occurred
    setup,           \* MppEncoder::init: the step it is at, how it went
    p,               \* MppEncoder::p
    countIdx_,
    mpp,             \* pictures put into MPP whose packet has not been fetched
    pushed           \* what push_h264_stream was given last

rgaVars == <<open, imported, conv, shows, failures>>
encVars == <<setup, p, countIdx_, mpp, pushed>>
vars == <<rgaVars, encVars>>

Thread == {"main", "rtsp"}
None   == "none"
NoPicture == -1

\* ret: 1 is IM_STATUS_SUCCESS, 0 IM_STATUS_FAILED, -1 any other failure.
Conversion ==
    [pc : {"idle", "src", "dst", "import", "check", "convert", "done"}, call : 0 .. MaxCalls,
     src : DmaBuffer \cup {None}, dst : DmaBuffer \cup {None}, ret : {1, 0, -1}]

Idle(call) == [pc |-> "idle", call |-> call, src |-> None, dst |-> None, ret |-> 0]

\* Mutant: the errno of the allocation is handed on (12 is ENOMEM).
DoneErrno(t, ret) ==
    [conv[t] EXCEPT !.pc = "done", !.src = None, !.dst = None,
                    !.ret = IF conv[t].pc \in {"src", "dst"} THEN 12 ELSE ret]

\* The conversion is over and returns ret.
Done(t, ret) == [conv[t] EXCEPT !.pc = "done", !.src = None, !.dst = None, !.ret = ret]

\* A buffer is back in the heap when neither a descriptor nor the RGA refers to it.
Free == DmaBuffer \ (open \cup imported)

\* Given to push_h264_stream: a picture or none, after the header or not. call
\* and ret are those of the conversion, kept the packets MPP still had then.
NoPush == [call |-> 0, ret |-> 0, header |-> FALSE, picture |-> NoPicture, kept |-> 0]

\* The steps of init that can fail.
InitStep ==
    <<"enc_ctx_init", "mpp_buffer_group_get_internal", "frm_buf", "pkt_buf", "mpp_create",
      "MPP_SET_OUTPUT_TIMEOUT", "mpp_init", "mpp_enc_cfg_init", "test_mpp_enc_cfg_setup">>

Init ==
    /\ open = {} /\ imported = {}
    /\ conv = [t \in Thread |-> Idle(0)]
    /\ shows = [t \in Thread |-> 0]
    /\ failures = [mmap |-> 0, import |-> 0, imcheck |-> 0]
    /\ setup = [step |-> 1, failed |-> {}, crashed |-> FALSE]
    /\ p = [allocated |-> FALSE, mpi |-> FALSE]
    /\ countIdx_ = 0
    /\ mpp = <<>>
    /\ pushed = NoPush

-----------------------------------------------------------------------------
(* MppEncoder::init, on rtsp_thread *)

Initialised == setup.step > Len(InitStep)

\* Steps 2 to 8 use p.
Dereferences == setup.step \in 2 .. Len(InitStep) - 1

Crash == setup' = [setup EXCEPT !.crashed = TRUE] /\ UNCHANGED p

StepSucceeds ==
    /\ setup' = [setup EXCEPT !.step = @ + 1]
    /\ p' = [allocated |-> TRUE, mpi |-> p.mpi \/ InitStep[setup.step] = "mpp_create"]

\* Mutant: the failure is only reported.
StepFailsReported ==
    /\ setup' = [setup EXCEPT !.step = @ + 1, !.failed = @ \cup {InitStep[setup.step]}]
    /\ UNCHANGED p

\* deinit, which begins with p->mpi->reset; and init goes on.
StepFails ==
    IF p.allocated /\ p.mpi
      THEN /\ setup' = [setup EXCEPT !.step = @ + 1, !.failed = @ \cup {InitStep[setup.step]}]
           /\ p' = [allocated |-> FALSE, mpi |-> FALSE]
      ELSE Crash

\* test_mpp_enc_cfg_setup, the last step, fails when p is NULL.
init ==
    /\ ~setup.crashed
    /\ ~Initialised
    /\ IF Dereferences /\ ~p.allocated
         THEN Crash
         ELSE \/ (setup.step = 1 \/ p.allocated) /\ StepSucceeds
              \/ StepFails
    /\ UNCHANGED <<rgaVars, countIdx_, mpp, pushed>>

-----------------------------------------------------------------------------
(* yuv420_to_bgr888 and ori_data_to_yuv420p *)

Begin(t) ==
    /\ ~setup.crashed
    /\ t = "rtsp" => Initialised
    /\ conv[t].pc = "idle"
    /\ conv[t].call < MaxCalls
    /\ conv' = [conv EXCEPT ![t] = [Idle(conv[t].call + 1) EXCEPT !.pc = "src"]]
    /\ UNCHANGED <<open, imported, shows, failures, encVars>>

\* dma_buf_alloc: a mapping that fails leaves the buffer open. Then the other
\* buffer, if there is one, is closed and the conversion fails.
AllocFails(t, other) ==
    /\ \/ UNCHANGED failures /\ open' = open \ other
       \/ \E b \in Free :
             /\ open' = (open \cup {b}) \ other
             /\ failures' = [failures EXCEPT !.mmap = @ + 1]
    /\ conv' = [conv EXCEPT ![t] = Done(t, -1)]

AllocSrc(t) ==
    /\ ~setup.crashed
    /\ conv[t].pc = "src"
    /\ \/ \E b \in Free :
             /\ open' = open \cup {b}
             /\ conv' = [conv EXCEPT ![t].src = b, ![t].pc = "dst"]
             /\ UNCHANGED failures
       \/ AllocFails(t, {})
    /\ UNCHANGED <<imported, shows, encVars>>

\* Mutant: the source buffer is not freed when the other one cannot be had.
AllocDstKeepsSrc(t) ==
    /\ ~setup.crashed
    /\ conv[t].pc = "dst"
    /\ \/ \E b \in Free :
             /\ open' = open \cup {b}
             /\ conv' = [conv EXCEPT ![t].dst = b, ![t].pc = "import"]
             /\ UNCHANGED failures
       \/ AllocFails(t, {})
    /\ UNCHANGED <<imported, shows, encVars>>

AllocDst(t) ==
    /\ ~setup.crashed
    /\ conv[t].pc = "dst"
    /\ \/ \E b \in Free :
             /\ open' = open \cup {b}
             /\ conv' = [conv EXCEPT ![t].dst = b, ![t].pc = "import"]
             /\ UNCHANGED failures
       \/ AllocFails(t, {conv[t].src})
    /\ UNCHANGED <<imported, shows, encVars>>

Buffers(t) == {conv[t].src, conv[t].dst} \ {None}

\* Both imports are tried. When one fails the buffers are closed, but a handle
\* the other one gave is kept.
Import(t) ==
    /\ ~setup.crashed
    /\ conv[t].pc = "import"
    /\ \E handles \in SUBSET Buffers(t) :
          /\ imported' = imported \cup handles
          /\ IF handles = Buffers(t)
               THEN /\ conv' = [conv EXCEPT ![t].pc = "check"]
                    /\ UNCHANGED <<open, failures>>
               ELSE /\ conv' = [conv EXCEPT ![t] = Done(t, -1)]
                    /\ open' = open \ Buffers(t)
                    /\ failures' = [failures EXCEPT !.import = @ + Cardinality(handles)]
    /\ UNCHANGED <<shows, encVars>>

\* imcheck: a failure returns at once, with everything left as it is.
Check(t) ==
    /\ ~setup.crashed
    /\ conv[t].pc = "check"
    /\ \/ conv' = [conv EXCEPT ![t].pc = "convert"] /\ UNCHANGED failures
       \/ /\ conv' = [conv EXCEPT ![t] = Done(t, -1)]
          /\ failures' = [failures EXCEPT !.imcheck = @ + 1]
    /\ UNCHANGED <<open, imported, shows, encVars>>

\* imcvtcolor, and on success the copy into bgr_buf or my_yuv420p_buf; both
\* buffers are released.
Convert(t) ==
    /\ ~setup.crashed
    /\ conv[t].pc = "convert"
    /\ \E ret \in {1, 0, -1} :
          /\ shows' = IF ret = 1 THEN [shows EXCEPT ![t] = conv[t].call] ELSE shows
          /\ conv' = [conv EXCEPT ![t] = Done(t, ret)]
    /\ open' = open \ Buffers(t)
    /\ imported' = imported \ Buffers(t)
    /\ UNCHANGED <<failures, encVars>>

-----------------------------------------------------------------------------
(* push_stream, on rtsp_thread, and MppEncoder::encode *)

\* Mutant: the result of the conversion is ignored.
NeverRejected(ret) == FALSE

\* encoder() takes only a negative result for a failure.
Rejected(ret) == ret < 0

\* main has nothing to encode.
Return(t) ==
    /\ ~setup.crashed
    /\ conv[t].pc = "done"
    /\ t = "main" \/ Rejected(conv[t].ret)
    /\ conv' = [conv EXCEPT ![t] = Idle(conv[t].call)]
    /\ UNCHANGED <<open, imported, shows, failures, encVars>>

\* Every GOP-th call asks for the header, which may fail; so may encode_put_frame
\* and encode_get_packet after it, and without p all do. A packet that is not
\* got stays in MPP, and a later call gets it first; all packets are written to
\* the one pkt_buf, so it may show what was put after it. The result of encode is
\* ignored: whatever has been written is pushed, if anything has.
Encode ==
    LET t == "rtsp"
    IN  /\ ~setup.crashed
        /\ conv[t].pc = "done"
        /\ ~Rejected(conv[t].ret)
        /\ countIdx_' = countIdx_ + 1
        /\ \E header, put, got \in BOOLEAN :
              /\ header => countIdx_' % GOP = 0 /\ p.allocated
              /\ put => p.allocated
              /\ got => put
              /\ LET queue == IF put THEN Append(mpp, shows[t]) ELSE mpp
                 IN  \E picture \in IF got THEN Range(queue) ELSE {NoPicture} :
                        /\ mpp' = IF got THEN Tail(queue) ELSE queue
                        /\ pushed' = IF header \/ got
                                       THEN [call |-> conv[t].call, ret |-> conv[t].ret,
                                             header |-> header, picture |-> picture,
                                             kept |-> Len(mpp)]
                                       ELSE pushed
        /\ conv' = [conv EXCEPT ![t] = Idle(conv[t].call)]
        /\ UNCHANGED <<open, imported, shows, failures, setup, p>>

Next ==
    \/ init
    \/ \E t \in Thread : Begin(t) \/ AllocSrc(t) \/ AllocDst(t) \/ Import(t) \/ Check(t)
                         \/ Convert(t) \/ Return(t)
    \/ Encode

Spec == Init /\ [][Next]_vars

-----------------------------------------------------------------------------
(* Properties *)

\* Every variable keeps its type.
TypeOK ==
    /\ open \subseteq DmaBuffer /\ imported \subseteq DmaBuffer
    /\ conv \in [Thread -> Conversion]
    /\ shows \in [Thread -> 0 .. MaxCalls]
    /\ failures \in [mmap : Nat, import : Nat, imcheck : Nat]
    /\ setup \in [step : 1 .. Len(InitStep) + 1, failed : SUBSET Range(InitStep),
                  crashed : BOOLEAN]
    /\ p \in [allocated : BOOLEAN, mpi : BOOLEAN]
    /\ countIdx_ \in Nat
    /\ mpp \in Seq(0 .. MaxCalls)
    /\ pushed \in [call : 0 .. MaxCalls, ret : {1, 0, -1}, header : BOOLEAN,
                   picture : 0 .. MaxCalls \cup {NoPicture}, kept : Nat]

\* The buffers of the conversions under way, and those nobody will give back.
InUse  == Buffers("main") \cup Buffers("rtsp")
Leaked == (open \cup imported) \ InUse

\* What the two threads leave behind in the dma heap they share is exactly what
\* three failures leave: two buffers for each imcheck, one for each import that
\* succeeded next to one that failed, one for each mmap. Nothing a conversion
\* uses belongs to the other one.
LeaksExplained ==
    /\ Cardinality(Leaked) = 2 * failures.imcheck + failures.import + failures.mmap
    /\ Buffers("main") \cap Buffers("rtsp") = {}
    /\ InUse \subseteq open

\* A picture that is streamed is the image push_stream was given, or an earlier
\* one; earlier only if the conversion ended with IM_STATUS_FAILED or MPP still
\* had a packet an earlier call failed to get. A push without a picture is the
\* header of a call that counts GOP.
PushedFresh ==
    pushed # NoPush =>
        /\ \/ pushed.picture \in {pushed.call, NoPicture}
           \/ (pushed.ret = 0 \/ pushed.kept > 0) /\ pushed.picture < pushed.call
        /\ pushed.picture = NoPicture => pushed.header

\* The process survives init only with all steps done, or with only the last
\* one failed, and then nothing is ever pushed.
InitAllOrNothing ==
    Initialised =>
        \/ setup.failed = {} /\ p = [allocated |-> TRUE, mpi |-> TRUE]
        \/ setup.failed = {"test_mpp_enc_cfg_setup"} /\ ~p.allocated /\ pushed = NoPush

\* What the comment at imcvtcolor promises encoder(): a conversion that did not
\* return a negative error succeeded, so what is streamed, unless MPP still had
\* an earlier packet, is what was given.
PushedAsGiven == pushed.kept = 0 => pushed.picture \in {pushed.call, NoPicture}

=============================================================================
