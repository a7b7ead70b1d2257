------------------------- MODULE FrameEncoderProofs -------------------------
(***************************************************************************)
(* Theorems about FrameEncoder for every dma heap, GOP and MaxCalls.       *)
(*                                                                         *)
(* What the two conversions leave in the heap can be counted only while it *)
(* is known which buffers each of them holds and which it has imported;    *)
(* what is pushed is fresh only because neither my_yuv420p_buf nor MPP has *)
(* a later image than the call under way; and push_stream finds p as init  *)
(* left it.                                                                *)
(* EncoderInv conjoins these.                                              *)
(***************************************************************************)
EXTENDS FrameEncoder, FiniteSetTheorems, TLAPS

\* A conversion holds the buffers its place in the code says.
HeldBy(t) ==
    /\ conv[t].pc \in {"idle", "src", "done"} => conv[t].src = None /\ conv[t].dst = None
    /\ conv[t].pc = "dst" => conv[t].src \in DmaBuffer /\ conv[t].dst = None
    /\ conv[t].pc \in {"import", "check", "convert"} =>
          conv[t].src \in DmaBuffer /\ conv[t].dst \in DmaBuffer /\ conv[t].src # conv[t].dst
    /\ conv[t].pc \in {"dst", "import"} => Buffers(t) \cap imported = {}
    /\ conv[t].pc \in {"check", "convert"} => Buffers(t) \subseteq imported

BuffersHeld == \A t \in Thread : HeldBy(t)

\* What a thread's picture shows is no later than its call, and is that of its
\* call once, and only if, the conversion succeeded.
CopyOf(t) ==
    /\ conv[t].pc = "idle" => shows[t] <= conv[t].call
    /\ conv[t].pc = "done" /\ conv[t].ret = 1 => shows[t] = conv[t].call
    /\ conv[t].pc = "done" /\ conv[t].ret # 1 => shows[t] < conv[t].call
    /\ conv[t].pc \notin {"idle", "done"} => shows[t] < conv[t].call

CopyTracked == \A t \in Thread : CopyOf(t)

\* MPP keeps only pictures of calls before the one under way.
MppTracked ==
    \A n \in 1 .. Len(mpp) :
        /\ mpp[n] <= conv["rtsp"].call
        /\ conv["rtsp"].pc # "idle" => mpp[n] < conv["rtsp"].call

\* How far init is tells what p is; a failure takes p away for good. The
\* streaming thread begins after init, and pushes only with p.
InitTracked ==
    /\ setup.failed = {} => /\ p.allocated <=> setup.step > 1
                            /\ p.mpi <=> setup.step > 5
    /\ setup.failed # {} => ~p.allocated /\ ~p.mpi /\ setup.step > 1
    /\ setup.step = 10 => setup.failed \in {{}, {"test_mpp_enc_cfg_setup"}}
    /\ setup.step < 10 => conv["rtsp"].pc = "idle" /\ pushed = NoPush
    /\ pushed # NoPush => setup.failed = {}

\* The inductive invariant.
EncoderInv ==
    /\ TypeOK
    /\ BuffersHeld
    /\ LeaksExplained
    /\ CopyTracked
    /\ MppTracked
    /\ PushedFresh
    /\ InitTracked

-----------------------------------------------------------------------------
(* Facts the actions share. *)

Other(t) == IF t = "main" THEN "rtsp" ELSE "main"

\* The steps of init, counted.
LEMMA InitSteps ==
    /\ Len(InitStep) = 9
    /\ \A i \in 1 .. 9 : InitStep[i] \in Range(InitStep)
    /\ \A i \in 1 .. 9 : InitStep[i] = "mpp_create" <=> i = 5
    /\ InitStep[9] = "test_mpp_enc_cfg_setup"
<1>1. Len(InitStep) = 9 /\ DOMAIN InitStep = 1 .. 9
  BY DEF InitStep
<1>2. \A i \in 1 .. 9 : InitStep[i] \in Range(InitStep)
  BY <1>1 DEF Range
<1>3. InitStep[9] = "test_mpp_enc_cfg_setup"
  BY DEF InitStep
<1>4. \A i \in 1 .. 9 : InitStep[i] = "mpp_create" <=> i = 5
  BY DEF InitStep
<1> QED
  BY <1>1, <1>2, <1>3, <1>4

\* There are two threads, each the other's other.
LEMMA TwoThreads ==
    ASSUME NEW t \in Thread
    PROVE  /\ Other(t) \in Thread /\ Other(t) # t
           /\ Thread = {t, Other(t)}
           /\ InUse = Buffers(t) \cup Buffers(Other(t))
           /\ InUse' = Buffers(t)' \cup Buffers(Other(t))'
           /\ Buffers("main") \cap Buffers("rtsp") = {} <=>
                 Buffers(t) \cap Buffers(Other(t)) = {}
           /\ (Buffers("main") \cap Buffers("rtsp") = {})' <=>
                 Buffers(t)' \cap Buffers(Other(t))' = {}
<1>1. CASE t = "main"
  BY <1>1 DEF Thread, Other, InUse
<1>2. CASE t = "rtsp"
  BY <1>2 DEF Thread, Other, InUse
<1> QED
  BY <1>1, <1>2 DEF Thread

\* A step of one thread's conversion leaves the other's alone.
LEMMA ConversionStep ==
    ASSUME NEW t \in Thread, NEW c \in Conversion, conv \in [Thread -> Conversion],
           conv' = [conv EXCEPT ![t] = c]
    PROVE  /\ conv' \in [Thread -> Conversion]
           /\ conv'[t] = c
           /\ conv'[Other(t)] = conv[Other(t)]
           /\ Buffers(t)' = {c.src, c.dst} \ {None}
           /\ Buffers(Other(t))' = Buffers(Other(t))
<1>1. Other(t) \in Thread /\ Other(t) # t
  BY TwoThreads
<1>2. conv' \in [Thread -> Conversion] /\ conv'[t] = c /\ conv'[Other(t)] = conv[Other(t)]
  BY <1>1
<1> QED
  BY <1>2 DEF Buffers

\* What ends a conversion.
LEMMA DoneConversion ==
    ASSUME TypeOK, NEW t \in Thread, NEW ret \in {1, 0, -1}
    PROVE  /\ Done(t, ret) \in Conversion
           /\ Done(t, ret).pc = "done" /\ Done(t, ret).call = conv[t].call
           /\ Done(t, ret).src = None /\ Done(t, ret).dst = None /\ Done(t, ret).ret = ret
<1>1. conv[t] \in Conversion
  BY DEF TypeOK
<1>2. ret \in {1, 0, -1} /\ None \in DmaBuffer \cup {None}
  OBVIOUS
<1> QED
  BY <1>1, <1>2 DEF Done, Conversion

\* What a thread is between two conversions.
LEMMA IdleConversion ==
    ASSUME NEW call \in 0 .. MaxCalls
    PROVE  /\ Idle(call) \in Conversion
           /\ [Idle(call) EXCEPT !.pc = "src"] \in Conversion
BY DEF Idle, Conversion, None

-----------------------------------------------------------------------------
(* The parts of EncoderInv that speak of the dma heap. *)

HeapInv == BuffersHeld /\ LeaksExplained

\* The heap is finite, and so is what is left in it.
LEMMA LeakedFinite ==
    ASSUME TypeOK
    PROVE  IsFiniteSet(Leaked) /\ Cardinality(Leaked) \in Nat
<1>1. Leaked \subseteq DmaBuffer
  BY DEF Leaked, TypeOK
<1> QED
  BY <1>1, EncoderAssumption, FS_Subset, FS_CardinalityType

\* A conversion that does not touch the heap leaves HeapInv as it is.
LEMMA HeapUntouched ==
    ASSUME TypeOK, HeapInv, NEW t \in Thread, NEW c \in Conversion,
           conv' = [conv EXCEPT ![t] = c], UNCHANGED <<open, imported, failures>>,
           conv[t].pc \in {"idle", "src", "done"},
           c.pc \in {"idle", "src", "done"}, c.src = None, c.dst = None
    PROVE  HeapInv'
<1>1. conv \in [Thread -> Conversion]
  BY DEF TypeOK
<1>2. /\ conv'[t] = c /\ conv'[Other(t)] = conv[Other(t)]
      /\ Buffers(t)' = {} /\ Buffers(Other(t))' = Buffers(Other(t))
  BY ZenonT(40), <1>1, ConversionStep
<1>3. Buffers(t) = {}
  BY DEF HeapInv, BuffersHeld, HeldBy, Buffers
<1>4. BuffersHeld'
  BY <1>2, TwoThreads DEF HeapInv, BuffersHeld, HeldBy
<1>5. InUse' = InUse /\ Leaked' = Leaked
  BY <1>2, <1>3, TwoThreads DEF Leaked
<1> QED
  BY <1>2, <1>3, <1>4, <1>5, TwoThreads DEF HeapInv, LeaksExplained

\* What a step of a thread's conversion must see to: its own buffers, that the
\* other thread's are left alone, and the count.
LEMMA HeapStep ==
    ASSUME TypeOK, HeapInv, NEW t \in Thread, NEW c \in Conversion,
           conv' = [conv EXCEPT ![t] = c],
           HeldBy(t)',
           Buffers(t)' \subseteq open',
           Buffers(t)' \cap Buffers(Other(t)) = {},
           Buffers(Other(t)) \subseteq open',
           \A b \in Buffers(Other(t)) : b \in imported' <=> b \in imported,
           Cardinality(Leaked') = 2 * failures'.imcheck + failures'.import + failures'.mmap
    PROVE  HeapInv'
<1>1. conv \in [Thread -> Conversion]
  BY DEF TypeOK
<1>2. conv'[Other(t)] = conv[Other(t)] /\ Buffers(Other(t))' = Buffers(Other(t))
  BY <1>1, ConversionStep
<1>3. Other(t) \in Thread /\ Thread = {t, Other(t)}
  BY TwoThreads
<1>4. HeldBy(Other(t))
  BY <1>3 DEF HeapInv, BuffersHeld, HeldBy
<1>5. HeldBy(Other(t))'
  BY <1>2, <1>4 DEF HeldBy
<1>6. BuffersHeld'
  BY <1>3, <1>5 DEF BuffersHeld, HeldBy
<1>7. (Buffers("main") \cap Buffers("rtsp") = {})' /\ (InUse \subseteq open)'
  BY <1>2, TwoThreads
<1>8. LeaksExplained'
  BY <1>7 DEF LeaksExplained
<1> QED
  BY <1>6, <1>8 DEF HeapInv

\* An allocation that succeeds hands the conversion a buffer of its own.
LEMMA AllocHeap ==
    ASSUME TypeOK, HeapInv, NEW t \in Thread, NEW b \in Free, NEW c \in Conversion,
           conv' = [conv EXCEPT ![t] = c],
           open' = open \cup {b}, UNCHANGED <<imported, failures>>,
           \/ conv[t].pc = "src" /\ c.pc = "dst" /\ c.src = b /\ c.dst = None
           \/ conv[t].pc = "dst" /\ c.pc = "import" /\ c.src = conv[t].src /\ c.dst = b
    PROVE  HeapInv'
<1>1. conv \in [Thread -> Conversion]
  BY DEF TypeOK
<1>2. /\ conv'[t] = c /\ Buffers(t)' = {c.src, c.dst} \ {None}
      /\ Buffers(Other(t))' = Buffers(Other(t))
  BY <1>1, ConversionStep
<1>3. b \in DmaBuffer /\ b # None /\ b \notin open /\ b \notin imported
  BY EncoderAssumption DEF Free, None
<1>4. InUse \subseteq open /\ Buffers(t) \cap Buffers(Other(t)) = {}
  BY TwoThreads DEF HeapInv, LeaksExplained
<1>5. HeldBy(t)
  BY DEF HeapInv, BuffersHeld, HeldBy
<1>6. Buffers(t)' = Buffers(t) \cup {b}
  BY <1>2, <1>3, <1>5 DEF HeldBy, Buffers
<1>7. HeldBy(t)'
  <2>1. CASE conv[t].pc = "src"
    BY <1>2, <1>3, <1>5, <1>6, <2>1 DEF HeldBy, Buffers
  <2>2. CASE conv[t].pc = "dst"
    <3>1. conv[t].src \in DmaBuffer /\ conv[t].src \in open
      BY <1>4, <1>5, <2>2, EncoderAssumption, TwoThreads DEF HeldBy, Buffers, None
    <3>2. Buffers(t) \cap imported = {}
      BY <1>5, <2>2 DEF HeldBy
    <3> QED
      BY <1>2, <1>3, <1>6, <2>2, <3>1, <3>2 DEF HeldBy
  <2> QED
    BY <2>1, <2>2
<1>8. Leaked' = Leaked
  BY <1>2, <1>3, <1>4, <1>6, TwoThreads DEF Leaked
<1>9. /\ Buffers(t)' \subseteq open' /\ Buffers(Other(t)) \subseteq open'
      /\ Buffers(t)' \cap Buffers(Other(t)) = {}
  BY <1>3, <1>4, <1>6, TwoThreads
<1>10. Cardinality(Leaked') = 2 * failures'.imcheck + failures'.import + failures'.mmap
  BY <1>8 DEF HeapInv, LeaksExplained
<1> QED
  BY <1>7, <1>9, <1>10, HeapStep

\* A conversion that ends gives up its buffers; the heap keeps what it leaves
\* open or imported.
LEMMA EndHeap ==
    ASSUME TypeOK, HeapInv, NEW t \in Thread, NEW ret \in {1, 0, -1},
           conv' = [conv EXCEPT ![t] = Done(t, ret)],
           Buffers(Other(t)) \subseteq open',
           \A b \in Buffers(Other(t)) : b \in imported' <=> b \in imported,
           Cardinality((open' \cup imported') \ Buffers(Other(t)))
             = 2 * failures'.imcheck + failures'.import + failures'.mmap
    PROVE  HeapInv'
<1> DEFINE c == Done(t, ret)
<1>1. conv \in [Thread -> Conversion]
  BY DEF TypeOK
<1>2. c \in Conversion /\ c.pc = "done" /\ c.src = None /\ c.dst = None
  BY DoneConversion
<1> HIDE DEF c
<1>3. conv' = [conv EXCEPT ![t] = c]
  BY DEF c
<1>4. /\ conv'[t] = c /\ Buffers(t)' = {} /\ Buffers(Other(t))' = Buffers(Other(t))
  BY ZenonT(40), <1>1, <1>2, <1>3, ConversionStep
<1>5. HeldBy(t)'
  BY <1>2, <1>4 DEF HeldBy
<1>6. Leaked' = (open' \cup imported') \ Buffers(Other(t))
  BY <1>4, TwoThreads DEF Leaked
<1> QED
  BY <1>2, <1>3, <1>4, <1>5, <1>6, HeapStep

\* A step of a thread preserves HeapInv: the heap loses nothing but what the
\* three counted failures leave.
LEMMA AllocFailsHeap ==
    ASSUME TypeOK, HeapInv, NEW t \in Thread, NEW other \in SUBSET DmaBuffer,
           other = Buffers(t), Buffers(t) \cap imported = {},
           AllocFails(t, other), UNCHANGED imported
    PROVE  HeapInv'
<1>1. Buffers(t) \cap Buffers(Other(t)) = {} /\ InUse = Buffers(t) \cup Buffers(Other(t))
  BY TwoThreads DEF HeapInv, LeaksExplained
<1>2. /\ InUse \subseteq open
      /\ Cardinality(Leaked) = 2 * failures.imcheck + failures.import + failures.mmap
  BY DEF HeapInv, LeaksExplained
<1>3. conv' = [conv EXCEPT ![t] = Done(t, -1)]
  BY DEF AllocFails
<1>4. CASE UNCHANGED failures /\ open' = open \ other
  <2>1. (open' \cup imported') \ Buffers(Other(t)) = Leaked
    BY <1>1, <1>2, <1>4 DEF Leaked
  <2> QED
    BY <1>1, <1>2, <1>3, <1>4, <2>1, EndHeap
<1>5. ASSUME NEW b \in Free, open' = (open \cup {b}) \ other,
             failures' = [failures EXCEPT !.mmap = @ + 1]
      PROVE  HeapInv'
  <2>1. b \notin open /\ b \notin imported
    BY DEF Free
  <2>2. b \notin Leaked /\ (open' \cup imported') \ Buffers(Other(t)) = Leaked \cup {b}
    BY <1>1, <1>2, <1>5, <2>1 DEF Leaked
  <2>3. Cardinality(Leaked \cup {b}) = Cardinality(Leaked) + 1
    BY <2>2, LeakedFinite, FS_AddElement
  <2>4. /\ failures'.mmap = failures.mmap + 1 /\ failures'.import = failures.import
        /\ failures'.imcheck = failures.imcheck
        /\ failures.mmap \in Nat /\ failures.import \in Nat /\ failures.imcheck \in Nat
    BY <1>5 DEF TypeOK
  <2>5. Cardinality((open' \cup imported') \ Buffers(Other(t))) = Cardinality(Leaked) + 1
    BY <2>2, <2>3, Zenon
  <2>6. Cardinality((open' \cup imported') \ Buffers(Other(t)))
           = 2 * failures'.imcheck + failures'.import + failures'.mmap
    BY <1>2, <2>4, <2>5
  <2> QED
    BY <1>1, <1>2, <1>3, <1>5, <2>6, EndHeap
<1> QED
  BY <1>4, <1>5 DEF AllocFails

LEMMA AllocSrcHeap ==
    ASSUME TypeOK, HeapInv, NEW t \in Thread, AllocSrc(t)
    PROVE  HeapInv'
<1>1. conv \in [Thread -> Conversion] /\ conv[t] \in Conversion /\ conv[t].pc = "src"
  BY DEF TypeOK, AllocSrc
<1>2. conv[t].src = None /\ conv[t].dst = None /\ Buffers(t) = {}
  BY <1>1 DEF HeapInv, BuffersHeld, HeldBy, Buffers
<1>3. ASSUME NEW b \in Free, open' = open \cup {b}, UNCHANGED failures,
             conv' = [conv EXCEPT ![t].src = b, ![t].pc = "dst"]
      PROVE  HeapInv'
  <2> DEFINE c == [conv[t] EXCEPT !.src = b, !.pc = "dst"]
  <2>1. b \in DmaBuffer
    BY DEF Free
  <2>2. c \in Conversion /\ c.pc = "dst" /\ c.src = b /\ c.dst = None
    BY <1>1, <1>2, <2>1 DEF Conversion
  <2>3. conv' = [conv EXCEPT ![t] = c]
    BY <1>1, <1>3
  <2>4. UNCHANGED <<imported, failures>>
    BY <1>3 DEF AllocSrc
  <2> HIDE DEF c
  <2> QED
    BY <1>1, <1>3, <2>2, <2>3, <2>4, AllocHeap
<1>4. CASE AllocFails(t, {})
  BY <1>2, <1>4, AllocFailsHeap DEF AllocSrc
<1> QED
  BY <1>3, <1>4 DEF AllocSrc

LEMMA AllocDstHeap ==
    ASSUME TypeOK, HeapInv, NEW t \in Thread, AllocDst(t)
    PROVE  HeapInv'
<1>1. conv \in [Thread -> Conversion] /\ conv[t] \in Conversion /\ conv[t].pc = "dst"
  BY DEF TypeOK, AllocDst
<1>2. /\ conv[t].src \in DmaBuffer /\ conv[t].dst = None /\ Buffers(t) = {conv[t].src}
      /\ Buffers(t) \cap imported = {}
  BY <1>1, EncoderAssumption DEF HeapInv, BuffersHeld, HeldBy, Buffers, None
<1>3. ASSUME NEW b \in Free, open' = open \cup {b}, UNCHANGED failures,
             conv' = [conv EXCEPT ![t].dst = b, ![t].pc = "import"]
      PROVE  HeapInv'
  <2> DEFINE c == [conv[t] EXCEPT !.dst = b, !.pc = "import"]
  <2>1. b \in DmaBuffer
    BY DEF Free
  <2>2. c \in Conversion /\ c.pc = "import" /\ c.src = conv[t].src /\ c.dst = b
    BY <1>1, <2>1 DEF Conversion
  <2>3. conv' = [conv EXCEPT ![t] = c]
    BY <1>1, <1>3
  <2>4. UNCHANGED <<imported, failures>>
    BY <1>3 DEF AllocDst
  <2> HIDE DEF c
  <2> QED
    BY <1>1, <1>3, <2>2, <2>3, <2>4, AllocHeap
<1>4. CASE AllocFails(t, {conv[t].src})
  BY <1>2, <1>4, AllocFailsHeap DEF AllocDst
<1> QED
  BY <1>3, <1>4 DEF AllocDst

LEMMA ImportHeap ==
    ASSUME TypeOK, HeapInv, NEW t \in Thread, Import(t)
    PROVE  HeapInv'
<1>1. conv \in [Thread -> Conversion] /\ conv[t] \in Conversion /\ conv[t].pc = "import"
  BY DEF TypeOK, Import
<1>2. /\ conv[t].src \in DmaBuffer /\ conv[t].dst \in DmaBuffer /\ conv[t].src # conv[t].dst
      /\ Buffers(t) \cap imported = {}
  BY <1>1 DEF HeapInv, BuffersHeld, HeldBy
<1>3. /\ Buffers(t) \cap Buffers(Other(t)) = {} /\ InUse = Buffers(t) \cup Buffers(Other(t))
      /\ InUse' = Buffers(t)' \cup Buffers(Other(t))'
  BY TwoThreads DEF HeapInv, LeaksExplained
<1>4. /\ InUse \subseteq open
      /\ Cardinality(Leaked) = 2 * failures.imcheck + failures.import + failures.mmap
  BY DEF HeapInv, LeaksExplained
<1>5. PICK handles \in SUBSET Buffers(t) :
          /\ imported' = imported \cup handles
          /\ IF handles = Buffers(t)
               THEN /\ conv' = [conv EXCEPT ![t].pc = "check"]
                    /\ UNCHANGED <<open, failures>>
               ELSE /\ conv' = [conv EXCEPT ![t] = Done(t, -1)]
                    /\ open' = open \ Buffers(t)
                    /\ failures' = [failures EXCEPT !.import = @ + Cardinality(handles)]
  BY DEF Import
<1>6. CASE handles = Buffers(t)
  <2> DEFINE c == [conv[t] EXCEPT !.pc = "check"]
  <2>1. c \in Conversion /\ c.pc = "check" /\ c.src = conv[t].src /\ c.dst = conv[t].dst
    BY <1>1 DEF Conversion
  <2>2. conv' = [conv EXCEPT ![t] = c] /\ UNCHANGED <<open, failures>>
    BY <1>1, <1>5, <1>6
  <2> HIDE DEF c
  <2>3. /\ conv'[t] = c /\ Buffers(t)' = Buffers(t)
        /\ Buffers(Other(t))' = Buffers(Other(t))
    BY <1>1, <2>1, <2>2, ConversionStep DEF Buffers
  <2>4. HeldBy(t)'
    BY <1>2, <1>5, <1>6, <2>1, <2>3 DEF HeldBy
  <2>5. Leaked' = Leaked
    BY <1>3, <1>4, <1>5, <2>2, <2>3 DEF Leaked
  <2>6. Cardinality(Leaked') = 2 * failures'.imcheck + failures'.import + failures'.mmap
    BY <1>4, <2>2, <2>5
  <2> QED
    BY <1>3, <1>4, <1>5, <2>1, <2>2, <2>3, <2>4, <2>6, HeapStep
<1>7. CASE handles # Buffers(t)
  <2>1. handles \subseteq DmaBuffer /\ IsFiniteSet(handles)
    BY <1>2, EncoderAssumption, FS_Subset DEF Buffers
  <2>2. /\ Leaked \cap handles = {}
        /\ (open' \cup imported') \ Buffers(Other(t)) = Leaked \cup handles
    BY <1>2, <1>3, <1>4, <1>5, <1>7 DEF Leaked
  <2>3. Cardinality(Leaked \cup handles) = Cardinality(Leaked) + Cardinality(handles)
    <3>1. Cardinality(Leaked \cap handles) = 0
      BY <2>2, FS_EmptySet
    <3>2. Cardinality(Leaked) \in Nat /\ Cardinality(handles) \in Nat
      BY <2>1, LeakedFinite, FS_CardinalityType
    <3>3. Cardinality(Leaked \cup handles)
            = Cardinality(Leaked) + Cardinality(handles) - Cardinality(Leaked \cap handles)
      BY <2>1, LeakedFinite, FS_Union
    <3> QED
      BY <3>1, <3>2, <3>3
  <2>4. Cardinality((open' \cup imported') \ Buffers(Other(t)))
          = Cardinality(Leaked) + Cardinality(handles)
    BY <2>2, <2>3, Zenon
  <2>5. Cardinality(handles) \in Nat
    BY <2>1, FS_CardinalityType
  <2>6. /\ failures'.import = failures.import + Cardinality(handles)
        /\ failures'.mmap = failures.mmap /\ failures'.imcheck = failures.imcheck
        /\ failures.mmap \in Nat /\ failures.import \in Nat /\ failures.imcheck \in Nat
    BY <1>5, <1>7 DEF TypeOK
  <2>7. Cardinality((open' \cup imported') \ Buffers(Other(t)))
           = 2 * failures'.imcheck + failures'.import + failures'.mmap
    BY <1>4, <2>4, <2>5, <2>6
  <2>8. /\ Buffers(Other(t)) \subseteq open'
        /\ \A b \in Buffers(Other(t)) : b \in imported' <=> b \in imported
    BY <1>3, <1>4, <1>5, <1>7
  <2> QED
    BY <1>5, <1>7, <2>7, <2>8, EndHeap
<1> QED
  BY <1>6, <1>7

LEMMA CheckHeap ==
    ASSUME TypeOK, HeapInv, NEW t \in Thread, Check(t)
    PROVE  HeapInv'
<1>1. /\ conv \in [Thread -> Conversion] /\ conv[t] \in Conversion /\ conv[t].pc = "check"
      /\ UNCHANGED <<open, imported>>
  BY DEF TypeOK, Check
<1>2. /\ conv[t].src \in DmaBuffer /\ conv[t].dst \in DmaBuffer /\ conv[t].src # conv[t].dst
      /\ Buffers(t) \subseteq imported
  BY <1>1 DEF HeapInv, BuffersHeld, HeldBy
<1>3. Buffers(t) \cap Buffers(Other(t)) = {} /\ InUse = Buffers(t) \cup Buffers(Other(t))
  BY TwoThreads DEF HeapInv, LeaksExplained
<1>4. /\ InUse \subseteq open
      /\ Cardinality(Leaked) = 2 * failures.imcheck + failures.import + failures.mmap
  BY DEF HeapInv, LeaksExplained
<1>5. CASE conv' = [conv EXCEPT ![t].pc = "convert"] /\ UNCHANGED failures
  <2> DEFINE c == [conv[t] EXCEPT !.pc = "convert"]
  <2>1. c \in Conversion /\ c.pc = "convert" /\ c.src = conv[t].src /\ c.dst = conv[t].dst
    BY <1>1 DEF Conversion
  <2>2. conv' = [conv EXCEPT ![t] = c]
    BY <1>1, <1>5
  <2> HIDE DEF c
  <2>3. /\ conv'[t] = c /\ Buffers(t)' = Buffers(t)
        /\ Buffers(Other(t))' = Buffers(Other(t))
    BY <1>1, <2>1, <2>2, ConversionStep DEF Buffers
  <2>4. HeldBy(t)'
    BY <1>1, <1>2, <2>1, <2>3 DEF HeldBy
  <2>5. Leaked' = Leaked
    BY <1>1, <2>3, TwoThreads DEF Leaked
  <2>6. Cardinality(Leaked') = 2 * failures'.imcheck + failures'.import + failures'.mmap
    BY <1>4, <1>5, <2>5
  <2> QED
    BY <1>1, <1>3, <1>4, <2>1, <2>2, <2>3, <2>4, <2>6, HeapStep
<1>6. CASE /\ conv' = [conv EXCEPT ![t] = Done(t, -1)]
           /\ failures' = [failures EXCEPT !.imcheck = @ + 1]
  <2> DEFINE s == conv[t].src
             d == conv[t].dst
  <2>1. Buffers(t) = {s, d}
    BY <1>2, EncoderAssumption DEF Buffers, None
  <2>2. /\ s \notin Leaked /\ d \notin Leaked \cup {s}
        /\ (open' \cup imported') \ Buffers(Other(t)) = (Leaked \cup {s}) \cup {d}
    BY <1>1, <1>2, <1>3, <1>4, <2>1 DEF Leaked
  <2>3. /\ Cardinality(Leaked \cup {s}) = Cardinality(Leaked) + 1
        /\ IsFiniteSet(Leaked \cup {s})
    BY <2>2, LeakedFinite, FS_AddElement
  <2>4. Cardinality((Leaked \cup {s}) \cup {d}) = Cardinality(Leaked \cup {s}) + 1
    BY <2>2, <2>3, FS_AddElement
  <2>5. Cardinality((open' \cup imported') \ Buffers(Other(t)))
          = Cardinality(Leaked \cup {s}) + 1
    BY <2>2, <2>4, Zenon
  <2>6. /\ failures'.imcheck = failures.imcheck + 1
        /\ failures'.mmap = failures.mmap /\ failures'.import = failures.import
        /\ failures.mmap \in Nat /\ failures.import \in Nat /\ failures.imcheck \in Nat
    BY <1>6 DEF TypeOK
  <2>7. Cardinality((open' \cup imported') \ Buffers(Other(t)))
           = 2 * failures'.imcheck + failures'.import + failures'.mmap
    BY <1>4, <2>3, <2>5, <2>6
  <2> QED
    BY <1>1, <1>3, <1>4, <1>6, <2>7, EndHeap
<1> QED
  BY <1>5, <1>6 DEF Check

LEMMA ConvertHeap ==
    ASSUME TypeOK, HeapInv, NEW t \in Thread, Convert(t)
    PROVE  HeapInv'
<1>1. /\ conv[t].pc = "convert" /\ UNCHANGED failures
      /\ open' = open \ Buffers(t) /\ imported' = imported \ Buffers(t)
  BY DEF Convert
<1>2. PICK ret \in {1, 0, -1} : conv' = [conv EXCEPT ![t] = Done(t, ret)]
  BY DEF Convert
<1>3. Buffers(t) \cap Buffers(Other(t)) = {} /\ InUse = Buffers(t) \cup Buffers(Other(t))
  BY TwoThreads DEF HeapInv, LeaksExplained
<1>4. /\ InUse \subseteq open
      /\ Cardinality(Leaked) = 2 * failures.imcheck + failures.import + failures.mmap
  BY DEF HeapInv, LeaksExplained
<1>5. (open' \cup imported') \ Buffers(Other(t)) = Leaked
  BY <1>1, <1>3, <1>4 DEF Leaked
<1>6. Cardinality((open' \cup imported') \ Buffers(Other(t)))
           = 2 * failures'.imcheck + failures'.import + failures'.mmap
  BY <1>1, <1>4, <1>5
<1> QED
  BY <1>1, <1>2, <1>3, <1>4, <1>6, EndHeap

-----------------------------------------------------------------------------
(* The other parts of EncoderInv: types, what the pictures show, and p. *)

\* The steps from a conversion's beginning to its end.
Middle(t) == AllocSrc(t) \/ AllocDst(t) \/ Import(t) \/ Check(t)

\* They stay in the same call, write no picture, and can only end it in failure.
LEMMA MiddleStep ==
    ASSUME TypeOK, NEW t \in Thread, Middle(t)
    PROVE  /\ conv[t].pc \notin {"idle", "done"} /\ UNCHANGED <<shows, encVars>>
           /\ \E c \in Conversion :
                 /\ conv' = [conv EXCEPT ![t] = c]
                 /\ c.call = conv[t].call /\ c.pc # "idle"
                 /\ c.pc = "done" => c.ret = -1
<1>1. conv \in [Thread -> Conversion] /\ conv[t] \in Conversion
  BY DEF TypeOK
<1>2. conv[t].pc \notin {"idle", "done"} /\ UNCHANGED <<shows, encVars>>
  BY DEF Middle, AllocSrc, AllocDst, Import, Check
<1> DEFINE Good(c) == c.call = conv[t].call /\ c.pc # "idle" /\ (c.pc = "done" => c.ret = -1)
<1>3. CASE conv' = [conv EXCEPT ![t] = Done(t, -1)]
  <2>1. Done(t, -1) \in Conversion /\ Good(Done(t, -1))
    BY DoneConversion
  <2> QED
    BY <1>2, <1>3, <2>1
<1>4. ASSUME NEW b \in Free, conv' = [conv EXCEPT ![t].src = b, ![t].pc = "dst"]
      PROVE  \E c \in Conversion : conv' = [conv EXCEPT ![t] = c] /\ Good(c)
  <2> DEFINE c == [conv[t] EXCEPT !.src = b, !.pc = "dst"]
  <2>1. c \in Conversion /\ Good(c)
    BY <1>1 DEF Conversion, Free
  <2>2. conv' = [conv EXCEPT ![t] = c]
    BY <1>1, <1>4
  <2> QED
    BY <2>1, <2>2
<1>5. ASSUME NEW b \in Free, conv' = [conv EXCEPT ![t].dst = b, ![t].pc = "import"]
      PROVE  \E c \in Conversion : conv' = [conv EXCEPT ![t] = c] /\ Good(c)
  <2> DEFINE c == [conv[t] EXCEPT !.dst = b, !.pc = "import"]
  <2>1. c \in Conversion /\ Good(c)
    BY <1>1 DEF Conversion, Free
  <2>2. conv' = [conv EXCEPT ![t] = c]
    BY <1>1, <1>5
  <2> QED
    BY <2>1, <2>2
<1>6. ASSUME NEW l \in {"check", "convert"}, conv' = [conv EXCEPT ![t].pc = l]
      PROVE  \E c \in Conversion : conv' = [conv EXCEPT ![t] = c] /\ Good(c)
  <2> DEFINE c == [conv[t] EXCEPT !.pc = l]
  <2>1. c \in Conversion /\ Good(c)
    BY <1>1 DEF Conversion
  <2>2. conv' = [conv EXCEPT ![t] = c]
    BY <1>1, <1>6
  <2> QED
    BY <2>1, <2>2
<1>7. \/ conv' = [conv EXCEPT ![t] = Done(t, -1)]
      \/ \E b \in Free : conv' = [conv EXCEPT ![t].src = b, ![t].pc = "dst"]
      \/ \E b \in Free : conv' = [conv EXCEPT ![t].dst = b, ![t].pc = "import"]
      \/ \E l \in {"check", "convert"} : conv' = [conv EXCEPT ![t].pc = l]
  <2>1. AllocSrc(t) => \/ conv' = [conv EXCEPT ![t] = Done(t, -1)]
                       \/ \E b \in Free : conv' = [conv EXCEPT ![t].src = b, ![t].pc = "dst"]
    BY DEF AllocSrc, AllocFails
  <2>2. AllocDst(t) => \/ conv' = [conv EXCEPT ![t] = Done(t, -1)]
                       \/ \E b \in Free : conv' = [conv EXCEPT ![t].dst = b, ![t].pc = "import"]
    BY DEF AllocDst, AllocFails
  <2>3. Import(t) => \/ conv' = [conv EXCEPT ![t] = Done(t, -1)]
                     \/ conv' = [conv EXCEPT ![t].pc = "check"]
    BY DEF Import
  <2>4. Check(t) => \/ conv' = [conv EXCEPT ![t] = Done(t, -1)]
                    \/ conv' = [conv EXCEPT ![t].pc = "convert"]
    BY DEF Check
  <2> QED
    BY <2>1, <2>2, <2>3, <2>4 DEF Middle
<1> QED
  BY <1>2, <1>3, <1>4, <1>5, <1>6, <1>7

\* The heap's variables keep their types.
LEMMA MiddleType ==
    ASSUME TypeOK, NEW t \in Thread, Middle(t)
    PROVE  /\ open' \subseteq DmaBuffer /\ imported' \subseteq DmaBuffer
           /\ failures' \in [mmap : Nat, import : Nat, imcheck : Nat]
<1>1. conv[t] \in Conversion
  BY DEF TypeOK
<1>2. /\ open \subseteq DmaBuffer /\ imported \subseteq DmaBuffer
      /\ failures \in [mmap : Nat, import : Nat, imcheck : Nat]
  BY DEF TypeOK
<1>3. ASSUME NEW other, AllocFails(t, other)
      PROVE  /\ open' \subseteq DmaBuffer
             /\ failures' \in [mmap : Nat, import : Nat, imcheck : Nat]
  <2>1. [failures EXCEPT !.mmap = @ + 1] \in [mmap : Nat, import : Nat, imcheck : Nat]
    BY <1>2
  <2> QED
    BY <1>2, <1>3, <2>1 DEF AllocFails, Free
<1>4. CASE AllocSrc(t) \/ AllocDst(t)
  BY <1>2, <1>3, <1>4 DEF AllocSrc, AllocDst, Free
<1>5. CASE Import(t)
  <2>1. Buffers(t) \subseteq DmaBuffer
    BY <1>1 DEF Buffers, Conversion
  <2>2. PICK handles \in SUBSET Buffers(t) :
           /\ imported' = imported \cup handles
           /\ \/ UNCHANGED <<open, failures>>
              \/ /\ open' = open \ Buffers(t)
                 /\ failures' = [failures EXCEPT !.import = @ + Cardinality(handles)]
    BY <1>5 DEF Import
  <2>3. Cardinality(handles) \in Nat
    BY <2>1, EncoderAssumption, FS_Subset, FS_CardinalityType
  <2> QED
    BY <1>2, <2>1, <2>2, <2>3
<1>6. CASE Check(t)
  BY <1>2, <1>6 DEF Check
<1> QED
  BY <1>4, <1>5, <1>6 DEF Middle

\* A step of one thread leaves the other's picture alone.
LEMMA CopyStep ==
    ASSUME TypeOK, CopyTracked, NEW t \in Thread, NEW c \in Conversion,
           conv' = [conv EXCEPT ![t] = c], shows'[Other(t)] = shows[Other(t)],
           CopyOf(t)'
    PROVE  CopyTracked'
<1>1. conv \in [Thread -> Conversion]
  BY DEF TypeOK
<1>2. conv'[Other(t)] = conv[Other(t)]
  BY <1>1, ConversionStep
<1>3. Other(t) \in Thread /\ Thread = {t, Other(t)}
  BY TwoThreads
<1>4. CopyOf(Other(t))'
  BY <1>2, <1>3 DEF CopyTracked, CopyOf
<1> QED
  BY <1>3, <1>4 DEF CopyTracked

\* A step of a conversion does not take MPP's pictures past the call under way.
LEMMA MppStep ==
    ASSUME TypeOK, MppTracked, NEW t \in Thread, NEW c \in Conversion,
           conv' = [conv EXCEPT ![t] = c], UNCHANGED mpp,
           \/ c.call = conv[t].call /\ (conv[t].pc = "idle" => c.pc = "idle")
           \/ c.call > conv[t].call
    PROVE  MppTracked'
<1>1. /\ conv \in [Thread -> Conversion] /\ mpp \in Seq(0 .. MaxCalls)
      /\ conv[t].call \in Int /\ c.call \in Int
  BY DEF TypeOK, Conversion
<1>2. CASE t # "rtsp"
  <2>1. conv'["rtsp"] = conv["rtsp"]
    BY <1>1, <1>2 DEF Thread
  <2> QED
    BY <2>1 DEF MppTracked
<1>3. CASE t = "rtsp"
  <2>1. conv'["rtsp"] = c
    BY <1>1, <1>3
  <2>2. ASSUME NEW n \in 1 .. Len(mpp)
        PROVE  mpp[n] <= c.call /\ (c.pc # "idle" => mpp[n] < c.call)
    <3>1. mpp[n] \in Int
      BY <1>1, EncoderAssumption
    <3>2. mpp[n] <= conv[t].call /\ (conv[t].pc # "idle" => mpp[n] < conv[t].call)
      BY <1>3 DEF MppTracked
    <3> QED
      BY <1>1, <3>1, <3>2
  <2> QED
    BY <2>1, <2>2 DEF MppTracked
<1> QED
  BY <1>2, <1>3

\* A step of a conversion does not disturb what init left.
LEMMA InitKept ==
    ASSUME TypeOK, InitTracked, NEW t \in Thread, NEW c \in Conversion,
           conv' = [conv EXCEPT ![t] = c], UNCHANGED <<setup, p, pushed>>,
           t = "rtsp" => setup.step = 10
    PROVE  InitTracked'
<1>1. conv \in [Thread -> Conversion]
  BY DEF TypeOK
<1>2. t # "rtsp" => conv'["rtsp"] = conv["rtsp"]
  BY <1>1 DEF Thread
<1> QED
  BY <1>2 DEF InitTracked

\* The streaming thread converts only after init.
LEMMA AfterInit ==
    ASSUME TypeOK, InitTracked, conv["rtsp"].pc # "idle" \/ Initialised
    PROVE  setup.step = 10
<1>1. setup.step \in 1 .. 10
  BY InitSteps DEF TypeOK
<1> QED
  BY <1>1, InitSteps DEF InitTracked, Initialised

\* EncoderInv survives each step of a conversion before imcvtcolor.
LEMMA MiddleInv ==
    ASSUME EncoderInv, NEW t \in Thread, Middle(t)
    PROVE  EncoderInv'
<1>1. TypeOK /\ HeapInv /\ CopyTracked /\ InitTracked /\ PushedFresh
  BY DEF EncoderInv, HeapInv
<1>2. conv[t].pc \notin {"idle", "done"} /\ UNCHANGED <<shows, encVars>>
  BY <1>1, MiddleStep
<1>3. PICK c \in Conversion :
          /\ conv' = [conv EXCEPT ![t] = c]
          /\ c.call = conv[t].call /\ c.pc # "idle"
          /\ c.pc = "done" => c.ret = -1
  BY <1>1, MiddleStep
<1>4. conv \in [Thread -> Conversion]
  BY <1>1 DEF TypeOK
<1>5. conv' \in [Thread -> Conversion] /\ conv'[t] = c
  BY <1>3, <1>4, ConversionStep
<1>6. TypeOK'
  <2>1. /\ open' \subseteq DmaBuffer /\ imported' \subseteq DmaBuffer
        /\ failures' \in [mmap : Nat, import : Nat, imcheck : Nat]
    BY <1>1, MiddleType
  <2> QED
    BY <1>1, <1>2, <1>5, <2>1 DEF TypeOK, encVars
<1>7. HeapInv'
  BY <1>1, AllocSrcHeap, AllocDstHeap, ImportHeap, CheckHeap DEF Middle
<1>8. CopyTracked'
  <2>1. shows[t] < conv[t].call
    BY <1>1, <1>2 DEF CopyTracked, CopyOf
  <2>2. CopyOf(t)'
    BY <1>2, <1>3, <1>5, <2>1 DEF CopyOf
  <2> QED
    BY <1>1, <1>2, <1>3, <2>2, CopyStep
<1>9. InitTracked'
  <2>1. t = "rtsp" => setup.step = 10
    BY <1>1, <1>2, AfterInit
  <2> QED
    BY <1>1, <1>2, <1>3, <2>1, InitKept DEF encVars
<1>10. PushedFresh'
  BY <1>1, <1>2 DEF PushedFresh, encVars
<1>11. MppTracked'
  BY <1>1, <1>2, <1>3, MppStep DEF EncoderInv, encVars
<1> QED
  BY <1>6, <1>7, <1>8, <1>9, <1>10, <1>11 DEF EncoderInv, HeapInv

\* EncoderInv survives the beginning of a conversion.
LEMMA BeginInv ==
    ASSUME EncoderInv, NEW t \in Thread, Begin(t)
    PROVE  EncoderInv'
<1> DEFINE c == [Idle(conv[t].call + 1) EXCEPT !.pc = "src"]
<1>1. TypeOK /\ HeapInv /\ CopyTracked /\ InitTracked /\ PushedFresh
  BY DEF EncoderInv, HeapInv
<1>2. /\ conv[t].pc = "idle" /\ conv' = [conv EXCEPT ![t] = c]
      /\ conv[t].call < MaxCalls
      /\ UNCHANGED <<open, imported, shows, failures, encVars>>
      /\ t = "rtsp" => Initialised
  BY DEF Begin
<1>3. conv \in [Thread -> Conversion] /\ conv[t] \in Conversion /\ shows[t] \in Nat
  BY <1>1, EncoderAssumption DEF TypeOK
<1>4. conv[t].call \in Nat /\ conv[t].call + 1 \in 0 .. MaxCalls
  BY <1>2, <1>3, EncoderAssumption DEF Conversion
<1>5. /\ c \in Conversion /\ c.pc = "src" /\ c.call = conv[t].call + 1
      /\ c.src = None /\ c.dst = None
  BY <1>4, IdleConversion DEF Idle
<1> HIDE DEF c
<1>6. conv' \in [Thread -> Conversion] /\ conv'[t] = c
  BY <1>2, <1>3, <1>5, ConversionStep
<1>7. TypeOK'
  BY <1>1, <1>2, <1>6 DEF TypeOK, encVars
<1>8. HeapInv'
  BY <1>1, <1>2, <1>5, HeapUntouched
<1>9. CopyTracked'
  <2>1. shows[t] <= conv[t].call
    BY <1>1, <1>2 DEF CopyTracked, CopyOf
  <2>2. CopyOf(t)'
    BY <1>2, <1>3, <1>4, <1>5, <1>6, <2>1 DEF CopyOf
  <2> QED
    BY <1>1, <1>2, <1>5, <2>2, CopyStep
<1>10. InitTracked'
  BY <1>1, <1>2, <1>5, AfterInit, InitKept DEF encVars
<1>11. PushedFresh'
  BY <1>1, <1>2 DEF PushedFresh, encVars
<1>12. MppTracked'
  <2>1. MppTracked /\ UNCHANGED mpp
    BY <1>2 DEF EncoderInv, encVars
  <2>2. c.call > conv[t].call
    BY <1>4, <1>5
  <2> QED
    BY <1>1, <1>2, <1>5, <2>1, <2>2, MppStep
<1> QED
  BY <1>7, <1>8, <1>9, <1>10, <1>11, <1>12 DEF EncoderInv, HeapInv

\* EncoderInv survives imcvtcolor and the copy: only a conversion that
\* succeeded changes the picture, and it shows its own call then.
LEMMA ConvertInv ==
    ASSUME EncoderInv, NEW t \in Thread, Convert(t)
    PROVE  EncoderInv'
<1>1. TypeOK /\ HeapInv /\ CopyTracked /\ InitTracked /\ PushedFresh
  BY DEF EncoderInv, HeapInv
<1>2. /\ conv[t].pc = "convert" /\ UNCHANGED <<failures, encVars>>
      /\ open' = open \ Buffers(t) /\ imported' = imported \ Buffers(t)
  BY DEF Convert
<1>3. PICK ret \in {1, 0, -1} :
          /\ shows' = IF ret = 1 THEN [shows EXCEPT ![t] = conv[t].call] ELSE shows
          /\ conv' = [conv EXCEPT ![t] = Done(t, ret)]
  BY DEF Convert
<1> DEFINE c == Done(t, ret)
<1>4. /\ c \in Conversion /\ c.pc = "done" /\ c.call = conv[t].call /\ c.ret = ret
  BY <1>1, DoneConversion
<1>5. /\ conv \in [Thread -> Conversion] /\ conv[t] \in Conversion
      /\ shows \in [Thread -> 0 .. MaxCalls]
  BY <1>1 DEF TypeOK
<1>6. conv[t].call \in 0 .. MaxCalls
  BY <1>5 DEF Conversion
<1>7. conv' = [conv EXCEPT ![t] = c]
  BY <1>3
<1> HIDE DEF c
<1>8. conv' \in [Thread -> Conversion] /\ conv'[t] = c
  BY <1>4, <1>5, <1>7, ConversionStep
<1>9. TypeOK'
  <2>1. shows' \in [Thread -> 0 .. MaxCalls]
    BY <1>3, <1>5, <1>6
  <2> QED
    BY <1>1, <1>2, <1>8, <2>1 DEF TypeOK, encVars
<1>10. HeapInv'
  BY <1>1, ConvertHeap
<1>11. CopyTracked'
  <2>1. shows[t] < conv[t].call
    BY <1>1, <1>2 DEF CopyTracked, CopyOf
  <2>2. CopyOf(t)'
    BY <1>3, <1>4, <1>5, <1>8, <2>1 DEF CopyOf
  <2>3. shows'[Other(t)] = shows[Other(t)]
    BY <1>3, <1>5, TwoThreads
  <2> QED
    BY <1>1, <1>4, <1>7, <2>2, <2>3, CopyStep
<1>12. InitTracked'
  <2>1. t = "rtsp" => setup.step = 10
    BY <1>1, <1>2, AfterInit
  <2> QED
    BY <1>1, <1>2, <1>4, <1>7, <2>1, InitKept DEF encVars
<1>13. PushedFresh'
  BY <1>1, <1>2 DEF PushedFresh, encVars
<1>14. MppTracked'
  BY <1>1, <1>2, <1>4, <1>7, MppStep DEF EncoderInv, encVars
<1> QED
  BY <1>9, <1>10, <1>11, <1>12, <1>13, <1>14 DEF EncoderInv, HeapInv

\* A thread whose conversion is over becomes idle: what Return and Encode share.
LEMMA EndStep ==
    ASSUME EncoderInv, NEW t \in Thread, conv[t].pc = "done",
           conv' = [conv EXCEPT ![t] = Idle(conv[t].call)],
           UNCHANGED <<open, imported, shows, failures>>
    PROVE  /\ conv' \in [Thread -> Conversion] /\ HeapInv' /\ CopyTracked'
           /\ Idle(conv[t].call) \in Conversion
<1> DEFINE c == Idle(conv[t].call)
<1>1. TypeOK /\ HeapInv /\ CopyTracked
  BY DEF EncoderInv, HeapInv
<1>2. /\ conv \in [Thread -> Conversion] /\ conv[t] \in Conversion
      /\ conv[t].call \in 0 .. MaxCalls /\ shows[t] \in 0 .. MaxCalls
  BY <1>1 DEF TypeOK, Conversion
<1>3. /\ c \in Conversion /\ c.pc = "idle" /\ c.call = conv[t].call
      /\ c.src = None /\ c.dst = None
  BY <1>2, IdleConversion DEF Idle
<1>4. conv' = [conv EXCEPT ![t] = c]
  OBVIOUS
<1> HIDE DEF c
<1>5. conv' \in [Thread -> Conversion] /\ conv'[t] = c
  BY <1>2, <1>3, <1>4, ConversionStep
<1>6. HeapInv'
  BY <1>1, <1>3, <1>4, HeapUntouched
<1>7. CopyOf(t)'
  <2>1. shows[t] <= conv[t].call
    BY <1>1, <1>2, EncoderAssumption DEF CopyTracked, CopyOf
  <2> QED
    BY <1>3, <1>5, <2>1 DEF CopyOf
<1>8. CopyTracked'
  BY <1>1, <1>3, <1>4, <1>7, CopyStep
<1>9. Idle(conv[t].call) \in Conversion
  BY <1>3 DEF c
<1> QED
  BY <1>5, <1>6, <1>8, <1>9

\* EncoderInv survives a conversion whose result is not encoded.
LEMMA ReturnInv ==
    ASSUME EncoderInv, NEW t \in Thread, Return(t)
    PROVE  EncoderInv'
<1>1. TypeOK /\ InitTracked /\ PushedFresh
  BY DEF EncoderInv
<1>2. /\ conv[t].pc = "done" /\ conv' = [conv EXCEPT ![t] = Idle(conv[t].call)]
      /\ UNCHANGED <<open, imported, shows, failures, encVars>>
  BY DEF Return
<1>3. /\ conv' \in [Thread -> Conversion] /\ HeapInv' /\ CopyTracked'
      /\ Idle(conv[t].call) \in Conversion
  BY <1>2, EndStep
<1>4. TypeOK'
  BY <1>1, <1>2, <1>3 DEF TypeOK, encVars
<1>5. InitTracked'
  <2>1. t = "rtsp" => setup.step = 10
    BY <1>1, <1>2, AfterInit
  <2> QED
    BY <1>1, <1>2, <1>3, <2>1, InitKept DEF encVars
<1>6. PushedFresh'
  BY <1>1, <1>2 DEF PushedFresh, encVars
<1>7. MppTracked'
  <2>1. Idle(conv[t].call).pc = "idle" /\ Idle(conv[t].call).call = conv[t].call
    BY DEF Idle
  <2> QED
    BY <1>1, <1>2, <1>3, <2>1, MppStep DEF EncoderInv, encVars
<1> QED
  BY <1>3, <1>4, <1>5, <1>6, <1>7 DEF EncoderInv, HeapInv

\* EncoderInv survives encode: what is pushed is the picture of this call, or an
\* earlier one after IM_STATUS_FAILED or when MPP had kept a packet.
LEMMA EncodeInv ==
    ASSUME EncoderInv, Encode
    PROVE  EncoderInv'
<1> DEFINE t == "rtsp"
<1>1. TypeOK /\ InitTracked /\ PushedFresh /\ CopyTracked /\ MppTracked
  BY DEF EncoderInv
<1>2. /\ t \in Thread /\ conv[t].pc = "done" /\ ~Rejected(conv[t].ret)
      /\ conv' = [conv EXCEPT ![t] = Idle(conv[t].call)]
      /\ countIdx_' = countIdx_ + 1
      /\ UNCHANGED <<open, imported, shows, failures, setup, p>>
  BY DEF Encode, Thread
<1>3. PICK header \in BOOLEAN, put \in BOOLEAN, got \in BOOLEAN :
          /\ header => p.allocated
          /\ put => p.allocated
          /\ got => put
          /\ LET queue == IF put THEN Append(mpp, shows[t]) ELSE mpp
             IN  \E picture \in IF got THEN Range(queue) ELSE {NoPicture} :
                    /\ mpp' = IF got THEN Tail(queue) ELSE queue
                    /\ pushed' = IF header \/ got
                                   THEN [call |-> conv[t].call, ret |-> conv[t].ret,
                                         header |-> header, picture |-> picture,
                                         kept |-> Len(mpp)]
                                   ELSE pushed
  BY ZenonT(40) DEF Encode
<1> DEFINE queue == IF put THEN Append(mpp, shows[t]) ELSE mpp
<1>4. PICK picture \in IF got THEN Range(queue) ELSE {NoPicture} :
          /\ mpp' = IF got THEN Tail(queue) ELSE queue
          /\ pushed' = IF header \/ got
                         THEN [call |-> conv[t].call, ret |-> conv[t].ret,
                               header |-> header, picture |-> picture,
                               kept |-> Len(mpp)]
                         ELSE pushed
  BY <1>3
<1> HIDE DEF t
<1>5. /\ conv' \in [Thread -> Conversion] /\ HeapInv' /\ CopyTracked'
      /\ Idle(conv[t].call) \in Conversion
  BY <1>2, EndStep
<1>6. /\ conv \in [Thread -> Conversion] /\ shows[t] \in 0 .. MaxCalls
      /\ conv[t].call \in 0 .. MaxCalls /\ conv[t].ret \in {0, 1}
      /\ mpp \in Seq(0 .. MaxCalls)
  BY <1>1, <1>2 DEF TypeOK, Conversion, Rejected
<1>7. shows[t] = conv[t].call \/ (conv[t].ret = 0 /\ shows[t] < conv[t].call)
  BY <1>1, <1>2, <1>6 DEF CopyTracked, CopyOf
<1>8. /\ queue \in Seq(0 .. MaxCalls)
      /\ got => Len(queue) > 0
      /\ \A n \in 1 .. Len(queue) :
            (n \in 1 .. Len(mpp) /\ queue[n] = mpp[n]) \/ queue[n] = shows[t]
  <2>1. CASE put
    <3>1. queue = Append(mpp, shows[t])
      BY <2>1
    <3> HIDE DEF queue
    <3>2. queue \in Seq(0 .. MaxCalls) /\ Len(queue) = Len(mpp) + 1 /\ Len(mpp) \in Nat
      BY <1>6, <3>1
    <3>3. ASSUME NEW n \in 1 .. Len(queue)
          PROVE  (n \in 1 .. Len(mpp) /\ queue[n] = mpp[n]) \/ queue[n] = shows[t]
      BY <1>6, <3>1, <3>2
    <3> QED
      BY <3>2, <3>3
  <2>2. CASE ~put
    <3>1. queue = mpp
      BY <2>2
    <3> HIDE DEF queue
    <3> QED
      BY <1>3, <1>6, <2>2, <3>1
  <2> QED
    BY <2>1, <2>2
<1> HIDE DEF queue
<1>9. \A n \in 1 .. Len(mpp) : mpp[n] < conv[t].call
  BY <1>1, <1>2 DEF MppTracked, t
<1>10. \A n \in 1 .. Len(queue) :
           /\ queue[n] \in 0 .. MaxCalls /\ queue[n] <= conv[t].call
           /\ \/ queue[n] = conv[t].call
              \/ (conv[t].ret = 0 \/ Len(mpp) > 0) /\ queue[n] < conv[t].call
  <2> SUFFICES ASSUME NEW n \in 1 .. Len(queue)
               PROVE  /\ queue[n] \in 0 .. MaxCalls /\ queue[n] <= conv[t].call
                      /\ \/ queue[n] = conv[t].call
                         \/ (conv[t].ret = 0 \/ Len(mpp) > 0) /\ queue[n] < conv[t].call
    OBVIOUS
  <2>1. queue[n] \in 0 .. MaxCalls
    <3>1. queue \in Seq(0 .. MaxCalls)
      BY <1>8
    <3> QED
      BY <3>1, EncoderAssumption
  <2>2. CASE n \in 1 .. Len(mpp) /\ queue[n] = mpp[n]
    <3>1. Len(mpp) > 0
      <4>1. Len(mpp) \in Nat
        BY <1>6
      <4> QED
        BY <2>2, <4>1
    <3>2. queue[n] < conv[t].call
      BY <1>9, <2>2
    <3>3. conv[t].call \in Int /\ queue[n] \in Int
      BY <1>6, <2>1, EncoderAssumption
    <3> QED
      BY <2>1, <3>1, <3>2, <3>3
  <2>3. CASE queue[n] = shows[t]
    BY <1>6, <1>7, <2>1, <2>3
  <2> QED
    BY <1>8, <2>1, <2>2, <2>3
<1>11. got => /\ picture \in 0 .. MaxCalls
              /\ \/ picture = conv[t].call
                 \/ (conv[t].ret = 0 \/ Len(mpp) > 0) /\ picture < conv[t].call
  <2> SUFFICES ASSUME got
               PROVE  /\ picture \in 0 .. MaxCalls
                      /\ \/ picture = conv[t].call
                         \/ (conv[t].ret = 0 \/ Len(mpp) > 0) /\ picture < conv[t].call
    OBVIOUS
  <2>1. DOMAIN queue = 1 .. Len(queue)
    BY <1>8
  <2>2. PICK n \in 1 .. Len(queue) : picture = queue[n]
    BY <1>4, <2>1 DEF Range
  <2> QED
    BY <1>10, <2>2
<1>12. ~got => picture = NoPicture
  BY <1>4
<1>13. mpp' \in Seq(0 .. MaxCalls) /\ \A n \in 1 .. Len(mpp') : mpp'[n] <= conv[t].call
  <2>1. CASE got
    <3>1. mpp' = Tail(queue) /\ Len(queue) > 0
      BY <1>4, <1>8, <2>1
    <3>2. /\ mpp' \in Seq(0 .. MaxCalls) /\ Len(mpp') = Len(queue) - 1
          /\ \A n \in 1 .. Len(mpp') : n + 1 \in 1 .. Len(queue) /\ mpp'[n] = queue[n + 1]
      BY <1>8, <3>1
    <3> QED
      BY <1>10, <3>2
  <2>2. CASE ~got
    BY <1>4, <1>8, <1>10, <2>2
  <2> QED
    BY <2>1, <2>2
<1>14. TypeOK'
  <2>1. countIdx_' \in Nat
    BY <1>1, <1>2 DEF TypeOK
  <2>2. pushed' \in [call : 0 .. MaxCalls, ret : {1, 0, -1}, header : BOOLEAN,
                     picture : 0 .. MaxCalls \cup {NoPicture}, kept : Nat]
    <3>1. CASE header \/ got
      <4>1. picture \in 0 .. MaxCalls \cup {NoPicture} /\ Len(mpp) \in Nat
        BY <1>6, <1>11, <1>12
      <4> QED
        BY <1>4, <1>6, <3>1, <4>1
    <3>2. CASE ~(header \/ got)
      BY <1>1, <1>4, <3>2 DEF TypeOK
    <3> QED
      BY <3>1, <3>2
  <2> QED
    BY <1>1, <1>2, <1>5, <1>13, <2>1, <2>2 DEF TypeOK
<1>15. setup.step = 10
  BY <1>1, <1>2, AfterInit DEF t
<1>16. InitTracked'
  <2>1. pushed' # NoPush => setup.failed = {}
    BY <1>1, <1>3, <1>4 DEF InitTracked
  <2> QED
    BY <1>1, <1>2, <1>15, <2>1 DEF InitTracked
<1>17. PushedFresh'
  <2>1. CASE ~(header \/ got)
    BY <1>1, <1>4, <2>1 DEF PushedFresh
  <2>2. CASE ~got /\ header
    BY <1>4, <1>12, <2>2 DEF PushedFresh
  <2>3. CASE got
    <3>1. /\ pushed'.picture = picture /\ pushed'.call = conv[t].call
          /\ pushed'.ret = conv[t].ret /\ pushed'.kept = Len(mpp)
      BY <1>4, <2>3
    <3>2. picture # NoPicture
      BY <1>11, <2>3, EncoderAssumption DEF NoPicture
    <3> QED
      BY <1>11, <2>3, <3>1, <3>2 DEF PushedFresh
  <2> QED
    BY <2>1, <2>2, <2>3
<1>18. MppTracked'
  <2>1. conv'[t] = Idle(conv[t].call)
    BY <1>2, <1>6
  <2>2. conv'[t].pc = "idle" /\ conv'[t].call = conv[t].call
    BY <2>1 DEF Idle
  <2> QED
    BY <1>13, <2>2 DEF MppTracked, t
<1> QED
  BY <1>5, <1>14, <1>16, <1>17, <1>18 DEF EncoderInv, HeapInv

\* EncoderInv survives a step of MppEncoder::init: after a failure p is gone, so
\* the next step that uses it ends the process, unless the last one failed.
LEMMA InitActionInv ==
    ASSUME EncoderInv, init
    PROVE  EncoderInv'
<1>1. TypeOK /\ HeapInv /\ InitTracked /\ PushedFresh /\ CopyTracked /\ MppTracked
  BY DEF EncoderInv, HeapInv
<1>2. UNCHANGED <<open, imported, conv, shows, failures, countIdx_, mpp, pushed>>
  BY DEF init, rgaVars
<1>3. /\ setup \in [step : 1 .. 10, failed : SUBSET Range(InitStep), crashed : BOOLEAN]
      /\ p \in [allocated : BOOLEAN, mpi : BOOLEAN]
  BY <1>1, InitSteps DEF TypeOK
<1>4. setup.step \in 1 .. 9
  BY <1>3, InitSteps DEF init, Initialised
<1>5. /\ InitStep[setup.step] \in Range(InitStep)
      /\ InitStep[setup.step] = "mpp_create" <=> setup.step = 5
      /\ setup.step = 9 => InitStep[setup.step] = "test_mpp_enc_cfg_setup"
  BY <1>4, InitSteps
<1>6. conv["rtsp"].pc = "idle" /\ pushed = NoPush
  BY <1>1, <1>4 DEF InitTracked
<1>7. /\ setup' \in [step : 1 .. 10, failed : SUBSET Range(InitStep), crashed : BOOLEAN]
      /\ p' \in [allocated : BOOLEAN, mpi : BOOLEAN]
      /\ InitTracked'
  <2>1. CASE Crash
    BY <1>1, <1>2, <1>3, <2>1 DEF Crash, InitTracked
  <2>2. CASE (setup.step = 1 \/ p.allocated) /\ StepSucceeds
    <3>1. setup.failed = {}
      BY <1>1, <1>3, <2>2 DEF InitTracked
    <3>2. p.mpi <=> setup.step > 5
      BY <1>1, <3>1 DEF InitTracked
    <3>3. /\ setup' = [setup EXCEPT !.step = @ + 1]
          /\ p' = [allocated |-> TRUE, mpi |-> p.mpi \/ InitStep[setup.step] = "mpp_create"]
      BY <2>2 DEF StepSucceeds
    <3>4. /\ setup'.step = setup.step + 1 /\ setup'.failed = {}
          /\ setup' \in [step : 1 .. 10, failed : SUBSET Range(InitStep), crashed : BOOLEAN]
      BY <1>3, <1>4, <3>1, <3>3
    <3>5. p'.allocated = TRUE /\ (p'.mpi <=> setup'.step > 5)
      <4>1. p'.allocated = TRUE /\ p'.mpi = (p.mpi \/ InitStep[setup.step] = "mpp_create")
        BY <3>3
      <4>2. (p.mpi \/ InitStep[setup.step] = "mpp_create") <=> setup'.step > 5
        BY <1>4, <1>5, <3>2, <3>4
      <4> QED
        BY <4>1, <4>2
    <3>6. p' \in [allocated : BOOLEAN, mpi : BOOLEAN]
      BY <1>3, <3>3
    <3> QED
      BY <1>2, <1>4, <1>6, <3>4, <3>5, <3>6 DEF InitTracked
  <2>3. CASE StepFails /\ ~Crash
    <3>1. /\ p.allocated
          /\ setup' = [setup EXCEPT !.step = @ + 1, !.failed = @ \cup {InitStep[setup.step]}]
          /\ p' = [allocated |-> FALSE, mpi |-> FALSE]
      BY <2>3 DEF StepFails
    <3>2. setup.failed = {}
      BY <1>1, <3>1 DEF InitTracked
    <3>3. /\ setup'.step = setup.step + 1 /\ setup'.failed = {InitStep[setup.step]}
          /\ setup' \in [step : 1 .. 10, failed : SUBSET Range(InitStep), crashed : BOOLEAN]
      <4>1. setup.failed \cup {InitStep[setup.step]} = {InitStep[setup.step]}
        BY <3>2
      <4>2. {InitStep[setup.step]} \in SUBSET Range(InitStep) /\ setup.step + 1 \in 1 .. 10
        BY <1>4, <1>5
      <4>3. setup' = [setup EXCEPT !.step = @ + 1, !.failed = {InitStep[setup.step]}]
        BY <3>1, <4>1
      <4> QED
        BY <1>3, <4>2, <4>3
    <3>4. p' \in [allocated : BOOLEAN, mpi : BOOLEAN] /\ ~p'.allocated /\ ~p'.mpi
      BY <3>1
    <3>5. setup'.step = 10 => setup'.failed = {"test_mpp_enc_cfg_setup"}
      BY <1>4, <1>5, <3>3
    <3>6. setup'.failed # {}
      BY <3>3
    <3> QED
      BY <1>2, <1>4, <1>6, <3>3, <3>4, <3>5, <3>6 DEF InitTracked
  <2> QED
    BY <2>1, <2>2, <2>3 DEF init
<1>8. TypeOK'
  BY SMTT(30), <1>1, <1>2, <1>7, InitSteps DEF TypeOK
<1>9. HeapInv' /\ CopyTracked' /\ MppTracked' /\ PushedFresh'
  BY <1>1, <1>2 DEF HeapInv, BuffersHeld, HeldBy, LeaksExplained, Leaked, InUse, Buffers,
                    CopyTracked, CopyOf, MppTracked, PushedFresh
<1> QED
  BY <1>7, <1>8, <1>9 DEF EncoderInv, HeapInv

-----------------------------------------------------------------------------
(* The theorems. *)

\* EncoderInv holds before the first frame.
LEMMA EncoderInitial == Init => EncoderInv
<1> SUFFICES ASSUME Init PROVE EncoderInv
  OBVIOUS
<1>1. 0 \in 0 .. MaxCalls /\ 1 \in 1 .. 10
  BY EncoderAssumption
<1>2. Idle(0) \in Conversion
  BY <1>1, IdleConversion
<1>3. TypeOK
  BY <1>1, <1>2, InitSteps DEF Init, TypeOK, NoPush
<1>4. \A t \in Thread : /\ conv[t].pc = "idle" /\ conv[t].call = 0
                        /\ conv[t].src = None /\ conv[t].dst = None /\ shows[t] = 0
  BY DEF Init, Idle
<1>5. \A t \in Thread : Buffers(t) = {}
  BY <1>4 DEF Buffers
<1>6. BuffersHeld /\ CopyTracked
  BY <1>4 DEF BuffersHeld, HeldBy, CopyTracked, CopyOf
<1>7. LeaksExplained
  <2>1. InUse = {} /\ Leaked = {}
    BY <1>5 DEF Init, InUse, Leaked, Thread
  <2>2. Cardinality(Leaked) = 0
    BY <2>1, FS_EmptySet
  <2> QED
    BY <1>5, <2>1, <2>2 DEF Init, LeaksExplained, Thread
<1>8. PushedFresh
  BY DEF Init, PushedFresh
<1>9. InitTracked /\ MppTracked
  BY <1>4 DEF Init, InitTracked, MppTracked, Thread
<1> QED
  BY <1>3, <1>6, <1>7, <1>8, <1>9 DEF EncoderInv

\* EncoderInv is inductive: no step of the two threads, in whatever order, takes
\* it away.
THEOREM EncoderInvariant == Spec => []EncoderInv
<1>1. Init => EncoderInv
  BY EncoderInitial
<1>2. EncoderInv /\ [Next]_vars => EncoderInv'
  <2> SUFFICES ASSUME EncoderInv, [Next]_vars PROVE EncoderInv'
    OBVIOUS
  <2>1. CASE init
    BY <2>1, InitActionInv
  <2>2. ASSUME NEW t \in Thread,
               Begin(t) \/ AllocSrc(t) \/ AllocDst(t) \/ Import(t) \/ Check(t)
                 \/ Convert(t) \/ Return(t)
        PROVE  EncoderInv'
    BY <2>2, BeginInv, MiddleInv, ConvertInv, ReturnInv DEF Middle
  <2>3. CASE Encode
    BY <2>3, EncodeInv
  <2>4. CASE UNCHANGED vars
    BY ZenonT(40), <2>4
       DEF vars, rgaVars, encVars, EncoderInv, TypeOK, BuffersHeld, HeldBy, LeaksExplained,
           Leaked, InUse, Buffers, CopyTracked, CopyOf, MppTracked, PushedFresh, InitTracked
  <2> QED
    BY <2>1, <2>2, <2>3, <2>4 DEF Next
<1> QED
  BY <1>1, <1>2, PTL DEF Spec

\* Every variable keeps its type.
THEOREM EncoderTypeCorrect == Spec => []TypeOK
<1>1. EncoderInv => TypeOK
  BY DEF EncoderInv
<1> QED
  BY <1>1, EncoderInvariant, PTL

\* However the conversions of the two threads interleave and fail, what is left
\* in the dma heap is what the failures of imcheck, importbuffer_fd and mmap
\* leave, and neither thread gets a buffer the other one uses.
THEOREM LeaksAreExplained == Spec => []LeaksExplained
<1>1. EncoderInv => LeaksExplained
  BY DEF EncoderInv
<1> QED
  BY <1>1, EncoderInvariant, PTL

\* push_h264_stream never gets a picture of an earlier frame, except after a
\* conversion that ended with IM_STATUS_FAILED or when MPP had kept a packet an
\* earlier encode failed to get; it never gets a later one, nor an empty push.
THEOREM PushesAreFresh == Spec => []PushedFresh
<1>1. EncoderInv => PushedFresh
  BY DEF EncoderInv
<1> QED
  BY <1>1, EncoderInvariant, PTL

\* A process that survives MppEncoder::init has all of it, or only lacks the
\* last step and then pushes nothing.
THEOREM InitIsAllOrNothing == Spec => []InitAllOrNothing
<1>1. EncoderInv => InitAllOrNothing
  <2> SUFFICES ASSUME EncoderInv, Initialised PROVE InitAllOrNothing
    BY DEF InitAllOrNothing
  <2>1. TypeOK /\ InitTracked
    BY DEF EncoderInv
  <2>2. setup.step = 10
    BY <2>1, AfterInit
  <2>3. p \in [allocated : BOOLEAN, mpi : BOOLEAN]
    BY <2>1 DEF TypeOK
  <2>4. CASE setup.failed = {}
    <3>1. p.allocated = TRUE /\ p.mpi = TRUE
      BY <2>1, <2>2, <2>3, <2>4 DEF InitTracked
    <3>2. p = [allocated |-> TRUE, mpi |-> TRUE]
      BY <2>3, <3>1
    <3> QED
      BY <2>4, <3>2 DEF InitAllOrNothing
  <2>5. CASE setup.failed # {}
    BY <2>1, <2>2, <2>5 DEF InitTracked, InitAllOrNothing
  <2> QED
    BY <2>4, <2>5
<1> QED
  BY <1>1, EncoderInvariant, PTL

=============================================================================
