-------------------------- MODULE DetectionProofs --------------------------
(***************************************************************************)
(* What is proved of Detection for every number of candidates, classes and *)
(* results, and every order of scores and boxes: the types, that every     *)
(* cell is judged as its real scores would be, that the results are        *)
(* genuine and apart, that nothing is lost, and that they are drawn in     *)
(* their place.                                                            *)
(*                                                                         *)
(* The invariant DetectionInv follows the candidates through post_process. *)
(* While they are sorted, the arrays with the key put back in its place    *)
(* are the scores of the candidates in some order, and two elements are in *)
(* descending order unless one of the ranges still to be sorted holds      *)
(* both.  While nms runs, a candidate that was removed overlaps one that   *)
(* stays, in a row that is done.  While the group is filled, it has all    *)
(* that passed so far, unless it is full.                                  *)
(***************************************************************************)
EXTENDS Detection, SequenceTheorems, WellFoundedInduction, TLAPS

-----------------------------------------------------------------------------
(* The inductive invariant *)

\* The arrays as they are when the key of the partition under way is put back.
Score_ == IF part = NoPart THEN boxesScore ELSE [boxesScore EXCEPT ![part.low] = part.key]
Index_ == IF part = NoPart THEN indexArray ELSE [indexArray EXCEPT ![part.low] = part.key_index]

\* Every candidate has passed the test against CONF_THRESHOLD.
ScoresAbove == \A n \in Position : found[n] > CONF_THRESHOLD

\* What has not begun yet.
Phases ==
    /\ pc \in {"resize", "scan"} => boxesScore = found /\ indexArray = <<>> /\ calls = <<>>
    /\ pc # "sort" => part = NoPart
    /\ pc \in {"resize", "scan", "sort", "nms"} => group = <<>>
    /\ pc # "return" => drawn = <<>>
    /\ pc \notin {"resize", "scan"} => Len(indexArray) = validCount
    /\ pc \in {"sort", "nms"} => validCount > 0
    /\ pc \in {"nms", "emit"} => row.i > 0
    /\ pc \in {"draw", "return"} => \A p \in Position : p < row.i

\* The indices are those of the candidates, and each has its own score.
Permutation(score, index) ==
    /\ \A p \in Position : index[p] \in Position /\ score[p] = found[index[p]]
    /\ \A p, q \in Position : index[p] = index[q] => p = q
    /\ \A n \in Position : \E p \in Position : index[p] = n

\* The ranges still to be sorted follow one another, after the one that is
\* being partitioned.
RangesApart ==
    /\ \A c \in DOMAIN calls : 1 <= calls[c][1] /\ calls[c][2] <= validCount
    /\ \A c, d \in DOMAIN calls : c < d => calls[c][2] < calls[d][1]
    /\ part # NoPart => \A c \in DOMAIN calls : part.right < calls[c][1]

\* A range still to be sorted has both.
Together(p, q) ==
    \/ \E c \in DOMAIN calls : calls[c][1] <= p /\ q <= calls[c][2]
    \/ part # NoPart /\ part.left <= p /\ q <= part.right

\* The halves that are being made around the key.
Halves(score) ==
    part # NoPart =>
        /\ 1 <= part.left /\ part.left < part.right /\ part.right <= validCount
        /\ part.left <= part.low /\ part.high <= part.right
        /\ \A p \in part.left .. part.low - 1 : score[p] >= part.key
        /\ \A p \in part.high + 1 .. part.right : score[p] <= part.key

Sorting ==
    pc = "sort" =>
        /\ Permutation(Score_, Index_)
        /\ RangesApart
        /\ Halves(Score_)
        /\ \A p, q \in Position : p < q => Score_[p] >= Score_[q] \/ Together(p, q)

\* After the sort the scores descend, and what nms has not removed is in its place.
Sorted ==
    pc \notin {"resize", "scan", "sort"} =>
        /\ \A p, q \in Position : p < q => boxesScore[p] >= boxesScore[q]
        /\ \A p \in Position :
              indexArray[p] # Removed =>
                 indexArray[p] \in Position /\ boxesScore[p] = found[indexArray[p]]
        /\ \A p, q \in Position :
              indexArray[p] = indexArray[q] /\ indexArray[p] # Removed => p = q

\* nms has used position p, which is of class c, to remove others.
Done(c, p) ==
    \/ pc # "nms"
    \/ c < row.filterId
    \/ c = row.filterId /\ p < row.i

\* Position p still has candidate n, of class c.
Holds(p, n, c) == indexArray[p] = n /\ n \in Position /\ classId[n] = c

\* What nms leaves of a class does not overlap.
KeptApart ==
    pc \notin {"resize", "scan", "sort"} =>
        \A p, q \in Position : \A m, n \in Position : \A c \in Class :
            p < q /\ Holds(p, m, c) /\ Holds(q, n, c) /\ Done(c, p)
                => ~Overlaps(filterBoxes[m], filterBoxes[n])

\* What it removes overlaps something that stays and has no lower score.
RemovedCovered ==
    pc \notin {"resize", "scan", "sort"} =>
        \A n \in Position :
            \/ \E p \in Position : indexArray[p] = n
            \/ \E p, m \in Position :
                  /\ Holds(p, m, classId[n])
                  /\ Done(classId[n], p)
                  /\ boxesScore[p] >= found[n]
                  /\ Overlaps(filterBoxes[m], filterBoxes[n])

\* The results are candidates at the positions before i, in their order.
GroupGenuine ==
    \A k \in DOMAIN group :
        /\ group[k].prop = found[group[k].n]
        /\ group[k].class_index = classId[group[k].n]
        /\ group[k].box = Edges(filterBoxes[group[k].n])
        /\ \E p \in Position : p < row.i /\ indexArray[p] = group[k].n
        /\ \A j \in DOMAIN group : j < k =>
              group[j].n # group[k].n /\ group[j].prop >= group[k].prop

\* A candidate before i is in the group, or the group is full.
GroupComplete ==
    pc \in {"emit", "draw", "return"} =>
        \A p \in Position :
            p < row.i /\ indexArray[p] # Removed =>
                \/ \E k \in DOMAIN group : group[k].n = indexArray[p]
                \/ /\ Len(group) = OBJ_NUMB_MAX_SIZE
                   /\ \A k \in DOMAIN group : group[k].prop >= boxesScore[p]

\* The letter box of an image that is resized, none for the others.
LetterBoxOf(in) == IF in = target THEN NoLetterBox ELSE compute_letter_box(in, target)

\* letter_box is that of the camera's images, from the first resize on.
LetterBoxed ==
    /\ image \in ImageSize
    /\ letter_box \in {NoLetterBox, LetterBoxOf(image)}
    /\ pc # "resize" => letter_box = LetterBoxOf(image)

DetectionInv ==
    /\ TypeOK
    /\ ScoresAbove
    /\ Phases
    /\ Sorting
    /\ Sorted
    /\ KeptApart
    /\ RemovedCovered
    /\ GroupGenuine
    /\ GroupComplete
    /\ DrawnInPlace

-----------------------------------------------------------------------------
(* Smallest and greatest elements *)

\* A set of naturals has a smallest element.
LEMMA NatMin ==
    ASSUME NEW S \in SUBSET Nat, S # {}
    PROVE  \E x \in S : \A y \in S : x <= y
<1>. DEFINE R == OpToRel(<, Nat)
<1>1. \E x \in S : \A y \in S : <<y, x>> \notin R
  <2>. HIDE DEF R
  <2>. QED  BY NatLessThanWellFounded, WFMin DEF R
<1>2. \A x, y \in Nat : y < x => <<y, x>> \in R
  BY DEF OpToRel
<1>. HIDE DEF R
<1>3. PICK x \in S : \A y \in S : <<y, x>> \notin R
  BY <1>1
<1>4. \A y \in S : x <= y
  <2>. SUFFICES ASSUME NEW y \in S PROVE x <= y
    OBVIOUS
  <2>1. ~(y < x)
    BY <1>2, <1>3
  <2>. QED  BY <2>1
<1>. QED  BY <1>4

LEMMA MinOf ==
    ASSUME NEW S \in SUBSET Int, S # {}, NEW lo \in Int, \A x \in S : lo <= x
    PROVE  Min(S) \in S /\ \A y \in S : Min(S) <= y
<1>. DEFINE T == {x - lo : x \in S}
<1>1. T \in SUBSET Nat /\ T # {}
  <2>1. \A x \in S : x - lo \in Nat
    OBVIOUS
  <2>2. PICK x \in S : TRUE
    OBVIOUS
  <2>3. x - lo \in T
    OBVIOUS
  <2>. QED  BY <2>1, <2>3
<1>2. PICK d \in T : \A e \in T : d <= e
  <2>. HIDE DEF T
  <2>. QED  BY <1>1, NatMin
<1>3. PICK x \in S : d = x - lo
  OBVIOUS
<1>4. \A y \in S : x <= y
  <2>. SUFFICES ASSUME NEW y \in S PROVE x <= y
    OBVIOUS
  <2>1. y - lo \in T
    OBVIOUS
  <2>2. x - lo <= y - lo
    BY <2>1, <1>2, <1>3
  <2>. QED  BY <2>2
<1>. QED  BY <1>4 DEF Min

LEMMA MaxOf ==
    ASSUME NEW S \in SUBSET Int, S # {}, NEW hi \in Int, \A x \in S : x <= hi
    PROVE  Max(S) \in S /\ \A y \in S : y <= Max(S)
<1>. DEFINE T == {hi - x : x \in S}
<1>1. T \in SUBSET Nat /\ T # {}
  <2>1. \A x \in S : hi - x \in Nat
    OBVIOUS
  <2>2. PICK x \in S : TRUE
    OBVIOUS
  <2>3. hi - x \in T
    OBVIOUS
  <2>. QED  BY <2>1, <2>3
<1>2. PICK d \in T : \A e \in T : d <= e
  <2>. HIDE DEF T
  <2>. QED  BY <1>1, NatMin
<1>3. PICK x \in S : d = hi - x
  OBVIOUS
<1>4. \A y \in S : x >= y
  <2>. SUFFICES ASSUME NEW y \in S PROVE x >= y
    OBVIOUS
  <2>1. hi - y \in T
    OBVIOUS
  <2>2. hi - x <= hi - y
    BY <2>1, <1>2, <1>3
  <2>. QED  BY <2>2
<1>5. Max(S) \in S /\ \A y \in S : Max(S) >= y
  BY <1>4 DEF Max
<1>. QED  BY <1>5

-----------------------------------------------------------------------------
(* Division *)

LEMMA DivMod ==
    ASSUME NEW a \in Nat, NEW n \in Nat \ {0}
    PROVE  a \div n \in Nat /\ a % n \in 0 .. n - 1 /\ a = n * (a \div n) + (a % n)
OBVIOUS

LEMMA MulNext ==
    ASSUME NEW i \in Int, NEW n \in Int
    PROVE  (i + 1) * n = i * n + n /\ n * (i + 1) = n * i + n /\ i * n = n * i /\ i * n \in Int
OBVIOUS

LEMMA MulMonotonic ==
    ASSUME NEW a \in Int, NEW b \in Int, NEW n \in Nat, a <= b
    PROVE  a * n <= b * n
<1>1. (b - a) * n \in Nat /\ b * n = a * n + (b - a) * n
  OBVIOUS
<1>. QED  BY <1>1

\* The quotient is the only number with this property.
LEMMA DivBounds ==
    ASSUME NEW a \in Nat, NEW n \in Nat \ {0}
    PROVE  /\ a \div n \in Nat
           /\ (a \div n) * n <= a
           /\ a < (a \div n + 1) * n
<1>. DEFINE q == a \div n
            r == a % n
<1>1. q \in Nat /\ r \in Nat /\ r < n /\ a = n * q + r
  BY DivMod
<1>. HIDE DEF q, r
<1>2. (q + 1) * n = q * n + n /\ q * n = n * q /\ q * n \in Int
  BY <1>1, MulNext
<1>3. q \in Nat /\ q * n <= a /\ a < (q + 1) * n
  BY <1>1, <1>2
<1>. QED  BY <1>3 DEF q

\* A product below (q + 1) * n that is a multiple of n is at most q * n.
LEMMA MulCancel ==
    ASSUME NEW p \in Int, NEW q \in Int, NEW n \in Nat \ {0}, p * n < (q + 1) * n
    PROVE  p <= q
<1>1. ASSUME q + 1 <= p PROVE FALSE
  <2>1. (q + 1) * n <= p * n
    BY <1>1, MulMonotonic
  <2>2. (q + 1) * n \in Int /\ p * n \in Int
    OBVIOUS
  <2>. QED  BY <2>1, <2>2
<1>. QED  BY <1>1

LEMMA DivMonotonic ==
    ASSUME NEW a \in Nat, NEW b \in Nat, NEW n \in Nat \ {0}, a <= b
    PROVE  a \div n <= b \div n
<1>. DEFINE p == a \div n
            q == b \div n
<1>1. p \in Nat /\ q \in Nat /\ p * n <= a /\ b < (q + 1) * n
  BY DivBounds
<1>. HIDE DEF p, q
<1>2. p * n \in Int /\ (q + 1) * n \in Int
  BY <1>1
<1>3. p * n < (q + 1) * n
  BY <1>1, <1>2
<1>4. p <= q
  BY <1>1, <1>3, MulCancel
<1>. QED  BY <1>4 DEF p, q

\* Truncation keeps the order, also where it changes from rounding down to
\* rounding up.
LEMMA TruncateMonotonic ==
    ASSUME NEW a \in Int, NEW b \in Int, NEW n \in Nat \ {0}, a <= b
    PROVE  Truncate(a, n) \in Int /\ Truncate(a, n) <= Truncate(b, n)
<1>1. CASE a >= 0
  <2>1. Truncate(a, n) = a \div n /\ Truncate(b, n) = b \div n
    BY <1>1 DEF Truncate
  <2>2. a \div n \in Nat /\ a \div n <= b \div n
    BY <1>1, DivMonotonic, DivBounds
  <2>. QED  BY <2>1, <2>2
<1>2. CASE a < 0 /\ b >= 0
  <2>1. Truncate(a, n) = -((-a) \div n) /\ Truncate(b, n) = b \div n
    BY <1>2 DEF Truncate
  <2>2. (-a) \div n \in Nat /\ b \div n \in Nat
    BY <1>2, DivBounds
  <2>. QED  BY <2>1, <2>2
<1>3. CASE a < 0 /\ b < 0
  <2>1. Truncate(a, n) = -((-a) \div n) /\ Truncate(b, n) = -((-b) \div n)
    BY <1>3 DEF Truncate
  <2>2. (-a) \div n \in Nat /\ (-b) \div n \in Nat /\ (-b) \div n <= (-a) \div n
    BY <1>3, DivMonotonic, DivBounds
  <2>. QED  BY <2>1, <2>2
<1>. QED  BY <1>1, <1>2, <1>3

\* A number above the truncated quotient is above the quotient.
LEMMA AboveTruncate ==
    ASSUME NEW a \in Int, NEW n \in Nat \ {0}, NEW q \in Int, q > Truncate(a, n)
    PROVE  q * n > a
<1>1. CASE a >= 0
  <2>1. a \div n \in Nat /\ a < (a \div n + 1) * n /\ a \div n + 1 <= q
    BY <1>1, DivBounds DEF Truncate
  <2>2. (a \div n + 1) * n <= q * n
    BY <2>1, MulMonotonic
  <2>. QED  BY <2>1, <2>2, MulNext
<1>2. CASE a < 0
  <2>. DEFINE d == (-a) \div n
  <2>1. d \in Nat /\ d * n <= -a /\ -d < q
    BY <1>2, DivBounds DEF Truncate
  <2>. HIDE DEF d
  <2>2. (-d + 1) * n <= q * n
    BY <2>1, MulMonotonic
  <2>3. (-d + 1) * n = -(d * n) + n /\ q * n \in Int /\ d * n \in Int
    BY <2>1
  <2>. QED  BY <2>1, <2>2, <2>3
<1>. QED  BY <1>1, <1>2

-----------------------------------------------------------------------------
(* Quantisation *)

\* A score above the quantised threshold is above CONF_THRESHOLD.
LEMMA ThresholdSound ==
    ASSUME NEW i \in Branch, NEW q \in Int8, q > score_thres_i8(i)
    PROVE  deqnt_affine_to_f32(q, i) \in Nat /\ deqnt_affine_to_f32(q, i) > CONF_THRESHOLD
<1>. DEFINE a == CONF_THRESHOLD + zp[i] * scale[i]
<1>1. /\ CONF_THRESHOLD \in Nat \ {0} /\ zp[i] \in Int /\ scale[i] \in Nat \ {0}
      /\ -128 <= zp[i] /\ zp[i] <= 127 /\ q \in Int /\ q <= 127
  BY DetectionAssumption DEF Int8
<1>2. a \in Int
  BY <1>1
<1>3. Truncate(a, scale[i]) \in Int
  <2>1. a <= a
    BY <1>2
  <2>. QED  BY <2>1, <1>1, <1>2, TruncateMonotonic
<1>4. score_thres_i8(i) = clamp(Truncate(a, scale[i]), -128, 127)
  BY DEF score_thres_i8, qnt_f32_to_affine
<1>. HIDE DEF a
<1>5. q > Truncate(a, scale[i])
  BY <1>1, <1>3, <1>4 DEF clamp
<1>6. q * scale[i] > a
  BY <1>1, <1>2, <1>5, AboveTruncate
<1>7. (q - zp[i]) * scale[i] = q * scale[i] - zp[i] * scale[i]
  BY <1>1
<1>8. q * scale[i] \in Int /\ zp[i] * scale[i] \in Int
  BY <1>1
<1>. QED  BY <1>1, <1>6, <1>7, <1>8 DEF deqnt_affine_to_f32, a

LEMMA TruncateExact ==
    ASSUME NEW p \in Int, NEW n \in Nat \ {0}
    PROVE  Truncate(p * n, n) = p
<1>1. ASSUME NEW k \in Nat PROVE k * n \in Nat /\ (k * n) \div n = k
  <2>. DEFINE d == (k * n) \div n
  <2>1. k * n \in Nat
    OBVIOUS
  <2>2. d \in Nat /\ d * n <= k * n /\ k * n < (d + 1) * n
    BY <2>1, DivBounds
  <2>. HIDE DEF d
  <2>3. (k + 1) * n = k * n + n /\ d * n \in Int
    BY <2>2, MulNext
  <2>4. d * n < (k + 1) * n
    BY <2>1, <2>2, <2>3
  <2>5. k <= d /\ d <= k
    BY <2>2, <2>4, MulCancel
  <2>. QED  BY <2>1, <2>2, <2>5 DEF d
<1>2. CASE p >= 0
  <2>1. p * n >= 0 /\ (p * n) \div n = p
    BY <1>1, <1>2
  <2>. QED  BY <2>1 DEF Truncate
<1>3. CASE p < 0
  <2>1. (-p) * n \in Nat /\ ((-p) * n) \div n = -p
    BY <1>1, <1>3
  <2>2. -(p * n) = (-p) * n /\ p * n <= -1
    <3>1. -(p * n) = (-p) * n /\ p * n \in Int
      OBVIOUS
    <3>2. 1 * n <= (-p) * n
      BY <1>3, MulMonotonic
    <3>. QED  BY <3>1, <3>2
  <2>3. Truncate(p * n, n) = -((-(p * n)) \div n)
    BY <2>2 DEF Truncate
  <2>4. -(-p) = p
    OBVIOUS
  <2>. QED  BY <2>1, <2>2, <2>3, <2>4
<1>. QED  BY <1>2, <1>3

\* A score whose real value is a quantum above CONF_THRESHOLD is above the
\* quantised threshold, also where that is rounded up or clipped.
LEMMA ThresholdReached ==
    ASSUME NEW i \in Branch, NEW q \in Int8, deqnt_affine_to_f32(q - 1, i) >= CONF_THRESHOLD
    PROVE  score_thres_i8(i) <= q - 1
<1>. DEFINE a == CONF_THRESHOLD + zp[i] * scale[i]
            tr == Truncate(a, scale[i])
<1>1. /\ CONF_THRESHOLD \in Nat \ {0} /\ zp[i] \in Int /\ scale[i] \in Nat \ {0}
      /\ -128 <= zp[i] /\ q - 1 \in Int /\ q - 1 <= 126
  BY SMTT(30), DetectionAssumption DEF Int8
<1>2. a \in Int /\ zp[i] * scale[i] \in Int /\ (q - 1) * scale[i] \in Int
  BY <1>1
<1>3. (q - 1 - zp[i]) * scale[i] = (q - 1) * scale[i] - zp[i] * scale[i]
  BY <1>1
<1>4. (q - 1 - zp[i]) * scale[i] >= CONF_THRESHOLD
  BY DEF deqnt_affine_to_f32
<1>5. a <= (q - 1) * scale[i]
  BY <1>1, <1>2, <1>3, <1>4
<1>. HIDE DEF a
<1>6. tr \in Int /\ tr <= q - 1
  <2>1. tr \in Int /\ tr <= Truncate((q - 1) * scale[i], scale[i])
    BY <1>1, <1>2, <1>5, TruncateMonotonic
  <2>. QED  BY <2>1, <1>1, TruncateExact
<1>7. q - 1 >= -128
  <2>1. ASSUME q - 1 <= zp[i] PROVE FALSE
    <3>1. (q - 1 - zp[i]) * scale[i] <= 0 * scale[i]
      BY <2>1, <1>1, MulMonotonic
    <3>2. 0 * scale[i] = 0 /\ (q - 1 - zp[i]) * scale[i] \in Int
      BY <1>1
    <3>. QED  BY <3>1, <3>2, <1>1, <1>4
  <2>. QED  BY <2>1, <1>1
<1>8. score_thres_i8(i) = clamp(tr, -128, 127)
  BY DEF score_thres_i8, qnt_f32_to_affine, a
<1>. HIDE DEF tr
<1>. QED  BY <1>1, <1>6, <1>7, <1>8 DEF clamp

\* max_score starts no higher than the threshold.
LEMMA StartBelow ==
    ASSUME NEW i \in Branch
    PROVE  /\ score_thres_i8(i) \in Int8
           /\ ToInt8(-zp[i]) \in Int8
           /\ ToInt8(-zp[i]) <= score_thres_i8(i)
<1>. DEFINE a == CONF_THRESHOLD + zp[i] * scale[i]
            tr == Truncate(a, scale[i])
<1>1. /\ CONF_THRESHOLD \in Nat \ {0} /\ zp[i] \in Int /\ scale[i] \in Nat \ {0}
      /\ -128 <= zp[i] /\ zp[i] <= 127
  BY SMTT(30), DetectionAssumption DEF Int8
<1>2. a \in Int /\ zp[i] * scale[i] \in Int
  BY <1>1
<1>3. tr \in Int
  <2>1. a <= a
    BY <1>2
  <2>. QED  BY <2>1, <1>1, <1>2, TruncateMonotonic
<1>4. score_thres_i8(i) = clamp(tr, -128, 127)
  BY DEF score_thres_i8, qnt_f32_to_affine
<1>5. zp[i] >= 0 => tr >= 0
  <2>. SUFFICES ASSUME zp[i] >= 0 PROVE tr >= 0
    OBVIOUS
  <2>1. zp[i] * scale[i] \in Nat
    BY <1>1
  <2>2. a \in Nat
    BY <2>1, <1>1
  <2>3. a \div scale[i] \in Nat
    BY <2>2, <1>1, DivBounds
  <2>. QED  BY <2>2, <2>3 DEF Truncate
<1>6. /\ zp[i] = -128 => ToInt8(-zp[i]) = -128
      /\ zp[i] >= 0 => ToInt8(-zp[i]) = -zp[i]
  BY <1>1 DEF ToInt8
<1>7. zp[i] = -128 \/ zp[i] >= 0
  BY ZeroPointAssumption
<1>. HIDE DEF tr, a
<1>. QED  BY <1>1, <1>3, <1>4, <1>5, <1>6, <1>7 DEF Int8, clamp

\* When a class of the cell has a score above the threshold, process_v2_i8 finds
\* one that has the highest.
LEMMA BestAbove ==
    ASSUME NEW i \in Branch, NEW score \in [Class -> Int8],
           NEW b \in Class, score[b] > score_thres_i8(i)
    PROVE  /\ Best(score, i).q > score_thres_i8(i)
           /\ Best(score, i).class \in Class
           /\ Best(score, i).q \in Int8
           /\ Best(score, i).q = score[Best(score, i).class]
           /\ \A c \in Class : score[c] <= Best(score, i).q
<1>. DEFINE start == ToInt8(-zp[i])
            thres == score_thres_i8(i)
            above == {c \in Class : score[c] > thres /\ score[c] > start}
            top   == {c \in above : \A d \in above : score[d] <= score[c]}
            best  == Best(score, i)
<1>1. /\ thres \in Int /\ start \in Int /\ start <= thres
      /\ \A c \in Class : score[c] \in Int /\ score[c] <= 127 /\ score[c] \in Int8
  BY StartBelow DEF Int8
<1>2. best = IF above = {} THEN [q |-> start, class |-> -1]
                           ELSE [q |-> score[Min(top)], class |-> Min(top)]
  BY DEF Best
<1>3. b \in above
  BY <1>1
<1>. HIDE DEF best, thres, start
<1>4. top # {}
  <2>. DEFINE values == {score[c] : c \in above}
  <2>1. values \in SUBSET Int /\ values # {} /\ \A v \in values : v <= 127
    BY <1>1, <1>3
  <2>2. Max(values) \in values /\ \A v \in values : v <= Max(values)
    <3>. HIDE DEF values, above
    <3>1. 127 \in Int
      OBVIOUS
    <3>. QED  BY <3>1, <2>1, MaxOf, Zenon
  <2>3. PICK c \in above : score[c] = Max(values)
    BY <2>2
  <2>4. \A d \in above : score[d] <= score[c]
    BY <2>2, <2>3
  <2>. QED  BY <2>3, <2>4
<1>5. Min(top) \in top
  <2>1. top \in SUBSET Int /\ \A c \in top : 0 <= c
    BY DetectionAssumption DEF Class
  <2>. HIDE DEF top
  <2>. QED  BY <2>1, <1>4, MinOf
<1>. DEFINE c == Min(top)
<1>6. c \in above /\ \A d \in above : score[d] <= score[c]
  BY <1>5
<1>7. best.q = score[c] /\ best.class = c
  BY <1>2, <1>3
<1>. HIDE DEF c
<1>8. \A d \in Class : score[d] <= score[c]
  BY <1>1, <1>6
<1>. QED  BY <1>1, <1>6, <1>7, <1>8 DEF best, thres

\* What it finds above the threshold is such a class.
LEMMA BestOf ==
    ASSUME NEW i \in Branch, NEW score \in [Class -> Int8],
           Best(score, i).q > score_thres_i8(i)
    PROVE  /\ Best(score, i).class \in Class
           /\ Best(score, i).q \in Int8
           /\ Best(score, i).q = score[Best(score, i).class]
           /\ \A c \in Class : score[c] <= Best(score, i).q
<1>1. score_thres_i8(i) \in Int /\ ToInt8(-zp[i]) \in Int /\ ToInt8(-zp[i]) <= score_thres_i8(i)
  BY StartBelow DEF Int8
<1>2. \E b \in Class : score[b] > score_thres_i8(i)
  <2>1. ASSUME ~\E b \in Class : score[b] > score_thres_i8(i) PROVE FALSE
    <3>1. Best(score, i).q = ToInt8(-zp[i])
      BY <2>1 DEF Best
    <3>. QED  BY <3>1, <1>1
  <2>. QED  BY <2>1
<1>. QED  BY <1>2, BestAbove

\* The scores of the model are numbers of eight bits.
LEMMA ScoreTyped ==
    ASSUME NEW i \in Branch, NEW score \in [Class -> Score(i)]
    PROVE  score \in [Class -> Int8]
<1>1. zp[i] \in Int8 /\ Step \subseteq Int /\ score_thres_i8(i) \in Int
  BY SMTT(30), DetectionAssumption, StartBelow DEF Int8
<1>2. Score(i) \subseteq Int8
  BY SMTT(30), <1>1 DEF Score, Int8
<1>. QED  BY <1>2

-----------------------------------------------------------------------------
(* The sum of the scores of a cell *)

\* f has the sums of the first values of v above z, up to the first m.
Totals(f, v, z, m) ==
    f = [n \in 0 .. m |-> IF n = 0 THEN 0 ELSE f[n - 1] + v[n - 1] - z]

\* Such a function exists: the sums up to m give those up to m + 1.
LEMMA SumDefined ==
    ASSUME NEW N \in Nat, NEW v \in [0 .. N - 1 -> Int], NEW z \in Int
    PROVE  \E f : Totals(f, v, z, N)
<1>. DEFINE Has(m) == \E f : Totals(f, v, z, m)
            T == {m \in 0 .. N : ~Has(m)}
<1>1. ASSUME T # {} PROVE FALSE
  <2>1. T \in SUBSET Nat
    OBVIOUS
  <2>2. PICK m \in T : \A k \in T : m <= k
    <3>. HIDE DEF T
    <3>. QED  BY <1>1, <2>1, NatMin
  <2>3. m \in Nat /\ m <= N /\ ~Has(m)
    OBVIOUS
  <2>4. CASE m = 0
    <3>. DEFINE g == [n \in 0 .. 0 |-> 0]
    <3>1. Totals(g, v, z, 0)
      BY DEF Totals
    <3>. QED  BY <3>1, <2>3, <2>4
  <2>5. CASE m > 0
    <3>1. m - 1 \in 0 .. N /\ ~(m <= m - 1)
      BY <2>3, <2>5
    <3>2. Has(m - 1)
      <4>. HIDE DEF Has
      <4>1. m - 1 \notin T
        BY <3>1, <2>2
      <4>. QED  BY <4>1, <3>1
    <3>3. PICK f : Totals(f, v, z, m - 1)
      BY <3>2
    <3>. DEFINE g == [n \in 0 .. m |-> IF n < m THEN f[n] ELSE f[m - 1] + v[m - 1] - z]
    <3>4. \A n \in 0 .. m : g[n] = IF n = 0 THEN 0 ELSE g[n - 1] + v[n - 1] - z
      <4>. SUFFICES ASSUME NEW n \in 0 .. m
                    PROVE  g[n] = IF n = 0 THEN 0 ELSE g[n - 1] + v[n - 1] - z
        OBVIOUS
      <4>1. CASE n < m
        <5>1. n \in 0 .. m - 1 /\ g[n] = f[n]
          BY <4>1, <2>3
        <5>2. f[n] = IF n = 0 THEN 0 ELSE f[n - 1] + v[n - 1] - z
          BY <5>1, <3>3 DEF Totals
        <5>3. n # 0 => g[n - 1] = f[n - 1]
          BY <4>1, <2>3
        <5>. QED  BY <5>1, <5>2, <5>3
      <4>2. CASE n = m
        <5>1. g[n] = f[m - 1] + v[m - 1] - z /\ g[m - 1] = f[m - 1]
          BY <4>2, <2>3, <2>5
        <5>. QED  BY <5>1, <4>2, <2>5
      <4>. QED  BY <4>1, <4>2, <2>3
    <3>5. Totals(g, v, z, m)
      <4>. DEFINE h == [n \in 0 .. m |-> IF n = 0 THEN 0 ELSE g[n - 1] + v[n - 1] - z]
      <4>1. DOMAIN g = 0 .. m /\ DOMAIN h = 0 .. m
        OBVIOUS
      <4>2. \A n \in 0 .. m : g[n] = h[n]
        <5>. HIDE DEF g
        <5>. QED  BY <3>4
      <4>3. g = [n \in 0 .. m |-> g[n]] /\ h = [n \in 0 .. m |-> h[n]]
        OBVIOUS
      <4>4. g = h
        <5>. HIDE DEF g, h
        <5>. QED  BY <4>2, <4>3
      <4>. QED  BY <4>4 DEF Totals
    <3>. QED  BY <3>5, <2>3
  <2>. QED  BY <2>3, <2>4, <2>5
<1>2. Has(N)
  <2>1. N \in 0 .. N
    OBVIOUS
  <2>2. N \notin T
    <3>. HIDE DEF T
    <3>. QED  BY <1>1
  <2>. HIDE DEF Has
  <2>. QED  BY <2>1, <2>2
<1>. QED  BY <1>2

\* When no value is below z, the sum is at least each of them.
LEMMA SumAtLeast ==
    ASSUME NEW N \in Nat, NEW v \in [0 .. N - 1 -> Int], NEW z \in Int,
           \A k \in 0 .. N - 1 : v[k] >= z,
           NEW f, Totals(f, v, z, N)
    PROVE  f[N] \in Int /\ \A k \in 0 .. N - 1 : f[N] >= v[k] - z
<1>. DEFINE Good(n) == f[n] \in Int /\ f[n] >= 0 /\ \A k \in 0 .. n - 1 : f[n] >= v[k] - z
            T == {n \in 0 .. N : ~Good(n)}
<1>0. \A n \in 0 .. N : f[n] = IF n = 0 THEN 0 ELSE f[n - 1] + v[n - 1] - z
  <2>. DEFINE h == [n \in 0 .. N |-> IF n = 0 THEN 0 ELSE f[n - 1] + v[n - 1] - z]
  <2>1. f = h
    BY DEF Totals
  <2>2. \A n \in 0 .. N : h[n] = IF n = 0 THEN 0 ELSE f[n - 1] + v[n - 1] - z
    OBVIOUS
  <2>. HIDE DEF h
  <2>. QED  BY <2>1, <2>2
<1>1. ASSUME T # {} PROVE FALSE
  <2>1. T \in SUBSET Nat
    OBVIOUS
  <2>2. PICK m \in T : \A k \in T : m <= k
    <3>. HIDE DEF T
    <3>. QED  BY <1>1, <2>1, NatMin
  <2>3. m \in Nat /\ m <= N /\ ~Good(m)
    OBVIOUS
  <2>4. CASE m = 0
    BY <2>4, <2>3, <1>0
  <2>5. CASE m > 0
    <3>1. m - 1 \in 0 .. N /\ ~(m <= m - 1) /\ m - 1 \in 0 .. N - 1
      BY <2>3, <2>5
    <3>2. Good(m - 1)
      <4>. HIDE DEF Good
      <4>1. m - 1 \notin T
        BY <3>1, <2>2
      <4>. QED  BY <4>1, <3>1
    <3>3. f[m] = f[m - 1] + v[m - 1] - z
      BY <1>0, <2>3, <2>5
    <3>4. v[m - 1] \in Int /\ v[m - 1] >= z
      BY <3>1
    <3>5. f[m] \in Int /\ f[m] >= 0 /\ f[m] >= f[m - 1] /\ f[m] >= v[m - 1] - z
      BY SMTT(30), <3>2, <3>3, <3>4
    <3>6. \A k \in 0 .. m - 1 : f[m] >= v[k] - z
      <4>. SUFFICES ASSUME NEW k \in 0 .. m - 1 PROVE f[m] >= v[k] - z
        OBVIOUS
      <4>1. CASE k = m - 1
        BY <4>1, <3>5
      <4>2. CASE k \in 0 .. (m - 1) - 1
        <5>1. f[m - 1] >= v[k] - z /\ v[k] \in Int
          BY <4>2, <3>2, <2>3
        <5>. QED  BY SMTT(30), <5>1, <3>2, <3>5
      <4>. QED  BY <4>1, <4>2, <2>3
    <3>. QED  BY <3>5, <3>6, <2>3
  <2>. QED  BY <2>3, <2>4, <2>5
<1>2. Good(N)
  <2>1. N \in 0 .. N
    OBVIOUS
  <2>2. N \notin T
    <3>. HIDE DEF T
    <3>. QED  BY <1>1
  <2>. HIDE DEF Good
  <2>. QED  BY <2>1, <2>2
<1>. QED  BY <1>2

\* The sum of the scores of a cell is at least each of them.
LEMMA SumReaches ==
    ASSUME NEW i \in Branch, NEW score \in [Class -> Score(i)], NEW c \in Class
    PROVE  /\ Sums(score, i)[OBJ_CLASS_NUM] \in Int
           /\ Sums(score, i)[OBJ_CLASS_NUM] >= score[c] - zp[i]
           /\ score[c] \in Int /\ score[c] >= zp[i]
<1>. DEFINE N == OBJ_CLASS_NUM
            z == zp[i]
            f == Sums(score, i)
<1>1. N \in Nat /\ Class = 0 .. N - 1 /\ z \in Int /\ z <= 127
  <2>1. OBJ_CLASS_NUM \in Nat \ {0} /\ zp \in [Branch -> Int8]
    BY DetectionAssumption
  <2>2. zp[i] \in Int8
    BY <2>1
  <2>3. zp[i] \in Int /\ zp[i] <= 127
    BY <2>2 DEF Int8
  <2>4. Class = 0 .. N - 1
    BY DEF Class
  <2>. QED  BY <2>1, <2>3, <2>4
<1>2. \A q \in Score(i) : q \in Int /\ z <= q /\ q <= 127
  <2>1. Step \subseteq Int /\ score_thres_i8(i) \in Int
    BY SMTT(30), DetectionAssumption, StartBelow DEF Int8
  <2>2. z = zp[i] /\ z <= z
    BY <1>1
  <2>. HIDE DEF z
  <2>3. ASSUME NEW q \in Score(i) PROVE q \in Int /\ z <= q /\ q <= 127
    <3>1. q = z \/ (z <= q /\ q <= 127 /\ \E d \in Step : q = score_thres_i8(i) + d)
      BY <2>2 DEF Score
    <3>. QED  BY <3>1, <2>1, <2>2, <1>1
  <2>. QED  BY <2>3
<1>3. \A k \in Class : score[k] \in Int /\ score[k] >= z /\ score[k] <= 127
  <2>1. \A k \in Class : score[k] \in Score(i)
    OBVIOUS
  <2>. QED  BY <2>1, <1>1, <1>2
<1>4. score \in [0 .. N - 1 -> Int]
  BY <1>1, <1>3
<1>5. f = CHOOSE g : Totals(g, score, z, N)
  BY DEF Sums, Totals
<1>6. Totals(f, score, z, N)
  <2>. HIDE DEF N, z, f
  <2>. QED  BY <1>1, <1>4, <1>5, SumDefined
<1>7. f[N] \in Int /\ f[N] >= score[c] - z
  <2>. HIDE DEF N, z, f
  <2>. QED  BY <1>1, <1>3, <1>4, <1>6, SumAtLeast
<1>. QED  BY <1>3, <1>7

\* A cell with a score two quanta of the sum above CONF_THRESHOLD passes the fast
\* test, also when the sum is rounded down and the threshold is rounded up.
LEMMA SumReachesThreshold ==
    ASSUME NEW i \in Branch, NEW score \in [Class -> Score(i)], NEW sum \in ScoreSum(score, i),
           NEW c \in Class,
           deqnt_affine_to_f32(score[c], i) >= CONF_THRESHOLD + 2 * sum_scale[i]
    PROVE  ~FilteredOut(sum, i)
<1>. DEFINE F == Sums(score, i)[OBJ_CLASS_NUM]
            S == F * scale[i]
            m == sum_scale[i]
            z == sum_zp[i]
            d == S \div m
            a == CONF_THRESHOLD + z * m
            tr == Truncate(a, m)
<1>1. /\ CONF_THRESHOLD \in Nat \ {0} /\ zp[i] \in Int /\ scale[i] \in Nat \ {0}
      /\ z \in Int /\ m \in Nat \ {0}
  BY SMTT(30), DetectionAssumption DEF Int8
<1>2. F \in Int /\ score[c] \in Int /\ F >= score[c] - zp[i] /\ score[c] >= zp[i]
  BY SumReaches
<1>3. PICK e \in SumError : sum = clamp(z + d + e, -128, 127)
  BY DEF ScoreSum
<1>4. e \in Int /\ e >= -1
  BY DetectionAssumption
<1>5. score_sum_thres_i8(i) = clamp(tr, -128, 127)
  BY DEF score_sum_thres_i8, qnt_f32_to_affine
<1>. HIDE DEF F
<1>6. S \in Nat /\ S >= CONF_THRESHOLD + 2 * m
  <2>1. (score[c] - zp[i]) * scale[i] <= S
    BY <1>1, <1>2, MulMonotonic
  <2>2. (score[c] - zp[i]) * scale[i] >= CONF_THRESHOLD + 2 * m
    BY DEF deqnt_affine_to_f32
  <2>3. (score[c] - zp[i]) * scale[i] \in Int /\ S \in Int /\ 2 * m \in Nat
    BY <1>1, <1>2
  <2>. QED  BY <2>1, <2>2, <2>3, <1>1
<1>. HIDE DEF S, m, z
<1>7. d \in Nat /\ S < (d + 1) * m
  BY <1>1, <1>6, DivBounds
<1>. HIDE DEF d
<1>8. a \in Int /\ a <= (z + d - 1) * m
  <2>1. (d + 1) * m = (d - 1) * m + 2 * m /\ (d - 1) * m \in Int /\ z * m \in Int
    BY <1>1, <1>7
  <2>2. (z + d - 1) * m = z * m + (d - 1) * m
    BY <1>1, <1>7
  <2>. QED  BY <2>1, <2>2, <1>1, <1>6, <1>7
<1>. HIDE DEF a
<1>9. tr \in Int /\ tr <= z + d - 1
  <2>1. z + d - 1 \in Int /\ (z + d - 1) * m \in Int
    BY <1>1, <1>7
  <2>2. tr \in Int /\ tr <= Truncate((z + d - 1) * m, m)
    BY <2>1, <1>1, <1>8, TruncateMonotonic
  <2>. QED  BY <2>1, <2>2, <1>1, TruncateExact
<1>. HIDE DEF tr
<1>10. z + d + e \in Int /\ tr <= z + d + e
  BY <1>1, <1>4, <1>7, <1>9
<1>11. clamp(tr, -128, 127) <= clamp(z + d + e, -128, 127)
  BY <1>9, <1>10 DEF clamp
<1>12. clamp(tr, -128, 127) \in Int /\ clamp(z + d + e, -128, 127) \in Int
  BY <1>9, <1>10 DEF clamp
<1>. QED  BY <1>3, <1>5, <1>11, <1>12 DEF FilteredOut

-----------------------------------------------------------------------------
(* Boxes *)

LEMMA PairTyped ==
    ASSUME NEW a \in Int, NEW b \in Int
    PROVE  Min({a, b}) \in Int /\ Max({a, b}) \in Int
<1>1. (\E x \in {a, b} : \A y \in {a, b} : x <= y) /\ (\E x \in {a, b} : \A y \in {a, b} : x >= y)
  OBVIOUS
<1>. QED  BY <1>1 DEF Min, Max

LEMMA SharedTyped ==
    ASSUME NEW a \in Box, NEW b \in Box
    PROVE  Shared(a, b) \in Int
<1>1. /\ a.x \in Int /\ a.y \in Int /\ a.x + a.w \in Int /\ a.y + a.h \in Int
      /\ b.x \in Int /\ b.y \in Int /\ b.x + b.w \in Int /\ b.y + b.h \in Int
      /\ Pixel \in Int
  BY DetectionAssumption
<1>2. /\ Min({a.x + a.w, b.x + b.w}) \in Int /\ Max({a.x, b.x}) \in Int
      /\ Min({a.y + a.h, b.y + b.h}) \in Int /\ Max({a.y, b.y}) \in Int
  BY <1>1, PairTyped
<1>3. \A z \in Int : Max0(z) \in Int
  BY PairTyped DEF Max0
<1>4. /\ Min({a.x + a.w, b.x + b.w}) - Max({a.x, b.x}) + Pixel \in Int
      /\ Min({a.y + a.h, b.y + b.h}) - Max({a.y, b.y}) + Pixel \in Int
  BY <1>1, <1>2
<1>5. /\ Max0(Min({a.x + a.w, b.x + b.w}) - Max({a.x, b.x}) + Pixel) \in Int
      /\ Max0(Min({a.y + a.h, b.y + b.h}) - Max({a.y, b.y}) + Pixel) \in Int
  BY <1>3, <1>4
<1>. QED  BY <1>5 DEF Shared

LEMMA OverlapsSymmetric ==
    ASSUME NEW a \in Box, NEW b \in Box
    PROVE  Overlaps(a, b) <=> Overlaps(b, a)
<1>1. /\ {a.x + a.w, b.x + b.w} = {b.x + b.w, a.x + a.w}
      /\ {a.y + a.h, b.y + b.h} = {b.y + b.h, a.y + a.h}
      /\ {a.x, b.x} = {b.x, a.x} /\ {a.y, b.y} = {b.y, a.y}
  BY Zenon
<1>2. Shared(a, b) = Shared(b, a)
  BY <1>1, Zenon DEF Shared
<1>3. Area(a) \in Int /\ Area(b) \in Int
  BY DetectionAssumption DEF Area
<1>4. Area(a) + Area(b) = Area(b) + Area(a)
  BY <1>3
<1>5. Area(a) + Area(b) - Shared(a, b) = Area(b) + Area(a) - Shared(b, a)
  BY <1>2, <1>3, <1>4, SharedTyped
<1>. QED  BY <1>2, <1>5 DEF Overlaps

\* The edges of a box that the network reports are whole numbers, in order.
LEMMA EdgesInOrder ==
    ASSUME NEW box \in Box
    PROVE  /\ Edges(box) \in [left : Int, right : Int, top : Int, bottom : Int]
           /\ Edges(box).left <= Edges(box).right
           /\ Edges(box).top <= Edges(box).bottom
<1>1. /\ box.x \in Int /\ box.y \in Int /\ box.x + box.w \in Int /\ box.y + box.h \in Int
      /\ box.x <= box.x + box.w /\ box.y <= box.y + box.h
      /\ Pixel \in Nat \ {0}
  BY DetectionAssumption
<1>2. /\ Truncate(box.x, Pixel) \in Int /\ Truncate(box.y, Pixel) \in Int
      /\ Truncate(box.x, Pixel) <= Truncate(box.x + box.w, Pixel)
      /\ Truncate(box.y, Pixel) <= Truncate(box.y + box.h, Pixel)
  BY <1>1, TruncateMonotonic
<1>3. Truncate(box.x + box.w, Pixel) \in Int /\ Truncate(box.y + box.h, Pixel) \in Int
  <2>1. box.x + box.w <= box.x + box.w /\ box.y + box.h <= box.y + box.h
    BY <1>1
  <2>. QED  BY <2>1, <1>1, TruncateMonotonic
<1>. QED  BY <1>2, <1>3 DEF Edges

\* The picture fits the input with its margins, and scaled back it fits the image.
LEMMA LetterBoxFits ==
    ASSUME NEW in \in Size, NEW lb, lb = compute_letter_box(in, target)
    PROVE  /\ lb.reverse_available
           /\ lb.num \in Nat \ {0} /\ lb.den \in Nat \ {0}
           /\ lb.w_pad_left \in Nat /\ lb.resize_width \in Nat
           /\ lb.w_pad_left + lb.resize_width <= target.width
           /\ lb.resize_width * lb.den <= in.width * lb.num
           /\ lb.h_pad_top \in Nat /\ lb.resize_height \in Nat
           /\ lb.h_pad_top + lb.resize_height <= target.height
           /\ lb.resize_height * lb.den <= in.height * lb.num
<1>. DEFINE iw == in.width  ih == in.height  tw == target.width  th == target.height
<1>1. iw \in Nat \ {0} /\ ih \in Nat \ {0} /\ tw \in Nat \ {0} /\ th \in Nat \ {0}
  BY DetectionAssumption DEF Size
<1>2. ASSUME NEW room \in Nat, NEW extent \in Nat, NEW limit \in Nat, room = limit - extent
      PROVE  Pad(room) \in Nat /\ Pad(room) + extent <= limit
  BY <1>2 DEF Pad
<1>3. CASE PadsHeight(in, target)
  <2>. DEFINE h == (ih * tw) \div iw
  <2>1. /\ lb.reverse_available = TRUE /\ lb.num = tw /\ lb.den = iw
        /\ lb.resize_width = tw /\ lb.resize_height = h
        /\ lb.w_pad_left = Pad(tw - tw) /\ lb.h_pad_top = Pad(th - h)
    BY <1>3, Zenon DEF compute_letter_box
  <2>2. ih * tw \in Nat /\ iw * th >= tw * ih /\ tw * ih = ih * tw /\ iw * th = th * iw
        /\ tw * iw = iw * tw /\ iw * tw \in Nat /\ th * iw \in Nat
    BY <1>1, <1>3 DEF PadsHeight
  <2>. HIDE DEF iw, ih, tw, th
  <2>3. h \in Nat /\ h * iw <= ih * tw
    BY <2>2, <1>1, DivBounds
  <2>. HIDE DEF h
  <2>4. h <= th
    <3>1. h * iw \in Int /\ (th + 1) * iw = th * iw + iw
      BY <2>3, <1>1, MulNext
    <3>2. h * iw < (th + 1) * iw
      BY <3>1, <2>2, <2>3, <1>1
    <3>. QED  BY <3>2, <2>3, <1>1, MulCancel
  <2>5. /\ Pad(tw - tw) \in Nat /\ Pad(tw - tw) + tw <= tw
        /\ Pad(th - h) \in Nat /\ Pad(th - h) + h <= th
    <3>1. tw - tw \in Nat /\ th - h \in Nat
      BY <2>3, <2>4, <1>1
    <3>. QED  BY <3>1, <1>1, <1>2, <2>3
  <2>6. tw * iw <= iw * tw
    BY <2>2
  <2>. QED  BY <2>1, <2>3, <2>5, <2>6, <1>1, Zenon DEF iw, ih, tw, th
<1>4. CASE ~PadsHeight(in, target)
  <2>. DEFINE w == (iw * th) \div ih
  <2>1. /\ lb.reverse_available = TRUE /\ lb.num = th /\ lb.den = ih
        /\ lb.resize_width = w /\ lb.resize_height = th
        /\ lb.w_pad_left = Pad(tw - w) /\ lb.h_pad_top = Pad(th - th)
    BY <1>4, Zenon DEF compute_letter_box
  <2>2. iw * th \in Nat /\ iw * th < tw * ih /\ th * ih = ih * th /\ tw * ih \in Nat
        /\ ih * th \in Nat
    BY <1>1, <1>4 DEF PadsHeight
  <2>. HIDE DEF iw, ih, tw, th
  <2>3. w \in Nat /\ w * ih <= iw * th
    BY <2>2, <1>1, DivBounds
  <2>. HIDE DEF w
  <2>4. w <= tw
    <3>1. w * ih \in Int /\ (tw + 1) * ih = tw * ih + ih
      BY <2>3, <1>1, MulNext
    <3>2. w * ih < (tw + 1) * ih
      BY <3>1, <2>2, <2>3, <1>1
    <3>. QED  BY <3>2, <2>3, <1>1, MulCancel
  <2>5. /\ Pad(tw - w) \in Nat /\ Pad(tw - w) + w <= tw
        /\ Pad(th - th) \in Nat /\ Pad(th - th) + th <= th
    <3>1. tw - w \in Nat /\ th - th \in Nat
      BY <2>3, <2>4, <1>1
    <3>. QED  BY <3>1, <1>1, <1>2, <2>3
  <2>6. th * ih <= ih * th
    BY <2>2
  <2>. QED  BY <2>1, <2>3, <2>5, <2>6, <1>1, Zenon DEF iw, ih, tw, th
<1>. QED  BY <1>3, <1>4

\* What reverse makes of a coordinate when there is a letter box.
LEMMA ReverseIs ==
    ASSUME NEW lb, lb.reverse_available, lb.num \in Nat \ {0}, lb.den \in Nat \ {0},
           NEW pad \in Nat, NEW limit \in Nat, NEW x \in Int
    PROVE  \E y \in Nat :
             /\ reverse(x, pad, limit, lb) = (y * lb.den) \div lb.num
             /\ y = clamp(clamp(x, 0, limit) - pad, 0, limit)
<1>1. clamp(x, 0, limit) \in Int
  BY DEF clamp
<1>2. clamp(clamp(x, 0, limit) - pad, 0, limit) \in Nat
  <2>. DEFINE z == clamp(x, 0, limit) - pad
  <2>1. z \in Int
    BY <1>1
  <2>. HIDE DEF z
  <2>2. clamp(z, 0, limit) \in Nat
    BY <2>1 DEF clamp
  <2>. QED  BY <2>2 DEF z
<1>. QED  BY <1>2 DEF reverse

\* The order of two coordinates is kept.
LEMMA ReverseMonotonic ==
    ASSUME NEW lb, lb.reverse_available, lb.num \in Nat \ {0}, lb.den \in Nat \ {0},
           NEW pad \in Nat, NEW limit \in Nat, NEW x \in Int, NEW y \in Int, x <= y
    PROVE  /\ reverse(x, pad, limit, lb) \in Int
           /\ reverse(y, pad, limit, lb) \in Int
           /\ reverse(x, pad, limit, lb) <= reverse(y, pad, limit, lb)
<1>1. PICK u \in Nat : /\ reverse(x, pad, limit, lb) = (u * lb.den) \div lb.num
                       /\ u = clamp(clamp(x, 0, limit) - pad, 0, limit)
  BY ZenonT(40), ReverseIs
<1>2. PICK v \in Nat : /\ reverse(y, pad, limit, lb) = (v * lb.den) \div lb.num
                       /\ v = clamp(clamp(y, 0, limit) - pad, 0, limit)
  BY ZenonT(40), ReverseIs
<1>3. u <= v
  <2>1. clamp(x, 0, limit) \in Int /\ clamp(y, 0, limit) \in Int
        /\ clamp(x, 0, limit) <= clamp(y, 0, limit)
    BY DEF clamp
  <2>2. ASSUME NEW c \in Int, NEW d \in Int, c <= d
        PROVE  clamp(c - pad, 0, limit) <= clamp(d - pad, 0, limit)
    BY <2>2 DEF clamp
  <2>. QED  BY <2>1, <2>2, <1>1, <1>2
<1>4. u * lb.den \in Nat /\ v * lb.den \in Nat /\ u * lb.den <= v * lb.den
  BY <1>3, MulMonotonic
<1>. QED  BY SMTT(30), <1>1, <1>2, <1>4, DivMonotonic, DivBounds

\* A coordinate inside the picture is taken to the pixel it falls on.
LEMMA ReverseInPlace ==
    ASSUME NEW lb, lb.reverse_available, lb.num \in Nat \ {0}, lb.den \in Nat \ {0},
           NEW pad \in Nat, NEW limit \in Nat, NEW extent \in Nat, NEW size \in Nat,
           NEW x \in Int, pad + extent <= limit, extent * lb.den <= size * lb.num
    PROVE  InPlace(x, pad, extent, reverse(x, pad, limit, lb), size, lb)
<1>. SUFFICES ASSUME pad <= x, x <= pad + extent
              PROVE  /\ 0 <= reverse(x, pad, limit, lb) /\ reverse(x, pad, limit, lb) <= size
                     /\ reverse(x, pad, limit, lb) * lb.num <= (x - pad) * lb.den
                     /\ (x - pad) * lb.den < (reverse(x, pad, limit, lb) + 1) * lb.num
  BY DEF InPlace
<1>1. clamp(clamp(x, 0, limit) - pad, 0, limit) = x - pad
  <2>1. clamp(x, 0, limit) = x
    BY DEF clamp
  <2>. QED  BY <2>1 DEF clamp
<1>. DEFINE y == x - pad
            d == lb.den
            n == lb.num
            m == (y * d) \div n
<1>2. reverse(x, pad, limit, lb) = m /\ y \in Nat /\ y <= extent
  BY <1>1, ReverseIs
<1>3. d \in Nat \ {0} /\ n \in Nat \ {0} /\ extent * d <= size * n
  OBVIOUS
<1>. HIDE DEF d, n, y
<1>4. y * d \in Nat
  BY <1>2, <1>3
<1>5. m \in Nat /\ m * n <= y * d /\ y * d < (m + 1) * n
  BY <1>3, <1>4, DivBounds
<1>. HIDE DEF m
<1>6. m <= size
  <2>1. y * d <= extent * d
    BY <1>2, <1>3, MulMonotonic
  <2>2. (size + 1) * n = size * n + n /\ size * n \in Int /\ extent * d \in Int /\ m * n \in Int
    BY <1>3, <1>5, MulNext
  <2>3. m * n < (size + 1) * n
    BY <2>1, <2>2, <1>3, <1>4, <1>5
  <2>. QED  BY <2>3, <1>3, <1>5, MulCancel
<1>7. 0 <= m
  BY <1>5
<1>. QED  BY <1>2, <1>5, <1>6, <1>7 DEF d, n, y

-----------------------------------------------------------------------------
(* Types *)

\* What TypeOK says of the parts that the proofs below look at.
LEMMA Typed ==
    ASSUME TypeOK
    PROVE  /\ validCount \in Nat /\ Position = 1 .. validCount
           /\ \A n \in Position :
                 /\ n \in Nat /\ filterBoxes[n] \in Box /\ found[n] \in Nat /\ boxesScore[n] \in Nat
                 /\ classId[n] \in Class
           /\ \A c \in Class : c \in Nat
           /\ row.i \in Nat /\ row.filterId \in Class /\ row.filterId \in Nat
           /\ DOMAIN group = 1 .. Len(group) /\ Len(group) \in Nat
           /\ \A g \in DOMAIN group : group[g] \in Result
<1>1. classId \in Seq(Class) /\ validCount \in Nat /\ Position = 1 .. validCount
  BY DEF TypeOK, validCount, Position
<1>2. \A n \in Position :
        /\ n \in Nat /\ filterBoxes[n] \in Box /\ found[n] \in Nat /\ boxesScore[n] \in Nat
        /\ classId[n] \in Class
  BY SMTT(30), <1>1 DEF TypeOK, validCount
<1>3. \A c \in Class : c \in Nat
  BY DetectionAssumption DEF Class
<1>4. row.i \in Nat /\ row.filterId \in Class
  BY DEF TypeOK
<1>5. /\ DOMAIN group = 1 .. Len(group) /\ Len(group) \in Nat
      /\ \A g \in DOMAIN group : group[g] \in Result
  BY DEF TypeOK
<1>. QED  BY <1>1, <1>2, <1>3, <1>4, <1>5

LEMMA ResultTyped ==
    ASSUME TypeOK, NEW r \in Result
    PROVE  /\ r.n \in Position /\ r.prop \in Nat /\ r.class_index \in Class
           /\ r.box \in [left : Int, right : Int, top : Int, bottom : Int]
BY DEF Result

\* The classes of the candidates have a smallest one, and so have those of them
\* that are left.
LEMMA MinClass ==
    ASSUME NEW S \in SUBSET Class, S # {}
    PROVE  Min(S) \in S /\ \A c \in S : Min(S) <= c
<1>1. S \in SUBSET Int /\ 0 \in Int /\ \A c \in S : 0 <= c
  BY DetectionAssumption DEF Class
<1>. QED  BY <1>1, MinOf

LEMMA RangeClass ==
    ASSUME TypeOK
    PROVE  /\ Range(classId) \in SUBSET Class
           /\ \A n \in Position : classId[n] \in Range(classId)
           /\ validCount > 0 => Range(classId) # {}
<1>1. classId \in Seq(Class) /\ Position = 1 .. Len(classId) /\ Len(classId) \in Nat
      /\ DOMAIN classId = 1 .. Len(classId)
  BY DEF TypeOK, Position, validCount
<1>2. /\ Range(classId) \in SUBSET Class
      /\ \A n \in Position : classId[n] \in Range(classId)
  BY <1>1 DEF Range
<1>3. validCount > 0 => 1 \in Position
  BY <1>1 DEF validCount
<1>. QED  BY <1>2, <1>3

-----------------------------------------------------------------------------
(* process_v2_i8 *)

\* During the scan the parts that follow it are empty.
LEMMA ScanningKeeps ==
    ASSUME DetectionInv, pc = "scan", pc' = "scan", TypeOK', ScoresAbove',
           boxesScore' = found',
           UNCHANGED <<indexArray, calls, part, row, group, drawVars>>
    PROVE  DetectionInv'
<1>1. /\ indexArray = <<>> /\ calls = <<>> /\ part = NoPart /\ group = <<>> /\ drawn = <<>>
  BY DEF DetectionInv, Phases
<1>2. Phases'
  BY <1>1 DEF Phases, drawVars
<1>3. Sorting' /\ Sorted' /\ KeptApart' /\ RemovedCovered' /\ GroupComplete'
  BY DEF Sorting, Sorted, KeptApart, RemovedCovered, GroupComplete
<1>4. GroupGenuine' /\ DrawnInPlace'
  BY <1>1 DEF GroupGenuine, DrawnInPlace, drawVars
<1>. QED  BY <1>2, <1>3, <1>4 DEF DetectionInv

LEMMA ScanCellKeeps ==
    ASSUME DetectionInv, ScanCell
    PROVE  DetectionInv'
<1>. USE Typed
<1>1. TypeOK /\ pc = "scan" /\ branch \in Branch /\ cells \in Nat
  BY DEF DetectionInv, ScanCell, TypeOK
<1>2. /\ UNCHANGED <<pc, branch, indexArray, calls, part, row, group, drawVars>>
      /\ cells' = cells + 1
  BY DEF ScanCell
<1>3. /\ boxesScore = found /\ indexArray = <<>> /\ group = <<>>
  BY <1>1 DEF DetectionInv, Phases
<1>. DEFINE Scanned(score, sum) ==
              IF FilteredOut(sum, branch) \/ ~(Best(score, branch).q > score_thres_i8(branch))
                THEN UNCHANGED <<candVars, boxesScore>>
                ELSE /\ \E box \in Box : filterBoxes' = Append(filterBoxes, box)
                     /\ found' = Append(found, deqnt_affine_to_f32(Best(score, branch).q, branch))
                     /\ boxesScore' = found'
                     /\ classId' = Append(classId, Best(score, branch).class)
<1>4. PICK score \in [Class -> Score(branch)] :
         \E sum \in ScoreSum(score, branch) : Scanned(score, sum)
  BY DEF ScanCell
<1>5. PICK sum \in ScoreSum(score, branch) : Scanned(score, sum)
  BY <1>4
<1>6. CASE FilteredOut(sum, branch) \/ ~(Best(score, branch).q > score_thres_i8(branch))
  <2>1. UNCHANGED <<filterBoxes, classId, found, boxesScore>>
    BY <1>5, <1>6 DEF candVars
  <2>2. validCount' = validCount /\ Position' = Position
    BY <2>1 DEF validCount, Position
  <2>3. TypeOK'
    BY <1>1, <1>2, <1>3, <2>1, <2>2 DEF TypeOK, drawVars, Result
  <2>4. ScoresAbove'
    BY <2>1, <2>2 DEF DetectionInv, ScoresAbove
  <2>. QED  BY <1>1, <1>2, <1>3, <2>1, <2>3, <2>4, ScanningKeeps
<1>7. CASE ~(FilteredOut(sum, branch) \/ ~(Best(score, branch).q > score_thres_i8(branch)))
  <2>. DEFINE best == Best(score, branch)
              real == deqnt_affine_to_f32(best.q, branch)
  <2>1. PICK box \in Box : filterBoxes' = Append(filterBoxes, box)
    BY <1>5, <1>7
  <2>2. /\ found' = Append(found, real) /\ boxesScore' = found'
        /\ classId' = Append(classId, best.class)
    BY <1>5, <1>7
  <2>3. best.class \in Class /\ best.q \in Int8 /\ best.q > score_thres_i8(branch)
    BY <1>1, <1>7, ScoreTyped, BestOf
  <2>4. real \in Nat /\ real > CONF_THRESHOLD
    BY <1>1, <2>3, ThresholdSound
  <2>. HIDE DEF best, real
  <2>5. /\ filterBoxes \in Seq(Box) /\ found \in Seq(Nat) /\ classId \in Seq(Class)
        /\ Len(filterBoxes) = validCount /\ Len(found) = validCount /\ Len(classId) = validCount
    BY <1>1 DEF TypeOK, validCount
  <2>6. /\ filterBoxes' \in Seq(Box) /\ found' \in Seq(Nat) /\ classId' \in Seq(Class)
        /\ Len(filterBoxes') = validCount + 1 /\ Len(found') = validCount + 1
        /\ Len(classId') = validCount + 1
    BY <2>1, <2>2, <2>3, <2>4, <2>5
  <2>7. validCount' = validCount + 1 /\ Position' = 1 .. validCount + 1
    BY <2>6 DEF validCount, Position
  <2>8. TypeOK'
    <3>1. indexArray' \in Seq(Position' \cup {Removed}) /\ group' \in Seq(Result')
      BY <1>2, <1>3
    <3>. QED  BY <3>1, <1>1, <1>2, <2>2, <2>6, <2>7 DEF TypeOK, drawVars
  <2>9. ScoresAbove'
    <3>. SUFFICES ASSUME NEW n \in 1 .. validCount + 1 PROVE found'[n] > CONF_THRESHOLD
      BY <2>7 DEF ScoresAbove
    <3>1. CASE n = validCount + 1
      BY <3>1, <2>2, <2>4, <2>5
    <3>2. CASE n \in 1 .. validCount
      <4>1. found'[n] = found[n]
        BY <3>2, <2>2, <2>4, <2>5
      <4>. QED  BY <3>2, <4>1, <1>1 DEF DetectionInv, ScoresAbove
    <3>. QED  BY <3>1, <3>2, <1>1
  <2>. QED  BY <1>1, <1>2, <2>2, <2>8, <2>9, ScanningKeeps
<1>. QED  BY <1>6, <1>7

\* Every cell is judged rightly when it is scanned.
LEMMA ScanCellJudges ==
    ASSUME DetectionInv, ScanCell
    PROVE  CellsJudged'
<1>1. TypeOK /\ branch \in Branch /\ branch' = branch
  BY DEF DetectionInv, ScanCell
<1>2. /\ classId \in Seq(Class) /\ found \in Seq(Nat) /\ validCount \in Nat
      /\ Len(classId) = validCount /\ Len(found) = validCount
  BY <1>1 DEF TypeOK, validCount
<1>. DEFINE Scanned(score, sum) ==
              /\ cell' = [score |-> score, before |-> validCount]
              /\ IF FilteredOut(sum, branch) \/ ~(Best(score, branch).q > score_thres_i8(branch))
                   THEN UNCHANGED <<candVars, boxesScore>>
                   ELSE /\ found' =
                              Append(found, deqnt_affine_to_f32(Best(score, branch).q, branch))
                        /\ classId' = Append(classId, Best(score, branch).class)
<1>3. PICK score \in [Class -> Score(branch)] :
         \E sum \in ScoreSum(score, branch) : Scanned(score, sum)
  BY DEF ScanCell
<1>4. PICK sum \in ScoreSum(score, branch) : Scanned(score, sum)
  BY <1>3
<1>. DEFINE best  == Best(score, branch)
            thres == score_thres_i8(branch)
            values == {score[c] : c \in Class}
            top   == Max(values)
<1>5. /\ score \in [Class -> Int8] /\ thres \in Int
      /\ \A c \in Class : score[c] \in Int8 /\ score[c] \in Int /\ score[c] <= 127
  BY <1>1, ScoreTyped, StartBelow DEF Int8
<1>6. PICK c \in Class : top = score[c] /\ \A d \in Class : score[d] <= top
  <2>1. values \in SUBSET Int /\ \A v \in values : v <= 127
    BY <1>5
  <2>2. 0 \in Class
    BY DetectionAssumption DEF Class
  <2>3. score[0] \in values
    BY <2>2
  <2>4. Max(values) \in values /\ \A v \in values : v <= Max(values)
    <3>1. values # {} /\ 127 \in Int
      BY <2>3
    <3>. HIDE DEF values
    <3>. QED  BY <3>1, <2>1, MaxOf, Zenon
  <2>. QED  BY <2>4
<1>. HIDE DEF top, best, thres
\* Above the threshold by a quantum of each tensor, the best score passes both tests.
<1>. DEFINE Clear == /\ deqnt_affine_to_f32(top - 1, branch) >= CONF_THRESHOLD
                     /\ deqnt_affine_to_f32(top, branch)
                          >= CONF_THRESHOLD + 2 * sum_scale[branch]
<1>7. ASSUME Clear
      PROVE  ~FilteredOut(sum, branch) /\ best.q > thres
  <2>1. top \in Int8 /\ top \in Int
    BY <1>5, <1>6
  <2>2. thres <= top - 1
    BY <1>1, <1>7, <2>1, ThresholdReached DEF thres
  <2>3. deqnt_affine_to_f32(score[c], branch) >= CONF_THRESHOLD + 2 * sum_scale[branch]
    BY <1>6, <1>7
  <2>4. ~FilteredOut(sum, branch)
    BY <1>1, <2>3, SumReachesThreshold
  <2>5. score[c] > thres
    BY <1>5, <1>6, <2>1, <2>2
  <2>6. best.q > thres
    BY <1>1, <1>5, <2>5, BestAbove DEF best, thres
  <2>. QED  BY <2>4, <2>6
<1>8. CASE FilteredOut(sum, branch) \/ ~(best.q > thres)
  <2>1. validCount' = validCount
    BY <1>4, <1>8 DEF candVars, validCount, best, thres
  <2>2. ~Clear
    BY <1>7, <1>8
  <2>3. cell'.score = score /\ cell'.before = validCount
    BY <1>4
  <2>4. Max({cell'.score[d] : d \in Class}) = top
    BY <2>3 DEF top
  <2>. QED  BY <1>1, <1>2, <2>1, <2>2, <2>3, <2>4 DEF CellsJudged, deqnt_affine_to_f32
<1>9. CASE ~FilteredOut(sum, branch) /\ best.q > thres
  <2>. DEFINE real == deqnt_affine_to_f32(best.q, branch)
  <2>1. found' = Append(found, real) /\ classId' = Append(classId, best.class)
    BY <1>4, <1>9 DEF best, thres
  <2>2. /\ best.class \in Class /\ best.q \in Int8 /\ best.q = score[best.class]
        /\ \A d \in Class : score[d] <= best.q
    BY <1>1, <1>5, <1>9, BestOf DEF best, thres
  <2>3. best.q = top
    BY <1>5, <1>6, <2>2
  <2>4. real \in Nat /\ real > CONF_THRESHOLD
    BY <1>1, <1>9, <2>2, ThresholdSound DEF thres
  <2>. HIDE DEF real
  <2>5. validCount' = validCount + 1
    BY <1>2, <2>1 DEF validCount
  <2>6. found'[validCount + 1] = real /\ classId'[validCount + 1] = best.class
    BY <1>2, <2>1, <2>2, <2>4
  <2>7. cell'.score = score /\ cell'.before = validCount
    BY <1>4
  <2>8. Max({cell'.score[d] : d \in Class}) = top
    BY <2>7 DEF top
  <2>9. real = deqnt_affine_to_f32(top, branch)
    BY <2>3 DEF real
  <2>. QED  BY <1>1, <2>2, <2>3, <2>4, <2>5, <2>6, <2>7, <2>8, <2>9
            DEF CellsJudged, deqnt_affine_to_f32
<1>. QED  BY <1>8, <1>9

LEMMA NextBranchKeeps ==
    ASSUME DetectionInv, NextBranch
    PROVE  DetectionInv'
<1>1. /\ pc = "scan" /\ branch \in Branch /\ branch' = branch + 1 /\ cells' = 0
      /\ UNCHANGED <<pc, filterBoxes, classId, found, boxesScore, indexArray, calls, part,
                     row, group, drawVars>>
  BY DEF NextBranch, candVars, sortVars
<1>2. validCount' = validCount /\ Position' = Position
  BY <1>1 DEF validCount, Position
<1>3. branch' \in 0 .. 3
  BY <1>1 DEF Branch
<1>4. TypeOK'
  BY <1>1, <1>2, <1>3 DEF DetectionInv, TypeOK, drawVars, Result
<1>5. ScoresAbove' /\ boxesScore' = found'
  BY <1>1, <1>2 DEF DetectionInv, ScoresAbove, Phases
<1>. QED  BY <1>1, <1>4, <1>5, ScanningKeeps

\* The candidates are sorted from the order in which they were found.
LEMMA ScanDoneKeeps ==
    ASSUME DetectionInv, ScanDone
    PROVE  DetectionInv'
<1>. USE Typed
<1>1. /\ pc = "scan"
      /\ pc' = IF validCount = 0 THEN "draw" ELSE "sort"
      /\ indexArray' = [n \in Position |-> n] /\ calls' = <<<<1, validCount>>>>
      /\ UNCHANGED <<branch, cells, cell, filterBoxes, classId, found, boxesScore, part, row,
                     group, drawVars>>
  BY DEF ScanDone, candVars
<1>2. TypeOK /\ boxesScore = found /\ part = NoPart /\ group = <<>> /\ drawn = <<>>
  BY <1>1 DEF DetectionInv, Phases
<1>3. validCount' = validCount /\ Position' = Position
  BY <1>1 DEF validCount, Position
<1>4. indexArray' \in Seq(Position) /\ Len(indexArray') = validCount
  BY <1>1, <1>2
<1>5. /\ calls' \in Seq(Nat \X Nat) /\ DOMAIN calls' = 1 .. 1
      /\ calls'[1] = <<1, validCount>> /\ calls'[1][1] = 1 /\ calls'[1][2] = validCount
  BY <1>1, <1>2
<1>6. TypeOK'
  <2>1. indexArray' \in Seq(Position \cup {Removed})
    BY <1>4, SeqMonotonic
  <2>2. pc' \in {"sort", "draw"}
    BY <1>1
  <2>. QED  BY <2>1, <2>2, <1>1, <1>2, <1>3, <1>5 DEF TypeOK, drawVars, Result
<1>7. ScoresAbove'
  BY <1>1, <1>3 DEF DetectionInv, ScoresAbove
<1>8. Phases'
  BY <1>1, <1>2, <1>3, <1>4 DEF Phases, drawVars
<1>9. Sorting'
  <2>1. Score_' = boxesScore /\ Index_' = indexArray'
    BY <1>1, <1>2 DEF Score_, Index_
  <2>2. Permutation(Score_, Index_)'
    BY <2>1, <1>1, <1>2, <1>3 DEF Permutation
  <2>3. RangesApart'
    BY <1>1, <1>2, <1>3, <1>5 DEF RangesApart
  <2>4. Halves(Score_)'
    BY <1>1, <1>2 DEF Halves
  <2>5. \A p, q \in Position : Together(p, q)'
    BY <1>2, <1>5 DEF Together
  <2>. QED  BY <2>2, <2>3, <2>4, <2>5, <1>3 DEF Sorting
<1>10. Sorted' /\ KeptApart' /\ RemovedCovered' /\ GroupComplete'
  <2>1. CASE validCount = 0
    <3>1. Position' = {}
      BY <2>1, <1>2, <1>3
    <3>. QED  BY <3>1 DEF Sorted, KeptApart, RemovedCovered, GroupComplete
  <2>2. CASE validCount # 0
    BY <2>2, <1>1 DEF Sorted, KeptApart, RemovedCovered, GroupComplete
  <2>. QED  BY <2>1, <2>2
<1>11. GroupGenuine' /\ DrawnInPlace'
  BY <1>1, <1>2 DEF GroupGenuine, DrawnInPlace, drawVars
<1>. QED  BY <1>6, <1>7, <1>8, <1>9, <1>10, <1>11 DEF DetectionInv

-----------------------------------------------------------------------------
(* quick_sort_indice_inverse *)

\* What is rearranged stays a permutation.
LEMMA Rearranged ==
    ASSUME NEW S, NEW I, NEW S2, NEW I2, NEW pi, Permutation(S, I),
           \A p \in Position : pi[p] \in Position /\ S2[p] = S[pi[p]] /\ I2[p] = I[pi[p]],
           \A p, q \in Position : pi[p] = pi[q] => p = q,
           \A q \in Position : \E p \in Position : pi[p] = q
    PROVE  Permutation(S2, I2)
<1>1. \A p \in Position : I2[p] \in Position /\ S2[p] = found[I2[p]]
  <2>. SUFFICES ASSUME NEW p \in Position PROVE I2[p] \in Position /\ S2[p] = found[I2[p]]
    OBVIOUS
  <2>1. pi[p] \in Position /\ S2[p] = S[pi[p]] /\ I2[p] = I[pi[p]]
    OBVIOUS
  <2>2. I[pi[p]] \in Position /\ S[pi[p]] = found[I[pi[p]]]
    BY <2>1 DEF Permutation
  <2>. QED  BY <2>1, <2>2
<1>2. \A p, q \in Position : I2[p] = I2[q] => p = q
  <2>. SUFFICES ASSUME NEW p \in Position, NEW q \in Position, I2[p] = I2[q] PROVE p = q
    OBVIOUS
  <2>1. I[pi[p]] = I[pi[q]] /\ pi[p] \in Position /\ pi[q] \in Position
    OBVIOUS
  <2>2. pi[p] = pi[q]
    BY ZenonT(40), <2>1 DEF Permutation
  <2>. QED  BY <2>2
<1>3. \A n \in Position : \E p \in Position : I2[p] = n
  <2>. SUFFICES ASSUME NEW n \in Position PROVE \E p \in Position : I2[p] = n
    OBVIOUS
  <2>1. PICK q \in Position : I[q] = n
    BY DEF Permutation
  <2>2. PICK p \in Position : pi[p] = q
    OBVIOUS
  <2>. QED  BY <2>1, <2>2
<1>. QED  BY <1>1, <1>2, <1>3 DEF Permutation

\* A step of the sort concerns its own arrays only.
LEMMA SortingKeeps ==
    ASSUME DetectionInv, pc = "sort",
           UNCHANGED <<pc, branch, cells, cell, candVars, row, group, drawVars>>,
           boxesScore' \in Seq(Nat), Len(boxesScore') = validCount,
           indexArray' \in Seq(Position \cup {Removed}), Len(indexArray') = validCount,
           calls' \in Seq(Nat \X Nat), part' \in Part, part'.low <= part'.high,
           Permutation(Score_', Index_'), RangesApart', Halves(Score_)',
           \A p, q \in Position : p < q => Score_'[p] >= Score_'[q] \/ Together(p, q)'
    PROVE  DetectionInv'
<1>1. UNCHANGED <<pc, branch, cells, filterBoxes, classId, found, row, group, image, letter_box,
                  drawn>>
  BY DEF candVars, drawVars
<1>2. validCount' = validCount /\ Position' = Position /\ Result' = Result
  BY <1>1 DEF validCount, Position, Result
<1>3. TypeOK'
  BY <1>1, <1>2 DEF DetectionInv, TypeOK
<1>4. ScoresAbove' /\ Phases'
  BY <1>1, <1>2 DEF DetectionInv, ScoresAbove, Phases
<1>5. Sorting'
  <2>1. Permutation(Score_, Index_)'
    BY <1>1, <1>2 DEF Permutation
  <2>. QED  BY <2>1, <1>2 DEF Sorting
<1>6. Sorted' /\ KeptApart' /\ RemovedCovered' /\ GroupComplete'
  BY <1>1 DEF Sorted, KeptApart, RemovedCovered, GroupComplete
<1>7. GroupGenuine' /\ DrawnInPlace'
  BY <1>1 DEF DetectionInv, Phases, GroupGenuine, DrawnInPlace
<1>. QED  BY <1>3, <1>4, <1>5, <1>6, <1>7 DEF DetectionInv

\* The facts a step of the sort begins with.
LEMMA SortFacts ==
    ASSUME DetectionInv, pc = "sort"
    PROVE  /\ TypeOK /\ validCount \in Nat /\ Position = 1 .. validCount
           /\ boxesScore \in Seq(Nat) /\ Len(boxesScore) = validCount
           /\ DOMAIN boxesScore = 1 .. validCount
           /\ indexArray \in Seq(Position \cup {Removed}) /\ Len(indexArray) = validCount
           /\ DOMAIN indexArray = 1 .. validCount
           /\ calls \in Seq(Nat \X Nat) /\ DOMAIN calls = 1 .. Len(calls) /\ Len(calls) \in Nat
           /\ \A c \in DOMAIN calls : calls[c][1] \in Nat /\ calls[c][2] \in Nat
           /\ part \in Part /\ part.left \in Nat /\ part.right \in Nat
           /\ part.low \in Nat /\ part.high \in Nat /\ part.low <= part.high
           /\ part.key \in Nat /\ part.key_index \in Nat
           /\ Permutation(Score_, Index_) /\ RangesApart /\ Halves(Score_)
           /\ \A p, q \in Position : p < q => Score_[p] >= Score_[q] \/ Together(p, q)
<1>1. TypeOK /\ Permutation(Score_, Index_) /\ RangesApart /\ Halves(Score_)
      /\ \A p, q \in Position : p < q => Score_[p] >= Score_[q] \/ Together(p, q)
  BY DEF DetectionInv, Sorting
<1>2. /\ boxesScore \in Seq(Nat) /\ Len(boxesScore) = validCount
      /\ indexArray \in Seq(Position \cup {Removed}) /\ Len(indexArray) = validCount
      /\ calls \in Seq(Nat \X Nat) /\ part \in Part /\ part.low <= part.high
  BY DEF DetectionInv, TypeOK, Phases
<1>3. validCount \in Nat /\ Position = 1 .. validCount
  BY <1>1, Typed
<1>4. \A c \in DOMAIN calls : calls[c] \in Nat \X Nat
  BY <1>2, ElementOfSeq
<1>5. DOMAIN boxesScore = 1 .. validCount /\ DOMAIN indexArray = 1 .. validCount
      /\ DOMAIN calls = 1 .. Len(calls) /\ Len(calls) \in Nat
  BY <1>2
<1>6. /\ part.left \in Nat /\ part.right \in Nat /\ part.low \in Nat /\ part.high \in Nat
      /\ part.key \in Nat /\ part.key_index \in Nat
  BY <1>2 DEF Part
<1>. QED  BY <1>1, <1>2, <1>3, <1>4, <1>5, <1>6

LEMMA SortCallKeeps ==
    ASSUME DetectionInv, SortCall
    PROVE  DetectionInv'
<1>. DEFINE left == Head(calls)[1]
            right == Head(calls)[2]
<1>1. /\ pc = "sort" /\ part = NoPart /\ calls # <<>>
      /\ part' = IF left < right
                   THEN [left |-> left, right |-> right, low |-> left, high |-> right,
                         key |-> boxesScore[left], key_index |-> indexArray[left]]
                   ELSE NoPart
      /\ calls' = Tail(calls)
      /\ UNCHANGED <<pc, branch, cells, cell, candVars, boxesScore, indexArray, row, group,
                     drawVars>>
  BY DEF SortCall
<1>. USE <1>1, SortFacts
<1>2. /\ 1 \in DOMAIN calls /\ left = calls[1][1] /\ right = calls[1][2]
      /\ left \in Nat /\ right \in Nat
  BY SMTT(30)
<1>3. /\ calls' \in Seq(Nat \X Nat) /\ DOMAIN calls' = 1 .. Len(calls) - 1
      /\ \A c \in DOMAIN calls' : c + 1 \in DOMAIN calls /\ 1 < c + 1 /\ calls'[c] = calls[c + 1]
      /\ \A c \in DOMAIN calls : c = 1 \/ (c - 1 \in DOMAIN calls' /\ calls'[c - 1] = calls[c])
  <2>1. /\ calls \in Seq(Nat \X Nat) /\ calls # <<>> /\ calls' = Tail(calls)
        /\ Len(calls) \in Nat /\ DOMAIN calls = 1 .. Len(calls)
    OBVIOUS
  <2>2. /\ calls' \in Seq(Nat \X Nat) /\ DOMAIN calls' = 1 .. Len(calls) - 1
        /\ \A c \in 1 .. Len(calls) - 1 : calls'[c] = calls[c + 1]
    BY ONLY <2>1, HeadTailProperties
  <2>3. \A c \in 1 .. Len(calls) - 1 : c + 1 \in 1 .. Len(calls) /\ 1 < c + 1
    BY ONLY <2>1
  <2>4. \A c \in 1 .. Len(calls) : c = 1 \/ (c - 1 \in 1 .. Len(calls) - 1 /\ (c - 1) + 1 = c)
    BY ONLY <2>1
  <2>. QED  BY ONLY <2>1, <2>2, <2>3, <2>4
<1>4. 1 <= left /\ right <= validCount
  BY <1>2 DEF RangesApart
<1>. HIDE DEF left, right
<1>5. Score_ = boxesScore /\ Index_ = indexArray
  BY DEF Score_, Index_
<1>6. Score_' = boxesScore /\ Index_' = indexArray /\ part' \in Part /\ part'.low <= part'.high
  <2>1. CASE left < right
    <3>1. left \in Position
      BY <2>1, <1>2, <1>4
    <3>2. boxesScore[left] \in Nat /\ indexArray[left] \in Nat
      <4>1. indexArray[left] \in Position
        BY <3>1, <1>5 DEF Permutation
      <4>. QED  BY <3>1, <4>1, Typed
    <3>3. /\ part' = [left |-> left, right |-> right, low |-> left, high |-> right,
                      key |-> boxesScore[left], key_index |-> indexArray[left]]
      BY <2>1
    <3>4. part' \in Part /\ part'.low <= part'.high
      BY SMTT(30), <3>2, <3>3, <2>1, <1>2 DEF Part
    <3>5. [boxesScore EXCEPT ![left] = boxesScore[left]] = boxesScore
          /\ [indexArray EXCEPT ![left] = indexArray[left]] = indexArray
      OBVIOUS
    <3>6. Score_' = boxesScore /\ Index_' = indexArray
      BY <3>3, <3>5 DEF Score_, Index_
    <3>. QED  BY <3>4, <3>6
  <2>2. CASE ~(left < right)
    BY <2>2 DEF Score_, Index_, Part, NoPart
  <2>. QED  BY <2>1, <2>2
<1>7. part' # NoPart => part'.left = left /\ part'.right = right /\ part'.low = left
                        /\ part'.high = right /\ left < right
  OBVIOUS
<1>8. RangesApart'
  <2>1. validCount' = validCount
    BY DEF validCount, candVars
  <2>2. \A c \in DOMAIN calls' : 1 <= calls'[c][1] /\ calls'[c][2] <= validCount
    BY <1>3 DEF RangesApart
  <2>3. ASSUME NEW c \in DOMAIN calls', NEW d \in DOMAIN calls', c < d
        PROVE  calls'[c][2] < calls'[d][1]
    <3>1. c + 1 < d + 1
      BY <1>3, <2>3
    <3>. QED  BY <3>1, <1>3 DEF RangesApart
  <2>4. part' # NoPart => \A c \in DOMAIN calls' : part'.right < calls'[c][1]
    BY ZenonT(40), <1>2, <1>3, <1>7 DEF RangesApart
  <2>. QED  BY <2>1, <2>2, <2>3, <2>4 DEF RangesApart, NoPart
<1>9. Halves(Score_)'
  <2>1. validCount' = validCount
    BY DEF validCount, candVars
  <2>. SUFFICES ASSUME part' # NoPart
                PROVE  /\ 1 <= left /\ left < right /\ right <= validCount
                       /\ \A p \in left .. left - 1 : Score_'[p] >= part'.key
                       /\ \A p \in right + 1 .. right : Score_'[p] <= part'.key
    BY SMTT(30), <2>1, <1>2, <1>7 DEF Halves, NoPart
  <2>2. left .. left - 1 = {} /\ right + 1 .. right = {}
    BY ONLY <1>2
  <2>. QED  BY <2>2, <1>4, <1>7
<1>10. \A p, q \in Position : p < q => Score_'[p] >= Score_'[q] \/ Together(p, q)'
  <2>. SUFFICES ASSUME NEW p \in Position, NEW q \in Position, p < q, Together(p, q)
                PROVE  Together(p, q)'
    BY <1>5, <1>6
  <2>1. PICK c \in DOMAIN calls : calls[c][1] <= p /\ q <= calls[c][2]
    BY DEF Together
  <2>2. CASE c = 1
    <3>1. left < right /\ left <= p /\ q <= right
      BY SMTT(30), <2>1, <2>2, <1>2
    <3>2. part'.left = left /\ part'.right = right /\ left # 0
      BY <3>1, <1>4
    <3>. QED  BY <3>1, <3>2 DEF Together, NoPart
  <2>3. CASE c # 1
    BY <2>1, <2>3, <1>3 DEF Together
  <2>. QED  BY <2>2, <2>3
<1>. QED  BY <1>3, <1>5, <1>6, <1>8, <1>9, <1>10, SortingKeeps

\* Where the two loops of an iteration stop.
LEMMA Stops ==
    ASSUME DetectionInv, pc = "sort", part.low < part.high, NEW high, NEW once, NEW low,
           high = HighStop(boxesScore),
           once = [boxesScore EXCEPT ![part.low] = boxesScore[high]],
           low = LowStop(once, high)
    PROVE  /\ high \in part.low .. part.high /\ low \in part.low .. high
           /\ \A n \in high + 1 .. part.high : boxesScore[n] <= part.key
           /\ \A n \in part.low .. low - 1 : once[n] >= part.key
           /\ high > part.low => low > part.low /\ boxesScore[high] > part.key
<1>1. /\ part # NoPart /\ 1 <= part.left /\ part.right <= validCount
      /\ part.left <= part.low /\ part.high <= part.right
  BY SortFacts DEF NoPart, Halves
<1>. /\ part.low \in Nat /\ part.high \in Nat /\ part.key \in Nat
  BY SortFacts
<1>2. \A n \in part.low .. part.high :
        n \in Position /\ boxesScore[n] \in Nat /\ n \in DOMAIN boxesScore
  BY SMTT(30), <1>1, SortFacts
<1>. DEFINE H == {part.low} \cup {n \in part.low + 1 .. part.high : boxesScore[n] > part.key}
<1>3. high \in H /\ \A n \in H : n <= high
  <2>1. H \in SUBSET Int /\ H # {} /\ part.high \in Int /\ \A n \in H : n <= part.high
    OBVIOUS
  <2>2. high = Max(H)
    BY DEF HighStop
  <2>. HIDE DEF H
  <2>. QED  BY <2>1, <2>2, MaxOf
<1>4. high \in part.low .. part.high
  BY <1>3
<1>5. \A n \in high + 1 .. part.high : boxesScore[n] <= part.key
  <2>. SUFFICES ASSUME NEW n \in high + 1 .. part.high PROVE boxesScore[n] <= part.key
    OBVIOUS
  <2>1. n \in part.low + 1 .. part.high /\ ~(n <= high)
    BY <1>4
  <2>2. n \notin H
    BY <2>1, <1>3
  <2>. QED  BY <2>1, <2>2, <1>2
<1>6. high > part.low => boxesScore[high] > part.key
  BY <1>3, <1>4
<1>. HIDE DEF H
<1>7. /\ \A n \in part.low .. high : once[n] \in Nat
      /\ once[part.low] = boxesScore[high]
  BY <1>2, <1>4
<1>. DEFINE L == {high} \cup {n \in part.low .. high - 1 : once[n] < part.key}
<1>8. low \in L /\ \A n \in L : low <= n
  <2>1. L \in SUBSET Int /\ L # {} /\ part.low \in Int /\ \A n \in L : part.low <= n
    BY <1>4
  <2>2. low = Min(L)
    BY DEF LowStop
  <2>. HIDE DEF L
  <2>3. Min(L) \in L /\ \A n \in L : Min(L) <= n
    BY ONLY <2>1, MinOf
  <2>. QED  BY <2>2, <2>3
<1>9. low \in part.low .. high
  BY <1>4, <1>8
<1>10. \A n \in part.low .. low - 1 : once[n] >= part.key
  <2>. SUFFICES ASSUME NEW n \in part.low .. low - 1 PROVE once[n] >= part.key
    OBVIOUS
  <2>1. n \in part.low .. high - 1 /\ ~(low <= n) /\ once[n] \in Nat
    BY <1>4, <1>7, <1>9
  <2>2. n \notin L
    BY <2>1, <1>8
  <2>. QED  BY <2>1, <2>2
<1>11. high > part.low => low > part.low
  <2>. SUFFICES ASSUME high > part.low, low = part.low PROVE FALSE
    BY <1>4, <1>9
  <2>1. low # high
    <3>1. high \in Int /\ part.low \in Int
      BY <1>4
    <3>2. \A a, b \in Int : a > b => b # a
      BY ONLY TRUE
    <3>. QED  BY <3>1, <3>2, Zenon
  <2>2. once[low] < part.key
    BY <2>1, <1>8
  <2>3. once[low] = boxesScore[high] /\ boxesScore[high] \in Nat
    BY <1>2, <1>4, <1>7
  <2>. QED  BY <2>2, <2>3, <1>6
<1>. QED  BY <1>4, <1>5, <1>6, <1>9, <1>10, <1>11

LEMMA PartitionKeeps ==
    ASSUME DetectionInv, Partition
    PROVE  DetectionInv'
<1>. DEFINE high == HighStop(boxesScore)
            once == [boxesScore EXCEPT ![part.low] = boxesScore[high]]
            low == LowStop(once, high)
            pi == [p \in Position |-> IF p = low THEN part.low
                                      ELSE IF p = part.low THEN high
                                      ELSE IF p = high THEN low ELSE p]
            Put(array, at, key) == [array EXCEPT ![at] = key]
<1>1. /\ pc = "sort" /\ part.low < part.high
      /\ boxesScore' = Moved(boxesScore, high, low) /\ indexArray' = Moved(indexArray, high, low)
      /\ part' = [part EXCEPT !.low = low, !.high = high]
      /\ UNCHANGED <<pc, branch, cells, cell, candVars, calls, row, group, drawVars>>
  BY DEF Partition
<1>2. /\ high \in part.low .. part.high /\ low \in part.low .. high
      /\ \A n \in high + 1 .. part.high : boxesScore[n] <= part.key
      /\ \A n \in part.low .. low - 1 : once[n] >= part.key
      /\ high > part.low => low > part.low
  BY ZenonT(40), <1>1, Stops
<1>3. /\ part # NoPart /\ 1 <= part.left /\ part.left < part.right /\ part.right <= validCount
      /\ part.left <= part.low /\ part.high <= part.right
      /\ \A p \in part.left .. part.low - 1 : Score_[p] >= part.key
      /\ \A p \in part.high + 1 .. part.right : Score_[p] <= part.key
  BY <1>1, SortFacts DEF NoPart, Halves
<1>4. /\ part \in Part /\ part.left \in Nat /\ part.right \in Nat /\ part.low \in Nat
      /\ part.high \in Nat /\ part.key \in Nat /\ part.key_index \in Nat
      /\ validCount \in Nat /\ Position = 1 .. validCount
  BY <1>1, SortFacts
<1>. HIDE DEF high, low
<1>5. high \in Nat /\ low \in Nat /\ high \in Position /\ low \in Position /\ part.low \in Position
  BY SMTT(30), <1>2, <1>3, <1>4
<1>6. /\ part' = [left |-> part.left, right |-> part.right, low |-> low, high |-> high,
                  key |-> part.key, key_index |-> part.key_index]
      /\ part' \in Part /\ part'.low <= part'.high /\ part' # NoPart
      /\ part'.left = part.left /\ part'.right = part.right /\ part'.key = part.key
  <2>1. part' = [left |-> part.left, right |-> part.right, low |-> low, high |-> high,
                  key |-> part.key, key_index |-> part.key_index]
    BY <1>1, <1>4 DEF Part
  <2>. QED  BY <2>1, <1>2, <1>3, <1>4, <1>5 DEF Part, NoPart
\* What an array is after the step with the key put back, and what it was before.
<1>7. ASSUME NEW array, NEW key, DOMAIN array = 1 .. validCount
      PROVE  \A p \in Position :
                Put(Moved(array, high, low), low, key)[p] = Put(array, part.low, key)[pi[p]]
  <2>. SUFFICES ASSUME NEW p \in Position
                PROVE  Put(Moved(array, high, low), low, key)[p] = Put(array, part.low, key)[pi[p]]
    OBVIOUS
  <2>1. DOMAIN array = Position /\ DOMAIN Moved(array, high, low) = Position
    BY <1>4, <1>7 DEF Moved
  <2>2. Put(Moved(array, high, low), low, key)[p]
           = IF p = low THEN key ELSE Moved(array, high, low)[p]
    BY <2>1
  <2>3. Moved(array, high, low)[p]
           = LET moved(n) == IF n = part.low THEN array[high] ELSE array[n]
             IN  IF p = high THEN moved(low) ELSE moved(p)
    BY <2>1, <1>5 DEF Moved
  <2>4. \A n \in Position :
          Put(array, part.low, key)[n] = IF n = part.low THEN key ELSE array[n]
    BY <2>1
  <2>5. pi[p] = (IF p = low THEN part.low ELSE IF p = part.low THEN high
                 ELSE IF p = high THEN low ELSE p) /\ pi[p] \in Position
    BY <1>5
  <2>6. low = part.low => high = part.low
    BY SMTT(30), <1>2, <1>4, <1>5
  <2>7. high = part.low => low = part.low
    BY <1>2, <1>4, <1>5
  <2>. HIDE DEF pi, Put
  <2>8. CASE p = low
    BY <2>8, <2>2, <2>4, <2>5
  <2>9. CASE p # low /\ p = part.low
    BY <2>9, <2>2, <2>3, <2>4, <2>5, <2>7
  <2>10. CASE p # low /\ p # part.low /\ p = high
    BY <2>10, <2>2, <2>3, <2>4, <2>5, <2>6
  <2>11. CASE p # low /\ p # part.low /\ p # high
    BY <2>11, <2>2, <2>3, <2>4, <2>5
  <2>. QED  BY <2>8, <2>9, <2>10, <2>11
<1>8. \A p \in Position : Score_'[p] = Score_[pi[p]] /\ Index_'[p] = Index_[pi[p]]
  <2>1. /\ DOMAIN boxesScore = 1 .. validCount /\ DOMAIN indexArray = 1 .. validCount
    BY <1>1, SortFacts
  <2>2. /\ Score_ = Put(boxesScore, part.low, part.key)
        /\ Index_ = Put(indexArray, part.low, part.key_index)
    BY <1>3 DEF Score_, Index_
  <2>3. /\ Score_' = Put(Moved(boxesScore, high, low), low, part.key)
        /\ Index_' = Put(Moved(indexArray, high, low), low, part.key_index)
    BY <1>1, <1>6 DEF Score_, Index_, NoPart
  <2>. HIDE DEF pi, Put
  <2>4. \A p \in Position : Score_'[p] = Score_[pi[p]]
    BY ONLY <2>1, <2>2, <2>3, <1>7
  <2>5. \A p \in Position : Index_'[p] = Index_[pi[p]]
    BY ONLY <2>1, <2>2, <2>3, <1>7
  <2>. QED  BY <2>4, <2>5
<1>9. /\ \A p \in Position : pi[p] \in Position
      /\ \A p, q \in Position : pi[p] = pi[q] => p = q
      /\ \A q \in Position : \E p \in Position : pi[p] = q
  <2>1. \A p \in Position : pi[p] \in Position
    BY <1>5
  <2>2. /\ low = part.low => high = part.low
        /\ high = part.low => low = part.low
    BY <1>2, <1>4, <1>5
  <2>3. \A p, q \in Position : pi[p] = pi[q] => p = q
    BY <1>5, <2>2
  <2>4. ASSUME NEW q \in Position PROVE \E p \in Position : pi[p] = q
    <3>1. CASE q = part.low
      BY <3>1, <1>5
    <3>2. CASE q # part.low /\ q = high
      <4>1. part.low # low /\ pi[part.low] = high
        BY <3>2, <1>5, <2>2
      <4>. QED  BY <3>2, <4>1, <1>5
    <3>3. CASE q # part.low /\ q # high /\ q = low
      <4>1. pi[high] = low
        BY <3>3, <1>5, <2>2
      <4>. QED  BY <3>3, <4>1, <1>5
    <3>4. CASE q # part.low /\ q # high /\ q # low
      <4>1. pi[q] = q
        BY <3>4
      <4>. QED  BY <4>1
    <3>. QED  BY <3>1, <3>2, <3>3, <3>4
  <2>. QED  BY <2>1, <2>3, <2>4
<1>10. Permutation(Score_', Index_')
  <2>. HIDE DEF pi
  <2>1. Permutation(Score_, Index_)
    BY <1>1, SortFacts
  <2>2. \A S, I, S2, I2, f :
          /\ Permutation(S, I)
          /\ \A p \in Position : f[p] \in Position /\ S2[p] = S[f[p]] /\ I2[p] = I[f[p]]
          /\ \A p, q \in Position : f[p] = f[q] => p = q
          /\ \A q \in Position : \E p \in Position : f[p] = q
          => Permutation(S2, I2)
    BY Rearranged
  <2>. QED  BY <2>1, <2>2, <1>8, <1>9
<1>11. \A p \in Position :
          /\ p \in part.left .. part.right => pi[p] \in part.left .. part.right
          /\ p \notin part.low .. part.high => pi[p] = p
  BY SMTT(30), <1>2, <1>3, <1>4, <1>5
<1>12. \A p \in Position : Score_[p] \in Nat /\ Score_'[p] \in Nat
  <2>1. TypeOK /\ Permutation(Score_, Index_)
    BY <1>1, SortFacts
  <2>2. \A p \in Position : Score_[p] \in Nat
    BY <2>1, Typed DEF Permutation
  <2>. QED  BY <2>2, <1>8, <1>9
<1>13. UNCHANGED validCount
  BY <1>1 DEF validCount, candVars
<1>14. RangesApart'
  BY <1>1, <1>3, <1>6, <1>13, SortFacts DEF RangesApart
<1>15. \A p, q \in Position : Together(p, q)' <=> Together(p, q)
  BY <1>1, <1>3, <1>6 DEF Together
<1>16. Halves(Score_)'
  <2>1. ASSUME NEW p \in part.left .. low - 1 PROVE Score_'[p] >= part.key
    <3>1. p \in Position /\ p \in Nat
      BY <1>3, <1>4, <1>5, <1>2
    <3>2. CASE p < part.low
      <4>1. p \in part.left .. part.low - 1 /\ p \notin part.low .. part.high
        BY <3>1, <3>2, <1>4
      <4>2. Score_'[p] = Score_[p]
        BY <4>1, <3>1, <1>8, <1>11
      <4>. QED  BY <4>1, <4>2, <1>3
    <3>3. CASE ~(p < part.low)
      <4>1. p \in part.low .. low - 1 /\ p # low /\ p # high
        BY SMTT(30), <3>1, <3>3, <1>2, <1>4, <1>5
      <4>2. Score_'[p] = once[p]
        <5>1. Score_' = [Moved(boxesScore, high, low) EXCEPT ![low] = part.key]
          BY <1>1, <1>6 DEF Score_, NoPart
        <5>2. DOMAIN boxesScore = Position
          BY <1>1, SortFacts
        <5>. QED  BY <5>1, <5>2, <4>1, <3>1 DEF Moved
      <4>. QED  BY <4>1, <4>2, <1>2
    <3>. QED  BY <3>2, <3>3
  <2>2. ASSUME NEW p \in high + 1 .. part.right PROVE Score_'[p] <= part.key
    <3>1. p \in Position /\ p \in Nat /\ p # low /\ p # high /\ p # part.low
      BY SMTT(30), <1>2, <1>3, <1>4, <1>5
    <3>2. pi[p] = p /\ Score_'[p] = Score_[p]
      BY <3>1, <1>8
    <3>3. CASE p > part.high
      BY <3>1, <3>2, <3>3, <1>3, <1>4
    <3>4. CASE ~(p > part.high)
      <4>1. Score_[p] = boxesScore[p]
        BY <3>1, <1>3, <1>1, SortFacts DEF Score_
      <4>2. p \in high + 1 .. part.high
        BY <3>1, <3>4, <1>4, <1>5
      <4>. QED  BY <4>1, <4>2, <3>2, <1>2
    <3>. QED  BY <3>3, <3>4
  <2>3. part.left <= low /\ high <= part.right
    BY SMTT(30), <1>2, <1>3, <1>4, <1>5
  <2>. HIDE DEF pi
  <2>. QED  BY <2>1, <2>2, <2>3, <1>3, <1>6, <1>13 DEF Halves
<1>17. \A p, q \in Position : p < q => Score_'[p] >= Score_'[q] \/ Together(p, q)'
  <2>. HIDE DEF pi
  <2>. SUFFICES ASSUME NEW p \in Position, NEW q \in Position, p < q, ~Together(p, q)
                PROVE  Score_'[p] >= Score_'[q]
    BY <1>15
  <2>1. pi[p] \in Position /\ pi[q] \in Position /\ p \in Nat /\ q \in Nat
        /\ Score_'[p] = Score_[pi[p]] /\ Score_'[q] = Score_[pi[q]]
    BY <1>4, <1>8, <1>9
  <2>2. ~(part.left <= p /\ q <= part.right)
    BY <1>3 DEF Together
  <2>3. \A c \in DOMAIN calls : part.right < calls[c][1] /\ calls[c][1] \in Nat
    BY <1>1, <1>3, SortFacts DEF RangesApart
  <2>4. pi[p] < pi[q]
    BY SMTT(30), <2>1, <2>2, <1>3, <1>4, <1>11
  <2>5. ~Together(pi[p], pi[q])
    <3>1. CASE p \notin part.left .. part.right /\ q \notin part.left .. part.right
      <4>1. pi[p] = p /\ pi[q] = q
        BY SMTT(30), <3>1, <1>3, <1>4, <1>11, <2>1
      <4>. QED  BY <4>1
    <3>2. CASE p \in part.left .. part.right
      <4>1. pi[p] <= part.right /\ pi[p] \in Nat
        BY SMTT(30), <3>2, <1>4, <1>11
      <4>2. q > part.right /\ pi[q] = q
        BY SMTT(30), <3>2, <2>1, <2>2, <1>3, <1>4, <1>11
      <4>. QED  BY SMTT(30), <4>1, <4>2, <2>1, <2>3, <1>4 DEF Together
    <3>3. CASE q \in part.left .. part.right /\ p \notin part.left .. part.right
      <4>1. p < part.left /\ pi[p] = p
        BY SMTT(30), <3>3, <2>1, <2>2, <1>3, <1>4, <1>11
      <4>. QED  BY SMTT(30), <4>1, <2>1, <2>3, <1>3, <1>4 DEF Together
    <3>. QED  BY <3>1, <3>2, <3>3
  <2>6. Score_[pi[p]] >= Score_[pi[q]]
    BY <2>1, <2>4, <2>5, <1>1, SortFacts
  <2>. QED  BY <2>1, <2>6
<1>18. /\ boxesScore' \in Seq(Nat) /\ Len(boxesScore') = validCount
       /\ indexArray' \in Seq(Position \cup {Removed}) /\ Len(indexArray') = validCount
  <2>1. ASSUME NEW S, NEW array \in Seq(S), Len(array) = validCount
        PROVE  Moved(array, high, low) \in Seq(S) /\ Len(Moved(array, high, low)) = validCount
    <3>1. [array EXCEPT ![part.low] = array[high]] \in Seq(S)
          /\ Len([array EXCEPT ![part.low] = array[high]]) = validCount
      BY <2>1, <1>4, <1>5
    <3>. QED  BY <3>1, <1>4, <1>5 DEF Moved
  <2>. QED  BY <2>1, <1>1, SortFacts
<1>. HIDE DEF pi
<1>19. calls' \in Seq(Nat \X Nat)
  BY <1>1, SortFacts
<1>. QED  BY <1>1, <1>6, <1>10, <1>14, <1>16, <1>17, <1>18, <1>19, SortingKeeps

\* The key is where it belongs: what is left of it is not lower, what is right
\* of it not higher, and only the halves remain to be sorted.
LEMMA PlaceKeyKeeps ==
    ASSUME DetectionInv, PlaceKey
    PROVE  DetectionInv'
<1>. DEFINE lower == <<part.left, part.low - 1>>
            upper == <<part.low + 1, part.right>>
<1>1. /\ pc = "sort" /\ part # NoPart /\ part.low = part.high
      /\ boxesScore' = [boxesScore EXCEPT ![part.low] = part.key]
      /\ indexArray' = [indexArray EXCEPT ![part.low] = part.key_index]
      /\ calls' = <<lower, upper>> \o calls /\ part' = NoPart
      /\ UNCHANGED <<pc, branch, cells, cell, candVars, row, group, drawVars>>
  BY DEF PlaceKey
<1>2. /\ 1 <= part.left /\ part.left < part.right /\ part.right <= validCount
      /\ part.left <= part.low /\ part.low <= part.right
      /\ \A p \in part.left .. part.low - 1 : Score_[p] >= part.key
      /\ \A p \in part.low + 1 .. part.right : Score_[p] <= part.key
  BY <1>1, SortFacts DEF Halves
<1>3. /\ part.left \in Nat /\ part.right \in Nat /\ part.low \in Nat /\ part.key \in Nat
      /\ part.key_index \in Nat /\ validCount \in Nat /\ Position = 1 .. validCount
      /\ TypeOK /\ Permutation(Score_, Index_) /\ RangesApart
  BY <1>1, SortFacts
<1>4. /\ boxesScore' = Score_ /\ indexArray' = Index_ /\ Score_' = Score_ /\ Index_' = Index_
  BY <1>1 DEF Score_, Index_
<1>5. part.low \in Position /\ Score_[part.low] = part.key /\ Index_[part.low] = part.key_index
  <2>1. part.low \in 1 .. validCount
    BY <1>2, <1>3
  <2>2. DOMAIN boxesScore = 1 .. validCount /\ DOMAIN indexArray = 1 .. validCount
    BY <1>1, SortFacts
  <2>. QED  BY <1>1, <1>3, <2>1, <2>2 DEF Score_, Index_
<1>6. /\ boxesScore' \in Seq(Nat) /\ Len(boxesScore') = validCount
      /\ indexArray' \in Seq(Position \cup {Removed}) /\ Len(indexArray') = validCount
  <2>1. part.key_index \in Position
    BY <1>3, <1>5 DEF Permutation
  <2>2. /\ boxesScore \in Seq(Nat) /\ Len(boxesScore) = validCount
        /\ indexArray \in Seq(Position \cup {Removed}) /\ Len(indexArray) = validCount
    BY <1>1, SortFacts
  <2>3. part.low \in 1 .. validCount
    BY <1>3, <1>5
  <2>4. boxesScore' \in Seq(Nat) /\ Len(boxesScore') = validCount
    BY <1>1, <1>3, <2>2, <2>3
  <2>5. indexArray' \in Seq(Position \cup {Removed}) /\ Len(indexArray') = validCount
    BY <1>1, <2>1, <2>2, <2>3
  <2>. QED  BY <2>4, <2>5
<1>7. /\ lower \in Nat \X Nat /\ upper \in Nat \X Nat
      /\ lower[1] = part.left /\ lower[2] = part.low - 1
      /\ upper[1] = part.low + 1 /\ upper[2] = part.right
  BY SMTT(30), <1>2, <1>3
<1>. HIDE DEF lower, upper
<1>8. /\ calls' \in Seq(Nat \X Nat) /\ DOMAIN calls' = 1 .. Len(calls) + 2
      /\ calls'[1] = lower /\ calls'[2] = upper
      /\ \A c \in DOMAIN calls : c + 2 \in DOMAIN calls' /\ calls'[c + 2] = calls[c]
      /\ \A c \in DOMAIN calls' :
            c = 1 \/ c = 2 \/ (c - 2 \in DOMAIN calls /\ calls'[c] = calls[c - 2] /\ c > 2)
  <2>1. calls \in Seq(Nat \X Nat)
    BY <1>1, SortFacts
  <2>2. calls' = <<lower, upper>> \o calls /\ lower \in Nat \X Nat /\ upper \in Nat \X Nat
    BY <1>1, <1>7
  <2>. DEFINE two == <<lower, upper>>
  <2>3. two \in Seq(Nat \X Nat) /\ Len(two) = 2 /\ two[1] = lower /\ two[2] = upper
    BY <2>2
  <2>4. calls' = two \o calls
    BY <2>2
  <2>. HIDE DEF two
  <2>5. Len(calls) \in Nat /\ DOMAIN calls = 1 .. Len(calls)
    BY <2>1
  <2>6. /\ two \o calls \in Seq(Nat \X Nat) /\ Len(two \o calls) = Len(two) + Len(calls)
        /\ \A c \in 1 .. Len(two) + Len(calls) :
              (two \o calls)[c] = IF c <= Len(two) THEN two[c] ELSE calls[c - Len(two)]
    BY ONLY <2>1, <2>3, ConcatProperties, Zenon
  <2>7. /\ calls' \in Seq(Nat \X Nat) /\ Len(calls') = 2 + Len(calls)
        /\ \A c \in 1 .. 2 + Len(calls) : calls'[c] = IF c <= 2 THEN two[c] ELSE calls[c - 2]
    BY ONLY <2>3, <2>4, <2>6, Zenon
  <2>8. DOMAIN calls' = 1 .. Len(calls) + 2 /\ 2 + Len(calls) = Len(calls) + 2
    BY ONLY <2>5, <2>7
  <2>9. calls'[1] = lower /\ calls'[2] = upper
    BY ONLY <2>3, <2>5, <2>7
  <2>10. \A c \in 1 .. Len(calls) :
            c + 2 \in 1 .. Len(calls) + 2 /\ ~(c + 2 <= 2) /\ (c + 2) - 2 = c
    BY ONLY <2>5
  <2>11. \A c \in 1 .. Len(calls) + 2 :
            c = 1 \/ c = 2 \/ (c - 2 \in 1 .. Len(calls) /\ ~(c <= 2) /\ c > 2)
    BY ONLY <2>5
  <2>. QED  BY ONLY <2>5, <2>7, <2>8, <2>9, <2>10, <2>11, Zenon
<1>8a. Len(calls) \in Nat
  BY <1>1, SortFacts
<1>9. \A c \in DOMAIN calls :
        /\ calls[c][1] \in Nat /\ calls[c][2] \in Nat
        /\ 1 <= calls[c][1] /\ calls[c][2] <= validCount /\ part.right < calls[c][1]
  BY <1>1, SortFacts DEF RangesApart
<1>10. RangesApart'
  <2>1. validCount' = validCount
    BY <1>1 DEF validCount, candVars
  <2>2. ASSUME NEW c \in DOMAIN calls' PROVE 1 <= calls'[c][1] /\ calls'[c][2] <= validCount
    <3>1. CASE c = 1
      <4>1. calls'[c] = lower
        BY ONLY <3>1, <1>8, Zenon
      <4>. QED  BY ONLY SMTT(30), <4>1, <1>2, <1>3, <1>7
    <3>2. CASE c = 2
      <4>1. calls'[c] = upper
        BY ONLY <3>2, <1>8, Zenon
      <4>. QED  BY ONLY <4>1, <1>2, <1>3, <1>7
    <3>3. CASE c - 2 \in DOMAIN calls /\ calls'[c] = calls[c - 2]
      BY ONLY <3>3, <1>9
    <3>. QED  BY ONLY <3>1, <3>2, <3>3, <2>2, <1>8
  <2>3. ASSUME NEW c \in DOMAIN calls', NEW d \in DOMAIN calls', c < d
        PROVE  calls'[c][2] < calls'[d][1]
    <3>. c \in Nat /\ d \in Nat
      BY SMTT(30), <1>8
    <3>1. CASE c = 1 /\ d = 2
      BY SMTT(30), <3>1, <1>3, <1>7, <1>8
    <3>2. CASE (c = 1 \/ c = 2) /\ d > 2
      <4>1. d - 2 \in DOMAIN calls /\ calls'[d] = calls[d - 2]
        <5>1. d # 1 /\ d # 2
          BY ONLY <3>2
        <5>. QED  BY ONLY <5>1, <1>8, d \in DOMAIN calls', Zenon
      <4>2. calls'[c] = lower \/ calls'[c] = upper
        BY ONLY <3>2, <1>8
      <4>3. calls'[c][2] <= part.right /\ calls'[c][2] \in Int
        BY ONLY SMTT(30), <4>2, <1>2, <1>3, <1>7
      <4>. QED  BY ONLY <4>1, <4>3, <1>3, <1>9
    <3>3. CASE c > 2
      <4>1. /\ c - 2 \in DOMAIN calls /\ calls'[c] = calls[c - 2]
            /\ d - 2 \in DOMAIN calls /\ calls'[d] = calls[d - 2]
        <5>1. c # 1 /\ c # 2 /\ d # 1 /\ d # 2
          BY ONLY <3>3, <2>3, c \in Nat, d \in Nat
        <5>. QED  BY ONLY <5>1, <1>8, c \in DOMAIN calls', d \in DOMAIN calls', Zenon
      <4>2. c - 2 < d - 2
        BY <2>3
      <4>. QED  BY <4>1, <4>2, <1>3 DEF RangesApart
    <3>. QED  BY SMTT(30), <3>1, <3>2, <3>3, <2>3, <1>8
  <2>. QED  BY <2>1, <2>2, <2>3, <1>1 DEF RangesApart, NoPart
<1>11. Halves(Score_)'
  BY <1>1 DEF Halves, NoPart
<1>12. \A p \in Position : Score_[p] \in Nat /\ p \in Nat
  BY <1>3, Typed DEF Permutation
<1>13. \A p, q \in Position : p < q => Score_'[p] >= Score_'[q] \/ Together(p, q)'
  <2>. SUFFICES ASSUME NEW p \in Position, NEW q \in Position, p < q, ~(Score_[p] >= Score_[q])
                PROVE  Together(p, q)'
    BY <1>4
  <2>1. Together(p, q) /\ p \in Nat /\ q \in Nat
    BY <1>1, <1>12, SortFacts
  <2>2. CASE \E c \in DOMAIN calls : calls[c][1] <= p /\ q <= calls[c][2]
    BY <2>2, <1>8 DEF Together
  <2>3. CASE part.left <= p /\ q <= part.right
    <3>1. CASE q < part.low
      <4>1. lower[1] <= p /\ q <= lower[2]
        BY ONLY SMTT(30), <3>1, <2>1, <2>3, <1>3, <1>7
      <4>2. calls'[1] = lower /\ 1 \in DOMAIN calls'
        BY ONLY <1>8, <1>8a
      <4>. QED  BY <4>1, <4>2 DEF Together
    <3>2. CASE p > part.low
      <4>1. upper[1] <= p /\ q <= upper[2]
        BY ONLY SMTT(30), <3>2, <2>1, <2>3, <1>3, <1>7
      <4>2. calls'[2] = upper /\ 2 \in DOMAIN calls'
        BY ONLY <1>8, <1>8a
      <4>. QED  BY <4>1, <4>2 DEF Together
    <3>3. CASE p <= part.low /\ part.low <= q
      <4>1. Score_[p] >= part.key
        BY <3>3, <2>1, <2>3, <1>2, <1>3, <1>5
      <4>2. part.key >= Score_[q]
        BY <3>3, <2>1, <2>3, <1>2, <1>3, <1>5, <1>12
      <4>. QED  BY SMTT(30), <4>1, <4>2, <1>3, <1>12
    <3>. QED  BY <3>1, <3>2, <3>3, <2>1, <1>3
  <2>. QED  BY <2>1, <2>2, <2>3 DEF Together
<1>16. part' \in Part /\ part'.low <= part'.high
  BY <1>1 DEF Part, NoPart
<1>15. Permutation(Score_', Index_')
  BY <1>3, <1>4
<1>. QED  BY <1>1, <1>6, <1>8, <1>10, <1>11, <1>13, <1>15, <1>16, SortingKeeps

\* Nothing is left to be sorted, and nothing is removed yet.
LEMMA SortDoneKeeps ==
    ASSUME DetectionInv, SortDone
    PROVE  DetectionInv'
<1>. DEFINE first == Min(Range(classId))
<1>1. /\ pc = "sort" /\ part = NoPart /\ calls = <<>> /\ pc' = "nms"
      /\ row' = [filterId |-> first, i |-> 1]
      /\ UNCHANGED <<branch, cells, cell, filterBoxes, classId, found, boxesScore, indexArray,
                     calls, part, group, image, letter_box, drawn>>
  BY DEF SortDone, candVars, sortVars, drawVars
<1>2. /\ TypeOK /\ validCount > 0 /\ group = <<>> /\ drawn = <<>> /\ Len(indexArray) = validCount
  BY <1>1 DEF DetectionInv, Phases
<1>3. first \in Class /\ \A n \in Position : first <= classId[n]
  BY <1>2, RangeClass, MinClass
<1>. HIDE DEF first
<1>4. validCount' = validCount /\ Position' = Position /\ Result' = Result
  BY <1>1 DEF validCount, Position, Result
<1>5. TypeOK'
  BY <1>1, <1>2, <1>3, <1>4 DEF TypeOK
<1>6. ScoresAbove' /\ Phases'
  BY <1>1, <1>2, <1>4 DEF DetectionInv, ScoresAbove, Phases
<1>7. /\ Permutation(boxesScore, indexArray)
      /\ \A p, q \in Position : p < q => boxesScore[p] >= boxesScore[q]
  <2>1. Score_ = boxesScore /\ Index_ = indexArray
    BY <1>1 DEF Score_, Index_
  <2>2. \A p, q \in Position : ~Together(p, q)
    BY <1>1 DEF Together
  <2>. QED  BY <2>1, <2>2, <1>1, SortFacts
<1>8. Sorting' /\ GroupComplete'
  BY <1>1 DEF Sorting, GroupComplete
<1>9. Sorted'
  BY <1>1, <1>4, <1>7 DEF Sorted, Permutation
<1>10. \A c \in Class : \A p, n \in Position : classId[n] = c => ~Done(c, p)'
  <2>. SUFFICES ASSUME NEW c \in Class, NEW p \in Position, NEW n \in Position, classId[n] = c
                PROVE  ~Done(c, p)'
    OBVIOUS
  <2>1. first <= c /\ first \in Nat /\ c \in Nat /\ p \in Nat /\ p >= 1
    BY <1>2, <1>3, Typed
  <2>2. row'.filterId = first /\ row'.i = 1
    BY <1>1
  <2>. QED  BY <2>1, <2>2, <1>1 DEF Done
<1>11. KeptApart'
  BY <1>1, <1>4, <1>10 DEF KeptApart, Holds
<1>12. RemovedCovered'
  BY <1>1, <1>4, <1>7 DEF RemovedCovered, Permutation
<1>13. GroupGenuine' /\ DrawnInPlace'
  BY <1>1, <1>2 DEF GroupGenuine, DrawnInPlace
<1>. QED  BY <1>5, <1>6, <1>8, <1>9, <1>11, <1>12, <1>13 DEF DetectionInv

-----------------------------------------------------------------------------
(* nms *)

\* A step after the sort leaves the candidates and their scores as they are.
LEMMA SortedFacts ==
    ASSUME DetectionInv, pc \notin {"resize", "scan", "sort"}
    PROVE  /\ TypeOK /\ validCount \in Nat /\ Position = 1 .. validCount
           /\ indexArray \in Seq(Position \cup {Removed}) /\ Len(indexArray) = validCount
           /\ part = NoPart
           /\ \A p, q \in Position : p < q => boxesScore[p] >= boxesScore[q]
           /\ \A p \in Position :
                 /\ indexArray[p] # Removed =>
                       indexArray[p] \in Position /\ boxesScore[p] = found[indexArray[p]]
                 /\ p \in Nat /\ p # Removed
           /\ \A p, q \in Position :
                 indexArray[p] = indexArray[q] /\ indexArray[p] # Removed => p = q
<1>1. TypeOK /\ Sorted
  BY DEF DetectionInv
<1>2. /\ indexArray \in Seq(Position \cup {Removed}) /\ Len(indexArray) = validCount
      /\ part = NoPart
  BY DEF DetectionInv, TypeOK, Phases
<1>3. \A p \in Position : p \in Nat /\ p # Removed
  BY <1>1, Typed DEF Removed
<1>. QED  BY <1>1, <1>2, <1>3, Typed DEF Sorted

LEMMA nmsKeeps ==
    ASSUME DetectionInv, nms
    PROVE  DetectionInv'
<1>0. PICK c0, i : c0 = row.filterId /\ i = row.i
  OBVIOUS
<1>1. /\ pc = "nms" /\ i <= validCount
      /\ indexArray' = Filter(indexArray, c0, i) /\ row' = [row EXCEPT !.i = @ + 1]
      /\ UNCHANGED <<pc, branch, cells, cell, filterBoxes, classId, found, boxesScore, calls, part,
                     group, image, letter_box, drawn>>
  BY <1>0 DEF nms, candVars, drawVars
<1>2. /\ TypeOK /\ validCount \in Nat /\ Position = 1 .. validCount
      /\ indexArray \in Seq(Position \cup {Removed}) /\ Len(indexArray) = validCount
  BY <1>1, SortedFacts
<1>3. i \in Nat /\ c0 \in Class /\ c0 \in Nat /\ \A c \in Class : c \in Nat
  BY <1>0, <1>2, Typed
<1>4. row' = [filterId |-> c0, i |-> i + 1] /\ row'.filterId = c0 /\ row'.i = i + 1
  <2>1. row' = [filterId |-> c0, i |-> i + 1]
    BY <1>0, <1>1, <1>2 DEF TypeOK
  <2>. QED  BY <2>1
<1>5. validCount' = validCount /\ Position' = Position /\ Result' = Result
  BY <1>1 DEF validCount, Position, Result
<1>6. group = <<>> /\ drawn = <<>> /\ validCount > 0 /\ i > 0
  BY <1>0, <1>1 DEF DetectionInv, Phases
\* An element stays, or it is removed because of the one at i.
<1>7. \A p \in Position :
        \/ indexArray'[p] = indexArray[p]
        \/ /\ indexArray'[p] = Removed /\ p > i
           /\ OfClass(indexArray, c0, i) /\ OfClass(indexArray, c0, p)
           /\ Overlaps(filterBoxes[indexArray[i]], filterBoxes[indexArray[p]])
  BY <1>1 DEF Filter
<1>8. \A p \in Position :
        (/\ p > i /\ OfClass(indexArray, c0, i) /\ OfClass(indexArray, c0, p)
         /\ Overlaps(filterBoxes[indexArray[i]], filterBoxes[indexArray[p]]))
           => indexArray'[p] = Removed
  BY <1>1 DEF Filter
<1>9. indexArray' \in Seq(Position \cup {Removed}) /\ Len(indexArray') = validCount
  <2>1. \A p \in 1 .. validCount : indexArray'[p] \in Position \cup {Removed}
    BY <1>2, <1>7
  <2>2. indexArray' = [p \in 1 .. validCount |-> indexArray'[p]]
    BY <1>1, <1>2 DEF Filter
  <2>. QED  BY <2>1, <2>2, <1>2
<1>10. TypeOK'
  <2>1. row' \in [filterId : Class, i : Nat]
    BY <1>3, <1>4
  <2>. QED  BY <2>1, <1>1, <1>2, <1>5, <1>9 DEF TypeOK
<1>11. ScoresAbove' /\ Phases'
  BY <1>1, <1>3, <1>4, <1>5, <1>6, <1>9 DEF DetectionInv, ScoresAbove, Phases
<1>12. Sorting' /\ GroupComplete'
  BY <1>1 DEF Sorting, GroupComplete
<1>13. Sorted'
  BY <1>1, <1>5, <1>7, SortedFacts DEF Sorted
<1>14. \A p, n \in Position : \A c \in Class : Holds(p, n, c)' => Holds(p, n, c)
  BY <1>1, <1>5, <1>7, SortedFacts DEF Holds
<1>15. KeptApart'
  <2>. SUFFICES ASSUME NEW p \in Position, NEW q \in Position, NEW m \in Position,
                       NEW n \in Position, NEW c \in Class, p < q, Holds(p, m, c)',
                       Holds(q, n, c)', Done(c, p)', Overlaps(filterBoxes[m], filterBoxes[n])
                PROVE  FALSE
    BY <1>1, <1>5 DEF KeptApart
  <2>1. Holds(p, m, c) /\ Holds(q, n, c)
    BY <1>14
  <2>2. p \in Nat /\ q \in Nat /\ c \in Nat
    BY <1>2, <1>3
  <2>3. CASE Done(c, p)
    BY <2>1, <2>3, <1>1 DEF DetectionInv, KeptApart
  <2>4. CASE ~Done(c, p)
    <3>1. p = i /\ c = c0
      BY <2>2, <2>4, <1>0, <1>1, <1>3, <1>4 DEF Done
    <3>2. OfClass(indexArray, c0, i) /\ OfClass(indexArray, c0, q)
          /\ indexArray[i] = m /\ indexArray[q] = n
      BY <2>1, <3>1, SortedFacts, <1>1 DEF OfClass, Holds
    <3>3. indexArray'[q] = Removed
      BY <3>1, <3>2, <2>2, <1>3, <1>8
    <3>4. indexArray'[q] = n /\ n # Removed
      BY <1>1, SortedFacts DEF Holds
    <3>. QED  BY <3>3, <3>4
  <2>. QED  BY <2>3, <2>4
<1>16. RemovedCovered'
  <2>. SUFFICES ASSUME NEW n \in Position,
                       \A p \in Position : indexArray'[p] # n
                PROVE  \E p, m \in Position :
                          /\ Holds(p, m, classId[n])' /\ Done(classId[n], p)'
                          /\ boxesScore[p] >= found[n]
                          /\ Overlaps(filterBoxes[m], filterBoxes[n])
    BY <1>1, <1>5 DEF RemovedCovered
  <2>1. PICK c \in Class : c = classId[n] /\ c \in Nat
    BY <1>2, <1>3, Typed
  <2>. SUFFICES \E p, m \in Position :
                   /\ Holds(p, m, c)' /\ Done(c, p)' /\ boxesScore[p] >= found[n]
                   /\ Overlaps(filterBoxes[m], filterBoxes[n])
    BY <2>1, <1>1
  <2>2. CASE \E p \in Position : indexArray[p] = n
    <3>1. PICK p \in Position : indexArray[p] = n
      BY <2>2
    <3>2. /\ p > i /\ OfClass(indexArray, c0, i) /\ OfClass(indexArray, c0, p)
          /\ Overlaps(filterBoxes[indexArray[i]], filterBoxes[n])
      BY <3>1, <1>7
    <3>3. i \in Position
      BY <1>1, <1>2, <1>3, <1>6
    <3>4. PICK m \in Position : m = indexArray[i] /\ classId[m] = c0 /\ c = c0
      BY <3>1, <3>2, <3>3, <2>1, <1>1, SortedFacts DEF OfClass
    <3>5. indexArray'[i] = m
      BY <3>3, <3>4, <1>3, <1>7
    <3>6. Holds(i, m, c0)'
      BY <3>4, <3>5, <1>1, <1>5 DEF Holds
    <3>7. Done(c0, i)'
      BY <1>3, <1>4 DEF Done
    <3>8. boxesScore[i] >= found[n]
      <4>1. i < p /\ p \in Nat
        BY <3>2, <1>2, <1>3
      <4>2. boxesScore[i] >= boxesScore[p] /\ boxesScore[p] = found[n]
        BY <4>1, <3>1, <3>3, <1>1, SortedFacts
      <4>. QED  BY <4>2
    <3>. QED  BY <3>2, <3>3, <3>4, <3>6, <3>7, <3>8
  <2>3. CASE ~\E p \in Position : indexArray[p] = n
    <3>1. PICK p \in Position, m \in Position :
             /\ Holds(p, m, c) /\ Done(c, p)
             /\ boxesScore[p] >= found[n] /\ Overlaps(filterBoxes[m], filterBoxes[n])
      BY <2>1, <2>3, <1>1 DEF DetectionInv, RemovedCovered
    <3>2. c < c0 \/ (c = c0 /\ p < i)
      BY <3>1, <1>0, <1>1 DEF Done
    <3>3. indexArray'[p] = indexArray[p]
      <4>1. ~(p > i /\ c = c0)
        BY <3>2, <2>1, <1>2, <1>3
      <4>. QED  BY <3>1, <4>1, <1>7 DEF Holds, OfClass
    <3>4. Holds(p, m, c)'
      BY <3>1, <3>3, <1>1, <1>5 DEF Holds
    <3>5. Done(c, p)'
      <4>1. p \in Nat
        BY <1>2
      <4>2. c < row'.filterId \/ (c = row'.filterId /\ p < row'.i)
        BY <3>2, <4>1, <1>3, <1>4
      <4>. QED  BY <4>2 DEF Done
    <3>. QED  BY <3>1, <3>4, <3>5
  <2>. QED  BY <2>2, <2>3
<1>17. GroupGenuine' /\ DrawnInPlace'
  BY <1>1, <1>6 DEF GroupGenuine, DrawnInPlace
<1>. QED  BY <1>10, <1>11, <1>12, <1>13, <1>15, <1>16, <1>17 DEF DetectionInv

\* The next class is the first one that is left: no candidate is of a class between.
LEMMA NextClassKeeps ==
    ASSUME DetectionInv, NextClass
    PROVE  DetectionInv'
<1>0. PICK left, next, last : /\ left = {c \in Range(classId) : c > row.filterId}
                              /\ next = Min(left) /\ last = row.filterId
  OBVIOUS
<1>1. /\ pc = "nms" /\ row.i > validCount /\ left # {}
      /\ row' = [filterId |-> next, i |-> 1]
      /\ UNCHANGED <<pc, branch, cells, cell, filterBoxes, classId, found, boxesScore, indexArray,
                     calls, part, group, image, letter_box, drawn>>
  BY <1>0 DEF NextClass, candVars, sortVars, drawVars
<1>2. TypeOK /\ validCount > 0 /\ group = <<>> /\ drawn = <<>>
  BY <1>1 DEF DetectionInv, Phases
<1>3. next \in left /\ \A c \in left : next <= c
  <2>1. left \in SUBSET Class
    BY <1>0, <1>2, RangeClass
  <2>. QED  BY <2>1, <1>0, <1>1, MinClass
<1>4. next \in Class /\ next \in Nat /\ last \in Nat /\ next > last
  BY <1>0, <1>2, <1>3, RangeClass, Typed
<1>5. row'.filterId = next /\ row'.i = 1 /\ row' \in [filterId : Class, i : Nat]
  BY <1>1, <1>4
<1>6. validCount' = validCount /\ Position' = Position /\ Result' = Result
  BY <1>1 DEF validCount, Position, Result
<1>7. TypeOK'
  BY <1>1, <1>2, <1>5, <1>6 DEF TypeOK
<1>8. ScoresAbove' /\ Phases'
  BY <1>1, <1>2, <1>5, <1>6 DEF DetectionInv, ScoresAbove, Phases
<1>9. Sorting' /\ GroupComplete'
  BY <1>1 DEF Sorting, GroupComplete
<1>10. Sorted'
  BY <1>1, <1>6 DEF DetectionInv, Sorted
<1>11. \A c \in Class : \A p, n \in Position : classId[n] = c => (Done(c, p)' <=> Done(c, p))
  <2>. SUFFICES ASSUME NEW c \in Class, NEW p \in Position, NEW n \in Position, classId[n] = c
                PROVE  Done(c, p)' <=> Done(c, p)
    OBVIOUS
  <2>1. c \in Nat /\ p \in Nat /\ 1 <= p /\ p < row.i
    BY <1>1, <1>2, Typed
  <2>2. c > last => next <= c
    BY <1>0, <1>2, <1>3, RangeClass
  <2>3. Done(c, p)' <=> c < next
    BY <2>1, <1>1, <1>4, <1>5 DEF Done
  <2>4. Done(c, p) <=> c <= last
    BY <2>1, <1>0, <1>1, <1>4 DEF Done
  <2>. QED  BY <2>1, <2>2, <2>3, <2>4, <1>4
<1>12. \A p, n \in Position : \A c \in Class : Holds(p, n, c)' <=> Holds(p, n, c)
  BY <1>1, <1>6 DEF Holds
<1>13. KeptApart'
  <2>. SUFFICES ASSUME NEW p \in Position, NEW q \in Position, NEW m \in Position,
                       NEW n \in Position, NEW c \in Class, p < q, Holds(p, m, c)',
                       Holds(q, n, c)', Done(c, p)'
                PROVE  ~Overlaps(filterBoxes[m], filterBoxes[n])
    BY <1>1, <1>6 DEF KeptApart
  <2>1. Holds(p, m, c) /\ Holds(q, n, c) /\ classId[m] = c
    BY <1>12 DEF Holds
  <2>2. Done(c, p)
    BY <2>1, <1>11
  <2>. QED  BY <2>1, <2>2, <1>1 DEF DetectionInv, KeptApart
<1>14. RemovedCovered'
  <2>. SUFFICES ASSUME NEW n \in Position,
                       \A p \in Position : indexArray[p] # n
                PROVE  \E p, m \in Position :
                          /\ Holds(p, m, classId[n])' /\ Done(classId[n], p)'
                          /\ boxesScore[p] >= found[n]
                          /\ Overlaps(filterBoxes[m], filterBoxes[n])
    BY <1>1, <1>6 DEF RemovedCovered
  <2>1. PICK c \in Class : c = classId[n]
    BY <1>2, Typed
  <2>2. PICK p \in Position, m \in Position :
           /\ Holds(p, m, c) /\ Done(c, p) /\ boxesScore[p] >= found[n]
           /\ Overlaps(filterBoxes[m], filterBoxes[n])
    BY <2>1, <1>1 DEF DetectionInv, RemovedCovered
  <2>3. Holds(p, m, c)' /\ Done(c, p)'
    BY <2>1, <2>2, <1>11, <1>12
  <2>. QED  BY <2>1, <2>2, <2>3, <1>1
<1>15. GroupGenuine' /\ DrawnInPlace'
  BY <1>1, <1>2 DEF GroupGenuine, DrawnInPlace
<1>. QED  BY <1>7, <1>8, <1>9, <1>10, <1>13, <1>14, <1>15 DEF DetectionInv

\* Every class is done.
LEMMA NmsDoneKeeps ==
    ASSUME DetectionInv, NmsDone
    PROVE  DetectionInv'
<1>1. /\ pc = "nms" /\ row.i > validCount /\ \A c \in Range(classId) : c <= row.filterId
      /\ pc' = "emit" /\ row' = [row EXCEPT !.i = 1]
      /\ UNCHANGED <<branch, cells, cell, filterBoxes, classId, found, boxesScore, indexArray,
                     calls, part, group, image, letter_box, drawn>>
  BY DEF NmsDone, candVars, sortVars, drawVars
<1>2. TypeOK /\ validCount > 0 /\ group = <<>> /\ drawn = <<>>
  BY <1>1 DEF DetectionInv, Phases
<1>3. row' \in [filterId : Class, i : Nat] /\ row'.i = 1
  BY <1>1, <1>2 DEF TypeOK
<1>4. validCount' = validCount /\ Position' = Position /\ Result' = Result
  BY <1>1 DEF validCount, Position, Result
<1>5. TypeOK'
  BY <1>1, <1>2, <1>3, <1>4 DEF TypeOK
<1>6. ScoresAbove' /\ Phases'
  BY <1>1, <1>2, <1>3, <1>4 DEF DetectionInv, ScoresAbove, Phases
<1>7. Sorting'
  BY <1>1 DEF Sorting
<1>8. Sorted'
  BY <1>1, <1>4 DEF DetectionInv, Sorted
<1>9. \A c \in Class : \A p, n \in Position : classId[n] = c => Done(c, p)
  <2>. SUFFICES ASSUME NEW c \in Class, NEW p \in Position, NEW n \in Position, classId[n] = c
                PROVE  Done(c, p)
    OBVIOUS
  <2>1. c \in Nat /\ p \in Nat /\ p < row.i /\ row.filterId \in Nat
    BY <1>1, <1>2, Typed
  <2>2. c <= row.filterId
    BY <1>1, <1>2, RangeClass
  <2>. QED  BY <2>1, <2>2 DEF Done
<1>10. KeptApart'
  <2>. SUFFICES ASSUME NEW p \in Position, NEW q \in Position, NEW m \in Position,
                       NEW n \in Position, NEW c \in Class, p < q, Holds(p, m, c)',
                       Holds(q, n, c)'
                PROVE  ~Overlaps(filterBoxes[m], filterBoxes[n])
    BY <1>1, <1>4 DEF KeptApart
  <2>1. Holds(p, m, c) /\ Holds(q, n, c) /\ classId[m] = c
    BY <1>1, <1>4 DEF Holds
  <2>2. Done(c, p)
    BY <2>1, <1>9
  <2>. QED  BY <2>1, <2>2, <1>1 DEF DetectionInv, KeptApart
<1>11. RemovedCovered'
  <2>1. RemovedCovered
    BY DEF DetectionInv
  <2>. QED  BY <2>1, <1>1, <1>4 DEF RemovedCovered, Holds, Done
<1>12. GroupComplete'
  <2>1. \A p \in Position : ~(p < 1)
    BY <1>2, Typed
  <2>. QED  BY <2>1, <1>3, <1>4 DEF GroupComplete
<1>13. GroupGenuine' /\ DrawnInPlace'
  BY <1>1, <1>2 DEF GroupGenuine, DrawnInPlace
<1>. QED  BY <1>5, <1>6, <1>7, <1>8, <1>10, <1>11, <1>12, <1>13 DEF DetectionInv

-----------------------------------------------------------------------------
(* The group, and what is drawn of it *)

\* nms is over: what it left is not touched any more.
LEMMA AfterNmsKeeps ==
    ASSUME DetectionInv, pc \in {"emit", "draw", "return"}, pc' \in {"emit", "draw", "return"},
           UNCHANGED <<candVars, sortVars>>
    PROVE  /\ UNCHANGED <<filterBoxes, classId, found, boxesScore, indexArray, calls, part>>
           /\ validCount' = validCount /\ Position' = Position /\ Result' = Result
           /\ ScoresAbove' /\ Sorting' /\ Sorted' /\ KeptApart' /\ RemovedCovered'
<1>1. UNCHANGED <<filterBoxes, classId, found, boxesScore, indexArray, calls, part>>
  BY DEF candVars, sortVars
<1>2. validCount' = validCount /\ Position' = Position /\ Result' = Result
  BY <1>1 DEF validCount, Position, Result
<1>3. ScoresAbove' /\ Sorting' /\ Sorted'
  BY <1>1, <1>2 DEF DetectionInv, ScoresAbove, Sorting, Sorted
<1>4. \A c, p : Done(c, p) /\ Done(c, p)'
  BY DEF Done
<1>5. \A p, n, c : Holds(p, n, c)' <=> Holds(p, n, c)
  BY <1>1, <1>2 DEF Holds
<1>6. KeptApart'
  <2>1. KeptApart
    BY DEF DetectionInv
  <2>. QED  BY <2>1, <1>1, <1>2, <1>4, <1>5 DEF KeptApart
<1>7. RemovedCovered'
  <2>1. RemovedCovered
    BY DEF DetectionInv
  <2>. QED  BY <2>1, <1>1, <1>2, <1>4, <1>5 DEF RemovedCovered, Holds
<1>. QED  BY <1>1, <1>2, <1>3, <1>6, <1>7

\* A result that is added comes from a position after those of the others; one
\* that is not added was removed, or finds the group full.
LEMMA FillGroupKeeps ==
    ASSUME DetectionInv, FillGroup
    PROVE  DetectionInv'
<1>0. PICK i : i = row.i
  OBVIOUS
<1>1. /\ pc = "emit" /\ pc' = "emit" /\ i <= validCount
      /\ group' = IF \/ indexArray[i] = Removed
                     \/ boxesScore[i] < CONF_THRESHOLD
                     \/ Len(group) >= OBJ_NUMB_MAX_SIZE
                    THEN group
                    ELSE Append(group, ResultOf(i))
      /\ row' = [row EXCEPT !.i = @ + 1]
      /\ UNCHANGED <<branch, cells, cell, candVars, sortVars, image, letter_box, drawn>>
  BY <1>0 DEF FillGroup, drawVars
<1>2. /\ UNCHANGED <<filterBoxes, classId, found, boxesScore, indexArray, calls, part>>
      /\ validCount' = validCount /\ Position' = Position /\ Result' = Result
      /\ ScoresAbove' /\ Sorting' /\ Sorted' /\ KeptApart' /\ RemovedCovered'
  BY <1>1, AfterNmsKeeps
<1>3. TypeOK /\ drawn = <<>> /\ i > 0 /\ GroupGenuine /\ GroupComplete
  BY <1>0, <1>1 DEF DetectionInv, Phases
<1>4. /\ validCount \in Nat /\ Position = 1 .. validCount /\ i \in Nat /\ i \in Position
  BY <1>0, <1>1, <1>3, Typed
<1>5. row' \in [filterId : Class, i : Nat] /\ row'.i = i + 1
  <2>1. row \in [filterId : Class, i : Nat]
    BY <1>3 DEF TypeOK
  <2>2. row' = [filterId |-> row.filterId, i |-> i + 1]
    BY <2>1, <1>0, <1>1
  <2>. QED  BY <2>1, <2>2, <1>4
<1>6. /\ \A p, q \in Position : p < q => boxesScore[p] >= boxesScore[q]
      /\ \A p \in Position :
            /\ indexArray[p] # Removed =>
                  indexArray[p] \in Position /\ boxesScore[p] = found[indexArray[p]]
            /\ boxesScore[p] \in Nat /\ p \in Nat
      /\ \A p, q \in Position : indexArray[p] = indexArray[q] /\ indexArray[p] # Removed => p = q
  BY <1>1, <1>3, SortedFacts, Typed
<1>7. /\ group \in Seq(Result) /\ DOMAIN group = 1 .. Len(group) /\ Len(group) \in Nat
      /\ Len(group) <= OBJ_NUMB_MAX_SIZE /\ OBJ_NUMB_MAX_SIZE \in Nat
  BY <1>3, DetectionAssumption, Typed DEF TypeOK
<1>7a. \A a, b \in Nat : (a <= b /\ a >= b => a = b) /\ (a < b => a # b)
  OBVIOUS
<1>8. \A k \in DOMAIN group : group[k].n \in Position /\ group[k].prop \in Nat
  BY <1>3, Typed, ResultTyped
\* The scores of the group are no lower than the one at i, and its candidates are others.
<1>9. ASSUME NEW k \in DOMAIN group
      PROVE  /\ group[k].prop >= boxesScore[i]
             /\ indexArray[i] # Removed => group[k].n # indexArray[i]
  <2>1. PICK p \in Position : p < i /\ indexArray[p] = group[k].n
    BY <1>0, <1>3 DEF GroupGenuine
  <2>2. group[k].n # Removed
    BY <1>1, <1>8, SortedFacts
  <2>3. group[k].prop = boxesScore[p]
    BY <2>1, <2>2, <1>3, <1>6 DEF GroupGenuine
  <2>4. boxesScore[p] >= boxesScore[i]
    BY <2>1, <1>4, <1>6
  <2>5. indexArray[i] # Removed => group[k].n # indexArray[i]
    BY <2>1, <2>2, <1>4, <1>6
  <2>. QED  BY <2>3, <2>4, <2>5
<1>10. Phases'
  BY <1>1, <1>2, <1>3, <1>4, <1>5 DEF DetectionInv, Phases
<1>11. DrawnInPlace'
  BY <1>1, <1>3 DEF DrawnInPlace
<1>12. CASE group' = group /\ (indexArray[i] # Removed => Len(group) = OBJ_NUMB_MAX_SIZE)
  <2>1. TypeOK'
    BY <1>12, <1>1, <1>2, <1>3, <1>5 DEF TypeOK
  <2>2. GroupGenuine'
    <3>1. \A p \in Position : p < i => p < i + 1
      BY <1>4, <1>6
    <3>. QED  BY <3>1, <1>12, <1>0, <1>2, <1>3, <1>5 DEF GroupGenuine
  <2>3. GroupComplete'
    <3>. SUFFICES ASSUME NEW p \in Position, p < i + 1, indexArray[p] # Removed
                  PROVE  \/ \E k \in DOMAIN group : group[k].n = indexArray[p]
                         \/ /\ Len(group) = OBJ_NUMB_MAX_SIZE
                            /\ \A k \in DOMAIN group : group[k].prop >= boxesScore[p]
      BY <1>12, <1>2, <1>5 DEF GroupComplete
    <3>1. CASE p < i
      BY <3>1, <1>0, <1>1, <1>3 DEF GroupComplete
    <3>2. CASE p = i
      BY <3>2, <1>9, <1>12
    <3>. QED  BY <3>1, <3>2, <1>4, <1>6
  <2>. QED  BY <2>1, <2>2, <2>3, <1>2, <1>10, <1>11 DEF DetectionInv
<1>13. CASE /\ indexArray[i] # Removed /\ Len(group) < OBJ_NUMB_MAX_SIZE
            /\ group' = Append(group, ResultOf(i))
  <2>1. PICK n \in Position : n = indexArray[i] /\ boxesScore[i] = found[n]
    BY <1>4, <1>6, <1>13
  <2>2. PICK r : r = ResultOf(i)
    OBVIOUS
  <2>3. /\ r.n = n /\ r.prop = boxesScore[i] /\ r.class_index = classId[n]
        /\ r.box = Edges(filterBoxes[n])
    BY <2>1, <2>2 DEF ResultOf
  <2>4. r \in Result
    <3>1. /\ filterBoxes[n] \in Box /\ classId[n] \in Class /\ boxesScore[i] \in Nat
      BY <1>3, <1>4, Typed
    <3>2. Edges(filterBoxes[n]) \in [left : Int, right : Int, top : Int, bottom : Int]
      BY <3>1, EdgesInOrder
    <3>. QED  BY <2>1, <2>2, <3>1, <3>2 DEF ResultOf, Result
  <2>5. /\ group' \in Seq(Result) /\ Len(group') = Len(group) + 1
        /\ DOMAIN group' = 1 .. Len(group) + 1
        /\ \A k \in DOMAIN group : k \in DOMAIN group' /\ group'[k] = group[k]
        /\ group'[Len(group) + 1] = r
    BY <2>2, <2>4, <1>7, <1>13
  <2>6. TypeOK'
    <3>1. Len(group') <= OBJ_NUMB_MAX_SIZE
      BY <2>5, <1>7, <1>13
    <3>. QED  BY <3>1, <2>5, <1>1, <1>2, <1>3, <1>5 DEF TypeOK
  <2>7. GroupGenuine'
    <3>. SUFFICES ASSUME NEW k \in DOMAIN group'
                  PROVE  /\ group'[k].prop = found[group'[k].n]
                         /\ group'[k].class_index = classId[group'[k].n]
                         /\ group'[k].box = Edges(filterBoxes[group'[k].n])
                         /\ \E p \in Position : p < i + 1 /\ indexArray[p] = group'[k].n
                         /\ \A j \in DOMAIN group' : j < k =>
                               group'[j].n # group'[k].n /\ group'[j].prop >= group'[k].prop
      BY <1>2, <1>5 DEF GroupGenuine
    <3>1. CASE k = Len(group) + 1
      <4>1. \A j \in DOMAIN group' : j < k => j \in DOMAIN group
        BY <3>1, <2>5, <1>7
      <4>2. \A j \in DOMAIN group' : j < k => group'[j].n # n /\ group'[j].prop >= boxesScore[i]
        BY <4>1, <2>1, <2>5, <1>9, <1>13
      <4>3. i < i + 1 /\ indexArray[i] = n
        BY <2>1, <1>4
      <4>. QED  BY <4>2, <4>3, <3>1, <2>1, <2>3, <2>5, <1>4
    <3>2. CASE k \in DOMAIN group
      <4>1. \A j \in DOMAIN group' : j < k => j \in DOMAIN group
        BY <3>2, <2>5, <1>7
      <4>2. /\ group[k].prop = found[group[k].n] /\ group[k].class_index = classId[group[k].n]
            /\ group[k].box = Edges(filterBoxes[group[k].n])
            /\ \A j \in DOMAIN group : j < k =>
                  group[j].n # group[k].n /\ group[j].prop >= group[k].prop
        BY <3>2, <1>3 DEF GroupGenuine
      <4>3. PICK p \in Position : p < i /\ indexArray[p] = group[k].n
        BY <3>2, <1>0, <1>3 DEF GroupGenuine
      <4>4. p < i + 1
        BY <4>3, <1>4, <1>6
      <4>. QED  BY <4>1, <4>2, <4>3, <4>4, <3>2, <2>5
    <3>. QED  BY <3>1, <3>2, <2>5, <1>7
  <2>8. GroupComplete'
    <3>. SUFFICES ASSUME NEW p \in Position, p < i + 1, indexArray[p] # Removed
                  PROVE  \E k \in DOMAIN group' : group'[k].n = indexArray[p]
      BY <1>2, <1>5 DEF GroupComplete
    <3>1. CASE p < i
      <4>1. Len(group) # OBJ_NUMB_MAX_SIZE
        <5>1. Len(group) < OBJ_NUMB_MAX_SIZE
          BY <1>13
        <5>. QED  BY <5>1, <1>7, <1>7a, Zenon
      <4>2. PICK k \in DOMAIN group : group[k].n = indexArray[p]
        BY <3>1, <4>1, <1>0, <1>1, <1>3 DEF GroupComplete
      <4>. QED  BY <4>2, <2>5
    <3>2. CASE p = i
      <4>1. Len(group) + 1 \in DOMAIN group'
        BY <2>5, <1>7
      <4>. QED  BY <4>1, <3>2, <2>1, <2>3, <2>5
    <3>. QED  BY <3>1, <3>2, <1>4, <1>6
  <2>. QED  BY <2>6, <2>7, <2>8, <1>2, <1>10, <1>11 DEF DetectionInv
<1>14. indexArray[i] # Removed => ~(boxesScore[i] < CONF_THRESHOLD)
  <2>. SUFFICES ASSUME indexArray[i] # Removed PROVE ~(boxesScore[i] < CONF_THRESHOLD)
    OBVIOUS
  <2>1. indexArray[i] \in Position /\ boxesScore[i] = found[indexArray[i]] /\ boxesScore[i] \in Nat
    BY <1>4, <1>6
  <2>2. found[indexArray[i]] > CONF_THRESHOLD /\ CONF_THRESHOLD \in Nat
    BY <2>1, DetectionAssumption DEF DetectionInv, ScoresAbove
  <2>. QED  BY <2>1, <2>2
<1>15. CASE indexArray[i] = Removed \/ Len(group) >= OBJ_NUMB_MAX_SIZE
  <2>1. group' = group
    BY <1>1, <1>15
  <2>2. Len(group) >= OBJ_NUMB_MAX_SIZE => Len(group) = OBJ_NUMB_MAX_SIZE
    BY ONLY <1>7, <1>7a, Zenon
  <2>. QED  BY <2>1, <2>2, <1>12, <1>15
<1>16. CASE ~(indexArray[i] = Removed \/ Len(group) >= OBJ_NUMB_MAX_SIZE)
  <2>1. group' = Append(group, ResultOf(i))
    BY <1>1, <1>14, <1>16
  <2>2. ~(Len(group) >= OBJ_NUMB_MAX_SIZE) => Len(group) < OBJ_NUMB_MAX_SIZE
    BY ONLY <1>7
  <2>. QED  BY <2>1, <2>2, <1>13, <1>16
<1>. QED  BY <1>15, <1>16

LEMMA EmitKeeps ==
    ASSUME DetectionInv, Emit
    PROVE  DetectionInv'
<1>1. /\ pc = "emit" /\ row.i > validCount /\ pc' = "draw"
      /\ UNCHANGED <<branch, cells, cell, candVars, sortVars, row, group, image, letter_box, drawn>>
  BY DEF Emit, drawVars
<1>2. /\ UNCHANGED <<filterBoxes, classId, found, boxesScore, indexArray, calls, part>>
      /\ validCount' = validCount /\ Position' = Position /\ Result' = Result
      /\ ScoresAbove' /\ Sorting' /\ Sorted' /\ KeptApart' /\ RemovedCovered'
  BY <1>1, AfterNmsKeeps
<1>3. TypeOK
  BY DEF DetectionInv
<1>4. TypeOK'
  BY <1>1, <1>2, <1>3 DEF TypeOK
<1>5. Phases'
  <2>1. \A p \in Position : p < row.i
    BY <1>1, <1>3, Typed
  <2>. QED  BY <2>1, <1>1, <1>2 DEF DetectionInv, Phases
<1>6. GroupGenuine' /\ GroupComplete' /\ DrawnInPlace'
  BY <1>1, <1>2 DEF DetectionInv, GroupGenuine, GroupComplete, DrawnInPlace
<1>. QED  BY <1>2, <1>4, <1>5, <1>6 DEF DetectionInv

\* A rectangle d that is drawn where the result with edges e belongs in an image.
DrawnRight(e, d, in, lb) ==
    /\ d \in Corner /\ d.x1 <= d.x2 /\ d.y1 <= d.y2
    /\ IF lb.reverse_available
         THEN /\ InPlace(e.left, lb.w_pad_left, lb.resize_width, d.x1, in.width, lb)
              /\ InPlace(e.right, lb.w_pad_left, lb.resize_width, d.x2, in.width, lb)
              /\ InPlace(e.top, lb.h_pad_top, lb.resize_height, d.y1, in.height, lb)
              /\ InPlace(e.bottom, lb.h_pad_top, lb.resize_height, d.y2, in.height, lb)
         ELSE d = [x1 |-> e.left, x2 |-> e.right, y1 |-> e.top, y2 |-> e.bottom]

\* The rectangle of one result.
LEMMA CornersInPlace ==
    ASSUME NEW box \in Box, NEW in \in ImageSize, NEW lb, NEW e, NEW d,
           lb = LetterBoxOf(in), e = Edges(box), d = Corners(e, lb)
    PROVE  DrawnRight(e, d, in, lb)
<1>. USE DEF LetterBoxOf, DrawnRight
<1>1. /\ e.left \in Int /\ e.right \in Int /\ e.top \in Int /\ e.bottom \in Int
      /\ e.left <= e.right /\ e.top <= e.bottom
  BY EdgesInOrder
<1>2. /\ in \in Size /\ in.width \in Nat /\ in.height \in Nat
      /\ target.width \in Nat /\ target.height \in Nat
  BY DetectionAssumption DEF Size
<1>3. d = [x1 |-> reverse(e.left, lb.w_pad_left, target.width, lb),
           x2 |-> reverse(e.right, lb.w_pad_left, target.width, lb),
           y1 |-> reverse(e.top, lb.h_pad_top, target.height, lb),
           y2 |-> reverse(e.bottom, lb.h_pad_top, target.height, lb)]
  BY DEF Corners, w_reverse, h_reverse
<1>4. CASE in = target
  <2>1. ~lb.reverse_available
    BY <1>4 DEF NoLetterBox
  <2>2. d = [x1 |-> e.left, x2 |-> e.right, y1 |-> e.top, y2 |-> e.bottom]
    BY <1>3, <2>1 DEF reverse
  <2>. QED  BY <2>1, <2>2, <1>1 DEF Corner
<1>5. CASE in # target
  <2>1. lb = compute_letter_box(in, target)
    BY <1>5
  <2>2. /\ lb.reverse_available
        /\ lb.num \in Nat \ {0} /\ lb.den \in Nat \ {0}
        /\ lb.w_pad_left \in Nat /\ lb.resize_width \in Nat
        /\ lb.w_pad_left + lb.resize_width <= target.width
        /\ lb.resize_width * lb.den <= in.width * lb.num
        /\ lb.h_pad_top \in Nat /\ lb.resize_height \in Nat
        /\ lb.h_pad_top + lb.resize_height <= target.height
        /\ lb.resize_height * lb.den <= in.height * lb.num
    BY ONLY <1>2, <2>1, LetterBoxFits
  <2>3. /\ d.x1 = reverse(e.left, lb.w_pad_left, target.width, lb)
        /\ d.x2 = reverse(e.right, lb.w_pad_left, target.width, lb)
        /\ d.y1 = reverse(e.top, lb.h_pad_top, target.height, lb)
        /\ d.y2 = reverse(e.bottom, lb.h_pad_top, target.height, lb)
    BY ONLY <1>3
  <2>4. d.x1 \in Int /\ d.x2 \in Int /\ d.x1 <= d.x2
    BY ONLY <1>1, <1>2, <2>2, <2>3, ReverseMonotonic
  <2>5. d.y1 \in Int /\ d.y2 \in Int /\ d.y1 <= d.y2
    BY ONLY <1>1, <1>2, <2>2, <2>3, ReverseMonotonic
  <2>6. d \in Corner
    BY ONLY <1>3, <2>3, <2>4, <2>5 DEF Corner
  <2>7. \A x \in Int :
          /\ InPlace(x, lb.w_pad_left, lb.resize_width,
                     reverse(x, lb.w_pad_left, target.width, lb), in.width, lb)
          /\ InPlace(x, lb.h_pad_top, lb.resize_height,
                     reverse(x, lb.h_pad_top, target.height, lb), in.height, lb)
    BY ONLY <1>2, <2>2, ReverseInPlace
  <2>8. /\ InPlace(e.left, lb.w_pad_left, lb.resize_width, d.x1, in.width, lb)
        /\ InPlace(e.right, lb.w_pad_left, lb.resize_width, d.x2, in.width, lb)
        /\ InPlace(e.top, lb.h_pad_top, lb.resize_height, d.y1, in.height, lb)
        /\ InPlace(e.bottom, lb.h_pad_top, lb.resize_height, d.y2, in.height, lb)
    BY ONLY <1>1, <2>3, <2>7
  <2>. QED  BY <2>2, <2>4, <2>5, <2>6, <2>8
<1>. QED  BY <1>4, <1>5

LEMMA DrawKeeps ==
    ASSUME DetectionInv, LetterBoxed, Draw
    PROVE  DetectionInv'
<1>1. PICK in \in ImageSize : image = in /\ letter_box = LetterBoxOf(in)
  BY DEF Draw, LetterBoxed
<1>2. /\ pc = "draw" /\ pc' = "return"
      /\ drawn' = [k \in DOMAIN group |-> Corners(group[k].box, letter_box)]
      /\ UNCHANGED <<branch, cells, cell, candVars, sortVars, row, group, image, letter_box>>
  BY DEF Draw
<1>3. /\ UNCHANGED <<filterBoxes, classId, found, boxesScore, indexArray, calls, part>>
      /\ validCount' = validCount /\ Position' = Position /\ Result' = Result
      /\ ScoresAbove' /\ Sorting' /\ Sorted' /\ KeptApart' /\ RemovedCovered'
  BY <1>2, AfterNmsKeeps
<1>4. TypeOK /\ GroupGenuine
  BY DEF DetectionInv
<1>5. DOMAIN group = 1 .. Len(group) /\ Len(group) \in Nat
  BY <1>4, Typed
<1>6. PICK lb : lb = letter_box
  OBVIOUS
<1>7. \A k \in DOMAIN group : \E box \in Box : group[k].box = Edges(box)
  <2>. SUFFICES ASSUME NEW k \in DOMAIN group
                PROVE  \E box \in Box : group[k].box = Edges(box)
    OBVIOUS
  <2>1. group[k].n \in Position
    BY <1>4, Typed, ResultTyped
  <2>2. filterBoxes[group[k].n] \in Box
    BY <2>1, <1>4, Typed
  <2>. QED  BY <2>2, <1>4 DEF GroupGenuine
<1>8. ASSUME NEW k \in DOMAIN group
      PROVE  DrawnRight(group[k].box, Corners(group[k].box, lb), in, lb)
  <2>1. PICK box \in Box : group[k].box = Edges(box)
    BY <1>7
  <2>2. PICK e, d : e = Edges(box) /\ e = group[k].box /\ d = Corners(e, lb)
    BY <2>1
  <2>3. lb = LetterBoxOf(in)
    BY <1>1, <1>6
  <2>4. DrawnRight(e, d, in, lb)
    BY ONLY <2>2, <2>3, in \in ImageSize, box \in Box, CornersInPlace, Zenon
  <2>. QED  BY ONLY <2>2, <2>4, Zenon
<1>9. drawn' \in Seq(Corner) /\ DOMAIN drawn' = DOMAIN group
  <2>1. \A k \in 1 .. Len(group) : Corners(group[k].box, lb) \in Corner
    BY <1>5, <1>8 DEF DrawnRight
  <2>2. drawn' = [k \in 1 .. Len(group) |-> Corners(group[k].box, lb)]
    BY <1>2, <1>5, <1>6
  <2>. QED  BY <2>1, <2>2, <1>5
<1>10. image' \in Size
  BY <1>1, <1>2, DetectionAssumption
<1>11. TypeOK'
  BY <1>2, <1>3, <1>4, <1>9, <1>10 DEF TypeOK
<1>12. Phases'
  BY <1>2, <1>3 DEF DetectionInv, Phases
<1>13. GroupGenuine' /\ GroupComplete'
  BY <1>2, <1>3 DEF DetectionInv, GroupGenuine, GroupComplete
<1>14. DrawnInPlace'
  <2>1. \A k \in DOMAIN group : drawn'[k] = Corners(group[k].box, lb)
    BY <1>2, <1>6
  <2>. QED  BY <2>1, <1>1, <1>2, <1>6, <1>8, <1>9 DEF DrawnInPlace, DrawnRight
<1>. QED  BY <1>3, <1>11, <1>12, <1>13, <1>14 DEF DetectionInv

-----------------------------------------------------------------------------
(* A call of interf begins, the first or the next *)

\* What a call begins with; only letter_box is kept from the one before.
Fresh ==
    /\ pc = "resize"
    /\ branch = 0 /\ cells = 0 /\ cell = NoCell
    /\ filterBoxes = <<>> /\ boxesScore = <<>> /\ classId = <<>> /\ found = <<>>
    /\ indexArray = <<>> /\ calls = <<>> /\ part = NoPart
    /\ row = NoRow
    /\ group = <<>> /\ drawn = <<>>
    /\ image \in Size

LEMMA FreshHolds ==
    ASSUME Fresh
    PROVE  DetectionInv
<1>1. validCount = 0 /\ Position = {}
  BY DEF Fresh, validCount, Position
<1>2. TypeOK
  <2>1. part \in Part /\ part.low <= part.high
    BY DEF Fresh, NoPart, Part
  <2>2. row \in [filterId : Class, i : Nat]
    BY DetectionAssumption DEF Fresh, NoRow, Class
  <2>3. image \in Size /\ Len(group) <= OBJ_NUMB_MAX_SIZE
    BY DetectionAssumption DEF Fresh
  <2>. QED  BY <2>1, <2>2, <2>3, <1>1 DEF Fresh, TypeOK
<1>3. ScoresAbove /\ Phases
  BY <1>1 DEF Fresh, ScoresAbove, Phases
<1>4. Sorting /\ Sorted /\ KeptApart /\ RemovedCovered /\ GroupComplete
  BY DEF Fresh, Sorting, Sorted, KeptApart, RemovedCovered, GroupComplete
<1>5. GroupGenuine /\ DrawnInPlace
  BY DEF Fresh, GroupGenuine, DrawnInPlace
<1>. QED  BY <1>2, <1>3, <1>4, <1>5 DEF DetectionInv

LEMMA ReturnKeeps ==
    ASSUME DetectionInv, Return
    PROVE  DetectionInv'
<1>1. Fresh'
  <2>1. image' \in Size
    BY DEF Return, DetectionInv, TypeOK
  <2>2. (NoCell)' = NoCell /\ (NoPart)' = NoPart /\ (NoRow)' = NoRow
    BY DEF NoCell, NoPart, NoRow
  <2>. QED  BY <2>1, <2>2 DEF Return, Fresh
<1>. QED  BY <1>1, FreshHolds, PTL

LEMMA ResizeKeeps ==
    ASSUME DetectionInv, Resize
    PROVE  DetectionInv'
<1>1. /\ pc = "resize" /\ pc' = "scan"
      /\ UNCHANGED <<branch, cells, filterBoxes, classId, found, boxesScore, indexArray, calls,
                     part, row, group, image, drawn>>
  BY DEF Resize, candVars, sortVars
<1>2. validCount' = validCount /\ Position' = Position /\ Result' = Result
  BY <1>1 DEF validCount, Position, Result
<1>3. /\ indexArray = <<>> /\ calls = <<>> /\ part = NoPart /\ group = <<>> /\ drawn = <<>>
      /\ boxesScore = found
  BY <1>1 DEF DetectionInv, Phases
<1>4. TypeOK' /\ ScoresAbove'
  BY <1>1, <1>2 DEF DetectionInv, TypeOK, ScoresAbove
<1>5. Phases'
  BY <1>1, <1>3 DEF Phases
<1>6. Sorting' /\ Sorted' /\ KeptApart' /\ RemovedCovered' /\ GroupComplete'
  BY <1>1 DEF Sorting, Sorted, KeptApart, RemovedCovered, GroupComplete
<1>7. GroupGenuine' /\ DrawnInPlace'
  BY <1>1, <1>3 DEF GroupGenuine, DrawnInPlace
<1>. QED  BY <1>4, <1>5, <1>6, <1>7 DEF DetectionInv

\* compute_letter_box is called for every image that is not of the size of the
\* input, so what is kept of letter_box when it is not called was never set.
LEMMA NextLetterBoxed ==
    ASSUME LetterBoxed, [Next]_vars
    PROVE  LetterBoxed'
<1>1. CASE Resize
  <2>1. image' = image /\ letter_box' = IF image = target THEN letter_box
                                         ELSE compute_letter_box(image, target)
    BY <1>1 DEF Resize
  <2>2. letter_box' = LetterBoxOf(image)
    BY <2>1 DEF LetterBoxed, LetterBoxOf
  <2>. QED  BY <2>1, <2>2 DEF LetterBoxed
<1>2. CASE UNCHANGED <<image, letter_box>> /\ (pc' = "resize" \/ pc # "resize")
  BY <1>2 DEF LetterBoxed
<1>3. CASE \/ ScanCell \/ NextBranch \/ ScanDone \/ SortCall \/ Partition \/ PlaceKey
           \/ SortDone \/ nms \/ NextClass \/ NmsDone \/ FillGroup \/ Emit \/ Draw \/ Return
  <2>1. UNCHANGED <<image, letter_box>> /\ pc # "resize"
    BY <1>3 DEF ScanCell, NextBranch, ScanDone, SortCall, Partition, PlaceKey, SortDone, nms,
                NextClass, NmsDone, FillGroup, Emit, Draw, Return, drawVars
  <2>. QED  BY <2>1, <1>2
<1>4. CASE UNCHANGED vars
  BY <1>4 DEF vars, drawVars, LetterBoxed
<1>. QED  BY <1>1, <1>3, <1>4 DEF Next

-----------------------------------------------------------------------------

LEMMA NextKeeps ==
    ASSUME DetectionInv, LetterBoxed, [Next]_vars
    PROVE  DetectionInv'
<1>1. CASE Next
  BY <1>1, ResizeKeeps, ScanCellKeeps, NextBranchKeeps, ScanDoneKeeps, SortCallKeeps,
     PartitionKeeps, PlaceKeyKeeps, SortDoneKeeps, nmsKeeps, NextClassKeeps, NmsDoneKeeps,
     FillGroupKeeps,
     EmitKeeps, DrawKeeps, ReturnKeeps DEF Next
<1>2. CASE UNCHANGED vars
  <2>1. UNCHANGED <<pc, branch, cells, filterBoxes, classId, found, boxesScore, indexArray, calls,
                    part, row, group, image, letter_box, drawn>>
    BY <1>2 DEF vars, candVars, sortVars, drawVars
  <2>2. validCount' = validCount /\ Position' = Position /\ Result' = Result
    BY <2>1 DEF validCount, Position, Result
  <2>3. TypeOK' /\ ScoresAbove' /\ Phases'
    BY <2>1, <2>2 DEF DetectionInv, TypeOK, ScoresAbove, Phases
  <2>4. Sorting'
    BY <2>1, <2>2 DEF DetectionInv, Sorting, Permutation, RangesApart, Halves, Together, Score_,
          Index_
  <2>5. Sorted' /\ KeptApart' /\ RemovedCovered'
    BY <2>1, <2>2 DEF DetectionInv, Sorted, KeptApart, RemovedCovered, Holds, Done
  <2>6. GroupGenuine' /\ GroupComplete' /\ DrawnInPlace'
    BY <2>1, <2>2 DEF DetectionInv, GroupGenuine, GroupComplete, DrawnInPlace
  <2>. QED  BY <2>3, <2>4, <2>5, <2>6 DEF DetectionInv
<1>. QED  BY <1>1, <1>2

\* The invariant holds of post_process and interf, whatever the model reports.
THEOREM DetectionInvariant == Spec => []DetectionInv
<1>1. Init => DetectionInv
  <2>1. Init => Fresh
    BY DetectionAssumption DEF Init, Fresh
  <2>. QED  BY <2>1, FreshHolds
<1>2. Init => LetterBoxed
  BY DEF Init, LetterBoxed
<1>3. LetterBoxed /\ [Next]_vars => LetterBoxed'
  BY NextLetterBoxed
<1>4. DetectionInv /\ LetterBoxed /\ [Next]_vars => DetectionInv'
  BY NextKeeps
<1>. QED  BY <1>1, <1>2, <1>3, <1>4, PTL DEF Spec

\* Every variable keeps its type; in particular the group never has more than
\* OBJ_NUMB_MAX_SIZE results, and every index is one of a candidate.
THEOREM DetectionTypeCorrect == Spec => []TypeOK
<1>1. DetectionInv => TypeOK
  BY DEF DetectionInv
<1>. QED  BY <1>1, DetectionInvariant, PTL

\* process_v2_i8 judges every cell as the real scores would: a candidate has a
\* class, the highest score of its cell and a score above CONF_THRESHOLD, and the
\* fast test on the quantised sum misses no cell that is above it by a quantum of
\* the scores and two of the sum, for every quantisation of either tensor and any
\* number of classes.
THEOREM CellsAreJudged == Spec => []CellsJudged
<1>. DEFINE NotBegun == pc = "resize" => cell = NoCell
<1>1. Init => CellsJudged /\ NotBegun
  BY DEF Init, CellsJudged
<1>2. ASSUME DetectionInv, CellsJudged, NotBegun, [Next]_vars PROVE CellsJudged' /\ NotBegun'
  <2>. USE <1>2
  <2>1. (NoCell)' = NoCell
    BY DEF NoCell
  <2>2. CASE ScanCell
    <3>1. pc' = "scan"
      BY <2>2 DEF ScanCell
    <3>. QED  BY <2>2, <3>1, ScanCellJudges
  <2>3. CASE NextBranch \/ Resize \/ Return
    <3>1. cell' = NoCell
      BY <2>3 DEF NextBranch, Resize, Return
    <3>. QED  BY <2>1, <3>1 DEF CellsJudged
  <2>4. CASE UNCHANGED vars
    <3>1. UNCHANGED <<pc, branch, cell, classId, found>> /\ validCount' = validCount
      BY <2>4 DEF vars, candVars, validCount
    <3>. QED  BY <2>1, <3>1 DEF CellsJudged, deqnt_affine_to_f32
  <2>5. CASE \/ ScanDone \/ SortCall \/ Partition \/ PlaceKey \/ SortDone
             \/ nms \/ NextClass \/ NmsDone \/ FillGroup \/ Emit \/ Draw
    <3>1. pc' \notin {"scan", "resize"}
      BY <2>5 DEF ScanDone, SortCall, Partition, PlaceKey, SortDone, nms, NextClass, NmsDone,
                  FillGroup, Emit, Draw
    <3>. QED  BY <3>1 DEF CellsJudged
  <2>. QED  BY <2>2, <2>3, <2>4, <2>5 DEF Next
<1>. HIDE DEF NotBegun
<1>. QED  BY <1>1, <1>2, DetectionInvariant, PTL DEF Spec

\* quick_sort_indice_inverse keeps scores and indices together: a result has the
\* score of its own candidate, no candidate is reported twice, scores descend.
THEOREM ResultsAreGenuine == Spec => []ResultsGenuine
<1>1. ASSUME DetectionInv PROVE ResultsGenuine
  <2>1. TypeOK /\ GroupGenuine
    BY <1>1 DEF DetectionInv
  <2>2. DOMAIN group = 1 .. Len(group) /\ Len(group) \in Nat
    BY <2>1, Typed
  <2>3. \A k \in DOMAIN group : \A j \in 1 .. k - 1 : j \in DOMAIN group /\ j < k
    BY <2>2
  <2>. QED  BY <2>1, <2>3 DEF ResultsGenuine, GroupGenuine
<1>. QED  BY <1>1, DetectionInvariant, PTL

\* No two results of a class overlap by more than NMS_THRESHOLD: nms compares
\* every pair it leaves.
THEOREM ResultsAreApart == Spec => []ResultsApart
<1>1. ASSUME DetectionInv PROVE ResultsApart
  <2>1. TypeOK /\ GroupGenuine /\ KeptApart
    BY <1>1 DEF DetectionInv
  <2>. SUFFICES ASSUME NEW j \in DOMAIN group, NEW k \in DOMAIN group, j # k,
                       group[j].class_index = group[k].class_index
                PROVE  ~Overlaps(filterBoxes[group[j].n], filterBoxes[group[k].n])
    BY DEF ResultsApart
  <2>2. pc \in {"emit", "draw", "return"}
    <3>1. group # <<>>
      OBVIOUS
    <3>. QED  BY <3>1, <1>1, <2>1 DEF DetectionInv, Phases, TypeOK
  <2>3. PICK m \in Position, n \in Position, c \in Class :
           m = group[j].n /\ n = group[k].n /\ c = classId[m] /\ c = classId[n]
    <3>1. group[j].n \in Position /\ group[k].n \in Position
      BY <2>1, Typed, ResultTyped
    <3>2. classId[group[j].n] = classId[group[k].n] /\ classId[group[j].n] \in Class
      BY <3>1, <2>1, Typed DEF GroupGenuine
    <3>. QED  BY <3>1, <3>2
  <2>4. PICK p \in Position, q \in Position : indexArray[p] = m /\ indexArray[q] = n
    BY <2>1, <2>3 DEF GroupGenuine
  <2>5. m # n /\ p # q /\ p \in Nat /\ q \in Nat
    <3>1. j \in Nat /\ k \in Nat /\ (j < k \/ k < j)
      BY SMTT(30), <2>1, Typed
    <3>2. m # n
      BY <3>1, <2>1, <2>3 DEF GroupGenuine
    <3>. QED  BY <3>2, <2>1, <2>4, Typed
  <2>6. Holds(p, m, c) /\ Holds(q, n, c) /\ Done(c, p) /\ Done(c, q)
    BY <2>2, <2>3, <2>4 DEF Holds, Done
  <2>7. CASE p < q
    BY <2>1, <2>2, <2>3, <2>6, <2>7 DEF KeptApart
  <2>8. CASE q < p
    <3>1. ~Overlaps(filterBoxes[n], filterBoxes[m])
      BY <2>1, <2>2, <2>6, <2>8 DEF KeptApart
    <3>2. filterBoxes[m] \in Box /\ filterBoxes[n] \in Box
      BY <2>1, Typed
    <3>. QED  BY <3>1, <3>2, <2>3, OverlapsSymmetric
  <2>. QED  BY <2>5, <2>7, <2>8
<1>. QED  BY <1>1, DetectionInvariant, PTL

\* No object is lost between the scan and the results of a frame: what is not
\* reported overlaps a result of its class that has no lower score, or the
\* group is full of results that have none.
THEOREM NothingIsLost == Spec => []NothingLost
<1>1. ASSUME DetectionInv PROVE NothingLost
  <2>. SUFFICES ASSUME pc = "return", NEW n \in Position,
                       ~\E k \in DOMAIN group : group[k].n = n,
                       ~(/\ Len(group) = OBJ_NUMB_MAX_SIZE
                         /\ \A k \in DOMAIN group : group[k].prop >= found[n])
                PROVE  \E k \in DOMAIN group :
                          /\ group[k].class_index = classId[n]
                          /\ group[k].prop >= found[n]
                          /\ Overlaps(filterBoxes[group[k].n], filterBoxes[n])
    BY DEF NothingLost
  <2>1. TypeOK /\ GroupGenuine /\ GroupComplete /\ RemovedCovered
    BY <1>1 DEF DetectionInv
  <2>2. /\ \A p \in Position : indexArray[p] # Removed =>
              indexArray[p] \in Position /\ boxesScore[p] = found[indexArray[p]]
        /\ \A p \in Position : p # Removed
    BY <1>1, SortedFacts
  <2>3. \A p \in Position : p < row.i
    BY <1>1 DEF DetectionInv, Phases
  <2>4. ~\E p \in Position : indexArray[p] = n
    <3>. SUFFICES ASSUME NEW p \in Position, indexArray[p] = n PROVE FALSE
      OBVIOUS
    <3>1. boxesScore[p] = found[n] /\ indexArray[p] # Removed
      BY <2>2
    <3>. QED  BY <3>1, <2>1, <2>3 DEF GroupComplete
  <2>5. PICK p \in Position, m \in Position :
           /\ Holds(p, m, classId[n]) /\ boxesScore[p] >= found[n]
           /\ Overlaps(filterBoxes[m], filterBoxes[n])
    BY <2>1, <2>4 DEF RemovedCovered
  <2>6. indexArray[p] = m /\ m # Removed /\ classId[m] = classId[n] /\ boxesScore[p] = found[m]
    BY <2>2, <2>5 DEF Holds
  <2>7. CASE \E k \in DOMAIN group : group[k].n = m
    BY <2>7, <2>1, <2>5, <2>6 DEF GroupGenuine
  <2>8. CASE ~\E k \in DOMAIN group : group[k].n = m
    <3>1. /\ Len(group) = OBJ_NUMB_MAX_SIZE
          /\ \A k \in DOMAIN group : group[k].prop >= boxesScore[p]
      BY <2>8, <2>1, <2>3, <2>6 DEF GroupComplete
    <3>2. boxesScore[p] \in Nat /\ found[n] \in Nat
      BY <2>1, Typed
    <3>3. \A k \in DOMAIN group : group[k].prop \in Nat
      BY <2>1, Typed, ResultTyped
    <3>. QED  BY <3>1, <3>2, <3>3, <2>5
  <2>. QED  BY <2>7, <2>8
<1>. QED  BY <1>1, DetectionInvariant, PTL

\* w_reverse and h_reverse take every corner to its place in the camera's image,
\* for every size of image and every letter box.
THEOREM ResultsDrawnInPlace == Spec => []DrawnInPlace
<1>1. DetectionInv => DrawnInPlace
  BY DEF DetectionInv
<1>. QED  BY <1>1, DetectionInvariant, PTL

=============================================================================
