----------------------------- MODULE Detection -----------------------------
(***************************************************************************)
(* rknn_lite::interf: the image is resized to the model's input,           *)
(* post_process turns the tensors the model puts out into a group of       *)
(* results, and the group is drawn.                                        *)
(*                                                                         *)
(*   tensors -- process_v2_i8 --> candidates -- quick sort --> by score    *)
(*           -- nms --> one per object -- emit --> group -- reverse, draw  *)
(*                                                                         *)
(* A grid cell of the output has a quantised score q for each class, the   *)
(* quantised sum of its scores, and a box.  The real value of q is         *)
(* (q - zp) * scale, with a zero point and a scale of its own in each of   *)
(* the three branches, and others for the sum.  The code computes in       *)
(* floats.  Here scales and CONF_THRESHOLD are integers in a unit small    *)
(* enough for them, and so are the boxes, with Pixel units to a pixel.     *)
(***************************************************************************)
EXTENDS Integers, Sequences, FiniteSetsExt, Functions, LetterBox

CONSTANTS
    OBJ_CLASS_NUM,
    OBJ_NUMB_MAX_SIZE,
    CONF_THRESHOLD,
    NMS_THRESHOLD,        \* in percent
    zp, scale,            \* of the score tensor of each branch
    sum_zp, sum_scale,    \* of the tensor with the sums of the scores
    grid_len,             \* cells of each branch
    target,               \* size of the model's input
    Step,                 \* scores a cell can have, relative to the threshold
    SumError,             \* quanta by which the quantised sum may be off
    Pixel,                \* units of a box to a pixel
    Box,                  \* boxes the network can report
    ImageSize             \* sizes of the camera's image

Branch == 0 .. 2
Class  == 0 .. OBJ_CLASS_NUM - 1

-----------------------------------------------------------------------------
(* Quantisation *)

Int8 == -128 .. 127

\* Mutant: max_score is an int.
KeepInt(x) == x

\* What an int8_t keeps of an int.
ToInt8(x) == ((x + 128) % 256) - 128

\* A float converted to an integer drops its fraction.
Truncate(num, den) == IF num >= 0 THEN num \div den ELSE -((-num) \div den)

qnt_f32_to_affine(value, z, s) == clamp(Truncate(value + z * s, s), -128, 127)

deqnt_affine_to_f32(q, i) == (q - zp[i]) * scale[i]

score_thres_i8(i)     == qnt_f32_to_affine(CONF_THRESHOLD, zp[i], scale[i])
score_sum_thres_i8(i) == qnt_f32_to_affine(CONF_THRESHOLD, sum_zp[i], sum_scale[i])

\* The scores the model can put out: zero, and others, none of them negative.
Score(i) == {zp[i]} \cup {q \in {score_thres_i8(i) + d : d \in Step} : zp[i] <= q /\ q <= 127}

\* The sums of the first scores of a cell, in quanta.
Sums(score, i) ==
    LET total[n \in 0 .. OBJ_CLASS_NUM] ==
            IF n = 0 THEN 0 ELSE total[n - 1] + score[n - 1] - zp[i]
    IN  total

\* The sum of the scores of a cell, which the NPU rounds to quanta of the sum
\* tensor and clips to its range.
ScoreSum(score, i) ==
    {clamp(sum_zp[i] + (Sums(score, i)[OBJ_CLASS_NUM] * scale[i]) \div sum_scale[i] + e,
           -128, 127) : e \in SumError}

ASSUME DetectionAssumption ==
    /\ {OBJ_CLASS_NUM, OBJ_NUMB_MAX_SIZE, CONF_THRESHOLD, Pixel} \subseteq Nat \ {0}
    /\ NMS_THRESHOLD \in 0 .. 100
    /\ zp \in [Branch -> Int8] /\ scale \in [Branch -> Nat \ {0}]
    /\ sum_zp \in [Branch -> Int8] /\ sum_scale \in [Branch -> Nat \ {0}]
    /\ grid_len \in [Branch -> Nat \ {0}]
    /\ target \in Size /\ ImageSize \subseteq Size
    /\ Step \subseteq Int
    /\ SumError \subseteq {-1, 0, 1}
    /\ Box \subseteq [x : Int, y : Int, w : Nat, h : Nat]

\* max_score starts at -score_zp, which passes for a score above the threshold
\* unless the zero point is the one of the models in use or not negative.
ASSUME ZeroPointAssumption == \A i \in Branch : zp[i] = -128 \/ zp[i] >= 0

-----------------------------------------------------------------------------

VARIABLES
    pc,
    branch, cells,        \* the branch process_v2_i8 scans, cells done of it
    cell,                 \* the cell scanned last, and validCount before it
    filterBoxes, boxesScore, classId,       \* of the candidates
    found,                \* boxesScore as process_v2_i8 left it
    indexArray,
    calls, part,          \* quick sort: ranges to sort, partition under way
    row,                  \* nms: the class it filters; the index i of its loop and the next
    group,
    image, letter_box,    \* size of ori_img, LETTER_BOX of the instance
    drawn

candVars == <<filterBoxes, classId, found>>
sortVars == <<boxesScore, indexArray, calls, part>>
drawVars == <<image, letter_box, drawn>>
vars == <<pc, branch, cells, cell, candVars, sortVars, row, group, drawVars>>

NoCell  == [score |-> <<>>, before |-> 0]
NoPart  == [left |-> 0, right |-> 0, low |-> 0, high |-> 0, key |-> 0, key_index |-> 0]
NoRow   == [filterId |-> 0, i |-> 0]
Removed == -1

validCount == Len(classId)
Position   == 1 .. validCount

\* The camera's images are all of one size.
Init ==
    /\ pc = "resize"
    /\ branch = 0 /\ cells = 0 /\ cell = NoCell
    /\ filterBoxes = <<>> /\ boxesScore = <<>> /\ classId = <<>> /\ found = <<>>
    /\ indexArray = <<>> /\ calls = <<>> /\ part = NoPart
    /\ row = NoRow
    /\ group = <<>>
    /\ image \in ImageSize /\ letter_box = NoLetterBox
    /\ drawn = <<>>

-----------------------------------------------------------------------------
(* interf, before the inference *)

\* An image of the size of the input is not resized, and letter_box is left as it is.
Resize ==
    /\ pc = "resize"
    /\ pc' = "scan"
    /\ letter_box' = IF image = target THEN letter_box ELSE compute_letter_box(image, target)
    /\ UNCHANGED <<branch, cells, cell, candVars, sortVars, row, group, image, drawn>>

-----------------------------------------------------------------------------
(* process_v2_i8 *)

\* The loop over the classes: max_score and max_class_id, the first class of
\* those with the highest score above the threshold.
Best(score, i) ==
    LET start == ToInt8(-zp[i])
        above == {c \in Class : score[c] > score_thres_i8(i) /\ score[c] > start}
        top   == {c \in above : \A d \in above : score[d] <= score[c]}
    IN  IF above = {} THEN [q |-> start, class |-> -1]
                      ELSE [q |-> score[Min(top)], class |-> Min(top)]

\* Mutant: a sum at the threshold is filtered out too.
FilteredOutAtThreshold(sum, i) == sum <= score_sum_thres_i8(i)

\* The fast test on the sum.
FilteredOut(sum, i) == sum < score_sum_thres_i8(i)

\* One grid cell.
ScanCell ==
    /\ pc = "scan"
    /\ branch \in Branch
    /\ cells < grid_len[branch]
    /\ \E score \in [Class -> Score(branch)] : \E sum \in ScoreSum(score, branch) :
          LET best == Best(score, branch)
          IN  /\ cell' = [score |-> score, before |-> validCount]
              /\ IF FilteredOut(sum, branch) \/ ~(best.q > score_thres_i8(branch))
                   THEN UNCHANGED <<candVars, boxesScore>>
                   ELSE /\ \E box \in Box : filterBoxes' = Append(filterBoxes, box)
                        /\ found' = Append(found, deqnt_affine_to_f32(best.q, branch))
                        /\ boxesScore' = found'
                        /\ classId' = Append(classId, best.class)
    /\ cells' = cells + 1
    /\ UNCHANGED <<pc, branch, indexArray, calls, part, row, group, drawVars>>

NextBranch ==
    /\ pc = "scan"
    /\ branch \in Branch
    /\ cells = grid_len[branch]
    /\ branch' = branch + 1 /\ cells' = 0 /\ cell' = NoCell
    /\ UNCHANGED <<pc, candVars, sortVars, row, group, drawVars>>

\* Nothing found is an empty group; otherwise the candidates are sorted.
ScanDone ==
    /\ pc = "scan"
    /\ branch = 3
    /\ pc' = IF validCount = 0 THEN "draw" ELSE "sort"
    /\ indexArray' = [n \in Position |-> n]
    /\ calls' = <<<<1, validCount>>>>
    /\ UNCHANGED <<branch, cells, cell, candVars, boxesScore, part, row, group, drawVars>>

-----------------------------------------------------------------------------
(* quick_sort_indice_inverse *)

\* A call takes its range from the front of calls; nothing is left to do in a
\* range of one.
SortCall ==
    LET left == Head(calls)[1]  right == Head(calls)[2]
    IN  /\ pc = "sort"
        /\ part = NoPart
        /\ calls # <<>>
        /\ part' = IF left < right
                     THEN [left |-> left, right |-> right, low |-> left, high |-> right,
                           key |-> boxesScore[left], key_index |-> indexArray[left]]
                     ELSE NoPart
        /\ calls' = Tail(calls)
        /\ UNCHANGED <<pc, branch, cells, cell, candVars, boxesScore, indexArray, row, group,
                       drawVars>>

\* One iteration of the outer while: the element moved to low, and the one moved
\* to high.
HighStop(input) ==
    Max({part.low} \cup {n \in part.low + 1 .. part.high : input[n] > part.key})
LowStop(input, high) ==
    Min({high} \cup {n \in part.low .. high - 1 : input[n] < part.key})

\* The two moves of an iteration, in the scores and in the indices.
Moved(array, high, low) ==
    LET once == [array EXCEPT ![part.low] = array[high]]
    IN  [once EXCEPT ![high] = once[low]]

Partition ==
    LET high == HighStop(boxesScore)
        low  == LowStop([boxesScore EXCEPT ![part.low] = boxesScore[high]], high)
    IN  /\ pc = "sort"
        /\ part.low < part.high
        /\ boxesScore' = Moved(boxesScore, high, low)
        /\ indexArray' = Moved(indexArray, high, low)
        /\ part' = [part EXCEPT !.low = low, !.high = high]
        /\ UNCHANGED <<pc, branch, cells, cell, candVars, calls, row, group, drawVars>>

\* The key goes between the halves, which are sorted next.
PlaceKey ==
    /\ pc = "sort"
    /\ part # NoPart
    /\ part.low = part.high
    /\ boxesScore' = [boxesScore EXCEPT ![part.low] = part.key]
    /\ indexArray' = [indexArray EXCEPT ![part.low] = part.key_index]
    /\ calls' = <<<<part.left, part.low - 1>>, <<part.low + 1, part.right>>>> \o calls
    /\ part' = NoPart
    /\ UNCHANGED <<pc, branch, cells, cell, candVars, row, group, drawVars>>

SortDone ==
    /\ pc = "sort"
    /\ part = NoPart
    /\ calls = <<>>
    /\ pc' = "nms"
    /\ row' = [filterId |-> Min(Range(classId)), i |-> 1]
    /\ UNCHANGED <<branch, cells, cell, candVars, sortVars, group, drawVars>>

-----------------------------------------------------------------------------
(* nms *)

Max0(x) == Max({0, x})

\* The area two boxes share and the area they cover; a box has a pixel more
\* than its width and its height.
Shared(a, b) ==
    Max0(Min({a.x + a.w, b.x + b.w}) - Max({a.x, b.x}) + Pixel)
      * Max0(Min({a.y + a.h, b.y + b.h}) - Max({a.y, b.y}) + Pixel)
Area(a) == (a.w + Pixel) * (a.h + Pixel)

\* CalculateOverlap(a, b) > threshold
Overlaps(a, b) == 100 * Shared(a, b) > NMS_THRESHOLD * (Area(a) + Area(b) - Shared(a, b))

\* The class the element has, none when it was removed.
OfClass(order, c, n) == order[n] # Removed /\ classId[order[n]] = c

\* Mutant: elements of other classes are removed too.
FilterAnyClass(order, c, i) ==
    [j \in Position |->
        IF /\ j > i /\ OfClass(order, c, i) /\ order[j] # Removed
           /\ Overlaps(filterBoxes[order[i]], filterBoxes[order[j]])
          THEN Removed ELSE order[j]]

\* Mutant: the inner loop begins one element late.
FilterFromNext(order, c, i) ==
    [j \in Position |->
        IF /\ j > i + 1 /\ OfClass(order, c, i) /\ OfClass(order, c, j)
           /\ Overlaps(filterBoxes[order[i]], filterBoxes[order[j]])
          THEN Removed ELSE order[j]]

\* The inner loop.
Filter(order, c, i) ==
    [j \in Position |->
        IF /\ j > i /\ OfClass(order, c, i) /\ OfClass(order, c, j)
           /\ Overlaps(filterBoxes[order[i]], filterBoxes[order[j]])
          THEN Removed ELSE order[j]]

\* One iteration of the outer loop.
nms ==
    /\ pc = "nms"
    /\ row.i <= validCount
    /\ indexArray' = Filter(indexArray, row.filterId, row.i)
    /\ row' = [row EXCEPT !.i = @ + 1]
    /\ UNCHANGED <<pc, branch, cells, cell, candVars, boxesScore, calls, part, group, drawVars>>

\* class_set is a std::set: the classes follow in ascending order.
NextClass ==
    LET left == {c \in Range(classId) : c > row.filterId}
    IN  /\ pc = "nms"
        /\ row.i > validCount
        /\ left # {}
        /\ row' = [filterId |-> Min(left), i |-> 1]
        /\ UNCHANGED <<pc, branch, cells, cell, candVars, sortVars, group, drawVars>>

-----------------------------------------------------------------------------
(* The group, and what interf draws of it *)

\* The edges of a result are whole pixels.
Edges(box) ==
    [left |-> Truncate(box.x, Pixel), right |-> Truncate(box.x + box.w, Pixel),
     top |-> Truncate(box.y, Pixel), bottom |-> Truncate(box.y + box.h, Pixel)]

\* Mutant: the score is looked up like the box, by the index of the candidate.
ResultOfCandidate(i) ==
    [n |-> indexArray[i], box |-> Edges(filterBoxes[indexArray[i]]),
     prop |-> boxesScore[indexArray[i]], class_index |-> classId[indexArray[i]]]

\* n, the candidate a result was made from, is not part of it.
ResultOf(i) ==
    [n |-> indexArray[i], box |-> Edges(filterBoxes[indexArray[i]]), prop |-> boxesScore[i],
     class_index |-> classId[indexArray[i]]]

\* The classes are done.
NmsDone ==
    /\ pc = "nms"
    /\ row.i > validCount
    /\ \A c \in Range(classId) : c <= row.filterId
    /\ pc' = "emit"
    /\ row' = [row EXCEPT !.i = 1]
    /\ UNCHANGED <<branch, cells, cell, candVars, sortVars, group, drawVars>>

\* One iteration of the loop that fills the group, which takes OBJ_NUMB_MAX_SIZE
\* results.
FillGroup ==
    /\ pc = "emit"
    /\ row.i <= validCount
    /\ group' = IF \/ indexArray[row.i] = Removed
                   \/ boxesScore[row.i] < CONF_THRESHOLD
                   \/ Len(group) >= OBJ_NUMB_MAX_SIZE
                  THEN group
                  ELSE Append(group, ResultOf(row.i))
    /\ row' = [row EXCEPT !.i = @ + 1]
    /\ UNCHANGED <<pc, branch, cells, cell, candVars, sortVars, drawVars>>

Emit ==
    /\ pc = "emit"
    /\ row.i > validCount
    /\ pc' = "draw"
    /\ UNCHANGED <<branch, cells, cell, candVars, sortVars, row, group, drawVars>>

\* The corners of the rectangle that is drawn for a result.
Corners(box, lb) ==
    [x1 |-> w_reverse(box.left, target, lb), x2 |-> w_reverse(box.right, target, lb),
     y1 |-> h_reverse(box.top, target, lb), y2 |-> h_reverse(box.bottom, target, lb)]

Draw ==
    /\ pc = "draw"
    /\ drawn' = [k \in DOMAIN group |-> Corners(group[k].box, letter_box)]
    /\ pc' = "return"
    /\ UNCHANGED <<branch, cells, cell, candVars, sortVars, row, group, image, letter_box>>

\* interf returns, and is called with the next frame; letter_box is the instance's.
Return ==
    /\ pc = "return"
    /\ pc' = "resize"
    /\ branch' = 0 /\ cells' = 0 /\ cell' = NoCell
    /\ filterBoxes' = <<>> /\ boxesScore' = <<>> /\ classId' = <<>> /\ found' = <<>>
    /\ indexArray' = <<>> /\ calls' = <<>> /\ part' = NoPart
    /\ row' = NoRow
    /\ group' = <<>> /\ drawn' = <<>>
    /\ UNCHANGED <<image, letter_box>>

Next ==
    \/ Resize
    \/ ScanCell \/ NextBranch \/ ScanDone
    \/ SortCall \/ Partition \/ PlaceKey \/ SortDone
    \/ nms \/ NextClass \/ NmsDone
    \/ FillGroup \/ Emit
    \/ Draw \/ Return

Spec == Init /\ [][Next]_vars

-----------------------------------------------------------------------------
(* Properties *)

Corner == [x1 : Int, x2 : Int, y1 : Int, y2 : Int]
Result == [n : Position, box : [left : Int, right : Int, top : Int, bottom : Int],
           prop : Nat, class_index : Class]
Part   == [left : Nat, right : Nat, low : Nat, high : Nat, key : Nat, key_index : Nat]

\* Every variable keeps its type.
TypeOK ==
    /\ pc \in {"resize", "scan", "sort", "nms", "emit", "draw", "return"}
    /\ branch \in 0 .. 3 /\ cells \in Nat
    /\ filterBoxes \in Seq(Box) /\ Len(filterBoxes) = validCount
    /\ classId \in Seq(Class)
    /\ found \in Seq(Nat) /\ Len(found) = validCount
    /\ boxesScore \in Seq(Nat) /\ Len(boxesScore) = validCount
    /\ indexArray \in Seq(Position \cup {Removed})
    /\ calls \in Seq(Nat \X Nat)
    /\ part \in Part /\ part.low <= part.high
    /\ row \in [filterId : Class, i : Nat]
    /\ group \in Seq(Result) /\ Len(group) <= OBJ_NUMB_MAX_SIZE
    /\ image \in Size /\ drawn \in Seq(Corner)

\* The test on the quantised scores says what the test on the real ones would:
\* a candidate has a class, the highest score of its cell and a score above
\* CONF_THRESHOLD, and no cell is missed whose best score is above it by a
\* quantum of the scores and by two quanta of the sum, which is what the fast
\* test needs when the sum is rounded down.
CellsJudged ==
    pc = "scan" /\ cell # NoCell =>
        LET top == Max({cell.score[c] : c \in Class})
        IN  /\ /\ deqnt_affine_to_f32(top - 1, branch) >= CONF_THRESHOLD
               /\ deqnt_affine_to_f32(top, branch) >= CONF_THRESHOLD + 2 * sum_scale[branch]
               => validCount = cell.before + 1
            /\ validCount > cell.before =>
                  /\ classId[validCount] \in Class
                  /\ cell.score[classId[validCount]] = top
                  /\ found[validCount] = deqnt_affine_to_f32(top, branch)
                  /\ found[validCount] > CONF_THRESHOLD

\* Sorting keeps scores and indices together: every result has the score its
\* own candidate had, no candidate is reported twice, and the scores descend.
ResultsGenuine ==
    \A k \in DOMAIN group :
        /\ group[k].prop = found[group[k].n]
        /\ \A j \in 1 .. k - 1 : group[j].n # group[k].n /\ group[j].prop >= group[k].prop

\* No two results of a class show the same object.
ResultsApart ==
    \A j, k \in DOMAIN group :
        j # k /\ group[j].class_index = group[k].class_index
            => ~Overlaps(filterBoxes[group[j].n], filterBoxes[group[k].n])

\* No object is lost: a candidate that is not among the results overlaps a
\* result of its class with at least its score, or the group is full of results
\* with at least its score. In particular the second test against
\* CONF_THRESHOLD drops nothing.
NothingLost ==
    pc = "return" =>
        \A n \in Position :
            \/ \E k \in DOMAIN group : group[k].n = n
            \/ \E k \in DOMAIN group :
                  /\ group[k].class_index = classId[n]
                  /\ group[k].prop >= found[n]
                  /\ Overlaps(filterBoxes[group[k].n], filterBoxes[n])
            \/ /\ Len(group) = OBJ_NUMB_MAX_SIZE
               /\ \A k \in DOMAIN group : group[k].prop >= found[n]

\* A coordinate inside the picture, from which the margins are taken off, is
\* drawn inside the image, at the pixel it falls on there.
InPlace(x, pad, extent, mapped, size, lb) ==
    pad <= x /\ x <= pad + extent =>
        /\ 0 <= mapped /\ mapped <= size
        /\ mapped * lb.num <= (x - pad) * lb.den
        /\ (x - pad) * lb.den < (mapped + 1) * lb.num

\* The rectangles that are drawn keep their orientation, and show the results in
\* their place in the camera's image.
DrawnInPlace ==
    \A k \in DOMAIN drawn :
        LET box == group[k].box  d == drawn[k]
        IN  /\ d.x1 <= d.x2 /\ d.y1 <= d.y2
            /\ IF letter_box.reverse_available
                 THEN /\ InPlace(box.left, letter_box.w_pad_left, letter_box.resize_width,
                                 d.x1, image.width, letter_box)
                      /\ InPlace(box.right, letter_box.w_pad_left, letter_box.resize_width,
                                 d.x2, image.width, letter_box)
                      /\ InPlace(box.top, letter_box.h_pad_top, letter_box.resize_height,
                                 d.y1, image.height, letter_box)
                      /\ InPlace(box.bottom, letter_box.h_pad_top, letter_box.resize_height,
                                 d.y2, image.height, letter_box)
                 ELSE d = [x1 |-> box.left, x2 |-> box.right, y1 |-> box.top, y2 |-> box.bottom]

=============================================================================
