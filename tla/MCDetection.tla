---------------------------- MODULE MCDetection ----------------------------
(***************************************************************************)
(* An instance of Detection for TLC: four cells, two classes, a group of   *)
(* two.  CONF_THRESHOLD is 6.25, 6.25 and 5 quanta in the three branches,  *)
(* whose sums are quantised more coarsely, more finely and alike.          *)
(* The first three boxes are a chain: the second overlaps the first and    *)
(* the third by more than the threshold, which are less close.  The last   *)
(* box is apart from them and reaches into a margin.                       *)
(***************************************************************************)
EXTENDS Detection

MCzp    == [i \in 0 .. 2 |-> IF i = 1 THEN 0 ELSE -128]
MCscale == [i \in 0 .. 2 |-> IF i = 2 THEN 5 ELSE 4]
MCsum_zp    == [i \in 0 .. 2 |-> IF i = 1 THEN 5 ELSE -128]
MCsum_scale == [i \in 0 .. 2 |-> CASE i = 0 -> 6 [] i = 1 -> 3 [] i = 2 -> 5]
MCgrid_len == [i \in 0 .. 2 |-> IF i = 0 THEN 2 ELSE 1]

Square(n) == [width |-> n, height |-> n]
MCtarget  == Square(8)

\* Margins above and below, odd ones at the sides, and none.
MCImageSize == {[width |-> 12, height |-> 7], [width |-> 11, height |-> 16], Square(8)}

MCStep == {0, 1, 3}
MCSumError == {-1, 0, 1}

\* In half pixels.
MCBox == {[x |-> 0, y |-> 5, w |-> 9, h |-> 6], [x |-> 2, y |-> 5, w |-> 9, h |-> 6],
          [x |-> 5, y |-> 5, w |-> 9, h |-> 6], [x |-> 11, y |-> -1, w |-> 5, h |-> 8]}

=============================================================================
