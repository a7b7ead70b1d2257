----------------------------- MODULE LetterBox -----------------------------
(***************************************************************************)
(* resize_function.cc: the geometry of a letter box.  An image of in_width *)
(* by in_height is scaled to fit the input of the model, centred, and      *)
(* padded on two sides; w_reverse and h_reverse take a coordinate of the   *)
(* model's input back to the image.  The floats are exact here: the scale  *)
(* is the rational num / den.                                              *)
(***************************************************************************)
EXTENDS Integers

Size == [width : Nat \ {0}, height : Nat \ {0}]

\* img_wh_ratio >= target_wh_ratio
PadsHeight(in, target) == in.width * target.height >= target.width * in.height

\* The margin before the picture and the one after it.
Pad(room)      == room \div 2
PadAfter(room) == IF room % 2 = 0 THEN Pad(room) ELSE Pad(room) + 1

compute_letter_box(in, target) ==
    LET num    == IF PadsHeight(in, target) THEN target.width ELSE target.height
        den    == IF PadsHeight(in, target) THEN in.width ELSE in.height
        width  == IF PadsHeight(in, target) THEN target.width ELSE (in.width * num) \div den
        height == IF PadsHeight(in, target) THEN (in.height * num) \div den ELSE target.height
    IN  [reverse_available |-> TRUE, num |-> num, den |-> den,
         resize_width |-> width, resize_height |-> height,
         w_pad_left |-> Pad(target.width - width),
         w_pad_right |-> PadAfter(target.width - width),
         h_pad_top |-> Pad(target.height - height),
         h_pad_bottom |-> PadAfter(target.height - height)]

\* The fields of a LETTER_BOX that compute_letter_box was never called for.
NoLetterBox ==
    [reverse_available |-> FALSE, num |-> 0, den |-> 1,
     resize_width |-> 0, resize_height |-> 0, w_pad_left |-> 0, w_pad_right |-> 0,
     h_pad_top |-> 0, h_pad_bottom |-> 0]

clamp(val, min, max) == IF val > min THEN IF val < max THEN val ELSE max ELSE min

\* Mutant: the margin is not taken off.
ReverseKeepsPad(x, pad, limit, lb) ==
    IF lb.reverse_available
      THEN (clamp(clamp(x, 0, limit), 0, limit) * lb.den) \div lb.num
      ELSE x

\* w_reverse and h_reverse, with the margin and the size of their direction.
reverse(x, pad, limit, lb) ==
    IF lb.reverse_available
      THEN (clamp(clamp(x, 0, limit) - pad, 0, limit) * lb.den) \div lb.num
      ELSE x

w_reverse(w, target, lb) == reverse(w, lb.w_pad_left, target.width, lb)
h_reverse(h, target, lb) == reverse(h, lb.h_pad_top, target.height, lb)

=============================================================================
