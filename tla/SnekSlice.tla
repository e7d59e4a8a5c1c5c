------------------------------ MODULE SnekSlice ------------------------------
(***************************************************************************)
(* Which elements a slice takes (snek_slice of src/snek-exec.c, and the    *)
(* step through a slice in src/snek.h).                                    *)
(*                                                                         *)
(* Positions are counted from 0.  A part of the slice that is not given is *)
(* Omitted, a number as well.  Numbers do not overflow here.               *)
(***************************************************************************)
EXTENDS Integers

CONSTANT Omitted            \* SNEK_SOFFSET_NONE; lengths are below it

\* Negative positions are relative to the end.
FromEnd(len, p) == IF p < 0 THEN len + p ELSE p

\* The first position
Start(len, start, stride) ==
  LET p == FromEnd(len, start)
  IN  IF stride > 0
      THEN IF p = Omitted \/ p < 0 THEN 0 ELSE p
      ELSE IF p = Omitted \/ p >= len THEN len - 1 ELSE p

\* The first position that is beyond the slice
End(len, end, stride) ==
  LET p == FromEnd(len, end)
  IN  IF stride > 0
      THEN IF p = Omitted \/ p > len THEN len ELSE p
      ELSE IF p = Omitted \/ p < -1 THEN -1 ELSE p

\* How many elements.  Division is towards zero, and less than one is none.
Steps(first, end, stride) ==
  IF stride > 0
  THEN IF end + stride - 1 - first <= 0 THEN 0 ELSE (end + stride - 1 - first) \div stride
  ELSE IF end + stride + 1 - first >= 0 THEN 0 ELSE (first - end - stride - 1) \div (-stride)

Count(len, start, end, stride) ==
  Steps(Start(len, start, stride), End(len, end, stride), stride)

\* The position of the element taken at step k, from 0
Position(len, start, stride, k) == Start(len, start, stride) + k * stride

\* The positions that a slice takes, in its order
Positions(len, start, end, stride) ==
  [k \in 1..Count(len, start, end, stride) |-> Position(len, start, stride, k - 1)]
=============================================================================
