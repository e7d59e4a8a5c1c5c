-------------------------------- MODULE Once --------------------------------
(***************************************************************************)
(* Operators that pass on a large value and use it in several places.      *)
(***************************************************************************)

\* F(x).  TLC evaluates x once, however often F uses it.
With(x, F(_)) == CHOOSE r \in {F(y) : y \in {x}} : TRUE
=============================================================================
