-------------------------- MODULE MCResponseBody --------------------------
EXTENDS ResponseBody

(* Single bytes split a header, two bytes may straddle it and the content. *)
UpToTwo == {0, 1, 2}
=============================================================================
