------------------------------ MODULE MCUpload ------------------------------
(***************************************************************************)
(* Upload of two pictures in one request and one in another.               *)
(***************************************************************************)
EXTENDS Upload, TLC

CONSTANTS f1, f2, f3, pair, single

PairAndSingle == (f1 :> pair) @@ (f2 :> pair) @@ (f3 :> single)
=============================================================================
