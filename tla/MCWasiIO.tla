------------------------------ MODULE MCWasiIO ------------------------------
(***************************************************************************)
(* WasiIO in a memory of twelve bytes, with lists of up to three vectors:  *)
(* apart and out of order, an empty one between, too long and too many.    *)
(***************************************************************************)
EXTENDS WasiIO

V(ptr, len) == [ptr |-> ptr, len |-> len]
MCVecLists ==
  {<<>>, <<V(1, 1)>>, <<V(4, 2), V(1, 1)>>, <<V(0, 1), V(99, 0), V(2, 1)>>, <<V(7, 2)>>,
   <<V(0, 7), V(0, 7)>>}
MCNames == <<2, 0, 3>>
MCStrings == <<<<5, 6>>, <<>>, <<7>>>>
=============================================================================
