--------------------------- MODULE MCStructured ---------------------------
(***************************************************************************)
(* MCInterp on a program that meets the assumptions of InterpTyped.        *)
(***************************************************************************)
EXTENDS MCInterp, InterpTyped
=============================================================================
