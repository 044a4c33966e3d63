------------------------------ MODULE MCWasiFds ------------------------------
(***************************************************************************)
(* WasiFds with two numbers for descriptors beside the standard ones, all  *)
(* rights or a few, and one thing wrong with a call at a time.             *)
(***************************************************************************)
EXTENDS WasiFds

Some == {"path_open", "fd_read", "fd_sync"}
MCRightSets == {Rights, Some}
MCFlagSets == {{}, {"sync"}}

Good == [wellFormed |-> TRUE, memory |-> TRUE, out |-> TRUE, path |-> "relative"]
MCArguments ==
  {Good, [Good EXCEPT !.wellFormed = FALSE], [Good EXCEPT !.memory = FALSE],
   [Good EXCEPT !.out = FALSE], [Good EXCEPT !.path = "absolute"]}

Plainly == [create |-> FALSE, truncate |-> FALSE, directory |-> FALSE]
MCOpens == {[Plainly EXCEPT !.create = TRUE], [Plainly EXCEPT !.directory = TRUE]}
=============================================================================
