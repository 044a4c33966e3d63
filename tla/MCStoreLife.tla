---------------------------- MODULE MCStoreLife ----------------------------
(***************************************************************************)
(* StoreLife with two host functions and modules that differ in whether    *)
(* they import, have segments, a start function, or are refused.           *)
(***************************************************************************)
EXTENDS StoreLife

One == [params |-> 1, results |-> 1]
Nothing == [params |-> 1, results |-> 0]
MCTypes == {One, Nothing}

Module(imports, refused, segments, start, need) ==
  [imports |-> imports, refused |-> refused, segments |-> segments, start |-> start, need |-> need]

MCModules ==
  {Module(<<[name |-> "log", type |-> Nothing]>>, FALSE, TRUE, "local", 1),
   Module(<<[name |-> "read", type |-> One]>>, FALSE, FALSE, "host", 2),
   Module(<<[name |-> "read", type |-> One]>>, TRUE, FALSE, "none", 1),
   Module(<<>>, FALSE, FALSE, "local", 1)}
=============================================================================
