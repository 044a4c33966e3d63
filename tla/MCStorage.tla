----------------------------- MODULE MCStorage -----------------------------
(***************************************************************************)
(* Three small stores: two 32-bit memories, the first under two indices;   *)
(* one 64-bit memory; a 32-bit table, under two indices, with a 64-bit     *)
(* one.  Pages are two bytes.                                              *)
(***************************************************************************)
EXTENDS Storage

None == <<>>

MCStores ==
  { [memories |-> <<[at |-> "I32", min |-> 1, max |-> 2], [at |-> "I32", min |-> 1, max |-> 1]>>,
     mem_addrs |-> <<1, 2, 1>>, data |-> <<1, 0>>,
     tables |-> None, table_addrs |-> None, elem |-> None],
    \* a 64-bit memory without a declared maximum
    [memories |-> <<[at |-> "I64", min |-> 0, max |-> 2^W64 - 1]>>,
     mem_addrs |-> <<1>>, data |-> <<1, 0>>,
     tables |-> None, table_addrs |-> None, elem |-> None],
    [memories |-> None, mem_addrs |-> None, data |-> None,
     tables |-> <<[at |-> "I32", min |-> 1, max |-> 2^W64 - 1], [at |-> "I64", min |-> 1, max |-> 2]>>,
     table_addrs |-> <<1, 2, 1>>, elem |-> <<1, 0>>] }

\* Words around each length, the sign bit of an i32, and the largest ones.
MCOperands == [at \in {"I32", "I64"} |->
  IF at = "I32" THEN {0, 1, 2, 3, 4, 5, 2^(W32 - 1), 2^W32 - 1}
                ELSE {0, 1, 2, 3, 5, 6, 7, 2^W64 - 2, 2^W64 - 1}]
=============================================================================
