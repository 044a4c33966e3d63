---------------------------- MODULE WasmStorage ----------------------------
(***************************************************************************)
(* What WebAssembly promises of memories, tables and segments: every       *)
(* operand is an unsigned number, every sum is exact, an access is done    *)
(* whole or traps and changes nothing, and a memory or table only grows.   *)
(* Refinement target of Storage; no code is modelled here.                 *)
(***************************************************************************)
EXTENDS Integers, Sequences

CONSTANTS
  PageSize, MaxPages,
  Allocatable    \* elements a table can hold: a table.grow may be refused beyond

VARIABLES
  mems,      \* address -> its bytes
  tabs,      \* address -> its elements
  data,      \* the data segment, empty once dropped
  elem,      \* the element segment, empty once dropped
  limits,    \* the declared maxima, [mems, tabs]: address -> pages or elements
  names,     \* the instance's [mems, tabs]: index -> address
  next,      \* the op about to run with its operands, or Idle
  out        \* what the last op did: [trap, push]

contents == <<mems, tabs, data, elem>>
vars == <<mems, tabs, data, elem, limits, names, next, out>>

Idle == [k |-> "idle"]
Failed == -1

Slice(s, a, n) == SubSeq(s, a + 1, a + n)
Overwrite(s, a, new) ==
  [i \in DOMAIN s |-> IF a < i /\ i <= a + Len(new) THEN new[i - a] ELSE s[i]]
Repeat(v, n) == [i \in 1..n |-> v]
Fits(s, a, n) == a + n <= Len(s)

Done(r) == out' = [trap |-> FALSE, push |-> r]
Trap == out' = [trap |-> TRUE, push |-> <<>>] /\ UNCHANGED contents
Only(effect, fits) == IF fits THEN effect ELSE Trap

\* A value is its bytes, the first one lowest; a byte is one bit.
Bytes(v, w) == [i \in 1..w |-> (v \div 2^(i - 1)) % 2]
Extended(bytes, signed) ==
  LET high == IF Len(bytes) = 2 THEN bytes[2] ELSE IF signed THEN bytes[1] ELSE 0
  IN  bytes[1] + 2 * high

SetMem(m, s) == mems' = [mems EXCEPT ![m] = s] /\ UNCHANGED <<tabs, data, elem>>
SetTab(t, s) == tabs' = [tabs EXCEPT ![t] = s] /\ UNCHANGED <<mems, data, elem>>

Load(r, m, a) ==
  Only(Done(<<Extended(Slice(mems[m], a, r.width), r.signed)>>) /\ UNCHANGED contents,
       Fits(mems[m], a, r.width))

Store(r, m, a) ==
  Only(SetMem(m, Overwrite(mems[m], a, Bytes(r.v, r.width))) /\ Done(<<>>),
       Fits(mems[m], a, r.width))

MemoryOp(r, m) ==
  \/ r.k = "load" /\ Load(r, m, r.d + r.offset)
  \/ r.k = "store" /\ Store(r, m, r.d + r.offset)
  \/ r.k = "memory.size" /\ Done(<<Len(mems[m]) \div PageSize>>) /\ UNCHANGED contents
  \/ /\ r.k = "memory.grow"
     /\ LET pages == Len(mems[m]) \div PageSize + r.n
        IN  \/ /\ pages <= limits.mems[m] /\ pages <= MaxPages
               /\ SetMem(m, mems[m] \o Repeat(0, r.n * PageSize))
               /\ Done(<<Len(mems[m]) \div PageSize>>)
            \/ /\ pages > limits.mems[m] \/ pages > MaxPages
               /\ Done(<<Failed>>) /\ UNCHANGED contents
  \/ /\ r.k = "memory.fill"
     /\ Only(SetMem(m, Overwrite(mems[m], r.d, Repeat(r.v % 2, r.n))) /\ Done(<<>>),
             Fits(mems[m], r.d, r.n))
  \/ /\ r.k = "memory.copy"
     /\ LET from == mems[names.mems[r.from]]
        IN  Only(SetMem(m, Overwrite(mems[m], r.d, Slice(from, r.s, r.n))) /\ Done(<<>>),
                 Fits(from, r.s, r.n) /\ Fits(mems[m], r.d, r.n))
  \/ /\ r.k = "memory.init"
     /\ Only(SetMem(m, Overwrite(mems[m], r.d, Slice(data, r.s, r.n))) /\ Done(<<>>),
             Fits(data, r.s, r.n) /\ Fits(mems[m], r.d, r.n))

TableOp(r, t) ==
  \/ /\ r.k = "table.get"
     /\ Only(Done(<<tabs[t][r.d + 1]>>) /\ UNCHANGED contents, Fits(tabs[t], r.d, 1))
  \/ /\ r.k = "table.set"
     /\ Only(SetTab(t, Overwrite(tabs[t], r.d, <<r.v>>)) /\ Done(<<>>), Fits(tabs[t], r.d, 1))
  \/ r.k = "table.size" /\ Done(<<Len(tabs[t])>>) /\ UNCHANGED contents
  \/ /\ r.k = "table.grow"
     /\ \/ /\ Len(tabs[t]) + r.n <= limits.tabs[t]
           /\ SetTab(t, tabs[t] \o Repeat(r.v, r.n)) /\ Done(<<Len(tabs[t])>>)
        \/ /\ Len(tabs[t]) + r.n > limits.tabs[t] \/ Len(tabs[t]) + r.n > Allocatable
           /\ Done(<<Failed>>) /\ UNCHANGED contents
  \/ /\ r.k = "table.fill"
     /\ Only(SetTab(t, Overwrite(tabs[t], r.d, Repeat(r.v, r.n))) /\ Done(<<>>),
             Fits(tabs[t], r.d, r.n))
  \/ /\ r.k = "table.copy"
     /\ LET from == tabs[names.tabs[r.from]]
        IN  Only(SetTab(t, Overwrite(tabs[t], r.d, Slice(from, r.s, r.n))) /\ Done(<<>>),
                 Fits(from, r.s, r.n) /\ Fits(tabs[t], r.d, r.n))
  \/ /\ r.k = "table.init"
     /\ Only(SetTab(t, Overwrite(tabs[t], r.d, Slice(elem, r.s, r.n))) /\ Done(<<>>),
             Fits(elem, r.s, r.n) /\ Fits(tabs[t], r.d, r.n))

Drop ==
  \/ next.k = "data.drop" /\ data' = <<>> /\ UNCHANGED <<mems, tabs, elem>>
  \/ next.k = "elem.drop" /\ elem' = <<>> /\ UNCHANGED <<mems, tabs, data>>

\* The program reaches any op with any operands.
Fetch ==
  /\ next = Idle /\ next' # Idle
  /\ out' = [trap |-> FALSE, push |-> <<>>] /\ UNCHANGED <<contents, limits, names>>

Execute ==
  /\ next # Idle /\ next' = Idle /\ UNCHANGED <<limits, names>>
  /\ IF next.k \in {"data.drop", "elem.drop"}
     THEN Drop /\ Done(<<>>)
     ELSE IF next.k \in {"load", "store", "memory.size", "memory.grow", "memory.fill",
                         "memory.copy", "memory.init"}
          THEN MemoryOp(next, names.mems[next.on])
          ELSE TableOp(next, names.tabs[next.on])

Next == Fetch \/ Execute
Spec == next = Idle /\ [][Next]_vars
=============================================================================
