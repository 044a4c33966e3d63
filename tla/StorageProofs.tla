--------------------------- MODULE StorageProofs ---------------------------
(***************************************************************************)
(* Memories, tables and segments keep their types and sizes, and each op   *)
(* does with wrapped, saturated and sign-extended words what WasmStorage   *)
(* says of exact numbers, whatever the widths, sizes and operands.         *)
(***************************************************************************)
EXTENDS Storage, SequenceTheorems, TLAPS

----------------------------------------------------------------------------
(***************************************************************************)
(* Words.  a stands for x against lengths up to L if it is x or both are   *)
(* too large: this is what sign extension makes of an address.             *)
(***************************************************************************)
Modulus == 2^W64
Half == 2^(W32 - 1)

StandsFor(a, x, L) == a = x \/ (a > L /\ x > L)

LEMMA WordFacts ==
  /\ Half \in Nat /\ Half > 0 /\ Modulus \in Nat
  /\ Modulus >= Half + Half + Half + Half
  /\ Words("I32") = 0..(Half + Half - 1) /\ Words("I64") = 0..(Modulus - 1)
  BY PowersAssumption DEF Half, Modulus, Words

LEMMA SumFacts ==
  ASSUME NEW a, NEW b
  PROVE  /\ CheckedAdd(a, b) = IF a + b < Modulus THEN a + b ELSE -1
         /\ SaturatingAdd(a, b) = IF a + b < Modulus THEN a + b ELSE Modulus - 1
  BY DEF CheckedAdd, SaturatingAdd, Modulus, Overflow

LEMMA AddressFacts ==
  ASSUME NEW at \in {"I32", "I64"}, NEW x \in Words(at)
  PROVE  /\ Address(at, x) \in 0..(Modulus - 1) /\ x \in 0..(Modulus - 1)
         /\ at = "I64" => Address(at, x) = x
         /\ at = "I32" => \/ Address(at, x) = x /\ x < Half
                          \/ Address(at, x) >= Modulus - Half /\ x >= Half
  <1>1. SignExtended(x) = IF x < Half THEN x ELSE x + Modulus - (Half + Half)
    BY PowersAssumption DEF SignExtended, Half, Modulus
  <1>2. Address(at, x) = IF at = "I32" THEN SignExtended(x) ELSE x
    BY DEF Address
  <1>3. CASE at = "I32"
    <2>1. x \in 0..(Half + Half - 1)
      BY <1>3, WordFacts
    <2>2. QED
      BY <1>1, <1>2, <1>3, <2>1, WordFacts
  <1>4. CASE at = "I64"
    <2>1. x \in 0..(Modulus - 1)
      BY <1>4, WordFacts
    <2>2. QED
      BY <1>2, <1>4, <2>1
  <1>5. QED
    BY <1>3, <1>4

\* A word stands for its number against every length its type allows.
LEMMA AddressStands ==
  ASSUME NEW at \in {"I32", "I64"}, NEW x \in Words(at), NEW L \in Nat,
         at = "I32" => L < Half
  PROVE  StandsFor(Address(at, x), x, L)
  <1>1. CASE at = "I64"
    BY <1>1, AddressFacts DEF StandsFor
  <1>2. CASE at = "I32"
    <2> DEFINE a == Address(at, x)
    <2>1. a \in 0..(Modulus - 1) /\ x \in 0..(Modulus - 1)
          /\ (a = x \/ (a >= Modulus - Half /\ x >= Half))
      BY <1>2, AddressFacts
    <2> HIDE DEF a
    <2>2. L < Half
      BY <1>2
    <2>3. QED
      BY <2>1, <2>2, WordFacts DEF StandsFor, a
  <1>3. QED
    BY <1>1, <1>2

\* The range checks are those of the numbers.
LEMMA RangeFacts ==
  ASSUME NEW s, Len(s) \in Nat,
         NEW a \in 0..(Modulus - 1), NEW b \in 0..(Modulus - 1)
  PROVE  /\ Len(s) < Modulus => (HasBytes(s, a, b) <=> a + b <= Len(s))
         /\ HasBytes(s, a, b) => a + b <= Len(s)
         /\ Len(s) < Modulus - 1 => (HasElements(s, a, b) <=> a + b <= Len(s))
  <1>1. Modulus \in Nat
    BY WordFacts
  <1>2. PICK L, c, d : L = Len(s) /\ c = CheckedAdd(a, b) /\ d = SaturatingAdd(a, b)
    OBVIOUS
  <1>3. /\ c = IF a + b < Modulus THEN a + b ELSE -1
        /\ d = IF a + b < Modulus THEN a + b ELSE Modulus - 1
    BY <1>2, SumFacts
  <1>4. (HasBytes(s, a, b) <=> c \in 0..L) /\ (HasElements(s, a, b) <=> d <= L)
    BY <1>2 DEF HasBytes, HasElements
  <1>5. L \in Nat
    BY <1>2
  <1>6. /\ L < Modulus => (c \in 0..L <=> a + b <= L)
        /\ c \in 0..L => a + b <= L
        /\ L < Modulus - 1 => (d <= L <=> a + b <= L)
    BY ONLY <1>1, <1>3, <1>5, a \in 0..(Modulus - 1), b \in 0..(Modulus - 1)
  <1>7. QED
    BY <1>2, <1>4, <1>6

LEMMA StandsSum ==
  ASSUME NEW L \in Nat, NEW a \in Nat, NEW b \in Nat, NEW x \in Nat, NEW y \in Nat,
         StandsFor(a, x, L), StandsFor(b, y, L)
  PROVE  /\ a + b <= L <=> x + y <= L
         /\ a + b <= L => a = x /\ b = y
  BY DEF StandsFor

----------------------------------------------------------------------------
(***************************************************************************)
(* Bytes and elements.                                                     *)
(***************************************************************************)
LEMMA FunctionSeq ==
  ASSUME NEW S, NEW n \in Nat, NEW f \in [1..n -> S]
  PROVE  f \in Seq(S) /\ Len(f) = n
  OBVIOUS

LEMMA OverwriteFacts ==
  ASSUME NEW S, NEW s \in Seq(S), NEW a \in Nat, NEW new \in Seq(S)
  PROVE  Overwrite(s, a, new) \in Seq(S) /\ Len(Overwrite(s, a, new)) = Len(s)
  <1>1. DOMAIN s = 1..Len(s) /\ Len(s) \in Nat /\ Len(new) \in Nat
    BY LenProperties
  <1>2. PICK n, k : n = Len(s) /\ k = Len(new)
    OBVIOUS
  <1>3. n \in Nat /\ k \in Nat
    BY <1>1, <1>2
  <1>4. \A i \in 1..k : new[i] \in S
    BY <1>2, ElementOfSeq
  <1>5. \A i \in 1..n : s[i] \in S
    BY <1>2, ElementOfSeq
  <1>6. Overwrite(s, a, new) = [i \in 1..n |-> IF a < i /\ i <= a + k THEN new[i - a] ELSE s[i]]
    BY <1>1, <1>2 DEF Overwrite
  <1>7. ASSUME NEW i \in 1..n, a < i, i <= a + k PROVE i - a \in 1..k
    BY <1>3, <1>7
  <1>8. [i \in 1..n |-> IF a < i /\ i <= a + k THEN new[i - a] ELSE s[i]] \in [1..n -> S]
    BY <1>4, <1>5, <1>7
  <1>9. QED
    BY <1>2, <1>3, <1>6, <1>8, FunctionSeq

LEMMA RepeatFacts ==
  ASSUME NEW S, NEW v \in S, NEW n \in Nat
  PROVE  Repeat(v, n) \in Seq(S) /\ Len(Repeat(v, n)) = n
  <1>1. Repeat(v, n) \in [1..n -> S]
    BY DEF Repeat
  <1>2. QED
    BY <1>1, FunctionSeq

LEMMA SliceFacts ==
  ASSUME NEW S, NEW s \in Seq(S), NEW a \in Nat, NEW n \in Nat, a + n <= Len(s)
  PROVE  Slice(s, a, n) \in Seq(S) /\ Len(Slice(s, a, n)) = n
  <1>1. Len(s) \in Nat
    BY LenProperties
  <1>2. PICK L, m, k : L = Len(s) /\ m = a + 1 /\ k = a + n
    OBVIOUS
  <1>3. \A i \in m..k : i \in 1..L
    BY ONLY <1>1, <1>2, a \in Nat, n \in Nat, a + n <= Len(s)
  <1>4. \A i \in m..k : s[i] \in S
    BY <1>2, <1>3, ElementOfSeq
  <1>5. m \in Int /\ k \in Int
    BY <1>2
  <1>6. SubSeq(s, m, k) \in Seq(S) /\ Len(SubSeq(s, m, k)) = IF m <= k THEN k - m + 1 ELSE 0
    BY <1>4, <1>5, SubSeqProperties
  <1>7. (IF m <= k THEN k - m + 1 ELSE 0) = n
    BY ONLY <1>2, a \in Nat, n \in Nat
  <1>8. QED
    BY <1>2, <1>6, <1>7 DEF Slice

LEMMA ResizedFacts ==
  ASSUME NEW S, NEW s \in Seq(S), NEW n \in Nat, NEW v \in S
  PROVE  Resized(s, n, v) \in Seq(S) /\ Len(Resized(s, n, v)) = n
  <1>1. Len(s) \in Nat
    BY LenProperties
  <1>2. CASE n <= Len(s)
    <2>1. Resized(s, n, v) = Slice(s, 0, n)
      BY <1>2 DEF Resized, Slice
    <2>2. 0 \in Nat /\ 0 + n <= Len(s)
      BY <1>2
    <2>3. Slice(s, 0, n) \in Seq(S) /\ Len(Slice(s, 0, n)) = n
      BY <2>2, SliceFacts
    <2>4. QED
      BY <2>1, <2>3
  <1>3. CASE n > Len(s)
    <2>1. Resized(s, n, v) = s \o Repeat(v, n - Len(s))
      BY <1>1, <1>3 DEF Resized
    <2>2. n - Len(s) \in Nat
      BY <1>1, <1>3
    <2>3. PICK r : r = Repeat(v, n - Len(s))
      OBVIOUS
    <2>4. r \in Seq(S) /\ Len(r) = n - Len(s)
      BY <2>2, <2>3, RepeatFacts
    <2>5. s \o r \in Seq(S) /\ Len(s \o r) = Len(s) + Len(r)
      BY <2>4, ConcatProperties
    <2>6. QED
      BY <1>1, <2>1, <2>3, <2>4, <2>5
  <1>4. QED
    BY <1>1, <1>2, <1>3

LEMMA LargerIsLonger ==
  ASSUME NEW s \in Seq(0..1), NEW n \in Nat, n >= Len(s), NEW v
  PROVE  Resized(s, n, v) = s \o Repeat(v, n - Len(s))
  <1>1. Len(s) \in Nat
    BY LenProperties
  <1>2. CASE n > Len(s)
    BY <1>1, <1>2 DEF Resized
  <1>3. CASE n = Len(s)
    <2>1. Resized(s, n, v) = SubSeq(s, 1, Len(s))
      BY <1>1, <1>3 DEF Resized
    <2>2. SubSeq(s, 1, Len(s)) = s
      BY SubSeqFull
    <2>3. Repeat(v, n - Len(s)) = <<>>
      BY <1>1, <1>3 DEF Repeat
    <2>4. s \o <<>> = s
      BY ConcatEmptySeq
    <2>5. QED
      BY <2>1, <2>2, <2>3, <2>4, Zenon
  <1>4. QED
    BY <1>1, <1>2, <1>3

LEMMA PageFacts ==
  ASSUME NEW p \in Nat
  PROVE  /\ p * PageSize \in Nat
         /\ (p * PageSize) \div PageSize = p /\ (p * PageSize) % PageSize = 0
  BY PageAssumption

\* More pages are more bytes.
LEMMA PagesGrow ==
  ASSUME NEW p \in Nat, NEW q \in Nat, p <= q
  PROVE  p * PageSize <= q * PageSize
  BY PageAssumption

----------------------------------------------------------------------------
(***************************************************************************)
(* The inductive invariant: TypeOK with the declared minimum being the     *)
(* size, and the op about to run having operands of its types.             *)
(***************************************************************************)
MemoryType == [at : {"I32", "I64"}, min : Nat, max : Words("I64"), data : Seq(0..1)]
TableType == [at : {"I32", "I64"}, min : Nat, max : Words("I64"), elem : Seq(0..1)]

MemoryKept(m) == m \in MemoryType /\ Len(m.data) = m.min * PageSize /\ Len(m.data) < Modulus
TableKept(t) == t \in TableType /\ Len(t.elem) = t.min /\ t.min <= Allocatable
SegmentKept(s) == s \in Seq(0..1) /\ Len(s) < Modulus - 1

ContentsKept ==
  /\ \A m \in DOMAIN memories : MemoryKept(memories[m])
  /\ \A t \in DOMAIN tables : TableKept(tables[t])
  /\ SegmentKept(data_segment) /\ SegmentKept(element_segment)

NamesKept ==
  /\ \A i \in DOMAIN instance.mems : instance.mems[i] \in DOMAIN memories
  /\ \A i \in DOMAIN instance.tabs : instance.tabs[i] \in DOMAIN tables

MemoryKinds == {"load", "store", "memory.size", "memory.grow", "memory.fill", "memory.copy",
                "memory.init"}
TableKinds == {"table.get", "table.set", "table.size", "table.grow", "table.fill", "table.copy",
               "table.init"}

Operated(op) ==
  /\ op.k \in MemoryKinds \cup TableKinds \cup {"data.drop", "elem.drop"}
  /\ op.k \in MemoryKinds => op.on \in DOMAIN instance.mems
  /\ op.k \in {"load", "store", "memory.fill", "memory.copy", "memory.init"} =>
       op.d \in Words(At(op.on))
  /\ op.k \in {"load", "store"} => op.offset \in Words("I64") /\ op.width \in {1, 2}
  /\ op.k \in {"store", "memory.fill"} => op.v \in Values
  /\ op.k \in {"memory.grow", "memory.fill", "memory.copy"} => op.n \in Words(At(op.on))
  /\ op.k = "memory.grow" => AnyGrowth \/ GrowsUpward(op.on, op.n)
  /\ op.k = "memory.copy" =>
       /\ op.from \in DOMAIN instance.mems /\ At(op.from) = At(op.on)
       /\ op.s \in Words(At(op.on))
  /\ op.k \in {"memory.init", "table.init"} => op.s \in Words("I32") /\ op.n \in Words("I32")
  /\ op.k \in TableKinds => op.on \in DOMAIN instance.tabs
  /\ op.k \in {"table.get", "table.set", "table.fill", "table.copy", "table.init"} =>
       op.d \in Words(TabAt(op.on))
  /\ op.k \in {"table.set", "table.fill", "table.grow"} => op.v \in Refs
  /\ op.k \in {"table.fill", "table.grow"} => op.n \in Words(TabAt(op.on))
  /\ op.k = "table.grow" => CanAllocate(op.on, op.n)
  /\ op.k = "table.copy" =>
       /\ op.from \in DOMAIN instance.tabs /\ op.s \in Words(TabAt(op.from))
       /\ op.n \in Words(CountAt(op.on, op.from))

OutKept == out.trap \in BOOLEAN /\ (out.trap => out.push = <<>>)

StorageKept ==
  /\ ContentsKept /\ NamesKept /\ OutKept
  /\ next = Idle \/ Operated(next)

LEMMA MemoryFacts ==
  ASSUME NEW m, MemoryKept(m)
  PROVE  /\ m.at \in {"I32", "I64"} /\ m.min \in Nat /\ m.max \in Nat
         /\ m.data \in Seq(0..1) /\ Len(m.data) \in Nat /\ Len(m.data) = m.min * PageSize
         /\ Len(m.data) \div PageSize = m.min /\ Len(m.data) % PageSize = 0
         /\ Len(m.data) < Modulus
  <1>1. /\ m.at \in {"I32", "I64"} /\ m.min \in Nat /\ m.max \in 0..(Modulus - 1)
        /\ m.data \in Seq(0..1) /\ Len(m.data) = m.min * PageSize /\ Len(m.data) < Modulus
    BY WordFacts DEF MemoryKept, MemoryType
  <1>2. m.max \in Nat
    BY <1>1
  <1>3. QED
    BY <1>1, <1>2, PageFacts, LenProperties

LEMMA TableFacts ==
  ASSUME NEW t, TableKept(t)
  PROVE  /\ t.at \in {"I32", "I64"} /\ t.min \in Nat /\ t.max \in Nat /\ t.max < Modulus
         /\ t.elem \in Seq(0..1) /\ Len(t.elem) \in Nat /\ Len(t.elem) = t.min
         /\ Len(t.elem) <= Allocatable /\ Len(t.elem) < Modulus - 1
  <1>1. Allocatable \in Nat /\ Allocatable < Modulus - 1 /\ Modulus \in Nat
    BY StoresAssumption, WordFacts DEF Modulus
  <1>2. QED
    BY <1>1, WordFacts DEF TableKept, TableType

LEMMA KeptIsTyped == StorageKept => TypeOK /\ \A m \in DOMAIN memories : PagesOf(m) = memories[m].min
  <1> SUFFICES ASSUME StorageKept
               PROVE  TypeOK /\ \A m \in DOMAIN memories : PagesOf(m) = memories[m].min
    OBVIOUS
  <1>1. ASSUME NEW m \in DOMAIN memories
        PROVE  /\ memories[m].at \in {"I32", "I64"} /\ memories[m].min \in Nat
               /\ memories[m].max \in Nat /\ memories[m].data \in Seq(0..1)
               /\ Len(memories[m].data) % PageSize = 0 /\ PagesOf(m) = memories[m].min
    BY MemoryFacts DEF StorageKept, ContentsKept, PagesOf
  <1>2. ASSUME NEW t \in DOMAIN tables
        PROVE  /\ tables[t].at \in {"I32", "I64"} /\ tables[t].min \in Nat
               /\ tables[t].max \in Nat /\ tables[t].elem \in Seq(Refs)
    BY TableFacts DEF StorageKept, ContentsKept, Refs
  <1>3. data_segment \in Seq(0..1) /\ element_segment \in Seq(Refs)
    BY DEF StorageKept, ContentsKept, SegmentKept, Refs
  <1>4. out.trap \in BOOLEAN /\ (out.trap => out.push = <<>>)
    BY DEF StorageKept, OutKept
  <1>5. QED
    BY <1>1, <1>2, <1>3, <1>4 DEF TypeOK

----------------------------------------------------------------------------
(***************************************************************************)
(* What the effects keep.                                                  *)
(***************************************************************************)
LEMMA DoneOut ==
  ASSUME NEW r, Done(r)
  PROVE  OutKept'
  <1>1. out' = [trap |-> FALSE, push |-> r]
    BY DEF Done
  <1>2. ~out'.trap /\ out'.trap \in BOOLEAN
    BY <1>1, Zenon
  <1>3. QED
    BY <1>2 DEF OutKept

LEMMA TrapOut ==
  ASSUME Trap
  PROVE  OutKept' /\ Unchanged
  <1>1. out' = [trap |-> TRUE, push |-> <<>>] /\ Unchanged
    BY DEF Trap
  <1>2. out'.trap \in BOOLEAN /\ out'.push = <<>>
    BY <1>1, Zenon
  <1>3. QED
    BY <1>1, <1>2 DEF OutKept

LEMMA UnchangedKept ==
  ASSUME ContentsKept, NamesKept, Unchanged, instance' = instance
  PROVE  ContentsKept' /\ NamesKept'
  BY DEF ContentsKept, NamesKept, Unchanged

\* The op has run.
LEMMA Ran ==
  ASSUME ContentsKept', NamesKept', OutKept', next' = Idle
  PROVE  StorageKept'
  BY DEF StorageKept

LEMMA SetBytesKept ==
  ASSUME ContentsKept, NamesKept, instance' = instance,
         NEW m \in DOMAIN memories, NEW s \in Seq(0..1), Len(s) = Len(memories[m].data),
         SetBytes(m, s)
  PROVE  ContentsKept' /\ NamesKept'
  <1> DEFINE new == [memories[m] EXCEPT !.data = s]
  <1>1. /\ memories' = [memories EXCEPT ![m] = new]
        /\ tables' = tables /\ data_segment' = data_segment /\ element_segment' = element_segment
    BY DEF SetBytes
  <1>2. /\ memories[m] \in MemoryType /\ Len(memories[m].data) = memories[m].min * PageSize
        /\ Len(memories[m].data) < Modulus
    BY DEF ContentsKept, MemoryKept
  <1>3. new \in MemoryType /\ new.data = s /\ new.min = memories[m].min
    BY <1>2 DEF MemoryType
  <1>4. MemoryKept(new)
    BY <1>2, <1>3 DEF MemoryKept
  <1> HIDE DEF new
  <1>5. DOMAIN memories' = DOMAIN memories
    BY <1>1
  <1>6. \A x \in DOMAIN memories : memories'[x] = IF x = m THEN new ELSE memories[x]
    BY <1>1
  <1>7. \A x \in DOMAIN memories : MemoryKept(memories'[x])
    BY <1>4, <1>6 DEF ContentsKept
  <1>8. QED
    BY <1>1, <1>5, <1>7 DEF ContentsKept, NamesKept

LEMMA SetElementsKept ==
  ASSUME ContentsKept, NamesKept, instance' = instance,
         NEW t \in DOMAIN tables, NEW s \in Seq(0..1), Len(s) = Len(tables[t].elem),
         SetElements(t, s)
  PROVE  ContentsKept' /\ NamesKept'
  <1> DEFINE new == [tables[t] EXCEPT !.elem = s]
  <1>1. /\ tables' = [tables EXCEPT ![t] = new]
        /\ memories' = memories /\ data_segment' = data_segment /\ element_segment' = element_segment
    BY DEF SetElements
  <1>2. tables[t] \in TableType /\ Len(tables[t].elem) = tables[t].min /\ tables[t].min <= Allocatable
    BY DEF ContentsKept, TableKept
  <1>3. new \in TableType /\ new.elem = s /\ new.min = tables[t].min
    BY <1>2 DEF TableType
  <1>4. TableKept(new)
    BY <1>2, <1>3 DEF TableKept
  <1> HIDE DEF new
  <1>5. DOMAIN tables' = DOMAIN tables
    BY <1>1
  <1>6. \A x \in DOMAIN tables : tables'[x] = IF x = t THEN new ELSE tables[x]
    BY <1>1
  <1>7. \A x \in DOMAIN tables : TableKept(tables'[x])
    BY <1>4, <1>6 DEF ContentsKept
  <1>8. QED
    BY <1>1, <1>5, <1>7 DEF ContentsKept, NamesKept

----------------------------------------------------------------------------
(***************************************************************************)
(* The operands of the op about to run.                                    *)
(***************************************************************************)
LEMMA Runs ==
  ASSUME StorageKept, NEW ks, "idle" \notin ks, Run(ks)
  PROVE  next.k \in ks /\ Operated(next) /\ next' = Idle /\ instance' = instance
  BY DEF StorageKept, Run, Idle

LEMMA MemoryAt ==
  ASSUME StorageKept, NEW i \in DOMAIN instance.mems
  PROVE  /\ instance.mems[i] \in DOMAIN memories /\ MemoryKept(memories[instance.mems[i]])
         /\ At(i) = memories[instance.mems[i]].at /\ At(i) \in {"I32", "I64"}
  <1>1. instance.mems[i] \in DOMAIN memories
    BY DEF StorageKept, NamesKept
  <1>2. MemoryKept(memories[instance.mems[i]])
    BY <1>1 DEF StorageKept, ContentsKept
  <1>3. QED
    BY <1>1, <1>2, MemoryFacts DEF At

LEMMA TableAt ==
  ASSUME StorageKept, NEW i \in DOMAIN instance.tabs
  PROVE  /\ instance.tabs[i] \in DOMAIN tables /\ TableKept(tables[instance.tabs[i]])
         /\ TabAt(i) = tables[instance.tabs[i]].at /\ TabAt(i) \in {"I32", "I64"}
  <1>1. instance.tabs[i] \in DOMAIN tables
    BY DEF StorageKept, NamesKept
  <1>2. TableKept(tables[instance.tabs[i]])
    BY <1>1 DEF StorageKept, ContentsKept
  <1>3. QED
    BY <1>1, <1>2, TableFacts DEF TabAt

\* The memory and the bytes an op works on.
LEMMA OnMemory ==
  ASSUME StorageKept, NEW ks, ks \subseteq MemoryKinds, Run(ks)
  PROVE  /\ next.k \in ks /\ Operated(next) /\ next' = Idle /\ instance' = instance
         /\ next.on \in DOMAIN instance.mems
         /\ Mem \in DOMAIN memories /\ MemoryKept(memories[Mem]) /\ At(next.on) = memories[Mem].at
         /\ memories[Mem].data \in Seq(0..1) /\ Len(memories[Mem].data) \in Nat
         /\ \A x \in Words(At(next.on)) : MemAddress(x) \in 0..(Modulus - 1) /\ MemAddress(x) \in Nat
  <1>1. next.k \in ks /\ Operated(next) /\ next' = Idle /\ instance' = instance
    BY Runs DEF MemoryKinds
  <1>2. next.on \in DOMAIN instance.mems
    BY <1>1 DEF Operated
  <1>3. /\ Mem \in DOMAIN memories /\ MemoryKept(memories[Mem])
        /\ At(next.on) = memories[Mem].at /\ At(next.on) \in {"I32", "I64"}
    BY <1>2, MemoryAt DEF Mem
  <1>4. memories[Mem].data \in Seq(0..1) /\ Len(memories[Mem].data) \in Nat
    BY <1>3, MemoryFacts
  <1>5. ASSUME NEW x \in Words(At(next.on))
        PROVE  MemAddress(x) \in 0..(Modulus - 1) /\ MemAddress(x) \in Nat
    BY <1>3, AddressFacts DEF MemAddress
  <1>6. QED
    BY <1>1, <1>2, <1>3, <1>4, <1>5

LEMMA OnTable ==
  ASSUME StorageKept, NEW ks, ks \subseteq TableKinds, Run(ks)
  PROVE  /\ next.k \in ks /\ Operated(next) /\ next' = Idle /\ instance' = instance
         /\ next.on \in DOMAIN instance.tabs
         /\ Tab \in DOMAIN tables /\ TableKept(tables[Tab]) /\ TabAt(next.on) = tables[Tab].at
         /\ tables[Tab].elem \in Seq(0..1) /\ Len(tables[Tab].elem) \in Nat
         /\ Len(tables[Tab].elem) < Modulus - 1
         /\ \A x \in Words(TabAt(next.on)) : TabAddress(x) \in 0..(Modulus - 1) /\ TabAddress(x) \in Nat
  <1>1. next.k \in ks /\ Operated(next) /\ next' = Idle /\ instance' = instance
    BY Runs DEF TableKinds
  <1>2. next.on \in DOMAIN instance.tabs
    BY <1>1 DEF Operated
  <1>3. /\ Tab \in DOMAIN tables /\ TableKept(tables[Tab])
        /\ TabAt(next.on) = tables[Tab].at /\ TabAt(next.on) \in {"I32", "I64"}
    BY <1>2, TableAt DEF Tab
  <1>4. /\ tables[Tab].elem \in Seq(0..1) /\ Len(tables[Tab].elem) \in Nat
        /\ Len(tables[Tab].elem) < Modulus - 1
    BY <1>3, TableFacts
  <1>5. ASSUME NEW x \in Words(TabAt(next.on))
        PROVE  TabAddress(x) \in 0..(Modulus - 1) /\ TabAddress(x) \in Nat
    BY <1>3, AddressFacts DEF TabAddress
  <1>6. QED
    BY <1>1, <1>2, <1>3, <1>4, <1>5

LEMMA SegmentWords ==
  ASSUME NEW x \in Words("I32")
  PROVE  SignExtended(x) \in 0..(Modulus - 1) /\ SignExtended(x) \in Nat
  <1>1. Address("I32", x) = SignExtended(x)
    BY DEF Address
  <1>2. Address("I32", x) \in 0..(Modulus - 1)
    BY AddressFacts
  <1>3. QED
    BY <1>1, <1>2

LEMMA BytesFacts ==
  ASSUME NEW v \in Values, NEW w \in {1, 2}
  PROVE  Bytes(v, w) \in Seq(0..1) /\ Len(Bytes(v, w)) = w
  <1>1. w \in Nat /\ \A i \in 1..w : i = 1 \/ i = 2
    OBVIOUS
  <1>2. 2^(1 - 1) = 1 /\ 2^(2 - 1) = 2
    BY PowersAssumption
  <1>3. (v \div 1) % 2 \in 0..1 /\ (v \div 2) % 2 \in 0..1
    BY DEF Values
  <1>4. Bytes(v, w) = [i \in 1..w |-> (v \div 2^(i - 1)) % 2]
    BY DEF Bytes
  <1>5. \A i \in 1..w : (v \div 2^(i - 1)) % 2 \in 0..1
    BY <1>1, <1>2, <1>3
  <1>6. Bytes(v, w) \in [1..w -> 0..1]
    BY <1>4, <1>5
  <1>7. QED
    BY <1>1, <1>6, FunctionSeq

----------------------------------------------------------------------------
(***************************************************************************)
(* The ops keep the invariant.                                             *)
(***************************************************************************)
LEMMA TrapKeeps ==
  ASSUME StorageKept, Trap, instance' = instance, next' = Idle
  PROVE  StorageKept'
  <1>1. OutKept' /\ Unchanged
    BY TrapOut
  <1>2. ContentsKept' /\ NamesKept'
    BY <1>1, UnchangedKept DEF StorageKept
  <1>3. QED
    BY <1>1, <1>2, Ran

LEMMA AnswerKeeps ==
  ASSUME StorageKept, NEW r, Done(r), Unchanged, instance' = instance, next' = Idle
  PROVE  StorageKept'
  <1>1. OutKept'
    BY DoneOut
  <1>2. ContentsKept' /\ NamesKept'
    BY UnchangedKept DEF StorageKept
  <1>3. QED
    BY <1>1, <1>2, Ran

LEMMA BytesKeep ==
  ASSUME StorageKept, NEW m \in DOMAIN memories, NEW a \in Nat, NEW new \in Seq(0..1),
         SetBytes(m, Overwrite(memories[m].data, a, new)), NEW r, Done(r),
         instance' = instance, next' = Idle
  PROVE  StorageKept'
  <1> DEFINE s == Overwrite(memories[m].data, a, new)
  <1>1. memories[m].data \in Seq(0..1)
    BY MemoryFacts DEF StorageKept, ContentsKept
  <1>2. s \in Seq(0..1) /\ Len(s) = Len(memories[m].data)
    BY <1>1, OverwriteFacts
  <1> HIDE DEF s
  <1>3. SetBytes(m, s)
    BY DEF s
  <1>4. ContentsKept' /\ NamesKept'
    BY <1>2, <1>3, SetBytesKept DEF StorageKept
  <1>5. OutKept'
    BY DoneOut
  <1>6. QED
    BY <1>4, <1>5, Ran

LEMMA ElementsKeep ==
  ASSUME StorageKept, NEW t \in DOMAIN tables, NEW a \in Nat, NEW new \in Seq(0..1),
         SetElements(t, Overwrite(tables[t].elem, a, new)), NEW r, Done(r),
         instance' = instance, next' = Idle
  PROVE  StorageKept'
  <1> DEFINE s == Overwrite(tables[t].elem, a, new)
  <1>1. tables[t].elem \in Seq(0..1)
    BY TableFacts DEF StorageKept, ContentsKept
  <1>2. s \in Seq(0..1) /\ Len(s) = Len(tables[t].elem)
    BY <1>1, OverwriteFacts
  <1> HIDE DEF s
  <1>3. SetElements(t, s)
    BY DEF s
  <1>4. ContentsKept' /\ NamesKept'
    BY <1>2, <1>3, SetElementsKept DEF StorageKept
  <1>5. OutKept'
    BY DoneOut
  <1>6. QED
    BY <1>4, <1>5, Ran

\* An op that only answers.
LEMMA AnswersKeep ==
  ASSUME StorageKept, NEW ks, "idle" \notin ks, Run(ks),
         Trap \/ \E r : Done(r) /\ Unchanged
  PROVE  StorageKept'
  <1>1. next' = Idle /\ instance' = instance
    BY Runs
  <1>2. QED
    BY <1>1, TrapKeeps, AnswerKeeps

LEMMA LoadKeeps == ASSUME StorageKept, Load PROVE StorageKept'
  <1>1. Run({"load"}) /\ (Trap \/ \E r : Done(r) /\ Unchanged)
    BY DEF Load
  <1>2. QED
    BY <1>1, AnswersKeep

LEMMA StoreKeeps == ASSUME StorageKept, Store PROVE StorageKept'
  <1>1. Run({"store"})
    BY DEF Store
  <1>2. /\ Operated(next) /\ next.k = "store" /\ next' = Idle /\ instance' = instance
        /\ Mem \in DOMAIN memories
        /\ Len(memories[Mem].data) \in Nat
    BY <1>1, OnMemory DEF MemoryKinds
  <1>3. next.v \in Values /\ next.width \in {1, 2}
    BY <1>2 DEF Operated
  <1>4. Bytes(next.v, next.width) \in Seq(0..1)
    BY <1>3, BytesFacts
  <1>5. CASE EffectiveAddress # Overflow /\ HasBytes(memories[Mem].data, EffectiveAddress, next.width)
    <2>1. /\ SetBytes(Mem, Overwrite(memories[Mem].data, EffectiveAddress, Bytes(next.v, next.width)))
          /\ Done(<<>>)
      BY <1>5 DEF Store
    <2>2. EffectiveAddress \in Nat
      <3>1. next.d \in Words(At(next.on)) /\ next.offset \in 0..(Modulus - 1)
        BY <1>2, WordFacts DEF Operated
      <3>2. MemAddress(next.d) \in Nat
        BY <1>1, <3>1, OnMemory DEF MemoryKinds
      <3>3. MemAddress(next.d) + next.offset \in Nat
        BY <3>1, <3>2
      <3>4. QED
        BY <1>5, <3>3 DEF EffectiveAddress, CheckedAdd, Overflow
    <2>3. QED
      BY <1>2, <1>4, <2>1, <2>2, BytesKeep
  <1>6. CASE ~(EffectiveAddress # Overflow /\ HasBytes(memories[Mem].data, EffectiveAddress, next.width))
    <2>1. Trap
      BY <1>6 DEF Store
    <2>2. QED
      BY <1>2, <2>1, TrapKeeps
  <1>7. QED
    BY <1>5, <1>6

LEMMA MemorySizeKeeps == ASSUME StorageKept, MemorySize PROVE StorageKept'
  <1>1. Run({"memory.size"}) /\ (Trap \/ \E r : Done(r) /\ Unchanged)
    BY DEF MemorySize
  <1>2. QED
    BY <1>1, AnswersKeep

\* A memory grown to a number of pages.
LEMMA GrownFacts ==
  ASSUME NEW memory, MemoryKept(memory), NEW pages \in Nat, pages <= MaxPages
  PROVE  /\ MemoryKept(Grown(memory, pages))
         /\ Grown(memory, pages).min = pages /\ Grown(memory, pages).max = memory.max
         /\ Grown(memory, pages).data = Resized(memory.data, pages * PageSize, 0)
  <1>1. memory \in MemoryType
    BY DEF MemoryKept
  <1>2. pages * PageSize \in Nat
    BY PageFacts
  <1>3. PICK bytes : bytes = Resized(memory.data, pages * PageSize, 0)
    OBVIOUS
  <1>4. memory.data \in Seq(0..1) /\ 0 \in 0..1
    BY MemoryFacts
  <1>5. bytes \in Seq(0..1) /\ Len(bytes) = pages * PageSize
    BY <1>2, <1>3, <1>4, ResizedFacts
  <1>6. Grown(memory, pages) = [memory EXCEPT !.data = bytes, !.min = pages]
    BY <1>3 DEF Grown
  <1>7. /\ Grown(memory, pages) \in MemoryType /\ Grown(memory, pages).data = bytes
        /\ Grown(memory, pages).min = pages /\ Grown(memory, pages).max = memory.max
    BY <1>1, <1>5, <1>6 DEF MemoryType
  <1>8. pages * PageSize < Modulus
    <2>1. pages * PageSize <= MaxPages * PageSize
      BY PageAssumption, PagesGrow
    <2>2. MaxPages * PageSize < Modulus /\ MaxPages * PageSize \in Nat
      BY PageAssumption, PageFacts DEF Modulus
    <2>3. QED
      BY <1>2, <2>1, <2>2, WordFacts
  <1>9. QED
    BY <1>3, <1>5, <1>7, <1>8 DEF MemoryKept

\* The memory and the pages a grow makes of it.
MemoryGrowsTo(pages) ==
  /\ pages \in Nat /\ pages <= MaxPages /\ pages <= memories[Mem].max
  /\ pages = NewPages(Mem, MemAddress(next.n))
  /\ memories' = [memories EXCEPT ![Mem] = Grown(memories[Mem], pages)]
  /\ Done(<<PagesOf(Mem)>>)
  /\ UNCHANGED <<tables, data_segment, element_segment>>
MemoryStays(pages) ==
  /\ pages = NewPages(Mem, MemAddress(next.n))
  /\ pages > MaxPages \/ pages > memories[Mem].max
  /\ Done(<<-1>>) /\ Unchanged

LEMMA GrowsMemory ==
  ASSUME StorageKept, MemoryGrow
  PROVE  \E pages : MemoryStays(pages) \/ MemoryGrowsTo(pages)
  <1>1. Run({"memory.grow"})
    BY DEF MemoryGrow
  <1>2. /\ Operated(next) /\ next.k = "memory.grow" /\ MemoryKept(memories[Mem])
    BY <1>1, OnMemory DEF MemoryKinds
  <1>3. next.n \in Words(At(next.on))
    BY <1>2 DEF Operated
  <1>4. MemAddress(next.n) \in Nat
    BY <1>1, <1>3, OnMemory DEF MemoryKinds
  <1>5. PagesOf(Mem) \in Nat /\ memories[Mem].max \in Nat /\ MaxPages \in Nat
    BY <1>2, MemoryFacts, PageAssumption DEF PagesOf
  <1>6. PICK pages : pages = NewPages(Mem, MemAddress(next.n))
    OBVIOUS
  <1>7. pages \in Nat
    <2>1. Modulus \in Nat \ {0}
      BY WordFacts
    <2>2. PICK x : x = PagesOf(Mem) + MemAddress(next.n)
      OBVIOUS
    <2>3. x % Modulus \in Nat
      BY <1>4, <1>5, <2>1, <2>2
    <2>4. QED
      BY <1>6, <2>2, <2>3 DEF NewPages, Word, Modulus
  <1>8. CASE pages > MaxPages \/ pages > memories[Mem].max
    <2>1. Done(<<-1>>) /\ Unchanged
      BY <1>6, <1>8 DEF MemoryGrow
    <2>2. QED
      BY <1>6, <1>8, <2>1 DEF MemoryStays
  <1>9. CASE ~(pages > MaxPages \/ pages > memories[Mem].max)
    <2>1. /\ memories' = [memories EXCEPT ![Mem] = Grown(memories[Mem], pages)] /\ Done(<<PagesOf(Mem)>>)
          /\ UNCHANGED <<tables, data_segment, element_segment>>
      BY <1>6, <1>9 DEF MemoryGrow
    <2>2. pages <= MaxPages /\ pages <= memories[Mem].max
      BY <1>5, <1>7, <1>9
    <2>3. QED
      BY <1>6, <1>7, <2>1, <2>2 DEF MemoryGrowsTo
  <1>10. QED
    BY <1>8, <1>9

LEMMA MemoryGrowKeeps == ASSUME StorageKept, MemoryGrow PROVE StorageKept'
  <1>1. /\ next' = Idle /\ instance' = instance /\ Mem \in DOMAIN memories
        /\ MemoryKept(memories[Mem])
    BY OnMemory DEF MemoryGrow, MemoryKinds
  <1>2. ASSUME NEW pages, MemoryStays(pages) PROVE StorageKept'
    BY <1>1, <1>2, AnswerKeeps DEF MemoryStays
  <1>3. ASSUME NEW pages, MemoryGrowsTo(pages) PROVE StorageKept'
    <2> DEFINE new == Grown(memories[Mem], pages)
    <2>1. MemoryKept(new)
      BY <1>1, <1>3, GrownFacts DEF MemoryGrowsTo
    <2> HIDE DEF new
    <2>2. /\ memories' = [memories EXCEPT ![Mem] = new] /\ Done(<<PagesOf(Mem)>>)
          /\ UNCHANGED <<tables, data_segment, element_segment>>
      BY <1>3 DEF new, MemoryGrowsTo
    <2>3. DOMAIN memories' = DOMAIN memories
      BY <2>2
    <2>4. \A m \in DOMAIN memories : memories'[m] = IF m = Mem THEN new ELSE memories[m]
      BY <2>2
    <2>5. \A m \in DOMAIN memories : MemoryKept(memories'[m])
      BY <2>1, <2>4 DEF StorageKept, ContentsKept
    <2>6. ContentsKept' /\ NamesKept'
      BY <1>1, <2>2, <2>3, <2>5 DEF StorageKept, ContentsKept, NamesKept
    <2>7. OutKept'
      BY <2>2, DoneOut
    <2>8. QED
      BY <1>1, <2>6, <2>7, Ran
  <1>4. QED
    BY <1>2, <1>3, GrowsMemory

LEMMA MemoryFillKeeps == ASSUME StorageKept, MemoryFill PROVE StorageKept'
  <1> DEFINE i == MemAddress(next.d)
             n == MemAddress(next.n)
  <1>1. Run({"memory.fill"})
    BY DEF MemoryFill
  <1>2. /\ Operated(next) /\ next.k = "memory.fill" /\ next' = Idle /\ instance' = instance
        /\ Mem \in DOMAIN memories
    BY <1>1, OnMemory DEF MemoryKinds
  <1>3. next.d \in Words(At(next.on)) /\ next.n \in Words(At(next.on)) /\ next.v \in 0..3
    BY <1>2 DEF Operated, Values
  <1>4. i \in Nat /\ n \in Nat
    BY <1>1, <1>3, OnMemory DEF MemoryKinds
  <1>5. next.v % 2 \in 0..1
    BY <1>3
  <1>6. Repeat(next.v % 2, n) \in Seq(0..1)
    BY <1>4, <1>5, RepeatFacts
  <1>7. \/ Trap
        \/ SetBytes(Mem, Overwrite(memories[Mem].data, i, Repeat(next.v % 2, n))) /\ Done(<<>>)
    BY DEF MemoryFill
  <1> HIDE DEF i, n
  <1>8. QED
    BY <1>2, <1>4, <1>6, <1>7, TrapKeeps, BytesKeep

LEMMA MemoryCopyKeeps == ASSUME StorageKept, MemoryCopy PROVE StorageKept'
  <1> DEFINE from == memories[instance.mems[next.from]].data
             n == MemAddress(next.n)
             s == MemAddress(next.s)
             d == MemAddress(next.d)
  <1>1. Run({"memory.copy"})
    BY DEF MemoryCopy
  <1>2. /\ Operated(next) /\ next.k = "memory.copy" /\ next' = Idle /\ instance' = instance
        /\ Mem \in DOMAIN memories
    BY <1>1, OnMemory DEF MemoryKinds
  <1>3. /\ next.d \in Words(At(next.on)) /\ next.n \in Words(At(next.on))
        /\ next.s \in Words(At(next.on)) /\ next.from \in DOMAIN instance.mems
    BY <1>2 DEF Operated
  <1>4. d \in Nat /\ n \in 0..(Modulus - 1) /\ s \in 0..(Modulus - 1)
    BY <1>1, <1>3, OnMemory DEF MemoryKinds
  <1>5. from \in Seq(0..1) /\ Len(from) \in Nat
    BY <1>3, MemoryAt, MemoryFacts
  <1>6. CASE HasBytes(from, s, n) /\ HasBytes(memories[Mem].data, d, n)
    <2>1. SetBytes(Mem, Overwrite(memories[Mem].data, d, Slice(from, s, n))) /\ Done(<<>>)
      BY <1>6 DEF MemoryCopy
    <2> HIDE DEF from, n, s, d
    <2>2. s + n <= Len(from)
      BY <1>4, <1>5, <1>6, RangeFacts
    <2>3. Slice(from, s, n) \in Seq(0..1)
      <3>1. s \in Nat /\ n \in Nat
        BY <1>4
      <3>2. QED
        BY <1>5, <2>2, <3>1, SliceFacts
    <2>4. QED
      BY <1>2, <1>4, <2>1, <2>3, BytesKeep
  <1>7. CASE ~(HasBytes(from, s, n) /\ HasBytes(memories[Mem].data, d, n))
    <2>1. Trap
      BY <1>7 DEF MemoryCopy
    <2>2. QED
      BY <1>2, <2>1, TrapKeeps
  <1>8. QED
    BY <1>6, <1>7

LEMMA SegmentSlice ==
  ASSUME NEW seg, SegmentKept(seg), NEW s \in 0..(Modulus - 1), NEW n \in 0..(Modulus - 1),
         HasElements(seg, s, n)
  PROVE  Slice(seg, s, n) \in Seq(0..1)
  <1>1. seg \in Seq(0..1) /\ Len(seg) \in Nat /\ Len(seg) < Modulus - 1
    BY LenProperties DEF SegmentKept
  <1>2. s + n <= Len(seg)
    BY <1>1, RangeFacts
  <1>3. s \in Nat /\ n \in Nat
    OBVIOUS
  <1>4. QED
    BY <1>1, <1>2, <1>3, SliceFacts

LEMMA MemoryInitKeeps == ASSUME StorageKept, MemoryInit PROVE StorageKept'
  <1> DEFINE n == SignExtended(next.n)
             s == SignExtended(next.s)
             d == MemAddress(next.d)
  <1>1. Run({"memory.init"})
    BY DEF MemoryInit
  <1>2. /\ Operated(next) /\ next.k = "memory.init" /\ next' = Idle /\ instance' = instance
        /\ Mem \in DOMAIN memories
    BY <1>1, OnMemory DEF MemoryKinds
  <1>3. next.d \in Words(At(next.on)) /\ next.n \in Words("I32") /\ next.s \in Words("I32")
    BY <1>2 DEF Operated
  <1>4. d \in Nat
    BY <1>1, <1>3, OnMemory DEF MemoryKinds
  <1>5. n \in 0..(Modulus - 1) /\ s \in 0..(Modulus - 1)
    BY <1>3, SegmentWords
  <1>6. CASE HasElements(data_segment, s, n) /\ HasBytes(memories[Mem].data, d, n)
    <2>1. SetBytes(Mem, Overwrite(memories[Mem].data, d, Slice(data_segment, s, n))) /\ Done(<<>>)
      BY <1>6 DEF MemoryInit
    <2> HIDE DEF n, s, d
    <2>2. Slice(data_segment, s, n) \in Seq(0..1)
      BY <1>5, <1>6, SegmentSlice DEF StorageKept, ContentsKept
    <2>3. QED
      BY <1>2, <1>4, <2>1, <2>2, BytesKeep
  <1>7. CASE ~(HasElements(data_segment, s, n) /\ HasBytes(memories[Mem].data, d, n))
    <2>1. Trap
      BY <1>7 DEF MemoryInit
    <2>2. QED
      BY <1>2, <2>1, TrapKeeps
  <1>8. QED
    BY <1>6, <1>7

LEMMA EmptyKept == SegmentKept(<<>>)
  <1>1. <<>> \in Seq(0..1) /\ Len(<<>>) = 0
    BY EmptySeq
  <1>2. QED
    BY <1>1, WordFacts DEF SegmentKept

LEMMA DropsKeep == ASSUME StorageKept, DataDrop \/ ElemDrop PROVE StorageKept'
  <1>1. next' = Idle /\ instance' = instance
    BY Runs DEF DataDrop, ElemDrop, Run
  <1>2. ContentsKept'
    BY EmptyKept DEF StorageKept, ContentsKept, DataDrop, ElemDrop
  <1>3. NamesKept'
    BY <1>1 DEF StorageKept, NamesKept, DataDrop, ElemDrop
  <1>4. OutKept'
    BY DoneOut DEF DataDrop, ElemDrop
  <1>5. QED
    BY <1>1, <1>2, <1>3, <1>4, Ran

LEMMA TableGetKeeps == ASSUME StorageKept, TableGet PROVE StorageKept'
  <1>1. Run({"table.get"}) /\ (Trap \/ \E r : Done(r) /\ Unchanged)
    BY DEF TableGet
  <1>2. QED
    BY <1>1, AnswersKeep

LEMMA TableSizeKeeps == ASSUME StorageKept, TableSize PROVE StorageKept'
  <1>1. Run({"table.size"}) /\ (Trap \/ \E r : Done(r) /\ Unchanged)
    BY DEF TableSize
  <1>2. QED
    BY <1>1, AnswersKeep

LEMMA OneReference == ASSUME NEW v \in Refs PROVE <<v>> \in Seq(0..1) /\ Len(<<v>>) = 1
  BY DEF Refs

LEMMA TableSetKeeps == ASSUME StorageKept, TableSet PROVE StorageKept'
  <1> DEFINE i == TabAddress(next.d)
  <1>1. Run({"table.set"})
    BY DEF TableSet
  <1>2. /\ Operated(next) /\ next.k = "table.set" /\ next' = Idle /\ instance' = instance
        /\ Tab \in DOMAIN tables
    BY <1>1, OnTable DEF TableKinds
  <1>3. next.d \in Words(TabAt(next.on)) /\ next.v \in Refs
    BY <1>2 DEF Operated
  <1>4. i \in Nat
    BY <1>1, <1>3, OnTable DEF TableKinds
  <1>5. <<next.v>> \in Seq(0..1)
    BY <1>3, OneReference
  <1>6. Trap \/ (SetElements(Tab, Overwrite(tables[Tab].elem, i, <<next.v>>)) /\ Done(<<>>))
    BY DEF TableSet
  <1> HIDE DEF i
  <1>7. QED
    BY <1>2, <1>4, <1>5, <1>6, TrapKeeps, ElementsKeep

LEMMA TableFillKeeps == ASSUME StorageKept, TableFill PROVE StorageKept'
  <1> DEFINE i == TabAddress(next.d)
             n == TabAddress(next.n)
  <1>1. Run({"table.fill"})
    BY DEF TableFill
  <1>2. /\ Operated(next) /\ next.k = "table.fill" /\ next' = Idle /\ instance' = instance
        /\ Tab \in DOMAIN tables
    BY <1>1, OnTable DEF TableKinds
  <1>3. /\ next.d \in Words(TabAt(next.on)) /\ next.n \in Words(TabAt(next.on))
        /\ next.v \in 0..1
    BY <1>2 DEF Operated, Refs
  <1>4. i \in Nat /\ n \in Nat
    BY <1>1, <1>3, OnTable DEF TableKinds
  <1>5. Repeat(next.v, n) \in Seq(0..1)
    BY <1>3, <1>4, RepeatFacts
  <1>6. Trap \/ (SetElements(Tab, Overwrite(tables[Tab].elem, i, Repeat(next.v, n))) /\ Done(<<>>))
    BY DEF TableFill
  <1> HIDE DEF i, n
  <1>7. QED
    BY <1>2, <1>4, <1>5, <1>6, TrapKeeps, ElementsKeep

\* A table of a larger size.
Larger(t, size, v) == [t EXCEPT !.elem = Resized(@, size, v), !.min = size]

LEMMA LargerTable ==
  ASSUME NEW t, TableKept(t), NEW size \in Nat, size <= Allocatable, NEW v \in 0..1
  PROVE  /\ TableKept(Larger(t, size, v)) /\ Larger(t, size, v).elem = Resized(t.elem, size, v)
         /\ Larger(t, size, v).min = size /\ Larger(t, size, v).max = t.max
         /\ Larger(t, size, v).at = t.at
  <1>1. t \in TableType /\ t.elem \in Seq(0..1)
    BY TableFacts DEF TableKept
  <1>2. PICK elem : elem = Resized(t.elem, size, v)
    OBVIOUS
  <1>3. elem \in Seq(0..1) /\ Len(elem) = size
    BY <1>1, <1>2, ResizedFacts
  <1>4. Larger(t, size, v) = [t EXCEPT !.elem = elem, !.min = size]
    BY <1>2 DEF Larger
  <1>5. PICK new : new = Larger(t, size, v)
    OBVIOUS
  <1>6. new \in TableType /\ new.elem = elem /\ new.min = size /\ new.max = t.max /\ new.at = t.at
    BY <1>1, <1>3, <1>4, <1>5 DEF TableType
  <1>7. TableKept(new)
    BY <1>3, <1>6 DEF TableKept
  <1>8. QED
    BY <1>2, <1>5, <1>6, <1>7

\* The table and the size a grow makes of it.
TableGrowsTo(size) ==
  /\ size \in Nat /\ size <= Allocatable /\ size <= tables[Tab].max
  /\ size = Len(tables[Tab].elem) + TabAddress(next.n)
  /\ tables' = [tables EXCEPT ![Tab] = Larger(tables[Tab], size, next.v)]
  /\ Done(<<Len(tables[Tab].elem)>>)
  /\ UNCHANGED <<memories, data_segment, element_segment>>
TableStays(size) ==
  /\ size = CheckedAdd(Len(tables[Tab].elem), TabAddress(next.n))
  /\ size = Overflow \/ size > tables[Tab].max
  /\ Done(<<-1>>) /\ Unchanged

LEMMA GrowsTable ==
  ASSUME StorageKept, TableGrow
  PROVE  \E size : TableStays(size) \/ TableGrowsTo(size)
  <1>1. Run({"table.grow"})
    BY DEF TableGrow
  <1>2. /\ Operated(next) /\ next.k = "table.grow" /\ TableKept(tables[Tab])
        /\ Len(tables[Tab].elem) \in Nat /\ TabAt(next.on) = tables[Tab].at
    BY <1>1, OnTable DEF TableKinds
  <1>3. next.n \in Words(TabAt(next.on)) /\ CanAllocate(next.on, next.n)
    BY <1>2 DEF Operated
  <1>4. TabAddress(next.n) \in Nat
    BY <1>1, <1>3, OnTable DEF TableKinds
  <1>5. PICK size : size = CheckedAdd(Len(tables[Tab].elem), TabAddress(next.n))
    OBVIOUS
  <1>6. size <= Allocatable \/ size > tables[Tab].max
    BY <1>2, <1>3, <1>5 DEF CanAllocate, TabAddress, Tab
  <1>7. CASE size = Overflow \/ size > tables[Tab].max
    <2>1. Done(<<-1>>) /\ Unchanged
      BY <1>5, <1>7 DEF TableGrow
    <2>2. QED
      BY <1>5, <1>7, <2>1 DEF TableStays
  <1>8. CASE ~(size = Overflow \/ size > tables[Tab].max)
    <2>1. /\ tables' = [tables EXCEPT ![Tab].elem = Resized(@, size, next.v), ![Tab].min = size]
          /\ Done(<<Len(tables[Tab].elem)>>)
          /\ UNCHANGED <<memories, data_segment, element_segment>>
      BY <1>5, <1>8 DEF TableGrow
    <2>2. tables' = [tables EXCEPT ![Tab] = Larger(tables[Tab], size, next.v)]
      BY <2>1 DEF Larger
    <2>3. size \in Nat /\ size = Len(tables[Tab].elem) + TabAddress(next.n)
      <3>1. PICK L, n : L = Len(tables[Tab].elem) /\ n = TabAddress(next.n)
        OBVIOUS
      <3>2. CheckedAdd(L, n) = IF L + n < Modulus THEN L + n ELSE -1
        BY SumFacts
      <3>3. L + n \in Nat
        BY <1>2, <1>4, <3>1
      <3>4. CheckedAdd(L, n) # -1
        BY <1>5, <1>8, <3>1 DEF Overflow
      <3>5. QED
        BY <1>5, <3>1, <3>2, <3>3, <3>4
    <2>4. tables[Tab].max \in Nat
      BY <1>2, TableFacts
    <2>5. size <= Allocatable /\ size <= tables[Tab].max
      BY <1>6, <1>8, <2>3, <2>4
    <2>6. QED
      BY <2>1, <2>2, <2>3, <2>5 DEF TableGrowsTo
  <1>9. QED
    BY <1>7, <1>8

LEMMA TableGrowKeeps == ASSUME StorageKept, TableGrow PROVE StorageKept'
  <1>1. /\ next' = Idle /\ instance' = instance /\ Tab \in DOMAIN tables
        /\ TableKept(tables[Tab]) /\ Operated(next) /\ next.k = "table.grow"
    BY OnTable DEF TableGrow, TableKinds
  <1>2. next.v \in 0..1
    BY <1>1 DEF Operated, Refs
  <1>3. ASSUME NEW size, TableStays(size) PROVE StorageKept'
    BY <1>1, <1>3, AnswerKeeps DEF TableStays
  <1>4. ASSUME NEW size, TableGrowsTo(size) PROVE StorageKept'
    <2> DEFINE new == Larger(tables[Tab], size, next.v)
    <2>1. TableKept(new)
      BY <1>1, <1>2, <1>4, LargerTable DEF TableGrowsTo
    <2>2. /\ tables' = [tables EXCEPT ![Tab] = new] /\ Done(<<Len(tables[Tab].elem)>>)
          /\ UNCHANGED <<memories, data_segment, element_segment>>
      BY <1>4 DEF TableGrowsTo
    <2> HIDE DEF new
    <2>3. DOMAIN tables' = DOMAIN tables
      BY <2>2
    <2>4. \A t \in DOMAIN tables : tables'[t] = IF t = Tab THEN new ELSE tables[t]
      BY <2>2
    <2>5. \A t \in DOMAIN tables : TableKept(tables'[t])
      BY <2>1, <2>4 DEF StorageKept, ContentsKept
    <2>6. ContentsKept' /\ NamesKept'
      BY <1>1, <2>2, <2>3, <2>5 DEF StorageKept, ContentsKept, NamesKept
    <2>7. OutKept'
      BY <2>2, DoneOut
    <2>8. QED
      BY <1>1, <2>6, <2>7, Ran
  <1>5. QED
    BY <1>3, <1>4, GrowsTable

LEMMA TableCopyKeeps == ASSUME StorageKept, TableCopy PROVE StorageKept'
  <1> DEFINE from == tables[instance.tabs[next.from]]
             n == Address(IF tables[Tab].at = "I64" /\ from.at = "I64" THEN "I64" ELSE "I32", next.n)
             s == Address(from.at, next.s)
             d == TabAddress(next.d)
  <1>1. Run({"table.copy"})
    BY DEF TableCopy
  <1>2. /\ Operated(next) /\ next.k = "table.copy" /\ next' = Idle /\ instance' = instance
        /\ Tab \in DOMAIN tables /\ TabAt(next.on) = tables[Tab].at
    BY <1>1, OnTable DEF TableKinds
  <1>3. /\ next.d \in Words(TabAt(next.on)) /\ next.from \in DOMAIN instance.tabs
        /\ next.s \in Words(TabAt(next.from)) /\ next.n \in Words(CountAt(next.on, next.from))
    BY <1>2 DEF Operated
  <1>4. TableKept(from) /\ TabAt(next.from) = from.at /\ from.at \in {"I32", "I64"}
    BY <1>3, TableAt
  <1>5. from.elem \in Seq(0..1) /\ Len(from.elem) \in Nat /\ Len(from.elem) < Modulus - 1
    BY <1>4, TableFacts
  <1>6. CountAt(next.on, next.from) = IF tables[Tab].at = "I64" /\ from.at = "I64" THEN "I64" ELSE "I32"
    BY <1>2, <1>4 DEF CountAt
  <1>7. d \in Nat
    BY <1>1, <1>3, OnTable DEF TableKinds
  <1>8. s \in 0..(Modulus - 1)
    BY <1>3, <1>4, AddressFacts
  <1>9. n \in 0..(Modulus - 1)
    <2>1. CountAt(next.on, next.from) \in {"I32", "I64"}
      BY <1>6
    <2>2. Address(CountAt(next.on, next.from), next.n) \in 0..(Modulus - 1)
      BY <1>3, <2>1, AddressFacts
    <2>3. QED
      BY <1>6, <2>2
  <1>10. CASE HasElements(from.elem, s, n) /\ HasElements(tables[Tab].elem, d, n)
    <2>1. SetElements(Tab, Overwrite(tables[Tab].elem, d, Slice(from.elem, s, n))) /\ Done(<<>>)
      BY <1>10 DEF TableCopy
    <2> HIDE DEF from, n, s, d
    <2>2. SegmentKept(from.elem)
      BY <1>5 DEF SegmentKept
    <2>3. Slice(from.elem, s, n) \in Seq(0..1)
      BY <1>8, <1>9, <1>10, <2>2, SegmentSlice
    <2>4. QED
      BY <1>2, <1>7, <2>1, <2>3, ElementsKeep
  <1>11. CASE ~(HasElements(from.elem, s, n) /\ HasElements(tables[Tab].elem, d, n))
    <2>1. Trap
      BY <1>11 DEF TableCopy
    <2>2. QED
      BY <1>2, <2>1, TrapKeeps
  <1>12. QED
    BY <1>10, <1>11

LEMMA TableInitKeeps == ASSUME StorageKept, TableInit PROVE StorageKept'
  <1> DEFINE n == SignExtended(next.n)
             s == SignExtended(next.s)
             d == TabAddress(next.d)
  <1>1. Run({"table.init"})
    BY DEF TableInit
  <1>2. /\ Operated(next) /\ next.k = "table.init" /\ next' = Idle /\ instance' = instance
        /\ Tab \in DOMAIN tables
    BY <1>1, OnTable DEF TableKinds
  <1>3. next.d \in Words(TabAt(next.on)) /\ next.n \in Words("I32") /\ next.s \in Words("I32")
    BY <1>2 DEF Operated
  <1>4. d \in Nat
    BY <1>1, <1>3, OnTable DEF TableKinds
  <1>5. n \in 0..(Modulus - 1) /\ s \in 0..(Modulus - 1)
    BY <1>3, SegmentWords
  <1>6. CASE HasElements(element_segment, s, n) /\ HasElements(tables[Tab].elem, d, n)
    <2>1. SetElements(Tab, Overwrite(tables[Tab].elem, d, Slice(element_segment, s, n))) /\ Done(<<>>)
      BY <1>6 DEF TableInit
    <2> HIDE DEF n, s, d
    <2>2. Slice(element_segment, s, n) \in Seq(0..1)
      BY <1>5, <1>6, SegmentSlice DEF StorageKept, ContentsKept
    <2>3. QED
      BY <1>2, <1>4, <2>1, <2>2, ElementsKeep
  <1>7. CASE ~(HasElements(element_segment, s, n) /\ HasElements(tables[Tab].elem, d, n))
    <2>1. Trap
      BY <1>7 DEF TableInit
    <2>2. QED
      BY <1>2, <2>1, TrapKeeps
  <1>8. QED
    BY <1>6, <1>7

----------------------------------------------------------------------------
(***************************************************************************)
(* An op is fetched with the operands validation gives it.                 *)
(***************************************************************************)
\* An op is fetched that operates on what there is.
Fetched == \E op : Fetch(op) /\ Operated(op)

LEMMA TriedWords ==
  ASSUME NEW at \in {"I32", "I64"}, NEW x \in Operands[at]
  PROVE  x \in Words(at)
  BY OperandsAssumption

LEMMA FetchesAccess == ASSUME StorageKept, FetchAccess PROVE Fetched
  <1>1. PICK on \in DOMAIN instance.mems, offset \in Offsets, width \in {1, 2} :
          \E d \in Operands[At(on)] :
            \/ \E signed \in BOOLEAN :
                 Fetch([k |-> "load", on |-> on, d |-> d, offset |-> offset, width |-> width,
                        signed |-> signed])
            \/ \E v \in Values :
                 Fetch([k |-> "store", on |-> on, d |-> d, offset |-> offset, width |-> width, v |-> v])
    BY DEF FetchAccess
  <1>2. At(on) \in {"I32", "I64"} /\ offset \in Words("I64")
    BY MemoryAt, OperandsAssumption
  <1>3. PICK d \in Words(At(on)) :
            \/ \E signed \in BOOLEAN :
                 Fetch([k |-> "load", on |-> on, d |-> d, offset |-> offset, width |-> width,
                        signed |-> signed])
            \/ \E v \in Values :
                 Fetch([k |-> "store", on |-> on, d |-> d, offset |-> offset, width |-> width, v |-> v])
    BY <1>1, <1>2, TriedWords
  <1>4. ASSUME NEW signed,
               Fetch([k |-> "load", on |-> on, d |-> d, offset |-> offset, width |-> width,
                      signed |-> signed])
        PROVE  Fetched
    <2> DEFINE op == [k |-> "load", on |-> on, d |-> d, offset |-> offset, width |-> width,
                      signed |-> signed]
    <2>1. op.k = "load" /\ op.on = on /\ op.d = d /\ op.offset = offset /\ op.width = width
      OBVIOUS
    <2>2. Fetch(op)
      BY <1>4
    <2> HIDE DEF op
    <2>3. Operated(op)
      BY <1>2, <2>1 DEF Operated, MemoryKinds, TableKinds
    <2>4. QED
      BY <2>2, <2>3 DEF Fetched
  <1>5. ASSUME NEW v \in Values,
               Fetch([k |-> "store", on |-> on, d |-> d, offset |-> offset, width |-> width, v |-> v])
        PROVE  Fetched
    <2> DEFINE op == [k |-> "store", on |-> on, d |-> d, offset |-> offset, width |-> width, v |-> v]
    <2>1. /\ op.k = "store" /\ op.on = on /\ op.d = d /\ op.offset = offset /\ op.width = width
          /\ op.v = v
      OBVIOUS
    <2>2. Fetch(op)
      BY <1>5
    <2> HIDE DEF op
    <2>3. Operated(op)
      BY <1>2, <2>1 DEF Operated, MemoryKinds, TableKinds
    <2>4. QED
      BY <2>2, <2>3 DEF Fetched
  <1>6. QED
    BY <1>3, <1>4, <1>5

LEMMA FetchesMemoryGrow == ASSUME StorageKept, FetchMemoryGrow PROVE Fetched
  <1>1. PICK on \in DOMAIN instance.mems : \E n \in Operands[At(on)] :
          /\ AnyGrowth \/ GrowsUpward(on, n)
          /\ Fetch([k |-> "memory.grow", on |-> on, n |-> n])
    BY DEF FetchMemoryGrow
  <1>2. At(on) \in {"I32", "I64"}
    BY MemoryAt
  <1>3. PICK n \in Words(At(on)) :
          /\ AnyGrowth \/ GrowsUpward(on, n)
          /\ Fetch([k |-> "memory.grow", on |-> on, n |-> n])
    BY <1>1, <1>2, TriedWords
  <1> DEFINE op == [k |-> "memory.grow", on |-> on, n |-> n]
  <1>4. op.k = "memory.grow" /\ op.on = on /\ op.n = n
    OBVIOUS
  <1>5. Fetch(op)
    BY <1>3
  <1> HIDE DEF op
  <1>6. Operated(op)
    BY <1>3, <1>4 DEF Operated, MemoryKinds, TableKinds
  <1>7. QED
    BY <1>5, <1>6 DEF Fetched

LEMMA FetchesMemory == ASSUME StorageKept, FetchMemory PROVE Fetched
  <1>1. PICK on \in DOMAIN instance.mems :
          \/ Fetch([k |-> "memory.size", on |-> on])
          \/ \E d \in Operands[At(on)], n \in Operands[At(on)] :
               \/ \E v \in Values :
                    Fetch([k |-> "memory.fill", on |-> on, d |-> d, v |-> v, n |-> n])
               \/ \E from \in DOMAIN instance.mems, s \in Operands[At(on)] :
                    /\ At(from) = At(on)
                    /\ Fetch([k |-> "memory.copy", on |-> on, from |-> from, d |-> d, s |-> s,
                              n |-> n])
          \/ \E d \in Operands[At(on)], s \in Operands["I32"], n \in Operands["I32"] :
               Fetch([k |-> "memory.init", on |-> on, d |-> d, s |-> s, n |-> n])
          \/ Fetch([k |-> "data.drop", on |-> on])
    BY DEF FetchMemory
  <1>2. At(on) \in {"I32", "I64"} /\ "I32" \in {"I32", "I64"}
    BY MemoryAt
  <1>3. \A x \in Operands[At(on)] : x \in Words(At(on))
    BY <1>2, TriedWords
  <1>4. \A x \in Operands["I32"] : x \in Words("I32")
    BY <1>2, TriedWords
  <1>5. ASSUME NEW k \in {"memory.size", "data.drop"}, Fetch([k |-> k, on |-> on]) PROVE Fetched
    <2> DEFINE op == [k |-> k, on |-> on]
    <2>1. op.k = k /\ op.on = on
      OBVIOUS
    <2>2. Fetch(op)
      BY <1>5
    <2> HIDE DEF op
    <2>3. Operated(op)
      BY <2>1 DEF Operated, MemoryKinds, TableKinds
    <2>4. QED
      BY <2>2, <2>3 DEF Fetched
  <1>6. ASSUME NEW d \in Operands[At(on)], NEW n \in Operands[At(on)], NEW v \in Values,
               Fetch([k |-> "memory.fill", on |-> on, d |-> d, v |-> v, n |-> n])
        PROVE  Fetched
    <2> DEFINE op == [k |-> "memory.fill", on |-> on, d |-> d, v |-> v, n |-> n]
    <2>1. op.k = "memory.fill" /\ op.on = on /\ op.d = d /\ op.v = v /\ op.n = n
      OBVIOUS
    <2>2. Fetch(op)
      BY <1>6
    <2> HIDE DEF op
    <2>3. Operated(op)
      BY <1>3, <2>1 DEF Operated, MemoryKinds, TableKinds
    <2>4. QED
      BY <2>2, <2>3 DEF Fetched
  <1>7. ASSUME NEW d \in Operands[At(on)], NEW n \in Operands[At(on)],
               NEW from \in DOMAIN instance.mems, NEW s \in Operands[At(on)], At(from) = At(on),
               Fetch([k |-> "memory.copy", on |-> on, from |-> from, d |-> d, s |-> s, n |-> n])
        PROVE  Fetched
    <2> DEFINE op == [k |-> "memory.copy", on |-> on, from |-> from, d |-> d, s |-> s, n |-> n]
    <2>1. op.k = "memory.copy" /\ op.on = on /\ op.from = from /\ op.d = d /\ op.s = s /\ op.n = n
      OBVIOUS
    <2>2. Fetch(op)
      BY <1>7
    <2> HIDE DEF op
    <2>3. Operated(op)
      BY <1>3, <1>7, <2>1 DEF Operated, MemoryKinds, TableKinds
    <2>4. QED
      BY <2>2, <2>3 DEF Fetched
  <1>8. ASSUME NEW d \in Operands[At(on)], NEW s \in Operands["I32"], NEW n \in Operands["I32"],
               Fetch([k |-> "memory.init", on |-> on, d |-> d, s |-> s, n |-> n])
        PROVE  Fetched
    <2> DEFINE op == [k |-> "memory.init", on |-> on, d |-> d, s |-> s, n |-> n]
    <2>1. op.k = "memory.init" /\ op.on = on /\ op.d = d /\ op.s = s /\ op.n = n
      OBVIOUS
    <2>2. Fetch(op)
      BY <1>8
    <2> HIDE DEF op
    <2>3. Operated(op)
      BY <1>3, <1>4, <2>1 DEF Operated, MemoryKinds, TableKinds
    <2>4. QED
      BY <2>2, <2>3 DEF Fetched
  <1>9. QED
    BY <1>1, <1>5, <1>6, <1>7, <1>8

LEMMA FetchesTableGrow == ASSUME StorageKept, FetchTableGrow PROVE Fetched
  <1>1. PICK on \in DOMAIN instance.tabs : \E n \in Operands[TabAt(on)], v \in Refs :
          CanAllocate(on, n) /\ Fetch([k |-> "table.grow", on |-> on, n |-> n, v |-> v])
    BY DEF FetchTableGrow
  <1>2. TabAt(on) \in {"I32", "I64"}
    BY TableAt
  <1>3. PICK n \in Words(TabAt(on)), v \in Refs :
          CanAllocate(on, n) /\ Fetch([k |-> "table.grow", on |-> on, n |-> n, v |-> v])
    BY <1>1, <1>2, TriedWords
  <1> DEFINE op == [k |-> "table.grow", on |-> on, n |-> n, v |-> v]
  <1>4. op.k = "table.grow" /\ op.on = on /\ op.n = n /\ op.v = v
    OBVIOUS
  <1>5. Fetch(op)
    BY <1>3
  <1> HIDE DEF op
  <1>6. Operated(op)
    BY <1>3, <1>4 DEF Operated, MemoryKinds, TableKinds
  <1>7. QED
    BY <1>5, <1>6 DEF Fetched

LEMMA FetchesTable == ASSUME StorageKept, FetchTable PROVE Fetched
  <1>1. PICK on \in DOMAIN instance.tabs :
          \/ Fetch([k |-> "table.size", on |-> on])
          \/ \E d \in Operands[TabAt(on)] :
               \/ Fetch([k |-> "table.get", on |-> on, d |-> d])
               \/ \E v \in Refs : Fetch([k |-> "table.set", on |-> on, d |-> d, v |-> v])
               \/ \E v \in Refs, n \in Operands[TabAt(on)] :
                    Fetch([k |-> "table.fill", on |-> on, d |-> d, v |-> v, n |-> n])
               \/ \E from \in DOMAIN instance.tabs :
                    \E s \in Operands[TabAt(from)], n \in Operands[CountAt(on, from)] :
                      Fetch([k |-> "table.copy", on |-> on, from |-> from, d |-> d, s |-> s,
                             n |-> n])
               \/ \E s \in Operands["I32"], n \in Operands["I32"] :
                    Fetch([k |-> "table.init", on |-> on, d |-> d, s |-> s, n |-> n])
          \/ Fetch([k |-> "elem.drop", on |-> on])
    BY DEF FetchTable
  <1>2. TabAt(on) \in {"I32", "I64"} /\ "I32" \in {"I32", "I64"}
    BY TableAt
  <1>3. \A x \in Operands[TabAt(on)] : x \in Words(TabAt(on))
    BY <1>2, TriedWords
  <1>4. \A x \in Operands["I32"] : x \in Words("I32")
    BY <1>2, TriedWords
  <1>5. ASSUME NEW k \in {"table.size", "elem.drop"}, Fetch([k |-> k, on |-> on]) PROVE Fetched
    <2> DEFINE op == [k |-> k, on |-> on]
    <2>1. op.k = k /\ op.on = on
      OBVIOUS
    <2>2. Fetch(op)
      BY <1>5
    <2> HIDE DEF op
    <2>3. Operated(op)
      BY <2>1 DEF Operated, MemoryKinds, TableKinds
    <2>4. QED
      BY <2>2, <2>3 DEF Fetched
  <1>6. ASSUME NEW d \in Operands[TabAt(on)], Fetch([k |-> "table.get", on |-> on, d |-> d])
        PROVE  Fetched
    <2> DEFINE op == [k |-> "table.get", on |-> on, d |-> d]
    <2>1. op.k = "table.get" /\ op.on = on /\ op.d = d
      OBVIOUS
    <2>2. Fetch(op)
      BY <1>6
    <2> HIDE DEF op
    <2>3. Operated(op)
      BY <1>3, <2>1 DEF Operated, MemoryKinds, TableKinds
    <2>4. QED
      BY <2>2, <2>3 DEF Fetched
  <1>7. ASSUME NEW d \in Operands[TabAt(on)], NEW v \in Refs,
               Fetch([k |-> "table.set", on |-> on, d |-> d, v |-> v])
        PROVE  Fetched
    <2> DEFINE op == [k |-> "table.set", on |-> on, d |-> d, v |-> v]
    <2>1. op.k = "table.set" /\ op.on = on /\ op.d = d /\ op.v = v
      OBVIOUS
    <2>2. Fetch(op)
      BY <1>7
    <2> HIDE DEF op
    <2>3. Operated(op)
      BY <1>3, <2>1 DEF Operated, MemoryKinds, TableKinds
    <2>4. QED
      BY <2>2, <2>3 DEF Fetched
  <1>8. ASSUME NEW d \in Operands[TabAt(on)], NEW v \in Refs, NEW n \in Operands[TabAt(on)],
               Fetch([k |-> "table.fill", on |-> on, d |-> d, v |-> v, n |-> n])
        PROVE  Fetched
    <2> DEFINE op == [k |-> "table.fill", on |-> on, d |-> d, v |-> v, n |-> n]
    <2>1. op.k = "table.fill" /\ op.on = on /\ op.d = d /\ op.v = v /\ op.n = n
      OBVIOUS
    <2>2. Fetch(op)
      BY <1>8
    <2> HIDE DEF op
    <2>3. Operated(op)
      BY <1>3, <2>1 DEF Operated, MemoryKinds, TableKinds
    <2>4. QED
      BY <2>2, <2>3 DEF Fetched
  <1>9. ASSUME NEW d \in Operands[TabAt(on)], NEW from \in DOMAIN instance.tabs,
               NEW s \in Operands[TabAt(from)], NEW n \in Operands[CountAt(on, from)],
               Fetch([k |-> "table.copy", on |-> on, from |-> from, d |-> d, s |-> s, n |-> n])
        PROVE  Fetched
    <2> DEFINE op == [k |-> "table.copy", on |-> on, from |-> from, d |-> d, s |-> s, n |-> n]
    <2>1. op.k = "table.copy" /\ op.on = on /\ op.from = from /\ op.d = d /\ op.s = s /\ op.n = n
      OBVIOUS
    <2>2. Fetch(op)
      BY <1>9
    <2> HIDE DEF op
    <2>3. s \in Words(TabAt(from))
      BY TableAt, TriedWords
    <2>4. CountAt(on, from) \in {"I32", "I64"}
      BY DEF CountAt
    <2>5. n \in Words(CountAt(on, from))
      BY <2>4, TriedWords
    <2>6. Operated(op)
      BY <1>3, <2>1, <2>3, <2>5 DEF Operated, MemoryKinds, TableKinds
    <2>7. QED
      BY <2>2, <2>6 DEF Fetched
  <1>10. ASSUME NEW d \in Operands[TabAt(on)], NEW s \in Operands["I32"], NEW n \in Operands["I32"],
                Fetch([k |-> "table.init", on |-> on, d |-> d, s |-> s, n |-> n])
         PROVE  Fetched
    <2> DEFINE op == [k |-> "table.init", on |-> on, d |-> d, s |-> s, n |-> n]
    <2>1. op.k = "table.init" /\ op.on = on /\ op.d = d /\ op.s = s /\ op.n = n
      OBVIOUS
    <2>2. Fetch(op)
      BY <1>10
    <2> HIDE DEF op
    <2>3. Operated(op)
      BY <1>3, <1>4, <2>1 DEF Operated, MemoryKinds, TableKinds
    <2>4. QED
      BY <2>2, <2>3 DEF Fetched
  <1>11. QED
    BY <1>1, <1>5, <1>6, <1>7, <1>8, <1>9, <1>10

LEMMA FetchesKeep == ASSUME StorageKept, Fetches PROVE StorageKept'
  <1>1. Fetched
    BY FetchesAccess, FetchesMemoryGrow, FetchesMemory, FetchesTableGrow, FetchesTable DEF Fetches
  <1>2. PICK op : Fetch(op) /\ Operated(op)
    BY <1>1 DEF Fetched
  <1>3. /\ next' = op /\ memories' = memories /\ tables' = tables /\ instance' = instance
        /\ Unchanged
    BY <1>2 DEF Fetch, Unchanged
  <1>4. ContentsKept' /\ NamesKept'
    BY <1>3, UnchangedKept DEF StorageKept
  <1>5. OutKept'
    BY <1>2, DoneOut DEF Fetch, Done
  <1>6. Operated(op)'
    <2>1. \A i : At(i)' = At(i) /\ TabAt(i)' = TabAt(i)
      BY <1>3 DEF At, TabAt
    <2>2. \A i, n : GrowsUpward(i, n)' = GrowsUpward(i, n)
      BY <1>3 DEF GrowsUpward, PagesOf, At
    <2>3. \A i, n : CanAllocate(i, n)' = CanAllocate(i, n)
      BY <1>3 DEF CanAllocate, TabAt
    <2>4. \A i, j : CountAt(i, j)' = CountAt(i, j)
      BY <1>3 DEF CountAt, TabAt
    <2>5. QED
      BY <1>2, <1>3, <2>1, <2>2, <2>3, <2>4 DEF Operated
  <1>7. QED
    BY <1>3, <1>4, <1>5, <1>6 DEF StorageKept

----------------------------------------------------------------------------
(***************************************************************************)
(* The invariant holds in a new store and of every step.                   *)
(***************************************************************************)
LEMMA AllocatedMemory ==
  ASSUME NEW type, type.at \in {"I32", "I64"}, type.min \in Nat, type.max \in Words("I64"),
         type.min * PageSize < Modulus
  PROVE  /\ MemoryKept(AllocateMemory(type)) /\ AllocateMemory(type).min = type.min
         /\ AllocateMemory(type).max = type.max /\ AllocateMemory(type).at = type.at
  <1>1. type.min * PageSize \in Nat
    BY PageFacts
  <1>2. PICK bytes : bytes = Repeat(0, type.min * PageSize)
    OBVIOUS
  <1>3. 0 \in 0..1
    OBVIOUS
  <1>4. bytes \in Seq(0..1) /\ Len(bytes) = type.min * PageSize
    BY <1>1, <1>2, <1>3, RepeatFacts
  <1>5. AllocateMemory(type) = [at |-> type.at, min |-> type.min, max |-> type.max, data |-> bytes]
    BY <1>2 DEF AllocateMemory
  <1>6. QED
    BY <1>4, <1>5 DEF MemoryKept, MemoryType

LEMMA AllocatedTable ==
  ASSUME NEW type, type.at \in {"I32", "I64"}, type.min \in 0..Allocatable,
         type.max \in Words("I64")
  PROVE  /\ TableKept(AllocateTable(type, 0)) /\ AllocateTable(type, 0).min = type.min
         /\ AllocateTable(type, 0).max = type.max /\ AllocateTable(type, 0).at = type.at
  <1>1. type.min \in Nat /\ type.min <= Allocatable
    BY StoresAssumption
  <1>2. PICK elem : elem = Repeat(0, type.min)
    OBVIOUS
  <1>3. 0 \in 0..1
    OBVIOUS
  <1>4. elem \in Seq(0..1) /\ Len(elem) = type.min
    BY <1>1, <1>2, <1>3, RepeatFacts
  <1>5. AllocateTable(type, 0) = [at |-> type.at, min |-> type.min, max |-> type.max, elem |-> elem]
    BY <1>2 DEF AllocateTable
  <1>6. QED
    BY <1>1, <1>4, <1>5 DEF TableKept, TableType

LEMMA InitKept == Init => StorageKept
  <1> SUFFICES ASSUME Init PROVE StorageKept
    OBVIOUS
  <1>1. PICK s \in Stores :
          /\ memories = [m \in DOMAIN s.memories |-> AllocateMemory(s.memories[m])]
          /\ tables = [t \in DOMAIN s.tables |-> AllocateTable(s.tables[t], 0)]
          /\ data_segment = s.data /\ element_segment = s.elem
          /\ instance = [mems |-> s.mem_addrs, tabs |-> s.table_addrs]
    BY DEF Init
  <1>2. StoreType(s)
    BY StoresAssumption
  <1>3. \A m \in DOMAIN memories : MemoryKept(memories[m])
    BY <1>1, <1>2, AllocatedMemory DEF StoreType, Modulus
  <1>4. \A t \in DOMAIN tables : TableKept(tables[t])
    BY <1>1, <1>2, AllocatedTable DEF StoreType
  <1>5. SegmentKept(data_segment) /\ SegmentKept(element_segment)
    BY <1>1, <1>2 DEF StoreType, SegmentKept, Modulus
  <1>6. NamesKept
    <2>1. instance.mems = s.mem_addrs /\ instance.tabs = s.table_addrs
      BY <1>1
    <2>2. DOMAIN memories = DOMAIN s.memories /\ DOMAIN tables = DOMAIN s.tables
      BY <1>1
    <2>3. QED
      BY <1>2, <2>1, <2>2 DEF NamesKept, StoreType
  <1>7. OutKept
    <2>1. out = [trap |-> FALSE, push |-> <<>>]
      BY DEF Init
    <2>2. ~out.trap /\ out.trap \in BOOLEAN
      BY <2>1, Zenon
    <2>3. QED
      BY <2>2 DEF OutKept
  <1>8. next = Idle
    BY DEF Init
  <1>9. QED
    BY <1>3, <1>4, <1>5, <1>6, <1>7, <1>8 DEF StorageKept, ContentsKept

LEMMA StutterKept == ASSUME StorageKept, UNCHANGED vars PROVE StorageKept'
  <1>1. /\ memories' = memories /\ tables' = tables /\ instance' = instance /\ next' = next
        /\ Unchanged
    BY DEF vars, Unchanged
  <1>2. ContentsKept' /\ NamesKept'
    BY <1>1, UnchangedKept DEF StorageKept
  <1>3. OutKept'
    BY DEF StorageKept, OutKept, vars
  <1>4. Operated(next)' <=> Operated(next)
    BY <1>1 DEF Operated, At, TabAt, GrowsUpward, PagesOf, CanAllocate, CountAt
  <1>5. next' = Idle \/ Operated(next)'
    BY <1>1, <1>4 DEF StorageKept
  <1>6. QED
    BY <1>2, <1>3, <1>5 DEF StorageKept

LEMMA StepKept == StorageKept /\ [Next]_vars => StorageKept'
  <1> SUFFICES ASSUME StorageKept, [Next]_vars PROVE StorageKept'
    OBVIOUS
  <1>1. CASE Next
    BY <1>1, FetchesKeep, LoadKeeps, StoreKeeps, MemorySizeKeeps, MemoryGrowKeeps, MemoryFillKeeps,
       MemoryCopyKeeps, MemoryInitKeeps, DropsKeep, TableGetKeeps, TableSetKeeps, TableSizeKeeps,
       TableGrowKeeps, TableFillKeeps, TableCopyKeeps, TableInitKeeps
       DEF Next
  <1>2. CASE UNCHANGED vars
    BY <1>2, StutterKept
  <1>3. QED
    BY <1>1, <1>2

LEMMA AlwaysKept == Spec => []StorageKept
  BY InitKept, StepKept, PTL DEF Spec

\* Whatever words the ops are given, memories stay whole pages of bytes and tables
\* sequences of references, and what traps answers nothing.
THEOREM StorageTyped == Spec => []TypeOK
  BY AlwaysKept, KeptIsTyped, PTL

----------------------------------------------------------------------------
(***************************************************************************)
(* The sizes.  Nothing checks that a parsed minimum is within its maximum: *)
(* with stores where it is, the two agree for good.                        *)
(***************************************************************************)
LEMMA SetBytesFacts ==
  ASSUME StorageKept, NEW m \in DOMAIN memories, NEW s, SetBytes(m, s)
  PROVE  /\ DOMAIN memories' = DOMAIN memories
         /\ \A x \in DOMAIN memories :
              /\ memories'[x].data = IF x = m THEN s ELSE memories[x].data
              /\ memories'[x].at = memories[x].at /\ memories'[x].min = memories[x].min
              /\ memories'[x].max = memories[x].max
         /\ UNCHANGED <<tables, data_segment, element_segment>>
  <1> DEFINE new == [memories[m] EXCEPT !.data = s]
  <1>1. memories[m] \in MemoryType
    BY DEF StorageKept, ContentsKept, MemoryKept
  <1>2. /\ new.data = s /\ new.at = memories[m].at /\ new.min = memories[m].min
        /\ new.max = memories[m].max
    BY <1>1 DEF MemoryType
  <1>3. /\ memories' = [memories EXCEPT ![m] = new]
        /\ UNCHANGED <<tables, data_segment, element_segment>>
    BY DEF SetBytes
  <1> HIDE DEF new
  <1>4. DOMAIN memories' = DOMAIN memories
    BY <1>3
  <1>5. \A x \in DOMAIN memories : memories'[x] = IF x = m THEN new ELSE memories[x]
    BY <1>3
  <1>6. QED
    BY <1>2, <1>3, <1>4, <1>5

LEMMA SetElementsFacts ==
  ASSUME StorageKept, NEW t \in DOMAIN tables, NEW s, SetElements(t, s)
  PROVE  /\ DOMAIN tables' = DOMAIN tables
         /\ \A x \in DOMAIN tables :
              /\ tables'[x].elem = IF x = t THEN s ELSE tables[x].elem
              /\ tables'[x].at = tables[x].at /\ tables'[x].min = tables[x].min
              /\ tables'[x].max = tables[x].max
         /\ UNCHANGED <<memories, data_segment, element_segment>>
  <1> DEFINE new == [tables[t] EXCEPT !.elem = s]
  <1>1. tables[t] \in TableType
    BY DEF StorageKept, ContentsKept, TableKept
  <1>2. /\ new.elem = s /\ new.at = tables[t].at /\ new.min = tables[t].min
        /\ new.max = tables[t].max
    BY <1>1 DEF TableType
  <1>3. /\ tables' = [tables EXCEPT ![t] = new]
        /\ UNCHANGED <<memories, data_segment, element_segment>>
    BY DEF SetElements
  <1> HIDE DEF new
  <1>4. DOMAIN tables' = DOMAIN tables
    BY <1>3
  <1>5. \A x \in DOMAIN tables : tables'[x] = IF x = t THEN new ELSE tables[x]
    BY <1>3
  <1>6. QED
    BY <1>2, <1>3, <1>4, <1>5

\* Only the grows change a size, and they keep it within the maximum.
TypesStay ==
  /\ DOMAIN memories' = DOMAIN memories /\ DOMAIN tables' = DOMAIN tables
  /\ \A m \in DOMAIN memories :
       /\ memories'[m].at = memories[m].at /\ memories'[m].max = memories[m].max
       /\ memories'[m].min = memories[m].min \/ memories'[m].min <= memories[m].max
  /\ \A t \in DOMAIN tables :
       /\ tables'[t].at = tables[t].at /\ tables'[t].max = tables[t].max
       /\ tables'[t].min = tables[t].min \/ tables'[t].min <= tables[t].max

LEMMA UnchangedStays == ASSUME Unchanged PROVE TypesStay
  BY DEF Unchanged, TypesStay

LEMMA SetBytesStays ==
  ASSUME StorageKept, NEW m \in DOMAIN memories, NEW s, SetBytes(m, s)
  PROVE  TypesStay
  BY SetBytesFacts DEF TypesStay

LEMMA SetElementsStays ==
  ASSUME StorageKept, NEW t \in DOMAIN tables, NEW s, SetElements(t, s)
  PROVE  TypesStay
  BY SetElementsFacts DEF TypesStay

\* What a grow makes of the memories and tables.
LEMMA GrownMemories ==
  ASSUME StorageKept, NEW pages, MemoryGrowsTo(pages), Mem \in DOMAIN memories
  PROVE  /\ DOMAIN memories' = DOMAIN memories
         /\ \A m \in DOMAIN memories :
              /\ memories'[m].data = IF m = Mem THEN Resized(memories[Mem].data, pages * PageSize, 0)
                                     ELSE memories[m].data
              /\ memories'[m].at = memories[m].at /\ memories'[m].max = memories[m].max
              /\ memories'[m].min = IF m = Mem THEN pages ELSE memories[m].min
  <1> DEFINE new == Grown(memories[Mem], pages)
  <1>1. MemoryKept(memories[Mem]) /\ pages \in Nat /\ pages <= MaxPages
    BY DEF StorageKept, ContentsKept, MemoryGrowsTo
  <1>2. /\ new.min = pages /\ new.max = memories[Mem].max
        /\ new.data = Resized(memories[Mem].data, pages * PageSize, 0)
    BY <1>1, GrownFacts
  <1>3. new.at = memories[Mem].at
    BY <1>1 DEF MemoryKept, MemoryType, Grown
  <1> HIDE DEF new
  <1>4. memories' = [memories EXCEPT ![Mem] = new]
    BY DEF new, MemoryGrowsTo
  <1>5. DOMAIN memories' = DOMAIN memories
    BY <1>4
  <1>6. \A m \in DOMAIN memories : memories'[m] = IF m = Mem THEN new ELSE memories[m]
    BY <1>4
  <1>7. QED
    BY <1>2, <1>3, <1>5, <1>6

LEMMA GrownTables ==
  ASSUME StorageKept, NEW size, TableGrowsTo(size), Tab \in DOMAIN tables, next.v \in 0..1
  PROVE  /\ DOMAIN tables' = DOMAIN tables
         /\ \A t \in DOMAIN tables :
              /\ tables'[t].elem = IF t = Tab THEN Resized(tables[Tab].elem, size, next.v)
                                   ELSE tables[t].elem
              /\ tables'[t].at = tables[t].at /\ tables'[t].max = tables[t].max
              /\ tables'[t].min = IF t = Tab THEN size ELSE tables[t].min
  <1> DEFINE new == Larger(tables[Tab], size, next.v)
  <1>1. TableKept(tables[Tab]) /\ size \in Nat /\ size <= Allocatable
    BY DEF StorageKept, ContentsKept, TableGrowsTo
  <1>2. /\ new.min = size /\ new.max = tables[Tab].max /\ new.at = tables[Tab].at
        /\ new.elem = Resized(tables[Tab].elem, size, next.v)
    BY <1>1, LargerTable
  <1> HIDE DEF new
  <1>3. tables' = [tables EXCEPT ![Tab] = new]
    BY DEF new, TableGrowsTo
  <1>4. DOMAIN tables' = DOMAIN tables
    BY <1>3
  <1>5. \A t \in DOMAIN tables : tables'[t] = IF t = Tab THEN new ELSE tables[t]
    BY <1>3
  <1>6. QED
    BY <1>2, <1>4, <1>5

LEMMA MemoryGrowStays == ASSUME StorageKept, MemoryGrow PROVE TypesStay
  <1>1. Mem \in DOMAIN memories
    BY OnMemory DEF MemoryGrow, MemoryKinds
  <1>2. ASSUME NEW pages, MemoryStays(pages) PROVE TypesStay
    BY <1>2, UnchangedStays DEF MemoryStays
  <1>3. ASSUME NEW pages, MemoryGrowsTo(pages) PROVE TypesStay
    <2>1. tables' = tables /\ pages <= memories[Mem].max
      BY <1>3 DEF MemoryGrowsTo
    <2>2. QED
      BY <1>1, <1>3, <2>1, GrownMemories DEF TypesStay
  <1>4. QED
    BY <1>2, <1>3, GrowsMemory

LEMMA TableGrowStays == ASSUME StorageKept, TableGrow PROVE TypesStay
  <1>1. Tab \in DOMAIN tables /\ Operated(next) /\ next.k = "table.grow"
    BY OnTable DEF TableGrow, TableKinds
  <1>2. next.v \in 0..1
    BY <1>1 DEF Operated, Refs
  <1>3. ASSUME NEW size, TableStays(size) PROVE TypesStay
    BY <1>3, UnchangedStays DEF TableStays
  <1>4. ASSUME NEW size, TableGrowsTo(size) PROVE TypesStay
    <2>1. memories' = memories /\ size <= tables[Tab].max
      BY <1>4 DEF TableGrowsTo
    <2>2. QED
      BY <1>1, <1>2, <1>4, <2>1, GrownTables DEF TypesStay
  <1>5. QED
    BY <1>3, <1>4, GrowsTable

LEMMA OthersStay ==
  ASSUME StorageKept,
         \/ Fetches \/ Load \/ Store \/ MemorySize \/ MemoryFill \/ MemoryCopy \/ MemoryInit \/ DataDrop
         \/ TableGet \/ TableSet \/ TableSize \/ TableFill \/ TableCopy \/ TableInit \/ ElemDrop
  PROVE  TypesStay
  <1>1. CASE Fetches
    <2>1. Unchanged
      BY <1>1, FetchesAccess, FetchesMemoryGrow, FetchesMemory, FetchesTableGrow, FetchesTable
         DEF Fetches, Fetched, Fetch
    <2>2. QED
      BY <2>1, UnchangedStays
  <1>2. CASE Load \/ MemorySize \/ TableGet \/ TableSize
    <2>1. Unchanged
      BY <1>2 DEF Load, MemorySize, TableGet, TableSize, Trap
    <2>2. QED
      BY <2>1, UnchangedStays
  <1>3. CASE DataDrop \/ ElemDrop
    BY <1>3 DEF DataDrop, ElemDrop, TypesStay
  <1>4. CASE Store \/ MemoryFill \/ MemoryCopy \/ MemoryInit
    <2>1. Mem \in DOMAIN memories
      BY <1>4, OnMemory DEF Store, MemoryFill, MemoryCopy, MemoryInit, MemoryKinds
    <2>2. Trap \/ \E s : SetBytes(Mem, s)
      BY <1>4 DEF Store, MemoryFill, MemoryCopy, MemoryInit
    <2>3. QED
      BY <2>1, <2>2, SetBytesStays, UnchangedStays DEF Trap
  <1>5. CASE TableSet \/ TableFill \/ TableCopy \/ TableInit
    <2>1. Tab \in DOMAIN tables
      BY <1>5, OnTable DEF TableSet, TableFill, TableCopy, TableInit, TableKinds
    <2>2. Trap \/ \E s : SetElements(Tab, s)
      BY <1>5 DEF TableSet, TableFill, TableCopy, TableInit
    <2>3. QED
      BY <2>1, <2>2, SetElementsStays, UnchangedStays DEF Trap
  <1>6. QED
    BY <1>1, <1>2, <1>3, <1>4, <1>5

LEMMA StepStays == StorageKept /\ [Next]_vars => TypesStay
  <1> SUFFICES ASSUME StorageKept, [Next]_vars PROVE TypesStay
    OBVIOUS
  <1>1. CASE Next
    BY <1>1, MemoryGrowStays, TableGrowStays, OthersStay DEF Next
  <1>2. CASE UNCHANGED vars
    BY <1>2, UnchangedStays DEF vars, Unchanged
  <1>3. QED
    BY <1>1, <1>2

\* The stores of valid modules.
ValidLimits ==
  \A s \in Stores :
    /\ \A m \in DOMAIN s.memories : s.memories[m].min <= s.memories[m].max
    /\ \A t \in DOMAIN s.tables : s.tables[t].min <= s.tables[t].max

WithinMaxima ==
  /\ \A m \in DOMAIN memories : memories[m].min <= memories[m].max
  /\ \A t \in DOMAIN tables : tables[t].min <= tables[t].max

LEMMA InitWithin == ValidLimits /\ Init => WithinMaxima
  BY DEF ValidLimits, Init, WithinMaxima, AllocateMemory, AllocateTable

LEMMA StepWithin == WithinMaxima /\ TypesStay => WithinMaxima'
  BY DEF WithinMaxima, TypesStay

LEMMA AgreeingSizes == StorageKept /\ WithinMaxima => SizesAgree
  BY KeptIsTyped, TableFacts DEF StorageKept, ContentsKept, WithinMaxima, SizesAgree

\* Whatever was grown, the type an importer is matched against is the size there is,
\* within its maximum: for the stores of modules whose limits are valid.
THEOREM SizesAgreeing == ASSUME ValidLimits PROVE Spec => []SizesAgree
  <1>1. Init => WithinMaxima
    BY InitWithin
  <1>2. StorageKept /\ WithinMaxima /\ [Next]_vars => WithinMaxima'
    BY StepStays, StepWithin
  <1>3. Spec => []WithinMaxima
    BY <1>1, <1>2, AlwaysKept, PTL DEF Spec
  <1>4. QED
    BY <1>3, AlwaysKept, AgreeingSizes, PTL

----------------------------------------------------------------------------
(***************************************************************************)
(* The promise.  An address of 2^(W32 - 1) or more is sign-extended out of *)
(* every memory; as long as no 32-bit memory and no segment is that large, *)
(* and no table can be, the words and the numbers they stand for agree.    *)
(***************************************************************************)
BelowSignBit ==
  /\ \A m \in DOMAIN memories : memories[m].at = "I32" => Len(memories[m].data) < Half
  /\ Len(data_segment) < Half /\ Len(element_segment) < Half

MemsOf == [m \in DOMAIN memories |-> memories[m].data]
TabsOf == [t \in DOMAIN tables |-> tables[t].elem]
LimitsOf == [mems |-> [m \in DOMAIN memories |-> memories[m].max],
             tabs |-> [t \in DOMAIN tables |-> LargestTable(tables[t])]]

LEMMA SameOperators ==
  /\ Promised!Idle = Idle /\ Promised!Failed = -1
  /\ \A s, a, n : Promised!Slice(s, a, n) = Slice(s, a, n)
  /\ \A s, a, new : Promised!Overwrite(s, a, new) = Overwrite(s, a, new)
  /\ \A v, n : Promised!Repeat(v, n) = Repeat(v, n)
  /\ \A v, w : Promised!Bytes(v, w) = Bytes(v, w)
  /\ \A b, signed : Promised!Extended(b, signed) = Extended(b, signed)
  /\ \A s, a, n : Promised!Fits(s, a, n) <=> a + n <= Len(s)
  <1>1. Promised!Idle = Idle /\ Promised!Failed = -1
    BY DEF Promised!Idle, Idle, Promised!Failed
  <1>2. \A s, a, n : Promised!Slice(s, a, n) = Slice(s, a, n)
    BY DEF Promised!Slice, Slice
  <1>3. \A s, a, new : Promised!Overwrite(s, a, new) = Overwrite(s, a, new)
    BY Zenon DEF Promised!Overwrite, Overwrite
  <1>4. \A v, n : Promised!Repeat(v, n) = Repeat(v, n)
    BY Zenon DEF Promised!Repeat, Repeat
  <1>5. \A v, w : Promised!Bytes(v, w) = Bytes(v, w)
    BY Zenon DEF Promised!Bytes, Bytes
  <1>6. \A b, signed : Promised!Extended(b, signed) = Extended(b, signed)
    BY Zenon DEF Promised!Extended, Extended
  <1>7. \A s, a, n : Promised!Fits(s, a, n) <=> a + n <= Len(s)
    BY DEF Promised!Fits
  <1>8. QED
    BY <1>1, <1>2, <1>3, <1>4, <1>5, <1>6, <1>7

\* The bytes a memory gets, the elements a table gets.
BytesBecome(m, s) ==
  MemsOf' = [MemsOf EXCEPT ![m] = s] /\ UNCHANGED <<TabsOf, data_segment, element_segment>>
ElementsBecome(t, s) ==
  TabsOf' = [TabsOf EXCEPT ![t] = s] /\ UNCHANGED <<MemsOf, data_segment, element_segment>>

LEMMA SetBytesBecome ==
  ASSUME StorageKept, NEW m \in DOMAIN memories, NEW s, SetBytes(m, s)
  PROVE  BytesBecome(m, s)
  <1>1. /\ DOMAIN memories' = DOMAIN memories
        /\ \A x \in DOMAIN memories : memories'[x].data = IF x = m THEN s ELSE memories[x].data
        /\ UNCHANGED <<tables, data_segment, element_segment>>
    BY SetBytesFacts
  <1>2. MemsOf' = [MemsOf EXCEPT ![m] = s]
    BY <1>1 DEF MemsOf
  <1>3. QED
    BY <1>1, <1>2 DEF BytesBecome, TabsOf

LEMMA SetElementsBecome ==
  ASSUME StorageKept, NEW t \in DOMAIN tables, NEW s, SetElements(t, s)
  PROVE  ElementsBecome(t, s)
  <1>1. /\ DOMAIN tables' = DOMAIN tables
        /\ \A x \in DOMAIN tables : tables'[x].elem = IF x = t THEN s ELSE tables[x].elem
        /\ UNCHANGED <<memories, data_segment, element_segment>>
    BY SetElementsFacts
  <1>2. TabsOf' = [TabsOf EXCEPT ![t] = s]
    BY <1>1 DEF TabsOf
  <1>3. QED
    BY <1>1, <1>2 DEF ElementsBecome, MemsOf

LEMMA LimitsStay == ASSUME TypesStay PROVE LimitsOf' = LimitsOf
  <1>1. \A t \in DOMAIN tables : LargestTable(tables'[t]) = LargestTable(tables[t])
    BY DEF TypesStay, LargestTable
  <1>2. [m \in DOMAIN memories' |-> memories'[m].max] = [m \in DOMAIN memories |-> memories[m].max]
    BY DEF TypesStay
  <1>3. [t \in DOMAIN tables' |-> LargestTable(tables'[t])]
        = [t \in DOMAIN tables |-> LargestTable(tables[t])]
    BY <1>1 DEF TypesStay
  <1>4. QED
    BY <1>2, <1>3 DEF LimitsOf

LEMMA MemoryExecuted ==
  ASSUME StorageKept, NEW ks, ks \subseteq MemoryKinds, Run(ks), TypesStay,
         Promised!MemoryOp(next, Mem)
  PROVE  Promised!Execute
  <1>1. next.k \in ks /\ next' = Idle /\ instance' = instance
    BY OnMemory
  <1>2. next # Idle /\ next.k \notin {"data.drop", "elem.drop"} /\ next.k \in MemoryKinds
    <2>1. next.k \in MemoryKinds
      BY <1>1
    <2>2. \A k \in MemoryKinds : k \notin {"data.drop", "elem.drop", "idle"}
      BY DEF MemoryKinds
    <2>3. Idle.k = "idle"
      BY DEF Idle
    <2>4. QED
      BY <2>1, <2>2, <2>3
  <1>3. LimitsOf' = LimitsOf
    BY LimitsStay
  <1>4. QED
    BY <1>1, <1>2, <1>3, SameOperators DEF Promised!Execute, LimitsOf, Mem, MemoryKinds

LEMMA TableExecuted ==
  ASSUME StorageKept, NEW ks, ks \subseteq TableKinds, Run(ks), TypesStay,
         Promised!TableOp(next, Tab)
  PROVE  Promised!Execute
  <1>1. next.k \in ks /\ next' = Idle /\ instance' = instance
    BY OnTable
  <1>2. next # Idle /\ next.k \notin {"data.drop", "elem.drop"} /\ next.k \notin MemoryKinds
    BY <1>1 DEF MemoryKinds, TableKinds, Idle
  <1>3. LimitsOf' = LimitsOf
    BY LimitsStay
  <1>4. QED
    BY <1>1, <1>2, <1>3, SameOperators DEF Promised!Execute, LimitsOf, Tab, MemoryKinds

----------------------------------------------------------------------------
(***************************************************************************)
(* The words of an op and the numbers they stand for.                      *)
(***************************************************************************)
LEMMA BytesRange ==
  ASSUME NEW s, Len(s) \in Nat, Len(s) < Modulus,
         NEW a \in 0..(Modulus - 1), NEW b \in 0..(Modulus - 1), NEW x \in Nat, NEW y \in Nat,
         StandsFor(a, x, Len(s)), StandsFor(b, y, Len(s))
  PROVE  /\ HasBytes(s, a, b) <=> Promised!Fits(s, x, y)
         /\ HasBytes(s, a, b) => a = x /\ b = y
  <1>1. HasBytes(s, a, b) <=> a + b <= Len(s)
    BY RangeFacts
  <1>2. a \in Nat /\ b \in Nat
    OBVIOUS
  <1>3. /\ a + b <= Len(s) <=> x + y <= Len(s)
        /\ a + b <= Len(s) => a = x /\ b = y
    BY <1>2, StandsSum
  <1>4. QED
    BY <1>1, <1>3, SameOperators

LEMMA ElementsRange ==
  ASSUME NEW s, Len(s) \in Nat, Len(s) < Modulus - 1,
         NEW a \in 0..(Modulus - 1), NEW b \in 0..(Modulus - 1), NEW x \in Nat, NEW y \in Nat,
         StandsFor(a, x, Len(s)), StandsFor(b, y, Len(s))
  PROVE  /\ HasElements(s, a, b) <=> Promised!Fits(s, x, y)
         /\ HasElements(s, a, b) => a = x /\ b = y
  <1>1. HasElements(s, a, b) <=> a + b <= Len(s)
    BY RangeFacts
  <1>2. a \in Nat /\ b \in Nat
    OBVIOUS
  <1>3. /\ a + b <= Len(s) <=> x + y <= Len(s)
        /\ a + b <= Len(s) => a = x /\ b = y
    BY <1>2, StandsSum
  <1>4. QED
    BY <1>1, <1>3, SameOperators

LEMMA MemoryLength ==
  ASSUME StorageKept, BelowSignBit, NEW i \in DOMAIN instance.mems
  PROVE  /\ MemsOf[instance.mems[i]] = memories[instance.mems[i]].data
         /\ Len(memories[instance.mems[i]].data) \in Nat
         /\ Len(memories[instance.mems[i]].data) < Modulus
         /\ At(i) = "I32" => Len(memories[instance.mems[i]].data) < Half
  <1>1. /\ instance.mems[i] \in DOMAIN memories /\ MemoryKept(memories[instance.mems[i]])
        /\ At(i) = memories[instance.mems[i]].at
    BY MemoryAt
  <1>2. QED
    BY <1>1, MemoryFacts DEF BelowSignBit, MemsOf

\* A word of the memory's address type, against that memory or another of its type.
LEMMA MemoryStands ==
  ASSUME StorageKept, BelowSignBit, NEW ks, ks \subseteq MemoryKinds, Run(ks),
         NEW x \in Words(At(next.on)), NEW i \in DOMAIN instance.mems, At(i) = At(next.on)
  PROVE  /\ StandsFor(MemAddress(x), x, Len(memories[instance.mems[i]].data))
         /\ MemAddress(x) \in 0..(Modulus - 1) /\ x \in Nat
  <1>1. next.on \in DOMAIN instance.mems /\ At(next.on) = memories[Mem].at
    BY OnMemory
  <1>2. At(next.on) \in {"I32", "I64"}
    BY <1>1, MemoryAt
  <1>3. MemAddress(x) = Address(At(next.on), x)
    BY <1>1 DEF MemAddress
  <1>4. /\ Len(memories[instance.mems[i]].data) \in Nat
        /\ At(i) = "I32" => Len(memories[instance.mems[i]].data) < Half
    BY MemoryLength
  <1>5. StandsFor(Address(At(next.on), x), x, Len(memories[instance.mems[i]].data))
    BY <1>2, <1>4, AddressStands
  <1>6. Address(At(next.on), x) \in 0..(Modulus - 1) /\ x \in Nat
    BY <1>2, AddressFacts
  <1>7. QED
    BY <1>3, <1>5, <1>6

(***************************************************************************)
(* What it takes to be the promised op.                                    *)
(***************************************************************************)
LEMMA LoadOp ==
  ASSUME next.k = "load",
         IF Promised!Fits(MemsOf[Mem], next.d + next.offset, next.width)
         THEN /\ Done(<<Extended(Slice(MemsOf[Mem], next.d + next.offset, next.width), next.signed)>>)
              /\ Unchanged
         ELSE Trap
  PROVE  Promised!MemoryOp(next, Mem)
  BY Zenon DEF Promised!MemoryOp, Promised!Load, Promised!Slice, Slice, Promised!Extended, Extended,
       Promised!Only, Promised!Done, Done, Promised!Trap, Promised!contents, Trap, Unchanged, MemsOf, TabsOf

LEMMA StoreOp ==
  ASSUME next.k = "store",
         IF Promised!Fits(MemsOf[Mem], next.d + next.offset, next.width)
         THEN /\ BytesBecome(Mem, Overwrite(MemsOf[Mem], next.d + next.offset, Bytes(next.v, next.width)))
              /\ Done(<<>>)
         ELSE Trap
  PROVE  Promised!MemoryOp(next, Mem)
  BY Zenon DEF Promised!MemoryOp, Promised!Store, Promised!Bytes, Bytes, Promised!SetMem, BytesBecome, Promised!Overwrite, Overwrite,
       Promised!Only, Promised!Done, Done, Promised!Trap, Promised!contents, Trap, Unchanged, MemsOf, TabsOf

LEMMA SizeOp ==
  ASSUME next.k = "memory.size",
         Done(<<Len(MemsOf[Mem]) \div PageSize>>) /\ Unchanged
  PROVE  Promised!MemoryOp(next, Mem)
  BY Zenon DEF Promised!MemoryOp,
       Promised!Only, Promised!Done, Done, Promised!Trap, Promised!contents, Trap, Unchanged, MemsOf, TabsOf

LEMMA FillOp ==
  ASSUME next.k = "memory.fill",
         IF Promised!Fits(MemsOf[Mem], next.d, next.n)
         THEN /\ BytesBecome(Mem, Overwrite(MemsOf[Mem], next.d, Repeat(next.v % 2, next.n)))
              /\ Done(<<>>)
         ELSE Trap
  PROVE  Promised!MemoryOp(next, Mem)
  BY Zenon DEF Promised!MemoryOp, Promised!Repeat, Repeat, Promised!SetMem, BytesBecome, Promised!Overwrite, Overwrite,
       Promised!Only, Promised!Done, Done, Promised!Trap, Promised!contents, Trap, Unchanged, MemsOf, TabsOf

LEMMA CopyOp ==
  ASSUME next.k = "memory.copy",
         IF /\ Promised!Fits(MemsOf[instance.mems[next.from]], next.s, next.n)
            /\ Promised!Fits(MemsOf[Mem], next.d, next.n)
         THEN /\ BytesBecome(Mem, Overwrite(MemsOf[Mem], next.d,
                                        Slice(MemsOf[instance.mems[next.from]], next.s, next.n)))
              /\ Done(<<>>)
         ELSE Trap
  PROVE  Promised!MemoryOp(next, Mem)
  BY Zenon DEF Promised!MemoryOp, Promised!Slice, Slice, Promised!SetMem, BytesBecome, Promised!Overwrite, Overwrite,
       Promised!Only, Promised!Done, Done, Promised!Trap, Promised!contents, Trap, Unchanged, MemsOf, TabsOf

LEMMA InitOp ==
  ASSUME next.k = "memory.init",
         IF /\ Promised!Fits(data_segment, next.s, next.n)
            /\ Promised!Fits(MemsOf[Mem], next.d, next.n)
         THEN /\ BytesBecome(Mem, Overwrite(MemsOf[Mem], next.d, Slice(data_segment, next.s, next.n)))
              /\ Done(<<>>)
         ELSE Trap
  PROVE  Promised!MemoryOp(next, Mem)
  BY Zenon DEF Promised!MemoryOp, Promised!Slice, Slice, Promised!SetMem, BytesBecome, Promised!Overwrite, Overwrite,
       Promised!Only, Promised!Done, Done, Promised!Trap, Promised!contents, Trap, Unchanged, MemsOf, TabsOf

LEMMA GetOp ==
  ASSUME next.k = "table.get",
         IF Promised!Fits(TabsOf[Tab], next.d, 1)
         THEN Done(<<TabsOf[Tab][next.d + 1]>>) /\ Unchanged
         ELSE Trap
  PROVE  Promised!TableOp(next, Tab)
  BY Zenon DEF Promised!TableOp,
       Promised!Only, Promised!Done, Done, Promised!Trap, Promised!contents, Trap, Unchanged, MemsOf, TabsOf

LEMMA SetOp ==
  ASSUME next.k = "table.set",
         IF Promised!Fits(TabsOf[Tab], next.d, 1)
         THEN /\ ElementsBecome(Tab, Overwrite(TabsOf[Tab], next.d, <<next.v>>))
              /\ Done(<<>>)
         ELSE Trap
  PROVE  Promised!TableOp(next, Tab)
  BY Zenon DEF Promised!TableOp, Promised!SetTab, ElementsBecome, Promised!Overwrite, Overwrite,
       Promised!Only, Promised!Done, Done, Promised!Trap, Promised!contents, Trap, Unchanged, MemsOf, TabsOf

LEMMA TableSizeOp ==
  ASSUME next.k = "table.size",
         Done(<<Len(TabsOf[Tab])>>) /\ Unchanged
  PROVE  Promised!TableOp(next, Tab)
  BY Zenon DEF Promised!TableOp,
       Promised!Only, Promised!Done, Done, Promised!Trap, Promised!contents, Trap, Unchanged, MemsOf, TabsOf

LEMMA TableFillOp ==
  ASSUME next.k = "table.fill",
         IF Promised!Fits(TabsOf[Tab], next.d, next.n)
         THEN /\ ElementsBecome(Tab, Overwrite(TabsOf[Tab], next.d, Repeat(next.v, next.n)))
              /\ Done(<<>>)
         ELSE Trap
  PROVE  Promised!TableOp(next, Tab)
  BY Zenon DEF Promised!TableOp, Promised!Repeat, Repeat, Promised!SetTab, ElementsBecome, Promised!Overwrite, Overwrite,
       Promised!Only, Promised!Done, Done, Promised!Trap, Promised!contents, Trap, Unchanged, MemsOf, TabsOf

LEMMA TableCopyOp ==
  ASSUME next.k = "table.copy",
         IF /\ Promised!Fits(TabsOf[instance.tabs[next.from]], next.s, next.n)
            /\ Promised!Fits(TabsOf[Tab], next.d, next.n)
         THEN /\ ElementsBecome(Tab, Overwrite(TabsOf[Tab], next.d,
                                           Slice(TabsOf[instance.tabs[next.from]], next.s, next.n)))
              /\ Done(<<>>)
         ELSE Trap
  PROVE  Promised!TableOp(next, Tab)
  BY Zenon DEF Promised!TableOp, Promised!Slice, Slice, Promised!SetTab, ElementsBecome, Promised!Overwrite, Overwrite,
       Promised!Only, Promised!Done, Done, Promised!Trap, Promised!contents, Trap, Unchanged, MemsOf, TabsOf

LEMMA TableInitOp ==
  ASSUME next.k = "table.init",
         IF /\ Promised!Fits(element_segment, next.s, next.n)
            /\ Promised!Fits(TabsOf[Tab], next.d, next.n)
         THEN /\ ElementsBecome(Tab, Overwrite(TabsOf[Tab], next.d,
                                           Slice(element_segment, next.s, next.n)))
              /\ Done(<<>>)
         ELSE Trap
  PROVE  Promised!TableOp(next, Tab)
  BY Zenon DEF Promised!TableOp, Promised!Slice, Slice, Promised!SetTab, ElementsBecome, Promised!Overwrite, Overwrite,
       Promised!Only, Promised!Done, Done, Promised!Trap, Promised!contents, Trap, Unchanged, MemsOf, TabsOf

LEMMA GrowOp ==
  ASSUME next.k = "memory.grow",
         NEW p, p = Len(MemsOf[Mem]) \div PageSize,
         \/ /\ p + next.n <= LimitsOf.mems[Mem] /\ p + next.n <= MaxPages
            /\ BytesBecome(Mem, MemsOf[Mem] \o Repeat(0, next.n * PageSize))
            /\ Done(<<p>>)
         \/ /\ p + next.n > LimitsOf.mems[Mem] \/ p + next.n > MaxPages
            /\ Done(<<-1>>) /\ Unchanged
  PROVE  Promised!MemoryOp(next, Mem)
  BY Zenon, SameOperators DEF Promised!MemoryOp, Promised!SetMem, BytesBecome, Promised!Repeat, Repeat, LimitsOf,
       Promised!Done, Done, Promised!contents, Unchanged, MemsOf, TabsOf

LEMMA TableGrowOp ==
  ASSUME next.k = "table.grow",
         NEW L, L = Len(TabsOf[Tab]),
         \/ /\ L + next.n <= LimitsOf.tabs[Tab]
            /\ ElementsBecome(Tab, TabsOf[Tab] \o Repeat(next.v, next.n))
            /\ Done(<<L>>)
         \/ /\ L + next.n > LimitsOf.tabs[Tab] \/ L + next.n > Allocatable
            /\ Done(<<-1>>) /\ Unchanged
  PROVE  Promised!TableOp(next, Tab)
  BY Zenon, SameOperators DEF Promised!TableOp, Promised!SetTab, ElementsBecome, Promised!Repeat, Repeat, LimitsOf,
       Promised!Done, Done, Promised!contents, Unchanged, MemsOf, TabsOf

(***************************************************************************)
(* Each op of a memory is the promised one.                                *)
(***************************************************************************)
LEMMA EffectiveStands ==
  ASSUME StorageKept, BelowSignBit, NEW ks, ks \subseteq {"load", "store"}, Run(ks)
  PROVE  /\ Promised!Fits(MemsOf[Mem], next.d + next.offset, next.width)
              <=> /\ EffectiveAddress # Overflow
                  /\ HasBytes(memories[Mem].data, EffectiveAddress, next.width)
         /\ Promised!Fits(MemsOf[Mem], next.d + next.offset, next.width)
              => EffectiveAddress = next.d + next.offset
  <1>1. ks \subseteq MemoryKinds
    BY DEF MemoryKinds
  <1>2. Operated(next) /\ next.k \in {"load", "store"} /\ next.on \in DOMAIN instance.mems
    BY <1>1, OnMemory
  <1>3. /\ next.d \in Words(At(next.on)) /\ next.offset \in 0..(Modulus - 1)
        /\ next.width \in {1, 2}
    BY <1>2, WordFacts DEF Operated
  <1>4. PICK s, a, d, o, w, e :
          /\ s = memories[Mem].data /\ a = MemAddress(next.d) /\ d = next.d /\ o = next.offset
          /\ w = next.width /\ e = EffectiveAddress
    OBVIOUS
  <1>5. a \in 0..(Modulus - 1) /\ d \in Nat /\ StandsFor(a, d, Len(s))
    BY <1>1, <1>2, <1>3, <1>4, MemoryStands DEF Mem
  <1>6. Len(s) \in Nat /\ Len(s) < Modulus /\ MemsOf[Mem] = s
    BY <1>2, <1>4, MemoryLength DEF Mem
  <1>7. e = IF a + o < Modulus THEN a + o ELSE -1
    BY <1>4, SumFacts DEF EffectiveAddress
  <1>8. o \in 0..(Modulus - 1) /\ w \in {1, 2}
    BY <1>3, <1>4
  <1>9. e # -1 => e \in 0..(Modulus - 1)
    BY ONLY <1>5, <1>7, <1>8, WordFacts
  <1>10. w \in 0..(Modulus - 1)
    BY <1>8, WordFacts
  <1>11. e # -1 => (HasBytes(s, e, w) <=> e + w <= Len(s))
    BY <1>6, <1>9, <1>10, RangeFacts
  <1>12. PICK L : L = Len(s)
    OBVIOUS
  <1>13. L \in Nat /\ L < Modulus /\ (a = d \/ (a > L /\ d > L)) /\ Modulus \in Nat
    BY <1>5, <1>6, <1>12, WordFacts DEF StandsFor
  <1>14. /\ d + o + w <= L <=> (e # -1 /\ e + w <= L)
         /\ d + o + w <= L => e = d + o
    BY ONLY <1>5, <1>7, <1>8, <1>13
  <1>15. Promised!Fits(s, d + o, w) <=> d + o + w <= L
    BY <1>12, SameOperators
  <1>16. QED
    BY <1>4, <1>6, <1>11, <1>12, <1>14, <1>15 DEF Overflow

LEMMA LoadPromised ==
  ASSUME StorageKept, BelowSignBit, Load
  PROVE  Promised!MemoryOp(next, Mem)
  <1> DEFINE s == memories[Mem].data
             fits == Promised!Fits(MemsOf[Mem], next.d + next.offset, next.width)
  <1>1. Run({"load"})
    BY DEF Load
  <1>2. next.k = "load" /\ next.on \in DOMAIN instance.mems
    BY <1>1, OnMemory DEF MemoryKinds
  <1>3. MemsOf[Mem] = s
    BY <1>2, MemoryLength DEF Mem
  <1>4. /\ fits <=> EffectiveAddress # Overflow /\ HasBytes(s, EffectiveAddress, next.width)
        /\ fits => EffectiveAddress = next.d + next.offset
    BY <1>1, EffectiveStands
  <1>5. ASSUME fits
        PROVE  /\ Done(<<Extended(Slice(s, next.d + next.offset, next.width), next.signed)>>)
               /\ Unchanged
    <2>1. /\ Done(<<Extended(Slice(s, EffectiveAddress, next.width), next.signed)>>)
          /\ Unchanged
      BY <1>4, <1>5 DEF Load
    <2>2. QED
      BY <1>4, <1>5, <2>1
  <1>6. ASSUME ~fits PROVE Trap
    BY <1>4, <1>6 DEF Load
  <1> HIDE DEF s
  <1>7. QED
    BY <1>2, <1>3, <1>5, <1>6, LoadOp

LEMMA StorePromised ==
  ASSUME StorageKept, BelowSignBit, Store
  PROVE  Promised!MemoryOp(next, Mem)
  <1> DEFINE s == memories[Mem].data
             fits == Promised!Fits(MemsOf[Mem], next.d + next.offset, next.width)
             new == Overwrite(s, next.d + next.offset, Bytes(next.v, next.width))
  <1>1. Run({"store"})
    BY DEF Store
  <1>2. next.k = "store" /\ next.on \in DOMAIN instance.mems /\ Mem \in DOMAIN memories
    BY <1>1, OnMemory DEF MemoryKinds
  <1>3. MemsOf[Mem] = s
    BY <1>2, MemoryLength DEF Mem
  <1>4. /\ fits <=> EffectiveAddress # Overflow /\ HasBytes(s, EffectiveAddress, next.width)
        /\ fits => EffectiveAddress = next.d + next.offset
    BY <1>1, EffectiveStands
  <1>5. ASSUME fits PROVE BytesBecome(Mem, new) /\ Done(<<>>)
    <2>1. /\ SetBytes(Mem, Overwrite(s, EffectiveAddress, Bytes(next.v, next.width)))
          /\ Done(<<>>)
      BY <1>4, <1>5 DEF Store
    <2>2. SetBytes(Mem, new)
      BY <1>4, <1>5, <2>1
    <2>3. QED
      BY <1>2, <2>1, <2>2, SetBytesBecome
  <1>6. ASSUME ~fits PROVE Trap
    BY <1>4, <1>6 DEF Store
  <1> HIDE DEF s
  <1>7. QED
    BY <1>2, <1>3, <1>5, <1>6, StoreOp

LEMMA MemorySizePromised ==
  ASSUME StorageKept, BelowSignBit, MemorySize
  PROVE  Promised!MemoryOp(next, Mem)
  <1>1. next.k = "memory.size" /\ next.on \in DOMAIN instance.mems
    BY OnMemory DEF MemorySize, MemoryKinds
  <1>2. MemsOf[Mem] = memories[Mem].data
    BY <1>1, MemoryLength DEF Mem
  <1>3. Done(<<Len(MemsOf[Mem]) \div PageSize>>) /\ Unchanged
    BY <1>2 DEF MemorySize, PagesOf
  <1>4. QED
    BY <1>1, <1>3, SizeOp

LEMMA MemoryFillPromised ==
  ASSUME StorageKept, BelowSignBit, MemoryFill
  PROVE  Promised!MemoryOp(next, Mem)
  <1> DEFINE s == memories[Mem].data
             i == MemAddress(next.d)
             n == MemAddress(next.n)
             fits == Promised!Fits(MemsOf[Mem], next.d, next.n)
  <1>1. Run({"memory.fill"})
    BY DEF MemoryFill
  <1>2. /\ Operated(next) /\ next.k = "memory.fill" /\ Mem \in DOMAIN memories
        /\ next.on \in DOMAIN instance.mems
    BY <1>1, OnMemory DEF MemoryKinds
  <1>3. next.d \in Words(At(next.on)) /\ next.n \in Words(At(next.on))
    BY <1>2 DEF Operated
  <1>4. /\ i \in 0..(Modulus - 1) /\ n \in 0..(Modulus - 1) /\ next.d \in Nat /\ next.n \in Nat
        /\ StandsFor(i, next.d, Len(s)) /\ StandsFor(n, next.n, Len(s))
    BY <1>1, <1>2, <1>3, MemoryStands DEF MemoryKinds, Mem
  <1>5. Len(s) \in Nat /\ Len(s) < Modulus /\ MemsOf[Mem] = s
    BY <1>2, MemoryLength DEF Mem
  <1>6. /\ HasBytes(s, i, n) <=> fits
        /\ HasBytes(s, i, n) => i = next.d /\ n = next.n
    BY <1>4, <1>5, BytesRange
  <1>7. ASSUME fits
        PROVE  BytesBecome(Mem, Overwrite(s, next.d, Repeat(next.v % 2, next.n))) /\ Done(<<>>)
    <2>1. SetBytes(Mem, Overwrite(s, next.d, Repeat(next.v % 2, next.n))) /\ Done(<<>>)
      BY <1>6, <1>7 DEF MemoryFill
    <2>2. QED
      BY <1>2, <2>1, SetBytesBecome
  <1>8. ASSUME ~fits PROVE Trap
    BY <1>6, <1>8 DEF MemoryFill
  <1> HIDE DEF s
  <1>9. QED
    BY <1>2, <1>5, <1>7, <1>8, FillOp

LEMMA MemoryCopyPromised ==
  ASSUME StorageKept, BelowSignBit, MemoryCopy
  PROVE  Promised!MemoryOp(next, Mem)
  <1> DEFINE to == memories[Mem].data
             from == memories[instance.mems[next.from]].data
             n == MemAddress(next.n)
             s == MemAddress(next.s)
             d == MemAddress(next.d)
             fits == /\ Promised!Fits(MemsOf[instance.mems[next.from]], next.s, next.n)
                     /\ Promised!Fits(MemsOf[Mem], next.d, next.n)
  <1>1. Run({"memory.copy"})
    BY DEF MemoryCopy
  <1>2. /\ Operated(next) /\ next.k = "memory.copy" /\ Mem \in DOMAIN memories
        /\ next.on \in DOMAIN instance.mems
    BY <1>1, OnMemory DEF MemoryKinds
  <1>3. /\ next.d \in Words(At(next.on)) /\ next.n \in Words(At(next.on))
        /\ next.s \in Words(At(next.on)) /\ next.from \in DOMAIN instance.mems
        /\ At(next.from) = At(next.on)
    BY <1>2 DEF Operated
  <1>4. /\ d \in 0..(Modulus - 1) /\ n \in 0..(Modulus - 1) /\ s \in 0..(Modulus - 1)
        /\ next.d \in Nat /\ next.n \in Nat /\ next.s \in Nat
        /\ StandsFor(d, next.d, Len(to)) /\ StandsFor(n, next.n, Len(to))
        /\ StandsFor(s, next.s, Len(from)) /\ StandsFor(n, next.n, Len(from))
    BY <1>1, <1>2, <1>3, MemoryStands DEF MemoryKinds, Mem
  <1>5. /\ Len(to) \in Nat /\ Len(to) < Modulus /\ MemsOf[Mem] = to
        /\ Len(from) \in Nat /\ Len(from) < Modulus /\ MemsOf[instance.mems[next.from]] = from
    BY <1>2, <1>3, MemoryLength DEF Mem
  <1>6. /\ HasBytes(to, d, n) <=> Promised!Fits(to, next.d, next.n)
        /\ HasBytes(to, d, n) => d = next.d /\ n = next.n
    BY <1>4, <1>5, BytesRange
  <1>7. /\ HasBytes(from, s, n) <=> Promised!Fits(from, next.s, next.n)
        /\ HasBytes(from, s, n) => s = next.s /\ n = next.n
    BY <1>4, <1>5, BytesRange, SMTT(30), ZenonT(30)
  <1>8. ASSUME fits
        PROVE  /\ BytesBecome(Mem, Overwrite(to, next.d, Slice(from, next.s, next.n)))
               /\ Done(<<>>)
    <2>1. SetBytes(Mem, Overwrite(to, d, Slice(from, s, n))) /\ Done(<<>>)
      BY <1>5, <1>6, <1>7, <1>8 DEF MemoryCopy
    <2>2. d = next.d /\ n = next.n /\ s = next.s
      BY <1>5, <1>6, <1>7, <1>8
    <2> HIDE DEF to, from, n, s, d
    <2>3. SetBytes(Mem, Overwrite(to, next.d, Slice(from, next.s, next.n)))
      BY <2>1, <2>2
    <2>4. QED
      BY <1>2, <2>1, <2>3, SetBytesBecome
  <1>9. ASSUME ~fits PROVE Trap
    BY <1>5, <1>6, <1>7, <1>9 DEF MemoryCopy
  <1> HIDE DEF to, from
  <1>10. QED
    BY <1>2, <1>5, <1>8, <1>9, CopyOp

\* The segment is short: a word too long for it is no range of it in either world, and one
\* that is not is its own number, whatever the memory's length.
LEMMA SegmentStands ==
  ASSUME NEW x \in Words("I32")
  PROVE  /\ SignExtended(x) \in 0..(Modulus - 1) /\ x \in Nat
         /\ \A L \in Nat : L < Half => StandsFor(SignExtended(x), x, L)
         /\ x < Half => SignExtended(x) = x
  <1>1. SignExtended(x) = Address("I32", x)
    BY DEF Address
  <1>2. \A L \in Nat : L < Half => StandsFor(Address("I32", x), x, L)
    BY AddressStands
  <1>3. x \in Nat /\ (x < Half => SignExtended(x) = x)
    BY WordFacts DEF SignExtended, Half
  <1>4. QED
    BY <1>1, <1>2, <1>3, SegmentWords

LEMMA MemoryInitPromised ==
  ASSUME StorageKept, BelowSignBit, MemoryInit
  PROVE  Promised!MemoryOp(next, Mem)
  <1> DEFINE to == memories[Mem].data
             n == SignExtended(next.n)
             s == SignExtended(next.s)
             d == MemAddress(next.d)
             fits == /\ Promised!Fits(data_segment, next.s, next.n)
                     /\ Promised!Fits(MemsOf[Mem], next.d, next.n)
  <1>1. Run({"memory.init"})
    BY DEF MemoryInit
  <1>2. /\ Operated(next) /\ next.k = "memory.init" /\ Mem \in DOMAIN memories
        /\ next.on \in DOMAIN instance.mems
    BY <1>1, OnMemory DEF MemoryKinds
  <1>3. next.d \in Words(At(next.on)) /\ next.n \in Words("I32") /\ next.s \in Words("I32")
    BY <1>2 DEF Operated
  <1>4. d \in 0..(Modulus - 1) /\ next.d \in Nat /\ StandsFor(d, next.d, Len(to))
    BY <1>1, <1>2, <1>3, MemoryStands DEF MemoryKinds, Mem
  <1>5. Len(to) \in Nat /\ Len(to) < Modulus /\ MemsOf[Mem] = to
    BY <1>2, MemoryLength DEF Mem
  <1>6. /\ Len(data_segment) \in Nat /\ Len(data_segment) < Half
        /\ Len(data_segment) < Modulus - 1
    BY LenProperties DEF StorageKept, ContentsKept, SegmentKept, BelowSignBit
  <1>7. /\ n \in 0..(Modulus - 1) /\ s \in 0..(Modulus - 1) /\ next.n \in Nat /\ next.s \in Nat
        /\ StandsFor(n, next.n, Len(data_segment)) /\ StandsFor(s, next.s, Len(data_segment))
        /\ next.n < Half => n = next.n
    BY <1>3, <1>6, SegmentStands
  <1>8. /\ HasElements(data_segment, s, n) <=> Promised!Fits(data_segment, next.s, next.n)
        /\ HasElements(data_segment, s, n) => s = next.s /\ n = next.n
    BY <1>6, <1>7, ElementsRange
  <1>9. HasElements(data_segment, s, n) =>
          /\ HasBytes(to, d, n) <=> Promised!Fits(to, next.d, next.n)
          /\ HasBytes(to, d, n) => d = next.d
    <2> SUFFICES ASSUME HasElements(data_segment, s, n)
                 PROVE  /\ HasBytes(to, d, n) <=> Promised!Fits(to, next.d, next.n)
                        /\ HasBytes(to, d, n) => d = next.d
      OBVIOUS
    <2>1. n = next.n
      BY <1>8
    <2>2. StandsFor(n, next.n, Len(to))
      BY <2>1 DEF StandsFor
    <2> HIDE DEF to, n, s, d
    <2>3. QED
      BY <1>4, <1>5, <1>7, <2>2, BytesRange
  <1>10. ASSUME fits
         PROVE  /\ BytesBecome(Mem, Overwrite(to, next.d, Slice(data_segment, next.s, next.n)))
                /\ Done(<<>>)
    <2>1. SetBytes(Mem, Overwrite(to, d, Slice(data_segment, s, n))) /\ Done(<<>>)
      BY <1>5, <1>8, <1>9, <1>10 DEF MemoryInit
    <2>2. d = next.d /\ n = next.n /\ s = next.s
      BY <1>5, <1>8, <1>9, <1>10
    <2> HIDE DEF to, n, s, d
    <2>3. SetBytes(Mem, Overwrite(to, next.d, Slice(data_segment, next.s, next.n)))
      BY <2>1, <2>2
    <2>4. QED
      BY <1>2, <2>1, <2>3, SetBytesBecome
  <1>11. ASSUME ~fits PROVE Trap
    BY <1>5, <1>8, <1>9, <1>11 DEF MemoryInit
  <1> HIDE DEF to
  <1>12. QED
    BY <1>2, <1>5, <1>10, <1>11, InitOp

\* More pages are so many bytes more.
LEMMA PagesMore ==
  ASSUME NEW p \in Nat, NEW n \in Nat
  PROVE  /\ (p + n) * PageSize \in Nat /\ p * PageSize <= (p + n) * PageSize
         /\ (p + n) * PageSize - p * PageSize = n * PageSize
  <1>1. PageSize \in Nat
    BY PageAssumption
  <1>2. QED
    BY <1>1

LEMMA MemoryGrowPromised ==
  ASSUME StorageKept, BelowSignBit, ~AnyGrowth, MemoryGrow
  PROVE  Promised!MemoryOp(next, Mem)
  <1> DEFINE s == memories[Mem].data
             p == PagesOf(Mem)
             a == MemAddress(next.n)
             n == next.n
             limit == memories[Mem].max
  <1>1. Run({"memory.grow"})
    BY DEF MemoryGrow
  <1>2. /\ Operated(next) /\ next.k = "memory.grow" /\ Mem \in DOMAIN memories
        /\ next.on \in DOMAIN instance.mems /\ MemoryKept(memories[Mem])
        /\ At(next.on) = memories[Mem].at
    BY <1>1, OnMemory DEF MemoryKinds
  <1>3. n \in Words(At(next.on)) /\ GrowsUpward(next.on, n)
    BY <1>2 DEF Operated
  <1>4. /\ a \in 0..(Modulus - 1) /\ n \in 0..(Modulus - 1)
        /\ a = n \/ (a >= Modulus - Half /\ n >= Half)
    <2>1. At(next.on) \in {"I32", "I64"} /\ a = Address(At(next.on), n)
      BY <1>2, MemoryAt DEF MemAddress
    <2>2. QED
      BY <1>3, <2>1, AddressFacts
  <1>5. /\ MemsOf[Mem] = s /\ s \in Seq(0..1) /\ Len(s) = p * PageSize /\ p = Len(s) \div PageSize
        /\ p \in Nat /\ limit \in Nat
    BY <1>2, MemoryFacts DEF PagesOf, MemsOf
  <1>6. p + a < Modulus
    BY <1>2, <1>3 DEF GrowsUpward, MemAddress, Mem, At, Modulus
  <1>7. NewPages(Mem, a) = p + a
    <2>1. PICK x : x = p + a
      OBVIOUS
    <2>2. x \in 0..(Modulus - 1) /\ Modulus \in Nat
      BY <1>4, <1>5, <1>6, <2>1, WordFacts
    <2>3. x % Modulus = x
      BY <2>2
    <2>4. QED
      BY <2>1, <2>3 DEF NewPages, Word, Modulus
  <1>8. LimitsOf.mems[Mem] = limit
    BY <1>2 DEF LimitsOf
  <1>9. MaxPages \in Nat /\ MaxPages < Half
    BY PageAssumption DEF Half
  <1>10. ASSUME NEW pages, MemoryStays(pages)
         PROVE  /\ p + n > limit \/ p + n > MaxPages
                /\ Done(<<-1>>) /\ Unchanged
    <2>1. pages = p + a /\ (pages > MaxPages \/ pages > limit) /\ Done(<<-1>>) /\ Unchanged
      BY <1>7, <1>10 DEF MemoryStays
    <2>2. /\ Half \in Nat /\ Half > 0 /\ Modulus \in Nat
          /\ Modulus >= Half + Half + Half + Half
      BY WordFacts
    <2>3. p \in Nat /\ limit \in Nat
      BY <1>5
    <2>4. pages = p + a /\ (pages > MaxPages \/ pages > limit)
      BY <2>1
    <2> HIDE DEF p, a, n, limit
    <2>5. p + n > limit \/ p + n > MaxPages
      BY ONLY <1>4, <1>9, <2>2, <2>3, <2>4
    <2>6. QED
      BY <2>1, <2>5
  <1>11. ASSUME NEW pages, MemoryGrowsTo(pages)
         PROVE  /\ p + n <= limit /\ p + n <= MaxPages
                /\ BytesBecome(Mem, s \o Repeat(0, n * PageSize))
                /\ Done(<<p>>)
    <2>1. pages = p + a /\ pages <= MaxPages /\ pages <= limit /\ Done(<<p>>)
          /\ tables' = tables /\ data_segment' = data_segment /\ element_segment' = element_segment
      BY <1>7, <1>11 DEF MemoryGrowsTo
    <2>2. a = n /\ n \in Nat /\ pages \in Nat
      <3>1. /\ Half \in Nat /\ Half > 0 /\ Modulus \in Nat
            /\ Modulus >= Half + Half + Half + Half
        BY WordFacts
      <3>2. p \in Nat
        BY <1>5
      <3>3. pages = p + a /\ pages <= MaxPages
        BY <2>1
      <3> HIDE DEF p, a, n, limit
      <3>4. QED
        BY ONLY <1>4, <1>9, <3>1, <3>2, <3>3
    <2>3. pages * PageSize \in Nat /\ Len(s) <= pages * PageSize
          /\ pages * PageSize - Len(s) = n * PageSize
      <3>1. p \in Nat /\ n \in Nat /\ pages = p + n /\ Len(s) = p * PageSize
        BY <1>5, <2>1, <2>2
      <3> HIDE DEF p, n, s
      <3>2. /\ (p + n) * PageSize \in Nat /\ p * PageSize <= (p + n) * PageSize
            /\ (p + n) * PageSize - p * PageSize = n * PageSize
        BY <3>1, PagesMore
      <3>3. QED
        BY ONLY <3>1, <3>2
    <2>4. Resized(s, pages * PageSize, 0) = s \o Repeat(0, n * PageSize)
      <3>1. PICK size, more : size = pages * PageSize /\ more = n * PageSize
        OBVIOUS
      <3>2. size \in Nat /\ size >= Len(s) /\ size - Len(s) = more
        BY <1>5, <2>3, <3>1, LenProperties
      <3>3. 0 \in 0..1
        OBVIOUS
      <3>4. s \in Seq(0..1)
        BY <1>5
      <3> HIDE DEF s, n
      <3>5. Resized(s, size, 0) = s \o Repeat(0, size - Len(s))
        <4>1. size \in Nat /\ size >= Len(s)
          BY <3>2
        <4>2. QED
          BY <3>4, <4>1, LargerIsLonger
      <3>6. Resized(s, size, 0) = s \o Repeat(0, more)
        BY <3>2, <3>5, Zenon
      <3>7. QED
        BY <3>1, <3>6, Zenon
    <2>5. MemsOf' = [MemsOf EXCEPT ![Mem] = Resized(s, pages * PageSize, 0)]
      <3>1. PICK new : new = Resized(s, pages * PageSize, 0)
        OBVIOUS
      <3>2. /\ DOMAIN memories' = DOMAIN memories
            /\ \A m \in DOMAIN memories :
                 memories'[m].data = IF m = Mem THEN new ELSE memories[m].data
        BY <1>2, <1>11, <3>1, GrownMemories
      <3>3. MemsOf' = [MemsOf EXCEPT ![Mem] = new]
        BY <3>2 DEF MemsOf
      <3>4. QED
        BY <3>1, <3>3
    <2>6. BytesBecome(Mem, s \o Repeat(0, n * PageSize))
      BY <2>1, <2>4, <2>5 DEF BytesBecome, TabsOf
    <2>7. QED
      BY <2>1, <2>2, <2>6
  <1>12. PICK pages : MemoryStays(pages) \/ MemoryGrowsTo(pages)
    BY GrowsMemory
  <1> HIDE DEF s, p, limit
  <1>13. QED
    BY <1>2, <1>5, <1>8, <1>10, <1>11, <1>12, GrowOp

(***************************************************************************)
(* Each op of a table is the promised one, no table being as large as half *)
(* of the 32-bit words.                                                    *)
(***************************************************************************)
ShortTables == Allocatable < Half

LEMMA TableStands ==
  ASSUME StorageKept, ShortTables, NEW i \in DOMAIN instance.tabs, NEW j \in DOMAIN instance.tabs,
         NEW at \in {"I32", "I64"}, NEW x \in Words(at)
  PROVE  /\ Address(at, x) \in 0..(Modulus - 1) /\ x \in Nat
         /\ StandsFor(Address(at, x), x, Len(tables[instance.tabs[i]].elem))
         /\ TabsOf[instance.tabs[i]] = tables[instance.tabs[i]].elem
         /\ Len(tables[instance.tabs[i]].elem) \in Nat
         /\ Len(tables[instance.tabs[i]].elem) < Modulus - 1
  <1>1. instance.tabs[i] \in DOMAIN tables /\ TableKept(tables[instance.tabs[i]])
    BY TableAt
  <1>2. PICK L : L = Len(tables[instance.tabs[i]].elem)
    OBVIOUS
  <1>3. L \in Nat /\ L <= Allocatable /\ L < Modulus - 1
    BY <1>1, <1>2, TableFacts
  <1>4. L < Half
    BY <1>3, StoresAssumption, WordFacts DEF ShortTables
  <1>5. StandsFor(Address(at, x), x, L)
    BY <1>3, <1>4, AddressStands
  <1>6. Address(at, x) \in 0..(Modulus - 1) /\ x \in Nat
    BY AddressFacts
  <1>7. TabsOf[instance.tabs[i]] = tables[instance.tabs[i]].elem
    BY <1>1 DEF TabsOf
  <1>8. QED
    BY <1>2, <1>3, <1>5, <1>6, <1>7

\* One operand: an element that is there or not.
LEMMA ElementStands ==
  ASSUME StorageKept, ShortTables, NEW ks, ks \subseteq {"table.get", "table.set"}, Run(ks)
  PROVE  /\ TabsOf[Tab] = tables[Tab].elem
         /\ TabAddress(next.d) < Len(tables[Tab].elem) <=> Promised!Fits(TabsOf[Tab], next.d, 1)
         /\ TabAddress(next.d) < Len(tables[Tab].elem) => TabAddress(next.d) = next.d
  <1>1. ks \subseteq TableKinds
    BY DEF TableKinds
  <1>2. /\ Operated(next) /\ next.k \in ks /\ next.on \in DOMAIN instance.tabs
        /\ TabAt(next.on) = tables[Tab].at
    BY <1>1, OnTable
  <1>3. next.d \in Words(TabAt(next.on)) /\ TabAt(next.on) \in {"I32", "I64"}
    BY <1>2, TableAt DEF Operated
  <1>4. PICK s, a, d, L : s = tables[Tab].elem /\ a = TabAddress(next.d) /\ d = next.d /\ L = Len(s)
    OBVIOUS
  <1>5. a = Address(TabAt(next.on), next.d)
    BY <1>2, <1>4 DEF TabAddress
  <1>6. a \in 0..(Modulus - 1) /\ d \in Nat /\ StandsFor(a, d, L) /\ TabsOf[Tab] = s /\ L \in Nat
    <2>1. PICK i \in DOMAIN instance.tabs : i = next.on
      BY <1>2
    <2>2. PICK at \in {"I32", "I64"} : at = TabAt(next.on)
      BY <1>3
    <2>3. d \in Words(at)
      BY <1>3, <1>4, <2>2
    <2>4. /\ Address(at, d) \in 0..(Modulus - 1) /\ d \in Nat
          /\ StandsFor(Address(at, d), d, Len(tables[instance.tabs[i]].elem))
          /\ TabsOf[instance.tabs[i]] = tables[instance.tabs[i]].elem
          /\ Len(tables[instance.tabs[i]].elem) \in Nat
      BY ONLY StorageKept, ShortTables, <2>3, TableStands
    <2>5. instance.tabs[i] = Tab /\ a = Address(at, d)
      BY <1>4, <1>5, <2>1, <2>2 DEF Tab
    <2>6. QED
      BY <1>4, <2>4, <2>5
  <1>7. Promised!Fits(s, d, 1) <=> d + 1 <= L
    BY <1>4, SameOperators
  <1>8. (a < L <=> d + 1 <= L) /\ (a < L => a = d)
    BY ONLY <1>6, WordFacts DEF StandsFor
  <1>9. QED
    BY <1>4, <1>6, <1>7, <1>8

LEMMA TableGetPromised ==
  ASSUME StorageKept, ShortTables, TableGet
  PROVE  Promised!TableOp(next, Tab)
  <1> DEFINE s == tables[Tab].elem
             i == TabAddress(next.d)
             fits == Promised!Fits(TabsOf[Tab], next.d, 1)
  <1>1. Run({"table.get"}) /\ next.k = "table.get"
    BY DEF TableGet, Run
  <1>2. TabsOf[Tab] = s /\ (i < Len(s) <=> fits) /\ (i < Len(s) => i = next.d)
    BY <1>1, ElementStands
  <1>3. ASSUME fits PROVE Done(<<s[next.d + 1]>>) /\ Unchanged
    <2>1. Done(<<s[i + 1]>>) /\ Unchanged
      BY <1>2, <1>3 DEF TableGet
    <2>2. QED
      BY <1>2, <1>3, <2>1
  <1>4. ASSUME ~fits PROVE Trap
    BY <1>2, <1>4 DEF TableGet
  <1> HIDE DEF s
  <1>5. QED
    BY <1>1, <1>2, <1>3, <1>4, GetOp

LEMMA TableSetPromised ==
  ASSUME StorageKept, ShortTables, TableSet
  PROVE  Promised!TableOp(next, Tab)
  <1> DEFINE s == tables[Tab].elem
             i == TabAddress(next.d)
             fits == Promised!Fits(TabsOf[Tab], next.d, 1)
  <1>1. Run({"table.set"})
    BY DEF TableSet
  <1>2. next.k = "table.set" /\ Tab \in DOMAIN tables
    BY <1>1, OnTable DEF TableKinds
  <1>3. TabsOf[Tab] = s /\ (i < Len(s) <=> fits) /\ (i < Len(s) => i = next.d)
    BY <1>1, ElementStands
  <1>4. ASSUME fits
        PROVE  ElementsBecome(Tab, Overwrite(s, next.d, <<next.v>>)) /\ Done(<<>>)
    <2>1. SetElements(Tab, Overwrite(s, i, <<next.v>>)) /\ Done(<<>>)
      BY <1>3, <1>4 DEF TableSet
    <2>2. SetElements(Tab, Overwrite(s, next.d, <<next.v>>))
      BY <1>3, <1>4, <2>1
    <2>3. QED
      BY <1>2, <2>1, <2>2, SetElementsBecome
  <1>5. ASSUME ~fits PROVE Trap
    BY <1>3, <1>5 DEF TableSet
  <1> HIDE DEF s
  <1>6. QED
    BY <1>2, <1>3, <1>4, <1>5, SetOp

LEMMA TableSizePromised ==
  ASSUME StorageKept, ShortTables, TableSize
  PROVE  Promised!TableOp(next, Tab)
  <1>1. next.k = "table.size" /\ Tab \in DOMAIN tables
    BY OnTable DEF TableSize, TableKinds
  <1>2. TabsOf[Tab] = tables[Tab].elem
    BY <1>1 DEF TabsOf
  <1>3. Done(<<Len(TabsOf[Tab])>>) /\ Unchanged
    BY <1>2 DEF TableSize
  <1>4. QED
    BY <1>1, <1>3, TableSizeOp

LEMMA TableFillPromised ==
  ASSUME StorageKept, ShortTables, TableFill
  PROVE  Promised!TableOp(next, Tab)
  <1> DEFINE s == tables[Tab].elem
             i == TabAddress(next.d)
             n == TabAddress(next.n)
             fits == Promised!Fits(TabsOf[Tab], next.d, next.n)
  <1>1. Run({"table.fill"})
    BY DEF TableFill
  <1>2. /\ Operated(next) /\ next.k = "table.fill" /\ Tab \in DOMAIN tables
        /\ next.on \in DOMAIN instance.tabs /\ TabAt(next.on) = tables[Tab].at
    BY <1>1, OnTable DEF TableKinds
  <1>3. /\ next.d \in Words(TabAt(next.on)) /\ next.n \in Words(TabAt(next.on))
        /\ TabAt(next.on) \in {"I32", "I64"}
    BY <1>2, TableAt DEF Operated
  <1>4. /\ i \in 0..(Modulus - 1) /\ n \in 0..(Modulus - 1) /\ next.d \in Nat /\ next.n \in Nat
        /\ StandsFor(i, next.d, Len(s)) /\ StandsFor(n, next.n, Len(s))
        /\ Len(s) \in Nat /\ Len(s) < Modulus - 1 /\ TabsOf[Tab] = s
    BY <1>2, <1>3, TableStands DEF TabAddress, Tab
  <1>5. /\ HasElements(s, i, n) <=> fits
        /\ HasElements(s, i, n) => i = next.d /\ n = next.n
    BY <1>4, ElementsRange
  <1>6. ASSUME fits
        PROVE  ElementsBecome(Tab, Overwrite(s, next.d, Repeat(next.v, next.n))) /\ Done(<<>>)
    <2>1. SetElements(Tab, Overwrite(s, next.d, Repeat(next.v, next.n))) /\ Done(<<>>)
      BY <1>5, <1>6 DEF TableFill
    <2>2. QED
      BY <1>2, <2>1, SetElementsBecome
  <1>7. ASSUME ~fits PROVE Trap
    BY <1>5, <1>7 DEF TableFill
  <1> HIDE DEF s
  <1>8. QED
    BY <1>2, <1>4, <1>6, <1>7, TableFillOp

LEMMA TableCopyPromised ==
  ASSUME StorageKept, ShortTables, TableCopy
  PROVE  Promised!TableOp(next, Tab)
  <1> DEFINE to == tables[Tab].elem
             source == tables[instance.tabs[next.from]]
             from == source.elem
             n == Address(IF tables[Tab].at = "I64" /\ source.at = "I64" THEN "I64" ELSE "I32",
                          next.n)
             s == Address(source.at, next.s)
             d == TabAddress(next.d)
             fits == /\ Promised!Fits(TabsOf[instance.tabs[next.from]], next.s, next.n)
                     /\ Promised!Fits(TabsOf[Tab], next.d, next.n)
  <1>1. Run({"table.copy"})
    BY DEF TableCopy
  <1>2. /\ Operated(next) /\ next.k = "table.copy" /\ Tab \in DOMAIN tables
        /\ next.on \in DOMAIN instance.tabs /\ TabAt(next.on) = tables[Tab].at
    BY <1>1, OnTable DEF TableKinds
  <1>3. /\ next.d \in Words(TabAt(next.on)) /\ next.from \in DOMAIN instance.tabs
        /\ next.s \in Words(TabAt(next.from)) /\ next.n \in Words(CountAt(next.on, next.from))
    BY <1>2 DEF Operated
  <1>4. /\ TabAt(next.from) = source.at /\ source.at \in {"I32", "I64"}
        /\ tables[Tab].at \in {"I32", "I64"}
    BY <1>2, <1>3, TableAt
  <1>5. /\ CountAt(next.on, next.from) \in {"I32", "I64"}
        /\ n = Address(CountAt(next.on, next.from), next.n)
    BY <1>2, <1>4 DEF CountAt
  <1>6. /\ d \in 0..(Modulus - 1) /\ next.d \in Nat /\ StandsFor(d, next.d, Len(to))
        /\ TabsOf[Tab] = to /\ Len(to) \in Nat /\ Len(to) < Modulus - 1
    BY <1>2, <1>3, <1>4, TableStands DEF TabAddress, Tab
  <1>7. /\ s \in 0..(Modulus - 1) /\ next.s \in Nat /\ StandsFor(s, next.s, Len(from))
        /\ TabsOf[instance.tabs[next.from]] = from /\ Len(from) \in Nat /\ Len(from) < Modulus - 1
    BY <1>3, <1>4, TableStands
  <1>8. /\ n \in 0..(Modulus - 1) /\ next.n \in Nat
        /\ StandsFor(n, next.n, Len(to)) /\ StandsFor(n, next.n, Len(from))
    BY <1>2, <1>3, <1>5, TableStands DEF Tab
  <1>9. /\ HasElements(to, d, n) <=> Promised!Fits(to, next.d, next.n)
        /\ HasElements(to, d, n) => d = next.d /\ n = next.n
    BY <1>6, <1>8, ElementsRange
  <1>10. /\ HasElements(from, s, n) <=> Promised!Fits(from, next.s, next.n)
         /\ HasElements(from, s, n) => s = next.s /\ n = next.n
    <2>1. PICK q, a, b, x, y : q = from /\ a = s /\ b = n /\ x = next.s /\ y = next.n
      OBVIOUS
    <2>2. /\ a \in 0..(Modulus - 1) /\ b \in 0..(Modulus - 1) /\ x \in Nat /\ y \in Nat
          /\ StandsFor(a, x, Len(q)) /\ StandsFor(b, y, Len(q))
          /\ Len(q) \in Nat /\ Len(q) < Modulus - 1
      BY <1>7, <1>8, <2>1
    <2>3. /\ HasElements(q, a, b) <=> Promised!Fits(q, x, y)
          /\ HasElements(q, a, b) => a = x /\ b = y
      BY ONLY <2>2, ElementsRange
    <2>4. QED
      BY ONLY <2>1, <2>3
  <1>11. ASSUME fits
         PROVE  /\ ElementsBecome(Tab, Overwrite(to, next.d, Slice(from, next.s, next.n)))
                /\ Done(<<>>)
    <2>1. SetElements(Tab, Overwrite(to, d, Slice(from, s, n))) /\ Done(<<>>)
      BY <1>6, <1>7, <1>9, <1>10, <1>11 DEF TableCopy
    <2>2. d = next.d /\ n = next.n /\ s = next.s
      BY <1>6, <1>7, <1>9, <1>10, <1>11
    <2> HIDE DEF to, from, n, s, d
    <2>3. SetElements(Tab, Overwrite(to, next.d, Slice(from, next.s, next.n)))
      BY <2>1, <2>2
    <2>4. QED
      BY <1>2, <2>1, <2>3, SetElementsBecome
  <1>12. ASSUME ~fits PROVE Trap
    BY <1>6, <1>7, <1>9, <1>10, <1>12 DEF TableCopy
  <1> HIDE DEF to, from
  <1>13. QED
    BY <1>2, <1>6, <1>7, <1>11, <1>12, TableCopyOp

LEMMA TableInitPromised ==
  ASSUME StorageKept, BelowSignBit, ShortTables, TableInit
  PROVE  Promised!TableOp(next, Tab)
  <1> DEFINE to == tables[Tab].elem
             n == SignExtended(next.n)
             s == SignExtended(next.s)
             d == TabAddress(next.d)
             fits == /\ Promised!Fits(element_segment, next.s, next.n)
                     /\ Promised!Fits(TabsOf[Tab], next.d, next.n)
  <1>1. Run({"table.init"})
    BY DEF TableInit
  <1>2. /\ Operated(next) /\ next.k = "table.init" /\ Tab \in DOMAIN tables
        /\ next.on \in DOMAIN instance.tabs /\ TabAt(next.on) = tables[Tab].at
    BY <1>1, OnTable DEF TableKinds
  <1>3. /\ next.d \in Words(TabAt(next.on)) /\ next.n \in Words("I32") /\ next.s \in Words("I32")
        /\ TabAt(next.on) \in {"I32", "I64"}
    BY <1>2, TableAt DEF Operated
  <1>4. /\ d \in 0..(Modulus - 1) /\ next.d \in Nat /\ StandsFor(d, next.d, Len(to))
        /\ TabsOf[Tab] = to /\ Len(to) \in Nat /\ Len(to) < Modulus - 1
    BY <1>2, <1>3, TableStands DEF TabAddress, Tab
  <1>5. n \in 0..(Modulus - 1) /\ next.n \in Nat /\ StandsFor(n, next.n, Len(to))
    <2>1. n = Address("I32", next.n)
      BY DEF Address
    <2>2. QED
      BY <1>2, <1>3, <2>1, TableStands DEF Tab
  <1>6. /\ Len(element_segment) \in Nat /\ Len(element_segment) < Half
        /\ Len(element_segment) < Modulus - 1
    BY LenProperties DEF StorageKept, ContentsKept, SegmentKept, BelowSignBit
  <1>7. /\ s \in 0..(Modulus - 1) /\ next.s \in Nat
        /\ StandsFor(n, next.n, Len(element_segment)) /\ StandsFor(s, next.s, Len(element_segment))
    BY <1>3, <1>6, SegmentStands
  <1>8. /\ HasElements(element_segment, s, n) <=> Promised!Fits(element_segment, next.s, next.n)
        /\ HasElements(element_segment, s, n) => s = next.s /\ n = next.n
    BY <1>5, <1>6, <1>7, ElementsRange
  <1>9. /\ HasElements(to, d, n) <=> Promised!Fits(to, next.d, next.n)
        /\ HasElements(to, d, n) => d = next.d /\ n = next.n
    BY <1>4, <1>5, ElementsRange
  <1>10. ASSUME fits
         PROVE  /\ ElementsBecome(Tab, Overwrite(to, next.d, Slice(element_segment, next.s, next.n)))
                /\ Done(<<>>)
    <2>1. SetElements(Tab, Overwrite(to, d, Slice(element_segment, s, n))) /\ Done(<<>>)
      BY <1>4, <1>8, <1>9, <1>10 DEF TableInit
    <2>2. d = next.d /\ n = next.n /\ s = next.s
      BY <1>4, <1>8, <1>9, <1>10
    <2> HIDE DEF to, n, s, d
    <2>3. SetElements(Tab, Overwrite(to, next.d, Slice(element_segment, next.s, next.n)))
      BY <2>1, <2>2
    <2>4. QED
      BY <1>2, <2>1, <2>3, SetElementsBecome
  <1>11. ASSUME ~fits PROVE Trap
    BY <1>4, <1>8, <1>9, <1>11 DEF TableInit
  <1> HIDE DEF to
  <1>12. QED
    BY <1>2, <1>4, <1>10, <1>11, TableInitOp

LEMMA TableGrowPromised ==
  ASSUME StorageKept, ShortTables, TableGrow
  PROVE  Promised!TableOp(next, Tab)
  <1> DEFINE s == tables[Tab].elem
             a == TabAddress(next.n)
             n == next.n
             limit == tables[Tab].max
             largest == LargestTable(tables[Tab])
  <1>1. Run({"table.grow"})
    BY DEF TableGrow
  <1>2. /\ Operated(next) /\ next.k = "table.grow" /\ Tab \in DOMAIN tables
        /\ next.on \in DOMAIN instance.tabs /\ TableKept(tables[Tab])
        /\ TabAt(next.on) = tables[Tab].at
    BY <1>1, OnTable DEF TableKinds
  <1>3. n \in Words(TabAt(next.on)) /\ next.v \in 0..1
    BY <1>2 DEF Operated, Refs
  <1>4. TabAt(next.on) \in {"I32", "I64"} /\ a = Address(TabAt(next.on), n)
    BY <1>2, TableAt DEF TabAddress
  <1>5. /\ a \in 0..(Modulus - 1) /\ n \in 0..(Modulus - 1)
        /\ a = n \/ (a >= Modulus - Half /\ n >= Half)
    BY <1>3, <1>4, AddressFacts
  <1>6. PICK L : L = Len(s)
    OBVIOUS
  <1>7. /\ TabsOf[Tab] = s /\ s \in Seq(0..1) /\ L \in Nat /\ L <= Allocatable
        /\ limit \in Nat /\ limit < Modulus
    BY <1>2, <1>6, TableFacts DEF TabsOf
  <1>8. LimitsOf.tabs[Tab] = largest
    BY <1>2 DEF LimitsOf
  <1>9. /\ Half \in Nat /\ Half > 0 /\ Modulus \in Nat /\ Modulus >= Half + Half + Half + Half
        /\ Allocatable \in Nat /\ Allocatable < Half
    BY WordFacts, StoresAssumption DEF ShortTables
  <1>10. largest = limit \/ (limit >= Half + Half /\ largest = Half + Half - 1)
    BY PowersAssumption DEF LargestTable, Half
  <1>11. CheckedAdd(L, a) = IF L + a < Modulus THEN L + a ELSE -1
    BY SumFacts
  <1>12. ASSUME NEW size, TableStays(size)
         PROVE  /\ L + n > largest \/ L + n > Allocatable
                /\ Done(<<-1>>) /\ Unchanged
    <2>1. PICK c : c = CheckedAdd(L, a)
      OBVIOUS
    <2>2. (c = -1 \/ c > limit) /\ Done(<<-1>>) /\ Unchanged
      BY <1>6, <1>12, <2>1 DEF TableStays, Overflow
    <2>3. (c = -1 \/ c > limit) /\ c = IF L + a < Modulus THEN L + a ELSE -1
      BY <1>11, <2>1, <2>2
    <2>4. L \in Nat /\ limit \in Nat /\ limit < Modulus
      BY <1>7
    <2> HIDE DEF a, n, limit, largest
    <2>5. L + n > largest \/ L + n > Allocatable
      BY ONLY <1>5, <1>9, <1>10, <2>3, <2>4
    <2>6. QED
      BY <2>2, <2>5
  <1>13. ASSUME NEW size, TableGrowsTo(size)
         PROVE  /\ L + n <= largest
                /\ ElementsBecome(Tab, s \o Repeat(next.v, n))
                /\ Done(<<L>>)
    <2>1. /\ size \in Nat /\ size <= Allocatable /\ size <= limit /\ size = L + a /\ Done(<<L>>)
          /\ memories' = memories /\ data_segment' = data_segment /\ element_segment' = element_segment
      BY <1>6, <1>13 DEF TableGrowsTo
    <2>2. a = n /\ L + n <= largest
      <3>1. L \in Nat /\ limit \in Nat
        BY <1>7
      <3>2. size \in Nat /\ size <= Allocatable /\ size <= limit /\ size = L + a
        BY <2>1
      <3> HIDE DEF a, n, limit, largest
      <3>3. QED
        BY ONLY <1>5, <1>9, <1>10, <3>1, <3>2
    <2>3. Resized(s, size, next.v) = s \o Repeat(next.v, n)
      <3>1. s \in Seq(0..1) /\ size \in Nat /\ size >= L /\ size - L = n
        BY <1>5, <1>7, <2>1, <2>2
      <3> HIDE DEF s, n
      <3>2. size >= Len(s)
        BY <1>6, <3>1 DEF s
      <3>3. Resized(s, size, next.v) = s \o Repeat(next.v, size - Len(s))
        <4>1. s \in Seq(0..1) /\ size \in Nat /\ next.v \in 0..1
          BY <1>3, <3>1
        <4>2. PICK v : v = next.v
          OBVIOUS
        <4>3. Resized(s, size, v) = s \o Repeat(v, size - Len(s))
          BY <3>2, <4>1, <4>2, LargerIsLonger
        <4>4. QED
          BY <4>2, <4>3
      <3>4. size - Len(s) = n
        BY <1>6, <3>1 DEF s
      <3>5. QED
        BY <3>3, <3>4, Zenon
    <2>4. TabsOf' = [TabsOf EXCEPT ![Tab] = Resized(s, size, next.v)]
      <3>1. PICK new : new = Resized(s, size, next.v)
        OBVIOUS
      <3>2. /\ DOMAIN tables' = DOMAIN tables
            /\ \A t \in DOMAIN tables : tables'[t].elem = IF t = Tab THEN new ELSE tables[t].elem
        BY <1>2, <1>3, <1>13, <3>1, GrownTables
      <3>3. TabsOf' = [TabsOf EXCEPT ![Tab] = new]
        BY <3>2 DEF TabsOf
      <3>4. QED
        BY <3>1, <3>3
    <2>5. ElementsBecome(Tab, s \o Repeat(next.v, n))
      BY <2>1, <2>3, <2>4 DEF ElementsBecome, MemsOf
    <2>6. QED
      BY <2>1, <2>2, <2>5
  <1>14. PICK size : TableStays(size) \/ TableGrowsTo(size)
    BY GrowsTable
  <1>15. L = Len(TabsOf[Tab])
    BY <1>6, <1>7
  <1> HIDE DEF s, limit, largest
  <1>16. QED
    BY <1>2, <1>7, <1>8, <1>12, <1>13, <1>14, <1>15, TableGrowOp

(***************************************************************************)
(* Every step is a promised one.                                           *)
(***************************************************************************)
LEMMA DropsPromised == ASSUME StorageKept, TypesStay, DataDrop \/ ElemDrop PROVE Promised!Execute
  <1>1. LimitsOf' = LimitsOf
    BY LimitsStay
  <1>2. /\ next.k \in {"data.drop", "elem.drop"} /\ next # Idle /\ next' = Idle
        /\ instance' = instance /\ Done(<<>>)
    BY DEF DataDrop, ElemDrop, Run, Idle
  <1>3. \/ next.k = "data.drop" /\ data_segment' = <<>> /\ UNCHANGED <<MemsOf, TabsOf, element_segment>>
        \/ next.k = "elem.drop" /\ element_segment' = <<>> /\ UNCHANGED <<MemsOf, TabsOf, data_segment>>
    BY DEF DataDrop, ElemDrop, Run, MemsOf, TabsOf
  <1>4. Promised!Drop
    BY <1>3, Zenon DEF Promised!Drop, MemsOf, TabsOf
  <1>5. Promised!Done(<<>>)
    BY <1>2, Zenon DEF Promised!Done, Done
  <1>6. QED
    BY <1>1, <1>2, <1>4, <1>5, SameOperators DEF Promised!Execute, LimitsOf

LEMMA FetchesPromised == ASSUME StorageKept, TypesStay, Fetches PROVE Promised!Fetch
  <1>1. PICK op : Fetch(op) /\ Operated(op)
    BY FetchesAccess, FetchesMemoryGrow, FetchesMemory, FetchesTableGrow, FetchesTable
       DEF Fetches, Fetched
  <1>2. /\ next = Idle /\ next' = op /\ out' = [trap |-> FALSE, push |-> <<>>]
        /\ Unchanged /\ instance' = instance
    BY <1>1 DEF Fetches, Fetch
  <1>3. op # Idle
    BY <1>1 DEF Operated, Idle, MemoryKinds, TableKinds
  <1>4. LimitsOf' = LimitsOf
    BY LimitsStay
  <1>5. UNCHANGED Promised!contents
    BY <1>2 DEF Unchanged, Promised!contents
  <1>6. QED
    BY <1>2, <1>3, <1>4, <1>5, SameOperators, Zenon DEF Promised!Fetch, LimitsOf

LEMMA MemoryStepPromised ==
  ASSUME StorageKept, BelowSignBit, ~AnyGrowth, TypesStay,
         Load \/ Store \/ MemorySize \/ MemoryGrow \/ MemoryFill \/ MemoryCopy \/ MemoryInit
  PROVE  Promised!Execute
  <1>1. \E ks : ks \subseteq MemoryKinds /\ Run(ks)
    BY DEF Load, Store, MemorySize, MemoryGrow, MemoryFill, MemoryCopy, MemoryInit, MemoryKinds
  <1>2. Promised!MemoryOp(next, Mem)
    BY LoadPromised, StorePromised, MemorySizePromised, MemoryGrowPromised, MemoryFillPromised,
       MemoryCopyPromised, MemoryInitPromised
  <1>3. QED
    BY <1>1, <1>2, MemoryExecuted

LEMMA TableStepPromised ==
  ASSUME StorageKept, BelowSignBit, ShortTables, TypesStay,
         \/ TableGet \/ TableSet \/ TableSize \/ TableGrow \/ TableFill \/ TableCopy \/ TableInit
  PROVE  Promised!Execute
  <1>1. \E ks : ks \subseteq TableKinds /\ Run(ks)
    BY DEF TableGet, TableSet, TableSize, TableGrow, TableFill, TableCopy, TableInit, TableKinds
  <1>2. Promised!TableOp(next, Tab)
    BY TableGetPromised, TableSetPromised, TableSizePromised, TableGrowPromised, TableFillPromised,
       TableCopyPromised, TableInitPromised
  <1>3. QED
    BY <1>1, <1>2, TableExecuted

LEMMA StepPromised ==
  ASSUME ~AnyGrowth, ShortTables
  PROVE  StorageKept /\ BelowSignBit /\ [Next]_vars => [Promised!Next]_(Promised!vars)
  <1> SUFFICES ASSUME StorageKept, BelowSignBit, [Next]_vars
               PROVE  [Promised!Next]_(Promised!vars)
    OBVIOUS
  <1>1. TypesStay
    BY StepStays
  <1>2. CASE Next
    <2>1. Promised!Fetch \/ Promised!Execute
      BY <1>1, <1>2, FetchesPromised, DropsPromised, MemoryStepPromised, TableStepPromised DEF Next
    <2>2. QED
      BY <2>1 DEF Promised!Next
  <1>3. CASE UNCHANGED vars
    <2>1. LimitsOf' = LimitsOf
      BY <1>1, LimitsStay
    <2>2. UNCHANGED Promised!contents
      BY <1>3 DEF vars, Promised!contents
    <2>3. next' = next /\ out' = out /\ instance' = instance
      BY <1>3 DEF vars
    <2>4. UNCHANGED Promised!vars
      BY <1>3, <2>1, <2>3 DEF Promised!vars, LimitsOf, vars
    <2>5. QED
      BY <2>4
  <1>4. QED
    BY <1>2, <1>3

\* Every op, done with wrapped, saturated and sign-extended words, does what exact
\* unsigned arithmetic says, as long as no 32-bit memory reaches half of the address
\* space (two GiB), no segment and no table does, and no sum of memory.grow wraps.
THEOREM StoragePromised ==
  ASSUME ~AnyGrowth, ShortTables
  PROVE  Spec /\ []BelowSignBit => KeepsPromise
  <1>1. Init => next = Promised!Idle
    BY SameOperators DEF Init
  <1>2. StorageKept /\ BelowSignBit /\ [Next]_vars => [Promised!Next]_(Promised!vars)
    BY StepPromised
  <1>3. QED
    BY <1>1, <1>2, AlwaysKept, PTL DEF Spec, KeepsPromise, Promised!Spec

----------------------------------------------------------------------------
(***************************************************************************)
(* The wrapping sum of memory.grow is the one way for pages to go.         *)
(***************************************************************************)
MinimaGrow == \A m \in DOMAIN memories : memories'[m].min >= memories[m].min

LEMMA MinimaStay ==
  ASSUME StorageKept,
         \/ memories' = memories
         \/ \E m \in DOMAIN memories : \E s : SetBytes(m, s)
  PROVE  MinimaGrow
  <1>1. \A m \in DOMAIN memories : memories[m].min \in Nat
    BY MemoryFacts DEF StorageKept, ContentsKept
  <1>2. \A m \in DOMAIN memories : memories'[m].min = memories[m].min
    BY SetBytesFacts
  <1>3. QED
    BY <1>1, <1>2 DEF MinimaGrow

LEMMA MemoryGrowGrows == ASSUME StorageKept, ~AnyGrowth, MemoryGrow PROVE MinimaGrow
  <1>1. Run({"memory.grow"})
    BY DEF MemoryGrow
  <1>2. /\ Operated(next) /\ next.k = "memory.grow" /\ Mem \in DOMAIN memories
        /\ MemoryKept(memories[Mem])
    BY <1>1, OnMemory DEF MemoryKinds
  <1>3. next.n \in Words(At(next.on)) /\ GrowsUpward(next.on, next.n)
    BY <1>2 DEF Operated
  <1>4. MemAddress(next.n) \in Nat
    BY <1>1, <1>3, OnMemory DEF MemoryKinds
  <1>5. PagesOf(Mem) = memories[Mem].min /\ PagesOf(Mem) \in Nat
    BY <1>2, MemoryFacts DEF PagesOf
  <1>6. PagesOf(Mem) + MemAddress(next.n) < Modulus
    BY <1>2, <1>3 DEF GrowsUpward, MemAddress, Mem, At, Modulus
  <1>7. ASSUME NEW pages, MemoryStays(pages) PROVE MinimaGrow
    BY <1>7, MinimaStay DEF MemoryStays, Unchanged
  <1>8. ASSUME NEW pages, MemoryGrowsTo(pages) PROVE MinimaGrow
    <2>1. PICK x : x = PagesOf(Mem) + MemAddress(next.n)
      OBVIOUS
    <2>2. x \in 0..(Modulus - 1) /\ x >= PagesOf(Mem) /\ Modulus \in Nat
      BY <1>4, <1>5, <1>6, <2>1, WordFacts
    <2>3. x % Modulus = x
      BY <2>2
    <2>4. pages = x
      BY <1>8, <2>1, <2>3 DEF MemoryGrowsTo, NewPages, Word, Modulus
    <2>5. pages >= memories[Mem].min
      BY <1>5, <2>2, <2>4
    <2>6. \A m \in DOMAIN memories : memories[m].min \in Nat
      BY MemoryFacts DEF StorageKept, ContentsKept
    <2>7. \A m \in DOMAIN memories :
            memories'[m].min = IF m = Mem THEN pages ELSE memories[m].min
      BY <1>2, <1>8, GrownMemories
    <2>8. QED
      BY <2>5, <2>6, <2>7 DEF MinimaGrow
  <1>9. QED
    BY <1>7, <1>8, GrowsMemory

LEMMA StepGrows ==
  ASSUME ~AnyGrowth
  PROVE  StorageKept /\ [Next]_vars => MinimaGrow
  <1> SUFFICES ASSUME StorageKept, [Next]_vars PROVE MinimaGrow
    OBVIOUS
  <1>1. CASE MemoryGrow
    BY <1>1, MemoryGrowGrows
  <1>2. CASE Store \/ MemoryFill \/ MemoryCopy \/ MemoryInit
    <2>1. Mem \in DOMAIN memories
      BY <1>2, OnMemory DEF Store, MemoryFill, MemoryCopy, MemoryInit, MemoryKinds
    <2>2. Trap \/ \E s : SetBytes(Mem, s)
      BY <1>2 DEF Store, MemoryFill, MemoryCopy, MemoryInit
    <2>3. QED
      BY <2>1, <2>2, MinimaStay DEF Trap, Unchanged
  <1>3. CASE TableGrow
    BY <1>3, GrowsTable, MinimaStay DEF TableStays, TableGrowsTo, Unchanged
  <1>4. CASE TableSet \/ TableFill \/ TableCopy \/ TableInit
    <2>1. memories' = memories
      BY <1>4 DEF TableSet, TableFill, TableCopy, TableInit, SetElements, Trap, Unchanged
    <2>2. QED
      BY <2>1, MinimaStay
  <1>5. CASE Fetches \/ Load \/ MemorySize \/ TableGet \/ TableSize \/ DataDrop \/ ElemDrop
    <2>1. Fetches => Unchanged
      BY FetchesAccess, FetchesMemoryGrow, FetchesMemory, FetchesTableGrow, FetchesTable
         DEF Fetches, Fetched, Fetch
    <2>2. memories' = memories
      BY <1>5, <2>1
         DEF Unchanged, Load, MemorySize, TableGet, TableSize, DataDrop, ElemDrop, Trap
    <2>3. QED
      BY <2>2, MinimaStay
  <1>6. CASE UNCHANGED vars
    BY <1>6, MinimaStay DEF vars
  <1>7. QED
    BY <1>1, <1>2, <1>3, <1>4, <1>5, <1>6 DEF Next

\* Without a sum that wraps no memory.grow, nor any other op, takes pages from a memory.
THEOREM MemoriesNeverShrink == ASSUME ~AnyGrowth PROVE Spec => NeverShrinks
  <1>1. StorageKept /\ StorageKept' /\ [Next]_vars
          => \A m \in DOMAIN memories : Len(memories'[m].data) >= Len(memories[m].data)
    <2> SUFFICES ASSUME StorageKept, StorageKept', [Next]_vars, NEW m \in DOMAIN memories
                 PROVE  Len(memories'[m].data) >= Len(memories[m].data)
      OBVIOUS
    <2>1. DOMAIN memories' = DOMAIN memories
      BY StepStays DEF TypesStay
    <2>2. MemoryKept(memories[m]) /\ MemoryKept(memories'[m])
      BY <2>1 DEF StorageKept, ContentsKept
    <2>3. /\ memories[m].min \in Nat /\ memories'[m].min \in Nat
          /\ Len(memories[m].data) = memories[m].min * PageSize
          /\ Len(memories'[m].data) = memories'[m].min * PageSize
      BY <2>2, MemoryFacts
    <2>4. memories[m].min <= memories'[m].min
      BY <2>3, StepGrows DEF MinimaGrow
    <2>5. memories[m].min * PageSize <= memories'[m].min * PageSize
      BY <2>3, <2>4, PagesGrow
    <2>6. memories[m].min * PageSize \in Nat /\ memories'[m].min * PageSize \in Nat
      BY <2>3, PageFacts
    <2>7. QED
      BY <2>3, <2>5, <2>6
  <1>2. QED
    BY <1>1, AlwaysKept, PTL DEF Spec, NeverShrinks
=============================================================================
