------------------------------ MODULE Storage ------------------------------
(***************************************************************************)
(* Memories, tables and segments as store.rs and runtime/memory.rs handle  *)
(* them: operands are popped as machine words, a 32-bit address becomes a  *)
(* usize by sign extension, and each op keeps its range check in that      *)
(* arithmetic: checked_add, saturating_add, and for memory.grow a plain    *)
(* sum, which wraps in a release build.                                    *)
(*                                                                         *)
(* Widths are scaled: an i32 has W32 bits, an i64 and a usize W64, a page  *)
(* PageSize bytes, a byte one bit.  An operand is the word on the stack,   *)
(* as an unsigned number.  An op stands at `next` with its operands.       *)
(***************************************************************************)
EXTENDS Integers, Sequences

CONSTANTS
  W32, W64,
  PageSize,      \* PAGE_SIZE
  MaxPages,      \* MAX_PAGES, the bound memory.grow knows
  Allocatable,   \* elements a table can hold before the allocator gives up
  Stores,        \* the stores to start from, see Init
  Operands,      \* address type -> the words tried as operands
  Offsets,       \* the constant offsets of loads and stores
  AnyGrowth      \* are grows tried whose sum wraps?

ASSUME WidthAssumption == W32 \in Nat \ {0} /\ W64 \in Nat /\ W64 > W32
\* PAGE_SIZE and MAX_PAGES are 2^16.
ASSUME PageAssumption ==
  /\ PageSize \in Nat \ {0} /\ MaxPages \in Nat
  /\ MaxPages < 2^(W32 - 1) /\ MaxPages * PageSize < 2^W64

\* What the powers of two in use are to each other.
ASSUME PowersAssumption ==
  /\ 2^0 = 1 /\ 2^1 = 2
  /\ 2^(W32 - 1) \in Nat \ {0} /\ 2^W32 = 2^(W32 - 1) + 2^(W32 - 1)
  /\ 2^W64 \in Nat /\ 2^W64 >= 2^W32 + 2^W32

\* The words of an address type.
Words(at) == IF at = "I32" THEN 0..(2^W32 - 1) ELSE 0..(2^W64 - 1)
ASSUME OperandsAssumption ==
  /\ \A at \in {"I32", "I64"} : Operands[at] \subseteq Words(at)
  /\ Offsets \subseteq Words("I64")
  /\ AnyGrowth \in BOOLEAN

\* The types and segments of a parsed module, and the addresses its imports
\* resolve to.  No limit is checked (parse_limit) beyond its width; that the
\* bytes of a new memory can be counted is assumed.
StoreType(s) ==
  /\ \A m \in DOMAIN s.memories :
       /\ s.memories[m].at \in {"I32", "I64"}
       /\ s.memories[m].min \in Nat /\ s.memories[m].max \in Words("I64")
       /\ s.memories[m].min * PageSize < 2^W64
  /\ \A t \in DOMAIN s.tables :
       /\ s.tables[t].at \in {"I32", "I64"}
       /\ s.tables[t].min \in 0..Allocatable /\ s.tables[t].max \in Words("I64")
  /\ s.data \in Seq(0..1) /\ Len(s.data) < 2^W64 - 1
  /\ s.elem \in Seq(0..1) /\ Len(s.elem) < 2^W64 - 1
  /\ \A i \in DOMAIN s.mem_addrs : s.mem_addrs[i] \in DOMAIN s.memories
  /\ \A i \in DOMAIN s.table_addrs : s.table_addrs[i] \in DOMAIN s.tables
ASSUME StoresAssumption ==
  /\ Allocatable \in Nat /\ Allocatable < 2^W64 - 1
  /\ \A s \in Stores : StoreType(s)

VARIABLES
  memories,          \* address -> [at, min, max, data]
  tables,            \* address -> [at, min, max, elem]
  data_segment, element_segment,
  instance,          \* [mems, tabs]: mem_addrs and table_addrs
  next, out

vars == <<memories, tables, data_segment, element_segment, instance, next, out>>

Idle == [k |-> "idle"]

----------------------------------------------------------------------------
(***************************************************************************)
(* Machine words.                                                          *)
(***************************************************************************)
Overflow == -1
Word(n) == n % 2^W64
CheckedAdd(a, b) == IF a + b < 2^W64 THEN a + b ELSE Overflow

SaturatingAdd(a, b) == IF a + b < 2^W64 THEN a + b ELSE 2^W64 - 1

\* as_i32() as usize
SignExtended(word) == IF word < 2^(W32 - 1) THEN word ELSE word + 2^W64 - 2^W32
\* pop_address
Address(at, word) == IF at = "I32" THEN SignExtended(word) ELSE word

----------------------------------------------------------------------------
(***************************************************************************)
(* GuestMemory and slices of elements.                                     *)
(***************************************************************************)
Slice(s, a, n) == SubSeq(s, a + 1, a + n)
Overwrite(s, a, new) ==
  [i \in DOMAIN s |-> IF a < i /\ i <= a + Len(new) THEN new[i - a] ELSE s[i]]
Repeat(v, n) == [i \in 1..n |-> v]
Resized(s, n, v) == IF n <= Len(s) THEN SubSeq(s, 1, n) ELSE s \o Repeat(v, n - Len(s))

\* read_bytes and read_bytes_mut find their range.
HasBytes(s, ptr, n) == CheckedAdd(ptr, n) \in 0..Len(s)

\* Mutant of HasElements: an empty range is not checked.
HasElementsUnlessEmpty(s, i, n) == n = 0 \/ SaturatingAdd(i, n) <= Len(s)

\* the checks of the table ops
HasElements(s, i, n) == SaturatingAdd(i, n) <= Len(s)

Bytes(v, w) == [i \in 1..w |-> (v \div 2^(i - 1)) % 2]
Extended(bytes, signed) ==
  LET high == IF Len(bytes) = 2 THEN bytes[2] ELSE IF signed THEN bytes[1] ELSE 0
  IN  bytes[1] + 2 * high

Done(r) == out' = [trap |-> FALSE, push |-> r]
Unchanged == UNCHANGED <<memories, tables, data_segment, element_segment>>
Trap == out' = [trap |-> TRUE, push |-> <<>>] /\ Unchanged
SetBytes(m, s) ==
  memories' = [memories EXCEPT ![m].data = s] /\ UNCHANGED <<tables, data_segment, element_segment>>
SetElements(t, s) ==
  tables' = [tables EXCEPT ![t].elem = s] /\ UNCHANGED <<memories, data_segment, element_segment>>

----------------------------------------------------------------------------
(***************************************************************************)
(* The ops.  Each leaves `next`: run() goes on, or the trap ends the call  *)
(* and a later one finds the store as it is.                               *)
(***************************************************************************)
Run(ks) == next.k \in ks /\ next' = Idle /\ UNCHANGED instance
Mem == instance.mems[next.on]
Tab == instance.tabs[next.on]
MemAddress(word) == Address(memories[Mem].at, word)
TabAddress(word) == Address(tables[Tab].at, word)

\* mem_load_c!, mem_store_c!: the checked sum of base and offset.
EffectiveAddress == CheckedAdd(MemAddress(next.d), next.offset)

Load ==
  /\ Run({"load"})
  /\ LET bytes == memories[Mem].data
     IN  IF EffectiveAddress # Overflow /\ HasBytes(bytes, EffectiveAddress, next.width)
         THEN /\ Done(<<Extended(Slice(bytes, EffectiveAddress, next.width), next.signed)>>)
              /\ Unchanged
         ELSE Trap

Store ==
  /\ Run({"store"})
  /\ LET bytes == memories[Mem].data
     IN  IF EffectiveAddress # Overflow /\ HasBytes(bytes, EffectiveAddress, next.width)
         THEN /\ SetBytes(Mem, Overwrite(bytes, EffectiveAddress, Bytes(next.v, next.width)))
              /\ Done(<<>>)
         ELSE Trap

PagesOf(m) == Len(memories[m].data) \div PageSize

MemorySize == Run({"memory.size"}) /\ Done(<<PagesOf(Mem)>>) /\ Unchanged

\* old_size + page_count
NewPages(m, count) == Word(PagesOf(m) + count)

\* Mutant of Grown: limit.min keeps the size the memory was made with.
GrownOldLimit(memory, pages) == [memory EXCEPT !.data = Resized(@, pages * PageSize, 0)]

\* Mutant of Grown: resized in pages where bytes are meant.
GrownInPages(memory, pages) == [memory EXCEPT !.data = Resized(@, pages, 0), !.min = pages]

Grown(memory, pages) ==
  [memory EXCEPT !.data = Resized(@, pages * PageSize, 0), !.min = pages]

MemoryGrow ==
  /\ Run({"memory.grow"})
  /\ LET pages == NewPages(Mem, MemAddress(next.n))
     IN  IF pages > MaxPages \/ pages > memories[Mem].max
         THEN Done(<<-1>>) /\ Unchanged
         ELSE /\ memories' = [memories EXCEPT ![Mem] = Grown(@, pages)]
              /\ Done(<<PagesOf(Mem)>>)
              /\ UNCHANGED <<tables, data_segment, element_segment>>

MemoryFill ==
  /\ Run({"memory.fill"})
  /\ LET n == MemAddress(next.n)
         i == MemAddress(next.d)
     IN  IF HasBytes(memories[Mem].data, i, n)
         THEN SetBytes(Mem, Overwrite(memories[Mem].data, i, Repeat(next.v % 2, n))) /\ Done(<<>>)
         ELSE Trap

\* All three operands are popped with the destination's address type.
MemoryCopy ==
  /\ Run({"memory.copy"})
  /\ LET from == memories[instance.mems[next.from]].data
         n == MemAddress(next.n)
         s == MemAddress(next.s)
         d == MemAddress(next.d)
     IN  IF HasBytes(from, s, n) /\ HasBytes(memories[Mem].data, d, n)
         THEN SetBytes(Mem, Overwrite(memories[Mem].data, d, Slice(from, s, n))) /\ Done(<<>>)
         ELSE Trap

MemoryInit ==
  /\ Run({"memory.init"})
  /\ LET n == SignExtended(next.n)
         s == SignExtended(next.s)
         d == MemAddress(next.d)
     IN  IF HasElements(data_segment, s, n) /\ HasBytes(memories[Mem].data, d, n)
         THEN SetBytes(Mem, Overwrite(memories[Mem].data, d, Slice(data_segment, s, n))) /\ Done(<<>>)
         ELSE Trap

DataDrop ==
  /\ Run({"data.drop"}) /\ Done(<<>>)
  /\ data_segment' = <<>> /\ UNCHANGED <<memories, tables, element_segment>>

TableGet ==
  /\ Run({"table.get"})
  /\ LET i == TabAddress(next.d)
     IN  IF i < Len(tables[Tab].elem)
         THEN Done(<<tables[Tab].elem[i + 1]>>) /\ Unchanged
         ELSE Trap

TableSet ==
  /\ Run({"table.set"})
  /\ LET i == TabAddress(next.d)
     IN  IF i < Len(tables[Tab].elem)
         THEN SetElements(Tab, Overwrite(tables[Tab].elem, i, <<next.v>>)) /\ Done(<<>>)
         ELSE Trap

TableSize == Run({"table.size"}) /\ Done(<<Len(tables[Tab].elem)>>) /\ Unchanged

\* The sum of table.grow is checked; limit.max is u64::MAX when none is declared.
TableGrow ==
  /\ Run({"table.grow"})
  /\ LET size == CheckedAdd(Len(tables[Tab].elem), TabAddress(next.n))
     IN  IF size = Overflow \/ size > tables[Tab].max
         THEN Done(<<-1>>) /\ Unchanged
         ELSE /\ tables' = [tables EXCEPT ![Tab].elem = Resized(@, size, next.v), ![Tab].min = size]
              /\ Done(<<Len(tables[Tab].elem)>>)
              /\ UNCHANGED <<memories, data_segment, element_segment>>

TableFill ==
  /\ Run({"table.fill"})
  /\ LET n == TabAddress(next.n)
         i == TabAddress(next.d)
     IN  IF HasElements(tables[Tab].elem, i, n)
         THEN SetElements(Tab, Overwrite(tables[Tab].elem, i, Repeat(next.v, n))) /\ Done(<<>>)
         ELSE Trap

\* Between tables of different address types the count is an i32.
TableCopy ==
  /\ Run({"table.copy"})
  /\ LET from == tables[instance.tabs[next.from]]
         n == Address(IF tables[Tab].at = "I64" /\ from.at = "I64" THEN "I64" ELSE "I32", next.n)
         s == Address(from.at, next.s)
         d == TabAddress(next.d)
     IN  IF HasElements(from.elem, s, n) /\ HasElements(tables[Tab].elem, d, n)
         THEN SetElements(Tab, Overwrite(tables[Tab].elem, d, Slice(from.elem, s, n))) /\ Done(<<>>)
         ELSE Trap

TableInit ==
  /\ Run({"table.init"})
  /\ LET n == SignExtended(next.n)
         s == SignExtended(next.s)
         d == TabAddress(next.d)
     IN  IF HasElements(element_segment, s, n) /\ HasElements(tables[Tab].elem, d, n)
         THEN SetElements(Tab, Overwrite(tables[Tab].elem, d, Slice(element_segment, s, n))) /\ Done(<<>>)
         ELSE Trap

ElemDrop ==
  /\ Run({"elem.drop"}) /\ Done(<<>>)
  /\ element_segment' = <<>> /\ UNCHANGED <<memories, tables, data_segment>>

----------------------------------------------------------------------------
(***************************************************************************)
(* The program reaches an op, its operands of the types validation gives   *)
(* them.                                                                   *)
(***************************************************************************)
At(m) == memories[instance.mems[m]].at
TabAt(t) == tables[instance.tabs[t]].at
Values == 0..3
Refs == 0..1

Fetch(op) ==
  /\ next' = op /\ out' = [trap |-> FALSE, push |-> <<>>]
  /\ Unchanged /\ UNCHANGED instance

FetchAccess ==
  \E on \in DOMAIN instance.mems, offset \in Offsets, width \in {1, 2} :
    \E d \in Operands[At(on)] :
      \/ \E signed \in BOOLEAN :
           Fetch([k |-> "load", on |-> on, d |-> d, offset |-> offset, width |-> width,
                  signed |-> signed])
      \/ \E v \in Values :
           Fetch([k |-> "store", on |-> on, d |-> d, offset |-> offset, width |-> width, v |-> v])

\* A sum that wraps is left to the run that is about it.
GrowsUpward(m, n) ==
  PagesOf(instance.mems[m]) + Address(At(m), n) < 2^W64

FetchMemoryGrow ==
  \E on \in DOMAIN instance.mems : \E n \in Operands[At(on)] :
    /\ AnyGrowth \/ GrowsUpward(on, n)
    /\ Fetch([k |-> "memory.grow", on |-> on, n |-> n])

FetchMemory ==
  \E on \in DOMAIN instance.mems :
    \/ Fetch([k |-> "memory.size", on |-> on])
    \/ \E d \in Operands[At(on)], n \in Operands[At(on)] :
         \/ \E v \in Values : Fetch([k |-> "memory.fill", on |-> on, d |-> d, v |-> v, n |-> n])
         \/ \E from \in DOMAIN instance.mems, s \in Operands[At(on)] :
              /\ At(from) = At(on)
              /\ Fetch([k |-> "memory.copy", on |-> on, from |-> from, d |-> d, s |-> s, n |-> n])
    \/ \E d \in Operands[At(on)], s \in Operands["I32"], n \in Operands["I32"] :
         Fetch([k |-> "memory.init", on |-> on, d |-> d, s |-> s, n |-> n])
    \/ Fetch([k |-> "data.drop", on |-> on])

\* A table larger than the allocator can make aborts the process.
CanAllocate(t, n) ==
  LET size == CheckedAdd(Len(tables[instance.tabs[t]].elem), Address(TabAt(t), n))
  IN  size <= Allocatable \/ size > tables[instance.tabs[t]].max

FetchTableGrow ==
  \E on \in DOMAIN instance.tabs : \E n \in Operands[TabAt(on)], v \in Refs :
    CanAllocate(on, n) /\ Fetch([k |-> "table.grow", on |-> on, n |-> n, v |-> v])

CountAt(on, from) == IF TabAt(on) = "I64" /\ TabAt(from) = "I64" THEN "I64" ELSE "I32"

FetchTable ==
  \E on \in DOMAIN instance.tabs :
    \/ Fetch([k |-> "table.size", on |-> on])
    \/ \E d \in Operands[TabAt(on)] :
         \/ Fetch([k |-> "table.get", on |-> on, d |-> d])
         \/ \E v \in Refs : Fetch([k |-> "table.set", on |-> on, d |-> d, v |-> v])
         \/ \E v \in Refs, n \in Operands[TabAt(on)] :
              Fetch([k |-> "table.fill", on |-> on, d |-> d, v |-> v, n |-> n])
         \/ \E from \in DOMAIN instance.tabs :
              \E s \in Operands[TabAt(from)], n \in Operands[CountAt(on, from)] :
                Fetch([k |-> "table.copy", on |-> on, from |-> from, d |-> d, s |-> s, n |-> n])
         \/ \E s \in Operands["I32"], n \in Operands["I32"] :
              Fetch([k |-> "table.init", on |-> on, d |-> d, s |-> s, n |-> n])
    \/ Fetch([k |-> "elem.drop", on |-> on])

Fetches ==
  /\ next = Idle
  /\ FetchAccess \/ FetchMemoryGrow \/ FetchMemory \/ FetchTableGrow \/ FetchTable

\* allocate_memory and allocate_table.
AllocateMemory(type) ==
  [at |-> type.at, min |-> type.min, max |-> type.max, data |-> Repeat(0, type.min * PageSize)]
AllocateTable(type, init) ==
  [at |-> type.at, min |-> type.min, max |-> type.max, elem |-> Repeat(init, type.min)]

Init ==
  /\ \E s \in Stores :
       /\ memories = [m \in DOMAIN s.memories |-> AllocateMemory(s.memories[m])]
       /\ tables = [t \in DOMAIN s.tables |-> AllocateTable(s.tables[t], 0)]
       /\ data_segment = s.data /\ element_segment = s.elem
       /\ instance = [mems |-> s.mem_addrs, tabs |-> s.table_addrs]
  /\ next = Idle /\ out = [trap |-> FALSE, push |-> <<>>]

Next ==
  \/ Fetches
  \/ Load \/ Store \/ MemorySize \/ MemoryGrow \/ MemoryFill \/ MemoryCopy \/ MemoryInit \/ DataDrop
  \/ TableGet \/ TableSet \/ TableSize \/ TableGrow \/ TableFill \/ TableCopy \/ TableInit \/ ElemDrop

Spec == Init /\ [][Next]_vars

----------------------------------------------------------------------------
(***************************************************************************)
(* Properties.                                                             *)
(***************************************************************************)
\* Each memory is whole pages of bytes, each table a sequence of references.
TypeOK ==
  /\ \A m \in DOMAIN memories :
       /\ memories[m].at \in {"I32", "I64"} /\ memories[m].min \in Nat /\ memories[m].max \in Nat
       /\ memories[m].data \in Seq(0..1) /\ Len(memories[m].data) % PageSize = 0
  /\ \A t \in DOMAIN tables :
       /\ tables[t].at \in {"I32", "I64"} /\ tables[t].min \in Nat /\ tables[t].max \in Nat
       /\ tables[t].elem \in Seq(Refs)
  /\ data_segment \in Seq(0..1) /\ element_segment \in Seq(Refs)
  /\ out.trap \in BOOLEAN /\ (out.trap => out.push = <<>>)

(***************************************************************************)
(* After any ops the declared type an importer is matched against          *)
(* (extern_type_matches reads limit.min) is the size the memory or table   *)
(* really has, and never above its maximum.                                *)
(***************************************************************************)
SizesAgree ==
  /\ \A m \in DOMAIN memories :
       /\ memories[m].min = PagesOf(m) /\ memories[m].min <= memories[m].max
  /\ \A t \in DOMAIN tables :
       /\ tables[t].min = Len(tables[t].elem) /\ tables[t].min <= tables[t].max

\* The parser gives a table without a maximum u64::MAX; that of a 32-bit one is 2^32 - 1.
LargestTable(t) == IF t.at = "I32" /\ t.max >= 2^W32 THEN 2^W32 - 1 ELSE t.max

Promised == INSTANCE WasmStorage WITH
  mems <- [m \in DOMAIN memories |-> memories[m].data],
  tabs <- [t \in DOMAIN tables |-> tables[t].elem],
  data <- data_segment, elem <- element_segment,
  limits <- [mems |-> [m \in DOMAIN memories |-> memories[m].max],
             tabs |-> [t \in DOMAIN tables |-> LargestTable(tables[t])]],
  names <- instance

(***************************************************************************)
(* With every check done on wrapped, saturated and sign-extended words,    *)
(* each op still does what exact unsigned arithmetic says: overlapping,    *)
(* aliased and empty ranges included, all of it or, with a trap, nothing.  *)
(***************************************************************************)
KeepsPromise == Promised!Spec

(***************************************************************************)
(* memory.grow makes a memory larger or leaves it: no step takes pages     *)
(* from a running module.                                                  *)
(***************************************************************************)
NeverShrinks ==
  [][\A m \in DOMAIN memories : Len(memories'[m].data) >= Len(memories[m].data)]_vars
=============================================================================
