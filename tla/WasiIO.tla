------------------------------- MODULE WasiIO -------------------------------
(***************************************************************************)
(* The bytes that WASI preview 1 moves between a guest's memory and the    *)
(* resources behind its descriptors (src/wasi/methods.rs, memory.rs): the  *)
(* vectors of fd_read, fd_write, fd_pread and fd_pwrite, the pages of      *)
(* fd_readdir, the lists of args_get and environ_get. The guest retries    *)
(* what was not done and goes on from what it was told. WasiFds has the    *)
(* checks on descriptors.                                                  *)
(***************************************************************************)
EXTENDS Naturals, Sequences, SequencesExt

CONSTANTS
  Size,        \* the bytes of the guest's memory
  VecLists,    \* the lists of vectors [ptr, len] that guests pass
  Max32,       \* the greatest u32, for sums of lengths
  Max64,       \* the greatest u64, for offsets
  Failures,    \* the WasiIOErrors tried
  Total,       \* bytes in the input, and bytes the guest has to write
  FileSize,    \* bytes in the file
  Offsets,     \* offsets in the file
  Names,       \* the lengths of the names in the directory, in its order
  HeaderLen,   \* the bytes of a directory entry's header
  BufLens,     \* lengths of buffers for fd_readdir
  Strings,     \* the arguments of the program, sequences of bytes
  PointerLen,  \* the bytes of a pointer
  Pointers     \* where guests put tables and buffers for lists

ASSUME IOAssumption ==
  /\ {Size, Max32, Max64, Total, FileSize, HeaderLen, PointerLen} \subseteq Nat \ {0}
  /\ VecLists \subseteq Seq([ptr : Nat, len : Nat])
  /\ Offsets \subseteq 0..Max64 /\ BufLens \subseteq 0..Size /\ Pointers \subseteq Nat
  /\ Names \in Seq(Nat) /\ Strings \in Seq(Seq(Nat \ {0}))

VARIABLES
  task,      \* what the guest does; the tasks share nothing but the memory,
             \* which the guest prepares anew for each call
  memory,    \* the guest's memory after its last call
  position,  \* how much of the input is consumed
  got,       \* what the guest has read of it
  output,    \* what the output was given
  sent,      \* how many of its bytes the guest knows to be written
  file,      \* the bytes of the file
  shadow,    \* what the guest knows them to be
  listing,   \* the guest's reading of the directory: [cookie, entries, done]
  strings    \* how the guest found its arguments in its memory, or none

vars == <<task, memory, position, got, output, sent, file, shadow, listing, strings>>

Blank == 0

Cleared == [c \in 0..(Size - 1) |-> Blank]

InMemory(ptr, len) == ptr + len <= Size

Smaller(a, b) == IF a < b THEN a ELSE b

----------------------------------------------------------------------------
(* Vectors.                                                                *)

Nonempty(v) == v.len # 0

Addresses(v) == [i \in 1..v.len |-> v.ptr + i - 1]
Cells(buffers) == FlattenSeq([i \in DOMAIN buffers |-> Addresses(buffers[i])])

\* The sum of the lengths.
Capacity(buffers) == Len(Cells(buffers))

\* Empty vectors are skipped, wherever they point.
Buffers(list) == FlattenSeq([i \in DOMAIN list |-> IF Nonempty(list[i]) THEN <<list[i]>> ELSE <<>>])

\* decode_iovecs: what it answers before anything is transferred.
decode_iovecs(list) ==
  LET bad(i) == ~InMemory(list[i].ptr, list[i].len) /\ list[i].len # 0
      over(i) == Capacity(SubSeq(list, 1, i)) > Max32
      first == SelectInSeq([i \in DOMAIN list |-> bad(i) \/ over(i)], LAMBDA b : b)
  IN  IF first = 0 THEN "SUCCESS" ELSE IF over(first) THEN "OVERFLOW" ELSE "FAULT"

\* What a resource answers for one buffer: how much it moved, more than there
\* was room for if it lies, or an error.
Answers(v) ==
  [n : 0..(v.len + 1), error : {"none"}] \cup [n : {0}, error : Failures]

AnswersTo(buffers) ==
  {as \in [DOMAIN buffers -> UNION {Answers(buffers[i]) : i \in DOMAIN buffers}] :
     \A i \in DOMAIN buffers : as[i] \in Answers(buffers[i])}

Refused(v, a) == a.error # "none" \/ a.n > v.len

\* Mutant of Stop: only an error ends the loop.
StopAtErrors(buffers, as) ==
  LET ends == {i \in DOMAIN buffers : Refused(buffers[i], as[i])}
  IN  IF ends = {} THEN Len(buffers) ELSE CHOOSE i \in ends : \A j \in ends : i <= j

\* The buffer the loop ends at: an error and a short transfer stop it.
Stop(buffers, as) ==
  LET ends == {i \in DOMAIN buffers : Refused(buffers[i], as[i]) \/ as[i].n < buffers[i].len}
  IN  IF ends = {} THEN Len(buffers) ELSE CHOOSE i \in ends : \A j \in ends : i <= j

\* The addresses whose bytes were moved, in order.
Moved(buffers, as) ==
  FlattenSeq([i \in 1..Stop(buffers, as) |->
    IF Refused(buffers[i], as[i]) THEN <<>> ELSE SubSeq(Addresses(buffers[i]), 1, as[i].n)])

\* Mutant of Fails: an error is reported whatever was moved before.
FailsAlways(buffers, as) ==
  buffers # <<>> /\ Refused(buffers[Stop(buffers, as)], as[Stop(buffers, as)])

\* An error is reported only if nothing was moved before it.
Fails(buffers, as) ==
  /\ buffers # <<>>
  /\ Refused(buffers[Stop(buffers, as)], as[Stop(buffers, as)])
  /\ Moved(buffers, as) = <<>>

\* What the call reports, and where the guest looks for it.
Reported(buffers, as) == IF Fails(buffers, as) THEN 0 ELSE Len(Moved(buffers, as))
Told(buffers, as) == SubSeq(Cells(buffers), 1, Smaller(Reported(buffers, as), Capacity(buffers)))

\* memory with bytes stored at cells, in order.
Stored(mem, cells, bytes) ==
  [c \in DOMAIN mem |->
     LET at == SelectLastInSeq(cells, LAMBDA x : x = c)
     IN  IF at = 0 THEN mem[c] ELSE bytes[at]]

----------------------------------------------------------------------------
(* Streams. The input's k-th byte is k, as is the guest's k-th to write.   *)

others == <<task, listing, strings>>

\* The vectors cannot be used, or the count could not be written.
BadVectors ==
  /\ \E list \in VecLists, countMapped \in BOOLEAN :
       decode_iovecs(list) # "SUCCESS" \/ ~countMapped
  /\ UNCHANGED vars

fd_read ==
  \E list \in VecLists :
    LET buffers == Buffers(list)
    IN  /\ task = "read" /\ decode_iovecs(list) = "SUCCESS"
        /\ \E as \in AnswersTo(buffers) :
             LET cells == Moved(buffers, as)
             IN  /\ position + Len(cells) <= Total
                 /\ position' = position + Len(cells)
                 /\ memory' = Stored(Cleared, cells, [k \in DOMAIN cells |-> position + k])
                 /\ got' = got \o [k \in DOMAIN Told(buffers, as) |-> memory'[Told(buffers, as)[k]]]
        /\ UNCHANGED <<output, sent, file, shadow, others>>

\* The guest has put the next of its bytes into the vectors.
Prepared(buffers) ==
  Stored(Cleared, Cells(buffers), [k \in DOMAIN Cells(buffers) |-> sent + k])

fd_write ==
  \E list \in VecLists :
    LET buffers == Buffers(list)
    IN  /\ task = "write" /\ decode_iovecs(list) = "SUCCESS" /\ sent + Capacity(buffers) <= Total
        /\ memory' = Prepared(buffers)
        /\ \E as \in AnswersTo(buffers) :
             /\ output' = output \o [k \in DOMAIN Moved(buffers, as) |->
                                       memory'[Moved(buffers, as)[k]]]
             /\ sent' = sent + Len(Told(buffers, as))
        /\ UNCHANGED <<position, got, file, shadow, others>>

----------------------------------------------------------------------------
(* Positions in a file.                                                    *)

\* The whole range is checked before the first byte moves.
RangeFits(offset, buffers) == offset + Capacity(buffers) <= Max64

OffsetOverflows ==
  /\ \E list \in VecLists, offset \in Offsets :
       decode_iovecs(list) = "SUCCESS" /\ ~RangeFits(offset, Buffers(list))
  /\ UNCHANGED vars

\* A read within the file, or short at its end; what the guest learns replaces
\* what it knew.
fd_pread ==
  \E list \in VecLists, offset \in Offsets :
    LET buffers == Buffers(list)
    IN  /\ task = "file" /\ decode_iovecs(list) = "SUCCESS" /\ RangeFits(offset, buffers)
        /\ \E as \in AnswersTo(buffers) :
             LET cells == Moved(buffers, as)
                 told == Told(buffers, as)
             IN  /\ Len(cells) # 0 => offset + Len(cells) <= FileSize
                 /\ memory' = Stored(Cleared, cells, [k \in DOMAIN cells |-> file[offset + k]])
                 /\ shadow' = [k \in DOMAIN shadow |->
                                 IF k \in (offset + 1)..(offset + Len(told))
                                 THEN memory'[told[k - offset]] ELSE shadow[k]]
        /\ UNCHANGED <<position, got, output, sent, file, others>>

\* A write of the guest's next bytes over the file's.
fd_pwrite ==
  \E list \in VecLists, offset \in Offsets :
    LET buffers == Buffers(list)
    IN  /\ task = "file" /\ decode_iovecs(list) = "SUCCESS" /\ RangeFits(offset, buffers)
        /\ offset + Capacity(buffers) <= FileSize
        /\ memory' = Prepared(buffers)
        /\ \E as \in AnswersTo(buffers) :
             LET cells == Moved(buffers, as)
                 told == Told(buffers, as)
             IN  /\ file' = [k \in DOMAIN file |->
                               IF k \in (offset + 1)..(offset + Len(cells))
                               THEN memory'[cells[k - offset]] ELSE file[k]]
                 /\ shadow' = [k \in DOMAIN shadow |->
                                 IF k \in (offset + 1)..(offset + Len(told))
                                 THEN memory'[told[k - offset]] ELSE shadow[k]]
        /\ UNCHANGED <<position, got, output, sent, others>>

----------------------------------------------------------------------------
(* Directories. Entry i comes under cookie i - 1 and names cookie i as the *)
(* next one.                                                               *)

EntryBytes(i) == [k \in 1..(HeaderLen + Names[i]) |-> [entry |-> i, byte |-> k]]
StreamFrom(cookie) ==
  FlattenSeq([k \in 1..(Len(Names) - cookie) |-> EntryBytes(cookie + k)])

\* Mutant of Page: entries that do not fit whole are left out.
PageOfWhole(cookie, len) ==
  LET fits == {n \in 0..(Len(Names) - cookie) :
                 Len(FlattenSeq([k \in 1..n |-> EntryBytes(cookie + k)])) <= len}
      most == CHOOSE n \in fits : \A m \in fits : m <= n
  IN  FlattenSeq([k \in 1..most |-> EntryBytes(cookie + k)])

\* The buffer is filled to its end, in the middle of a header or a name too.
Page(cookie, len) ==
  SubSeq(StreamFrom(cookie), 1, Smaller(len, Len(StreamFrom(cookie))))

\* The entries a guest finds whole in a page, and what it does next: it goes on
\* from the last of them, and is done when the page is not full.
WholeIn(page) ==
  {i \in 1..Len(Names) : \E k \in DOMAIN page :
     page[k].entry = i /\ page[k].byte = HeaderLen + Names[i]}

InOrder(entries) == FlattenSeq([i \in 1..Len(Names) |-> IF i \in entries THEN <<i>> ELSE <<>>])

fd_readdir ==
  \E len \in BufLens :
    LET page == Page(listing.cookie, len)
        whole == WholeIn(page)
    IN  /\ task = "list directory" /\ ~listing.done
        /\ listing' =
             [cookie |-> IF whole = {} THEN listing.cookie
                         ELSE CHOOSE i \in whole : \A j \in whole : j <= i,
              entries |-> listing.entries \o InOrder(whole),
              done |-> Len(page) < len]
        /\ UNCHANGED <<task, memory, position, got, output, sent, file, shadow, strings>>

\* An entry cannot be read: the call fails, and the guest asks again.
ReaddirFails ==
  /\ \E len \in BufLens \ {0}, error \in Failures : ~listing.done
  /\ UNCHANGED vars

Rewind ==
  /\ task = "list directory" /\ listing.done
  /\ listing' = [cookie |-> 0, entries |-> <<>>, done |-> FALSE]
  /\ UNCHANGED <<task, memory, position, got, output, sent, file, shadow, strings>>

----------------------------------------------------------------------------
(* Lists of strings: arguments and environment.                            *)

\* The strings one behind the other, each with its NUL, and how long that is.
Terminated(list) == FlattenSeq([i \in DOMAIN list |-> Append(list[i], 0)])
string_list_buffer_len(list) == Len(Terminated(list))

\* Mutant of StringAt: the next string begins at the NUL.
StringAtNul(list, buffer, i) == buffer + Len(FlattenSeq(SubSeq(list, 1, i - 1)))

StringAt(list, buffer, i) == buffer + string_list_buffer_len(SubSeq(list, 1, i - 1))

\* A pointer's first byte stands for all of it.
string_list_get(list, table, buffer) ==
  LET cells(i) == [k \in 1..(Len(list[i]) + 1) |-> StringAt(list, buffer, i) + k - 1]
      pointers == [i \in DOMAIN list |-> StringAt(list, buffer, i)]
      withTable == Stored(Cleared, [i \in DOMAIN list |-> table + (i - 1) * PointerLen], pointers)
  IN  Stored(withTable, FlattenSeq([i \in DOMAIN list |-> cells(i)]),
             Terminated(list))

\* The guest follows a pointer to the next NUL.
ReadString(mem, ptr) ==
  LET ends == {c \in DOMAIN mem : c >= ptr /\ mem[c] = 0}
      end == CHOOSE c \in ends : \A d \in ends : c <= d
  IN  IF ends = {} THEN <<>> ELSE [k \in 1..(end - ptr) |-> mem[ptr + k - 1]]

\* The guest lays out table and buffer apart, by the sizes it was told.
Apart(a, alen, b, blen) == a + alen <= b \/ b + blen <= a

args_get ==
  \E table, buffer \in Pointers :
    LET tableLen == Len(Strings) * PointerLen
        bufferLen == string_list_buffer_len(Strings)
    IN  /\ task = "read arguments" /\ Apart(table, tableLen, buffer, bufferLen)
        /\ InMemory(table, tableLen) /\ InMemory(buffer, bufferLen)
        /\ buffer + bufferLen <= Max32
        /\ memory' = string_list_get(Strings, table, buffer)
        /\ strings' = [i \in DOMAIN Strings |-> ReadString(memory', memory'[table + (i - 1) * PointerLen])]
        /\ UNCHANGED <<task, position, got, output, sent, file, shadow, listing>>

ListRefused ==
  /\ \E table, buffer \in Pointers :
       \/ ~InMemory(table, Len(Strings) * PointerLen)
       \/ ~InMemory(buffer, string_list_buffer_len(Strings))
       \/ buffer + string_list_buffer_len(Strings) > Max32
  /\ UNCHANGED vars

----------------------------------------------------------------------------
Init ==
  /\ task \in {"read", "write", "file", "list directory", "read arguments"}
  /\ memory = Cleared
  /\ position = 0 /\ got = <<>> /\ output = <<>> /\ sent = 0
  /\ file = [k \in 1..FileSize |-> k] /\ shadow = file
  /\ listing = [cookie |-> 0, entries |-> <<>>, done |-> FALSE]
  /\ strings = Strings

Next ==
  \/ BadVectors \/ fd_read \/ fd_write \/ OffsetOverflows \/ fd_pread \/ fd_pwrite
  \/ fd_readdir \/ ReaddirFails \/ Rewind \/ args_get \/ ListRefused

Spec == Init /\ [][Next]_vars

----------------------------------------------------------------------------
(* Properties.                                                             *)

\* Over short reads, errors and retries, the guest gets each byte the input
\* gave up, once and in order, and a positional read shows it what the file
\* holds there (fd_read, fd_pread).
ReadsLossless ==
  /\ got = [k \in 1..position |-> k]
  /\ shadow = file

\* Over short writes, errors and retries, the output is given exactly the bytes
\* the guest was told are written, once and in order (fd_write).
WritesExact == output = [k \in 1..sent |-> k]

\* A guest that goes on from the last whole entry until a page is not full has
\* each entry once, and all of them when it is done (fd_readdir).
DirectoryComplete ==
  /\ listing.entries = [i \in 1..listing.cookie |-> i]
  /\ listing.done => listing.cookie = Len(Names)

\* A guest that reserves what args_sizes_get told it finds its arguments behind
\* the pointers of args_get.
ListsRead == strings = Strings
=============================================================================
