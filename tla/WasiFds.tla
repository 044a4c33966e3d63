------------------------------ MODULE WasiFds ------------------------------
(***************************************************************************)
(* The descriptor table of WASI preview 1 (src/wasi/ctx.rs, methods.rs):   *)
(* what a guest may do with which descriptor, and how descriptors come and *)
(* go. The files behind them belong to the embedder's WasiResource and are *)
(* external: each of its operations succeeds or fails freely. WasiIO has   *)
(* the bytes.                                                              *)
(***************************************************************************)
EXTENDS Naturals, Sequences, FiniteSets

CONSTANTS
  RightSets,   \* the sets of rights that are asked for and granted
  FlagSets,    \* the sets of fdflags
  Arguments,   \* what can be wrong with a call's other arguments; see ArgumentType
  Opens,       \* path_open's oflags: [create, truncate, directory]
  Failures,    \* the errors of a resource that are tried
  GuestFds,    \* the descriptor numbers guests pass
  MaxFd        \* the greatest descriptor number, i32::MAX

StdFds == {0, 1, 2}

ASSUME FdsAssumption == MaxFd \in Nat /\ MaxFd > 3 /\ GuestFds \subseteq 0..(MaxFd + 1)

VARIABLES
  descriptors, \* the entries of the open descriptors
  answer,      \* the errno of the last call
  excess,      \* observer: rights the last call exercised on resources without
               \* the ceilings of their descriptors allowing it
  ceilings,    \* observer: for each descriptor what its preopen lets it have
  held         \* observer: the descriptors that guests were told of

vars == <<descriptors, answer, excess, ceilings, held>>

FileTypes == {"directory", "regular", "unknown"}

\* in is flags the resource is in, which the resource keeps for itself.
EntryType(rights) ==
  [type : FileTypes, flags : FlagSets, in : FlagSets, base : SUBSET rights,
   inheriting : SUBSET rights, preopen : BOOLEAN]

\* wellFormed: the flags are known ones; memory: the instance exports one; out:
\* the pointer for the answer lies in it; path: what guest_path finds.
ArgumentType ==
  [wellFormed : BOOLEAN, memory : BOOLEAN, out : BOOLEAN,
   path : {"relative", "absolute", "empty", "nul", "not_utf8", "unmapped"}]

ASSUME ArgumentsAssumption ==
  /\ Arguments \subseteq ArgumentType
  /\ Opens \subseteq [create : BOOLEAN, truncate : BOOLEAN, directory : BOOLEAN]

----------------------------------------------------------------------------
(* Rights, errors and checks.                                              *)

FdRights ==
  {"fd_write", "fd_read", "fd_seek", "fd_tell", "fd_readdir", "fd_advise", "fd_datasync",
   "fd_sync", "fd_fdstat_set_flags", "fd_filestat_get", "fd_filestat_set_size",
   "fd_filestat_set_times"}
PathRights ==
  {"path_create_directory", "path_create_file", "path_open", "path_readlink", "path_symlink",
   "path_remove_directory", "path_unlink_file", "path_filestat_set_size", "path_link_source",
   "path_link_target", "path_rename_source", "path_rename_target", "path_filestat_get",
   "path_filestat_set_times"}
Rights == FdRights \cup PathRights

ASSUME SetsAssumption == RightSets \subseteq SUBSET Rights /\ {} \in FlagSets

path_errno ==
  [Io |-> "IO", Unsupported |-> "NOTSUP", NotFound |-> "NOENT", AlreadyExists |-> "EXIST",
   NotDirectory |-> "NOTDIR", PermissionDenied |-> "ACCES", NotCapable |-> "NOTCAPABLE",
   InvalidInput |-> "INVAL", CrossDevice |-> "XDEV", NotEmpty |-> "NOTEMPTY",
   IsDirectory |-> "ISDIR"]

io_errno ==
  [Io |-> "IO", Interrupted |-> "INTR", WouldBlock |-> "AGAIN", Unsupported |-> "NOTSUP"]

\* A resource that does not read or write at all is no such descriptor.
stream_errno == [io_errno EXCEPT !.Unsupported = "BADF"]

seek_errno ==
  [Unsupported |-> "SPIPE", InvalidOffset |-> "INVAL", Overflow |-> "OVERFLOW", Io |-> "IO"]

clock_errno == [Unsupported |-> "INVAL", Unavailable |-> "IO", Overflow |-> "OVERFLOW"]

\* How a resource's operation ends, under one of these maps.
Ends(errno) == {"SUCCESS"} \cup {errno[e] : e \in Failures \cap DOMAIN errno}

guest_path ==
  [relative |-> "SUCCESS", unmapped |-> "FAULT", not_utf8 |-> "ILSEQ", empty |-> "NOENT",
   nul |-> "INVAL", absolute |-> "NOTCAPABLE"]

Check(ok, code) == [ok |-> ok, code |-> code]

Passes(checks) == \A i \in DOMAIN checks : checks[i].ok

\* The first check that fails answers.
Refusal(checks) ==
  checks[CHOOSE i \in DOMAIN checks : ~checks[i].ok /\ \A j \in 1..(i - 1) : checks[j].ok].code

table == <<descriptors, ceilings, held>>

Refuse(checks) ==
  /\ ~Passes(checks)
  /\ answer' = Refusal(checks) /\ excess' = {}
  /\ UNCHANGED table

NoEntry ==
  [type |-> "unknown", flags |-> {}, in |-> {}, base |-> {}, inheriting |-> {}, preopen |-> FALSE]
Entry(fd) == IF fd \in DOMAIN descriptors THEN descriptors[fd] ELSE NoEntry

Open(fd) == Check(fd \in DOMAIN descriptors, "BADF")
Capable(fd, rights) == Check(rights \subseteq Entry(fd).base, "NOTCAPABLE")
IsDirectory(fd) == Check(Entry(fd).type = "directory", "NOTDIR")
HasMemory(a) == Check(a.memory, "FAULT")
OutMapped(a) == Check(a.out, "FAULT")
PathGiven(a) == Check(guest_path[a.path] = "SUCCESS", guest_path[a.path])
WellFormed(a) == Check(a.wellFormed, "INVAL")

Use(fd, rights) == rights \ ceilings[fd].base

Exercise(use, code) == answer' = code /\ excess' = use

\* A call that passes its checks and has the resource of fd do something.
Operate(fd, rights, checks, errno) ==
  \/ Refuse(checks)
  \/ /\ Passes(checks)
     /\ \E code \in Ends(errno) : Exercise(Use(fd, rights), code)
     /\ UNCHANGED table

\* A call that passes its checks and only looks at the table.
Look(checks) ==
  \/ Refuse(checks)
  \/ /\ Passes(checks)
     /\ Exercise({}, "SUCCESS")
     /\ UNCHANGED table

----------------------------------------------------------------------------
(* Calls on paths.                                                         *)

OnPath(fd, right, a) == <<Open(fd), Capable(fd, {right}), IsDirectory(fd), HasMemory(a)>>

\* Mutant of PathCall: the descriptor's rights are not asked for.
PathCallUnchecked(fd, right, a) ==
  Operate(fd, {right}, <<Open(fd), IsDirectory(fd), HasMemory(a), PathGiven(a)>>, path_errno)

PathCall(fd, right, a) ==
  Operate(fd, {right}, Append(OnPath(fd, right, a), PathGiven(a)), path_errno)

path_create_directory == \E fd \in GuestFds, a \in Arguments : PathCall(fd, "path_create_directory", a)
path_remove_directory == \E fd \in GuestFds, a \in Arguments : PathCall(fd, "path_remove_directory", a)
path_unlink_file == \E fd \in GuestFds, a \in Arguments : PathCall(fd, "path_unlink_file", a)

\* The target, which a symlink takes as it is, is read after the path.
path_symlink ==
  \E fd \in GuestFds, a, target \in Arguments :
    Operate(fd, {"path_symlink"},
            OnPath(fd, "path_symlink", a)
              \o <<PathGiven(a), Check(target.path \in {"relative", "absolute"},
                                       guest_path[target.path])>>,
            path_errno)

path_readlink ==
  \E fd \in GuestFds, a \in Arguments :
    Operate(fd, {"path_readlink"},
            OnPath(fd, "path_readlink", a) \o <<OutMapped(a), PathGiven(a)>>, path_errno)

path_filestat_get ==
  \E fd \in GuestFds, a \in Arguments :
    Operate(fd, {"path_filestat_get"},
            <<WellFormed(a)>> \o OnPath(fd, "path_filestat_get", a)
              \o <<OutMapped(a), PathGiven(a)>>, path_errno)

\* timestamp_values asks the clock if one of the times is to be now.
TimesKnown(now, clock) == Check(~now \/ clock = "SUCCESS", clock)

path_filestat_set_times ==
  \E fd \in GuestFds, a \in Arguments, now \in BOOLEAN, clock \in Ends(clock_errno) :
    Operate(fd, {"path_filestat_set_times"},
            <<WellFormed(a)>> \o OnPath(fd, "path_filestat_set_times", a)
              \o <<PathGiven(a), TimesKnown(now, clock)>>, path_errno)

TwoPaths(source, target, from, to, first, checks) ==
  LET all == checks \o
        <<Open(source), Open(target),
          Check(from \in Entry(source).base /\ to \in Entry(target).base, "NOTCAPABLE"),
          Check(Entry(source).type = "directory" /\ Entry(target).type = "directory", "NOTDIR"),
          HasMemory(first), PathGiven(first)>>
  IN  \/ Refuse(all)
      \/ /\ Passes(all)
         /\ \E code \in Ends(path_errno) :
              Exercise(Use(source, {from}) \cup Use(target, {to}), code)
         /\ UNCHANGED table

path_link ==
  \E source, target \in GuestFds, a \in Arguments :
    TwoPaths(source, target, "path_link_source", "path_link_target", a, <<WellFormed(a)>>)

path_rename ==
  \E source, target \in GuestFds, a \in Arguments :
    TwoPaths(source, target, "path_rename_source", "path_rename_target", a, <<>>)

----------------------------------------------------------------------------
(* Descriptors come and go.                                                *)

\* What path_open asks of the parent's own rights, beside path_open.
SyncRights(flags) ==
  IF flags \cap {"rsync", "sync"} # {} THEN {"fd_sync"} ELSE {}
OpenRights(o, flags) ==
  {"path_open"} \cup (IF o.create THEN {"path_create_file"} ELSE {})
    \cup (IF o.truncate THEN {"path_filestat_set_size"} ELSE {}) \cup SyncRights(flags)

\* Mutant of MayOpen: what is asked for is compared with the parent's own rights.
MayOpenOwn(parent, base, inheriting, o, flags) ==
  /\ OpenRights(o, flags) \subseteq parent.base
  /\ base \cup inheriting \subseteq parent.base
  /\ "dsync" \in flags => {"fd_datasync", "fd_sync"} \cap parent.base # {}

MayOpen(parent, base, inheriting, o, flags) ==
  /\ OpenRights(o, flags) \subseteq parent.base
  /\ base \cup inheriting \subseteq parent.inheriting
  /\ "dsync" \in flags => {"fd_datasync", "fd_sync"} \cap parent.base # {}

\* Mutant of NewFd: the number of descriptors is taken for the next one.
NewFdByCount == Cardinality(DOMAIN descriptors)

\* The lowest number from 3 on that is not taken.
NewFd ==
  CHOOSE n \in 3..(MaxFd + 1) :
    n \notin DOMAIN descriptors /\ \A m \in 3..(n - 1) : m \in DOMAIN descriptors

Insert(fd, entry, ceiling) ==
  /\ descriptors' = [n \in DOMAIN descriptors \cup {fd} |-> IF n = fd THEN entry ELSE descriptors[n]]
  /\ ceilings' = [n \in DOMAIN ceilings \cup {fd} |-> IF n = fd THEN ceiling ELSE ceilings[n]]

\* Mutant of OpenChecks: nobody looks where the number is to be written.
OpenChecksBlind(fd, base, inheriting, o, flags, a) ==
  <<WellFormed(a), Open(fd), Check(MayOpen(Entry(fd), base, inheriting, o, flags), "NOTCAPABLE"),
    IsDirectory(fd), HasMemory(a), PathGiven(a), Check(NewFd <= MaxFd, "MFILE")>>

\* Mutant of OpenChecks: descriptors do not run out.
OpenChecksUnbounded(fd, base, inheriting, o, flags, a) ==
  <<WellFormed(a), Open(fd), Check(MayOpen(Entry(fd), base, inheriting, o, flags), "NOTCAPABLE"),
    IsDirectory(fd), HasMemory(a), OutMapped(a), PathGiven(a)>>

OpenChecks(fd, base, inheriting, o, flags, a) ==
  <<WellFormed(a), Open(fd), Check(MayOpen(Entry(fd), base, inheriting, o, flags), "NOTCAPABLE"),
    IsDirectory(fd), HasMemory(a), OutMapped(a), PathGiven(a), Check(NewFd <= MaxFd, "MFILE")>>

\* The resource opens; an open file that should have been a directory is dropped
\* again. The number is written to the guest last.
Opened(fd, base, inheriting, o, flags, a, type) ==
  /\ excess' = Use(fd, OpenRights(o, flags))
  /\ IF o.directory /\ type # "directory"
     THEN answer' = "NOTDIR" /\ UNCHANGED table
     ELSE /\ Insert(NewFd,
                    [type |-> type, flags |-> flags, in |-> flags, base |-> base,
                     inheriting |-> inheriting, preopen |-> FALSE],
                    [base |-> ceilings[fd].inheriting, inheriting |-> ceilings[fd].inheriting])
          /\ answer' = IF a.out THEN "SUCCESS" ELSE "FAULT"
          /\ held' = IF a.out THEN held \cup {NewFd} ELSE held

path_open ==
  \E fd \in GuestFds, base, inheriting \in RightSets, o \in Opens, flags \in FlagSets,
     a \in Arguments :
    \/ Refuse(OpenChecks(fd, base, inheriting, o, flags, a))
    \/ /\ Passes(OpenChecks(fd, base, inheriting, o, flags, a))
       /\ \/ \E type \in {"directory", "regular"} : Opened(fd, base, inheriting, o, flags, a, type)
          \/ /\ \E code \in Ends(path_errno) \ {"SUCCESS"} :
                  Exercise(Use(fd, OpenRights(o, flags)), code)
             /\ UNCHANGED table

Without(f, fd) == [n \in DOMAIN f \ {fd} |-> f[n]]

fd_close ==
  \E fd \in GuestFds :
    \/ Refuse(<<Open(fd)>>)
    \/ /\ fd \in DOMAIN descriptors
       /\ descriptors' = Without(descriptors, fd) /\ ceilings' = Without(ceilings, fd)
       /\ held' = held \ {fd}
       /\ Exercise({}, "SUCCESS")

----------------------------------------------------------------------------
(* Calls on descriptors.                                                   *)

\* Mutant of MayKeep: the rights to inherit are compared with the others.
MayKeepSwapped(entry, base, inheriting) ==
  base \subseteq entry.base /\ inheriting \subseteq entry.base

MayKeep(entry, base, inheriting) ==
  base \subseteq entry.base /\ inheriting \subseteq entry.inheriting

fd_fdstat_set_rights ==
  \E fd \in GuestFds, base, inheriting \in RightSets :
    LET checks == <<Open(fd), Check(MayKeep(Entry(fd), base, inheriting), "NOTCAPABLE")>>
    IN  \/ Refuse(checks)
        \/ /\ Passes(checks)
           /\ descriptors' = [descriptors EXCEPT ![fd].base = base, ![fd].inheriting = inheriting]
           /\ Exercise({}, "SUCCESS")
           /\ UNCHANGED <<ceilings, held>>

\* Mutant of SetFlags: the entry is written before the resource agrees.
SetFlagsFirst(fd, flags, code) ==
  descriptors' = IF code = "SUCCESS" THEN [descriptors EXCEPT ![fd].flags = flags, ![fd].in = flags]
                 ELSE [descriptors EXCEPT ![fd].flags = flags]

SetFlags(fd, flags, code) ==
  descriptors' = IF code = "SUCCESS" THEN [descriptors EXCEPT ![fd].flags = flags, ![fd].in = flags]
                 ELSE descriptors

fd_fdstat_set_flags ==
  \E fd \in GuestFds, flags \in FlagSets, a \in Arguments :
    LET checks == <<WellFormed(a), Open(fd), Capable(fd, {"fd_fdstat_set_flags"})>>
    IN  \/ Refuse(checks)
        \/ /\ Passes(checks)
           /\ \E code \in Ends(io_errno) :
                /\ SetFlags(fd, flags, code)
                /\ Exercise(Use(fd, {"fd_fdstat_set_flags"}), code)
           /\ UNCHANGED <<ceilings, held>>

FdCall(fd, rights, checks, errno) ==
  Operate(fd, rights, checks \o <<Open(fd), Capable(fd, rights)>>, errno)

fd_sync == \E fd \in GuestFds : FdCall(fd, {"fd_sync"}, <<>>, io_errno)
fd_datasync == \E fd \in GuestFds : FdCall(fd, {"fd_datasync"}, <<>>, io_errno)
fd_filestat_set_size == \E fd \in GuestFds : FdCall(fd, {"fd_filestat_set_size"}, <<>>, io_errno)

fd_filestat_set_times ==
  \E fd \in GuestFds, a \in Arguments, now \in BOOLEAN, clock \in Ends(clock_errno) :
    Operate(fd, {"fd_filestat_set_times"},
            <<WellFormed(a), Open(fd), Capable(fd, {"fd_filestat_set_times"}),
              TimesKnown(now, clock)>>, io_errno)

\* A call that answers through memory checks the pointer before it begins.
OutCall(fd, rights, a, errno) ==
  Operate(fd, rights, <<Open(fd), Capable(fd, rights), HasMemory(a), OutMapped(a)>>, errno)

fd_filestat_get == \E fd \in GuestFds, a \in Arguments : OutCall(fd, {"fd_filestat_get"}, a, io_errno)

TellRight(fd) == IF "fd_seek" \in Entry(fd).base THEN {"fd_seek"} ELSE {"fd_tell"}

fd_tell == \E fd \in GuestFds, a \in Arguments : OutCall(fd, TellRight(fd), a, seek_errno)

\* A seek by nothing from where it stands is a tell.
fd_seek ==
  \E fd \in GuestFds, a \in Arguments, query \in BOOLEAN :
    LET rights == IF query THEN TellRight(fd) ELSE {"fd_seek"}
    IN  Operate(fd, rights,
                <<WellFormed(a), Open(fd), Capable(fd, rights), HasMemory(a), OutMapped(a)>>,
                seek_errno)

\* Reading and writing, as far as the table matters.
fd_read == \E fd \in GuestFds, a \in Arguments : OutCall(fd, {"fd_read"}, a, stream_errno)
fd_pread == \E fd \in GuestFds, a \in Arguments : OutCall(fd, {"fd_read", "fd_seek"}, a, io_errno)
fd_pwrite == \E fd \in GuestFds, a \in Arguments : OutCall(fd, {"fd_write", "fd_seek"}, a, io_errno)

\* fd_write asks for the memory first.
fd_write ==
  \E fd \in GuestFds, a \in Arguments :
    Operate(fd, {"fd_write"},
            <<HasMemory(a), Open(fd), Capable(fd, {"fd_write"}), OutMapped(a)>>, stream_errno)

fd_readdir ==
  \E fd \in GuestFds, a \in Arguments :
    Operate(fd, {"fd_readdir"},
            <<Open(fd), Capable(fd, {"fd_readdir"}), IsDirectory(fd), HasMemory(a), OutMapped(a)>>,
            io_errno)

fd_advise ==
  \E fd \in GuestFds, a \in Arguments : Look(<<WellFormed(a), Open(fd), Capable(fd, {"fd_advise"})>>)

fd_fdstat_get ==
  \E fd \in GuestFds, a \in Arguments : Look(<<Open(fd), HasMemory(a), OutMapped(a)>>)

Preopened(fd) == Check(Entry(fd).preopen /\ Entry(fd).type = "directory", "BADF")

fd_prestat_get ==
  \E fd \in GuestFds, a \in Arguments : Look(<<Open(fd), Preopened(fd), HasMemory(a), OutMapped(a)>>)

\* A name longer than the guest's buffer is refused first.
fd_prestat_dir_name ==
  \E fd \in GuestFds, a \in Arguments, long \in BOOLEAN :
    Look(<<Open(fd), Preopened(fd), Check(~long, "NAMETOOLONG"), HasMemory(a), OutMapped(a)>>)

\* Calls that have no descriptor, or are not implemented.
clock_time_get ==
  \E a \in Arguments, clock \in Ends(clock_errno) :
    Look(<<HasMemory(a), WellFormed(a), Check(clock = "SUCCESS", clock), OutMapped(a)>>)
clock_res_get ==
  \E a \in Arguments, clock \in Ends(clock_errno) :
    Look(<<WellFormed(a), HasMemory(a), Check(clock = "SUCCESS", clock), OutMapped(a)>>)
random_get ==
  \E a \in Arguments, filled \in BOOLEAN :
    Look(<<HasMemory(a), OutMapped(a), Check(filled, "IO")>>)
Unimplemented == \E code \in {"NOSYS", "NOTSUP"} : Look(<<Check(FALSE, code)>>)

----------------------------------------------------------------------------
StdEntry(right) ==
  [type |-> "unknown", flags |-> {}, in |-> {}, base |-> {right, "fd_filestat_get"},
   inheriting |-> {}, preopen |-> FALSE]

\* The embedder has put a preopened directory under the first number after the
\* standard ones, through descriptors_mut.
Init ==
  \E base, inheriting \in RightSets :
    LET preopen == [type |-> "directory", flags |-> {}, in |-> {}, base |-> base,
                    inheriting |-> inheriting, preopen |-> TRUE]
    IN  /\ descriptors = [fd \in StdFds \cup {3} |->
                           IF fd = 3 THEN preopen
                           ELSE StdEntry(IF fd = 0 THEN "fd_read" ELSE "fd_write")]
        /\ ceilings = [fd \in StdFds \cup {3} |->
                        [base |-> descriptors[fd].base, inheriting |-> descriptors[fd].inheriting]]
        /\ answer = "SUCCESS" /\ excess = {} /\ held = StdFds \cup {3}

PathCalls ==
  \/ path_create_directory \/ path_remove_directory \/ path_unlink_file \/ path_symlink
  \/ path_readlink \/ path_filestat_get \/ path_filestat_set_times \/ path_link \/ path_rename
FdCalls ==
  \/ fd_sync \/ fd_datasync \/ fd_filestat_set_size \/ fd_filestat_set_times \/ fd_filestat_get
  \/ fd_tell \/ fd_seek \/ fd_read \/ fd_pread \/ fd_pwrite \/ fd_write \/ fd_readdir
Looks ==
  \/ fd_advise \/ fd_fdstat_get \/ fd_prestat_get \/ fd_prestat_dir_name \/ clock_time_get
  \/ clock_res_get \/ random_get \/ Unimplemented
TableCalls == path_open \/ fd_close \/ fd_fdstat_set_rights \/ fd_fdstat_set_flags

Next == PathCalls \/ FdCalls \/ Looks \/ TableCalls

Spec == Init /\ [][Next]_vars

----------------------------------------------------------------------------
(* Properties.                                                             *)

TypeOK ==
  /\ DOMAIN descriptors \subseteq 0..MaxFd /\ DOMAIN ceilings = DOMAIN descriptors
  /\ \A fd \in DOMAIN descriptors :
       /\ descriptors[fd] \in EntryType(Rights)
       /\ ceilings[fd] \in [base : SUBSET Rights, inheriting : SUBSET Rights]
  /\ held \subseteq 0..MaxFd
  /\ excess \subseteq Rights

\* Over any sequence of opens through opens, shrunk rights, closes and reused
\* numbers, a descriptor has no right that the embedder did not let its preopen
\* pass on (path_open, fd_fdstat_set_rights).
RightsDescend ==
  \A fd \in DOMAIN descriptors :
    /\ descriptors[fd].base \subseteq ceilings[fd].base
    /\ descriptors[fd].inheriting \subseteq ceilings[fd].inheriting

\* No call ever has a resource do what the embedder did not grant, directly or
\* through directories opened in between, to the preopen it came from.
NoAmbientAuthority == excess = {}

\* Guests know exactly the descriptors that are open: a call that fails at any
\* of its steps leaves none behind, and one that succeeds names the right one
\* (path_open's order of checks, insertion and write).
NothingLeaks == DOMAIN descriptors = held

\* The flags in the table are those the resource is in, whatever calls the
\* resource refused (fd_fdstat_set_flags, path_open).
FlagsAgree == \A fd \in DOMAIN descriptors : descriptors[fd].flags = descriptors[fd].in

\* A descriptor stays what it is until it is closed: another one is never opened
\* in its place, and its rights only shrink.
Kept(fd) ==
  /\ descriptors'[fd].type = descriptors[fd].type
  /\ descriptors'[fd].preopen = descriptors[fd].preopen
  /\ ceilings'[fd] = ceilings[fd]
  /\ descriptors'[fd].base \subseteq descriptors[fd].base
  /\ descriptors'[fd].inheriting \subseteq descriptors[fd].inheriting
EntriesStay == [][\A fd \in DOMAIN descriptors \cap DOMAIN descriptors' : Kept(fd)]_vars
=============================================================================
