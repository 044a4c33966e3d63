---------------------------- MODULE WasiProofs -----------------------------
(***************************************************************************)
(* The descriptor table for any sets of rights and flags, any numbers and  *)
(* any arguments of calls: rights descend from what the embedder granted,  *)
(* no call exercises more, nothing is left open that the guest was not     *)
(* told of, the flags are those of the resource, and a number that is in   *)
(* use is never given to another descriptor.                               *)
(***************************************************************************)
EXTENDS WasiFds, WellFoundedInduction, TLAPS

Ceiling == [base : SUBSET Rights, inheriting : SUBSET Rights]

\* The inductive invariant: the four properties with the shape of the table.
TableInv ==
  /\ descriptors \in [DOMAIN descriptors -> EntryType(Rights)]
  /\ ceilings \in [DOMAIN descriptors -> Ceiling]
  /\ RightsDescend
  /\ NoAmbientAuthority
  /\ NothingLeaks
  /\ FlagsAgree

----------------------------------------------------------------------------
(***************************************************************************)
(* Lists of checks.                                                        *)
(***************************************************************************)
\* A check that is in a list that passes is met.
LEMMA PassingTwo ==
  ASSUME NEW a, NEW b, Passes(<<a, b>>)
  PROVE  a.ok /\ b.ok
BY DEF Passes

LEMMA PassingThree ==
  ASSUME NEW a, NEW b, NEW c, Passes(<<a, b, c>>)
  PROVE  a.ok /\ b.ok /\ c.ok
BY DEF Passes

LEMMA PassingFour ==
  ASSUME NEW a, NEW b, NEW c, NEW d, Passes(<<a, b, c, d>>)
  PROVE  a.ok /\ b.ok /\ c.ok /\ d.ok
BY DEF Passes

LEMMA PassingFive ==
  ASSUME NEW a, NEW b, NEW c, NEW d, NEW e, Passes(<<a, b, c, d, e>>)
  PROVE  a.ok /\ b.ok /\ c.ok /\ d.ok /\ e.ok
BY DEF Passes

\* A list passes if each of its parts does.
LEMMA PassingParts ==
  ASSUME NEW S, NEW s \in Seq(S), NEW t \in Seq(S), Passes(s \o t)
  PROVE  Passes(s) /\ Passes(t)
<1>1. ASSUME NEW i \in DOMAIN s PROVE s[i].ok
  BY <1>1, (s \o t)[i] = s[i], i \in DOMAIN (s \o t) DEF Passes
<1>2. ASSUME NEW i \in DOMAIN t PROVE t[i].ok
  <2>1. i + Len(s) \in DOMAIN (s \o t) /\ (s \o t)[i + Len(s)] = t[i]
    BY <1>2
  <2> QED BY <2>1 DEF Passes
<1> QED BY <1>1, <1>2 DEF Passes

LEMMA CheckIsMet == \A p \in BOOLEAN : \A code : Check(p, code).ok = p
BY DEF Check

LEMMA OpenIsMet ==
  ASSUME NEW fd, Open(fd).ok
  PROVE  fd \in DOMAIN descriptors
<1>1. (fd \in DOMAIN descriptors) \in BOOLEAN
  OBVIOUS
<1>2. Open(fd).ok = (fd \in DOMAIN descriptors)
  BY <1>1, CheckIsMet DEF Open
<1> QED BY <1>2

LEMMA CapableIsMet ==
  ASSUME NEW fd, NEW rights, Capable(fd, rights).ok, fd \in DOMAIN descriptors
  PROVE  rights \subseteq descriptors[fd].base
<1>1. (rights \subseteq Entry(fd).base) \in BOOLEAN
  OBVIOUS
<1>2. rights \subseteq Entry(fd).base
  BY <1>1, CheckIsMet DEF Capable
<1> QED BY <1>2 DEF Entry

----------------------------------------------------------------------------
(***************************************************************************)
(* Calls that leave the table as it is.                                    *)
(***************************************************************************)
LEMMA TableKept ==
  ASSUME TableInv, UNCHANGED table, excess' = {}
  PROVE  TableInv'
BY DEF TableInv, table, RightsDescend, NoAmbientAuthority, NothingLeaks, FlagsAgree

\* Nothing is exercised beyond the ceiling by one who has the right.
LEMMA NothingInExcess ==
  ASSUME TableInv, NEW fd \in DOMAIN descriptors, NEW rights, rights \subseteq descriptors[fd].base
  PROVE  Use(fd, rights) = {}
BY DEF TableInv, RightsDescend, Use

LEMMA LookKeeps ==
  ASSUME TableInv, NEW checks, Look(checks)
  PROVE  TableInv'
BY TableKept DEF Look, Refuse, Exercise

\* What a list of checks must establish for a call that operates on fd.
Entitled(fd, rights) == fd \in DOMAIN descriptors /\ rights \subseteq descriptors[fd].base

LEMMA OperateKeeps ==
  ASSUME TableInv, NEW fd, NEW rights, NEW checks, NEW errno, Operate(fd, rights, checks, errno),
         Passes(checks) => Entitled(fd, rights)
  PROVE  TableInv'
<1>1. CASE Refuse(checks)
  BY <1>1, TableKept DEF Refuse
<1>2. CASE Passes(checks) /\ UNCHANGED table /\ excess' = Use(fd, rights)
  BY <1>2, NothingInExcess, TableKept DEF Entitled
<1> QED BY <1>1, <1>2 DEF Operate, Exercise

LEMMA MetIsEntitled ==
  ASSUME NEW fd, NEW rights, Open(fd).ok, Capable(fd, rights).ok
  PROVE  Entitled(fd, rights)
BY OpenIsMet, CapableIsMet DEF Entitled
----------------------------------------------------------------------------
(***************************************************************************)
(* Calls on paths and on descriptors.                                      *)
(***************************************************************************)
LEMMA PathCallKeeps ==
  ASSUME TableInv, NEW fd, NEW right, NEW a, PathCall(fd, right, a)
  PROVE  TableInv'
<1>1. ASSUME Passes(Append(OnPath(fd, right, a), PathGiven(a))) PROVE Entitled(fd, {right})
  <2>1. Open(fd).ok /\ Capable(fd, {right}).ok
    BY <1>1 DEF Passes, OnPath
  <2> QED BY <2>1, MetIsEntitled
<1> QED BY <1>1, OperateKeeps DEF PathCall

\* The descriptor's checks count wherever they stand in the list.
LEMMA OnPathThen ==
  ASSUME NEW fd, NEW right, NEW a, NEW x, NEW y, Passes(OnPath(fd, right, a) \o <<x, y>>)
  PROVE  Entitled(fd, {right})
<1> DEFINE S == {Open(fd), Capable(fd, {right}), IsDirectory(fd), HasMemory(a), x, y}
<1>1. OnPath(fd, right, a) \in Seq(S) /\ <<x, y>> \in Seq(S)
  BY DEF OnPath
<1>2. Passes(OnPath(fd, right, a))
  BY <1>1, PassingParts
<1>3. Open(fd).ok /\ Capable(fd, {right}).ok
  BY <1>2, PassingFour DEF OnPath
<1> QED BY <1>3, MetIsEntitled

LEMMA OnPathBetween ==
  ASSUME NEW fd, NEW right, NEW a, NEW w, NEW x, NEW y,
         Passes(<<w>> \o OnPath(fd, right, a) \o <<x, y>>)
  PROVE  Entitled(fd, {right})
<1> DEFINE S == {Open(fd), Capable(fd, {right}), IsDirectory(fd), HasMemory(a), w, x, y}
<1>1. OnPath(fd, right, a) \in Seq(S) /\ <<w>> \in Seq(S) /\ <<x, y>> \in Seq(S)
  BY DEF OnPath
<1>2. <<w>> \o OnPath(fd, right, a) \in Seq(S)
  BY <1>1
<1> HIDE DEF S
<1>3. Passes(<<w>> \o OnPath(fd, right, a))
  BY <1>1, <1>2, PassingParts
<1>4. Passes(OnPath(fd, right, a))
  BY <1>1, <1>3, PassingParts
<1>5. Open(fd).ok /\ Capable(fd, {right}).ok
  BY <1>4, PassingFour DEF OnPath
<1> QED BY <1>5, MetIsEntitled

LEMMA TwoPathsKeeps ==
  ASSUME TableInv, NEW source, NEW target, NEW from, NEW to, NEW first,
         NEW S, NEW checks \in Seq(S),
         TwoPaths(source, target, from, to, first, checks)
  PROVE  TableInv'
<1> DEFINE mine ==
      <<Open(source), Open(target),
        Check(from \in Entry(source).base /\ to \in Entry(target).base, "NOTCAPABLE"),
        Check(Entry(source).type = "directory" /\ Entry(target).type = "directory", "NOTDIR"),
        HasMemory(first), PathGiven(first)>>
<1>1. CASE Refuse(checks \o mine)
  BY <1>1, TableKept DEF Refuse
<1>2. CASE /\ Passes(checks \o mine)
           /\ UNCHANGED table
           /\ excess' = Use(source, {from}) \cup Use(target, {to})
  <2>1. PICK T : checks \in Seq(T) /\ mine \in Seq(T)
    <3> DEFINE M == {Open(source), Open(target),
          Check(from \in Entry(source).base /\ to \in Entry(target).base, "NOTCAPABLE"),
          Check(Entry(source).type = "directory" /\ Entry(target).type = "directory", "NOTDIR"),
          HasMemory(first), PathGiven(first)}
    <3>1. mine \in Seq(M)
      OBVIOUS
    <3> HIDE DEF M, mine
    <3>2. mine \in Seq(S \cup M) /\ checks \in Seq(S \cup M)
      BY <3>1
    <3> QED BY <3>2
  <2>2. Passes(mine)
    <3> HIDE DEF mine
    <3> QED BY <1>2, <2>1, PassingParts
  <2>3. /\ Open(source).ok /\ Open(target).ok
        /\ Check(from \in Entry(source).base /\ to \in Entry(target).base, "NOTCAPABLE").ok
    BY <2>2 DEF Passes
  <2>4. source \in DOMAIN descriptors /\ target \in DOMAIN descriptors
    BY <2>3, OpenIsMet
  <2>5. from \in Entry(source).base /\ to \in Entry(target).base
    <3>1. (from \in Entry(source).base /\ to \in Entry(target).base) \in BOOLEAN
      OBVIOUS
    <3> QED BY <2>3, <3>1, CheckIsMet
  <2>6. {from} \subseteq descriptors[source].base /\ {to} \subseteq descriptors[target].base
    BY <2>4, <2>5 DEF Entry
  <2>7. Use(source, {from}) = {} /\ Use(target, {to}) = {}
    BY <2>4, <2>6, NothingInExcess
  <2> QED BY <1>2, <2>7, TableKept
<1> QED BY <1>1, <1>2 DEF TwoPaths, Exercise

LEMMA PathCallsKeep ==
  ASSUME TableInv, PathCalls
  PROVE  TableInv'
<1>1. CASE path_create_directory
  BY <1>1, PathCallKeeps DEF path_create_directory
<1>2. CASE path_remove_directory
  BY <1>2, PathCallKeeps DEF path_remove_directory
<1>3. CASE path_unlink_file
  BY <1>3, PathCallKeeps DEF path_unlink_file
<1>4. CASE path_symlink
  BY <1>4, OnPathThen, OperateKeeps DEF path_symlink
<1>5. CASE path_readlink
  BY <1>5, OnPathThen, OperateKeeps DEF path_readlink
<1>6. CASE path_filestat_get
  BY <1>6, OnPathBetween, OperateKeeps DEF path_filestat_get
<1>7. CASE path_filestat_set_times
  BY <1>7, OnPathBetween, OperateKeeps DEF path_filestat_set_times
<1>8. CASE path_link
  <2>1. PICK source \in GuestFds, target \in GuestFds, a \in Arguments :
          TwoPaths(source, target, "path_link_source", "path_link_target", a, <<WellFormed(a)>>)
    BY <1>8 DEF path_link
  <2>2. <<WellFormed(a)>> \in Seq({WellFormed(a)})
    OBVIOUS
  <2> QED BY <2>1, <2>2, TwoPathsKeeps
<1>9. CASE path_rename
  <2>1. PICK source \in GuestFds, target \in GuestFds, a \in Arguments :
          TwoPaths(source, target, "path_rename_source", "path_rename_target", a, <<>>)
    BY <1>9 DEF path_rename
  <2>2. <<>> \in Seq({})
    OBVIOUS
  <2> QED BY <2>1, <2>2, TwoPathsKeeps
<1> QED BY <1>1, <1>2, <1>3, <1>4, <1>5, <1>6, <1>7, <1>8, <1>9 DEF PathCalls

LEMMA FdCallKeeps ==
  ASSUME TableInv, NEW fd, NEW rights, NEW errno, FdCall(fd, rights, <<>>, errno)
  PROVE  TableInv'
<1> DEFINE mine == <<Open(fd), Capable(fd, rights)>>
<1>1. mine \in Seq({Open(fd), Capable(fd, rights)})
  OBVIOUS
<1>2. ASSUME Passes(<<>> \o mine) PROVE Entitled(fd, rights)
  <2>1. <<>> \in Seq({Open(fd), Capable(fd, rights)})
    OBVIOUS
  <2>2. Passes(mine)
    <3> HIDE DEF mine
    <3> QED BY <1>1, <1>2, <2>1, PassingParts
  <2> QED BY <2>2, PassingTwo, MetIsEntitled
<1> QED BY <1>2, OperateKeeps DEF FdCall

LEMMA OutCallKeeps ==
  ASSUME TableInv, NEW fd, NEW rights, NEW a, NEW errno, OutCall(fd, rights, a, errno)
  PROVE  TableInv'
<1>1. ASSUME Passes(<<Open(fd), Capable(fd, rights), HasMemory(a), OutMapped(a)>>)
      PROVE  Entitled(fd, rights)
  BY <1>1, PassingFour, MetIsEntitled
<1> QED BY <1>1, OperateKeeps DEF OutCall

LEMMA FdCallsKeep ==
  ASSUME TableInv, FdCalls
  PROVE  TableInv'
<1>1. CASE fd_sync
  BY <1>1, FdCallKeeps DEF fd_sync
<1>2. CASE fd_datasync
  BY <1>2, FdCallKeeps DEF fd_datasync
<1>3. CASE fd_filestat_set_size
  BY <1>3, FdCallKeeps DEF fd_filestat_set_size
<1>4. CASE fd_filestat_set_times
  <2>1. PICK fd \in GuestFds, a \in Arguments, now \in BOOLEAN, clock \in Ends(clock_errno) :
          Operate(fd, {"fd_filestat_set_times"},
                  <<WellFormed(a), Open(fd), Capable(fd, {"fd_filestat_set_times"}),
                    TimesKnown(now, clock)>>, io_errno)
    BY <1>4 DEF fd_filestat_set_times
  <2> QED BY <2>1, PassingFour, MetIsEntitled, OperateKeeps
<1>5. CASE fd_filestat_get
  BY <1>5, OutCallKeeps DEF fd_filestat_get
<1>6. CASE fd_tell
  BY <1>6, OutCallKeeps DEF fd_tell
<1>7. CASE fd_seek
  <2>1. PICK fd \in GuestFds, a \in Arguments, query \in BOOLEAN :
          Operate(fd, IF query THEN TellRight(fd) ELSE {"fd_seek"},
                  <<WellFormed(a), Open(fd),
                    Capable(fd, IF query THEN TellRight(fd) ELSE {"fd_seek"}),
                    HasMemory(a), OutMapped(a)>>, seek_errno)
    BY <1>7 DEF fd_seek
  <2> QED BY <2>1, PassingFive, MetIsEntitled, OperateKeeps
<1>8. CASE fd_read
  BY <1>8, OutCallKeeps DEF fd_read
<1>9. CASE fd_pread
  BY <1>9, OutCallKeeps DEF fd_pread
<1>10. CASE fd_pwrite
  BY <1>10, OutCallKeeps DEF fd_pwrite
<1>11. CASE fd_write
  <2>1. PICK fd \in GuestFds, a \in Arguments :
          Operate(fd, {"fd_write"},
                  <<HasMemory(a), Open(fd), Capable(fd, {"fd_write"}), OutMapped(a)>>,
                  stream_errno)
    BY <1>11 DEF fd_write
  <2> QED BY <2>1, PassingFour, MetIsEntitled, OperateKeeps
<1>12. CASE fd_readdir
  <2>1. PICK fd \in GuestFds, a \in Arguments :
          Operate(fd, {"fd_readdir"},
                  <<Open(fd), Capable(fd, {"fd_readdir"}), IsDirectory(fd), HasMemory(a),
                    OutMapped(a)>>, io_errno)
    BY <1>12 DEF fd_readdir
  <2> QED BY <2>1, PassingFive, MetIsEntitled, OperateKeeps
<1> QED BY <1>1, <1>2, <1>3, <1>4, <1>5, <1>6, <1>7, <1>8, <1>9, <1>10, <1>11, <1>12 DEF FdCalls

LEMMA LooksKeep ==
  ASSUME TableInv, Looks
  PROVE  TableInv'
BY LookKeeps
   DEF Looks, fd_advise, fd_fdstat_get, fd_prestat_get, fd_prestat_dir_name, clock_time_get,
       clock_res_get, random_get, Unimplemented

----------------------------------------------------------------------------
(***************************************************************************)
(* Calls that change the table.                                            *)
(***************************************************************************)
\* A new entry within its ceiling that the guest is told of.
LEMMA InsertKeeps ==
  ASSUME TableInv, NEW fd, NEW entry \in EntryType(Rights), NEW ceiling \in Ceiling,
         Insert(fd, entry, ceiling), entry.base \subseteq ceiling.base,
         entry.inheriting \subseteq ceiling.inheriting, entry.flags = entry.in,
         excess' = {}, held' = held \cup {fd}
  PROVE  TableInv'
<1>1. /\ DOMAIN descriptors' = DOMAIN descriptors \cup {fd}
      /\ DOMAIN ceilings' = DOMAIN descriptors \cup {fd}
  BY DEF Insert, TableInv
<1>2. \A n \in DOMAIN descriptors' :
        \/ n = fd /\ descriptors'[n] = entry /\ ceilings'[n] = ceiling
        \/ n \in DOMAIN descriptors /\ descriptors'[n] = descriptors[n] /\ ceilings'[n] = ceilings[n]
  BY <1>1 DEF Insert, TableInv
<1>3. /\ descriptors' \in [DOMAIN descriptors' -> EntryType(Rights)]
      /\ ceilings' \in [DOMAIN descriptors' -> Ceiling]
  BY <1>1, <1>2 DEF TableInv, Insert
<1>4. RightsDescend'
  BY <1>2 DEF TableInv, RightsDescend
<1>5. FlagsAgree'
  BY <1>2 DEF TableInv, FlagsAgree
<1>6. NothingLeaks' /\ NoAmbientAuthority'
  BY <1>1 DEF TableInv, NothingLeaks, NoAmbientAuthority
<1> QED BY <1>3, <1>4, <1>5, <1>6 DEF TableInv

\* What path_open's checks say of the parent.
LEMMA OpenChecked ==
  ASSUME NEW fd, NEW base, NEW inheriting, NEW o, NEW flags, NEW a,
         Passes(OpenChecks(fd, base, inheriting, o, flags, a)), a.out \in BOOLEAN
  PROVE  /\ Entitled(fd, OpenRights(o, flags))
         /\ base \cup inheriting \subseteq descriptors[fd].inheriting
         /\ a.out
<1>1. /\ Open(fd).ok
      /\ Check(MayOpen(Entry(fd), base, inheriting, o, flags), "NOTCAPABLE").ok
      /\ OutMapped(a).ok
  BY DEF Passes, OpenChecks
<1>2. fd \in DOMAIN descriptors
  BY <1>1, OpenIsMet
<1>3. a.out
  BY <1>1, CheckIsMet DEF OutMapped
<1>4. MayOpen(Entry(fd), base, inheriting, o, flags)
  <2>1. MayOpen(Entry(fd), base, inheriting, o, flags) \in BOOLEAN
    BY DEF MayOpen
  <2> QED BY <1>1, <2>1, CheckIsMet
<1>5. Entry(fd) = descriptors[fd]
  BY <1>2 DEF Entry
<1> QED BY <1>2, <1>3, <1>4, <1>5 DEF MayOpen, Entitled

LEMMA OpenedKeeps ==
  ASSUME TableInv, NEW fd, NEW base \in SUBSET Rights, NEW inheriting \in SUBSET Rights, NEW o,
         NEW flags \in FlagSets, NEW a, NEW type \in {"directory", "regular"},
         Entitled(fd, OpenRights(o, flags)),
         base \cup inheriting \subseteq descriptors[fd].inheriting, a.out,
         Opened(fd, base, inheriting, o, flags, a, type)
  PROVE  TableInv'
<1> DEFINE entry == [type |-> type, flags |-> flags, in |-> flags, base |-> base,
                     inheriting |-> inheriting, preopen |-> FALSE]
           ceiling == [base |-> ceilings[fd].inheriting, inheriting |-> ceilings[fd].inheriting]
<1>1. excess' = {}
  BY NothingInExcess DEF Opened, Entitled
<1>2. CASE UNCHANGED table
  BY <1>1, <1>2, TableKept
<1>3. CASE Insert(NewFd, entry, ceiling) /\ held' = held \cup {NewFd}
  <2>1. fd \in DOMAIN descriptors /\ ceilings[fd] \in Ceiling
    BY DEF Entitled, TableInv
  <2>2. entry \in EntryType(Rights)
    BY DEF EntryType, FileTypes
  <2>3. ceiling \in Ceiling
    BY <2>1 DEF Ceiling
  <2>4. descriptors[fd].inheriting \subseteq ceilings[fd].inheriting
    BY <2>1 DEF TableInv, RightsDescend
  <2>5. /\ entry.base \subseteq ceiling.base /\ entry.inheriting \subseteq ceiling.inheriting
        /\ entry.flags = entry.in
    BY <2>4
  <2> HIDE DEF entry, ceiling
  <2> QED BY <1>1, <1>3, <2>2, <2>3, <2>5, InsertKeeps
<1> QED BY <1>2, <1>3 DEF Opened

LEMMA PathOpenKeeps ==
  ASSUME TableInv, path_open
  PROVE  TableInv'
<1>1. PICK fd \in GuestFds, base \in RightSets, inheriting \in RightSets, o \in Opens,
           flags \in FlagSets, a \in Arguments :
        \/ Refuse(OpenChecks(fd, base, inheriting, o, flags, a))
        \/ /\ Passes(OpenChecks(fd, base, inheriting, o, flags, a))
           /\ \/ \E type \in {"directory", "regular"} :
                   Opened(fd, base, inheriting, o, flags, a, type)
              \/ /\ \E code \in Ends(path_errno) \ {"SUCCESS"} :
                      Exercise(Use(fd, OpenRights(o, flags)), code)
                 /\ UNCHANGED table
  BY DEF path_open
<1>2. CASE Refuse(OpenChecks(fd, base, inheriting, o, flags, a))
  BY <1>2, TableKept DEF Refuse
<1>3. CASE Passes(OpenChecks(fd, base, inheriting, o, flags, a))
  <2>1. a.out \in BOOLEAN
    BY ArgumentsAssumption DEF ArgumentType
  <2>2. /\ Entitled(fd, OpenRights(o, flags))
        /\ base \cup inheriting \subseteq descriptors[fd].inheriting
        /\ a.out
    BY <1>3, <2>1, OpenChecked
  <2>3. ASSUME NEW type \in {"directory", "regular"},
               Opened(fd, base, inheriting, o, flags, a, type)
        PROVE  TableInv'
    <3>1. base \in SUBSET Rights /\ inheriting \in SUBSET Rights
      BY SetsAssumption
    <3> QED BY <2>2, <2>3, <3>1, OpenedKeeps
  <2>4. CASE excess' = Use(fd, OpenRights(o, flags)) /\ UNCHANGED table
    BY <2>2, <2>4, NothingInExcess, TableKept DEF Entitled
  <2>5. \/ Refuse(OpenChecks(fd, base, inheriting, o, flags, a))
        \/ \E type \in {"directory", "regular"} : Opened(fd, base, inheriting, o, flags, a, type)
        \/ excess' = Use(fd, OpenRights(o, flags)) /\ UNCHANGED table
    BY <1>1 DEF Exercise
  <2> QED BY <1>2, <2>3, <2>4, <2>5
<1> QED BY <1>1, <1>2, <1>3

LEMMA CloseKeeps ==
  ASSUME TableInv, fd_close
  PROVE  TableInv'
<1>1. PICK fd \in GuestFds :
        \/ Refuse(<<Open(fd)>>)
        \/ /\ fd \in DOMAIN descriptors
           /\ descriptors' = Without(descriptors, fd) /\ ceilings' = Without(ceilings, fd)
           /\ held' = held \ {fd}
           /\ Exercise({}, "SUCCESS")
  BY DEF fd_close
<1>2. CASE Refuse(<<Open(fd)>>)
  BY <1>2, TableKept DEF Refuse
<1>3. CASE /\ descriptors' = Without(descriptors, fd) /\ ceilings' = Without(ceilings, fd)
           /\ held' = held \ {fd} /\ excess' = {}
  <2>1. /\ DOMAIN descriptors' = DOMAIN descriptors \ {fd}
        /\ DOMAIN ceilings' = DOMAIN descriptors \ {fd}
        /\ \A n \in DOMAIN descriptors \ {fd} :
             descriptors'[n] = descriptors[n] /\ ceilings'[n] = ceilings[n]
    BY <1>3 DEF Without, TableInv
  <2>2. /\ descriptors' \in [DOMAIN descriptors' -> EntryType(Rights)]
        /\ ceilings' \in [DOMAIN descriptors' -> Ceiling]
    BY <1>3, <2>1 DEF TableInv, Without
  <2>3. RightsDescend' /\ FlagsAgree'
    BY <2>1 DEF TableInv, RightsDescend, FlagsAgree
  <2> QED BY <1>3, <2>1, <2>2, <2>3 DEF TableInv, NothingLeaks, NoAmbientAuthority
<1> QED BY <1>1, <1>2, <1>3 DEF Exercise

LEMMA SetRightsKeeps ==
  ASSUME TableInv, fd_fdstat_set_rights
  PROVE  TableInv'
<1>1. PICK fd \in GuestFds, base \in RightSets, inheriting \in RightSets :
        \/ Refuse(<<Open(fd), Check(MayKeep(Entry(fd), base, inheriting), "NOTCAPABLE")>>)
        \/ /\ Passes(<<Open(fd), Check(MayKeep(Entry(fd), base, inheriting), "NOTCAPABLE")>>)
           /\ descriptors' = [descriptors EXCEPT ![fd].base = base, ![fd].inheriting = inheriting]
           /\ excess' = {}
           /\ UNCHANGED <<ceilings, held>>
  BY DEF fd_fdstat_set_rights, Exercise
<1>2. CASE Refuse(<<Open(fd), Check(MayKeep(Entry(fd), base, inheriting), "NOTCAPABLE")>>)
  BY <1>2, TableKept DEF Refuse
<1>3. CASE /\ Passes(<<Open(fd), Check(MayKeep(Entry(fd), base, inheriting), "NOTCAPABLE")>>)
           /\ descriptors' = [descriptors EXCEPT ![fd].base = base, ![fd].inheriting = inheriting]
           /\ excess' = {}
           /\ UNCHANGED <<ceilings, held>>
  <2>1. fd \in DOMAIN descriptors
    BY <1>3, PassingTwo, OpenIsMet
  <2>2. base \subseteq descriptors[fd].base /\ inheriting \subseteq descriptors[fd].inheriting
    <3>1. MayKeep(Entry(fd), base, inheriting) \in BOOLEAN
      BY DEF MayKeep
    <3>2. MayKeep(Entry(fd), base, inheriting)
      BY <1>3, <3>1, PassingTwo, CheckIsMet
    <3> QED BY <2>1, <3>2 DEF MayKeep, Entry
  <2>3. base \in SUBSET Rights /\ inheriting \in SUBSET Rights
    BY SetsAssumption
  <2>4. descriptors' \in [DOMAIN descriptors -> EntryType(Rights)]
    BY <1>3, <2>1, <2>3 DEF TableInv, EntryType
  <2>5. DOMAIN descriptors' = DOMAIN descriptors
    BY <1>3
  <2>6. \A n \in DOMAIN descriptors :
          /\ descriptors'[n].base \subseteq descriptors[n].base
          /\ descriptors'[n].inheriting \subseteq descriptors[n].inheriting
          /\ descriptors'[n].flags = descriptors[n].flags
          /\ descriptors'[n].in = descriptors[n].in
    BY <1>3, <2>1, <2>2 DEF TableInv, EntryType
  <2>7. RightsDescend' /\ FlagsAgree'
    BY <1>3, <2>5, <2>6 DEF TableInv, RightsDescend, FlagsAgree
  <2> QED BY <1>3, <2>4, <2>5, <2>7 DEF TableInv, NothingLeaks, NoAmbientAuthority
<1> QED BY <1>1, <1>2, <1>3

LEMMA SetFlagsKeeps ==
  ASSUME TableInv, fd_fdstat_set_flags
  PROVE  TableInv'
<1>1. PICK fd \in GuestFds, flags \in FlagSets, a \in Arguments :
        \/ Refuse(<<WellFormed(a), Open(fd), Capable(fd, {"fd_fdstat_set_flags"})>>)
        \/ /\ Passes(<<WellFormed(a), Open(fd), Capable(fd, {"fd_fdstat_set_flags"})>>)
           /\ \E code \in Ends(io_errno) :
                /\ SetFlags(fd, flags, code)
                /\ excess' = Use(fd, {"fd_fdstat_set_flags"})
           /\ UNCHANGED <<ceilings, held>>
  BY DEF fd_fdstat_set_flags, Exercise
<1>2. CASE Refuse(<<WellFormed(a), Open(fd), Capable(fd, {"fd_fdstat_set_flags"})>>)
  BY <1>2, TableKept DEF Refuse
<1>3. CASE /\ Passes(<<WellFormed(a), Open(fd), Capable(fd, {"fd_fdstat_set_flags"})>>)
           /\ \E code \in Ends(io_errno) :
                /\ SetFlags(fd, flags, code)
                /\ excess' = Use(fd, {"fd_fdstat_set_flags"})
           /\ UNCHANGED <<ceilings, held>>
  <2>1. Entitled(fd, {"fd_fdstat_set_flags"})
    BY <1>3, PassingThree, MetIsEntitled
  <2>2. excess' = {}
    BY <1>3, <2>1, NothingInExcess DEF Entitled
  <2>3. CASE descriptors' = descriptors
    BY <1>3, <2>2, <2>3, TableKept DEF table
  <2>4. CASE descriptors' = [descriptors EXCEPT ![fd].flags = flags, ![fd].in = flags]
    <3>1. fd \in DOMAIN descriptors
      BY <2>1 DEF Entitled
    <3>2. DOMAIN descriptors' = DOMAIN descriptors
      BY <2>4
    <3>3. descriptors' \in [DOMAIN descriptors -> EntryType(Rights)]
      BY <2>4, <3>1 DEF TableInv, EntryType
    <3>4. \A n \in DOMAIN descriptors :
            /\ descriptors'[n].base = descriptors[n].base
            /\ descriptors'[n].inheriting = descriptors[n].inheriting
            /\ descriptors[n].flags = descriptors[n].in => descriptors'[n].flags = descriptors'[n].in
      BY <2>4, <3>1 DEF TableInv, EntryType
    <3>5. RightsDescend' /\ FlagsAgree'
      BY <1>3, <3>2, <3>4 DEF TableInv, RightsDescend, FlagsAgree
    <3> QED BY <1>3, <2>2, <3>2, <3>3, <3>5 DEF TableInv, NothingLeaks, NoAmbientAuthority
  <2> QED BY <1>3, <2>3, <2>4 DEF SetFlags
<1> QED BY <1>1, <1>2, <1>3

----------------------------------------------------------------------------
(***************************************************************************)
(* Numbers and steps.                                                      *)
(***************************************************************************)
\* The numbers in use are those an i32 can hold.
NumbersInRange == DOMAIN descriptors \subseteq 0..MaxFd

\* There is a number to choose, and it is not in use: of the numbers from 3 to
\* MaxFd + 1 the last is free, so one of the free ones is the lowest.
LEMMA NewFdIsFree ==
  ASSUME NumbersInRange
  PROVE  NewFd \in 3..(MaxFd + 1) /\ NewFd \notin DOMAIN descriptors
<1> DEFINE free == {n \in 3..(MaxFd + 1) : n \notin DOMAIN descriptors}
<1>1. free \subseteq Nat
  BY FdsAssumption
<1>2. MaxFd + 1 \in free
  BY FdsAssumption DEF NumbersInRange
<1>3. PICK n \in free : \A m \in free : ~ (<<m, n>> \in OpToRel(<, Nat))
  <2> HIDE DEF free
  <2> QED BY <1>1, <1>2, NatLessThanWellFounded, WFMin, Zenon
<1>4. \A m \in free : ~ (m < n)
  BY <1>1, <1>3 DEF OpToRel
<1>5. \A m \in 3..(n - 1) : m \in DOMAIN descriptors
  BY <1>1, <1>4, FdsAssumption
<1>6. n \in 3..(MaxFd + 1) /\ n \notin DOMAIN descriptors
  OBVIOUS
<1> HIDE DEF free
<1> QED BY <1>5, <1>6 DEF NewFd

LEMMA PathCallsLeaveTable == PathCalls => UNCHANGED table
BY DEF PathCalls, path_create_directory, path_remove_directory, path_unlink_file, path_symlink,
       path_readlink, path_filestat_get, path_filestat_set_times, path_link, path_rename,
       PathCall, TwoPaths, Operate, Refuse

LEMMA FdCallsLeaveTable == FdCalls => UNCHANGED table
BY DEF FdCalls, fd_sync, fd_datasync, fd_filestat_set_size, fd_filestat_set_times,
       fd_filestat_get, fd_tell, fd_seek, fd_read, fd_pread, fd_pwrite, fd_write, fd_readdir,
       FdCall, OutCall, Operate, Refuse

LEMMA LooksLeaveTable == Looks => UNCHANGED table
BY DEF Looks, fd_advise, fd_fdstat_get, fd_prestat_get, fd_prestat_dir_name, clock_time_get,
       clock_res_get, random_get, Unimplemented, Look, Refuse

\* Every descriptor that is open before and after the step is kept.
AllKept == \A fd \in DOMAIN descriptors \cap DOMAIN descriptors' : Kept(fd)

LEMMA SameTableKept ==
  ASSUME NumbersInRange, UNCHANGED table
  PROVE  NumbersInRange' /\ AllKept
BY DEF table, NumbersInRange, AllKept, Kept

LEMMA OpenedKept ==
  ASSUME TableInv, NumbersInRange, path_open
  PROVE  NumbersInRange' /\ AllKept
<1>1. PICK fd \in GuestFds, base \in RightSets, inheriting \in RightSets, o \in Opens,
           flags \in FlagSets, a \in Arguments :
        \/ Refuse(OpenChecks(fd, base, inheriting, o, flags, a))
        \/ /\ Passes(OpenChecks(fd, base, inheriting, o, flags, a))
           /\ \/ \E type \in {"directory", "regular"} :
                   Opened(fd, base, inheriting, o, flags, a, type)
              \/ UNCHANGED table
  BY DEF path_open
<1>2. CASE UNCHANGED table
  BY <1>2, SameTableKept
<1>3. CASE /\ Passes(OpenChecks(fd, base, inheriting, o, flags, a))
           /\ \E entry, ceiling : Insert(NewFd, entry, ceiling)
  <2>1. Check(NewFd <= MaxFd, "MFILE").ok
    BY <1>3 DEF Passes, OpenChecks
  <2>2. NewFd \in 3..(MaxFd + 1) /\ NewFd \notin DOMAIN descriptors
    BY NewFdIsFree
  <2>3. NewFd <= MaxFd
    <3>1. (NewFd <= MaxFd) \in BOOLEAN
      BY <2>2, FdsAssumption
    <3> QED BY <2>1, <3>1, CheckIsMet
  <2>4. PICK entry, ceiling : Insert(NewFd, entry, ceiling)
    BY <1>3
  <2>5. DOMAIN descriptors' = DOMAIN descriptors \cup {NewFd}
    BY <2>4 DEF Insert
  <2>6. NumbersInRange'
    BY <2>2, <2>3, <2>5, FdsAssumption DEF NumbersInRange
  <2>7. ASSUME NEW n \in DOMAIN descriptors PROVE Kept(n)
    <3>1. n # NewFd /\ n \in DOMAIN ceilings
      BY <2>2, <2>7 DEF TableInv
    <3>2. descriptors'[n] = descriptors[n] /\ ceilings'[n] = ceilings[n]
      BY <2>4, <2>7, <3>1 DEF Insert
    <3> QED BY <3>2 DEF Kept
  <2> QED BY <2>6, <2>7 DEF AllKept
<1> QED BY <1>1, <1>2, <1>3 DEF Opened, Refuse

LEMMA ClosedKept ==
  ASSUME TableInv, NumbersInRange, fd_close
  PROVE  NumbersInRange' /\ AllKept
<1>1. PICK fd \in GuestFds :
        \/ UNCHANGED table
        \/ descriptors' = Without(descriptors, fd) /\ ceilings' = Without(ceilings, fd)
  BY DEF fd_close, Refuse
<1>2. CASE UNCHANGED table
  BY <1>2, SameTableKept
<1>3. CASE descriptors' = Without(descriptors, fd) /\ ceilings' = Without(ceilings, fd)
  <2>1. /\ DOMAIN descriptors' = DOMAIN descriptors \ {fd}
        /\ \A n \in DOMAIN descriptors \ {fd} :
             descriptors'[n] = descriptors[n] /\ ceilings'[n] = ceilings[n]
    BY <1>3 DEF Without, TableInv
  <2> QED BY <2>1 DEF NumbersInRange, AllKept, Kept
<1> QED BY <1>1, <1>2, <1>3

LEMMA RightsSetKept ==
  ASSUME TableInv, NumbersInRange, fd_fdstat_set_rights
  PROVE  NumbersInRange' /\ AllKept
<1>1. PICK fd \in GuestFds, base \in RightSets, inheriting \in RightSets :
        \/ UNCHANGED table
        \/ /\ Passes(<<Open(fd), Check(MayKeep(Entry(fd), base, inheriting), "NOTCAPABLE")>>)
           /\ descriptors' = [descriptors EXCEPT ![fd].base = base, ![fd].inheriting = inheriting]
           /\ UNCHANGED ceilings
  BY DEF fd_fdstat_set_rights, Refuse
<1>2. CASE UNCHANGED table
  BY <1>2, SameTableKept
<1>3. CASE /\ Passes(<<Open(fd), Check(MayKeep(Entry(fd), base, inheriting), "NOTCAPABLE")>>)
           /\ descriptors' = [descriptors EXCEPT ![fd].base = base, ![fd].inheriting = inheriting]
           /\ UNCHANGED ceilings
  <2>1. fd \in DOMAIN descriptors
    BY <1>3, PassingTwo, OpenIsMet
  <2>2. base \subseteq descriptors[fd].base /\ inheriting \subseteq descriptors[fd].inheriting
    <3>1. MayKeep(Entry(fd), base, inheriting) \in BOOLEAN
      BY DEF MayKeep
    <3>2. MayKeep(Entry(fd), base, inheriting)
      BY <1>3, <3>1, PassingTwo, CheckIsMet
    <3> QED BY <2>1, <3>2 DEF MayKeep, Entry
  <2>3. DOMAIN descriptors' = DOMAIN descriptors
    BY <1>3
  <2>4. \A n \in DOMAIN descriptors :
          /\ descriptors'[n].type = descriptors[n].type
          /\ descriptors'[n].preopen = descriptors[n].preopen
          /\ descriptors'[n].base \subseteq descriptors[n].base
          /\ descriptors'[n].inheriting \subseteq descriptors[n].inheriting
    BY <1>3, <2>1, <2>2 DEF TableInv, EntryType
  <2> QED BY <1>3, <2>3, <2>4 DEF NumbersInRange, AllKept, Kept
<1> QED BY <1>1, <1>2, <1>3

LEMMA FlagsSetKept ==
  ASSUME TableInv, NumbersInRange, fd_fdstat_set_flags
  PROVE  NumbersInRange' /\ AllKept
<1>1. PICK fd \in GuestFds, flags \in FlagSets :
        \/ UNCHANGED table
        \/ /\ descriptors' = [descriptors EXCEPT ![fd].flags = flags, ![fd].in = flags]
           /\ UNCHANGED ceilings
  BY DEF fd_fdstat_set_flags, Refuse, SetFlags, table
<1>2. CASE UNCHANGED table
  BY <1>2, SameTableKept
<1>3. CASE /\ descriptors' = [descriptors EXCEPT ![fd].flags = flags, ![fd].in = flags]
           /\ UNCHANGED ceilings
  <2>1. DOMAIN descriptors' = DOMAIN descriptors
    BY <1>3
  <2>2. \A n \in DOMAIN descriptors :
          /\ descriptors'[n].type = descriptors[n].type
          /\ descriptors'[n].preopen = descriptors[n].preopen
          /\ descriptors'[n].base = descriptors[n].base
          /\ descriptors'[n].inheriting = descriptors[n].inheriting
    BY <1>3 DEF TableInv, EntryType
  <2> QED BY <1>3, <2>1, <2>2 DEF NumbersInRange, AllKept, Kept
<1> QED BY <1>1, <1>2, <1>3

LEMMA StepsKeepEntries ==
  ASSUME TableInv, NumbersInRange, [Next]_vars
  PROVE  NumbersInRange' /\ AllKept
<1>1. CASE PathCalls \/ FdCalls \/ Looks
  BY <1>1, PathCallsLeaveTable, FdCallsLeaveTable, LooksLeaveTable, SameTableKept
<1>2. CASE TableCalls
  BY <1>2, OpenedKept, ClosedKept, RightsSetKept, FlagsSetKept DEF TableCalls
<1>3. CASE UNCHANGED vars
  BY <1>3, SameTableKept DEF vars, table
<1> QED BY <1>1, <1>2, <1>3 DEF Next

----------------------------------------------------------------------------
(***************************************************************************)
(* The theorems.                                                           *)
(***************************************************************************)
LEMMA StartsInOrder == Init => TableInv
<1> SUFFICES ASSUME Init PROVE TableInv
  OBVIOUS
<1>1. PICK base \in RightSets, inheriting \in RightSets :
        /\ descriptors =
             [fd \in StdFds \cup {3} |->
               IF fd = 3
               THEN [type |-> "directory", flags |-> {}, in |-> {}, base |-> base,
                     inheriting |-> inheriting, preopen |-> TRUE]
               ELSE StdEntry(IF fd = 0 THEN "fd_read" ELSE "fd_write")]
        /\ ceilings = [fd \in StdFds \cup {3} |->
                        [base |-> descriptors[fd].base, inheriting |-> descriptors[fd].inheriting]]
        /\ excess = {} /\ held = StdFds \cup {3}
  BY DEF Init
<1>2. [type |-> "directory", flags |-> {}, in |-> {}, base |-> base, inheriting |-> inheriting,
       preopen |-> TRUE] \in EntryType(Rights)
  BY SetsAssumption DEF EntryType, FileTypes
<1>3. StdEntry("fd_read") \in EntryType(Rights) /\ StdEntry("fd_write") \in EntryType(Rights)
  BY SetsAssumption DEF EntryType, FileTypes, StdEntry, Rights, FdRights
<1>4. descriptors \in [StdFds \cup {3} -> EntryType(Rights)]
  BY <1>1, <1>2, <1>3
<1>5. DOMAIN descriptors = StdFds \cup {3}
  BY <1>1
<1>6. \A fd \in DOMAIN descriptors :
        descriptors[fd].base \in SUBSET Rights /\ descriptors[fd].inheriting \in SUBSET Rights
  BY <1>4, <1>5 DEF EntryType
<1>7. ceilings \in [DOMAIN descriptors -> Ceiling]
  BY <1>1, <1>5, <1>6 DEF Ceiling
<1>8. RightsDescend
  BY <1>1, <1>5 DEF RightsDescend
<1>9. FlagsAgree
  BY <1>1 DEF FlagsAgree, StdEntry
<1> QED BY <1>1, <1>4, <1>5, <1>7, <1>8, <1>9 DEF TableInv, NothingLeaks, NoAmbientAuthority

LEMMA StepsKeepOrder == TableInv /\ [Next]_vars => TableInv'
<1> SUFFICES ASSUME TableInv, [Next]_vars PROVE TableInv'
  OBVIOUS
<1>1. CASE PathCalls
  BY <1>1, PathCallsKeep
<1>2. CASE FdCalls
  BY <1>2, FdCallsKeep
<1>3. CASE Looks
  BY <1>3, LooksKeep
<1>4. CASE TableCalls
  BY <1>4, PathOpenKeeps, CloseKeeps, SetRightsKeeps, SetFlagsKeeps DEF TableCalls
<1>5. CASE UNCHANGED vars
  BY <1>5 DEF vars, TableInv, RightsDescend, NoAmbientAuthority, NothingLeaks, FlagsAgree
<1> QED BY <1>1, <1>2, <1>3, <1>4, <1>5 DEF Next

\* The table keeps its inductive invariant under all calls (methods.rs).
THEOREM TableStaysInOrder == Spec => []TableInv
BY StartsInOrder, StepsKeepOrder, PTL DEF Spec

\* For any rights the embedder grants and any guest: over any sequence of calls
\* no descriptor has rights its preopen was not to pass on.
THEOREM RightsOnlyDescend == Spec => []RightsDescend
<1>1. TableInv => RightsDescend
  BY DEF TableInv
<1> QED BY <1>1, TableStaysInOrder, PTL

\* No call of any guest has a resource do what was not granted.
THEOREM NoCallExceeds == Spec => []NoAmbientAuthority
<1>1. TableInv => NoAmbientAuthority
  BY DEF TableInv
<1> QED BY <1>1, TableStaysInOrder, PTL

\* The guest knows exactly the open descriptors, wherever a call failed.
THEOREM NoDescriptorLeaks == Spec => []NothingLeaks
<1>1. TableInv => NothingLeaks
  BY DEF TableInv
<1> QED BY <1>1, TableStaysInOrder, PTL

\* The flags in the table are those of the resources.
THEOREM FlagsAlwaysAgree == Spec => []FlagsAgree
<1>1. TableInv => FlagsAgree
  BY DEF TableInv
<1> QED BY <1>1, TableStaysInOrder, PTL

LEMMA NumbersAlwaysInRange == Spec => []NumbersInRange
<1>1. Init => NumbersInRange
  BY FdsAssumption DEF Init, NumbersInRange, StdFds
<1>2. TableInv /\ NumbersInRange /\ [Next]_vars => NumbersInRange'
  BY StepsKeepEntries
<1> QED BY <1>1, <1>2, TableStaysInOrder, PTL DEF Spec

\* Numbers, entries and rights are of their types, and the numbers guests were
\* told of can be passed in an i32 (ctx.rs insert_descriptor).
THEOREM TableTyped == Spec => []TypeOK
<1>1. TableInv /\ NumbersInRange => TypeOK
  BY DEF TableInv, NumbersInRange, TypeOK, Ceiling, NothingLeaks, NoAmbientAuthority
<1> QED BY <1>1, TableStaysInOrder, NumbersAlwaysInRange, PTL

\* While a descriptor is open its number denotes the same resource with no more
\* rights than before: the lowest free number is free, and no other call
\* replaces an entry (path_open, fd_fdstat_set_rights).
THEOREM EntriesAreKept == Spec => EntriesStay
<1>1. TableInv /\ NumbersInRange /\ [Next]_vars
        => [\A fd \in DOMAIN descriptors \cap DOMAIN descriptors' : Kept(fd)]_vars
  BY StepsKeepEntries DEF AllKept
<1> QED BY <1>1, TableStaysInOrder, NumbersAlwaysInRange, PTL DEF Spec, EntriesStay
=============================================================================
