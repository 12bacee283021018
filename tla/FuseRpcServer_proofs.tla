----------------------- MODULE FuseRpcServer_proofs ------------------------
(***************************************************************************)
(* Lemmas about the request handlers: what one request, executed by one    *)
(* server, does to the server's variables.  They are stated once here and  *)
(* used by the proofs about every module that composes servers.            *)
(***************************************************************************)
EXTENDS FuseRpcServer, SequenceTheorems, TLAPS

-----------------------------------------------------------------------------
(* ServerTypeOK, one named part per variable. *)

EntT == ent \in [Servers -> [AnyPath -> Inodes \cup {None}]]
NodeT == node \in [Servers -> [Inodes -> Node \cup {None}]]
FdtT == fdt \in [Servers -> [Fds -> Desc \cup {None}]]
LockT == lock \in [Servers -> [Inodes -> Fds \cup {None}]]
HungT == hung \in [Servers -> BOOLEAN]
ReplyT ==
  /\ DOMAIN reply = Servers
  /\ \A sv \in Servers :
       /\ reply[sv].ret \in {"OK", "EACCES", "ERR"}
       /\ reply[sv].op \in {"open", "opendir"} /\ reply[sv].ret = "OK" => reply[sv].val \in Fds

\* The parts are together the type invariant of the server's variables.
LEMMA Parts ==
  /\ ServerTypeOK <=> EntT /\ NodeT /\ FdtT /\ LockT /\ HungT /\ ReplyT
  /\ ServerTypeOK' <=> EntT' /\ NodeT' /\ FdtT' /\ LockT' /\ HungT' /\ ReplyT'
BY DEF ServerTypeOK, EntT, NodeT, FdtT, LockT, HungT, ReplyT

\* A variable that does not change keeps its type.
LEMMA SameType ==
  ASSUME ServerTypeOK
  PROVE  /\ UNCHANGED ent => EntT'
         /\ UNCHANGED node => NodeT'
         /\ UNCHANGED fdt => FdtT'
         /\ UNCHANGED lock => LockT'
         /\ UNCHANGED hung => HungT'
         /\ UNCHANGED reply => ReplyT'
BY DEF ServerTypeOK, EntT, NodeT, FdtT, LockT, HungT, ReplyT

-----------------------------------------------------------------------------
(* Types: the helpers the handlers are made of. *)

\* The parent of a path that requests may name is such a path or the root.
LEMMA ParentType ==
  ASSUME NEW p \in Paths
  PROVE  p \in AnyPath /\ get_parent_path(p) \in AnyPath /\ Root \in AnyPath
BY PathsAssumption DEF AnyPath

\* What a path and a descriptor lead to.
LEMMA LookupTypes ==
  ASSUME ServerTypeOK, NEW sv \in Servers
  PROVE  /\ \A p \in AnyPath : Exists(sv, p) => ent[sv][p] \in Inodes
         /\ \A p \in AnyPath : \A k : IsKind(sv, p, k) => ent[sv][p] \in Inodes
         /\ \A fd \in Fds : IsOpen(sv, fd) => fdt[sv][fd] \in Desc /\ fdt[sv][fd].ino \in Inodes
BY DEF ServerTypeOK, Exists, IsOpen, Desc, IsKind

\* A descriptor table stays one when a descriptor is opened.
LEMMA OpenedType ==
  ASSUME ServerTypeOK, NEW sv \in Servers, NEW fd \in Fds, NEW d \in Desc, Opened(sv, fd, d)
  PROVE  FdtT'
BY DEF ServerTypeOK, Opened, FdtT

LEMMA DirDescType ==
  ASSUME NEW i \in Inodes
  PROVE  DirDesc(i) \in Desc
BY DEF DirDesc, Desc

LEMMA SetNodeType ==
  ASSUME ServerTypeOK, NEW sv \in Servers, NEW i \in Inodes, NEW n \in Node, SetNode(sv, i, n)
  PROVE  NodeT'
BY DEF ServerTypeOK, SetNode, NodeT

LEMMA SetLockType ==
  ASSUME ServerTypeOK, NEW sv \in Servers, NEW i \in Inodes, NEW fd \in Fds \cup {None},
         SetLock(sv, i, fd)
  PROVE  LockT'
BY DEF ServerTypeOK, SetLock, LockT

\* Freeing inodes leaves files or nothing.
LEMMA ReapType ==
  ASSUME ServerTypeOK, NEW sv \in Servers, ReapNodes(sv)
  PROVE  NodeT'
<1>1. \A e, f : Reaped(node[sv], e, f) \in [Inodes -> Node \cup {None}]
  BY DEF ServerTypeOK, Reaped
<1>2. QED
  BY <1>1 DEF ServerTypeOK, ReapNodes, NodeT

LEMMA CloseType ==
  ASSUME ServerTypeOK, NEW sv \in Servers, NEW fd \in Fds, Close(sv, fd)
  PROVE  EntT' /\ NodeT' /\ FdtT' /\ LockT'
BY ReapType, SameType DEF Close, ServerTypeOK, FdtT, LockT

LEMMA CreateType ==
  ASSUME ServerTypeOK, NEW sv \in Servers, NEW p \in AnyPath, NEW n \in Node, Create(sv, p, n)
  PROVE  EntT' /\ NodeT'
<1>1. PICK i \in Inodes : ent' = [ent EXCEPT ![sv] = [@ EXCEPT ![p] = i]] /\ SetNode(sv, i, n)
  BY DEF Create, LowestOf, FreeInodes
<1>2. QED
  BY <1>1, SetNodeType DEF ServerTypeOK, EntT

LEMMA NewFileType ==
  ASSUME NEW kind \in Kinds, NEW uid \in Uids, NEW mode \in Mode
  PROVE  NewFile(kind, uid, mode) \in Node /\ Masked(mode) \in Mode
BY UmaskAssumption DEF NewFile, Node, Masked, Mode

\* Every answer is of a known kind, and an open is answered with a descriptor.
LEMMA NewLinkType ==
  ASSUME NEW target \in Targets, NEW uid \in Uids
  PROVE  NewLink(target, uid) \in Node
<1>1. <<target>> \in Seq(Content)
  BY DEF Content
<1>2. FullMode \in Mode
  BY DEF FullMode, Mode
<1>3. QED
  BY <1>1, <1>2 DEF NewLink, Node, Kinds

LEMMA AnswersType ==
  ASSUME ServerTypeOK, NEW sv \in Servers, NEW a,
         NEW ret \in {"OK", "EACCES", "ERR"}, NEW val, Answers(sv, a, ret, val),
         a.op \in {"open", "opendir"} /\ ret = "OK" => val \in Fds
  PROVE  ReplyT'
BY DEF ServerTypeOK, Answers, ReplyT

LEMMA ReturnsType ==
  ASSUME ServerTypeOK, NEW sv \in Servers, NEW a, NEW ret \in {"OK", "EACCES", "ERR"},
         Returns(sv, a, ret), a.op \in {"open", "opendir"} => ret # "OK"
  PROVE  ServerTypeOK'
BY AnswersType, SameType, Parts DEF Returns

LEMMA HangsType ==
  ASSUME ServerTypeOK, NEW sv \in Servers, Hangs(sv)
  PROVE  EntT' /\ NodeT' /\ HungT' /\ ReplyT'
BY SameType DEF Hangs, ServerTypeOK, HungT

LEMMA LocksDirectoryType ==
  ASSUME ServerTypeOK, NEW sv \in Servers, NEW a, a.path \in Paths,
         NEW fd \in Fds, LocksDirectory(sv, a, fd)
  PROVE  FdtT'
BY ParentType, LookupTypes, DirDescType, OpenedType DEF LocksDirectory, dlock

LEMMA LockHangsType ==
  ASSUME ServerTypeOK, NEW sv \in Servers, NEW a, a.path \in Paths, LockHangs(sv, a)
  PROVE  ServerTypeOK'
<1>1. FdtT'
  BY ParentType, LookupTypes, DirDescType, OpenedType DEF LockHangs, DlockBlocks
<1>2. QED
  BY <1>1, HangsType, SameType, Parts DEF LockHangs

LEMMA DirectoryNotLockedType ==
  ASSUME ServerTypeOK, NEW sv \in Servers, NEW a, a.path \in Paths, DirectoryNotLocked(sv, a)
  PROVE  ServerTypeOK'
BY ReturnsType, LockHangsType DEF DirectoryNotLocked, NotPermitted, LockFails

-----------------------------------------------------------------------------
(***************************************************************************)
(* The invariant behind the types: what a name or a descriptor refers to   *)
(* exists.  It is stated of any three tables so that a handler, which      *)
(* changes several of them, can be followed one change at a time.          *)
(***************************************************************************)
Backed(e, f, n) ==
  /\ \A sv \in Servers, p \in AnyPath : e[sv][p] # None => n[sv][e[sv][p]] # None
  /\ \A sv \in Servers, fd \in Fds : f[sv][fd] # None => n[sv][f[sv][fd].ino] # None

ServerInv == ServerTypeOK /\ Backed(ent, fdt, node)

\* A file that is named or open is a file.
LEMMA BackedFiles ==
  ASSUME ServerInv, NEW sv \in Servers
  PROVE  /\ \A p \in AnyPath : Exists(sv, p) => ent[sv][p] \in Inodes /\ File(sv, p) \in Node
         /\ \A p \in AnyPath : \A k : IsKind(sv, p, k) => ent[sv][p] \in Inodes /\ Exists(sv, p)
         /\ \A fd \in Fds : IsOpen(sv, fd) => /\ fdt[sv][fd] \in Desc
                                              /\ fdt[sv][fd].ino \in Inodes
                                              /\ FileOf(sv, fd) \in Node
<1>1. \A i \in Inodes : node[sv][i] # None => node[sv][i] \in Node
  BY DEF ServerInv, ServerTypeOK
<1>2. QED
  BY <1>1, LookupTypes DEF ServerInv, Backed, Exists, File, IsOpen, FileOf, IsKind

LEMMA BackedOpened ==
  ASSUME ServerInv, NEW sv \in Servers, NEW fd \in Fds, NEW d, Opened(sv, fd, d),
         node[sv][d.ino] # None
  PROVE  Backed(ent, fdt', node)
BY DEF ServerInv, ServerTypeOK, Backed, Opened

LEMMA BackedSetNode ==
  ASSUME ServerInv, NEW sv \in Servers, NEW i \in Inodes, NEW n \in Node, SetNode(sv, i, n),
         NEW e, NEW f, Backed(e, f, node)
  PROVE  Backed(e, f, node')
<1>1. \A s \in Servers : \A j : node[s][j] # None => node'[s][j] # None
  BY NoneAssumption DEF ServerInv, ServerTypeOK, SetNode
<1>2. QED
  BY <1>1 DEF Backed

LEMMA BackedCreate ==
  ASSUME ServerInv, NEW sv \in Servers, NEW p \in AnyPath, NEW n \in Node, Create(sv, p, n),
         NEW f, Backed(ent, f, node)
  PROVE  Backed(ent', f, node')
<1>1. PICK i \in Inodes : ent' = [ent EXCEPT ![sv] = [@ EXCEPT ![p] = i]] /\ SetNode(sv, i, n)
  BY DEF Create, LowestOf, FreeInodes
<1>2. node'[sv][i] # None
  BY <1>1, NoneAssumption DEF ServerInv, ServerTypeOK, SetNode
<1>3. Backed(ent, f, node')
  BY <1>1, BackedSetNode
<1>4. QED
  BY <1>1, <1>2, <1>3 DEF Backed, ServerInv, ServerTypeOK

LEMMA BackedReap ==
  ASSUME ServerInv, NEW sv \in Servers, ReapNodes(sv), EntT', FdtT', Backed(ent', fdt', node)
  PROVE  Backed(ent', fdt', node')
<1>1. \A s \in Servers : s # sv => node'[s] = node[s]
  BY DEF ReapNodes, ServerInv, ServerTypeOK
<1>2. \A i \in Inodes \cap Live(ent'[sv], fdt'[sv]) : node'[sv][i] = node[sv][i]
  BY DEF ReapNodes, Reaped, ServerInv, ServerTypeOK
<1>3. \A p \in AnyPath : ent'[sv][p] # None =>
        ent'[sv][p] \in Inodes \cap Live(ent'[sv], fdt'[sv])
  BY DEF EntT, Live
<1>4. \A fd \in Fds : fdt'[sv][fd] # None =>
        fdt'[sv][fd].ino \in Inodes \cap Live(ent'[sv], fdt'[sv])
  BY DEF FdtT, Live, Desc
<1>5. QED
  BY <1>1, <1>2, <1>3, <1>4 DEF Backed

LEMMA BackedClose ==
  ASSUME ServerInv, NEW sv \in Servers, NEW fd \in Fds, Close(sv, fd)
  PROVE  Backed(ent', fdt', node')
<1>1. Backed(ent', fdt', node)
  BY DEF ServerInv, ServerTypeOK, Close, Backed
<1>2. QED
  BY <1>1, BackedReap, CloseType DEF Close, ServerInv

\* The steps that leave the tables alone, or only open a directory.
LEMMA BackedReturns ==
  ASSUME ServerInv, NEW sv \in Servers, NEW a, NEW ret \in {"OK", "EACCES", "ERR"},
         Returns(sv, a, ret), a.op \in {"open", "opendir"} => ret # "OK"
  PROVE  ServerInv'
BY ReturnsType DEF ServerInv, Returns

LEMMA BackedLocksDirectory ==
  ASSUME ServerInv, NEW sv \in Servers, NEW a, a.path \in Paths,
         NEW fd \in Fds, LocksDirectory(sv, a, fd)
  PROVE  Backed(ent, fdt', node)
<1>1. LET i == ent[sv][get_parent_path(a.path)]
      IN  node[sv][i] # None /\ DirDesc(i).ino = i
  BY ParentType DEF LocksDirectory, dlock, IsKind, Exists, File, ServerInv, Backed, DirDesc
<1>2. QED
  BY <1>1, BackedOpened DEF LocksDirectory

LEMMA BackedLockHangs ==
  ASSUME ServerInv, NEW sv \in Servers, NEW a, a.path \in Paths, LockHangs(sv, a)
  PROVE  ServerInv'
<1>1. LET i == ent[sv][get_parent_path(a.path)]
      IN  node[sv][i] # None /\ DirDesc(i).ino = i
  BY ParentType
     DEF LockHangs, DlockBlocks, IsKind, Exists, File, ServerInv, Backed, DirDesc
<1>2. Backed(ent, fdt', node)
  BY <1>1, BackedOpened DEF LockHangs
<1>3. QED
  BY <1>2, LockHangsType DEF ServerInv, LockHangs, Hangs

LEMMA BackedNotLocked ==
  ASSUME ServerInv, NEW sv \in Servers, NEW a, a.path \in Paths, DirectoryNotLocked(sv, a)
  PROVE  ServerInv'
BY BackedLockHangs, BackedReturns DEF DirectoryNotLocked, NotPermitted, LockFails

-----------------------------------------------------------------------------
(* The invariant: the handlers that make, remove and move names. *)

LEMMA InitRootdirInv ==
  ASSUME ServerInv, NEW sv \in Servers, NEW a \in init_arg, init_rootdir(sv, a)
  PROVE  ServerInv'
<1>1. FdtT' /\ LockT' /\ HungT' /\ ReplyT' /\ fdt' = fdt
  BY SameType, AnswersType DEF init_rootdir, init_arg, ServerInv
<1>2. Root \in AnyPath /\ FullMode \in Mode
  BY DEF AnyPath, FullMode, Mode
<1>3. EntT' /\ NodeT' /\ Backed(ent', fdt, node')
  <2>1. CASE Exists(sv, Root)
    <3>1. ent[sv][Root] \in Inodes /\ [File(sv, Root) EXCEPT !.mode = FullMode] \in Node
      BY <1>2, <2>1, BackedFiles DEF Node
    <3>2. QED
      BY <2>1, <3>1, SetNodeType, SameType, BackedSetNode DEF init_rootdir, ServerInv
  <2>2. CASE ~Exists(sv, Root)
    <3>1. NewFile("dir", RootUid, FullMode) \in Node
      BY <1>2, NewFileType DEF Kinds, Uids
    <3>2. QED
      BY <1>2, <2>2, <3>1, CreateType, BackedCreate DEF init_rootdir, ServerInv
  <2>3. QED
    BY <2>1, <2>2
<1>4. QED
  BY <1>1, <1>3, Parts DEF ServerInv

\* What a handler does to the tree and answers once its directory is locked.
LEMMA MakesName ==
  ASSUME ServerInv, NEW sv \in Servers, NEW a, a.path \in Paths, a.op \notin {"open", "opendir"},
         FdtT', Backed(ent, fdt', node), UNCHANGED <<lock, hung>>,
         NEW n \in Node, Create(sv, a.path, n), Answers(sv, a, "OK", None)
  PROVE  ServerInv'
<1>1. a.path \in AnyPath
  BY ParentType
<1>2. EntT' /\ NodeT' /\ Backed(ent', fdt', node')
  BY <1>1, CreateType, BackedCreate DEF ServerInv
<1>3. LockT' /\ HungT' /\ ReplyT'
  BY SameType, AnswersType DEF ServerInv
<1>4. QED
  BY <1>2, <1>3, Parts DEF ServerInv

LEMMA FailsLocked ==
  ASSUME ServerInv, NEW sv \in Servers, NEW a,
         FdtT', Backed(ent, fdt', node), UNCHANGED <<lock, hung, ent, node>>,
         Answers(sv, a, "ERR", None)
  PROVE  ServerInv'
BY SameType, AnswersType, Parts DEF ServerInv

LEMMA RemovesName ==
  ASSUME ServerInv, NEW sv \in Servers, NEW a, a.path \in Paths, a.op \notin {"open", "opendir"},
         FdtT', Backed(ent, fdt', node), UNCHANGED <<lock, hung>>, Removes(sv, a)
  PROVE  ServerInv'
<1>1. EntT' /\ Backed(ent', fdt', node)
  BY DEF Removes, ServerInv, ServerTypeOK, EntT, Backed
<1>2. NodeT' /\ Backed(ent', fdt', node')
  BY <1>1, ReapType, BackedReap DEF Removes, ServerInv
<1>3. LockT' /\ HungT' /\ ReplyT'
  BY SameType, AnswersType DEF ServerInv, Removes
<1>4. QED
  BY <1>1, <1>2, <1>3, Parts DEF ServerInv

LEMMA MkdirInv ==
  ASSUME ServerInv, NEW sv \in Servers, NEW a \in mkdir_arg, bb_mkdir(sv, a)
  PROVE  ServerInv'
<1>1. /\ a.path \in Paths /\ a.op \notin {"open", "opendir"}
      /\ NewFile("dir", a.ip, Masked(a.mode)) \in Node
  BY NewFileType, ModesAssumption DEF mkdir_arg, Kinds, Uids
<1>2. CASE DirectoryNotLocked(sv, a)
  BY <1>1, <1>2, BackedNotLocked
<1>3. CASE ~DirectoryNotLocked(sv, a)
  <2>1. FdtT' /\ Backed(ent, fdt', node)
    BY <1>1, <1>3, LocksDirectoryType, BackedLocksDirectory DEF bb_mkdir, ServerInv
  <2>2. QED
    BY <1>1, <1>3, <2>1, MakesName, FailsLocked DEF bb_mkdir
<1>4. QED
  BY <1>2, <1>3

LEMMA MknodInv ==
  ASSUME ServerInv, NEW sv \in Servers, NEW a \in mknod_arg, bb_mknod(sv, a)
  PROVE  ServerInv'
<1>1. /\ a.path \in Paths /\ a.op \notin {"open", "opendir"}
      /\ NewFile(a.kind, a.ip, Masked(a.mode)) \in Node
  BY NewFileType, ModesAssumption DEF mknod_arg, Kinds, Uids
<1>2. CASE DirectoryNotLocked(sv, a)
  BY <1>1, <1>2, BackedNotLocked
<1>3. CASE ~DirectoryNotLocked(sv, a)
  <2>1. FdtT' /\ Backed(ent, fdt', node)
    BY <1>1, <1>3, LocksDirectoryType, BackedLocksDirectory DEF bb_mknod, ServerInv
  <2>2. QED
    BY <1>1, <1>3, <2>1, MakesName, FailsLocked DEF bb_mknod
<1>4. QED
  BY <1>2, <1>3

LEMMA RmdirInv ==
  ASSUME ServerInv, NEW sv \in Servers, NEW a \in rmdir_arg, bb_rmdir(sv, a)
  PROVE  ServerInv'
<1>1. a.path \in Paths /\ a.op \notin {"open", "opendir"}
  BY DEF rmdir_arg
<1>2. CASE DirectoryNotLocked(sv, a)
  BY <1>1, <1>2, BackedNotLocked
<1>3. CASE ~DirectoryNotLocked(sv, a)
  <2>1. FdtT' /\ Backed(ent, fdt', node)
    BY <1>1, <1>3, LocksDirectoryType, BackedLocksDirectory DEF bb_rmdir, ServerInv
  <2>2. QED
    BY <1>1, <1>3, <2>1, RemovesName, FailsLocked DEF bb_rmdir
<1>4. QED
  BY <1>2, <1>3

LEMMA UnlinkInv ==
  ASSUME ServerInv, NEW sv \in Servers, NEW a \in unlink_arg, bb_unlink(sv, a)
  PROVE  ServerInv'
<1>1. a.path \in Paths /\ a.op \notin {"open", "opendir"}
  BY DEF unlink_arg
<1>2. CASE DirectoryNotLocked(sv, a)
  BY <1>1, <1>2, BackedNotLocked
<1>3. CASE ~DirectoryNotLocked(sv, a)
  <2>1. FdtT' /\ Backed(ent, fdt', node)
    BY <1>1, <1>3, LocksDirectoryType, BackedLocksDirectory DEF bb_unlink, ServerInv
  <2>2. QED
    BY <1>1, <1>3, <2>1, RemovesName, FailsLocked DEF bb_unlink
<1>4. QED
  BY <1>2, <1>3

LEMMA SymlinkInv ==
  ASSUME ServerInv, NEW sv \in Servers, NEW a \in symlink_arg, bb_symlink(sv, a)
  PROVE  ServerInv'
<1>1. /\ a.link \in AnyPath /\ a.op \notin {"open", "opendir"}
      /\ NewLink(a.target, a.ip) \in Node
  BY NewLinkType DEF symlink_arg, Uids, AnyPath
<1>2. CASE \E ret \in {"EACCES", "ERR"} : Returns(sv, a, ret)
  BY <1>2, BackedReturns
<1>3. CASE /\ Create(sv, a.link, NewLink(a.target, a.ip))
           /\ Answers(sv, a, "OK", None) /\ UNCHANGED <<fdt, lock, hung>>
  <2>1. EntT' /\ NodeT' /\ Backed(ent', fdt', node')
    BY <1>1, <1>3, CreateType, BackedCreate DEF ServerInv
  <2>2. FdtT' /\ LockT' /\ HungT' /\ ReplyT'
    BY <1>1, <1>3, SameType, AnswersType DEF ServerInv
  <2>3. QED
    BY <2>1, <2>2, Parts DEF ServerInv
<1>4. QED
  BY <1>2, <1>3 DEF bb_symlink, NotPermitted

\* Where a system call gets to that follows a path.
LEMMA FollowedFile ==
  ASSUME NEW e, NEW n, NEW p, Followed(e, n, p) # None
  PROVE  /\ Followed(e, n, p) \in AnyPath /\ e[Followed(e, n, p)] # None
         /\ n[e[Followed(e, n, p)]].kind # "lnk"
<1> DEFINE IsLink(q) == e[q] # None /\ n[e[q]].kind = "lnk"
           links == [q \in AnyPath |-> IF IsLink(q) THEN n[e[q]].data[1] ELSE None]
           to == IF IsLink(p) THEN Destination(links, p) ELSE p
<1>1. Followed(e, n, p) = IF to \in AnyPath /\ e[to] # None /\ ~IsLink(to) THEN to ELSE None
  BY DEF Followed
<1> HIDE DEF links, to
<1>2. to = Followed(e, n, p) /\ to \in AnyPath /\ e[to] # None /\ ~IsLink(to)
  BY <1>1
<1>3. QED
  BY <1>2

\* Only a link is followed.
LEMMA NotFollowed ==
  ASSUME NEW e, NEW n, NEW p \in AnyPath, e[p] # None, n[e[p]].kind # "lnk"
  PROVE  Followed(e, n, p) = p
<1> DEFINE IsLink(q) == e[q] # None /\ n[e[q]].kind = "lnk"
           links == [q \in AnyPath |-> IF IsLink(q) THEN n[e[q]].data[1] ELSE None]
           to == IF IsLink(p) THEN Destination(links, p) ELSE p
<1>1. Followed(e, n, p) = IF to \in AnyPath /\ e[to] # None /\ ~IsLink(to) THEN to ELSE None
  BY DEF Followed
<1>2. to = p
  OBVIOUS
<1> HIDE DEF links, to
<1>3. QED
  BY <1>1, <1>2

\* What is followed depends on the names that exist and on what they name, not
\* on the numbers in between.
LEMMA FollowedAlike ==
  ASSUME NEW e, NEW n, NEW e2, NEW n2, NEW p \in AnyPath,
         \A q \in AnyPath : /\ e2[q] # None <=> e[q] # None
                            /\ e[q] # None => n2[e2[q]] = n[e[q]]
  PROVE  Followed(e2, n2, p) = Followed(e, n, p)
<1> DEFINE IsLink(g, f, q) == g[q] # None /\ f[g[q]].kind = "lnk"
           links(g, f) == [q \in AnyPath |-> IF IsLink(g, f, q) THEN f[g[q]].data[1] ELSE None]
           to(g, f) == IF IsLink(g, f, p) THEN Destination(links(g, f), p) ELSE p
<1>1. \A g, f : Followed(g, f, p) =
        IF to(g, f) \in AnyPath /\ g[to(g, f)] # None /\ ~IsLink(g, f, to(g, f))
        THEN to(g, f) ELSE None
  BY DEF Followed
<1>2. \A q \in AnyPath : IsLink(e2, n2, q) <=> IsLink(e, n, q)
  OBVIOUS
<1>3. links(e2, n2) = links(e, n)
  BY <1>2
<1> HIDE DEF links
<1>4. to(e2, n2) = to(e, n)
  BY <1>2, <1>3
<1> HIDE DEF to
<1>5. QED
  BY <1>1, <1>2, <1>4

LEMMA LeadsToFollowed ==
  ASSUME NEW sv \in Servers, NEW p, LeadsTo(sv, p) # None
  PROVE  /\ LeadsTo(sv, p) \in AnyPath /\ Exists(sv, LeadsTo(sv, p))
         /\ File(sv, LeadsTo(sv, p)).kind # "lnk"
BY FollowedFile DEF LeadsTo, Exists, File


\* What link does once it is permitted: the new name is made, and the file it
\* leads to is given away.
LinkOwns(sv, a) ==
  LET owned == Followed(ent'[sv], node[sv], a.newpath)
      i     == ent'[sv][owned]
  IN \/ owned = None /\ Answers(sv, a, "ERR", None) /\ UNCHANGED node
     \/ /\ owned # None
        /\ SetNode(sv, i, [node[sv][i] EXCEPT !.uid = a.ip])
        /\ Answers(sv, a, "OK", None)

LEMMA LinkCases ==
  ASSUME ServerInv, NEW sv \in Servers, NEW a \in link_arg, bb_link(sv, a)
  PROVE  \/ \E ret \in {"EACCES", "ERR"} : Returns(sv, a, ret)
         \/ /\ is_parent_dir_valid(sv, a.path, a.ip, a.op)
            /\ is_parent_dir_valid(sv, a.newpath, a.ip, a.op)
            /\ CanLink(sv, a.path, a.newpath)
            /\ ent' = [ent EXCEPT ![sv] = [@ EXCEPT ![a.newpath] = ent[sv][a.path]]]
            /\ UNCHANGED <<fdt, lock, hung>>
            /\ LinkOwns(sv, a)
<1> DEFINE linked == [ent[sv] EXCEPT ![a.newpath] = ent[sv][a.path]]
           owned == Followed(linked, node[sv], a.newpath)
           Owns == \/ owned = None /\ Answers(sv, a, "ERR", None) /\ UNCHANGED node
                   \/ /\ owned # None
                      /\ SetNode(sv, linked[owned], [node[sv][linked[owned]] EXCEPT !.uid = a.ip])
                      /\ Answers(sv, a, "OK", None)
           permitted == /\ is_parent_dir_valid(sv, a.path, a.ip, a.op)
                        /\ is_parent_dir_valid(sv, a.newpath, a.ip, a.op)
           makes == /\ ent' = [ent EXCEPT ![sv] = linked]
                    /\ UNCHANGED <<fdt, lock, hung>> /\ Owns
<1>1. \/ ~permitted /\ Returns(sv, a, "EACCES")
      \/ permitted /\ ~CanLink(sv, a.path, a.newpath) /\ Returns(sv, a, "ERR")
      \/ permitted /\ CanLink(sv, a.path, a.newpath) /\ makes
  BY DEF bb_link
<1>2. CASE permitted /\ CanLink(sv, a.path, a.newpath) /\ makes
  <2>1. ent'[sv] = linked /\ DOMAIN ent = Servers
    BY <1>2 DEF ServerInv, ServerTypeOK
  <2>2. ent' = [ent EXCEPT ![sv] = [@ EXCEPT ![a.newpath] = ent[sv][a.path]]]
    BY <1>2
  <2> HIDE DEF linked
  <2>3. LinkOwns(sv, a)
    BY <1>2, <2>1 DEF LinkOwns
  <2>4. QED
    BY <1>2, <2>2, <2>3
<1>3. QED
  BY <1>1, <1>2

LEMMA LinkInv ==
  ASSUME ServerInv, NEW sv \in Servers, NEW a \in link_arg, bb_link(sv, a)
  PROVE  ServerInv'
<1>1. a.path \in AnyPath /\ a.newpath \in AnyPath /\ a.op \notin {"open", "opendir"}
  BY DEF link_arg, AnyPath
<1>2. CASE \E ret \in {"EACCES", "ERR"} : Returns(sv, a, ret)
  BY <1>2, BackedReturns
<1>3. CASE ~\E ret \in {"EACCES", "ERR"} : Returns(sv, a, ret)
  <2>1. /\ CanLink(sv, a.path, a.newpath) /\ LinkOwns(sv, a)
        /\ ent' = [ent EXCEPT ![sv] = [@ EXCEPT ![a.newpath] = ent[sv][a.path]]]
        /\ UNCHANGED <<fdt, lock, hung>>
    BY <1>3, LinkCases
  <2>2. ent[sv][a.path] \in Inodes /\ File(sv, a.path) \in Node
    BY <1>1, <2>1, BackedFiles DEF CanLink
  <2>3. EntT' /\ Backed(ent', fdt, node)
    BY <1>1, <2>1, <2>2 DEF EntT, ServerInv, ServerTypeOK, Backed, CanLink, Exists
  <2>4. ReplyT'
    BY <1>1, <2>1, AnswersType DEF LinkOwns, ServerInv
  <2>5. NodeT' /\ Backed(ent', fdt, node')
    <3>1. CASE UNCHANGED node
      BY <2>3, <3>1, SameType DEF ServerInv
    <3>2. CASE node' # node
      <4> DEFINE owned == Followed(ent'[sv], node[sv], a.newpath)
                 i == ent'[sv][owned]
      <4>1. owned # None /\ SetNode(sv, i, [node[sv][i] EXCEPT !.uid = a.ip])
        BY <2>1, <3>2 DEF LinkOwns
      <4>2. owned \in AnyPath /\ ent'[sv][owned] # None
        BY <4>1, FollowedFile
      <4> HIDE DEF owned
      <4>3. i \in Inodes /\ node[sv][i] # None /\ node[sv][i] \in Node
        BY <2>3, <4>2 DEF EntT, Backed, ServerInv, ServerTypeOK
      <4>4. [node[sv][i] EXCEPT !.uid = a.ip] \in Node
        BY <4>3 DEF Node, link_arg, Uids
      <4> HIDE DEF i
      <4>5. QED
        BY <2>3, <4>1, <4>3, <4>4, SetNodeType, BackedSetNode DEF ServerInv
    <3>3. QED
      BY <3>1, <3>2
  <2>6. QED
    BY <2>1, <2>3, <2>4, <2>5, SameType, Parts DEF ServerInv
<1>4. QED
  BY <1>2, <1>3

\* rename(2) leaves a table of names that refers to no more than it did.
LEMMA RenamedNames ==
  ASSUME ServerInv, NEW sv \in Servers, NEW p \in Paths, NEW q \in Paths
  PROVE  /\ Renamed(sv, p, q) \in [AnyPath -> Inodes \cup {None}]
         /\ \A r \in AnyPath : Renamed(sv, p, q)[r] # None =>
              \E t \in AnyPath : Renamed(sv, p, q)[r] = ent[sv][t]
<1>1. Paths \subseteq AnyPath /\ p \in AnyPath /\ q \in AnyPath
  BY DEF AnyPath
<1>2. ent[sv] \in [AnyPath -> Inodes \cup {None}]
  BY DEF ServerInv, ServerTypeOK
<1>3. CASE ent[sv][p] = ent[sv][q]
  BY <1>2, <1>3 DEF Renamed
<1>4. CASE ent[sv][p] # ent[sv][q]
  <2> DEFINE name(r) == IF IsPrefix(q, r)
                        THEN IF Rebased(r, q, p) \in Paths THEN ent[sv][Rebased(r, q, p)] ELSE None
                        ELSE IF IsPrefix(p, r) THEN None ELSE ent[sv][r]
  <2>1. \A r \in AnyPath : \/ name(r) = None
                           \/ \E t \in AnyPath : name(r) = ent[sv][t]
    BY <1>1
  <2>2. Renamed(sv, p, q) = [r \in AnyPath |-> name(r)]
    BY <1>4 DEF Renamed
  <2>3. \A r \in AnyPath : name(r) \in Inodes \cup {None}
    BY <1>2, <2>1
  <2> HIDE DEF name
  <2>4. QED
    BY <2>1, <2>2, <2>3
<1>5. QED
  BY <1>3, <1>4

LEMMA RenameEffectInv ==
  ASSUME ServerInv, NEW sv \in Servers, NEW a \in rename_arg, FdtT', Backed(ent, fdt', node),
         RenameEffect(sv, a)
  PROVE  ServerInv'
<1>1. /\ a.path \in Paths /\ a.newpath \in Paths /\ a.op \notin {"open", "opendir"}
      /\ UNCHANGED <<lock, hung>>
  BY DEF rename_arg, RenameEffect
<1>2. CASE Answers(sv, a, "ERR", None) /\ UNCHANGED <<ent, node>>
  BY <1>1, <1>2, FailsLocked
<1>3. CASE /\ ent' = [ent EXCEPT ![sv] = Renamed(sv, a.path, a.newpath)]
           /\ ReapNodes(sv) /\ Answers(sv, a, "OK", None)
  <2>1. EntT'
    BY <1>1, <1>3, RenamedNames DEF EntT, ServerInv, ServerTypeOK
  <2>2. Backed(ent', fdt', node)
    BY <1>1, <1>3, RenamedNames DEF Backed, ServerInv, ServerTypeOK
  <2>3. NodeT' /\ Backed(ent', fdt', node')
    BY <1>3, <2>1, <2>2, ReapType, BackedReap DEF ServerInv
  <2>4. LockT' /\ HungT' /\ ReplyT'
    BY <1>1, <1>3, SameType, AnswersType DEF ServerInv
  <2>5. QED
    BY <2>1, <2>3, <2>4, Parts DEF ServerInv
<1>4. QED
  BY <1>2, <1>3 DEF RenameEffect

LEMMA RenameSecondParentInv ==
  ASSUME ServerInv, NEW sv \in Servers, NEW a \in rename_arg, NEW fd \in Fds,
         dlock(sv, get_parent_path(a.path), fd), RenameSecondParent(sv, a, fd)
  PROVE  ServerInv'
<1> DEFINE first == ent[sv][get_parent_path(a.path)]
           second == ent[sv][get_parent_path(a.newpath)]
           Both(d) == fdt' = [fdt EXCEPT ![sv] =
                               [@ EXCEPT ![fd] = DirDesc(first), ![d] = DirDesc(second)]]
           isdir == IsKind(sv, get_parent_path(a.newpath), "dir")
<1>1. /\ get_parent_path(a.path) \in AnyPath /\ get_parent_path(a.newpath) \in AnyPath
      /\ a.op \notin {"open", "opendir"}
  BY ParentType DEF rename_arg
<1>2. first \in Inodes /\ node[sv][first] # None /\ DirDesc(first).ino = first
  BY <1>1, BackedFiles DEF dlock, IsKind, Exists, ServerInv, Backed, DirDesc
<1>3. isdir => second \in Inodes /\ node[sv][second] # None /\ DirDesc(second).ino = second
  BY <1>1, BackedFiles DEF IsKind, Exists, ServerInv, Backed, DirDesc
<1>4. ASSUME isdir, NEW d \in Fds, Both(d)
      PROVE  FdtT' /\ Backed(ent, fdt', node)
  <2>1. DirDesc(first) \in Desc /\ DirDesc(second) \in Desc
    BY <1>2, <1>3, <1>4, DirDescType
  <2>2. QED
    BY <1>2, <1>3, <1>4, <2>1 DEF FdtT, Backed, ServerInv, ServerTypeOK
<1>5. CASE /\ Opened(sv, fd, DirDesc(first)) /\ SetLock(sv, first, fd)
           /\ Answers(sv, a, "ERR", None) /\ UNCHANGED <<ent, node, hung>>
  <2>1. FdtT' /\ LockT' /\ Backed(ent, fdt', node)
    BY <1>2, <1>5, DirDescType, OpenedType, SetLockType, BackedOpened DEF ServerInv
  <2>2. QED
    BY <1>1, <1>5, <2>1, SameType, AnswersType, Parts DEF ServerInv
<1>6. CASE isdir /\ (\E d \in Fds : Both(d)) /\ SetLock(sv, first, fd) /\ Hangs(sv)
  <2>1. FdtT' /\ LockT' /\ Backed(ent, fdt', node)
    BY <1>2, <1>4, <1>6, SetLockType DEF ServerInv
  <2>2. QED
    BY <1>6, <2>1, HangsType, Parts DEF ServerInv, Hangs
<1>7. CASE isdir /\ (\E d \in Fds : Both(d)) /\ RenameEffect(sv, a)
  BY <1>4, <1>7, RenameEffectInv
<1>8. QED
  BY <1>5, <1>6, <1>7 DEF RenameSecondParent, LowestOf, FreeFds

LEMMA RenameInv ==
  ASSUME ServerInv, NEW sv \in Servers, NEW a \in rename_arg, bb_rename(sv, a)
  PROVE  ServerInv'
<1>1. a.path \in Paths /\ a.op \notin {"open", "opendir"}
  BY DEF rename_arg
<1>2. CASE (\E ret \in {"EACCES", "ERR"} : Returns(sv, a, ret)) \/ LockHangs(sv, a)
  BY <1>1, <1>2, BackedReturns, BackedLockHangs
<1>3. ASSUME NEW fd \in Fds, LocksDirectory(sv, a, fd), RenameEffect(sv, a)
      PROVE  ServerInv'
  BY <1>1, <1>3, LocksDirectoryType, BackedLocksDirectory, RenameEffectInv DEF ServerInv
<1>4. ASSUME NEW fd \in Fds, dlock(sv, get_parent_path(a.path), fd),
             RenameSecondParent(sv, a, fd)
      PROVE  ServerInv'
  BY <1>4, RenameSecondParentInv
<1>5. QED
  BY <1>2, <1>3, <1>4 DEF bb_rename, LockFails

-----------------------------------------------------------------------------
(* The invariant: attributes and whole files, by path. *)

LEMMA ChangesNode ==
  ASSUME ServerInv, NEW sv \in Servers, NEW a, a.op \notin {"open", "opendir"},
         NEW i \in Inodes, NEW n \in Node, SetNode(sv, i, n),
         Answers(sv, a, "OK", None), UNCHANGED <<ent, fdt, hung>>, LockT'
  PROVE  ServerInv'
<1>1. NodeT' /\ Backed(ent, fdt, node')
  BY SetNodeType, BackedSetNode DEF ServerInv
<1>2. QED
  BY <1>1, SameType, AnswersType, Parts DEF ServerInv

LEMMA GetattrInv ==
  ASSUME ServerInv, NEW sv \in Servers, NEW a \in getattr_arg, bb_getattr(sv, a)
  PROVE  ServerInv'
<1>1. \E ret \in {"OK", "ERR"} : \E val : Answers(sv, a, ret, val)
  BY DEF bb_getattr
<1>2. ReplyT'
  BY <1>1, AnswersType DEF getattr_arg, ServerInv
<1>3. QED
  BY <1>2, SameType, Parts DEF bb_getattr, ServerInv

LEMMA AnswerOnlyInv ==
  ASSUME ServerInv, NEW sv \in Servers,
         NEW a \in UNION {access_arg, statfs_arg, readlink_arg, utime_arg},
         \/ bb_access(sv, a) \/ bb_statfs(sv, a) \/ bb_readlink(sv, a) \/ bb_utime(sv, a)
  PROVE  ServerInv'
<1>1. a.op \notin {"open", "opendir"}
  BY DEF access_arg, statfs_arg, readlink_arg, utime_arg
<1>2. \E ret \in {"OK", "EACCES", "ERR"} : Returns(sv, a, ret)
  BY DEF bb_access, bb_statfs, bb_readlink, bb_utime
<1>3. QED
  BY <1>1, <1>2, BackedReturns

LEMMA ChmodInv ==
  ASSUME ServerInv, NEW sv \in Servers, NEW a \in chmod_arg, bb_chmod(sv, a)
  PROVE  ServerInv'
<1>1. a.path \in AnyPath /\ a.op \notin {"open", "opendir"} /\ a.mode \in Mode
  BY ModesAssumption DEF chmod_arg, AnyPath
<1>2. CASE \E ret \in {"EACCES", "ERR"} : Returns(sv, a, ret)
  BY <1>1, <1>2, BackedReturns
<1>3. CASE LeadsTo(sv, a.path) # None /\ SetsMode(sv, a, LeadsTo(sv, a.path))
  <2> DEFINE p == LeadsTo(sv, a.path)
  <2>1. p \in AnyPath /\ Exists(sv, p)
    BY <1>3, LeadsToFollowed
  <2> HIDE DEF p
  <2>2. ent[sv][p] \in Inodes /\ [File(sv, p) EXCEPT !.mode = a.mode] \in Node
    BY <1>1, <2>1, BackedFiles DEF Node
  <2>3. SetsMode(sv, a, p)
    BY <1>3 DEF p
  <2>4. QED
    BY <1>1, <2>2, <2>3, ChangesNode, SameType DEF ServerInv, SetsMode
<1>4. QED
  BY <1>2, <1>3 DEF bb_chmod

\* Changing the size of a file's contents gives contents.
LEMMA ResizedType ==
  ASSUME NEW data \in Seq(Content), NEW n \in Nat
  PROVE  Resized(data, n) \in Seq(Content) /\ Len(Resized(data, n)) = n
BY DEF Resized, Content

LEMMA TruncateInv ==
  ASSUME ServerInv, NEW sv \in Servers, NEW a \in truncate_arg, bb_truncate(sv, a)
  PROVE  ServerInv'
<1>1. a.path \in AnyPath /\ a.op \notin {"open", "opendir"} /\ a.newsize \in Nat
  BY MaxLenAssumption DEF truncate_arg, AnyPath
<1>2. CASE Returns(sv, a, "ERR")
  BY <1>1, <1>2, BackedReturns
<1>3. CASE ~Returns(sv, a, "ERR")
  <2> DEFINE p == LeadsTo(sv, a.path)
  <2>1. /\ LeadsToFile(sv, a.path) /\ Answers(sv, a, "OK", None)
        /\ SetNode(sv, ent[sv][p], [File(sv, p) EXCEPT !.data = Resized(@, a.newsize)])
        /\ UNCHANGED <<ent, fdt, lock, hung>>
    BY <1>3 DEF bb_truncate
  <2>2. p \in AnyPath /\ Exists(sv, p)
    BY <2>1, LeadsToFollowed DEF LeadsToFile
  <2> HIDE DEF p
  <2>3. ent[sv][p] \in Inodes /\ File(sv, p) \in Node
    BY <2>2, BackedFiles
  <2>4. [File(sv, p) EXCEPT !.data = Resized(@, a.newsize)] \in Node
    BY <1>1, <2>3, ResizedType DEF Node
  <2>5. QED
    BY <1>1, <2>1, <2>3, <2>4, ChangesNode, SameType DEF ServerInv
<1>4. QED
  BY <1>2, <1>3

-----------------------------------------------------------------------------
(* The invariant: files and directories by descriptor. *)

LEMMA OpenInv ==
  ASSUME ServerInv, NEW sv \in Servers, NEW a \in open_arg, bb_open(sv, a)
  PROVE  ServerInv'
<1>1. a.path \in AnyPath /\ a.acc \in {"r", "w", "rw"} /\ a.append \in BOOLEAN
  BY DEF open_arg, AnyPath
<1>2. CASE \E ret \in {"EACCES", "ERR"} : Returns(sv, a, ret)
  BY <1>2, BackedReturns
<1>3. ASSUME CanOpen(sv, a.path, a.acc), NEW fd \in Fds,
             Opened(sv, fd, [ino |-> ent[sv][LeadsTo(sv, a.path)], acc |-> a.acc,
                             append |-> a.append, eof |-> FALSE]),
             Answers(sv, a, "OK", fd), UNCHANGED <<ent, node, lock, hung>>
      PROVE  ServerInv'
  <2> DEFINE p == LeadsTo(sv, a.path)
             d == [ino |-> ent[sv][p], acc |-> a.acc, append |-> a.append, eof |-> FALSE]
  <2>1. p \in AnyPath /\ Exists(sv, p)
    BY <1>3, LeadsToFollowed DEF CanOpen
  <2>2. Opened(sv, fd, d)
    BY <1>3
  <2> HIDE DEF p
  <2>3. d \in Desc /\ node[sv][d.ino] # None
    BY <1>1, <2>1, BackedFiles DEF Desc, ServerInv, Backed, Exists
  <2> HIDE DEF d
  <2>4. FdtT' /\ Backed(ent, fdt', node)
    BY <2>2, <2>3, OpenedType, BackedOpened DEF ServerInv
  <2>5. QED
    BY <1>3, <2>4, SameType, AnswersType, Parts DEF ServerInv
<1>4. QED
  BY <1>2, <1>3 DEF bb_open, LowestOf, FreeFds

LEMMA OpendirInv ==
  ASSUME ServerInv, NEW sv \in Servers, NEW a \in opendir_arg, bb_opendir(sv, a)
  PROVE  ServerInv'
<1>1. CASE \E ret \in {"EACCES", "ERR"} : Returns(sv, a, ret)
  BY <1>1, BackedReturns
<1>2. ASSUME LeadsToDir(sv, a.path), NEW fd \in Fds,
             Opened(sv, fd, DirDesc(ent[sv][LeadsTo(sv, a.path)])),
             Answers(sv, a, "OK", fd), UNCHANGED <<ent, node, lock, hung>>
      PROVE  ServerInv'
  <2> DEFINE p == LeadsTo(sv, a.path)
  <2>1. p \in AnyPath /\ Exists(sv, p)
    BY <1>2, LeadsToFollowed DEF LeadsToDir
  <2>2. Opened(sv, fd, DirDesc(ent[sv][p]))
    BY <1>2
  <2> HIDE DEF p
  <2>3. /\ ent[sv][p] \in Inodes /\ node[sv][ent[sv][p]] # None
        /\ DirDesc(ent[sv][p]).ino = ent[sv][p]
    BY <2>1, BackedFiles DEF ServerInv, Backed, Exists, DirDesc
  <2>4. FdtT' /\ Backed(ent, fdt', node)
    BY <2>2, <2>3, OpenedType, DirDescType, BackedOpened DEF ServerInv
  <2>5. QED
    BY <1>2, <2>4, SameType, AnswersType, Parts DEF ServerInv
<1>3. QED
  BY <1>1, <1>2 DEF bb_opendir, LowestOf, FreeFds

LEMMA CloseInv ==
  ASSUME ServerInv, NEW sv \in Servers, NEW a \in release_arg \cup releasedir_arg,
         bb_release(sv, a) \/ bb_releasedir(sv, a)
  PROVE  ServerInv'
<1>1. a.fd \in Fds /\ a.op \notin {"open", "opendir"}
  BY DEF release_arg, releasedir_arg
<1>2. CASE Returns(sv, a, "ERR")
  BY <1>1, <1>2, BackedReturns
<1>3. CASE Close(sv, a.fd) /\ Answers(sv, a, "OK", None) /\ UNCHANGED hung
  BY <1>1, <1>3, CloseType, BackedClose, SameType, AnswersType, Parts DEF ServerInv
<1>4. QED
  BY <1>2, <1>3 DEF bb_release, bb_releasedir

LEMMA FlockHangsInv ==
  ASSUME ServerInv, NEW sv \in Servers, NEW fd, FlockHangs(sv, fd)
  PROVE  ServerInv'
BY HangsType, SameType, Parts DEF FlockHangs, Hangs, ServerInv

LEMMA LocksAndUnlocksType ==
  ASSUME ServerInv, NEW sv \in Servers, NEW fd \in Fds, LocksAndUnlocks(sv, fd)
  PROVE  LockT'
BY LookupTypes, SetLockType, SameType DEF LocksAndUnlocks, ServerInv

LEMMA AtEndType ==
  ASSUME NEW d \in Desc
  PROVE  [d EXCEPT !.eof = TRUE] \in Desc /\ [d EXCEPT !.eof = TRUE].ino = d.ino
BY DEF Desc

LEMMA ReaddirInv ==
  ASSUME ServerInv, NEW sv \in Servers, NEW a \in readdir_arg, bb_readdir(sv, a)
  PROVE  ServerInv'
<1>1. a.fd \in Fds /\ a.op \notin {"open", "opendir"}
  BY DEF readdir_arg
<1>2. CASE FlockHangs(sv, a.fd)
  BY <1>2, FlockHangsInv
<1>3. CASE ~FlockHangs(sv, a.fd)
  <2>1. LockT' /\ UNCHANGED <<ent, node, hung>>
    BY <1>1, <1>3, LocksAndUnlocksType DEF bb_readdir
  <2>2. \E ret \in {"OK", "ERR"} : \E val : Answers(sv, a, ret, val)
    BY <1>3 DEF bb_readdir
  <2>3. FdtT' /\ Backed(ent, fdt', node)
    <3>1. CASE UNCHANGED fdt
      BY <3>1, SameType DEF ServerInv
    <3>2. CASE IsOpenDir(sv, a.fd) /\ Opened(sv, a.fd, [fdt[sv][a.fd] EXCEPT !.eof = TRUE])
      <4> DEFINE d == [fdt[sv][a.fd] EXCEPT !.eof = TRUE]
      <4>1. d \in Desc /\ d.ino = fdt[sv][a.fd].ino
        BY <1>1, <3>2, LookupTypes, AtEndType DEF IsOpenDir, ServerInv
      <4>2. node[sv][d.ino] # None
        BY <1>1, <3>2, <4>1 DEF IsOpenDir, IsOpen, ServerInv, Backed
      <4>3. QED
        BY <1>1, <3>2, <4>1, <4>2, OpenedType, BackedOpened DEF ServerInv
    <3>3. QED
      BY <1>3, <3>1, <3>2 DEF bb_readdir
  <2>4. QED
    BY <1>1, <2>1, <2>2, <2>3, SameType, AnswersType, Parts DEF ServerInv
<1>4. QED
  BY <1>2, <1>3

LEMMA ReadInv ==
  ASSUME ServerInv, NEW sv \in Servers, NEW a \in read_arg, bb_read(sv, a)
  PROVE  ServerInv'
<1>1. a.fd \in Fds /\ a.op \notin {"open", "opendir"}
  BY DEF read_arg
<1>2. CASE FlockHangs(sv, a.fd)
  BY <1>2, FlockHangsInv
<1>3. CASE ~FlockHangs(sv, a.fd)
  <2>1. LockT' /\ UNCHANGED <<ent, node, fdt, hung>>
    BY <1>1, <1>3, LocksAndUnlocksType DEF bb_read
  <2>2. \E ret \in {"OK", "ERR"} : \E val : Answers(sv, a, ret, val)
    BY <1>3 DEF bb_read
  <2>3. QED
    BY <1>1, <2>1, <2>2, SameType, AnswersType, Parts DEF ServerInv
<1>4. QED
  BY <1>2, <1>3

\* Writing a block gives contents.
LEMMA WrittenAtType ==
  ASSUME NEW data \in Seq(Content), NEW append \in BOOLEAN, NEW offset \in Nat, NEW b \in Blocks
  PROVE  WrittenAt(data, append, offset, b) \in Seq(Content)
<1>1. Append(data, b) \in Seq(Content)
  BY DEF Content
<1>2. ASSUME NEW s \in Seq(Content), offset + 1 \in 1 .. Len(s)
      PROVE  [s EXCEPT ![offset + 1] = b] \in Seq(Content)
  BY <1>2 DEF Content
<1>3. offset < Len(data) => offset + 1 \in 1 .. Len(data)
  OBVIOUS
<1>4. Resized(data, offset + 1) \in Seq(Content) /\ Len(Resized(data, offset + 1)) = offset + 1
  BY ResizedType
<1>5. QED
  BY <1>1, <1>2, <1>3, <1>4 DEF WrittenAt

\* A write through a descriptor, and a write by path.
LEMMA WriteDirectInv ==
  ASSUME ServerInv, NEW sv \in Servers, NEW a, a.op \notin {"open", "opendir"}, a.fd \in Fds,
         a.offset \in Nat, a.buffer \in Blocks, WriteDirect(sv, a)
  PROVE  ServerInv'
<1> DEFINE d == fdt[sv][a.fd]
           n == [FileOf(sv, a.fd) EXCEPT !.data = WrittenAt(@, d.append, a.offset, a.buffer)]
<1>1. CASE FlockHangs(sv, a.fd)
  BY <1>1, FlockHangsInv
<1>2. CASE ~FlockHangs(sv, a.fd)
  <2>1. LockT' /\ UNCHANGED <<ent, fdt, hung>>
    BY <1>2, LocksAndUnlocksType DEF WriteDirect
  <2>2. CASE Answers(sv, a, "ERR", None) /\ UNCHANGED node
    BY <2>1, <2>2, SameType, AnswersType, Parts DEF ServerInv
  <2>3. CASE IsOpen(sv, a.fd) /\ SetNode(sv, d.ino, n) /\ Answers(sv, a, "OK", None)
    <3>1. d \in Desc /\ d.ino \in Inodes /\ FileOf(sv, a.fd) \in Node
      BY <2>3, BackedFiles
    <3>2. n \in Node
      BY <3>1, WrittenAtType DEF Node, Desc
    <3>3. QED
      BY <2>1, <2>3, <3>1, <3>2, ChangesNode
  <2>4. QED
    BY <1>2, <2>2, <2>3 DEF WriteDirect
<1>3. QED
  BY <1>1, <1>2

LEMMA WriteSecondaryInv ==
  ASSUME ServerInv, NEW sv \in Servers, NEW a, a.op \notin {"open", "opendir"}, a.path \in Paths,
         a.offset \in Nat, a.buffer \in Blocks, WriteSecondary(sv, a)
  PROVE  ServerInv'
<1> DEFINE p == LeadsTo(sv, a.path)
           d == [ino |-> ent[sv][p], acc |-> "w", append |-> TRUE, eof |-> FALSE]
           n == [File(sv, p) EXCEPT !.data = WrittenAt(@, TRUE, a.offset, a.buffer)]
<1>1. CASE Returns(sv, a, "ERR")
  BY <1>1, BackedReturns
<1>2. CASE CanOpen(sv, a.path, "w")
  <2>1. \/ Returns(sv, a, "ERR")
        \/ /\ \E fd \in LowestOf(FreeFds(sv)) : Opened(sv, fd, d)
           /\ Answers(sv, a, "ERR", None) /\ UNCHANGED <<ent, node, lock, hung>>
        \/ /\ SetNode(sv, ent[sv][p], n)
           /\ Answers(sv, a, "OK", None) /\ UNCHANGED <<ent, fdt, lock, hung>>
    BY DEF WriteSecondary
  <2>2. p \in AnyPath /\ Exists(sv, p)
    BY <1>2, LeadsToFollowed DEF CanOpen
  <2> HIDE DEF p
  <2>3. ent[sv][p] \in Inodes /\ File(sv, p) \in Node /\ node[sv][ent[sv][p]] # None
    BY <2>2, BackedFiles DEF ServerInv, Backed, Exists
  <2>4. CASE /\ \E fd \in LowestOf(FreeFds(sv)) : Opened(sv, fd, d)
             /\ Answers(sv, a, "ERR", None) /\ UNCHANGED <<ent, node, lock, hung>>
    <3>1. PICK fd \in Fds : Opened(sv, fd, d)
      BY <2>4 DEF LowestOf, FreeFds
    <3>2. d \in Desc /\ node[sv][d.ino] # None
      BY <2>3 DEF Desc
    <3>3. FdtT' /\ Backed(ent, fdt', node)
      BY <3>1, <3>2, OpenedType, BackedOpened DEF ServerInv
    <3>4. QED
      BY <2>4, <3>3, SameType, AnswersType, Parts DEF ServerInv
  <2>5. CASE /\ SetNode(sv, ent[sv][p], n)
             /\ Answers(sv, a, "OK", None) /\ UNCHANGED <<ent, fdt, lock, hung>>
    <3>1. n \in Node
      BY <2>3, WrittenAtType DEF Node
    <3>2. QED
      BY <2>3, <2>5, <3>1, ChangesNode, SameType DEF ServerInv
  <2>6. QED
    BY <1>1, <2>1, <2>4, <2>5
<1>3. QED
  BY <1>1, <1>2 DEF WriteSecondary

-----------------------------------------------------------------------------
(* The invariant: every request. *)

\* What a request carries, by the procedure it asks for.
LEMMA RequestKinds ==
  ASSUME NEW a \in Requests
  PROVE  /\ a.op = "init_rootdir" => a \in init_arg
         /\ a.op = "getattr" => a \in getattr_arg
         /\ a.op = "access" => a \in access_arg
         /\ a.op = "mkdir" => a \in mkdir_arg
         /\ a.op = "rmdir" => a \in rmdir_arg
         /\ a.op = "opendir" => a \in opendir_arg
         /\ a.op = "readdir" => a \in readdir_arg
         /\ a.op = "releasedir" => a \in releasedir_arg
         /\ a.op = "rename" => a \in rename_arg
         /\ a.op = "symlink" => a \in symlink_arg
         /\ a.op = "link" => a \in link_arg
         /\ a.op = "readlink" => a \in readlink_arg
         /\ a.op = "mknod" => a \in mknod_arg
         /\ a.op = "truncate" => a \in truncate_arg
         /\ a.op = "unlink" => a \in unlink_arg
         /\ a.op = "utime" => a \in utime_arg
         /\ a.op = "chmod" => a \in chmod_arg
         /\ a.op = "open" => a \in open_arg
         /\ a.op = "release" => a \in release_arg
         /\ a.op = "read" => a \in read_arg
         /\ a.op = "write" => a \in write_arg
         /\ a.op = "statfs" => a \in statfs_arg
BY DEF Requests, ReplicatedRequests, LocalRequests, init_arg, getattr_arg, access_arg,
       mkdir_arg, rmdir_arg, opendir_arg, readdir_arg, releasedir_arg, rename_arg, symlink_arg,
       link_arg, readlink_arg, mknod_arg, truncate_arg, unlink_arg, utime_arg, chmod_arg,
       open_arg, release_arg, read_arg, write_arg, statfs_arg

LEMMA WriteInv ==
  ASSUME ServerInv, NEW sv \in Servers, NEW a \in write_arg, bb_write(sv, a)
  PROVE  ServerInv'
<1>1. /\ a.op \notin {"open", "opendir"} /\ a.fd \in Fds /\ a.path \in Paths
      /\ a.offset \in Nat /\ a.buffer \in Blocks
  BY MaxLenAssumption DEF write_arg
<1>2. QED
  BY <1>1, WriteDirectInv, WriteSecondaryInv DEF bb_write

LEMMA RequestInv ==
  ASSUME ServerInv, NEW sv \in Servers, NEW a \in Requests, compute_6(sv, a)
  PROVE  ServerInv'
<1>1. CASE a.op \in {"init_rootdir", "mkdir", "rmdir", "rename", "symlink", "link", "mknod",
                     "unlink"}
  BY <1>1, RequestKinds, InitRootdirInv, MkdirInv, RmdirInv, RenameInv, SymlinkInv, LinkInv,
     MknodInv, UnlinkInv DEF compute_6
<1>2. CASE a.op \in {"getattr", "chmod", "truncate"}
  BY <1>2, RequestKinds, GetattrInv, ChmodInv, TruncateInv DEF compute_6
<1>3. CASE a.op \in {"access", "statfs", "readlink", "utime"}
  <2>1. a \in UNION {access_arg, statfs_arg, readlink_arg, utime_arg}
    BY <1>3, RequestKinds
  <2>2. bb_access(sv, a) \/ bb_statfs(sv, a) \/ bb_readlink(sv, a) \/ bb_utime(sv, a)
    BY <1>3 DEF compute_6
  <2>3. QED
    BY <2>1, <2>2, AnswerOnlyInv
<1>4. CASE a.op \in {"open", "opendir", "read", "readdir", "write"}
  BY <1>4, RequestKinds, OpenInv, OpendirInv, ReadInv, ReaddirInv, WriteInv DEF compute_6
<1>5. CASE a.op \in {"release", "releasedir"}
  BY <1>5, RequestKinds, CloseInv DEF compute_6
<1>6. QED
  BY <1>1, <1>2, <1>3, <1>4, <1>5 DEF compute_6

LEMMA RestartInv ==
  ASSUME ServerInv, NEW sv \in Servers, Restart(sv)
  PROVE  ServerInv'
<1>1. EntT' /\ FdtT' /\ LockT' /\ HungT' /\ ReplyT'
  BY SameType DEF Restart, Dies, ServerInv, ServerTypeOK, FdtT, LockT, HungT
<1>2. Backed(ent', fdt', node)
  BY DEF Restart, Dies, Backed, ServerInv, ServerTypeOK
<1>3. NodeT' /\ Backed(ent', fdt', node')
  BY <1>1, <1>2, ReapType, BackedReap DEF Restart, ServerInv
<1>4. QED
  BY <1>1, <1>3, Parts DEF ServerInv

\* A file that was made and has no owner yet is a file.
LEMMA HalfMadeInv ==
  ASSUME ServerInv, NEW sv \in Servers, Dies(sv),
         NEW p \in AnyPath, NEW n \in Node, HalfMade(sv, p, n)
  PROVE  ServerInv'
<1>1. PICK i \in Inodes :
        /\ ent' = [ent EXCEPT ![sv] = [@ EXCEPT ![p] = i]]
        /\ node' = [node EXCEPT ![sv] = Reaped([@ EXCEPT ![i] = n], ent'[sv], fdt'[sv])]
  BY DEF HalfMade, LowestOf, FreeInodes
<1> DEFINE N == [node[sv] EXCEPT ![i] = n]
<1>2. N \in [Inodes -> Node \cup {None}] /\ N[i] # None
  BY NoneAssumption DEF ServerInv, ServerTypeOK
<1>3. EntT' /\ FdtT' /\ LockT' /\ HungT' /\ ReplyT'
  BY <1>1, SameType DEF Dies, ServerInv, ServerTypeOK, EntT, FdtT, LockT, HungT
<1>4. \A e, f : Reaped(N, e, f) \in [Inodes -> Node \cup {None}]
  BY <1>2 DEF Reaped
<1>5. NodeT'
  BY <1>1, <1>4 DEF NodeT, ServerInv, ServerTypeOK
<1>6. \A j \in Inodes \cap Live(ent'[sv], fdt'[sv]) : node'[sv][j] = N[j]
  BY <1>1 DEF Reaped, ServerInv, ServerTypeOK
<1>7. \A q \in AnyPath : ent'[sv][q] # None =>
        /\ ent'[sv][q] \in Inodes \cap Live(ent'[sv], fdt'[sv])
        /\ N[ent'[sv][q]] # None
  BY <1>1, <1>2, <1>3 DEF EntT, Live, ServerInv, ServerTypeOK, Backed
<1>8. \A fd \in Fds : fdt'[sv][fd] = None
  BY DEF Dies, ServerInv, ServerTypeOK
<1>9. \A s \in Servers : s # sv => ent'[s] = ent[s] /\ fdt'[s] = fdt[s] /\ node'[s] = node[s]
  BY <1>1 DEF Dies, ServerInv, ServerTypeOK
<1>10. Backed(ent', fdt', node')
  BY <1>6, <1>7, <1>8, <1>9 DEF Backed, ServerInv
<1>11. QED
  BY <1>3, <1>5, <1>10, Parts DEF ServerInv

\* A handler that dies halfway.
LEMMA DiesHalfwayInv ==
  ASSUME ServerInv, NEW sv \in Servers, NEW a \in Requests, DiesHalfway(sv, a)
  PROVE  ServerInv' /\ Dies(sv)
<1>1. Dies(sv)
  BY DEF DiesHalfway
<1>2. CASE a.op \in {"init_rootdir", "mkdir", "mknod", "symlink"}
  <2>1. PICK p \in AnyPath, n \in Node : HalfMade(sv, p, n)
    <3>1. Root \in AnyPath /\ FullMode \in Mode
      BY DEF AnyPath, FullMode, Mode
    <3>2. CASE a.op = "init_rootdir"
      BY <3>1, <3>2, NewFileType DEF DiesHalfway, Kinds, Uids
    <3>3. CASE a.op = "mkdir"
      <4>1. a \in mkdir_arg
        BY <3>3, RequestKinds
      <4>2. QED
        BY <3>3, <4>1, NewFileType, ModesAssumption
           DEF DiesHalfway, mkdir_arg, Kinds, Uids, AnyPath
    <3>4. CASE a.op = "mknod"
      <4>1. a \in mknod_arg
        BY <3>4, RequestKinds
      <4>2. QED
        BY <3>4, <4>1, NewFileType, ModesAssumption
           DEF DiesHalfway, mknod_arg, Kinds, Uids, AnyPath
    <3>5. CASE a.op = "symlink"
      <4>1. a \in symlink_arg
        BY <3>5, RequestKinds
      <4>2. QED
        BY <3>5, <4>1, NewLinkType DEF DiesHalfway, symlink_arg, Uids, AnyPath
    <3>6. QED
      BY <1>2, <3>2, <3>3, <3>4, <3>5
  <2>2. QED
    BY <1>1, <2>1, HalfMadeInv
<1>3. CASE a.op = "link"
  <2>1. a.path \in AnyPath /\ a.newpath \in AnyPath
    BY <1>3, RequestKinds DEF link_arg, AnyPath
  <2>2. /\ CanLink(sv, a.path, a.newpath) /\ ReapNodes(sv)
        /\ ent' = [ent EXCEPT ![sv] = [@ EXCEPT ![a.newpath] = ent[sv][a.path]]]
    BY <1>3 DEF DiesHalfway
  <2>3. FdtT' /\ LockT' /\ HungT' /\ ReplyT'
    BY <1>1, SameType DEF Dies, ServerInv, ServerTypeOK, FdtT, LockT, HungT
  <2>4. EntT' /\ Backed(ent', fdt', node)
    BY <1>1, <2>1, <2>2 DEF Dies, EntT, ServerInv, ServerTypeOK, Backed, CanLink, Exists
  <2>5. NodeT' /\ Backed(ent', fdt', node')
    BY <2>2, <2>3, <2>4, ReapType, BackedReap DEF ServerInv
  <2>6. QED
    BY <1>1, <2>3, <2>4, <2>5, Parts DEF ServerInv
<1>4. QED
  BY <1>2, <1>3 DEF DiesHalfway

-----------------------------------------------------------------------------
(***************************************************************************)
(* What a request does to the descriptors that were open: it keeps them,   *)
(* except that a release closes the one it names.                          *)
(***************************************************************************)
Kept(s, fd) ==
  fdt[s][fd] # None => /\ fdt'[s][fd] # None /\ fdt'[s][fd].ino = fdt[s][fd].ino
                       /\ fdt'[s][fd].acc = fdt[s][fd].acc
                       /\ fdt'[s][fd].append = fdt[s][fd].append
Keeps == \A s \in Servers, fd \in Fds : Kept(s, fd)

LEMMA OpenedKeeps ==
  ASSUME ServerInv, NEW sv \in Servers, NEW fd \in Fds, fdt[sv][fd] = None, NEW d,
         Opened(sv, fd, d)
  PROVE  Keeps
BY DEF ServerInv, ServerTypeOK, Opened, Keeps, Kept

LEMMA SameKeeps ==
  ASSUME UNCHANGED fdt
  PROVE  Keeps
BY DEF Keeps, Kept

LEMMA DirectoryOpKeeps ==
  ASSUME ServerInv, NEW sv \in Servers, NEW a,
         \/ DirectoryNotLocked(sv, a)
         \/ \E fd \in Fds : LocksDirectory(sv, a, fd)
  PROVE  Keeps
<1>1. CASE \E fd \in Fds : \E d : fdt[sv][fd] = None /\ Opened(sv, fd, d)
  BY <1>1, OpenedKeeps
<1>2. CASE UNCHANGED fdt
  BY <1>2, SameKeeps
<1>3. QED
  BY <1>1, <1>2 DEF DirectoryNotLocked, NotPermitted, LockFails, LockHangs, LocksDirectory,
     Returns, dlock, DlockBlocks, LowestOf, FreeFds

LEMMA RenameKeeps ==
  ASSUME ServerInv, NEW sv \in Servers, NEW a \in rename_arg, bb_rename(sv, a)
  PROVE  Keeps
<1>1. CASE DirectoryNotLocked(sv, a) \/ \E fd \in Fds : LocksDirectory(sv, a, fd)
  BY <1>1, DirectoryOpKeeps
<1>2. CASE UNCHANGED fdt
  BY <1>2, SameKeeps
<1>3. ASSUME NEW fd \in Fds, dlock(sv, get_parent_path(a.path), fd),
             RenameSecondParent(sv, a, fd)
      PROVE  Keeps
  <2>1. fdt[sv][fd] = None
    BY <1>3 DEF dlock, LowestOf, FreeFds
  <2>2. CASE \E d : Opened(sv, fd, d)
    BY <2>1, <2>2, OpenedKeeps
  <2>3. CASE \E d \in Fds : \E x, y :
               /\ fdt[sv][d] = None
               /\ fdt' = [fdt EXCEPT ![sv] = [@ EXCEPT ![fd] = x, ![d] = y]]
    BY <2>1, <2>3 DEF ServerInv, ServerTypeOK, Keeps, Kept
  <2>4. QED
    BY <1>3, <2>2, <2>3 DEF RenameSecondParent, LowestOf, FreeFds
<1>4. QED
  BY <1>1, <1>2, <1>3 DEF bb_rename, DirectoryNotLocked, Returns

LEMMA ReaddirKeeps ==
  ASSUME ServerInv, NEW sv \in Servers, NEW a \in readdir_arg, bb_readdir(sv, a)
  PROVE  Keeps
<1>1. CASE UNCHANGED fdt
  BY <1>1, SameKeeps
<1>2. CASE IsOpenDir(sv, a.fd) /\ Opened(sv, a.fd, [fdt[sv][a.fd] EXCEPT !.eof = TRUE])
  <2>1. a.fd \in Fds /\ fdt[sv][a.fd] \in Desc
    BY <1>2, BackedFiles DEF readdir_arg, IsOpenDir
  <2> DEFINE d == [fdt[sv][a.fd] EXCEPT !.eof = TRUE]
  <2>2. /\ d # None /\ d.ino = fdt[sv][a.fd].ino
        /\ d.acc = fdt[sv][a.fd].acc /\ d.append = fdt[sv][a.fd].append
    BY <2>1, AtEndType, NoneAssumption DEF Desc
  <2> HIDE DEF d
  <2>3. QED
    BY <1>2, <2>1, <2>2 DEF ServerInv, ServerTypeOK, Opened, Keeps, Kept, d
<1>3. QED
  BY <1>1, <1>2 DEF bb_readdir, FlockHangs

LEMMA WriteKeeps ==
  ASSUME ServerInv, NEW sv \in Servers, NEW a \in write_arg, bb_write(sv, a)
  PROVE  Keeps
<1>1. CASE UNCHANGED fdt
  BY <1>1, SameKeeps
<1>2. CASE \E fd \in Fds : \E d : fdt[sv][fd] = None /\ Opened(sv, fd, d)
  BY <1>2, OpenedKeeps
<1>3. QED
  BY <1>1, <1>2 DEF bb_write, WriteDirect, WriteSecondary, FlockHangs, Returns, LowestOf, FreeFds

\* A successful open answers a number that was free and now denotes the file.
OpensFile(sv, a) ==
  LET fd == reply'[sv].val IN
  /\ fd \in Fds /\ LeadsTo(sv, a.path) # None /\ fdt[sv][fd] = None
  /\ fdt'[sv][fd] # None /\ fdt'[sv][fd].ino = ent[sv][LeadsTo(sv, a.path)]

LEMMA OpenAnswers ==
  ASSUME ServerInv, NEW sv \in Servers, NEW a,
         \/ a \in open_arg /\ bb_open(sv, a)
         \/ a \in opendir_arg /\ bb_opendir(sv, a)
  PROVE  /\ Keeps /\ UNCHANGED lock
         /\ reply'[sv].ret = "OK" => OpensFile(sv, a)
<1>1. CASE \E ret \in {"EACCES", "ERR"} : Returns(sv, a, ret)
  BY <1>1, SameKeeps DEF Returns, Answers, ServerInv, ServerTypeOK
<1>2. ASSUME LeadsTo(sv, a.path) # None, NEW fd \in FreeFds(sv), NEW d \in Desc,
             d.ino = ent[sv][LeadsTo(sv, a.path)], Opened(sv, fd, d), Answers(sv, a, "OK", fd),
             UNCHANGED lock
      PROVE  Keeps /\ OpensFile(sv, a) /\ UNCHANGED lock
  <2>1. fd \in Fds /\ fdt[sv][fd] = None
    BY DEF FreeFds
  <2>2. Keeps
    BY <1>2, <2>1, OpenedKeeps
  <2>3. reply'[sv].val = fd /\ fdt'[sv][fd] = d /\ d # None
    BY <1>2, <2>1, NoneAssumption DEF Answers, Opened, ServerInv, ServerTypeOK
  <2>4. QED
    BY <1>2, <2>1, <2>2, <2>3 DEF OpensFile
<1>3. CASE bb_open(sv, a) /\ a \in open_arg
  <2> DEFINE p == LeadsTo(sv, a.path)
             d == [ino |-> ent[sv][p], acc |-> a.acc, append |-> a.append, eof |-> FALSE]
  <2>1. \/ \E ret \in {"EACCES", "ERR"} : Returns(sv, a, ret)
        \/ /\ CanOpen(sv, a.path, a.acc) /\ UNCHANGED lock
           /\ \E fd \in FreeFds(sv) : Opened(sv, fd, d) /\ Answers(sv, a, "OK", fd)
    BY <1>3 DEF bb_open, LowestOf
  <2>2. CASE CanOpen(sv, a.path, a.acc)
    <3>1. p # None /\ p \in AnyPath /\ Exists(sv, p)
      BY <2>2, LeadsToFollowed DEF CanOpen
    <3> HIDE DEF p
    <3>2. d \in Desc /\ d.ino = ent[sv][p]
      BY <1>3, <3>1, BackedFiles DEF Desc, open_arg
    <3> HIDE DEF d
    <3>3. QED
      BY <1>1, <1>2, <2>1, <3>1, <3>2 DEF p
  <2>3. QED
    BY <1>1, <2>1, <2>2
<1>4. CASE bb_opendir(sv, a) /\ a \in opendir_arg
  <2> DEFINE p == LeadsTo(sv, a.path)
  <2>1. \/ \E ret \in {"EACCES", "ERR"} : Returns(sv, a, ret)
        \/ /\ LeadsToDir(sv, a.path) /\ UNCHANGED lock
           /\ \E fd \in FreeFds(sv) :
                Opened(sv, fd, DirDesc(ent[sv][p])) /\ Answers(sv, a, "OK", fd)
    BY <1>4 DEF bb_opendir, LowestOf
  <2>2. CASE LeadsToDir(sv, a.path)
    <3>1. p # None /\ p \in AnyPath /\ Exists(sv, p)
      BY <2>2, LeadsToFollowed DEF LeadsToDir
    <3> HIDE DEF p
    <3>2. DirDesc(ent[sv][p]) \in Desc /\ DirDesc(ent[sv][p]).ino = ent[sv][p]
      BY <3>1, BackedFiles, DirDescType DEF DirDesc
    <3>3. QED
      BY <1>1, <1>2, <2>1, <3>1, <3>2 DEF p
  <2>3. QED
    BY <1>1, <2>1, <2>2
<1>5. QED
  BY <1>3, <1>4

LEMMA RequestKeeps ==
  ASSUME ServerInv, NEW sv \in Servers, NEW a \in Requests, compute_6(sv, a),
         a.op \notin {"release", "releasedir"}
  PROVE  Keeps
<1>1. CASE a.op \in {"mkdir", "mknod", "rmdir", "unlink"}
  <2>1. DirectoryNotLocked(sv, a) \/ \E fd \in Fds : LocksDirectory(sv, a, fd)
    BY <1>1 DEF compute_6, bb_mkdir, bb_mknod, bb_rmdir, bb_unlink
  <2>2. QED
    BY <2>1, DirectoryOpKeeps
<1>2. CASE a.op \in {"rename", "readdir", "write", "open", "opendir"}
  BY <1>2, RequestKinds, RenameKeeps, ReaddirKeeps, WriteKeeps, OpenAnswers DEF compute_6
<1>3. CASE a.op \in {"init_rootdir", "getattr", "access", "statfs", "readlink", "symlink",
                     "link", "utime", "chmod", "truncate", "read"}
  <2>1. UNCHANGED fdt
    BY <1>3 DEF compute_6, init_rootdir, bb_getattr, bb_access, bb_statfs, bb_readlink, bb_symlink,
       bb_link, bb_utime, bb_chmod, SetsMode, bb_truncate, bb_read, NotPermitted, FlockHangs, Returns
  <2>2. QED
    BY <2>1, SameKeeps
<1>4. QED
  BY <1>1, <1>2, <1>3 DEF compute_6

\* A release closes the descriptor it names and no other, or does nothing.
LEMMA ReleaseKeeps ==
  ASSUME ServerInv, NEW sv \in Servers, NEW a \in Requests, compute_6(sv, a),
         a.op \in {"release", "releasedir"}
  PROVE  /\ UNCHANGED ent
         /\ \A s \in Servers, fd \in Fds : s # sv \/ fd # a.fd => Kept(s, fd)
         /\ UNCHANGED <<fdt, lock>> \/ Close(sv, a.fd)
<1>1. UNCHANGED <<ent, fdt, lock>> \/ Close(sv, a.fd)
  BY DEF compute_6, bb_release, bb_releasedir, Returns
<1>2. QED
  BY <1>1 DEF Close, Kept, ServerInv, ServerTypeOK

-----------------------------------------------------------------------------
(***************************************************************************)
(* Locks.  Only three kinds of request touch a lock: a rename that fails   *)
(* or hangs takes one, a read, write or readdir gives back what its own    *)
(* descriptor holds, and so does a release.                                *)
(***************************************************************************)
TakesLock(sv) ==
  \E fd \in Fds, i \in Inodes :
    /\ fdt[sv][fd] = None /\ lock[sv][i] = None
    /\ SetLock(sv, i, fd) /\ fdt'[sv][fd] = DirDesc(i)

LEMMA RenameLocks ==
  ASSUME ServerInv, NEW sv \in Servers, NEW a \in rename_arg, bb_rename(sv, a)
  PROVE  \/ UNCHANGED lock
         \/ /\ TakesLock(sv)
            /\ \/ reply'[sv].op = "rename" /\ reply'[sv].ret = "ERR"
               \/ hung'[sv]
<1>1. CASE \E fd \in Fds : /\ dlock(sv, get_parent_path(a.path), fd)
                           /\ RenameSecondParent(sv, a, fd)
  <2>1. PICK fd \in Fds : /\ dlock(sv, get_parent_path(a.path), fd)
                          /\ RenameSecondParent(sv, a, fd)
    BY <1>1
  <2> DEFINE i == ent[sv][get_parent_path(a.path)]
             j == ent[sv][get_parent_path(a.newpath)]
  <2>2. i \in Inodes /\ fdt[sv][fd] = None /\ lock[sv][i] = None
    BY <2>1, BackedFiles, ParentType DEF dlock, LowestOf, FreeFds, rename_arg
  <2>3. CASE Opened(sv, fd, DirDesc(i)) /\ SetLock(sv, i, fd) /\ Answers(sv, a, "ERR", None)
    <3>1. fdt'[sv][fd] = DirDesc(i)
      BY <2>3 DEF Opened, ServerInv, ServerTypeOK
    <3>2. reply'[sv].op = "rename" /\ reply'[sv].ret = "ERR"
      BY <2>3 DEF Answers, ServerInv, ServerTypeOK, rename_arg
    <3>3. QED
      BY <2>2, <2>3, <3>1, <3>2 DEF TakesLock
  <2>4. ASSUME NEW d \in Fds \ {fd}, SetLock(sv, i, fd), Hangs(sv),
               fdt' = [fdt EXCEPT ![sv] = [@ EXCEPT ![fd] = DirDesc(i), ![d] = DirDesc(j)]]
        PROVE  TakesLock(sv) /\ hung'[sv]
    <3>1. fdt'[sv][fd] = DirDesc(i) /\ hung'[sv]
      BY <2>4 DEF Hangs, ServerInv, ServerTypeOK
    <3>2. QED
      BY <2>2, <2>4, <3>1 DEF TakesLock
  <2>5. QED
    BY <2>1, <2>3, <2>4 DEF RenameSecondParent, RenameEffect, LowestOf, FreeFds
<1>2. CASE ~\E fd \in Fds : /\ dlock(sv, get_parent_path(a.path), fd)
                            /\ RenameSecondParent(sv, a, fd)
  BY <1>2 DEF bb_rename, Returns, LockFails, LockHangs, RenameEffect
<1>3. QED
  BY <1>1, <1>2

LEMMA DescriptorLocks ==
  ASSUME NEW sv \in Servers, NEW a, a.op \in {"read", "readdir", "write"}, compute_6(sv, a)
  PROVE  \/ UNCHANGED lock
         \/ /\ a.op = "write" => ~Secondary(a.server_info)
            /\ LocksAndUnlocks(sv, a.fd)
BY DEF compute_6, bb_read, bb_readdir, bb_write, WriteDirect, WriteSecondary, FlockHangs, Returns

LEMMA OtherLocks ==
  ASSUME NEW sv \in Servers, NEW a, compute_6(sv, a),
         a.op \notin {"rename", "read", "readdir", "write", "release", "releasedir"}
  PROVE  UNCHANGED lock
BY DEF compute_6, init_rootdir, bb_getattr, bb_access, bb_mkdir, bb_rmdir, bb_opendir, bb_symlink,
       bb_link, bb_readlink, bb_mknod, bb_truncate, bb_unlink, bb_utime, bb_chmod, bb_open,
       bb_statfs, SetsMode, DirectoryNotLocked, NotPermitted, LockFails, LockHangs, Returns

\* A step that takes a lock is a rename that fails or hangs; every other step
\* at most gives one back.
LockStep(sv) ==
  \/ \A s \in Servers, i \in Inodes : lock'[s][i] \in {lock[s][i], None}
  \/ /\ TakesLock(sv) /\ ~hung[sv]
     /\ \/ reply'[sv].op = "rename" /\ reply'[sv].ret = "ERR"
        \/ hung'[sv]

LEMMA RequestLocks ==
  ASSUME ServerInv, NEW sv \in Servers, NEW a \in Requests, compute_6(sv, a)
  PROVE  LockStep(sv)
<1>1. CASE UNCHANGED lock
  BY <1>1 DEF LockStep
<1>2. CASE a.op = "rename"
  BY <1>1, <1>2, RequestKinds, RenameLocks DEF compute_6, LockStep
<1>3. CASE a.op \in {"read", "readdir", "write"} /\ LocksAndUnlocks(sv, a.fd)
  <2>1. CASE IsOpen(sv, a.fd)
    <3>1. SetLock(sv, fdt[sv][a.fd].ino, None)
      BY <1>3, <2>1 DEF LocksAndUnlocks
    <3> DEFINE i == fdt[sv][a.fd].ino
    <3>2. \A s \in Servers, j \in Inodes :
            lock'[s][j] = IF s = sv /\ j = i THEN None ELSE lock[s][j]
      BY <3>1 DEF SetLock, ServerInv, ServerTypeOK
    <3>3. QED
      BY <3>2 DEF LockStep
  <2>2. QED
    BY <1>1, <1>3, <2>1 DEF LocksAndUnlocks
<1>4. CASE a.op \in {"release", "releasedir"} /\ Close(sv, a.fd)
  BY <1>4 DEF Close, LockStep, ServerInv, ServerTypeOK
<1>5. QED
  BY <1>1, <1>2, <1>3, <1>4, DescriptorLocks, OtherLocks, ReleaseKeeps
-----------------------------------------------------------------------------
(* A request changes nothing at the other servers. *)

EntHere(sv) == \A s \in Servers \ {sv} : ent'[s] = ent[s]
NodeHere(sv) == \A s \in Servers \ {sv} : node'[s] = node[s]
FdtHere(sv) == \A s \in Servers \ {sv} : fdt'[s] = fdt[s]
HungHere(sv) == \A s \in Servers \ {sv} : hung'[s] = hung[s]
ReplyHere(sv) == \A s \in Servers \ {sv} : reply'[s] = reply[s]
OnlyHere(sv) == EntHere(sv) /\ NodeHere(sv) /\ FdtHere(sv) /\ HungHere(sv) /\ ReplyHere(sv)

\* The changes handlers are made of.
LEMMA ChangesHere ==
  ASSUME ServerTypeOK, NEW sv \in Servers
  PROVE  /\ UNCHANGED ent => EntHere(sv)
         /\ UNCHANGED node => NodeHere(sv)
         /\ UNCHANGED fdt => FdtHere(sv)
         /\ UNCHANGED hung => HungHere(sv)
         /\ \A fd, d : Opened(sv, fd, d) => FdtHere(sv)
         /\ \A i, n : SetNode(sv, i, n) => NodeHere(sv)
         /\ ReapNodes(sv) => NodeHere(sv)
         /\ \A p, n : Create(sv, p, n) => EntHere(sv) /\ NodeHere(sv)
         /\ \A a, ret, val : Answers(sv, a, ret, val) => ReplyHere(sv)
<1>1. /\ \A f : ent' = [ent EXCEPT ![sv] = f] => EntHere(sv)
      /\ \A f : node' = [node EXCEPT ![sv] = f] => NodeHere(sv)
      /\ \A f : fdt' = [fdt EXCEPT ![sv] = f] => FdtHere(sv)
      /\ \A f : reply' = [reply EXCEPT ![sv] = f] => ReplyHere(sv)
  BY DEF ServerTypeOK, EntHere, NodeHere, FdtHere, ReplyHere
<1>2. QED
  BY <1>1 DEF EntHere, NodeHere, FdtHere, HungHere, Opened, SetNode, ReapNodes, Create, Answers

LEMMA ReturnsHere ==
  ASSUME ServerTypeOK, NEW sv \in Servers, NEW a, NEW ret, Returns(sv, a, ret)
  PROVE  OnlyHere(sv)
BY ChangesHere DEF Returns, OnlyHere

LEMMA HangsHere ==
  ASSUME ServerTypeOK, NEW sv \in Servers, Hangs(sv), FdtHere(sv)
  PROVE  OnlyHere(sv)
<1>1. HungHere(sv) /\ ReplyHere(sv)
  BY DEF Hangs, HungHere, ReplyHere, ServerTypeOK
<1>2. QED
  BY <1>1, ChangesHere DEF Hangs, OnlyHere

LEMMA CloseHere ==
  ASSUME ServerTypeOK, NEW sv \in Servers, NEW fd, Close(sv, fd)
  PROVE  EntHere(sv) /\ NodeHere(sv) /\ FdtHere(sv)
BY ChangesHere DEF Close, FdtHere, ServerTypeOK

LEMMA NotLockedHere ==
  ASSUME ServerTypeOK, NEW sv \in Servers, NEW a, DirectoryNotLocked(sv, a)
  PROVE  OnlyHere(sv)
<1>1. CASE \E ret : Returns(sv, a, ret)
  BY <1>1, ReturnsHere
<1>2. CASE LockHangs(sv, a)
  BY <1>2, ChangesHere, HangsHere DEF LockHangs
<1>3. QED
  BY <1>1, <1>2 DEF DirectoryNotLocked, NotPermitted, LockFails

\* The handlers that lock one directory.
LEMMA DirectoryOpHere ==
  ASSUME ServerTypeOK, NEW sv \in Servers, NEW a,
         bb_mkdir(sv, a) \/ bb_mknod(sv, a) \/ bb_rmdir(sv, a) \/ bb_unlink(sv, a)
  PROVE  OnlyHere(sv)
<1>1. CASE ~DirectoryNotLocked(sv, a)
  <2>1. FdtHere(sv) /\ HungHere(sv) /\ ReplyHere(sv)
    BY <1>1, ChangesHere DEF bb_mkdir, bb_mknod, bb_rmdir, bb_unlink, LocksDirectory, Removes
  <2>2. CASE UNCHANGED <<ent, node>> \/ \E n : Create(sv, a.path, n)
    BY <2>1, <2>2, ChangesHere DEF OnlyHere
  <2>3. CASE Removes(sv, a)
    BY <2>1, <2>3, ChangesHere DEF Removes, OnlyHere, EntHere, ServerTypeOK
  <2>4. QED
    BY <1>1, <2>2, <2>3 DEF bb_mkdir, bb_mknod, bb_rmdir, bb_unlink
<1>2. QED
  BY <1>1, NotLockedHere

LEMMA RenameHere ==
  ASSUME ServerTypeOK, NEW sv \in Servers, NEW a, bb_rename(sv, a)
  PROVE  OnlyHere(sv)
<1>1. ASSUME RenameEffect(sv, a), FdtHere(sv)
      PROVE  OnlyHere(sv)
  <2>1. HungHere(sv) /\ ReplyHere(sv)
    BY <1>1, ChangesHere DEF RenameEffect
  <2>2. EntHere(sv) /\ NodeHere(sv)
    BY <1>1, ChangesHere DEF RenameEffect, EntHere, ServerTypeOK
  <2>3. QED
    BY <1>1, <2>1, <2>2 DEF OnlyHere
<1>2. ASSUME NEW fd \in Fds, RenameSecondParent(sv, a, fd)
      PROVE  OnlyHere(sv)
  <2>1. FdtHere(sv)
    BY <1>2, ChangesHere DEF RenameSecondParent, FdtHere, ServerTypeOK
  <2>2. CASE Answers(sv, a, "ERR", None) /\ UNCHANGED <<ent, node, hung>>
    BY <2>1, <2>2, ChangesHere DEF OnlyHere
  <2>3. QED
    BY <1>1, <1>2, <2>1, <2>2, HangsHere DEF RenameSecondParent
<1>3. QED
  BY <1>1, <1>2, NotLockedHere, ReturnsHere, ChangesHere
     DEF bb_rename, DirectoryNotLocked, LocksDirectory

LEMMA DescriptorOpHere ==
  ASSUME ServerTypeOK, NEW sv \in Servers, NEW a,
         \/ bb_open(sv, a) \/ bb_opendir(sv, a) \/ bb_release(sv, a) \/ bb_releasedir(sv, a)
         \/ bb_read(sv, a) \/ bb_readdir(sv, a) \/ bb_write(sv, a)
  PROVE  OnlyHere(sv)
<1>1. CASE \E ret : Returns(sv, a, ret)
  BY <1>1, ReturnsHere
<1>2. CASE FlockHangs(sv, a.fd)
  BY <1>2, HangsHere, ChangesHere DEF FlockHangs
<1>3. CASE bb_open(sv, a) \/ bb_opendir(sv, a)
  BY <1>1, <1>3, ChangesHere DEF bb_open, bb_opendir, OnlyHere
<1>4. CASE bb_release(sv, a) \/ bb_releasedir(sv, a)
  BY <1>1, <1>4, CloseHere, ChangesHere DEF bb_release, bb_releasedir, OnlyHere
<1>5. CASE bb_read(sv, a) \/ bb_readdir(sv, a)
  BY <1>2, <1>5, ChangesHere DEF bb_read, bb_readdir, OnlyHere
<1>6. CASE bb_write(sv, a)
  BY <1>1, <1>2, <1>6, ChangesHere DEF bb_write, WriteDirect, WriteSecondary, OnlyHere
<1>7. QED
  BY <1>3, <1>4, <1>5, <1>6

LEMMA RequestHere ==
  ASSUME ServerTypeOK, NEW sv \in Servers, NEW a, compute_6(sv, a)
  PROVE  OnlyHere(sv)
<1>1. CASE \E ret : Returns(sv, a, ret)
  BY <1>1, ReturnsHere
<1>2. CASE init_rootdir(sv, a) \/ bb_getattr(sv, a) \/ bb_chmod(sv, a) \/ bb_truncate(sv, a)
  BY <1>1, <1>2, ChangesHere
     DEF init_rootdir, bb_getattr, bb_chmod, SetsMode, bb_truncate, OnlyHere
<1>3. CASE bb_access(sv, a) \/ bb_statfs(sv, a) \/ bb_readlink(sv, a) \/ bb_utime(sv, a)
  BY <1>1, <1>3 DEF bb_access, bb_statfs, bb_readlink, bb_utime
<1>4. CASE bb_symlink(sv, a)
  BY <1>1, <1>4, ChangesHere DEF bb_symlink, NotPermitted, OnlyHere
<1>5. CASE bb_link(sv, a)
  BY <1>1, <1>5, ChangesHere DEF bb_link, OnlyHere, EntHere, ServerTypeOK
<1>6. QED
  BY <1>2, <1>3, <1>4, <1>5, DirectoryOpHere, RenameHere, DescriptorOpHere DEF compute_6

-----------------------------------------------------------------------------
(* Paths as names above and below one another, which rename moves about. *)

Name == Seq(STRING)

\* A path that requests may name.
LEMMA PathNames ==
  /\ \A p \in Paths : p \in Name /\ p # Root /\ p \in AnyPath
  /\ Root \in Name /\ Root \in AnyPath
  /\ AnyPath \subseteq Name
<1>1. \A p \in Paths : p \in Seq(STRING) /\ p # Root /\ p \in AnyPath
  BY PathsAssumption DEF AnyPath
<1>2. Root \in Seq(STRING)
  BY EmptySeq DEF Root
<1>3. QED
  BY <1>1, <1>2, Zenon DEF Name, AnyPath

\* A name above another one, component by component.
LEMMA AboveByComponents ==
  ASSUME NEW a \in Name, NEW b \in Name
  PROVE  IsPrefix(a, b) <=> Len(a) <= Len(b) /\ \A k \in 1 .. Len(a) : a[k] = b[k]
<1>1. Len(a) \in Nat /\ Len(b) \in Nat /\ SubSeq(a, 1, Len(a)) = a
  BY SubSeqFull DEF Name
<1>2. CASE Len(a) <= Len(b)
  <2>1. \A k \in 1 .. Len(a) : b[k] \in STRING
    BY <1>1, <1>2 DEF Name
  <2>2. /\ SubSeq(b, 1, Len(a)) \in Seq(STRING)
        /\ Len(SubSeq(b, 1, Len(a))) = IF 1 <= Len(a) THEN Len(a) - 1 + 1 ELSE 0
        /\ \A k \in 1 .. Len(a) - 1 + 1 : SubSeq(b, 1, Len(a))[k] = b[1 + k - 1]
    BY <1>1, <2>1, SubSeqProperties
  <2>3. /\ Len(SubSeq(b, 1, Len(a))) = Len(a)
        /\ \A k \in 1 .. Len(a) : SubSeq(b, 1, Len(a))[k] = b[k]
    BY <1>1, <2>2
  <2>4. (\A k \in 1 .. Len(a) : a[k] = b[k]) => a = SubSeq(b, 1, Len(a))
    BY <2>2, <2>3, SeqEqual DEF Name
  <2>5. QED
    BY <1>1, <1>2, <2>3, <2>4 DEF IsPrefix
<1>3. QED
  BY <1>2 DEF IsPrefix

\* A name below another one.
Joined(s, x) == s \o x

LEMMA JoinedBelow ==
  ASSUME NEW n \in Name, NEW x \in Name
  PROVE  Joined(n, x) \in Name /\ IsPrefix(n, Joined(n, x))
<1> DEFINE q == Joined(n, x)
<1>1. /\ q \in Name /\ Len(q) = Len(n) + Len(x) /\ Len(n) \in Nat /\ Len(x) \in Nat
      /\ \A k \in 1 .. Len(n) + Len(x) : q[k] = IF k <= Len(n) THEN n[k] ELSE x[k - Len(n)]
  BY ConcatProperties DEF Name, Joined
<1> HIDE DEF q
<1>2. Len(n) <= Len(q) /\ \A k \in 1 .. Len(n) : n[k] = q[k]
  BY <1>1
<1>3. IsPrefix(n, q)
  BY <1>1, <1>2, AboveByComponents
<1>4. QED
  BY <1>1, <1>3 DEF q

\* A path is the name of any path above it, and the rest.
LEMMA PrefixSplits ==
  ASSUME NEW n \in Seq(STRING), NEW q \in Seq(STRING), IsPrefix(n, q)
  PROVE  /\ SubSeq(q, Len(n) + 1, Len(q)) \in Seq(STRING)
         /\ q = n \o SubSeq(q, Len(n) + 1, Len(q))
<1>1. /\ Len(n) \in Nat /\ Len(q) \in Nat /\ Len(n) <= Len(q)
      /\ SubSeq(n, 1, Len(n)) = SubSeq(q, 1, Len(n))
  BY DEF IsPrefix
<1>2. SubSeq(n, 1, Len(n)) = n /\ SubSeq(q, 1, Len(q)) = q
  BY SubSeqFull
<1>3. SubSeq(q, Len(n) + 1, Len(q)) \in Seq(STRING)
  <2>1. \A k \in Len(n) + 1 .. Len(q) : q[k] \in STRING
    BY <1>1
  <2>2. Len(n) + 1 \in Int /\ Len(q) \in Int
    BY <1>1
  <2>3. QED
    BY <2>1, <2>2, SubSeqProperties
<1>4. SubSeq(q, 1, Len(n)) \o SubSeq(q, Len(n) + 1, Len(q)) = SubSeq(q, 1, Len(q))
  <2>1. 1 \in 1 .. Len(q) + 1 /\ Len(n) \in 1 - 1 .. Len(q) /\ Len(q) \in Len(n) .. Len(q)
    BY <1>1
  <2>2. QED
    BY <2>1, ConcatAdjacentSubSeq
<1>5. QED
  BY <1>1, <1>2, <1>3, <1>4

LEMMA BelowJoined ==
  ASSUME NEW n \in Name, NEW q \in Name, IsPrefix(n, q)
  PROVE  \E x \in Name : q = Joined(n, x)
BY PrefixSplits DEF Name, Joined

LEMMA RebasedJoined ==
  ASSUME NEW n \in Name, NEW p \in Name, NEW x \in Name
  PROVE  Rebased(Joined(n, x), n, p) = Joined(p, x)
<1> DEFINE q == Joined(n, x)
           y == SubSeq(q, Len(n) + 1, Len(q))
<1>1. q \in Name /\ IsPrefix(n, q)
  BY JoinedBelow
<1>2. y \in Name /\ q = n \o y
  BY <1>1, PrefixSplits DEF Name
<1>3. Rebased(q, n, p) = Joined(p, y)
  BY Zenon DEF Rebased, y, Joined
<1> HIDE DEF y
<1>4. n \o x = n \o y
  BY <1>2, Zenon DEF q, Joined
<1>5. x = y
  BY <1>2, <1>4, ConcatSimplifications DEF Name
<1>6. QED
  BY <1>3, <1>5

\* Moving is undone by moving back.
LEMMA RebasedBack ==
  ASSUME NEW n \in Name, NEW p \in Name, NEW q \in Name, IsPrefix(n, q)
  PROVE  /\ Rebased(q, n, p) \in Name /\ IsPrefix(p, Rebased(q, n, p))
         /\ Rebased(Rebased(q, n, p), p, n) = q
<1>1. PICK x \in Name : q = Joined(n, x)
  BY BelowJoined
<1>2. Rebased(q, n, p) = Joined(p, x) /\ Rebased(Joined(p, x), p, n) = Joined(n, x)
  BY <1>1, RebasedJoined
<1>3. QED
  BY <1>1, <1>2, JoinedBelow
=============================================================================
