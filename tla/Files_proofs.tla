---------------------------- MODULE Files_proofs ----------------------------
(***************************************************************************)
(* What the requests do to the tree of a server, for any servers, clients, *)
(* paths, inodes and descriptors: a request that fails leaves no trace, a  *)
(* write lands in the file it was meant for, only known descriptors leak,  *)
(* and a request never blocks on a directory it locked itself.             *)
(***************************************************************************)
EXTENDS ServerSystem_proofs

-----------------------------------------------------------------------------
(* A request that fails leaves no trace. *)

\* What a request may do to the tree without being answered "OK".
NoTrace(sv) ==
  \/ UNCHANGED <<ent, node>>
  \/ reply'[sv].ret = "OK"
  \/ NamesLinkAgain(sv, reply'[sv].arg)

LEMMA AnswersReply ==
  ASSUME ServerTypeOK, NEW sv \in Servers, NEW a, NEW ret, NEW val, Answers(sv, a, ret, val)
  PROVE  /\ reply'[sv].arg = a /\ reply'[sv].op = a.op
         /\ reply'[sv].ip = a.ip /\ reply'[sv].ret = ret
BY DEF ServerTypeOK, Answers

\* The one that is not answered "OK" and leaves a trace is link on a symbolic
\* link: the new name leads to nothing, and the link has kept its owner.
LEMMA LinkTrace ==
  ASSUME ServerInv, NEW sv \in Servers, NEW a \in link_arg, bb_link(sv, a)
  PROVE  NoTrace(sv)
<1> DEFINE to == Followed(ent'[sv], node[sv], a.newpath)
<1>1. CASE UNCHANGED <<ent, node>>
  BY <1>1 DEF NoTrace
<1>2. CASE to # None /\ Answers(sv, a, "OK", None)
  BY <1>2, AnswersReply DEF NoTrace, ServerInv
<1>3. CASE /\ CanLink(sv, a.path, a.newpath)
           /\ ent' = [ent EXCEPT ![sv] = [@ EXCEPT ![a.newpath] = ent[sv][a.path]]]
           /\ to = None /\ Answers(sv, a, "ERR", None) /\ UNCHANGED node
  <2>1. /\ a.op = "link" /\ a.path \in AnyPath /\ a.newpath \in AnyPath
        /\ Exists(sv, a.path) /\ ~Exists(sv, a.newpath)
    BY <1>3 DEF link_arg, AnyPath, CanLink
  <2>2. ent'[sv] = [ent[sv] EXCEPT ![a.newpath] = ent[sv][a.path]] /\ DOMAIN ent[sv] = AnyPath
    BY <1>3 DEF ServerInv, ServerTypeOK
  <2>3. ent'[sv][a.newpath] = ent[sv][a.path] /\ ent[sv][a.path] # None
    BY <2>1, <2>2 DEF Exists
  <2>4. to = None
    BY <1>3
  <2> HIDE DEF to
  <2>5. IsKind(sv, a.path, "lnk")
    <3>1. SUFFICES ASSUME ~IsKind(sv, a.path, "lnk")
                   PROVE  FALSE
      OBVIOUS
    <3>2. node[sv][ent'[sv][a.newpath]].kind # "lnk"
      BY <2>1, <2>3, <3>1 DEF IsKind, File, Exists
    <3>3. to = a.newpath
      BY <2>1, <2>3, <3>2, NotFollowed DEF to
    <3>4. QED
      BY <2>1, <2>4, <3>3, PathsAssumption
  <2>6. NamedFiles(sv)' = [NamedFiles(sv) EXCEPT ![a.newpath] = File(sv, a.path)]
    <3>1. ASSUME NEW p \in AnyPath
          PROVE  (IF Exists(sv, p) THEN File(sv, p) ELSE None)'
                   = IF p = a.newpath THEN File(sv, a.path)
                     ELSE IF Exists(sv, p) THEN File(sv, p) ELSE None
      BY <1>3, <2>1, <2>2, <2>3 DEF Exists, File
    <3>2. NamedFiles(sv)' = [p \in AnyPath |-> (IF Exists(sv, p) THEN File(sv, p) ELSE None)']
      BY DEF NamedFiles
    <3>3. QED
      BY <2>1, <3>1, <3>2 DEF NamedFiles
  <2>7. reply'[sv].arg = a
    BY <1>3, AnswersReply DEF ServerInv
  <2>8. QED
    BY <2>1, <2>5, <2>6, <2>7 DEF NoTrace, NamesLinkAgain
<1>4. CASE \E ret \in {"EACCES", "ERR"} : Returns(sv, a, ret)
  BY <1>1, <1>4 DEF Returns
<1>5. CASE ~\E ret \in {"EACCES", "ERR"} : Returns(sv, a, ret)
  <2>1. /\ CanLink(sv, a.path, a.newpath) /\ LinkOwns(sv, a)
        /\ ent' = [ent EXCEPT ![sv] = [@ EXCEPT ![a.newpath] = ent[sv][a.path]]]
    BY <1>5, LinkCases
  <2>2. \/ to = None /\ Answers(sv, a, "ERR", None) /\ UNCHANGED node
        \/ to # None /\ Answers(sv, a, "OK", None)
    BY <2>1 DEF LinkOwns
  <2> HIDE DEF to
  <2>3. QED
    BY <1>2, <1>3, <2>1, <2>2
<1>6. QED
  BY <1>4, <1>5

LEMMA RequestTrace ==
  ASSUME ServerInv, NEW sv \in Servers, NEW a \in Requests, compute_6(sv, a)
  PROVE  NoTrace(sv)
<1>1. CASE UNCHANGED <<ent, node>>
  BY <1>1 DEF NoTrace
<1>2. CASE \E val : Answers(sv, a, "OK", val)
  <2>1. PICK val : Answers(sv, a, "OK", val)
    BY <1>2
  <2>2. reply'[sv].ret = "OK"
    BY <2>1, AnswersReply DEF ServerInv
  <2>3. QED
    BY <2>2 DEF NoTrace
<1>3. CASE a.op = "link"
  BY <1>3, RequestKinds, LinkTrace DEF compute_6
<1>4. CASE a.op \in {"mkdir", "mknod", "rmdir", "unlink", "rename"}
  BY <1>1, <1>2, <1>4 DEF compute_6, bb_mkdir, bb_mknod, bb_rmdir, bb_unlink, bb_rename, Removes,
     DirectoryNotLocked, NotPermitted, LockFails, LockHangs, RenameSecondParent, RenameEffect,
     Returns, Hangs
<1>5. CASE a.op \in {"init_rootdir", "symlink", "chmod", "truncate", "utime", "getattr", "access",
                     "statfs", "readlink"}
  BY <1>1, <1>2, <1>5 DEF compute_6, init_rootdir, bb_symlink, bb_chmod, SetsMode, bb_truncate, bb_utime,
     bb_getattr, bb_access, bb_statfs, bb_readlink, NotPermitted, Returns
<1>6. CASE a.op \in {"open", "opendir", "release", "releasedir", "read", "readdir", "write"}
  BY <1>1, <1>2, <1>6 DEF compute_6, bb_open, bb_opendir, bb_release, bb_releasedir, bb_read,
     bb_readdir, bb_write, WriteDirect, WriteSecondary, FlockHangs, Returns, Hangs
<1>7. QED
  BY <1>3, <1>4, <1>5, <1>6 DEF compute_6

\* The files a server shows depend on its names and its inodes only.
LEMMA SameNamedFiles ==
  ASSUME NEW s \in Servers, ent'[s] = ent[s], node'[s] = node[s]
  PROVE  NamedFiles(s)' = NamedFiles(s)
BY DEF NamedFiles, Exists, File

\* A request that is answered with an error left no trace in the tree; the one
\* exception is the new name that link on a symbolic link has made.
THEOREM FailuresLeaveNoTrace == Spec => FailedCallChangesNothing
<1> DEFINE A == \A sv \in Servers :
                  reply'[sv].ret # "OK" /\ restarts' = restarts =>
                    NamedFiles(sv)' = NamedFiles(sv) \/ NamesLinkAgain(sv, reply'[sv].arg)
<1>1. ASSUME IInv, [Next]_vars PROVE [A]_vars
  <2>1. CASE UNCHANGED vars
    BY <2>1
  <2>2. CASE Next
    <3>1. PICK sv \in Servers :
            \/ Reboots(sv)
            \/ \E a \in Requests : compute_6(sv, a) /\ UNCHANGED restarts
      BY <1>1, <2>2, StepIsRequest
    <3>2. CASE Reboots(sv)
      <4>1. restarts'[sv] # restarts[sv]
        BY <1>1, <3>2, RebootSteps DEF IInv, SystemTypes
      <4>2. QED
        BY <4>1
    <3>3. CASE \E a \in Requests : compute_6(sv, a)
      <4>1. NoTrace(sv) /\ OnlyHere(sv)
        BY <1>1, <3>3, RequestTrace, RequestHere DEF IInv, ServerInv
      <4>2. \A s \in Servers \ {sv} : NamedFiles(s)' = NamedFiles(s)
        BY <4>1, SameNamedFiles DEF OnlyHere, EntHere, NodeHere
      <4>3. UNCHANGED <<ent, node>> => NamedFiles(sv)' = NamedFiles(sv)
        BY SameNamedFiles
      <4>4. QED
        BY <4>1, <4>2, <4>3 DEF NoTrace
    <3>4. QED
      BY <3>1, <3>2, <3>3
  <2>3. QED
    BY <1>1, <2>1, <2>2
<1>2. QED
  BY <1>1, InitInv, NextInv, PTL DEF Spec, FailedCallChangesNothing

-----------------------------------------------------------------------------
(* What a file keeps for as long as it exists: its kind, and its contents     *)
(* unless it is truncated or written to.                                      *)

KindsStay ==
  \A s \in Servers, i \in Inodes :
    node[s][i] # None /\ node'[s][i] # None => node'[s][i].kind = node[s][i].kind

ContentsStayBut(sv, j) ==
  \A s \in Servers, i \in Inodes :
    node[s][i] # None /\ node'[s][i] # None /\ (s # sv \/ i # j) =>
      node'[s][i].data = node[s][i].data

ContentsStay ==
  \A s \in Servers, i \in Inodes :
    node[s][i] # None /\ node'[s][i] # None => node'[s][i].data = node[s][i].data

FilesStay == KindsStay /\ ContentsStay

LEMMA SameFiles == UNCHANGED node => FilesStay
BY DEF FilesStay, KindsStay, ContentsStay

\* Files are freed.
LEMMA ReapFiles ==
  ASSUME ServerTypeOK, NEW sv \in Servers, ReapNodes(sv)
  PROVE  FilesStay
<1>1. \A s \in Servers, i \in Inodes : node'[s][i] \in {node[s][i], None}
  BY DEF ReapNodes, Reaped, ServerTypeOK
<1>2. QED
  BY <1>1 DEF FilesStay, KindsStay, ContentsStay

\* A new file gets an inode that was free.
LEMMA CreateFiles ==
  ASSUME ServerTypeOK, NEW sv \in Servers, NEW p, NEW n, Create(sv, p, n)
  PROVE  FilesStay
<1>1. PICK i \in Inodes : node[sv][i] = None /\ SetNode(sv, i, n)
  BY DEF Create, LowestOf, FreeInodes
<1>2. \A s \in Servers, j \in Inodes : node'[s][j] = IF s = sv /\ j = i THEN n ELSE node[s][j]
  BY <1>1 DEF SetNode, ServerTypeOK
<1>3. QED
  BY <1>1, <1>2 DEF FilesStay, KindsStay, ContentsStay

\* One file is replaced by another one of the same kind.
LEMMA SetNodeFiles ==
  ASSUME ServerTypeOK, NEW sv \in Servers, NEW i \in Inodes, NEW n, SetNode(sv, i, n),
         n.kind = node[sv][i].kind
  PROVE  /\ KindsStay /\ ContentsStayBut(sv, i)
         /\ n.data = node[sv][i].data => ContentsStay
<1>1. \A s \in Servers, j \in Inodes : node'[s][j] = IF s = sv /\ j = i THEN n ELSE node[s][j]
  BY DEF SetNode, ServerTypeOK
<1>2. QED
  BY <1>1 DEF KindsStay, ContentsStay, ContentsStayBut

\* The parts of a file are changed one at a time.
LEMMA ChangedNode ==
  ASSUME NEW n \in Node, NEW v
  PROVE  /\ [n EXCEPT !.uid = v].kind = n.kind /\ [n EXCEPT !.uid = v].data = n.data
         /\ [n EXCEPT !.mode = v].kind = n.kind /\ [n EXCEPT !.mode = v].data = n.data
         /\ [n EXCEPT !.data = v].kind = n.kind
BY DEF Node

\* A new owner or new permissions leave kind and contents alone.
LEMMA SetAttributes ==
  ASSUME ServerInv, NEW sv \in Servers, NEW p \in AnyPath, Exists(sv, p), NEW v,
         \/ SetNode(sv, ent[sv][p], [File(sv, p) EXCEPT !.uid = v])
         \/ SetNode(sv, ent[sv][p], [File(sv, p) EXCEPT !.mode = v])
  PROVE  FilesStay
<1>1. PICK n : /\ SetNode(sv, ent[sv][p], n)
               /\ n.kind = File(sv, p).kind /\ n.data = File(sv, p).data
  BY BackedFiles, ChangedNode
<1>2. QED
  BY <1>1, BackedFiles, SetNodeFiles DEF File, FilesStay, ServerInv

\* The two requests that change contents, by a path or by a descriptor.
WritesPath(sv, a) ==
  /\ a.op = "truncate" \/ (a.op = "write" /\ Secondary(a.server_info))
  /\ LeadsTo(sv, a.path) # None /\ ContentsStayBut(sv, ent[sv][LeadsTo(sv, a.path)])

Writes(sv, a) ==
  /\ reply'[sv].arg = a
  /\ \/ WritesPath(sv, a)
     \/ /\ a.op = "write" /\ ~Secondary(a.server_info)
        /\ ContentsStayBut(sv, fdt[sv][a.fd].ino)

FilesStep(sv, a) == KindsStay /\ (ContentsStay \/ Writes(sv, a))

LEMMA AttributesFiles ==
  ASSUME ServerInv, NEW sv \in Servers, NEW a \in Requests, compute_6(sv, a),
         a.op \in {"init_rootdir", "chmod", "link", "truncate"}
  PROVE  FilesStep(sv, a)
<1>1. CASE UNCHANGED node
  BY <1>1, SameFiles DEF FilesStay, FilesStep
<1>2. CASE a.op = "init_rootdir" /\ ~UNCHANGED node
  <2>1. Root \in AnyPath
    BY DEF AnyPath
  <2>2. CASE Exists(sv, Root)
    <3>1. SetNode(sv, ent[sv][Root], [File(sv, Root) EXCEPT !.mode = FullMode])
      BY <1>2, <2>2 DEF compute_6, init_rootdir
    <3>2. QED
      BY <2>1, <2>2, <3>1, SetAttributes DEF FilesStay, FilesStep
  <2>3. CASE ~Exists(sv, Root)
    BY <1>2, <2>3, CreateFiles DEF compute_6, init_rootdir, FilesStay, FilesStep, ServerInv
  <2>4. QED
    BY <2>2, <2>3
<1>3. CASE a.op = "chmod" /\ ~UNCHANGED node
  <2> DEFINE p == LeadsTo(sv, a.path)
  <2>1. p # None /\ SetNode(sv, ent[sv][p], [File(sv, p) EXCEPT !.mode = a.mode])
    BY <1>3 DEF compute_6, bb_chmod, SetsMode, Returns
  <2>2. p \in AnyPath /\ Exists(sv, p)
    BY <2>1, LeadsToFollowed
  <2> HIDE DEF p
  <2>3. QED
    BY <2>1, <2>2, SetAttributes DEF FilesStay, FilesStep
<1>4. CASE a.op = "link" /\ ~UNCHANGED node
  <2> DEFINE to == Followed(ent'[sv], node[sv], a.newpath)
             i  == ent'[sv][to]
  <2>1. a \in link_arg /\ bb_link(sv, a)
    BY <1>4, RequestKinds DEF compute_6
  <2>2. /\ CanLink(sv, a.path, a.newpath) /\ LinkOwns(sv, a)
        /\ ent' = [ent EXCEPT ![sv] = [@ EXCEPT ![a.newpath] = ent[sv][a.path]]]
    BY <1>4, <2>1, LinkCases DEF Returns
  <2>3. to # None /\ SetNode(sv, i, [node[sv][i] EXCEPT !.uid = a.ip])
    BY <1>4, <2>2 DEF LinkOwns
  <2>4. to \in AnyPath /\ ent'[sv][to] # None
    BY <2>3, FollowedFile
  <2> HIDE DEF to
  <2>5. i \in {ent[sv][q] : q \in AnyPath} /\ i # None
    <3>1. a.path \in AnyPath /\ a.newpath \in AnyPath
      BY <2>1 DEF link_arg, AnyPath
    <3>2. ent'[sv] = [ent[sv] EXCEPT ![a.newpath] = ent[sv][a.path]]
      BY <2>2 DEF ServerInv, ServerTypeOK
    <3>3. DOMAIN ent[sv] = AnyPath
      BY DEF ServerInv, ServerTypeOK
    <3>4. i = ent[sv][a.path] \/ i = ent[sv][to]
      BY <2>4, <3>2, <3>3
    <3>5. QED
      BY <2>4, <3>1, <3>4
  <2>6. i \in Inodes /\ node[sv][i] \in Node
    BY <2>5 DEF ServerInv, ServerTypeOK, Backed
  <2> HIDE DEF i
  <2>7. PICK n : SetNode(sv, i, n) /\ n.kind = node[sv][i].kind /\ n.data = node[sv][i].data
    <3>1. PICK n : n = [node[sv][i] EXCEPT !.uid = a.ip]
      OBVIOUS
    <3>2. n.kind = node[sv][i].kind /\ n.data = node[sv][i].data
      BY <2>6, <3>1, ChangedNode
    <3>3. QED
      BY <2>3, <3>1, <3>2
  <2>8. QED
    BY <2>6, <2>7, SetNodeFiles DEF FilesStay, FilesStep, ServerInv
<1>5. CASE a.op = "truncate" /\ ~UNCHANGED node
  <2> DEFINE p == LeadsTo(sv, a.path)
  <2>1. /\ p # None /\ Answers(sv, a, "OK", None)
        /\ SetNode(sv, ent[sv][p], [File(sv, p) EXCEPT !.data = Resized(@, a.newsize)])
    BY <1>5 DEF compute_6, bb_truncate, LeadsToFile, Returns
  <2>2. p \in AnyPath /\ Exists(sv, p)
    BY <2>1, LeadsToFollowed
  <2> HIDE DEF p
  <2>3. reply'[sv].arg = a
    BY <2>1, AnswersReply DEF ServerInv
  <2>4. KindsStay /\ ContentsStayBut(sv, ent[sv][p])
    BY <2>1, <2>2, BackedFiles, ChangedNode, SetNodeFiles DEF File, ServerInv
  <2>5. QED
    BY <1>5, <2>1, <2>3, <2>4 DEF FilesStep, Writes, WritesPath, p
<1>6. QED
  BY <1>1, <1>2, <1>3, <1>4, <1>5

LEMMA WriteFiles ==
  ASSUME ServerInv, NEW sv \in Servers, NEW a \in write_arg, bb_write(sv, a)
  PROVE  FilesStep(sv, a)
<1>1. CASE UNCHANGED node
  BY <1>1, SameFiles DEF FilesStay, FilesStep
<1>2. a.op = "write" /\ a.path \in AnyPath /\ a.fd \in Fds
  BY DEF write_arg, AnyPath
<1>3. CASE ~UNCHANGED node /\ ~Secondary(a.server_info)
  <2> DEFINE n == [FileOf(sv, a.fd) EXCEPT
                     !.data = WrittenAt(@, fdt[sv][a.fd].append, a.offset, a.buffer)]
  <2>1. /\ IsOpen(sv, a.fd) /\ Answers(sv, a, "OK", None)
        /\ SetNode(sv, fdt[sv][a.fd].ino, n)
    BY <1>3 DEF bb_write, WriteDirect, FlockHangs, Hangs
  <2>2. fdt[sv][a.fd].ino \in Inodes /\ n.kind = node[sv][fdt[sv][a.fd].ino].kind
    BY <1>2, <2>1, BackedFiles, ChangedNode DEF FileOf
  <2> HIDE DEF n
  <2>3. KindsStay /\ ContentsStayBut(sv, fdt[sv][a.fd].ino)
    BY <2>1, <2>2, SetNodeFiles DEF ServerInv
  <2>4. reply'[sv].arg = a
    BY <2>1, AnswersReply DEF ServerInv
  <2>5. QED
    BY <1>2, <1>3, <2>3, <2>4 DEF FilesStep, Writes
<1>4. CASE ~UNCHANGED node /\ Secondary(a.server_info)
  <2> DEFINE p == LeadsTo(sv, a.path)
             n == [File(sv, p) EXCEPT !.data = WrittenAt(@, TRUE, a.offset, a.buffer)]
  <2>1. p # None /\ Answers(sv, a, "OK", None) /\ SetNode(sv, ent[sv][p], n)
    BY <1>4 DEF bb_write, WriteSecondary, CanOpen, Returns
  <2>2. p \in AnyPath /\ Exists(sv, p)
    BY <2>1, LeadsToFollowed
  <2> HIDE DEF p
  <2>6. ent[sv][p] \in Inodes /\ n.kind = node[sv][ent[sv][p]].kind
    BY <2>2, BackedFiles, ChangedNode DEF File
  <2> HIDE DEF n
  <2>3. KindsStay /\ ContentsStayBut(sv, ent[sv][p])
    BY <2>1, <2>6, SetNodeFiles DEF ServerInv
  <2>4. reply'[sv].arg = a
    BY <2>1, AnswersReply DEF ServerInv
  <2>5. QED
    BY <1>2, <1>4, <2>1, <2>3, <2>4 DEF FilesStep, Writes, WritesPath, p
<1>5. QED
  BY <1>1, <1>3, <1>4

LEMMA RequestFiles ==
  ASSUME ServerInv, NEW sv \in Servers, NEW a \in Requests, compute_6(sv, a)
  PROVE  FilesStep(sv, a)
<1>1. CASE UNCHANGED node
  BY <1>1, SameFiles DEF FilesStay, FilesStep
<1>2. CASE \E p, n : Create(sv, p, n)
  BY <1>2, CreateFiles DEF FilesStay, FilesStep, ServerInv
<1>3. CASE ReapNodes(sv)
  BY <1>3, ReapFiles DEF FilesStay, FilesStep, ServerInv
<1>4. CASE a.op \in {"mkdir", "mknod", "rmdir", "unlink", "rename"}
  BY <1>1, <1>2, <1>3, <1>4 DEF compute_6, bb_mkdir, bb_mknod, bb_rmdir, bb_unlink, bb_rename,
     Removes, DirectoryNotLocked, NotPermitted, LockFails, LockHangs, RenameSecondParent,
     RenameEffect, Returns, Hangs
<1>5. CASE a.op \in {"symlink", "utime", "getattr", "access", "statfs", "readlink"}
  BY <1>1, <1>2, <1>5 DEF compute_6, bb_symlink, bb_utime, bb_getattr, bb_access, bb_statfs,
     bb_readlink, NotPermitted, Returns
<1>6. CASE a.op \in {"open", "opendir", "release", "releasedir", "read", "readdir"}
  BY <1>1, <1>3, <1>6 DEF compute_6, bb_open, bb_opendir, bb_release, bb_releasedir, bb_read,
     bb_readdir, FlockHangs, Returns, Hangs, Close
<1>7. CASE a.op = "write"
  BY <1>7, RequestKinds, WriteFiles DEF compute_6
<1>8. QED
  BY <1>4, <1>5, <1>6, <1>7, AttributesFiles DEF compute_6

\* A server that is started again has freed files and changed none.
LEMMA RebootFiles ==
  ASSUME IInv, NEW sv \in Servers, Reboots(sv)
  PROVE  FilesStay
<1>1. CASE ReapNodes(sv)
  BY <1>1, ReapFiles DEF IInv, ServerInv
<1>2. ASSUME NEW p, NEW n, HalfMade(sv, p, n)
      PROVE  FilesStay
  <2>1. PICK i \in Inodes :
          /\ node[sv][i] = None
          /\ node' = [node EXCEPT ![sv] = Reaped([@ EXCEPT ![i] = n], ent'[sv], fdt'[sv])]
    BY <1>2 DEF HalfMade, LowestOf, FreeInodes
  <2>2. \A s \in Servers, j \in Inodes :
          s # sv \/ j # i => node'[s][j] \in {node[s][j], None}
    BY <2>1 DEF Reaped, IInv, ServerInv, ServerTypeOK
  <2>3. QED
    BY <2>1, <2>2 DEF FilesStay, KindsStay, ContentsStay
<1>3. QED
  BY <1>1, <1>2 DEF Reboots, Reboot, Restart, RebootHalfway, DiesHalfway

\* No step changes what kind of file an inode is.
LEMMA NextKinds ==
  ASSUME IInv, [Next]_vars
  PROVE  KindsStay
<1>1. CASE UNCHANGED vars
  BY <1>1, SameFiles DEF vars, FilesStay
<1>2. CASE Next
  <2>1. PICK sv \in Servers : \/ Reboots(sv)
                              \/ \E a \in Requests : compute_6(sv, a)
    BY <1>2, StepIsRequest
  <2>2. QED
    BY <2>1, RebootFiles, RequestFiles DEF IInv, FilesStay, FilesStep
<1>3. QED
  BY <1>1, <1>2

\* The contents of file i of server s are what they were.
Unwritten(s, i) ==
  node[s][i] # None /\ node'[s][i] # None => node'[s][i].data = node[s][i].data

\* A change of contents is the one the request asks for that is answered.
AskedFor(s, i) ==
  LET a == reply'[s].arg IN
  \/ a.op = "truncate" /\ Meant(s, a, i)
  \/ a.op = "write" /\ Secondary(a.server_info) /\ Meant(s, a, i)
  \/ /\ a.op = "write" /\ ~Secondary(a.server_info)
     /\ \E h \in handles[s] : h.fd = a.fd /\ h.ip = a.ip /\ h.ino = i /\ h.acc \in {"w", "rw"}

LEMMA CallMeant ==
  ASSUME IInv, NEW sv \in Servers, NEW a \in Calls, Call(sv, a) \/ Open(sv, a),
         NEW s \in Servers, NEW i \in Inodes
  PROVE  Unwritten(s, i) \/ AskedFor(s, i)
<1>1. a \in Requests /\ compute_6(sv, a) /\ (a.op = "write" => Secondary(a.server_info))
  BY CallsAssumption DEF Call, Open, ByPath
<1>2. FilesStep(sv, a) /\ OnlyHere(sv)
  BY <1>1, RequestFiles, RequestHere DEF IInv, ServerInv
<1>3. CASE s # sv
  BY <1>2, <1>3 DEF OnlyHere, NodeHere, Unwritten
<1>4. CASE s = sv
  BY <1>1, <1>2, <1>4
     DEF FilesStep, ContentsStay, Writes, WritesPath, ContentsStayBut, Unwritten, AskedFor, Meant
<1>5. QED
  BY <1>3, <1>4

LEMMA UseMeant ==
  ASSUME IInv, NEW sv \in Servers, NEW h \in handles[sv], UseHandle(sv, h),
         NEW s \in Servers, restarts[s] = 0, NEW i \in Inodes
  PROVE  Unwritten(s, i) \/ AskedFor(s, i)
<1>1. h \in Handle
  BY DEF IInv, SystemTypes
<1>2. ASSUME NEW a \in Requests, compute_6(sv, a),
             a.op = "write" => /\ ~Secondary(a.server_info) /\ a.fd = h.fd /\ a.ip = h.ip
                               /\ h.acc \in {"w", "rw"}
      PROVE  Unwritten(s, i) \/ AskedFor(s, i)
  <2>1. FilesStep(sv, a) /\ OnlyHere(sv)
    BY <1>2, RequestFiles, RequestHere DEF IInv, ServerInv
  <2>2. CASE s # sv
    BY <2>1, <2>2 DEF OnlyHere, NodeHere, Unwritten
  <2>3. CASE s = sv
    <3>1. fdt[sv][h.fd].ino = h.ino
      BY <2>3 DEF IInv, HandleIntegrity
    <3>2. QED
      BY <1>2, <2>1, <2>3, <3>1
         DEF FilesStep, ContentsStay, Writes, WritesPath, ContentsStayBut, Unwritten, AskedFor, Meant
  <2>4. QED
    BY <2>2, <2>3
<1>3. CASE Write(sv, h)
  <2>1. PICK offset \in 0 .. MaxLen, block \in Blocks :
          compute_6(sv, [op |-> "write", ip |-> h.ip, fd |-> h.fd, path |-> h.path,
                         offset |-> offset, buffer |-> block, server_info |-> Direct])
    BY <1>3 DEF Write
  <2> DEFINE a == [op |-> "write", ip |-> h.ip, fd |-> h.fd, path |-> h.path,
                   offset |-> offset, buffer |-> block, server_info |-> Direct]
  <2>2. /\ a \in Requests /\ ~Secondary(a.server_info) /\ a.fd = h.fd /\ a.ip = h.ip
        /\ h.acc \in {"w", "rw"}
    BY <1>1, <1>3, HandleRequests DEF Write, Secondary, Direct
  <2> HIDE DEF a
  <2>3. compute_6(sv, a)
    BY <2>1 DEF a
  <2>4. QED
    BY <1>2, <2>2, <2>3
<1>4. CASE Read(sv, h)
  <2>1. PICK offset \in 0 .. MaxLen :
          compute_6(sv, [op |-> "read", ip |-> h.ip, fd |-> h.fd, offset |-> offset])
    BY <1>4 DEF Read
  <2>2. QED
    BY <1>1, <1>2, <2>1, HandleRequests
<1>5. CASE Readdir(sv, h)
  BY <1>1, <1>2, <1>5, HandleRequests DEF Readdir
<1>6. CASE Release(sv, h)
  <2>1. PICK a \in Requests : /\ a.op \in {"release", "releasedir"} /\ a.fd = h.fd
                              /\ compute_6(sv, a)
    BY <1>1, <1>6, ReleaseRequest
  <2>2. QED
    BY <1>2, <2>1
<1>7. QED
  BY <1>3, <1>4, <1>5, <1>6 DEF UseHandle

\* Contents change only by the request that is answered: a truncate of the file,
\* the copy of a write to its path, or a write of a client through the number
\* under which it has opened that file for writing.
THEOREM WritesMeant == Spec => WritesLandWhereMeant
<1> DEFINE A == \A sv \in Servers, i \in Inodes :
       (/\ restarts[sv] = 0 /\ node[sv][i] # None /\ node'[sv][i] # None
        /\ node'[sv][i].data # node[sv][i].data) => AskedFor(sv, i)
<1>1. ASSUME IInv, [Next]_vars PROVE [A]_vars
  <2>1. CASE UNCHANGED vars
    BY <2>1
  <2>2. CASE Next
    <3>1. ASSUME NEW s \in Servers, restarts[s] = 0, NEW i \in Inodes
          PROVE  Unwritten(s, i) \/ AskedFor(s, i)
      <4>1. CASE \E sv \in Servers : Reboots(sv)
        BY <1>1, <4>1, RebootFiles DEF FilesStay, ContentsStay, Unwritten
      <4>2. QED
        BY <1>1, <2>2, <3>1, <4>1, CallMeant, UseMeant DEF Next, Reboots
    <3>2. QED
      BY <3>1 DEF Unwritten
  <2>3. QED
    BY <1>1, <2>1, <2>2
<1>2. QED
  BY <1>1, InitInv, NextInv, PTL DEF Spec, WritesLandWhereMeant, AskedFor

-----------------------------------------------------------------------------
(***************************************************************************)
(* Leaks.  A descriptor that a request opens is answered to the client, or *)
(* belongs to a directory, or is the one of a secondary's failed write.    *)
(***************************************************************************)
IsDir(s, i) == node[s][i] # None /\ node[s][i].kind = "dir"
Known(s, fd) == fdt[s][fd].acc = "w" /\ fdt[s][fd].append

NewDescriptor(sv, a, fd) ==
  \/ IsDir(sv, fdt'[sv][fd].ino)
  \/ Known(sv, fd)'
  \/ reply'[sv].ret = "OK" /\ reply'[sv].val = fd /\ a.op \in {"open", "opendir"}

NewDescriptors(sv, a) ==
  \A fd \in Fds : fdt[sv][fd] = None /\ fdt'[sv][fd] # None => NewDescriptor(sv, a, fd)

LEMMA SameDescriptors ==
  ASSUME NEW sv \in Servers, NEW a, UNCHANGED fdt
  PROVE  NewDescriptors(sv, a)
BY DEF NewDescriptors

\* One descriptor is opened.
LEMMA OneDescriptor ==
  ASSUME ServerTypeOK, NEW sv \in Servers, NEW a, NEW fd \in Fds, NEW d, Opened(sv, fd, d),
         \/ IsDir(sv, d.ino)
         \/ d.acc = "w" /\ d.append
         \/ fdt[sv][fd] # None
         \/ /\ reply'[sv].ret = "OK" /\ reply'[sv].val = fd
            /\ a.op \in {"open", "opendir"}
  PROVE  NewDescriptors(sv, a)
<1>1. \A f \in Fds : fdt'[sv][f] = IF f = fd THEN d ELSE fdt[sv][f]
  BY DEF Opened, ServerTypeOK
<1>2. QED
  BY <1>1 DEF NewDescriptors, NewDescriptor, Known

\* The descriptor of a directory.
LEMMA DirectoryDescriptor ==
  ASSUME ServerInv, NEW sv \in Servers, NEW a, NEW fd \in Fds,
         NEW p \in AnyPath, IsKind(sv, p, "dir"),
         Opened(sv, fd, DirDesc(ent[sv][p]))
  PROVE  NewDescriptors(sv, a)
<1>1. IsDir(sv, DirDesc(ent[sv][p]).ino)
  BY DEF IsKind, File, DirDesc, IsDir, Exists, ServerInv, Backed
<1>2. QED
  BY <1>1, OneDescriptor DEF ServerInv

LEMMA LockedDescriptor ==
  ASSUME ServerInv, NEW sv \in Servers, NEW a, a.path \in Paths,
         DirectoryNotLocked(sv, a) \/ \E fd \in Fds : LocksDirectory(sv, a, fd)
  PROVE  NewDescriptors(sv, a)
BY SameDescriptors, DirectoryDescriptor, ParentType
   DEF DirectoryNotLocked, NotPermitted, LockFails, LockHangs, LocksDirectory, Returns, dlock,
       DlockBlocks

LEMMA RenameDescriptors ==
  ASSUME ServerInv, NEW sv \in Servers, NEW a \in rename_arg, bb_rename(sv, a)
  PROVE  NewDescriptors(sv, a)
<1>1. ASSUME NEW fd \in Fds, dlock(sv, get_parent_path(a.path), fd),
             RenameSecondParent(sv, a, fd)
      PROVE  NewDescriptors(sv, a)
  <2> DEFINE first == ent[sv][get_parent_path(a.path)]
             second == ent[sv][get_parent_path(a.newpath)]
  <2>1. IsDir(sv, DirDesc(first).ino)
    BY <1>1, ParentType
       DEF rename_arg, dlock, IsKind, File, DirDesc, IsDir, Exists, ServerInv, Backed
  <2>2. CASE Opened(sv, fd, DirDesc(first))
    BY <1>1, <2>2, DirectoryDescriptor, ParentType DEF dlock, rename_arg
  <2>3. ASSUME NEW d \in Fds, IsKind(sv, get_parent_path(a.newpath), "dir"),
               fdt' = [fdt EXCEPT ![sv] =
                         [@ EXCEPT ![fd] = DirDesc(first), ![d] = DirDesc(second)]]
        PROVE  NewDescriptors(sv, a)
    <3>1. IsDir(sv, DirDesc(second).ino)
      BY <2>3, ParentType
         DEF rename_arg, IsKind, File, DirDesc, IsDir, Exists, ServerInv, Backed
    <3>2. \A f \in Fds : fdt'[sv][f] = IF f = d THEN DirDesc(second)
                                       ELSE IF f = fd THEN DirDesc(first) ELSE fdt[sv][f]
      BY <2>3 DEF ServerInv, ServerTypeOK
    <3>3. QED
      BY <2>1, <3>1, <3>2 DEF NewDescriptors, NewDescriptor
  <2>4. QED
    BY <1>1, <2>2, <2>3 DEF RenameSecondParent, LowestOf, FreeFds
<1>2. a.path \in Paths
  BY DEF rename_arg
<1>3. QED
  BY <1>1, <1>2, SameDescriptors, LockedDescriptor DEF bb_rename, DirectoryNotLocked, Returns

LEMMA OpenDescriptors ==
  ASSUME ServerTypeOK, NEW sv \in Servers, NEW a,
         \/ a.op = "open" /\ bb_open(sv, a)
         \/ a.op = "opendir" /\ bb_opendir(sv, a)
  PROVE  NewDescriptors(sv, a)
<1>1. CASE UNCHANGED fdt
  BY <1>1, SameDescriptors
<1>2. ASSUME NEW fd \in Fds, NEW d, Opened(sv, fd, d), Answers(sv, a, "OK", fd)
      PROVE  NewDescriptors(sv, a)
  <2>1. /\ reply'[sv].ret = "OK" /\ reply'[sv].val = fd
        /\ a.op \in {"open", "opendir"}
    BY <1>2 DEF Answers, ServerTypeOK
  <2>2. QED
    BY <1>2, <2>1, OneDescriptor
<1>3. QED
  BY <1>1, <1>2 DEF bb_open, bb_opendir, Returns, LowestOf, FreeFds

LEMMA RequestDescriptors ==
  ASSUME ServerInv, NEW sv \in Servers, NEW a \in Requests, compute_6(sv, a)
  PROVE  NewDescriptors(sv, a)
<1>1. CASE UNCHANGED fdt
  BY <1>1, SameDescriptors
<1>2. CASE a.op \in {"mkdir", "mknod", "rmdir", "unlink"}
  <2>1. a.path \in Paths
    BY <1>2, RequestKinds DEF mkdir_arg, mknod_arg, rmdir_arg, unlink_arg
  <2>2. QED
    BY <1>2, <2>1, LockedDescriptor DEF compute_6, bb_mkdir, bb_mknod, bb_rmdir, bb_unlink
<1>3. CASE a.op \in {"rename", "open", "opendir"}
  BY <1>3, RequestKinds, RenameDescriptors, OpenDescriptors DEF compute_6, ServerInv
<1>4. CASE a.op \in {"init_rootdir", "getattr", "access", "statfs", "readlink", "symlink",
                     "link", "utime", "chmod", "truncate", "read"}
  BY <1>1, <1>4 DEF compute_6, init_rootdir, bb_getattr, bb_access, bb_statfs, bb_readlink,
     bb_symlink, bb_link, bb_utime, bb_chmod, SetsMode, bb_truncate, bb_read, NotPermitted,
     FlockHangs, Returns
<1>5. CASE a.op \in {"release", "releasedir"} /\ Close(sv, a.fd)
  <2>1. \A f \in Fds : fdt'[sv][f] \in {fdt[sv][f], None}
    BY <1>5 DEF Close, ServerInv, ServerTypeOK
  <2>2. QED
    BY <2>1 DEF NewDescriptors
<1>6. CASE a.op = "readdir" /\ IsOpen(sv, a.fd) /\ \E d : Opened(sv, a.fd, d)
  <2>1. a.fd \in Fds
    BY <1>6, RequestKinds DEF readdir_arg
  <2>2. QED
    BY <1>6, <2>1, OneDescriptor DEF IsOpen, ServerInv
<1>7. CASE a.op = "write"
  <2>1. ASSUME NEW fd \in Fds, NEW i,
               Opened(sv, fd, [ino |-> i, acc |-> "w", append |-> TRUE, eof |-> FALSE])
        PROVE  NewDescriptors(sv, a)
    <3> DEFINE d == [ino |-> i, acc |-> "w", append |-> TRUE, eof |-> FALSE]
    <3>1. d.acc = "w" /\ d.append
      OBVIOUS
    <3> HIDE DEF d
    <3>2. QED
      BY <2>1, <3>1, OneDescriptor DEF d, ServerInv
  <2>2. QED
    BY <1>1, <1>7, <2>1 DEF compute_6, bb_write, WriteDirect, WriteSecondary, FlockHangs, Returns,
       LowestOf, FreeFds
<1>8. QED
  BY <1>1, <1>2, <1>3, <1>4, <1>5, <1>6, <1>7
     DEF compute_6, bb_release, bb_releasedir, bb_readdir, FlockHangs, IsOpenDir, Returns

\* What a client opened as a directory is one.
DirHandles ==
  \A s \in Servers : restarts[s] = 0 =>
    \A h \in handles[s] : h.acc = "dir" => node[s][h.ino].kind = "dir"

LeakInv == LeaksAreKnown /\ DirHandles

\* The clients of s have fd.
Held(s, fd) == \E h \in handles[s] : h.fd = fd

\* A descriptor nobody has is accounted for, at one server.
KnownLeaks(s) ==
  \A fd \in Fds : IsOpen(s, fd) => Held(s, fd) \/ FileOf(s, fd).kind = "dir" \/ Known(s, fd)

LEMMA LeaksByServer ==
  /\ LeaksAreKnown <=> \A s \in Servers : restarts[s] = 0 => KnownLeaks(s)
  /\ LeaksAreKnown' <=> \A s \in Servers : restarts'[s] = 0 => KnownLeaks(s)'
BY DEF LeaksAreKnown, KnownLeaks, Held, Known

\* A step that keeps the descriptors a server has in use, and opens others only
\* for a client or as the handlers do, leaks nothing else.
LEMMA KeptLeaks ==
  ASSUME ServerInv, ServerInv', KindsStay, NEW s \in Servers, KnownLeaks(s),
         \A fd \in Fds : fdt'[s][fd] # None =>
           \/ fdt[s][fd] # None /\ Kept(s, fd) /\ (Held(s, fd) => Held(s, fd)')
           \/ Held(s, fd)' \/ IsDir(s, fdt'[s][fd].ino) \/ Known(s, fd)'
  PROVE  KnownLeaks(s)'
<1> SUFFICES ASSUME NEW fd \in Fds, fdt'[s][fd] # None,
                    ~Held(s, fd)', ~Known(s, fd)'
             PROVE  node'[s][fdt'[s][fd].ino].kind = "dir"
  BY DEF KnownLeaks, IsOpen, FileOf
<1>1. fdt'[s][fd].ino \in Inodes /\ node'[s][fdt'[s][fd].ino] # None
  BY DEF ServerInv, ServerTypeOK, Desc, Backed
<1>2. CASE fdt[s][fd] # None /\ Kept(s, fd) /\ (Held(s, fd) => Held(s, fd)')
  <2>1. fdt'[s][fd].ino = fdt[s][fd].ino /\ node[s][fdt[s][fd].ino].kind = "dir"
    BY <1>2 DEF Kept, KnownLeaks, IsOpen, FileOf, Known
  <2>2. node[s][fdt[s][fd].ino] # None
    BY <1>2 DEF ServerInv, Backed
  <2>3. QED
    BY <1>1, <2>1, <2>2 DEF KindsStay
<1>3. CASE IsDir(s, fdt'[s][fd].ino)
  BY <1>1, <1>3 DEF KindsStay, IsDir
<1>4. QED
  BY <1>2, <1>3

\* The servers a step does not touch.
LEMMA OtherLeaks ==
  ASSUME IInv, IInv', KindsStay, NEW s \in Servers, KnownLeaks(s),
         fdt'[s] = fdt[s], handles'[s] = handles[s]
  PROVE  KnownLeaks(s)'
BY KeptLeaks DEF IInv, Held, Kept

\* Directories that clients have open stay directories.
LEMMA KeptDirHandles ==
  ASSUME IInv, IInv', KindsStay, DirHandles,
         \A s \in Servers : restarts'[s] = 0 => restarts[s] = 0,
         \A s \in Servers : restarts'[s] = 0 => \A h \in handles'[s] :
           h.acc = "dir" => h \in handles[s] \/ IsDir(s, h.ino)
  PROVE  DirHandles'
<1> SUFFICES ASSUME NEW s \in Servers, restarts'[s] = 0, NEW h \in handles'[s], h.acc = "dir"
             PROVE  node'[s][h.ino].kind = "dir"
  BY DEF DirHandles
<1>1. h.ino \in Inodes /\ h.fd \in Fds
  BY DEF IInv, SystemTypes, Handle, FileHandle, DirHandle
<1>2. node'[s][h.ino] # None
  BY <1>1 DEF IInv, HandleIntegrity, ServerInv, Backed
<1>3. CASE IsDir(s, h.ino)
  BY <1>1, <1>2, <1>3 DEF IsDir, KindsStay
<1>4. CASE h \in handles[s]
  <2>1. node[s][h.ino] # None /\ node[s][h.ino].kind = "dir"
    BY <1>1, <1>4 DEF DirHandles, IInv, HandleIntegrity, ServerInv, Backed
  <2>2. QED
    BY <1>1, <1>2, <2>1 DEF KindsStay
<1>5. QED
  BY <1>3, <1>4

\* A request that keeps what is open, and whose answer to an open is given to
\* the client that asked.
LEMMA RequestLeaks ==
  ASSUME IInv, IInv', LeakInv, NEW sv \in Servers, NEW a \in Requests, compute_6(sv, a), Keeps,
         \A s \in Servers : s # sv => handles'[s] = handles[s],
         handles[sv] \subseteq handles'[sv], UNCHANGED restarts,
         reply'[sv].ret = "OK" /\ a.op \in {"open", "opendir"} =>
           \E h \in handles'[sv] : h.fd = reply'[sv].val
  PROVE  LeaksAreKnown'
<1>1. KindsStay /\ OnlyHere(sv) /\ NewDescriptors(sv, a)
  BY RequestFiles, RequestHere, RequestDescriptors DEF IInv, ServerInv, FilesStep
<1>2. ASSUME NEW s \in Servers, restarts'[s] = 0, s # sv
      PROVE  KnownLeaks(s)'
  BY <1>1, <1>2, OtherLeaks, LeaksByServer DEF OnlyHere, FdtHere, LeakInv
<1>3. ASSUME restarts'[sv] = 0
      PROVE  KnownLeaks(sv)'
  <2>1. KnownLeaks(sv)
    BY <1>3, LeaksByServer DEF LeakInv
  <2>2. \A fd \in Fds : Held(sv, fd) => Held(sv, fd)'
    BY DEF Held
  <2>3. ASSUME NEW fd \in Fds, fdt'[sv][fd] # None, fdt[sv][fd] = None
        PROVE  Held(sv, fd)' \/ IsDir(sv, fdt'[sv][fd].ino) \/ Known(sv, fd)'
    BY <1>1, <2>3 DEF NewDescriptors, NewDescriptor, Held
  <2>4. QED
    BY <1>1, <2>1, <2>2, <2>3, KeptLeaks DEF IInv, Keeps
<1>4. QED
  BY <1>2, <1>3, LeaksByServer

LEMMA CallLeaks ==
  ASSUME IInv, IInv', LeakInv, NEW sv \in Servers, NEW a \in Calls, Call(sv, a)
  PROVE  LeaksAreKnown'
<1>1. /\ a \in Requests /\ compute_6(sv, a) /\ UNCHANGED <<handles, restarts>>
      /\ a.op \notin {"open", "opendir", "release", "releasedir"}
  BY CallsAssumption DEF Call, ByPath
<1>2. Keeps
  BY <1>1, RequestKeeps DEF IInv
<1>3. QED
  BY <1>1, <1>2, RequestLeaks

LEMMA OpenLeaks ==
  ASSUME IInv, IInv', LeakInv, NEW sv \in Servers, NEW a \in Calls, Open(sv, a)
  PROVE  LeaksAreKnown'
<1>1. /\ a \in Requests /\ compute_6(sv, a) /\ UNCHANGED restarts
      /\ a.op \notin {"release", "releasedir"}
  BY CallsAssumption DEF Open
<1>2. Keeps
  BY <1>1, RequestKeeps DEF IInv
<1>3. /\ \A s \in Servers : s # sv => handles'[s] = handles[s]
      /\ handles[sv] \subseteq handles'[sv]
  BY DEF Open, IInv, SystemTypes
<1>4. reply'[sv].ret = "OK" => \E h \in handles'[sv] : h.fd = reply'[sv].val
  <2>1. ASSUME NEW x, HandleOn(sv, a, x) \in handles'[sv]
        PROVE  \E h \in handles'[sv] : h.fd = reply'[sv].val
    <3>1. HandleOn(sv, a, x).fd = reply'[sv].val
      BY DEF HandleOn
    <3>2. QED
      BY <2>1, <3>1 DEF Held
  <2>2. reply'[sv].ret = "OK" => \E x : HandleOn(sv, a, x) \in handles'[sv]
    BY DEF Open, IInv, SystemTypes
  <2>3. QED
    BY <2>1, <2>2
<1>5. QED
  BY <1>1, <1>2, <1>3, <1>4, RequestLeaks

\* The handles a step leaves to the clients of directories.
LEMMA OpenDirHandles ==
  ASSUME IInv, NEW sv \in Servers, NEW a \in Calls, Open(sv, a), NEW s \in Servers,
         NEW h \in handles'[s], h.acc = "dir"
  PROVE  h \in handles[s] \/ IsDir(s, h.ino)
<1>1. CASE s # sv \/ reply'[sv].ret # "OK"
  BY <1>1 DEF Open, IInv, SystemTypes
<1>2. CASE s = sv /\ reply'[sv].ret = "OK"
  <2>1. h \in handles[sv] \/ h = HandleOn(sv, a, IF a.op = "open" THEN a.acc ELSE "dir")
    BY <1>2 DEF Open, IInv, SystemTypes
  <2>2. a \in Requests /\ compute_6(sv, a) /\ a.op \in {"open", "opendir"}
    BY CallsAssumption DEF Open
  <2>3. CASE a.op = "open" /\ h = HandleOn(sv, a, a.acc)
    BY <2>2, <2>3, RequestKinds DEF HandleOn, open_arg
  <2>4. CASE a.op = "opendir" /\ h = HandleOn(sv, a, "dir")
    <3> DEFINE p == LeadsTo(sv, a.path)
    <3>1. IsKind(sv, p, "dir") /\ p \in AnyPath
      <4>1. a \in opendir_arg /\ bb_opendir(sv, a)
        BY <2>2, <2>4, RequestKinds DEF compute_6
      <4>2. ~\E ret \in {"EACCES", "ERR"} : Answers(sv, a, ret, None)
        BY <1>2, AnswersReply DEF IInv, ServerInv
      <4>3. QED
        BY <4>1, <4>2, LeadsToFollowed DEF bb_opendir, LeadsToDir, CanOpendir, Returns
    <3>2. h.ino = ent[sv][p]
      BY <2>4 DEF HandleOn
    <3> HIDE DEF p
    <3>4. IsDir(sv, ent[sv][p])
      BY <3>1 DEF IsKind, Exists, File, IsDir, IInv, ServerInv, Backed
    <3>3. QED
      BY <1>2, <3>2, <3>4
  <2>5. QED
    BY <1>2, <2>1, <2>2, <2>3, <2>4
<1>3. QED
  BY <1>1, <1>2

\* A release closes the descriptor of the handle that is forgotten.
LEMMA ReleaseCloses ==
  ASSUME IInv, LeakInv, NEW sv \in Servers, NEW h \in handles[sv], Release(sv, h),
         restarts[sv] = 0
  PROVE  fdt'[sv][h.fd] = None
<1>1. h.fd \in Fds /\ IsOpen(sv, h.fd) /\ fdt[sv][h.fd].ino = h.ino
  BY DEF IInv, SystemTypes, Handle, FileHandle, DirHandle, HandleIntegrity, IsOpen
<1>2. CASE h.acc = "dir"
  <2>1. IsOpenDir(sv, h.fd)
    BY <1>1, <1>2 DEF LeakInv, DirHandles, IsOpenDir, FileOf
  <2>2. Close(sv, h.fd)
    BY <1>2, <2>1 DEF Release, compute_6, bb_releasedir
  <2>3. QED
    BY <1>1, <2>2 DEF Close, IInv, ServerInv, ServerTypeOK
<1>3. CASE h.acc # "dir"
  <2>1. Close(sv, h.fd)
    BY <1>1, <1>3 DEF Release, compute_6, bb_release
  <2>2. QED
    BY <1>1, <2>1 DEF Close, IInv, ServerInv, ServerTypeOK
<1>4. QED
  BY <1>2, <1>3

LEMMA UseLeaks ==
  ASSUME IInv, IInv', LeakInv, NEW sv \in Servers, NEW h \in handles[sv], UseHandle(sv, h)
  PROVE  LeaksAreKnown'
<1>1. h \in Handle
  BY DEF IInv, SystemTypes
<1>2. CASE Read(sv, h) \/ Write(sv, h) \/ Readdir(sv, h)
  <2>1. PICK a \in Requests : /\ a.op \in {"read", "write", "readdir"} /\ a.fd = h.fd
                              /\ compute_6(sv, a)
    BY <1>1, <1>2, UseRequest
  <2>2. Keeps /\ UNCHANGED <<handles, restarts>>
    BY <1>1, <1>2, <2>1, UseRequest, RequestKeeps DEF IInv
  <2>3. QED
    BY <2>1, <2>2, RequestLeaks
<1>3. CASE Release(sv, h)
  <2>1. PICK a \in Requests : /\ a.op \in {"release", "releasedir"} /\ a.fd = h.fd
                              /\ compute_6(sv, a)
    BY <1>1, <1>3, ReleaseRequest
  <2>2. /\ KindsStay /\ OnlyHere(sv)
        /\ \A s \in Servers, fd \in Fds : s # sv \/ fd # h.fd => Kept(s, fd)
    BY <2>1, RequestFiles, RequestHere, ReleaseKeeps DEF IInv, ServerInv, FilesStep
  <2>3. handles' = [handles EXCEPT ![sv] = handles[sv] \ {h}] /\ UNCHANGED restarts
    BY <1>3 DEF Release
  <2>4. ASSUME NEW s \in Servers, restarts'[s] = 0, s # sv
        PROVE  KnownLeaks(s)'
    BY <2>2, <2>3, <2>4, OtherLeaks, LeaksByServer
       DEF OnlyHere, FdtHere, LeakInv, IInv, SystemTypes
  <2>5. ASSUME restarts'[sv] = 0
        PROVE  KnownLeaks(sv)'
    <3>1. KnownLeaks(sv) /\ fdt'[sv][h.fd] = None
      BY <1>3, <2>3, <2>5, ReleaseCloses, LeaksByServer DEF LeakInv
    <3>2. NewDescriptors(sv, a)
      BY <2>1, RequestDescriptors DEF IInv
    <3>3. ASSUME NEW fd \in Fds, fd # h.fd, Held(sv, fd)
          PROVE  Held(sv, fd)'
      BY <2>3, <3>3 DEF Held, IInv, SystemTypes
    <3>4. ASSUME NEW fd \in Fds, fdt'[sv][fd] # None, fdt[sv][fd] = None
          PROVE  IsDir(sv, fdt'[sv][fd].ino) \/ Known(sv, fd)'
      BY <2>1, <3>2, <3>4 DEF NewDescriptors, NewDescriptor
    <3>5. QED
      BY <2>2, <3>1, <3>3, <3>4, KeptLeaks DEF IInv
  <2>6. QED
    BY <2>4, <2>5, LeaksByServer
<1>4. QED
  BY <1>2, <1>3 DEF UseHandle

LEMMA NextLeakInv ==
  ASSUME IInv, IInv', LeakInv, [Next]_vars
  PROVE  LeakInv'
<1>1. KindsStay
  BY NextKinds
<1>2. CASE UNCHANGED vars
  BY <1>2 DEF vars, LeakInv, LeaksAreKnown, DirHandles, IsOpen, FileOf
<1>3. ASSUME NEW sv \in Servers, NEW a \in Calls, Call(sv, a) \/ Open(sv, a)
      PROVE  LeakInv'
  <2>1. UNCHANGED restarts /\ (Call(sv, a) => UNCHANGED handles)
    BY <1>3 DEF Call, Open
  <2>2. DirHandles'
    BY <1>1, <1>3, <2>1, OpenDirHandles, KeptDirHandles DEF LeakInv
  <2>3. QED
    BY <1>3, <2>2, CallLeaks, OpenLeaks DEF LeakInv
<1>4. ASSUME NEW sv \in Servers, NEW h \in handles[sv], UseHandle(sv, h)
      PROVE  LeakInv'
  <2>1. UNCHANGED restarts /\ \A s \in Servers : handles'[s] \subseteq handles[s]
    BY <1>4 DEF UseHandle, Read, Write, Readdir, Release, IInv, SystemTypes
  <2>2. DirHandles'
    BY <1>1, <2>1, KeptDirHandles DEF LeakInv
  <2>3. QED
    BY <1>4, <2>2, UseLeaks DEF LeakInv
<1>5. ASSUME NEW sv \in Servers, Reboots(sv)
      PROVE  LeakInv'
  <2>1. /\ UNCHANGED handles /\ restarts'[sv] # 0
        /\ \A s \in Servers : s # sv => restarts'[s] = restarts[s] /\ fdt'[s] = fdt[s]
    BY <1>5, RebootSteps, BoundsAssumption
       DEF Dies, IInv, ServerInv, ServerTypeOK, SystemTypes
  <2>2. DirHandles'
    BY <1>1, <2>1, KeptDirHandles DEF LeakInv
  <2>3. LeaksAreKnown'
    BY <1>1, <2>1, OtherLeaks, LeaksByServer DEF LeakInv
  <2>4. QED
    BY <2>2, <2>3 DEF LeakInv
<1>6. QED
  BY <1>2, <1>3, <1>4, <1>5 DEF Next, Reboots

LEMMA InitLeakInv == SystemInit => LeakInv
BY DEF SystemInit, Init, LeakInv, LeaksAreKnown, DirHandles, IsOpen

\* A descriptor that no client has was opened by dlock, or by the secondary for
\* a write that failed.
THEOREM LeaksKnown == Spec => []LeaksAreKnown
<1>1. IInv /\ LeakInv /\ [Next]_vars => IInv' /\ LeakInv'
  BY NextInv, NextLeakInv
<1>2. LeakInv => LeaksAreKnown
  BY DEF LeakInv
<1>3. QED
  BY <1>1, <1>2, InitInv, InitLeakInv, PTL DEF Spec

-----------------------------------------------------------------------------
(***************************************************************************)
(* Names.  A directory has one name only: link refuses directories, a new  *)
(* one gets a free inode, and rename takes a whole subtree along.          *)
(***************************************************************************)

\* Renaming keeps different names different, ...
LEMMA RebasedInjective ==
  ASSUME NEW n \in Seq(STRING), NEW p \in Seq(STRING),
         NEW q \in Seq(STRING), IsPrefix(n, q), NEW r \in Seq(STRING), IsPrefix(n, r),
         Rebased(q, n, p) = Rebased(r, n, p)
  PROVE  q = r
<1> DEFINE x == SubSeq(q, Len(n) + 1, Len(q))
           y == SubSeq(r, Len(n) + 1, Len(r))
<1>1. x \in Seq(STRING) /\ q = n \o x /\ y \in Seq(STRING) /\ r = n \o y
  BY PrefixSplits
<1>2. p \o x = p \o y
  BY DEF Rebased
<1> HIDE DEF x, y
<1>3. x = y
  BY <1>1, <1>2, ConcatSimplifications
<1>4. QED
  BY <1>1, <1>3

\* ... and puts them all below the new name.
LEMMA RebasedBelow ==
  ASSUME NEW n \in Seq(STRING), NEW p \in Seq(STRING), p # <<>>,
         NEW q \in Seq(STRING), IsPrefix(n, q)
  PROVE  IsPrefix(p, Rebased(q, n, p))
<1> DEFINE x == SubSeq(q, Len(n) + 1, Len(q))
<1>1. x \in Seq(STRING) /\ Rebased(q, n, p) = p \o x
  BY PrefixSplits DEF Rebased
<1> HIDE DEF x
<1>2. Len(p \o x) = Len(p) + Len(x) /\ Len(p) \in Nat /\ Len(x) \in Nat /\ Len(p) # 0
  BY <1>1, ConcatProperties
<1>3. SubSeq(p \o x, 1, Len(p)) = SubSeq(p, 1, Len(p))
  <2>1. 1 \in 1 .. Len(p) /\ Len(p) \in 1 .. Len(p)
    BY <1>2
  <2>2. QED
    BY <1>1, <2>1, SubSeqOfConcat1
<1>4. QED
  BY <1>1, <1>2, <1>3 DEF IsPrefix

TwoNames(s, i) ==
  \E q, r \in AnyPath : q # r /\ ent[s][q] = i /\ ent[s][r] = i

OneNameOnly ==
  \A s \in Servers, i \in Inodes : IsDir(s, i) => ~TwoNames(s, i)

\* A step gives a second name to nothing, or to a file that is not a directory.
NamesStep ==
  \A s \in Servers, i \in Inodes :
    TwoNames(s, i)' => TwoNames(s, i) \/ (node[s][i] # None /\ ~IsDir(s, i))

LEMMA OneNameKept ==
  ASSUME ServerInv, ServerInv', OneNameOnly, NamesStep, KindsStay
  PROVE  OneNameOnly'
<1> SUFFICES ASSUME NEW s \in Servers, NEW i \in Inodes, IsDir(s, i)', TwoNames(s, i)'
             PROVE  FALSE
  BY DEF OneNameOnly
<1>1. node[s][i] # None
  BY NoneAssumption DEF NamesStep, TwoNames, ServerInv, Backed
<1>2. node[s][i].kind = "dir"
  BY <1>1 DEF IsDir, KindsStay
<1>3. QED
  BY <1>1, <1>2 DEF NamesStep, OneNameOnly, IsDir

\* Names are taken away, or none changes.
LEMMA FewerNames ==
  ASSUME \A s \in Servers, q \in AnyPath : ent'[s][q] \in {ent[s][q], None}
  PROVE  NamesStep
<1>1. ASSUME NEW s \in Servers, NEW i \in Inodes, TwoNames(s, i)'
      PROVE  TwoNames(s, i)
  BY <1>1, NoneAssumption DEF TwoNames
<1>2. QED
  BY <1>1 DEF NamesStep

\* One name is made for a free inode.
LEMMA FreshName ==
  ASSUME ServerInv, NEW sv \in Servers, NEW p \in AnyPath, NEW i \in Inodes,
         node[sv][i] = None, ent' = [ent EXCEPT ![sv] = [@ EXCEPT ![p] = i]]
  PROVE  NamesStep
<1>1. \A s \in Servers, q \in AnyPath :
        ent'[s][q] = IF s = sv /\ q = p THEN i ELSE ent[s][q]
  BY DEF ServerInv, ServerTypeOK
<1>2. \A q \in AnyPath : ent[sv][q] # i
  BY NoneAssumption DEF ServerInv, Backed
<1>3. QED
  BY <1>1, <1>2 DEF NamesStep, TwoNames

LEMMA CreateNames ==
  ASSUME ServerInv, NEW sv \in Servers, NEW p \in AnyPath,
         (\E n : Create(sv, p, n)) \/ (\E n : HalfMade(sv, p, n))
  PROVE  NamesStep
<1>1. PICK i \in Inodes : /\ node[sv][i] = None
                          /\ ent' = [ent EXCEPT ![sv] = [@ EXCEPT ![p] = i]]
  BY DEF Create, HalfMade, LowestOf, FreeInodes
<1>2. QED
  BY <1>1, FreshName

LEMMA RemoveNames ==
  ASSUME ServerTypeOK, NEW sv \in Servers, NEW a, Removes(sv, a)
  PROVE  NamesStep
<1>1. \A s \in Servers, q \in AnyPath : ent'[s][q] \in {ent[s][q], None}
  BY DEF Removes, ServerTypeOK
<1>2. QED
  BY <1>1, FewerNames

LEMMA LinkNames ==
  ASSUME ServerInv, NEW sv \in Servers, NEW p \in AnyPath, NEW newp \in AnyPath,
         CanLink(sv, p, newp), ent' = [ent EXCEPT ![sv] = [@ EXCEPT ![newp] = ent[sv][p]]]
  PROVE  NamesStep
<1>1. \A s \in Servers, q \in AnyPath :
        ent'[s][q] = IF s = sv /\ q = newp THEN ent[sv][p] ELSE ent[s][q]
  BY DEF ServerInv, ServerTypeOK
<1>2. node[sv][ent[sv][p]] # None /\ ~IsDir(sv, ent[sv][p])
  BY DEF CanLink, Exists, IsKind, File, IsDir, ServerInv, Backed
<1>3. QED
  BY <1>1, <1>2 DEF NamesStep, TwoNames

\* Two paths that name one file after a rename come from two that did before.
LEMMA RenamedNamesApart ==
  ASSUME NEW sv \in Servers, NEW p \in Paths, NEW newp \in Paths, NEW i \in Inodes,
         NEW q \in AnyPath, NEW r \in AnyPath, q # r,
         Renamed(sv, p, newp)[q] = i, Renamed(sv, p, newp)[r] = i
  PROVE  TwoNames(sv, i)
<1> DEFINE was(x) == IF IsPrefix(newp, x) THEN Rebased(x, newp, p) ELSE x
<1>1. CASE ent[sv][p] = ent[sv][newp]
  BY <1>1 DEF Renamed, TwoNames
<1>2. CASE ent[sv][p] # ent[sv][newp]
  <2>1. \A x \in AnyPath : Renamed(sv, p, newp)[x] = i =>
          /\ was(x) \in AnyPath /\ ent[sv][was(x)] = i
          /\ ~IsPrefix(newp, x) => ~IsPrefix(p, x)
    BY <1>2, NoneAssumption DEF Renamed, AnyPath
  <2>2. /\ p \in Seq(STRING) /\ p # <<>> /\ newp \in Seq(STRING)
        /\ q \in Seq(STRING) /\ r \in Seq(STRING)
    <3>1. \A x \in Paths : x \in Seq(STRING) /\ x # <<>>
      BY PathsAssumption DEF Root
    <3>2. <<>> \in Seq(STRING)
      OBVIOUS
    <3>3. QED
      BY <3>1, <3>2, Zenon DEF AnyPath, Root
  <2>3. was(q) # was(r)
    <3>1. CASE IsPrefix(newp, q) /\ IsPrefix(newp, r)
      BY <2>2, <3>1, RebasedInjective
    <3>2. CASE IsPrefix(newp, q) /\ ~IsPrefix(newp, r)
      BY <2>1, <2>2, <3>2, RebasedBelow
    <3>3. CASE ~IsPrefix(newp, q) /\ IsPrefix(newp, r)
      BY <2>1, <2>2, <3>3, RebasedBelow
    <3>4. CASE ~IsPrefix(newp, q) /\ ~IsPrefix(newp, r)
      BY <3>4
    <3>5. QED
      BY <3>1, <3>2, <3>3, <3>4
  <2> HIDE DEF was
  <2>4. QED
    BY <2>1, <2>3 DEF TwoNames
<1>3. QED
  BY <1>1, <1>2

LEMMA RenameNames ==
  ASSUME ServerInv, NEW sv \in Servers, NEW a \in rename_arg, RenameEffect(sv, a)
  PROVE  NamesStep
<1>1. CASE UNCHANGED ent
  BY <1>1, FewerNames
<1>2. CASE ent' = [ent EXCEPT ![sv] = Renamed(sv, a.path, a.newpath)]
  <2>1. a.path \in Paths /\ a.newpath \in Paths
    BY DEF rename_arg
  <2>2. /\ ent'[sv] = Renamed(sv, a.path, a.newpath)
        /\ \A s \in Servers : s # sv => ent'[s] = ent[s]
    BY <1>2 DEF ServerInv, ServerTypeOK
  <2>3. \A i \in Inodes : TwoNames(sv, i)' => TwoNames(sv, i)
    BY <2>1, <2>2, RenamedNamesApart DEF TwoNames
  <2>4. \A s \in Servers, i \in Inodes : s # sv => (TwoNames(s, i)' => TwoNames(s, i))
    BY <2>2 DEF TwoNames
  <2>5. QED
    BY <2>3, <2>4 DEF NamesStep
<1>3. QED
  BY <1>1, <1>2 DEF RenameEffect

LEMMA RequestNames ==
  ASSUME ServerInv, NEW sv \in Servers, NEW a \in Requests, compute_6(sv, a)
  PROVE  NamesStep
<1>1. CASE UNCHANGED ent
  BY <1>1, FewerNames
<1>2. CASE \E p \in AnyPath : \E n : Create(sv, p, n)
  BY <1>2, CreateNames
<1>3. CASE a.op \in {"mkdir", "mknod"}
  <2>1. a.path \in AnyPath
    BY <1>3, RequestKinds DEF mkdir_arg, mknod_arg, AnyPath
  <2>2. QED
    BY <1>1, <1>2, <1>3, <2>1 DEF compute_6, bb_mkdir, bb_mknod, DirectoryNotLocked, NotPermitted,
       LockFails, LockHangs, Returns, Hangs
<1>4. CASE a.op \in {"rmdir", "unlink"}
  BY <1>1, <1>4, RemoveNames DEF compute_6, bb_rmdir, bb_unlink, DirectoryNotLocked, NotPermitted,
     LockFails, LockHangs, Returns, Hangs, ServerInv
<1>5. CASE a.op = "rename"
  BY <1>1, <1>5, RequestKinds, RenameNames DEF compute_6, bb_rename, LockFails, LockHangs,
     RenameSecondParent, Returns, Hangs
<1>6. CASE a.op = "symlink"
  <2>1. a.link \in AnyPath
    BY <1>6, RequestKinds DEF symlink_arg, AnyPath
  <2>2. QED
    BY <1>1, <1>2, <1>6, <2>1 DEF compute_6, bb_symlink, NotPermitted, Returns
<1>7. CASE a.op = "link"
  <2>1. a.path \in AnyPath /\ a.newpath \in AnyPath
    BY <1>7, RequestKinds DEF link_arg, AnyPath
  <2>2. QED
    BY <1>1, <1>7, <2>1, LinkNames DEF compute_6, bb_link, Returns
<1>8. CASE a.op = "init_rootdir"
  BY <1>1, <1>2, <1>8 DEF compute_6, init_rootdir, AnyPath
<1>9. CASE a.op \in {"getattr", "access", "statfs", "readlink", "utime", "chmod", "truncate"}
  BY <1>1, <1>9 DEF compute_6, bb_getattr, bb_access, bb_statfs, bb_readlink, bb_utime, bb_chmod,
     SetsMode, bb_truncate, Returns
<1>10. CASE a.op \in {"open", "opendir", "release", "releasedir", "read", "readdir", "write"}
  BY <1>1, <1>10 DEF compute_6, bb_open, bb_opendir, bb_release, bb_releasedir, bb_read,
     bb_readdir, bb_write, WriteDirect, WriteSecondary, FlockHangs, Returns, Hangs, Close
<1>11. QED
  BY <1>3, <1>4, <1>5, <1>6, <1>7, <1>8, <1>9, <1>10 DEF compute_6

LEMMA RebootNames ==
  ASSUME IInv, NEW sv \in Servers, Reboots(sv)
  PROVE  NamesStep
<1>1. CASE UNCHANGED ent
  BY <1>1, FewerNames
<1>2. ASSUME NEW a \in Requests, DiesHalfway(sv, a)
      PROVE  NamesStep
  <2>1. Root \in AnyPath
    BY DEF AnyPath
  <2>2. CASE a.op \in {"init_rootdir", "mkdir", "mknod", "symlink"}
    <3>1. /\ a.op \in {"mkdir", "mknod"} => a.path \in AnyPath
          /\ a.op = "symlink" => a.link \in AnyPath
      BY RequestKinds DEF mkdir_arg, mknod_arg, symlink_arg, AnyPath
    <3>2. \E p \in AnyPath : \E n : HalfMade(sv, p, n)
      BY <1>2, <2>1, <2>2, <3>1 DEF DiesHalfway
    <3>3. QED
      BY <3>2, CreateNames DEF IInv
  <2>3. CASE a.op = "link"
    <3>1. a.path \in AnyPath /\ a.newpath \in AnyPath
      BY <2>3, RequestKinds DEF link_arg, AnyPath
    <3>2. QED
      BY <1>2, <2>3, <3>1, LinkNames DEF DiesHalfway, IInv
  <2>4. QED
    BY <1>2, <2>2, <2>3 DEF DiesHalfway
<1>3. QED
  BY <1>1, <1>2, CallsAssumption DEF Reboots, Reboot, Restart, RebootHalfway

LEMMA NextOneName ==
  ASSUME IInv, IInv', OneNameOnly, [Next]_vars
  PROVE  OneNameOnly'
<1>1. CASE UNCHANGED vars
  BY <1>1 DEF vars, OneNameOnly, IsDir, TwoNames
<1>2. CASE Next
  <2>1. PICK sv \in Servers : \/ Reboots(sv)
                              \/ \E a \in Requests : compute_6(sv, a)
    BY <1>2, StepIsRequest
  <2>2. NamesStep
    BY <2>1, RebootNames, RequestNames DEF IInv
  <2>3. QED
    BY <2>2, NextKinds, OneNameKept DEF IInv
<1>3. QED
  BY <1>1, <1>2

LEMMA InitOneName == SystemInit => OneNameOnly
BY DEF SystemInit, Init, OneNameOnly, IsDir

-----------------------------------------------------------------------------
(* A process blocks only on a lock that an earlier request left behind. *)

SomeLock(sv) == \E i \in Inodes : lock[sv][i] # None

LEMMA DirectoryHangs ==
  ASSUME ServerInv, NEW sv \in Servers, NEW a, a.path \in Paths, LockHangs(sv, a)
  PROVE  SomeLock(sv)
<1>1. /\ IsKind(sv, get_parent_path(a.path), "dir")
      /\ lock[sv][ent[sv][get_parent_path(a.path)]] # None
  BY DEF LockHangs, DlockBlocks
<1>2. QED
  BY <1>1, ParentType, BackedFiles DEF SomeLock

\* rename locks two directories, which two paths never name alike.
LEMMA RenameHangs ==
  ASSUME ServerInv, OneNameOnly, NEW sv \in Servers, NEW a \in rename_arg, bb_rename(sv, a)
  PROVE  SomeLock(sv) \/ UNCHANGED hung
<1>1. a.path \in Paths /\ a.newpath \in Paths
  BY DEF rename_arg
<1>2. ASSUME ~OneParent(a), NEW fd \in Fds, dlock(sv, get_parent_path(a.path), fd),
             RenameSecondParent(sv, a, fd)
      PROVE  SomeLock(sv) \/ UNCHANGED hung
  <2> DEFINE p == get_parent_path(a.path)
             q == get_parent_path(a.newpath)
  <2>1. p \in AnyPath /\ q \in AnyPath /\ p # q
    BY <1>1, <1>2, ParentType DEF OneParent
  <2>2. IsKind(sv, p, "dir") /\ ent[sv][p] \in Inodes /\ IsDir(sv, ent[sv][p])
    BY <1>2, <2>1, BackedFiles DEF dlock, IsKind, Exists, File, IsDir, ServerInv, Backed
  <2>3. ent[sv][q] # ent[sv][p]
    BY <2>1, <2>2 DEF OneNameOnly, TwoNames
  <2>4. IsKind(sv, q, "dir") => ent[sv][q] \in Inodes
    BY <2>1, BackedFiles
  <2>5. QED
    BY <1>2, <2>3, <2>4 DEF RenameSecondParent, RenameEffect, SomeLock
<1>3. QED
  BY <1>1, <1>2, DirectoryHangs DEF bb_rename, LockFails, Returns, RenameEffect

LEMMA DescriptorHangs ==
  ASSUME ServerInv, NEW sv \in Servers, NEW fd \in Fds, FlockHangs(sv, fd)
  PROVE  SomeLock(sv)
<1>1. IsOpen(sv, fd) /\ lock[sv][fdt[sv][fd].ino] # None
  BY DEF FlockHangs, FlockBlocks
<1>2. QED
  BY <1>1, BackedFiles DEF SomeLock

LEMMA RequestHangs ==
  ASSUME ServerInv, OneNameOnly, NEW sv \in Servers, NEW a \in Requests, compute_6(sv, a)
  PROVE  SomeLock(sv) \/ UNCHANGED hung
<1>1. CASE a.op \in {"mkdir", "mknod", "rmdir", "unlink"}
  <2>1. a.path \in Paths
    BY <1>1, RequestKinds DEF mkdir_arg, mknod_arg, rmdir_arg, unlink_arg
  <2>2. QED
    BY <1>1, <2>1, DirectoryHangs DEF compute_6, bb_mkdir, bb_mknod, bb_rmdir, bb_unlink,
       DirectoryNotLocked, NotPermitted, LockFails, Returns
<1>2. CASE a.op \in {"read", "readdir", "write"}
  <2>1. a.fd \in Fds
    BY <1>2, RequestKinds DEF read_arg, readdir_arg, write_arg
  <2>2. QED
    BY <1>2, <2>1, DescriptorHangs DEF compute_6, bb_read, bb_readdir, bb_write, WriteDirect,
       WriteSecondary, Returns
<1>3. CASE a.op = "rename"
  BY <1>3, RequestKinds, RenameHangs DEF compute_6
<1>4. CASE a.op \in {"init_rootdir", "symlink", "link", "chmod", "truncate", "utime", "getattr",
                     "access", "statfs", "readlink"}
  BY <1>4 DEF compute_6, init_rootdir, bb_symlink, bb_link, bb_chmod, SetsMode, bb_truncate,
     bb_utime, bb_getattr, bb_access, bb_statfs, bb_readlink, NotPermitted, Returns
<1>5. CASE a.op \in {"open", "opendir", "release", "releasedir"}
  BY <1>5 DEF compute_6, bb_open, bb_opendir, bb_release, bb_releasedir, Returns
<1>6. QED
  BY <1>1, <1>2, <1>3, <1>4, <1>5 DEF compute_6

\* A server blocks in flock only when an earlier request had left a directory
\* locked: the handlers never deadlock with themselves.
THEOREM HangsOnAbandonedLock == Spec => HangsOnlyOnAbandonedLock
<1> DEFINE A == \A sv \in Servers :
                  ~hung[sv] /\ hung'[sv] => \E i \in Inodes : lock[sv][i] # None
<1>1. ASSUME IInv, OneNameOnly, [Next]_vars PROVE [A]_vars
  <2>1. CASE UNCHANGED vars
    BY <2>1
  <2>2. CASE Next
    <3>1. PICK sv \in Servers : \/ Reboots(sv)
                                \/ \E a \in Requests : compute_6(sv, a)
      BY <1>1, <2>2, StepIsRequest
    <3>2. CASE Reboots(sv)
      <4>1. \A s \in Servers : hung'[s] => hung[s]
        BY <1>1, <3>2, RebootSteps DEF Dies, IInv, ServerInv, ServerTypeOK
      <4>2. QED
        BY <4>1
    <3>3. CASE \E a \in Requests : compute_6(sv, a)
      BY <1>1, <3>3, RequestHangs, RequestHere DEF OnlyHere, HungHere, SomeLock, IInv, ServerInv
    <3>4. QED
      BY <3>1, <3>2, <3>3
  <2>3. QED
    BY <1>1, <2>1, <2>2
<1>2. IInv /\ OneNameOnly /\ [Next]_vars => IInv' /\ OneNameOnly'
  BY NextInv, NextOneName
<1>3. QED
  BY <1>1, <1>2, InitInv, InitOneName, PTL DEF Spec, HangsOnlyOnAbandonedLock
=============================================================================
