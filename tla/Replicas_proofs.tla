--------------------------- MODULE Replicas_proofs ---------------------------
(***************************************************************************)
(* The two servers stay in step, and their trees are the same, for any     *)
(* clients, paths, inodes and descriptors and any number of calls and      *)
(* faults, as long as the clients' calls name their files by path.  (A     *)
(* file that is open is open on one server only.)                          *)
(*                                                                         *)
(* What such an update makes of a server, and what it answers, is a        *)
(* function of the server's tables: the operators ...After below.  Inode   *)
(* numbers matter only as far as they are the same or not, so servers      *)
(* whose tables differ in the numbers alone come to differ in the numbers  *)
(* alone.  The secondary, which executes an update first, is what the      *)
(* primary will be after it.                                               *)
(***************************************************************************)
EXTENDS Replication_proofs, FunctionTheorems, WellFoundedInduction

-----------------------------------------------------------------------------
(* Updates by path, and what they look at. *)

UpdatesByPath ==
  UNION {init_arg, mkdir_arg, mknod_arg, rmdir_arg, unlink_arg, rename_arg, symlink_arg,
         link_arg, truncate_arg, utime_arg, chmod_arg}
LookupsByPath == UNION {getattr_arg, access_arg, statfs_arg, readlink_arg}

\* Inode and descriptor numbers are handed out from below.
Least(S) == CHOOSE x \in S : \A y \in S : x <= y
FirstFd(sv) == Least(FreeFds(sv))
OtherFds(sv) == FreeFds(sv) \ {FirstFd(sv)}

Parent(a) == get_parent_path(a.path)
NewParent(a) == get_parent_path(a.newpath)
LocksOne(a) == a.op \in {"mkdir", "mknod", "rmdir", "unlink"}
Locks(a) == LocksOne(a) \/ a.op = "rename"

\* What the explicit checks of a handler ask for, and its system call.
Permitted(sv, a) ==
  /\ LocksOne(a) => is_parent_dir_valid(sv, a.path, a.ip, a.op)
  /\ a.op \in {"rename", "link"} => RenamePermitted(sv, a)
  /\ a.op = "symlink" => is_parent_dir_valid(sv, a.link, a.ip, a.op)
  /\ a.op \in {"utime", "chmod"} => is_owner(sv, a.path, a.ip)

Possible(sv, a) ==
  /\ a.op = "init_rootdir" => Exists(sv, Root) \/ FreeInodes(sv) # {}
  /\ a.op = "mkdir" => ~CannotCreate(sv, a.path)
  /\ a.op = "mknod" => ~CannotMknod(sv, a)
  /\ a.op = "rmdir" => CanRmdir(sv, a.path)
  /\ a.op = "unlink" => CanUnlink(sv, a.path)
  /\ a.op = "rename" => CanRename(sv, a.path, a.newpath)
  /\ a.op = "symlink" => ~CannotSymlink(sv, a.link)
  /\ a.op = "link" => CanLink(sv, a.path, a.newpath)
  /\ a.op \in {"utime", "chmod"} => LeadsTo(sv, a.path) # None
  /\ a.op = "truncate" => LeadsToFile(sv, a.path)

SecondTaken(sv, a) ==
  \/ ent[sv][NewParent(a)] = ent[sv][Parent(a)]
  \/ lock[sv][ent[sv][NewParent(a)]] # None

\* How far an update comes.  "Both": with two directories locked.
Verdict(sv, a) ==
  IF ~Permitted(sv, a) THEN "refused"
  ELSE IF ~Locks(a) THEN IF Possible(sv, a) THEN "done" ELSE "failed"
  ELSE IF ~CanOpendir(sv, Parent(a)) THEN "failed"
  ELSE IF lock[sv][ent[sv][Parent(a)]] # None THEN "blocked"
  ELSE IF LocksOne(a) \/ OneParent(a) THEN IF Possible(sv, a) THEN "done" ELSE "vain"
  ELSE IF ~IsKind(sv, NewParent(a), "dir") \/ OtherFds(sv) = {} THEN "abandoned"
  ELSE IF SecondTaken(sv, a) THEN "blockedBoth"
  ELSE IF Possible(sv, a) THEN "doneBoth" ELSE "vainBoth"

-----------------------------------------------------------------------------
(* The tables of a server after an update, and its answer. *)

IsDone(sv, a) == Verdict(sv, a) \in {"done", "doneBoth"}

OneOpened(sv, a) == [fdt[sv] EXCEPT ![FirstFd(sv)] = DirDesc(ent[sv][Parent(a)])]
BothOpened(sv, a) ==
  [OneOpened(sv, a) EXCEPT ![Least(OtherFds(sv))] = DirDesc(ent[sv][NewParent(a)])]

FdtAfter(sv, a) ==
  IF ~Locks(a) \/ Verdict(sv, a) \in {"refused", "failed"} THEN fdt[sv]
  ELSE IF Verdict(sv, a) \in {"blockedBoth", "doneBoth", "vainBoth"} THEN BothOpened(sv, a)
  ELSE OneOpened(sv, a)

LockAfter(sv, a) ==
  IF Verdict(sv, a) \in {"abandoned", "blockedBoth"}
  THEN [lock[sv] EXCEPT ![ent[sv][Parent(a)]] = FirstFd(sv)]
  ELSE lock[sv]

HungAfter(sv, a) == Verdict(sv, a) \in {"blocked", "blockedBoth"}

\* Names and files are made, removed, moved, linked or changed.
Creates(sv, a) == \/ a.op \in {"mkdir", "mknod", "symlink"}
                  \/ a.op = "init_rootdir" /\ ~Exists(sv, Root)
Deletes(a) == a.op \in {"rmdir", "unlink"}
NameOf(a) == IF a.op = "symlink" THEN a.link ELSE IF a.op = "init_rootdir" THEN Root ELSE a.path

FileMade(a) ==
  IF a.op = "mkdir" THEN NewFile("dir", a.ip, Masked(a.mode))
  ELSE IF a.op = "mknod" THEN NewFile(a.kind, a.ip, Masked(a.mode))
  ELSE IF a.op = "symlink" THEN NewLink(a.target, a.ip)
  ELSE NewFile("dir", RootUid, FullMode)

FileChanged(n, a) ==
  IF a.op = "chmod" THEN [n EXCEPT !.mode = a.mode]
  ELSE IF a.op = "truncate" THEN [n EXCEPT !.data = Resized(@, a.newsize)]
  ELSE IF a.op = "init_rootdir" THEN [n EXCEPT !.mode = FullMode]
  ELSE IF a.op = "link" THEN [n EXCEPT !.uid = a.ip]
  ELSE n

\* The name through which a file that stays is changed, or None: where the path
\* leads, for the chown of link with the new name made.
Linked(sv, a) == [ent[sv] EXCEPT ![a.newpath] = ent[sv][a.path]]
Touched(sv, a) ==
  IF a.op = "init_rootdir" THEN Root
  ELSE IF a.op = "link" THEN Followed(Linked(sv, a), node[sv], a.newpath)
  ELSE LeadsTo(sv, a.path)

EntAfter(sv, a) ==
  IF ~IsDone(sv, a) THEN ent[sv]
  ELSE IF Creates(sv, a) THEN [ent[sv] EXCEPT ![NameOf(a)] = Least(FreeInodes(sv))]
  ELSE IF Deletes(a) THEN [ent[sv] EXCEPT ![a.path] = None]
  ELSE IF a.op = "rename" THEN Renamed(sv, a.path, a.newpath)
  ELSE IF a.op = "link" THEN Linked(sv, a)
  ELSE ent[sv]

Changed(sv, a) == EntAfter(sv, a)[Touched(sv, a)]

NodeAfter(sv, a) ==
  IF ~IsDone(sv, a) THEN node[sv]
  ELSE IF Creates(sv, a) THEN [node[sv] EXCEPT ![Least(FreeInodes(sv))] = FileMade(a)]
  ELSE IF Deletes(a) \/ a.op = "rename"
       THEN Reaped(node[sv], EntAfter(sv, a), FdtAfter(sv, a))
  ELSE IF Touched(sv, a) = None THEN node[sv]
  ELSE [node[sv] EXCEPT ![Changed(sv, a)] = FileChanged(node[sv][Changed(sv, a)], a)]

RetAfter(sv, a) ==
  IF HungAfter(sv, a) THEN "HANG"
  ELSE IF Verdict(sv, a) = "refused" THEN "EACCES"
  ELSE IF IsDone(sv, a) /\ ~(a.op = "link" /\ Touched(sv, a) = None) THEN "OK"
  ELSE "ERR"

\* What a handler does to its server is what these operators say.
Predicted(sv, a) ==
  /\ ent'[sv] = EntAfter(sv, a) /\ node'[sv] = NodeAfter(sv, a)
  /\ fdt'[sv] = FdtAfter(sv, a) /\ lock'[sv] = LockAfter(sv, a)
  /\ hung'[sv] <=> HungAfter(sv, a)
  /\ (IF hung'[sv] THEN "HANG" ELSE reply'[sv].ret) = RetAfter(sv, a)
  /\ \A s \in Servers \ {sv} : lock'[s] = lock[s]

-----------------------------------------------------------------------------
(* The parts of a handler. *)

\* Of the numbers that are free the least is taken.
LEMMA LeastIs ==
  ASSUME NEW S \in SUBSET Nat, NEW x \in LowestOf(S)
  PROVE  Least(S) = x /\ x \in S
<1>1. x \in S /\ \A y \in S : x <= y
  BY DEF LowestOf
<1>2. Least(S) \in S /\ \A y \in S : Least(S) <= y
  BY <1>1 DEF Least
<1>3. x \in Nat /\ Least(S) \in Nat
  BY <1>1, <1>2
<1>4. x <= Least(S) /\ Least(S) <= x
  BY <1>1, <1>2
<1>5. QED
  BY <1>1, <1>3, <1>4

\* If some are free there is a least one.
LEMMA LowestIn ==
  ASSUME NEW S \in SUBSET Nat, S # {}
  PROVE  LowestOf(S) # {}
<1>1. PICK x \in S : \A y \in S : ~ (<<y, x>> \in OpToRel(<, Nat))
  BY NatLessThanWellFounded, WFMin
<1>2. \A y \in S : ~ (y < x)
  BY <1>1 DEF OpToRel
<1>3. \A y \in S : x <= y
  BY <1>2
<1>4. QED
  BY <1>3 DEF LowestOf

LEMMA FreeNumbers ==
  ASSUME NEW sv \in Servers
  PROVE  FreeFds(sv) \in SUBSET Nat /\ OtherFds(sv) \in SUBSET Nat /\ FreeInodes(sv) \in SUBSET Nat
BY FdsAssumption, InodesAssumption DEF FreeFds, OtherFds, FreeInodes

\* What changed at a server, table by table.
LEMMA ChangedTo ==
  ASSUME ServerTypeOK, NEW sv \in Servers
  PROVE  /\ \A f : ent' = [ent EXCEPT ![sv] = f] => ent'[sv] = f
         /\ \A f : node' = [node EXCEPT ![sv] = f] => node'[sv] = f
         /\ \A f : fdt' = [fdt EXCEPT ![sv] = f] => fdt'[sv] = f
         /\ \A f : lock' = [lock EXCEPT ![sv] = f] =>
              lock'[sv] = f /\ \A s \in Servers \ {sv} : lock'[s] = lock[s]
         /\ \A f : hung' = [hung EXCEPT ![sv] = f] => hung'[sv] = f
         /\ \A a, ret, val : Answers(sv, a, ret, val) => reply'[sv].ret = ret
BY DEF ServerTypeOK, Answers

\* An update that is refused or cannot be tried changes nothing.
LEMMA ReturnsPredicted ==
  ASSUME ServerTypeOK, NEW sv \in Servers, ~hung[sv], NEW a, NEW ret, Returns(sv, a, ret),
         \/ Verdict(sv, a) = "refused" /\ ret = "EACCES"
         \/ Verdict(sv, a) = "failed" /\ ret = "ERR"
  PROVE  Predicted(sv, a)
<1>1. reply'[sv].ret = ret /\ UNCHANGED <<ent, node, fdt, lock, hung>>
  BY ChangedTo DEF Returns
<1>2. QED
  BY <1>1 DEF Predicted, EntAfter, NodeAfter, FdtAfter, LockAfter, HungAfter, RetAfter, IsDone

\* The lock of the parent is held for ever.
LEMMA LockHangsPredicted ==
  ASSUME ServerTypeOK, NEW sv \in Servers, NEW a, Locks(a), Permitted(sv, a), LockHangs(sv, a)
  PROVE  Predicted(sv, a)
<1>1. PICK fd \in Fds : /\ DlockBlocks(sv, Parent(a), fd)
                        /\ Opened(sv, fd, DirDesc(ent[sv][Parent(a)]))
  BY DEF LockHangs, Parent
<1>2. fd = FirstFd(sv) /\ fd \in FreeFds(sv)
  BY <1>1, FreeNumbers, LeastIs DEF DlockBlocks, FirstFd
<1>3. Verdict(sv, a) = "blocked"
  BY <1>1, <1>2 DEF DlockBlocks, CanOpendir, Verdict
<1>4. fdt'[sv] = OneOpened(sv, a)
  BY <1>1, <1>2, ChangedTo DEF Opened, OneOpened
<1>5. UNCHANGED <<ent, node, lock>> /\ hung'[sv] = TRUE
  BY ChangedTo DEF LockHangs, Hangs
<1>6. QED
  BY <1>3, <1>4, <1>5 DEF Predicted, EntAfter, NodeAfter, FdtAfter, LockAfter, HungAfter, RetAfter,
                          IsDone

\* The parent cannot be locked.
LEMMA NotLockedPredicted ==
  ASSUME ServerTypeOK, NEW sv \in Servers, ~hung[sv], NEW a, LocksOne(a), DirectoryNotLocked(sv, a)
  PROVE  Predicted(sv, a)
<1>1. /\ Locks(a) /\ a.op # "rename"
      /\ Permitted(sv, a) <=> is_parent_dir_valid(sv, a.path, a.ip, a.op)
  BY DEF LocksOne, Locks, Permitted
<1>2. CASE NotPermitted(sv, a, a.path)
  <2>1. Verdict(sv, a) = "refused"
    BY <1>1, <1>2 DEF NotPermitted, Verdict
  <2>2. QED
    BY <1>2, <2>1, ReturnsPredicted DEF NotPermitted
<1>3. CASE LockFails(sv, a)
  <2>1. Verdict(sv, a) = "failed"
    BY <1>1, <1>3 DEF LockFails, Verdict, Parent
  <2>2. QED
    BY <1>3, <2>1, ReturnsPredicted DEF LockFails
<1>4. CASE LockHangs(sv, a)
  BY <1>1, <1>4, LockHangsPredicted DEF LockHangs
<1>5. QED
  BY <1>2, <1>3, <1>4 DEF DirectoryNotLocked

\* The parent is locked.
LEMMA LockedPredicted ==
  ASSUME ServerTypeOK, NEW sv \in Servers, NEW a, LocksOne(a), NEW fd \in Fds,
         LocksDirectory(sv, a, fd)
  PROVE  /\ fdt'[sv] = OneOpened(sv, a)
         /\ Verdict(sv, a) = IF Possible(sv, a) THEN "done" ELSE "vain"
<1>1. /\ Locks(a) /\ a.op # "rename"
      /\ Permitted(sv, a) <=> is_parent_dir_valid(sv, a.path, a.ip, a.op)
  BY DEF LocksOne, Locks, Permitted
<1>2. fd = FirstFd(sv) /\ fd \in FreeFds(sv)
  BY FreeNumbers, LeastIs DEF LocksDirectory, dlock, FirstFd
<1>3. fdt'[sv] = OneOpened(sv, a)
  BY <1>2, ChangedTo DEF LocksDirectory, Opened, OneOpened, Parent
<1>4. CanOpendir(sv, Parent(a)) /\ lock[sv][ent[sv][Parent(a)]] = None
  BY <1>2 DEF LocksDirectory, dlock, CanOpendir, Parent
<1>5. Permitted(sv, a)
  BY <1>1 DEF LocksDirectory
<1>6. QED
  BY <1>1, <1>3, <1>4, <1>5 DEF Verdict

\* What follows under the lock: nothing, a new name, or one less.
LEMMA VainPredicted ==
  ASSUME ServerTypeOK, NEW sv \in Servers, ~hung[sv], NEW a, LocksOne(a), NEW fd \in Fds,
         LocksDirectory(sv, a, fd), ~Possible(sv, a), Answers(sv, a, "ERR", None),
         UNCHANGED <<ent, node, lock, hung>>
  PROVE  Predicted(sv, a)
<1>1. fdt'[sv] = OneOpened(sv, a) /\ Verdict(sv, a) = "vain" /\ Locks(a)
  BY LockedPredicted DEF Locks
<1>2. reply'[sv].ret = "ERR"
  BY ChangedTo
<1>3. QED
  BY <1>1, <1>2 DEF Predicted, EntAfter, NodeAfter, FdtAfter, LockAfter, HungAfter, RetAfter, IsDone

LEMMA CreatePredicted ==
  ASSUME ServerTypeOK, NEW sv \in Servers, NEW a, Verdict(sv, a) = "done", Creates(sv, a),
         Create(sv, NameOf(a), FileMade(a))
  PROVE  ent'[sv] = EntAfter(sv, a) /\ node'[sv] = NodeAfter(sv, a)
<1>1. PICK i \in LowestOf(FreeInodes(sv)) :
        /\ ent' = [ent EXCEPT ![sv] = [ent[sv] EXCEPT ![NameOf(a)] = i]]
        /\ node' = [node EXCEPT ![sv] = [node[sv] EXCEPT ![i] = FileMade(a)]]
  BY DEF Create, SetNode
<1>2. i = Least(FreeInodes(sv))
  BY FreeNumbers, LeastIs
<1>3. /\ ent'[sv] = [ent[sv] EXCEPT ![NameOf(a)] = i]
      /\ node'[sv] = [node[sv] EXCEPT ![i] = FileMade(a)]
  BY <1>1, ChangedTo
<1>4. QED
  BY <1>2, <1>3 DEF EntAfter, NodeAfter, IsDone

LEMMA MakesPredicted ==
  ASSUME ServerTypeOK, NEW sv \in Servers, ~hung[sv], NEW a, a.op \in {"mkdir", "mknod"},
         NEW fd \in Fds, LocksDirectory(sv, a, fd), Possible(sv, a),
         Create(sv, a.path, FileMade(a)), Answers(sv, a, "OK", None), UNCHANGED <<lock, hung>>
  PROVE  Predicted(sv, a)
<1>1. /\ LocksOne(a) /\ Locks(a) /\ Creates(sv, a) /\ NameOf(a) = a.path /\ a.op # "link"
  BY DEF LocksOne, Locks, Creates, NameOf
<1>2. fdt'[sv] = OneOpened(sv, a) /\ Verdict(sv, a) = "done"
  BY <1>1, LockedPredicted
<1>3. ent'[sv] = EntAfter(sv, a) /\ node'[sv] = NodeAfter(sv, a)
  BY <1>1, <1>2, CreatePredicted
<1>4. reply'[sv].ret = "OK"
  BY ChangedTo
<1>5. QED
  BY <1>1, <1>2, <1>3, <1>4 DEF Predicted, FdtAfter, LockAfter, HungAfter, RetAfter, IsDone

LEMMA RemovesPredicted ==
  ASSUME ServerTypeOK, NEW sv \in Servers, ~hung[sv], NEW a, Deletes(a),
         NEW fd \in Fds, LocksDirectory(sv, a, fd), Possible(sv, a),
         Removes(sv, a), UNCHANGED <<lock, hung>>
  PROVE  Predicted(sv, a)
<1>1. LocksOne(a) /\ Locks(a) /\ ~Creates(sv, a) /\ a.op # "link"
  BY DEF Deletes, LocksOne, Locks, Creates
<1>2. fdt'[sv] = OneOpened(sv, a) /\ Verdict(sv, a) = "done"
  BY <1>1, LockedPredicted
<1>3. fdt'[sv] = FdtAfter(sv, a)
  BY <1>1, <1>2 DEF FdtAfter
<1>4. ent'[sv] = EntAfter(sv, a)
  BY <1>1, <1>2, ChangedTo DEF Removes, EntAfter, IsDone
<1>5. node'[sv] = Reaped(node[sv], ent'[sv], fdt'[sv])
  BY ChangedTo DEF Removes, ReapNodes
<1>6. node'[sv] = NodeAfter(sv, a)
  BY <1>1, <1>2, <1>3, <1>4, <1>5 DEF NodeAfter, IsDone
<1>7. reply'[sv].ret = "OK"
  BY ChangedTo DEF Removes
<1>8. QED
  BY <1>1, <1>2, <1>3, <1>4, <1>6, <1>7 DEF Predicted, LockAfter, HungAfter, RetAfter, IsDone

-----------------------------------------------------------------------------
(* The handlers, one by one. *)

LEMMA MkdirPredicted ==
  ASSUME ServerTypeOK, NEW sv \in Servers, ~hung[sv], NEW a, a.op = "mkdir", bb_mkdir(sv, a)
  PROVE  Predicted(sv, a)
<1>1. LocksOne(a) /\ (Possible(sv, a) <=> ~CannotCreate(sv, a.path))
  BY DEF LocksOne, Possible
<1>2. CASE DirectoryNotLocked(sv, a)
  BY <1>1, <1>2, NotLockedPredicted
<1>3. ASSUME NEW fd \in Fds, LocksDirectory(sv, a, fd), UNCHANGED <<lock, hung>>,
             CannotCreate(sv, a.path), Answers(sv, a, "ERR", None), UNCHANGED <<ent, node>>
      PROVE  Predicted(sv, a)
  BY <1>1, <1>3, VainPredicted
<1>4. ASSUME NEW fd \in Fds, LocksDirectory(sv, a, fd), UNCHANGED <<lock, hung>>,
             ~CannotCreate(sv, a.path), Answers(sv, a, "OK", None),
             Create(sv, a.path, NewFile("dir", a.ip, Masked(a.mode)))
      PROVE  Predicted(sv, a)
  <2>1. FileMade(a) = NewFile("dir", a.ip, Masked(a.mode))
    BY DEF FileMade
  <2>2. QED
    BY <1>1, <1>4, <2>1, MakesPredicted
<1>5. QED
  BY <1>2, <1>3, <1>4 DEF bb_mkdir

LEMMA MknodPredicted ==
  ASSUME ServerTypeOK, NEW sv \in Servers, ~hung[sv], NEW a, a.op = "mknod", bb_mknod(sv, a)
  PROVE  Predicted(sv, a)
<1>1. LocksOne(a) /\ (Possible(sv, a) <=> ~CannotMknod(sv, a))
  BY DEF LocksOne, Possible
<1>2. CASE DirectoryNotLocked(sv, a)
  BY <1>1, <1>2, NotLockedPredicted
<1>3. ASSUME NEW fd \in Fds, LocksDirectory(sv, a, fd), UNCHANGED <<lock, hung>>,
             CannotMknod(sv, a), Answers(sv, a, "ERR", None), UNCHANGED <<ent, node>>
      PROVE  Predicted(sv, a)
  BY <1>1, <1>3, VainPredicted
<1>4. ASSUME NEW fd \in Fds, LocksDirectory(sv, a, fd), UNCHANGED <<lock, hung>>,
             ~CannotMknod(sv, a), Answers(sv, a, "OK", None),
             Create(sv, a.path, NewFile(a.kind, a.ip, Masked(a.mode)))
      PROVE  Predicted(sv, a)
  <2>1. FileMade(a) = NewFile(a.kind, a.ip, Masked(a.mode))
    BY DEF FileMade
  <2>2. QED
    BY <1>1, <1>4, <2>1, MakesPredicted
<1>5. QED
  BY <1>2, <1>3, <1>4 DEF bb_mknod

LEMMA DeletionPredicted ==
  ASSUME ServerTypeOK, NEW sv \in Servers, ~hung[sv], NEW a,
         \/ a.op = "rmdir" /\ bb_rmdir(sv, a)
         \/ a.op = "unlink" /\ bb_unlink(sv, a)
  PROVE  Predicted(sv, a)
<1>1. /\ LocksOne(a) /\ Deletes(a)
      /\ a.op = "rmdir" => (Possible(sv, a) <=> CanRmdir(sv, a.path))
      /\ a.op = "unlink" => (Possible(sv, a) <=> CanUnlink(sv, a.path))
  BY DEF LocksOne, Deletes, Possible
<1>2. CASE DirectoryNotLocked(sv, a)
  BY <1>1, <1>2, NotLockedPredicted
<1>3. ASSUME NEW fd \in Fds, LocksDirectory(sv, a, fd), UNCHANGED <<lock, hung>>,
             ~Possible(sv, a), Answers(sv, a, "ERR", None), UNCHANGED <<ent, node>>
      PROVE  Predicted(sv, a)
  BY <1>1, <1>3, VainPredicted
<1>4. ASSUME NEW fd \in Fds, LocksDirectory(sv, a, fd), UNCHANGED <<lock, hung>>,
             Possible(sv, a), Removes(sv, a)
      PROVE  Predicted(sv, a)
  BY <1>1, <1>4, RemovesPredicted
<1>5. QED
  BY <1>1, <1>2, <1>3, <1>4 DEF bb_rmdir, bb_unlink

LEMMA SymlinkPredicted ==
  ASSUME ServerTypeOK, NEW sv \in Servers, ~hung[sv], NEW a, a.op = "symlink", bb_symlink(sv, a)
  PROVE  Predicted(sv, a)
<1>1. /\ ~Locks(a) /\ (Possible(sv, a) <=> ~CannotSymlink(sv, a.link))
      /\ Permitted(sv, a) <=> is_parent_dir_valid(sv, a.link, a.ip, a.op)
  BY DEF LocksOne, Locks, Possible, Permitted
<1>2. CASE NotPermitted(sv, a, a.link)
  <2>1. Verdict(sv, a) = "refused"
    BY <1>1, <1>2 DEF NotPermitted, Verdict
  <2>2. QED
    BY <1>2, <2>1, ReturnsPredicted DEF NotPermitted
<1>3. CASE /\ is_parent_dir_valid(sv, a.link, a.ip, a.op) /\ CannotSymlink(sv, a.link)
           /\ Returns(sv, a, "ERR")
  <2>1. Verdict(sv, a) = "failed"
    BY <1>1, <1>3 DEF Verdict
  <2>2. QED
    BY <1>3, <2>1, ReturnsPredicted
<1>4. CASE /\ is_parent_dir_valid(sv, a.link, a.ip, a.op) /\ ~CannotSymlink(sv, a.link)
           /\ Create(sv, a.link, NewLink(a.target, a.ip))
           /\ Answers(sv, a, "OK", None) /\ UNCHANGED <<fdt, lock, hung>>
  <2>1. /\ Verdict(sv, a) = "done" /\ Creates(sv, a) /\ NameOf(a) = a.link
        /\ FileMade(a) = NewLink(a.target, a.ip)
    BY <1>1, <1>4 DEF Verdict, Creates, NameOf, FileMade
  <2>2. ent'[sv] = EntAfter(sv, a) /\ node'[sv] = NodeAfter(sv, a)
    BY <1>4, <2>1, CreatePredicted
  <2>3. reply'[sv].ret = "OK"
    BY <1>4, ChangedTo
  <2>4. QED
    BY <1>1, <1>4, <2>1, <2>2, <2>3
    DEF Predicted, FdtAfter, LockAfter, HungAfter, RetAfter, IsDone
<1>5. QED
  BY <1>2, <1>3, <1>4 DEF bb_symlink

\* A file that is there is changed.
LEMMA ChangePredicted ==
  ASSUME ServerTypeOK, NEW sv \in Servers, ~hung[sv], NEW a, NEW p,
         Verdict(sv, a) = "done", ~Locks(a), ~Creates(sv, a), a.op # "link",
         Touched(sv, a) = p, p # None, SetNode(sv, ent[sv][p], FileChanged(File(sv, p), a)),
         Answers(sv, a, "OK", None), UNCHANGED <<ent, fdt, lock, hung>>
  PROVE  Predicted(sv, a)
<1>1. ~Deletes(a) /\ a.op # "rename"
  BY DEF Deletes, Locks, LocksOne
<1>2. node'[sv] = [node[sv] EXCEPT ![ent[sv][p]] = FileChanged(node[sv][ent[sv][p]], a)]
  BY ChangedTo DEF SetNode, File
<1>3. ent'[sv] = EntAfter(sv, a) /\ Changed(sv, a) = ent[sv][p]
  BY <1>1 DEF EntAfter, Changed
<1>4. node'[sv] = NodeAfter(sv, a)
  BY <1>1, <1>2, <1>3 DEF NodeAfter, IsDone
<1>5. reply'[sv].ret = "OK"
  BY ChangedTo
<1>6. QED
  BY <1>3, <1>4, <1>5 DEF Predicted, FdtAfter, LockAfter, HungAfter, RetAfter, IsDone

LEMMA TruncatePredicted ==
  ASSUME ServerTypeOK, NEW sv \in Servers, ~hung[sv], NEW a, a.op = "truncate",
         bb_truncate(sv, a)
  PROVE  Predicted(sv, a)
<1> DEFINE p == LeadsTo(sv, a.path)
<1>1. /\ ~Locks(a) /\ Permitted(sv, a) /\ (Possible(sv, a) <=> LeadsToFile(sv, a.path))
      /\ ~Creates(sv, a) /\ Touched(sv, a) = p
  BY DEF LocksOne, Locks, Possible, Permitted, Creates, Touched
<1>2. CASE ~LeadsToFile(sv, a.path) /\ Returns(sv, a, "ERR")
  <2>1. Verdict(sv, a) = "failed"
    BY <1>1, <1>2 DEF Verdict
  <2>2. QED
    BY <1>2, <2>1, ReturnsPredicted
<1>3. CASE /\ LeadsToFile(sv, a.path)
           /\ SetNode(sv, ent[sv][p], [File(sv, p) EXCEPT !.data = Resized(@, a.newsize)])
           /\ Answers(sv, a, "OK", None)
           /\ UNCHANGED <<ent, fdt, lock, hung>>
  <2>1. Verdict(sv, a) = "done" /\ p # None
    BY <1>1, <1>3 DEF Verdict, LeadsToFile
  <2>2. \A n : FileChanged(n, a) = [n EXCEPT !.data = Resized(@, a.newsize)]
    BY DEF FileChanged
  <2> HIDE DEF p
  <2>3. QED
    BY <1>1, <1>3, <2>1, <2>2, ChangePredicted
<1>4. QED
  BY <1>2, <1>3 DEF bb_truncate

LEMMA ChmodPredicted ==
  ASSUME ServerTypeOK, NEW sv \in Servers, ~hung[sv], NEW a, a.op = "chmod", bb_chmod(sv, a)
  PROVE  Predicted(sv, a)
<1> DEFINE p == LeadsTo(sv, a.path)
<1>1. /\ ~Locks(a) /\ (Permitted(sv, a) <=> is_owner(sv, a.path, a.ip))
      /\ (Possible(sv, a) <=> p # None) /\ ~Creates(sv, a) /\ Touched(sv, a) = p
  BY DEF LocksOne, Locks, Possible, Permitted, Creates, Touched
<1>2. CASE ~is_owner(sv, a.path, a.ip) /\ Returns(sv, a, "EACCES")
  <2>1. Verdict(sv, a) = "refused"
    BY <1>1, <1>2 DEF Verdict
  <2>2. QED
    BY <1>2, <2>1, ReturnsPredicted
<1>3. CASE is_owner(sv, a.path, a.ip) /\ p = None /\ Returns(sv, a, "ERR")
  <2>1. Verdict(sv, a) = "failed"
    BY <1>1, <1>3 DEF Verdict
  <2>2. QED
    BY <1>3, <2>1, ReturnsPredicted
<1>4. CASE is_owner(sv, a.path, a.ip) /\ p # None /\ SetsMode(sv, a, p)
  <2>1. Verdict(sv, a) = "done"
    BY <1>1, <1>4 DEF Verdict
  <2>2. \A n : FileChanged(n, a) = [n EXCEPT !.mode = a.mode]
    BY DEF FileChanged
  <2> HIDE DEF p
  <2>3. SetNode(sv, ent[sv][p], FileChanged(File(sv, p), a))
    BY <1>4, <2>2 DEF SetsMode
  <2>4. QED
    BY <1>1, <1>4, <2>1, <2>3, ChangePredicted DEF SetsMode
<1>5. QED
  BY <1>2, <1>3, <1>4 DEF bb_chmod

LEMMA UtimePredicted ==
  ASSUME ServerTypeOK, NEW sv \in Servers, ~hung[sv], NEW a, a.op = "utime", bb_utime(sv, a)
  PROVE  Predicted(sv, a)
<1> DEFINE p == LeadsTo(sv, a.path)
<1>1. /\ ~Locks(a) /\ (Permitted(sv, a) <=> is_owner(sv, a.path, a.ip)) /\ ~Deletes(a)
      /\ (Possible(sv, a) <=> p # None) /\ ~Creates(sv, a) /\ Touched(sv, a) = p
  BY DEF LocksOne, Locks, Possible, Permitted, Creates, Touched, Deletes
<1>2. CASE ~is_owner(sv, a.path, a.ip) /\ Returns(sv, a, "EACCES")
  <2>1. Verdict(sv, a) = "refused"
    BY <1>1, <1>2 DEF Verdict
  <2>2. QED
    BY <1>2, <2>1, ReturnsPredicted
<1>3. CASE is_owner(sv, a.path, a.ip) /\ p = None /\ Returns(sv, a, "ERR")
  <2>1. Verdict(sv, a) = "failed"
    BY <1>1, <1>3 DEF Verdict
  <2>2. QED
    BY <1>3, <2>1, ReturnsPredicted
<1>4. CASE is_owner(sv, a.path, a.ip) /\ p # None /\ Returns(sv, a, "OK")
  <2>1. Verdict(sv, a) = "done"
    BY <1>1, <1>4 DEF Verdict
  <2>2. reply'[sv].ret = "OK" /\ UNCHANGED <<ent, node, fdt, lock, hung>>
    BY <1>4, ChangedTo DEF Returns
  <2>3. \A n : FileChanged(n, a) = n
    BY DEF FileChanged
  <2>4. [node[sv] EXCEPT ![Changed(sv, a)] = node[sv][Changed(sv, a)]] = node[sv]
    BY DEF ServerTypeOK
  <2>5. NodeAfter(sv, a) = node[sv] /\ EntAfter(sv, a) = ent[sv]
    BY <1>1, <2>1, <2>3, <2>4 DEF NodeAfter, EntAfter, IsDone
  <2>6. QED
    BY <1>1, <2>1, <2>2, <2>5 DEF Predicted, FdtAfter, LockAfter, HungAfter, RetAfter, IsDone
<1>5. QED
  BY <1>2, <1>3, <1>4 DEF bb_utime

\* The owner of what the new name leads to is changed.
LEMMA LinkPredicted ==
  ASSUME ServerTypeOK, NEW sv \in Servers, ~hung[sv], NEW a, a.op = "link", bb_link(sv, a)
  PROVE  Predicted(sv, a)
<1> DEFINE linked == [ent[sv] EXCEPT ![a.newpath] = ent[sv][a.path]]
           owned  == Followed(linked, node[sv], a.newpath)
<1>1. /\ ~Locks(a) /\ (Permitted(sv, a) <=> RenamePermitted(sv, a)) /\ ~Deletes(a)
      /\ (Possible(sv, a) <=> CanLink(sv, a.path, a.newpath)) /\ ~Creates(sv, a)
      /\ Linked(sv, a) = linked /\ Touched(sv, a) = owned
  BY DEF LocksOne, Locks, Possible, Permitted, Creates, Touched, Deletes, Linked
<1>2. CASE ~RenamePermitted(sv, a) /\ Returns(sv, a, "EACCES")
  <2>1. Verdict(sv, a) = "refused"
    BY <1>1, <1>2 DEF Verdict
  <2>2. QED
    BY <1>2, <2>1, ReturnsPredicted
<1>3. CASE RenamePermitted(sv, a) /\ ~CanLink(sv, a.path, a.newpath) /\ Returns(sv, a, "ERR")
  <2>1. Verdict(sv, a) = "failed"
    BY <1>1, <1>3 DEF Verdict
  <2>2. QED
    BY <1>3, <2>1, ReturnsPredicted
<1>4. ASSUME RenamePermitted(sv, a), CanLink(sv, a.path, a.newpath),
             ent' = [ent EXCEPT ![sv] = linked], UNCHANGED <<fdt, lock, hung>>,
             \/ owned = None /\ Answers(sv, a, "ERR", None) /\ UNCHANGED node
             \/ /\ owned # None
                /\ SetNode(sv, linked[owned], [node[sv][linked[owned]] EXCEPT !.uid = a.ip])
                /\ Answers(sv, a, "OK", None)
      PROVE  Predicted(sv, a)
  <2> HIDE DEF owned, linked
  <2>1. Verdict(sv, a) = "done"
    BY <1>1, <1>4 DEF Verdict
  <2>2. ent'[sv] = EntAfter(sv, a) /\ EntAfter(sv, a) = linked
    BY <1>1, <1>4, <2>1, ChangedTo DEF EntAfter, IsDone
  <2>3. \A n : FileChanged(n, a) = [n EXCEPT !.uid = a.ip]
    BY DEF FileChanged
  <2>4. node'[sv] = NodeAfter(sv, a)
    <3>1. CASE owned = None
      BY <1>1, <1>4, <2>1, <3>1 DEF NodeAfter, IsDone
    <3>2. CASE owned # None
      <4> DEFINE i == linked[owned]
      <4>1. Changed(sv, a) = i
        BY <1>1, <2>2 DEF Changed
      <4>2. SetNode(sv, i, FileChanged(node[sv][i], a))
        BY <1>4, <2>3, <3>2
      <4> HIDE DEF i
      <4>3. node'[sv] = [node[sv] EXCEPT ![i] = FileChanged(node[sv][i], a)]
        BY <4>2, ChangedTo DEF SetNode
      <4>4. QED
        BY <1>1, <2>1, <3>2, <4>1, <4>3 DEF NodeAfter, IsDone
    <3>3. QED
      BY <3>1, <3>2
  <2>5. reply'[sv].ret = IF owned = None THEN "ERR" ELSE "OK"
    BY <1>4, ChangedTo
  <2>6. QED
    BY <1>1, <1>4, <2>1, <2>2, <2>4, <2>5
    DEF Predicted, FdtAfter, LockAfter, HungAfter, RetAfter, IsDone
<1>5. QED
  BY <1>2, <1>3, <1>4 DEF bb_link, RenamePermitted

LEMMA InitPredicted ==
  ASSUME ServerTypeOK, NEW sv \in Servers, ~hung[sv], NEW a, a.op = "init_rootdir",
         init_rootdir(sv, a)
  PROVE  Predicted(sv, a)
<1>1. /\ ~Locks(a) /\ Permitted(sv, a) /\ Possible(sv, a) /\ NameOf(a) = Root
      /\ Creates(sv, a) <=> ~Exists(sv, Root)
      /\ Touched(sv, a) = Root /\ Root # None
  BY PathsAssumption DEF LocksOne, Locks, Possible, Permitted, Creates, NameOf, Touched,
                         init_rootdir, Create, LowestOf, AnyPath
<1>2. Verdict(sv, a) = "done" /\ reply'[sv].ret = "OK"
  BY <1>1, ChangedTo DEF Verdict, init_rootdir
<1>3. CASE ~Exists(sv, Root)
  <2>1. FileMade(a) = NewFile("dir", RootUid, FullMode)
    BY DEF FileMade
  <2>2. ent'[sv] = EntAfter(sv, a) /\ node'[sv] = NodeAfter(sv, a)
    BY <1>1, <1>2, <1>3, <2>1, CreatePredicted DEF init_rootdir
  <2>3. QED
    BY <1>1, <1>2, <2>2
    DEF Predicted, FdtAfter, LockAfter, HungAfter, RetAfter, IsDone, init_rootdir
<1>4. CASE Exists(sv, Root)
  <2>1. \A n : FileChanged(n, a) = [n EXCEPT !.mode = FullMode]
    BY DEF FileChanged
  <2>2. QED
    BY <1>1, <1>2, <1>4, <2>1, ChangePredicted DEF init_rootdir
<1>5. QED
  BY <1>3, <1>4

\* rename with all it needs locked, and its descriptors open.
LEMMA EffectPredicted ==
  ASSUME ServerTypeOK, NEW sv \in Servers, ~hung[sv], NEW a, a.op = "rename",
         Verdict(sv, a) \in {"done", "vain", "doneBoth", "vainBoth"},
         IsDone(sv, a) <=> CanRename(sv, a.path, a.newpath),
         fdt'[sv] = FdtAfter(sv, a), RenameEffect(sv, a)
  PROVE  Predicted(sv, a)
<1>1. ~Creates(sv, a) /\ ~Deletes(a)
  BY DEF Creates, Deletes
<1>2. CASE ~CanRename(sv, a.path, a.newpath)
  <2>1. reply'[sv].ret = "ERR" /\ UNCHANGED <<ent, node, lock, hung>>
    BY <1>2, ChangedTo DEF RenameEffect
  <2>2. QED
    BY <1>2, <2>1 DEF Predicted, EntAfter, NodeAfter, LockAfter, HungAfter, RetAfter
<1>3. CASE CanRename(sv, a.path, a.newpath)
  <2>1. /\ ent'[sv] = Renamed(sv, a.path, a.newpath) /\ reply'[sv].ret = "OK"
        /\ node'[sv] = Reaped(node[sv], ent'[sv], fdt'[sv]) /\ UNCHANGED <<lock, hung>>
    BY <1>3, ChangedTo DEF RenameEffect, ReapNodes
  <2>2. ent'[sv] = EntAfter(sv, a)
    BY <1>1, <1>3, <2>1 DEF EntAfter
  <2>3. node'[sv] = NodeAfter(sv, a)
    BY <1>1, <1>3, <2>1, <2>2 DEF NodeAfter
  <2>4. QED
    BY <1>3, <2>1, <2>2, <2>3 DEF Predicted, LockAfter, HungAfter, RetAfter
<1>4. QED
  BY <1>2, <1>3

\* rename once the first parent is locked.
LEMMA SecondParentPredicted ==
  ASSUME ServerTypeOK, NEW sv \in Servers, ~hung[sv], NEW a, a.op = "rename",
         RenamePermitted(sv, a), ~OneParent(a), NEW fd \in Fds, dlock(sv, Parent(a), fd),
         RenameSecondParent(sv, a, fd)
  PROVE  Predicted(sv, a)
<1> DEFINE first == ent[sv][Parent(a)]
           second == ent[sv][NewParent(a)]
           more == LowestOf(FreeFds(sv) \ {fd})
           isdir == IsKind(sv, NewParent(a), "dir")
<1>1. fd = FirstFd(sv) /\ fd \in FreeFds(sv) /\ FreeFds(sv) \ {fd} = OtherFds(sv)
  BY FreeNumbers, LeastIs DEF dlock, FirstFd, OtherFds
<1>2. /\ Locks(a) /\ ~LocksOne(a) /\ Permitted(sv, a) /\ CanOpendir(sv, Parent(a))
      /\ lock[sv][first] = None
  BY <1>1 DEF LocksOne, Locks, Permitted, dlock, CanOpendir
<1>3. Verdict(sv, a) = IF ~isdir \/ OtherFds(sv) = {} THEN "abandoned"
                       ELSE IF SecondTaken(sv, a) THEN "blockedBoth"
                       ELSE IF Possible(sv, a) THEN "doneBoth" ELSE "vainBoth"
  BY <1>2 DEF Verdict
<1>4. more # {} => OtherFds(sv) # {}
  BY <1>1 DEF LowestOf
<1>5. OtherFds(sv) # {} => more # {}
  BY <1>1, FreeNumbers, LowestIn
<1>6. /\ Opened(sv, fd, DirDesc(first)) => fdt'[sv] = OneOpened(sv, a)
      /\ \A d \in more :
           fdt' = [fdt EXCEPT ![sv] = [@ EXCEPT ![fd] = DirDesc(first), ![d] = DirDesc(second)]]
             => fdt'[sv] = BothOpened(sv, a)
  <2>1. \A d \in more : d = Least(OtherFds(sv))
    BY <1>1, FreeNumbers, LeastIs
  <2>2. QED
    BY <1>1, <2>1, ChangedTo DEF Opened, OneOpened, BothOpened
<1>7. SetLock(sv, first, fd) => /\ lock'[sv] = [lock[sv] EXCEPT ![first] = FirstFd(sv)]
                                /\ \A s \in Servers \ {sv} : lock'[s] = lock[s]
  BY <1>1, ChangedTo DEF SetLock
<1>8. CASE /\ ~isdir \/ more = {}
           /\ Opened(sv, fd, DirDesc(first)) /\ SetLock(sv, first, fd)
           /\ Answers(sv, a, "ERR", None) /\ UNCHANGED <<ent, node, hung>>
  <2>1. Verdict(sv, a) = "abandoned" /\ reply'[sv].ret = "ERR"
    BY <1>3, <1>5, <1>8, ChangedTo
  <2>2. QED
    BY <1>2, <1>6, <1>7, <1>8, <2>1
    DEF Predicted, EntAfter, NodeAfter, FdtAfter, LockAfter, HungAfter, RetAfter, IsDone
<1>9. ASSUME isdir, SecondTaken(sv, a), NEW d \in more,
             fdt' = [fdt EXCEPT ![sv] = [@ EXCEPT ![fd] = DirDesc(first),
                                                  ![d] = DirDesc(second)]],
             SetLock(sv, first, fd), Hangs(sv)
      PROVE  Predicted(sv, a)
  <2>1. Verdict(sv, a) = "blockedBoth" /\ fdt'[sv] = BothOpened(sv, a)
    BY <1>3, <1>4, <1>6, <1>9
  <2>2. hung'[sv] = TRUE /\ UNCHANGED <<ent, node>>
    BY <1>9, ChangedTo DEF Hangs
  <2>3. QED
    BY <1>2, <1>7, <1>9, <2>1, <2>2
    DEF Predicted, EntAfter, NodeAfter, FdtAfter, LockAfter, HungAfter, RetAfter, IsDone
<1>10. ASSUME isdir, ~SecondTaken(sv, a), NEW d \in more,
              fdt' = [fdt EXCEPT ![sv] = [@ EXCEPT ![fd] = DirDesc(first),
                                                   ![d] = DirDesc(second)]],
              RenameEffect(sv, a)
       PROVE  Predicted(sv, a)
  <2>1. Verdict(sv, a) = (IF Possible(sv, a) THEN "doneBoth" ELSE "vainBoth")
    BY <1>3, <1>4, <1>10
  <2>2. fdt'[sv] = FdtAfter(sv, a)
    BY <1>2, <1>6, <1>10, <2>1 DEF FdtAfter
  <2>3. Possible(sv, a) <=> CanRename(sv, a.path, a.newpath)
    BY DEF Possible
  <2>4. QED
    BY <1>10, <2>1, <2>2, <2>3, EffectPredicted DEF IsDone
<1>11. QED
  BY <1>8, <1>9, <1>10 DEF RenameSecondParent, SecondTaken, Parent, NewParent

LEMMA RenamePredicted ==
  ASSUME ServerTypeOK, NEW sv \in Servers, ~hung[sv], NEW a, a.op = "rename", bb_rename(sv, a)
  PROVE  Predicted(sv, a)
<1>1. Locks(a) /\ (Permitted(sv, a) <=> RenamePermitted(sv, a))
  BY DEF LocksOne, Locks, Permitted
<1>2. CASE ~RenamePermitted(sv, a) /\ Returns(sv, a, "EACCES")
  <2>1. Verdict(sv, a) = "refused"
    BY <1>1, <1>2 DEF Verdict
  <2>2. QED
    BY <1>2, <2>1, ReturnsPredicted
<1>3. CASE RenamePermitted(sv, a) /\ LockFails(sv, a)
  <2>1. Verdict(sv, a) = "failed"
    BY <1>1, <1>3 DEF LockFails, Verdict, Parent
  <2>2. QED
    BY <1>3, <2>1, ReturnsPredicted DEF LockFails
<1>4. CASE RenamePermitted(sv, a) /\ LockHangs(sv, a)
  BY <1>1, <1>4, LockHangsPredicted
<1>5. ASSUME RenamePermitted(sv, a), OneParent(a), NEW fd \in Fds, LocksDirectory(sv, a, fd),
             RenameEffect(sv, a)
      PROVE  Predicted(sv, a)
  <2>1. fd = FirstFd(sv) /\ fd \in FreeFds(sv)
    BY <1>5, FreeNumbers, LeastIs DEF LocksDirectory, dlock, FirstFd
  <2>2. CanOpendir(sv, Parent(a)) /\ lock[sv][ent[sv][Parent(a)]] = None
    BY <1>5, <2>1 DEF LocksDirectory, dlock, CanOpendir, Parent
  <2>3. fdt'[sv] = OneOpened(sv, a)
    BY <1>5, <2>1, ChangedTo DEF LocksDirectory, Opened, OneOpened, Parent
  <2>4. Verdict(sv, a) = IF Possible(sv, a) THEN "done" ELSE "vain"
    BY <1>1, <1>5, <2>2 DEF Verdict
  <2>5. Possible(sv, a) <=> CanRename(sv, a.path, a.newpath)
    BY DEF Possible
  <2>6. fdt'[sv] = FdtAfter(sv, a)
    BY <1>1, <2>3, <2>4 DEF FdtAfter
  <2>7. QED
    BY <1>5, <2>4, <2>5, <2>6, EffectPredicted DEF IsDone
<1>6. ASSUME RenamePermitted(sv, a), ~OneParent(a), NEW fd \in Fds,
             dlock(sv, get_parent_path(a.path), fd), RenameSecondParent(sv, a, fd)
      PROVE  Predicted(sv, a)
  BY <1>6, SecondParentPredicted DEF Parent
<1>7. QED
  BY <1>2, <1>3, <1>4, <1>5, <1>6 DEF bb_rename

LEMMA PathKinds ==
  /\ \A a \in UpdatesByPath :
       a.op \in {"init_rootdir", "mkdir", "mknod", "rmdir", "unlink", "rename", "symlink",
                 "link", "truncate", "utime", "chmod"}
  /\ \A a \in LookupsByPath : a.op \in {"getattr", "access", "statfs", "readlink"}
BY DEF UpdatesByPath, LookupsByPath, init_arg, mkdir_arg, mknod_arg, rmdir_arg, unlink_arg,
       rename_arg, symlink_arg, link_arg, truncate_arg, utime_arg, chmod_arg, getattr_arg,
       access_arg, statfs_arg, readlink_arg

\* What an update by path makes of a server.
LEMMA UpdatePredicted ==
  ASSUME ServerTypeOK, NEW sv \in Servers, NEW a \in UpdatesByPath, compute_6(sv, a)
  PROVE  Predicted(sv, a)
<1>1. ~hung[sv]
  BY DEF compute_6
<1>2. CASE a.op \in {"init_rootdir", "mkdir", "mknod", "rmdir", "unlink", "rename"}
  BY <1>1, <1>2, InitPredicted, MkdirPredicted, MknodPredicted, DeletionPredicted,
     RenamePredicted DEF compute_6
<1>3. CASE a.op \in {"symlink", "link", "truncate", "utime", "chmod"}
  BY <1>1, <1>3, SymlinkPredicted, LinkPredicted, TruncatePredicted, UtimePredicted,
     ChmodPredicted DEF compute_6
<1>4. QED
  BY <1>2, <1>3, PathKinds

\* A lookup leaves its server as it is.
LEMMA LookupPredicted ==
  ASSUME NEW sv \in Servers, NEW a \in LookupsByPath, compute_6(sv, a)
  PROVE  UNCHANGED <<ent, node, fdt, lock, hung>>
BY PathKinds DEF compute_6, bb_getattr, bb_access, bb_statfs, bb_readlink, Returns

-----------------------------------------------------------------------------
(***************************************************************************)
(* Tables that differ in inode numbers only.  A renumbering is one to one, *)
(* so as many numbers are free at one server as at the other.  It relates  *)
(* the tables of the primary to those of the secondary.                    *)
(***************************************************************************)
Numbers == Inodes \cup {None}
Renumberings ==
  {m \in [Numbers -> Numbers] : /\ m[None] = None
                                /\ \A i, j \in Numbers : m[i] = m[j] => i = j
                                /\ \A j \in Numbers : \E i \in Numbers : m[i] = j}

SameNames(m, e, e2) == \A p \in AnyPath : e2[p] = m[e[p]]
SameAt(m, n, n2) == \A i \in Inodes : n2[m[i]] = n[i]
SameOpen(m, f, f2) ==
  \A fd \in Fds : /\ f2[fd] = None <=> f[fd] = None
                  /\ f[fd] # None => f2[fd].ino = m[f[fd].ino]
Image(m, e, n, f, l, e2, n2, f2, l2) ==
  SameNames(m, e, e2) /\ SameAt(m, n, n2) /\ SameOpen(m, f, f2) /\ SameAt(m, l, l2)

Matches(m) ==
  Image(m, ent[host1], node[host1], fdt[host1], lock[host1],
        ent[host2], node[host2], fdt[host2], lock[host2])
Alike == (hung[host1] <=> hung[host2]) /\ \E m \in Renumberings : Matches(m)

\* A lock is held through a descriptor that is open on the directory.
Holders ==
  \A sv \in Servers : \A i \in Inodes : lock[sv][i] # None =>
    fdt[sv][lock[sv][i]] # None /\ fdt[sv][lock[sv][i]].ino = i

LEMMA Hosts == host1 \in Servers /\ host2 \in Servers /\ host1 # host2
BY HostsAssumption

LEMMA TableTypes ==
  ASSUME ServerTypeOK, NEW sv \in Servers
  PROVE  /\ ent[sv] \in [AnyPath -> Numbers] /\ node[sv] \in [Inodes -> Node \cup {None}]
         /\ fdt[sv] \in [Fds -> Desc \cup {None}] /\ lock[sv] \in [Inodes -> Fds \cup {None}]
         /\ \A p \in AnyPath : Exists(sv, p) => ent[sv][p] \in Inodes
         /\ \A p \in AnyPath : ~Exists(sv, p) => ent[sv][p] = None
BY DEF ServerTypeOK, Numbers, Exists

LEMMA NumbersMap ==
  ASSUME NEW m \in Renumberings
  PROVE  /\ m[None] = None /\ None \notin Inodes
         /\ \A i \in Numbers : m[i] = None <=> i = None
         /\ \A i \in Inodes : m[i] \in Inodes
         /\ \A j \in Inodes : \E i \in Inodes : m[i] = j
         /\ \A i, j \in Numbers : m[i] = m[j] <=> i = j
BY NoneAssumption DEF Renumberings, Numbers

-----------------------------------------------------------------------------
(* What the handlers look at is the same on both servers. *)

LEMMA SamePath ==
  ASSUME ServerTypeOK, NEW m \in Renumberings, Matches(m), NEW p \in AnyPath
  PROVE  /\ Exists(host1, p) <=> Exists(host2, p)
         /\ Exists(host1, p) =>
              /\ File(host2, p) = File(host1, p)
              /\ lock[host2][ent[host2][p]] = lock[host1][ent[host1][p]]
         /\ \A kind : IsKind(host1, p, kind) <=> IsKind(host2, p, kind)
         /\ \A q \in AnyPath : ent[host1][p] = ent[host1][q] <=> ent[host2][p] = ent[host2][q]
<1>1. \A q \in AnyPath : ent[host2][q] = m[ent[host1][q]] /\ ent[host1][q] \in Numbers
  BY Hosts, TableTypes DEF Matches, Image, SameNames
<1>2. \A i \in Inodes : node[host2][m[i]] = node[host1][i] /\ lock[host2][m[i]] = lock[host1][i]
  BY DEF Matches, Image, SameAt
<1>3. Exists(host1, p) <=> Exists(host2, p)
  BY <1>1, NumbersMap DEF Exists
<1>4. Exists(host1, p) => ent[host1][p] \in Inodes
  BY Hosts, TableTypes
<1>5. Exists(host1, p) => /\ File(host2, p) = File(host1, p)
                          /\ lock[host2][ent[host2][p]] = lock[host1][ent[host1][p]]
  BY <1>1, <1>2, <1>4 DEF File
<1>6. \A q \in AnyPath : ent[host1][p] = ent[host1][q] <=> ent[host2][p] = ent[host2][q]
  BY <1>1, NumbersMap
<1>7. QED
  BY <1>3, <1>5, <1>6 DEF IsKind

LEMMA SameFree ==
  ASSUME ServerTypeOK, NEW m \in Renumberings, Matches(m)
  PROVE  /\ FreeFds(host1) = FreeFds(host2)
         /\ \A i \in Inodes : i \in FreeInodes(host1) <=> m[i] \in FreeInodes(host2)
         /\ FreeInodes(host1) = {} <=> FreeInodes(host2) = {}
<1>1. FreeFds(host1) = FreeFds(host2)
  BY DEF FreeFds, Matches, Image, SameOpen
<1>2. \A i \in Inodes : i \in FreeInodes(host1) <=> m[i] \in FreeInodes(host2)
  BY NumbersMap DEF FreeInodes, Matches, Image, SameAt
<1>3. FreeInodes(host1) = {} <=> FreeInodes(host2) = {}
  BY <1>2, NumbersMap DEF FreeInodes
<1>4. QED
  BY <1>1, <1>2, <1>3

LEMMA SameChecks ==
  ASSUME ServerTypeOK, NEW m \in Renumberings, Matches(m)
  PROVE  /\ \A ip : \A p \in AnyPath : is_owner(host1, p, ip) <=> is_owner(host2, p, ip)
         /\ \A ip, op : \A p \in Paths :
              is_parent_dir_valid(host1, p, ip, op) <=> is_parent_dir_valid(host2, p, ip, op)
         /\ \A p \in AnyPath : /\ CanOpendir(host1, p) <=> CanOpendir(host2, p)
                               /\ CannotCreate(host1, p) <=> CannotCreate(host2, p)
                               /\ CanRmdir(host1, p) <=> CanRmdir(host2, p)
                               /\ CanUnlink(host1, p) <=> CanUnlink(host2, p)
                               /\ LeadsTo(host1, p) = LeadsTo(host2, p)
                               /\ LeadsToFile(host1, p) <=> LeadsToFile(host2, p)
<1>1. \A ip : \A p \in AnyPath : is_owner(host1, p, ip) <=> is_owner(host2, p, ip)
  BY SamePath DEF is_owner
<1>2. \A ip, req : \A p \in AnyPath :
        is_op_valid(host1, p, ip, req) <=> is_op_valid(host2, p, ip, req)
  BY SamePath DEF is_op_valid
<1>3. \A p \in Paths : p \in AnyPath /\ get_parent_path(p) \in AnyPath
  BY PathsAssumption DEF AnyPath
<1>4. \A ip, op : \A p \in Paths :
        is_parent_dir_valid(host1, p, ip, op) <=> is_parent_dir_valid(host2, p, ip, op)
  BY <1>1, <1>2, <1>3, SamePath DEF is_parent_dir_valid
<1>5. \A p \in AnyPath : Children(host1, p) = Children(host2, p)
  BY <1>3, SamePath DEF Children
<1>6. \A p \in AnyPath : /\ CanOpendir(host1, p) <=> CanOpendir(host2, p)
                         /\ CannotCreate(host1, p) <=> CannotCreate(host2, p)
  BY SamePath, SameFree DEF CanOpendir, CannotCreate
<1>7. \A p \in AnyPath : /\ CanRmdir(host1, p) <=> CanRmdir(host2, p)
                         /\ CanUnlink(host1, p) <=> CanUnlink(host2, p)
  BY <1>5, SamePath DEF CanRmdir, CanUnlink
<1>8. \A p \in AnyPath : LeadsTo(host1, p) = LeadsTo(host2, p)
  BY SamePath, FollowedAlike DEF LeadsTo, Exists, File
<1>9. \A p \in AnyPath : LeadsToFile(host1, p) <=> LeadsToFile(host2, p)
  BY <1>8, Hosts, LeadsToFollowed, SamePath DEF LeadsToFile
<1>10. QED
  BY <1>1, <1>4, <1>6, <1>7, <1>8, <1>9

\* The paths of an update.
LEMMA PathsOf ==
  ASSUME NEW a \in UpdatesByPath
  PROVE  /\ NameOf(a) \in AnyPath
         /\ a.op \notin {"init_rootdir", "symlink"} => a.path \in Paths
         /\ a.op \in {"rename", "link"} => a.newpath \in Paths
         /\ a.op = "symlink" => a.link \in Paths
         /\ Locks(a) => a.path \in Paths /\ Parent(a) \in AnyPath
         /\ a.op = "rename" => NewParent(a) \in AnyPath
<1>1. /\ a.op \notin {"init_rootdir", "symlink"} => a.path \in Paths
      /\ a.op \in {"rename", "link"} => a.newpath \in Paths
      /\ a.op = "symlink" => a.link \in Paths
  BY DEF UpdatesByPath, init_arg, mkdir_arg, mknod_arg, rmdir_arg, unlink_arg,
         rename_arg, symlink_arg, link_arg, truncate_arg, utime_arg, chmod_arg
<1>2. \A p \in Paths : p \in AnyPath /\ get_parent_path(p) \in AnyPath
  BY PathsAssumption DEF AnyPath
<1>3. Root \in AnyPath
  BY DEF AnyPath
<1>4. QED
  BY <1>1, <1>2, <1>3 DEF NameOf, Locks, LocksOne, Parent, NewParent

\* The file that an update changes has the same name on both servers.
LEMMA SameTouched ==
  ASSUME ServerTypeOK, NEW m \in Renumberings, Matches(m), NEW a \in UpdatesByPath,
         a.op # "symlink"
  PROVE  /\ Touched(host1, a) = Touched(host2, a)
         /\ a.op = "link" => /\ SameNames(m, Linked(host1, a), Linked(host2, a))
                             /\ Linked(host1, a) \in [AnyPath -> Numbers]
<1> DEFINE g == Linked(host1, a)
           g2 == Linked(host2, a)
<1>1. /\ ent[host1] \in [AnyPath -> Numbers] /\ ent[host2] \in [AnyPath -> Numbers]
      /\ SameNames(m, ent[host1], ent[host2]) /\ SameAt(m, node[host1], node[host2])
  BY Hosts, TableTypes DEF Matches, Image
<1>2. CASE a.op = "link"
  <2>1. a.path \in AnyPath /\ a.newpath \in AnyPath
    BY <1>2, PathsOf DEF AnyPath
  <2>2. SameNames(m, g, g2)
    BY <1>1, <2>1 DEF Linked, SameNames
  <2>3. g \in [AnyPath -> Numbers]
    BY <1>1, <2>1 DEF Linked
  <2>4. Followed(g2, node[host2], a.newpath) = Followed(g, node[host1], a.newpath)
    <3> HIDE DEF g, g2
    <3>1. \A q \in AnyPath : /\ g2[q] # None <=> g[q] # None
                             /\ g[q] # None => node[host2][g2[q]] = node[host1][g[q]]
      BY <1>1, <2>2, <2>3, NumbersMap DEF SameNames, SameAt, Numbers
    <3>2. QED
      BY <2>1, <3>1, FollowedAlike
  <2>5. QED
    BY <1>2, <2>2, <2>3, <2>4 DEF Touched
<1>3. CASE a.op # "link"
  <2>1. a.op # "init_rootdir" => a.path \in AnyPath
    BY PathsOf DEF AnyPath
  <2>2. QED
    BY <1>3, <2>1, SameChecks DEF Touched
<1>4. QED
  BY <1>2, <1>3

LEMMA SameVerdict ==
  ASSUME ServerTypeOK, NEW m \in Renumberings, Matches(m), NEW a \in UpdatesByPath
  PROVE  /\ Verdict(host1, a) = Verdict(host2, a)
         /\ RetAfter(host1, a) = RetAfter(host2, a)
         /\ HungAfter(host1, a) <=> HungAfter(host2, a)
         /\ Creates(host1, a) <=> Creates(host2, a)
<1>1. Permitted(host1, a) <=> Permitted(host2, a)
  <2>1. a.op \in {"rename", "link"} => (RenamePermitted(host1, a) <=> RenamePermitted(host2, a))
    BY SameChecks, PathsOf DEF RenamePermitted
  <2>2. LocksOne(a) => a.path \in Paths
    BY PathsOf DEF Locks
  <2>3. a.op \in {"utime", "chmod"} => a.path \in AnyPath
    BY PathsOf DEF AnyPath
  <2>4. QED
    BY <2>1, <2>2, <2>3, SameChecks, PathsOf DEF Permitted
<1>2. Possible(host1, a) <=> Possible(host2, a)
  <2>1. \A p \in Paths : p \in AnyPath /\ get_parent_path(p) \in AnyPath
    BY PathsAssumption DEF AnyPath
  <2>2. a.op = "mknod" => (CannotMknod(host1, a) <=> CannotMknod(host2, a))
    BY <2>1, SameChecks, SameFree, PathsOf DEF CannotMknod
  <2>3. a.op = "symlink" => (CannotSymlink(host1, a.link) <=> CannotSymlink(host2, a.link))
    BY <2>1, SameChecks, SamePath, PathsOf DEF CannotSymlink
  <2>4. a.op = "link" => (CanLink(host1, a.path, a.newpath) <=> CanLink(host2, a.path, a.newpath))
    BY <2>1, SamePath, PathsOf DEF CanLink
  <2>5. a.op = "rename" =>
          (CanRename(host1, a.path, a.newpath) <=> CanRename(host2, a.path, a.newpath))
    BY <2>1, SamePath, SameChecks, PathsOf DEF CanRename
  <2>6. a.op = "truncate" => (LeadsToFile(host1, a.path) <=> LeadsToFile(host2, a.path))
    BY <2>1, SameChecks, PathsOf
  <2>7. a.op \in {"mkdir", "rmdir", "unlink", "utime", "chmod"} => a.path \in AnyPath
    BY <2>1, PathsOf
  <2>8. Exists(host1, Root) \/ FreeInodes(host1) # {} <=>
          Exists(host2, Root) \/ FreeInodes(host2) # {}
    BY SamePath, SameFree DEF AnyPath
  <2>9. QED
    BY <2>2, <2>3, <2>4, <2>5, <2>6, <2>7, <2>8, SameChecks DEF Possible
<1>3. Locks(a) => /\ CanOpendir(host1, Parent(a)) <=> CanOpendir(host2, Parent(a))
                  /\ CanOpendir(host1, Parent(a)) =>
                       lock[host1][ent[host1][Parent(a)]] = lock[host2][ent[host2][Parent(a)]]
  BY PathsOf, SameChecks, SamePath DEF CanOpendir, IsKind
<1>4. Locks(a) /\ ~LocksOne(a) =>
        /\ IsKind(host1, NewParent(a), "dir") <=> IsKind(host2, NewParent(a), "dir")
        /\ IsKind(host1, NewParent(a), "dir") => (SecondTaken(host1, a) <=> SecondTaken(host2, a))
  BY PathsOf, SamePath DEF Locks, SecondTaken, IsKind
<1>5. OtherFds(host1) = OtherFds(host2)
  BY SameFree DEF OtherFds, FirstFd
<1>6. Verdict(host1, a) = Verdict(host2, a)
  BY <1>1, <1>2, <1>3, <1>4, <1>5 DEF Verdict
<1>7. a.op = "link" => Touched(host1, a) = Touched(host2, a)
  BY SameTouched
<1>8. Root \in AnyPath
  BY DEF AnyPath
<1>9. QED
  BY <1>6, <1>7, <1>8, SamePath DEF RetAfter, HungAfter, IsDone, Creates

-----------------------------------------------------------------------------
(* Renumbered tables stay so when they are changed in the same way. *)

LEMMA OpenImage ==
  ASSUME NEW m \in Renumberings, NEW f \in [Fds -> Desc \cup {None}],
         NEW f2 \in [Fds -> Desc \cup {None}], SameOpen(m, f, f2), NEW fd \in Fds,
         NEW i \in Inodes
  PROVE  /\ SameOpen(m, [f EXCEPT ![fd] = DirDesc(i)], [f2 EXCEPT ![fd] = DirDesc(m[i])])
         /\ [f EXCEPT ![fd] = DirDesc(i)] \in [Fds -> Desc \cup {None}]
         /\ [f2 EXCEPT ![fd] = DirDesc(m[i])] \in [Fds -> Desc \cup {None}]
<1>1. \A j \in Inodes : DirDesc(j) \in Desc /\ DirDesc(j) # None /\ DirDesc(j).ino = j
  BY DirDescType, NoneAssumption DEF DirDesc
<1>2. m[i] \in Inodes
  BY NumbersMap
<1>3. QED
  BY <1>1, <1>2 DEF SameOpen

LEMMA ChangeImage ==
  ASSUME NEW m \in Renumberings, NEW S, NEW n \in [Inodes -> S], NEW n2 \in [Inodes -> S],
         SameAt(m, n, n2), NEW i \in Inodes, NEW x
  PROVE  SameAt(m, [n EXCEPT ![i] = x], [n2 EXCEPT ![m[i]] = x])
<1>1. \A j \in Inodes : m[j] \in Inodes /\ (m[j] = m[i] <=> j = i)
  BY NumbersMap DEF Numbers
<1>2. QED
  BY <1>1 DEF SameAt

LEMMA NameImage ==
  ASSUME NEW m \in Renumberings, NEW e \in [AnyPath -> Numbers], NEW e2 \in [AnyPath -> Numbers],
         SameNames(m, e, e2), NEW p \in AnyPath, NEW i \in Numbers
  PROVE  SameNames(m, [e EXCEPT ![p] = i], [e2 EXCEPT ![p] = m[i]])
BY DEF SameNames

LEMMA ReapImage ==
  ASSUME NEW m \in Renumberings, NEW e \in [AnyPath -> Numbers], NEW e2, NEW n, NEW n2,
         NEW f \in [Fds -> Desc \cup {None}], NEW f2 \in [Fds -> Desc \cup {None}],
         SameNames(m, e, e2), SameAt(m, n, n2), SameOpen(m, f, f2)
  PROVE  SameAt(m, Reaped(n, e, f), Reaped(n2, e2, f2))
<1>1. ASSUME NEW i \in Inodes
      PROVE  i \in Live(e, f) <=> m[i] \in Live(e2, f2)
  <2>1. \A p \in AnyPath : e2[p] = m[e[p]] /\ (e[p] = i <=> e2[p] = m[i])
    BY NumbersMap DEF SameNames, Numbers
  <2>2. \A fd \in Fds : f[fd] # None => f[fd].ino \in Inodes
    BY DEF Desc
  <2>3. \A fd \in Fds : /\ f2[fd] = None <=> f[fd] = None
                        /\ f[fd] # None => (f[fd].ino = i <=> f2[fd].ino = m[i])
    BY <2>2, NumbersMap DEF SameOpen, Numbers
  <2>4. QED
    BY <2>1, <2>3 DEF Live
<1>2. \A i \in Inodes : m[i] \in Inodes
  BY NumbersMap
<1>3. QED
  BY <1>1, <1>2 DEF SameAt, Reaped

\* A renumbering can be made to take one free number to another.
LEMMA Exchanged ==
  ASSUME NEW m \in Renumberings, NEW x \in Inodes, NEW y \in Inodes
  PROVE  \E m2 \in Renumberings, w \in Inodes :
           /\ m[w] = y /\ m2[x] = y /\ m2[w] = m[x]
           /\ \A i \in Numbers : i # x /\ i # w => m2[i] = m[i]
<1>1. PICK w \in Inodes : m[w] = y
  BY NumbersMap
<1>2. /\ x \in Numbers /\ w \in Numbers /\ x # None /\ w # None /\ None \in Numbers
      /\ m \in [Numbers -> Numbers] /\ y \in Numbers
  BY NoneAssumption DEF Numbers, Renumberings
<1> DEFINE m2 == [i \in Numbers |-> IF i = x THEN y ELSE IF i = w THEN m[x] ELSE m[i]]
<1>3. m2 \in [Numbers -> Numbers] /\ m2[None] = None
  BY <1>2, NumbersMap
<1>4. \A i, j \in Numbers : m2[i] = m2[j] => i = j
  BY <1>1, <1>2, NumbersMap
<1>5. \A j \in Numbers : \E i \in Numbers : m2[i] = j
  <2>1. SUFFICES ASSUME NEW j \in Numbers PROVE \E i \in Numbers : m2[i] = j
    OBVIOUS
  <2>2. PICK i \in Numbers : m[i] = j
    BY DEF Renumberings
  <2>3. CASE i = w
    BY <1>1, <1>2, <2>2, <2>3
  <2>4. CASE i = x /\ i # w
    BY <1>1, <1>2, <2>2, <2>4
  <2>5. CASE i # x /\ i # w
    BY <2>2, <2>5
  <2>6. QED
    BY <2>3, <2>4, <2>5
<1>6. m2 \in Renumberings
  BY <1>3, <1>4, <1>5 DEF Renumberings
<1>7. /\ m2[x] = y /\ m2[w] = m[x]
      /\ \A i \in Numbers : i # x /\ i # w => m2[i] = m[i]
  BY <1>1, <1>2
<1>8. QED
  BY <1>1, <1>6, <1>7

\* A new file gets a free number on either server.
LEMMA CreateImage ==
  ASSUME NEW m \in Renumberings,
         NEW e \in [AnyPath -> Numbers], NEW e2 \in [AnyPath -> Numbers], SameNames(m, e, e2),
         NEW n \in [Inodes -> Node \cup {None}], NEW n2 \in [Inodes -> Node \cup {None}],
         SameAt(m, n, n2),
         NEW f \in [Fds -> Desc \cup {None}], NEW f2, SameOpen(m, f, f2),
         NEW l, NEW l2, SameAt(m, l, l2),
         \A p \in AnyPath : e[p] # None => n[e[p]] # None,
         \A fd \in Fds : f[fd] # None => n[f[fd].ino] # None,
         \A i \in Inodes : l[i] # None => n[i] # None,
         NEW x \in Inodes, n[x] = None, NEW y \in Inodes, n2[y] = None,
         NEW q \in AnyPath, NEW file
  PROVE  \E m2 \in Renumberings :
           Image(m2, [e EXCEPT ![q] = x], [n EXCEPT ![x] = file], f, l,
                 [e2 EXCEPT ![q] = y], [n2 EXCEPT ![y] = file], f2, l2)
<1>1. PICK m2 \in Renumberings, w \in Inodes :
        /\ m[w] = y /\ m2[x] = y /\ m2[w] = m[x]
        /\ \A i \in Numbers : i # x /\ i # w => m2[i] = m[i]
  BY Exchanged
<1>2. n[w] = None /\ l[w] = None /\ l[x] = None /\ x \in Numbers /\ Inodes \subseteq Numbers
  BY <1>1 DEF SameAt, Numbers
<1>3. \A i \in Inodes : n[i] # None => m2[i] = m[i]
  BY <1>1, <1>2
<1>4. SameNames(m2, [e EXCEPT ![q] = x], [e2 EXCEPT ![q] = y])
  <2>1. \A p \in AnyPath : e2[p] = m2[e[p]]
    <3>1. SUFFICES ASSUME NEW p \in AnyPath PROVE e2[p] = m2[e[p]]
      OBVIOUS
    <3>2. CASE e[p] = None
      BY <3>2, NumbersMap DEF SameNames
    <3>3. CASE e[p] # None
      BY <1>3, <3>3 DEF SameNames, Numbers
    <3>4. QED
      BY <3>2, <3>3
  <2>2. QED
    BY <1>1, <2>1 DEF SameNames
<1>5. SameOpen(m2, f, f2)
  <2>1. \A fd \in Fds : f[fd] # None => f[fd].ino \in Inodes
    BY DEF Desc
  <2>2. QED
    BY <1>3, <2>1 DEF SameOpen
<1>6. \A i \in Inodes : m2[i] \in Inodes /\ (m2[i] = y <=> i = x)
  <2>1. \A i \in Inodes : m2[i] \in Inodes
    BY NumbersMap
  <2>2. \A i \in Inodes : m2[i] = m2[x] <=> i = x
    BY <1>2, NumbersMap
  <2>3. QED
    BY <1>1, <2>1, <2>2
<1>7. \A i \in Inodes : n2[m2[i]] = n[i] \/ i = x
  BY <1>1, <1>2 DEF SameAt
<1>8. SameAt(m2, [n EXCEPT ![x] = file], [n2 EXCEPT ![y] = file])
  BY <1>6, <1>7 DEF SameAt
<1>9. SameAt(m2, l, l2)
  BY <1>1, <1>2 DEF SameAt
<1>10. QED
  BY <1>4, <1>5, <1>8, <1>9 DEF Image

\* A subtree that moves keeps its files.
LEMMA RenamedImage ==
  ASSUME ServerTypeOK, NEW m \in Renumberings, Matches(m), NEW p \in Paths, NEW newp \in Paths
  PROVE  SameNames(m, Renamed(host1, p, newp), Renamed(host2, p, newp))
<1>1. \A q \in AnyPath : ent[host2][q] = m[ent[host1][q]] /\ ent[host1][q] \in Numbers
  BY Hosts, TableTypes DEF Matches, Image, SameNames
<1>2. p \in AnyPath /\ newp \in AnyPath /\ Paths \subseteq AnyPath
  BY DEF AnyPath
<1>3. ent[host1][p] = ent[host1][newp] <=> ent[host2][p] = ent[host2][newp]
  BY <1>2, SamePath
<1>4. CASE ent[host1][p] = ent[host1][newp]
  BY <1>1, <1>3, <1>4 DEF Renamed, SameNames
<1>5. CASE ent[host1][p] # ent[host1][newp]
  <2>1. ASSUME NEW sv \in {host1, host2}
        PROVE  Renamed(sv, p, newp) =
                 [q \in AnyPath |->
                    IF IsPrefix(newp, q)
                    THEN IF Rebased(q, newp, p) \in Paths
                         THEN ent[sv][Rebased(q, newp, p)] ELSE None
                    ELSE IF IsPrefix(p, q) THEN None ELSE ent[sv][q]]
    BY <1>3, <1>5 DEF Renamed
  <2>2. m[None] = None
    BY NumbersMap
  <2>3. QED
    BY <1>1, <1>2, <2>1, <2>2 DEF SameNames
<1>6. QED
  BY <1>4, <1>5

-----------------------------------------------------------------------------
(* The tables after an update, table by table. *)

\* The descriptors that dlock opens.
LEMMA DescriptorsFree ==
  ASSUME ServerTypeOK, NEW sv \in Servers
  PROVE  /\ FreeFds(sv) # {} => FirstFd(sv) \in FreeFds(sv)
         /\ OtherFds(sv) # {} => Least(OtherFds(sv)) \in OtherFds(sv)
         /\ FreeFds(sv) \subseteq Fds /\ OtherFds(sv) \subseteq FreeFds(sv)
         /\ FreeInodes(sv) # {} => Least(FreeInodes(sv)) \in FreeInodes(sv)
<1>1. /\ FreeFds(sv) # {} => FirstFd(sv) \in FreeFds(sv)
      /\ OtherFds(sv) # {} => Least(OtherFds(sv)) \in OtherFds(sv)
      /\ FreeInodes(sv) # {} => Least(FreeInodes(sv)) \in FreeInodes(sv)
  BY FreeNumbers, LowestIn, LeastIs DEF FirstFd
<1>2. QED
  BY <1>1 DEF FreeFds, OtherFds

\* How far an update came tells what it found.
LEMMA VerdictFacts ==
  ASSUME ServerTypeOK, NEW sv \in Servers, NEW a \in UpdatesByPath
  PROVE  /\ Locks(a) /\ Verdict(sv, a) \notin {"refused", "failed"} =>
              CanOpendir(sv, Parent(a)) /\ Parent(a) \in AnyPath /\ ent[sv][Parent(a)] \in Inodes
         /\ Verdict(sv, a) \in {"abandoned", "blockedBoth", "doneBoth", "vainBoth"} =>
              Locks(a) /\ lock[sv][ent[sv][Parent(a)]] = None
         /\ Verdict(sv, a) \in {"blockedBoth", "doneBoth", "vainBoth"} =>
              /\ IsKind(sv, NewParent(a), "dir") /\ OtherFds(sv) # {}
              /\ NewParent(a) \in AnyPath /\ ent[sv][NewParent(a)] \in Inodes
         /\ IsDone(sv, a) => Possible(sv, a)
         /\ HungAfter(sv, a) => Locks(a)
<1>1. Locks(a) /\ Verdict(sv, a) \notin {"refused", "failed"} =>
        CanOpendir(sv, Parent(a)) /\ Parent(a) \in AnyPath
  BY PathsOf DEF Verdict
<1>2. CanOpendir(sv, Parent(a)) /\ Parent(a) \in AnyPath => ent[sv][Parent(a)] \in Inodes
  BY TableTypes DEF CanOpendir, IsKind
<1>3. Verdict(sv, a) \in {"abandoned", "blockedBoth", "doneBoth", "vainBoth"} =>
        Locks(a) /\ ~LocksOne(a) /\ lock[sv][ent[sv][Parent(a)]] = None
  BY DEF Verdict
<1>4. Verdict(sv, a) \in {"blockedBoth", "doneBoth", "vainBoth"} =>
        Locks(a) /\ ~LocksOne(a) /\ IsKind(sv, NewParent(a), "dir") /\ OtherFds(sv) # {}
  BY DEF Verdict
<1>5. Locks(a) /\ ~LocksOne(a) => NewParent(a) \in AnyPath
  BY PathsOf DEF Locks
<1>6. IsKind(sv, NewParent(a), "dir") /\ NewParent(a) \in AnyPath =>
        ent[sv][NewParent(a)] \in Inodes
  BY TableTypes DEF IsKind
<1>7. /\ IsDone(sv, a) => Possible(sv, a)
      /\ HungAfter(sv, a) => Locks(a)
  BY DEF Verdict, IsDone, HungAfter
<1>8. QED
  BY <1>1, <1>2, <1>3, <1>4, <1>5, <1>6, <1>7

LEMMA FdtImage ==
  ASSUME ServerTypeOK, NEW m \in Renumberings, Matches(m), NEW a \in UpdatesByPath
  PROVE  /\ SameOpen(m, FdtAfter(host1, a), FdtAfter(host2, a))
         /\ FdtAfter(host1, a) \in [Fds -> Desc \cup {None}]
         /\ FdtAfter(host2, a) \in [Fds -> Desc \cup {None}]
<1>1. PICK f, f2 : f = fdt[host1] /\ f2 = fdt[host2]
  OBVIOUS
<1>2. PICK i, i2 : i = ent[host1][Parent(a)] /\ i2 = ent[host2][Parent(a)]
  OBVIOUS
<1>3. PICK j, j2 : j = ent[host1][NewParent(a)] /\ j2 = ent[host2][NewParent(a)]
  OBVIOUS
<1>4. PICK d, d2 : d = FirstFd(host1) /\ d2 = Least(OtherFds(host1))
  OBVIOUS
<1>5. /\ f \in [Fds -> Desc \cup {None}] /\ f2 \in [Fds -> Desc \cup {None}]
      /\ SameOpen(m, f, f2)
  BY <1>1, Hosts, TableTypes DEF Matches, Image
<1>6. FirstFd(host2) = d /\ Least(OtherFds(host2)) = d2
  BY <1>4, SameFree DEF FirstFd, OtherFds
<1>7. \A q \in AnyPath : ent[host2][q] = m[ent[host1][q]]
  BY DEF Matches, Image, SameNames
<1>8. Verdict(host2, a) = Verdict(host1, a)
  BY SameVerdict
<1>9. CASE ~Locks(a) \/ Verdict(host1, a) \in {"refused", "failed"}
  BY <1>1, <1>5, <1>8, <1>9 DEF FdtAfter
<1>10. CASE Locks(a) /\ Verdict(host1, a) \notin {"refused", "failed"}
  <2>1. i \in Inodes /\ i2 = m[i] /\ d \in Fds
    BY <1>2, <1>4, <1>7, <1>10, Hosts, VerdictFacts, DescriptorsFree DEF CanOpendir
  <2>2. PICK g, g2 : g = [f EXCEPT ![d] = DirDesc(i)] /\ g2 = [f2 EXCEPT ![d] = DirDesc(i2)]
    OBVIOUS
  <2>3. SameOpen(m, g, g2) /\ g \in [Fds -> Desc \cup {None}] /\ g2 \in [Fds -> Desc \cup {None}]
    BY <1>5, <2>1, <2>2, OpenImage
  <2>4. OneOpened(host1, a) = g /\ OneOpened(host2, a) = g2
    BY <1>1, <1>2, <1>4, <1>6, <2>2 DEF OneOpened
  <2>5. CASE Verdict(host1, a) \notin {"blockedBoth", "doneBoth", "vainBoth"}
    BY <1>8, <1>10, <2>3, <2>4, <2>5 DEF FdtAfter
  <2>6. CASE Verdict(host1, a) \in {"blockedBoth", "doneBoth", "vainBoth"}
    <3>1. j \in Inodes /\ j2 = m[j] /\ d2 \in Fds
      BY <1>3, <1>4, <1>7, <2>6, Hosts, VerdictFacts, DescriptorsFree
    <3>2. PICK h, h2 : h = [g EXCEPT ![d2] = DirDesc(j)] /\ h2 = [g2 EXCEPT ![d2] = DirDesc(j2)]
      OBVIOUS
    <3>3. SameOpen(m, h, h2) /\ h \in [Fds -> Desc \cup {None}] /\ h2 \in [Fds -> Desc \cup {None}]
      BY <2>3, <3>1, <3>2, OpenImage
    <3>4. BothOpened(host1, a) = h /\ BothOpened(host2, a) = h2
      BY <1>3, <1>4, <1>6, <2>4, <3>2 DEF BothOpened
    <3>5. QED
      BY <1>8, <1>10, <2>6, <3>3, <3>4 DEF FdtAfter
  <2>7. QED
    BY <2>5, <2>6
<1>11. QED
  BY <1>9, <1>10

LEMMA LockImage ==
  ASSUME ServerTypeOK, NEW m \in Renumberings, Matches(m), NEW a \in UpdatesByPath
  PROVE  SameAt(m, LockAfter(host1, a), LockAfter(host2, a))
<1>1. PICK l, l2, i, d : /\ l = lock[host1] /\ l2 = lock[host2]
                         /\ i = ent[host1][Parent(a)] /\ d = FirstFd(host1)
  OBVIOUS
<1>2. /\ l \in [Inodes -> Fds \cup {None}] /\ l2 \in [Inodes -> Fds \cup {None}]
      /\ SameAt(m, l, l2)
  BY <1>1, Hosts, TableTypes DEF Matches, Image
<1>3. Verdict(host2, a) = Verdict(host1, a) /\ FirstFd(host2) = d
  BY <1>1, SameVerdict, SameFree DEF FirstFd
<1>4. CASE Verdict(host1, a) \in {"abandoned", "blockedBoth"}
  <2>1. i \in Inodes /\ Parent(a) \in AnyPath
    BY <1>1, <1>4, Hosts, VerdictFacts
  <2>2. ent[host2][Parent(a)] = m[i]
    BY <1>1, <2>1 DEF Matches, Image, SameNames
  <2>3. LockAfter(host1, a) = [l EXCEPT ![i] = d] /\ LockAfter(host2, a) = [l2 EXCEPT ![m[i]] = d]
    BY <1>1, <1>3, <1>4, <2>2 DEF LockAfter
  <2>4. SameAt(m, [l EXCEPT ![i] = d], [l2 EXCEPT ![m[i]] = d])
    BY <1>2, <2>1, ChangeImage
  <2>5. QED
    BY <2>3, <2>4
<1>5. CASE Verdict(host1, a) \notin {"abandoned", "blockedBoth"}
  BY <1>1, <1>2, <1>3, <1>5 DEF LockAfter
<1>6. QED
  BY <1>4, <1>5

\* Nothing that is open or locked is a free number.
LEMMA NothingFree ==
  ASSUME ServerInv, Holders, NEW sv \in Servers, NEW a \in UpdatesByPath
  PROVE  /\ \A fd \in Fds : FdtAfter(sv, a)[fd] # None => node[sv][FdtAfter(sv, a)[fd].ino] # None
         /\ \A i \in Inodes : lock[sv][i] # None => node[sv][i] # None
<1>1. \A fd \in Fds : fdt[sv][fd] # None => node[sv][fdt[sv][fd].ino] # None
  BY DEF ServerInv, Backed
<1>2. \A p \in AnyPath : ent[sv][p] \in Inodes => node[sv][ent[sv][p]] # None
  BY NoneAssumption DEF ServerInv, Backed
<1>3. \A i : DirDesc(i).ino = i
  BY DEF DirDesc
<1>4. fdt[sv] \in [Fds -> Desc \cup {None}]
  BY TableTypes DEF ServerInv
<1>5. Locks(a) /\ Verdict(sv, a) \notin {"refused", "failed"} =>
        \A fd \in Fds : OneOpened(sv, a)[fd] # None => node[sv][OneOpened(sv, a)[fd].ino] # None
  <2>1. \A fd \in Fds : OneOpened(sv, a)[fd] \in {fdt[sv][fd], DirDesc(ent[sv][Parent(a)])}
    BY <1>4 DEF OneOpened
  <2>2. QED
    BY <1>1, <1>2, <1>3, <2>1, VerdictFacts DEF ServerInv
<1>6. Verdict(sv, a) \in {"blockedBoth", "doneBoth", "vainBoth"} =>
        \A fd \in Fds : BothOpened(sv, a)[fd] # None => node[sv][BothOpened(sv, a)[fd].ino] # None
  <2>1. \A fd \in Fds : BothOpened(sv, a)[fd] \in
          {OneOpened(sv, a)[fd], DirDesc(ent[sv][NewParent(a)])}
    BY <1>4 DEF BothOpened, OneOpened
  <2>2. Verdict(sv, a) \in {"blockedBoth", "doneBoth", "vainBoth"} => Locks(a)
    BY VerdictFacts DEF ServerInv
  <2>3. QED
    BY <1>2, <1>3, <1>5, <2>1, <2>2, VerdictFacts DEF ServerInv
<1>7. \A fd \in Fds : FdtAfter(sv, a)[fd] # None => node[sv][FdtAfter(sv, a)[fd].ino] # None
  BY <1>1, <1>5, <1>6 DEF FdtAfter
<1>8. \A i \in Inodes : lock[sv][i] # None => node[sv][i] # None
  <2>1. \A i \in Inodes : lock[sv][i] \in Fds \cup {None}
    BY TableTypes DEF ServerInv
  <2>2. QED
    BY <1>1, <2>1 DEF Holders
<1>9. QED
  BY <1>7, <1>8

\* What an update that is done has found.
LEMMA DoneFacts ==
  ASSUME ServerTypeOK, NEW sv \in Servers, NEW a \in UpdatesByPath, IsDone(sv, a)
  PROVE  /\ Creates(sv, a) => FreeInodes(sv) # {} /\ ~Exists(sv, NameOf(a))
         /\ ~Creates(sv, a) /\ ~Deletes(a) /\ a.op # "rename" /\ Touched(sv, a) # None =>
              /\ Touched(sv, a) \in AnyPath /\ Changed(sv, a) # None
              /\ a.op # "symlink"
<1>1. Possible(sv, a)
  BY VerdictFacts
<1>2. Creates(sv, a) => FreeInodes(sv) # {} /\ ~Exists(sv, NameOf(a))
  BY <1>1 DEF Possible, Creates, NameOf, CannotMknod, CannotSymlink, CannotCreate
<1>3. ASSUME ~Creates(sv, a), ~Deletes(a), a.op # "rename", Touched(sv, a) # None
      PROVE  Touched(sv, a) \in AnyPath /\ Changed(sv, a) # None /\ a.op # "symlink"
  <2>1. a.op # "symlink" /\ EntAfter(sv, a) = IF a.op = "link" THEN Linked(sv, a) ELSE ent[sv]
    BY <1>3 DEF Creates, EntAfter
  <2>2. CASE a.op = "link"
    <3>1. Touched(sv, a) = Followed(Linked(sv, a), node[sv], a.newpath)
      BY <2>2 DEF Touched
    <3>2. QED
      BY <1>3, <2>1, <2>2, <3>1, FollowedFile DEF Changed
  <2>3. CASE a.op = "init_rootdir"
    BY <1>3, <2>1, <2>3 DEF Creates, Touched, Changed, Exists, AnyPath
  <2>4. CASE a.op \notin {"link", "init_rootdir"}
    BY <1>3, <2>1, <2>4, LeadsToFollowed DEF Touched, Changed, Exists
  <2>5. QED
    BY <2>2, <2>3, <2>4
<1>4. QED
  BY <1>2, <1>3

\* A new file.
LEMMA CreatesImage ==
  ASSUME ServerInv, Holders, NEW m \in Renumberings, Matches(m), NEW a \in UpdatesByPath,
         IsDone(host1, a), Creates(host1, a)
  PROVE  \E m2 \in Renumberings :
           Image(m2, EntAfter(host1, a), NodeAfter(host1, a),
                 FdtAfter(host1, a), LockAfter(host1, a),
                 EntAfter(host2, a), NodeAfter(host2, a),
                 FdtAfter(host2, a), LockAfter(host2, a))
<1>1. ServerTypeOK /\ IsDone(host2, a) /\ Creates(host2, a) /\ NameOf(a) \in AnyPath
  BY SameVerdict, PathsOf DEF ServerInv, IsDone
<1>2. PICK e, e2, n, n2 : /\ e = ent[host1] /\ e2 = ent[host2]
                          /\ n = node[host1] /\ n2 = node[host2]
  OBVIOUS
<1>3. PICK f, f2, l, l2 : /\ f = FdtAfter(host1, a) /\ f2 = FdtAfter(host2, a)
                          /\ l = lock[host1] /\ l2 = lock[host2]
  OBVIOUS
<1>4. PICK x, y : x = Least(FreeInodes(host1)) /\ y = Least(FreeInodes(host2))
  OBVIOUS
<1>5. PICK q, file : q = NameOf(a) /\ file = FileMade(a)
  OBVIOUS
<1>6. /\ e \in [AnyPath -> Numbers] /\ e2 \in [AnyPath -> Numbers] /\ SameNames(m, e, e2)
      /\ n \in [Inodes -> Node \cup {None}] /\ n2 \in [Inodes -> Node \cup {None}]
      /\ SameAt(m, n, n2) /\ SameAt(m, l, l2)
  BY <1>1, <1>2, <1>3, Hosts, TableTypes DEF Matches, Image
<1>7. /\ f \in [Fds -> Desc \cup {None}] /\ SameOpen(m, f, f2)
  BY <1>1, <1>3, FdtImage
<1>8. \A p \in AnyPath : e[p] # None => n[e[p]] # None
  BY <1>2, Hosts DEF ServerInv, Backed
<1>9. /\ \A fd \in Fds : f[fd] # None => n[f[fd].ino] # None
      /\ \A i \in Inodes : l[i] # None => n[i] # None
  BY <1>2, <1>3, Hosts, NothingFree
<1>10. x \in Inodes /\ n[x] = None /\ y \in Inodes /\ n2[y] = None
  <2>1. x \in FreeInodes(host1) /\ y \in FreeInodes(host2)
    BY <1>1, <1>4, Hosts, DoneFacts, DescriptorsFree
  <2>2. QED
    BY <1>2, <2>1 DEF FreeInodes
<1>11. \E m2 \in Renumberings :
           Image(m2, [e EXCEPT ![q] = x], [n EXCEPT ![x] = file], f, l,
                 [e2 EXCEPT ![q] = y], [n2 EXCEPT ![y] = file], f2, l2)
  BY <1>1, <1>5, <1>6, <1>7, <1>8, <1>9, <1>10, CreateImage
<1>12. /\ EntAfter(host1, a) = [e EXCEPT ![q] = x] /\ EntAfter(host2, a) = [e2 EXCEPT ![q] = y]
       /\ NodeAfter(host1, a) = [n EXCEPT ![x] = file]
       /\ NodeAfter(host2, a) = [n2 EXCEPT ![y] = file]
  BY <1>1, <1>2, <1>4, <1>5 DEF EntAfter, NodeAfter
<1>13. LockAfter(host1, a) = l /\ LockAfter(host2, a) = l2
  BY <1>1, <1>3 DEF LockAfter, IsDone
<1>14. QED
  BY <1>3, <1>11, <1>12, <1>13

\* Names and files that are left, moved or changed keep their numbers.
LEMMA KeepsImage ==
  ASSUME ServerInv, NEW m \in Renumberings, Matches(m), NEW a \in UpdatesByPath,
         ~(IsDone(host1, a) /\ Creates(host1, a))
  PROVE  /\ SameNames(m, EntAfter(host1, a), EntAfter(host2, a))
         /\ SameAt(m, NodeAfter(host1, a), NodeAfter(host2, a))
<1>1. /\ ServerTypeOK /\ (IsDone(host2, a) <=> IsDone(host1, a))
      /\ ~(IsDone(host2, a) /\ Creates(host2, a))
  BY SameVerdict DEF ServerInv, IsDone
<1>2. PICK e, e2, n, n2 : /\ e = ent[host1] /\ e2 = ent[host2]
                          /\ n = node[host1] /\ n2 = node[host2]
  OBVIOUS
<1>3. /\ e \in [AnyPath -> Numbers] /\ e2 \in [AnyPath -> Numbers] /\ SameNames(m, e, e2)
      /\ n \in [Inodes -> Node \cup {None}] /\ n2 \in [Inodes -> Node \cup {None}]
      /\ SameAt(m, n, n2)
  BY <1>1, <1>2, Hosts, TableTypes DEF Matches, Image
<1>4. m[None] = None /\ None \in Numbers
  BY NumbersMap DEF Numbers
<1>5. CASE ~IsDone(host1, a)
  BY <1>1, <1>2, <1>3, <1>5 DEF EntAfter, NodeAfter
<1>6. ASSUME IsDone(host1, a), Deletes(a) \/ a.op = "rename",
             SameNames(m, EntAfter(host1, a), EntAfter(host2, a)),
             EntAfter(host1, a) \in [AnyPath -> Numbers]
      PROVE  SameAt(m, NodeAfter(host1, a), NodeAfter(host2, a))
  <2>1. PICK g, g2, f, f2 : /\ g = EntAfter(host1, a) /\ g2 = EntAfter(host2, a)
                            /\ f = FdtAfter(host1, a) /\ f2 = FdtAfter(host2, a)
    OBVIOUS
  <2>2. /\ f \in [Fds -> Desc \cup {None}] /\ f2 \in [Fds -> Desc \cup {None}]
        /\ SameOpen(m, f, f2)
    BY <1>1, <2>1, FdtImage
  <2>3. SameAt(m, Reaped(n, g, f), Reaped(n2, g2, f2))
    BY <1>3, <1>6, <2>1, <2>2, ReapImage
  <2>4. QED
    BY <1>1, <1>2, <1>6, <2>1, <2>3 DEF NodeAfter
<1>7. CASE IsDone(host1, a) /\ Deletes(a)
  <2>1. a.path \in AnyPath
    BY <1>7, PathsOf DEF Deletes, AnyPath
  <2>2. /\ EntAfter(host1, a) = [e EXCEPT ![a.path] = None]
        /\ EntAfter(host2, a) = [e2 EXCEPT ![a.path] = None]
    BY <1>1, <1>2, <1>7 DEF EntAfter
  <2>3. PICK p : p = a.path
    OBVIOUS
  <2>4. SameNames(m, [e EXCEPT ![p] = None], [e2 EXCEPT ![p] = m[None]])
    BY <1>3, <1>4, <2>1, <2>3, NameImage
  <2>5. [e EXCEPT ![p] = None] \in [AnyPath -> Numbers]
    BY <1>3, <1>4
  <2>6. QED
    BY <1>4, <1>6, <1>7, <2>2, <2>3, <2>4, <2>5
<1>8. CASE IsDone(host1, a) /\ a.op = "rename"
  <2>1. a.path \in Paths /\ a.newpath \in Paths /\ ~Deletes(a)
    BY <1>8, PathsOf DEF Deletes
  <2>2. /\ EntAfter(host1, a) = Renamed(host1, a.path, a.newpath)
        /\ EntAfter(host2, a) = Renamed(host2, a.path, a.newpath)
    BY <1>1, <1>8, <2>1 DEF EntAfter
  <2>3. Renamed(host1, a.path, a.newpath) \in [AnyPath -> Numbers]
    BY <2>1, Hosts, RenamedNames DEF Numbers
  <2>4. QED
    BY <1>1, <1>6, <1>8, <2>1, <2>2, <2>3, RenamedImage
<1>9. CASE IsDone(host1, a) /\ ~Deletes(a) /\ a.op # "rename"
  <2>1. PICK g, g2, p : /\ g = EntAfter(host1, a) /\ g2 = EntAfter(host2, a)
                        /\ p = Touched(host1, a)
    OBVIOUS
  <2>2. ~Creates(host1, a) /\ ~Creates(host2, a) /\ a.op # "symlink"
    BY <1>1, <1>9 DEF Creates
  <2>3. p = Touched(host2, a)
    BY <1>1, <2>1, <2>2, SameTouched
  <2>4. SameNames(m, g, g2) /\ g \in [AnyPath -> Numbers]
    <3>1. CASE a.op = "link"
      BY <1>1, <1>9, <2>1, <2>2, <3>1, SameTouched DEF EntAfter
    <3>2. CASE a.op # "link"
      BY <1>1, <1>2, <1>3, <1>9, <2>1, <2>2, <3>2 DEF EntAfter
    <3>3. QED
      BY <3>1, <3>2
  <2>5. CASE p = None
    BY <1>1, <1>2, <1>3, <1>9, <2>1, <2>2, <2>3, <2>4, <2>5 DEF NodeAfter
  <2>6. CASE p # None
    <3>1. p \in AnyPath /\ Changed(host1, a) = g[p] /\ g[p] # None /\ Changed(host2, a) = g2[p]
      BY <1>1, <1>9, <2>1, <2>2, <2>3, <2>6, Hosts, DoneFacts DEF Changed
    <3>2. PICK i, file : i = g[p] /\ file = FileChanged(n[i], a)
      OBVIOUS
    <3>3. i \in Inodes /\ g2[p] = m[i] /\ n2[m[i]] = n[i]
      BY <1>3, <2>4, <3>1, <3>2 DEF SameNames, SameAt, Numbers
    <3>4. SameAt(m, [n EXCEPT ![i] = file], [n2 EXCEPT ![m[i]] = file])
      BY <1>3, <3>3, ChangeImage
    <3>5. /\ NodeAfter(host1, a) = [n EXCEPT ![i] = file]
          /\ NodeAfter(host2, a) = [n2 EXCEPT ![m[i]] = file]
      BY <1>1, <1>2, <1>9, <2>1, <2>2, <2>3, <2>6, <3>1, <3>2, <3>3 DEF NodeAfter
    <3>6. QED
      BY <2>1, <2>4, <3>4, <3>5
  <2>7. QED
    BY <2>5, <2>6
<1>10. QED
  BY <1>5, <1>7, <1>8, <1>9

\* Servers alike are alike after an update.
LEMMA AlikeAfter ==
  ASSUME ServerInv, Holders, NEW m \in Renumberings, Matches(m), NEW a \in UpdatesByPath
  PROVE  \E m2 \in Renumberings :
           Image(m2, EntAfter(host1, a), NodeAfter(host1, a),
                 FdtAfter(host1, a), LockAfter(host1, a),
                 EntAfter(host2, a), NodeAfter(host2, a),
                 FdtAfter(host2, a), LockAfter(host2, a))
<1>1. CASE IsDone(host1, a) /\ Creates(host1, a)
  BY <1>1, CreatesImage
<1>2. CASE ~(IsDone(host1, a) /\ Creates(host1, a))
  BY <1>2, KeepsImage, FdtImage, LockImage DEF ServerInv, Image
<1>3. QED
  BY <1>1, <1>2

-----------------------------------------------------------------------------
(* What an update comes to depends on its server alone. *)

LEMMA Frame ==
  ASSUME NEW sv \in Servers, NEW a, ent'[sv] = ent[sv], node'[sv] = node[sv],
         fdt'[sv] = fdt[sv], lock'[sv] = lock[sv]
  PROVE  /\ EntAfter(sv, a)' = EntAfter(sv, a) /\ NodeAfter(sv, a)' = NodeAfter(sv, a)
         /\ FdtAfter(sv, a)' = FdtAfter(sv, a) /\ LockAfter(sv, a)' = LockAfter(sv, a)
         /\ HungAfter(sv, a)' <=> HungAfter(sv, a)
         /\ RetAfter(sv, a)' = RetAfter(sv, a)
<1>1. \A p : /\ Exists(sv, p)' <=> Exists(sv, p)
             /\ File(sv, p)' = File(sv, p)
             /\ Children(sv, p)' = Children(sv, p)
             /\ \A kind : IsKind(sv, p, kind)' <=> IsKind(sv, p, kind)
  BY DEF Exists, File, Children, IsKind
<1>2. FreeFds(sv)' = FreeFds(sv) /\ FreeInodes(sv)' = FreeInodes(sv)
  BY DEF FreeFds, FreeInodes
<1>3. FirstFd(sv)' = FirstFd(sv) /\ OtherFds(sv)' = OtherFds(sv)
  BY <1>2 DEF FirstFd, OtherFds
<1>4. \A p, ip : is_owner(sv, p, ip)' <=> is_owner(sv, p, ip)
  BY <1>1 DEF is_owner
<1>5. \A p, ip, req : is_op_valid(sv, p, ip, req)' <=> is_op_valid(sv, p, ip, req)
  BY <1>1 DEF is_op_valid
<1>6. \A p, ip, op : is_parent_dir_valid(sv, p, ip, op)' <=> is_parent_dir_valid(sv, p, ip, op)
  BY <1>1, <1>4, <1>5 DEF is_parent_dir_valid
<1>7. Permitted(sv, a)' <=> Permitted(sv, a)
  BY <1>4, <1>6 DEF Permitted, RenamePermitted
<1>8. \A p : /\ CanOpendir(sv, p)' <=> CanOpendir(sv, p)
             /\ CannotCreate(sv, p)' <=> CannotCreate(sv, p)
             /\ CanRmdir(sv, p)' <=> CanRmdir(sv, p)
             /\ CanUnlink(sv, p)' <=> CanUnlink(sv, p)
             /\ LeadsTo(sv, p)' = LeadsTo(sv, p)
             /\ LeadsToFile(sv, p)' <=> LeadsToFile(sv, p)
  BY <1>1, <1>2 DEF CanOpendir, CannotCreate, CanRmdir, CanUnlink, LeadsTo, LeadsToFile
<1>9. /\ CannotMknod(sv, a)' <=> CannotMknod(sv, a)
      /\ \A p : CannotSymlink(sv, p)' <=> CannotSymlink(sv, p)
      /\ \A p, q : /\ CanLink(sv, p, q)' <=> CanLink(sv, p, q)
                   /\ CanRename(sv, p, q)' <=> CanRename(sv, p, q)
  BY <1>1, <1>2, <1>8 DEF CannotMknod, CannotSymlink, CanLink, CanRename
<1>10. Possible(sv, a)' <=> Possible(sv, a)
  BY <1>1, <1>2, <1>8, <1>9 DEF Possible
<1>11. SecondTaken(sv, a)' <=> SecondTaken(sv, a)
  BY DEF SecondTaken
<1>12. Verdict(sv, a)' = Verdict(sv, a)
  BY <1>1, <1>3, <1>7, <1>8, <1>10, <1>11 DEF Verdict
<1>13. (IsDone(sv, a)' <=> IsDone(sv, a)) /\ (Creates(sv, a)' <=> Creates(sv, a))
  BY <1>1, <1>12 DEF IsDone, Creates
<1>14. Linked(sv, a)' = Linked(sv, a) /\ Touched(sv, a)' = Touched(sv, a)
  BY <1>8 DEF Linked, Touched
<1>15. /\ HungAfter(sv, a)' <=> HungAfter(sv, a)
       /\ RetAfter(sv, a)' = RetAfter(sv, a)
  BY <1>12, <1>13, <1>14 DEF HungAfter, RetAfter
<1>16. /\ OneOpened(sv, a)' = OneOpened(sv, a) /\ BothOpened(sv, a)' = BothOpened(sv, a)
       /\ LockAfter(sv, a)' = LockAfter(sv, a)
  BY <1>3, <1>12 DEF OneOpened, BothOpened, LockAfter
<1>17. FdtAfter(sv, a)' = FdtAfter(sv, a)
  BY <1>12, <1>16 DEF FdtAfter
<1>18. Renamed(sv, a.path, a.newpath)' = Renamed(sv, a.path, a.newpath)
  BY DEF Renamed
<1>19. EntAfter(sv, a)' = EntAfter(sv, a)
  BY <1>2, <1>13, <1>14, <1>18 DEF EntAfter
<1>20. Changed(sv, a)' = Changed(sv, a)
  BY <1>14, <1>19 DEF Changed
<1>21. NodeAfter(sv, a)' = NodeAfter(sv, a)
  BY <1>2, <1>13, <1>14, <1>17, <1>19, <1>20 DEF NodeAfter
<1>22. QED
  BY <1>15, <1>16, <1>17, <1>19, <1>21

-----------------------------------------------------------------------------
(* A copy asks for what the request asks for. *)

SameRequest(a, b) ==
  /\ b.op = a.op /\ b.ip = a.ip
  /\ a.op \notin {"init_rootdir", "symlink"} => b.path = a.path
  /\ a.op \in {"rename", "link"} => b.newpath = a.newpath
  /\ a.op = "symlink" => b.link = a.link /\ b.target = a.target
  /\ a.op \in {"mkdir", "mknod", "chmod"} => b.mode = a.mode
  /\ a.op = "mknod" => b.kind = a.kind
  /\ a.op = "truncate" => b.newsize = a.newsize

LEMMA RoleApart ==
  ASSUME NEW a \in UpdatesByPath, NEW info \in identity
  PROVE  /\ [a EXCEPT !.server_info = info] \in UpdatesByPath
         /\ SameRequest(a, [a EXCEPT !.server_info = info])
<1> DEFINE b == [a EXCEPT !.server_info = info]
           Stays(S) == a \in S => b \in S /\ SameRequest(a, b)
<1>1. Stays(init_arg) /\ Stays(rmdir_arg) /\ Stays(unlink_arg) /\ Stays(utime_arg)
  BY DEF init_arg, rmdir_arg, unlink_arg, utime_arg, SameRequest
<1>2. Stays(mkdir_arg) /\ Stays(mknod_arg) /\ Stays(rename_arg) /\ Stays(symlink_arg)
  BY DEF mkdir_arg, mknod_arg, rename_arg, symlink_arg, SameRequest
<1>3. Stays(link_arg) /\ Stays(truncate_arg) /\ Stays(chmod_arg)
  BY DEF link_arg, truncate_arg, chmod_arg, SameRequest
<1> HIDE DEF b
<1>4. QED
  BY <1>1, <1>2, <1>3 DEF UpdatesByPath, b

LEMMA UpdatesAreReplicated ==
  UpdatesByPath \subseteq ReplicatedRequests /\ LookupsByPath \subseteq LocalRequests
BY DEF UpdatesByPath, ReplicatedRequests, LookupsByPath, LocalRequests

LEMMA CopyAsks ==
  ASSUME NEW a \in UpdatesByPath, Forwards(a)
  PROVE  CopyOf(a) \in UpdatesByPath /\ SameRequest(a, CopyOf(a))
<1> DEFINE info == [a.server_info EXCEPT !.is_master = FALSE]
<1>1. info \in identity
  <2>1. a.server_info \in identity
    BY DEF Forwards, get_identity, identity
  <2>2. \A i \in identity : [i EXCEPT !.is_master = FALSE] \in identity
    BY DEF identity
  <2>3. QED
    BY <2>1, <2>2
<1>2. CopyOf(a) = [a EXCEPT !.server_info = info]
  BY DEF CopyOf
<1> HIDE DEF info
<1>3. QED
  BY <1>1, <1>2, RoleApart

\* It comes to the same.
LEMMA CopyPredicted ==
  ASSUME NEW sv \in Servers, NEW a \in UpdatesByPath, NEW b, SameRequest(a, b),
         Predicted(sv, b)
  PROVE  Predicted(sv, a)
<1>1. /\ LocksOne(b) <=> LocksOne(a)
      /\ Locks(b) <=> Locks(a)
      /\ Deletes(b) <=> Deletes(a)
      /\ Creates(sv, b) <=> Creates(sv, a)
      /\ NameOf(b) = NameOf(a)
  BY DEF SameRequest, LocksOne, Locks, Deletes, Creates, NameOf
<1>2. Locks(a) => Parent(b) = Parent(a) /\ (a.op = "rename" => NewParent(b) = NewParent(a))
  BY DEF SameRequest, LocksOne, Locks, Parent, NewParent
<1>3. Permitted(sv, b) <=> Permitted(sv, a)
  BY <1>1 DEF SameRequest, Permitted, RenamePermitted, LocksOne
<1>4. Possible(sv, b) <=> Possible(sv, a)
  BY DEF SameRequest, Possible, CannotMknod
<1>5. a.op = "rename" => /\ SecondTaken(sv, b) <=> SecondTaken(sv, a)
                         /\ OneParent(b) <=> OneParent(a)
  BY DEF SameRequest, SecondTaken, OneParent, Parent, NewParent
<1>6. Verdict(sv, b) = Verdict(sv, a)
  BY <1>1, <1>2, <1>3, <1>4, <1>5 DEF Verdict, Locks
<1>7. IsDone(sv, b) <=> IsDone(sv, a)
  BY <1>6 DEF IsDone
<1>8. /\ a.op = "link" => Linked(sv, b) = Linked(sv, a)
      /\ a.op # "symlink" => Touched(sv, b) = Touched(sv, a)
  BY DEF SameRequest, Linked, Touched
<1>9. (HungAfter(sv, b) <=> HungAfter(sv, a)) /\ RetAfter(sv, b) = RetAfter(sv, a)
  BY <1>6, <1>7, <1>8 DEF HungAfter, RetAfter, SameRequest
<1>10. Locks(a) /\ Verdict(sv, a) \notin {"refused", "failed"} =>
        OneOpened(sv, b) = OneOpened(sv, a)
  BY <1>2 DEF OneOpened
<1>11. Verdict(sv, a) \in {"abandoned", "blockedBoth", "doneBoth", "vainBoth"} =>
         Locks(a) /\ a.op = "rename"
  BY DEF Verdict, Locks
<1>12. FdtAfter(sv, b) = FdtAfter(sv, a) /\ LockAfter(sv, b) = LockAfter(sv, a)
  BY <1>1, <1>2, <1>6, <1>10, <1>11 DEF FdtAfter, LockAfter, BothOpened
<1>13. EntAfter(sv, b) = EntAfter(sv, a)
  BY <1>1, <1>7, <1>8 DEF EntAfter, SameRequest, Deletes
<1>14. NodeAfter(sv, b) = NodeAfter(sv, a)
  <2>1. IsDone(sv, a) /\ Creates(sv, a) => FileMade(b) = FileMade(a)
    BY DEF FileMade, SameRequest
  <2>2. ~Creates(sv, a) => \A n : FileChanged(n, b) = FileChanged(n, a)
    BY DEF FileChanged, SameRequest
  <2>3. a.op = "rename" <=> b.op = "rename"
    BY DEF SameRequest
  <2>4. ~Creates(sv, a) => /\ Touched(sv, b) = Touched(sv, a)
                           /\ Changed(sv, b) = Changed(sv, a)
    BY <1>8, <1>13 DEF Creates, Changed
  <2>5. QED
    BY <1>1, <1>7, <1>12, <1>13, <2>1, <2>2, <2>3, <2>4 DEF NodeAfter
<1>15. QED
  BY <1>9, <1>12, <1>13, <1>14 DEF Predicted

-----------------------------------------------------------------------------
(***************************************************************************)
(* What holds at each server by itself, whatever fails: who holds a lock,  *)
(* what is left of a process that is down, and that no file has two names  *)
(* when nobody links.                                                      *)
(***************************************************************************)
NoLinks == Calls \cap link_arg = {}

NamesApart(e) == \A p, q \in AnyPath : e[p] # None /\ e[p] = e[q] => p = q
OneName == NoLinks => \A sv \in Servers : NamesApart(ent[sv])

\* A process that is down locks nothing, waits for nothing and has let go of
\* the files without a name.
Gone(sv) ==
  /\ ~hung[sv] /\ \A i \in Inodes : lock[sv][i] = None
  /\ \A i \in Inodes : node[sv][i] # None => \E p \in AnyPath : ent[sv][p] = i
DownInv == \A sv \in Servers : ~up[sv] => Gone(sv)
LocalInv == Holders /\ OneName /\ DownInv

\* A descriptor that is open stays the one it is.
LEMMA DescriptorsStay ==
  ASSUME ServerTypeOK, NEW sv \in Servers, NEW a \in UpdatesByPath, NEW fd \in Fds,
         fdt[sv][fd] # None
  PROVE  FdtAfter(sv, a)[fd] = fdt[sv][fd]
<1>1. fd \notin FreeFds(sv) /\ fd \notin OtherFds(sv)
  BY DEF FreeFds, OtherFds
<1>2. fdt[sv] \in [Fds -> Desc \cup {None}]
  BY TableTypes
<1>3. Locks(a) /\ Verdict(sv, a) \notin {"refused", "failed"} =>
        OneOpened(sv, a)[fd] = fdt[sv][fd]
  BY <1>1, <1>2, VerdictFacts, DescriptorsFree DEF OneOpened, CanOpendir
<1>4. Locks(a) /\ Verdict(sv, a) \in {"blockedBoth", "doneBoth", "vainBoth"} =>
        BothOpened(sv, a)[fd] = fdt[sv][fd]
  BY <1>1, <1>2, <1>3, VerdictFacts, DescriptorsFree DEF OneOpened, BothOpened
<1>5. QED
  BY <1>3, <1>4 DEF FdtAfter

\* A rename moves names, it does not make a second name for anything.
LEMMA RenamedApart ==
  ASSUME ServerTypeOK, NEW sv \in Servers, NamesApart(ent[sv]), NEW p \in Paths,
         NEW newp \in Paths
  PROVE  NamesApart(Renamed(sv, p, newp))
<1>1. /\ p \in Name /\ newp \in Name /\ AnyPath \subseteq Name
      /\ Paths \subseteq AnyPath
  BY PathNames
<1>2. CASE ent[sv][p] = ent[sv][newp]
  BY <1>2 DEF Renamed
<1>3. CASE ent[sv][p] # ent[sv][newp]
  <2> DEFINE back(q) == Rebased(q, newp, p)
             moved(q) == IsPrefix(newp, q) /\ back(q) \in Paths
             stays(q) == ~IsPrefix(newp, q) /\ ~IsPrefix(p, q)
  <2>1. \A q \in AnyPath :
          Renamed(sv, p, newp)[q] = IF IsPrefix(newp, q)
                                    THEN IF back(q) \in Paths THEN ent[sv][back(q)] ELSE None
                                    ELSE IF IsPrefix(p, q) THEN None ELSE ent[sv][q]
    BY <1>3 DEF Renamed
  <2>2. \A q \in AnyPath : IsPrefix(newp, q) =>
          IsPrefix(p, back(q)) /\ Rebased(back(q), p, newp) = q
    BY <1>1, RebasedBack
  <2> HIDE DEF back
  <2>3. \A q \in AnyPath : Renamed(sv, p, newp)[q] # None =>
          \/ moved(q) /\ Renamed(sv, p, newp)[q] = ent[sv][back(q)]
          \/ stays(q) /\ Renamed(sv, p, newp)[q] = ent[sv][q]
    BY <2>1
  <2>4. SUFFICES ASSUME NEW q \in AnyPath, NEW r \in AnyPath,
                        Renamed(sv, p, newp)[q] # None,
                        Renamed(sv, p, newp)[q] = Renamed(sv, p, newp)[r]
                 PROVE  q = r
    BY DEF NamesApart
  <2>5. CASE moved(q) /\ moved(r)
    <3>1. ent[sv][back(q)] = ent[sv][back(r)] /\ ent[sv][back(q)] # None
      BY <2>3, <2>4, <2>5
    <3>2. back(q) = back(r)
      BY <1>1, <2>5, <3>1 DEF NamesApart
    <3>3. QED
      BY <2>2, <2>5, <3>2
  <2>6. CASE moved(q) /\ stays(r)
    <3>1. ent[sv][back(q)] = ent[sv][r] /\ ent[sv][r] # None
      BY <2>3, <2>4, <2>6
    <3>2. back(q) = r
      BY <1>1, <2>6, <3>1 DEF NamesApart
    <3>3. QED
      BY <2>2, <2>6, <3>2
  <2>7. CASE stays(q) /\ moved(r)
    <3>1. ent[sv][q] = ent[sv][back(r)] /\ ent[sv][q] # None
      BY <2>3, <2>4, <2>7
    <3>2. back(r) = q
      BY <1>1, <2>7, <3>1 DEF NamesApart
    <3>3. QED
      BY <2>2, <2>7, <3>2
  <2>8. CASE stays(q) /\ stays(r)
    BY <2>3, <2>4, <2>8 DEF NamesApart
  <2>9. QED
    BY <2>3, <2>4, <2>5, <2>6, <2>7, <2>8
<1>4. QED
  BY <1>2, <1>3

\* Every update but link leaves a file one name.
LEMMA EntApart ==
  ASSUME ServerInv, NEW sv \in Servers, NamesApart(ent[sv]), NEW a \in UpdatesByPath,
         a.op # "link"
  PROVE  NamesApart(EntAfter(sv, a))
<1>1. ServerTypeOK /\ ent[sv] \in [AnyPath -> Numbers] /\ NameOf(a) \in AnyPath
  BY TableTypes, PathsOf DEF ServerInv
<1>2. CASE IsDone(sv, a) /\ Creates(sv, a)
  <2>1. PICK i : i = Least(FreeInodes(sv))
    OBVIOUS
  <2>2. i \in FreeInodes(sv)
    BY <1>1, <1>2, <2>1, DoneFacts, DescriptorsFree
  <2>3. \A p \in AnyPath : ent[sv][p] # i
    BY <2>2, NoneAssumption DEF FreeInodes, ServerInv, Backed
  <2>4. EntAfter(sv, a) = [ent[sv] EXCEPT ![NameOf(a)] = i]
    BY <1>2, <2>1 DEF EntAfter
  <2>5. QED
    BY <1>1, <2>3, <2>4 DEF NamesApart
<1>3. CASE IsDone(sv, a) /\ ~Creates(sv, a) /\ Deletes(a)
  <2>1. EntAfter(sv, a) = [ent[sv] EXCEPT ![a.path] = None]
    BY <1>3 DEF EntAfter
  <2>2. QED
    BY <1>1, <2>1 DEF NamesApart
<1>4. CASE IsDone(sv, a) /\ ~Creates(sv, a) /\ ~Deletes(a) /\ a.op = "rename"
  BY <1>1, <1>4, PathsOf, RenamedApart DEF EntAfter
<1>5. CASE ~IsDone(sv, a) \/ (~Creates(sv, a) /\ ~Deletes(a) /\ a.op # "rename")
  BY <1>5 DEF EntAfter
<1>6. QED
  BY <1>2, <1>3, <1>4, <1>5

\* What an update changes at its server, and at no other one.
Elsewhere(sv) ==
  \A s \in Servers \ {sv} : /\ ent'[s] = ent[s] /\ node'[s] = node[s]
                            /\ fdt'[s] = fdt[s] /\ lock'[s] = lock[s] /\ hung'[s] = hung[s]

LEMMA UpdateElsewhere ==
  ASSUME ServerTypeOK, NEW sv \in Servers, NEW a \in UpdatesByPath, compute_6(sv, a)
  PROVE  Elsewhere(sv)
BY RequestHere, UpdatePredicted
DEF OnlyHere, EntHere, NodeHere, FdtHere, HungHere, Predicted, Elsewhere

LEMMA UpdateHolders ==
  ASSUME ServerInv, Holders, NEW sv \in Servers, NEW a \in UpdatesByPath, compute_6(sv, a)
  PROVE  Holders'
<1>1. ServerTypeOK /\ Elsewhere(sv) /\ Predicted(sv, a)
  BY UpdateElsewhere, UpdatePredicted DEF ServerInv
<1>2. fdt'[sv] = FdtAfter(sv, a) /\ lock'[sv] = LockAfter(sv, a)
  BY <1>1 DEF Predicted
<1>3. lock[sv] \in [Inodes -> Fds \cup {None}] /\ fdt[sv] \in [Fds -> Desc \cup {None}]
  BY <1>1, TableTypes
<1>4. ASSUME NEW i \in Inodes, lock[sv][i] # None
      PROVE  fdt'[sv][lock[sv][i]] # None /\ fdt'[sv][lock[sv][i]].ino = i
  <2>1. lock[sv][i] \in Fds /\ fdt[sv][lock[sv][i]] # None /\ fdt[sv][lock[sv][i]].ino = i
    BY <1>3, <1>4 DEF Holders
  <2>2. FdtAfter(sv, a)[lock[sv][i]] = fdt[sv][lock[sv][i]]
    BY <1>1, <2>1, DescriptorsStay
  <2>3. QED
    BY <1>2, <2>1, <2>2
<1>5. CASE Verdict(sv, a) \in {"abandoned", "blockedBoth"}
  <2>1. PICK i, fd : i = ent[sv][Parent(a)] /\ fd = FirstFd(sv)
    OBVIOUS
  <2>2. Locks(a) /\ i \in Inodes /\ fd \in Fds
    BY <1>1, <1>5, <2>1, VerdictFacts, DescriptorsFree DEF CanOpendir
  <2>3. lock'[sv] = [lock[sv] EXCEPT ![i] = fd]
    BY <1>2, <1>5, <2>1 DEF LockAfter
  <2>4. OneOpened(sv, a)[fd] = DirDesc(i)
    BY <1>3, <2>1, <2>2 DEF OneOpened
  <2>5. Verdict(sv, a) = "blockedBoth" => BothOpened(sv, a)[fd] = DirDesc(i)
    <3>1. Verdict(sv, a) = "blockedBoth" => Least(OtherFds(sv)) # fd
      BY <1>1, <2>1, VerdictFacts, DescriptorsFree DEF OtherFds
    <3>2. QED
      BY <1>3, <2>1, <2>4, <3>1 DEF BothOpened, OneOpened
  <2>6. fdt'[sv][fd] = DirDesc(i)
    BY <1>2, <1>5, <2>2, <2>4, <2>5 DEF FdtAfter
  <2>7. DirDesc(i) # None /\ DirDesc(i).ino = i
    BY <2>2, DirDescType, NoneAssumption DEF DirDesc
  <2>8. \A j \in Inodes : lock'[sv][j] # None =>
          fdt'[sv][lock'[sv][j]] # None /\ fdt'[sv][lock'[sv][j]].ino = j
    BY <1>3, <1>4, <2>2, <2>3, <2>6, <2>7
  <2>9. QED
    BY <1>1, <2>8 DEF Holders, Elsewhere
<1>6. CASE Verdict(sv, a) \notin {"abandoned", "blockedBoth"}
  BY <1>1, <1>2, <1>4, <1>6 DEF Holders, Elsewhere, LockAfter
<1>7. QED
  BY <1>5, <1>6

LEMMA UpdateLocal ==
  ASSUME ServerInv, LocalInv, NEW sv \in Servers, up[sv], UNCHANGED up,
         NEW a \in UpdatesByPath, NoLinks => a.op # "link", compute_6(sv, a)
  PROVE  LocalInv'
<1>1. ServerTypeOK /\ Elsewhere(sv) /\ Predicted(sv, a)
  BY UpdateElsewhere, UpdatePredicted DEF ServerInv
<1>2. Holders'
  BY UpdateHolders DEF LocalInv
<1>3. OneName'
  <2>1. NoLinks => NamesApart(EntAfter(sv, a))
    BY EntApart DEF LocalInv, OneName
  <2>2. ent'[sv] = EntAfter(sv, a)
    BY <1>1 DEF Predicted
  <2>3. NoLinks => \A s \in Servers : NamesApart(ent'[s])
    BY <1>1, <2>1, <2>2 DEF LocalInv, OneName, Elsewhere
  <2>4. QED
    BY <2>3 DEF OneName, NamesApart
<1>4. DownInv'
  BY <1>1 DEF LocalInv, DownInv, Gone, Elsewhere
<1>5. QED
  BY <1>2, <1>3, <1>4 DEF LocalInv

LEMMA LocalSame ==
  LocalInv /\ UNCHANGED <<ent, node, fdt, lock, hung, up>> => LocalInv'
BY DEF LocalInv, Holders, OneName, NamesApart, DownInv, Gone

LEMMA BootLocal ==
  ASSUME IInv, LocalInv, NEW sv \in Servers, Boot(sv)
  PROVE  LocalInv'
<1>1. /\ UNCHANGED <<ent, node, fdt, lock, hung>>
      /\ \A s \in Servers : up[s] => up'[s]
  BY DEF Boot, serverVars, IInv, Types, CountT
<1>2. QED
  BY <1>1 DEF LocalInv, Holders, OneName, NamesApart, DownInv, Gone

LEMMA CrashLocal ==
  ASSUME IInv, LocalInv, NEW sv \in Servers, Crash(sv)
  PROVE  LocalInv'
<1>1. /\ fdt' = [fdt EXCEPT ![sv] = [fd \in Fds |-> None]]
      /\ lock' = [lock EXCEPT ![sv] = [i \in Inodes |-> None]]
      /\ hung' = [hung EXCEPT ![sv] = FALSE] /\ UNCHANGED ent
      /\ node' = [node EXCEPT ![sv] = Reaped(node[sv], ent'[sv], fdt'[sv])]
      /\ up' = [up EXCEPT ![sv] = FALSE]
  BY DEF Crash, Restart, Dies, ReapNodes
<1>2. ServerTypeOK /\ up \in [Servers -> BOOLEAN]
  BY DEF IInv, ServerInv, Types, CountT
<1>3. \A s \in Servers \ {sv} : /\ fdt'[s] = fdt[s] /\ lock'[s] = lock[s] /\ hung'[s] = hung[s]
                                /\ node'[s] = node[s] /\ up'[s] = up[s]
  BY <1>1, <1>2 DEF ServerTypeOK
<1>4. /\ \A i \in Inodes : lock'[sv][i] = None
      /\ ~hung'[sv] /\ \A fd \in Fds : fdt'[sv][fd] = None
      /\ node'[sv] = Reaped(node[sv], ent[sv], fdt'[sv])
  BY <1>1, <1>2 DEF ServerTypeOK
<1>5. \A i \in Inodes : node'[sv][i] # None => \E p \in AnyPath : ent[sv][p] = i
  BY <1>4 DEF Reaped, Live
<1>6. Holders'
  BY <1>3, <1>4 DEF LocalInv, Holders
<1>7. OneName'
  BY <1>1 DEF LocalInv, OneName, NamesApart
<1>8. DownInv'
  BY <1>1, <1>3, <1>4, <1>5 DEF LocalInv, DownInv, Gone
<1>9. QED
  BY <1>6, <1>7, <1>8 DEF LocalInv

\* What rsync makes of the server it writes to.
LEMMA Restored ==
  ASSUME ServerTypeOK, NEW from \in Servers, NEW to \in Servers, Restore(from, to)
  PROVE  /\ NamesApart(ent'[to]) /\ ent'[to] \in [AnyPath -> Numbers]
         /\ \A p \in AnyPath : ent'[to][p] = None <=> ent[from][p] = None
         /\ \A p \in AnyPath : ent'[to][p] # None => node'[to][ent'[to][p]] = File(from, p)
         /\ \A i \in Inodes : node'[to][i] # None => \E p \in AnyPath : ent'[to][p] = i
         /\ \A s \in Servers \ {to} : ent'[s] = ent[s] /\ node'[s] = node[s]
<1> DEFINE e == CHOOSE copy \in CopiesOf(from) : TRUE
           Original(i) == {p \in AnyPath : e[p] = i}
           n == [i \in Inodes |-> IF Original(i) = {} THEN None
                                  ELSE File(from, CHOOSE p \in Original(i) : TRUE)]
<1>1. ent' = [ent EXCEPT ![to] = e] /\ node' = [node EXCEPT ![to] = n]
  BY DEF Restore
<1>2. e \in CopiesOf(from)
  BY DEF Restore
<1>3. /\ e \in [AnyPath -> Numbers] /\ NamesApart(e)
      /\ \A p \in AnyPath : e[p] = None <=> ent[from][p] = None
  BY <1>2 DEF CopiesOf, Numbers, NamesApart, Exists
<1>4. \A i \in Inodes : n[i] # None => \E p \in AnyPath : e[p] = i
  OBVIOUS
<1>5. \A p \in AnyPath : e[p] # None => n[e[p]] = File(from, p)
  <2>1. SUFFICES ASSUME NEW p \in AnyPath, e[p] # None PROVE n[e[p]] = File(from, p)
    OBVIOUS
  <2>2. e[p] \in Inodes
    BY <1>3, <2>1 DEF Numbers
  <2>3. Original(e[p]) = {p}
    BY <1>3, <2>1 DEF NamesApart
  <2>4. QED
    BY <2>2, <2>3
<1> HIDE DEF e, n
<1>6. QED
  BY <1>1, <1>3, <1>4, <1>5 DEF ServerTypeOK

LEMMA RestoreLocal ==
  ASSUME IInv, LocalInv, NEW from \in Servers, NEW to \in Servers, Restore(from, to)
  PROVE  LocalInv'
<1>1. ServerTypeOK /\ UNCHANGED <<fdt, lock, hung, up>>
  BY DEF IInv, ServerInv, Restore
<1>2. /\ NamesApart(ent'[to])
      /\ \A i \in Inodes : node'[to][i] # None => \E p \in AnyPath : ent'[to][p] = i
      /\ \A s \in Servers \ {to} : ent'[s] = ent[s] /\ node'[s] = node[s]
  BY <1>1, Restored
<1>3. Holders'
  BY <1>1 DEF LocalInv, Holders
<1>4. OneName'
  <2>1. NoLinks => \A s \in Servers : NamesApart(ent'[s])
    BY <1>2 DEF LocalInv, OneName
  <2>2. QED
    BY <2>1 DEF OneName, NamesApart
<1>5. DownInv'
  BY <1>1, <1>2 DEF LocalInv, DownInv, Gone
<1>6. QED
  BY <1>3, <1>4, <1>5 DEF LocalInv

\* Where the named files are as many, so are the free numbers, and there is a
\* renumbering that takes one tree to the other.
LEMMA TreesRenumbered ==
  ASSUME IsFiniteSet(Inodes), NEW e \in [AnyPath -> Numbers], NEW e2 \in [AnyPath -> Numbers],
         NamesApart(e), NamesApart(e2), \A p \in AnyPath : e[p] = None <=> e2[p] = None
  PROVE  \E m \in Renumberings : SameNames(m, e, e2)
<1> DEFINE Named == {i \in Inodes : \E p \in AnyPath : e[p] = i}
           Named2 == {i \in Inodes : \E p \in AnyPath : e2[p] = i}
           Free == Inodes \ Named
           Free2 == Inodes \ Named2
           path(i) == CHOOSE p \in AnyPath : e[p] = i
           h == [i \in Named |-> e2[path(i)]]
<1>1. None \notin Inodes /\ \A i \in Inodes : i # None
  BY NoneAssumption
<1>2. \A i \in Named : path(i) \in AnyPath /\ e[path(i)] = i
  OBVIOUS
<1>3. \A p \in AnyPath : e[p] # None => e[p] \in Named /\ path(e[p]) = p
  <2>1. SUFFICES ASSUME NEW p \in AnyPath, e[p] # None PROVE e[p] \in Named /\ path(e[p]) = p
    OBVIOUS
  <2>2. e[p] \in Named
    BY <2>1 DEF Numbers
  <2>3. e[path(e[p])] = e[p] /\ path(e[p]) \in AnyPath
    BY <1>2, <2>2
  <2>4. QED
    BY <2>1, <2>2, <2>3 DEF NamesApart
<1>4. \A p \in AnyPath : e2[p] # None => e2[p] \in Named2
  BY DEF Numbers
<1> HIDE DEF path
<1>5. h \in [Named -> Named2]
  <2>1. \A i \in Named : e2[path(i)] # None
    BY <1>1, <1>2
  <2>2. QED
    BY <1>2, <1>4, <2>1
<1>6. \A i, j \in Named : h[i] = h[j] => i = j
  <2>1. SUFFICES ASSUME NEW i \in Named, NEW j \in Named, h[i] = h[j] PROVE i = j
    OBVIOUS
  <2>2. e2[path(i)] = e2[path(j)] /\ e2[path(i)] # None
    BY <1>1, <1>2, <2>1
  <2>3. path(i) = path(j)
    BY <1>2, <2>2 DEF NamesApart
  <2>4. QED
    BY <1>2, <2>3
<1>7. \A j \in Named2 : \E i \in Named : h[i] = j
  <2>1. SUFFICES ASSUME NEW j \in Named2 PROVE \E i \in Named : h[i] = j
    OBVIOUS
  <2>2. PICK p \in AnyPath : e2[p] = j
    OBVIOUS
  <2>3. e[p] # None
    BY <1>1, <2>2
  <2>4. e[p] \in Named /\ path(e[p]) = p
    BY <1>3, <2>3
  <2>5. QED
    BY <2>2, <2>4
<1>8. Cardinality(Named) = Cardinality(Named2) /\ IsFiniteSet(Named)
  <2>1. IsFiniteSet(Named)
    BY FS_Subset
  <2>2. h \in Bijection(Named, Named2)
    BY <1>5, <1>6, <1>7, Fun_IsBij
  <2>3. ExistsBijection(Named, Named2)
    BY <2>2 DEF ExistsBijection
  <2>4. QED
    BY <2>1, <2>3, FS_Bijection
<1>9. /\ IsFiniteSet(Free) /\ IsFiniteSet(Free2)
      /\ Cardinality(Free) = Cardinality(Free2)
  <2>1. Inodes \cap Named = Named /\ Inodes \cap Named2 = Named2
    OBVIOUS
  <2> HIDE DEF Named, Named2
  <2>2. /\ IsFiniteSet(Free)
        /\ Cardinality(Free) = Cardinality(Inodes) - Cardinality(Inodes \cap Named)
    BY FS_Difference
  <2>3. /\ IsFiniteSet(Free2)
        /\ Cardinality(Free2) = Cardinality(Inodes) - Cardinality(Inodes \cap Named2)
    BY FS_Difference
  <2>4. QED
    BY <1>8, <2>1, <2>2, <2>3
<1>10. PICK k \in [Free -> Free2] : /\ \A i, j \in Free : k[i] = k[j] => i = j
                                    /\ \A j \in Free2 : \E i \in Free : k[i] = j
  <2>1. ExistsBijection(Free, Free2)
    BY <1>9, FS_SameCardinalityBij
  <2>2. PICK k : k \in Bijection(Free, Free2)
    BY <2>1 DEF ExistsBijection
  <2> HIDE DEF Free, Free2
  <2>3. k \in [Free -> Free2] /\ (\A j \in Free2 : \E i \in Free : k[i] = j)
    BY <2>2 DEF Bijection, Surjection
  <2>4. \A i, j \in Free : k[i] = k[j] => i = j
    BY <2>2 DEF Bijection, Injection, IsInjective
  <2>5. QED
    BY <2>3, <2>4
<1> DEFINE m == [i \in Numbers |-> IF i \in Named THEN h[i] ELSE IF i = None THEN None ELSE k[i]]
<1> HIDE DEF h
<1>11. \A i \in Numbers : i \in Named \/ i \in Free \/ i = None
  BY DEF Numbers
<1>12. /\ None \notin Named /\ None \notin Free /\ None \notin Named2 /\ None \notin Free2
       /\ Named \cap Free = {} /\ Named2 \cap Free2 = {}
       /\ None \in Numbers /\ Named \subseteq Numbers /\ Free \subseteq Numbers
       /\ Named2 \subseteq Numbers /\ Free2 \subseteq Numbers
       /\ \A i \in Numbers : i \in Named2 \/ i \in Free2 \/ i = None
  BY <1>1 DEF Numbers
<1> HIDE DEF Named, Named2, Free, Free2
<1>13. /\ m[None] = None /\ \A i \in Named : m[i] = h[i] /\ m[i] \in Named2
       /\ \A i \in Free : m[i] = k[i] /\ m[i] \in Free2
  BY <1>5, <1>10, <1>12
<1>14. m \in [Numbers -> Numbers]
  BY <1>11, <1>12, <1>13
<1>15. \A i, j \in Numbers : m[i] = m[j] => i = j
  <2>1. SUFFICES ASSUME NEW i \in Numbers, NEW j \in Numbers, m[i] = m[j] PROVE i = j
    OBVIOUS
  <2> HIDE DEF m
  <2>2. CASE i \in Named
    BY <1>6, <1>11, <1>12, <1>13, <2>1, <2>2
  <2>3. CASE i \in Free
    BY <1>10, <1>11, <1>12, <1>13, <2>1, <2>3
  <2>4. CASE i = None
    BY <1>11, <1>12, <1>13, <2>1, <2>4
  <2>5. QED
    BY <1>11, <2>2, <2>3, <2>4
<1>16. \A j \in Numbers : \E i \in Numbers : m[i] = j
  <2>1. SUFFICES ASSUME NEW j \in Numbers PROVE \E i \in Numbers : m[i] = j
    OBVIOUS
  <2> HIDE DEF m
  <2>2. CASE j \in Named2
    BY <1>7, <1>12, <1>13, <2>2
  <2>3. CASE j \in Free2
    BY <1>10, <1>12, <1>13, <2>3
  <2>4. CASE j = None
    BY <1>12, <1>13, <2>4
  <2>5. QED
    BY <1>12, <2>2, <2>3, <2>4
<1>17. \A p \in AnyPath : e2[p] = m[e[p]]
  <2>1. \A p \in AnyPath : e[p] # None => m[e[p]] = h[e[p]] /\ path(e[p]) = p /\ e[p] \in Named
    BY <1>3, <1>13
  <2>2. QED
    BY <1>13, <2>1 DEF h
<1> HIDE DEF m
<1>18. QED
  BY <1>14, <1>13, <1>15, <1>16, <1>17 DEF Renumberings, SameNames

-----------------------------------------------------------------------------
(***************************************************************************)
(* What the clients ask for is asked for by path everywhere, updates that  *)
(* wait at the primary are those it copies, and a server that is down has  *)
(* nothing before it.                                                      *)
(***************************************************************************)
CallsByPath == Calls \subseteq UpdatesByPath \cup LookupsByPath

UpdateRequest(a) == a \in UpdatesByPath /\ (NoLinks => a.op # "link")
PathRequest(a) == UpdateRequest(a) \/ a \in LookupsByPath

AskedByPath ==
  /\ \A c \in Ips : fh[c] = None /\ (call[c] # None => PathRequest(call[c].arg))
  /\ \A sv \in Servers : \A r \in queue[sv] : PathRequest(r.arg)
  /\ \A r \in queue[host1] : r.arg \in UpdatesByPath => Forwards(r.arg)
  /\ copying # None => UpdateRequest(copying.arg)
  /\ \A d \in net : UpdateRequest(d.arg)

NothingAhead ==
  /\ \A sv \in Servers : ~up[sv] => queue[sv] = {}
  /\ ~up[host2] => net = {} /\ (copying # None => copying.answer # "awaited")

\* Nothing fails before the first fault.
NoneDown == faults = 0 => since = 0 /\ \A sv \in Servers : up[sv]

LEMMA UpdatesCarryRoles ==
  /\ \A a \in UpdatesByPath : "server_info" \in DOMAIN a /\ a \in Requests
  /\ \A a \in LookupsByPath : "server_info" \notin DOMAIN a /\ a \in Requests
<1>1. \A a \in UpdatesByPath : a \in Requests /\ a \in ReplicatedRequests
  BY UpdatesAreReplicated DEF Requests
<1>2. \A a \in LookupsByPath : "server_info" \notin DOMAIN a
  BY DEF LookupsByPath, getattr_arg, access_arg, statfs_arg, readlink_arg
<1>3. \A a \in LookupsByPath : a \in Requests
  BY UpdatesAreReplicated DEF Requests
<1>4. QED
  BY <1>1, <1>2, <1>3, RoleCarried

\* What a client wants, before and after it is addressed.
LEMMA WantedByPath ==
  ASSUME CallsByPath, NEW c \in Ips, fh[c] = None, NEW a \in Wanted(c)
  PROVE  PathRequest(a)
<1>1. HandleCalls(c) = {}
  BY DEF HandleCalls
<1> DEFINE asks == [op |-> "init_rootdir", ip |-> c, server_info |-> get_identity(FALSE)]
<1>2. asks \in init_arg /\ asks.op # "link"
  BY DEF init_arg, get_identity, identity
<1> HIDE DEF asks
<1>3. CASE a = asks
  BY <1>2, <1>3 DEF PathRequest, UpdateRequest, UpdatesByPath
<1>4. CASE a \in Calls
  <2>1. a.op = "link" => a \in link_arg
    BY <1>4, CallsAssumption, RequestKinds
  <2>2. QED
    BY <1>4, <2>1 DEF CallsByPath, PathRequest, UpdateRequest, NoLinks
<1>5. QED
  BY <1>1, <1>3, <1>4 DEF Wanted, asks

LEMMA AddressedByPath ==
  ASSUME NEW a, PathRequest(a), NEW sv \in Servers
  PROVE  /\ PathRequest(Addressed(a, sv))
         /\ sv = host1 /\ Addressed(a, sv) \in UpdatesByPath => Forwards(Addressed(a, sv))
<1>1. CASE a \in LookupsByPath
  BY <1>1, UpdatesCarryRoles DEF Addressed, PathRequest
<1>2. CASE UpdateRequest(a)
  <2> DEFINE info == get_identity(sv = host2)
  <2>1. info \in identity
    BY DEF get_identity, identity
  <2>2. Addressed(a, sv) = [a EXCEPT !.server_info = info]
    BY <1>2, UpdatesCarryRoles DEF Addressed, UpdateRequest
  <2>3. /\ Addressed(a, sv) \in UpdatesByPath /\ Addressed(a, sv).op = a.op
        /\ Addressed(a, sv).server_info = info
    <3> HIDE DEF info
    <3>1. a \in UpdatesByPath /\ a \in ReplicatedRequests
      BY <1>2, UpdatesAreReplicated DEF UpdateRequest
    <3>2. QED
      BY <2>1, <2>2, <3>1, RoleApart, RoleSet DEF SameRequest
  <2>4. sv = host1 => info = get_identity(FALSE)
    BY HostsAssumption DEF get_identity
  <2>5. QED
    BY <1>2, <2>3, <2>4, UpdatesCarryRoles DEF PathRequest, UpdateRequest, Forwards
<1>3. QED
  BY <1>1, <1>2 DEF PathRequest

LEMMA CopyByPath ==
  ASSUME NEW a, PathRequest(a), Forwards(a)
  PROVE  UpdateRequest(a) /\ UpdateRequest(CopyOf(a))
<1>1. UpdateRequest(a)
  BY UpdatesCarryRoles DEF PathRequest, Forwards
<1>2. CopyOf(a) \in UpdatesByPath /\ CopyOf(a).op = a.op
  BY <1>1, CopyAsks DEF UpdateRequest, SameRequest
<1>3. QED
  BY <1>1, <1>2 DEF UpdateRequest

-----------------------------------------------------------------------------
(* These parts of the invariant, step by step. *)

LEMMA AskedConnect ==
  ASSUME CallsByPath, IInv, AskedByPath, NEW c \in Ips, Connect(c)
  PROVE  AskedByPath'
<1>1. PICK a \in Wanted(c) :
        \/ \E sv \in Servers : Send(c, a, sv)
        \/ UNCHANGED <<call, queue>>
  BY HostsAssumption DEF Connect
<1>2. UNCHANGED <<copying, net, fh>> /\ PathRequest(a)
  BY WantedByPath DEF Connect, AskedByPath
<1>3. CASE \E sv \in Servers : Send(c, a, sv)
  <2>1. PICK sv \in Servers : Send(c, a, sv)
    BY <1>3
  <2> DEFINE r == [id |-> ids + 1, arg |-> Addressed(a, sv)]
             n == [id |-> ids + 1, to |-> sv, arg |-> a]
  <2>2. call' = [call EXCEPT ![c] = n] /\ queue' = [queue EXCEPT ![sv] = @ \cup {r}]
    BY <2>1 DEF Send
  <2>3. n.arg = a /\ r.arg = Addressed(a, sv)
    OBVIOUS
  <2>4. PathRequest(r.arg) /\ (sv = host1 /\ r.arg \in UpdatesByPath => Forwards(r.arg))
    BY <1>2, AddressedByPath
  <2> HIDE DEF r, n
  <2>5. \A b \in Ips : call'[b] # None => PathRequest(call'[b].arg)
    BY <1>2, <2>2, <2>3 DEF AskedByPath, IInv, Types, CallT
  <2>6. \A s \in Servers : \A x \in queue'[s] : x \in queue[s] \/ (s = sv /\ x = r)
    BY <2>2 DEF IInv, Types, QueueT
  <2>7. \A s \in Servers : \A x \in queue'[s] : PathRequest(x.arg)
    BY <2>4, <2>6 DEF AskedByPath
  <2>8. \A x \in queue'[host1] : x.arg \in UpdatesByPath => Forwards(x.arg)
    BY <2>4, <2>6, Hosts DEF AskedByPath
  <2>9. QED
    BY <1>2, <2>5, <2>7, <2>8 DEF AskedByPath
<1>4. CASE UNCHANGED <<call, queue>>
  BY <1>2, <1>4 DEF AskedByPath
<1>5. QED
  BY <1>1, <1>3, <1>4

LEMMA AskedResults ==
  ASSUME IInv, AskedByPath, NEW c \in Ips, NEW ret, NEW fd, NEW heard, call[c] # None,
         Results(c, ret, fd, heard)
  PROVE  AskedByPath'
<1>1. call[c].arg.op # "open"
  BY PathKinds DEF AskedByPath, PathRequest, UpdateRequest
<1>2. \A b \in Ips : fh'[b] = None
  BY <1>1 DEF Results, AskedByPath, IInv, Types, ClientT
<1>3. \A b \in Ips : call'[b] # None => call'[b] = call[b]
  BY DEF Results, IInv, Types, CallT
<1>4. UNCHANGED <<queue, copying, net>>
  BY DEF Results
<1>5. QED
  BY <1>2, <1>3, <1>4 DEF AskedByPath

LEMMA AskedServe ==
  ASSUME IInv, AskedByPath, NEW sv \in Servers, Serve(sv)
  PROVE  AskedByPath'
<1>1. PICK r \in queue[sv] :
        /\ queue' = [queue EXCEPT ![sv] = @ \ {r}]
        /\ \/ /\ Forwards(r.arg)
              /\ copying' = [id |-> r.id, arg |-> r.arg, sends |-> 1, answer |-> "awaited"]
              /\ net' = net \cup {[id |-> r.id, n |-> 1, arg |-> CopyOf(r.arg)]}
           \/ UNCHANGED <<copying, net>>
  BY DEF Serve
<1>2. UNCHANGED <<call, fh>> /\ PathRequest(r.arg)
  BY DEF Serve, clientVars, AskedByPath
<1>3. \A s \in Servers : queue'[s] \subseteq queue[s]
  BY <1>1 DEF IInv, Types, QueueT
<1>4. /\ copying' # None => UpdateRequest(copying'.arg)
      /\ \A d \in net' : UpdateRequest(d.arg)
  <2>1. CASE UNCHANGED <<copying, net>>
    BY <2>1 DEF AskedByPath
  <2>2. CASE /\ Forwards(r.arg)
             /\ copying' = [id |-> r.id, arg |-> r.arg, sends |-> 1, answer |-> "awaited"]
             /\ net' = net \cup {[id |-> r.id, n |-> 1, arg |-> CopyOf(r.arg)]}
    <3>1. UpdateRequest(r.arg) /\ UpdateRequest(CopyOf(r.arg))
      BY <1>2, <2>2, CopyByPath
    <3> DEFINE d == [id |-> r.id, n |-> 1, arg |-> CopyOf(r.arg)]
    <3>2. d.arg = CopyOf(r.arg) /\ copying'.arg = r.arg /\ net' = net \cup {d}
      BY <2>2
    <3> HIDE DEF d
    <3>3. QED
      BY <3>1, <3>2 DEF AskedByPath
  <2>3. QED
    BY <1>1, <2>1, <2>2
<1>5. QED
  BY <1>2, <1>3, <1>4, Hosts DEF AskedByPath

LEMMA AskedSendAgain ==
  ASSUME IInv, AskedByPath, SendAgain
  PROVE  AskedByPath'
<1> DEFINE d == [id |-> copying.id, n |-> copying.sends + 1, arg |-> CopyOf(copying.arg)]
<1>1. /\ copying # None /\ copying' = [copying EXCEPT !.sends = @ + 1] /\ net' = net \cup {d}
      /\ UNCHANGED <<queue, call, fh>> /\ copying \in Copying /\ Forwards(copying.arg)
  BY DEF SendAgain, clientVars, IInv, Types, CopyingT
<1>2. copying'.arg = copying.arg
  BY <1>1 DEF Copying
<1>3. UpdateRequest(copying.arg) /\ UpdateRequest(d.arg)
  BY <1>1, CopyByPath DEF AskedByPath, PathRequest
<1> HIDE DEF d
<1>4. QED
  BY <1>1, <1>2, <1>3 DEF AskedByPath

LEMMA AskedDeliver ==
  ASSUME IInv, AskedByPath, Deliver
  PROVE  AskedByPath'
<1>1. /\ net' \subseteq net /\ UNCHANGED <<queue, call, fh>>
      /\ copying' = [copying EXCEPT !.answer = "here"] \/ UNCHANGED copying
  BY DEF Deliver, clientVars
<1>2. copying # None => copying \in Copying
  BY DEF IInv, Types, CopyingT
<1>3. copying' # None => copying # None /\ copying'.arg = copying.arg
  <2>1. copying = None => UNCHANGED copying
    BY DEF Deliver
  <2>2. QED
    BY <1>1, <1>2, <2>1 DEF Copying
<1>4. QED
  BY <1>1, <1>3 DEF AskedByPath

LEMMA AskedCrash ==
  ASSUME IInv, AskedByPath, NEW sv \in Servers, Crash(sv)
  PROVE  AskedByPath'
<1>1. /\ UNCHANGED <<call, fh>> /\ net' \subseteq net
      /\ queue' = [queue EXCEPT ![sv] = {}]
  BY DEF Crash, clientVars
<1>2. copying # None => copying \in Copying
  BY DEF IInv, Types, CopyingT
<1>3. copying' # None => copying # None /\ copying'.arg = copying.arg
  BY <1>2 DEF Crash, Copying
<1>4. \A s \in Servers : queue'[s] \subseteq queue[s]
  BY <1>1 DEF IInv, Types, QueueT
<1>5. QED
  BY <1>1, <1>3, <1>4, Hosts DEF AskedByPath

LEMMA AskedNext ==
  ASSUME CallsByPath, IInv, AskedByPath, [Next]_vars
  PROVE  AskedByPath'
<1>1. ASSUME NEW c \in Ips, ClientStep(c) PROVE AskedByPath'
  <2>1. CASE Connect(c)
    BY <2>1, AskedConnect
  <2>2. CASE Return(c) \/ GiveUp(c)
    BY <2>2, AskedResults DEF Return, GiveUp
  <2>3. QED
    BY <1>1, <2>1, <2>2 DEF ClientStep
<1>2. ASSUME NEW sv \in Servers, Serve(sv) \/ Crash(sv) \/ Boot(sv) PROVE AskedByPath'
  <2>1. CASE Boot(sv)
    BY <2>1 DEF Boot, clientVars, AskedByPath
  <2>2. QED
    BY <1>2, <2>1, AskedServe, AskedCrash
<1>3. ASSUME NEW from \in Servers, NEW to \in Servers, Restore(from, to) PROVE AskedByPath'
  BY <1>3 DEF Restore, clientVars, AskedByPath
<1>4. CASE SendAgain \/ Deliver \/ Lose \/ Finish
  <2>1. CASE Lose
    BY <2>1 DEF Lose, clientVars, AskedByPath
  <2>2. CASE Finish
    BY <2>2 DEF Finish, clientVars, AskedByPath
  <2>3. QED
    BY <1>4, <2>1, <2>2, AskedSendAgain, AskedDeliver
<1>5. CASE UNCHANGED vars
  BY <1>5 DEF vars, clientVars, AskedByPath
<1>6. QED
  BY <1>1, <1>2, <1>3, <1>4, <1>5 DEF Next

\* A client that takes a result, or none, touches nothing else.
LEMMA ResultsKeep ==
  ASSUME NEW c \in Ips, Return(c) \/ GiveUp(c)
  PROVE  UNCHANGED <<serverVars, up, queue, copying, net, ids, log, since>>
BY DEF Return, GiveUp, Results

\* A server that is down is sent nothing, and the secondary no copy.
LEMMA AheadNext ==
  ASSUME IInv, NothingAhead, [Next]_vars
  PROVE  NothingAhead'
<1>1. /\ DOMAIN queue = Servers /\ up \in [Servers -> BOOLEAN]
      /\ copying # None => copying \in Copying
  BY DEF IInv, Types, QueueT, CountT, CopyingT
<1>2. ASSUME NEW c \in Ips, Connect(c) PROVE NothingAhead'
  <2>1. \/ \E a \in Requests, sv \in Servers : up[sv] /\ Send(c, a, sv)
        \/ UNCHANGED queue
    <3>1. Wanted(c) \subseteq Requests
      BY WantedType DEF IInv, Types, ClientT
    <3>2. QED
      BY <1>2, <3>1, Hosts DEF Connect
  <2>2. UNCHANGED <<up, copying, net>>
    BY <1>2 DEF Connect
  <2>3. \A s \in Servers : ~up[s] => queue'[s] = queue[s]
    BY <1>1, <2>1 DEF Send
  <2>4. QED
    BY <2>2, <2>3 DEF NothingAhead
<1>3. ASSUME NEW c \in Ips, Return(c) \/ GiveUp(c) PROVE NothingAhead'
  <2>1. UNCHANGED <<up, queue, copying, net>>
    BY <1>3 DEF Return, GiveUp, Results
  <2>2. QED
    BY <2>1 DEF NothingAhead
<1>4. ASSUME NEW sv \in Servers, Serve(sv) PROVE NothingAhead'
  <2>1. PICK r \in queue[sv] : queue' = [queue EXCEPT ![sv] = @ \ {r}]
    BY <1>4 DEF Serve
  <2>2. UNCHANGED up /\ (~up[host2] => UNCHANGED <<copying, net>>)
    BY <1>4 DEF Serve
  <2>3. \A s \in Servers : queue'[s] \subseteq queue[s]
    BY <1>1, <2>1
  <2>4. QED
    BY <2>2, <2>3 DEF NothingAhead
<1>5. ASSUME NEW sv \in Servers, Crash(sv) PROVE NothingAhead'
  <2>1. /\ up' = [up EXCEPT ![sv] = FALSE] /\ queue' = [queue EXCEPT ![sv] = {}]
        /\ net' = IF sv = host2 THEN {} ELSE net
        /\ copying' = CASE copying = None -> None
                        [] sv = host1 -> None
                        [] OTHER -> IF copying.answer = "here" THEN copying
                                    ELSE [copying EXCEPT !.answer = "never"]
    BY <1>5 DEF Crash
  <2>2. \A s \in Servers : ~up'[s] => queue'[s] = {}
    BY <1>1, <2>1 DEF NothingAhead
  <2>3. copying' # None => sv # host1 /\ copying'.answer # "awaited"
    BY <1>1, <2>1 DEF Copying
  <2>4. ~up'[host2] => net' = {} /\ (copying' # None => copying'.answer # "awaited")
    BY <1>1, <2>1, <2>3, Hosts DEF NothingAhead
  <2>5. QED
    BY <2>2, <2>4 DEF NothingAhead
<1>6. ASSUME NEW sv \in Servers, Boot(sv) PROVE NothingAhead'
  <2>1. /\ \A s \in Servers : up[s] => up'[s]
        /\ UNCHANGED <<queue, copying, net>>
    BY <1>1, <1>6 DEF Boot
  <2>2. QED
    BY <2>1, Hosts DEF NothingAhead
<1>7. ASSUME NEW from \in Servers, NEW to \in Servers, Restore(from, to) PROVE NothingAhead'
  BY <1>7 DEF Restore, NothingAhead
<1>8. CASE SendAgain
  BY <1>8 DEF SendAgain, NothingAhead
<1>9. CASE Deliver
  <2>1. up[host2] /\ UNCHANGED <<up, queue>>
    BY <1>9 DEF Deliver
  <2>2. QED
    BY <2>1 DEF NothingAhead
<1>10. CASE Lose \/ Finish
  <2>1. UNCHANGED <<up, queue>> /\ net' \subseteq net /\ (copying' = None \/ UNCHANGED copying)
    BY <1>10 DEF Lose, Finish
  <2>2. QED
    BY <2>1 DEF NothingAhead
<1>11. CASE UNCHANGED vars
  BY <1>11 DEF vars, NothingAhead
<1>12. QED
  BY <1>2, <1>3, <1>4, <1>5, <1>6, <1>7, <1>8, <1>9, <1>10, <1>11 DEF Next, ClientStep

\* The first thing that goes wrong is counted.
LEMMA DownNext ==
  ASSUME IInv, NoneDown, [Next]_vars
  PROVE  NoneDown'
<1>1. up \in [Servers -> BOOLEAN] /\ faults \in Nat /\ MaxFaults \in Nat
  BY BoundsAssumption DEF IInv, Types, CountT
<1>2. Fault => faults' # 0
  BY <1>1 DEF Fault
<1>3. \A pending : Expires(pending) => faults' # 0
  BY <1>1, <1>2 DEF Expires
<1>4. \A hosts \in SUBSET Servers : hosts # {} /\ Missed(hosts) =>
        faults' # 0 \/ (faults # 0 /\ faults' = faults)
  BY <1>1, <1>2 DEF Missed, NoneDown
<1>5. ASSUME NEW c \in Ips, Return(c) \/ GiveUp(c) PROVE NoneDown'
  <2>1. faults' # 0 \/ UNCHANGED faults
    BY <1>3, <1>5 DEF Return, GiveUp
  <2>2. UNCHANGED <<since, up>>
    BY <1>5, ResultsKeep
  <2>3. QED
    BY <2>1, <2>2 DEF NoneDown
<1>6. ASSUME NEW c \in Ips, Connect(c) PROVE NoneDown'
  <2>1. faults' # 0 \/ UNCHANGED <<faults, since>>
    BY <1>4, <1>6, Hosts DEF Connect, NoneDown
  <2>2. UNCHANGED up
    BY <1>6 DEF Connect
  <2>3. QED
    BY <2>1, <2>2 DEF NoneDown
<1>7. ASSUME NEW sv \in Servers, Serve(sv) PROVE NoneDown'
  <2>1. faults' # 0 \/ UNCHANGED <<faults, since>>
    BY <1>4, <1>7, Hosts DEF Serve, NoneDown
  <2>2. UNCHANGED up
    BY <1>7 DEF Serve
  <2>3. QED
    BY <2>1, <2>2 DEF NoneDown
<1>8. ASSUME NEW sv \in Servers, Boot(sv) PROVE NoneDown'
  BY <1>1, <1>8 DEF Boot, NoneDown
<1>9. ASSUME NEW from \in Servers, NEW to \in Servers, Restore(from, to) PROVE NoneDown'
  BY <1>9, Hosts DEF Restore, NoneDown
<1>10. CASE Deliver
  BY <1>10 DEF Deliver, NoneDown
<1>11. CASE Finish
  <2>1. UNCHANGED <<since, up>> /\ (faults' # 0 \/ UNCHANGED faults)
    BY <1>3, <1>11 DEF Finish
  <2>2. QED
    BY <2>1 DEF NoneDown
<1>12. ASSUME NEW sv \in Servers, Crash(sv) PROVE NoneDown'
  BY <1>2, <1>12 DEF Crash, NoneDown
<1>13. CASE SendAgain \/ Lose
  BY <1>2, <1>13 DEF SendAgain, Lose, NoneDown
<1>14. CASE UNCHANGED vars
  BY <1>14 DEF vars, NoneDown
<1>15. QED
  BY <1>5, <1>6, <1>7, <1>8, <1>9, <1>10, <1>11, <1>12, <1>13, <1>14 DEF Next, ClientStep

\* What a server executes by path keeps what holds at each server.
LEMMA RequestLocal ==
  ASSUME ServerInv, LocalInv, NEW sv \in Servers, up[sv], UNCHANGED up, NEW a, PathRequest(a),
         compute_6(sv, a)
  PROVE  LocalInv'
<1>1. CASE UpdateRequest(a)
  BY <1>1, UpdateLocal DEF UpdateRequest
<1>2. CASE a \in LookupsByPath
  BY <1>2, LookupPredicted, LocalSame
<1>3. QED
  BY <1>1, <1>2 DEF PathRequest

LEMMA LocalNext ==
  ASSUME IInv, AskedByPath, LocalInv, [Next]_vars
  PROVE  LocalInv'
<1>1. ServerInv /\ (copying # None => up[host1])
  BY DEF IInv, Types, CopyingT
<1>2. ASSUME UNCHANGED <<serverVars, up>> PROVE LocalInv'
  BY <1>2, LocalSame DEF serverVars
<1>3. ASSUME NEW c \in Ips, ClientStep(c) PROVE LocalInv'
  <2>1. UNCHANGED <<serverVars, up>>
    BY <1>3, ResultsKeep DEF ClientStep, Connect
  <2>2. QED
    BY <1>2, <2>1
<1>4. ASSUME NEW sv \in Servers, Serve(sv) PROVE LocalInv'
  <2>1. PICK r \in queue[sv] : UNCHANGED serverVars \/ compute_6(sv, r.arg)
    BY <1>4 DEF Serve, Executes
  <2>2. up[sv] /\ UNCHANGED up /\ PathRequest(r.arg)
    BY <1>4 DEF Serve, AskedByPath
  <2>3. QED
    BY <1>1, <1>2, <2>1, <2>2, RequestLocal
<1>5. ASSUME NEW sv \in Servers, Crash(sv) \/ Boot(sv) PROVE LocalInv'
  BY <1>5, CrashLocal, BootLocal
<1>6. ASSUME NEW from \in Servers, NEW to \in Servers, Restore(from, to) PROVE LocalInv'
  BY <1>6, RestoreLocal
<1>7. CASE Deliver
  <2>1. PICK d \in net : compute_6(host2, d.arg)
    BY <1>7 DEF Deliver, Executes
  <2>2. up[host2] /\ UNCHANGED up /\ PathRequest(d.arg)
    BY <1>7 DEF Deliver, AskedByPath, PathRequest
  <2>3. QED
    BY <1>1, <2>1, <2>2, Hosts, RequestLocal
<1>8. CASE Finish
  <2>1. compute_6(host1, copying.arg)
    BY <1>8 DEF Finish, Executes
  <2>2. up[host1] /\ UNCHANGED up /\ PathRequest(copying.arg)
    BY <1>1, <1>8 DEF Finish, AskedByPath, PathRequest
  <2>3. QED
    BY <1>1, <2>1, <2>2, Hosts, RequestLocal
<1>9. CASE SendAgain \/ Lose
  <2>1. UNCHANGED <<serverVars, up>>
    BY <1>9 DEF SendAgain, Lose
  <2>2. QED
    BY <1>2, <2>1
<1>10. CASE UNCHANGED vars
  BY <1>2, <1>10 DEF vars
<1>11. QED
  BY <1>3, <1>4, <1>5, <1>6, <1>7, <1>8, <1>9, <1>10 DEF Next

-----------------------------------------------------------------------------
(***************************************************************************)
(* Between two faults, from the beginning or from a restoration on, the    *)
(* servers are in step: their tables match, but while the primary waits    *)
(* for a copy that the secondary has executed they do once the primary has *)
(* executed the update too.  Restorations count when nobody links, and     *)
(* when the inodes are finitely many, for rsync gives every name an inode  *)
(* of its own.                                                             *)
(***************************************************************************)
Renewable == NoLinks /\ IsFiniteSet(Inodes)
Quiet == faults = since /\ (faults = 0 \/ Renewable)

CopyOnItsWay == [id |-> copying.id, n |-> 1, arg |-> CopyOf(copying.arg)]

\* The tables of the secondary are what the update makes of those of the primary.
Ahead(a) ==
  /\ hung[host2] <=> HungAfter(host1, a)
  /\ \E m \in Renumberings :
       Image(m, EntAfter(host1, a), NodeAfter(host1, a), FdtAfter(host1, a), LockAfter(host1, a),
             ent[host2], node[host2], fdt[host2], lock[host2])

\* The update is the last thing the secondary executed, and came to what it will
\* come to at the primary.
Told(a) ==
  LET n == Len(log[host2]) IN
  /\ n \in DOMAIN log[host2] /\ log[host2][n].ret = RetAfter(host1, a)
  /\ \A k \in DOMAIN log[host2] : log[host2][k].id = copying.id <=> k = n

BeforeCopy ==
  /\ copying.answer = "awaited" /\ net = {CopyOnItsWay}
  /\ Alike /\ copying.id \notin Executed(host2)
AfterCopy ==
  /\ net = {} /\ copying.answer = IF hung[host2] THEN "awaited" ELSE "here"
  /\ Ahead(copying.arg) /\ Told(copying.arg)

InStep ==
  /\ queue[host2] = {}
  /\ copying = None => net = {} /\ Alike
  /\ copying # None => BeforeCopy \/ AfterCopy
StepInv == Quiet => InStep

\* But for a restoration, a step in a quiet state that leads to one is no fault.
LEMMA QuietBefore ==
  ASSUME CountT, Quiet', Counts, since' = since \/ since' = None
  PROVE  Quiet /\ UNCHANGED <<faults, since>> /\ since # None
<1>1. /\ faults \in Nat /\ faults' \in Nat /\ faults <= faults' /\ faults' = since'
      /\ since \in 0 .. faults \cup {None} /\ since' # None
  BY BoundsAssumption, NoneIsNoNumber DEF CountT, Counts, Quiet
<1>2. since' = since /\ since \in 0 .. faults
  BY <1>1
<1>3. faults = faults'
  BY <1>1, <1>2
<1>4. QED
  BY <1>1, <1>2, <1>3 DEF Quiet

\* A fault, or a host that misses what is sent to it, is not quiet.
LEMMA QuietIs ==
  ASSUME CountT, Quiet, Quiet', UNCHANGED <<faults, since>>
  PROVE  /\ ~Fault
         /\ \A hosts : ~Missed(hosts)
         /\ \A pending : Expires(pending) => ~pending /\ faults # 0
<1>1. faults \in Nat /\ since # None
  BY NoneIsNoNumber, BoundsAssumption DEF CountT, Quiet
<1>2. ~Fault
  BY <1>1 DEF Fault
<1>3. QED
  BY <1>1, <1>2 DEF Missed, Expires

\* What InStep says depends on these variables only.
LEMMA InStepSame ==
  ASSUME InStep, UNCHANGED <<ent, node, fdt, lock, hung, copying, net>>,
         queue'[host2] = queue[host2], log'[host2] = log[host2]
  PROVE  InStep'
<1>1. Alike' <=> Alike
  BY DEF Alike, Matches
<1>2. copying # None => /\ Ahead(copying.arg)' <=> Ahead(copying.arg)
                        /\ Told(copying.arg)' <=> Told(copying.arg)
  <2>1. PICK a : a = copying.arg /\ a = copying'.arg
    OBVIOUS
  <2>2. Ahead(a)' <=> Ahead(a)
    BY Hosts, Frame DEF Ahead
  <2>3. Told(a)' <=> Told(a)
    BY Hosts, Frame DEF Told
  <2>4. QED
    BY <2>1, <2>2, <2>3 DEF Ahead, Told
<1>3. QED
  BY <1>1, <1>2 DEF InStep, BeforeCopy, AfterCopy, CopyOnItsWay, Executed

-----------------------------------------------------------------------------
(* The servers stay in step. *)

\* The primary takes an update and sends its copy.
LEMMA CopyStep ==
  ASSUME IInv, InStep, NEW r \in queue[host1], copying = None,
         queue' = [queue EXCEPT ![host1] = @ \ {r}],
         copying' = [id |-> r.id, arg |-> r.arg, sends |-> 1, answer |-> "awaited"],
         net' = net \cup {[id |-> r.id, n |-> 1, arg |-> CopyOf(r.arg)]},
         UNCHANGED <<serverVars, log>>
  PROVE  InStep'
<1>1. queue'[host2] = {}
  BY Hosts DEF InStep, IInv, Types, QueueT
<1>2. Alike'
  BY DEF InStep, Alike, Matches, serverVars
<1>3. copying'.id = r.id /\ copying'.arg = r.arg /\ copying'.answer = "awaited"
  OBVIOUS
<1>4. net' = {CopyOnItsWay'}
  BY <1>3 DEF InStep, CopyOnItsWay
<1>5. copying'.id \notin Executed(host2)'
  <2>1. r.id \notin Executed(host2)
    BY DEF IInv, Routes, OnePlace, Waiting
  <2>2. QED
    BY <1>3, <2>1 DEF Executed
<1>6. copying' # None
  <2>1. r \in Sent /\ 1 \in 1 .. MaxFaults + 1
    BY Hosts, BoundsAssumption DEF IInv, Types, QueueT
  <2>2. copying' \in Copying
    BY <2>1 DEF Copying, Sent
  <2>3. QED
    BY <2>2, NoneIsNoCopy
<1>7. QED
  BY <1>1, <1>2, <1>3, <1>4, <1>5, <1>6 DEF InStep, BeforeCopy

\* The secondary executes the copy.
LEMMA DeliverStep ==
  ASSUME IInv, AskedByPath, LocalInv, InStep, Deliver
  PROVE  InStep'
<1>1. PICK d \in net :
        /\ net' = net \ {d}
        /\ Executes(host2, d, FALSE)
        /\ copying' = IF copying # None /\ copying.id = d.id /\ ~hung'[host2]
                      THEN [copying EXCEPT !.answer = "here"]
                      ELSE copying
  BY DEF Deliver
<1>2. copying # None /\ BeforeCopy
  BY <1>1 DEF InStep, AfterCopy
<1>3. PICK a : a = copying.arg
  OBVIOUS
<1>4. /\ d.id = copying.id /\ d.arg = CopyOf(a) /\ net' = {}
      /\ copying \in Copying /\ Forwards(a) /\ a \in UpdatesByPath
  BY <1>1, <1>2, <1>3
     DEF BeforeCopy, CopyOnItsWay, IInv, Types, CopyingT, AskedByPath, UpdateRequest
<1>5. ServerInv /\ ServerTypeOK /\ LogT /\ Holders
  BY DEF IInv, Types, ServerInv, LocalInv
<1>6. CopyOf(a) \in UpdatesByPath /\ SameRequest(a, CopyOf(a)) /\ CopyOf(a) \in Requests
  BY <1>4, CopyAsks, UpdatesCarryRoles
<1>7. compute_6(host2, CopyOf(a))
  BY <1>1, <1>4 DEF Executes
<1>8. Predicted(host2, a) /\ Elsewhere(host2)
  BY <1>4, <1>5, <1>6, <1>7, Hosts, UpdatePredicted, UpdateElsewhere, CopyPredicted
<1>9. /\ copying'.arg = a /\ copying'.id = copying.id /\ copying' # None
      /\ copying'.answer = IF hung'[host2] THEN "awaited" ELSE "here"
  <2>1. CASE hung'[host2]
    BY <1>1, <1>2, <1>3, <2>1 DEF BeforeCopy
  <2>2. CASE ~hung'[host2]
    <3>1. copying' = [copying EXCEPT !.answer = "here"]
      BY <1>1, <1>2, <1>4, <2>2
    <3>2. /\ copying'.arg = a /\ copying'.id = copying.id /\ copying'.answer = "here"
          /\ copying' \in Copying
      BY <1>3, <1>4, <3>1 DEF Copying
    <3>3. QED
      BY <2>2, <3>2, NoneIsNoCopy
  <2>3. QED
    BY <2>1, <2>2
<1>10. PICK m \in Renumberings : Matches(m)
  BY <1>2 DEF BeforeCopy, Alike
<1>11. /\ RetAfter(host1, a) = RetAfter(host2, a)
       /\ HungAfter(host1, a) <=> HungAfter(host2, a)
  BY <1>4, <1>5, <1>10, SameVerdict
<1>12. \A x : /\ EntAfter(host1, x)' = EntAfter(host1, x)
              /\ NodeAfter(host1, x)' = NodeAfter(host1, x)
              /\ FdtAfter(host1, x)' = FdtAfter(host1, x)
              /\ LockAfter(host1, x)' = LockAfter(host1, x)
              /\ HungAfter(host1, x)' <=> HungAfter(host1, x)
              /\ RetAfter(host1, x)' = RetAfter(host1, x)
  BY <1>8, Hosts, Frame DEF Elsewhere
<1>13. Ahead(a)'
  <2>1. PICK m2 \in Renumberings :
          Image(m2, EntAfter(host1, a), NodeAfter(host1, a), FdtAfter(host1, a),
                LockAfter(host1, a), ent'[host2], node'[host2], fdt'[host2], lock'[host2])
    BY <1>4, <1>5, <1>8, <1>10, AlikeAfter DEF Predicted
  <2>2. hung'[host2] <=> HungAfter(host1, a)
    BY <1>8, <1>11 DEF Predicted
  <2>3. QED
    BY <1>12, <2>1, <2>2 DEF Ahead
<1>14. Told(a)'
  <2> DEFINE e == Outcome(host2, d, FALSE)
             n == Len(log[host2]) + 1
  <2>1. Grown(host2, e) /\ LogT' /\ d.id \in Nat
    <3>1. d.id \in Nat
      BY <1>4 DEF Copying
    <3>2. QED
      BY <1>1, <1>4, <1>5, <1>6, <3>1, Hosts, ExecutesGrows
  <2>2. e.id = copying.id /\ e.ret = RetAfter(host1, a)
    BY <1>4, <1>8, <1>11 DEF Outcome, Predicted
  <2> HIDE DEF e
  <2>3. /\ DOMAIN log'[host2] = 1 .. n /\ DOMAIN log[host2] = 1 .. n - 1 /\ n \in Nat
        /\ log'[host2][n] = e /\ \A k \in 1 .. n - 1 : log'[host2][k] = log[host2][k]
        /\ Len(log'[host2]) = n /\ n \in 1 .. n
    BY <1>5, <2>1, Hosts, GrownExecuted DEF Grown
  <2> HIDE DEF n
  <2>4. \A k \in 1 .. n - 1 : log[host2][k].id # copying.id
    BY <1>2, <2>3 DEF BeforeCopy, Executed
  <2>5. \A k \in 1 .. n : log'[host2][k].id = copying.id <=> k = n
    BY <2>2, <2>3, <2>4
  <2>6. QED
    BY <1>9, <1>12, <2>2, <2>3, <2>5 DEF Told
<1>15. queue'[host2] = {}
  BY DEF Deliver, InStep
<1>16. AfterCopy'
  <2>1. Ahead(copying.arg)' /\ Told(copying.arg)'
    BY <1>9, <1>13, <1>14 DEF Ahead, Told
  <2>2. QED
    BY <1>4, <1>9, <2>1 DEF AfterCopy
<1>17. QED
  BY <1>9, <1>15, <1>16 DEF InStep

\* The primary executes the update that it waited for.
LEMMA FinishStep ==
  ASSUME IInv, AskedByPath, InStep, Finish,
         \A pending : Expires(pending) => ~pending /\ faults # 0
  PROVE  InStep'
<1>1. /\ copying # None /\ compute_6(host1, copying.arg)
      /\ copying.answer = "here" \/ ~CopyPending
      /\ copying' = None /\ UNCHANGED <<net, queue>>
  BY DEF Finish, Executes
<1>2. ~hung[host1]
  BY <1>1 DEF compute_6
<1>3. AfterCopy
  <2>1. SUFFICES ASSUME BeforeCopy PROVE FALSE
    BY <1>1 DEF InStep
  <2>2. CopyOnItsWay \in net /\ CopyOnItsWay.id = copying.id /\ copying.answer = "awaited"
    BY <2>1 DEF BeforeCopy, CopyOnItsWay
  <2>3. ~hung[host2]
    BY <1>2, <2>1 DEF BeforeCopy, Alike
  <2>4. CopyPending
    BY <2>2, <2>3 DEF CopyPending
  <2>5. QED
    BY <1>1, <2>2, <2>4
<1>4. PICK a : a = copying.arg
  OBVIOUS
<1>5. a \in UpdatesByPath /\ ServerTypeOK
  BY <1>1, <1>4 DEF AskedByPath, UpdateRequest, IInv, ServerInv
<1>6. Predicted(host1, a) /\ Elsewhere(host1)
  BY <1>1, <1>4, <1>5, Hosts, UpdatePredicted, UpdateElsewhere
<1>7. Ahead(a)
  BY <1>3, <1>4 DEF AfterCopy
<1>8. Alike'
  BY <1>6, <1>7, Hosts DEF Ahead, Alike, Matches, Predicted, Elsewhere
<1>9. QED
  BY <1>1, <1>3, <1>8 DEF InStep, AfterCopy

\* The primary executes what it does not copy, which is no update.
LEMMA LookupStep ==
  ASSUME IInv, AskedByPath, InStep, NEW r \in queue[host1], Executes(host1, r, FALSE),
         ~Forwards(r.arg), queue' = [queue EXCEPT ![host1] = @ \ {r}],
         UNCHANGED <<copying, net>>
  PROVE  InStep'
<1>1. r.arg \in LookupsByPath
  BY Hosts DEF AskedByPath, PathRequest, UpdateRequest
<1>2. UNCHANGED <<ent, node, fdt, lock, hung>>
  BY <1>1, Hosts, LookupPredicted DEF Executes
<1>3. queue'[host2] = queue[host2] /\ log'[host2] = log[host2]
  BY Hosts DEF Executes, IInv, Types, QueueT, LogT
<1>4. QED
  BY <1>2, <1>3, InStepSame

LEMMA ServeStep ==
  ASSUME IInv, AskedByPath, InStep, NEW sv \in Servers, Serve(sv), \A hosts : ~Missed(hosts)
  PROVE  InStep'
<1>1. PICK r \in queue[sv] :
        /\ queue' = [queue EXCEPT ![sv] = @ \ {r}]
        /\ \/ /\ Forwards(r.arg) /\ up[host2]
              /\ copying' = [id |-> r.id, arg |-> r.arg, sends |-> 1, answer |-> "awaited"]
              /\ net' = net \cup {[id |-> r.id, n |-> 1, arg |-> CopyOf(r.arg)]}
              /\ UNCHANGED <<serverVars, answers, log, faults, since>>
           \/ /\ Executes(sv, r, FALSE) /\ ~Forwards(r.arg)
              /\ UNCHANGED <<copying, net>>
  BY DEF Serve
<1>2. sv = host1 /\ copying = None
  BY <1>1, HostsAssumption DEF InStep, Serve
<1>3. QED
  BY <1>1, <1>2, CopyStep, LookupStep

\* Files that all have a name follow their names.
LEMMA NamedFilesMap ==
  ASSUME NEW m \in Renumberings, NEW e \in [AnyPath -> Numbers], NEW e2 \in [AnyPath -> Numbers],
         NEW n, NEW n2, SameNames(m, e, e2),
         \A p \in AnyPath : e[p] # None => n2[e2[p]] = n[e[p]],
         \A i \in Inodes : n[i] # None => \E p \in AnyPath : e[p] = i,
         \A i \in Inodes : n2[i] # None => \E p \in AnyPath : e2[p] = i
  PROVE  SameAt(m, n, n2)
<1>1. SUFFICES ASSUME NEW i \in Inodes PROVE n2[m[i]] = n[i]
  BY DEF SameAt
<1>2. CASE \E p \in AnyPath : e[p] = i
  <2>1. PICK p \in AnyPath : e[p] = i
    BY <1>2
  <2>2. e2[p] = m[i] /\ e[p] # None
    BY <1>1, <2>1, NumbersMap DEF SameNames
  <2>3. QED
    BY <2>1, <2>2
<1>3. CASE \A p \in AnyPath : e[p] # i
  <2>1. n[i] = None
    BY <1>1, <1>3
  <2>2. \A p \in AnyPath : e2[p] # m[i]
    BY <1>1, <1>3, NumbersMap DEF SameNames, Numbers
  <2>3. m[i] \in Inodes
    BY <1>1, NumbersMap
  <2>4. QED
    BY <2>1, <2>2, <2>3
<1>4. QED
  BY <1>2, <1>3

\* rsync gives the tables of a stopped server the names and files of the other.
LEMMA RestoreStep ==
  ASSUME IInv, NothingAhead, LocalInv, NEW from \in Servers, NEW to \in Servers,
         Restore(from, to), Renewable
  PROVE  InStep'
<1>1. /\ UNCHANGED <<fdt, lock, hung, queue, copying, net>> /\ from # to
      /\ \A sv \in Servers : ~up[sv]
  BY DEF Restore
<1>2. /\ queue'[host2] = {} /\ copying' = None /\ net' = {}
  BY <1>1, Hosts DEF NothingAhead, IInv, Types, CopyingT
<1>3. /\ ~hung'[host1] /\ ~hung'[host2]
      /\ \A sv \in Servers : /\ Gone(sv) /\ NamesApart(ent[sv])
                             /\ \A fd \in Fds : fdt[sv][fd] = None
  BY <1>1, Hosts DEF LocalInv, DownInv, Gone, OneName, Renewable, IInv, Types, DeadT
<1>4. ServerTypeOK
  BY DEF IInv, ServerInv
<1>5. PICK e, n, e2, n2 : e = ent[from] /\ n = node[from] /\ e2 = ent'[to] /\ n2 = node'[to]
  OBVIOUS
<1>6. /\ NamesApart(e2) /\ e2 \in [AnyPath -> Numbers]
      /\ \A p \in AnyPath : e2[p] = None <=> e[p] = None
      /\ \A p \in AnyPath : e2[p] # None => n2[e2[p]] = n[e[p]]
      /\ \A i \in Inodes : n2[i] # None => \E p \in AnyPath : e2[p] = i
      /\ e \in [AnyPath -> Numbers] /\ NamesApart(e)
      /\ \A i \in Inodes : n[i] # None => \E p \in AnyPath : e[p] = i
      /\ ent'[from] = e /\ node'[from] = n
  BY <1>1, <1>3, <1>4, <1>5, Restored, TableTypes DEF File, Gone
<1>7. ASSUME NEW m \in Renumberings
      PROVE  /\ SameAt(m, lock'[host1], lock'[host2])
             /\ SameOpen(m, fdt'[host1], fdt'[host2])
  <2>1. \A sv \in Servers : /\ \A i \in Inodes : lock'[sv][i] = None
                            /\ \A fd \in Fds : fdt'[sv][fd] = None
    BY <1>1, <1>3 DEF Gone
  <2>2. QED
    BY <2>1, Hosts, NumbersMap DEF SameAt, SameOpen
<1>8. CASE to = host2
  <2>1. PICK m \in Renumberings : SameNames(m, e, e2)
    BY <1>6, TreesRenumbered DEF Renewable
  <2>2. from = host1
    BY <1>1, <1>8, HostsAssumption
  <2>3. SameAt(m, n, n2)
    BY <1>6, <2>1, NamedFilesMap
  <2>4. Matches(m)'
    BY <1>5, <1>6, <1>7, <1>8, <2>1, <2>2, <2>3 DEF Matches, Image
  <2>5. QED
    BY <1>2, <1>3, <2>4 DEF InStep, Alike
<1>9. CASE to = host1
  <2>1. from = host2
    BY <1>1, <1>9, HostsAssumption
  <2>2. PICK m \in Renumberings : SameNames(m, e2, e)
    BY <1>6, TreesRenumbered DEF Renewable
  <2>3. SameAt(m, n2, n)
    BY <1>6, <2>2, NamedFilesMap
  <2>4. Matches(m)'
    BY <1>5, <1>6, <1>7, <1>9, <2>1, <2>2, <2>3 DEF Matches, Image
  <2>5. QED
    BY <1>2, <1>3, <2>4 DEF InStep, Alike
<1>10. QED
  BY <1>8, <1>9, HostsAssumption

\* But for a restoration, faults are only added.
LEMMA CountsNext ==
  ASSUME IInv, Next, ~ \E from, to \in Servers : Restore(from, to)
  PROVE  Counts /\ (since' = since \/ since' = None)
<1>1. CountT
  BY DEF IInv, Types
<1>2. \/ UNCHANGED <<faults, since>>
      \/ Fault /\ UNCHANGED since
      \/ \E hosts : Missed(hosts)
      \/ \E pending : Expires(pending) /\ UNCHANGED since
  <2>1. ASSUME NEW c \in Ips, Connect(c)
        PROVE  UNCHANGED <<faults, since>> \/ \E hosts : Missed(hosts)
    BY <2>1 DEF Connect
  <2>2. ASSUME NEW c \in Ips, Return(c) \/ GiveUp(c)
        PROVE  \/ UNCHANGED <<faults, since>>
               \/ \E pending : Expires(pending) /\ UNCHANGED since
    BY <2>2, ResultsKeep DEF Return, GiveUp
  <2>3. ASSUME NEW sv \in Servers, Serve(sv)
        PROVE  UNCHANGED <<faults, since>> \/ \E hosts : Missed(hosts)
    BY <2>3 DEF Serve
  <2>4. ASSUME NEW sv \in Servers, Crash(sv) \/ Boot(sv)
        PROVE  UNCHANGED <<faults, since>> \/ (Fault /\ UNCHANGED since)
    BY <2>4 DEF Crash, Boot
  <2>5. CASE SendAgain \/ Deliver \/ Lose
    BY <2>5 DEF SendAgain, Deliver, Lose
  <2>6. CASE Finish
    BY <2>6 DEF Finish
  <2>7. QED
    BY <2>1, <2>2, <2>3, <2>4, <2>5, <2>6 DEF Next, ClientStep
<1>3. \A hosts : Missed(hosts) => since' = since \/ since' = None
  BY DEF Missed
<1>4. QED
  BY <1>1, <1>2, <1>3, CountSteps

LEMMA StepNext ==
  ASSUME IInv, IInv', AskedByPath, NothingAhead, NoneDown, LocalInv, StepInv,
         [Next]_vars
  PROVE  StepInv'
<1> SUFFICES ASSUME Quiet' PROVE InStep'
  BY DEF StepInv
<1>1. CountT /\ CountT' /\ faults \in Nat /\ faults' \in Nat
  BY BoundsAssumption DEF IInv, Types, CountT
<1>2. ASSUME NEW from \in Servers, NEW to \in Servers, Restore(from, to) PROVE InStep'
  <2>1. faults # 0
    BY <1>2, Hosts DEF Restore, NoneDown
  <2>2. Renewable
    BY <1>2, <2>1 DEF Restore, Quiet
  <2>3. QED
    BY <1>2, <2>2, RestoreStep
<1>3. ASSUME Quiet, InStep, UNCHANGED <<faults, since>>,
             \E c \in Ips : ClientStep(c)
      PROVE  InStep'
  <2>1. PICK c \in Ips : ClientStep(c)
    BY <1>3
  <2>2. \A hosts : ~Missed(hosts)
    BY <1>1, <1>3, QuietIs
  <2>3. CASE Return(c) \/ GiveUp(c)
    BY <1>3, <2>3, ResultsKeep, InStepSame DEF serverVars
  <2>4. CASE Connect(c)
    <3>1. PICK a \in Wanted(c) : up[host1] /\ Send(c, a, host1)
      BY <2>2, <2>4 DEF Connect
    <3>2. queue'[host2] = queue[host2]
      BY <3>1, Hosts DEF Send, IInv, Types, QueueT
    <3>3. UNCHANGED <<ent, node, fdt, lock, hung, copying, net, log>>
      BY <2>4 DEF Connect, serverVars
    <3>4. QED
      BY <1>3, <3>2, <3>3, InStepSame
  <2>5. QED
    BY <2>1, <2>3, <2>4 DEF ClientStep
<1>4. ASSUME Quiet, InStep, UNCHANGED <<faults, since>>,
             \/ \E sv \in Servers : Serve(sv) \/ Crash(sv) \/ Boot(sv)
             \/ SendAgain \/ Deliver \/ Lose \/ Finish
      PROVE  InStep'
  <2>1. /\ ~Fault /\ \A hosts : ~Missed(hosts)
        /\ \A pending : Expires(pending) => ~pending /\ faults # 0
    BY <1>1, <1>4, QuietIs
  <2>2. ASSUME NEW sv \in Servers, Serve(sv) PROVE InStep'
    BY <1>4, <2>1, <2>2, ServeStep
  <2>3. ASSUME NEW sv \in Servers, Boot(sv) PROVE InStep'
    <3>1. UNCHANGED <<ent, node, fdt, lock, hung, copying, net, queue, log>>
      BY <2>3 DEF Boot, serverVars
    <3>2. QED
      BY <1>4, <3>1, InStepSame
  <2>4. ~SendAgain /\ ~Lose /\ \A sv \in Servers : ~Crash(sv)
    BY <2>1 DEF SendAgain, Lose, Crash
  <2>5. CASE Deliver
    BY <1>4, <2>5, DeliverStep
  <2>6. CASE Finish
    BY <1>4, <2>1, <2>6, FinishStep
  <2>7. QED
    BY <1>4, <2>2, <2>3, <2>4, <2>5, <2>6
<1>5. CASE UNCHANGED vars
  <2>1. UNCHANGED <<ent, node, fdt, lock, hung, copying, net, queue, log, faults, since>>
    BY <1>5 DEF vars, serverVars
  <2>2. Quiet
    BY <2>1 DEF Quiet
  <2>3. QED
    BY <2>1, <2>2, InStepSame DEF StepInv
<1>6. CASE /\ Next
           /\ ~ \E from, to \in Servers : Restore(from, to)
  <2>1. Counts /\ (since' = since \/ since' = None)
    BY <1>6, CountsNext
  <2>2. Quiet /\ UNCHANGED <<faults, since>>
    BY <1>1, <2>1, QuietBefore
  <2>3. InStep
    BY <2>2 DEF StepInv
  <2>4. QED
    BY <1>3, <1>4, <1>6, <2>2, <2>3 DEF Next
<1>7. QED
  BY <1>2, <1>5, <1>6

\* At first the tables are the same, and nothing is under way.
LEMMA InStepInit ==
  ASSUME CallsByPath, ReplicationInit
  PROVE  AskedByPath /\ NothingAhead /\ NoneDown /\ LocalInv /\ StepInv
<1>1. AskedByPath /\ NothingAhead /\ NoneDown
  BY Hosts DEF ReplicationInit, AskedByPath, NothingAhead, NoneDown
<1>2. /\ fdt = [sv \in Servers |-> [fd \in Fds |-> None]]
      /\ lock = [sv \in Servers |-> [i \in Inodes |-> None]]
      /\ hung = [sv \in Servers |-> FALSE] /\ up = [sv \in Servers |-> TRUE]
      /\ queue[host2] = {} /\ copying = None /\ net = {}
      /\ NoRoot \/ RootMade
  BY Hosts DEF ReplicationInit
<1>3. ServerTypeOK
  BY InitInv DEF IInv, ServerInv
<1>4. /\ \A sv \in Servers : NamesApart(ent[sv])
      /\ ent[host1] = ent[host2] /\ node[host1] = node[host2]
  <2>1. CASE NoRoot
    BY <2>1, Hosts DEF NoRoot, NamesApart
  <2>2. CASE RootMade
    <3>1. PICK i :
           /\ ent = [sv \in Servers |-> [p \in AnyPath |-> IF p = Root THEN i ELSE None]]
           /\ node = [sv \in Servers |->
                [j \in Inodes |-> IF j = i THEN NewFile("dir", RootUid, FullMode) ELSE None]]
      BY ZenonT(30), <2>2 DEF RootMade
    <3>2. QED
      BY <3>1, Hosts DEF NamesApart
  <2>3. QED
    BY <1>2, <2>1, <2>2
<1>5. LocalInv
  BY <1>2, <1>4 DEF LocalInv, Holders, OneName, DownInv
<1>6. Alike
  <2> DEFINE m == [i \in Numbers |-> i]
  <2>1. m \in Renumberings /\ \A i \in Numbers : m[i] = i
    BY DEF Renumberings, Numbers
  <2> HIDE DEF m
  <2>2. /\ ent[host1] \in [AnyPath -> Numbers] /\ \A i \in Inodes : i \in Numbers
        /\ \A fd \in Fds : fdt[host1][fd] = None /\ fdt[host2][fd] = None
        /\ \A i \in Inodes : lock[host1][i] = None /\ lock[host2][i] = None
    BY <1>2, <1>3, Hosts, TableTypes DEF Numbers
  <2>3. Matches(m)
    BY <1>4, <2>1, <2>2 DEF Matches, Image, SameNames, SameAt, SameOpen
  <2>4. QED
    BY <1>2, <2>1, <2>3, Hosts DEF Alike
<1>7. QED
  BY <1>1, <1>2, <1>5, <1>6 DEF StepInv, InStep

\* The invariant of the replicas.
ReplicaInv == IInv /\ AskedByPath /\ NothingAhead /\ NoneDown /\ LocalInv /\ StepInv

LEMMA ReplicaInvariant ==
  ASSUME CallsByPath
  PROVE  Spec => []ReplicaInv
<1>1. ReplicationInit => ReplicaInv
  BY InitInv, InStepInit DEF ReplicaInv
<1>2. ReplicaInv /\ [Next]_vars => ReplicaInv'
  <2> SUFFICES ASSUME ReplicaInv, [Next]_vars PROVE ReplicaInv'
    OBVIOUS
  <2>1. IInv'
    BY NextInv DEF ReplicaInv
  <2>2. AskedByPath' /\ NothingAhead' /\ NoneDown' /\ LocalInv'
    BY AskedNext, AheadNext, DownNext, LocalNext DEF ReplicaInv
  <2>3. StepInv'
    BY <2>1, StepNext DEF ReplicaInv
  <2>4. QED
    BY <2>1, <2>2, <2>3 DEF ReplicaInv
<1>3. QED
  BY <1>1, <1>2, PTL DEF Spec

LEMMA AlikeTrees ==
  ASSUME ServerTypeOK, Alike
  PROVE  SameTree
<1>1. PICK m \in Renumberings : Matches(m)
  BY DEF Alike
<1>2. SUFFICES ASSUME NEW p \in AnyPath, NEW q \in AnyPath
               PROVE  /\ NamedFile(host1, p) = NamedFile(host2, p)
                      /\ SameFile(host1, p, q) <=> SameFile(host2, p, q)
  BY DEF SameTree
<1>3. QED
  BY <1>1, SamePath DEF NamedFile, SameFile

\* From equal disks on the trees of the servers are the same between updates
\* until something fails, and again once rsync.py has made them equal, whatever
\* had failed before (bb_* with TRANSMIT_TO_SECONDATY, rsync.py).  Nobody links,
\* as rsync gives each name of a file with several names a file of its own.
THEOREM EqualTrees ==
  ASSUME Calls \subseteq UpdatesByPath \cup LookupsByPath, NoLinks, IsFiniteSet(Inodes)
  PROVE  Spec => []EqualSinceRestored
<1>1. ReplicaInv => EqualSinceRestored
  BY AlikeTrees DEF ReplicaInv, IInv, ServerInv, StepInv, InStep, Quiet, Renewable,
     EqualSinceRestored
<1>2. QED
  BY <1>1, ReplicaInvariant, PTL DEF CallsByPath

\* "Several updating operation needs to be completed on secondary server for
\* replication": for calls by path, links among them, the trees are the same
\* between updates until the first fault.
THEOREM AgreeByPath ==
  ASSUME Calls \subseteq UpdatesByPath \cup LookupsByPath
  PROVE  Spec => []ReplicasAgree
<1>1. ReplicaInv => ReplicasAgree
  BY AlikeTrees DEF ReplicaInv, IInv, ServerInv, NoneDown, StepInv, InStep, Quiet, ReplicasAgree
<1>2. QED
  BY <1>1, ReplicaInvariant, PTL DEF CallsByPath

-----------------------------------------------------------------------------
(***************************************************************************)
(* The histories of the servers, as long as nothing fails.                 *)
(***************************************************************************)
Same(j, k) == /\ log[host1][j].id = log[host2][k].id
              /\ log[host1][j].ret = log[host2][k].ret
\* What the secondary has executed and the primary too.
BothDid == {k \in DOMAIN log[host2] :
              copying # None /\ k = Len(log[host2]) => log[host2][k].id # copying.id}
SameHistory ==
  /\ \A j \in Acked : \E k \in BothDid : Same(j, k)
  /\ \A k \in BothDid : \E j \in Acked : Same(j, k)
  /\ \A i, j \in Acked : \A k, l \in BothDid : Same(i, k) /\ Same(j, l) => (i < j <=> k < l)

LEMMA HistoryIs == ReplicasInStep <=> (faults = 0 => SameHistory)
BY DEF ReplicasInStep, SameHistory, Same, BothDid, Acked

\* Nothing the primary copied was executed, and what the secondary had executed
\* was executed by both.
LEMMA HistorySame ==
  ASSUME SameHistory, Acked' = Acked, BothDid' = BothDid,
         \A j \in Acked : log'[host1][j] = log[host1][j],
         \A k \in BothDid : log'[host2][k] = log[host2][k]
  PROVE  SameHistory'
<1>1. \A j \in Acked : \A k \in BothDid : Same(j, k)' <=> Same(j, k)
  BY DEF Same
<1>2. QED
  BY <1>1 DEF SameHistory

\* The primary takes an update that is new to the secondary, or a lookup.
LEMMA HistoryServe ==
  ASSUME IInv, IInv', AskedByPath, SameHistory, NEW sv \in Servers, Serve(sv),
         queue[host2] = {}, \A hosts : ~Missed(hosts)
  PROVE  SameHistory'
<1>1. PICK r \in queue[sv] :
        \/ /\ copying' = [id |-> r.id, arg |-> r.arg, sends |-> 1, answer |-> "awaited"]
           /\ UNCHANGED log
        \/ /\ Executes(sv, r, FALSE) /\ UNCHANGED copying
  BY DEF Serve
<1>2. sv = host1 /\ copying = None
  BY <1>1, HostsAssumption DEF Serve
<1>3. BothDid = DOMAIN log[host2]
  BY <1>2 DEF BothDid
<1>4. CASE /\ copying' = [id |-> r.id, arg |-> r.arg, sends |-> 1, answer |-> "awaited"]
           /\ UNCHANGED log
  <2>1. copying'.id = r.id /\ r.id \notin Executed(host2)
    BY <1>2, <1>4 DEF IInv, Routes, OnePlace, Waiting
  <2>2. BothDid' = BothDid
    BY <1>3, <1>4, <2>1 DEF BothDid, Executed
  <2>3. QED
    BY <1>4, <2>2, HistorySame DEF Acked
<1>5. CASE Executes(sv, r, FALSE) /\ UNCHANGED copying
  <2> DEFINE e == Outcome(host1, r, FALSE)
  <2>1. Grown(host1, e) /\ ~e.copied /\ LogT /\ LogT'
    <3>1. r.id \in Nat /\ r.arg \in Requests
      BY <1>2 DEF IInv, Types, QueueT, Sent
    <3>2. QED
      BY <1>2, <1>5, <3>1, Hosts, ExecutesGrows DEF IInv, Types, Outcome
  <2> HIDE DEF e
  <2>2. /\ DOMAIN log'[host1] = 1 .. Len(log[host1]) + 1 /\ Len(log[host1]) \in Nat
        /\ DOMAIN log[host1] = 1 .. Len(log[host1])
        /\ log'[host1][Len(log[host1]) + 1] = e /\ log'[host2] = log[host2]
        /\ \A k \in 1 .. Len(log[host1]) : log'[host1][k] = log[host1][k]
    BY <2>1, Hosts, GrownExecuted DEF Grown
  <2>3. Acked' = Acked
    BY <2>1, <2>2 DEF Acked
  <2>4. BothDid' = BothDid
    BY <1>5, <2>2 DEF BothDid
  <2>5. QED
    BY <2>2, <2>3, <2>4, HistorySame DEF Acked
<1>6. QED
  BY <1>1, <1>4, <1>5

\* The secondary executes the copy: the primary has not.
LEMMA HistoryDeliver ==
  ASSUME IInv, SameHistory, InStep, InStep', Deliver
  PROVE  SameHistory'
<1>1. PICK d \in net :
        /\ net' = net \ {d}
        /\ Executes(host2, d, FALSE)
        /\ copying' = IF copying # None /\ copying.id = d.id /\ ~hung'[host2]
                      THEN [copying EXCEPT !.answer = "here"]
                      ELSE copying
  BY DEF Deliver
<1>2. copying # None /\ BeforeCopy /\ copying \in Copying /\ d.id = copying.id
  BY <1>1 DEF InStep, AfterCopy, BeforeCopy, CopyOnItsWay, IInv, Types, CopyingT
<1>3. BothDid = DOMAIN log[host2]
  BY <1>2 DEF BothDid, BeforeCopy, Executed
<1> DEFINE e == Outcome(host2, d, FALSE)
<1>4. Grown(host2, e) /\ LogT /\ LogT' /\ e.id = copying.id
  <2>1. d.id \in Nat /\ d.arg \in Requests
    BY <1>1 DEF IInv, Types, NetT, Requests
  <2>2. QED
    BY <1>1, <1>2, <2>1, Hosts, ExecutesGrows DEF IInv, Types, Outcome
<1> HIDE DEF e
<1>5. /\ DOMAIN log'[host2] = 1 .. Len(log[host2]) + 1 /\ Len(log[host2]) \in Nat
      /\ DOMAIN log[host2] = 1 .. Len(log[host2]) /\ Len(log'[host2]) = Len(log[host2]) + 1
      /\ log'[host2][Len(log[host2]) + 1] = e /\ log'[host1] = log[host1]
      /\ \A k \in 1 .. Len(log[host2]) : log'[host2][k] = log[host2][k]
  BY <1>4, Hosts, GrownExecuted DEF Grown
<1>6. copying' # None /\ copying'.id = copying.id
  <2>1. copying' = copying \/ copying' = [copying EXCEPT !.answer = "here"]
    BY <1>1
  <2>2. [copying EXCEPT !.answer = "here"] \in Copying
    BY <1>2 DEF Copying
  <2>3. [copying EXCEPT !.answer = "here"].id = copying.id
    BY <1>2 DEF Copying
  <2>4. QED
    BY <1>2, <2>1, <2>2, <2>3, NoneIsNoCopy
<1>7. BothDid' = BothDid
  BY <1>3, <1>4, <1>5, <1>6 DEF BothDid
<1>8. Acked' = Acked
  BY <1>5 DEF Acked
<1>9. QED
  BY <1>3, <1>5, <1>7, <1>8, HistorySame

\* The primary executes the update too, as the last thing, as the secondary did.
LEMMA HistoryFinish ==
  ASSUME IInv, AskedByPath, SameHistory, InStep, Finish, \A pending : ~Expires(pending)
  PROVE  SameHistory'
<1>1. /\ copying # None /\ copying.answer = "here" /\ Executes(host1, copying, TRUE)
      /\ copying' = None
  BY DEF Finish
<1>2. AfterCopy /\ copying \in Copying
  BY <1>1 DEF InStep, BeforeCopy, IInv, Types, CopyingT
<1> DEFINE e == Outcome(host1, copying, TRUE)
<1>3. PICK n, m : n = Len(log[host1]) + 1 /\ m = Len(log[host2])
  OBVIOUS
<1>4. Grown(host1, e) /\ LogT /\ LogT' /\ e.id = copying.id /\ e.copied
  <2>1. copying.id \in Nat /\ copying.arg \in Requests
    BY <1>2 DEF Copying
  <2>2. QED
    BY <1>1, <2>1, Hosts, ExecutesGrows DEF IInv, Types, Outcome
<1>5. e.ret = RetAfter(host1, copying.arg)
  <2>1. Predicted(host1, copying.arg)
    BY <1>1, Hosts, UpdatePredicted
       DEF AskedByPath, UpdateRequest, IInv, ServerInv, Executes
  <2>2. QED
    BY <2>1 DEF Predicted, Outcome
<1> HIDE DEF e
<1>6. /\ DOMAIN log'[host1] = 1 .. n /\ n \in Nat \ {0} /\ DOMAIN log[host1] = 1 .. n - 1
      /\ log'[host1][n] = e /\ log'[host2] = log[host2]
      /\ \A k \in 1 .. n - 1 : log'[host1][k] = log[host1][k]
  BY <1>3, <1>4, Hosts, GrownExecuted DEF Grown
<1>7. /\ DOMAIN log[host2] = 1 .. m /\ m \in 1 .. m /\ m \in Nat
      /\ log[host2][m].id = copying.id /\ log[host2][m].ret = e.ret
      /\ \A k \in 1 .. m - 1 : log[host2][k].id # copying.id
  <2>1. DOMAIN log[host2] = 1 .. m /\ m \in Nat
    BY <1>3, <1>4, Hosts DEF LogT
  <2>2. m \in 1 .. m
    BY <1>3, <1>2, <2>1 DEF AfterCopy, Told
  <2>3. QED
    BY <1>3, <1>2, <1>5, <2>1, <2>2 DEF AfterCopy, Told
<1>8. \A j \in 1 .. n - 1 : log[host1][j].id # copying.id
  <2>1. copying.id \notin Executed(host1)
    BY <1>1 DEF IInv, Routes, OnePlace, BeingCopied
  <2>2. QED
    BY <1>6, <2>1 DEF Executed
<1>9. Acked \subseteq 1 .. n - 1 /\ Acked' = Acked \cup {n}
  <2>1. \A k : k \in 1 .. n <=> k \in 1 .. n - 1 \/ k = n
    BY <1>6
  <2>2. \A k \in Acked' : k \in 1 .. n /\ (k = n \/ k \in Acked)
    BY <1>6, <2>1 DEF Acked
  <2>3. Acked \subseteq Acked' /\ n \in Acked' /\ Acked \subseteq 1 .. n - 1
    BY <1>4, <1>6, <2>1 DEF Acked
  <2>4. QED
    BY <2>2, <2>3
<1>10. BothDid \subseteq 1 .. m - 1 /\ BothDid' = BothDid \cup {m}
  <2>1. BothDid = 1 .. m - 1
    BY <1>3, <1>1, <1>7 DEF BothDid
  <2>2. BothDid' = 1 .. m
    BY <1>1, <1>6, <1>7 DEF BothDid
  <2>3. QED
    BY <1>7, <2>1, <2>2
<1>11. /\ \A j \in Acked : \A k \in BothDid : Same(j, k)' <=> Same(j, k)
       /\ \A k \in BothDid : ~Same(n, k)'
       /\ \A j \in Acked : ~Same(j, m)'
       /\ Same(n, m)'
  BY <1>4, <1>6, <1>7, <1>8, <1>9, <1>10 DEF Same
<1>12. /\ \A j \in Acked : j < n /\ ~(n < j)
       /\ \A k \in BothDid : k < m /\ ~(m < k)
       /\ ~(n < n) /\ ~(m < m)
  <2>1. /\ \A j \in 1 .. n - 1 : j < n /\ ~(n < j)
        /\ \A k \in 1 .. m - 1 : k < m /\ ~(m < k)
        /\ ~(n < n) /\ ~(m < m)
    BY <1>6, <1>7
  <2>2. QED
    BY <1>9, <1>10, <2>1
<1>13. /\ \A j \in Acked' : \E k \in BothDid' : Same(j, k)'
       /\ \A k \in BothDid' : \E j \in Acked' : Same(j, k)'
  BY <1>9, <1>10, <1>11 DEF SameHistory
<1>14. ASSUME NEW i \in Acked', NEW j \in Acked', NEW k \in BothDid', NEW l \in BothDid',
              Same(i, k)', Same(j, l)'
       PROVE  i < j <=> k < l
  BY <1>9, <1>10, <1>11, <1>12, <1>14 DEF SameHistory
<1>15. QED
  BY <1>13, <1>14 DEF SameHistory

LEMMA HistoryNext ==
  ASSUME ReplicaInv, ReplicaInv', faults = 0 => SameHistory, [Next]_vars, faults' = 0
  PROVE  SameHistory'
<1>1. IInv /\ IInv' /\ AskedByPath /\ NoneDown /\ CountT /\ CountT' /\ faults \in Nat
  BY BoundsAssumption DEF ReplicaInv, IInv, Types, CountT
<1>2. ~ \E from, to \in Servers : Restore(from, to) /\ faults = 0
  BY <1>1, Hosts DEF Restore, NoneDown
<1>3. faults = 0
  <2>1. CASE UNCHANGED vars
    BY <2>1 DEF vars
  <2>2. CASE \E from, to \in Servers : Restore(from, to)
    BY <2>2 DEF Restore
  <2>3. CASE Next /\ ~ \E from, to \in Servers : Restore(from, to)
    BY <1>1, <2>3, CountsNext DEF Counts
  <2>4. QED
    BY <2>1, <2>2, <2>3
<1>4. /\ Quiet /\ Quiet' /\ UNCHANGED <<faults, since>>
  BY <1>1, <1>3 DEF ReplicaInv, NoneDown, Quiet
<1>5. InStep /\ InStep' /\ SameHistory
  BY <1>3, <1>4 DEF ReplicaInv, StepInv
<1>6. /\ ~Fault /\ \A hosts : ~Missed(hosts)
      /\ \A pending : ~Expires(pending)
  BY <1>1, <1>3, <1>4, QuietIs
<1>7. ASSUME UNCHANGED <<log, copying>> PROVE SameHistory'
  BY <1>5, <1>7 DEF SameHistory, Same, Acked, BothDid
<1>8. ASSUME NEW c \in Ips, ClientStep(c) PROVE SameHistory'
  <2>1. UNCHANGED <<log, copying>>
    BY <1>8, ResultsKeep DEF ClientStep, Connect
  <2>2. QED
    BY <1>7, <2>1
<1>9. ASSUME NEW sv \in Servers, Serve(sv) PROVE SameHistory'
  BY <1>1, <1>5, <1>6, <1>9, HistoryServe DEF InStep
<1>10. ASSUME NEW sv \in Servers, Boot(sv) PROVE SameHistory'
  BY <1>7, <1>10 DEF Boot
<1>11. ~SendAgain /\ ~Lose /\ \A sv \in Servers : ~Crash(sv)
  BY <1>6 DEF SendAgain, Lose, Crash
<1>12. CASE Deliver
  BY <1>1, <1>5, <1>12, HistoryDeliver
<1>13. CASE Finish
  BY <1>1, <1>5, <1>6, <1>13, HistoryFinish
<1>14. CASE UNCHANGED vars
  BY <1>7, <1>14 DEF vars
<1>15. QED
  BY <1>2, <1>3, <1>8, <1>9, <1>10, <1>11, <1>12, <1>13, <1>14 DEF Next

\* As long as nothing fails the updates of the primary and of the secondary are
\* the same, with the same results and in the same order, but for one that the
\* primary is about to execute (TRANSMIT_TO_SECONDATY).
THEOREM SameUpdates ==
  ASSUME Calls \subseteq UpdatesByPath \cup LookupsByPath
  PROVE  Spec => []ReplicasInStep
<1>1. ReplicationInit => (faults = 0 => SameHistory)
  BY Hosts DEF ReplicationInit, SameHistory, Acked, BothDid
<1>2. /\ ReplicaInv /\ ReplicaInv' /\ (faults = 0 => SameHistory) /\ [Next]_vars
      => (faults = 0 => SameHistory)'
  BY HistoryNext
<1>3. (faults = 0 => SameHistory) => ReplicasInStep
  BY HistoryIs
<1>4. QED
  BY <1>1, <1>2, <1>3, ReplicaInvariant, PTL DEF Spec, CallsByPath
=============================================================================
