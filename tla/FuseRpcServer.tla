---------------------------- MODULE FuseRpcServer ----------------------------
(***************************************************************************)
(* The request handlers of fuse_rpc_server.c, each executed by a server    *)
(* process "sv" on the directory tree it keeps under /DFS.                 *)
(*                                                                         *)
(* svc_run is single-threaded, so a handler is one step.  It runs as root: *)
(* no system call it makes is refused for want of permission, only the     *)
(* explicit checks of the code refuse.  A handler is a disjunction with    *)
(* one disjunct per early return of the C function.                        *)
(*                                                                         *)
(* TRANSMIT_TO_SECONDATY, which most handlers start with, concerns two     *)
(* servers and is not part of this module.                                 *)
(***************************************************************************)
EXTENDS FuseRpc

CONSTANTS Servers,  \* the server processes, each on a host of its own
          Inodes,   \* inode numbers of a server's file system; bounds its files
          RootUid,  \* the user the server process runs as
          Umask     \* permission bits the server's umask takes away

ASSUME InodesAssumption == Inodes \subseteq Nat
ASSUME UidAssumption == RootUid \notin Ips
ASSUME UmaskAssumption == Umask \in Mode

VARIABLES ent,    \* ent[sv][p]: the inode path p names, or None
          node,   \* node[sv][i]: the file with inode i, or None when i is free
          fdt,    \* fdt[sv][fd]: the open file description of fd, or None
          lock,   \* lock[sv][i]: the descriptor holding an exclusive flock on i
          hung,   \* hung[sv]: the process is blocked for ever in flock
          reply   \* reply[sv]: the last answer sent, and the request "arg"

serverVars == <<ent, node, fdt, lock, hung, reply>>

Uids == Ips \cup {RootUid}
\* None is a block never written; a link has its target for contents.
Content == Blocks \cup Targets \cup {None}
Kinds == {"dir", "reg", "lnk", "special"}

Node == [kind : Kinds, uid : Uids, mode : Mode, data : Seq(Content)]
Desc == [ino : Inodes, acc : {"r", "w", "rw"}, append : BOOLEAN, eof : BOOLEAN]

ASSUME NoneAssumption == None \notin Inodes \cup Node \cup Desc

Init ==
  /\ ent = [sv \in Servers |-> [p \in AnyPath |-> None]]
  /\ node = [sv \in Servers |-> [i \in Inodes |-> None]]
  /\ fdt = [sv \in Servers |-> [fd \in Fds |-> None]]
  /\ lock = [sv \in Servers |-> [i \in Inodes |-> None]]
  /\ hung = [sv \in Servers |-> FALSE]
  /\ reply = [sv \in Servers |-> [arg |-> None, op |-> "none", ip |-> None,
                                ret |-> "OK", val |-> None]]

-----------------------------------------------------------------------------
(* The tree and the descriptor table, as the system calls see them. *)

Exists(sv, p) == ent[sv][p] # None
File(sv, p) == node[sv][ent[sv][p]]
IsKind(sv, p, kind) == Exists(sv, p) /\ File(sv, p).kind = kind

Children(sv, p) == {q \in Paths : get_parent_path(q) = p /\ Exists(sv, q)}

\* open, opendir and creat hand out the smallest number that is free.
LowestOf(S) == {x \in S : \A y \in S : x <= y}
FreeFds(sv) == {fd \in Fds : fdt[sv][fd] = None}
FreeInodes(sv) == {i \in Inodes : node[sv][i] = None}

IsOpen(sv, fd) == fdt[sv][fd] # None
FileOf(sv, fd) == node[sv][fdt[sv][fd].ino]

\* A file lives as long as a name or an open descriptor refers to it.
Live(e, f) == {e[p] : p \in AnyPath}
                \cup {f[fd].ino : fd \in {d \in Fds : f[d] # None}}
Reaped(n, e, f) == [i \in Inodes |-> IF i \in Live(e, f) THEN n[i] ELSE None]

ReapNodes(sv) == node' = [node EXCEPT ![sv] = Reaped(@, ent'[sv], fdt'[sv])]

Opened(sv, fd, desc) == fdt' = [fdt EXCEPT ![sv] = [@ EXCEPT ![fd] = desc]]
DirDesc(i) == [ino |-> i, acc |-> "r", append |-> FALSE, eof |-> FALSE]

SetNode(sv, i, n) == node' = [node EXCEPT ![sv] = [@ EXCEPT ![i] = n]]
SetLock(sv, i, fd) == lock' = [lock EXCEPT ![sv] = [@ EXCEPT ![i] = fd]]

\* close(2): the lock the description holds goes with it, and so does a
\* file without a name that nothing else has open.
Close(sv, fd) ==
  /\ fdt' = [fdt EXCEPT ![sv] = [@ EXCEPT ![fd] = None]]
  /\ lock' = [lock EXCEPT ![sv] = 
                           [i \in Inodes |-> IF lock[sv][i] = fd THEN None ELSE lock[sv][i]]]
  /\ UNCHANGED ent
  /\ ReapNodes(sv)

\* A new file with the lowest free inode number.
Create(sv, p, n) ==
  \E i \in LowestOf(FreeInodes(sv)) :
    /\ ent' = [ent EXCEPT ![sv] = [@ EXCEPT ![p] = i]]
    /\ SetNode(sv, i, n)

\* How creat, mkdir and symlink fail: the name is taken or the disk full.
CannotCreate(sv, p) == Exists(sv, p) \/ FreeInodes(sv) = {}

Masked(mode) == [u |-> mode.u \ Umask.u, o |-> mode.o \ Umask.o]
NewFile(kind, ip, mode) == [kind |-> kind, uid |-> ip, mode |-> mode, data |-> <<>>]
NewLink(target, ip) == [kind |-> "lnk", uid |-> ip, mode |-> FullMode, data |-> <<target>>]

\* chown, chmod, truncate, utime, access, open, opendir and statvfs follow a
\* symbolic link; lstat, lchown, readlink, link, rename and unlink do not.
LeadsTo(sv, p) == Followed(ent[sv], node[sv], p)

\* Bound: links are followed at the end of a path only.  In the middle of it
\* the client's kernel has followed them when it asks for the path.
NamesIn(a) ==
  IF a.op = "write" /\ ~Secondary(a.server_info) THEN {}
  ELSE {a[name] : name \in DOMAIN a \cap {"path", "newpath", "link"}}

ThroughDirectories(sv, a) ==
  \A q \in Paths : IsKind(sv, q, "lnk") => \A p \in NamesIn(a) : ~IsStrictPrefix(q, p)

-----------------------------------------------------------------------------
(* The checks of the code. *)

Answers(sv, a, ret, val) ==
  reply' = [reply EXCEPT ![sv] = [arg |-> a, op |-> a.op, ip |-> a.ip,
                                  ret |-> ret, val |-> val]]

Returns(sv, a, ret) ==
  Answers(sv, a, ret, None) /\ UNCHANGED <<ent, node, fdt, lock, hung>>

is_owner(sv, p, ip) == Exists(sv, p) /\ File(sv, p).uid = ip

Rights(n, ip) == IF n.uid = ip THEN n.mode.u ELSE n.mode.o
is_op_valid(sv, p, ip, req) == Exists(sv, p) /\ req \subseteq Rights(File(sv, p), ip)

\* Below the root, deletion asks for the owner (and passes when the file does
\* not exist); everywhere else the parent directory must grant rwx.
is_parent_dir_valid(sv, p, ip, op) ==
  LET parent == get_parent_path(p) IN
  IF parent = Root
  THEN op \in {"rmdir", "unlink"} /\ Exists(sv, p) => is_owner(sv, p, ip)
  ELSE is_op_valid(sv, parent, ip, RWX)

-----------------------------------------------------------------------------
(***************************************************************************)
(* dlock opens the directory and takes an exclusive flock; dunlock gives   *)
(* the lock back and never closes the descriptor, so every locked          *)
(* directory costs the process one descriptor for good.  The lock belongs  *)
(* to that descriptor: a second dlock of a directory whose lock was not    *)
(* given back blocks the process for ever.                                 *)
(***************************************************************************)
CanOpendir(sv, p) == IsKind(sv, p, "dir") /\ FreeFds(sv) # {}

\* dlock(parent) returns fd.
dlock(sv, p, fd) ==
  /\ IsKind(sv, p, "dir")
  /\ fd \in LowestOf(FreeFds(sv))
  /\ lock[sv][ent[sv][p]] = None

\* dlock opens fd and blocks in flock.
DlockBlocks(sv, p, fd) ==
  /\ IsKind(sv, p, "dir")
  /\ fd \in LowestOf(FreeFds(sv))
  /\ lock[sv][ent[sv][p]] # None

Hangs(sv) == hung' = [hung EXCEPT ![sv] = TRUE] /\ UNCHANGED <<ent, node, reply>>

\* The three ways out of a handler before its directory is locked.
NotPermitted(sv, a, p) ==
  ~is_parent_dir_valid(sv, p, a.ip, a.op) /\ Returns(sv, a, "EACCES")

LockFails(sv, a) ==
  /\ is_parent_dir_valid(sv, a.path, a.ip, a.op)
  /\ ~CanOpendir(sv, get_parent_path(a.path))
  /\ Returns(sv, a, "ERR")

LockHangs(sv, a) ==
  /\ is_parent_dir_valid(sv, a.path, a.ip, a.op)
  /\ \E fd \in Fds :
       /\ DlockBlocks(sv, get_parent_path(a.path), fd)
       /\ Opened(sv, fd, DirDesc(ent[sv][get_parent_path(a.path)]))
  /\ Hangs(sv)
  /\ UNCHANGED lock

DirectoryNotLocked(sv, a) ==
  NotPermitted(sv, a, a.path) \/ LockFails(sv, a) \/ LockHangs(sv, a)

\* CHECK_PARENT_DIRECTORY_VALID and LOCK_DIRECTORY pass; fd stays open.
LocksDirectory(sv, a, fd) ==
  /\ is_parent_dir_valid(sv, a.path, a.ip, a.op)
  /\ dlock(sv, get_parent_path(a.path), fd)
  /\ Opened(sv, fd, DirDesc(ent[sv][get_parent_path(a.path)]))

-----------------------------------------------------------------------------
(* Creation, deletion and renaming of names. *)

\* A server that cannot make or open up /DFS exits; with an empty disk and a
\* server that runs as root it can.
init_rootdir(sv, a) ==
  /\ Answers(sv, a, "OK", None)
  /\ UNCHANGED <<fdt, lock, hung>>
  /\ \/ /\ ~Exists(sv, Root)
        /\ Create(sv, Root, NewFile("dir", RootUid, FullMode))
     \/ /\ Exists(sv, Root)
        /\ SetNode(sv, ent[sv][Root], [File(sv, Root) EXCEPT !.mode = FullMode])
        /\ UNCHANGED ent

\* Slip: no set_owner.
MkdirKeepsOwner(sv, a) ==
  \/ DirectoryNotLocked(sv, a)
  \/ /\ \E fd \in Fds : LocksDirectory(sv, a, fd)
     /\ ~CannotCreate(sv, a.path)
     /\ Create(sv, a.path, NewFile("dir", RootUid, Masked(a.mode)))
     /\ Answers(sv, a, "OK", None)
     /\ UNCHANGED <<lock, hung>>

bb_mkdir(sv, a) ==
  \/ DirectoryNotLocked(sv, a)
  \/ /\ \E fd \in Fds : LocksDirectory(sv, a, fd)
     /\ UNCHANGED <<lock, hung>>
     /\ \/ /\ CannotCreate(sv, a.path)
           /\ Answers(sv, a, "ERR", None)
           /\ UNCHANGED <<ent, node>>
        \/ /\ ~CannotCreate(sv, a.path)
           /\ Create(sv, a.path, NewFile("dir", a.ip, Masked(a.mode)))
           /\ Answers(sv, a, "OK", None)

\* A regular file is made by open(O_CREAT), which needs a second descriptor
\* for as long as the handler runs.
CannotMknod(sv, a) ==
  \/ CannotCreate(sv, a.path)
  \/ a.kind = "reg" /\ Cardinality(FreeFds(sv)) < 2

\* Slip (not the code): a failed creation returns without UNLOCK_DIRECTORY.
MknodForgetsUnlock(sv, a) ==
  \/ DirectoryNotLocked(sv, a)
  \/ \E fd \in Fds :
       /\ LocksDirectory(sv, a, fd)
       /\ CannotMknod(sv, a)
       /\ SetLock(sv, ent[sv][get_parent_path(a.path)], fd)
       /\ Answers(sv, a, "ERR", None)
       /\ UNCHANGED <<ent, node, hung>>

\* Slip: the descriptor a regular file was made with stays open.
MknodForgetsClose(sv, a) ==
  LET parent == get_parent_path(a.path) IN
  \/ DirectoryNotLocked(sv, a)
  \/ \E fd, d \in Fds :
       /\ is_parent_dir_valid(sv, a.path, a.ip, a.op) /\ dlock(sv, parent, fd)
       /\ d \in LowestOf(FreeFds(sv) \ {fd}) /\ ~CannotMknod(sv, a)
       /\ Create(sv, a.path, NewFile(a.kind, a.ip, Masked(a.mode)))
       /\ fdt' = [fdt EXCEPT ![sv] =
                    [@ EXCEPT ![fd] = DirDesc(ent[sv][parent]),
                              ![d] = [ino |-> ent'[sv][a.path], acc |-> "w",
                                      append |-> FALSE, eof |-> FALSE]]]
       /\ Answers(sv, a, "OK", None)
       /\ UNCHANGED <<lock, hung>>

bb_mknod(sv, a) ==
  \/ DirectoryNotLocked(sv, a)
  \/ /\ \E fd \in Fds : LocksDirectory(sv, a, fd)
     /\ UNCHANGED <<lock, hung>>
     /\ \/ /\ CannotMknod(sv, a)
           /\ Answers(sv, a, "ERR", None)
           /\ UNCHANGED <<ent, node>>
        \/ /\ ~CannotMknod(sv, a)
           /\ Create(sv, a.path, NewFile(a.kind, a.ip, Masked(a.mode)))
           /\ Answers(sv, a, "OK", None)

CanRmdir(sv, p) == IsKind(sv, p, "dir") /\ Children(sv, p) = {}

Removes(sv, a) ==
  /\ ent' = [ent EXCEPT ![sv] = [@ EXCEPT ![a.path] = None]]
  /\ ReapNodes(sv)
  /\ Answers(sv, a, "OK", None)

bb_rmdir(sv, a) ==
  \/ DirectoryNotLocked(sv, a)
  \/ /\ \E fd \in Fds : LocksDirectory(sv, a, fd)
     /\ UNCHANGED <<lock, hung>>
     /\ \/ /\ ~CanRmdir(sv, a.path)
           /\ Answers(sv, a, "ERR", None)
           /\ UNCHANGED <<ent, node>>
        \/ CanRmdir(sv, a.path) /\ Removes(sv, a)

CanUnlink(sv, p) == Exists(sv, p) /\ ~IsKind(sv, p, "dir")

bb_unlink(sv, a) ==
  \/ DirectoryNotLocked(sv, a)
  \/ /\ \E fd \in Fds : LocksDirectory(sv, a, fd)
     /\ UNCHANGED <<lock, hung>>
     /\ \/ /\ ~CanUnlink(sv, a.path)
           /\ Answers(sv, a, "ERR", None)
           /\ UNCHANGED <<ent, node>>
        \/ CanUnlink(sv, a.path) /\ Removes(sv, a)

CannotSymlink(sv, p) ==
  CannotCreate(sv, p) \/ ~IsKind(sv, get_parent_path(p), "dir")

\* Slip: set_owner, which follows the link, in place of set_softlink_owner.
SymlinkFollowed(sv, a) ==
  /\ is_parent_dir_valid(sv, a.link, a.ip, a.op)
  /\ ~CannotSymlink(sv, a.link)
  /\ Create(sv, a.link, NewLink(a.target, RootUid))
  /\ Answers(sv, a, "ERR", None)
  /\ UNCHANGED <<fdt, lock, hung>>

\* No lock is taken; lchown gives the link itself to the client.
bb_symlink(sv, a) ==
  \/ NotPermitted(sv, a, a.link)
  \/ /\ is_parent_dir_valid(sv, a.link, a.ip, a.op)
     /\ CannotSymlink(sv, a.link)
     /\ Returns(sv, a, "ERR")
  \/ /\ is_parent_dir_valid(sv, a.link, a.ip, a.op)
     /\ ~CannotSymlink(sv, a.link)
     /\ Create(sv, a.link, NewLink(a.target, a.ip))
     /\ Answers(sv, a, "OK", None)
     /\ UNCHANGED <<fdt, lock, hung>>

CanLink(sv, p, newp) ==
  /\ Exists(sv, p) /\ ~IsKind(sv, p, "dir")
  /\ ~Exists(sv, newp) /\ IsKind(sv, get_parent_path(newp), "dir")

\* No lock is taken.  The chown afterwards goes through the new name: it gives
\* the one file both names share to the client.  If that is a symbolic link,
\* which link(2) does not follow, chown gives away the file it leads to from
\* its new place, or fails with the new name made.
bb_link(sv, a) ==
  LET permitted == /\ is_parent_dir_valid(sv, a.path, a.ip, a.op)
                   /\ is_parent_dir_valid(sv, a.newpath, a.ip, a.op)
      linked == [ent[sv] EXCEPT ![a.newpath] = ent[sv][a.path]]
      owned  == Followed(linked, node[sv], a.newpath)
  IN \/ ~permitted /\ Returns(sv, a, "EACCES")
     \/ permitted /\ ~CanLink(sv, a.path, a.newpath) /\ Returns(sv, a, "ERR")
     \/ /\ permitted /\ CanLink(sv, a.path, a.newpath)
        /\ ent' = [ent EXCEPT ![sv] = linked]
        /\ UNCHANGED <<fdt, lock, hung>>
        /\ \/ /\ owned = None
              /\ Answers(sv, a, "ERR", None)
              /\ UNCHANGED node
           \/ /\ owned # None
              /\ SetNode(sv, linked[owned], [node[sv][linked[owned]] EXCEPT !.uid = a.ip])
              /\ Answers(sv, a, "OK", None)

(* rename(2) *)

\* The name a file below "from" gets when "from" becomes "to".
Rebased(q, from, to) == to \o SubSeq(q, Len(from) + 1, Len(q))

CanRename(sv, p, newp) ==
  /\ Exists(sv, p)
  /\ ~IsStrictPrefix(p, newp)
  /\ Exists(sv, newp) /\ ent[sv][p] # ent[sv][newp] =>
       IF IsKind(sv, p, "dir") THEN CanRmdir(sv, newp) ELSE CanUnlink(sv, newp)

\* Bound: a rename happens only when all the new names are in Paths.
RenameFits(sv, p, newp) ==
  \A q \in Paths : IsPrefix(p, q) /\ Exists(sv, q) => Rebased(q, p, newp) \in Paths

\* Two names of one file both stay.
Renamed(sv, p, newp) ==
  IF ent[sv][p] = ent[sv][newp]
  THEN ent[sv]
  ELSE [q \in AnyPath |->
          IF IsPrefix(newp, q)
          THEN IF Rebased(q, newp, p) \in Paths THEN ent[sv][Rebased(q, newp, p)] ELSE None
          ELSE IF IsPrefix(p, q) THEN None ELSE ent[sv][q]]

\* Slip: the parent of the new name is not checked.
RenameChecksOld(sv, a) == is_parent_dir_valid(sv, a.path, a.ip, a.op)

\* Both parents must be permitted and are locked one after the other.  When
\* the second cannot be opened the handler returns with the first one locked.
RenamePermitted(sv, a) ==
  /\ is_parent_dir_valid(sv, a.path, a.ip, a.op)
  /\ is_parent_dir_valid(sv, a.newpath, a.ip, a.op)

\* Slip: the parent is locked a second time when both names share it.
NeverOneParent(a) == FALSE

OneParent(a) == get_parent_path(a.path) = get_parent_path(a.newpath)

RenameEffect(sv, a) ==
  /\ UNCHANGED <<lock, hung>>
  /\ \/ /\ ~CanRename(sv, a.path, a.newpath)
        /\ Answers(sv, a, "ERR", None)
        /\ UNCHANGED <<ent, node>>
     \/ /\ CanRename(sv, a.path, a.newpath)
        /\ RenameFits(sv, a.path, a.newpath)
        /\ ent' = [ent EXCEPT ![sv] = Renamed(sv, a.path, a.newpath)]
        /\ ReapNodes(sv)
        /\ Answers(sv, a, "OK", None)

\* The lock of the first parent is held (through fd) when the second parent
\* is about to be locked.
RenameSecondParent(sv, a, fd) ==
  LET first  == ent[sv][get_parent_path(a.path)]
      second == ent[sv][get_parent_path(a.newpath)]
      isdir  == IsKind(sv, get_parent_path(a.newpath), "dir")
      taken  == second = first \/ lock[sv][second] # None
      more   == LowestOf(FreeFds(sv) \ {fd})
      Opens(d) == fdt' = [fdt EXCEPT ![sv] =
                            [@ EXCEPT ![fd] = DirDesc(first), ![d] = DirDesc(second)]]
  IN \/ /\ ~isdir \/ more = {}
        /\ Opened(sv, fd, DirDesc(first))
        /\ SetLock(sv, first, fd)
        /\ Answers(sv, a, "ERR", None)
        /\ UNCHANGED <<ent, node, hung>>
     \/ /\ isdir /\ taken
        /\ \E d \in more : Opens(d)
        /\ SetLock(sv, first, fd)
        /\ Hangs(sv)
     \/ /\ isdir /\ ~taken
        /\ \E d \in more : Opens(d)
        /\ RenameEffect(sv, a)

bb_rename(sv, a) ==
  \/ ~RenamePermitted(sv, a) /\ Returns(sv, a, "EACCES")
  \/ RenamePermitted(sv, a) /\ LockFails(sv, a)
  \/ RenamePermitted(sv, a) /\ LockHangs(sv, a)
  \/ /\ RenamePermitted(sv, a) /\ OneParent(a)
     /\ \E fd \in Fds : LocksDirectory(sv, a, fd)
     /\ RenameEffect(sv, a)
  \/ /\ RenamePermitted(sv, a) /\ ~OneParent(a)
     /\ \E fd \in Fds : /\ dlock(sv, get_parent_path(a.path), fd)
                        /\ RenameSecondParent(sv, a, fd)

-----------------------------------------------------------------------------
(* Attributes and whole files, by path. *)

Attributes(n) == [kind |-> n.kind, uid |-> n.uid, mode |-> n.mode, size |-> Len(n.data)]

bb_getattr(sv, a) ==
  /\ IF Exists(sv, a.path)
     THEN Answers(sv, a, "OK", Attributes(File(sv, a.path)))
     ELSE Answers(sv, a, "ERR", None)
  /\ UNCHANGED <<ent, node, fdt, lock, hung>>

\* The check is made for the server's own user, root, who may do anything.
bb_access(sv, a) == Returns(sv, a, IF LeadsTo(sv, a.path) # None THEN "OK" ELSE "ERR")

bb_statfs(sv, a) == Returns(sv, a, IF LeadsTo(sv, a.path) # None THEN "OK" ELSE "ERR")

bb_readlink(sv, a) == Returns(sv, a, IF IsKind(sv, a.path, "lnk") THEN "OK" ELSE "ERR")

bb_utime(sv, a) ==
  \/ ~is_owner(sv, a.path, a.ip) /\ Returns(sv, a, "EACCES")
  \/ /\ is_owner(sv, a.path, a.ip)
     /\ Returns(sv, a, IF LeadsTo(sv, a.path) # None THEN "OK" ELSE "ERR")

SetsMode(sv, a, p) ==
  /\ SetNode(sv, ent[sv][p], [File(sv, p) EXCEPT !.mode = a.mode])
  /\ Answers(sv, a, "OK", None)
  /\ UNCHANGED <<ent, fdt, lock, hung>>

\* Slip: anybody may do it.
ChmodUnchecked(sv, a) ==
  LeadsTo(sv, a.path) # None /\ SetsMode(sv, a, LeadsTo(sv, a.path))

\* The owner of a link is asked for, and the file it leads to is changed.
bb_chmod(sv, a) ==
  \/ ~is_owner(sv, a.path, a.ip) /\ Returns(sv, a, "EACCES")
  \/ /\ is_owner(sv, a.path, a.ip) /\ LeadsTo(sv, a.path) = None
     /\ Returns(sv, a, "ERR")
  \/ /\ is_owner(sv, a.path, a.ip) /\ LeadsTo(sv, a.path) # None
     /\ SetsMode(sv, a, LeadsTo(sv, a.path))

\* Cut off, or filled up with blocks never written.
Resized(data, n) == [k \in 1 .. n |-> IF k <= Len(data) THEN data[k] ELSE None]

LeadsToFile(sv, p) == LeadsTo(sv, p) # None /\ IsKind(sv, LeadsTo(sv, p), "reg")

bb_truncate(sv, a) ==
  LET p == LeadsTo(sv, a.path) IN
  \/ ~LeadsToFile(sv, a.path) /\ Returns(sv, a, "ERR")
  \/ /\ LeadsToFile(sv, a.path)
     /\ SetNode(sv, ent[sv][p], [File(sv, p) EXCEPT !.data = Resized(@, a.newsize)])
     /\ Answers(sv, a, "OK", None)
     /\ UNCHANGED <<ent, fdt, lock, hung>>

-----------------------------------------------------------------------------
(***************************************************************************)
(* Files and directories by descriptor.  The number comes from the client, *)
(* and the server takes whatever it has open under that number.            *)
(***************************************************************************)
Needs(acc) == CASE acc = "r" -> {"r"} [] acc = "w" -> {"w"} [] acc = "rw" -> {"r", "w"}

\* open(2): a directory can only be read.
CanOpen(sv, p, acc) ==
  /\ LeadsTo(sv, p) # None
  /\ \/ IsKind(sv, LeadsTo(sv, p), "reg")
     \/ IsKind(sv, LeadsTo(sv, p), "dir") /\ acc = "r"
  /\ FreeFds(sv) # {}

\* Slip: the result of open is not looked at.
OpenUnchecked(sv, a) ==
  /\ is_op_valid(sv, a.path, a.ip, Needs(a.acc)) /\ ~CanOpen(sv, a.path, a.acc)
  /\ Returns(sv, a, "OK")

\* Special files are opened by the client's kernel and never get here.
bb_open(sv, a) ==
  \/ ~is_op_valid(sv, a.path, a.ip, Needs(a.acc)) /\ Returns(sv, a, "EACCES")
  \/ /\ is_op_valid(sv, a.path, a.ip, Needs(a.acc)) /\ ~CanOpen(sv, a.path, a.acc)
     /\ Returns(sv, a, "ERR")
  \/ /\ is_op_valid(sv, a.path, a.ip, Needs(a.acc)) /\ CanOpen(sv, a.path, a.acc)
     /\ \E fd \in LowestOf(FreeFds(sv)) :
          /\ Opened(sv, fd, [ino |-> ent[sv][LeadsTo(sv, a.path)], acc |-> a.acc,
                             append |-> a.append, eof |-> FALSE])
          /\ Answers(sv, a, "OK", fd)
     /\ UNCHANGED <<ent, node, lock, hung>>

LeadsToDir(sv, p) == LeadsTo(sv, p) # None /\ CanOpendir(sv, LeadsTo(sv, p))

bb_opendir(sv, a) ==
  \/ ~is_op_valid(sv, a.path, a.ip, {"r", "x"}) /\ Returns(sv, a, "EACCES")
  \/ /\ is_op_valid(sv, a.path, a.ip, {"r", "x"}) /\ ~LeadsToDir(sv, a.path)
     /\ Returns(sv, a, "ERR")
  \/ /\ is_op_valid(sv, a.path, a.ip, {"r", "x"}) /\ LeadsToDir(sv, a.path)
     /\ \E fd \in LowestOf(FreeFds(sv)) :
          /\ Opened(sv, fd, DirDesc(ent[sv][LeadsTo(sv, a.path)]))
          /\ Answers(sv, a, "OK", fd)
     /\ UNCHANGED <<ent, node, lock, hung>>

bb_release(sv, a) ==
  \/ ~IsOpen(sv, a.fd) /\ Returns(sv, a, "ERR")
  \/ /\ IsOpen(sv, a.fd)
     /\ Close(sv, a.fd)
     /\ Answers(sv, a, "OK", None)
     /\ UNCHANGED hung

IsOpenDir(sv, fd) == IsOpen(sv, fd) /\ FileOf(sv, fd).kind = "dir"

\* fdopendir refuses a descriptor that is not a directory's.
bb_releasedir(sv, a) ==
  \/ ~IsOpenDir(sv, a.fd) /\ Returns(sv, a, "ERR")
  \/ /\ IsOpenDir(sv, a.fd)
     /\ Close(sv, a.fd)
     /\ Answers(sv, a, "OK", None)
     /\ UNCHANGED hung

\* read, write and readdir take an flock through the client's descriptor and
\* give it back: they block on a lock that another descriptor holds, and give
\* back a lock that this one happened to hold.
FlockBlocks(sv, fd) == IsOpen(sv, fd) /\ lock[sv][fdt[sv][fd].ino] \notin {None, fd}

FlockHangs(sv, fd) == FlockBlocks(sv, fd) /\ Hangs(sv) /\ UNCHANGED <<fdt, lock>>

\* Slip: lockf in place of flock.  The lock belongs to the process, which
\* never blocks on it and gives it back through any descriptor.
LockfUnlocks(sv, fd) ==
  IF IsOpen(sv, fd) THEN SetLock(sv, fdt[sv][fd].ino, None) ELSE UNCHANGED lock

LocksAndUnlocks(sv, fd) ==
  /\ ~FlockBlocks(sv, fd)
  /\ IF IsOpen(sv, fd) THEN SetLock(sv, fdt[sv][fd].ino, None) ELSE UNCHANGED lock

\* A directory stream made over the descriptor starts where the last one on
\* it stopped, at the end.
bb_readdir(sv, a) ==
  \/ FlockHangs(sv, a.fd)
  \/ /\ LocksAndUnlocks(sv, a.fd)
     /\ UNCHANGED <<ent, node, hung>>
     /\ \/ ~IsOpenDir(sv, a.fd) /\ Answers(sv, a, "ERR", None) /\ UNCHANGED fdt
        \/ /\ IsOpenDir(sv, a.fd)
           /\ Opened(sv, a.fd, [fdt[sv][a.fd] EXCEPT !.eof = TRUE])
           /\ Answers(sv, a, "OK",
                      IF fdt[sv][a.fd].eof
                      THEN {}
                      ELSE {q \in Paths : /\ Exists(sv, q)
                                          /\ ent[sv][get_parent_path(q)] = fdt[sv][a.fd].ino})

CanPread(sv, fd) ==
  IsOpen(sv, fd) /\ fdt[sv][fd].acc \in {"r", "rw"} /\ FileOf(sv, fd).kind = "reg"

\* The block at the offset, or nothing at the end of the file.
BlockAt(data, offset) == IF offset < Len(data) THEN <<data[offset + 1]>> ELSE <<>>

bb_read(sv, a) ==
  \/ FlockHangs(sv, a.fd)
  \/ /\ LocksAndUnlocks(sv, a.fd)
     /\ UNCHANGED <<ent, node, fdt, hung>>
     /\ IF CanPread(sv, a.fd)
        THEN Answers(sv, a, "OK", BlockAt(FileOf(sv, a.fd).data, a.offset))
        ELSE Answers(sv, a, "ERR", None)

\* pwrite(2) of one block; O_APPEND makes it ignore the offset.
WrittenAt(data, append, offset, block) ==
  IF append THEN Append(data, block)
  ELSE [(IF offset < Len(data) THEN data ELSE Resized(data, offset + 1))
          EXCEPT ![offset + 1] = block]

CanPwrite(n, append, offset) ==
  n.kind = "reg" /\ (IF append THEN Len(n.data) ELSE offset) < MaxLen

\* Slip: the descriptor is closed after the write whatever the role.
WriteCloses(sv, a) ==
  /\ IsOpen(sv, a.fd) /\ ~FlockBlocks(sv, a.fd)
  /\ Close(sv, a.fd)
  /\ Answers(sv, a, "OK", None)
  /\ UNCHANGED hung

\* The server that is talking to the client uses the client's descriptor.
WriteDirect(sv, a) ==
  LET d   == fdt[sv][a.fd]
      can == /\ IsOpen(sv, a.fd) /\ d.acc \in {"w", "rw"}
             /\ CanPwrite(FileOf(sv, a.fd), d.append, a.offset)
  IN \/ FlockHangs(sv, a.fd)
     \/ /\ LocksAndUnlocks(sv, a.fd)
        /\ UNCHANGED <<ent, fdt, hung>>
        /\ \/ ~can /\ Answers(sv, a, "ERR", None) /\ UNCHANGED node
           \/ /\ can
              /\ SetNode(sv, d.ino, [FileOf(sv, a.fd) EXCEPT
                                       !.data = WrittenAt(@, d.append, a.offset, a.buffer)])
              /\ Answers(sv, a, "OK", None)

\* The secondary opens the path itself, with O_WRONLY and O_APPEND and without
\* asking for permission, and closes what it opened unless pwrite fails.
WriteSecondary(sv, a) ==
  LET p == LeadsTo(sv, a.path) IN
  \/ ~CanOpen(sv, a.path, "w") /\ Returns(sv, a, "ERR")
  \/ /\ CanOpen(sv, a.path, "w") /\ ~CanPwrite(File(sv, p), TRUE, a.offset)
     /\ \E fd \in LowestOf(FreeFds(sv)) :
          Opened(sv, fd, [ino |-> ent[sv][p], acc |-> "w", append |-> TRUE, eof |-> FALSE])
     /\ Answers(sv, a, "ERR", None)
     /\ UNCHANGED <<ent, node, lock, hung>>
  \/ /\ CanOpen(sv, a.path, "w") /\ CanPwrite(File(sv, p), TRUE, a.offset)
     /\ SetNode(sv, ent[sv][p], [File(sv, p) EXCEPT
                                  !.data = WrittenAt(@, TRUE, a.offset, a.buffer)])
     /\ Answers(sv, a, "OK", None)
     /\ UNCHANGED <<ent, fdt, lock, hung>>

bb_write(sv, a) ==
  \/ ~Secondary(a.server_info) /\ WriteDirect(sv, a)
  \/ Secondary(a.server_info) /\ WriteSecondary(sv, a)

-----------------------------------------------------------------------------
\* The dispatch on the procedure number.  A process that hangs in flock
\* answers nothing.
compute_6(sv, a) ==
  /\ ~hung[sv] /\ ThroughDirectories(sv, a)
  /\ \/ a.op = "init_rootdir" /\ init_rootdir(sv, a)
     \/ a.op = "getattr"      /\ bb_getattr(sv, a)
     \/ a.op = "access"       /\ bb_access(sv, a)
     \/ a.op = "mkdir"        /\ bb_mkdir(sv, a)
     \/ a.op = "rmdir"        /\ bb_rmdir(sv, a)
     \/ a.op = "opendir"      /\ bb_opendir(sv, a)
     \/ a.op = "readdir"      /\ bb_readdir(sv, a)
     \/ a.op = "releasedir"   /\ bb_releasedir(sv, a)
     \/ a.op = "rename"       /\ bb_rename(sv, a)
     \/ a.op = "symlink"      /\ bb_symlink(sv, a)
     \/ a.op = "link"         /\ bb_link(sv, a)
     \/ a.op = "readlink"     /\ bb_readlink(sv, a)
     \/ a.op = "mknod"        /\ bb_mknod(sv, a)
     \/ a.op = "truncate"     /\ bb_truncate(sv, a)
     \/ a.op = "unlink"       /\ bb_unlink(sv, a)
     \/ a.op = "utime"        /\ bb_utime(sv, a)
     \/ a.op = "chmod"        /\ bb_chmod(sv, a)
     \/ a.op = "open"         /\ bb_open(sv, a)
     \/ a.op = "release"      /\ bb_release(sv, a)
     \/ a.op = "read"         /\ bb_read(sv, a)
     \/ a.op = "write"        /\ bb_write(sv, a)
     \/ a.op = "statfs"       /\ bb_statfs(sv, a)

\* The process dies and is started again on the same disk: descriptors and
\* locks are gone, and with them the files that only they kept.
Dies(sv) ==
  /\ fdt' = [fdt EXCEPT ![sv] = [fd \in Fds |-> None]]
  /\ lock' = [lock EXCEPT ![sv] = [i \in Inodes |-> None]]
  /\ hung' = [hung EXCEPT ![sv] = FALSE]
  /\ UNCHANGED reply

Restart(sv) == Dies(sv) /\ UNCHANGED ent /\ ReapNodes(sv)

\* How far a handler has come when it dies between the system call that makes
\* a name and the one that sets the owner (or, of /DFS, the mode).
CanLock(sv, a) ==
  /\ is_parent_dir_valid(sv, a.path, a.ip, a.op)
  /\ \E fd \in Fds : dlock(sv, get_parent_path(a.path), fd)

HalfMade(sv, p, n) ==
  \E i \in LowestOf(FreeInodes(sv)) :
    /\ ent' = [ent EXCEPT ![sv] = [@ EXCEPT ![p] = i]]
    /\ node' = [node EXCEPT ![sv] = Reaped([@ EXCEPT ![i] = n], ent'[sv], fdt'[sv])]

DiesHalfway(sv, a) ==
  /\ ~hung[sv] /\ ThroughDirectories(sv, a)
  /\ Dies(sv)
  /\ \/ /\ a.op = "init_rootdir" /\ ~Exists(sv, Root)
        /\ HalfMade(sv, Root, NewFile("dir", RootUid, Masked(FullMode)))
     \/ /\ a.op = "mkdir" /\ CanLock(sv, a) /\ ~CannotCreate(sv, a.path)
        /\ HalfMade(sv, a.path, NewFile("dir", RootUid, Masked(a.mode)))
     \/ /\ a.op = "mknod" /\ CanLock(sv, a) /\ ~CannotMknod(sv, a)
        /\ HalfMade(sv, a.path, NewFile(a.kind, RootUid, Masked(a.mode)))
     \/ /\ a.op = "symlink" /\ is_parent_dir_valid(sv, a.link, a.ip, a.op)
        /\ ~CannotSymlink(sv, a.link)
        /\ HalfMade(sv, a.link, NewLink(a.target, RootUid))
     \/ /\ a.op = "link" /\ is_parent_dir_valid(sv, a.path, a.ip, a.op)
        /\ is_parent_dir_valid(sv, a.newpath, a.ip, a.op)
        /\ CanLink(sv, a.path, a.newpath)
        /\ ent' = [ent EXCEPT ![sv] = [@ EXCEPT ![a.newpath] = ent[sv][a.path]]]
        /\ ReapNodes(sv)
-----------------------------------------------------------------------------
\* The types of the variables, and of the number answered to an open.
ServerTypeOK ==
  /\ ent \in [Servers -> [AnyPath -> Inodes \cup {None}]]
  /\ node \in [Servers -> [Inodes -> Node \cup {None}]]
  /\ fdt \in [Servers -> [Fds -> Desc \cup {None}]]
  /\ lock \in [Servers -> [Inodes -> Fds \cup {None}]]
  /\ hung \in [Servers -> BOOLEAN]
  /\ DOMAIN reply = Servers
  /\ \A sv \in Servers :
       /\ reply[sv].ret \in {"OK", "EACCES", "ERR"}
       /\ reply[sv].op \in {"open", "opendir"} /\ reply[sv].ret = "OK" =>
            reply[sv].val \in Fds
=============================================================================
