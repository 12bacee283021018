---------------------------- MODULE ServerSystem -----------------------------
(***************************************************************************)
(* Servers and the client machines they serve, each machine talking to     *)
(* one server only.  A machine keeps, for every file it has open, the      *)
(* descriptor number the server answered (fi->fh), uses it in every read,  *)
(* write and readdir, and sends one release when the file is closed.       *)
(*                                                                         *)
(* A server may be killed and started again.  The machines are not told.   *)
(***************************************************************************)
EXTENDS FuseRpcServer

CONSTANTS Calls,        \* the requests by path that the clients make
          MaxHandles,   \* bound: files a server's clients have open at once
          MaxRestarts   \* bound: restarts of each server

ASSUME CallsAssumption == Calls \subseteq Requests
ASSUME BoundsAssumption == MaxHandles \in Nat /\ MaxRestarts \in Nat

VARIABLES handles,   \* handles[sv]: the files the clients of sv have open
          restarts   \* restarts[sv]: how often sv was started again

vars == <<ent, node, fdt, lock, hung, reply, handles, restarts>>

\* "ino" is the file the client meant when it opened, "acc" what it asked for.
FileHandle == [ip : Ips, fd : Fds, ino : Inodes, path : Paths, acc : {"r", "w", "rw"}]
DirHandle == [ip : Ips, fd : Fds, ino : Inodes, path : AnyPath, acc : {"dir"}]
Handle == FileHandle \cup DirHandle

SystemInit == /\ Init
              /\ handles = [sv \in Servers |-> {}]
              /\ restarts = [sv \in Servers |-> 0]

\* A request by path that opens nothing: a client's, or the primary's copy of
\* one, which for a write goes by path too.
ByPath(a) ==
  /\ a.op \notin {"open", "opendir", "release", "releasedir", "read", "readdir"}
  /\ a.op = "write" => Secondary(a.server_info)

Call(sv, a) ==
  /\ ByPath(a)
  /\ compute_6(sv, a)
  /\ UNCHANGED <<handles, restarts>>

HandleOn(sv, a, acc) ==
  [ip |-> a.ip, fd |-> reply'[sv].val, ino |-> ent[sv][LeadsTo(sv, a.path)],
   path |-> a.path, acc |-> acc]

\* bb_open and bb_opendir store the descriptor of the answer in fi->fh.
Open(sv, a) ==
  /\ a.op \in {"open", "opendir"}
  /\ Cardinality(handles[sv]) < MaxHandles
  /\ compute_6(sv, a)
  /\ handles' = [handles EXCEPT ![sv] =
       IF reply'[sv].ret = "OK"
       THEN @ \cup {HandleOn(sv, a, IF a.op = "open" THEN a.acc ELSE "dir")}
       ELSE @]
  /\ UNCHANGED restarts

\* The identity a client sends to the only server it can reach.
Direct == [is_master |-> TRUE, is_degraded |-> TRUE]

Read(sv, h) ==
  /\ h.acc \in {"r", "rw"}
  /\ \E offset \in 0 .. MaxLen :
       compute_6(sv, [op |-> "read", ip |-> h.ip, fd |-> h.fd, offset |-> offset])
  /\ UNCHANGED <<handles, restarts>>

Write(sv, h) ==
  /\ h.acc \in {"w", "rw"}
  /\ \E offset \in 0 .. MaxLen, block \in Blocks :
       compute_6(sv, [op |-> "write", ip |-> h.ip, fd |-> h.fd, path |-> h.path,
                      offset |-> offset, buffer |-> block, server_info |-> Direct])
  /\ UNCHANGED <<handles, restarts>>

Readdir(sv, h) ==
  /\ h.acc = "dir"
  /\ compute_6(sv, [op |-> "readdir", ip |-> h.ip, fd |-> h.fd])
  /\ UNCHANGED <<handles, restarts>>

\* The client forgets the file whatever the answer.
Release(sv, h) ==
  /\ compute_6(sv, [op |-> IF h.acc = "dir" THEN "releasedir" ELSE "release",
                    ip |-> h.ip, fd |-> h.fd])
  /\ handles' = [handles EXCEPT ![sv] = @ \ {h}]
  /\ UNCHANGED restarts

Reboot(sv) ==
  /\ restarts[sv] < MaxRestarts
  /\ Restart(sv)
  /\ restarts' = [restarts EXCEPT ![sv] = @ + 1]
  /\ UNCHANGED handles

\* The same in the middle of a request, which gets no answer.
RebootHalfway(sv, a) ==
  /\ restarts[sv] < MaxRestarts
  /\ DiesHalfway(sv, a)
  /\ restarts' = [restarts EXCEPT ![sv] = @ + 1]
  /\ UNCHANGED handles

UseHandle(sv, h) == Read(sv, h) \/ Write(sv, h) \/ Readdir(sv, h) \/ Release(sv, h)

Next == \E sv \in Servers : \/ \E a \in Calls : Call(sv, a) \/ Open(sv, a)
                            \/ \E h \in handles[sv] : UseHandle(sv, h)
                            \/ Reboot(sv) \/ \E a \in Calls : RebootHalfway(sv, a)

Spec == SystemInit /\ [][Next]_vars

-----------------------------------------------------------------------------
\* Every variable, and the number answered to an open, stays in its type.
TypeOK ==
  /\ ServerTypeOK
  /\ handles \in [Servers -> SUBSET Handle]
  /\ restarts \in [Servers -> 0 .. MaxRestarts]

\* The number a client holds is open at the server and denotes the file the
\* client opened, as long as the server is not started again: no handler
\* closes or reuses a descriptor that is still some client's fi->fh.
HandleIntegrity ==
  \A sv \in Servers : restarts[sv] = 0 =>
    \A h \in handles[sv] : /\ fdt[sv][h.fd] # None
                           /\ fdt[sv][h.fd].ino = h.ino
                           /\ \A g \in handles[sv] : g.fd = h.fd => g = h

\* LOCK_DIRECTORY and UNLOCK_DIRECTORY are paired in every handler but rename:
\* a step leaves a directory locked only when it is a rename that could not
\* lock its second parent, or that blocked on it.
LocksComeFromRename ==
  [][\A sv \in Servers, i \in Inodes :
       lock[sv][i] = None /\ lock'[sv][i] # None =>
         \/ reply'[sv].op = "rename" /\ reply'[sv].ret = "ERR"
         \/ ~hung[sv] /\ hung'[sv]]_vars

\* Until the server is first restarted, a lock that was left behind is never
\* given back: no client holds the number of the descriptor it belongs to, and
\* the reads, writes and releases of the clients reach only descriptors of
\* their own.
AbandonedLockStays ==
  [][\A sv \in Servers, i \in Inodes :
       restarts'[sv] = 0 /\ lock[sv][i] # None => lock'[sv][i] = lock[sv][i]]_vars

\* The handlers never deadlock with themselves: a server blocks in flock only
\* when an earlier request had left a directory locked.
HangsOnlyOnAbandonedLock ==
  [][\A sv \in Servers :
       ~hung[sv] /\ hung'[sv] => \E i \in Inodes : lock[sv][i] # None]_vars

\* What leaks: a descriptor that no client holds was opened by dlock, or by the
\* secondary for a write that failed.  The files that mknod makes and the files
\* the secondary writes are closed again.
LeaksAreKnown ==
  \A sv \in Servers : restarts[sv] = 0 =>
    \A fd \in Fds : IsOpen(sv, fd) =>
      \/ \E h \in handles[sv] : h.fd = fd
      \/ FileOf(sv, fd).kind = "dir"
      \/ fdt[sv][fd].acc = "w" /\ fdt[sv][fd].append

\* The file that is asked for by a path, now.
Meant(sv, a, i) == LeadsTo(sv, a.path) # None /\ ent[sv][LeadsTo(sv, a.path)] = i

\* The contents of a file change only by the request that is answered: one to
\* truncate the file its path leads to, the primary's copy of a write to that
\* path, or a write of a client through a number under which that very client
\* has opened that very file for writing.
WritesLandWhereMeant ==
  [][\A sv \in Servers, i \in Inodes :
       (/\ restarts[sv] = 0 /\ node[sv][i] # None /\ node'[sv][i] # None
        /\ node'[sv][i].data # node[sv][i].data) =>
         LET a == reply'[sv].arg IN
         \/ a.op = "truncate" /\ Meant(sv, a, i)
         \/ a.op = "write" /\ Secondary(a.server_info) /\ Meant(sv, a, i)
         \/ /\ a.op = "write" /\ ~Secondary(a.server_info)
            /\ \E h \in handles[sv] :
                 h.fd = a.fd /\ h.ip = a.ip /\ h.ino = i /\ h.acc \in {"w", "rw"}]_vars

NamedFiles(sv) == [p \in AnyPath |-> IF Exists(sv, p) THEN File(sv, p) ELSE None]

\* All a request adds to the tree is a second name for a symbolic link.
NamesLinkAgain(sv, a) ==
  /\ a.op = "link" /\ IsKind(sv, a.path, "lnk") /\ ~Exists(sv, a.newpath)
  /\ NamedFiles(sv)' = [NamedFiles(sv) EXCEPT ![a.newpath] = File(sv, a.path)]

\* A request that is answered with an error left no trace in the tree, whatever
\* was tried before it failed.  The one exception is link on a symbolic link,
\* whose new name stays.
FailedCallChangesNothing ==
  [][\A sv \in Servers : reply'[sv].ret # "OK" /\ restarts' = restarts =>
       NamedFiles(sv)' = NamedFiles(sv) \/ NamesLinkAgain(sv, reply'[sv].arg)]_vars

\* What a directory contains: the last components and the files they name.
Listing(sv, i) ==
  {<<Last(q), ent[sv][q]>> : q \in {p \in Paths : /\ Exists(sv, p)
                                                  /\ ent[sv][get_parent_path(p)] = i}}

\* Only a client with rwx on a directory changes what the directory contains,
\* also when a rename moves a whole subtree past other directories.  The root
\* directory alone is open to everybody.
DirectoriesChangeByRight ==
  [][\A sv \in Servers, i \in Inodes :
       (/\ ent'[sv] # ent[sv] /\ i # ent[sv][Root] /\ restarts' = restarts
        /\ node[sv][i] # None /\ node'[sv][i] # None
        /\ Listing(sv, i)' # Listing(sv, i)) =>
         Rights(node[sv][i], reply'[sv].ip) = RWX]_vars

\* A new file belongs to the client that asked for it from its first moment on,
\* for a handler that makes a file and gives it an owner is cut in two by
\* nothing but a crash.  Afterwards it changes hands only by a link: to the
\* client that asked, and only the file of the old name or, when that is a
\* symbolic link, the one to which the new name leads.
OwnersAsAsked ==
  [][\A sv \in Servers, i \in Inodes : restarts' = restarts /\ node'[sv][i] # None =>
       LET a   == reply'[sv].arg
           uid == node'[sv][i].uid
           to  == Followed(ent[sv]', node[sv], a.newpath)
       IN /\ node[sv][i] = None =>
               uid = IF a.op = "init_rootdir" THEN RootUid ELSE a.ip
          /\ node[sv][i] # None /\ uid # node[sv][i].uid =>
               /\ a.op = "link" /\ uid = a.ip
               /\ IF IsKind(sv, a.path, "lnk")
                  THEN to # None /\ ent'[sv][to] = i
                  ELSE ent[sv][a.path] = i]_vars

\* The tree a server shows its clients is the atomic file system of AtomicFS:
\* every change is one whole request that its client has the right to make.
FS == INSTANCE AtomicFS WITH
        names   <- ent,
        files   <- [sv \in Servers |->
                     [i \in Inodes |-> IF \E p \in AnyPath : ent[sv][p] = i
                                       THEN node[sv][i] ELSE None]],
        writers <- [sv \in Servers |->
                     {<<h.ip, h.ino>> : h \in {g \in handles[sv] : g.acc \in {"w", "rw"}}}],
        crashed <- [sv \in Servers |-> restarts[sv] > 0],
        answer  <- reply

ImplementsAtomicFS == FS!Spec

-----------------------------------------------------------------------------
(* What the documentation says and these servers do not do. *)

\* "Only owner of the file can delete or rename" in /DFS: no file there loses
\* its name, or has it taken by another, but by a request of its owner.
OnlyOwnersMoveInRoot ==
  [][\A sv \in Servers, p \in Paths :
       (/\ get_parent_path(p) = Root /\ Exists(sv, p) /\ restarts' = restarts
        /\ ent'[sv][p] # ent[sv][p]) => File(sv, p).uid = reply'[sv].ip]_vars

\* "(5) unlock the locked resource": no request leaves a directory locked.
NoLockLeftBehind == \A sv \in Servers, i \in Inodes : lock[sv][i] = None
=============================================================================
