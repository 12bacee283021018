------------------------ MODULE ServerSystem_proofs -------------------------
(***************************************************************************)
(* Proofs about ServerSystem, for any servers, clients, paths, inodes and  *)
(* descriptors.                                                            *)
(***************************************************************************)
EXTENDS ServerSystem, FuseRpcServer_proofs

-----------------------------------------------------------------------------
(***************************************************************************)
(* The system.  The inductive invariant adds to the types that handles are *)
(* intact, that the holder of a lock is open on the locked file, and that  *)
(* no client has the number of a descriptor that holds a lock.             *)
(***************************************************************************)
SystemTypes ==
  /\ handles \in [Servers -> SUBSET Handle]
  /\ restarts \in [Servers -> 0 .. MaxRestarts]

HoldersOpen ==
  \A sv \in Servers, i \in Inodes : lock[sv][i] # None =>
    fdt[sv][lock[sv][i]] # None /\ fdt[sv][lock[sv][i]].ino = i

HandlesHoldNoLock ==
  \A sv \in Servers : restarts[sv] = 0 =>
    \A h \in handles[sv], i \in Inodes : lock[sv][i] # h.fd

IInv == ServerInv /\ SystemTypes /\ HandleIntegrity

\* The requests clients make through a handle are requests.
LEMMA HandleRequests ==
  ASSUME NEW h \in Handle
  PROVE  /\ \A offset \in 0 .. MaxLen :
              [op |-> "read", ip |-> h.ip, fd |-> h.fd, offset |-> offset] \in Requests
         /\ h.acc \in {"w", "rw"} => \A offset \in 0 .. MaxLen, block \in Blocks :
              [op |-> "write", ip |-> h.ip, fd |-> h.fd, path |-> h.path, offset |-> offset,
               buffer |-> block, server_info |-> Direct] \in Requests
         /\ [op |-> "readdir", ip |-> h.ip, fd |-> h.fd] \in Requests
         /\ \A op \in {"release", "releasedir"} :
              [op |-> op, ip |-> h.ip, fd |-> h.fd] \in Requests
<1>1. h.ip \in Ips /\ h.fd \in Fds /\ (h.acc \in {"w", "rw"} => h.path \in Paths)
  BY DEF Handle, FileHandle, DirHandle
<1>2. Direct \in identity
  BY DEF Direct, identity
<1>3. read_arg \cup write_arg \cup readdir_arg \cup release_arg \cup releasedir_arg
        \subseteq Requests
  BY DEF Requests, ReplicatedRequests, LocalRequests
<1>4. QED
  BY <1>1, <1>2, <1>3 DEF read_arg, write_arg, readdir_arg, release_arg, releasedir_arg

\* A read, write or readdir through a handle is one request.
LEMMA UseRequest ==
  ASSUME NEW sv \in Servers, NEW h \in Handle, Read(sv, h) \/ Write(sv, h) \/ Readdir(sv, h)
  PROVE  /\ \E a \in Requests : /\ a.op \in {"read", "write", "readdir"} /\ a.fd = h.fd
                                /\ a.op = "write" => ~Secondary(a.server_info)
                                /\ compute_6(sv, a)
         /\ UNCHANGED <<handles, restarts>>
<1>1. ~Secondary(Direct)
  BY DEF Secondary, Direct
<1>2. QED
  BY <1>1, HandleRequests DEF Read, Write, Readdir

LEMMA ReleaseRequest ==
  ASSUME NEW sv \in Servers, NEW h \in Handle, Release(sv, h)
  PROVE  \E a \in Requests : /\ a.op \in {"release", "releasedir"} /\ a.fd = h.fd
                             /\ compute_6(sv, a)
<1>1. CASE h.acc = "dir"
  BY <1>1, HandleRequests DEF Release
<1>2. CASE h.acc # "dir"
  BY <1>2, HandleRequests DEF Release
<1>3. QED
  BY <1>1, <1>2

\* Handles stay intact when no descriptor is lost and no handle is added.
LEMMA HandlesKept ==
  ASSUME ServerInv, SystemTypes, HandleIntegrity, Keeps, UNCHANGED <<handles, restarts>>
  PROVE  SystemTypes' /\ HandleIntegrity'
<1>1. \A s \in Servers : \A h \in handles[s] : h.fd \in Fds
  BY DEF SystemTypes, Handle, FileHandle, DirHandle
<1>2. QED
  BY <1>1 DEF SystemTypes, HandleIntegrity, Keeps, Kept

LEMMA InitInv == SystemInit => IInv
<1> SUFFICES ASSUME SystemInit PROVE IInv
  OBVIOUS
<1>1. ServerInv
  BY DEF SystemInit, Init, ServerInv, ServerTypeOK, Backed
<1>2. SystemTypes /\ HandleIntegrity
  BY BoundsAssumption DEF SystemInit, SystemTypes, HandleIntegrity
<1>3. QED
  BY <1>1, <1>2 DEF IInv

LEMMA CallInv ==
  ASSUME IInv, NEW sv \in Servers, NEW a \in Calls, Call(sv, a)
  PROVE  IInv'
<1>1. a \in Requests /\ a.op \notin {"release", "releasedir"}
  BY CallsAssumption DEF Call, ByPath
<1>2. ServerInv' /\ Keeps
  BY <1>1, RequestInv, RequestKeeps DEF IInv, Call
<1>3. QED
  BY <1>2, HandlesKept DEF IInv, Call

LEMMA OpenStepInv ==
  ASSUME IInv, NEW sv \in Servers, NEW a \in Calls, Open(sv, a)
  PROVE  IInv'
<1>1. a \in Requests /\ a.op \in {"open", "opendir"} /\ compute_6(sv, a) /\ UNCHANGED restarts
  BY CallsAssumption DEF Open
<1>2. ServerInv' /\ Keeps
  BY <1>1, RequestInv, RequestKeeps DEF IInv
<1>3. CASE reply'[sv].ret # "OK"
  <2>1. UNCHANGED handles
    BY <1>3 DEF Open, IInv, SystemTypes
  <2>2. QED
    BY <1>1, <1>2, <2>1, HandlesKept DEF IInv
<1>4. CASE reply'[sv].ret = "OK"
  <2> DEFINE h == HandleOn(sv, a, IF a.op = "open" THEN a.acc ELSE "dir")
             fd == reply'[sv].val
  <2>1. OpensFile(sv, a)
    BY <1>1, <1>4, RequestKinds, OpenAnswers DEF compute_6, IInv
  <2>2. a.op = "open" => a \in open_arg
    BY <1>1, RequestKinds
  <2>3. a.op = "opendir" => a \in opendir_arg
    BY <1>1, RequestKinds
  <2>4. ent[sv][LeadsTo(sv, a.path)] \in Inodes /\ fd \in Fds
    BY <2>1, LeadsToFollowed, BackedFiles DEF OpensFile, IInv
  <2>5. h \in Handle /\ h.fd = fd /\ h.ino = ent[sv][LeadsTo(sv, a.path)]
    <3>1. CASE a.op = "open"
      BY <2>2, <2>4, <3>1 DEF HandleOn, Handle, FileHandle, open_arg
    <3>2. CASE a.op = "opendir"
      BY <2>3, <2>4, <3>2 DEF HandleOn, Handle, DirHandle, opendir_arg
    <3>3. QED
      BY <1>1, <3>1, <3>2
  <2>6. handles' = [handles EXCEPT ![sv] = handles[sv] \cup {h}]
    BY <1>4 DEF Open
  <2> HIDE DEF h, fd
  <2>7. SystemTypes'
    BY <1>1, <2>5, <2>6 DEF IInv, SystemTypes
  <2>8. \A s \in Servers : \A g \in handles[s] : g.fd \in Fds
    BY DEF IInv, SystemTypes, Handle, FileHandle, DirHandle
  <2>9. /\ fdt[sv][h.fd] = None /\ fdt'[sv][h.fd] # None /\ fdt'[sv][h.fd].ino = h.ino
        /\ restarts[sv] = 0 => \A g \in handles[sv] : g.fd # h.fd
    BY <2>1, <2>5 DEF OpensFile, IInv, HandleIntegrity, fd
  <2>10. HandleIntegrity'
    BY <1>1, <1>2, <2>6, <2>8, <2>9 DEF IInv, SystemTypes, HandleIntegrity, Keeps, Kept
  <2>11. QED
    BY <1>2, <2>7, <2>10 DEF IInv
<1>5. QED
  BY <1>3, <1>4

LEMMA UseHandleInv ==
  ASSUME IInv, NEW sv \in Servers, NEW h \in handles[sv], UseHandle(sv, h)
  PROVE  IInv'
<1>1. h \in Handle
  BY DEF IInv, SystemTypes
<1>2. CASE Read(sv, h) \/ Write(sv, h) \/ Readdir(sv, h)
  <2>1. ServerInv' /\ Keeps /\ UNCHANGED <<handles, restarts>>
    BY <1>1, <1>2, UseRequest, RequestInv, RequestKeeps DEF IInv
  <2>2. QED
    BY <2>1, HandlesKept DEF IInv
<1>3. CASE Release(sv, h)
  <2>1. PICK a \in Requests : /\ a.op \in {"release", "releasedir"} /\ a.fd = h.fd
                              /\ compute_6(sv, a)
    BY <1>1, <1>3, ReleaseRequest
  <2>2. ServerInv' /\ \A s \in Servers, fd \in Fds : s # sv \/ fd # h.fd => Kept(s, fd)
    BY <2>1, RequestInv, ReleaseKeeps DEF IInv
  <2>3. handles' = [handles EXCEPT ![sv] = handles[sv] \ {h}] /\ UNCHANGED restarts
    BY <1>3 DEF Release
  <2>4. SystemTypes'
    BY <2>3 DEF IInv, SystemTypes
  <2>5. \A s \in Servers : \A g \in handles[s] : g.fd \in Fds
    BY DEF IInv, SystemTypes, Handle, FileHandle, DirHandle
  <2>6. HandleIntegrity'
    BY <2>2, <2>3, <2>5 DEF IInv, SystemTypes, HandleIntegrity, Kept
  <2>7. QED
    BY <2>2, <2>4, <2>6 DEF IInv
<1>4. QED
  BY <1>2, <1>3 DEF UseHandle

\* The two ways to be started again.
Reboots(sv) == Reboot(sv) \/ \E a \in Calls : RebootHalfway(sv, a)

LEMMA RebootSteps ==
  ASSUME IInv, NEW sv \in Servers, Reboots(sv)
  PROVE  /\ ServerInv' /\ Dies(sv) /\ UNCHANGED handles
         /\ restarts' = [restarts EXCEPT ![sv] = @ + 1]
         /\ restarts[sv] < MaxRestarts
<1>1. CASE Reboot(sv)
  BY <1>1, RestartInv DEF Reboot, Restart, IInv
<1>2. CASE \E a \in Calls : RebootHalfway(sv, a)
  BY <1>2, DiesHalfwayInv, CallsAssumption DEF RebootHalfway, IInv
<1>3. QED
  BY <1>1, <1>2 DEF Reboots

LEMMA RebootInv ==
  ASSUME IInv, NEW sv \in Servers, Reboots(sv)
  PROVE  IInv'
<1>1. \A s \in Servers : s # sv => fdt'[s] = fdt[s]
  BY RebootSteps DEF Dies, IInv, ServerInv, ServerTypeOK
<1>2. SystemTypes' /\ restarts'[sv] # 0
  BY RebootSteps, BoundsAssumption DEF IInv, SystemTypes
<1>3. HandleIntegrity'
  BY <1>1, <1>2, RebootSteps DEF IInv, SystemTypes, HandleIntegrity
<1>4. QED
  BY <1>2, <1>3, RebootSteps DEF IInv

LEMMA NextInv == IInv /\ [Next]_vars => IInv'
<1> SUFFICES ASSUME IInv, [Next]_vars PROVE IInv'
  OBVIOUS
<1>1. CASE UNCHANGED vars
  BY <1>1 DEF vars, IInv, ServerInv, ServerTypeOK, Backed, SystemTypes, HandleIntegrity
<1>2. CASE Next
  BY <1>2, CallInv, OpenStepInv, UseHandleInv, RebootInv DEF Next, Reboots
<1>3. QED
  BY <1>1, <1>2

\* Every variable stays in its type.
THEOREM TypeCorrect == Spec => []TypeOK
<1>1. IInv => TypeOK
  BY DEF IInv, ServerInv, SystemTypes, TypeOK
<1>2. QED
  BY <1>1, InitInv, NextInv, PTL DEF Spec

\* As long as a server is not started again, the number a client holds is open
\* there and denotes the file the client opened.
THEOREM HandlesIntact == Spec => []HandleIntegrity
<1>1. IInv => HandleIntegrity
  BY DEF IInv
<1>2. QED
  BY <1>1, InitInv, NextInv, PTL DEF Spec

-----------------------------------------------------------------------------
(* Which requests a step of the system is made of, and what follows for locks. *)

\* Which request a step of the system is.
LEMMA StepIsRequest ==
  ASSUME IInv, Next
  PROVE  \E sv \in Servers :
           \/ Reboots(sv)
           \/ \E a \in Requests : compute_6(sv, a) /\ UNCHANGED restarts
<1>1. PICK sv \in Servers : \/ \E a \in Calls : Call(sv, a) \/ Open(sv, a)
                            \/ \E h \in handles[sv] : UseHandle(sv, h)
                            \/ Reboots(sv)
  BY DEF Next, Reboots
<1>2. CASE \E a \in Calls : Call(sv, a) \/ Open(sv, a)
  BY <1>2, CallsAssumption DEF Call, Open
<1>3. CASE \E h \in handles[sv] : UseHandle(sv, h)
  <2>1. PICK h \in handles[sv] : UseHandle(sv, h)
    BY <1>3
  <2>2. h \in Handle
    BY DEF IInv, SystemTypes
  <2>3. QED
    BY <2>1, <2>2, UseRequest, ReleaseRequest DEF UseHandle, Release
<1>4. QED
  BY <1>1, <1>2, <1>3

\* Only a rename that fails to lock its second parent, or blocks on it, leaves
\* a directory locked.
THEOREM LocksOnlyFromRename == Spec => LocksComeFromRename
<1> DEFINE A == \A sv \in Servers, i \in Inodes :
                  lock[sv][i] = None /\ lock'[sv][i] # None =>
                    \/ reply'[sv].op = "rename" /\ reply'[sv].ret = "ERR"
                    \/ ~hung[sv] /\ hung'[sv]
<1>1. ASSUME IInv, [Next]_vars PROVE [A]_vars
  <2>1. CASE UNCHANGED vars
    BY <2>1
  <2>2. CASE Next
    <3>1. PICK sv \in Servers :
            \/ Reboots(sv)
            \/ \E a \in Requests : compute_6(sv, a) /\ UNCHANGED restarts
      BY <1>1, <2>2, StepIsRequest
    <3>2. CASE Reboots(sv)
      <4>1. Dies(sv)
        BY <1>1, <3>2, RebootSteps
      <4>2. \A s \in Servers : s # sv => lock'[s] = lock[s]
        BY <1>1, <4>1 DEF Dies, IInv, ServerInv, ServerTypeOK
      <4>3. \A i \in Inodes : lock'[sv][i] = None
        BY <1>1, <4>1 DEF Dies, IInv, ServerInv, ServerTypeOK
      <4>4. QED
        BY <4>2, <4>3
    <3>3. CASE \E a \in Requests : compute_6(sv, a)
      <4>1. LockStep(sv)
        BY <1>1, <3>3, RequestLocks DEF IInv
      <4>2. QED
        BY <1>1, <4>1 DEF LockStep, TakesLock, SetLock, IInv, ServerInv, ServerTypeOK
    <3>4. QED
      BY <3>1, <3>2, <3>3
  <2>3. QED
    BY <1>1, <2>1, <2>2
<1>2. QED
  BY <1>1, InitInv, NextInv, PTL DEF Spec, LocksComeFromRename

\* The holder of a lock is open on the locked file, and no client holds its
\* number: this is what keeps an abandoned lock from being given back.
LockInv == HoldersOpen /\ HandlesHoldNoLock

LEMMA HolderType ==
  ASSUME IInv
  PROVE  \A s \in Servers, i \in Inodes : lock[s][i] # None => lock[s][i] \in Fds
BY DEF IInv, ServerInv, ServerTypeOK

\* Descriptors that are kept and locks that are not taken keep holders open.
LEMMA KeptHoldersOpen ==
  ASSUME IInv, LockInv, Keeps,
         \A s \in Servers, i \in Inodes : lock'[s][i] \in {lock[s][i], None}
  PROVE  HoldersOpen'
BY HolderType DEF LockInv, HoldersOpen, Keeps, Kept

LEMMA TakenLockInv ==
  ASSUME IInv, LockInv, NEW sv \in Servers, TakesLock(sv), Keeps,
         UNCHANGED <<handles, restarts>>
  PROVE  LockInv'
<1>1. PICK fd \in Fds, i \in Inodes :
        /\ fdt[sv][fd] = None /\ lock[sv][i] = None
        /\ SetLock(sv, i, fd) /\ fdt'[sv][fd] = DirDesc(i)
  BY DEF TakesLock
<1>2. DirDesc(i) # None /\ DirDesc(i).ino = i
  BY DirDescType, NoneAssumption DEF DirDesc
<1>3. \A s \in Servers, j \in Inodes :
        lock'[s][j] = IF s = sv /\ j = i THEN fd ELSE lock[s][j]
  BY <1>1 DEF SetLock, IInv, ServerInv, ServerTypeOK
<1>4. HoldersOpen'
  BY <1>1, <1>2, <1>3, HolderType DEF LockInv, HoldersOpen, Keeps, Kept
<1>5. HandlesHoldNoLock'
  BY <1>1, <1>3 DEF LockInv, HandlesHoldNoLock, IInv, HandleIntegrity
<1>6. QED
  BY <1>4, <1>5 DEF LockInv

\* A step that takes no lock and loses no descriptor.
LEMMA GivenLockInv ==
  ASSUME IInv, LockInv, Keeps, UNCHANGED <<handles, restarts>>,
         \A s \in Servers, i \in Inodes : lock'[s][i] \in {lock[s][i], None}
  PROVE  LockInv'
<1>1. HoldersOpen'
  BY KeptHoldersOpen
<1>2. HandlesHoldNoLock'
  BY FdsAssumption DEF LockInv, HandlesHoldNoLock, IInv, SystemTypes, Handle, FileHandle, DirHandle
<1>3. QED
  BY <1>1, <1>2 DEF LockInv

LEMMA OpenLockInv ==
  ASSUME IInv, LockInv, NEW sv \in Servers, NEW a \in Calls, Open(sv, a)
  PROVE  LockInv' /\ UNCHANGED lock
<1>1. a \in Requests /\ a.op \in {"open", "opendir"} /\ compute_6(sv, a)
  BY CallsAssumption DEF Open
<1>2. Keeps /\ UNCHANGED lock /\ (reply'[sv].ret = "OK" => OpensFile(sv, a))
  BY <1>1, RequestKinds, OpenAnswers DEF compute_6, IInv
<1>3. CASE UNCHANGED <<handles, restarts>>
  BY <1>2, <1>3, GivenLockInv
<1>4. CASE reply'[sv].ret = "OK"
  <2> DEFINE h == HandleOn(sv, a, IF a.op = "open" THEN a.acc ELSE "dir")
  <2>1. handles' = [handles EXCEPT ![sv] = handles[sv] \cup {h}] /\ UNCHANGED restarts
    BY <1>4 DEF Open
  <2>2. h.fd \in Fds /\ fdt[sv][h.fd] = None
    BY <1>2, <1>4 DEF OpensFile, HandleOn
  <2> HIDE DEF h
  <2>3. HoldersOpen'
    BY <1>2, KeptHoldersOpen
  <2>4. \A i \in Inodes : lock[sv][i] # h.fd
    BY <2>2, FdsAssumption DEF LockInv, HoldersOpen
  <2>5. HandlesHoldNoLock'
    BY <1>2, <2>1, <2>4 DEF LockInv, HandlesHoldNoLock, IInv, SystemTypes
  <2>6. QED
    BY <1>2, <2>3, <2>5 DEF LockInv
<1>5. QED
  BY <1>3, <1>4 DEF Open, IInv, SystemTypes

\* Through a handle nothing happens to a lock.
LEMMA UseLockInv ==
  ASSUME IInv, LockInv, NEW sv \in Servers, NEW h \in handles[sv], UseHandle(sv, h)
  PROVE  LockInv' /\ (restarts[sv] = 0 => UNCHANGED lock)
                  /\ \A s \in Servers : s # sv => lock'[s] = lock[s]
<1>1. h \in Handle /\ h.fd \in Fds
  BY DEF IInv, SystemTypes, Handle, FileHandle, DirHandle
<1>2. CASE Read(sv, h) \/ Write(sv, h) \/ Readdir(sv, h)
  <2>1. PICK a \in Requests : /\ a.op \in {"read", "write", "readdir"} /\ a.fd = h.fd
                              /\ a.op = "write" => ~Secondary(a.server_info)
                              /\ compute_6(sv, a)
    BY <1>1, <1>2, UseRequest
  <2>2. Keeps /\ UNCHANGED <<handles, restarts>>
    BY <1>1, <1>2, <2>1, UseRequest, RequestKeeps DEF IInv
  <2>3. CASE UNCHANGED lock
    BY <2>2, <2>3, GivenLockInv
  <2>4. CASE LocksAndUnlocks(sv, h.fd) /\ ~UNCHANGED lock
    <3> DEFINE i == fdt[sv][h.fd].ino
    <3>1. IsOpen(sv, h.fd) /\ lock[sv][i] \in {None, h.fd} /\ SetLock(sv, i, None)
      BY <2>4 DEF LocksAndUnlocks, FlockBlocks
    <3>2. i \in Inodes
      BY <1>1, <3>1, BackedFiles DEF IInv
    <3> HIDE DEF i
    <3>3. \A s \in Servers, j \in Inodes :
            lock'[s][j] = IF s = sv /\ j = i THEN None ELSE lock[s][j]
      BY <3>1 DEF SetLock, IInv, ServerInv, ServerTypeOK
    <3>4. restarts[sv] = 0 => lock[sv][i] = None
      BY <3>1, <3>2 DEF LockInv, HandlesHoldNoLock
    <3>5. restarts[sv] = 0 => UNCHANGED lock
      <4>1. lock[sv][i] = None => lock' = lock
        BY <3>1, <3>2 DEF SetLock, IInv, ServerInv, ServerTypeOK
      <4>2. QED
        BY <3>4, <4>1
    <3>6. \A s \in Servers : s # sv => lock'[s] = lock[s]
      BY <3>1 DEF SetLock, IInv, ServerInv, ServerTypeOK
    <3>7. QED
      BY <2>2, <3>3, <3>5, <3>6, GivenLockInv
  <2>5. QED
    BY <2>1, <2>3, <2>4, DescriptorLocks
<1>3. CASE Release(sv, h)
  <2>1. PICK a \in Requests : /\ a.op \in {"release", "releasedir"} /\ a.fd = h.fd
                              /\ compute_6(sv, a)
    BY <1>1, <1>3, ReleaseRequest
  <2>2. /\ UNCHANGED <<fdt, lock>> \/ Close(sv, h.fd)
        /\ \A s \in Servers, fd \in Fds : s # sv \/ fd # h.fd => Kept(s, fd)
    BY <2>1, ReleaseKeeps DEF IInv
  <2>3. handles' = [handles EXCEPT ![sv] = handles[sv] \ {h}] /\ UNCHANGED restarts
    BY <1>3 DEF Release
  <2>4. CASE UNCHANGED <<fdt, lock>>
    BY <2>3, <2>4 DEF LockInv, HoldersOpen, HandlesHoldNoLock, IInv, SystemTypes
  <2>5. CASE Close(sv, h.fd)
    <3>1. \A s \in Servers, j \in Inodes :
            lock'[s][j] = IF s = sv /\ lock[s][j] = h.fd THEN None ELSE lock[s][j]
      BY <2>5 DEF Close, IInv, ServerInv, ServerTypeOK
    <3>2. HoldersOpen'
      BY <1>1, <2>2, <3>1, HolderType DEF LockInv, HoldersOpen, Kept
    <3>3. HandlesHoldNoLock'
      BY <2>3, <3>1, FdsAssumption
         DEF LockInv, HandlesHoldNoLock, IInv, SystemTypes, Handle, FileHandle, DirHandle
    <3>4. \A s \in Servers : s # sv => lock'[s] = lock[s]
      BY <2>5 DEF Close, IInv, ServerInv, ServerTypeOK
    <3>5. restarts[sv] = 0 => lock' = lock
      <4>1. ASSUME restarts[sv] = 0
            PROVE  [j \in Inodes |-> IF lock[sv][j] = h.fd THEN None ELSE lock[sv][j]] = lock[sv]
        BY <4>1 DEF LockInv, HandlesHoldNoLock, IInv, ServerInv, ServerTypeOK
      <4>2. QED
        BY <2>5, <4>1 DEF Close, IInv, ServerInv, ServerTypeOK
    <3>6. QED
      BY <3>2, <3>3, <3>4, <3>5 DEF LockInv
  <2>6. QED
    BY <2>2, <2>4, <2>5
<1>4. QED
  BY <1>2, <1>3 DEF UseHandle

\* A request by path takes a lock or leaves all of them alone.
LEMMA CallLockInv ==
  ASSUME IInv, LockInv, NEW sv \in Servers, NEW a \in Calls, Call(sv, a)
  PROVE  /\ LockInv'
         /\ \A s \in Servers, i \in Inodes :
              lock[s][i] # None => lock'[s][i] = lock[s][i]
<1>1. /\ a \in Requests /\ compute_6(sv, a) /\ UNCHANGED <<handles, restarts>>
      /\ a.op \notin {"release", "releasedir", "read", "readdir"}
      /\ a.op = "write" => Secondary(a.server_info)
  BY CallsAssumption DEF Call, ByPath
<1>2. Keeps
  BY <1>1, RequestKeeps DEF IInv
<1>3. CASE UNCHANGED lock
  BY <1>1, <1>2, <1>3, GivenLockInv
<1>4. CASE TakesLock(sv)
  <2>1. LockInv'
    BY <1>1, <1>2, <1>4, TakenLockInv
  <2>2. \A s \in Servers, i \in Inodes : lock[s][i] # None => lock'[s][i] = lock[s][i]
    BY <1>4 DEF TakesLock, SetLock, IInv, ServerInv, ServerTypeOK
  <2>3. QED
    BY <2>1, <2>2
<1>5. CASE a.op = "rename"
  BY <1>1, <1>3, <1>4, <1>5, RequestKinds, RenameLocks DEF compute_6, IInv
<1>6. QED
  BY <1>1, <1>3, <1>5, DescriptorLocks, OtherLocks

LEMMA RebootLockInv ==
  ASSUME IInv, LockInv, NEW sv \in Servers, Reboots(sv)
  PROVE  /\ LockInv' /\ restarts'[sv] # 0
         /\ \A s \in Servers : s # sv => lock'[s] = lock[s]
<1>1. \A s \in Servers : s # sv => fdt'[s] = fdt[s] /\ lock'[s] = lock[s]
  BY RebootSteps DEF Dies, IInv, ServerInv, ServerTypeOK
<1>2. \A i \in Inodes : lock'[sv][i] = None
  BY RebootSteps DEF Dies, IInv, ServerInv, ServerTypeOK
<1>3. /\ restarts'[sv] # 0 /\ handles' = handles
      /\ \A s \in Servers : s # sv => restarts'[s] = restarts[s]
  BY RebootSteps, BoundsAssumption DEF IInv, SystemTypes
<1>4. HoldersOpen'
  BY <1>1, <1>2 DEF LockInv, HoldersOpen
<1>5. HandlesHoldNoLock'
  BY <1>1, <1>3 DEF LockInv, HandlesHoldNoLock
<1>6. QED
  BY <1>1, <1>3, <1>4, <1>5 DEF LockInv

LEMMA InitLockInv == SystemInit => LockInv
BY DEF SystemInit, Init, LockInv, HoldersOpen, HandlesHoldNoLock

\* One step: LockInv stays, and so does every lock of a process that runs.
LEMMA NextLockInv ==
  ASSUME IInv, LockInv, [Next]_vars
  PROVE  /\ LockInv'
         /\ \A sv \in Servers, i \in Inodes :
              restarts'[sv] = 0 /\ lock[sv][i] # None => lock'[sv][i] = lock[sv][i]
<1>1. CASE UNCHANGED vars
  BY <1>1 DEF vars, LockInv, HoldersOpen, HandlesHoldNoLock
<1>2. ASSUME NEW sv \in Servers, NEW a \in Calls, Call(sv, a) \/ Open(sv, a)
      PROVE  /\ LockInv'
             /\ \A s \in Servers, i \in Inodes : lock[s][i] # None => lock'[s][i] = lock[s][i]
  BY <1>2, CallLockInv, OpenLockInv
<1>3. ASSUME NEW sv \in Servers, NEW h \in handles[sv], UseHandle(sv, h)
      PROVE  /\ LockInv'
             /\ \A s \in Servers, i \in Inodes :
                  restarts'[s] = 0 => lock'[s][i] = lock[s][i]
  <2>1. restarts' = restarts
    BY <1>3 DEF UseHandle, Read, Write, Readdir, Release
  <2>2. QED
    BY <1>3, <2>1, UseLockInv
<1>4. ASSUME NEW sv \in Servers, Reboots(sv)
      PROVE  /\ LockInv'
             /\ \A s \in Servers, i \in Inodes :
                  restarts'[s] = 0 => lock'[s][i] = lock[s][i]
  BY <1>4, RebootLockInv
<1>5. QED
  BY <1>1, <1>2, <1>3, <1>4 DEF Next, Reboots

\* A lock that a request left behind stays for as long as the process runs.
THEOREM AbandonedLocksStay == Spec => AbandonedLockStays
<1> DEFINE A == \A sv \in Servers, i \in Inodes :
                  restarts'[sv] = 0 /\ lock[sv][i] # None => lock'[sv][i] = lock[sv][i]
<1>1. IInv /\ LockInv /\ [Next]_vars => LockInv' /\ [A]_vars
  BY NextLockInv
<1>2. QED
  BY <1>1, InitInv, InitLockInv, NextInv, PTL DEF Spec, AbandonedLockStays
-----------------------------------------------------------------------------
(***************************************************************************)
(* Who owns a file: a proof of OwnersAsAsked, request by request.          *)
(***************************************************************************)
OwnerRight(s, i) ==
  LET a   == reply'[s].arg
      uid == node'[s][i].uid
      to  == Followed(ent[s]', node[s], a.newpath)
  IN /\ node[s][i] = None => uid = IF a.op = "init_rootdir" THEN RootUid ELSE a.ip
     /\ node[s][i] # None /\ uid # node[s][i].uid =>
          /\ a.op = "link" /\ uid = a.ip
          /\ IF IsKind(s, a.path, "lnk") THEN to # None /\ ent'[s][to] = i
             ELSE ent[s][a.path] = i

OwnersRight(s) == \A i \in Inodes : node'[s][i] # None => OwnerRight(s, i)

\* Files stay as they are or are freed.
LEMMA KeptOwners ==
  ASSUME NEW s \in Servers, \A i \in Inodes : node'[s][i] \in {node[s][i], None}
  PROVE  OwnersRight(s)
BY DEF OwnersRight, OwnerRight

LEMMA ReapOwners ==
  ASSUME ServerInv, NEW sv \in Servers, ReapNodes(sv) \/ UNCHANGED node
  PROVE  OwnersRight(sv)
<1>1. \A i \in Inodes : node'[sv][i] \in {node[sv][i], None}
  BY DEF ReapNodes, Reaped, ServerInv, ServerTypeOK
<1>2. QED
  BY <1>1, KeptOwners

\* One file is changed.
LEMMA SetNodeOwners ==
  ASSUME ServerInv, NEW sv \in Servers, NEW i \in Inodes, NEW n, SetNode(sv, i, n),
         (n.uid = node[sv][i].uid /\ node[sv][i] # None) \/ OwnerRight(sv, i)
  PROVE  OwnersRight(sv)
<1>1. \A j \in Inodes : node'[sv][j] = IF j = i THEN n ELSE node[sv][j]
  BY DEF SetNode, ServerInv, ServerTypeOK
<1>2. ASSUME NEW j \in Inodes, node'[sv][j] # None PROVE OwnerRight(sv, j)
  <2>1. CASE j = i
    BY <1>1, <2>1 DEF OwnerRight
  <2>2. CASE j # i
    BY <1>1, <1>2, <2>2 DEF OwnerRight
  <2>3. QED
    BY <2>1, <2>2
<1>3. QED
  BY <1>2 DEF OwnersRight

\* A file is made.
LEMMA CreateOwners ==
  ASSUME ServerInv, NEW sv \in Servers, NEW p, NEW n, Create(sv, p, n), NEW a,
         Answers(sv, a, "OK", None), n.uid = IF a.op = "init_rootdir" THEN RootUid ELSE a.ip
  PROVE  OwnersRight(sv)
<1>1. PICK i \in FreeInodes(sv) : SetNode(sv, i, n)
  BY DEF Create, LowestOf
<1>2. i \in Inodes /\ node[sv][i] = None
  BY DEF FreeInodes
<1>3. node'[sv][i] = n /\ reply'[sv].arg = a
  BY <1>1, <1>2 DEF SetNode, Answers, ServerInv, ServerTypeOK
<1>4. OwnerRight(sv, i)
  BY <1>2, <1>3 DEF OwnerRight
<1>5. QED
  BY <1>1, <1>2, <1>4, SetNodeOwners

-----------------------------------------------------------------------------
(* The requests. *)

\* Requests that make a file.
LEMMA MakingOwners ==
  ASSUME ServerInv, NEW sv \in Servers, NEW a \in Requests, compute_6(sv, a),
         a.op \in {"init_rootdir", "mkdir", "mknod", "symlink"}
  PROVE  OwnersRight(sv)
<1>1. CASE UNCHANGED node
  BY <1>1, ReapOwners
<1>2. CASE a.op = "init_rootdir"
  <2>1. Root \in AnyPath
    BY DEF AnyPath
  <2>2. CASE Exists(sv, Root)
    <3>1. SetNode(sv, ent[sv][Root], [File(sv, Root) EXCEPT !.mode = FullMode])
      BY <1>2, <2>2 DEF compute_6, init_rootdir
    <3>2. /\ ent[sv][Root] \in Inodes /\ File(sv, Root) \in Node
          /\ node[sv][ent[sv][Root]] # None
      BY <2>1, <2>2, BackedFiles DEF ServerInv, Backed, Exists
    <3>3. [File(sv, Root) EXCEPT !.mode = FullMode].uid = node[sv][ent[sv][Root]].uid
      BY <3>2 DEF File, Node
    <3>4. QED
      BY <3>1, <3>2, <3>3, SetNodeOwners
  <2>3. CASE ~Exists(sv, Root)
    <3>1. Create(sv, Root, NewFile("dir", RootUid, FullMode)) /\ Answers(sv, a, "OK", None)
      BY <1>2, <2>3 DEF compute_6, init_rootdir
    <3>2. NewFile("dir", RootUid, FullMode).uid = RootUid
      BY DEF NewFile
    <3>3. QED
      BY <1>2, <3>1, <3>2, CreateOwners
  <2>4. QED
    BY <2>2, <2>3
<1>3. CASE a.op = "mkdir"
  <2>1. \/ UNCHANGED node
        \/ /\ Create(sv, a.path, NewFile("dir", a.ip, Masked(a.mode)))
           /\ Answers(sv, a, "OK", None)
    BY <1>3 DEF compute_6, bb_mkdir, DirectoryNotLocked, NotPermitted, LockFails, LockHangs,
                Returns, Hangs
  <2>2. NewFile("dir", a.ip, Masked(a.mode)).uid = a.ip
    BY DEF NewFile
  <2>3. QED
    BY <1>1, <1>3, <2>1, <2>2, CreateOwners
<1>4. CASE a.op = "mknod"
  <2>1. \/ UNCHANGED node
        \/ /\ Create(sv, a.path, NewFile(a.kind, a.ip, Masked(a.mode)))
           /\ Answers(sv, a, "OK", None)
    BY <1>4 DEF compute_6, bb_mknod, DirectoryNotLocked, NotPermitted, LockFails, LockHangs,
                Returns, Hangs
  <2>2. NewFile(a.kind, a.ip, Masked(a.mode)).uid = a.ip
    BY DEF NewFile
  <2>3. QED
    BY <1>1, <1>4, <2>1, <2>2, CreateOwners
<1>5. CASE a.op = "symlink"
  <2>1. \/ UNCHANGED node
        \/ Create(sv, a.link, NewLink(a.target, a.ip)) /\ Answers(sv, a, "OK", None)
    BY <1>5 DEF compute_6, bb_symlink, NotPermitted, Returns
  <2>2. NewLink(a.target, a.ip).uid = a.ip
    BY DEF NewLink
  <2>3. QED
    BY <1>1, <1>5, <2>1, <2>2, CreateOwners
<1>6. QED
  BY <1>2, <1>3, <1>4, <1>5

\* A second name.  That of a file which is no link leads to the file itself.
LEMMA LinkOwners ==
  ASSUME ServerInv, NEW sv \in Servers, NEW a \in link_arg, bb_link(sv, a)
  PROVE  OwnersRight(sv)
<1> DEFINE to == Followed(ent'[sv], node[sv], a.newpath)
           i  == ent'[sv][to]
<1>1. CASE UNCHANGED node
  BY <1>1, ReapOwners
<1>2. CASE ~UNCHANGED node
  <2>1. /\ CanLink(sv, a.path, a.newpath) /\ to # None
        /\ ent' = [ent EXCEPT ![sv] = [@ EXCEPT ![a.newpath] = ent[sv][a.path]]]
        /\ SetNode(sv, i, [node[sv][i] EXCEPT !.uid = a.ip]) /\ Answers(sv, a, "OK", None)
    BY <1>2, LinkCases DEF Returns, LinkOwns
  <2>2. /\ a.path \in AnyPath /\ a.newpath \in AnyPath /\ Exists(sv, a.path)
        /\ ent'[sv][a.newpath] = ent[sv][a.path]
    BY <2>1 DEF CanLink, link_arg, AnyPath, ServerInv, ServerTypeOK
  <2>3. to \in AnyPath /\ ent'[sv][to] # None
    BY <2>1, FollowedFile
  <2>4. ServerTypeOK' /\ ServerTypeOK
    BY LinkInv DEF ServerInv
  <2>5. i \in Inodes
    BY <2>3, <2>4 DEF ServerTypeOK
  <2>6. ~IsKind(sv, a.path, "lnk") => to = a.newpath
    <3>1. SUFFICES ASSUME ~IsKind(sv, a.path, "lnk")
                   PROVE  to = a.newpath
      OBVIOUS
    <3>2. ent'[sv][a.newpath] # None /\ node[sv][ent'[sv][a.newpath]].kind # "lnk"
      BY <2>2, <3>1 DEF IsKind, File, Exists
    <3>3. QED
      BY <2>2, <3>2, NotFollowed
  <2>7. a.op = "link"
    BY DEF link_arg
  <2> HIDE DEF to
  <2>8. node[sv][i] \in Node
    <3>1. Backed(ent', fdt', node') /\ node'[sv] = [node[sv] EXCEPT ![i] = [node[sv][i] EXCEPT !.uid = a.ip]]
      BY <2>1, LinkInv DEF ServerInv, SetNode, ServerTypeOK
    <3>2. \A q \in AnyPath : ent'[sv][q] \in {ent[sv][q], ent[sv][a.path]}
      BY <2>1, <2>4 DEF ServerTypeOK
    <3>3. i \in {ent[sv][to], ent[sv][a.path]} /\ i # None
      BY <2>3, <3>2
    <3>4. QED
      BY <2>2, <2>3, <3>3, <2>5, <2>4 DEF ServerInv, Backed, ServerTypeOK
  <2> HIDE DEF i
  <2>9. node'[sv][i].uid = a.ip /\ reply'[sv].arg = a /\ node[sv][i] # None
    <3>1. node'[sv][i] = [node[sv][i] EXCEPT !.uid = a.ip]
      BY <2>1, <2>4, <2>5 DEF SetNode, ServerTypeOK
    <3>2. reply'[sv].arg = a
      BY <2>1, <2>4 DEF Answers, ServerTypeOK
    <3>3. QED
      BY <2>8, <3>1, <3>2, NoneAssumption DEF Node
  <2>10. OwnerRight(sv, i)
    <3>1. /\ reply'[sv].arg.op = "link" /\ node'[sv][i].uid = reply'[sv].arg.ip
          /\ IF IsKind(sv, a.path, "lnk") THEN to # None /\ ent'[sv][to] = i
             ELSE ent[sv][a.path] = i
      BY <2>1, <2>2, <2>6, <2>7, <2>9 DEF i
    <3>2. QED
      BY <2>9, <3>1 DEF OwnerRight, to
  <2>11. QED
    BY <2>1, <2>5, <2>10, SetNodeOwners
<1>3. QED
  BY <1>1, <1>2

\* Requests that change the attributes or the contents of a file.
LEMMA ChangingOwners ==
  ASSUME ServerInv, NEW sv \in Servers, NEW a \in Requests, compute_6(sv, a),
         a.op \in {"chmod", "truncate", "write"}
  PROVE  OwnersRight(sv)
<1>1. CASE UNCHANGED node
  BY <1>1, ReapOwners
<1>2. CASE ~UNCHANGED node
  <2> DEFINE p == LeadsTo(sv, a.path)
  <2>1. p # None => /\ ent[sv][p] \in Inodes /\ node[sv][ent[sv][p]] \in Node
    BY LeadsToFollowed, BackedFiles DEF File
  <2>2. PICK i, n : /\ SetNode(sv, i, n) /\ i \in Inodes /\ node[sv][i] \in Node
                    /\ \/ \E m : n = [node[sv][i] EXCEPT !.mode = m]
                       \/ \E d : n = [node[sv][i] EXCEPT !.data = d]
    <3>1. CASE a.op = "chmod"
      <4>1. p # None /\ SetNode(sv, ent[sv][p], [File(sv, p) EXCEPT !.mode = a.mode])
        BY <1>2, <3>1 DEF compute_6, bb_chmod, SetsMode, Returns
      <4> HIDE DEF p
      <4>2. QED
        BY <2>1, <4>1 DEF File
    <3>2. CASE a.op = "truncate"
      <4>1. /\ p # None
            /\ \E d : SetNode(sv, ent[sv][p], [File(sv, p) EXCEPT !.data = d])
        BY <1>2, <3>2 DEF compute_6, bb_truncate, LeadsToFile, Returns
      <4> HIDE DEF p
      <4>2. QED
        BY <2>1, <4>1 DEF File
    <3>3. CASE a.op = "write" /\ WriteDirect(sv, a)
      <4>1. a.fd \in Fds
        BY <3>3, RequestKinds DEF write_arg
      <4>2. IsOpen(sv, a.fd)
        BY <1>2, <3>3 DEF WriteDirect, FlockHangs, Hangs
      <4>3. PICK d : SetNode(sv, fdt[sv][a.fd].ino, [FileOf(sv, a.fd) EXCEPT !.data = d])
        BY <1>2, <3>3 DEF WriteDirect, FlockHangs, Hangs
      <4>4. fdt[sv][a.fd].ino \in Inodes /\ FileOf(sv, a.fd) \in Node
        BY <4>1, <4>2, BackedFiles
      <4>5. QED
        BY <4>3, <4>4 DEF FileOf
    <3>4. CASE a.op = "write" /\ WriteSecondary(sv, a)
      <4>1. /\ p # None
            /\ \E d : SetNode(sv, ent[sv][p], [File(sv, p) EXCEPT !.data = d])
        BY <1>2, <3>4 DEF WriteSecondary, CanOpen, Returns
      <4> HIDE DEF p
      <4>2. QED
        BY <2>1, <4>1 DEF File
    <3>5. QED
      BY <3>1, <3>2, <3>3, <3>4 DEF compute_6, bb_write
  <2>3. n.uid = node[sv][i].uid /\ node[sv][i] # None
    BY <2>2, NoneAssumption DEF Node
  <2>4. QED
    BY <2>2, <2>3, SetNodeOwners
<1>3. QED
  BY <1>1, <1>2

\* Every request.
LEMMA RequestOwners ==
  ASSUME ServerInv, NEW sv \in Servers, NEW a \in Requests, compute_6(sv, a)
  PROVE  OwnersRight(sv)
<1>1. CASE a.op \in {"init_rootdir", "mkdir", "mknod", "symlink"}
  BY <1>1, MakingOwners
<1>2. CASE a.op \in {"rmdir", "unlink"}
  <2>1. UNCHANGED node \/ ReapNodes(sv)
    BY <1>2 DEF compute_6, bb_rmdir, bb_unlink, Removes, DirectoryNotLocked, NotPermitted,
                LockFails, LockHangs, Returns, Hangs
  <2>2. QED
    BY <2>1, ReapOwners
<1>3. CASE a.op = "link"
  BY <1>3, RequestKinds, LinkOwners DEF compute_6
<1>4. CASE a.op = "rename"
  <2>1. UNCHANGED node \/ ReapNodes(sv)
    BY <1>4 DEF compute_6, bb_rename, RenameSecondParent, RenameEffect, LockFails, LockHangs,
                Returns, Hangs
  <2>2. QED
    BY <2>1, ReapOwners
<1>5. CASE a.op \in {"chmod", "truncate", "write"}
  BY <1>5, ChangingOwners
<1>6. CASE a.op \in {"release", "releasedir"}
  <2>1. UNCHANGED node \/ ReapNodes(sv)
    BY <1>6 DEF compute_6, bb_release, bb_releasedir, Returns, Close
  <2>2. QED
    BY <2>1, ReapOwners
<1>7. CASE a.op \in {"getattr", "access", "readlink", "utime", "statfs"}
  <2>1. UNCHANGED node
    BY <1>7 DEF compute_6, bb_getattr, bb_access, bb_readlink, bb_utime, bb_statfs, Returns
  <2>2. QED
    BY <2>1, ReapOwners
<1>8. CASE a.op \in {"open", "opendir", "read", "readdir"}
  <2>1. UNCHANGED node
    BY <1>8 DEF compute_6, bb_open, bb_opendir, bb_read, bb_readdir, FlockHangs, Hangs, Returns
  <2>2. QED
    BY <2>1, ReapOwners
<1>9. QED
  BY <1>1, <1>2, <1>3, <1>4, <1>5, <1>6, <1>7, <1>8 DEF compute_6

-----------------------------------------------------------------------------
\* A new file belongs to the client that asked for it, and changes hands only by
\* a link: to the client that asked, and only the file that was linked or the one
\* to which a linked symbolic link leads.
THEOREM OwnersAreAsked == Spec => OwnersAsAsked
<1> DEFINE A == \A sv \in Servers, i \in Inodes :
                  restarts' = restarts /\ node'[sv][i] # None => OwnerRight(sv, i)
<1>1. ASSUME IInv, [Next]_vars PROVE [A]_vars
  <2>1. CASE UNCHANGED vars
    BY <2>1
  <2>2. CASE Next
    <3>1. PICK sv \in Servers :
            \/ Reboots(sv)
            \/ \E a \in Requests : compute_6(sv, a) /\ UNCHANGED restarts
      BY <1>1, <2>2, StepIsRequest
    <3>2. CASE Reboots(sv)
      <4>1. restarts'[sv] # restarts[sv]
        BY <1>1, <3>2, RebootSteps DEF IInv, SystemTypes
      <4>2. QED
        BY <4>1
    <3>3. CASE \E a \in Requests : compute_6(sv, a)
      <4>1. OwnersRight(sv)
        BY <1>1, <3>3, RequestOwners DEF IInv
      <4>2. \A s \in Servers : s # sv => node'[s] = node[s]
        BY <1>1, <3>3, RequestHere DEF IInv, ServerInv, OnlyHere, NodeHere
      <4>3. \A s \in Servers : OwnersRight(s)
        BY <4>1, <4>2, KeptOwners
      <4>4. QED
        BY <4>3 DEF OwnersRight
    <3>4. QED
      BY <3>1, <3>2, <3>3
  <2>3. QED
    BY <1>1, <2>1, <2>2
<1>2. IInv => (A <=> \A sv \in Servers, i \in Inodes : restarts' = restarts /\ node'[sv][i] # None =>
       LET a   == reply'[sv].arg
           uid == node'[sv][i].uid
           to  == Followed(ent[sv]', node[sv], a.newpath)
       IN /\ node[sv][i] = None =>
               uid = IF a.op = "init_rootdir" THEN RootUid ELSE a.ip
          /\ node[sv][i] # None /\ uid # node[sv][i].uid =>
               /\ a.op = "link" /\ uid = a.ip
               /\ IF IsKind(sv, a.path, "lnk")
                  THEN to # None /\ ent'[sv][to] = i
                  ELSE ent[sv][a.path] = i)
  BY DEF OwnerRight
<1>3. QED
  BY <1>1, <1>2, InitInv, NextInv, PTL DEF Spec, OwnersAsAsked
=============================================================================
