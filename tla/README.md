# Verification of the distributed network file system

TLA+ models of the FUSE client (`src/tweakfs.c`) and of the primary and secondary
RPC server (`src/fuse_rpc_server.c`, `src/fuse_rpc_svc.c`), TLC runs on small
instances of them, and proofs checked by TLAPS. Line numbers below are those of
the files under `src/`.

## The system

| Component | State it keeps | Operations |
|---|---|---|
| **Client** (`tweakfs.c`), a FUSE process per machine, mounted with `-s`, so single-threaded | per open file the descriptor number the server answered (`fi->fh`); `host1`, `host2`, its identity `ip` | the `bb_*` callbacks of `bb_oper` (1291-1332); each opens a TCP connection (`CONNECT_SERVER`, 62-82), makes one RPC, closes it; `bb_read` and `bb_write` make as many as it takes |
| **Client stubs** (`fuse_rpc_clnt.c`, generated) | none | one `clnt_call` each, with a 25 s timeout; on failure the result is not written |
| **Server dispatch** (`fuse_rpc_svc.c`, generated) | registered TCP and UDP ports | `compute_6` picks the handler; `svc_run` handles one request after the other |
| **Server handlers** (`fuse_rpc_server.c`) | the tree under `/DFS`, the process's descriptor table, the `flock`s held through it | 22 procedures (300-985), built from permission checks (172-298), `dlock`/`dunlock` (211-238) and system calls |
| **Replication** (`TRANSMIT_TO_SECONDATY`, 57-85; `connect_server`, 123-130) | none beyond the call in progress | an updating handler of the primary first sends a copy of its request to the secondary over UDP, and goes on whatever became of it |
| **Client identity** (`tweakfs.c` 88-136) | `ip` | number made from the dotted address |
| **Cold restore** (`rsync.py`) | none | copies one server's tree over the other's while both are stopped |
| Request vocabulary (`fuse_rpc.x`), marshalling (`fuse_rpc_xdr.c`), log (`log.c`), load test (`test/`) | - | - |

How they interact: a client tries `host1`, then `host2`, for every single
operation. A request says which role the receiver has: `is_master` with
`is_degraded` from a client (`get_identity`, 143-148), neither in the copy that a
primary sends. Reads and writes at the server the client talks to go through the
client's descriptor number; a copied write goes by path, because the secondary
never saw the open (`bb_write_6_svc`, 926-956). Updates of a directory take an
exclusive `flock` on the parent directory through a descriptor opened for that
purpose.

What is hard here:

- *descriptor numbers as handles*: they belong to one server process, are kept by
  clients for a long time, and are shared with the descriptors that `dlock` and the
  secondary's writes open;
- *locks in a single-threaded process*: waiting for a lock means waiting for
  oneself; a handler that returns early with a lock held stops the server later;
- *several steps that can fail separately*: create and give away, link and give
  away, lock one parent and then the other;
- *replication without memory*: copies go over UDP, may be lost, repeated or late,
  and neither server records what it executed;
- *failed calls*: the client proceeds with an uninitialised result, and the server
  may still execute the request;
- *loops of calls*: a read or write of the application is several remote calls, any
  of which may fall short or fail, with other clients writing in between;
- *failover*: each call picks its server anew, and a descriptor number means
  something else to the other one.

What makes each component correct: a handler that fails leaves no trace, changes
only what its caller has the right to, leaves no lock and no descriptor behind; a
client's handle denotes the file it opened; without failures the secondary has the
primary's tree, and with failures still what was acknowledged, in order; an answer
is about one execution of the call it answers; a secondary that is gone does not
stop the primary; a read returns what was in the file, a write lands where it was
asked for, and both end; different clients have different identities.

## The modules

```
FuseRpc            paths, links, modes, roles, requests     fuse_rpc.x
  AtomicFS         what a server promises: a tree that changes by whole requests
  FuseRpcServer    the handlers, one server's system calls  fuse_rpc_server.c, fuse_rpc_svc.c
    FuseRpcServer_proofs       what every handler keeps, used by both systems below
    ServerSystem   servers + clients' handles + restarts    tweakfs.c open/read/write/release
      MCServerSystem
      ServerSystem_proofs      types, handles, locks, owners
        Files_proofs           failures, contents, leaks, hangs
          Directories_proofs   the tree, rights on directories
            Refinement_proofs  the servers implement AtomicFS
    Replication    primary, secondary, network, failover,   TRANSMIT_..., CONNECT_SERVER, stubs,
      MCReplication                    cold restore         rsync.py
      Replication_proofs       types, order of updates, answers
        Replicas_proofs        both servers in step, equal trees
TweakfsIO          the loops of read and write              tweakfs.c bb_read, bb_write
  MCTweakfsIO
  TweakfsIO_proofs             both loops
ClientIdentity     the number made of an IP address         tweakfs.c ip_to_int, get_ip
```

**FuseRpc.** A path is the sequence of its components below `/DFS`. A request is a
record with the procedure name `op`, the client's `ip` and the arguments of the
corresponding `*_arg` structure. The paths, modes, written blocks and the targets of
symbolic links are sets of constants. `Followed` is how the server's system gets from a
path to a file through links: a target goes some directories up and then down by names,
relative to the directory its link is in, and after `MaxLinks` links the system gives up.

**FuseRpcServer.** The state of server `sv`: `ent[sv]` maps each path to an inode
number, `node[sv]` each inode to kind, owner, permission bits and contents,
`fdt[sv]` each descriptor to an open file description, `lock[sv]` each inode to the
descriptor that holds its `flock`; `hung[sv]` is a process blocked in `flock`;
`reply[sv]` the last answer. Each `bb_*_6_svc` is an operator of the same name with
one disjunct per way out of the C function, so an early return with a lock still
held is such a state here. A handler is one step, because `svc_run` is
single-threaded and nobody else touches `/DFS`; only the death of the process can
cut it in two, and `DiesHalfway` is what is left when it dies between the system
call that makes a name and the one that sets the owner. The system calls are operators too
(`CanRename`, `Renamed`, `CanOpen`, `WrittenAt`, ...); they and the file system
behind them are marked external in the map. The server runs as root, so no system
call refuses for want of permission. Group bits are left out since no check reads
them, and so are times.

`bb_symlink` of the client sends a target unaltered, and the server stores it, so a
relative one leads to a file under `/DFS` at the server too. Where the server calls
`chown`, `chmod`, `truncate`, `utime`, `access`, `open`, `opendir` or `statvfs`, the link
is followed (`LeadsTo`); where it calls `lstat`, `lchown`, `readlink`, `link`, `rename`
or `unlink`, it is not. `bb_link` does both: `link` gives the symbolic link itself a
second name, and `set_owner` (609) goes from that name to the file it leads to, which
changes hands; when it leads to nothing, the request is answered with an error and the
new name stays.


Operators commented "Slip" are not the code: each is a plausible mistake in the
definition after it and serves to show that the properties notice it.

**ServerSystem.** Servers and the clients of each, one server per client. `Call` is
any request by path; `Open`, `Read`, `Write`, `Readdir` and `Release` go through
`handles[sv]`, what clients keep in `fi->fh`; `Reboot` kills the server process and
starts it again on the same disk without telling the clients, and `RebootHalfway`
does so in the middle of a request.

**AtomicFS.** The abstract specification: names, files, who has which file open for
writing, and the last answer; no descriptors, no locks, no files without a name.
Each change of a tree is one whole request by the client who is answered, with the
right it needs at that moment: a name appears, disappears or moves (`Renames`), bits
change (`Chmods`), the contents of one file change (`Writes`).

The rights are those of the code, which is wider than its documentation. What the
server allows besides is in the specification under names of its own, so the refinement
says that these are all there are:

- in the root directory anybody may move any file, onto any other (`Moves`), and take
  one over by a second name (`Links`); only removal asks for the owner there. `README.md:82`
  of the source says otherwise, and the run `rootnames` shows the difference;
- a second name for a symbolic link makes the file it leads to change hands
  (`LinksSymlink`), or is made although the client hears of a failure;
- the bits, the contents and the size of a file are reached through a link to it;
- anybody may change a size, because `truncate` is not checked, and copied writes are
  not checked (`Writes`);
- a crash leaves a file without its owner (`Crashes`), and after one a number that a
  client kept may lead a write into any file.

`ServerSystem!FS` instantiates it with the mapping that forgets descriptors, locks
and files without a name, and `ImplementsAtomicFS` states the refinement.

**Replication.** Two servers, the requests that wait at each (`queue`), the copy the
primary waits for (`copying`), the datagrams under way (`net`), the answers under way
(`answers`), and the clients with the call each waits for. `Connect` is
`CONNECT_SERVER` and the sending of a request; `Return` and `GiveUp` are the two ways
a call ends; `Serve` takes a request from the queue and either sends the copy or,
when the secondary cannot be reached or the request is not copied, executes it;
`SendAgain`, `Deliver` and `Lose` are UDP; `Finish` is the primary's own execution
after the wait; `Crash` and `Boot` a server process. Two points are decided by the
system around the code: a new server process has a new UDP port (`RPC_ANYSOCK`), so
datagrams die with the process they were sent to; and a request whose client has
given up is still in the server's socket and is executed. A client that was not
mounted before first asks for `/DFS` (`initialized`, 220-224). `Restore` is `rsync.py`:
each name of the source becomes a file of its own at the target, since `rsync -a`
does not keep hard links. `log`, `ids`, `faults` and `since` record what happened and
influence nothing but bounds.

**TweakfsIO.** One read or write at a time by one client on one open file. A round of
the loop is a step: the remote call, with the server's `pread` or `pwrite`, and what
the loop makes of its result. `ret` is the C variable that all rounds share, so a call
that fails leaves there what the round before put there, or, in the first round,
whatever the stack held: an error, or success with any length an int can have
(`Uninitialised`). Ints, and the sizes and offsets of remote calls, have 32 bits and
stand here as remainders modulo `Wrap` = 2^32, a negative one in the upper half. With
such a length `bb_write` computes a size beyond MAX_SIZE, and what the server then
writes, or whether the client dies of copying outside its buffer, is left open
(`WritesSome`, `GoesOn`). A call without an answer may have been executed.
`OtherClient` changes the file between two rounds; `seen` remembers the contents at each
such moment, `link` whether every remote call was answered. Because a round of the loop
can leave every C variable as it was, `turn` flips in each round, so that a loop that
runs for ever is a behaviour of steps and not one that has stopped.

**ClientIdentity.** Clients are mounted under an address that `gethostbyname` finds
and compute `ip` from its text, character by character. The server uses the number as
the owner of files (`set_owner`, `is_owner`).

## What the runs check

All runs set `CHECK_DEADLOCK FALSE`: a server hung in `flock`, and a system that has
used up its bounded calls, really stop.

| Run | Properties | Question |
|---|---|---|
| `names` | FailedCallChangesNothing, DirectoriesChangeByRight, OwnersAsAsked, ImplementsAtomicFS | everything that makes, removes or moves a name, with links to a directory, to a file and to nothing, two clients, a crash between or within requests |
| `descriptors` | TypeOK, HandleIntegrity, LocksComeFromRename, AbandonedLockStays, HangsOnlyOnAbandonedLock | opens and releases while directories are locked and descriptors run out |
| `contents` | LeaksAreKnown, WritesLandWhereMeant, ImplementsAtomicFS | writes by descriptor and by path, truncation, a link to the other file, files replaced or removed while open |
| `replicas` | Replication's TypeOK, ReplicasInStep, EqualSinceRestored, AckedUpdatesKeepOrder, HeardIsOnceDone | two servers, two clients, three updates, two faults |
| `progress` | PrimaryGoesOn, CallsEnd (liveness) | a primary whose secondary or network fails, clients whose servers do |
| `client` | TweakfsIO's TypeOK, ReadGoesForward, ShortOnlyAtEnd, WriteLandsWhole; ReadEnds, WriteEnds (liveness) | reads and writes of several remote calls that fall short, fail or go unanswered, beside other writers |

Each property is stated in words above its definition. What the passing runs show:

- a request answered with an error left the tree as it was; `link` on a symbolic link
  is the one exception, and all it leaves is the new name; a directory other than the
  root changes only through a client with rwx on it, even when a rename moves whole
  subtrees;
- no handler closes or reuses a descriptor that is some client's handle, and contents
  change only by the request that is answered: a write through a number reaches the file
  that this client opened under it for writing, a truncate or a copied write the file its
  path leads to;
- every lock that outlives its request comes from `rename`, it stays until the
  process dies, and it is the only thing a server ever hangs on;
- in every step but a crash, a new file is its maker's from its first moment on, and
  another file changes hands only by a `link`, to the client that asked for it, and only
  the file of the old name or the one that a symbolic link leads to;
- seen through its names, a server is the atomic file system of `AtomicFS`, with the
  exceptions listed there;
- without failures the secondary is at most one update ahead and, for requests that
  make and rename names (by the proofs, for all that go by path), the trees are the same
  in between, again so after a cold restoration; whatever fails, updates whose copy was acknowledged are in the
  secondary's history in the primary's order; an answer that is heard is the result
  of the single execution at the server addressed, and every call of a client ends;
- a read that takes several calls, all answered, returns bytes that were in the file,
  later bytes from no earlier moment, and is short only if the file was; a write of
  answered calls, at most one of them short, lands whole at its place; reads end whatever
  fails, and writes end when calls are answered and at most one is short.

The runs that end in a violation show where documentation and code differ:

| Run | Property | What the counterexample shows |
|---|---|---|
| `unlock` | NoLockLeftBehind | `rename` that cannot lock the second parent returns with the first one locked (534-540) |
| `append` | ReplicasAgree | the secondary opens with `O_APPEND` (931), so a copied write ignores its offset |
| `rootnames` | OnlyOwnersMoveInRoot | in the root directory a client renames another client's file (282-290) |
| `failover` | WritesGoToOpenFile | after the primary died, a client's write through its number reaches another client's file at the secondary |
| `identity` | DistinctIdentities | `ip_to_int` drops the last number of an address: 10.10.10.10 and 10.10.10.204 are one client |
| `writeloop` | WriteReturns | when calls go unanswered, `bb_write` can go round its loop for ever with what the result variable happens to hold |

Other departures the models have as behaviours of the code, without a run of their
own: `dunlock` never closes what `dlock` opened, so every directory update costs a
descriptor (LeaksAreKnown names them); after a restart of one server a handle denotes
whatever was opened under its number since (the `crashed` disjunct of
`AtomicFS!Writes`); a link changes the owner of a file (`Links`, `LinksSymlink`); a second
readdir on a handle answers no names; offsets beyond 32 bits wrap. And three that the
properties leave out by what they assume: a call that timed out returns whatever its
result held, 0 for instance, though no server executed it (`Results`; HeardIsOnceDone is
about answers that are heard); a read that goes on after an unanswered call takes the
bytes of the call before a second time (763-766; `link`); and after a second short write
the next piece goes to the place of the last one, so that `bb_write` returns its size
with bytes missing (850-851; `shorts`).

### Bounds

- *ServerSystem*: one server, because in this module servers share nothing; two
  clients, the owner of a file and somebody else; 4 inodes and 3 paths (`d`, `f`,
  `d/f`), enough for a file and a directory, a move into and out of the directory,
  replacement of a file, a hard link and a full disk; `contents` has two files in the
  root. 3 or 4 descriptors: `rename` needs two for its locks and `mknod` a second, so
  the table runs out at every point of every handler. At most 2 open handles, one
  restart (a second one starts from the same kind of state), files of one block. In
  `names` a link in `d` leads to `d` and one at `f` to nothing or to what is named `f`
  later; in `contents` one at `f` leads to `g`, which may be the other client's.
- *Symbolic links*: a target that leaves `/DFS`, as an absolute one does, leads to
  nothing (`Target`); a link in the middle of a path has been followed by the client's
  kernel before it asks, so requests with one are left out (`ThroughDirectories`).
- *Replication*: in `replicas`, three calls by two clients, a file being made and then
  renamed, which do not commute, so that order and repetition are visible in the
  trees; two faults, so that one can hit while the system recovers from another. A
  fault is a crash, a lost or repeated datagram, a host out of reach, or a timeout
  while the answer can still come. A timeout with nothing left to wait for is a
  consequence and not bounded. `progress` has two calls. `append`
  needs one client. `Mounted` names the clients that asked for `/DFS` before:
  all of them where that first request is not what the run asks about. `Uses` names
  what clients do with open files; `failover` leaves out reads and releases.
- *TweakfsIO*: remote calls of two bytes. Two or three bytes are read and two written,
  in a file of up to three, at an offset of 0 and one past `Wrap` = 6; in `client` with one
  change by another client during a call and up to two calls cut short. `Wrap` is small so that every
  length that uninitialised memory can hold is tried, also those that wrap; it is at
  least twice what is asked for, as 2^32 is. `Writings` holds what fits one remote call,
  since libfuse cuts writes before. A write reaches no further than `MaxLen`.
- *ClientIdentity*: two hosts, addresses made of two numbers.
- `RenameFits`: a directory is renamed only if the new names of its files are in
  `Paths`.
- *VIEW* leaves out the last answer (`reply`) and, in Replication, the last result of
  a client: no action reads them, and properties read them only in the state a step
  leads to, which TLC checks for every step. *SYMMETRY* permutes the clients; it is
  not used with liveness.

### Fairness

`progress` assumes weak fairness of `Serve`, as `svc_run` does not idle while a request
is in a socket; of `Finish`, as `clnt_call` returns after 25 s at the latest; of
`Deliver`, as a datagram that is not lost arrives; and of `Return` and `GiveUp` of each
client, as a client that waits is given the answer that is there or its timeout. Nothing
is assumed of clients' next calls, of crashes or of restarts. `client`
and `writeloop` assume weak fairness of the rounds of the two loops: a remote call ends, with an answer
or with an error. They assume nothing about which. The safety runs assume no fairness.

## What is proved

Twenty-one theorems, each for any servers, clients, paths, inodes, descriptors, blocks
and bounds. Every safety property that a passing run checks on a small instance is one
of them.

| Module | Theorem | Statement |
|---|---|---|
| ServerSystem_proofs | TypeCorrect | `Spec => []TypeOK` |
| | HandlesIntact | `Spec => []HandleIntegrity` |
| | LocksOnlyFromRename | `Spec => LocksComeFromRename` |
| | AbandonedLocksStay | `Spec => AbandonedLockStays` |
| | OwnersAreAsked | `Spec => OwnersAsAsked` |
| Files_proofs | FailuresLeaveNoTrace | `Spec => FailedCallChangesNothing` |
| | WritesMeant | `Spec => WritesLandWhereMeant` |
| | LeaksKnown | `Spec => []LeaksAreKnown` |
| | HangsOnAbandonedLock | `Spec => HangsOnlyOnAbandonedLock` |
| Directories_proofs | DirectoriesByRight | `Spec => DirectoriesChangeByRight` |
| Refinement_proofs | ServersImplementAtomicFS | `Spec => ImplementsAtomicFS` |
| Replication_proofs | TypeCorrect | `Spec => []TypeOK` |
| | AckedUpdatesInOrder | `Spec => []AckedUpdatesKeepOrder` |
| | HeardMeansDone | `Spec => HeardIsOnceDone` |
| Replicas_proofs | SameUpdates | `Spec => []ReplicasInStep`, for calls by path |
| | EqualTrees | `Spec => []EqualSinceRestored`, for calls by path other than `link` |
| | AgreeByPath | `Spec => []ReplicasAgree`, for calls by path |
| TweakfsIO_proofs | TypeCorrect | `Spec => []TypeOK` |
| | ReadsGoForward | `Spec => []ReadGoesForward` |
| | ShortReadsAtEnd | `Spec => []ShortOnlyAtEnd` |
| | WritesLandWhole | `Spec => []WriteLandsWhole` |

*Assumptions*, all named next to the constants and evaluated by TLC in every run: paths
are non-empty sequences of strings closed under the parent, descriptors and inode
numbers are naturals, the server's user is no client, `None` is no inode, file,
description, path, descriptor, number or copy under way, sizes are positive, `Wrap` is at
least twice each of them, what is written at once fits a remote call, what stands for
uninitialised memory is no byte, targets are of the form in `Target`, primary and secondary are two servers, and the bounds
are naturals.

### The handlers

`ServerTypeOK` is not inductive: a step that follows a name or a descriptor to its
inode yields a file only if the inode is in use, so the invariant adds `Backed`, every
inode that a name or a descriptor refers to holds a file (`ServerInv`). Each handler is
shown to keep `ServerInv` in a lemma of its own (`MkdirInv`, `RenameInv`, ...), on top
of lemmas for the system calls (`CreateType`, `BackedReap`, ...); `RequestInv` collects
them. `FuseRpcServer_proofs` holds these lemmas and the ones about what a request does
to the descriptors, because both ServerSystem and Replication are built from the
handlers.

### Handles and locks

For `HandleIntegrity`, `Keeps` says that a request closes no open descriptor; every
request but release keeps (`RequestKeeps`), and release closes only the number in its
argument, which by `HandleIntegrity` itself is no other client's. The induction is
`IInv` = `ServerInv`, the types of the clients' variables and `HandleIntegrity`.

`LocksOnlyFromRename` looks at one step: `RenameLocks` for rename and `OtherLocks` for
every other request. `AbandonedLocksStay` needs to know that a client never holds the
descriptor of a lock, since `read`, `write` and `readdir` give back whatever lock their
descriptor has. That is `LockInv`: until the first restart, the holder of a lock is an
open descriptor (`HoldersOpen`), and it is no client's handle
(`HandlesHoldNoLock`). A crash, within a request or between two, closes every descriptor
(`HalfMadeInv`, `DiesHalfwayInv`) and counts as a restart.

### Owners

`OwnersAreAsked` goes through the requests one kind at a time (`OwnersRight`, what the
property says of one server's step). Requests that leave every file as it is or free it
have nothing to show (`KeptOwners`, `ReapOwners`); those that make a file give it to its
maker (`CreateOwners`, `MakingOwners`); those that change one file keep its owner
(`SetNodeOwners`, `ChangingOwners`); `LinkOwners` finds the file that `chown` reached. The
invariant behind it is `ServerInv`: without `Backed` a name could lead to an inode that
holds nothing. A crash is excluded by `restarts' = restarts` (`RebootSteps`).

### Files

`FailuresLeaveNoTrace` goes through the ways out of each handler that answer anything
but "OK" and shows of each that `NoTrace` holds, or, of `link` on a symbolic link, that
all it adds is the second name (`LinkTrace`). It also needs `Backed`: a request that
fails may still reap a file that lost its last descriptor, and only then is it plain
that the file had no name.

`WritesMeant` rests on `FilesStep`: in every step a file keeps its kind, and contents
stay unless the request writes or truncates, and then only those of the file that the
answered request (`reply.arg`) names by path or by number. What a write by number reaches
is the file of its descriptor, which `HandleIntegrity` makes the one that the client
opened.

`LeaksKnown` is not inductive on its own: a release closes the number of a handle, and
what remains open must be known without it. `LeakInv` adds `DirHandles`, a handle from
`opendir` is the descriptor of a directory.

`HangsOnAbandonedLock` is about rename, the only handler that locks twice: it would
hang on its own first lock if both parents were one directory under two paths, as the
code compares the paths (539). `OneNameOnly` excludes that: an inode with two
names is no directory. It is kept because `link` refuses directories, a new name takes
a free inode, and a rename moves different names to different names (two paths below
the one that moves that arrive at one place were one, by cancellation of the prefix).

### Directories

`DirectoriesByRight` compares what a directory lists before and after a step, and a
rename moves the names of a whole subtree. The invariant is `Tree`: everything strictly
above an existing name is a path that may be named, exists, and is a directory. It
speaks of all sequences of strings above the name, not of its parent only; that way no
induction along the path is needed. The tree changes in three ways: one name appears
(`Grows`), one name with nothing below it disappears (`Shrinks`), or a name is carried
to another place with everything below it (`Carries`). Each handler is one of the three
under the rights its permission check asks for (`RequestTree`), and each of the three
keeps `Tree` (`ChangeTree`). Only the directory above the name in question lists
anything else afterwards (`LeafListing`); in a rename the directories that are moved
along list the same last components and files as before (`CarriedListing`), because a
name and its parent are carried alike.

The facts about paths (`PrefixOrder`, `AboveChild`, `RebasedTop`, `RebasedParent`, ...)
are lemmas of their own. They use the operators `Joined` and `Child` for concatenation
and appending, so that the rest of the module reasons from these facts alone.

### The refinement

`ServersImplementAtomicFS` says that every behaviour of ServerSystem, seen through the
mapping `FS`, is one of AtomicFS. `Shown` names what the mapping makes of the files: a
file without a name is not seen. Three things are needed besides the step itself.

- *Names and files.* Inodes come and go without being seen, when a file loses its last
  descriptor. `Stays` says that what has a name afterwards had one before and is the
  same; it gives `KeepsAllBut` of the specification (`StaysKeeps`, `ReapStays`), and for
  a request that changes no name, that it only looks (`QuietLooks`).
- *Changes.* A name that appears is a `Makes` or a `Links` (`ShownMakes`, `ShownLinks`),
  one that disappears a `Removes`, a subtree that is carried away a `Moves`
  (`CarriesMoves`, from `Carries` above), new bits a `Chmods`, new contents a `Writes`
  (`ShownFills`, and for the sizes `ResizedSize` and `AppendedSize`). `Effect` is their
  disjunction; each handler has a lemma that it has an `Effect` with the right its check
  asked for (`LinkEffect`, `RenameEffects`, `WriteDirectEffect`, ...), and
  `RequestEffect` collects them. `Tree` is needed twice: nothing is below a file that is
  removed, and the parent of a name that is linked is a directory.
- *Who may.* A write by descriptor is one of a writer: by `HandleIntegrity` the number
  leads to the file the client has open, unless the server has died, and then the
  specification allows any file (`UseHandleSeen`). An open is the moment the right to
  write is granted (`OpenGrants`).

Symbolic links are followed in the seen tree as in the server's (`SameFollowed`,
`SeenLead`), because a link has a name and so is seen with its target. `LinkFollowed`
compares the two ways of looking at `link` on a symbolic link: the server follows the new
name when it is there and before the owner changes, and so does `DoublesLink`.

A crash between two system calls leaves a file with the server's own user or a link
whose owner has not changed, which are actions of the specification (`RebootSeen`).

### Replication

`IInv` adds four groups to `ServerInv`. `Types`: queues, copies, datagrams and logs, and
besides that the secondary copies nothing further (`OnlyPrimaryCopies`) and that a
server which is down has no descriptor open (`DeadT`). `Routes`: a call is in one place
only at the primary (waiting, being copied, or executed), and what it sends a copy of
was never at the secondary before; at the secondary, copies may run more than once.
`CallInv`: the call a client waits for is nowhere but at the server it was sent to, was
executed there once at most, and an answer under way is what that execution came to.
`OrderInv`: an acknowledged update is in the secondary's log, and there every execution
of it comes after one of each update that was acknowledged before; the same holds
already of the update that is being copied (`CopyingInv`), which is why a copy that is
late or repeated does no harm. The steps are proved one action at a time, up to
`NextInv`. `AckedUpdatesKeepOrder` follows from `OrderInv`, and `HeardIsOnceDone` from
`CallInv`.

`TypeOK` says what the answers, results and logs are besides. `OutcomeT` adds to `IInv`
that each of them has one of the three outcomes (`ResultsOutcome`, `AnsweredOutcome`).

### The replicas

The three theorems of `Replicas_proofs` are about the calls that clients may make, the
constant `Calls`, and assume of it what the code needs for them to be true:

- *By path.* `Calls \subseteq UpdatesByPath \cup LookupsByPath`: everything but open,
  opendir, read, write, readdir and the releases. An open is not copied, so it takes a
  descriptor of one server only, and that server may refuse a later update for want of
  descriptors that the other one still has; and a copied write is appended (931), which
  is what the run `append` shows. Run `replicas` has calls by path, mknod and rename.
- *No links*, for `EqualTrees` alone: `NoLinks` says that no call is a `link`. `rsync.py`
  makes each name of a hard-linked file a file of its own (`Restore`), so the trees are
  not the same after it. With this goes that the inodes are finitely many, as those of a
  disk are: otherwise a restoration could leave more numbers free on one server than on
  the other, and the renumbering below could not be made.

`AgreeByPath` has the first hypothesis only: up to the first fault, hard links do no harm.
The property it states is the one that `append` finds violated through an open file.

*What an update does.* The proof compares two servers that execute the same request, so
it needs each handler as a function. `Verdict` says how far an update by path comes (not
permitted, no descriptor for the lock, the lock held, a failing system call, done), and
`EntAfter`, `NodeAfter`, `FdtAfter`, `LockAfter`, `HungAfter` and `RetAfter` what it makes
of its server's tables and answers. `UpdatePredicted` shows for every handler that its
disjuncts come to just that (`MkdirPredicted`, `RenamePredicted`, ...). `Touched` is
the name of the file that an update changes: what its path leads to, or, for the `chown` of
a `link`, what the new name leads to once it is made.

*Alike.* Two disks need not agree on inode numbers, and after a fault they do not. `Alike`
says that a one-to-one renumbering (`Renumberings`) takes the tables of the primary to
those of the secondary: names, files, open descriptors, held locks. Whatever a handler
looks at is then the same (`SameChecks`, `SameVerdict`), and what it changes, it changes in
the same way (`FdtImage`, `LockImage`, `CreatesImage`, `KeepsImage`), so that `AlikeAfter`
holds: servers alike are alike after the same update. A new file is the one place where the
renumbering itself must change, for each server picks any free number: `Exchanged` swaps two
numbers. `CopyAsks` and `CopyPredicted` show that the copy, whose `server_info` differs,
asks for what the request asks for.

*The invariant.* The secondary executes an update first, while the primary waits, and may
fail, block or run out of descriptors in it. `InStep` has both situations: the copy is on
its way and the servers are alike (`BeforeCopy`), or it was executed and the secondary is
already what the update will make of the primary (`Ahead`), with the answer the primary will
come to (`Told`) (`AfterCopy`). That is kept as long as nothing fails: `Quiet` holds up to
the first fault, and, with no links, from each restoration to the next fault, and `StepInv`
is `Quiet => InStep`. `ReplicaInv` adds to `IInv` above what holds whatever fails:
`AskedByPath`, all that waits or is under way anywhere is a call by path; `NothingAhead`, a
server that is down has nothing before it; `Holders`, who holds a lock is a descriptor open
on that directory, so a new lock is not taken by a stale one; `OneName`, without links no
file has two names; `DownInv`, a process that is gone has no lock, no block and no file
without a name. `TreesRenumbered` is the restoration: after it both disks have as many named
files and so as many free numbers, and there is a renumbering that takes one tree to the
other. Here the library's theorems on cardinality are used.

`EqualTrees` and `AgreeByPath` follow because trees that are `Alike` are `SameTree`. For
`SameUpdates` one more invariant, `SameHistory`, pairs what both servers executed; `Finish`
adds a pair with equal answers because of `Told`.

### The client's loops

`ReadInv` says that every byte copied so far was in the file at its position at some
moment, with moments that never decrease, and that a read that has stopped early saw the
end of the file. A round appends what the last moment has, so the moments are extended
by that one. `WriteInv` says where the loop stands: nothing written yet; a prefix written
and the rest left; all written. The second remote call must leave what a single write
would have left, also when somebody changed the file in between: `PwriteTwice` joins two
pieces written one behind the other, and `PwriteBehind` finds the data that a single
write would have had when only the second piece is still there. Offsets are computed
modulo `Wrap`; the theorems, like the properties, speak of calls that do not cross a
multiple of it (`~Crosses`), and the lemmas on remainders make each position in the loop
the plain sum. `Types` includes what `ret` can
hold after an unanswered call, any length (`Fits32`); while every call was answered a write
asks for what is left (`WriteAsks`), and `ReadInv` and `WriteInv` speak of such calls only.

### Only model-checked

- Liveness (`PrimaryGoesOn`, `CallsEnd`, `ReadEnds`, `WriteEnds`): it rests on fairness
  and so on ENABLED, which is beyond the prover.
- The violations: each is a counterexample of TLC's on the instance of its run.

## What is not modelled

- `chown`: the client refuses before sending (582-588), so the server's handler is dead.
- `fsync`, `fsyncdir`, `ftruncate`, `fgetattr`, `flush`, `init`, `destroy`, extended
  attributes: not registered in `bb_oper`, empty or without a remote call.
- marshalling, logging, the port mapper's own failures and the load test.
- the size of the answer to `readdir`, with which the names are not compared (475-484);
  connections, of which `bb_write` leaks one per call (855); what `bb_read` copies past
  the bytes it counts (781).
- in Replication, a crash in the middle of a handler: ServerSystem has it, and
  between two servers it only adds an owner to the differences a crash makes anyway.

## Order of the work

The modules were written from the inside out: the server's handlers and its clients'
handles, replication and failover with their liveness, the client's loops and identity,
crashes within a handler, the cold restoration, then AtomicFS with its refinement. The
proofs followed the same order, and end with the replicas, which need what the handlers
do as functions and everything that was known of Replication before. Whoever changes a
handler finds the lemmas of that handler by its name in `FuseRpcServer_proofs` (types and
descriptors), `Directories_proofs` (the tree), `Refinement_proofs` (its effect) and
`Replicas_proofs` (its prediction).
