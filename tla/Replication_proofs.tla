------------------------ MODULE Replication_proofs --------------------------
(***************************************************************************)
(* Proofs about Replication, for any clients, calls, paths, inodes and     *)
(* descriptors, and any number of calls and faults.                        *)
(***************************************************************************)
EXTENDS Replication, FuseRpcServer_proofs, FiniteSetTheorems

-----------------------------------------------------------------------------
(* Requests: how they are addressed and copied. *)

\* The role in a request can be set to any other, and the request remains one.
LEMMA RoleSet ==
  ASSUME NEW a \in ReplicatedRequests, NEW info \in identity
  PROVE  /\ [a EXCEPT !.server_info = info] \in ReplicatedRequests
         /\ [a EXCEPT !.server_info = info].op = a.op
         /\ [a EXCEPT !.server_info = info].server_info = info
         /\ a.server_info \in identity
<1> DEFINE b == [a EXCEPT !.server_info = info]
           Stays(S) == a \in S => /\ b \in S /\ b.op = a.op /\ b.server_info = info
                                  /\ a.server_info \in identity
<1>1. Stays(init_arg) /\ Stays(rmdir_arg) /\ Stays(unlink_arg) /\ Stays(utime_arg)
  BY DEF init_arg, rmdir_arg, unlink_arg, utime_arg
<1>2. Stays(mkdir_arg) /\ Stays(mknod_arg) /\ Stays(rename_arg) /\ Stays(symlink_arg)
  BY DEF mkdir_arg, mknod_arg, rename_arg, symlink_arg
<1>3. Stays(link_arg) /\ Stays(truncate_arg) /\ Stays(chmod_arg) /\ Stays(write_arg)
  BY DEF link_arg, truncate_arg, chmod_arg, write_arg
<1> HIDE DEF b
<1>4. QED
  BY <1>1, <1>2, <1>3 DEF ReplicatedRequests, b

\* Exactly the replicated requests carry a role.
LEMMA RoleCarried ==
  ASSUME NEW a \in Requests
  PROVE  "server_info" \in DOMAIN a <=> a \in ReplicatedRequests
<1> DEFINE Has(S) == \A x \in S : "server_info" \in DOMAIN x
           HasNot(S) == \A x \in S : "server_info" \notin DOMAIN x
<1>1. Has(init_arg) /\ Has(rmdir_arg) /\ Has(unlink_arg) /\ Has(utime_arg)
  BY DEF init_arg, rmdir_arg, unlink_arg, utime_arg
<1>2. Has(mkdir_arg) /\ Has(mknod_arg) /\ Has(rename_arg) /\ Has(symlink_arg)
  BY DEF mkdir_arg, mknod_arg, rename_arg, symlink_arg
<1>3. Has(link_arg) /\ Has(truncate_arg) /\ Has(chmod_arg) /\ Has(write_arg)
  BY DEF link_arg, truncate_arg, chmod_arg, write_arg
<1>4. HasNot(getattr_arg) /\ HasNot(access_arg) /\ HasNot(statfs_arg) /\ HasNot(readlink_arg)
  BY DEF getattr_arg, access_arg, statfs_arg, readlink_arg
<1>5. HasNot(open_arg) /\ HasNot(release_arg) /\ HasNot(read_arg) /\ HasNot(opendir_arg)
  BY DEF open_arg, release_arg, read_arg, opendir_arg
<1>6. HasNot(readdir_arg) /\ HasNot(releasedir_arg)
  BY DEF readdir_arg, releasedir_arg
<1> HIDE DEF Has, HasNot
<1>7. Has(ReplicatedRequests)
  BY <1>1, <1>2, <1>3 DEF ReplicatedRequests, Has
<1>8. HasNot(LocalRequests)
  BY <1>4, <1>5, <1>6 DEF LocalRequests, HasNot
<1>9. QED
  BY <1>7, <1>8 DEF Requests, Has, HasNot

\* What arrives at a server is a request of the same kind; the secondary is
\* never asked to copy it.
LEMMA AddressedType ==
  ASSUME NEW a \in Requests, NEW sv \in Servers
  PROVE  /\ Addressed(a, sv) \in Requests /\ Addressed(a, sv).op = a.op
         /\ sv = host2 => ~Forwards(Addressed(a, sv))
<1>1. get_identity(sv = host2) \in identity
  BY DEF get_identity, identity
<1>3. CASE a \in ReplicatedRequests
  <2>1. Addressed(a, sv) = [a EXCEPT !.server_info = get_identity(sv = host2)]
    BY <1>3, RoleCarried DEF Addressed
  <2>2. /\ Addressed(a, sv) \in Requests /\ Addressed(a, sv).op = a.op
        /\ Addressed(a, sv).server_info = get_identity(sv = host2)
    BY <1>1, <1>3, <2>1, RoleSet DEF Requests
  <2>3. CASE sv = host2
    <3>1. get_identity(sv = host2) # get_identity(FALSE)
      BY <2>3 DEF get_identity
    <3>2. QED
      BY <2>2, <3>1 DEF Forwards
  <2>4. QED
    BY <2>2, <2>3
<1>4. CASE a \notin ReplicatedRequests
  BY <1>4, RoleCarried DEF Addressed, Forwards
<1>5. QED
  BY <1>3, <1>4

\* A copy is a replicated request of the same kind, marked as a copy.
LEMMA CopyType ==
  ASSUME NEW a \in Requests, Forwards(a)
  PROVE  /\ CopyOf(a) \in ReplicatedRequests /\ CopyOf(a).op = a.op
         /\ Secondary(CopyOf(a).server_info)
<1>1. a \in ReplicatedRequests /\ a.server_info = get_identity(FALSE)
  BY RoleCarried DEF Forwards
<1> DEFINE info == [get_identity(FALSE) EXCEPT !.is_master = FALSE]
<1>2. info \in identity /\ Secondary(info)
  BY DEF get_identity, identity, Secondary
<1>3. CopyOf(a) = [a EXCEPT !.server_info = [a.server_info EXCEPT !.is_master = FALSE]]
  BY DEF CopyOf
<1>4. CopyOf(a) = [a EXCEPT !.server_info = info]
  BY <1>1, <1>3
<1> HIDE DEF info
<1>5. QED
  BY <1>1, <1>2, <1>4, RoleSet

\* What a client asks for is a request.
LEMMA WantedType ==
  ASSUME NEW c \in Ips, fh[c] # None => fh[c].fd \in Fds /\ fh[c].path \in Paths
  PROVE  Wanted(c) \subseteq Requests
<1>1. get_identity(FALSE) \in identity
  BY DEF get_identity, identity
<1>2. [op |-> "init_rootdir", ip |-> c, server_info |-> get_identity(FALSE)] \in init_arg
  BY <1>1 DEF init_arg
<1>3. HandleCalls(c) \subseteq release_arg \cup read_arg \cup write_arg
  <2> DEFINE R == [op |-> "release", ip |-> c, fd |-> fh[c].fd]
             P(n) == [op |-> "read", ip |-> c, fd |-> fh[c].fd, offset |-> n]
             W(n, b) == [op |-> "write", ip |-> c, fd |-> fh[c].fd, path |-> fh[c].path,
                         offset |-> n, buffer |-> b, server_info |-> get_identity(FALSE)]
  <2>1. HandleCalls(c) = IF fh[c] = None THEN {}
                         ELSE {a \in {R} \cup {P(n) : n \in 0 .. MaxLen}
                                        \cup {W(n, b) : n \in 0 .. MaxLen - 1, b \in Blocks}
                                : a.op \in Uses}
    BY DEF HandleCalls
  <2>2. \A n \in 0 .. MaxLen - 1 : n \in 0 .. MaxLen
    BY MaxLenAssumption
  <2>3. ASSUME fh[c] # None
        PROVE  R \in release_arg /\ \A n \in 0 .. MaxLen : P(n) \in read_arg
    BY <2>3 DEF release_arg, read_arg
  <2>4. ASSUME fh[c] # None, NEW n \in 0 .. MaxLen - 1, NEW b \in Blocks
        PROVE  W(n, b) \in write_arg
    BY <1>1, <2>2, <2>4 DEF write_arg
  <2> HIDE DEF R, P, W
  <2>5. QED
    BY <2>1, <2>3, <2>4
<1>4. QED
  BY <1>2, <1>3, CallsAssumption DEF Wanted, Requests, ReplicatedRequests, LocalRequests
-----------------------------------------------------------------------------
(***************************************************************************)
(* The inductive invariant.  Types of the variables first; an answer has   *)
(* the type of what was asked because of CallAnswered, below.              *)
(***************************************************************************)
Entry == [id : Nat, copied : BOOLEAN, ret : {"OK", "EACCES", "ERR", "HANG"}]
Ids == 1 .. ids

QueueT == queue \in [Servers -> SUBSET Sent]
LogT == log \in [Servers -> Seq(Entry)]
CountT == /\ up \in [Servers -> BOOLEAN]
          /\ ids \in 0 .. MaxCalls /\ faults \in 0 .. MaxFaults /\ since \in 0 .. faults \cup {None}
CallT ==
  /\ DOMAIN call = Ips
  /\ \A c \in Ips : call[c] # None =>
       call[c].id \in Ids /\ call[c].to \in Servers /\ call[c].arg \in Requests
ClientT ==
  /\ alive \in [Ips -> BOOLEAN] /\ initialized \in [Ips -> BOOLEAN]
  /\ DOMAIN result = Ips /\ DOMAIN fh = Ips
  /\ \A c \in Ips : fh[c] # None => fh[c].fd \in Fds /\ fh[c].path \in Paths

\* What is under way to the secondary is marked as a copy, and there is at most
\* one datagram more for each thing that goes wrong.
CopyingT ==
  copying # None => /\ copying \in Copying /\ copying.sends <= faults + 1
                    /\ Forwards(copying.arg) /\ up[host1]
NetT == \A d \in net : /\ d.id \in 1 .. MaxCalls /\ d.n \in 1 .. MaxFaults + 1
                       /\ d.arg \in ReplicatedRequests /\ Secondary(d.arg.server_info)

\* A process that is down has nothing open, and the secondary is never asked to
\* copy anything.
DeadT == \A sv \in Servers : ~up[sv] => \A fd \in Fds : fdt[sv][fd] = None
OnlyPrimaryCopies == \A r \in queue[host2] : ~Forwards(r.arg)

Types == /\ QueueT /\ LogT /\ CountT /\ CallT /\ ClientT /\ CopyingT /\ NetT
         /\ DeadT /\ OnlyPrimaryCopies

(***************************************************************************)
(* Where a call can be, by its id: waiting at a server, at the primary     *)
(* with its copy under way, in a datagram, executed.                       *)
(***************************************************************************)
Waiting(sv) == {r.id : r \in queue[sv]}
BeingCopied == IF copying = None THEN {} ELSE {copying.id}
UnderWay == {d.id : d \in net}
Executed(sv) == {log[sv][k].id : k \in DOMAIN log[sv]}

IdsKnown ==
  /\ \A sv \in Servers : Waiting(sv) \cup Executed(sv) \subseteq Ids
  /\ BeingCopied \cup UnderWay \cup {r.id : r \in answers} \subseteq Ids

\* The primary has a call in one place only, and what it sends a copy of was
\* never at the secondary before.
OneRequestPerId == \A sv \in Servers : \A r, s \in queue[sv] : r.id = s.id => r = s
OnePlace ==
  /\ Waiting(host1) \cap (BeingCopied \cup Executed(host1)) = {}
  /\ BeingCopied \cap Executed(host1) = {}
  /\ Waiting(host1) \cap (Waiting(host2) \cup UnderWay \cup Executed(host2)) = {}
  /\ Waiting(host2) \cap (BeingCopied \cup UnderWay \cup Executed(host2)) = {}

\* A client's call is nowhere but at the server it was sent to, and was executed
\* there once at most; copies are made of calls of the primary.
CallRouted ==
  \A c \in Ips : call[c] # None =>
    /\ call[c].to = host1 => call[c].id \notin Waiting(host2)
    /\ call[c].to = host2 => call[c].id \notin Waiting(host1) \cup BeingCopied \cup UnderWay
CallOnce ==
  \A c \in Ips : call[c] # None =>
    LET l == log[call[c].to] IN
    \A j, k \in DOMAIN l : l[j].id = call[c].id /\ l[k].id = call[c].id => j = k

\* What waits under the id of a call is what the client asked for, and what is
\* answered is what the execution came to.
CallKind ==
  \A c \in Ips : call[c] # None =>
    /\ \A sv \in Servers : \A r \in queue[sv] : r.id = call[c].id => r.arg.op = call[c].arg.op
    /\ copying # None /\ copying.id = call[c].id => copying.arg.op = call[c].arg.op
CallAnswered ==
  \A c \in Ips : call[c] # None =>
    \A r \in answers : r.id = call[c].id =>
      /\ \E k \in DOMAIN log[call[c].to] :
           log[call[c].to][k].id = r.id /\ log[call[c].to][k].ret = r.ret
      /\ call[c].arg.op = "open" /\ r.ret = "OK" => r.val \in Fds

Routes == IdsKnown /\ OneRequestPerId /\ OnePlace
CallInv == CallRouted /\ CallOnce /\ CallKind /\ CallAnswered

(***************************************************************************)
(* The order of the updates that were acknowledged, and of the one whose   *)
(* copy is waited for.                                                     *)
(***************************************************************************)
Acked == {k \in DOMAIN log[host1] : log[host1][k].copied}
\* In the log l every execution of id comes after one of first.
After(l, id, first) ==
  \A n \in DOMAIN l : l[n].id = id => \E m \in 1 .. n - 1 : l[m].id = first

AckedInv ==
  /\ \A k \in Acked : log[host1][k].id \in Executed(host2)
  /\ \A j, k \in Acked : j < k => After(log[host2], log[host1][k].id, log[host1][j].id)
CopyingInv ==
  copying # None => /\ copying.answer = "here" => copying.id \in Executed(host2)
                    /\ \A j \in Acked : After(log[host2], copying.id, log[host1][j].id)
OrderInv == AckedInv /\ CopyingInv

IInv == ServerInv /\ Types /\ Routes /\ CallInv /\ OrderInv

-----------------------------------------------------------------------------
(* What an execution adds to a log. *)

Grown(sv, e) ==
  /\ \A s \in Servers \ {sv} : log'[s] = log[s]
  /\ Len(log'[sv]) = Len(log[sv]) + 1
  /\ \A k \in 1 .. Len(log[sv]) : log'[sv][k] = log[sv][k]
  /\ log'[sv][Len(log[sv]) + 1] = e

Outcome(sv, r, copied) ==
  [id |-> r.id, copied |-> copied, ret |-> IF hung'[sv] THEN "HANG" ELSE reply'[sv].ret]

LEMMA ExecutesGrows ==
  ASSUME ServerInv, LogT, NEW sv \in Servers, NEW r, r.id \in Nat, r.arg \in Requests,
         NEW copied \in BOOLEAN, Executes(sv, r, copied)
  PROVE  /\ ServerInv' /\ LogT' /\ OnlyHere(sv)
         /\ Outcome(sv, r, copied) \in Entry /\ Grown(sv, Outcome(sv, r, copied))
<1>1. ServerInv' /\ OnlyHere(sv)
  BY RequestInv, RequestHere DEF Executes, ServerInv
<1>2. Outcome(sv, r, copied) \in Entry
  BY <1>1 DEF Outcome, Entry, ServerInv, ServerTypeOK
<1>3. log' = [log EXCEPT ![sv] = Append(@, Outcome(sv, r, copied))]
  BY DEF Executes, Outcome
<1>4. LogT' /\ Grown(sv, Outcome(sv, r, copied))
  <2> DEFINE e == Outcome(sv, r, copied)
  <2> HIDE DEF e
  <2>1. log[sv] \in Seq(Entry) /\ e \in Entry /\ log' = [log EXCEPT ![sv] = Append(@, e)]
    BY <1>2, <1>3 DEF LogT, e
  <2>2. LogT' /\ Grown(sv, e)
    BY <2>1 DEF LogT, Grown
  <2>3. QED
    BY <2>2 DEF e
<1>5. QED
  BY <1>1, <1>2, <1>4

LEMMA GrownExecuted ==
  ASSUME LogT, LogT', NEW sv \in Servers, NEW e, Grown(sv, e)
  PROVE  /\ Executed(sv)' = Executed(sv) \cup {e.id}
         /\ \A s \in Servers \ {sv} : Executed(s)' = Executed(s)
         /\ DOMAIN log[sv] = 1 .. Len(log[sv]) /\ DOMAIN log'[sv] = 1 .. Len(log[sv]) + 1
         /\ Len(log[sv]) \in Nat
<1>1. /\ DOMAIN log[sv] = 1 .. Len(log[sv]) /\ DOMAIN log'[sv] = 1 .. Len(log[sv]) + 1
      /\ Len(log[sv]) \in Nat
  BY DEF LogT, Grown
<1>2. \A k \in DOMAIN log'[sv] : \/ k \in DOMAIN log[sv] /\ log'[sv][k] = log[sv][k]
                                 \/ k = Len(log[sv]) + 1 /\ log'[sv][k] = e
  <2>1. TAKE k \in DOMAIN log'[sv]
  <2>2. k \in 1 .. Len(log[sv]) \/ k = Len(log[sv]) + 1
    BY <1>1
  <2>3. QED
    BY <1>1, <2>2 DEF Grown
<1>3. Len(log[sv]) + 1 \in DOMAIN log'[sv] /\ DOMAIN log[sv] \subseteq DOMAIN log'[sv]
  BY <1>1
<1>4. Executed(sv)' = Executed(sv) \cup {e.id}
  BY <1>1, <1>2, <1>3 DEF Executed, Grown
<1>5. \A s \in Servers \ {sv} : Executed(s)' = Executed(s)
  BY DEF Grown, Executed
<1>6. QED
  BY <1>1, <1>4, <1>5

-----------------------------------------------------------------------------
(* How the order of acknowledged updates is kept. *)

\* Whatever the secondary executes comes after what it has executed.
LEMMA SecondaryGrows ==
  ASSUME OrderInv, LogT, LogT', NEW e, Grown(host2, e),
         \/ UNCHANGED copying
         \/ /\ copying # None /\ copying.id = e.id
            /\ copying' = [copying EXCEPT !.answer = "here"] /\ copying'.id = copying.id
  PROVE  OrderInv'
<1> DEFINE n == Len(log[host2]) + 1
<1>1. host1 # host2 /\ host1 \in Servers /\ host2 \in Servers
  BY HostsAssumption
<1>2. /\ Executed(host2)' = Executed(host2) \cup {e.id} /\ log'[host1] = log[host1]
      /\ DOMAIN log'[host2] = 1 .. n /\ DOMAIN log[host2] = 1 .. n - 1 /\ n \in Nat /\ n # 0
      /\ \A m \in 1 .. n - 1 : log'[host2][m] = log[host2][m]
  BY <1>1, GrownExecuted DEF Grown
<1>3. Acked' = Acked
  BY <1>2 DEF Acked
<1>4. \A k \in Acked : \E m \in 1 .. n - 1 : log[host2][m].id = log[host1][k].id
  BY <1>2 DEF OrderInv, AckedInv, Executed
<1>5. ASSUME NEW id, NEW j \in Acked, After(log[host2], id, log[host1][j].id)
      PROVE  After(log'[host2], id, log'[host1][j].id)
  <2>1. PICK k \in 1 .. n - 1 : log[host2][k].id = log[host1][j].id
    BY <1>4
  <2> HIDE DEF n
  <2>2. ASSUME NEW m \in 1 .. n, log'[host2][m].id = id
        PROVE  \E i \in 1 .. m - 1 : log'[host2][i].id = log[host1][j].id
    <3>1. CASE m = n
      BY <1>2, <2>1, <3>1
    <3>2. CASE m # n
      <4>1. m \in 1 .. n - 1 /\ log[host2][m].id = id
        BY <1>2, <2>2, <3>2
      <4>2. PICK i \in 1 .. m - 1 : log[host2][i].id = log[host1][j].id
        BY <1>2, <1>5, <4>1 DEF After
      <4>3. i \in 1 .. n - 1
        BY <1>2, <4>1
      <4>4. QED
        BY <1>2, <4>2, <4>3
    <3>3. QED
      BY <3>1, <3>2
  <2>3. QED
    BY <1>2, <2>2 DEF After
<1>6. AckedInv'
  BY <1>2, <1>3, <1>5 DEF OrderInv, AckedInv
<1>7. CopyingInv'
  BY <1>2, <1>3, <1>5 DEF OrderInv, CopyingInv
<1>8. QED
  BY <1>6, <1>7 DEF OrderInv

\* The primary executes an update, counted as acknowledged only if its copy was
\* answered.
LEMMA PrimaryGrows ==
  ASSUME OrderInv, LogT, LogT', NEW e, Grown(host1, e), copying' = None,
         e.copied => copying # None /\ copying.id = e.id /\ copying.answer = "here"
  PROVE  OrderInv'
<1> DEFINE n == Len(log[host1]) + 1
<1>1. host1 # host2 /\ host1 \in Servers /\ host2 \in Servers
  BY HostsAssumption
<1>2. /\ DOMAIN log'[host1] = 1 .. n /\ DOMAIN log[host1] = 1 .. n - 1 /\ n \in Nat /\ n # 0
      /\ log'[host2] = log[host2] /\ Executed(host2)' = Executed(host2)
      /\ \A k \in 1 .. n - 1 : log'[host1][k] = log[host1][k]
      /\ log'[host1][n] = e
  BY <1>1, GrownExecuted DEF Grown
<1> HIDE DEF n
<1>3. \A k \in Acked' : /\ k \in 1 .. n
                        /\ \/ k \in Acked /\ k < n /\ log'[host1][k] = log[host1][k]
                           \/ k = n /\ e.copied /\ log'[host1][k] = e
  BY <1>2 DEF Acked
<1>4. \A k \in Acked' : log'[host1][k].id \in Executed(host2)'
  BY <1>2, <1>3 DEF OrderInv, AckedInv, CopyingInv
<1>5. ASSUME NEW j \in Acked', NEW k \in Acked', j < k
      PROVE  After(log'[host2], log'[host1][k].id, log'[host1][j].id)
  <2>1. j \in Acked /\ log'[host1][j] = log[host1][j]
    BY <1>2, <1>3, <1>5
  <2>2. QED
    BY <1>2, <1>3, <1>5, <2>1 DEF OrderInv, AckedInv, CopyingInv
<1>6. QED
  BY <1>4, <1>5 DEF OrderInv, AckedInv, CopyingInv

\* The primary starts to wait for the copy of what the secondary never executed,
\* or goes on waiting, or is no longer there to wait.
LEMMA LogsStay ==
  ASSUME OrderInv, UNCHANGED log,
         \/ copying' = None
         \/ /\ copying # None /\ copying'.id = copying.id
            /\ copying'.answer = "here" => copying.answer = "here"
         \/ copying'.id \notin Executed(host2) /\ copying'.answer # "here"
  PROVE  OrderInv'
<1>1. Executed(host2)' = Executed(host2) /\ Acked' = Acked
  BY DEF Executed, Acked
<1>2. AckedInv'
  BY <1>1 DEF OrderInv, AckedInv
<1>3. CopyingInv'
  BY <1>1 DEF OrderInv, CopyingInv, After, Executed
<1>4. QED
  BY <1>2, <1>3 DEF OrderInv

-----------------------------------------------------------------------------
(* The parts of the invariant a step leaves alone. *)

LEMMA ServerSame == ServerInv /\ UNCHANGED serverVars => ServerInv'
BY DEF ServerInv, ServerTypeOK, Backed, serverVars

\* The places of the calls depend on these variables only.
LEMMA PlacesSame ==
  /\ UNCHANGED queue => \A sv : Waiting(sv)' = Waiting(sv)
  /\ UNCHANGED log => \A sv : Executed(sv)' = Executed(sv)
  /\ UNCHANGED net => UnderWay' = UnderWay
  /\ UNCHANGED copying => BeingCopied' = BeingCopied
BY DEF Waiting, Executed, UnderWay, BeingCopied

\* When calls, answers and datagrams are only forgotten, everything that is said
\* of where they are stays true.
Forgets ==
  /\ \A sv \in Servers : queue'[sv] \subseteq queue[sv]
  /\ \A c \in Ips : call'[c] # None => call'[c] = call[c]
  /\ net' \subseteq net /\ answers' \subseteq answers
  /\ copying' # None => /\ copying # None
                        /\ copying'.id = copying.id /\ copying'.arg = copying.arg
                        /\ copying'.answer = "here" => copying.answer = "here"
  /\ UNCHANGED <<log, ids>>

LEMMA ForgetsPlaces ==
  ASSUME Forgets
  PROVE  /\ \A sv \in Servers : Waiting(sv)' \subseteq Waiting(sv) /\ Executed(sv)' = Executed(sv)
         /\ UnderWay' \subseteq UnderWay /\ BeingCopied' \subseteq BeingCopied
         /\ host1 \in Servers /\ host2 \in Servers
BY HostsAssumption DEF Forgets, Waiting, Executed, UnderWay, BeingCopied

LEMMA ForgetsInv ==
  ASSUME Forgets, Routes, CallInv, OrderInv
  PROVE  Routes' /\ CallInv' /\ OrderInv'
<1>1. IdsKnown'
  BY ForgetsPlaces DEF Forgets, Routes, IdsKnown, Ids
<1>2. OneRequestPerId'
  BY DEF Forgets, Routes, OneRequestPerId
<1>3. OnePlace'
  BY ForgetsPlaces DEF Routes, OnePlace
<1>4. CallRouted'
  BY ForgetsPlaces DEF Forgets, CallInv, CallRouted
<1>5. CallOnce' /\ CallKind'
  BY DEF Forgets, CallInv, CallOnce, CallKind
<1>6. CallAnswered'
  BY DEF Forgets, CallInv, CallAnswered
<1>7. OrderInv'
  BY LogsStay DEF Forgets
<1>8. QED
  BY <1>1, <1>2, <1>3, <1>4, <1>5, <1>6, <1>7 DEF Routes, CallInv

\* Faults are only added, up to the bound.
Counts == /\ faults' \in 0 .. MaxFaults /\ faults <= faults'
          /\ since' \in 0 .. faults' \cup {None}

LEMMA CountSteps ==
  ASSUME CountT
  PROVE  /\ UNCHANGED <<faults, since>> => Counts
         /\ Fault /\ UNCHANGED since => Counts
         /\ \A hosts : Missed(hosts) => Counts
         /\ \A pending : Expires(pending) /\ UNCHANGED since => Counts
<1>1. faults \in 0 .. MaxFaults /\ MaxFaults \in Nat \ {0} /\ since \in 0 .. faults \cup {None}
  BY BoundsAssumption DEF CountT
<1>2. Fault => faults' \in 0 .. MaxFaults /\ faults <= faults'
  BY <1>1 DEF Fault
<1>3. \A n \in 0 .. MaxFaults : faults <= n => 0 .. faults \subseteq 0 .. n
  BY <1>1
<1>4. \A pending : Expires(pending) => Fault \/ faults' = IF faults = 0 THEN 1 ELSE faults
  BY DEF Expires
<1>5. \A hosts : Missed(hosts) =>
        \/ since' = None /\ UNCHANGED faults
        \/ Fault /\ UNCHANGED since
  BY DEF Missed
<1>6. QED
  BY <1>1, <1>2, <1>3, <1>4, <1>5 DEF Counts

\* A step that changes nothing but the datagrams, the count of copies and faults.
LEMMA NetStep ==
  ASSUME IInv, NetT', CopyingT', CountT',
         UnderWay' \subseteq UnderWay \cup BeingCopied, CopyingInv',
         copying' # None => /\ copying # None
                            /\ copying'.id = copying.id /\ copying'.arg = copying.arg,
         UNCHANGED <<serverVars, up, queue, answers, clientVars, log>>
  PROVE  IInv'
<1>1. ServerInv'
  BY ServerSame DEF IInv
<1>2. QueueT' /\ LogT' /\ CallT' /\ ClientT' /\ DeadT' /\ OnlyPrimaryCopies'
  BY DEF IInv, Types, QueueT, LogT, CallT, Ids, ClientT, DeadT, OnlyPrimaryCopies,
         serverVars, clientVars
<1>3. Routes'
  <2>1. ids' = ids /\ \A sv \in Servers : Waiting(sv)' = Waiting(sv) /\ Executed(sv)' = Executed(sv)
    BY PlacesSame DEF clientVars
  <2>2. host1 \in Servers /\ host2 \in Servers
    BY HostsAssumption
  <2>3. BeingCopied' \subseteq BeingCopied
    BY DEF BeingCopied
  <2>4. QED
    BY <2>1, <2>2, <2>3 DEF IInv, Routes, IdsKnown, Ids, OneRequestPerId, OnePlace
<1>4. CallInv'
  <2>1. call' = call /\ \A sv \in Servers : Waiting(sv)' = Waiting(sv)
    BY PlacesSame DEF clientVars
  <2>2. CallRouted'
    BY <2>1, HostsAssumption DEF IInv, CallInv, CallRouted, BeingCopied
  <2>3. CallOnce' /\ CallAnswered'
    BY <2>1 DEF IInv, CallInv, CallOnce, CallAnswered
  <2>4. CallKind'
    BY <2>1 DEF IInv, CallInv, CallKind, BeingCopied
  <2>5. QED
    BY <2>2, <2>3, <2>4 DEF CallInv
<1>5. AckedInv'
  BY DEF IInv, OrderInv, AckedInv, Acked, After, Executed
<1>6. QED
  BY <1>1, <1>2, <1>3, <1>4, <1>5 DEF IInv, Types, OrderInv

LEMMA LoseInv ==
  ASSUME IInv, Lose
  PROVE  IInv'
<1>1. net' \subseteq net /\ Fault /\ UNCHANGED <<copying, since, up, log, ids>>
  BY DEF Lose, clientVars
<1>2. Counts
  BY <1>1, CountSteps DEF IInv, Types
<1>3. NetT' /\ CopyingT' /\ CountT'
  BY <1>1, <1>2, BoundsAssumption DEF IInv, Types, NetT, CopyingT, CountT, Counts, Copying
<1>4. UnderWay' \subseteq UnderWay
  BY <1>1 DEF UnderWay
<1>5. CopyingInv'
  BY <1>1 DEF IInv, OrderInv, CopyingInv, Acked, After, Executed
<1>6. QED
  BY <1>1, <1>3, <1>4, <1>5, NetStep DEF Lose

LEMMA SendAgainInv ==
  ASSUME IInv, SendAgain
  PROVE  IInv'
<1> DEFINE d == [id |-> copying.id, n |-> copying.sends + 1, arg |-> CopyOf(copying.arg)]
<1>1. /\ copying # None /\ copying.answer = "awaited" /\ Fault
      /\ copying' = [copying EXCEPT !.sends = @ + 1] /\ net' = net \cup {d}
      /\ UNCHANGED <<since, up, log, ids>>
  BY DEF SendAgain, clientVars
<1>2. /\ copying \in Copying /\ copying.sends <= faults + 1
      /\ Forwards(copying.arg) /\ up[host1]
  BY <1>1 DEF IInv, Types, CopyingT
<1>3. Counts /\ faults' = faults + 1 /\ faults' <= MaxFaults
  BY <1>1, CountSteps, BoundsAssumption DEF IInv, Types, Fault, CountT
<1>4. faults \in Nat /\ MaxFaults \in Nat /\ MaxCalls \in Nat
  BY BoundsAssumption DEF IInv, Types, CountT
<1>5. copying.sends + 1 \in 1 .. MaxFaults + 1 /\ copying.sends + 1 <= faults' + 1
  BY <1>2, <1>3, <1>4 DEF Copying
<1>6. /\ copying' \in Copying /\ copying'.sends <= faults' + 1 /\ copying'.arg = copying.arg
      /\ copying'.id = copying.id /\ copying'.answer = "awaited"
  BY <1>1, <1>2, <1>5 DEF Copying
<1>7. NetT' /\ CopyingT' /\ CountT'
  <2>1. d.id \in 1 .. MaxCalls /\ d.n \in 1 .. MaxFaults + 1
    BY <1>2, <1>5 DEF Copying
  <2>2. d.arg \in ReplicatedRequests /\ Secondary(d.arg.server_info)
    BY <1>2, CopyType DEF Copying
  <2> HIDE DEF d
  <2>3. NetT'
    BY <1>1, <2>1, <2>2 DEF IInv, Types, NetT
  <2>4. QED
    BY <1>1, <1>2, <1>3, <1>6, <2>3, BoundsAssumption DEF CopyingT, CountT, Counts, IInv, Types
<1>8. UnderWay' \subseteq UnderWay \cup BeingCopied
  BY <1>1 DEF UnderWay, BeingCopied
<1>9. CopyingInv'
  BY <1>1, <1>6 DEF IInv, OrderInv, CopyingInv, Acked, After, Executed
<1>10. QED
  BY <1>1, <1>6, <1>7, <1>8, <1>9, NetStep DEF SendAgain

-----------------------------------------------------------------------------
(* Steps of the clients. *)

\* A client that takes a result forgets its call.
LEMMA ResultsInv ==
  ASSUME IInv, NEW c \in Ips, NEW ret, NEW fd, NEW heard, Results(c, ret, fd, heard),
         call[c] # None, call[c].arg.op = "open" /\ ret = "OK" => fd \in Fds,
         answers' \subseteq answers, Counts
  PROVE  IInv'
<1>1. /\ call' = [call EXCEPT ![c] = None]
      /\ UNCHANGED <<serverVars, up, queue, copying, net, ids, log, since>>
  BY DEF Results
<1>2. \A b \in Ips : call'[b] # None => b # c /\ call'[b] = call[b]
  BY <1>1 DEF IInv, Types, CallT
<1>3. ServerInv' /\ Routes' /\ CallInv' /\ OrderInv'
  BY <1>1, <1>2, ServerSame, ForgetsInv DEF IInv, Forgets
<1>4. QueueT' /\ LogT' /\ CountT' /\ CopyingT' /\ NetT' /\ DeadT' /\ OnlyPrimaryCopies'
  <2>1. CopyingT'
    BY <1>1, BoundsAssumption DEF IInv, Types, CopyingT, Counts, Copying, CountT
  <2>2. QED
    BY <1>1, <2>1 DEF IInv, Types, QueueT, LogT, CountT, NetT, DeadT, Counts, OnlyPrimaryCopies,
                     serverVars
<1>5. CallT'
  BY <1>1, <1>2 DEF IInv, Types, CallT, Ids
<1>6. ClientT'
  <2>1. call[c].arg.op = "open" => call[c].arg.path \in Paths
    BY RequestKinds DEF IInv, Types, CallT, open_arg
  <2>2. initialized' \in [Ips -> BOOLEAN] /\ alive' \in [Ips -> BOOLEAN]
    BY DEF Results, IInv, Types, ClientT
  <2>3. DOMAIN result' = Ips /\ DOMAIN fh' = Ips
    BY DEF Results, IInv, Types, ClientT
  <2>4. \A b \in Ips : b # c => fh'[b] = fh[b]
    BY DEF Results, IInv, Types, ClientT
  <2>5. fh'[c] # None => fh'[c].fd \in Fds /\ fh'[c].path \in Paths
    <3>1. fh'[c] = CASE call[c].arg.op = "release" -> None
                     [] call[c].arg.op = "open" /\ ret = "OK" ->
                          [fd |-> fd, path |-> call[c].arg.path, heard |-> heard]
                     [] OTHER -> fh[c]
      BY DEF Results, IInv, Types, ClientT
    <3>2. CASE call[c].arg.op = "open" /\ ret = "OK"
      BY <2>1, <3>1, <3>2
    <3>3. CASE ~(call[c].arg.op = "open" /\ ret = "OK")
      BY <3>1, <3>3 DEF IInv, Types, ClientT
    <3>4. QED
      BY <3>2, <3>3
  <2>6. QED
    BY <2>2, <2>3, <2>4, <2>5 DEF ClientT, IInv, Types
<1>7. QED
  BY <1>3, <1>4, <1>5, <1>6 DEF IInv, Types

LEMMA ReturnInv ==
  ASSUME IInv, NEW c \in Ips, Return(c)
  PROVE  IInv'
<1>1. PICK r \in answers : /\ r.id = call[c].id /\ Results(c, r.ret, r.val, TRUE)
                           /\ answers' = answers \ {r}
  BY DEF Return
<1>2. call[c] # None /\ UNCHANGED <<faults, since>>
  BY <1>1 DEF Return, Results
<1>3. call[c].arg.op = "open" /\ r.ret = "OK" => r.val \in Fds
  BY <1>1, <1>2 DEF IInv, CallInv, CallAnswered
<1>4. QED
  BY <1>1, <1>2, <1>3, CountSteps, ResultsInv DEF IInv, Types

LEMMA GiveUpInv ==
  ASSUME IInv, NEW c \in Ips, GiveUp(c)
  PROVE  IInv'
<1>1. PICK ret \in {"OK", "ERR"}, fd \in Fds : Results(c, ret, fd, FALSE)
  BY DEF GiveUp
<1>2. Counts
  <2>1. UNCHANGED since
    BY <1>1 DEF Results
  <2>2. QED
    BY <2>1, CountSteps DEF GiveUp, IInv, Types
<1>3. call[c] # None /\ answers' \subseteq answers
  BY DEF GiveUp
<1>4. QED
  BY <1>1, <1>2, <1>3, ResultsInv

\* A new call has an id that nothing else has.
LEMMA SendInv ==
  ASSUME IInv, NEW c \in Ips, NEW a \in Requests, NEW sv \in Servers, Send(c, a, sv),
         ids < MaxCalls, Counts,
         UNCHANGED <<serverVars, up, copying, net, answers, fh, initialized, result, log>>
  PROVE  IInv'
<1> DEFINE id == ids + 1
           r == [id |-> id, arg |-> Addressed(a, sv)]
<1>1. /\ call' = [call EXCEPT ![c] = [id |-> id, to |-> sv, arg |-> a]]
      /\ queue' = [queue EXCEPT ![sv] = @ \cup {r}]
      /\ ids' = id /\ UNCHANGED alive
  BY DEF Send
<1>2. /\ id \in 1 .. MaxCalls /\ id \notin Ids /\ ids \in Nat /\ ids' = id
      /\ Ids' = Ids \cup {id} /\ Ids \subseteq 1 .. MaxCalls
  BY <1>1, BoundsAssumption DEF IInv, Types, CountT, Ids
<1>3. r \in Sent /\ (sv = host2 => ~Forwards(r.arg)) /\ r.id = id /\ r.arg.op = a.op
  BY <1>2, AddressedType DEF Sent
<1> HIDE DEF r, id
<1>4. /\ queue'[sv] = queue[sv] \cup {r} /\ \A s \in Servers \ {sv} : queue'[s] = queue[s]
      /\ queue' \in [Servers -> SUBSET Sent]
  BY <1>1, <1>3 DEF IInv, Types, QueueT
<1>5. /\ call'[c] = [id |-> id, to |-> sv, arg |-> a] /\ DOMAIN call' = Ips
      /\ \A b \in Ips \ {c} : call'[b] = call[b]
  BY <1>1 DEF IInv, Types, CallT
<1>6. ServerInv' /\ OrderInv'
  BY ServerSame DEF IInv, OrderInv, AckedInv, CopyingInv, Acked, After, Executed
<1>7. QueueT' /\ CallT'
  BY <1>2, <1>4, <1>5 DEF IInv, Types, QueueT, CallT
<1>8. LogT' /\ CountT' /\ CopyingT' /\ NetT' /\ DeadT' /\ OnlyPrimaryCopies' /\ ClientT'
  <2>1. CountT'
    BY <1>2, BoundsAssumption DEF IInv, Types, CountT, Counts
  <2>2. CopyingT'
    BY BoundsAssumption DEF IInv, Types, CopyingT, Counts, Copying, CountT
  <2>3. OnlyPrimaryCopies'
    BY <1>3, <1>4, HostsAssumption DEF IInv, Types, OnlyPrimaryCopies
  <2>4. QED
    BY <1>1, <2>1, <2>2, <2>3 DEF IInv, Types, LogT, NetT, DeadT, ClientT, serverVars
<1>9. /\ Waiting(sv)' = Waiting(sv) \cup {id}
      /\ \A s \in Servers \ {sv} : Waiting(s)' = Waiting(s)
      /\ \A s \in Servers : Executed(s)' = Executed(s)
      /\ BeingCopied' = BeingCopied /\ UnderWay' = UnderWay
  <2>1. Waiting(sv)' = Waiting(sv) \cup {id}
    BY <1>3, <1>4 DEF Waiting
  <2>2. QED
    BY <1>4, <2>1, PlacesSame DEF Waiting
<1>10. /\ \A s \in Servers : id \notin Waiting(s) /\ id \notin Executed(s)
       /\ id \notin BeingCopied /\ id \notin UnderWay /\ \A x \in answers : x.id # id
  BY <1>2 DEF IInv, Routes, IdsKnown
<1>11. Routes'
  <2>1. IdsKnown'
    BY <1>2, <1>9 DEF IInv, Routes, IdsKnown
  <2>2. OneRequestPerId'
    <3>1. \A x \in queue[sv] : x.id # id
      BY <1>10 DEF Waiting
    <3>2. QED
      BY <1>3, <1>4, <3>1 DEF IInv, Routes, OneRequestPerId
  <2>3. OnePlace'
    BY <1>9, <1>10, HostsAssumption DEF IInv, Routes, OnePlace
  <2>4. QED
    BY <2>1, <2>2, <2>3 DEF Routes
<1>12. CallInv'
  <2>1. CallRouted'
    BY <1>2, <1>5, <1>9, <1>10, HostsAssumption DEF IInv, Types, CallT, CallInv, CallRouted
  <2>2. CallOnce'
    <3>1. \A k \in DOMAIN log[sv] : log[sv][k].id # id
      BY <1>10 DEF Executed
    <3>2. QED
      BY <1>5, <3>1 DEF IInv, CallInv, CallOnce
  <2>3. CallKind'
    <3>1. \A s \in Servers : \A x \in queue[s] : x.id # id
      BY <1>10 DEF Waiting
    <3>2. copying # None => copying.id # id
      BY <1>10 DEF BeingCopied
    <3>3. \A b \in Ips \ {c} : call[b] # None => call[b].id # id
      BY <1>2 DEF IInv, Types, CallT
    <3>4. QED
      BY <1>3, <1>4, <1>5, <3>1, <3>2, <3>3 DEF IInv, CallInv, CallKind
  <2>4. CallAnswered'
    BY <1>5, <1>10 DEF IInv, CallInv, CallAnswered
  <2>5. QED
    BY <2>1, <2>2, <2>3, <2>4 DEF CallInv
<1>13. QED
  BY <1>6, <1>7, <1>8, <1>11, <1>12 DEF IInv, Types

LEMMA ConnectInv ==
  ASSUME IInv, NEW c \in Ips, Connect(c)
  PROVE  IInv'
<1>1. PICK a \in Wanted(c) :
        \/ \E sv \in Servers : Send(c, a, sv) /\ Counts
        \/ /\ Counts /\ alive' = [alive EXCEPT ![c] = FALSE]
           /\ UNCHANGED <<call, queue, ids>>
  BY CountSteps, HostsAssumption DEF Connect, IInv, Types
<1>2. a \in Requests
  BY WantedType DEF IInv, Types, ClientT
<1>3. UNCHANGED <<serverVars, up, copying, net, answers, fh, initialized, result, log>>
  BY DEF Connect
<1>4. CASE \E sv \in Servers : Send(c, a, sv) /\ Counts
  BY <1>2, <1>3, <1>4, SendInv DEF Connect
<1>5. CASE /\ Counts /\ alive' = [alive EXCEPT ![c] = FALSE]
           /\ UNCHANGED <<call, queue, ids>>
  <2>1. ServerInv' /\ Routes' /\ CallInv' /\ OrderInv'
    BY <1>3, <1>5, ServerSame, ForgetsInv DEF IInv, Forgets
  <2>2. CopyingT' /\ CountT'
    BY <1>3, <1>5, BoundsAssumption DEF IInv, Types, CopyingT, Counts, Copying, CountT
  <2>3. Types'
    BY <1>3, <1>5, <2>2 DEF IInv, Types, QueueT, LogT, NetT, DeadT, OnlyPrimaryCopies, CallT, ClientT,
                           Ids, serverVars
  <2>4. QED
    BY <2>1, <2>3 DEF IInv
<1>6. QED
  BY <1>1, <1>4, <1>5

-----------------------------------------------------------------------------
(* Crashes, restarts and restorations. *)

LEMMA BootInv ==
  ASSUME IInv, NEW sv \in Servers, Boot(sv)
  PROVE  IInv'
<1>1. /\ up' = [up EXCEPT ![sv] = TRUE]
      /\ UNCHANGED <<serverVars, queue, copying, net, answers, clientVars, log, faults, since>>
  BY DEF Boot
<1>2. ServerInv' /\ Routes' /\ CallInv' /\ OrderInv'
  BY <1>1, ServerSame, ForgetsInv DEF IInv, Forgets, clientVars
<1>3. \A s \in Servers : up'[s] \in BOOLEAN /\ (up[s] => up'[s])
  BY <1>1 DEF IInv, Types, CountT
<1>4. CountT' /\ CopyingT' /\ DeadT'
  BY <1>1, <1>3, HostsAssumption DEF IInv, Types, CountT, CopyingT, DeadT, serverVars, clientVars
<1>5. Types'
  BY <1>1, <1>4 DEF IInv, Types, QueueT, LogT, NetT, OnlyPrimaryCopies, CallT, ClientT, Ids,
                   clientVars
<1>6. QED
  BY <1>2, <1>5 DEF IInv

LEMMA CrashInv ==
  ASSUME IInv, NEW sv \in Servers, Crash(sv)
  PROVE  IInv'
<1>1. /\ Restart(sv) /\ up' = [up EXCEPT ![sv] = FALSE] /\ queue' = [queue EXCEPT ![sv] = {}]
      /\ net' = IF sv = host2 THEN {} ELSE net
      /\ Fault /\ UNCHANGED <<answers, clientVars, log, since>>
  BY DEF Crash
<1>2. /\ copying' # None => /\ sv # host1 /\ copying # None
                            /\ \/ copying' = copying
                               \/ copying' = [copying EXCEPT !.answer = "never"]
  BY DEF Crash
<1>3. /\ copying' # None => /\ copying' \in Copying /\ copying'.id = copying.id
                            /\ copying'.arg = copying.arg /\ copying'.sends = copying.sends
                            /\ copying'.answer = "here" => copying.answer = "here"
  BY <1>2 DEF IInv, Types, CopyingT, Copying
<1>4. Counts
  BY <1>1, CountSteps DEF IInv, Types
<1>5. ServerInv'
  BY <1>1, RestartInv DEF IInv
<1>6. /\ \A s \in Servers : queue'[s] \subseteq queue[s]
      /\ queue' \in [Servers -> SUBSET Sent]
  BY <1>1 DEF IInv, Types, QueueT
<1>7. Routes' /\ CallInv' /\ OrderInv'
  BY <1>1, <1>2, <1>3, <1>6, ForgetsInv DEF IInv, Forgets, clientVars
<1>8. CountT' /\ CopyingT'
  <2>1. CountT'
    BY <1>1, <1>4 DEF IInv, Types, CountT, Counts, clientVars
  <2>2. copying' # None => up'[host1]
    BY <1>1, <1>2, HostsAssumption DEF IInv, Types, CountT, CopyingT
  <2>3. copying' # None => copying'.sends <= faults' + 1
    BY <1>2, <1>3, <1>4, BoundsAssumption DEF IInv, Types, CountT, Counts, CopyingT, Copying
  <2>4. QED
    BY <1>2, <1>3, <2>1, <2>2, <2>3 DEF IInv, Types, CopyingT
<1>9. DeadT'
  <2>1. fdt' = [fdt EXCEPT ![sv] = [fd \in Fds |-> None]]
    BY <1>1 DEF Restart, Dies
  <2>2. QED
    BY <1>1, <2>1 DEF IInv, Types, DeadT, CountT, ServerInv, ServerTypeOK
<1>10. QueueT' /\ NetT' /\ OnlyPrimaryCopies'
  BY <1>1, <1>6, HostsAssumption DEF IInv, Types, QueueT, NetT, OnlyPrimaryCopies
<1>11. LogT' /\ CallT' /\ ClientT'
  BY <1>1 DEF IInv, Types, LogT, CallT, ClientT, Ids, clientVars
<1>12. QED
  BY <1>5, <1>7, <1>8, <1>9, <1>10, <1>11 DEF IInv, Types

\* The copy of a tree is a tree of files.
LEMMA RestoredTree ==
  ASSUME ServerInv, NEW from \in Servers, NEW to \in Servers, Restore(from, to),
         \A fd \in Fds : fdt[to][fd] = None
  PROVE  ServerInv'
<1> DEFINE e == CHOOSE copy \in CopiesOf(from) : TRUE
           Original(i) == {p \in AnyPath : e[p] = i}
           n == [i \in Inodes |-> IF Original(i) = {} THEN None
                                  ELSE File(from, CHOOSE p \in Original(i) : TRUE)]
<1>1. ent' = [ent EXCEPT ![to] = e] /\ node' = [node EXCEPT ![to] = n]
  BY DEF Restore
<1>2. UNCHANGED <<fdt, lock, hung, reply>>
  BY DEF Restore
<1>3. e \in CopiesOf(from)
  BY DEF Restore
<1>4. e \in [AnyPath -> Inodes \cup {None}] /\ \A p \in AnyPath : e[p] # None => Exists(from, p)
  BY <1>3 DEF CopiesOf
<1>5. \A i \in Inodes : Original(i) # {} => n[i] \in Node
  <2>1. TAKE i \in Inodes
  <2>2. HAVE Original(i) # {}
  <2>3. PICK p \in AnyPath : p = (CHOOSE q \in Original(i) : TRUE) /\ e[p] = i
    BY <2>2
  <2>4. Exists(from, p)
    BY <1>4, <2>3, NoneAssumption
  <2>5. File(from, p) \in Node
    BY <2>4, BackedFiles
  <2>6. QED
    BY <2>2, <2>3, <2>5
<1>6. \A p \in AnyPath : e[p] # None => n[e[p]] # None
  <2>1. \A p \in AnyPath : e[p] # None => e[p] \in Inodes /\ Original(e[p]) # {}
    BY <1>4
  <2>2. QED
    BY <1>5, <2>1, NoneAssumption
<1>7. n \in [Inodes -> Node \cup {None}]
  BY <1>5
<1> HIDE DEF e, n
<1>8. ServerTypeOK'
  BY <1>1, <1>2, <1>4, <1>7 DEF ServerInv, ServerTypeOK
<1>9. Backed(ent', fdt', node')
  BY <1>1, <1>2, <1>6 DEF ServerInv, ServerTypeOK, Backed
<1>10. QED
  BY <1>8, <1>9 DEF ServerInv

LEMMA RestoreInv ==
  ASSUME IInv, NEW from \in Servers, NEW to \in Servers, Restore(from, to)
  PROVE  IInv'
<1>1. /\ since' = faults /\ ~up[to]
      /\ UNCHANGED <<fdt, up, queue, copying, net, answers, clientVars, log, faults>>
  BY DEF Restore
<1>2. ServerInv'
  BY <1>1, RestoredTree DEF IInv, Types, DeadT
<1>3. Routes' /\ CallInv' /\ OrderInv'
  BY <1>1, ForgetsInv DEF IInv, Forgets, clientVars
<1>4. CountT' /\ CopyingT' /\ DeadT'
  BY <1>1 DEF IInv, Types, CountT, CopyingT, DeadT, clientVars
<1>5. Types'
  BY <1>1, <1>4 DEF IInv, Types, QueueT, LogT, NetT, OnlyPrimaryCopies, CallT, ClientT, Ids,
                   clientVars
<1>6. QED
  BY <1>2, <1>3, <1>5 DEF IInv

-----------------------------------------------------------------------------
(* Executions. *)

\* What executing r at sv does to what is known of the clients' calls, when r is
\* at most the call of a client that was sent to sv, and is not executed yet.
LEMMA ExecutionOfCall ==
  ASSUME ServerInv, LogT, LogT', CallT, CallOnce, CallAnswered,
         NEW sv \in Servers, NEW r, r.id \in Nat, r.arg \in Requests, NEW copied \in BOOLEAN,
         Executes(sv, r, copied), UNCHANGED call,
         \A c \in Ips : call[c] # None /\ call[c].id = r.id /\ call[c].to = sv =>
           r.id \notin Executed(sv),
         \/ UNCHANGED answers
         \/ /\ Answered(sv, r)
            /\ \A c \in Ips : call[c] # None /\ call[c].id = r.id =>
                 call[c].to = sv /\ r.arg.op = call[c].arg.op
  PROVE  CallOnce' /\ CallAnswered'
<1> DEFINE e == Outcome(sv, r, copied)
           n == Len(log[sv]) + 1
<1>1. Grown(sv, e) /\ e.id = r.id /\ e.ret = IF hung'[sv] THEN "HANG" ELSE reply'[sv].ret
  BY ExecutesGrows DEF Outcome
<1> HIDE DEF e
<1>2. /\ DOMAIN log'[sv] = 1 .. n /\ DOMAIN log[sv] = 1 .. n - 1 /\ n \in Nat /\ n # 0
      /\ \A k \in 1 .. n - 1 : log'[sv][k] = log[sv][k]
      /\ log'[sv][n] = e /\ \A s \in Servers \ {sv} : log'[s] = log[s]
  BY <1>1, GrownExecuted DEF Grown
<1> HIDE DEF n
<1>3. \A k \in 1 .. n - 1 : log[sv][k].id \in Executed(sv)
  BY <1>2 DEF Executed
<1>4. CallOnce'
  <2> SUFFICES ASSUME NEW c \in Ips, call[c] # None,
                      NEW j \in DOMAIN log'[call[c].to], NEW k \in DOMAIN log'[call[c].to],
                      log'[call[c].to][j].id = call[c].id, log'[call[c].to][k].id = call[c].id
               PROVE  j = k
    BY DEF CallOnce
  <2>1. CASE call[c].to # sv
    BY <1>2, <2>1 DEF CallT, CallOnce
  <2>2. CASE call[c].to = sv /\ call[c].id # r.id
    <3>1. j \in 1 .. n /\ k \in 1 .. n /\ log'[sv][j].id = call[c].id /\ log'[sv][k].id = call[c].id
      BY <1>2, <2>2
    <3>2. j \in 1 .. n - 1 /\ k \in 1 .. n - 1
      BY <1>1, <1>2, <2>2, <3>1
    <3>3. /\ j \in DOMAIN log[sv] /\ k \in DOMAIN log[sv]
          /\ log[sv][j].id = call[c].id /\ log[sv][k].id = call[c].id
      BY <1>2, <3>1, <3>2
    <3>4. QED
      BY <2>2, <3>3 DEF CallOnce
  <2>3. CASE call[c].to = sv /\ call[c].id = r.id
    <3>1. j \in 1 .. n /\ k \in 1 .. n /\ log'[sv][j].id = r.id /\ log'[sv][k].id = r.id
      BY <1>2, <2>3
    <3>2. r.id \notin Executed(sv)
      BY <2>3
    <3>3. j \notin 1 .. n - 1 /\ k \notin 1 .. n - 1
      BY <1>2, <1>3, <3>1, <3>2
    <3>4. QED
      BY <1>2, <3>1, <3>3
  <2>4. QED
    BY <2>1, <2>2, <2>3
<1>5. CallAnswered'
  <2> SUFFICES ASSUME NEW c \in Ips, call[c] # None, NEW x \in answers', x.id = call[c].id
               PROVE  /\ \E k \in DOMAIN log'[call[c].to] :
                           log'[call[c].to][k].id = x.id /\ log'[call[c].to][k].ret = x.ret
                      /\ call[c].arg.op = "open" /\ x.ret = "OK" => x.val \in Fds
    BY DEF CallAnswered
  <2>1. CASE x \in answers
    <3>1. PICK k \in DOMAIN log[call[c].to] :
            log[call[c].to][k].id = x.id /\ log[call[c].to][k].ret = x.ret
      BY <2>1 DEF CallAnswered
    <3>2. k \in DOMAIN log'[call[c].to] /\ log'[call[c].to][k] = log[call[c].to][k]
      BY <1>2, <3>1, SMTT(30) DEF CallT
    <3>3. QED
      BY <2>1, <3>1, <3>2 DEF CallAnswered
  <2>2. CASE x \notin answers
    <3>1. ~hung'[sv] /\ x = [id |-> r.id, ret |-> reply'[sv].ret, val |-> reply'[sv].val]
      BY <2>2 DEF Answered
    <3>2. call[c].to = sv /\ r.arg.op = call[c].arg.op
      BY <2>2, <3>1
    <3>3. n \in DOMAIN log'[sv] /\ log'[sv][n].id = x.id /\ log'[sv][n].ret = x.ret
      BY <1>1, <1>2, <3>1
    <3>4. r.arg.op = "open" /\ x.ret = "OK" => x.val \in Fds
      BY <3>1, RequestKinds, OpenAnswers DEF Executes, compute_6, OpensFile
    <3>5. QED
      BY <3>2, <3>3, <3>4
  <2>3. QED
    BY <2>1, <2>2
<1>6. QED
  BY <1>4, <1>5

\* The primary takes an update and sends the first copy of it.
LEMMA CopiesInv ==
  ASSUME IInv, NEW sv \in Servers, NEW r \in queue[sv],
         sv = host1 => copying = None,
         queue' = [queue EXCEPT ![sv] = @ \ {r}], Forwards(r.arg), up[sv],
         copying' = [id |-> r.id, arg |-> r.arg, sends |-> 1, answer |-> "awaited"],
         net' = net \cup {[id |-> r.id, n |-> 1, arg |-> CopyOf(r.arg)]},
         UNCHANGED <<serverVars, answers, log, faults, since, up, clientVars>>
  PROVE  IInv'
<1>1. sv = host1 /\ sv # host2 /\ host1 \in Servers /\ host2 \in Servers /\ copying = None
  BY HostsAssumption DEF IInv, Types, OnlyPrimaryCopies
<1>2. r \in Sent /\ queue' \in [Servers -> SUBSET Sent]
  BY DEF IInv, Types, QueueT
<1>3. /\ queue'[host1] = queue[host1] \ {r}
      /\ \A s \in Servers \ {host1} : queue'[s] = queue[s]
  BY <1>1 DEF IInv, Types, QueueT
<1>4. ServerInv'
  BY ServerSame DEF IInv
<1>5. CopyingT' /\ NetT'
  <2>1. 1 \in 1 .. MaxFaults + 1 /\ faults \in Nat
    BY BoundsAssumption DEF IInv, Types, CountT
  <2>2. copying' \in Copying /\ copying'.arg = r.arg /\ copying'.sends = 1
    BY <1>2, <2>1 DEF Copying, Sent
  <2>3. CopyingT'
    BY <1>1, <2>1, <2>2 DEF CopyingT
  <2> DEFINE d == [id |-> r.id, n |-> 1, arg |-> CopyOf(r.arg)]
  <2>4. /\ d.id \in 1 .. MaxCalls /\ d.n \in 1 .. MaxFaults + 1
        /\ d.arg \in ReplicatedRequests /\ Secondary(d.arg.server_info)
    BY <1>2, <2>1, CopyType DEF Sent
  <2> HIDE DEF d
  <2>5. NetT'
    BY <2>4 DEF NetT, IInv, Types, d
  <2>6. QED
    BY <2>3, <2>5
<1>6. Types'
  BY <1>1, <1>2, <1>3, <1>5
     DEF IInv, Types, QueueT, LogT, CountT, CallT, ClientT, DeadT, OnlyPrimaryCopies, Ids,
         serverVars, clientVars
<1>7. /\ Waiting(host1)' = Waiting(host1) \ {r.id} /\ r.id \in Waiting(host1)
      /\ \A s \in Servers \ {host1} : Waiting(s)' = Waiting(s)
      /\ BeingCopied' \subseteq {r.id} /\ UnderWay' = UnderWay \cup {r.id}
      /\ \A s \in Servers : Executed(s)' = Executed(s)
  <2>1. Waiting(host1)' = Waiting(host1) \ {r.id}
    BY <1>1, <1>3 DEF Waiting, IInv, Routes, OneRequestPerId
  <2>2. r.id \in Waiting(host1) /\ \A s \in Servers \ {host1} : Waiting(s)' = Waiting(s)
    BY <1>1, <1>3 DEF Waiting
  <2>3. BeingCopied' \subseteq {r.id}
    BY DEF BeingCopied
  <2>4. UnderWay' = UnderWay \cup {r.id}
    <3> DEFINE d == [id |-> r.id, n |-> 1, arg |-> CopyOf(r.arg)]
    <3>1. net' = net \cup {d} /\ d.id = r.id
      OBVIOUS
    <3> HIDE DEF d
    <3>2. QED
      BY <3>1 DEF UnderWay
  <2>5. QED
    BY <2>1, <2>2, <2>3, <2>4, PlacesSame
<1>8. Routes'
  <2>1. IdsKnown'
    BY <1>1, <1>7 DEF IInv, Routes, IdsKnown, Ids, clientVars
  <2>2. OneRequestPerId'
    BY <1>3 DEF IInv, Routes, OneRequestPerId
  <2>3. OnePlace'
    BY <1>1, <1>7 DEF IInv, Routes, OnePlace
  <2>4. QED
    BY <2>1, <2>2, <2>3 DEF Routes
<1>9. CallInv'
  <2>1. call' = call
    BY DEF clientVars
  <2>2. CallRouted'
    BY <1>1, <1>7, <2>1 DEF IInv, CallInv, CallRouted
  <2>3. CallOnce' /\ CallAnswered'
    BY <2>1 DEF IInv, CallInv, CallOnce, CallAnswered
  <2>4. CallKind'
    BY <1>1, <1>3, <2>1 DEF IInv, CallInv, CallKind
  <2>5. QED
    BY <2>2, <2>3, <2>4 DEF CallInv
<1>10. OrderInv'
  <2>1. copying'.id \notin Executed(host2) /\ copying'.answer # "here"
    BY <1>7 DEF IInv, Routes, OnePlace
  <2>2. QED
    BY <2>1, LogsStay DEF IInv
<1>11. QED
  BY <1>4, <1>6, <1>8, <1>9, <1>10 DEF IInv

\* A server takes a request and executes it at once.
LEMMA ServesInv ==
  ASSUME IInv, NEW sv \in Servers, NEW r \in queue[sv],
         sv = host1 => copying = None,
         queue' = [queue EXCEPT ![sv] = @ \ {r}], up[sv],
         Executes(sv, r, FALSE), Answered(sv, r), Counts,
         UNCHANGED <<copying, net, up, clientVars>>
  PROVE  IInv'
<1> DEFINE e == Outcome(sv, r, FALSE)
<1>1. sv \in {host1, host2} /\ host1 \in Servers /\ host2 \in Servers /\ host1 # host2
  BY HostsAssumption
<1>2. r \in Sent /\ r.id \in Nat /\ r.arg \in Requests /\ queue' \in [Servers -> SUBSET Sent]
  BY DEF IInv, Types, QueueT, Sent
<1>3. /\ queue'[sv] = queue[sv] \ {r}
      /\ \A s \in Servers \ {sv} : queue'[s] = queue[s]
  BY DEF IInv, Types, QueueT
<1>4. ServerInv' /\ LogT' /\ OnlyHere(sv) /\ Grown(sv, e) /\ e.id = r.id /\ ~e.copied
  BY <1>2, ExecutesGrows DEF IInv, Types, Outcome
<1> HIDE DEF e
<1>5. Types'
  <2>1. CopyingT' /\ CountT'
    BY BoundsAssumption DEF IInv, Types, CopyingT, Counts, Copying, CountT, clientVars
  <2>2. DeadT'
    BY <1>4 DEF IInv, Types, DeadT, OnlyHere, FdtHere
  <2>3. OnlyPrimaryCopies'
    BY <1>1, <1>3 DEF IInv, Types, OnlyPrimaryCopies
  <2>4. QED
    BY <1>2, <1>4, <2>1, <2>2, <2>3 DEF IInv, Types, QueueT, CallT, ClientT, NetT, Ids, clientVars
<1>6. /\ Waiting(sv)' = Waiting(sv) \ {r.id} /\ r.id \in Waiting(sv)
      /\ \A s \in Servers \ {sv} : Waiting(s)' = Waiting(s) /\ Executed(s)' = Executed(s)
      /\ Executed(sv)' = Executed(sv) \cup {r.id}
      /\ BeingCopied' = BeingCopied /\ UnderWay' = UnderWay
  <2>1. Waiting(sv)' = Waiting(sv) \ {r.id}
    BY <1>3 DEF Waiting, IInv, Routes, OneRequestPerId
  <2>2. r.id \in Waiting(sv) /\ \A s \in Servers \ {sv} : Waiting(s)' = Waiting(s)
    BY <1>3 DEF Waiting
  <2>3. /\ Executed(sv)' = Executed(sv) \cup {r.id}
        /\ \A s \in Servers \ {sv} : Executed(s)' = Executed(s)
    BY <1>4, GrownExecuted DEF IInv, Types
  <2>4. QED
    BY <2>1, <2>2, <2>3, PlacesSame
<1>7. Routes'
  <2>1. {x.id : x \in answers'} \subseteq {x.id : x \in answers} \cup {r.id}
    BY DEF Answered
  <2>2. IdsKnown'
    BY <1>6, <2>1 DEF IInv, Routes, IdsKnown, Ids, clientVars
  <2>3. OneRequestPerId'
    BY <1>3 DEF IInv, Routes, OneRequestPerId
  <2>4. OnePlace'
    <3>1. CASE sv = host1
      BY <1>1, <1>6, <3>1 DEF IInv, Routes, OnePlace, BeingCopied
    <3>2. CASE sv = host2
      BY <1>1, <1>6, <3>2 DEF IInv, Routes, OnePlace
    <3>3. QED
      BY <1>1, <3>1, <3>2
  <2>5. QED
    BY <2>2, <2>3, <2>4 DEF Routes
<1>8. CallInv'
  <2>1. call' = call
    BY DEF clientVars
  <2>2. CallRouted'
    BY <1>1, <1>6, <2>1 DEF IInv, CallInv, CallRouted
  <2>3. ASSUME NEW c \in Ips, call[c] # None, call[c].id = r.id
        PROVE  call[c].to = sv /\ r.id \notin Executed(sv) /\ r.arg.op = call[c].arg.op
    <3>1. call[c].to = sv
      <4>1. call[c].to \in {host1, host2}
        BY <2>3, HostsAssumption DEF IInv, Types, CallT
      <4>2. /\ call[c].to = host1 => call[c].id \notin Waiting(host2)
            /\ call[c].to = host2 => call[c].id \notin Waiting(host1)
        BY <2>3 DEF IInv, CallInv, CallRouted
      <4>3. QED
        BY <1>1, <1>6, <2>3, <4>1, <4>2
    <3>2. r.id \notin Executed(sv)
      BY <1>1, <1>6 DEF IInv, Routes, OnePlace
    <3>3. r.arg.op = call[c].arg.op
      BY <2>3 DEF IInv, CallInv, CallKind
    <3>4. QED
      BY <3>1, <3>2, <3>3
  <2>4. CallOnce' /\ CallAnswered'
    <3>1. CallT /\ LogT /\ CallOnce /\ CallAnswered /\ ServerInv
      BY DEF IInv, Types, CallInv
    <3>2. FALSE \in BOOLEAN
      OBVIOUS
    <3>3. /\ \A c \in Ips : call[c] # None /\ call[c].id = r.id /\ call[c].to = sv =>
               r.id \notin Executed(sv)
          /\ \A c \in Ips : call[c] # None /\ call[c].id = r.id =>
               call[c].to = sv /\ r.arg.op = call[c].arg.op
      BY <2>3
    <3>4. QED
      BY <1>2, <1>4, <2>1, <3>1, <3>2, <3>3, ExecutionOfCall
  <2>5. CallKind'
    BY <1>1, <1>3, <2>1 DEF IInv, CallInv, CallKind
  <2>6. QED
    BY <2>2, <2>4, <2>5 DEF CallInv
<1>9. OrderInv'
  <2>1. CASE sv = host1
    BY <1>4, <2>1, PrimaryGrows DEF IInv, Types
  <2>2. CASE sv = host2
    BY <1>4, <2>2, SecondaryGrows DEF IInv, Types
  <2>3. QED
    BY <1>1, <2>1, <2>2
<1>10. QED
  BY <1>4, <1>5, <1>7, <1>8, <1>9 DEF IInv

LEMMA ServeInv ==
  ASSUME IInv, NEW sv \in Servers, Serve(sv)
  PROVE  IInv'
<1>1. PICK r \in queue[sv] :
        /\ queue' = [queue EXCEPT ![sv] = @ \ {r}]
        /\ \/ /\ Forwards(r.arg) /\ up[host2]
              /\ copying' = [id |-> r.id, arg |-> r.arg, sends |-> 1, answer |-> "awaited"]
              /\ net' = net \cup {[id |-> r.id, n |-> 1, arg |-> CopyOf(r.arg)]}
              /\ UNCHANGED <<serverVars, answers, log, faults, since>>
           \/ /\ Executes(sv, r, FALSE)
              /\ Answered(sv, r)
              /\ IF Forwards(r.arg) THEN Missed({host2}) ELSE UNCHANGED <<faults, since>>
              /\ UNCHANGED <<copying, net>>
  BY DEF Serve
<1>2. up[sv] /\ (sv = host1 => copying = None) /\ UNCHANGED <<up, clientVars>>
  BY DEF Serve
<1>3. CASE /\ Forwards(r.arg)
           /\ copying' = [id |-> r.id, arg |-> r.arg, sends |-> 1, answer |-> "awaited"]
           /\ net' = net \cup {[id |-> r.id, n |-> 1, arg |-> CopyOf(r.arg)]}
           /\ UNCHANGED <<serverVars, answers, log, faults, since>>
  BY <1>1, <1>2, <1>3, CopiesInv
<1>4. CASE /\ Executes(sv, r, FALSE) /\ Answered(sv, r)
           /\ IF Forwards(r.arg) THEN Missed({host2}) ELSE UNCHANGED <<faults, since>>
           /\ UNCHANGED <<copying, net>>
  <2>1. Counts
    BY <1>4, CountSteps DEF IInv, Types
  <2>2. QED
    BY <1>1, <1>2, <1>4, <2>1, ServesInv
<1>5. QED
  BY <1>1, <1>3, <1>4

\* The secondary executes a copy.
LEMMA DeliverInv ==
  ASSUME IInv, Deliver
  PROVE  IInv'
<1>1. PICK d \in net :
        /\ net' = net \ {d}
        /\ Executes(host2, d, FALSE)
        /\ copying' = IF copying # None /\ copying.id = d.id /\ ~hung'[host2]
                      THEN [copying EXCEPT !.answer = "here"]
                      ELSE copying
  BY DEF Deliver
<1>2. up[host2] /\ UNCHANGED <<up, queue, answers, clientVars, faults, since>>
  BY DEF Deliver
<1>3. host1 \in Servers /\ host2 \in Servers /\ host1 # host2 /\ FALSE \in BOOLEAN
  BY HostsAssumption
<1>4. d.id \in Nat /\ d.id \in UnderWay /\ d.arg \in Requests
  BY <1>1 DEF IInv, Types, NetT, UnderWay, Requests
<1>5. /\ ServerInv' /\ LogT' /\ OnlyHere(host2)
      /\ Grown(host2, Outcome(host2, d, FALSE)) /\ Outcome(host2, d, FALSE).id = d.id
  BY <1>1, <1>3, <1>4, ExecutesGrows DEF IInv, Types, Outcome
<1>6. copying # None => copying \in Copying
  BY DEF IInv, Types, CopyingT
<1>7. \/ UNCHANGED copying
      \/ /\ copying # None /\ copying.id = d.id /\ copying' = [copying EXCEPT !.answer = "here"]
         /\ copying' \in Copying /\ copying'.id = copying.id /\ copying'.arg = copying.arg
         /\ copying'.sends = copying.sends
  <2>1. CASE copying # None /\ copying.id = d.id /\ ~hung'[host2]
    <3>1. copying' = [copying EXCEPT !.answer = "here"]
      BY <1>1, <2>1
    <3>2. /\ copying' \in Copying /\ copying'.id = copying.id /\ copying'.arg = copying.arg
          /\ copying'.sends = copying.sends
      BY <1>6, <2>1, <3>1 DEF Copying
    <3>3. QED
      BY <2>1, <3>1, <3>2
  <2>2. CASE ~(copying # None /\ copying.id = d.id /\ ~hung'[host2])
    BY <1>1, <2>2
  <2>3. QED
    BY <2>1, <2>2
<1>8. copying' # None => /\ copying # None /\ copying' \in Copying
                         /\ copying'.id = copying.id /\ copying'.arg = copying.arg
                         /\ copying'.sends = copying.sends
  BY <1>6, <1>7
<1>9. Types'
  <2>1. CopyingT'
    BY <1>2, <1>8 DEF IInv, Types, CopyingT
  <2>2. NetT'
    BY <1>1 DEF IInv, Types, NetT
  <2>3. DeadT'
    BY <1>2, <1>5 DEF IInv, Types, DeadT, OnlyHere, FdtHere
  <2>4. QED
    BY <1>2, <1>5, <2>1, <2>2, <2>3
       DEF IInv, Types, QueueT, CountT, CallT, ClientT, OnlyPrimaryCopies, Ids, clientVars
<1>10. /\ Executed(host2)' = Executed(host2) \cup {d.id} /\ Executed(host1)' = Executed(host1)
       /\ \A s \in Servers : Waiting(s)' = Waiting(s)
       /\ BeingCopied' \subseteq BeingCopied /\ UnderWay' \subseteq UnderWay
  <2>1. Executed(host2)' = Executed(host2) \cup {d.id} /\ Executed(host1)' = Executed(host1)
    BY <1>3, <1>5, GrownExecuted DEF IInv, Types
  <2>2. BeingCopied' \subseteq BeingCopied
    BY <1>8 DEF BeingCopied
  <2>3. UnderWay' \subseteq UnderWay
    BY <1>1 DEF UnderWay
  <2>4. QED
    BY <1>2, <2>1, <2>2, <2>3, PlacesSame
<1>11. Routes'
  <2>1. IdsKnown'
    BY <1>2, <1>4, <1>10, HostsAssumption DEF IInv, Routes, IdsKnown, Ids, clientVars
  <2>2. OneRequestPerId'
    BY <1>2 DEF IInv, Routes, OneRequestPerId
  <2>3. OnePlace'
    BY <1>3, <1>4, <1>10 DEF IInv, Routes, OnePlace
  <2>4. QED
    BY <2>1, <2>2, <2>3 DEF Routes
<1>12. CallInv'
  <2>1. call' = call /\ UNCHANGED answers
    BY <1>2 DEF clientVars
  <2>2. CallRouted'
    BY <1>3, <1>10, <2>1 DEF IInv, CallInv, CallRouted
  <2>3. \A c \in Ips : call[c] # None /\ call[c].id = d.id /\ call[c].to = host2 =>
          d.id \notin Executed(host2)
    BY <1>4 DEF IInv, CallInv, CallRouted
  <2>4. CallT /\ LogT /\ CallOnce /\ CallAnswered /\ ServerInv
    BY DEF IInv, Types, CallInv
  <2>5. CallOnce' /\ CallAnswered'
    BY <1>1, <1>3, <1>4, <1>5, <2>1, <2>3, <2>4, ExecutionOfCall
  <2>6. CallKind'
    BY <1>2, <1>8, <2>1 DEF IInv, CallInv, CallKind
  <2>7. QED
    BY <2>2, <2>5, <2>6 DEF CallInv
<1>13. OrderInv'
  BY <1>5, <1>7, SecondaryGrows DEF IInv, Types
<1>14. QED
  BY <1>5, <1>9, <1>11, <1>12, <1>13 DEF IInv

\* The primary executes the update whose copy it waited for.
LEMMA FinishInv ==
  ASSUME IInv, Finish
  PROVE  IInv'
<1>1. PICK copied \in BOOLEAN :
        /\ Executes(host1, copying, copied)
        /\ copied => copying.answer = "here"
        /\ UNCHANGED faults \/ Expires(CopyPending)
  BY DEF Finish
<1>2. /\ copying # None /\ copying' = None /\ Answered(host1, copying)
      /\ UNCHANGED <<up, queue, net, clientVars, since>>
  BY DEF Finish
<1>3. host1 \in Servers /\ host2 \in Servers /\ host1 # host2
  BY HostsAssumption
<1>4. copying.id \in Nat /\ copying.arg \in Requests /\ BeingCopied = {copying.id} /\ up[host1]
  BY <1>2 DEF IInv, Types, CopyingT, Copying, BeingCopied
<1> DEFINE e == Outcome(host1, copying, copied)
<1>5. /\ ServerInv' /\ LogT' /\ OnlyHere(host1)
      /\ Grown(host1, e) /\ e.id = copying.id /\ e.copied = copied
  BY <1>1, <1>3, <1>4, ExecutesGrows DEF IInv, Types, Outcome
<1> HIDE DEF e
<1>6. Counts
  BY <1>1, <1>2, CountSteps DEF IInv, Types
<1>7. Types'
  <2>1. CountT' /\ CopyingT'
    BY <1>2, <1>6 DEF IInv, Types, CountT, CopyingT, Counts, clientVars
  <2>2. DeadT'
    BY <1>2, <1>4, <1>5 DEF IInv, Types, DeadT, OnlyHere, FdtHere
  <2>3. QED
    BY <1>2, <1>5, <2>1, <2>2
       DEF IInv, Types, QueueT, CallT, ClientT, NetT, OnlyPrimaryCopies, Ids, clientVars
<1>8. /\ Executed(host1)' = Executed(host1) \cup {copying.id} /\ Executed(host2)' = Executed(host2)
      /\ \A s \in Servers : Waiting(s)' = Waiting(s)
      /\ BeingCopied' = {} /\ UnderWay' = UnderWay
  <2>1. /\ Executed(host1)' = Executed(host1) \cup {copying.id}
        /\ Executed(host2)' = Executed(host2)
    BY <1>3, <1>5, GrownExecuted DEF IInv, Types
  <2>2. QED
    BY <1>2, <2>1, PlacesSame DEF BeingCopied
<1>9. Routes'
  <2>1. {x.id : x \in answers'} \subseteq {x.id : x \in answers} \cup {copying.id}
    BY <1>2 DEF Answered
  <2>2. IdsKnown'
    BY <1>2, <1>4, <1>8, <2>1, HostsAssumption DEF IInv, Routes, IdsKnown, Ids, clientVars
  <2>3. OneRequestPerId'
    BY <1>2 DEF IInv, Routes, OneRequestPerId
  <2>4. OnePlace'
    BY <1>3, <1>4, <1>8 DEF IInv, Routes, OnePlace
  <2>5. QED
    BY <2>2, <2>3, <2>4 DEF Routes
<1>10. CallInv'
  <2>1. call' = call
    BY <1>2 DEF clientVars
  <2>2. CallRouted'
    BY <1>3, <1>8, <2>1 DEF IInv, CallInv, CallRouted
  <2>3. copying.id \notin Executed(host1)
    BY <1>4 DEF IInv, Routes, OnePlace
  <2>4. ASSUME NEW c \in Ips, call[c] # None, call[c].id = copying.id
        PROVE  call[c].to = host1 /\ copying.arg.op = call[c].arg.op
    <3>1. call[c].to \in {host1, host2} /\ call[c].to # host2
      BY <1>4, <2>4, HostsAssumption DEF IInv, Types, CallT, CallInv, CallRouted
    <3>2. copying.arg.op = call[c].arg.op
      BY <1>2, <2>4 DEF IInv, CallInv, CallKind
    <3>3. QED
      BY <3>1, <3>2
  <2>5. \A c \in Ips : call[c] # None /\ call[c].id = copying.id =>
          call[c].to = host1 /\ copying.arg.op = call[c].arg.op
    BY <2>4
  <2>6. CallT /\ LogT /\ CallOnce /\ CallAnswered /\ ServerInv
    BY DEF IInv, Types, CallInv
  <2>7. CallOnce' /\ CallAnswered'
    BY <1>1, <1>2, <1>3, <1>4, <1>5, <2>1, <2>3, <2>5, <2>6, ExecutionOfCall
  <2>8. CallKind'
    BY <1>2, <2>1 DEF IInv, CallInv, CallKind
  <2>9. QED
    BY <2>2, <2>7, <2>8 DEF CallInv
<1>11. OrderInv'
  BY <1>1, <1>2, <1>5, PrimaryGrows DEF IInv, Types
<1>12. QED
  BY <1>5, <1>7, <1>9, <1>10, <1>11 DEF IInv

-----------------------------------------------------------------------------
(* The invariant of Replication. *)

LEMMA InitInv == ReplicationInit => IInv
<1> SUFFICES ASSUME ReplicationInit PROVE IInv
  OBVIOUS
<1>1. /\ fdt = [sv \in Servers |-> [fd \in Fds |-> None]]
      /\ lock = [sv \in Servers |-> [i \in Inodes |-> None]]
      /\ hung = [sv \in Servers |-> FALSE]
      /\ reply = [sv \in Servers |-> [arg |-> None, op |-> "none", ip |-> None,
                                      ret |-> "OK", val |-> None]]
      /\ NoRoot \/ RootMade
  BY DEF ReplicationInit
<1>2. ServerTypeOK /\ \A sv \in Servers, p \in AnyPath : ent[sv][p] # None => node[sv][ent[sv][p]] # None
  <2>1. CASE NoRoot
    BY <1>1, <2>1 DEF NoRoot, ServerTypeOK
  <2>2. CASE RootMade
    <3>1. PICK i \in Inodes :
           /\ ent = [sv \in Servers |-> [p \in AnyPath |-> IF p = Root THEN i ELSE None]]
           /\ node = [sv \in Servers |->
                [j \in Inodes |-> IF j = i THEN NewFile("dir", RootUid, FullMode) ELSE None]]
      BY <2>2 DEF RootMade, LowestOf
    <3>2. NewFile("dir", RootUid, FullMode) \in Node
      <4>1. "dir" \in Kinds /\ RootUid \in Uids /\ FullMode \in Mode
        BY DEF Kinds, Uids, FullMode, Mode, RWX
      <4>2. QED
        BY <4>1, NewFileType
    <3>3. QED
      BY <1>1, <3>1, <3>2, NoneAssumption DEF ServerTypeOK
  <2>3. QED
    BY <1>1, <2>1, <2>2
<1>3. ServerInv
  BY <1>1, <1>2 DEF ServerInv, Backed
<1>4. Types
  BY BoundsAssumption, HostsAssumption
     DEF ReplicationInit, Types, QueueT, LogT, CountT, CallT, ClientT, CopyingT, NetT, DeadT,
         OnlyPrimaryCopies
<1>5. /\ \A sv \in Servers : Waiting(sv) = {} /\ Executed(sv) = {}
      /\ BeingCopied = {} /\ UnderWay = {} /\ answers = {} /\ copying = None
      /\ \A sv \in Servers : queue[sv] = {} /\ log[sv] = <<>>
      /\ \A c \in Ips : call[c] = None
  BY DEF ReplicationInit, Waiting, Executed, BeingCopied, UnderWay
<1>6. Routes /\ CallInv
  BY <1>5, HostsAssumption
     DEF Routes, IdsKnown, OneRequestPerId, OnePlace, CallInv, CallRouted, CallOnce, CallKind,
         CallAnswered
<1>7. OrderInv
  BY <1>5, HostsAssumption DEF OrderInv, AckedInv, CopyingInv, Acked
<1>8. QED
  BY <1>3, <1>4, <1>6, <1>7 DEF IInv

LEMMA NextInv == IInv /\ [Next]_vars => IInv'
<1> SUFFICES ASSUME IInv, [Next]_vars PROVE IInv'
  OBVIOUS
<1>1. ASSUME NEW c \in Ips, ClientStep(c) PROVE IInv'
  BY <1>1, ConnectInv, ReturnInv, GiveUpInv DEF ClientStep
<1>2. ASSUME NEW sv \in Servers, Serve(sv) \/ Crash(sv) \/ Boot(sv) PROVE IInv'
  BY <1>2, ServeInv, CrashInv, BootInv
<1>3. ASSUME NEW from \in Servers, NEW to \in Servers, Restore(from, to) PROVE IInv'
  BY <1>3, RestoreInv
<1>4. CASE SendAgain \/ Deliver \/ Lose \/ Finish
  BY <1>4, SendAgainInv, DeliverInv, LoseInv, FinishInv
<1>5. CASE UNCHANGED vars
  <2>1. UNCHANGED <<serverVars, up, queue, copying, net, answers, clientVars, log, faults, since>>
    BY <1>5 DEF vars
  <2>2. ServerInv' /\ Routes' /\ CallInv' /\ OrderInv'
    BY <2>1, ServerSame, ForgetsInv DEF IInv, Forgets, clientVars
  <2>3. Types'
    BY <2>1 DEF IInv, Types, QueueT, LogT, CountT, CallT, ClientT, CopyingT, NetT, DeadT,
                OnlyPrimaryCopies, Ids, serverVars, clientVars
  <2>4. QED
    BY <2>2, <2>3 DEF IInv
<1>6. QED
  BY <1>1, <1>2, <1>3, <1>4, <1>5 DEF Next

LEMMA Invariant == Spec => []IInv
BY InitInv, NextInv, PTL DEF Spec

\* What clients heard or hear next: an outcome of a call that was made.
OutcomeT ==
  /\ \A r \in answers : r.ret \in Outcomes
  /\ \A c \in Ips : /\ result[c].id \in 0 .. ids /\ result[c].to \in Servers
                    /\ result[c].ret \in Outcomes /\ result[c].heard \in BOOLEAN

LEMMA ResultsOutcome ==
  ASSUME IInv, OutcomeT, NEW c \in Ips, call[c] # None, NEW ret \in Outcomes, NEW fd,
         NEW heard \in BOOLEAN, Results(c, ret, fd, heard), answers' \subseteq answers
  PROVE  OutcomeT'
<1>1. /\ call[c].id \in 1 .. ids /\ call[c].to \in Servers /\ ids \in Nat /\ ids' = ids
      /\ DOMAIN result = Ips
  BY DEF IInv, Types, CallT, CountT, ClientT, Ids, Results
<1>2. /\ result'[c] = [id |-> call[c].id, to |-> call[c].to, ret |-> ret, heard |-> heard]
      /\ \A b \in Ips \ {c} : result'[b] = result[b]
  BY <1>1 DEF Results
<1>3. QED
  BY <1>1, <1>2 DEF OutcomeT

\* An execution answers with the outcome in reply, and changes no result.
LEMMA AnsweredOutcome ==
  ASSUME OutcomeT, ServerInv', NEW sv \in Servers, NEW r,
         Answered(sv, r) \/ UNCHANGED answers, UNCHANGED clientVars
  PROVE  OutcomeT'
<1>1. reply'[sv].ret \in Outcomes
  BY DEF ServerInv, ServerTypeOK, Outcomes
<1>2. \A s \in answers' : s.ret \in Outcomes
  BY <1>1 DEF Answered, OutcomeT
<1>3. QED
  BY <1>2 DEF OutcomeT, clientVars

LEMMA NextOutcome == IInv /\ OutcomeT /\ [Next]_vars => OutcomeT'
<1> SUFFICES ASSUME IInv, OutcomeT, [Next]_vars PROVE OutcomeT'
  OBVIOUS
<1>1. IInv'
  BY NextInv
<1>2. ServerInv'
  BY <1>1 DEF IInv
<1>3. ASSUME NEW c \in Ips, Connect(c) PROVE OutcomeT'
  <2>1. UNCHANGED <<answers, result>> /\ ids' \in {ids, ids + 1} /\ ids \in Nat
    BY <1>3 DEF Connect, Send, IInv, Types, CountT
  <2>2. QED
    BY <2>1 DEF OutcomeT
<1>4. ASSUME NEW c \in Ips, Return(c) PROVE OutcomeT'
  <2>1. PICK r \in answers : Results(c, r.ret, r.val, TRUE) /\ answers' = answers \ {r}
    BY <1>4 DEF Return
  <2>2. r.ret \in Outcomes
    BY DEF OutcomeT
  <2>3. QED
    BY <1>4, <2>1, <2>2, ResultsOutcome DEF Return
<1>5. ASSUME NEW c \in Ips, GiveUp(c) PROVE OutcomeT'
  <2>1. PICK ret \in {"OK", "ERR"}, fd \in Fds : Results(c, ret, fd, FALSE)
    BY <1>5 DEF GiveUp
  <2>2. ret \in Outcomes /\ answers' \subseteq answers
    BY <1>5 DEF GiveUp, Outcomes
  <2>3. QED
    BY <1>5, <2>1, <2>2, ResultsOutcome DEF GiveUp
<1>6. ASSUME NEW sv \in Servers, Serve(sv) PROVE OutcomeT'
  <2>1. \E r : Answered(sv, r) \/ UNCHANGED answers
    BY <1>6 DEF Serve
  <2>2. UNCHANGED clientVars
    BY <1>6 DEF Serve
  <2>3. QED
    BY <1>2, <2>1, <2>2, AnsweredOutcome
<1>7. CASE Finish
  BY <1>2, <1>7, HostsAssumption, AnsweredOutcome DEF Finish
<1>8. CASE \/ \E sv \in Servers : Crash(sv) \/ Boot(sv)
           \/ \E from, to \in Servers : Restore(from, to)
           \/ SendAgain \/ Deliver \/ Lose \/ UNCHANGED vars
  <2>1. UNCHANGED <<answers, clientVars>>
    BY <1>8 DEF Crash, Boot, Restore, SendAgain, Deliver, Lose, vars
  <2>2. QED
    BY <2>1 DEF OutcomeT, clientVars
<1>9. QED
  BY <1>3, <1>4, <1>5, <1>6, <1>7, <1>8 DEF Next, ClientStep

\* Every variable stays in its type: the trees and tables of both servers, what
\* is under way between all parties, what was executed, and what each client
\* heard; no datagram to the secondary is one that it could copy once more.
THEOREM TypeCorrect == Spec => []TypeOK
<1>1. ReplicationInit => OutcomeT
  <2> SUFFICES ASSUME ReplicationInit PROVE OutcomeT
    OBVIOUS
  <2>1. answers = {} /\ ids = 0 /\ host1 \in Servers
    BY HostsAssumption DEF ReplicationInit
  <2>2. \A c \in Ips : result[c] = [id |-> 0, to |-> host1, ret |-> "OK", heard |-> TRUE]
    BY DEF ReplicationInit
  <2>3. ASSUME NEW c \in Ips
        PROVE  /\ result[c].id = 0 /\ result[c].to = host1
               /\ result[c].ret = "OK" /\ result[c].heard \in BOOLEAN
    <3>1. result[c] = [id |-> 0, to |-> host1, ret |-> "OK", heard |-> TRUE]
      BY <2>2
    <3>2. result[c].id = 0 /\ result[c].to = host1 /\ result[c].ret = "OK"
      BY <3>1
    <3>3. result[c].heard \in BOOLEAN
      BY <3>1
    <3>4. QED
      BY <3>2, <3>3
  <2>4. QED
    BY <2>1, <2>3 DEF OutcomeT, Outcomes
<1>2. Spec => []OutcomeT
  BY <1>1, Invariant, NextOutcome, PTL DEF Spec
<1>3. IInv /\ OutcomeT => TypeOK
  <2> SUFFICES ASSUME IInv, OutcomeT PROVE TypeOK
    OBVIOUS
  <2>1. \A r \in answers : r.id \in 1 .. ids /\ r.ret \in Outcomes
    BY DEF IInv, Routes, IdsKnown, Ids, OutcomeT
  <2>2. ASSUME NEW sv \in Servers, NEW k \in DOMAIN log[sv]
        PROVE  log[sv][k] \in [id : 1 .. ids, copied : BOOLEAN, ret : Outcomes \cup {"HANG"}]
    <3>1. log[sv][k] \in Entry
      BY DEF IInv, Types, LogT
    <3>2. log[sv][k].id \in 1 .. ids
      BY DEF IInv, Routes, IdsKnown, Ids, Executed
    <3>3. QED
      BY <3>1, <3>2 DEF Entry, Outcomes
  <2>3. ServerTypeOK
    BY DEF IInv, ServerInv
  <2>4. QED
    BY <2>1, <2>2, <2>3
       DEF IInv, Types, QueueT, CountT, CopyingT, NetT, ClientT, CallT, Ids, OutcomeT, TypeOK
<1>4. QED
  BY <1>2, <1>3, Invariant, PTL

\* Whatever is lost, repeated or executed late, and whatever crashes, the
\* secondary has every update that the primary counts as acknowledged, in the
\* order of the primary.
THEOREM AckedUpdatesInOrder == Spec => []AckedUpdatesKeepOrder
<1>1. IInv => AckedUpdatesKeepOrder
  <2> SUFFICES ASSUME IInv PROVE AckedUpdatesKeepOrder
    OBVIOUS
  <2>1. DOMAIN log[host2] = 1 .. Len(log[host2])
    BY HostsAssumption DEF IInv, Types, LogT
  <2>2. \A k \in Acked : \E m \in 1 .. Len(log[host2]) : log[host2][m].id = log[host1][k].id
    BY <2>1 DEF IInv, OrderInv, AckedInv, Executed
  <2>3. \A j, k \in Acked : j < k => After(log[host2], log[host1][k].id, log[host1][j].id)
    BY DEF IInv, OrderInv, AckedInv
  <2>4. QED
    BY <2>1, <2>2, <2>3 DEF AckedUpdatesKeepOrder, Acked, After
<1>2. QED
  BY <1>1, Invariant, PTL

\* A client that hears an answer hears of its own call, which the server it was
\* sent to executed exactly once, with the result of that execution.
THEOREM HeardMeansDone == Spec => HeardIsOnceDone
<1> DEFINE Mine(l, id, ret) == {k \in DOMAIN l : l[k].id = id /\ l[k].ret = ret}
           A == \A c \in Ips :
                  (result'[c] # result[c] /\ result'[c].heard) =>
                    LET sv == result'[c].to
                        mine == {k \in DOMAIN log[sv] : /\ log[sv][k].id = result'[c].id
                                                        /\ log[sv][k].ret = result'[c].ret}
                    IN /\ result'[c].id = call[c].id
                       /\ Cardinality(mine) = 1
                       /\ \A k \in DOMAIN log[sv] : log[sv][k].id = result'[c].id => k \in mine
<1>1. ASSUME IInv, NEW c \in Ips, Return(c) PROVE A
  <2>1. PICK r \in answers : r.id = call[c].id /\ Results(c, r.ret, r.val, TRUE)
    BY <1>1 DEF Return
  <2>2. call[c] # None
    BY <1>1 DEF Return
  <2>3. /\ result'[c] = [id |-> call[c].id, to |-> call[c].to, ret |-> r.ret, heard |-> TRUE]
        /\ \A b \in Ips \ {c} : result'[b] = result[b]
    BY <1>1, <2>1 DEF Results, IInv, Types, ClientT
  <2>4. PICK k \in DOMAIN log[call[c].to] :
          log[call[c].to][k].id = call[c].id /\ log[call[c].to][k].ret = r.ret
    BY <1>1, <2>1, <2>2 DEF IInv, CallInv, CallAnswered
  <2>5. \A j \in DOMAIN log[call[c].to] : log[call[c].to][j].id = call[c].id => j = k
    BY <1>1, <2>2, <2>4 DEF IInv, CallInv, CallOnce
  <2>6. Mine(log[call[c].to], call[c].id, r.ret) = {k}
    BY <2>4, <2>5
  <2>7. Cardinality(Mine(log[call[c].to], call[c].id, r.ret)) = 1
    BY <2>6, FS_Singleton
  <2>8. /\ \A b \in Ips : result'[b] # result[b] => b = c
        /\ result'[c].id = call[c].id /\ result'[c].to = call[c].to /\ result'[c].ret = r.ret
    BY <2>3
  <2>9. Cardinality(Mine(log[result'[c].to], result'[c].id, result'[c].ret)) = 1
    BY <2>7, <2>8
  <2>10. \A j \in DOMAIN log[result'[c].to] :
           log[result'[c].to][j].id = result'[c].id =>
             log[result'[c].to][j].ret = result'[c].ret
    BY <2>4, <2>5, <2>8
  <2>11. QED
    BY <2>8, <2>9, <2>10, ZenonT(40)
<1>2. ASSUME IInv, NEW c \in Ips, GiveUp(c) PROVE A
  <2>1. PICK ret \in {"OK", "ERR"}, fd \in Fds : Results(c, ret, fd, FALSE)
    BY <1>2 DEF GiveUp
  <2>2. /\ result'[c] = [id |-> call[c].id, to |-> call[c].to, ret |-> ret, heard |-> FALSE]
        /\ \A b \in Ips \ {c} : result'[b] = result[b]
    BY <1>2, <2>1 DEF Results, IInv, Types, ClientT
  <2>3. QED
    BY <2>2
<1>3. ASSUME IInv, [Next]_vars PROVE A
  <2>1. CASE UNCHANGED result
    BY <2>1
  <2>2. CASE \E c \in Ips : Return(c) \/ GiveUp(c)
    BY <1>1, <1>2, <1>3, <2>2
  <2>3. \/ UNCHANGED result
        \/ \E c \in Ips : Return(c) \/ GiveUp(c)
    BY <1>3 DEF Next, ClientStep, Connect, Serve, Crash, Boot, Restore, SendAgain, Deliver, Lose,
                Finish, clientVars, vars
  <2>4. QED
    BY <2>1, <2>2, <2>3
<1>4. IInv /\ [Next]_vars => [A]_vars
  BY <1>3
<1>5. QED
  BY <1>4, Invariant, PTL DEF Spec, HeardIsOnceDone
=============================================================================
