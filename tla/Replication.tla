----------------------------- MODULE Replication -----------------------------
(***************************************************************************)
(* The two servers of the file system, the copies the primary sends to the *)
(* secondary (TRANSMIT_TO_SECONDATY), and the clients, which fail over     *)
(* from one server to the other (CONNECT_SERVER).                          *)
(*                                                                         *)
(* A client, mounted with -s, makes one call at a time, over TCP:          *)
(* to host1 (the primary) or else to host2 (the secondary).  The primary   *)
(* handles one request after the other: it first sends a copy of an update *)
(* to the secondary, over UDP, waits until the copy is answered or 25      *)
(* seconds have passed, and then executes the request itself, whatever     *)
(* became of the copy.  UDP sends a copy again every few seconds, and a    *)
(* datagram may arrive late, twice or not at all.  A call that gets no     *)
(* answer in 25 seconds, or whose server dies, fails at the client.        *)
(*                                                                         *)
(* Time is left out: a wait may end too early, when its answer is still    *)
(* under way.  That is one of the faults MaxFaults bounds, as are a crash, *)
(* a lost or repeated datagram and a host out of reach.  What follows from *)
(* a fault, such as a timeout when the datagram was lost, is not bounded.  *)
(***************************************************************************)
EXTENDS FuseRpcServer, Integers

CONSTANTS host1,       \* the primary
          host2,       \* the secondary
          Calls,       \* the requests by path that the clients make
          Uses,        \* what they do with a file they have open
          Mounted,     \* the clients that looked at their mount point before
          MaxCalls,    \* bound: calls of all clients together
          MaxFaults    \* bound: things that go wrong, see below

ASSUME HostsAssumption == Servers = {host1, host2} /\ host1 # host2
ASSUME CallsAssumption == Calls \subseteq Requests
ASSUME UsesAssumption == Uses \subseteq {"read", "write", "release"}
ASSUME MountedAssumption == Mounted \subseteq Ips
ASSUME BoundsAssumption == MaxCalls \in Nat /\ MaxFaults \in Nat \ {0}
ASSUME NoneIsNoNumber == None \notin Nat

VARIABLES up,       \* up[sv]: the server process of sv runs
          queue,    \* queue[sv]: requests that arrived at sv over TCP
          copying,  \* the request whose copy the primary waits for, or None
          net,      \* the datagrams under way to the secondary
          answers,  \* the answers under way to the clients
          alive,    \* alive[c]: the client process of c runs
          call,     \* call[c]: the call c waits for, or None
          fh,       \* fh[c]: the file c has open, with its descriptor, or None;
                    \* "heard" tells whether a server did answer the open
          initialized,  \* initialized[c]: c has asked for /DFS to be made
          result    \* result[c]: what the last call of c came to

\* What happened so far; no action depends on it but through its bound.
VARIABLES ids,      \* how many calls were made; the last one's number
          log,      \* log[sv]: the requests sv executed, in order
          faults,   \* how many things went wrong: crashes, lost and repeated
                    \* datagrams, unreachable hosts, timeouts
          since     \* how many of them before the replicas were made equal, or
                    \* None when an update went to one replica only since then

clientVars == <<alive, call, fh, initialized, result, ids>>
vars == <<serverVars, up, queue, copying, net, answers, clientVars, log, faults, since>>

\* Two hosts with an empty disk, or, once some client was there, with an empty
\* directory /DFS.
NoRoot == /\ ent = [sv \in Servers |-> [p \in AnyPath |-> None]]
          /\ node = [sv \in Servers |-> [j \in Inodes |-> None]]

RootMade ==
  \E i \in LowestOf(Inodes) :
    /\ ent = [sv \in Servers |-> [p \in AnyPath |-> IF p = Root THEN i ELSE None]]
    /\ node = [sv \in Servers |->
                [j \in Inodes |-> IF j = i THEN NewFile("dir", RootUid, FullMode) ELSE None]]

ReplicationInit ==
  /\ IF Mounted = {} THEN NoRoot ELSE RootMade
  /\ fdt = [sv \in Servers |-> [fd \in Fds |-> None]]
  /\ lock = [sv \in Servers |-> [i \in Inodes |-> None]]
  /\ hung = [sv \in Servers |-> FALSE]
  /\ reply = [sv \in Servers |-> [arg |-> None, op |-> "none", ip |-> None,
                                ret |-> "OK", val |-> None]]
  /\ up = [sv \in Servers |-> TRUE]
  /\ queue = [sv \in Servers |-> {}]
  /\ copying = None
  /\ net = {}
  /\ answers = {}
  /\ alive = [c \in Ips |-> TRUE]
  /\ call = [c \in Ips |-> None]
  /\ fh = [c \in Ips |-> None]
  /\ initialized = [c \in Ips |-> c \in Mounted]
  /\ result = [c \in Ips |-> [id |-> 0, to |-> host1, ret |-> "OK", heard |-> TRUE]]
  /\ ids = 0
  /\ log = [sv \in Servers |-> <<>>]
  /\ faults = 0
  /\ since = 0

-----------------------------------------------------------------------------
(* What goes wrong. *)

Fault == faults < MaxFaults /\ faults' = faults + 1

\* Nobody takes a connection: hosts are down, or up and out of reach.
Missed(hosts) ==
  \/ (\A sv \in hosts : ~up[sv]) /\ since' = None /\ UNCHANGED faults
  \/ (\E sv \in hosts : up[sv]) /\ Fault /\ UNCHANGED since

\* A wait of 25 seconds is over.  When the answer can still come this is a
\* fault of its own, or else the consequence of another one.
Expires(pending) ==
  IF pending THEN Fault ELSE faults' = IF faults = 0 THEN 1 ELSE faults

AnswerPending(id) ==
  \/ \E r \in answers : r.id = id
  \/ copying # None /\ copying.id = id
  \/ \E sv \in Servers : ~hung[sv] /\ \E r \in queue[sv] : r.id = id

CopyPending ==
  \/ copying.answer = "here"
  \/ copying.answer = "awaited" /\ ~hung[host2] /\ \E d \in net : d.id = copying.id

-----------------------------------------------------------------------------
(* The clients. *)

get_identity(is_degraded) == [is_master |-> TRUE, is_degraded |-> is_degraded]

Addressed(a, sv) ==
  IF "server_info" \in DOMAIN a
  THEN [a EXCEPT !.server_info = get_identity(sv = host2)]
  ELSE a

\* Requests through fi->fh.  The write starts at the offset the application
\* asks for, below the bound MaxLen; O_APPEND is up to the server.
HandleCalls(c) ==
  IF fh[c] = None THEN {} ELSE
  {a \in {[op |-> "release", ip |-> c, fd |-> fh[c].fd]}
         \cup {[op |-> "read", ip |-> c, fd |-> fh[c].fd, offset |-> n] : n \in 0 .. MaxLen}
         \cup {[op |-> "write", ip |-> c, fd |-> fh[c].fd, path |-> fh[c].path, offset |-> n,
                buffer |-> b, server_info |-> get_identity(FALSE)]
                : n \in 0 .. MaxLen - 1, b \in Blocks}
     : a.op \in Uses}

\* The kernel looks at the mount point first, and the first bb_getattr asks for
\* /DFS.  One file open at a time is enough here.
Wanted(c) ==
  IF ~initialized[c]
  THEN {[op |-> "init_rootdir", ip |-> c, server_info |-> get_identity(FALSE)]}
  ELSE {a \in Calls : a.ip = c /\ (a.op = "open" => fh[c] = None)} \cup HandleCalls(c)

Send(c, a, sv) ==
  /\ call' = [call EXCEPT ![c] = [id |-> ids + 1, to |-> sv, arg |-> a]]
  /\ queue' = [queue EXCEPT ![sv] = @ \cup {[id |-> ids + 1, arg |-> Addressed(a, sv)]}]
  /\ ids' = ids + 1
  /\ UNCHANGED alive

\* CONNECT_SERVER: host1 if it takes the connection, or else host2, or else
\* the client process exits.  A host that runs may still be out of reach, and
\* one that hangs in flock takes connections.
Connect(c) ==
  /\ alive[c] /\ call[c] = None /\ ids < MaxCalls
  /\ \E a \in Wanted(c) :
       \/ up[host1] /\ Send(c, a, host1) /\ UNCHANGED <<faults, since>>
       \/ up[host2] /\ Send(c, a, host2) /\ Missed({host1})
       \/ /\ Missed(Servers)
          /\ alive' = [alive EXCEPT ![c] = FALSE]
          /\ UNCHANGED <<call, queue, ids>>
  /\ UNCHANGED <<serverVars, up, copying, net, answers, fh, initialized, result, log>>

\* What the client does with a result, which it takes from where the stub
\* would have put it.  A client that is not given its /DFS exits; one that is
\* never asks again, whatever server it comes to.
Results(c, ret, fd, heard) ==
  /\ call' = [call EXCEPT ![c] = None]
  /\ result' = [result EXCEPT ![c] =
                   [id |-> call[c].id, to |-> call[c].to, ret |-> ret, heard |-> heard]]
  /\ fh' = [fh EXCEPT ![c] = CASE call[c].arg.op = "release" -> None
                               [] call[c].arg.op = "open" /\ ret = "OK" ->
                                    [fd |-> fd, path |-> call[c].arg.path, heard |-> heard]
                               [] OTHER -> @]
  /\ initialized' = [initialized EXCEPT ![c] = TRUE]
  /\ alive' = [alive EXCEPT ![c] = call[c].arg.op = "init_rootdir" => ret = "OK"]
  /\ UNCHANGED <<serverVars, up, queue, copying, net, ids, log, since>>

Return(c) ==
  /\ call[c] # None
  /\ \E r \in answers :
       /\ r.id = call[c].id
       /\ Results(c, r.ret, r.val, TRUE)
       /\ answers' = answers \ {r}
  /\ UNCHANGED faults

\* Slip (not the code): a call without an answer is sent once more.
GiveUpRetries(c) ==
  /\ call[c] # None
  /\ queue' = [queue EXCEPT ![call[c].to] =
                 @ \cup {[id |-> call[c].id, arg |-> Addressed(call[c].arg, call[c].to)]}]
  /\ Expires(AnswerPending(call[c].id))
  /\ UNCHANGED <<serverVars, up, copying, net, answers, clientVars, log, since>>

\* Slip: no timeout, a client only notices that its server is down.
GiveUpWhenDown(c) ==
  /\ call[c] # None /\ ~up[call[c].to]
  /\ \E ret \in {"OK", "ERR"}, fd \in Fds : Results(c, ret, fd, FALSE)
  /\ answers' = {r \in answers : r.id # call[c].id}
  /\ Expires(AnswerPending(call[c].id))

\* The call fails.  The stub has written no result, and bb_* goes on with
\* what its variable happens to hold.  The request stays where it is.
GiveUp(c) ==
  /\ call[c] # None
  /\ \E ret \in {"OK", "ERR"}, fd \in Fds : Results(c, ret, fd, FALSE)
  /\ answers' = {r \in answers : r.id # call[c].id}
  /\ Expires(AnswerPending(call[c].id))

-----------------------------------------------------------------------------
(* The servers. *)

\* Slip: the handler of rename does not start with TRANSMIT_TO_SECONDATY.
ForwardsNoRename(a) ==
  /\ "server_info" \in DOMAIN a /\ a.op # "rename"
  /\ a.server_info = get_identity(FALSE)

\* Slip: the copy still says that its receiver is the master.
CopyUnchanged(a) == a

\* TRANSMIT_TO_SECONDATY: which requests are copied, and how the copy differs.
Forwards(a) == "server_info" \in DOMAIN a /\ a.server_info = get_identity(FALSE)
CopyOf(a) == [a EXCEPT !.server_info.is_master = FALSE]

\* The handler runs and its answer goes back, unless it blocks for ever.
Executes(sv, r, copied) ==
  /\ compute_6(sv, r.arg)
  /\ log' = [log EXCEPT ![sv] =
               Append(@, [id |-> r.id, copied |-> copied,
                          ret |-> IF hung'[sv] THEN "HANG" ELSE reply'[sv].ret])]

Answered(sv, r) ==
  answers' = IF ~hung'[sv] /\ \E c \in Ips : call[c] # None /\ call[c].id = r.id
             THEN answers \cup {[id |-> r.id, ret |-> reply'[sv].ret, val |-> reply'[sv].val]}
             ELSE answers

\* svc_run takes one of the requests that wait.  The secondary may be out of
\* reach for the primary, which then goes on alone.
Serve(sv) ==
  /\ up[sv] /\ ~hung[sv]
  /\ sv = host1 => copying = None
  /\ \E r \in queue[sv] :
       /\ queue' = [queue EXCEPT ![sv] = @ \ {r}]
       /\ \/ /\ Forwards(r.arg) /\ up[host2]
             /\ copying' = [id |-> r.id, arg |-> r.arg, sends |-> 1, answer |-> "awaited"]
             /\ net' = net \cup {[id |-> r.id, n |-> 1, arg |-> CopyOf(r.arg)]}
             /\ UNCHANGED <<serverVars, answers, log, faults, since>>
          \/ /\ Executes(sv, r, FALSE)
             /\ Answered(sv, r)
             /\ IF Forwards(r.arg) THEN Missed({host2}) ELSE UNCHANGED <<faults, since>>
             /\ UNCHANGED <<copying, net>>
  /\ UNCHANGED <<up, clientVars>>

\* No answer yet: UDP sends the copy once more.
SendAgain ==
  /\ copying # None /\ copying.answer = "awaited"
  /\ copying' = [copying EXCEPT !.sends = @ + 1]
  /\ net' = net \cup {[id |-> copying.id, n |-> copying.sends + 1, arg |-> CopyOf(copying.arg)]}
  /\ Fault
  /\ UNCHANGED <<serverVars, up, queue, answers, clientVars, log, since>>

\* The secondary executes what arrives, whether it has seen it or not.
Deliver ==
  /\ up[host2] /\ ~hung[host2]
  /\ \E d \in net :
       /\ net' = net \ {d}
       /\ Executes(host2, d, FALSE)
       /\ copying' = IF copying # None /\ copying.id = d.id /\ ~hung'[host2]
                     THEN [copying EXCEPT !.answer = "here"]
                     ELSE copying
  /\ UNCHANGED <<up, queue, answers, clientVars, faults, since>>

Lose ==
  /\ \E d \in net : net' = net \ {d}
  /\ Fault
  /\ UNCHANGED <<serverVars, up, queue, copying, answers, clientVars, log, since>>

\* Slip: the answer to the copy is not waited for, or is waited for without a
\* limit.
FinishAtOnce ==
  /\ copying # None
  /\ Executes(host1, copying, TRUE)
  /\ Answered(host1, copying)
  /\ copying' = None
  /\ UNCHANGED <<up, queue, net, clientVars, faults, since>>

FinishWhenAcked ==
  /\ copying # None /\ copying.answer = "here"
  /\ Executes(host1, copying, TRUE)
  /\ Answered(host1, copying)
  /\ copying' = None
  /\ UNCHANGED <<up, queue, net, clientVars, faults, since>>

\* The copy was answered, or 25 seconds are over: the primary's own turn.
Finish ==
  /\ copying # None
  /\ \/ copying.answer = "here" /\ Executes(host1, copying, TRUE) /\ UNCHANGED faults
     \/ Expires(CopyPending) /\ Executes(host1, copying, FALSE)
  /\ Answered(host1, copying)
  /\ copying' = None
  /\ UNCHANGED <<up, queue, net, clientVars, since>>

\* The requests that wait die with the process, and so do the datagrams to
\* its port: a new process gets another one, which the primary does not know.
Crash(sv) ==
  /\ up[sv]
  /\ Restart(sv)
  /\ up' = [up EXCEPT ![sv] = FALSE]
  /\ queue' = [queue EXCEPT ![sv] = {}]
  /\ copying' = CASE copying = None -> None
                  [] sv = host1 -> None
                  [] OTHER -> IF copying.answer = "here" THEN copying
                              ELSE [copying EXCEPT !.answer = "never"]
  /\ net' = IF sv = host2 THEN {} ELSE net
  /\ Fault
  /\ UNCHANGED <<answers, clientVars, log, since>>

Boot(sv) ==
  /\ ~up[sv]
  /\ up' = [up EXCEPT ![sv] = TRUE]
  /\ UNCHANGED <<serverVars, queue, copying, net, answers, clientVars, log, faults, since>>

\* What rsync -a --delete makes of a tree: every name gets a file of its own
\* with the owner, the bits and the contents of the file it is copied from.
CopiesOf(sv) ==
  {e \in [AnyPath -> Inodes \cup {None}] :
     \A p \in AnyPath : /\ e[p] = None <=> ~Exists(sv, p)
                        /\ \A q \in AnyPath : e[p] # None /\ e[q] = e[p] => q = p}

\* Slip: files that the source does not have are kept (no --delete).
RestoreKeeps(from, to) ==
  /\ from # to /\ \A sv \in Servers : ~up[sv]
  /\ \A p \in AnyPath : Exists(from, p) => Exists(to, p)
  /\ since' = faults
  /\ UNCHANGED <<serverVars, up, queue, copying, net, answers, clientVars, log, faults>>

\* rsync.py, cold: both servers are stopped.
Restore(from, to) ==
  /\ from # to /\ \A sv \in Servers : ~up[sv]
  /\ CopiesOf(from) # {}
  /\ LET e == CHOOSE copy \in CopiesOf(from) : TRUE
         Original(i) == {p \in AnyPath : e[p] = i}
     IN /\ ent' = [ent EXCEPT ![to] = e]
        /\ node' = [node EXCEPT ![to] =
                      [i \in Inodes |-> IF Original(i) = {} THEN None
                                        ELSE File(from, CHOOSE p \in Original(i) : TRUE)]]
  /\ since' = faults
  /\ UNCHANGED <<fdt, lock, hung, reply, up, queue, copying, net, answers, clientVars, log, faults>>

ClientStep(c) == Connect(c) \/ Return(c) \/ GiveUp(c)

Next == \/ \E c \in Ips : ClientStep(c)
        \/ \E sv \in Servers : Serve(sv) \/ Crash(sv) \/ Boot(sv)
        \/ \E from, to \in Servers : Restore(from, to)
        \/ SendAgain \/ Deliver \/ Lose \/ Finish

Spec == ReplicationInit /\ [][Next]_vars

\* svc_run never idles while a request waits, the wait for a copy and the wait
\* of a client are limited by the timeout of clnt_call, and a datagram that is
\* not lost arrives, as does an answer.
Fairness == /\ \A sv \in Servers : WF_vars(Serve(sv))
            /\ WF_vars(Finish) /\ WF_vars(Deliver)
            /\ \A c \in Ips : WF_vars(Return(c)) /\ WF_vars(GiveUp(c))

FairSpec == Spec /\ Fairness

-----------------------------------------------------------------------------
Sent == [id : 1 .. MaxCalls, arg : Requests]
Copying == [id : 1 .. MaxCalls, arg : Requests, sends : 1 .. MaxFaults + 1,
            answer : {"awaited", "here", "never"}]

ASSUME NoneIsNoCopy == None \notin Copying

Outcomes == {"OK", "EACCES", "ERR"}

\* Every variable stays in its type, the trees and tables of both servers too;
\* what is under way to the secondary is marked as a copy.
TypeOK ==
  /\ ServerTypeOK
  /\ up \in [Servers -> BOOLEAN]
  /\ DOMAIN queue = Servers
  /\ \A sv \in Servers : \A r \in queue[sv] : r \in Sent
  /\ copying = None \/ copying \in Copying
  /\ \A d \in net : /\ d.id \in 1 .. MaxCalls /\ d.n \in 1 .. MaxFaults + 1
                    /\ d.arg \in ReplicatedRequests /\ Secondary(d.arg.server_info)
  /\ \A r \in answers : r.id \in 1 .. ids /\ r.ret \in Outcomes
  /\ alive \in [Ips -> BOOLEAN] /\ initialized \in [Ips -> BOOLEAN]
  /\ \A c \in Ips : call[c] # None => /\ call[c].id \in 1 .. ids /\ call[c].to \in Servers
                                      /\ call[c].arg \in Requests
  /\ \A c \in Ips : fh[c] # None => fh[c].fd \in Fds /\ fh[c].path \in Paths
  /\ \A c \in Ips : /\ result[c].id \in 0 .. ids /\ result[c].to \in Servers
                     /\ result[c].ret \in Outcomes /\ result[c].heard \in BOOLEAN
  /\ \A sv \in Servers : \A k \in DOMAIN log[sv] :
       log[sv][k] \in [id : 1 .. ids, copied : BOOLEAN, ret : Outcomes \cup {"HANG"}]
  /\ ids \in 0 .. MaxCalls /\ faults \in 0 .. MaxFaults /\ since \in 0 .. faults \cup {None}

NamedFile(sv, p) == IF Exists(sv, p) THEN File(sv, p) ELSE None
SameFile(sv, p, q) == Exists(sv, p) /\ ent[sv][p] = ent[sv][q]

\* Both trees hold the same files under the same names.
SameTree ==
  \A p, q \in AnyPath : /\ NamedFile(host1, p) = NamedFile(host2, p)
                        /\ SameFile(host1, p, q) <=> SameFile(host2, p, q)

\* As long as nothing fails, what the primary executed with a copy and what the
\* secondary has executed are the same updates, with the same results and in the
\* same order, but for the one that the primary is about to execute.
ReplicasInStep ==
  faults = 0 =>
    LET copied == {j \in DOMAIN log[host1] : log[host1][j].copied}
        done == {k \in DOMAIN log[host2] :
                   copying # None /\ k = Len(log[host2]) => log[host2][k].id # copying.id}
        Same(j, k) == /\ log[host1][j].id = log[host2][k].id
                      /\ log[host1][j].ret = log[host2][k].ret
    IN /\ \A j \in copied : \E k \in done : Same(j, k)
       /\ \A k \in done : \E j \in copied : Same(j, k)
       /\ \A i, j \in copied : \A k, l \in done : Same(i, k) /\ Same(j, l) => (i < j <=> k < l)

\* Two servers that start from empty disks, or from disks that rsync.py made
\* equal, whatever had gone wrong before, have the same tree between any two
\* updates until the next thing goes wrong: no request, copy or answer from
\* before the restoration comes in between.
EqualSinceRestored == faults = since /\ copying = None => SameTree

\* Whatever fails: an update that the primary executed with its copy answered
\* is in the history of the secondary too, and two such updates are there in
\* the order of the primary.
AckedUpdatesKeepOrder ==
  LET acked == {k \in DOMAIN log[host1] : log[host1][k].copied}
      DoneWithin(n, k) == \E m \in 1 .. n : log[host2][m].id = log[host1][k].id
  IN /\ \A k \in acked : DoneWithin(Len(log[host2]), k)
     /\ \A j, k \in acked : j < k =>
          \A n \in DOMAIN log[host2] :
            log[host2][n].id = log[host1][k].id => DoneWithin(n - 1, j)

\* A client that hears an answer hears of its own call, executed exactly once by
\* the server it was sent to, with the result of that execution and not with
\* the one of the secondary, whatever was sent twice or executed late.
HeardIsOnceDone ==
  [][\A c \in Ips :
       (result'[c] # result[c] /\ result'[c].heard) =>
         LET sv == result'[c].to
             mine == {k \in DOMAIN log[sv] : /\ log[sv][k].id = result'[c].id
                                             /\ log[sv][k].ret = result'[c].ret}
         IN /\ result'[c].id = call[c].id
            /\ Cardinality(mine) = 1
            /\ \A k \in DOMAIN log[sv] : log[sv][k].id = result'[c].id => k \in mine]_vars

\* A secondary that is dead, out of reach or slow holds up the primary for one
\* timeout only: a request that arrived there is executed, unless the primary
\* dies or blocks itself.
PrimaryGoesOn ==
  \A id \in 1 .. MaxCalls :
    (\E r \in queue[host1] : r.id = id) ~>
      \/ \E k \in DOMAIN log[host1] : log[host1][k].id = id
      \/ hung[host1]
      \/ ~up[host1]

\* No client waits for ever, whatever became of its request and its servers.
CallsEnd == \A c \in Ips : call[c] # None ~> call[c] = None

-----------------------------------------------------------------------------
(* What the documentation says and these servers do not do. *)

\* "Several updating operation needs to be completed on secondary server for
\* replication": when nothing has failed and no update is under way, the trees
\* are the same.
ReplicasAgree == faults = 0 /\ copying = None => SameTree

\* "We have handled the cases where primary server or secondary one cannot be
\* reached": what a client writes goes to the file it has open.
WritesGoToOpenFile ==
  [][\A c \in Ips : call[c] # None /\ fh[c] # None =>
       LET sv == call[c].to IN
       (/\ call[c].arg.op = "write" /\ fh[c].heard
        /\ log'[sv] # log[sv] /\ Last(log'[sv]).id = call[c].id) =>
         \A i \in Inodes : node'[sv][i] = node[sv][i] \/ ent[sv][fh[c].path] = i]_vars
=============================================================================
