--------------------------- MODULE MCServerSystem ---------------------------
(***************************************************************************)
(* Constants for model checking ServerSystem: one server, two clients, and *)
(* sets of requests, each chosen for the question a run asks.              *)
(***************************************************************************)
EXTENDS ServerSystem

\* The tree below /DFS: two names in the root, and one name or two in "d".
MCPaths == {<<"d">>, <<"f">>, <<"d", "f">>}

Shared == [u |-> RWX, o |-> RWX]
Private == [u |-> RWX, o |-> {}]
MCModes == {Shared, Private}
MCUmask == [u |-> {}, o |-> {}]

\* From "d/f" to the directory it is in, and from "f" to nothing.
NameTargets == {[up |-> 0, names |-> <<>>], [up |-> 1, names |-> <<"f">>]}

\* From "f" to "g".
FileTargets == {[up |-> 0, names |-> <<"g">>]}

MCInodes == 0 .. 3
FewFds == 0 .. 2
MoreFds == 0 .. 3

\* The answer last sent has no part in what happens next, and the action
\* properties read it only in the state a step leads to.
MCView == <<ent, node, fdt, lock, hung, handles, restarts>>

MCSymmetry == Permutations(Ips)

Of(S) == {a \in S : "server_info" \in DOMAIN a => a.server_info = Direct}

\* Everything that makes, removes or moves a name, which the bits of a regular
\* file have no part in.
NameCalls ==
  Of(UNION {init_arg, mkdir_arg, rmdir_arg, unlink_arg, rename_arg, link_arg,
            {a \in symlink_arg : a.link = IF a.target.up = 0 THEN <<"d", "f">> ELSE <<"f">>},
            {a \in mknod_arg : a.kind = "reg" /\ a.mode = Shared}})

\* Requests that open files and directories, and those that make, remove and
\* lock some, so that descriptors are short and files lose their names.
OpenCalls ==
  Of(UNION {init_arg, opendir_arg,
            {a \in open_arg : a.acc = "rw" /\ ~a.append},
            {a \in mkdir_arg : a.path = <<"d">> /\ a.mode = Shared},
            {a \in mknod_arg : a.path = <<"f">> /\ a.kind = "reg" /\ a.mode = Shared},
            {a \in unlink_arg : a.path = <<"f">>},
            {a \in rename_arg : a.path = <<"f">>}})

\* Two files in the root: one that everything is tried on, another that may
\* take its name.
FilePaths == {<<"f">>, <<"g">>}
FileModes == {Shared, [u |-> {"r"}, o |-> {}]}
CopiedWrites ==
  {a \in write_arg : a.path = <<"f">> /\ Secondary(a.server_info) /\ a.fd = 2 /\ a.offset = 0}

FileCalls ==
  CopiedWrites \cup
  Of(UNION {init_arg,
            {a \in mknod_arg : a.mode = Shared /\ (a.kind = "reg" \/ a.path = <<"f">>)},
            {a \in rename_arg : a.newpath = <<"f">>},
            {a \in open_arg : a.acc # "r" /\ a.append = (a.acc = "rw")},
            {a \in symlink_arg : a.link = <<"f">>},
            {a \in UNION {unlink_arg, truncate_arg, chmod_arg, utime_arg, getattr_arg,
                          access_arg, statfs_arg, readlink_arg} : a.path = <<"f">>}})
=============================================================================
