--------------------------- MODULE MCReplication ----------------------------
(***************************************************************************)
(* Constants for model checking Replication: two servers, two clients and  *)
(* files in the root directory.                                            *)
(***************************************************************************)
EXTENDS Replication

MCPaths == {<<"f">>, <<"g">>}
Shared == [u |-> RWX, o |-> RWX]
MCModes == {Shared}
MCUmask == [u |-> {}, o |-> {}]
MCInodes == 0 .. 2
MCFds == 0 .. 2

Unaddressed(S) == {a \in S : "server_info" \in DOMAIN a => a.server_info = get_identity(FALSE)}

\* Updates of two names that do not commute.
TwoNames ==
  Unaddressed(UNION {{a \in mknod_arg : a.path = <<"f">> /\ a.kind = "reg"},
                     {a \in rename_arg : a.path = <<"f">> /\ a.newpath = <<"g">>}})

\* One file that is made and written to.
OneFile ==
  Unaddressed(UNION {{a \in mknod_arg : a.path = <<"f">> /\ a.kind = "reg"},
                     {a \in open_arg : a.path = <<"f">> /\ a.acc = "w" /\ ~a.append}})

\* Two files; one client makes them and opens one, another opens the other.
CONSTANTS c1, c2
TwoFiles ==
  Unaddressed({a \in mknod_arg : a.ip = c1 /\ a.kind = "reg"}
                \cup {a \in open_arg : /\ a.acc = "w" /\ ~a.append
                                       /\ a.path = IF a.ip = c1 THEN <<"f">> ELSE <<"g">>})

\* The result a client was given has no part in what happens next, and neither
\* has the answer a server sent last; the properties read both in the state a
\* step leads to.
MCView ==
  <<ent, node, fdt, lock, hung, up, queue, copying, net, answers, alive, call, fh, initialized,
    ids, log, faults, since>>

MCSymmetry == Permutations(Ips)
=============================================================================
