------------------------------- MODULE FuseRpc -------------------------------
(***************************************************************************)
(* The vocabulary client and server share: the request structures of       *)
(* fuse_rpc.x and the two path functions of fuse_rpc_server.c.             *)
(*                                                                         *)
(* A path is the sequence of its components below /DFS, so <<>> is the     *)
(* root "/" of the mount.  translate_abspath puts "/DFS" in front of every *)
(* path of a request and get_parent_path drops what follows the last       *)
(* slash; here the common "/DFS" prefix is left implicit.                  *)
(*                                                                         *)
(* Bounds: Paths is the finite set of paths requests may name, Modes the   *)
(* permission bits they may carry, Blocks the file contents written (one   *)
(* request writes one block), MaxLen the longest file, in blocks, and      *)
(* Targets what symbolic links may contain.                                *)
(***************************************************************************)
EXTENDS Naturals, SequencesExt

CONSTANTS Ips,      \* client identities: the numbers client hosts send as "ip"
          Paths,    \* the paths below the root that requests may name
          Modes,    \* permission bits carried by mkdir, mknod and chmod
          Fds,      \* descriptor numbers a server process may hand out
          Blocks,   \* contents of one written block
          MaxLen,   \* largest file size, in blocks
          Targets,  \* what the symbolic links that are made contain
          None      \* "no value"; in none of the sets above

Root == <<>>
AnyPath == Paths \cup {Root}

\* Everything before the last slash.
get_parent_path(path) == Front(path)

ASSUME PathsAssumption == /\ Paths \subseteq Seq(STRING) \ {Root} /\ None \notin AnyPath
                          /\ \A p \in Paths : get_parent_path(p) \in AnyPath
ASSUME FdsAssumption == Fds \subseteq Nat /\ None \notin Fds
ASSUME MaxLenAssumption == MaxLen \in Nat

(***************************************************************************)
(* Permission bits: those of the owner and those of everybody else.  The   *)
(* server never consults the group bits.                                   *)
(***************************************************************************)
RWX == {"r", "w", "x"}
Mode == [u : SUBSET RWX, o : SUBSET RWX]
FullMode == [u |-> RWX, o |-> RWX]

ASSUME ModesAssumption == Modes \subseteq Mode

-----------------------------------------------------------------------------
(***************************************************************************)
(* Symbolic links.  A target goes so many directories up from the one its  *)
(* link is in and then down by names.  Bound: a target that leaves /DFS,   *)
(* as one that goes up too far or an absolute one does, leads to nothing.  *)
(* "links" gives the target of each path that names a link, or None.       *)
(***************************************************************************)
Target == [up : Nat, names : Seq(STRING)]

ASSUME TargetsAssumption == Targets \subseteq Target

\* The server's system follows no more links than this (MAXSYMLINKS).
MaxLinks == 40

\* How far one gets on a path until it has come to a link.
LinksOn(links, p) ==
  {k \in 1 .. Len(p) : SubSeq(p, 1, k) \in DOMAIN links /\ links[SubSeq(p, 1, k)] # None}

\* The first link of a path is replaced by its target.
Redirected(links, p) ==
  LET k  == Min(LinksOn(links, p))
      to == links[SubSeq(p, 1, k)]
  IN IF to.up < k
     THEN SubSeq(p, 1, k - 1 - to.up) \o to.names \o SubSeq(p, k + 1, Len(p))
     ELSE None

Destination(links, p) ==
  LET after[n \in 0 .. MaxLinks] ==
        IF n = 0 THEN p
        ELSE LET q == after[n - 1]
             IN IF q = None \/ LinksOn(links, q) = {} THEN q ELSE Redirected(links, q)
  IN after[MaxLinks]

\* In a tree of names e and files n, whose links contain their targets, the
\* name of the file that a system call gets to which follows p: p itself, or
\* where the link p leads.  None when there is nothing.
Followed(e, n, p) ==
  LET IsLink(q) == e[q] # None /\ n[e[q]].kind = "lnk"
      links == [q \in AnyPath |-> IF IsLink(q) THEN n[e[q]].data[1] ELSE None]
      to == IF IsLink(p) THEN Destination(links, p) ELSE p
  IN IF to \in AnyPath /\ e[to] # None /\ ~IsLink(to) THEN to ELSE None

-----------------------------------------------------------------------------
(***************************************************************************)
(* The role a request gives the server that receives it.  A client sends   *)
(* is_master with is_degraded telling that it is talking to the secondary; *)
(* the primary clears is_master in the copy it sends to the secondary.     *)
(***************************************************************************)
identity == [is_master : BOOLEAN, is_degraded : BOOLEAN]

Secondary(info) == ~info.is_master /\ ~info.is_degraded

-----------------------------------------------------------------------------
(***************************************************************************)
(* The arguments of the remote procedures.  "op" is the procedure number   *)
(* and "ip" the client, which fuse_rpc.x leaves out of statfs_arg,         *)
(* readdir_arg and releasedir_arg.  In symlink_arg "link" is the new name  *)
(* and "target" the field path, which is not translated and not looked at. *)
(***************************************************************************)
init_arg       == [op : {"init_rootdir"}, ip : Ips, server_info : identity]
getattr_arg    == [op : {"getattr"}, ip : Ips, path : AnyPath]
access_arg     == [op : {"access"}, ip : Ips, path : AnyPath]
statfs_arg     == [op : {"statfs"}, ip : Ips, path : AnyPath]
readlink_arg   == [op : {"readlink"}, ip : Ips, path : Paths]

mkdir_arg      == [op : {"mkdir"}, ip : Ips, path : Paths, mode : Modes,
                   server_info : identity]
mknod_arg      == [op : {"mknod"}, ip : Ips, path : Paths, mode : Modes,
                   kind : {"reg", "special"}, server_info : identity]
rmdir_arg      == [op : {"rmdir"}, ip : Ips, path : Paths, server_info : identity]
unlink_arg     == [op : {"unlink"}, ip : Ips, path : Paths, server_info : identity]
rename_arg     == [op : {"rename"}, ip : Ips, path : Paths, newpath : Paths,
                   server_info : identity]
symlink_arg    == [op : {"symlink"}, ip : Ips, target : Targets, link : Paths,
                   server_info : identity]
link_arg       == [op : {"link"}, ip : Ips, path : Paths, newpath : Paths,
                   server_info : identity]
truncate_arg   == [op : {"truncate"}, ip : Ips, path : Paths, newsize : 0 .. MaxLen,
                   server_info : identity]
utime_arg      == [op : {"utime"}, ip : Ips, path : Paths, server_info : identity]
chmod_arg      == [op : {"chmod"}, ip : Ips, path : Paths, mode : Modes,
                   server_info : identity]

open_arg       == [op : {"open"}, ip : Ips, path : Paths,
                   acc : {"r", "w", "rw"}, append : BOOLEAN]
release_arg    == [op : {"release"}, ip : Ips, fd : Fds]
read_arg       == [op : {"read"}, ip : Ips, fd : Fds, offset : 0 .. MaxLen]
write_arg      == [op : {"write"}, ip : Ips, fd : Fds, path : Paths,
                   offset : 0 .. MaxLen, buffer : Blocks, server_info : identity]
opendir_arg    == [op : {"opendir"}, ip : Ips, path : AnyPath]
readdir_arg    == [op : {"readdir"}, ip : Ips, fd : Fds]
releasedir_arg == [op : {"releasedir"}, ip : Ips, fd : Fds]

\* Requests a server keeps a second copy of: the ones handled by a
\* procedure that starts with TRANSMIT_TO_SECONDATY.
ReplicatedRequests ==
  UNION {init_arg, mkdir_arg, mknod_arg, rmdir_arg, unlink_arg, rename_arg,
         symlink_arg, link_arg, truncate_arg, utime_arg, chmod_arg, write_arg}

\* Requests only the server the client is connected to ever sees.
LocalRequests ==
  UNION {getattr_arg, access_arg, statfs_arg, readlink_arg, open_arg, release_arg,
         read_arg, opendir_arg, readdir_arg, releasedir_arg}

Requests == ReplicatedRequests \cup LocalRequests
=============================================================================
