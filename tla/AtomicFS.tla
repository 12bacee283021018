------------------------------ MODULE AtomicFS ------------------------------
(***************************************************************************)
(* What a server promises its clients: a tree of named files that changes  *)
(* by whole requests, each change one that the rights of the client who is *)
(* answered allow.  There are no descriptors, no locks, no inodes that     *)
(* nobody can name, and no difference between the ways to a change.        *)
(*                                                                         *)
(* What the server allows besides is here too:                             *)
(*  - in the root directory anybody may make a file and move any file, onto *)
(*    any other; only removal asks there for the owner of the file;         *)
(*  - a right to a symbolic link is one to the file it leads to; when the   *)
(*    link is given a second name that file changes hands (LinksSymlink);   *)
(*  - the size of a file may be changed by anybody, and a copy of a write   *)
(*    is not checked again (Writes);                                        *)
(*  - a crash may leave a new file without its owner (Crashes), and after   *)
(*    one a descriptor number may lead a write into another file.           *)
(***************************************************************************)
EXTENDS FuseRpc

CONSTANTS Servers,  \* the servers, each with a tree of its own
          RootUid   \* who owns what belongs to no client

VARIABLES names,    \* names[sv][p]: the file path p names, or None
          files,    \* files[sv][i]: the file i, or None when no path names it
          writers,  \* writers[sv]: <<c, i>> when c has i open for writing
          crashed,  \* crashed[sv]: the server has died at least once
          answer    \* answer[sv]: who was answered last ("ip"), and how ("ret")

fsVars == <<names, files, writers, crashed, answer>>

Init == /\ names = [sv \in Servers |-> [p \in AnyPath |-> None]]
        /\ \A sv \in Servers : \A i \in DOMAIN files[sv] : files[sv][i] = None
        /\ writers = [sv \in Servers |-> {}]
        /\ crashed = [sv \in Servers |-> FALSE]

Named(sv) == {names[sv][p] : p \in AnyPath} \ {None}
IsFile(sv, p) == names[sv][p] # None
FileAt(sv, p) == files[sv][names[sv][p]]
IsDir(sv, p) == IsFile(sv, p) /\ FileAt(sv, p).kind = "dir"
IsLink(sv, p) == IsFile(sv, p) /\ FileAt(sv, p).kind = "lnk"
Below(p) == {q \in Paths : IsStrictPrefix(p, q)}

\* Where p leads, and the file there.
Leads(sv, p) == Followed(names[sv], files[sv], p)
Led(sv, p) == names[sv][Leads(sv, p)]

\* The root is everybody's; any other directory belongs to who has rwx on it.
MayChange(sv, c, dir) ==
  /\ IsDir(sv, dir)
  /\ \/ dir = Root
     \/ LET f == FileAt(sv, dir) IN RWX \subseteq IF f.uid = c THEN f.mode.u ELSE f.mode.o

Succeeds(sv, c) == answer'[sv].ip = c /\ answer'[sv].ret = "OK"

\* Every file that has a name keeps what it is, but for those in S.
KeepsAllBut(sv, S) ==
  \A i \in DOMAIN files[sv] :
    i \notin S => files'[sv][i] = IF i \in Named(sv)' THEN files[sv][i] ELSE None

Changes(sv, i, f) == KeepsAllBut(sv, {i}) /\ files'[sv][i] = f

\* A new file under a name that was free.
Makes(sv, p, uid) ==
  /\ ~IsFile(sv, p) /\ IsFile(sv, p)'
  /\ LET i == names'[sv][p] IN
       /\ i \notin Named(sv)
       /\ names'[sv] = [names[sv] EXCEPT ![p] = i]
       /\ KeepsAllBut(sv, {i})
       /\ files'[sv][i].uid = uid
       /\ files'[sv][i].kind # "lnk" => files'[sv][i].data = <<>>

\* The root directory is made, or opened up again.
Mounts(sv) ==
  /\ names'[sv] = [names[sv] EXCEPT ![Root] = names'[sv][Root]]
  /\ KeepsAllBut(sv, {names'[sv][Root]})
  /\ IF IsFile(sv, Root)
     THEN /\ names'[sv] = names[sv]
          /\ FileAt(sv, Root)' = [FileAt(sv, Root) EXCEPT !.mode = FullMode]
     ELSE IsDir(sv, Root)' /\ FileAt(sv, Root)'.uid = RootUid

\* A second name for a file, and no other change but to the files in S.
Doubles(sv, p, q, S) ==
  /\ IsFile(sv, p) /\ ~IsDir(sv, p) /\ ~IsFile(sv, q)
  /\ names'[sv] = [names[sv] EXCEPT ![q] = names[sv][p]]
  /\ KeepsAllBut(sv, S)

\* The file thereby changes hands.
Links(sv, c, p, q) ==
  /\ ~IsLink(sv, p) /\ Doubles(sv, p, q, {names[sv][p]})
  /\ files'[sv][names[sv][p]] = [FileAt(sv, p) EXCEPT !.uid = c]

\* In the root directory only one's own files, elsewhere everything.
Removes(sv, c, p) ==
  /\ IsFile(sv, p) /\ \A q \in Below(p) : ~IsFile(sv, q)
  /\ get_parent_path(p) = Root => FileAt(sv, p).uid = c
  /\ names'[sv] = [names[sv] EXCEPT ![p] = None]
  /\ KeepsAllBut(sv, {})

\* A file moves with everything below it, onto nothing, or onto a file of its
\* kind, which disappears; onto a directory only when that is empty.  Nothing
\* asks for the owner of either file, not even in the root directory.
Moves(sv, p, q) ==
  LET To(r) == q \o SubSeq(r, Len(p) + 1, Len(r))
      carried == {r \in Below(p) : IsFile(sv, r)}
      touched == {p, q} \cup Below(p) \cup Below(q)
  IN /\ IsFile(sv, p) /\ q \notin Below(p)
     /\ \A r \in Below(q) : ~IsFile(sv, r)
     /\ IsFile(sv, q) => (IsDir(sv, p) <=> IsDir(sv, q))
     /\ {r \in touched : IsFile(sv, r)'} = {q} \cup {To(r) : r \in carried}
     /\ \A r \in carried \cup {p} : names'[sv][To(r)] = names[sv][r]
     /\ \A r \in AnyPath \ touched : names'[sv][r] = names[sv][r]
     /\ KeepsAllBut(sv, {})

\* Names, for client c.
Renames(sv, c) ==
  /\ Succeeds(sv, c)
  /\ \E p \in Paths :
       /\ MayChange(sv, c, get_parent_path(p))
       /\ \/ Makes(sv, p, c) \/ Removes(sv, c, p)
          \/ \E q \in Paths :
               MayChange(sv, c, get_parent_path(q)) /\ (Links(sv, c, p, q) \/ Moves(sv, p, q))

\* A symbolic link gets a second name and keeps its owner.  If the new name
\* leads to a file, that changes hands; if not, the client hears of a failure.
DoublesLink(sv, c, p, q) ==
  LET to == Followed(names'[sv], files[sv], q)
      i  == names'[sv][to]
  IN /\ IsLink(sv, p) /\ answer'[sv].ip = c
     /\ \/ to = None /\ answer'[sv].ret = "ERR" /\ Doubles(sv, p, q, {})
        \/ /\ to # None /\ answer'[sv].ret = "OK" /\ Doubles(sv, p, q, {i})
           /\ files'[sv][i] = [files[sv][i] EXCEPT !.uid = c]

LinksSymlink(sv, c) ==
  \E p, q \in Paths : /\ MayChange(sv, c, get_parent_path(p))
                      /\ MayChange(sv, c, get_parent_path(q))
                      /\ DoublesLink(sv, c, p, q)

SameNames(sv) == names'[sv] = names[sv]

\* Attributes belong to the owner of the name, and only the bits change.
Chmods(sv, c) ==
  /\ Succeeds(sv, c) /\ SameNames(sv)
  /\ \E p \in Paths :
       LET i == Led(sv, p) IN
       /\ IsFile(sv, p) /\ FileAt(sv, p).uid = c /\ Leads(sv, p) # None
       /\ Changes(sv, i, [files[sv][i] EXCEPT !.mode = files'[sv][i].mode])

\* Only the contents of one regular file change.
Fills(sv, i) ==
  /\ SameNames(sv) /\ files[sv][i].kind = "reg"
  /\ Changes(sv, i, [files[sv][i] EXCEPT !.data = files'[sv][i].data])

Shorter(s, t) == IF Len(s) < Len(t) THEN s ELSE t

\* By somebody who has it open for writing; a new size, by anybody; a copied
\* write, which adds to the end; or by a number from before a crash.
Writes(sv, c) ==
  /\ Succeeds(sv, c)
  /\ \E i \in Named(sv) :
       /\ Fills(sv, i)
       /\ LET old == files[sv][i].data
              new == files'[sv][i].data
          IN \/ <<c, i>> \in writers[sv]
             \/ IsPrefix(Shorter(old, new), Shorter(new, old)) /\ Len(old) # Len(new)
             \/ crashed[sv]

\* Writing is granted to a client that has the right at that moment.
Grants(sv, c) ==
  \E p \in Paths :
    /\ IsFile(sv, p) /\ Leads(sv, p) # None
    /\ LET f == FileAt(sv, p) IN "w" \in IF f.uid = c THEN f.mode.u ELSE f.mode.o
    /\ writers'[sv] \subseteq writers[sv] \cup {<<c, Led(sv, p)>>}

\* A request that is refused, fails, or only looks.
Looks(sv) == SameNames(sv) /\ files'[sv] = files[sv]

\* The server dies, between two requests or in the middle of one that made a
\* file and had not given it to anybody.
Crashes(sv) ==
  /\ crashed'[sv]
  /\ \/ Looks(sv)
     \/ Mounts(sv)
     \/ \E p \in Paths : IsDir(sv, get_parent_path(p)) /\ Makes(sv, p, RootUid)
     \/ \E p, q \in Paths : Doubles(sv, p, q, {})

Request(sv, c) ==
  /\ crashed' = crashed
  /\ \/ Looks(sv) /\ writers'[sv] \subseteq writers[sv]
     \/ Looks(sv) /\ Succeeds(sv, c) /\ Grants(sv, c)
     \/ /\ writers'[sv] \subseteq writers[sv]
        /\ \/ Renames(sv, c) \/ LinksSymlink(sv, c) \/ Chmods(sv, c) \/ Writes(sv, c)
           \/ Mounts(sv) /\ Succeeds(sv, c)

Elsewhere(sv) ==
  \A s \in Servers \ {sv} :
    /\ names'[s] = names[s] /\ files'[s] = files[s] /\ writers'[s] = writers[s]
    /\ crashed'[s] = crashed[s] /\ answer'[s] = answer[s]

Next == \E sv \in Servers : /\ Elsewhere(sv)
                            /\ (\E c \in Ips : Request(sv, c)) \/ Crashes(sv)

Spec == Init /\ [][Next]_fsVars
=============================================================================
