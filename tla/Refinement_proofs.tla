-------------------------- MODULE Refinement_proofs ---------------------------
(***************************************************************************)
(* The tree that a server shows its clients is the atomic file system of   *)
(* AtomicFS, for any servers, clients, paths, inodes and descriptors.  The *)
(* refinement mapping FS hides descriptors, locks and the files without a  *)
(* name; every step of the servers is a request, a crash, or a stutter of  *)
(* the atomic file system.                                                 *)
(***************************************************************************)
EXTENDS Directories_proofs

-----------------------------------------------------------------------------
(* What the abstract specification sees. *)

\* It speaks of paths and rights with the same words.
LEMMA Vocabulary ==
  /\ FS!Root = Root /\ FS!AnyPath = AnyPath /\ FS!RWX = RWX /\ FS!FullMode = FullMode
  /\ \A p : FS!get_parent_path(p) = get_parent_path(p)
  /\ \A p, q : FS!IsPrefix(p, q) <=> IsPrefix(p, q)
  /\ \A p, q : FS!IsStrictPrefix(p, q) <=> IsStrictPrefix(p, q)
BY DEF FS!Root, Root, FS!AnyPath, AnyPath, FS!RWX, RWX, FS!FullMode, FullMode,
       FS!get_parent_path, get_parent_path, FS!Front, Front, FS!IsPrefix, IsPrefix,
       FS!IsStrictPrefix, IsStrictPrefix

\* It follows links in the same way.
LEMMA SameFollowed ==
  ASSUME NEW e, NEW n, NEW p
  PROVE  FS!Followed(e, n, p) = Followed(e, n, p)
<1>1. \A links, q : FS!LinksOn(links, q) = LinksOn(links, q)
  BY DEF FS!LinksOn, LinksOn
<1>2. ASSUME NEW links, NEW q
      PROVE  FS!Redirected(links, q) = Redirected(links, q)
  <2>1. ASSUME NEW S
        PROVE  FS!Min(S) = Min(S)
    BY DEF FS!Min, Min
  <2>2. PICK k : k = Min(LinksOn(links, q))
    OBVIOUS
  <2>3. FS!Min(FS!LinksOn(links, q)) = k
    BY <1>1, <2>1, <2>2
  <2>4. QED
    BY <2>2, <2>3, Zenon DEF FS!Redirected, Redirected
<1>3. FS!MaxLinks = MaxLinks
  BY DEF FS!MaxLinks, MaxLinks
<1>4. ASSUME NEW links, NEW q
      PROVE  FS!Destination(links, q) = Destination(links, q)
  BY <1>1, <1>2, <1>3 DEF FS!Destination, Destination
<1>5. QED
  BY <1>4, Vocabulary DEF FS!Followed, Followed

\* File i of server s has a name, and so it is seen.
HasName(s, i) == \E p \in AnyPath : ent[s][p] = i

\* The files that are seen.
Shown ==
  [sv \in Servers |->
     [i \in Inodes |-> IF \E p \in AnyPath : ent[sv][p] = i THEN node[sv][i] ELSE None]]

LEMMA Seen ==
  ASSUME NEW sv \in Servers
  PROVE  /\ \A p : FS!IsFile(sv, p) <=> Exists(sv, p)
         /\ \A i \in Inodes : i \in FS!Named(sv) <=> HasName(sv, i)
         /\ FS!SameNames(sv) <=> ent'[sv] = ent[sv]
<1>1. \A i \in Inodes : i # None
  BY NoneAssumption
<1>2. QED
  BY <1>1, Vocabulary DEF FS!IsFile, Exists, FS!Named, HasName, FS!SameNames

\* A file is seen as it is.
LEMMA SeenFile ==
  ASSUME ServerInv, NEW sv \in Servers, NEW p \in AnyPath, Exists(sv, p)
  PROVE  /\ FS!FileAt(sv, p) = File(sv, p) /\ Shown[sv][ent[sv][p]] = File(sv, p)
         /\ FS!IsDir(sv, p) <=> IsKind(sv, p, "dir")
         /\ FS!IsLink(sv, p) <=> IsKind(sv, p, "lnk")
<1>1. ent[sv][p] \in Inodes
  BY BackedFiles
<1>2. FS!FileAt(sv, p) = File(sv, p) /\ Shown[sv][ent[sv][p]] = File(sv, p)
  BY <1>1 DEF FS!FileAt, File, Shown
<1>3. QED
  BY <1>2, Seen DEF FS!IsDir, FS!IsLink, IsKind

\* So a path is seen to lead where it leads.
LEMMA SeenLead ==
  ASSUME ServerInv, NEW sv \in Servers, NEW p \in AnyPath
  PROVE  FS!Leads(sv, p) = LeadsTo(sv, p) /\ FS!Led(sv, p) = ent[sv][LeadsTo(sv, p)]
<1>1. \A q \in AnyPath : ent[sv][q] # None => Shown[sv][ent[sv][q]] = node[sv][ent[sv][q]]
  BY SeenFile DEF Exists, File
<1>2. Followed(ent[sv], Shown[sv], p) = LeadsTo(sv, p)
  BY <1>1, FollowedAlike DEF LeadsTo
<1>3. FS!Followed(ent[sv], Shown[sv], p) = LeadsTo(sv, p)
  BY <1>2, SameFollowed
<1>4. FS!Leads(sv, p) = LeadsTo(sv, p)
  BY <1>3, Zenon DEF FS!Leads, Shown
<1>5. QED
  BY <1>4 DEF FS!Led

LEMMA SeenDirectory ==
  ASSUME ServerInv, NEW sv \in Servers, NEW p \in AnyPath
  PROVE  FS!IsDir(sv, p) <=> IsKind(sv, p, "dir")
<1>1. CASE Exists(sv, p)
  BY <1>1, SeenFile
<1>2. CASE ~Exists(sv, p)
  BY <1>2, Seen DEF FS!IsDir, IsKind
<1>3. QED
  BY <1>1, <1>2

\* What stays under its names, but for the files in S, stays as it is.
Stays(sv, S) ==
  \A i \in Inodes \ S :
    HasName(sv, i)' => HasName(sv, i) /\ node'[sv][i] = node[sv][i]

LEMMA StaysKeeps ==
  ASSUME NEW sv \in Servers, NEW S, Stays(sv, S)
  PROVE  FS!KeepsAllBut(sv, S)
<1>1. \A i \in Inodes : i # None
  BY NoneAssumption
<1>2. QED
  BY <1>1, Vocabulary DEF FS!KeepsAllBut, FS!Named, Stays, HasName

LEMMA StaysLooks ==
  ASSUME NEW sv \in Servers, ent'[sv] = ent[sv], Stays(sv, {})
  PROVE  FS!Looks(sv)
BY DEF FS!Looks, FS!SameNames, Stays, HasName

\* The rights the server asks for are the ones the specification asks for.
LEMMA MayChange ==
  ASSUME ServerInv, NEW sv \in Servers, NEW p \in Paths, NEW ip, Allowed(sv, p, ip),
         IsKind(sv, get_parent_path(p), "dir")
  PROVE  FS!MayChange(sv, ip, FS!get_parent_path(p))
<1>1. get_parent_path(p) \in AnyPath /\ p # Root
  BY ParentType, PathNames
<1>2. /\ FS!IsDir(sv, get_parent_path(p))
      /\ FS!FileAt(sv, get_parent_path(p)) = File(sv, get_parent_path(p))
  BY <1>1, SeenFile DEF IsKind
<1>3. QED
  BY <1>1, <1>2, Vocabulary DEF FS!MayChange, Allowed, Rights

LEMMA Succeeds ==
  ASSUME ServerTypeOK, NEW sv \in Servers, NEW a, NEW val, Answers(sv, a, "OK", val)
  PROVE  FS!Succeeds(sv, a.ip)
BY AnswersReply DEF FS!Succeeds

-----------------------------------------------------------------------------
(* The ways in which the tree changes are the ones of the specification. *)

\* A name for a file that was free.
LEMMA GrowsMakes ==
  ASSUME ServerInv, NEW sv \in Servers, NEW p \in AnyPath, ~Exists(sv, p), NEW i \in Inodes,
         node[sv][i] = None, ent' = [ent EXCEPT ![sv] = [@ EXCEPT ![p] = i]],
         \A j \in Inodes : HasName(sv, j)' /\ j # i => node'[sv][j] = node[sv][j]
  PROVE  /\ FS!KeepsAllBut(sv, {i})
         /\ \A uid : /\ node'[sv][i].uid = uid
                     /\ node'[sv][i].kind # "lnk" => node'[sv][i].data = <<>>
                     => FS!Makes(sv, p, uid)
<1>1. /\ \A q \in AnyPath : ent'[sv][q] = IF q = p THEN i ELSE ent[sv][q]
      /\ ent'[sv] = [ent[sv] EXCEPT ![p] = i] /\ ent'[sv][p] = i
  BY DEF ServerInv, ServerTypeOK
<1>2. Stays(sv, {i})
  BY <1>1 DEF Stays, HasName
<1>3. FS!KeepsAllBut(sv, {i})
  BY <1>2, StaysKeeps
<1>4. i # None
  BY NoneAssumption
<1>5. ~HasName(sv, i)
  BY <1>4 DEF HasName, ServerInv, Backed
<1>6. i \notin FS!Named(sv)
  BY <1>5, Seen
<1>7. ~FS!IsFile(sv, p) /\ FS!IsFile(sv, p)'
  BY <1>1, <1>4 DEF FS!IsFile, Exists
<1>8. Shown'[sv][i] = node'[sv][i]
  BY <1>1 DEF Shown
<1>9. ASSUME NEW uid, node'[sv][i].uid = uid,
             node'[sv][i].kind # "lnk" => node'[sv][i].data = <<>>
      PROVE  FS!Makes(sv, p, uid)
  <2>1. Shown'[sv][i].uid = uid /\ (Shown'[sv][i].kind # "lnk" => Shown'[sv][i].data = <<>>)
    BY <1>8, <1>9
  <2>2. /\ Shown'[sv][ent'[sv][p]].uid = uid
        /\ Shown'[sv][ent'[sv][p]].kind # "lnk" => Shown'[sv][ent'[sv][p]].data = <<>>
    BY <1>1, <2>1
  <2>3. /\ ent'[sv][p] \notin FS!Named(sv)
        /\ ent'[sv] = [ent[sv] EXCEPT ![p] = ent'[sv][p]]
    BY <1>1, <1>6
  <2>4. \A j : j \notin {i} <=> j \notin {ent'[sv][p]}
    BY <1>1
  <2>5. QED
    BY <1>3, <1>7, <2>2, <2>3, <2>4, Zenon DEF FS!Makes, FS!KeepsAllBut, Shown
<1>10. QED
  BY <1>3, <1>9

\* Files without a name or descriptor disappear; what has a name stays.
LEMMA ReapStays ==
  ASSUME ServerTypeOK, NEW sv \in Servers, ReapNodes(sv),
         \A i \in Inodes : HasName(sv, i)' => HasName(sv, i)
  PROVE  Stays(sv, {})
<1>1. \A i \in Inodes : HasName(sv, i)' => i \in Live(ent'[sv], fdt'[sv])
  BY DEF HasName, Live
<1>2. node'[sv] = Reaped(node[sv], ent'[sv], fdt'[sv])
  BY DEF ReapNodes, ServerTypeOK
<1>3. QED
  BY <1>1, <1>2 DEF Stays, Reaped

\* A name is taken away.
LEMMA ShownRemoves ==
  ASSUME ServerInv, Tree, NEW sv \in Servers, NEW a, a.path \in Paths, Removes(sv, a),
         CanRmdir(sv, a.path) \/ CanUnlink(sv, a.path), a.op \in {"rmdir", "unlink"},
         is_parent_dir_valid(sv, a.path, a.ip, a.op)
  PROVE  FS!Removes(sv, a.ip, a.path)
<1> DEFINE p == a.path
<1>1. p \in AnyPath /\ p \in Name
  BY PathNames
<1>2. Exists(sv, p)
  BY DEF CanRmdir, CanUnlink, IsKind
<1>3. Shrinks(sv, p)
  BY RemovesShrinks
<1>4. \A q \in FS!Below(p) : ~FS!IsFile(sv, q)
  BY <1>1, <1>3, NothingBelow, Seen, Vocabulary, PathNames DEF Shrinks, FS!Below
<1>5. FS!get_parent_path(p) = FS!Root => FS!FileAt(sv, p).uid = a.ip
  <2>1. get_parent_path(p) = Root => File(sv, p).uid = a.ip
    BY <1>2 DEF is_parent_dir_valid, is_owner
  <2>2. QED
    BY <1>1, <1>2, <2>1, SeenFile, Vocabulary
<1>6. ent'[sv] = [ent[sv] EXCEPT ![p] = None]
  BY DEF Removes, ServerInv, ServerTypeOK
<1>7. \A i \in Inodes : HasName(sv, i)' => HasName(sv, i)
  <2>1. \A i \in Inodes : i # None
    BY NoneAssumption
  <2>2. \A q \in AnyPath : ent'[sv][q] = IF q = p THEN None ELSE ent[sv][q]
    BY <1>1, <1>6 DEF ServerInv, ServerTypeOK
  <2>3. QED
    BY <2>1, <2>2 DEF HasName
<1>8. FS!KeepsAllBut(sv, {})
  BY <1>7, ReapStays, StaysKeeps DEF Removes, ServerInv
<1>9. FS!IsFile(sv, p)
  BY <1>2, Seen
<1>10. QED
  BY <1>4, <1>5, <1>6, <1>8, <1>9, Zenon DEF FS!Removes

\* A second name for a file, while those in S may change.
LEMMA ShownDoubles ==
  ASSUME ServerInv, NEW sv \in Servers, NEW p \in AnyPath, NEW q \in AnyPath, CanLink(sv, p, q),
         ent' = [ent EXCEPT ![sv] = [@ EXCEPT ![q] = ent[sv][p]]],
         NEW S, \A i \in Inodes \ S : HasName(sv, i)' => node'[sv][i] = node[sv][i]
  PROVE  FS!Doubles(sv, p, q, S)
<1>1. /\ Exists(sv, p) /\ ~IsKind(sv, p, "dir") /\ ~Exists(sv, q)
  BY DEF CanLink
<1>2. FS!IsFile(sv, p) /\ ~FS!IsDir(sv, p) /\ ~FS!IsFile(sv, q)
  BY <1>1, Seen, SeenFile
<1>3. ent'[sv] = [ent[sv] EXCEPT ![q] = ent[sv][p]]
  BY DEF ServerInv, ServerTypeOK
<1>4. \A r \in AnyPath : ent'[sv][r] = IF r = q THEN ent[sv][p] ELSE ent[sv][r]
  BY <1>3 DEF ServerInv, ServerTypeOK
<1>5. \A i \in Inodes : HasName(sv, i)' => HasName(sv, i)
  BY <1>4 DEF HasName
<1>6. FS!KeepsAllBut(sv, S)
  BY <1>5, StaysKeeps DEF Stays
<1>7. QED
  BY <1>2, <1>3, <1>6, Zenon DEF FS!Doubles

\* The file gets another owner with it.
LEMMA ShownLinks ==
  ASSUME ServerInv, NEW sv \in Servers, NEW p \in AnyPath, NEW q \in AnyPath, CanLink(sv, p, q),
         ~IsKind(sv, p, "lnk"), ent' = [ent EXCEPT ![sv] = [@ EXCEPT ![q] = ent[sv][p]]],
         NEW uid, node'[sv][ent[sv][p]] = [File(sv, p) EXCEPT !.uid = uid],
         \A i \in Inodes \ {ent[sv][p]} : HasName(sv, i)' => node'[sv][i] = node[sv][i]
  PROVE  FS!Links(sv, uid, p, q)
<1>1. Exists(sv, p) /\ ent[sv][p] \in Inodes
  BY BackedFiles DEF CanLink
<1>2. FS!Doubles(sv, p, q, {ent[sv][p]})
  <2>1. PICK S : S = {ent[sv][p]}
    OBVIOUS
  <2>2. FS!Doubles(sv, p, q, S)
    BY <2>1, ShownDoubles
  <2>3. QED
    BY <2>1, <2>2, Zenon DEF FS!Doubles, FS!KeepsAllBut, Shown
<1>3. ~FS!IsLink(sv, p) /\ FS!FileAt(sv, p) = File(sv, p)
  BY <1>1, SeenFile
<1>4. ent'[sv][q] = ent[sv][p]
  BY DEF ServerInv, ServerTypeOK
<1>5. Shown'[sv][ent[sv][p]] = [FS!FileAt(sv, p) EXCEPT !.uid = uid]
  BY <1>1, <1>3, <1>4 DEF Shown
<1>6. QED
  BY <1>2, <1>3, <1>5, Zenon DEF FS!Links, Shown

\* The names of a subtree move.
LEMMA CarriesMoves ==
  ASSUME ServerInv, NEW sv \in Servers, NEW p \in Paths, NEW q \in Paths, Exists(sv, p),
         Carries(sv, p, q)
  PROVE  LET carried == {r \in FS!Below(p) : Exists(sv, r)}
             touched == {p, q} \cup FS!Below(p) \cup FS!Below(q)
         IN /\ q \notin FS!Below(p)
            /\ \A r \in FS!Below(q) : ~Exists(sv, r)
            /\ {r \in touched : ent'[sv][r] # None}
                 = {q} \cup {Rebased(r, p, q) : r \in carried}
            /\ \A r \in carried \cup {p} : ent'[sv][Rebased(r, p, q)] = ent[sv][r]
            /\ \A r \in AnyPath \ touched : ent'[sv][r] = ent[sv][r]
<1> DEFINE carried == {r \in FS!Below(p) : Exists(sv, r)}
           touched == {p, q} \cup FS!Below(p) \cup FS!Below(q)
<1>1. /\ p \in Name /\ p \in AnyPath /\ q \in Name /\ q \in AnyPath
      /\ \A r \in AnyPath : r \in Name /\ (r \notin Paths => r = Root)
  BY PathNames DEF AnyPath
<1>2. \A r : r \in FS!Below(p) <=> r \in Paths /\ IsPrefix(p, r) /\ r # p
  BY Vocabulary DEF FS!Below, IsStrictPrefix
<1>3. \A r : r \in FS!Below(q) <=> r \in Paths /\ IsPrefix(q, r) /\ r # q
  BY Vocabulary DEF FS!Below, IsStrictPrefix
<1>4. \A r \in AnyPath : r \in touched <=> IsPrefix(p, r) \/ IsPrefix(q, r)
  <2>1. IsPrefix(p, p) /\ IsPrefix(q, q)
    BY <1>1, PrefixOrder
  <2>2. \A r \in AnyPath : IsPrefix(p, r) \/ IsPrefix(q, r) => r \in Paths \/ r = p \/ r = q
    BY <1>1, NothingAboveRoot DEF IsStrictPrefix
  <2>3. QED
    BY <1>2, <1>3, <2>1, <2>2
<1>5. q \notin FS!Below(p)
  BY <1>2 DEF Carries
<1>6. \A r \in FS!Below(q) : ~Exists(sv, r)
  BY <1>1, <1>3 DEF Carries, IsStrictPrefix, AnyPath
<1>7. \A r \in carried \cup {p} :
        /\ r \in AnyPath /\ IsPrefix(p, r) /\ Exists(sv, r)
        /\ Rebased(r, p, q) \in Paths /\ ent'[sv][Rebased(r, p, q)] = ent[sv][r]
        /\ IsPrefix(q, Rebased(r, p, q)) /\ Rebased(r, p, q) \in AnyPath
  <2>1. ASSUME NEW r \in carried \cup {p}
        PROVE  r \in AnyPath /\ IsPrefix(p, r) /\ Exists(sv, r)
    BY <1>1, <1>2, PrefixOrder DEF AnyPath
  <2>2. ASSUME NEW r \in carried \cup {p}
        PROVE  Rebased(r, p, q) \in Paths /\ ent'[sv][Rebased(r, p, q)] = ent[sv][r]
    BY <2>1 DEF Carries
  <2>3. ASSUME NEW r \in carried \cup {p}
        PROVE  IsPrefix(q, Rebased(r, p, q))
    BY <1>1, <2>1, RebasedBack
  <2>4. QED
    BY <2>1, <2>2, <2>3, PathNames
<1>8. Rebased(p, p, q) = q
  BY <1>1, RebasedTop
<1>9. ASSUME NEW r \in touched, ent'[sv][r] # None
      PROVE  r \in {q} \cup {Rebased(t, p, q) : t \in carried}
  <2>1. r \in AnyPath
    BY <1>1, <1>2, <1>3 DEF AnyPath
  <2>2. IsPrefix(q, r)
    BY <1>4, <1>9, <2>1 DEF Carries
  <2>3. /\ Rebased(r, q, p) \in Paths /\ ent[sv][Rebased(r, q, p)] # None
    BY <1>9, <2>1, <2>2 DEF Carries
  <2>4. IsPrefix(p, Rebased(r, q, p)) /\ Rebased(Rebased(r, q, p), p, q) = r
    BY <1>1, <2>1, <2>2, RebasedBack
  <2>5. CASE Rebased(r, q, p) = p
    BY <1>8, <2>4, <2>5
  <2>6. CASE Rebased(r, q, p) # p
    BY <1>2, <2>3, <2>4, <2>6 DEF Exists
  <2>7. QED
    BY <2>5, <2>6
<1>10. ASSUME NEW r \in carried \cup {p}
       PROVE  Rebased(r, p, q) \in touched /\ ent'[sv][Rebased(r, p, q)] # None
  BY <1>4, <1>7 DEF Exists
<1>11. {r \in touched : ent'[sv][r] # None} = {q} \cup {Rebased(r, p, q) : r \in carried}
  <2> HIDE DEF touched, carried
  <2>1. q \in touched /\ ent'[sv][q] # None
    BY <1>8, <1>10
  <2>2. QED
    BY <1>9, <1>10, <2>1
<1>12. \A r \in AnyPath \ touched : ent'[sv][r] = ent[sv][r]
  BY <1>4 DEF Carries
<1>13. QED
  BY <1>5, <1>6, <1>7, <1>11, <1>12

\* A rename to another file's name moves what the specification moves.
LEMMA ShownMoves ==
  ASSUME ServerInv, Tree, NEW sv \in Servers, NEW p \in Paths, NEW q \in Paths,
         CanRename(sv, p, q), RenameFits(sv, p, q), IsKind(sv, get_parent_path(q), "dir"),
         ent[sv][p] # ent[sv][q],
         ent' = [ent EXCEPT ![sv] = Renamed(sv, p, q)], ReapNodes(sv)
  PROVE  FS!Moves(sv, p, q)
<1>1. p \in AnyPath /\ q \in AnyPath /\ Exists(sv, p) /\ FS!IsFile(sv, p)
  BY PathNames, Seen DEF CanRename
<1>2. Carries(sv, p, q)
  BY RenamedCarries
<1>3. FS!IsFile(sv, q) => (FS!IsDir(sv, p) <=> FS!IsDir(sv, q))
  <2>1. FS!IsDir(sv, p) <=> IsKind(sv, p, "dir")
    BY <1>1, SeenDirectory
  <2>2. FS!IsDir(sv, q) <=> IsKind(sv, q, "dir")
    BY <1>1, SeenDirectory
  <2>3. FS!IsFile(sv, q) <=> Exists(sv, q)
    BY Seen
  <2>4. QED
    BY <2>1, <2>2, <2>3 DEF CanRename, CanRmdir, CanUnlink
<1>4. FS!KeepsAllBut(sv, {})
  <2>1. ent'[sv] = Renamed(sv, p, q)
    BY DEF ServerInv, ServerTypeOK
  <2>2. \A i \in Inodes : i # None
    BY NoneAssumption
  <2>3. \A i \in Inodes : HasName(sv, i)' => HasName(sv, i)
    BY <2>1, <2>2, RenamedNames DEF HasName
  <2>4. QED
    BY <2>3, ReapStays, StaysKeeps DEF ServerInv
<1>5. FS!AnyPath = AnyPath
  BY Vocabulary
<1>6. LET carried == {r \in FS!Below(p) : Exists(sv, r)}
          touched == {p, q} \cup FS!Below(p) \cup FS!Below(q)
      IN /\ q \notin FS!Below(p)
         /\ \A r \in FS!Below(q) : ~Exists(sv, r)
         /\ {r \in touched : ent'[sv][r] # None} = {q} \cup {Rebased(r, p, q) : r \in carried}
         /\ \A r \in carried \cup {p} : ent'[sv][Rebased(r, p, q)] = ent[sv][r]
         /\ \A r \in AnyPath \ touched : ent'[sv][r] = ent[sv][r]
  BY <1>1, <1>2, CarriesMoves
<1>7. QED
  BY <1>1, <1>3, <1>4, <1>5, <1>6, Zenon DEF FS!Moves, FS!IsFile, Exists, Rebased

\* A new file, whole or with its owner not set yet.
LEMMA ShownMakes ==
  ASSUME ServerInv, NEW sv \in Servers, NEW p \in AnyPath, ~Exists(sv, p), NEW n,
         Create(sv, p, n) \/ HalfMade(sv, p, n)
  PROVE  \E i \in Inodes :
           /\ ent'[sv] = [ent[sv] EXCEPT ![p] = i] /\ node'[sv][i] = n
           /\ FS!KeepsAllBut(sv, {i})
           /\ \A uid : /\ n.uid = uid
                       /\ n.kind # "lnk" => n.data = <<>>
                       => FS!Makes(sv, p, uid)
<1>1. PICK i \in FreeInodes(sv) :
        /\ ent' = [ent EXCEPT ![sv] = [@ EXCEPT ![p] = i]]
        /\ \/ SetNode(sv, i, n)
           \/ node' = [node EXCEPT ![sv] = Reaped([@ EXCEPT ![i] = n], ent'[sv], fdt'[sv])]
  BY DEF Create, HalfMade, LowestOf
<1>2. i \in Inodes /\ node[sv][i] = None
  BY DEF FreeInodes
<1>3. \A q \in AnyPath : ent'[sv][q] = IF q = p THEN i ELSE ent[sv][q]
  BY <1>1 DEF ServerInv, ServerTypeOK
<1>4. \A j \in Inodes : j = i \/ HasName(sv, j)' =>
        node'[sv][j] = IF j = i THEN n ELSE node[sv][j]
  <2>1. CASE SetNode(sv, i, n)
    BY <2>1 DEF SetNode, ServerInv, ServerTypeOK
  <2>2. CASE node' = [node EXCEPT ![sv] = Reaped([@ EXCEPT ![i] = n], ent'[sv], fdt'[sv])]
    <3>1. \A j \in Inodes : j = i \/ HasName(sv, j)' => j \in Live(ent'[sv], fdt'[sv])
      BY <1>3 DEF Live, HasName
    <3>2. \A j \in Inodes : [node[sv] EXCEPT ![i] = n][j] = IF j = i THEN n ELSE node[sv][j]
      BY DEF ServerInv, ServerTypeOK
    <3>3. node'[sv] = Reaped([node[sv] EXCEPT ![i] = n], ent'[sv], fdt'[sv])
      BY <2>2 DEF ServerInv, ServerTypeOK
    <3>4. QED
      BY <3>1, <3>2, <3>3 DEF Reaped
  <2>3. QED
    BY <1>1, <2>1, <2>2
<1>5. node'[sv][i] = n /\ \A j \in Inodes : HasName(sv, j)' /\ j # i => node'[sv][j] = node[sv][j]
  BY <1>2, <1>4
<1>6. /\ FS!KeepsAllBut(sv, {i})
      /\ \A uid : /\ n.uid = uid
                  /\ n.kind # "lnk" => n.data = <<>>
                  => FS!Makes(sv, p, uid)
  BY <1>1, <1>2, <1>5, GrowsMakes
<1>7. ent'[sv] = [ent[sv] EXCEPT ![p] = i]
  BY <1>1 DEF ServerInv, ServerTypeOK
<1>8. QED
  BY <1>2, <1>5, <1>6, <1>7

\* The root directory is made.
LEMMA ShownMountsNew ==
  ASSUME ServerInv, NEW sv \in Servers, ~Exists(sv, Root), NEW n, n.kind = "dir", n.uid = RootUid,
         Create(sv, Root, n) \/ HalfMade(sv, Root, n)
  PROVE  FS!Mounts(sv)
<1>1. Root \in AnyPath
  BY PathNames
<1>2. PICK i \in Inodes : /\ ent'[sv] = [ent[sv] EXCEPT ![Root] = i] /\ node'[sv][i] = n
                          /\ FS!KeepsAllBut(sv, {i})
  BY <1>1, ShownMakes, ZenonT(40)
<1>3. ent'[sv][Root] = i
  BY <1>1, <1>2 DEF ServerInv, ServerTypeOK
<1>4. i # None
  BY NoneAssumption
<1>5. Shown'[sv][ent'[sv][Root]] = n
  BY <1>1, <1>2, <1>3 DEF Shown
<1>6. ~FS!IsFile(sv, Root) /\ FS!Root = Root
  BY Seen, Vocabulary
<1>7. QED
  BY <1>2, <1>3, <1>4, <1>5, <1>6, Zenon DEF FS!Mounts, FS!IsDir, FS!IsFile, FS!FileAt, Shown,
     FS!KeepsAllBut

\* One file changes under the names it has, if it has any.
LEMMA ShownChanges ==
  ASSUME ServerInv, NEW sv \in Servers, UNCHANGED ent, NEW i \in Inodes, NEW n, SetNode(sv, i, n)
  PROVE  /\ FS!SameNames(sv) /\ FS!KeepsAllBut(sv, {i})
         /\ HasName(sv, i) => /\ i \in FS!Named(sv)
                              /\ Shown[sv][i] = node[sv][i] /\ Shown'[sv][i] = n
         /\ ~HasName(sv, i) \/ n = node[sv][i] => FS!Looks(sv)
<1>1. \A j \in Inodes : node'[sv][j] = IF j = i THEN n ELSE node[sv][j]
  BY DEF SetNode, ServerInv, ServerTypeOK
<1>2. \A j \in Inodes : HasName(sv, j)' <=> HasName(sv, j)
  BY DEF HasName
<1>3. Stays(sv, {i})
  BY <1>1, <1>2 DEF Stays
<1>4. HasName(sv, i) => Shown[sv][i] = node[sv][i] /\ Shown'[sv][i] = n
  BY <1>1, <1>2 DEF Shown, HasName
<1>5. ~HasName(sv, i) \/ n = node[sv][i] => Stays(sv, {})
  BY <1>1, <1>2 DEF Stays
<1>6. QED
  BY <1>3, <1>4, <1>5, Seen, StaysKeeps, StaysLooks

\* The root directory is opened up again.
LEMMA ShownMountsAgain ==
  ASSUME ServerInv, NEW sv \in Servers, Exists(sv, Root), UNCHANGED ent,
         SetNode(sv, ent[sv][Root], [File(sv, Root) EXCEPT !.mode = FullMode])
  PROVE  FS!Mounts(sv)
<1>1. Root \in AnyPath /\ FS!Root = Root /\ FS!FullMode = FullMode
  BY PathNames, Vocabulary
<1>0. PICK n : n = [File(sv, Root) EXCEPT !.mode = FullMode]
  OBVIOUS
<1>2. PICK i \in Inodes : i = ent[sv][Root]
  BY <1>1, BackedFiles
<1>3. SetNode(sv, i, n) /\ HasName(sv, i)
  BY <1>0, <1>1, <1>2 DEF HasName
<1>4. FS!KeepsAllBut(sv, {i}) /\ Shown'[sv][i] = n
  BY <1>3, ShownChanges
<1>5. FS!IsFile(sv, Root) /\ FS!FileAt(sv, Root) = File(sv, Root)
  BY <1>1, Seen, SeenFile
<1>6. ent'[sv] = [ent[sv] EXCEPT ![Root] = ent'[sv][Root]] /\ ent'[sv] = ent[sv] /\ ent'[sv][Root] = i
  BY <1>1, <1>2 DEF ServerInv, ServerTypeOK
<1>7. FS!KeepsAllBut(sv, {ent'[sv][Root]}) /\ Shown'[sv][ent'[sv][Root]] = n
  BY <1>4, <1>6, Zenon DEF FS!KeepsAllBut, Shown
<1>8. FS!FileAt(sv, Root)' = [FS!FileAt(sv, Root) EXCEPT !.mode = FullMode]
  BY <1>0, <1>2, <1>5, <1>7, Zenon DEF FS!FileAt, Shown
<1>9. QED
  BY <1>5, <1>6, <1>7, <1>8, Zenon DEF FS!Mounts, FS!Root, Root, FS!FullMode, FullMode, FS!RWX, RWX

\* The owner of a name sets new bits for the file it leads to.
LEMMA ShownChmods ==
  ASSUME ServerInv, NEW sv \in Servers, NEW p \in Paths, NEW c, is_owner(sv, p, c), UNCHANGED ent,
         LeadsTo(sv, p) # None, NEW m, FS!Succeeds(sv, c),
         SetNode(sv, ent[sv][LeadsTo(sv, p)], [File(sv, LeadsTo(sv, p)) EXCEPT !.mode = m])
  PROVE  FS!Chmods(sv, c)
<1>1. PICK q \in AnyPath : q = LeadsTo(sv, p) /\ Exists(sv, q)
  BY LeadsToFollowed
<1>2. PICK i \in Inodes, f \in Node : i = ent[sv][q] /\ f = File(sv, q)
  BY <1>1, BackedFiles
<1>3. PICK n : n = [f EXCEPT !.mode = m]
  OBVIOUS
<1>4. n = [f EXCEPT !.mode = n.mode]
  BY <1>2, <1>3 DEF Node
<1>5. SetNode(sv, i, n) /\ HasName(sv, i) /\ f = node[sv][i]
  BY <1>1, <1>2, <1>3 DEF HasName, File
<1>6. /\ FS!SameNames(sv) /\ FS!KeepsAllBut(sv, {i})
      /\ Shown[sv][i] = f /\ Shown'[sv][i] = n
  BY <1>5, ShownChanges
<1>7. Shown'[sv][i] = [Shown[sv][i] EXCEPT !.mode = Shown'[sv][i].mode]
  BY <1>4, <1>6
<1>8. FS!Changes(sv, i, [Shown[sv][i] EXCEPT !.mode = Shown'[sv][i].mode])
  BY <1>6, <1>7, Zenon DEF FS!Changes, Shown
<1>9. p \in AnyPath /\ Exists(sv, p) /\ File(sv, p).uid = c
  BY PathNames DEF is_owner
<1>10. FS!IsFile(sv, p) /\ FS!FileAt(sv, p).uid = c
  BY <1>9, Seen, SeenFile
<1>11. FS!Leads(sv, p) # None /\ FS!Led(sv, p) = i
  BY <1>1, <1>2, <1>9, SeenLead
<1> DEFINE j == FS!Led(sv, p)
<1>12. FS!Changes(sv, j, [Shown[sv][j] EXCEPT !.mode = Shown'[sv][j].mode])
  BY <1>8, <1>11, Zenon DEF FS!Changes, FS!KeepsAllBut, Shown
<1>13. QED
  BY <1>6, <1>10, <1>11, <1>12, Zenon DEF FS!Chmods, Shown

\* New contents for a regular file, which has a name or is not seen.
LEMMA ShownFills ==
  ASSUME ServerInv, NEW sv \in Servers, UNCHANGED ent, NEW i \in Inodes, NEW f \in Node,
         f = node[sv][i], f.kind = "reg", NEW d, SetNode(sv, i, [f EXCEPT !.data = d])
  PROVE  \/ FS!Looks(sv)
         \/ /\ i \in FS!Named(sv) /\ FS!Fills(sv, i)
            /\ Shown[sv][i].data = f.data /\ Shown'[sv][i].data = d
<1>1. PICK n : n = [f EXCEPT !.data = d]
  OBVIOUS
<1>2. n = [f EXCEPT !.data = n.data] /\ n.data = d
  BY <1>1 DEF Node
<1>3. SetNode(sv, i, n)
  BY <1>1
<1>4. CASE ~HasName(sv, i)
  BY <1>3, <1>4, ShownChanges
<1>5. CASE HasName(sv, i)
  <2>1. /\ FS!SameNames(sv) /\ FS!KeepsAllBut(sv, {i}) /\ i \in FS!Named(sv)
        /\ Shown[sv][i] = f /\ Shown'[sv][i] = n
    BY <1>3, <1>5, ShownChanges
  <2>2. Shown'[sv][i] = [Shown[sv][i] EXCEPT !.data = Shown'[sv][i].data]
        /\ Shown[sv][i].kind = "reg" /\ Shown[sv][i].data = f.data /\ Shown'[sv][i].data = d
    BY <1>2, <2>1
  <2>3. FS!Fills(sv, i)
    BY <2>1, <2>2, Zenon DEF FS!Fills, FS!Changes, FS!KeepsAllBut, Shown
  <2>4. QED
    BY <2>1, <2>2, <2>3
<1>6. QED
  BY <1>4, <1>5

\* Contents of which one continues the other.
LEMMA Continued ==
  ASSUME NEW s \in Seq(Content), NEW t \in Seq(Content), Len(s) <= Len(t),
         \A k \in 1 .. Len(s) : s[k] = t[k]
  PROVE  FS!IsPrefix(s, t)
<1>1. Len(s) \in Nat /\ Len(t) \in Nat /\ SubSeq(s, 1, Len(s)) = s
  BY SubSeqFull
<1>2. \A k \in 1 .. Len(s) : t[k] \in Content
  BY <1>1
<1>3. /\ SubSeq(t, 1, Len(s)) \in Seq(Content)
      /\ Len(SubSeq(t, 1, Len(s))) = IF 1 <= Len(s) THEN Len(s) - 1 + 1 ELSE 0
      /\ \A k \in 1 .. Len(s) - 1 + 1 : SubSeq(t, 1, Len(s))[k] = t[1 + k - 1]
  BY <1>1, <1>2, SubSeqProperties
<1>4. /\ Len(SubSeq(t, 1, Len(s))) = Len(s)
      /\ \A k \in 1 .. Len(s) : SubSeq(t, 1, Len(s))[k] = t[k]
  BY <1>1, <1>3
<1>5. s = SubSeq(t, 1, Len(s))
  BY <1>3, <1>4, SeqEqual
<1>6. QED
  BY <1>1, <1>5, Vocabulary DEF IsPrefix

\* A file is cut off, filled up, or added to; of the two contents one continues
\* the other.
Another(old, new) ==
  FS!IsPrefix(FS!Shorter(old, new), FS!Shorter(new, old)) /\ Len(old) # Len(new)

LEMMA ResizedSize ==
  ASSUME NEW old \in Seq(Content), NEW n \in Nat
  PROVE  Resized(old, n) = old \/ Another(old, Resized(old, n))
<1> DEFINE new == Resized(old, n)
<1>1. Len(old) \in Nat /\ new \in Seq(Content) /\ Len(new) = n
  BY ResizedType
<1>2. \A k \in 1 .. n : k <= Len(old) => new[k] = old[k]
  BY DEF Resized
<1> HIDE DEF new
<1>3. Len(old) = n => new = old
  BY <1>1, <1>2, SeqEqual
<1>4. Len(old) < n => Another(old, new)
  BY <1>1, <1>2, Continued DEF Another, FS!Shorter
<1>5. n < Len(old) => Another(old, new)
  BY <1>1, <1>2, Continued DEF Another, FS!Shorter
<1>6. QED
  BY <1>1, <1>3, <1>4, <1>5 DEF new

LEMMA AppendedSize ==
  ASSUME NEW old \in Seq(Content), NEW b \in Blocks, NEW offset
  PROVE  Another(old, WrittenAt(old, TRUE, offset, b))
<1> DEFINE new == Append(old, b)
<1>1. /\ Len(old) \in Nat /\ new \in Seq(Content) /\ Len(new) = Len(old) + 1
      /\ \A k \in 1 .. Len(old) : old[k] = new[k]
  BY DEF Content
<1> HIDE DEF new
<1>2. Another(old, new)
  BY <1>1, Continued DEF Another, FS!Shorter
<1>3. QED
  BY <1>2 DEF WrittenAt, new

\* A request changes the contents of one file: of any, by its size only, or of
\* one that the client may write.
LEMMA ShownWrites ==
  ASSUME ServerInv, NEW sv \in Servers, UNCHANGED ent, NEW i \in Inodes, NEW f \in Node,
         f = node[sv][i], f.kind = "reg", NEW d, SetNode(sv, i, [f EXCEPT !.data = d]),
         NEW c, FS!Succeeds(sv, c),
         \/ Another(f.data, d) \/ d = f.data
         \/ <<c, i>> \in {<<h.ip, h.ino>> : h \in {g \in handles[sv] : g.acc \in {"w", "rw"}}}
         \/ restarts[sv] > 0
  PROVE  FS!Looks(sv) \/ FS!Writes(sv, c)
<1>1. CASE d = f.data
  <2>1. PICK n : n = [f EXCEPT !.data = d]
    OBVIOUS
  <2>2. n = f
    BY <1>1, <2>1 DEF Node
  <2>3. SetNode(sv, i, n)
    BY <2>1
  <2>4. QED
    BY <2>2, <2>3, ShownChanges
<1>2. CASE ~(d = f.data) /\ ~FS!Looks(sv)
  <2>1. /\ i \in FS!Named(sv) /\ FS!Fills(sv, i)
        /\ Shown[sv][i].data = f.data /\ Shown'[sv][i].data = d
    BY <1>2, ShownFills, ZenonT(40)
  <2>2. Another(Shown[sv][i].data, Shown'[sv][i].data) <=> Another(f.data, d)
    BY <2>1
  <2>3. CASE Another(f.data, d)
    BY <2>1, <2>2, <2>3, Zenon DEF FS!Writes, Another, Shown
  <2>4. CASE <<c, i>> \in {<<h.ip, h.ino>> : h \in {g \in handles[sv] : g.acc \in {"w", "rw"}}}
    BY <2>1, <2>4, Zenon DEF FS!Writes
  <2>5. CASE restarts[sv] > 0
    BY <2>1, <2>5, Zenon DEF FS!Writes
  <2>6. QED
    BY <1>2, <2>3, <2>4, <2>5
<1>3. QED
  BY <1>1, <1>2

-----------------------------------------------------------------------------
(* Every request is one of the specification. *)

\* What a request of client c does to the tree that server sv shows.
Effect(sv, c) ==
  \/ FS!Looks(sv)
  \/ FS!Renames(sv, c) \/ FS!LinksSymlink(sv, c) \/ FS!Chmods(sv, c) \/ FS!Writes(sv, c)
  \/ FS!Mounts(sv) /\ FS!Succeeds(sv, c)

LEMMA QuietLooks ==
  ASSUME ServerTypeOK, NEW sv \in Servers, UNCHANGED ent, UNCHANGED node \/ ReapNodes(sv)
  PROVE  FS!Looks(sv)
<1>1. \A i \in Inodes : HasName(sv, i)' => HasName(sv, i)
  BY DEF HasName
<1>2. Stays(sv, {})
  <2>1. CASE UNCHANGED node
    BY <1>1, <2>1 DEF Stays
  <2>2. CASE ReapNodes(sv)
    BY <1>1, <2>2, ReapStays
  <2>3. QED
    BY <2>1, <2>2
<1>3. QED
  BY <1>2, StaysLooks

\* A request that makes a file.
LEMMA MakingEffect ==
  ASSUME ServerInv, NEW sv \in Servers, NEW p \in Paths, NEW c, NEW op, NEW n,
         n.uid = c, n.kind # "lnk" => n.data = <<>>,
         is_parent_dir_valid(sv, p, c, op), IsKind(sv, get_parent_path(p), "dir"),
         ~Exists(sv, p), Create(sv, p, n), FS!Succeeds(sv, c)
  PROVE  FS!Renames(sv, c)
<1>1. p \in AnyPath
  BY PathNames
<1>2. FS!Makes(sv, p, c)
  BY <1>1, ShownMakes
<1>3. FS!MayChange(sv, c, FS!get_parent_path(p))
  BY ChecksAllow, MayChange
<1>4. QED
  BY <1>2, <1>3, Zenon DEF FS!Renames

LEMMA MkdirMknodEffect ==
  ASSUME ServerInv, NEW sv \in Servers, NEW a \in mkdir_arg \cup mknod_arg,
         bb_mkdir(sv, a) \/ bb_mknod(sv, a)
  PROVE  Effect(sv, a.ip)
<1>1. CASE UNCHANGED <<ent, node>>
  BY <1>1, QuietLooks DEF Effect, ServerInv
<1>2. CASE ~UNCHANGED <<ent, node>>
  <2>1. a.path \in Paths
    BY DEF mkdir_arg, mknod_arg
  <2>2. /\ \E fd : LocksDirectory(sv, a, fd)
        /\ ~Exists(sv, a.path) /\ Answers(sv, a, "OK", None)
        /\ \E n : Create(sv, a.path, n) /\ n.uid = a.ip /\ n.data = <<>>
    BY <1>2 DEF NewFile, bb_mkdir, bb_mknod, CannotMknod, CannotCreate, DirectoryNotLocked, NotPermitted,
       LockFails, LockHangs, Returns, Hangs
  <2>3. /\ is_parent_dir_valid(sv, a.path, a.ip, a.op)
        /\ IsKind(sv, get_parent_path(a.path), "dir")
    BY <2>2 DEF LocksDirectory, dlock
  <2>4. FS!Succeeds(sv, a.ip)
    BY <2>2, Succeeds DEF ServerInv
  <2>5. QED
    BY <2>1, <2>2, <2>3, <2>4, MakingEffect DEF Effect
<1>3. QED
  BY <1>1, <1>2

LEMMA SymlinkEffect ==
  ASSUME ServerInv, NEW sv \in Servers, NEW a \in symlink_arg, bb_symlink(sv, a)
  PROVE  Effect(sv, a.ip)
<1>1. CASE UNCHANGED <<ent, node>>
  BY <1>1, QuietLooks DEF Effect, ServerInv
<1>2. CASE ~UNCHANGED <<ent, node>>
  <2>1. a.link \in Paths
    BY DEF symlink_arg
  <2>2. /\ is_parent_dir_valid(sv, a.link, a.ip, a.op) /\ ~CannotSymlink(sv, a.link)
        /\ Answers(sv, a, "OK", None)
        /\ \E n : Create(sv, a.link, n) /\ n.uid = a.ip /\ n.kind = "lnk"
    BY <1>2 DEF bb_symlink, NotPermitted, Returns, NewLink
  <2>3. ~Exists(sv, a.link) /\ IsKind(sv, get_parent_path(a.link), "dir")
    BY <2>2 DEF CannotSymlink, CannotCreate
  <2>4. FS!Succeeds(sv, a.ip)
    BY <2>2, Succeeds DEF ServerInv
  <2>5. QED
    BY <2>1, <2>2, <2>3, <2>4, MakingEffect DEF Effect
<1>3. QED
  BY <1>1, <1>2

LEMMA RemovingEffect ==
  ASSUME ServerInv, Tree, NEW sv \in Servers, NEW a \in rmdir_arg \cup unlink_arg,
         bb_rmdir(sv, a) \/ bb_unlink(sv, a)
  PROVE  Effect(sv, a.ip)
<1>1. CASE UNCHANGED <<ent, node>>
  BY <1>1, QuietLooks DEF Effect, ServerInv
<1>2. CASE ~UNCHANGED <<ent, node>>
  <2>1. a.path \in Paths /\ a.op \in {"rmdir", "unlink"}
    BY DEF rmdir_arg, unlink_arg
  <2>2. /\ \E fd : LocksDirectory(sv, a, fd)
        /\ Removes(sv, a) /\ (CanRmdir(sv, a.path) \/ CanUnlink(sv, a.path))
    BY <1>2 DEF bb_rmdir, bb_unlink, DirectoryNotLocked, NotPermitted, LockFails, LockHangs,
       Returns, Hangs
  <2>3. /\ is_parent_dir_valid(sv, a.path, a.ip, a.op)
        /\ IsKind(sv, get_parent_path(a.path), "dir")
    BY <2>2 DEF LocksDirectory, dlock
  <2>4. FS!Succeeds(sv, a.ip)
    BY <2>2, Succeeds DEF ServerInv, Removes
  <2>5. FS!Removes(sv, a.ip, a.path)
    BY <2>1, <2>2, <2>3, ShownRemoves
  <2>6. FS!MayChange(sv, a.ip, FS!get_parent_path(a.path))
    BY <2>1, <2>3, ChecksAllow, MayChange
  <2>7. QED
    BY <2>1, <2>4, <2>5, <2>6, Zenon DEF Effect, FS!Renames
<1>3. QED
  BY <1>1, <1>2

\* The link that gets a second name is followed from there.
LEMMA LinkFollowed ==
  ASSUME ServerInv, NEW sv \in Servers, NEW p \in AnyPath, NEW q \in AnyPath, CanLink(sv, p, q),
         ent' = [ent EXCEPT ![sv] = [@ EXCEPT ![q] = ent[sv][p]]]
  PROVE  /\ FS!Followed(ent'[sv], Shown[sv], q) = Followed(ent'[sv], node[sv], q)
         /\ ~IsKind(sv, p, "lnk") => Followed(ent'[sv], node[sv], q) = q
         /\ ent'[sv][q] = ent[sv][p]
         /\ \A r \in AnyPath : ent'[sv][r] # None =>
              ent'[sv][r] \in Inodes /\ Shown[sv][ent'[sv][r]] = node[sv][ent'[sv][r]]
<1>1. Exists(sv, p)
  BY DEF CanLink
<1>2. \A r \in AnyPath : ent'[sv][r] = IF r = q THEN ent[sv][p] ELSE ent[sv][r]
  BY DEF ServerInv, ServerTypeOK
<1>3. \A r \in AnyPath : Exists(sv, r) => /\ ent[sv][r] \in Inodes
                                          /\ Shown[sv][ent[sv][r]] = node[sv][ent[sv][r]]
  BY SeenFile, BackedFiles DEF File
<1>4. \A r \in AnyPath : ent'[sv][r] # None =>
        ent'[sv][r] \in Inodes /\ Shown[sv][ent'[sv][r]] = node[sv][ent'[sv][r]]
  BY <1>1, <1>2, <1>3 DEF Exists
<1>5. FS!Followed(ent'[sv], Shown[sv], q) = Followed(ent'[sv], node[sv], q)
  <2>1. PICK e, m, n : e = ent'[sv] /\ m = Shown[sv] /\ n = node[sv]
    OBVIOUS
  <2>2. \A r \in AnyPath : e[r] # None => m[e[r]] = n[e[r]]
    BY <1>4, <2>1
  <2>3. Followed(e, m, q) = Followed(e, n, q)
    BY <2>2, FollowedAlike
  <2>4. QED
    BY <2>1, <2>3, SameFollowed
<1>6. ASSUME ~IsKind(sv, p, "lnk")
      PROVE  Followed(ent'[sv], node[sv], q) = q
  <2>1. ent'[sv][q] # None /\ node[sv][ent'[sv][q]].kind # "lnk"
    BY <1>1, <1>2, <1>6 DEF IsKind, Exists, File
  <2>2. QED
    BY <2>1, NotFollowed
<1>7. QED
  BY <1>2, <1>4, <1>5, <1>6

\* The owner changes with the second name; of a symbolic link, that of the file
\* to which it leads.
LEMMA LinkEffect ==
  ASSUME ServerInv, Tree, NEW sv \in Servers, NEW a \in link_arg, bb_link(sv, a)
  PROVE  Effect(sv, a.ip)
<1> DEFINE p == a.path
           q == a.newpath
<1>1. p \in Paths /\ q \in Paths /\ p \in AnyPath /\ q \in AnyPath
  BY PathNames DEF link_arg
<1>2. CASE UNCHANGED <<ent, node>>
  BY <1>2, QuietLooks DEF Effect, ServerInv
<1>3. CASE ~UNCHANGED <<ent, node>>
  <2>1. /\ is_parent_dir_valid(sv, p, a.ip, a.op) /\ is_parent_dir_valid(sv, q, a.ip, a.op)
        /\ CanLink(sv, p, q)
        /\ ent' = [ent EXCEPT ![sv] = [@ EXCEPT ![q] = ent[sv][p]]]
        /\ LinkOwns(sv, a)
    BY <1>3, LinkCases DEF Returns
  <2>2. Exists(sv, p) /\ File(sv, p) \in Node /\ ent[sv][p] \in Inodes
    BY <1>1, <2>1, BackedFiles DEF CanLink
  <2>3. IsKind(sv, get_parent_path(p), "dir") /\ IsKind(sv, get_parent_path(q), "dir")
    <3>1. p \in Name /\ p # Root /\ get_parent_path(p) \in Name
      BY <1>1, PathNames, AboveParent
    <3>2. IsStrictPrefix(get_parent_path(p), p)
      BY <3>1, AboveParent, PrefixOrder
    <3>3. QED
      BY <1>1, <2>1, <2>2, <3>1, <3>2 DEF CanLink, Tree
  <2>4. /\ FS!MayChange(sv, a.ip, FS!get_parent_path(p))
        /\ FS!MayChange(sv, a.ip, FS!get_parent_path(q))
    BY <1>1, <2>1, <2>3, ChecksAllow, MayChange
  <2>5. PICK to, i : to = FS!Followed(ent'[sv], Shown[sv], q) /\ i = ent'[sv][to]
    OBVIOUS
  <2>6. /\ FS!Followed(ent'[sv], Shown[sv], q) = Followed(ent'[sv], node[sv], q)
        /\ ~IsKind(sv, p, "lnk") => Followed(ent'[sv], node[sv], q) = q
        /\ ent'[sv][q] = ent[sv][p]
        /\ \A r \in AnyPath : ent'[sv][r] # None =>
             ent'[sv][r] \in Inodes /\ Shown[sv][ent'[sv][r]] = node[sv][ent'[sv][r]]
    BY <1>1, <2>1, LinkFollowed
  <2>7. to # None => to \in AnyPath /\ ent'[sv][to] # None
    BY <2>5, <2>6, FollowedFile
  <2>8. \/ to = None /\ Answers(sv, a, "ERR", None) /\ UNCHANGED node
        \/ /\ to # None /\ Answers(sv, a, "OK", None)
           /\ SetNode(sv, i, [node[sv][i] EXCEPT !.uid = a.ip])
    BY <2>1, <2>5, <2>6 DEF LinkOwns
  <2>9. IsKind(sv, p, "lnk") => FS!IsLink(sv, p)
    BY <1>1, <2>2, SeenFile
  <2>10. CASE to = None
    <3>1. Answers(sv, a, "ERR", None) /\ UNCHANGED node
      BY <2>8, <2>10
    <3>2. IsKind(sv, p, "lnk")
      BY <1>1, <2>5, <2>6, <2>10, PathsAssumption
    <3>3. FS!Doubles(sv, p, q, {})
      BY <1>1, <2>1, <3>1, ShownDoubles
    <3>4. reply'[sv].ip = a.ip /\ reply'[sv].ret = "ERR"
      BY <3>1, AnswersReply DEF ServerInv
    <3>5. FS!DoublesLink(sv, a.ip, p, q)
      BY <2>5, <2>9, <2>10, <3>2, <3>3, <3>4, Zenon DEF FS!DoublesLink, Shown
    <3>6. QED
      BY <1>1, <2>4, <3>5, Zenon DEF FS!LinksSymlink, Effect
  <2>11. CASE to # None
    <3>1. Answers(sv, a, "OK", None) /\ SetNode(sv, i, [node[sv][i] EXCEPT !.uid = a.ip])
      BY <2>8, <2>11
    <3>2. i \in Inodes /\ Shown[sv][i] = node[sv][i] /\ HasName(sv, i)'
      BY <2>5, <2>6, <2>7, <2>11 DEF HasName
    <3>3. /\ node'[sv][i] = [node[sv][i] EXCEPT !.uid = a.ip]
          /\ \A j \in Inodes \ {i} : node'[sv][j] = node[sv][j]
      BY <3>1, <3>2 DEF SetNode, ServerInv, ServerTypeOK
    <3>4. Shown'[sv][i] = [Shown[sv][i] EXCEPT !.uid = a.ip]
      BY <3>2, <3>3 DEF Shown, HasName
    <3>5. FS!Succeeds(sv, a.ip)
      BY <3>1, Succeeds DEF ServerInv
    <3>6. CASE IsKind(sv, p, "lnk")
      <4> DEFINE j == ent'[sv][FS!Followed(ent'[sv], Shown[sv], q)]
      <4>1. FS!Doubles(sv, p, q, {j})
        <5>1. PICK S : S = {i} /\ S = {j}
          BY <2>5
        <5>2. FS!Doubles(sv, p, q, S)
          BY <1>1, <2>1, <3>3, <5>1, ShownDoubles
        <5>3. QED
          BY <5>1, <5>2, Zenon DEF FS!Doubles, FS!KeepsAllBut, Shown
      <4>2. reply'[sv].ip = a.ip /\ reply'[sv].ret = "OK"
        BY <3>1, AnswersReply DEF ServerInv
      <4>3. FS!DoublesLink(sv, a.ip, p, q)
        <5>1. Shown'[sv][j] = [Shown[sv][j] EXCEPT !.uid = a.ip]
          BY <2>5, <3>4
        <5>2. FS!Followed(ent'[sv], Shown[sv], q) # None
          BY <2>5, <2>11
        <5>3. QED
          BY <2>9, <3>6, <4>1, <4>2, <5>1, <5>2, Zenon DEF FS!DoublesLink, Shown
      <4>4. QED
        BY <1>1, <2>4, <4>3, Zenon DEF FS!LinksSymlink, Effect
    <3>7. CASE ~IsKind(sv, p, "lnk")
      <4>1. i = ent[sv][p] /\ node[sv][i] = File(sv, p)
        BY <2>5, <2>6, <3>7 DEF File
      <4>2. FS!Links(sv, a.ip, p, q)
        BY <1>1, <2>1, <3>3, <3>7, <4>1, ShownLinks
      <4>3. QED
        BY <1>1, <2>4, <3>5, <4>2, Zenon DEF Effect, FS!Renames
    <3>8. QED
      BY <3>6, <3>7
  <2>12. QED
    BY <2>10, <2>11
<1>4. QED
  BY <1>2, <1>3

LEMMA RenameEffects ==
  ASSUME ServerInv, Tree, NEW sv \in Servers, NEW a \in rename_arg, bb_rename(sv, a)
  PROVE  Effect(sv, a.ip)
<1> DEFINE p == a.path
           q == a.newpath
<1>1. p \in Paths /\ q \in Paths /\ p \in AnyPath /\ q \in AnyPath
  BY PathNames DEF rename_arg
<1>2. CASE UNCHANGED <<ent, node>>
  BY <1>2, QuietLooks DEF Effect, ServerInv
<1>3. CASE ~UNCHANGED <<ent, node>>
  <2>1. /\ RenamePermitted(sv, a) /\ RenameEffect(sv, a)
        /\ IsKind(sv, get_parent_path(p), "dir") /\ IsKind(sv, get_parent_path(q), "dir")
    BY <1>3 DEF bb_rename, LockFails, LockHangs, RenameSecondParent, Returns, Hangs, OneParent,
       LocksDirectory, dlock
  <2>2. /\ CanRename(sv, p, q) /\ RenameFits(sv, p, q)
        /\ ent' = [ent EXCEPT ![sv] = Renamed(sv, p, q)]
        /\ ReapNodes(sv) /\ Answers(sv, a, "OK", None)
    BY <1>3, <2>1 DEF RenameEffect
  <2>3. CASE ent[sv][p] = ent[sv][q]
    <3>1. UNCHANGED ent
      BY <2>2, <2>3 DEF Renamed, ServerInv, ServerTypeOK
    <3>2. QED
      BY <2>2, <3>1, QuietLooks DEF Effect, ServerInv
  <2>4. CASE ent[sv][p] # ent[sv][q]
    <3>1. FS!Moves(sv, p, q)
      BY <1>1, <2>1, <2>2, <2>4, ShownMoves
    <3>2. /\ FS!MayChange(sv, a.ip, FS!get_parent_path(p))
          /\ FS!MayChange(sv, a.ip, FS!get_parent_path(q))
      BY <1>1, <2>1, ChecksAllow, MayChange DEF RenamePermitted
    <3>3. FS!Succeeds(sv, a.ip)
      BY <2>2, Succeeds DEF ServerInv
    <3>4. QED
      BY <1>1, <3>1, <3>2, <3>3, Zenon DEF Effect, FS!Renames
  <2>5. QED
    BY <2>3, <2>4
<1>4. QED
  BY <1>2, <1>3

LEMMA InitEffect ==
  ASSUME ServerInv, NEW sv \in Servers, NEW a \in init_arg, init_rootdir(sv, a)
  PROVE  Effect(sv, a.ip)
<1>1. FS!Succeeds(sv, a.ip)
  BY Succeeds DEF init_rootdir, ServerInv
<1>2. CASE ~Exists(sv, Root)
  <2>1. PICK n : n = NewFile("dir", RootUid, FullMode)
    OBVIOUS
  <2>2. Create(sv, Root, n) /\ n.kind = "dir" /\ n.uid = RootUid
    BY <1>2, <2>1 DEF init_rootdir, NewFile
  <2>3. QED
    BY <1>1, <1>2, <2>2, ShownMountsNew DEF Effect
<1>3. CASE Exists(sv, Root)
  BY <1>1, <1>3, ShownMountsAgain DEF init_rootdir, Effect
<1>4. QED
  BY <1>2, <1>3

LEMMA ChmodEffect ==
  ASSUME ServerInv, NEW sv \in Servers, NEW a \in chmod_arg, bb_chmod(sv, a)
  PROVE  Effect(sv, a.ip)
<1>1. CASE Returns(sv, a, "EACCES") \/ Returns(sv, a, "ERR")
  BY <1>1, QuietLooks DEF Effect, ServerInv, Returns
<1>2. CASE /\ is_owner(sv, a.path, a.ip) /\ LeadsTo(sv, a.path) # None
           /\ SetsMode(sv, a, LeadsTo(sv, a.path))
  <2>1. a.path \in Paths
    BY DEF chmod_arg
  <2>2. FS!Succeeds(sv, a.ip)
    BY <1>2, Succeeds DEF ServerInv, SetsMode
  <2>3. QED
    BY <1>2, <2>1, <2>2, ShownChmods DEF Effect, SetsMode
<1>3. QED
  BY <1>1, <1>2 DEF bb_chmod

LEMMA TruncateEffect ==
  ASSUME ServerInv, NEW sv \in Servers, NEW a \in truncate_arg, bb_truncate(sv, a)
  PROVE  Effect(sv, a.ip)
<1>1. CASE Returns(sv, a, "ERR")
  BY <1>1, QuietLooks DEF Effect, ServerInv, Returns
<1> DEFINE p == LeadsTo(sv, a.path)
<1>2. CASE /\ p # None /\ IsKind(sv, p, "reg") /\ Answers(sv, a, "OK", None) /\ UNCHANGED ent
           /\ SetNode(sv, ent[sv][p], [File(sv, p) EXCEPT !.data = Resized(@, a.newsize)])
  <2>1. p \in AnyPath /\ a.newsize \in Nat
    BY <1>2, LeadsToFollowed, MaxLenAssumption DEF truncate_arg
  <2>2. PICK i \in Inodes, f \in Node : i = ent[sv][p] /\ f = File(sv, p)
    BY <1>2, <2>1, BackedFiles
  <2>3. f = node[sv][i] /\ f.kind = "reg" /\ f.data \in Seq(Content)
    BY <1>2, <2>2 DEF File, IsKind, Node
  <2>4. PICK d : d = Resized(f.data, a.newsize)
    OBVIOUS
  <2>5. Another(f.data, d) \/ d = f.data
    BY <2>1, <2>3, <2>4, ResizedSize
  <2>6. SetNode(sv, i, [f EXCEPT !.data = d])
    BY <1>2, <2>2, <2>4
  <2>7. FS!Succeeds(sv, a.ip)
    BY <1>2, Succeeds DEF ServerInv
  <2>8. QED
    BY <1>2, <2>3, <2>5, <2>6, <2>7, ShownWrites DEF Effect
<1>3. QED
  BY <1>1, <1>2 DEF bb_truncate, LeadsToFile

\* Who has which file open for writing.
Writers(sv) == {<<h.ip, h.ino>> : h \in {g \in handles[sv] : g.acc \in {"w", "rw"}}}

LEMMA WriteDirectEffect ==
  ASSUME ServerInv, NEW sv \in Servers, NEW a, WriteDirect(sv, a), a.fd \in Fds,
         <<a.ip, fdt[sv][a.fd].ino>> \in Writers(sv) \/ restarts[sv] > 0
  PROVE  Effect(sv, a.ip)
<1>1. CASE UNCHANGED <<ent, node>>
  BY <1>1, QuietLooks DEF Effect, ServerInv
<1>2. CASE ~UNCHANGED <<ent, node>>
  <2>1. /\ IsOpen(sv, a.fd) /\ FileOf(sv, a.fd).kind = "reg" /\ UNCHANGED ent
        /\ SetNode(sv, fdt[sv][a.fd].ino,
                   [FileOf(sv, a.fd) EXCEPT
                      !.data = WrittenAt(@, fdt[sv][a.fd].append, a.offset, a.buffer)])
        /\ Answers(sv, a, "OK", None)
    BY <1>2 DEF WriteDirect, FlockHangs, Hangs, CanPwrite
  <2>2. PICK i \in Inodes, f \in Node : i = fdt[sv][a.fd].ino /\ f = FileOf(sv, a.fd)
    BY <2>1, BackedFiles
  <2>3. f = node[sv][i] /\ f.kind = "reg"
    BY <2>1, <2>2 DEF FileOf
  <2>4. PICK d : d = WrittenAt(f.data, fdt[sv][a.fd].append, a.offset, a.buffer)
    OBVIOUS
  <2>5. SetNode(sv, i, [f EXCEPT !.data = d])
    BY <2>1, <2>2, <2>4
  <2>6. FS!Succeeds(sv, a.ip)
    BY <2>1, Succeeds DEF ServerInv
  <2>7. <<a.ip, i>> \in Writers(sv) \/ restarts[sv] > 0
    BY <2>2
  <2>8. QED
    BY <2>1, <2>3, <2>5, <2>6, <2>7, ShownWrites DEF Effect, Writers
<1>3. QED
  BY <1>1, <1>2

LEMMA WriteSecondaryEffect ==
  ASSUME ServerInv, NEW sv \in Servers, NEW a, WriteSecondary(sv, a), a.path \in Paths,
         a.buffer \in Blocks
  PROVE  Effect(sv, a.ip)
<1>1. CASE UNCHANGED <<ent, node>>
  BY <1>1, QuietLooks DEF Effect, ServerInv
<1>2. CASE ~UNCHANGED <<ent, node>>
  <2> DEFINE p == LeadsTo(sv, a.path)
  <2>1. /\ CanOpen(sv, a.path, "w") /\ CanPwrite(File(sv, p), TRUE, a.offset)
        /\ UNCHANGED ent
        /\ SetNode(sv, ent[sv][p],
                   [File(sv, p) EXCEPT !.data = WrittenAt(@, TRUE, a.offset, a.buffer)])
        /\ Answers(sv, a, "OK", None)
    BY <1>2 DEF WriteSecondary, Returns
  <2>2. p \in AnyPath /\ IsKind(sv, p, "reg")
    BY <2>1, LeadsToFollowed DEF CanOpen
  <2>3. PICK i \in Inodes, f \in Node : i = ent[sv][p] /\ f = File(sv, p)
    BY <2>2, BackedFiles
  <2>4. f = node[sv][i] /\ f.kind = "reg" /\ f.data \in Seq(Content)
    BY <2>2, <2>3 DEF File, IsKind, Node
  <2>5. PICK d : d = WrittenAt(f.data, TRUE, a.offset, a.buffer)
    OBVIOUS
  <2>6. Another(f.data, d)
    BY <2>4, <2>5, AppendedSize
  <2>7. SetNode(sv, i, [f EXCEPT !.data = d])
    BY <2>1, <2>3, <2>5
  <2>8. FS!Succeeds(sv, a.ip)
    BY <2>1, Succeeds DEF ServerInv
  <2>9. QED
    BY <2>1, <2>4, <2>6, <2>7, <2>8, ShownWrites DEF Effect
<1>3. QED
  BY <1>1, <1>2

\* The other requests change no name and no file that has one.
LEMMA OtherEffect ==
  ASSUME ServerTypeOK, NEW sv \in Servers, NEW a, compute_6(sv, a),
         a.op \in {"getattr", "access", "opendir", "readdir", "releasedir", "readlink", "utime",
                   "open", "release", "read", "statfs"}
  PROVE  FS!Looks(sv)
<1>1. UNCHANGED ent /\ (UNCHANGED node \/ ReapNodes(sv))
  BY DEF compute_6, bb_getattr, bb_access, bb_opendir, bb_readdir, bb_releasedir, bb_readlink,
     bb_utime, bb_open, bb_release, bb_read, bb_statfs, Returns, FlockHangs, Hangs, Close
<1>2. QED
  BY <1>1, QuietLooks

\* A write by descriptor must be one the client may make.
LEMMA RequestEffect ==
  ASSUME ServerInv, Tree, NEW sv \in Servers, NEW a \in Requests, compute_6(sv, a),
         a.op = "write" /\ ~Secondary(a.server_info) =>
           <<a.ip, fdt[sv][a.fd].ino>> \in Writers(sv) \/ restarts[sv] > 0
  PROVE  Effect(sv, a.ip)
<1>1. CASE a.op = "init_rootdir"
  BY <1>1, RequestKinds, InitEffect DEF compute_6
<1>2. CASE a.op \in {"mkdir", "mknod"}
  BY <1>2, RequestKinds, MkdirMknodEffect DEF compute_6
<1>3. CASE a.op \in {"rmdir", "unlink"}
  BY <1>3, RequestKinds, RemovingEffect DEF compute_6
<1>4. CASE a.op = "symlink"
  BY <1>4, RequestKinds, SymlinkEffect DEF compute_6
<1>5. CASE a.op = "link"
  BY <1>5, RequestKinds, LinkEffect DEF compute_6
<1>6. CASE a.op = "rename"
  BY <1>6, RequestKinds, RenameEffects DEF compute_6
<1>7. CASE a.op = "chmod"
  BY <1>7, RequestKinds, ChmodEffect DEF compute_6
<1>8. CASE a.op = "truncate"
  BY <1>8, RequestKinds, TruncateEffect DEF compute_6
<1>9. CASE a.op = "write"
  <2>1. bb_write(sv, a) /\ a \in write_arg
    BY <1>9, RequestKinds DEF compute_6
  <2>2. a.fd \in Fds /\ a.path \in Paths /\ a.buffer \in Blocks
    BY <2>1 DEF write_arg
  <2>3. QED
    BY <1>9, <2>1, <2>2, WriteDirectEffect, WriteSecondaryEffect DEF bb_write
<1>10. CASE a.op \in {"getattr", "access", "opendir", "readdir", "releasedir", "readlink",
                      "utime", "open", "release", "read", "statfs"}
  BY <1>10, OtherEffect DEF Effect, ServerInv
<1>11. QED
  BY <1>1, <1>2, <1>3, <1>4, <1>5, <1>6, <1>7, <1>8, <1>9, <1>10 DEF compute_6

-----------------------------------------------------------------------------
(* Every step of the system is one of the specification. *)

LEMMA RequestSeen ==
  ASSUME NEW sv \in Servers, NEW c, Effect(sv, c), UNCHANGED restarts,
         Writers(sv)' \subseteq Writers(sv)
  PROVE  FS!Request(sv, c)
BY DEF FS!Request, Effect, Writers

LEMMA CallSeen ==
  ASSUME IInv, Tree, NEW sv \in Servers, NEW a \in Calls, Call(sv, a)
  PROVE  FS!Request(sv, a.ip)
<1>1. Effect(sv, a.ip)
  BY RequestEffect, CallsAssumption DEF Call, ByPath, IInv
<1>2. Writers(sv)' = Writers(sv)
  BY DEF Call, Writers
<1>3. QED
  BY <1>1, <1>2, RequestSeen DEF Call

\* Only an open for writing adds a writer, and it needs the right.
LEMMA OpenGrants ==
  ASSUME ServerInv, NEW sv \in Servers, NEW a \in open_arg, bb_open(sv, a), a.acc \in {"w", "rw"},
         reply'[sv].ret = "OK",
         Writers(sv)' \subseteq Writers(sv) \cup {<<a.ip, ent[sv][LeadsTo(sv, a.path)]>>}
  PROVE  FS!Grants(sv, a.ip) /\ FS!Succeeds(sv, a.ip)
<1>1. a.path \in AnyPath /\ a.path \in Paths
  BY PathNames DEF open_arg
<1>2. /\ is_op_valid(sv, a.path, a.ip, Needs(a.acc)) /\ LeadsTo(sv, a.path) # None
      /\ \E fd : Answers(sv, a, "OK", fd)
  <2>1. \A ret : Returns(sv, a, ret) => reply'[sv].ret = ret
    BY AnswersReply DEF Returns, ServerInv
  <2>2. QED
    BY <2>1 DEF bb_open, CanOpen
<1>3. FS!Succeeds(sv, a.ip)
  BY <1>2, Succeeds DEF ServerInv
<1>4. Exists(sv, a.path) /\ "w" \in Rights(File(sv, a.path), a.ip)
  BY <1>2 DEF is_op_valid, Needs
<1>5. FS!IsFile(sv, a.path) /\ FS!FileAt(sv, a.path) = File(sv, a.path)
  BY <1>1, <1>4, Seen, SeenFile
<1>6. FS!Leads(sv, a.path) # None /\ FS!Led(sv, a.path) = ent[sv][LeadsTo(sv, a.path)]
  BY <1>1, <1>2, SeenLead
<1>7. Writers(sv)' \subseteq Writers(sv) \cup {<<a.ip, FS!Led(sv, a.path)>>}
  BY <1>6
<1>8. PICK f : f = FS!FileAt(sv, a.path)
  OBVIOUS
<1>9. "w" \in IF f.uid = a.ip THEN f.mode.u ELSE f.mode.o
  BY <1>4, <1>5, <1>8 DEF Rights
<1>10. FS!Grants(sv, a.ip)
  BY <1>1, <1>5, <1>6, <1>7, <1>8, <1>9, Zenon DEF FS!Grants, Writers
<1>11. QED
  BY <1>3, <1>10

LEMMA OpenSeen ==
  ASSUME IInv, NEW sv \in Servers, NEW a \in Calls, Open(sv, a)
  PROVE  FS!Request(sv, a.ip)
<1>1. compute_6(sv, a) /\ UNCHANGED restarts /\ a \in Requests /\ ServerTypeOK
  BY CallsAssumption DEF Open, IInv, ServerInv
<1>2. FS!Looks(sv)
  BY <1>1, OtherEffect DEF Open
<1>3. CASE reply'[sv].ret # "OK" \/ a.op = "opendir" \/ a.acc \notin {"w", "rw"}
  <2>1. \A h \in handles'[sv] \ handles[sv] : h.acc \notin {"w", "rw"}
    BY <1>3 DEF Open, HandleOn, IInv, SystemTypes
  <2>2. Writers(sv)' \subseteq Writers(sv)
    BY <2>1 DEF Writers
  <2>3. QED
    BY <1>1, <1>2, <2>2, RequestSeen DEF Effect
<1>4. CASE reply'[sv].ret = "OK" /\ a.op = "open" /\ a.acc \in {"w", "rw"}
  <2>1. a \in open_arg /\ bb_open(sv, a)
    BY <1>1, <1>4, RequestKinds DEF compute_6
  <2>2. \A h \in handles'[sv] \ handles[sv] : h.ip = a.ip /\ h.ino = ent[sv][LeadsTo(sv, a.path)]
    BY DEF Open, HandleOn, IInv, SystemTypes
  <2>3. Writers(sv)' \subseteq Writers(sv) \cup {<<a.ip, ent[sv][LeadsTo(sv, a.path)]>>}
    BY <2>2 DEF Writers
  <2>4. FS!Grants(sv, a.ip) /\ FS!Succeeds(sv, a.ip)
    BY <1>4, <2>1, <2>3, OpenGrants DEF IInv
  <2>5. QED
    BY <1>1, <1>2, <2>4 DEF FS!Request
<1>5. QED
  BY <1>3, <1>4 DEF Open

\* As long as its server has not died, a descriptor leads to the file its
\* client has open.
LEMMA UseHandleSeen ==
  ASSUME IInv, Tree, NEW sv \in Servers, NEW h \in handles[sv], UseHandle(sv, h)
  PROVE  FS!Request(sv, h.ip)
<1>1. h \in Handle /\ UNCHANGED restarts
  BY DEF IInv, SystemTypes, UseHandle, Read, Write, Readdir, Release
<1>2. Writers(sv)' \subseteq Writers(sv)
  BY DEF UseHandle, Read, Write, Readdir, Release, Writers, IInv, SystemTypes
<1>3. ASSUME NEW a \in Requests, compute_6(sv, a), a.ip = h.ip,
             a.op = "write" => a.fd = h.fd /\ h.acc \in {"w", "rw"}
      PROVE  FS!Request(sv, h.ip)
  <2>1. restarts[sv] = 0 \/ restarts[sv] > 0
    BY DEF IInv, SystemTypes
  <2>2. CASE a.op = "write"
    <3>1. restarts[sv] = 0 => <<a.ip, fdt[sv][a.fd].ino>> \in Writers(sv)
      BY <1>3, <2>2 DEF IInv, HandleIntegrity, Writers
    <3>2. Effect(sv, h.ip)
      BY <1>3, <2>1, <3>1, RequestEffect DEF IInv
    <3>3. QED
      BY <1>1, <1>2, <3>2, RequestSeen
  <2>3. CASE a.op # "write"
    BY <1>1, <1>2, <1>3, <2>3, RequestEffect, RequestSeen DEF IInv
  <2>4. QED
    BY <2>2, <2>3
<1>4. CASE Write(sv, h)
  <2>1. PICK offset \in 0 .. MaxLen, block \in Blocks :
          compute_6(sv, [op |-> "write", ip |-> h.ip, fd |-> h.fd, path |-> h.path,
                         offset |-> offset, buffer |-> block, server_info |-> Direct])
    BY <1>4 DEF Write
  <2> DEFINE a == [op |-> "write", ip |-> h.ip, fd |-> h.fd, path |-> h.path,
                   offset |-> offset, buffer |-> block, server_info |-> Direct]
  <2>2. a \in Requests /\ a.ip = h.ip /\ a.fd = h.fd /\ h.acc \in {"w", "rw"}
    BY <1>1, <1>4, HandleRequests DEF Write
  <2> HIDE DEF a
  <2>3. compute_6(sv, a)
    BY <2>1 DEF a
  <2>4. QED
    BY <1>3, <2>2, <2>3
<1>5. CASE Read(sv, h)
  <2>1. PICK offset \in 0 .. MaxLen :
          compute_6(sv, [op |-> "read", ip |-> h.ip, fd |-> h.fd, offset |-> offset])
    BY <1>5 DEF Read
  <2>2. QED
    BY <1>1, <1>3, <2>1, HandleRequests
<1>6. CASE Readdir(sv, h)
  BY <1>1, <1>3, <1>6, HandleRequests DEF Readdir
<1>7. CASE Release(sv, h)
  <2>1. \E op \in {"release", "releasedir"} :
          compute_6(sv, [op |-> op, ip |-> h.ip, fd |-> h.fd])
    BY <1>7 DEF Release
  <2>2. QED
    BY <1>1, <1>3, <2>1, HandleRequests
<1>8. QED
  BY <1>4, <1>5, <1>6, <1>7 DEF UseHandle

\* Where a server dies in the middle of a request, the file has been made and
\* still belongs to the server's own user.
LEMMA HalfMadeSeen ==
  ASSUME ServerInv, NEW sv \in Servers, restarts'[sv] > 0, NEW p \in Paths, ~Exists(sv, p),
         IsKind(sv, get_parent_path(p), "dir"), NEW n, n.uid = RootUid,
         n.kind # "lnk" => n.data = <<>>, HalfMade(sv, p, n)
  PROVE  FS!Crashes(sv)
<1>1. p \in AnyPath /\ get_parent_path(p) \in AnyPath
  BY ParentType
<1>2. FS!Makes(sv, p, RootUid)
  BY <1>1, ShownMakes
<1>3. FS!IsDir(sv, FS!get_parent_path(p))
  BY <1>1, SeenDirectory, Vocabulary
<1>4. QED
  BY <1>2, <1>3, Zenon DEF FS!Crashes

LEMMA RebootSeen ==
  ASSUME IInv, NEW sv \in Servers, Reboots(sv)
  PROVE  FS!Crashes(sv)
<1>1. restarts'[sv] > 0
  BY RebootSteps, BoundsAssumption DEF IInv, SystemTypes
<1>2. CASE Reboot(sv)
  <2>1. FS!Looks(sv)
    BY <1>2, QuietLooks DEF Reboot, Restart, IInv, ServerInv
  <2>2. QED
    BY <1>1, <2>1 DEF FS!Crashes
<1>3. CASE \E a \in Calls : RebootHalfway(sv, a)
  <2>1. PICK a \in Requests : DiesHalfway(sv, a)
    BY <1>3, CallsAssumption DEF RebootHalfway
  <2>2. CASE /\ ~Exists(sv, Root)
             /\ HalfMade(sv, Root, NewFile("dir", RootUid, Masked(FullMode)))
    <3>1. PICK n : n = NewFile("dir", RootUid, Masked(FullMode))
      OBVIOUS
    <3>2. FS!Mounts(sv)
      BY <2>2, <3>1, ShownMountsNew DEF NewFile, IInv
    <3>3. QED
      BY <1>1, <3>2 DEF FS!Crashes
  <2>3. CASE a.op \in {"mkdir", "mknod", "symlink"}
    <3>1. PICK p \in Paths :
            /\ ~Exists(sv, p) /\ IsKind(sv, get_parent_path(p), "dir")
            /\ \E n : /\ HalfMade(sv, p, n) /\ n.uid = RootUid
                      /\ n.kind # "lnk" => n.data = <<>>
      <4>1. CASE a.op \in {"mkdir", "mknod"}
        <5>1. a.path \in Paths
          BY <4>1, RequestKinds DEF mkdir_arg, mknod_arg
        <5>2. QED
          BY <2>1, <4>1, <5>1 DEF NewFile, DiesHalfway, CanLock, dlock, CannotMknod, CannotCreate
      <4>2. CASE a.op = "symlink"
        <5>1. a.link \in Paths
          BY <4>2, RequestKinds DEF symlink_arg
        <5>2. QED
          BY <2>1, <4>2, <5>1 DEF NewLink, DiesHalfway, CannotSymlink, CannotCreate
      <4>3. QED
        BY <2>3, <4>1, <4>2
    <3>2. QED
      BY <1>1, <3>1, HalfMadeSeen DEF IInv
  <2>4. CASE a.op = "link"
    <3> DEFINE p == a.path
               q == a.newpath
    <3>1. p \in Paths /\ q \in Paths /\ p \in AnyPath /\ q \in AnyPath
      BY <2>4, RequestKinds, PathNames DEF link_arg
    <3>2. /\ CanLink(sv, p, q) /\ ReapNodes(sv)
          /\ ent' = [ent EXCEPT ![sv] = [@ EXCEPT ![q] = ent[sv][p]]]
      BY <2>1, <2>4 DEF DiesHalfway
    <3>3. \A r \in AnyPath : ent'[sv][r] = IF r = q THEN ent[sv][p] ELSE ent[sv][r]
      BY <3>2 DEF IInv, ServerInv, ServerTypeOK
    <3>4. \A i \in Inodes : HasName(sv, i)' => HasName(sv, i)
      BY <3>1, <3>3 DEF HasName
    <3>5. \A i \in Inodes : HasName(sv, i)' => node'[sv][i] = node[sv][i]
      BY <3>2, <3>4, ReapStays DEF Stays, IInv, ServerInv
    <3>6. FS!Doubles(sv, p, q, {})
      BY <3>1, <3>2, <3>5, ShownDoubles DEF IInv
    <3>7. QED
      BY <1>1, <3>1, <3>6, Zenon DEF FS!Crashes
  <2>5. QED
    BY <2>1, <2>2, <2>3, <2>4 DEF DiesHalfway
<1>4. QED
  BY <1>2, <1>3 DEF Reboots

\* What the other servers keep and show does not change.
LEMMA RebootElsewhere ==
  ASSUME IInv, NEW sv \in Servers, Reboots(sv), NEW s \in Servers \ {sv}
  PROVE  ent'[s] = ent[s] /\ node'[s] = node[s]
<1>1. ent \in [Servers -> [AnyPath -> Inodes \cup {None}]] /\ DOMAIN node = Servers
  BY DEF IInv, ServerInv, ServerTypeOK
<1>2. CASE Reboot(sv)
  BY <1>1, <1>2 DEF Reboot, Restart, ReapNodes
<1>3. CASE \E a \in Calls : RebootHalfway(sv, a)
  BY <1>1, <1>3 DEF RebootHalfway, DiesHalfway, HalfMade, ReapNodes
<1>4. QED
  BY <1>2, <1>3 DEF Reboots

LEMMA ElsewhereSame ==
  ASSUME NEW sv \in Servers,
         \A s \in Servers \ {sv} :
           /\ ent'[s] = ent[s] /\ node'[s] = node[s] /\ handles'[s] = handles[s]
           /\ restarts'[s] = restarts[s] /\ reply'[s] = reply[s]
  PROVE  FS!Elsewhere(sv)
BY DEF FS!Elsewhere

LEMMA StepSeen ==
  ASSUME IInv, Tree, Next
  PROVE  FS!Next
<1>1. PICK sv \in Servers : \/ \E a \in Calls : Call(sv, a) \/ Open(sv, a)
                            \/ \E h \in handles[sv] : UseHandle(sv, h)
                            \/ Reboots(sv)
  BY DEF Next, Reboots
<1>2. CASE ~Reboots(sv)
  <2>1. \E a \in Requests : compute_6(sv, a)
    <3>1. \A h \in handles[sv] : h \in Handle
      BY DEF IInv, SystemTypes
    <3>2. QED
      BY <1>1, <1>2, <3>1, CallsAssumption, UseRequest, ReleaseRequest
         DEF Call, Open, UseHandle
  <2>2. OnlyHere(sv)
    BY <2>1, RequestHere DEF IInv, ServerInv
  <2>3. \A s \in Servers \ {sv} : handles'[s] = handles[s] /\ restarts'[s] = restarts[s]
    BY <1>1, <1>2
       DEF Call, Open, UseHandle, Read, Write, Readdir, Release, IInv, SystemTypes
  <2>4. FS!Elsewhere(sv)
    BY <2>2, <2>3, ElsewhereSame DEF OnlyHere, EntHere, NodeHere, ReplyHere
  <2>5. \E c \in Ips : FS!Request(sv, c)
    <3>1. \A a \in Calls : a.ip \in Ips
      <4>1. \A a \in Requests : a.ip \in Ips
        BY DEF Requests, ReplicatedRequests, LocalRequests, init_arg, mkdir_arg, mknod_arg,
           rmdir_arg, unlink_arg, rename_arg, symlink_arg, link_arg, truncate_arg, utime_arg,
           chmod_arg, write_arg, getattr_arg, access_arg, statfs_arg, readlink_arg, open_arg,
           release_arg, read_arg, opendir_arg, readdir_arg, releasedir_arg
      <4>2. QED
        BY <4>1, CallsAssumption
    <3>2. \A h \in handles[sv] : h.ip \in Ips
      BY DEF IInv, SystemTypes, Handle, FileHandle, DirHandle
    <3>3. QED
      BY <1>1, <1>2, <3>1, <3>2, CallSeen, OpenSeen, UseHandleSeen
  <2>6. QED
    BY <2>4, <2>5 DEF FS!Next
<1>3. CASE Reboots(sv)
  <2>1. FS!Crashes(sv)
    BY <1>3, RebootSeen
  <2>2. \A s \in Servers \ {sv} : ent'[s] = ent[s] /\ node'[s] = node[s]
    BY <1>3, RebootElsewhere
  <2>3. \A s \in Servers \ {sv} :
          handles'[s] = handles[s] /\ restarts'[s] = restarts[s] /\ reply'[s] = reply[s]
    BY <1>3, RebootSteps DEF Dies, IInv, SystemTypes
  <2>4. FS!Elsewhere(sv)
    BY <2>2, <2>3, ElsewhereSame
  <2>5. QED
    BY <2>1, <2>4 DEF FS!Next
<1>4. QED
  BY <1>2, <1>3

-----------------------------------------------------------------------------
LEMMA InitSeen == SystemInit => FS!Init
<1> SUFFICES ASSUME SystemInit PROVE FS!Init
  OBVIOUS
<1>1. \A sv \in Servers, p \in AnyPath : ent[sv][p] = None
  BY DEF SystemInit, Init
<1>2. \A sv \in Servers, i \in Inodes : Shown[sv][i] = None
  BY <1>1, NoneAssumption DEF Shown
<1>3. /\ ent = [sv \in Servers |-> [p \in FS!AnyPath |-> None]]
      /\ \A sv \in Servers : \A i \in DOMAIN Shown[sv] : Shown[sv][i] = None
  BY <1>2, Vocabulary DEF SystemInit, Init, Shown
<1>4. /\ [sv \in Servers |-> Writers(sv)] = [sv \in Servers |-> {}]
      /\ [sv \in Servers |-> restarts[sv] > 0] = [sv \in Servers |-> FALSE]
  <2>1. \A sv \in Servers : Writers(sv) = {} /\ restarts[sv] = 0
    BY DEF SystemInit, Writers
  <2>2. \A sv \in Servers : ~(restarts[sv] > 0)
    BY <2>1
  <2>3. \A sv \in Servers : (restarts[sv] > 0) = FALSE
    BY <2>2
  <2>4. QED
    BY <2>1, <2>3, Zenon
<1>5. QED
  BY <1>3, <1>4 DEF FS!Init, Shown, Writers

\* The tree that the servers show their clients changes by whole requests only,
\* each of them one that AtomicFS allows: for any servers, clients, paths and
\* descriptors, crashes included.  Whose rights are asked for is what AtomicFS
\* says, with the exceptions it lists: anybody moves files in the root and sets
\* sizes, links lead rights astray, and copied writes are not checked again.
THEOREM ServersImplementAtomicFS == Spec => ImplementsAtomicFS
<1> DEFINE I == IInv /\ Tree
<1>1. SystemInit => I /\ FS!Init
  BY InitInv, InitTree, InitSeen
<1>2. I /\ [Next]_vars => I' /\ [FS!Next]_FS!fsVars
  <2> SUFFICES ASSUME I, [Next]_vars PROVE I' /\ [FS!Next]_FS!fsVars
    OBVIOUS
  <2>1. IInv' /\ Tree'
    BY NextInv, NextTree
  <2>2. CASE UNCHANGED vars
    <3>1. UNCHANGED FS!fsVars
      BY <2>2 DEF vars, FS!fsVars
    <3>2. QED
      BY <2>1, <3>1
  <2>3. CASE Next
    BY <2>1, <2>3, StepSeen
  <2>4. QED
    BY <2>2, <2>3
<1>3. QED
  BY <1>1, <1>2, PTL DEF Spec, ImplementsAtomicFS, FS!Spec
=============================================================================
