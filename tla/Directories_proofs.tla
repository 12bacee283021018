-------------------------- MODULE Directories_proofs --------------------------
(***************************************************************************)
(* The names of a server form a tree, and what a directory contains is     *)
(* changed only by a client who has rwx on it: for any servers, clients,   *)
(* paths and inodes, also when a rename moves a whole subtree.             *)
(***************************************************************************)
EXTENDS Files_proofs

-----------------------------------------------------------------------------
(* Paths as names above and below one another. *)

\* "Above" is an order, and the names above one name are in line.
LEMMA PrefixOrder ==
  ASSUME NEW a \in Name, NEW b \in Name, NEW c \in Name
  PROVE  /\ IsPrefix(a, a)
         /\ IsPrefix(a, b) /\ IsPrefix(b, c) => IsPrefix(a, c)
         /\ IsPrefix(a, b) /\ IsPrefix(b, a) => a = b
         /\ IsPrefix(a, c) /\ IsPrefix(b, c) => IsPrefix(a, b) \/ IsPrefix(b, a)
<1>1. Len(a) \in Nat /\ Len(b) \in Nat /\ Len(c) \in Nat
  BY DEF Name
<1>2. IsPrefix(a, a)
  BY <1>1, AboveByComponents
<1>3. IsPrefix(a, b) /\ IsPrefix(b, c) => IsPrefix(a, c)
  BY <1>1, AboveByComponents
<1>4. IsPrefix(a, b) /\ IsPrefix(b, a) => a = b
  <2>1. IsPrefix(a, b) /\ IsPrefix(b, a) => Len(a) = Len(b) /\ \A k \in 1 .. Len(a) : a[k] = b[k]
    BY <1>1, AboveByComponents
  <2>2. QED
    BY <2>1, SeqEqual DEF Name
<1>5. IsPrefix(a, c) /\ IsPrefix(b, c) => IsPrefix(a, b) \/ IsPrefix(b, a)
  BY <1>1, AboveByComponents
<1>6. QED
  BY <1>2, <1>3, <1>4, <1>5

\* The name e in the directory s.
Child(s, e) == Append(s, e)

LEMMA ChildIsName ==
  ASSUME NEW s \in Name, NEW e \in STRING
  PROVE  /\ Child(s, e) \in Name /\ Child(s, e) # Root
         /\ Len(Child(s, e)) = Len(s) + 1 /\ Len(s) \in Nat
         /\ Child(s, e)[Len(s) + 1] = e
         /\ \A k \in 1 .. Len(s) : Child(s, e)[k] = s[k]
<1> USE DEF Name, Child, Root
<1>1. Child(s, e) \in Name
  BY AppendProperties
<1>2. Child(s, e) # Root
  BY AppendProperties
<1>3. Len(Child(s, e)) = Len(s) + 1 /\ Len(s) \in Nat
  BY AppendProperties
<1>4. Child(s, e)[Len(s) + 1] = e
  BY AppendProperties
<1>5. \A k \in 1 .. Len(s) : Child(s, e)[k] = s[k]
  BY AppendProperties
<1>6. QED
  BY <1>1, <1>2, <1>3, <1>4, <1>5

\* Every name but the root is one.
LEMMA EveryChild ==
  ASSUME NEW q \in Name, q # Root
  PROVE  \E s \in Name, e \in STRING : q = Child(s, e)
BY SequenceEmptyOrAppend DEF Name, Root, Child

\* A name is a parent and a last component.
LEMMA ParentAndLast ==
  ASSUME NEW s \in Name, NEW e \in STRING
  PROVE  get_parent_path(Child(s, e)) = s /\ Last(Child(s, e)) = e
<1> DEFINE q == Child(s, e)
<1>1. /\ q \in Name /\ Len(q) = Len(s) + 1 /\ Len(s) \in Nat
      /\ q[Len(s) + 1] = e /\ \A k \in 1 .. Len(s) : q[k] = s[k]
  BY ChildIsName
<1> HIDE DEF q
<1>2. SubSeq(q, 1, Len(s)) = s
  <2>1. \A k \in 1 .. Len(s) : q[k] \in STRING
    BY <1>1 DEF Name
  <2>2. /\ SubSeq(q, 1, Len(s)) \in Seq(STRING)
        /\ Len(SubSeq(q, 1, Len(s))) = IF 1 <= Len(s) THEN Len(s) - 1 + 1 ELSE 0
        /\ \A k \in 1 .. Len(s) - 1 + 1 : SubSeq(q, 1, Len(s))[k] = q[1 + k - 1]
    BY <1>1, <2>1, SubSeqProperties
  <2>3. /\ Len(SubSeq(q, 1, Len(s))) = Len(s)
        /\ \A k \in 1 .. Len(s) : SubSeq(q, 1, Len(s))[k] = s[k]
    BY <1>1, <2>2
  <2>4. QED
    BY <2>2, <2>3, SeqEqual DEF Name
<1>3. Len(q) - 1 = Len(s)
  BY <1>1
<1>4. Front(q) = s /\ Last(q) = e
  BY <1>1, <1>2, <1>3 DEF Front, Last
<1>5. QED
  BY <1>4 DEF q, get_parent_path

\* What is strictly above a name is its parent or above it.
LEMMA AboveChild ==
  ASSUME NEW s \in Name, NEW e \in STRING, NEW r \in Name
  PROVE  IsStrictPrefix(r, Child(s, e)) <=> IsPrefix(r, s)
<1> DEFINE q == Child(s, e)
<1>1. /\ q \in Name /\ Len(q) = Len(s) + 1 /\ Len(s) \in Nat
      /\ \A k \in 1 .. Len(s) : q[k] = s[k]
  BY ChildIsName
<1>2. Len(r) \in Nat
  BY DEF Name
<1> HIDE DEF q
<1>3. ASSUME IsPrefix(r, s) PROVE IsStrictPrefix(r, q)
  <2>1. Len(r) <= Len(s) /\ \A k \in 1 .. Len(r) : r[k] = s[k]
    BY <1>3, AboveByComponents
  <2>2. Len(r) <= Len(q) /\ (\A k \in 1 .. Len(r) : r[k] = q[k]) /\ Len(r) # Len(q)
    BY <1>1, <1>2, <2>1
  <2>3. QED
    BY <1>1, <2>2, AboveByComponents DEF IsStrictPrefix
<1>4. ASSUME IsStrictPrefix(r, q) PROVE IsPrefix(r, s)
  <2>1. Len(r) <= Len(q) /\ (\A k \in 1 .. Len(r) : r[k] = q[k]) /\ r # q
    BY <1>1, <1>4, AboveByComponents DEF IsStrictPrefix
  <2>2. Len(r) # Len(q)
    BY <1>1, <2>1, SeqEqual DEF Name
  <2>3. Len(r) <= Len(s) /\ \A k \in 1 .. Len(r) : r[k] = s[k]
    BY <1>1, <1>2, <2>1, <2>2
  <2>4. QED
    BY <2>3, AboveByComponents
<1>5. QED
  BY <1>3, <1>4 DEF q

LEMMA AboveParent ==
  ASSUME NEW q \in Name, q # Root
  PROVE  /\ get_parent_path(q) \in Name
         /\ \A r \in Name : IsStrictPrefix(r, q) <=> IsPrefix(r, get_parent_path(q))
<1>1. PICK s \in Name, e \in STRING : q = Child(s, e)
  BY EveryChild
<1>2. get_parent_path(q) = s
  BY <1>1, ParentAndLast
<1>3. QED
  BY <1>1, <1>2, AboveChild

LEMMA NothingAboveRoot ==
  ASSUME NEW r \in Name
  PROVE  ~IsStrictPrefix(r, Root)
<1>1. Root \in Name /\ Len(Root) = 0 /\ Len(r) \in Nat
  BY EmptySeq DEF Name, Root
<1>2. IsPrefix(r, Root) => Len(r) = 0
  BY <1>1, AboveByComponents
<1>3. Len(r) = 0 => r = Root
  BY EmptySeq DEF Name, Root
<1>4. QED
  BY <1>2, <1>3 DEF IsStrictPrefix

-----------------------------------------------------------------------------
(* Names that are moved from below n to below p. *)

LEMMA RebasedTop ==
  ASSUME NEW n \in Name, NEW p \in Name
  PROVE  Rebased(n, n, p) = p
<1>1. Root \in Name /\ Joined(n, Root) = n /\ Joined(p, Root) = p
  BY ConcatEmptySeq, EmptySeq DEF Name, Joined, Root
<1>2. QED
  BY <1>1, RebasedJoined

LEMMA ChildJoined ==
  ASSUME NEW n \in Name, NEW x \in Name, NEW e \in STRING
  PROVE  Child(Joined(n, x), e) = Joined(n, Child(x, e))
<1>1. <<e>> \in Seq(STRING)
  <2>1. <<>> \in Seq(STRING) /\ Append(<<>>, e) = <<e>>
    BY EmptySeq
  <2>2. QED
    BY <2>1, AppendProperties
<1>2. \A s \in Name : Append(s, e) = s \o <<e>>
  BY AppendIsConcat DEF Name
<1>3. (n \o x) \o <<e>> = n \o (x \o <<e>>)
  BY <1>1, ConcatAssociative DEF Name
<1>4. n \o x \in Name
  BY ConcatProperties DEF Name
<1>5. QED
  BY <1>2, <1>3, <1>4, Zenon DEF Child, Joined

\* The parent of what is moved moves along, the last component stays.
LEMMA RebasedParent ==
  ASSUME NEW n \in Name, NEW p \in Name, NEW q \in Name, q # Root, IsStrictPrefix(n, q)
  PROVE  /\ Rebased(q, n, p) # Root
         /\ get_parent_path(Rebased(q, n, p)) = Rebased(get_parent_path(q), n, p)
         /\ Last(Rebased(q, n, p)) = Last(q)
<1>1. PICK s \in Name, e \in STRING : q = Child(s, e)
  BY EveryChild
<1>2. IsPrefix(n, s)
  BY <1>1, AboveChild
<1>3. PICK x \in Name : s = Joined(n, x)
  BY <1>2, BelowJoined
<1>4. q = Joined(n, Child(x, e)) /\ Child(x, e) \in Name
  BY <1>1, <1>3, ChildJoined, ChildIsName, ZenonT(40)
<1>5. Rebased(q, n, p) = Joined(p, Child(x, e))
  <2>1. PICK z \in Name : z = Child(x, e)
    BY <1>4
  <2>2. Rebased(Joined(n, z), n, p) = Joined(p, z)
    BY RebasedJoined
  <2>3. QED
    BY <1>4, <2>1, <2>2
<1>6. Rebased(q, n, p) = Child(Joined(p, x), e)
  BY <1>5, ChildJoined
<1>7. Rebased(s, n, p) = Joined(p, x) /\ Joined(p, x) \in Name
  BY <1>3, RebasedJoined, JoinedBelow
<1>8. get_parent_path(q) = s /\ Last(q) = e
  BY <1>1, ParentAndLast
<1> DEFINE y == Joined(p, x)
<1>9. y \in Name /\ Rebased(q, n, p) = Child(y, e) /\ Rebased(get_parent_path(q), n, p) = y
  BY <1>6, <1>7, <1>8
<1> HIDE DEF y
<1>10. Child(y, e) # Root /\ get_parent_path(Child(y, e)) = y /\ Last(Child(y, e)) = e
  BY <1>9, ParentAndLast, ChildIsName
<1>11. QED
  BY <1>8, <1>9, <1>10

LEMMA JoinedTwice ==
  ASSUME NEW m \in Name, NEW x \in Name, NEW y \in Name
  PROVE  Joined(Joined(m, x), y) = Joined(m, Joined(x, y))
<1>1. (m \o x) \o y = m \o (x \o y)
  BY ConcatAssociative DEF Name
<1>2. QED
  BY <1>1, Zenon DEF Joined

\* Of two names that move, the one above stays above.
LEMMA RebasedOrder ==
  ASSUME NEW n \in Name, NEW p \in Name, NEW r \in Name, NEW q \in Name,
         IsPrefix(n, r), IsPrefix(r, q)
  PROVE  IsPrefix(Rebased(r, n, p), Rebased(q, n, p))
<1>1. PICK x \in Name : r = Joined(n, x)
  BY BelowJoined
<1>2. PICK y \in Name : q = Joined(r, y)
  BY BelowJoined
<1>3. \A m \in Name : Joined(Joined(m, x), y) = Joined(m, Joined(x, y))
  BY JoinedTwice
<1>4. Joined(x, y) \in Name
  BY JoinedBelow
<1> DEFINE z == Joined(x, y)
<1>5. z \in Name /\ q = Joined(n, z) /\ Joined(Joined(p, x), y) = Joined(p, z)
  BY <1>1, <1>2, <1>3, <1>4
<1> HIDE DEF z
<1>6. Rebased(r, n, p) = Joined(p, x) /\ Rebased(q, n, p) = Joined(p, z)
  BY <1>1, <1>5, RebasedJoined
<1>7. Joined(p, x) \in Name
  BY JoinedBelow
<1>8. IsPrefix(Joined(p, x), Joined(Joined(p, x), y))
  BY <1>7, JoinedBelow
<1>9. QED
  BY <1>5, <1>6, <1>8

\* On the way down to a name there is one directly below.
LEMMA ChildOnTheWay ==
  ASSUME NEW p \in Name, NEW q \in Name, IsStrictPrefix(p, q)
  PROVE  \E e \in STRING : IsPrefix(Child(p, e), q)
<1>1. /\ Len(p) \in Nat /\ Len(q) \in Nat /\ Len(p) <= Len(q)
      /\ \A k \in 1 .. Len(p) : p[k] = q[k]
  BY AboveByComponents DEF IsStrictPrefix, Name
<1>2. Len(p) # Len(q)
  BY <1>1, SeqEqual DEF IsStrictPrefix, Name
<1>3. Len(p) + 1 \in 1 .. Len(q)
  BY <1>1, <1>2
<1>4. q[Len(p) + 1] \in STRING
  BY <1>3, ElementOfSeq DEF Name
<1> DEFINE c == Child(p, q[Len(p) + 1])
<1>5. /\ c \in Name /\ Len(c) = Len(p) + 1 /\ c[Len(p) + 1] = q[Len(p) + 1]
      /\ \A k \in 1 .. Len(p) : c[k] = p[k]
  BY <1>4, ChildIsName
<1> HIDE DEF c
<1>6. Len(c) <= Len(q) /\ \A k \in 1 .. Len(c) : c[k] = q[k]
  BY <1>1, <1>3, <1>5
<1>7. IsPrefix(c, q)
  BY <1>5, <1>6, AboveByComponents
<1>8. QED
  BY <1>4, <1>7 DEF c

-----------------------------------------------------------------------------
(***************************************************************************)
(* The tree.  Everything that has a name is reached through directories:   *)
(* every path above it may be named, has a name and is a directory.        *)
(***************************************************************************)
Tree ==
  \A s \in Servers, q \in AnyPath, r \in Name :
    Exists(s, q) /\ IsStrictPrefix(r, q) => r \in AnyPath /\ IsKind(s, r, "dir")

\* What is above a name was a directory, maybe under another name.
TreeStep ==
  \A s \in Servers, q \in AnyPath, r \in Name :
    ent'[s][q] # None /\ IsStrictPrefix(r, q) =>
      r \in AnyPath /\ \E t \in AnyPath : ent'[s][r] = ent[s][t] /\ IsKind(s, t, "dir")

LEMMA TreeKept ==
  ASSUME ServerInv, ServerInv', KindsStay, TreeStep
  PROVE  Tree'
<1> SUFFICES ASSUME NEW s \in Servers, NEW q \in AnyPath, NEW r \in Name,
                    ent'[s][q] # None, IsStrictPrefix(r, q)
             PROVE  r \in AnyPath /\ IsKind(s, r, "dir")'
  BY DEF Tree, Exists
<1>1. PICK t \in AnyPath : r \in AnyPath /\ ent'[s][r] = ent[s][t] /\ IsKind(s, t, "dir")
  BY DEF TreeStep
<1>2. ent[s][t] \in Inodes /\ node[s][ent[s][t]] # None /\ node[s][ent[s][t]].kind = "dir"
  BY <1>1, BackedFiles DEF IsKind, File, Exists, ServerInv, Backed
<1>3. ent'[s][r] # None /\ node'[s][ent'[s][r]] # None
  BY <1>1, <1>2, NoneAssumption DEF ServerInv, Backed
<1>4. QED
  BY <1>1, <1>2, <1>3 DEF KindsStay, IsKind, Exists, File

\* Nothing is below a file without entries.
LEMMA NothingBelow ==
  ASSUME Tree, NEW sv \in Servers, NEW p \in Name, Children(sv, p) = {},
         NEW q \in AnyPath, IsStrictPrefix(p, q)
  PROVE  ~Exists(sv, q)
<1> SUFFICES ASSUME Exists(sv, q) PROVE FALSE
  OBVIOUS
<1>1. q \in Name
  BY PathNames
<1>2. PICK e \in STRING : IsPrefix(Child(p, e), q)
  BY <1>1, ChildOnTheWay
<1> DEFINE c == Child(p, e)
<1>3. c \in Name /\ c # Root /\ get_parent_path(c) = p /\ IsPrefix(c, q)
  BY <1>2, ChildIsName, ParentAndLast
<1> HIDE DEF c
<1>4. c \in AnyPath /\ Exists(sv, c)
  BY <1>3 DEF Tree, IsStrictPrefix, IsKind
<1>5. QED
  BY <1>3, <1>4 DEF Children, AnyPath

\* What is no directory has no entries, and neither has what does not exist.
LEMMA NoChildren ==
  ASSUME Tree, NEW sv \in Servers, NEW p \in AnyPath, ~IsKind(sv, p, "dir")
  PROVE  Children(sv, p) = {}
<1>1. ASSUME NEW q \in Paths, get_parent_path(q) = p, Exists(sv, q) PROVE FALSE
  <2>1. IsStrictPrefix(p, q)
    BY <1>1, PathNames, AboveParent, PrefixOrder
  <2>2. QED
    BY <1>1, <2>1, PathNames DEF Tree
<1>2. QED
  BY <1>1 DEF Children

-----------------------------------------------------------------------------
(* The ways in which the names of a server change. *)

\* A name is made in a directory, or the root is.
Grows(sv, p) ==
  /\ ~Exists(sv, p)
  /\ p = Root \/ IsKind(sv, get_parent_path(p), "dir")
  /\ \E i \in Inodes : ent' = [ent EXCEPT ![sv] = [@ EXCEPT ![p] = i]]

\* A name is taken away from something that contains nothing.
Shrinks(sv, p) ==
  /\ Children(sv, p) = {}
  /\ ent' = [ent EXCEPT ![sv] = [@ EXCEPT ![p] = None]]

\* What is at p and below gets a name at n and below, where nothing was below.
Carries(sv, p, n) ==
  /\ IsKind(sv, get_parent_path(n), "dir")
  /\ ~IsPrefix(p, n) /\ ~IsPrefix(n, p)
  /\ \A q \in AnyPath : IsStrictPrefix(n, q) => ~Exists(sv, q)
  /\ \A q \in AnyPath :
       /\ IsPrefix(p, q) /\ Exists(sv, q) =>
            Rebased(q, p, n) \in Paths /\ ent'[sv][Rebased(q, p, n)] = ent[sv][q]
       /\ IsPrefix(n, q) /\ ent'[sv][q] # None =>
            Rebased(q, n, p) \in Paths /\ ent[sv][Rebased(q, n, p)] = ent'[sv][q]
       /\ ~IsPrefix(n, q) => ent'[sv][q] = IF IsPrefix(p, q) THEN None ELSE ent[sv][q]
  /\ \A s \in Servers \ {sv} : ent'[s] = ent[s]

LEMMA SameTree ==
  ASSUME Tree, UNCHANGED ent
  PROVE  TreeStep
BY DEF Tree, TreeStep, Exists, IsKind

LEMMA GrowsTree ==
  ASSUME ServerInv, Tree, NEW sv \in Servers, NEW p \in AnyPath, Grows(sv, p)
  PROVE  TreeStep
<1> SUFFICES ASSUME NEW s \in Servers, NEW q \in AnyPath, NEW r \in Name,
                    ent'[s][q] # None, IsStrictPrefix(r, q)
             PROVE  r \in AnyPath /\ \E t \in AnyPath : ent'[s][r] = ent[s][t] /\ IsKind(s, t, "dir")
  BY DEF TreeStep
<1>1. \A t \in AnyPath : t # p \/ s # sv => ent'[s][t] = ent[s][t]
  BY DEF Grows, ServerInv, ServerTypeOK
<1>2. r # q /\ q \in Name /\ p \in Name
  BY PathNames DEF IsStrictPrefix
<1>3. CASE s # sv \/ q # p
  <2>1. r \in AnyPath /\ IsKind(s, r, "dir")
    BY <1>1, <1>3 DEF Tree, Exists
  <2>2. r # p \/ s # sv
    BY <2>1 DEF Grows, IsKind
  <2>3. QED
    BY <1>1, <2>1, <2>2
<1>4. CASE s = sv /\ q = p
  <2>1. p # Root
    BY <1>4, NothingAboveRoot
  <2>2. IsPrefix(r, get_parent_path(p)) /\ IsKind(sv, get_parent_path(p), "dir")
    BY <1>2, <1>4, <2>1, AboveParent DEF Grows
  <2>3. get_parent_path(p) \in AnyPath
    BY <2>1, ParentType DEF AnyPath
  <2>4. r \in AnyPath /\ IsKind(sv, r, "dir")
    BY <2>2, <2>3 DEF Tree, IsStrictPrefix, IsKind
  <2>5. QED
    BY <1>1, <1>2, <1>4, <2>4
<1>5. QED
  BY <1>3, <1>4

LEMMA ShrinksTree ==
  ASSUME ServerInv, Tree, NEW sv \in Servers, NEW p \in AnyPath, Shrinks(sv, p)
  PROVE  TreeStep
<1> SUFFICES ASSUME NEW s \in Servers, NEW q \in AnyPath, NEW r \in Name,
                    ent'[s][q] # None, IsStrictPrefix(r, q)
             PROVE  r \in AnyPath /\ ent'[s][r] = ent[s][r] /\ IsKind(s, r, "dir")
  BY DEF TreeStep
<1>1. /\ \A t \in AnyPath : t # p \/ s # sv => ent'[s][t] = ent[s][t]
      /\ ent'[sv][p] = None
  BY DEF Shrinks, ServerInv, ServerTypeOK
<1>2. Exists(s, q)
  BY <1>1 DEF Exists
<1>3. r \in AnyPath /\ IsKind(s, r, "dir")
  BY <1>2 DEF Tree
<1>4. r # p \/ s # sv
  BY <1>2, NothingBelow DEF Shrinks
<1>5. QED
  BY <1>1, <1>3, <1>4

LEMMA CarriesTree ==
  ASSUME ServerInv, Tree, NEW sv \in Servers, NEW p \in Paths, NEW n \in Paths,
         Carries(sv, p, n)
  PROVE  TreeStep
<1> SUFFICES ASSUME NEW s \in Servers, NEW q \in AnyPath, NEW r \in Name,
                    ent'[s][q] # None, IsStrictPrefix(r, q)
             PROVE  r \in AnyPath /\ \E t \in AnyPath : ent'[s][r] = ent[s][t] /\ IsKind(s, t, "dir")
  BY DEF TreeStep
<1>1. p \in Name /\ n \in Name /\ q \in Name /\ n # Root /\ r # q /\ IsPrefix(r, q)
  BY PathNames DEF IsStrictPrefix
<1>2. CASE s # sv
  BY <1>2 DEF Carries, Tree, Exists
<1>3. CASE s = sv /\ ~IsPrefix(n, q)
  <2>1. ~IsPrefix(p, q) /\ ent'[sv][q] = ent[sv][q]
    BY <1>3 DEF Carries
  <2>2. r \in AnyPath /\ IsKind(sv, r, "dir")
    BY <1>3, <2>1 DEF Tree, Exists
  <2>3. ~IsPrefix(n, r) /\ ~IsPrefix(p, r)
    BY <1>1, <1>3, <2>1, PrefixOrder
  <2>4. ent'[sv][r] = ent[sv][r]
    BY <2>2, <2>3 DEF Carries
  <2>5. QED
    BY <1>3, <2>2, <2>4
<1>4. CASE s = sv /\ IsPrefix(n, q) /\ IsPrefix(n, r)
  <2> DEFINE x == Rebased(q, n, p)
             z == Rebased(r, n, p)
  <2>1. x \in AnyPath /\ Exists(sv, x)
    BY <1>4 DEF Carries, Exists, AnyPath
  <2>2. z \in Name /\ IsPrefix(p, z) /\ IsPrefix(z, x) /\ Rebased(z, p, n) = r
    BY <1>1, <1>4, RebasedBack, RebasedOrder
  <2>3. Rebased(x, p, n) = q
    BY <1>1, <1>4, RebasedBack
  <2> HIDE DEF x, z
  <2>4. z # x
    BY <1>1, <2>2, <2>3
  <2>5. z \in AnyPath /\ IsKind(sv, z, "dir")
    BY <2>1, <2>2, <2>4 DEF Tree, IsStrictPrefix
  <2>6. Rebased(z, p, n) \in Paths /\ ent'[sv][Rebased(z, p, n)] = ent[sv][z]
    BY <2>2, <2>5 DEF Carries, IsKind
  <2>7. QED
    BY <1>4, <2>2, <2>5, <2>6 DEF AnyPath
<1>5. CASE s = sv /\ IsPrefix(n, q) /\ ~IsPrefix(n, r)
  <2>1. IsPrefix(r, n)
    BY <1>1, <1>5, PrefixOrder
  <2>2. IsPrefix(r, get_parent_path(n)) /\ IsKind(sv, get_parent_path(n), "dir")
    BY <1>1, <1>5, <2>1, AboveParent DEF IsStrictPrefix, Carries
  <2>3. get_parent_path(n) \in AnyPath
    BY ParentType
  <2>4. r \in AnyPath /\ IsKind(sv, r, "dir")
    BY <2>2, <2>3 DEF Tree, IsStrictPrefix, IsKind
  <2>5. ~IsPrefix(p, r)
    BY <1>1, <2>1, PrefixOrder DEF Carries
  <2>6. ent'[sv][r] = ent[sv][r]
    BY <1>5, <2>4, <2>5 DEF Carries
  <2>7. QED
    BY <1>5, <2>4, <2>6
<1>6. QED
  BY <1>2, <1>3, <1>4, <1>5

-----------------------------------------------------------------------------
(* Every request changes the names in one of these ways. *)

LEMMA MadeGrows ==
  ASSUME NEW sv \in Servers, NEW p \in AnyPath, ~Exists(sv, p),
         p = Root \/ IsKind(sv, get_parent_path(p), "dir"),
         (\E n : Create(sv, p, n)) \/ (\E n : HalfMade(sv, p, n))
  PROVE  Grows(sv, p)
BY DEF Grows, Create, HalfMade, LowestOf, FreeInodes

LEMMA LinkGrows ==
  ASSUME ServerInv, NEW sv \in Servers, NEW p \in AnyPath, NEW newp \in AnyPath,
         CanLink(sv, p, newp), ent' = [ent EXCEPT ![sv] = [@ EXCEPT ![newp] = ent[sv][p]]]
  PROVE  Grows(sv, newp)
BY BackedFiles DEF Grows, CanLink

LEMMA RemovesShrinks ==
  ASSUME Tree, NEW sv \in Servers, NEW a, a.path \in Paths, Removes(sv, a),
         CanRmdir(sv, a.path) \/ CanUnlink(sv, a.path)
  PROVE  Shrinks(sv, a.path)
<1>1. Children(sv, a.path) = {}
  BY NoChildren DEF CanRmdir, CanUnlink, AnyPath
<1>2. QED
  BY <1>1 DEF Shrinks, Removes

LEMMA RenamedCarries ==
  ASSUME ServerInv, Tree, NEW sv \in Servers, NEW p \in Paths, NEW n \in Paths,
         CanRename(sv, p, n), RenameFits(sv, p, n), IsKind(sv, get_parent_path(n), "dir"),
         ent[sv][p] # ent[sv][n],
         ent' = [ent EXCEPT ![sv] = Renamed(sv, p, n)]
  PROVE  Carries(sv, p, n)
<1>1. /\ p \in Name /\ n \in Name /\ p \in AnyPath /\ n \in AnyPath /\ p # Root /\ n # Root
      /\ \A q \in AnyPath : q \in Name
  BY PathNames
<1>2. \A q \in AnyPath : IsStrictPrefix(n, q) => ~Exists(sv, q)
  <2>1. SUFFICES ASSUME NEW q \in AnyPath, IsStrictPrefix(n, q), Exists(sv, q) PROVE FALSE
    OBVIOUS
  <2>2. IsKind(sv, n, "dir") /\ Exists(sv, n)
    BY <1>1, <2>1 DEF Tree, IsKind
  <2>3. Children(sv, n) = {}
    BY <2>2 DEF CanRename, CanRmdir, CanUnlink
  <2>4. QED
    BY <1>1, <2>1, <2>3, NothingBelow
<1>3. ~IsPrefix(p, n) /\ ~IsPrefix(n, p)
  BY <1>1, <1>2 DEF CanRename, IsStrictPrefix
<1>4. /\ \A s \in Servers \ {sv} : ent'[s] = ent[s]
      /\ ent'[sv] = Renamed(sv, p, n)
  BY DEF ServerInv, ServerTypeOK
<1>5. \A q \in AnyPath :
        ent'[sv][q] = IF IsPrefix(n, q)
                      THEN IF Rebased(q, n, p) \in Paths THEN ent[sv][Rebased(q, n, p)] ELSE None
                      ELSE IF IsPrefix(p, q) THEN None ELSE ent[sv][q]
  BY <1>4 DEF Renamed
<1>6. ASSUME NEW q \in AnyPath, IsPrefix(p, q), Exists(sv, q)
      PROVE  Rebased(q, p, n) \in Paths /\ ent'[sv][Rebased(q, p, n)] = ent[sv][q]
  <2>1. q # Root
    BY <1>1, <1>6, NothingAboveRoot DEF IsStrictPrefix
  <2>2. q \in Paths
    BY <2>1 DEF AnyPath
  <2>3. Rebased(q, p, n) \in Paths
    BY <1>6, <2>2 DEF RenameFits
  <2>4. IsPrefix(n, Rebased(q, p, n)) /\ Rebased(Rebased(q, p, n), n, p) = q
    BY <1>1, <1>6, RebasedBack
  <2> DEFINE y == Rebased(q, p, n)
  <2>5. y \in AnyPath /\ IsPrefix(n, y) /\ Rebased(y, n, p) = q
    BY <2>3, <2>4 DEF AnyPath
  <2> HIDE DEF y
  <2>6. ent'[sv][y] = ent[sv][q]
    BY <1>5, <2>2, <2>5
  <2>7. QED
    BY <2>3, <2>6 DEF y
<1>7. QED
  BY <1>2, <1>3, <1>4, <1>5, <1>6 DEF Carries

-----------------------------------------------------------------------------
(* Who may change what a directory contains. *)

\* Client ip has rwx on the directory p is in, or that is the root directory.
Allowed(sv, p, ip) ==
  \/ p = Root
  \/ get_parent_path(p) = Root
  \/ RWX \subseteq Rights(File(sv, get_parent_path(p)), ip)

LEMMA ChecksAllow ==
  ASSUME NEW sv, NEW p, NEW ip, NEW op, is_parent_dir_valid(sv, p, ip, op)
  PROVE  Allowed(sv, p, ip)
BY DEF is_parent_dir_valid, is_op_valid, Allowed

\* The names change in one of the three ways, and client ip may do that.
TreeChange(sv, ip) ==
  \/ UNCHANGED ent
  \/ \E p \in AnyPath : (Grows(sv, p) \/ Shrinks(sv, p)) /\ Allowed(sv, p, ip)
  \/ \E p, n \in Paths : Carries(sv, p, n) /\ Allowed(sv, p, ip) /\ Allowed(sv, n, ip)

LEMMA RenameChange ==
  ASSUME ServerInv, Tree, NEW sv \in Servers, NEW a \in rename_arg, bb_rename(sv, a)
  PROVE  TreeChange(sv, a.ip)
<1> DEFINE p == a.path
           n == a.newpath
<1>1. p \in Paths /\ n \in Paths
  BY DEF rename_arg
<1>2. CASE UNCHANGED ent
  BY <1>2 DEF TreeChange
<1>3. CASE ~UNCHANGED ent
  <2>1. RenamePermitted(sv, a) /\ RenameEffect(sv, a) /\ IsKind(sv, get_parent_path(n), "dir")
    BY <1>3 DEF bb_rename, LockFails, LockHangs, RenameSecondParent, Returns, Hangs, OneParent,
       LocksDirectory, dlock
  <2>2. /\ CanRename(sv, p, n) /\ RenameFits(sv, p, n)
        /\ ent' = [ent EXCEPT ![sv] = Renamed(sv, p, n)]
    BY <1>3, <2>1 DEF RenameEffect
  <2>3. ent[sv][p] # ent[sv][n]
    <3>1. ent[sv][p] = ent[sv][n] => ent' = ent
      BY <2>2 DEF Renamed, ServerInv, ServerTypeOK
    <3>2. QED
      BY <1>3, <3>1
  <2>4. Carries(sv, p, n)
    BY <1>1, <2>1, <2>2, <2>3, RenamedCarries
  <2>5. Allowed(sv, p, a.ip) /\ Allowed(sv, n, a.ip)
    BY <2>1, ChecksAllow DEF RenamePermitted
  <2>6. QED
    BY <1>1, <2>4, <2>5 DEF TreeChange
<1>4. QED
  BY <1>2, <1>3

LEMMA RequestTree ==
  ASSUME ServerInv, Tree, NEW sv \in Servers, NEW a \in Requests, compute_6(sv, a)
  PROVE  TreeChange(sv, a.ip)
<1>1. CASE UNCHANGED ent
  BY <1>1 DEF TreeChange
<1>2. CASE a.op \in {"mkdir", "mknod"} /\ ~UNCHANGED ent
  <2>1. a.path \in AnyPath
    BY <1>2, RequestKinds DEF mkdir_arg, mknod_arg, AnyPath
  <2>2. /\ \E fd : LocksDirectory(sv, a, fd)
        /\ ~CannotCreate(sv, a.path) /\ \E n : Create(sv, a.path, n)
    BY <1>2 DEF compute_6, bb_mkdir, bb_mknod, CannotMknod, DirectoryNotLocked, NotPermitted,
       LockFails, LockHangs, Returns, Hangs
  <2>3. Grows(sv, a.path) /\ Allowed(sv, a.path, a.ip)
    BY <2>1, <2>2, MadeGrows, ChecksAllow DEF LocksDirectory, dlock, CannotCreate
  <2>4. QED
    BY <2>1, <2>3 DEF TreeChange
<1>3. CASE a.op \in {"rmdir", "unlink"} /\ ~UNCHANGED ent
  <2>1. a.path \in Paths /\ a.path \in AnyPath
    BY <1>3, RequestKinds DEF rmdir_arg, unlink_arg, AnyPath
  <2>2. /\ \E fd : LocksDirectory(sv, a, fd)
        /\ Removes(sv, a) /\ (CanRmdir(sv, a.path) \/ CanUnlink(sv, a.path))
    BY <1>3 DEF compute_6, bb_rmdir, bb_unlink, DirectoryNotLocked, NotPermitted,
       LockFails, LockHangs, Returns, Hangs
  <2>3. Shrinks(sv, a.path) /\ Allowed(sv, a.path, a.ip)
    BY <2>1, <2>2, RemovesShrinks, ChecksAllow DEF LocksDirectory
  <2>4. QED
    BY <2>1, <2>3 DEF TreeChange
<1>4. CASE a.op = "symlink" /\ ~UNCHANGED ent
  <2>1. a.link \in AnyPath
    BY <1>4, RequestKinds DEF symlink_arg, AnyPath
  <2>2. /\ is_parent_dir_valid(sv, a.link, a.ip, a.op)
        /\ ~CannotSymlink(sv, a.link) /\ \E n : Create(sv, a.link, n)
    BY <1>4 DEF compute_6, bb_symlink, NotPermitted, Returns
  <2>3. Grows(sv, a.link) /\ Allowed(sv, a.link, a.ip)
    BY <2>1, <2>2, MadeGrows, ChecksAllow DEF CannotSymlink, CannotCreate
  <2>4. QED
    BY <2>1, <2>3 DEF TreeChange
<1>5. CASE a.op = "link" /\ ~UNCHANGED ent
  <2>1. a.path \in AnyPath /\ a.newpath \in AnyPath
    BY <1>5, RequestKinds DEF link_arg, AnyPath
  <2>2. /\ is_parent_dir_valid(sv, a.newpath, a.ip, a.op) /\ CanLink(sv, a.path, a.newpath)
        /\ ent' = [ent EXCEPT ![sv] = [@ EXCEPT ![a.newpath] = ent[sv][a.path]]]
    BY <1>5 DEF compute_6, bb_link, Returns
  <2>3. Grows(sv, a.newpath) /\ Allowed(sv, a.newpath, a.ip)
    BY <2>1, <2>2, LinkGrows, ChecksAllow
  <2>4. QED
    BY <2>1, <2>3 DEF TreeChange
<1>6. CASE a.op = "init_rootdir" /\ ~UNCHANGED ent
  <2>1. ~Exists(sv, Root) /\ \E n : Create(sv, Root, n)
    BY <1>6 DEF compute_6, init_rootdir
  <2>2. Grows(sv, Root) /\ Allowed(sv, Root, a.ip) /\ Root \in AnyPath
    BY <2>1, MadeGrows DEF Allowed, AnyPath
  <2>3. QED
    BY <2>2 DEF TreeChange
<1>7. CASE a.op = "rename"
  BY <1>7, RequestKinds, RenameChange DEF compute_6
<1>8. CASE a.op \in {"getattr", "access", "statfs", "readlink", "utime", "chmod", "truncate"}
  BY <1>1, <1>8 DEF compute_6, bb_getattr, bb_access, bb_statfs, bb_readlink, bb_utime, bb_chmod,
     SetsMode, bb_truncate, Returns
<1>9. CASE a.op \in {"open", "opendir", "release", "releasedir", "read", "readdir", "write"}
  BY <1>1, <1>9 DEF compute_6, bb_open, bb_opendir, bb_release, bb_releasedir, bb_read,
     bb_readdir, bb_write, WriteDirect, WriteSecondary, FlockHangs, Returns, Hangs, Close
<1>10. QED
  BY <1>1, <1>2, <1>3, <1>4, <1>5, <1>6, <1>7, <1>8, <1>9 DEF compute_6

LEMMA ChangeTree ==
  ASSUME ServerInv, Tree, NEW sv \in Servers, NEW ip, TreeChange(sv, ip)
  PROVE  TreeStep
BY SameTree, GrowsTree, ShrinksTree, CarriesTree DEF TreeChange

\* A crash in the middle of a request makes a name, or changes none.
LEMMA RebootTree ==
  ASSUME IInv, Tree, NEW sv \in Servers, Reboots(sv)
  PROVE  TreeStep
<1>1. CASE UNCHANGED ent
  BY <1>1, SameTree
<1>2. ASSUME NEW a \in Requests, DiesHalfway(sv, a)
      PROVE  \E p \in AnyPath : Grows(sv, p)
  <2>1. CASE a.op = "init_rootdir"
    BY <1>2, <2>1, MadeGrows DEF DiesHalfway, AnyPath
  <2>2. CASE a.op \in {"mkdir", "mknod"}
    <3>1. a.path \in AnyPath
      BY <2>2, RequestKinds DEF mkdir_arg, mknod_arg, AnyPath
    <3>2. CanLock(sv, a) /\ ~CannotCreate(sv, a.path) /\ \E n : HalfMade(sv, a.path, n)
      BY <1>2, <2>2 DEF DiesHalfway, CannotMknod
    <3>3. QED
      BY <3>1, <3>2, MadeGrows DEF CanLock, dlock, CannotCreate
  <2>3. CASE a.op = "symlink"
    <3>1. a.link \in AnyPath
      BY <2>3, RequestKinds DEF symlink_arg, AnyPath
    <3>2. ~CannotSymlink(sv, a.link) /\ \E n : HalfMade(sv, a.link, n)
      BY <1>2, <2>3 DEF DiesHalfway
    <3>3. QED
      BY <3>1, <3>2, MadeGrows DEF CannotSymlink, CannotCreate
  <2>4. CASE a.op = "link"
    <3>1. a.path \in AnyPath /\ a.newpath \in AnyPath
      BY <2>4, RequestKinds DEF link_arg, AnyPath
    <3>2. QED
      BY <1>2, <2>4, <3>1, LinkGrows DEF DiesHalfway, IInv
  <2>5. QED
    BY <1>2, <2>1, <2>2, <2>3, <2>4 DEF DiesHalfway
<1>3. QED
  BY <1>1, <1>2, GrowsTree, CallsAssumption DEF Reboots, Reboot, Restart, RebootHalfway, IInv

LEMMA NextTree ==
  ASSUME IInv, IInv', Tree, [Next]_vars
  PROVE  Tree'
<1>1. CASE UNCHANGED vars
  <2>1. TreeStep
    BY <1>1, SameTree DEF vars
  <2>2. QED
    BY <2>1, TreeKept, NextKinds DEF IInv
<1>2. CASE Next
  <2>1. PICK sv \in Servers : \/ Reboots(sv)
                              \/ \E a \in Requests : compute_6(sv, a)
    BY <1>2, StepIsRequest
  <2>2. TreeStep
    BY <2>1, RebootTree, RequestTree, ChangeTree DEF IInv
  <2>3. QED
    BY <2>2, NextKinds, TreeKept DEF IInv
<1>3. QED
  BY <1>1, <1>2

LEMMA InitTree == SystemInit => Tree
BY DEF SystemInit, Init, Tree, Exists

-----------------------------------------------------------------------------
(* What a directory contains. *)

\* One name comes or goes: only its own directory changes.
LEMMA LeafListing ==
  ASSUME ServerInv, NEW sv \in Servers, NEW p \in AnyPath, Children(sv, p) = {}, NEW v,
         ent' = [ent EXCEPT ![sv] = [@ EXCEPT ![p] = v]],
         NEW i \in Inodes, p # Root => i # ent[sv][get_parent_path(p)]
  PROVE  Listing(sv, i)' = Listing(sv, i)
<1>1. \A q \in AnyPath : q # p => ent'[sv][q] = ent[sv][q]
  BY DEF ServerInv, ServerTypeOK
<1>2. ASSUME NEW q \in Paths
      PROVE  /\ ent'[sv][q] # None /\ ent'[sv][get_parent_path(q)] = i
                  <=> ent[sv][q] # None /\ ent[sv][get_parent_path(q)] = i
             /\ ent[sv][q] # None /\ ent[sv][get_parent_path(q)] = i => ent'[sv][q] = ent[sv][q]
  <2>1. /\ q \in Name /\ q # Root /\ q \in AnyPath /\ get_parent_path(q) \in AnyPath
        /\ get_parent_path(q) \in Name
    BY PathNames, ParentType
  <2>2. get_parent_path(q) # q
    BY <2>1, AboveParent, PrefixOrder DEF IsStrictPrefix
  <2>3. CASE q = p
    BY <1>1, <2>1, <2>2, <2>3
  <2>4. CASE get_parent_path(q) = p
    BY <1>1, <2>1, <2>2, <2>4 DEF Children, Exists
  <2>5. CASE q # p /\ get_parent_path(q) # p
    BY <1>1, <2>1, <2>5
  <2>6. QED
    BY <2>3, <2>4, <2>5
<1>3. QED
  BY <1>2 DEF Listing, Exists

\* A subtree moves: only the directories it leaves and enters change, not the
\* ones that move along.
LEMMA CarriedListing ==
  ASSUME ServerInv, NEW sv \in Servers, NEW p \in Paths, NEW n \in Paths,
         Carries(sv, p, n), NEW i \in Inodes,
         i # ent[sv][get_parent_path(p)], i # ent[sv][get_parent_path(n)]
  PROVE  Listing(sv, i)' = Listing(sv, i)
<1> DEFINE In(e, q) == e[q] # None /\ e[get_parent_path(q)] = i
<1>1. /\ p \in Name /\ n \in Name
      /\ \A q \in Paths : /\ q \in Name /\ q # Root /\ q \in AnyPath
                          /\ get_parent_path(q) \in AnyPath /\ get_parent_path(q) \in Name
  BY PathNames, ParentType
<1>2. i # None
  BY NoneAssumption
\* Above a name that is neither below p nor below n is another such name.
<1>3. ASSUME NEW q \in Paths, ~IsPrefix(n, q), ~IsPrefix(p, q)
      PROVE  ent'[sv][get_parent_path(q)] = ent[sv][get_parent_path(q)] /\ ent'[sv][q] = ent[sv][q]
  <2>1. IsPrefix(get_parent_path(q), q)
    BY <1>1, AboveParent, PrefixOrder DEF IsStrictPrefix
  <2>2. ~IsPrefix(n, get_parent_path(q)) /\ ~IsPrefix(p, get_parent_path(q))
    BY <1>1, <1>3, <2>1, PrefixOrder
  <2>3. QED
    BY <1>1, <1>3, <2>2 DEF Carries
<1>4. ASSUME NEW q \in Paths, In(ent[sv], q)
      PROVE  \E r \in Paths : In(ent'[sv], r) /\ Last(r) = Last(q) /\ ent'[sv][r] = ent[sv][q]
  <2>1. CASE IsPrefix(p, q)
    <3>1. IsStrictPrefix(p, q)
      BY <1>4, <2>1 DEF IsStrictPrefix
    <3>2. IsPrefix(p, get_parent_path(q))
      BY <1>1, <3>1, AboveParent
    <3>3. /\ Rebased(q, p, n) \in Paths /\ ent'[sv][Rebased(q, p, n)] = ent[sv][q]
          /\ ent'[sv][Rebased(get_parent_path(q), p, n)] = ent[sv][get_parent_path(q)]
      BY <1>1, <1>2, <1>4, <2>1, <3>2 DEF Carries, Exists
    <3>4. /\ get_parent_path(Rebased(q, p, n)) = Rebased(get_parent_path(q), p, n)
          /\ Last(Rebased(q, p, n)) = Last(q)
      BY <1>1, <3>1, RebasedParent
    <3>5. QED
      BY <1>4, <3>3, <3>4
  <2>2. CASE IsPrefix(n, q)
    <3>1. q = n
      BY <1>1, <1>4, <2>2 DEF Carries, Exists, IsStrictPrefix
    <3>2. QED
      BY <1>4, <3>1
  <2>3. CASE ~IsPrefix(p, q) /\ ~IsPrefix(n, q)
    BY <1>3, <1>4, <2>3
  <2>4. QED
    BY <2>1, <2>2, <2>3
<1>5. ASSUME NEW r \in Paths, In(ent'[sv], r)
      PROVE  \E q \in Paths : In(ent[sv], q) /\ Last(q) = Last(r) /\ ent[sv][q] = ent'[sv][r]
  <2>1. CASE IsStrictPrefix(n, r)
    <3>1. IsPrefix(n, get_parent_path(r)) /\ IsPrefix(n, r)
      BY <1>1, <2>1, AboveParent DEF IsStrictPrefix
    <3>2. /\ Rebased(r, n, p) \in Paths /\ ent[sv][Rebased(r, n, p)] = ent'[sv][r]
          /\ ent[sv][Rebased(get_parent_path(r), n, p)] = ent'[sv][get_parent_path(r)]
      BY <1>1, <1>2, <1>5, <3>1 DEF Carries
    <3>3. /\ get_parent_path(Rebased(r, n, p)) = Rebased(get_parent_path(r), n, p)
          /\ Last(Rebased(r, n, p)) = Last(r)
      BY <1>1, <2>1, RebasedParent
    <3>4. QED
      BY <1>5, <3>2, <3>3
  <2>2. CASE r = n
    <3>1. IsStrictPrefix(get_parent_path(n), n)
      BY <1>1, AboveParent, PrefixOrder
    <3>2. ~IsPrefix(n, get_parent_path(n)) /\ ~IsPrefix(p, get_parent_path(n))
      BY <1>1, <3>1, PrefixOrder DEF IsStrictPrefix, Carries
    <3>3. ent'[sv][get_parent_path(n)] = ent[sv][get_parent_path(n)]
      BY <1>1, <3>2 DEF Carries
    <3>4. QED
      BY <1>5, <2>2, <3>3
  <2>3. CASE ~IsPrefix(n, r)
    <3>1. ~IsPrefix(p, r)
      BY <1>1, <1>5, <2>3 DEF Carries
    <3>2. QED
      BY <1>3, <1>5, <2>3, <3>1
  <2>4. QED
    BY <2>1, <2>2, <2>3 DEF IsStrictPrefix
<1>6. Listing(sv, i) = {<<Last(q), ent[sv][q]>> : q \in {q \in Paths : In(ent[sv], q)}}
  BY DEF Listing, Exists
<1>7. Listing(sv, i)' = {<<Last(q), ent'[sv][q]>> : q \in {q \in Paths : In(ent'[sv], q)}}
  BY DEF Listing, Exists
<1> HIDE DEF In
<1>8. QED
  BY <1>4, <1>5, <1>6, <1>7

\* The rights that are asked for are the ones on the directory of the name.
LEMMA AllowedRights ==
  ASSUME ServerInv, NEW sv \in Servers, NEW p \in AnyPath, NEW ip, Allowed(sv, p, ip),
         NEW i \in Inodes, i # ent[sv][Root], p # Root, i = ent[sv][get_parent_path(p)]
  PROVE  Rights(node[sv][i], ip) = RWX
<1>1. RWX \subseteq Rights(node[sv][i], ip)
  BY DEF Allowed, File
<1>2. node[sv][i] \in Node
  <2>1. get_parent_path(p) \in AnyPath
    BY ParentType DEF AnyPath
  <2>2. Exists(sv, get_parent_path(p))
    BY NoneAssumption DEF Exists
  <2>3. QED
    BY <2>1, <2>2, BackedFiles DEF File
<1>3. Rights(node[sv][i], ip) \subseteq RWX
  BY <1>2 DEF Rights, Node, Mode
<1>4. QED
  BY <1>1, <1>3

LEMMA ChangeListing ==
  ASSUME ServerInv, Tree, NEW sv \in Servers, NEW ip, TreeChange(sv, ip),
         NEW i \in Inodes, i # ent[sv][Root]
  PROVE  Listing(sv, i)' = Listing(sv, i) \/ Rights(node[sv][i], ip) = RWX
<1>1. CASE UNCHANGED ent
  BY <1>1 DEF Listing, Exists
<1>2. ASSUME NEW p \in AnyPath, Grows(sv, p) \/ Shrinks(sv, p), Allowed(sv, p, ip)
      PROVE  Listing(sv, i)' = Listing(sv, i) \/ Rights(node[sv][i], ip) = RWX
  <2>1. Children(sv, p) = {} /\ \E v : ent' = [ent EXCEPT ![sv] = [@ EXCEPT ![p] = v]]
    BY <1>2, NoChildren DEF Grows, Shrinks, IsKind
  <2>2. CASE p # Root /\ i = ent[sv][get_parent_path(p)]
    BY <1>2, <2>2, AllowedRights
  <2>3. QED
    BY <2>1, <2>2, LeafListing
<1>3. ASSUME NEW p \in Paths, NEW n \in Paths, Carries(sv, p, n),
             Allowed(sv, p, ip), Allowed(sv, n, ip)
      PROVE  Listing(sv, i)' = Listing(sv, i) \/ Rights(node[sv][i], ip) = RWX
  <2>1. p \in AnyPath /\ n \in AnyPath /\ p # Root /\ n # Root
    BY PathNames
  <2>2. CASE i = ent[sv][get_parent_path(p)] \/ i = ent[sv][get_parent_path(n)]
    BY <1>3, <2>1, <2>2, AllowedRights
  <2>3. QED
    BY <1>3, <2>2, CarriedListing
<1>4. QED
  BY <1>1, <1>2, <1>3 DEF TreeChange

\* Who changes a name is answered.
LEMMA ChangesAnswered ==
  ASSUME ServerTypeOK, NEW sv \in Servers, NEW a, compute_6(sv, a)
  PROVE  UNCHANGED ent \/ reply'[sv].ip = a.ip
<1>1. CASE UNCHANGED ent
  BY <1>1
<1>2. CASE \E ret, val : Answers(sv, a, ret, val)
  BY <1>2, AnswersReply
<1>3. CASE a.op \in {"mkdir", "mknod", "rmdir", "unlink", "rename", "link", "symlink"}
  BY <1>1, <1>2, <1>3 DEF compute_6, bb_mkdir, bb_mknod, bb_rmdir, bb_unlink, bb_rename, Removes,
     bb_link, bb_symlink, DirectoryNotLocked, NotPermitted, LockFails, LockHangs,
     RenameSecondParent, RenameEffect, Returns, Hangs
<1>4. CASE a.op \in {"init_rootdir", "chmod", "truncate", "utime", "getattr", "access", "statfs",
                     "readlink"}
  BY <1>1, <1>2, <1>4 DEF compute_6, init_rootdir, bb_chmod, SetsMode, bb_truncate, bb_utime,
     bb_getattr, bb_access, bb_statfs, bb_readlink, Returns
<1>5. CASE a.op \in {"open", "opendir", "release", "releasedir", "read", "readdir", "write"}
  BY <1>1, <1>2, <1>5 DEF compute_6, bb_open, bb_opendir, bb_release, bb_releasedir, bb_read,
     bb_readdir, bb_write, WriteDirect, WriteSecondary, FlockHangs, Returns, Hangs, Close
<1>6. QED
  BY <1>3, <1>4, <1>5 DEF compute_6

\* Only a client with rwx on a directory other than the root changes what the
\* directory contains, also when a rename moves a whole subtree past it.
THEOREM DirectoriesByRight == Spec => DirectoriesChangeByRight
<1> DEFINE A == \A sv \in Servers, i \in Inodes :
                  (/\ ent'[sv] # ent[sv] /\ i # ent[sv][Root] /\ restarts' = restarts
                   /\ node[sv][i] # None /\ node'[sv][i] # None
                   /\ Listing(sv, i)' # Listing(sv, i)) =>
                    Rights(node[sv][i], reply'[sv].ip) = RWX
<1>1. ASSUME IInv, Tree, [Next]_vars PROVE [A]_vars
  <2>1. CASE UNCHANGED vars
    BY <2>1
  <2>2. CASE Next
    <3>1. PICK sv \in Servers :
            \/ Reboots(sv)
            \/ \E a \in Requests : compute_6(sv, a) /\ UNCHANGED restarts
      BY <1>1, <2>2, StepIsRequest
    <3>2. CASE Reboots(sv)
      <4>1. restarts'[sv] # restarts[sv]
        BY <1>1, <3>2, RebootSteps DEF IInv, SystemTypes
      <4>2. QED
        BY <4>1
    <3>3. CASE \E a \in Requests : compute_6(sv, a)
      <4>1. PICK a \in Requests : compute_6(sv, a)
        BY <3>3
      <4>2. TreeChange(sv, a.ip) /\ OnlyHere(sv) /\ (UNCHANGED ent \/ reply'[sv].ip = a.ip)
        BY <1>1, <4>1, RequestTree, RequestHere, ChangesAnswered DEF IInv, ServerInv
      <4>3. ASSUME NEW s \in Servers, NEW i \in Inodes, ent'[s] # ent[s], i # ent[s][Root],
                   Listing(s, i)' # Listing(s, i)
            PROVE  Rights(node[s][i], reply'[s].ip) = RWX
        <5>1. s = sv
          BY <4>2, <4>3 DEF OnlyHere, EntHere
        <5>2. QED
          BY <1>1, <4>2, <4>3, <5>1, ChangeListing DEF IInv
      <4>4. QED
        BY <4>3
    <3>4. QED
      BY <3>1, <3>2, <3>3
  <2>3. QED
    BY <1>1, <2>1, <2>2
<1>2. IInv /\ Tree /\ [Next]_vars => IInv' /\ Tree'
  BY NextInv, NextTree
<1>3. QED
  BY <1>1, <1>2, InitInv, InitTree, PTL DEF Spec, DirectoriesChangeByRight
=============================================================================
