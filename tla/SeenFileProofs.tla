---------------------------- MODULE SeenFileProofs ----------------------------
(***************************************************************************)
(* The tracking files, for every set of commits and files.  First their    *)
(* shape: pointers lead forward to nodes that exist, so that no walk can   *)
(* leave the file or go in circles.  Then what a search finds, and how the *)
(* two writes of remember() change it: the linked nodes are a search tree, *)
(* what was remembered is found, and a file is the set it stands for.      *)
(*                                                                         *)
(* Finds and InTree are recursive functions over the positions of a file.  *)
(* That they exist is proved here; what they compute is proved by looking  *)
(* at the greatest, or the least, position at which it would be wrong.     *)
(***************************************************************************)
EXTENDS SeenFile, DataLemmas, SequenceTheorems

\* Where a walk can be.  While remember() looks for the parent of the node it
\* has appended, that node is the last one, it is not linked anywhere, and
\* the walk stays before it: or it could be made a child of itself.
Walking ==
    /\ pc = "search" => at = 0 \/ at < Length(fd)
    /\ pc = "place" =>
         /\ newnodepos + 1 = Length(fd)
         /\ at < newnodepos
         /\ \A p \in Positions(fd) :
              newnodepos \notin {Node(fd, p).left, Node(fd, p).right}

Shape == TypeOK /\ ChildrenFollow /\ Walking

\* The node at a position of a file.
LEMMA NodeInFile ==
  ASSUME TypeOK, NEW f \in Files, NEW p \in Positions(f)
  PROVE  Node(f, p) \in NodeType
BY DEF TypeOK, Positions, Length, Node

\* The value of arg between calls is a commit.
LEMMA AnyCommitType == AnyCommit \in Commits
BY CommitsAssumption DEF AnyCommit

\* Shape is inductive: the initial state has it, and every step keeps it.
LEMMA InitShape == Init => Shape
<1> SUFFICES ASSUME Init PROVE Shape
  OBVIOUS
<1>1. TypeOK
  BY AnyCommitType, FilesAssumption DEF Init, TypeOK
<1>2. \A f \in Files : Positions(f) = {}
  BY DEF Init, Positions, Length
<1> QED
  BY <1>1, <1>2 DEF Init, Shape, ChildrenFollow, Walking

\* The steps that change no file and stop the walk.
LEMMA StopKeepsShape ==
  ASSUME Shape, pc' = "idle", NoLocals, UNCHANGED disk,
         torn' \in [Files -> BOOLEAN], fd' \in Files \cup {NoFile},
         answer' \in {"none", "yes", "no"},
         remembered' \in [Files -> SUBSET Commits]
  PROVE  Shape'
<1>1. TypeOK'
  BY AnyCommitType DEF Shape, TypeOK, NoLocals
<1>2. ChildrenFollow'
  BY DEF Shape, ChildrenFollow, Positions, Length, Node
<1> QED
  BY <1>1, <1>2 DEF Shape, Walking

\* What the append in remember() does to the files.
LEMMA AppendEffect ==
  ASSUME TypeOK, NEW c \in Commits, CallRemember(c)
  PROVE  /\ fd \in Files /\ fd' = fd
         /\ Length(fd) \in Nat /\ Length(fd)' = Length(fd) + 1
         /\ \A p \in Positions(fd) : Node(fd, p)' = Node(fd, p)
         /\ disk'[fd][Length(fd) + 1] = NewNode(c)
         /\ \A f \in Files : f # fd => disk'[f] = disk[f]
         /\ disk' \in [Files -> Seq(NodeType)]
<1> DEFINE L == Length(fd)
           s == disk[fd]
           t == Append(s, NewNode(c))
<1>t. disk \in [Files -> Seq(NodeType)] /\ fd \in Files \cup {NoFile}
  BY DEF TypeOK
<1>1. fd \in Files /\ fd' = fd
  BY <1>t DEF CallRemember
<1>2. s \in Seq(NodeType) /\ L \in Nat
  <2>1. s \in Seq(NodeType)
    BY <1>t, <1>1
  <2> QED
    BY <2>1 DEF Length
<1>3. NewNode(c) \in NodeType
  BY DEF NewNode, NodeType
<1>4. /\ disk'[fd] = t
      /\ \A f \in Files : f # fd => disk'[f] = disk[f]
      /\ disk' \in [Files -> Seq(NodeType)]
  BY <1>t, <1>1, <1>2, <1>3 DEF CallRemember
<1>5. /\ Len(t) = Len(s) + 1
      /\ \A i \in 1..Len(s) : t[i] = s[i]
      /\ t[Len(s) + 1] = NewNode(c)
  BY <1>2, <1>3, AppendProperties
<1>6. Len(s) = L /\ Len(s) \in Nat /\ disk'[fd'] = t
  BY <1>1, <1>2, <1>4 DEF Length
<1>7. Length(fd)' = L + 1
  BY <1>5, <1>6 DEF Length
<1>8. ASSUME NEW p \in 0..L - 1 PROVE Node(fd, p)' = Node(fd, p)
  <2>1. p + 1 \in 1..Len(s)
    BY <1>6
  <2> QED
    BY <1>5, <1>6, <2>1 DEF Node
<1>9. disk'[fd][L + 1] = NewNode(c)
  BY <1>1, <1>5, <1>6
<1> QED
  BY <1>1, <1>2, <1>4, <1>7, <1>8, <1>9 DEF Positions

\* What the link in remember() does to the files.
LEMMA LinkEffect ==
  ASSUME TypeOK, PlaceLink
  PROVE  /\ fd \in Files /\ fd' = fd
         /\ at \in Positions(fd) /\ newnodepos \in Nat
         /\ Node(fd, at) \in NodeType
         /\ Length(fd) \in Nat /\ Length(fd)' = Length(fd)
         /\ \A p \in Positions(fd) : p # at => Node(fd, p)' = Node(fd, p)
         /\ disk'[fd][at + 1] = WithChild(Node(fd, at), arg, newnodepos)
         /\ \A f \in Files : f # fd => disk'[f] = disk[f]
         /\ disk' \in [Files -> Seq(NodeType)]
<1> DEFINE n == Node(fd, at)
           w == WithChild(n, arg, newnodepos)
<1>t. /\ disk \in [Files -> Seq(NodeType)] /\ fd \in Files \cup {NoFile}
      /\ at \in Nat /\ newnodepos \in Nat
  BY DEF TypeOK
<1>0. fd \in Files /\ fd' = fd
  BY DEF TypeOK, PlaceLink, Remembered
<1>1. disk[fd] \in Seq(NodeType)
  BY <1>t, <1>0
<1>2. at \in Positions(fd) /\ Length(fd) \in Nat
  BY <1>t, <1>1 DEF PlaceLink, Differs, Present, Positions, Length
<1>3. n \in NodeType
  BY <1>0, <1>2, NodeInFile
<1>4. w \in NodeType
  BY <1>t, <1>3 DEF WithChild, NodeType
<1>5. /\ disk'[fd] = [disk[fd] EXCEPT ![at + 1] = w]
      /\ \A f \in Files : f # fd => disk'[f] = disk[f]
  BY <1>t, <1>0 DEF PlaceLink, Node
<1>6. at + 1 \in 1..Len(disk[fd])
  BY <1>t, <1>1, <1>2 DEF Positions, Length
<1>7. /\ [disk[fd] EXCEPT ![at + 1] = w] \in Seq(NodeType)
      /\ Len([disk[fd] EXCEPT ![at + 1] = w]) = Len(disk[fd])
  BY <1>1, <1>4, <1>6, ExceptSeq
<1>8. disk' \in [Files -> Seq(NodeType)] /\ Length(fd)' = Length(fd)
  BY <1>t, <1>0, <1>5, <1>7 DEF PlaceLink, Length, Node
<1>9. disk'[fd][at + 1] = w
  BY <1>1, <1>5, <1>6
<1>10. \A p \in Positions(fd) : p # at => Node(fd, p)' = Node(fd, p)
  BY <1>t, <1>0, <1>1, <1>2, <1>5 DEF Node, Positions, Length
<1> QED
  BY <1>t, <1>0, <1>2, <1>3, <1>5, <1>8, <1>9, <1>10

\* Every step of a call, a crash or a torn write keeps the shape of files.
LEMMA NextShape == Shape /\ [Next]_vars => Shape'
<1> SUFFICES ASSUME Shape, [Next]_vars PROVE Shape'
  OBVIOUS
<1>t. /\ TypeOK
      /\ disk \in [Files -> Seq(NodeType)]
      /\ torn \in [Files -> BOOLEAN]
      /\ remembered \in [Files -> SUBSET Commits]
      /\ fd \in Files \cup {NoFile}
      /\ answer \in {"none", "yes", "no"}
  BY DEF Shape, TypeOK
<1>1. ASSUME NEW f \in Files, InitSeen(f) PROVE Shape'
  BY <1>1 DEF InitSeen, Shape, TypeOK, ChildrenFollow, Walking, Positions,
              Length, Node, files, call
<1>2. ASSUME NEW c \in Commits, CallSeen(c) PROVE Shape'
  <2>1. TypeOK'
    BY <1>2, <1>t DEF CallSeen, TypeOK, files
  <2>2. ChildrenFollow'
    BY <1>2 DEF CallSeen, Shape, ChildrenFollow, Positions, Length, Node, files
  <2> QED
    BY <1>2, <2>1, <2>2 DEF CallSeen, Shape, Walking
<1>3. ASSUME NEW c \in Commits, CallRemember(c) PROVE Shape'
  <2> DEFINE L == Length(fd)
  <2>0. fd \in Files /\ fd' = fd
    BY <1>3, <1>t, AppendEffect
  <2>1. L \in Nat
    BY <1>3, <1>t, AppendEffect
  <2>2. /\ \A f \in Files : f # fd => disk'[f] = disk[f]
        /\ disk' \in [Files -> Seq(NodeType)]
    BY <1>3, <1>t, AppendEffect
  <2>3. /\ Length(fd)' = L + 1
        /\ \A p \in 0..L - 1 : Node(fd, p)' = Node(fd, p)
        /\ disk'[fd][L + 1] = NewNode(c)
    BY <1>3, <1>t, AppendEffect DEF Positions
  <2>4. TypeOK'
    <3>1. remembered' \in [Files -> SUBSET Commits]
      BY <1>3, <1>t, <2>0 DEF CallRemember
    <3>2. /\ arg' \in Commits /\ at' \in Nat /\ newnodepos' \in Nat
          /\ pc' \in {"idle", "place"}
      BY <1>3, <2>1, AnyCommitType DEF CallRemember, NoLocals
    <3> QED
      BY <1>3, <1>t, <2>0, <2>2, <3>1, <3>2 DEF CallRemember, TypeOK
  <2>5. ChildrenFollow'
    <3> SUFFICES ASSUME NEW f \in Files, NEW p \in Positions(f)',
                        NEW q \in {Node(f, p).left, Node(f, p).right}'
                 PROVE  q = 0 \/ (p < q /\ q < Length(f)')
      BY DEF ChildrenFollow
    <3>1. CASE f # fd
      <4>1. disk'[f] = disk[f]
        BY <2>2, <3>1
      <4>2. p \in Positions(f) /\ q \in {Node(f, p).left, Node(f, p).right}
        BY <4>1 DEF Positions, Length, Node
      <4>3. Length(f)' = Length(f)
        BY <4>1 DEF Length
      <4> QED
        BY <4>2, <4>3 DEF Shape, ChildrenFollow
    <3>2. CASE f = fd /\ p = L
      <4>1. Node(f, p)' = NewNode(c)
        BY <2>0, <2>3, <3>2 DEF Node
      <4> QED
        BY <4>1 DEF NewNode
    <3>3. CASE f = fd /\ p # L
      <4>1. p \in Positions(fd)
        BY <2>0, <2>1, <2>3, <3>3 DEF Positions
      <4>2. q \in {Node(fd, p).left, Node(fd, p).right}
        BY <2>0, <2>3, <3>3, <4>1 DEF Positions
      <4>3. q = 0 \/ (p < q /\ q < L)
        BY <2>0, <2>1, <4>1, <4>2 DEF Shape, ChildrenFollow
      <4>4. q \in Nat
        BY <1>t, <2>0, <2>1, <4>1, <4>2, NodeInFile DEF NodeType
      <4> QED
        BY <2>0, <2>1, <2>3, <3>3, <4>1, <4>3, <4>4 DEF Positions
    <3> QED
      BY <3>1, <3>2, <3>3
  <2>6. CASE L = 0
    BY <1>3, <2>4, <2>5, <2>6 DEF CallRemember, Shape, Walking, NoLocals
  <2>7. CASE L # 0
    <3>1. /\ pc' = "place" /\ at' = 0 /\ newnodepos' = L /\ fd' = fd
      BY <1>3, <2>7 DEF CallRemember
    <3>2. \A p \in 0..L : L \notin {Node(fd, p).left, Node(fd, p).right}'
      <4> SUFFICES ASSUME NEW p \in 0..L
                   PROVE  L \notin {Node(fd, p).left, Node(fd, p).right}'
        OBVIOUS
      <4>1. CASE p = L
        <5>1. Node(fd, p)' = NewNode(c)
          BY <2>0, <2>3, <4>1 DEF Node
        <5> QED
          BY <2>1, <2>7, <5>1 DEF NewNode
      <4>2. CASE p # L
        <5>1. p \in 0..L - 1 /\ p \in Positions(fd)
          BY <2>1, <4>2 DEF Positions
        <5>2. L \notin {Node(fd, p).left, Node(fd, p).right}
          BY <2>0, <2>1, <2>7, <5>1 DEF Shape, ChildrenFollow
        <5> QED
          BY <2>3, <3>1, <5>1, <5>2
      <4> QED
        BY <4>1, <4>2
    <3>3. Walking'
      BY <2>1, <2>3, <2>7, <3>1, <3>2 DEF Walking, Positions
    <3> QED
      BY <2>4, <2>5, <3>3 DEF Shape
  <2> QED
    BY <2>6, <2>7
<1>4. CASE RememberFatal
  BY <1>4, <1>t, StopKeepsShape DEF RememberFatal, NewProcess
<1>5. CASE SeenNoRoot \/ SeenMatch \/ SeenBottom
  BY <1>5, <1>t, StopKeepsShape DEF SeenNoRoot, SeenMatch, SeenBottom, Return, files
<1>6. CASE PlaceDuplicate
  <2>1. remembered' \in [Files -> SUBSET Commits]
    BY <1>6, <1>t DEF PlaceDuplicate, Remembered, TypeOK
  <2> QED
    BY <1>6, <1>t, <2>1, StopKeepsShape DEF PlaceDuplicate, Remembered
<1>7. CASE Descend
  <2>1. fd \in Files /\ at \in Positions(fd) /\ Length(fd) \in Nat
    BY <1>7, <1>t DEF Descend, Differs, Present, Positions, TypeOK, Length
  <2>2. Node(fd, at) \in NodeType
    BY <1>t, <2>1, NodeInFile
  <2>3. Child \in Nat /\ at < Child /\ Child < Length(fd)
    BY <1>7, <2>1, <2>2 DEF Descend, Child, Branch, NodeType, Shape, ChildrenFollow
  <2>4. TypeOK'
    BY <1>7, <1>t, <2>3 DEF Descend, TypeOK, files
  <2>5. ChildrenFollow'
    BY <1>7 DEF Descend, Shape, ChildrenFollow, Positions, Length, Node, files
  <2>6. pc = "place" => Child < newnodepos
    <3> SUFFICES ASSUME pc = "place" PROVE Child < newnodepos
      OBVIOUS
    <3>1. Child # newnodepos /\ newnodepos + 1 = Length(fd)
      BY <2>1 DEF Child, Branch, Shape, Walking
    <3> QED
      BY <1>t, <2>3, <3>1 DEF TypeOK
  <2>7. Walking'
    BY <1>7, <2>3, <2>6 DEF Descend, Shape, Walking, files, Length, Positions, Node
  <2> QED
    BY <2>4, <2>5, <2>7 DEF Shape
<1>8. CASE PlaceLink
  <2> DEFINE n == Node(fd, at)
             w == WithChild(n, arg, newnodepos)
  <2>0. fd' = fd
    BY <1>8, <1>t, LinkEffect
  <2>1. fd \in Files /\ at \in Positions(fd) /\ Length(fd) \in Nat
    BY <1>8, <1>t, LinkEffect
  <2>2. n \in NodeType /\ newnodepos \in Nat
    BY <1>8, <1>t, LinkEffect
  <2>3. /\ w \in NodeType
        /\ w.left \in {n.left, newnodepos} /\ w.right \in {n.right, newnodepos}
    BY <2>2 DEF WithChild, NodeType
  <2>4. /\ \A p \in Positions(fd) : p # at => Node(fd, p)' = Node(fd, p)
        /\ disk'[fd][at + 1] = w
        /\ \A f \in Files : f # fd => disk'[f] = disk[f]
    BY <1>8, <1>t, LinkEffect
  <2>5. disk' \in [Files -> Seq(NodeType)] /\ Length(fd)' = Length(fd)
    BY <1>8, <1>t, LinkEffect
  <2>6. TypeOK'
    BY <1>8, <1>t, <2>5, AnyCommitType DEF PlaceLink, Remembered, NoLocals, TypeOK
  <2>7. ChildrenFollow'
    <3> SUFFICES ASSUME NEW f \in Files, NEW p \in Positions(f)',
                        NEW q \in {Node(f, p).left, Node(f, p).right}'
                 PROVE  q = 0 \/ (p < q /\ q < Length(f)')
      BY DEF ChildrenFollow
    <3>1. CASE f # fd
      <4>1. disk'[f] = disk[f]
        BY <2>4, <3>1
      <4>2. p \in Positions(f) /\ q \in {Node(f, p).left, Node(f, p).right}
        BY <4>1 DEF Positions, Length, Node
      <4>3. Length(f)' = Length(f)
        BY <4>1 DEF Length
      <4> QED
        BY <4>2, <4>3 DEF Shape, ChildrenFollow
    <3>2. CASE f = fd /\ p = at
      <4>1. Node(f, p)' = w
        BY <1>t, <2>0, <2>1, <2>4, <3>2 DEF Node, Positions, Length
      <4>2. q \in {n.left, n.right, newnodepos}
        BY <2>3, <4>1
      <4>3. at < newnodepos /\ newnodepos < Length(fd)
        BY <1>8, <1>t, <2>1 DEF PlaceLink, Shape, Walking, TypeOK
      <4> QED
        BY <2>0, <2>1, <2>2, <2>5, <3>2, <4>2, <4>3
           DEF Shape, ChildrenFollow, Length, NodeType
    <3>3. CASE f = fd /\ p # at
      <4>1. Node(f, p)' = Node(f, p) /\ p \in Positions(fd)
        BY <1>t, <2>0, <2>1, <2>4, <2>5, <3>3 DEF Node, Positions, Length
      <4> QED
        BY <2>0, <2>1, <2>5, <3>3, <4>1 DEF Shape, ChildrenFollow
    <3> QED
      BY <3>1, <3>2, <3>3
  <2> QED
    BY <1>8, <2>6, <2>7 DEF PlaceLink, Remembered, Shape, Walking
<1>9. CASE ReadFatal
  BY <1>9, <1>t, StopKeepsShape DEF ReadFatal, NewProcess
<1>10. CASE Die
  BY <1>10, <1>t, StopKeepsShape DEF Die, NewProcess
<1>11. CASE UNCHANGED vars
  BY <1>11 DEF vars, Shape, TypeOK, ChildrenFollow, Walking, Positions, Length, Node
<1> QED
  BY <1>1, <1>2, <1>3, <1>4, <1>5, <1>6, <1>7, <1>8, <1>9, <1>10, <1>11
     DEF Next, Walk

\* The types of the files and of the walk.
THEOREM SeenTypeCorrect == Spec => []TypeOK
<1>1. Shape => TypeOK
  BY DEF Shape
<1> QED
  BY InitShape, NextShape, <1>1, PTL DEF Spec

\* Pointers lead forward and stay inside the file, crashes included.
THEOREM PointersForward == Spec => []ChildrenFollow
<1>1. Shape => ChildrenFollow
  BY DEF Shape
<1> QED
  BY InitShape, NextShape, <1>1, PTL DEF Spec

\* "missing tracking file node" and "missing branch" are unreachable, and
\* "truncated tracking file" means that the very first write was torn.
THEOREM ReadsSucceed == Spec => DiesOnlyOfTornRoot
<1>1. Shape /\ ReadFatal => torn[fd] /\ Length(fd) = 0
  <2> SUFFICES ASSUME Shape, ReadFatal PROVE torn[fd] /\ Length(fd) = 0
    OBVIOUS
  <2>1. fd \in Files /\ Length(fd) \in Nat /\ at \in Nat /\ torn[fd] \in BOOLEAN
    BY DEF ReadFatal, Shape, TypeOK, Length
  <2>2. pc = "search" /\ at = 0 /\ Length(fd) = 0
    BY <2>1 DEF ReadFatal, Present, Shape, Walking, TypeOK
  <2> QED
    BY <2>1, <2>2 DEF ReadFatal, Absent
<1>2. Shape /\ [Next]_vars => [ReadFatal => torn[fd] /\ Length(fd) = 0]_vars
  BY <1>1
<1> QED
  BY InitShape, NextShape, <1>2, PTL DEF Spec, DiesOnlyOfTornRoot

-------------------------------------------------------------------------------
(* What a search finds.  Finds and InTree are recursive functions; what they *)
(* compute is characterised by sets of positions, which are easier to carry  *)
(* from one state to the next.                                               *)

Commit(f, p) == Node(f, p).commit
Branching(f, p, c) == Branch(Node(f, p), c)

\* A set of positions in which a search for c, from the root, stays until it
\* has found c ...
Leads(f, c, X) ==
    /\ X \subseteq Positions(f) /\ 0 \in X
    /\ \A p \in X : \/ Commit(f, p) = c
                    \/ Branching(f, p, c) # 0 /\ Branching(f, p, c) \in X

\* ... and one in which it stays until it falls off the bottom.
Misses(f, c, X) ==
    /\ X \subseteq Positions(f) /\ 0 \in X
    /\ \A p \in X : /\ Commit(f, p) # c
                    /\ Branching(f, p, c) = 0 \/ Branching(f, p, c) \in X

\* Branches lead to positions further on.
LEMMA BranchesForward ==
  ASSUME Shape, NEW f \in Files, NEW c \in Commits, NEW p \in Positions(f)
  PROVE  /\ Branching(f, p, c) \in Nat
         /\ Branching(f, p, c) \in {Node(f, p).left, Node(f, p).right}
         /\ Branching(f, p, c) = 0 \/
              (p < Branching(f, p, c) /\ Branching(f, p, c) \in Positions(f))
<1>1. Node(f, p) \in NodeType /\ Length(f) \in Nat
  BY NodeInFile DEF Shape, TypeOK, Length
<1>2. /\ Branching(f, p, c) \in {Node(f, p).left, Node(f, p).right}
      /\ Branching(f, p, c) \in Nat
  BY <1>1 DEF Branching, Branch, NodeType
<1> QED
  BY <1>1, <1>2 DEF Shape, ChildrenFollow, Positions

\* The recursive function in Finds exists.
LEMMA FindsFunction ==
  ASSUME Shape, NEW f \in Files, NEW c \in Commits
  PROVE  \E from \in [Positions(f) -> BOOLEAN] :
           /\ from = [p \in Positions(f) |->
                 IF Node(f, p).commit = c THEN TRUE
                 ELSE Branch(Node(f, p), c) # 0 /\ from[Branch(Node(f, p), c)]]
           /\ Finds(f, c) <=> Length(f) > 0 /\ from[0]
<1> DEFINE P == Positions(f)
           B(p) == Branch(Node(f, p), c)
           Eq(g) == g = [p \in P |-> IF Node(f, p).commit = c THEN TRUE
                                     ELSE B(p) # 0 /\ g[B(p)]]
           from == CHOOSE g : Eq(g)
           Closed(X) == \A p \in X : Node(f, p).commit = c \/ (B(p) # 0 /\ B(p) \in X)
           S == {p \in P : \E X \in SUBSET P : p \in X /\ Closed(X)}
           h == [p \in P |-> p \in S]
<1>1. Finds(f, c) <=> Length(f) > 0 /\ from[0]
  BY DEF Finds
<1>2. \A p \in P : p \in S <=> Node(f, p).commit = c \/ (B(p) # 0 /\ B(p) \in S)
  <2> SUFFICES ASSUME NEW p \in P
               PROVE  p \in S <=> Node(f, p).commit = c \/ (B(p) # 0 /\ B(p) \in S)
    OBVIOUS
  <2>1. ASSUME p \in S, Node(f, p).commit # c PROVE B(p) # 0 /\ B(p) \in S
    <3>1. PICK X \in SUBSET P : p \in X /\ Closed(X)
      BY <2>1
    <3>2. B(p) # 0 /\ B(p) \in X
      BY <2>1, <3>1
    <3> QED
      BY <3>1, <3>2
  <2>2. ASSUME Node(f, p).commit = c PROVE p \in S
    <3>1. {p} \in SUBSET P /\ p \in {p} /\ Closed({p})
      BY <2>2
    <3> QED
      BY <3>1
  <2>3. ASSUME B(p) # 0 /\ B(p) \in S PROVE p \in S
    <3>1. PICK X \in SUBSET P : B(p) \in X /\ Closed(X)
      BY <2>3
    <3>2. X \cup {p} \in SUBSET P /\ p \in X \cup {p} /\ Closed(X \cup {p})
      BY <2>3, <3>1
    <3> QED
      BY <3>2
  <2> QED
    BY <2>1, <2>2, <2>3
<1>3. \A p \in P : B(p) = 0 \/ B(p) \in P
  <2> SUFFICES ASSUME NEW p \in P PROVE B(p) = 0 \/ B(p) \in P
    OBVIOUS
  <2>1. Node(f, p) \in NodeType /\ Length(f) \in Nat
    BY DEF Shape, TypeOK, Positions, Length, Node
  <2>2. B(p) \in {Node(f, p).left, Node(f, p).right} /\ B(p) \in Nat
    BY <2>1 DEF Branch, NodeType
  <2> QED
    BY <2>1, <2>2 DEF Shape, ChildrenFollow, Positions
<1>4. Eq(h)
  <2>1. \A p \in P : h[p] = (IF Node(f, p).commit = c THEN TRUE
                             ELSE B(p) # 0 /\ h[B(p)])
    <3> SUFFICES ASSUME NEW p \in P
                 PROVE  h[p] = (IF Node(f, p).commit = c THEN TRUE
                                ELSE B(p) # 0 /\ h[B(p)])
      OBVIOUS
    <3>1. h[p] = (p \in S)
      OBVIOUS
    <3>2. B(p) # 0 => h[B(p)] = (B(p) \in S)
      BY <1>3
    <3> HIDE DEF h, B, S, P
    <3>3. CASE Node(f, p).commit = c
      <4>1. h[p] = TRUE
        BY <1>2, <3>1, <3>3, Zenon
      <4> QED
        BY <3>3, <4>1, Zenon
    <3>4. CASE Node(f, p).commit # c
      <4>1. p \in S <=> B(p) # 0 /\ h[B(p)]
        <5>1. p \in S <=> B(p) # 0 /\ B(p) \in S
          BY <1>2, <3>4, Zenon
        <5> QED
          BY <3>2, <5>1, Zenon
      <4>2. (p \in S) = (B(p) # 0 /\ h[B(p)])
        BY <4>1, SMT
      <4> QED
        BY <3>1, <3>4, <4>2, Zenon
    <3> QED
      BY <3>3, <3>4, Zenon
  <2>2. h = [p \in P |-> h[p]]
    BY Zenon
  <2> HIDE DEF h, B, S, P
  <2> QED
    BY <2>1, <2>2, Zenon
<1>5. Eq(from)
  BY <1>4, Zenon
<1>6. from \in [P -> BOOLEAN]
  BY <1>5
<1> QED
  BY <1>1, <1>5, <1>6

\* A set of nodes in which each search step stays, with the commit at the
\* leaves, contains what finds it.
LEMMA LeadsToFind ==
  ASSUME Shape, NEW f \in Files, NEW c \in Commits,
         NEW X \in SUBSET Positions(f), Leads(f, c, X)
  PROVE  Finds(f, c)
<1>1. PICK from \in [Positions(f) -> BOOLEAN] :
        /\ from = [p \in Positions(f) |->
              IF Node(f, p).commit = c THEN TRUE
              ELSE Branch(Node(f, p), c) # 0 /\ from[Branch(Node(f, p), c)]]
        /\ Finds(f, c) <=> Length(f) > 0 /\ from[0]
  BY FindsFunction
<1>2. Length(f) \in Nat /\ X \in SUBSET Nat
  <2>1. disk[f] \in Seq(NodeType)
    BY DEF Shape, TypeOK
  <2>2. Length(f) \in Nat
    BY <2>1 DEF Length
  <2> QED
    BY <2>2 DEF Positions
<1>b. \A p \in X : p \in Nat /\ p <= Length(f)
  BY <1>2 DEF Positions
<1> DEFINE Bad == {p \in X : ~from[p]}
<1>3. Bad = {}
  <2> SUFFICES ASSUME Bad # {} PROVE FALSE
    OBVIOUS
  <2>1. Bad \in SUBSET Nat /\ \A p \in Bad : p <= Length(f)
    BY <1>b
  <2> HIDE DEF Bad
  <2>2. PICK m \in Bad : \A p \in Bad : p <= m
    BY <1>2, <2>1, GreatestOf
  <2> USE DEF Bad
  <2>3. m \in X /\ m \in Positions(f) /\ m \in Nat /\ ~from[m]
    BY <1>2, <2>2
  <2>4. Commit(f, m) # c /\ ~(Branching(f, m, c) # 0 /\ from[Branching(f, m, c)])
    BY <1>1, <2>3 DEF Commit, Branching
  <2>5. Branching(f, m, c) # 0 /\ Branching(f, m, c) \in X
    BY <2>3, <2>4 DEF Leads
  <2>6. Branching(f, m, c) \in Nat /\ m < Branching(f, m, c)
    BY <2>3, <2>5, BranchesForward
  <2>7. Branching(f, m, c) \in Bad
    BY <2>4, <2>5
  <2> QED
    BY <2>2, <2>3, <2>6, <2>7
<1>4. from[0] /\ Length(f) > 0
  BY <1>2, <1>3 DEF Leads, Positions
<1> QED
  BY <1>1, <1>4

\* A set of nodes in which each search step stays without the commit shows
\* that it is not found.
LEMMA MissesToNone ==
  ASSUME Shape, NEW f \in Files, NEW c \in Commits,
         NEW X \in SUBSET Positions(f), Misses(f, c, X)
  PROVE  ~Finds(f, c)
<1>1. PICK from \in [Positions(f) -> BOOLEAN] :
        /\ from = [p \in Positions(f) |->
              IF Node(f, p).commit = c THEN TRUE
              ELSE Branch(Node(f, p), c) # 0 /\ from[Branch(Node(f, p), c)]]
        /\ Finds(f, c) <=> Length(f) > 0 /\ from[0]
  BY FindsFunction
<1>2. Length(f) \in Nat /\ X \in SUBSET Nat
  <2>1. disk[f] \in Seq(NodeType)
    BY DEF Shape, TypeOK
  <2>2. Length(f) \in Nat
    BY <2>1 DEF Length
  <2> QED
    BY <2>2 DEF Positions
<1>b. \A p \in X : p \in Nat /\ p <= Length(f)
  BY <1>2 DEF Positions
<1> DEFINE Bad == {p \in X : from[p]}
<1>3. Bad = {}
  <2> SUFFICES ASSUME Bad # {} PROVE FALSE
    OBVIOUS
  <2>1. Bad \in SUBSET Nat /\ \A p \in Bad : p <= Length(f)
    BY <1>b
  <2> HIDE DEF Bad
  <2>2. PICK m \in Bad : \A p \in Bad : p <= m
    BY <1>2, <2>1, GreatestOf
  <2> USE DEF Bad
  <2>3. m \in X /\ m \in Positions(f) /\ m \in Nat /\ from[m]
    BY <1>2, <2>2
  <2>4. Branching(f, m, c) # 0 /\ from[Branching(f, m, c)]
    BY <1>1, <2>3 DEF Misses, Commit, Branching
  <2>5. Branching(f, m, c) \in X
    BY <2>3, <2>4 DEF Misses
  <2>6. Branching(f, m, c) \in Nat /\ m < Branching(f, m, c)
    BY <2>3, <2>4, BranchesForward
  <2>7. Branching(f, m, c) \in Bad
    BY <2>4, <2>5
  <2> QED
    BY <2>2, <2>3, <2>6, <2>7
<1>4. ~from[0]
  BY <1>2, <1>3 DEF Misses, Positions
<1> QED
  BY <1>1, <1>4

\* Every search ends one way or the other.
SearchesDecided ==
    \A f \in Files : \A c \in Commits :
        /\ Finds(f, c) => \E X \in SUBSET Positions(f) : Leads(f, c, X)
        /\ ~Finds(f, c) =>
              Length(f) = 0 \/ \E X \in SUBSET Positions(f) : Misses(f, c, X)
        /\ \A X \in SUBSET Positions(f) :
              (Leads(f, c, X) => Finds(f, c)) /\ (Misses(f, c, X) => ~Finds(f, c))

\* Every search of a file either leads to its commit or misses it.
LEMMA SearchesDecide == Shape => SearchesDecided
<1> SUFFICES ASSUME Shape, NEW f \in Files, NEW c \in Commits
             PROVE  /\ Finds(f, c) => \E X \in SUBSET Positions(f) : Leads(f, c, X)
                    /\ ~Finds(f, c) => Length(f) = 0 \/
                          \E X \in SUBSET Positions(f) : Misses(f, c, X)
  BY LeadsToFind, MissesToNone DEF SearchesDecided
<1>1. PICK from \in [Positions(f) -> BOOLEAN] :
        /\ from = [p \in Positions(f) |->
              IF Node(f, p).commit = c THEN TRUE
              ELSE Branch(Node(f, p), c) # 0 /\ from[Branch(Node(f, p), c)]]
        /\ Finds(f, c) <=> Length(f) > 0 /\ from[0]
  BY FindsFunction
<1>2. Length(f) \in Nat
  BY DEF Shape, TypeOK, Length
<1>3. \A p \in Positions(f) : /\ Commit(f, p) = c => from[p]
                              /\ Commit(f, p) # c =>
                                   (from[p] <=> /\ Branching(f, p, c) # 0
                                                /\ from[Branching(f, p, c)])
  BY <1>1 DEF Commit, Branching
<1>4. ASSUME Finds(f, c) PROVE \E X \in SUBSET Positions(f) : Leads(f, c, X)
  <2> DEFINE X == {p \in Positions(f) : from[p]}
  <2>1. 0 \in X
    BY <1>1, <1>2, <1>4 DEF Positions
  <2>2. ASSUME NEW p \in X, Commit(f, p) # c
        PROVE  Branching(f, p, c) # 0 /\ Branching(f, p, c) \in X
    BY <1>3, <2>2, BranchesForward
  <2>3. Leads(f, c, X)
    BY <2>1, <2>2 DEF Leads
  <2> QED
    BY <2>3
<1>5. ASSUME ~Finds(f, c), Length(f) # 0
      PROVE  \E X \in SUBSET Positions(f) : Misses(f, c, X)
  <2> DEFINE X == {p \in Positions(f) : ~from[p]}
  <2>1. 0 \in X
    BY <1>1, <1>2, <1>5 DEF Positions
  <2>2. ASSUME NEW p \in X
        PROVE  /\ Commit(f, p) # c
               /\ Branching(f, p, c) = 0 \/ Branching(f, p, c) \in X
    BY <1>3, BranchesForward
  <2>3. Misses(f, c, X)
    BY <2>1, <2>2 DEF Misses
  <2> QED
    BY <2>3
<1> QED
  BY <1>4, <1>5

\* The linked nodes: the root, and the children of linked nodes.
Sides(f, q) == {Node(f, q).left, Node(f, q).right}

TreeOf(f, Y) ==
    /\ Y \subseteq Positions(f)
    /\ \A p \in Positions(f) : p \in Y <=> p = 0 \/ \E q \in Y : p \in Sides(f, q)

\* The recursive function in InTree exists.
LEMMA InTreeFunction ==
  ASSUME Shape, NEW f \in Files
  PROVE  \A p \in Positions(f) :
           p \in InTree(f) <=>
             p = 0 \/ \E q \in 0..p - 1 : q \in InTree(f) /\ p \in Sides(f, q)
<1> DEFINE P == Positions(f)
           Eq(g) == g = [p \in P |->
                           \/ p = 0
                           \/ \E q \in 0..p - 1 :
                                g[q] /\ p \in {Node(f, q).left, Node(f, q).right}]
           linked == CHOOSE g : Eq(g)
           Grown(X) == \A p \in X :
                          p = 0 \/ \E q \in 0..p - 1 : q \in X /\ p \in Sides(f, q)
           S == {p \in P : \E X \in SUBSET P : p \in X /\ Grown(X)}
           h == [p \in P |-> p \in S]
<1>1. InTree(f) = {p \in P : linked[p]}
  BY DEF InTree
<1>2. \A p \in P : p \in S <=> p = 0 \/ \E q \in 0..p - 1 : q \in S /\ p \in Sides(f, q)
  <2> SUFFICES ASSUME NEW p \in P
               PROVE  p \in S <=>
                        p = 0 \/ \E q \in 0..p - 1 : q \in S /\ p \in Sides(f, q)
    OBVIOUS
  <2>1. ASSUME p \in S, p # 0
        PROVE  \E q \in 0..p - 1 : q \in S /\ p \in Sides(f, q)
    <3>1. PICK X \in SUBSET P : p \in X /\ Grown(X)
      BY <2>1
    <3>2. PICK q \in 0..p - 1 : q \in X /\ p \in Sides(f, q)
      BY <2>1, <3>1
    <3>3. q \in S
      BY <3>1, <3>2
    <3> QED
      BY <3>2, <3>3
  <2>2. ASSUME p = 0 PROVE p \in S
    <3>1. {p} \in SUBSET P /\ p \in {p} /\ Grown({p})
      BY <2>2
    <3> QED
      BY <3>1
  <2>3. ASSUME NEW q \in 0..p - 1, q \in S, p \in Sides(f, q) PROVE p \in S
    <3>1. PICK X \in SUBSET P : q \in X /\ Grown(X)
      BY <2>3
    <3>2. X \cup {p} \in SUBSET P /\ p \in X \cup {p} /\ Grown(X \cup {p})
      BY <2>3, <3>1
    <3> QED
      BY <3>2
  <2> QED
    BY <2>1, <2>2, <2>3
<1>3. \A p \in P : 0..p - 1 \subseteq P
  <2>1. disk[f] \in Seq(NodeType)
    BY DEF Shape, TypeOK
  <2>2. Length(f) \in Nat
    BY <2>1 DEF Length
  <2> QED
    BY <2>2 DEF Positions
<1>4. Eq(h)
  <2>1. ASSUME NEW p \in P
        PROVE  h[p] = (\/ p = 0
                       \/ \E q \in 0..p - 1 :
                            h[q] /\ p \in {Node(f, q).left, Node(f, q).right})
    <3>1. h[p] = (p \in S)
      OBVIOUS
    <3>b. h[p] \in BOOLEAN
      OBVIOUS
    <3>2. \A q \in 0..p - 1 : h[q] = (q \in S)
      BY <1>3
    <3> HIDE DEF h, S, P
    <3>3. p \in S <=> \/ p = 0
                      \/ \E q \in 0..p - 1 :
                           h[q] /\ p \in {Node(f, q).left, Node(f, q).right}
      BY <1>2, <3>2, Zenon DEF Sides
    <3> DEFINE R == \/ p = 0
                    \/ \E q \in 0..p - 1 :
                         h[q] /\ p \in {Node(f, q).left, Node(f, q).right}
    <3>4. h[p] <=> R
      BY <3>1, <3>3, Zenon
    <3>5. R \in BOOLEAN
      BY Zenon
    <3> HIDE DEF R
    <3>6. h[p] = R
      BY <3>b, <3>4, <3>5
    <3> QED
      BY <3>6 DEF R
  <2>2. h = [p \in P |-> h[p]]
    BY Zenon
  <2> HIDE DEF h, S, P
  <2> QED
    BY <2>1, <2>2, Zenon
<1>5. Eq(linked)
  BY <1>4, Zenon
<1> HIDE DEF linked
<1>6. \A p \in P : linked[p] <=>
        p = 0 \/ \E q \in 0..p - 1 : linked[q] /\ p \in Sides(f, q)
  BY <1>5 DEF Sides
<1> QED
  BY <1>1, <1>3, <1>6

TreesDetermined ==
    \A f \in Files :
        /\ TreeOf(f, InTree(f))
        /\ \A Y \in SUBSET Positions(f) : TreeOf(f, Y) => Y = InTree(f)

\* The tree of a file is the only set of nodes with the root and its children.
LEMMA TreesAreDetermined == Shape => TreesDetermined
<1> SUFFICES ASSUME Shape, NEW f \in Files
             PROVE  /\ TreeOf(f, InTree(f))
                    /\ \A Y \in SUBSET Positions(f) : TreeOf(f, Y) => Y = InTree(f)
  BY DEF TreesDetermined
<1>1. Length(f) \in Nat
  <2>1. disk[f] \in Seq(NodeType)
    BY DEF Shape, TypeOK
  <2> QED
    BY <2>1 DEF Length
<1>2. \A p \in Positions(f) : p \in Nat /\ p < Length(f)
  BY <1>1 DEF Positions
<1>3. \A q \in Positions(f) : \A p \in Sides(f, q) : p = 0 \/ q < p
  BY DEF Shape, ChildrenFollow, Sides
<1>4. InTree(f) \subseteq Positions(f)
  BY DEF InTree
<1>5. TreeOf(f, InTree(f))
  <2> SUFFICES ASSUME NEW p \in Positions(f)
               PROVE  p \in InTree(f) <=> p = 0 \/ \E q \in InTree(f) : p \in Sides(f, q)
    BY <1>4 DEF TreeOf
  <2>1. ASSUME NEW q \in InTree(f), p \in Sides(f, q), p # 0
        PROVE  q \in 0..p - 1
    BY <1>2, <1>3, <1>4, <2>1
  <2> QED
    BY <2>1, InTreeFunction
<1>6. ASSUME NEW Y \in SUBSET Positions(f), TreeOf(f, Y)
      PROVE  Y = InTree(f)
  <2> DEFINE Bad == {p \in Positions(f) : ~(p \in Y <=> p \in InTree(f))}
  <2>1. Bad = {}
    <3> SUFFICES ASSUME Bad # {} PROVE FALSE
      OBVIOUS
    <3>1. Bad \in SUBSET Nat
      BY <1>2
    <3> HIDE DEF Bad
    <3>2. PICK m \in Bad : \A p \in Bad : m <= p
      BY <3>1, LeastOf
    <3> USE DEF Bad
    <3>3. m \in Positions(f) /\ m \in Nat
      BY <1>2
    <3>4. m # 0
      BY <1>5, <1>6, <3>3 DEF TreeOf
    <3>5. \A q \in Positions(f) : m \in Sides(f, q) => (q \in Y <=> q \in InTree(f))
      BY <1>2, <1>3, <3>2, <3>3, <3>4
    <3> QED
      BY <1>4, <1>5, <1>6, <3>3, <3>4, <3>5 DEF TreeOf
  <2> QED
    BY <1>4, <2>1
<1> QED
  BY <1>5, <1>6

-------------------------------------------------------------------------------
(* Routes: how a search gets to a position, and how the writes of remember() *)
(* change where searches get.                                                *)

\* A search for c comes to p, past other commits only.
Route(f, c, p) ==
    \E X \in SUBSET Positions(f) :
        /\ 0 \in X /\ p \in X
        /\ \A q \in X \ {p} : /\ Commit(f, q) # c
                              /\ Branching(f, q, c) # 0
                              /\ Branching(f, q, c) \in X

\* Every search begins at the root.
LEMMA RootRoute ==
  ASSUME NEW f \in Files, NEW c \in Commits, 0 \in Positions(f)
  PROVE  Route(f, c, 0)
<1>1. {0} \in SUBSET Positions(f)
  OBVIOUS
<1> QED
  BY <1>1 DEF Route

\* A search that comes to its commit finds it.
LEMMA RouteFinds ==
  ASSUME Shape, NEW f \in Files, NEW c \in Commits, NEW p \in Positions(f),
         Route(f, c, p), Commit(f, p) = c
  PROVE  Finds(f, c)
<1>1. PICK X \in SUBSET Positions(f) :
        /\ 0 \in X /\ p \in X
        /\ \A q \in X \ {p} : /\ Commit(f, q) # c
                              /\ Branching(f, q, c) # 0
                              /\ Branching(f, q, c) \in X
  BY DEF Route
<1>2. Leads(f, c, X)
  BY <1>1 DEF Leads
<1> QED
  BY <1>2, LeadsToFind

\* A search that comes to another commit's leaf on its side does not.
LEMMA RouteMisses ==
  ASSUME Shape, NEW f \in Files, NEW c \in Commits, NEW p \in Positions(f),
         Route(f, c, p), Commit(f, p) # c, Branching(f, p, c) = 0
  PROVE  ~Finds(f, c)
<1>1. PICK X \in SUBSET Positions(f) :
        /\ 0 \in X /\ p \in X
        /\ \A q \in X \ {p} : /\ Commit(f, q) # c
                              /\ Branching(f, q, c) # 0
                              /\ Branching(f, q, c) \in X
  BY DEF Route
<1>2. Misses(f, c, X)
  BY <1>1 DEF Misses
<1> QED
  BY <1>2, MissesToNone

\* One step further.
LEMMA RouteExtends ==
  ASSUME NEW f \in Files, NEW c \in Commits, NEW p \in Positions(f),
         Route(f, c, p), Commit(f, p) # c, NEW r \in Positions(f),
         r = Branching(f, p, c), r # 0
  PROVE  Route(f, c, r)
<1>1. PICK X \in SUBSET Positions(f) :
        /\ 0 \in X /\ p \in X
        /\ \A q \in X \ {p} : /\ Commit(f, q) # c
                              /\ Branching(f, q, c) # 0
                              /\ Branching(f, q, c) \in X
  BY DEF Route
<1> DEFINE Y == X \cup {r}
<1>2. Y \in SUBSET Positions(f) /\ 0 \in Y /\ r \in Y
  BY <1>1
<1>3. \A q \in Y \ {r} : /\ Commit(f, q) # c
                         /\ Branching(f, q, c) # 0
                         /\ Branching(f, q, c) \in Y
  BY <1>1
<1> QED
  BY <1>2, <1>3 DEF Route

\* A commit's route ends at one place.
LEMMA RouteEndsOnce ==
  ASSUME Shape, NEW f \in Files, NEW c \in Commits,
         NEW p \in Positions(f), NEW q \in Positions(f),
         Route(f, c, p), Route(f, c, q), Commit(f, p) = c, Commit(f, q) = c
  PROVE  p = q
<1>1. PICK X \in SUBSET Positions(f) :
        /\ 0 \in X /\ p \in X
        /\ \A r \in X \ {p} : /\ Commit(f, r) # c
                              /\ Branching(f, r, c) # 0
                              /\ Branching(f, r, c) \in X
  BY DEF Route
<1>2. PICK Y \in SUBSET Positions(f) :
        /\ 0 \in Y /\ q \in Y
        /\ \A r \in Y \ {q} : /\ Commit(f, r) # c
                              /\ Branching(f, r, c) # 0
                              /\ Branching(f, r, c) \in Y
  BY DEF Route
<1> DEFINE Z == X \cap Y
<1>3. PICK m \in Z : \A r \in Z : r <= m
  <2>1. disk[f] \in Seq(NodeType)
    BY DEF Shape, TypeOK
  <2>2. Length(f) \in Nat
    BY <2>1 DEF Length
  <2>3. \A r \in Positions(f) : r \in Nat /\ r <= Length(f)
    BY <2>2 DEF Positions
  <2>4. Z \in SUBSET Nat /\ Z # {} /\ \A r \in Z : r <= Length(f)
    BY <1>1, <1>2, <2>3
  <2> HIDE DEF Z
  <2> QED
    BY <2>2, <2>4, GreatestOf
<1>4. CASE m = p
  BY <1>2, <1>4
<1>5. CASE m = q
  BY <1>1, <1>5
<1>6. CASE m # p /\ m # q
  <2>1. Branching(f, m, c) # 0 /\ Branching(f, m, c) \in Z
    BY <1>1, <1>2, <1>6
  <2>2. m < Branching(f, m, c) /\ m \in Nat /\ Branching(f, m, c) \in Nat
    BY <2>1, BranchesForward DEF Positions
  <2> QED
    BY <1>3, <2>1, <2>2
<1> QED
  BY <1>4, <1>5, <1>6

\* A step after which a file holds what it held, found where it was found.
Keeps(f) ==
    /\ InTree(f)' = InTree(f)
    /\ \A c \in Commits : Finds(f, c)' <=> Finds(f, c)
    /\ \A c \in Commits : \A p \in Positions(f) : Route(f, c, p) => Route(f, c, p)'
    /\ \A p \in Positions(f) : p \in Positions(f)' /\ Node(f, p)' = Node(f, p)

\* A file that is not written keeps its nodes.
LEMMA SameFileKeeps ==
  ASSUME NEW f \in Files, disk'[f] = disk[f]
  PROVE  Keeps(f)
<1>1. Positions(f)' = Positions(f) /\ Length(f)' = Length(f)
  BY DEF Positions, Length
<1>2. \A p : Node(f, p)' = Node(f, p)
  BY DEF Node
<1>3. InTree(f)' = InTree(f)
  BY <1>1, <1>2 DEF InTree, Node
<1>4. \A c \in Commits : Finds(f, c)' <=> Finds(f, c)
  BY DEF Finds, Positions, Length, Node, Branch
<1>5. \A c \in Commits : \A p \in Positions(f) : Route(f, c, p) => Route(f, c, p)'
  BY <1>1, <1>2 DEF Route, Commit, Branching
<1> QED
  BY <1>1, <1>2, <1>3, <1>4, <1>5 DEF Keeps

\* What has been said of any state holds of the state after a step too.
LEMMA DecidedAfterStep == Shape' => SearchesDecided' /\ TreesDetermined'
BY SearchesDecide, TreesAreDetermined, PTL

\* An appended node that is not the root is out of every search's way.
LEMMA AppendKeeps ==
  ASSUME Shape, Shape', NEW c \in Commits, CallRemember(c),
         NEW f \in Files, f = fd, Length(f) # 0
  PROVE  Keeps(f)
<1> DEFINE L == Length(f)
<1>1. /\ L \in Nat /\ Length(f)' = L + 1
      /\ \A p \in Positions(f) : Node(f, p)' = Node(f, p)
      /\ disk'[f][L + 1] = NewNode(c)
  BY AppendEffect DEF Shape
<1>2. Positions(f)' = Positions(f) \cup {L} /\ L \notin Positions(f)
  BY <1>1 DEF Positions
<1>3. /\ \A p \in Positions(f) : Commit(f, p)' = Commit(f, p)
      /\ \A p \in Positions(f) : Sides(f, p)' = Sides(f, p)
      /\ \A p \in Positions(f) : \A d : Branching(f, p, d)' = Branching(f, p, d)
  BY <1>1 DEF Commit, Sides, Branching
<1>4. SearchesDecided /\ SearchesDecided' /\ TreesDetermined /\ TreesDetermined'
  BY SearchesDecide, TreesAreDetermined, DecidedAfterStep
<1>5. ASSUME NEW d \in Commits PROVE Finds(f, d)' <=> Finds(f, d)
  <2>1. ASSUME NEW X \in SUBSET Positions(f), Leads(f, d, X) PROVE Leads(f, d, X)'
    BY <1>2, <1>3, <2>1 DEF Leads
  <2>2. ASSUME NEW X \in SUBSET Positions(f), Misses(f, d, X) PROVE Misses(f, d, X)'
    BY <1>2, <1>3, <2>2 DEF Misses
  <2>3. CASE Finds(f, d)
    <3>1. PICK X \in SUBSET Positions(f) : Leads(f, d, X)
      BY <1>4, <2>3 DEF SearchesDecided
    <3>2. X \in (SUBSET Positions(f))'
      BY <1>2
    <3> QED
      BY <1>4, <2>1, <2>3, <3>1, <3>2 DEF SearchesDecided
  <2>4. CASE ~Finds(f, d)
    <3>1. PICK X \in SUBSET Positions(f) : Misses(f, d, X)
      BY <1>4, <2>4 DEF SearchesDecided
    <3>2. X \in (SUBSET Positions(f))'
      BY <1>2
    <3> QED
      BY <1>4, <2>2, <2>4, <3>1, <3>2 DEF SearchesDecided
  <2> QED
    BY <2>3, <2>4
<1>6. InTree(f)' = InTree(f)
  <2>1. PICK Y \in SUBSET Positions(f) : Y = InTree(f)
    BY DEF InTree
  <2>2. TreeOf(f, Y)
    BY <1>4, <2>1 DEF TreesDetermined
  <2>3. \A p \in Positions(f) : L \notin Sides(f, p)
    BY <1>1 DEF Shape, ChildrenFollow, Sides
  <2>4. TreeOf(f, Y)'
    BY <1>1, <1>2, <1>3, <2>2, <2>3 DEF TreeOf
  <2>5. Y \in (SUBSET Positions(f))'
    BY <1>2
  <2> QED
    BY <1>4, <2>1, <2>4, <2>5 DEF TreesDetermined
<1>7. ASSUME NEW d \in Commits, NEW p \in Positions(f), Route(f, d, p)
      PROVE  Route(f, d, p)'
  BY <1>2, <1>3, <1>7 DEF Route
<1> QED
  BY <1>1, <1>2, <1>5, <1>6, <1>7 DEF Keeps

\* The first node of a file is a tree by itself.
LEMMA RootAppended ==
  ASSUME Shape, Shape', NEW c \in Commits, CallRemember(c),
         NEW f \in Files, f = fd, Length(f) = 0
  PROVE  /\ InTree(f)' = {0} /\ Commit(f, 0)' = c
         /\ Route(f, c, 0)'
         /\ \A d \in Commits : Finds(f, d)' <=> d = c
         /\ \A d \in Commits : ~Finds(f, d)
<1>1. /\ Length(f)' = 1 /\ disk'[f][1] = NewNode(c)
  BY AppendEffect DEF Shape
<1>2. Positions(f)' = {0} /\ Positions(f) = {}
  BY <1>1 DEF Positions
<1>3. Node(f, 0)' = NewNode(c)
  BY <1>1 DEF Node
<1>4. /\ Commit(f, 0)' = c /\ Sides(f, 0)' = {0}
      /\ \A d : Branching(f, 0, d)' = 0
  BY <1>3 DEF Commit, Sides, Branching, Branch, NewNode
<1>5. SearchesDecided /\ SearchesDecided' /\ TreesDetermined'
  BY SearchesDecide, DecidedAfterStep
<1>6. InTree(f)' = {0}
  <2>1. TreeOf(f, {0})'
    BY <1>2, <1>4 DEF TreeOf
  <2>2. {0} \in (SUBSET Positions(f))'
    BY <1>2
  <2> QED
    BY <1>5, <2>1, <2>2 DEF TreesDetermined
<1>7. Route(f, c, 0)'
  <2>1. {0} \in (SUBSET Positions(f))'
    BY <1>2
  <2> QED
    BY <2>1 DEF Route
<1>8. ASSUME NEW d \in Commits PROVE Finds(f, d)' <=> d = c
  <2>1. {0} \in (SUBSET Positions(f))'
    BY <1>2
  <2>2. d = c => Leads(f, d, {0})'
    BY <1>2, <1>4 DEF Leads
  <2>3. d # c => Misses(f, d, {0})'
    BY <1>2, <1>4 DEF Misses
  <2> QED
    BY <1>5, <2>1, <2>2, <2>3 DEF SearchesDecided
<1>9. ASSUME NEW d \in Commits PROVE ~Finds(f, d)
  <2>1. ~\E X \in SUBSET Positions(f) : Leads(f, d, X)
    BY <1>2 DEF Leads
  <2> QED
    BY <1>5, <2>1 DEF SearchesDecided
<1> QED
  BY <1>4, <1>6, <1>7, <1>8, <1>9

\* Linking the new node to the leaf where a search for its commit ends adds
\* that commit to what the file holds, and changes no other search.
LEMMA LinkAdds ==
  ASSUME Shape, Shape', PlaceLink,
         NEW f \in Files, NEW a \in Commits, NEW t \in Nat, NEW n \in Nat,
         f = fd, a = arg, t = at, n = newnodepos,
         t \in InTree(f), Route(f, a, t), Node(f, n) = NewNode(a)
  PROVE  /\ InTree(f)' = InTree(f) \cup {n}
         /\ \A d \in Commits : Finds(f, d)' <=> Finds(f, d) \/ d = a
         /\ \A p \in Positions(f) : Commit(f, p)' = Commit(f, p)
         /\ \A d \in Commits : \A p \in Positions(f) : Route(f, d, p) => Route(f, d, p)'
         /\ Route(f, a, n)' /\ Commit(f, n)' = a
<1>1. /\ Length(f) \in Nat /\ Length(f)' = Length(f)
      /\ t \in Positions(f) /\ Node(f, t) \in NodeType
      /\ \A p \in Positions(f) : p # t => Node(f, p)' = Node(f, p)
      /\ disk'[f][t + 1] = WithChild(Node(f, t), a, n)
  BY LinkEffect DEF Shape
<1>2. Positions(f)' = Positions(f) /\ Positions(f) \subseteq Nat
  BY <1>1 DEF Positions
<1>3. Node(f, t)' = WithChild(Node(f, t), a, n)
  BY <1>1 DEF Node
<1>4. Commit(f, t) # a /\ Branching(f, t, a) = 0
  BY DEF PlaceLink, Differs, Child, Commit, Branching
<1>5. /\ n \in Positions(f) /\ n # t /\ n # 0 /\ t < n
      /\ \A p \in Positions(f) : n \notin Sides(f, p)
  BY <1>1 DEF PlaceLink, Shape, Walking, Positions, Sides
<1>6. /\ Commit(f, n) = a /\ Sides(f, n) = {0}
      /\ \A d : Branching(f, n, d) = 0
  BY DEF Commit, Sides, Branching, Branch, NewNode
<1>7. /\ \A p \in Positions(f) : p # t => /\ Commit(f, p)' = Commit(f, p)
                                          /\ Sides(f, p)' = Sides(f, p)
      /\ \A p \in Positions(f) : p # t =>
           \A d : Branching(f, p, d)' = Branching(f, p, d)
  BY <1>1 DEF Commit, Sides, Branching
<1>8. Commit(f, t)' = Commit(f, t)
  BY <1>1, <1>3 DEF Commit, WithChild, NodeType
\* The child that changes was 0.
<1>9. Branching(f, t, a)' = n
  BY <1>1, <1>3 DEF Branching, Branch, WithChild, NodeType
<1>10. ASSUME NEW d \in Commits
       PROVE  \/ Branching(f, t, d)' = Branching(f, t, d)
              \/ Branching(f, t, d) = 0 /\ Branching(f, t, d)' = n
  BY <1>1, <1>3, <1>4 DEF Branching, Branch, WithChild, NodeType
<1>11. /\ n \in Sides(f, t)' /\ Sides(f, t)' \subseteq Sides(f, t) \cup {n}
       /\ \A p \in Sides(f, t) : p # 0 => p \in Sides(f, t)'
  BY <1>1, <1>3, <1>4 DEF Sides, Branching, Branch, WithChild, NodeType
<1>12. SearchesDecided /\ SearchesDecided' /\ TreesDetermined /\ TreesDetermined'
  BY SearchesDecide, TreesAreDetermined, DecidedAfterStep
<1>13. InTree(f)' = InTree(f) \cup {n}
  <2>1. PICK Y \in SUBSET Positions(f) : Y = InTree(f)
    BY DEF InTree
  <2>2. TreeOf(f, Y) /\ t \in Y
    BY <1>12, <2>1 DEF TreesDetermined
  <2> DEFINE Z == Y \cup {n}
  <2>3. ASSUME NEW p \in Positions(f), p \in Z
        PROVE  p = 0 \/ \E q \in Z : p \in Sides(f, q)'
    <3>1. CASE p = n
      BY <1>11, <2>2, <3>1
    <3>2. CASE p # n /\ p # 0
      <4>1. PICK q \in Y : p \in Sides(f, q)
        BY <2>2, <2>3, <3>2 DEF TreeOf
      <4>2. p \in Sides(f, q)'
        BY <1>7, <1>11, <3>2, <4>1
      <4> QED
        BY <4>2
    <3> QED
      BY <3>1, <3>2
  <2>4. ASSUME NEW p \in Positions(f), p = 0 \/ \E q \in Z : p \in Sides(f, q)'
        PROVE  p \in Z
    <3>1. CASE p = 0
      BY <2>2, <3>1 DEF TreeOf
    <3>2. CASE p # 0 /\ p # n
      <4>1. PICK q \in Z : p \in Sides(f, q)'
        BY <2>4, <3>2
      <4>2. q # n
        BY <1>5, <1>6, <1>7, <3>2, <4>1
      <4>3. p \in Sides(f, q)
        BY <1>7, <1>11, <3>2, <4>1, <4>2
      <4> QED
        BY <2>2, <4>1, <4>2, <4>3 DEF TreeOf
    <3> QED
      BY <3>1, <3>2
  <2>5. Z \in (SUBSET Positions(f))' /\ Z \subseteq Positions(f)
    BY <1>2, <1>5
  <2> HIDE DEF Z
  <2>6. TreeOf(f, Z)'
    BY <1>2, <2>3, <2>4, <2>5 DEF TreeOf
  <2>7. Z = InTree(f)'
    BY <1>12, <2>5, <2>6 DEF TreesDetermined
  <2> QED
    BY <2>1, <2>7 DEF Z
<1>14. ASSUME NEW d \in Commits, NEW p \in Positions(f), Route(f, d, p)
       PROVE  Route(f, d, p)'
  <2>1. PICK X \in SUBSET Positions(f) :
          /\ 0 \in X /\ p \in X
          /\ \A q \in X \ {p} : /\ Commit(f, q) # d
                                /\ Branching(f, q, d) # 0
                                /\ Branching(f, q, d) \in X
    BY <1>14 DEF Route
  <2>2. \A q \in X \ {p} : /\ Commit(f, q)' # d
                           /\ Branching(f, q, d)' # 0
                           /\ Branching(f, q, d)' \in X
    BY <1>7, <1>8, <1>10, <2>1
  <2>3. X \in (SUBSET Positions(f))'
    BY <1>2
  <2> QED
    BY <2>1, <2>2, <2>3 DEF Route
<1>15. Route(f, a, n)'
  <2>1. PICK X \in SUBSET Positions(f) :
          /\ 0 \in X /\ t \in X
          /\ \A q \in X \ {t} : /\ Commit(f, q) # a
                                /\ Branching(f, q, a) # 0
                                /\ Branching(f, q, a) \in X
    BY DEF Route
  <2> DEFINE Z == X \cup {n}
  <2>2. \A q \in Z \ {n} : /\ Commit(f, q)' # a
                           /\ Branching(f, q, a)' # 0
                           /\ Branching(f, q, a)' \in Z
    BY <1>4, <1>5, <1>7, <1>8, <1>9, <2>1
  <2>3. Z \in (SUBSET Positions(f))' /\ 0 \in Z /\ n \in Z
    BY <1>2, <1>5, <2>1
  <2> HIDE DEF Z
  <2> QED
    BY <2>2, <2>3 DEF Route
<1>16. Commit(f, n)' = a
  BY <1>5, <1>6, <1>7
<1>17. ASSUME NEW d \in Commits PROVE Finds(f, d)' <=> Finds(f, d) \/ d = a
  <2>1. CASE Finds(f, d)
    <3>1. PICK X \in SUBSET Positions(f) : Leads(f, d, X)
      BY <1>12, <2>1 DEF SearchesDecided
    <3>2. \A p \in X : \/ Commit(f, p)' = d
                       \/ Branching(f, p, d)' # 0 /\ Branching(f, p, d)' \in X
      BY <1>7, <1>8, <1>10, <3>1 DEF Leads
    <3>3. Leads(f, d, X)' /\ X \in (SUBSET Positions(f))'
      BY <1>2, <3>1, <3>2 DEF Leads
    <3> QED
      BY <1>12, <2>1, <3>3 DEF SearchesDecided
  <2>2. CASE d = a
    <3>1. SearchesDecided' /\ Shape'
      BY <1>12
    <3>2. PICK X \in SUBSET Positions(f) :
          /\ 0 \in X /\ t \in X
          /\ \A q \in X \ {t} : /\ Commit(f, q) # a
                                /\ Branching(f, q, a) # 0
                                /\ Branching(f, q, a) \in X
      BY DEF Route
    <3> DEFINE Z == X \cup {n}
    <3>3. \A q \in Z : \/ Commit(f, q)' = a
                       \/ Branching(f, q, a)' # 0 /\ Branching(f, q, a)' \in Z
      BY <1>4, <1>5, <1>7, <1>8, <1>9, <1>16, <3>2
    <3>4. Z \in (SUBSET Positions(f))' /\ 0 \in Z
      BY <1>2, <1>5, <3>2
    <3> HIDE DEF Z
    <3>5. Leads(f, a, Z)'
      BY <3>3, <3>4 DEF Leads
    <3> QED
      BY <2>2, <3>1, <3>4, <3>5 DEF SearchesDecided
  <2>3. CASE ~Finds(f, d) /\ d # a
    <3>1. PICK X \in SUBSET Positions(f) : Misses(f, d, X)
      BY <1>1, <1>12, <2>3 DEF SearchesDecided, Positions
    <3> DEFINE Z == X \cup {n}
    <3>2. \A p \in Z : /\ Commit(f, p)' # d
                       /\ Branching(f, p, d)' = 0 \/ Branching(f, p, d)' \in Z
      BY <1>5, <1>6, <1>7, <1>8, <1>10, <2>3, <3>1 DEF Misses
    <3>3. Z \in (SUBSET Positions(f))' /\ 0 \in Z
      BY <1>2, <1>5, <3>1 DEF Misses
    <3> HIDE DEF Z
    <3>4. Misses(f, d, Z)'
      BY <3>2, <3>3 DEF Misses
    <3> QED
      BY <1>12, <2>3, <3>3, <3>4 DEF SearchesDecided
  <2> QED
    BY <2>1, <2>2, <2>3
<1> QED
  BY <1>7, <1>8, <1>13, <1>14, <1>15, <1>16, <1>17

-------------------------------------------------------------------------------
(* The files as sets.                                                      *)

\* Every linked node is where a search for its commit gets to.
Routed == \A f \in Files : \A p \in InTree(f) : Route(f, Commit(f, p), p)

\* A call in progress is on the route of its commit, and in the tree.
OnRoute ==
    pc \in {"search", "place"} /\ Length(fd) > 0 =>
        at \in InTree(fd) /\ Route(fd, arg, at)

\* The node that remember() is about to link is as it was written.
NewNodeReady == pc = "place" => Node(fd, newnodepos) = NewNode(arg)

SeenInv == Shape /\ Routed /\ OnRoute /\ NewNodeReady /\ Durable

\* A file with a node has its root in its tree.
LEMMA RootInTree ==
  ASSUME Shape, NEW f \in Files, Length(f) > 0
  PROVE  0 \in Positions(f) /\ 0 \in InTree(f)
<1>1. disk[f] \in Seq(NodeType)
  BY DEF Shape, TypeOK
<1>2. 0 \in Positions(f)
  BY <1>1 DEF Positions, Length
<1> QED
  BY <1>2, TreesAreDetermined DEF TreesDetermined, TreeOf

\* What a step keeps of the invariant in a file that it keeps.
LEMMA KeepsFile ==
  ASSUME SeenInv, NEW f \in Files, Keeps(f)
  PROVE  /\ \A p \in InTree(f)' : Route(f, Commit(f, p), p)'
         /\ remembered'[f] = remembered[f] => remembered'[f] \subseteq Held(f)'
<1>1. ASSUME NEW p \in InTree(f)' PROVE Route(f, Commit(f, p), p)'
  <2>1. p \in InTree(f) /\ p \in Positions(f)
    BY DEF Keeps, InTree
  <2>2. Commit(f, p)' = Commit(f, p)
    BY <2>1 DEF Keeps, Commit
  <2>3. Commit(f, p) \in Commits
    BY <2>1, NodeInFile DEF SeenInv, Shape, Commit, NodeType
  <2>4. PICK d \in Commits : d = Commit(f, p)
    BY <2>3
  <2>5. Route(f, d, p)
    BY <2>1, <2>4 DEF SeenInv, Routed
  <2>6. Route(f, d, p)'
    BY <2>1, <2>5 DEF Keeps
  <2> QED
    BY <2>2, <2>4, <2>6 DEF Route
<1>2. Held(f)' = Held(f)
  BY DEF Keeps, Held
<1> QED
  BY <1>1, <1>2 DEF SeenInv, Durable

\* Where nodes are kept, searches find what they found before.
LEMMA KeepsRouted ==
  ASSUME SeenInv, \A f \in Files : Keeps(f)
  PROVE  /\ Routed'
         /\ remembered' = remembered => Durable'
BY KeepsFile DEF Routed, Durable

\* With no files the invariant holds.
LEMMA InitSeenInv == Init => SeenInv
<1> SUFFICES ASSUME Init PROVE SeenInv
  OBVIOUS
<1>1. Shape
  BY InitShape
<1>2. \A f \in Files : InTree(f) = {}
  BY DEF Init, InTree, Positions, Length
<1> QED
  BY <1>1, <1>2 DEF Init, SeenInv, Routed, OnRoute, NewNodeReady, Durable

\* Steps that write nothing, remember nothing, and end the walk or start none.
LEMMA IdleKeeps ==
  ASSUME SeenInv, Shape', UNCHANGED <<disk, remembered>>, pc' = "idle"
  PROVE  SeenInv'
<1>1. \A f \in Files : Keeps(f)
  BY SameFileKeeps
<1> QED
  BY <1>1, KeepsRouted DEF SeenInv, OnRoute, NewNodeReady

\* Every step of a call, a crash or a torn write keeps the invariant.
LEMMA NextSeenInv == SeenInv /\ [Next]_vars => SeenInv'
<1> SUFFICES ASSUME SeenInv, [Next]_vars PROVE SeenInv'
  OBVIOUS
<1>s. Shape /\ Shape' /\ TypeOK /\ TypeOK'
  BY NextShape DEF SeenInv, Shape
<1>k. ASSUME UNCHANGED <<disk, remembered>> PROVE Routed' /\ Durable'
  <2>1. \A f \in Files : Keeps(f)
    BY <1>k, SameFileKeeps
  <2> QED
    BY <1>k, <2>1, KeepsRouted
<1>1. CASE \/ \E f \in Files : InitSeen(f)
           \/ SeenNoRoot \/ SeenMatch \/ SeenBottom
           \/ RememberFatal \/ ReadFatal \/ Die
  <2>1. UNCHANGED <<disk, remembered>> /\ pc' = "idle"
    BY <1>1 DEF InitSeen, SeenNoRoot, SeenMatch, SeenBottom, Return, RememberFatal,
                ReadFatal, Die, NewProcess, files
  <2> QED
    BY <1>s, <2>1, IdleKeeps
<1>2. ASSUME NEW c \in Commits, CallSeen(c) PROVE SeenInv'
  <2>1. UNCHANGED <<disk, remembered, fd>> /\ pc' = "search" /\ at' = 0 /\ arg' = c
    BY <1>2 DEF CallSeen, files
  <2>2. fd \in Files
    BY <1>2, <1>s DEF CallSeen, TypeOK
  <2>3. PICK g \in Files : g = fd
    BY <2>2
  <2>4. ASSUME Length(g)' > 0 PROVE 0 \in InTree(g)' /\ Route(g, c, 0)'
    <3>1. Length(g) > 0
      BY <2>1, <2>4 DEF Length
    <3>2. 0 \in InTree(g) /\ 0 \in Positions(g)
      BY <1>s, <3>1, RootInTree
    <3>3. Route(g, c, 0)
      BY <3>2, RootRoute
    <3> QED
      BY <2>1, <3>2, <3>3, SameFileKeeps DEF Keeps
  <2>5. OnRoute'
    BY <2>1, <2>3, <2>4 DEF OnRoute, Length, Route, Positions, Commit, Branching, Node
  <2> QED
    BY <1>s, <1>k, <2>1, <2>5 DEF SeenInv, NewNodeReady
<1>3. CASE Descend
  <2>1. UNCHANGED <<disk, remembered, fd, pc, arg, newnodepos>> /\ at' = Child /\ Child # 0
    BY <1>3 DEF Descend, files
  <2>2. fd \in Files /\ at \in Positions(fd) /\ arg \in Commits /\ Length(fd) > 0
    BY <1>3, <1>s DEF Descend, Differs, Present, TypeOK, Positions, Length
  <2>3. PICK g \in Files, a \in Commits, t \in Nat :
          g = fd /\ a = arg /\ t = at /\ t \in Positions(g)
    BY <1>s, <2>2 DEF TypeOK
  <2>4. Commit(g, t) # a /\ Child = Branching(g, t, a)
    BY <1>3, <2>3 DEF Descend, Differs, Child, Commit, Branching
  <2>5. t \in InTree(g) /\ Route(g, a, t)
    BY <1>3, <2>2, <2>3 DEF SeenInv, OnRoute, Descend
  <2>6. PICK r \in Positions(g) : r = Branching(g, t, a) /\ r # 0 /\ r \in Sides(g, t)
    BY <1>s, <2>1, <2>3, <2>4, BranchesForward DEF Sides
  <2>7. Route(g, a, r)
    BY <2>3, <2>4, <2>5, <2>6, RouteExtends
  <2>8. r \in InTree(g)
    BY <1>s, <2>5, <2>6, TreesAreDetermined DEF TreesDetermined, TreeOf
  <2>9. OnRoute'
    <3>1. InTree(g)' = InTree(g) /\ Route(g, a, r)'
      BY <2>1, <2>7, SameFileKeeps DEF Keeps
    <3>2. fd' = g /\ arg' = a /\ at' = r
      BY <2>1, <2>3, <2>4, <2>6
    <3> QED
      BY <2>8, <3>1, <3>2 DEF OnRoute, Route, Positions, Length, Commit, Branching, Node
  <2>10. NewNodeReady'
    BY <2>1 DEF SeenInv, NewNodeReady, Node
  <2> QED
    BY <1>s, <1>k, <2>1, <2>9, <2>10 DEF SeenInv
<1>4. ASSUME NEW c \in Commits, CallRemember(c) PROVE SeenInv'
  <2>1. /\ fd \in Files /\ fd' = fd /\ Length(fd) \in Nat
        /\ \A f \in Files : f # fd => disk'[f] = disk[f]
    BY <1>4, <1>s, AppendEffect
  <2>2. PICK g \in Files : g = fd
    BY <2>1
  <2>3. \A f \in Files : f # g => Keeps(f)
    BY <2>1, <2>2, SameFileKeeps
  <2>4. CASE Length(g) = 0
    <3>1. /\ pc' = "idle" /\ remembered' = [remembered EXCEPT ![g] = @ \cup {c}]
      BY <1>4, <2>2, <2>4 DEF CallRemember
    <3>2. /\ InTree(g)' = {0} /\ Commit(g, 0)' = c /\ Route(g, c, 0)'
          /\ \A d \in Commits : Finds(g, d)' <=> d = c
          /\ \A d \in Commits : ~Finds(g, d)
      BY <1>4, <1>s, <2>2, <2>4, RootAppended
    <3>3. \A f \in Files : f # g =>
            /\ \A p \in InTree(f)' : Route(f, Commit(f, p), p)'
            /\ remembered'[f] \subseteq Held(f)'
      BY <1>s, <2>3, <3>1, KeepsFile DEF TypeOK
    <3>4. Route(g, Commit(g, 0), 0)'
      BY <3>2 DEF Route
    <3>5. Routed'
      BY <3>2, <3>3, <3>4 DEF Routed
    <3>6. remembered[g] \subseteq {} /\ remembered'[g] = remembered[g] \cup {c}
      BY <1>s, <3>1, <3>2 DEF SeenInv, Durable, Held, TypeOK
    <3>7. Durable'
      BY <3>2, <3>3, <3>6 DEF Durable, Held
    <3> QED
      BY <1>s, <3>1, <3>5, <3>7 DEF SeenInv, OnRoute, NewNodeReady
  <2>5. CASE Length(g) # 0
    <3>1. /\ pc' = "place" /\ remembered' = remembered
          /\ arg' = c /\ at' = 0 /\ newnodepos' = Length(g)
      BY <1>4, <2>2, <2>5 DEF CallRemember
    <3>2. Keeps(g)
      BY <1>4, <1>s, <2>2, <2>5, AppendKeeps
    <3>3. \A f \in Files : /\ \A p \in InTree(f)' : Route(f, Commit(f, p), p)'
                           /\ remembered'[f] \subseteq Held(f)'
      BY <2>3, <3>1, <3>2, KeepsFile
    <3>4. 0 \in InTree(g) /\ 0 \in Positions(g)
      BY <1>s, <2>1, <2>2, <2>5, RootInTree
    <3>5. 0 \in InTree(g)' /\ Route(g, c, 0)'
      BY <3>2, <3>4, RootRoute DEF Keeps
    <3>6. OnRoute'
      BY <2>1, <2>2, <3>1, <3>5
         DEF OnRoute, Route, Positions, Length, Commit, Branching, Node
    <3>7. NewNodeReady'
      <4>1. disk'[g][Length(g) + 1] = NewNode(c)
        BY <1>4, <1>s, <2>2, AppendEffect
      <4> QED
        BY <2>1, <2>2, <3>1, <4>1 DEF NewNodeReady, Node, NewNode
    <3> QED
      BY <1>s, <3>3, <3>6, <3>7 DEF SeenInv, Routed, Durable
  <2> QED
    BY <2>4, <2>5
<1>5. CASE PlaceDuplicate
  <2>1. /\ disk' = disk /\ pc' = "idle"
        /\ remembered' = [remembered EXCEPT ![fd] = @ \cup {arg}]
    BY <1>5 DEF PlaceDuplicate, Remembered
  <2>2. fd \in Files /\ at \in Positions(fd) /\ arg \in Commits /\ Length(fd) > 0
    BY <1>5, <1>s DEF PlaceDuplicate, Present, TypeOK, Positions, Length
  <2>3. PICK g \in Files, a \in Commits, t \in Nat :
          g = fd /\ a = arg /\ t = at /\ t \in Positions(g)
    BY <1>s, <2>2 DEF TypeOK
  <2>4. Route(g, a, t) /\ Commit(g, t) = a
    BY <1>5, <2>2, <2>3 DEF PlaceDuplicate, SeenInv, OnRoute, Commit
  <2>5. Finds(g, a)
    BY <1>s, <2>3, <2>4, RouteFinds
  <2>6. \A f \in Files : Keeps(f)
    BY <2>1, SameFileKeeps
  <2>7. \A f \in Files : Held(f)' = Held(f)
    BY <2>6 DEF Keeps, Held
  <2>8. Durable'
    BY <1>s, <2>1, <2>3, <2>5, <2>7 DEF SeenInv, Durable, Held, TypeOK
  <2>9. Routed'
    BY <2>6, KeepsRouted
  <2> QED
    BY <1>s, <2>1, <2>8, <2>9 DEF SeenInv, OnRoute, NewNodeReady
<1>6. CASE PlaceLink
  <2>1. /\ pc' = "idle" /\ pc = "place" /\ fd \in Files
        /\ remembered' = [remembered EXCEPT ![fd] = @ \cup {arg}]
        /\ \A f \in Files : f # fd => disk'[f] = disk[f]
    BY <1>6, <1>s, LinkEffect DEF PlaceLink, Remembered
  <2>2. arg \in Commits /\ at \in Nat /\ newnodepos \in Nat /\ Length(fd) > 0
    BY <1>6, <1>s, LinkEffect DEF PlaceLink, TypeOK, Positions
  <2>3. PICK g \in Files, a \in Commits, t \in Nat, n \in Nat :
          g = fd /\ a = arg /\ t = at /\ n = newnodepos
    BY <2>1, <2>2
  <2>4. t \in InTree(g) /\ Route(g, a, t) /\ Node(g, n) = NewNode(a)
    BY <2>1, <2>2, <2>3 DEF SeenInv, OnRoute, NewNodeReady
  <2>5. /\ InTree(g)' = InTree(g) \cup {n}
        /\ \A d \in Commits : Finds(g, d)' <=> Finds(g, d) \/ d = a
        /\ \A p \in Positions(g) : Commit(g, p)' = Commit(g, p)
        /\ \A d \in Commits : \A p \in Positions(g) : Route(g, d, p) => Route(g, d, p)'
        /\ Route(g, a, n)' /\ Commit(g, n)' = a
    BY <1>6, <1>s, <2>3, <2>4, LinkAdds
  <2>6. \A f \in Files : f # g =>
          /\ \A p \in InTree(f)' : Route(f, Commit(f, p), p)'
          /\ remembered'[f] \subseteq Held(f)'
    <3>1. \A f \in Files : f # g => Keeps(f) /\ remembered'[f] = remembered[f]
      BY <1>s, <2>1, <2>3, SameFileKeeps DEF TypeOK
    <3> QED
      BY <3>1, KeepsFile
  <2>7. ASSUME NEW p \in InTree(g)' PROVE Route(g, Commit(g, p), p)'
    <3>1. CASE p = n
      BY <2>5, <3>1 DEF Route
    <3>2. CASE p # n
      <4>1. p \in InTree(g) /\ p \in Positions(g)
        BY <2>5, <3>2 DEF InTree
      <4>2. Commit(g, p) \in Commits
        BY <1>s, <4>1, NodeInFile DEF Commit, NodeType
      <4>3. PICK d \in Commits : d = Commit(g, p)
        BY <4>2
      <4>4. Route(g, d, p)'
        BY <2>5, <4>1, <4>3 DEF SeenInv, Routed
      <4>5. Commit(g, p)' = d
        BY <2>5, <4>1, <4>3
      <4> QED
        BY <4>4, <4>5 DEF Route
    <3> QED
      BY <3>1, <3>2
  <2>8. Routed'
    BY <2>6, <2>7 DEF Routed
  <2>9. remembered'[g] \subseteq Held(g)'
    <3>1. remembered'[g] = remembered[g] \cup {a}
      BY <1>s, <2>1, <2>3 DEF TypeOK
    <3> QED
      BY <2>5, <3>1 DEF SeenInv, Durable, Held
  <2>10. Durable'
    BY <2>6, <2>9 DEF Durable
  <2> QED
    BY <1>s, <2>1, <2>8, <2>10 DEF SeenInv, OnRoute, NewNodeReady
<1>7. CASE UNCHANGED vars
  <2>1. UNCHANGED <<disk, remembered, fd, pc, arg, at, newnodepos>>
    BY <1>7 DEF vars
  <2>2. OnRoute' /\ NewNodeReady'
    BY <2>1 DEF SeenInv, OnRoute, NewNodeReady, InTree, Route, Positions, Length,
                Commit, Branching, Node
  <2> QED
    BY <1>s, <1>k, <2>1, <2>2 DEF SeenInv
<1> QED
  BY <1>1, <1>2, <1>3, <1>4, <1>5, <1>6, <1>7 DEF Next, Walk

\* The linked nodes are a search tree without duplicates (SearchTree): what
\* remember() links, seen() will find, and no orphan gets in its way.
THEOREM TreeIsSearchTree == Spec => []SearchTree
<1>1. SeenInv => SearchTree
  <2> SUFFICES ASSUME SeenInv, NEW f \in Files, NEW p \in InTree(f), NEW q \in InTree(f)
               PROVE  /\ Finds(f, Commit(f, p))
                      /\ Commit(f, p) = Commit(f, q) => p = q
    BY DEF SearchTree, Commit
  <2>1. p \in Positions(f) /\ q \in Positions(f) /\ Shape
    BY DEF InTree, SeenInv
  <2>2. Commit(f, p) \in Commits /\ Commit(f, q) \in Commits
    BY <2>1, NodeInFile DEF Shape, Commit, NodeType
  <2>3. Route(f, Commit(f, p), p) /\ Route(f, Commit(f, q), q)
    BY DEF SeenInv, Routed
  <2>4. Finds(f, Commit(f, p))
    BY <2>1, <2>2, <2>3, RouteFinds
  <2>5. ASSUME Commit(f, p) = Commit(f, q) PROVE p = q
    <3>1. PICK c \in Commits : c = Commit(f, p) /\ c = Commit(f, q)
      BY <2>2, <2>5
    <3> QED
      BY <2>1, <2>3, <3>1, RouteEndsOnce
  <2> QED
    BY <2>4, <2>5
<1> QED
  BY InitSeenInv, NextSeenInv, <1>1, PTL DEF Spec

\* What remember() has returned for is found by every later search, in this
\* run and all others, whatever crashes and torn writes there are (Durable).
THEOREM RememberedForGood == Spec => []Durable
<1>1. SeenInv => Durable
  BY DEF SeenInv
<1> QED
  BY InitSeenInv, NextSeenInv, <1>1, PTL DEF Spec

\* A step of the tracking files is one of the sets that they stand for, or
\* leaves those as they are.
LEMMA StepOfSets == SeenInv /\ SeenInv' /\ [Next]_vars => [CS!Next]_CS!vars
<1> SUFFICES ASSUME SeenInv, SeenInv', [Next]_vars PROVE [CS!Next]_CS!vars
  OBVIOUS
<1> DEFINE members == [f \in Files |-> Held(f)]
<1>s. Shape /\ Shape' /\ TypeOK /\ TypeOK'
  BY DEF SeenInv, Shape
<1>k. ASSUME disk' = disk PROVE members' = members
  <2>1. \A f \in Files : Keeps(f)
    BY <1>k, SameFileKeeps
  <2>2. \A f \in Files : Held(f)' = Held(f)
    BY <2>1 DEF Keeps, Held
  <2> QED
    BY <2>2
<1>1. ASSUME NEW f \in Files, InitSeen(f) PROVE CS!Open(f)
  BY <1>1, <1>k, <1>s DEF InitSeen, files, call, TypeOK, CS!Open, CS!NoCall
<1>2. ASSUME NEW c \in Commits, CallSeen(c) PROVE CS!AskSeen(c)
  BY <1>2, <1>k, <1>s DEF CallSeen, files, CS!AskSeen, TypeOK
<1>3. CASE RememberFatal \/ ReadFatal \/ Die
  <2>1. disk' = disk /\ fd' = NoFile /\ answer' = "none" /\ pc' = "idle"
    BY <1>3 DEF RememberFatal, ReadFatal, Die, NewProcess
  <2>2. CS!Quit
    BY <1>k, <1>s, <2>1 DEF CS!Quit, CS!NoCall, TypeOK
  <2> QED
    BY <2>2 DEF CS!Next
<1>4. CASE SeenNoRoot
  <2>1. fd \in Files /\ disk' = disk /\ fd' = fd /\ answer' = "no"
        /\ pc = "search" /\ pc' = "idle"
    BY <1>4, <1>s DEF SeenNoRoot, Return, files, TypeOK
  <2>2. Length(fd) = 0
    <3>1. disk[fd] \in Seq(NodeType)
      BY <1>s, <2>1 DEF TypeOK
    <3>2. Length(fd) \in Nat
      BY <3>1 DEF Length
    <3> QED
      BY <1>4, <3>2 DEF SeenNoRoot, Absent
  <2>3. arg \notin Held(fd)
    BY <2>2 DEF Held, Finds
  <2>4. CS!Answer
    BY <1>k, <1>s, <2>1, <2>3 DEF CS!Answer, CS!NoCall, TypeOK
  <2> QED
    BY <2>4 DEF CS!Next
<1>5. CASE SeenMatch \/ SeenBottom
  <2>1. /\ fd \in Files /\ disk' = disk /\ fd' = fd
        /\ pc = "search" /\ pc' = "idle" /\ Present(fd, at)
    BY <1>5, <1>s DEF SeenMatch, SeenBottom, Differs, Return, files, TypeOK
  <2>2. at \in Positions(fd) /\ arg \in Commits /\ Length(fd) > 0
    BY <1>s, <2>1 DEF Present, TypeOK, Positions, Length
  <2>3. Route(fd, arg, at)
    BY <2>1, <2>2 DEF SeenInv, OnRoute
  <2>4. answer' = IF arg \in Held(fd) THEN "yes" ELSE "no"
    <3>1. CASE SeenMatch
      <4>1. Finds(fd, arg)
        BY <1>s, <2>1, <2>2, <2>3, <3>1, RouteFinds DEF SeenMatch, Commit
      <4> QED
        BY <2>2, <3>1, <4>1 DEF SeenMatch, Return, Held
    <3>2. CASE SeenBottom
      <4>1. ~Finds(fd, arg)
        BY <1>s, <2>1, <2>2, <2>3, <3>2, RouteMisses
           DEF SeenBottom, Differs, Child, Commit, Branching
      <4> QED
        BY <2>2, <3>2, <4>1 DEF SeenBottom, Return, Held
    <3> QED
      BY <1>5, <3>1, <3>2
  <2>5. CS!Answer
    BY <1>k, <1>s, <2>1, <2>4 DEF CS!Answer, CS!NoCall, TypeOK
  <2> QED
    BY <2>5 DEF CS!Next
<1>6. CASE Descend
  <2>1. /\ disk' = disk /\ fd' = fd /\ answer' = answer
        /\ pc' = pc /\ arg' = arg
    BY <1>6 DEF Descend, files
  <2> QED
    BY <1>k, <2>1 DEF CS!vars
<1>10. CASE PlaceDuplicate
  <2>1. /\ fd \in Files /\ disk' = disk /\ fd' = fd /\ answer' = answer
        /\ pc = "place" /\ pc' = "idle" /\ Present(fd, at)
    BY <1>10, <1>s DEF PlaceDuplicate, Remembered, TypeOK
  <2>2. at \in Positions(fd) /\ arg \in Commits /\ Length(fd) > 0
    BY <1>s, <2>1 DEF Present, TypeOK, Positions, Length
  <2>3. Route(fd, arg, at)
    BY <2>1, <2>2 DEF SeenInv, OnRoute
  <2>4. Finds(fd, arg)
    BY <1>10, <1>s, <2>1, <2>2, <2>3, RouteFinds DEF PlaceDuplicate, Commit
  <2>5. PICK g \in Files, a \in Commits : g = fd /\ a = arg
    BY <2>1, <2>2
  <2>6. Held(g) = Held(g) \cup {a}
    BY <2>4, <2>5 DEF Held
  <2>7. members' = [members EXCEPT ![g] = @ \cup {a}]
    BY <1>k, <2>1, <2>6
  <2>8. CS!Remembered
    BY <1>s, <2>1, <2>5, <2>7 DEF CS!Remembered, CS!NoCall, TypeOK
  <2> QED
    BY <2>8 DEF CS!Next
<1>7. ASSUME NEW c \in Commits, CallRemember(c) PROVE [CS!Next]_CS!vars
  <2>1. /\ fd \in Files /\ fd' = fd /\ answer' = answer
        /\ \A f \in Files : f # fd => disk'[f] = disk[f]
    BY <1>7, <1>s, AppendEffect DEF CallRemember
  <2>2. PICK g \in Files : g = fd
    BY <2>1
  <2>3. \A f \in Files : f # g => Held(f)' = Held(f)
    BY <2>1, <2>2, SameFileKeeps DEF Keeps, Held
  <2>4. CASE Length(g) = 0
    <3>0. pc = "idle" /\ pc' = "idle" /\ arg' \in Commits
      BY <1>7, <1>s, <2>2, <2>4 DEF CallRemember, TypeOK
    <3>1. /\ \A d \in Commits : Finds(g, d)' <=> d = c
          /\ \A d \in Commits : ~Finds(g, d)
      BY <1>7, <1>s, <2>2, <2>4, RootAppended
    <3>2. Held(g)' = Held(g) \cup {c}
      BY <3>1 DEF Held
    <3>3. members' = [members EXCEPT ![g] = @ \cup {c}]
      BY <2>3, <3>2
    <3>4. CS!Add(c)
      BY <2>1, <2>2, <3>0, <3>3 DEF CS!Add, CS!NoCall
    <3> QED
      BY <3>4 DEF CS!Next
  <2>5. CASE Length(g) # 0
    <3>1. Held(g)' = Held(g)
      BY <1>7, <1>s, <2>2, <2>5, AppendKeeps DEF Keeps, Held
    <3>2. members' = members
      BY <2>3, <3>1
    <3>3. pc = "idle" /\ pc' = "place" /\ arg' = c
      BY <1>7, <2>2, <2>5 DEF CallRemember
    <3>4. CS!AskRemember(c)
      BY <2>1, <3>2, <3>3 DEF CS!AskRemember
    <3> QED
      BY <3>4 DEF CS!Next
  <2> QED
    BY <2>4, <2>5
<1>8. CASE PlaceLink
  <2>1. /\ fd \in Files /\ fd' = fd /\ answer' = answer
        /\ pc = "place" /\ pc' = "idle"
        /\ \A f \in Files : f # fd => disk'[f] = disk[f]
    BY <1>8, <1>s, LinkEffect DEF PlaceLink, Remembered
  <2>2. arg \in Commits /\ at \in Nat /\ newnodepos \in Nat /\ Length(fd) > 0
    BY <1>8, <1>s, LinkEffect DEF PlaceLink, TypeOK, Positions
  <2>3. PICK g \in Files, a \in Commits, t \in Nat, n \in Nat :
          g = fd /\ a = arg /\ t = at /\ n = newnodepos
    BY <2>1, <2>2
  <2>4. t \in InTree(g) /\ Route(g, a, t) /\ Node(g, n) = NewNode(a)
    BY <2>1, <2>2, <2>3 DEF SeenInv, OnRoute, NewNodeReady
  <2>5. \A d \in Commits : Finds(g, d)' <=> Finds(g, d) \/ d = a
    BY <1>8, <1>s, <2>3, <2>4, LinkAdds
  <2>6. Held(g)' = Held(g) \cup {a}
    BY <2>5 DEF Held
  <2>7. \A f \in Files : f # g => Held(f)' = Held(f)
    BY <2>1, <2>3, SameFileKeeps DEF Keeps, Held
  <2>8. members' = [members EXCEPT ![g] = @ \cup {a}]
    BY <2>6, <2>7
  <2>9. CS!Remembered
    BY <1>s, <2>1, <2>3, <2>8 DEF CS!Remembered, CS!NoCall, TypeOK
  <2> QED
    BY <2>9 DEF CS!Next
<1>9. CASE UNCHANGED vars
  BY <1>k, <1>9 DEF vars, CS!vars
<1> QED
  BY <1>1, <1>2, <1>3, <1>4, <1>5, <1>6, <1>7, <1>8, <1>9,
     <1>10 DEF Next, Walk, CS!Next

\* The files implement CommitSet: seen() answers, for the commit it is called
\* with, from the set that the file stands for, a commit joins it in one write, and nothing ever leaves it.
THEOREM FilesAreSets == Spec => ImplementsSet
<1>1. Init => CS!Init
  <2> SUFFICES ASSUME Init PROVE CS!Init
    OBVIOUS
  <2>1. \A f \in Files : Held(f) = {}
    BY DEF Init, Held, Finds, Length
  <2> QED
    BY <2>1, AnyCommitType DEF Init, CS!Init
<1> QED
  BY InitSeenInv, NextSeenInv, StepOfSets, <1>1, PTL DEF Spec, ImplementsSet, CS!Spec
===============================================================================
