------------------------------- MODULE SeenFile -------------------------------
(***************************************************************************)
(* lib/seen.c: the tracking files in which bzr2news keeps the commits it   *)
(* has dealt with.  A file is an array of 64-byte nodes that form a binary *)
(* search tree; the root is the node at offset 0 and a child pointer of 0  *)
(* means that there is no child.                                           *)
(*                                                                         *)
(* Offsets are counted in nodes: Node(f, p) is what pread finds at offset  *)
(* 64 * p.  A commit ID is its rank in strcmp's order.  `remembered' is     *)
(* history: the commits for which remember() has returned.  When a process *)
(* ends the next one is there at once, with no file open.                  *)
(***************************************************************************)
EXTENDS Naturals, Sequences

CONSTANTS
    Commits,                \* commit IDs, by rank
    Files,                  \* tracking files
    NoFile,                 \* fd = -1
    MaxNodes                \* bounds on the nodes of every file

ASSUME CommitsAssumption == Commits \subseteq Nat /\ Commits # {}
ASSUME FilesAssumption == NoFile \notin Files
ASSUME NodesAssumption == MaxNodes \in [Files -> Nat]

VARIABLES
    disk,                   \* the complete nodes of every file
    torn,                   \* the file ends in a part of a node
    fd,                     \* the open file
    pc,                     \* what the process is doing
    arg,                    \* the argument of the call in progress
    at,                     \* position of the walk down the tree
    newnodepos,             \* where remember() put the new node
    answer,                 \* what the last seen() returned: "yes" or "no"
    remembered

vars == <<disk, torn, fd, pc, arg, at, newnodepos, answer, remembered>>

files == <<disk, torn>>
call == <<arg, at, newnodepos>>

\* The value of arg between calls, where it does not exist.
AnyCommit == CHOOSE c \in Commits : TRUE

NodeType == [commit : Commits, left : Nat, right : Nat]

\* Types of the files, the open one and the walk.
TypeOK ==
    /\ disk \in [Files -> Seq(NodeType)]
    /\ torn \in [Files -> BOOLEAN]
    /\ fd \in Files \cup {NoFile}
    /\ pc \in {"idle", "search", "place"}
    /\ arg \in Commits
    /\ at \in Nat
    /\ newnodepos \in Nat
    /\ answer \in {"none", "yes", "no"}
    /\ remembered \in [Files -> SUBSET Commits]
    /\ pc \in {"search", "place"} => fd \in Files

Init ==
    /\ disk = [f \in Files |-> <<>>]
    /\ torn = [f \in Files |-> FALSE]
    /\ fd = NoFile
    /\ pc = "idle"
    /\ arg = AnyCommit
    /\ at = 0
    /\ newnodepos = 0
    /\ answer = "none"
    /\ remembered = [f \in Files |-> {}]

-------------------------------------------------------------------------------

Length(f) == Len(disk[f])

Node(f, p) == disk[f][p + 1]

\* Mutant of Absent: get() takes the end of the file for a truncated node.
AbsentNever(f, p) == FALSE

\* get() finds a node, nothing at all, or (fatally) a part of one.
Present(f, p) == p < Length(f)
Absent(f, p) == p > Length(f) \/ (p = Length(f) /\ ~torn[f])

\* Where strcmp sends a search for c from node n, and 0 for nowhere.
Branch(n, c) == IF c < n.commit THEN n.left ELSE n.right

\* Mutant of NewNode: the memset is missing.
NewNodeGarbage(c) == [commit |-> c, left |-> 0 - 1, right |-> 0]

\* A new node, as remember() fills it out.
NewNode(c) == [commit |-> c, left |-> 0, right |-> 0]

\* Mutant of WithChild: the sides are confused.
WithChildSwapped(n, c, p) ==
    IF c < n.commit THEN [n EXCEPT !.right = p] ELSE [n EXCEPT !.left = p]

\* Node n with the pointer that Branch follows for c set to p.
WithChild(n, c, p) ==
    IF c < n.commit THEN [n EXCEPT !.left = p] ELSE [n EXCEPT !.right = p]

-------------------------------------------------------------------------------
(* init_seen() and seen().                                                 *)

\* The local variables of a call are gone when it is over.
NoLocals == arg' = AnyCommit /\ at' = 0 /\ newnodepos' = 0

InitSeen(f) ==
    /\ pc = "idle"
    /\ fd' = f
    /\ UNCHANGED <<files, pc, call, answer, remembered>>

CallSeen(c) ==
    /\ pc = "idle" /\ fd # NoFile
    /\ arg' = c /\ at' = 0
    /\ answer' = "none"
    /\ pc' = "search"
    /\ UNCHANGED <<files, fd, newnodepos, remembered>>

\* The walk is at a node, and it is for another commit.
Differs == Present(fd, at) /\ arg # Node(fd, at).commit

Child == Branch(Node(fd, at), arg)

Return(result) ==
    /\ pc' = "idle"
    /\ answer' = result
    /\ NoLocals
    /\ UNCHANGED <<files, fd, remembered>>

SeenNoRoot ==
    /\ pc = "search" /\ at = 0
    /\ Absent(fd, 0)
    /\ Return("no")

SeenMatch ==
    /\ pc = "search" /\ Present(fd, at)
    /\ arg = Node(fd, at).commit
    /\ Return("yes")

\* Mutant of SeenBottom: only the root is looked at.
SeenBottomAtOnce ==
    /\ pc = "search" /\ Differs
    /\ Return("no")

\* Fallen off the bottom.
SeenBottom ==
    /\ pc = "search" /\ Differs
    /\ Child = 0
    /\ Return("no")

\* Mutant of Descend: parent = child is missing.
DescendForgotten ==
    /\ pc \in {"search", "place"} /\ Differs
    /\ Child # 0
    /\ UNCHANGED vars

\* seen() and remember() go down the tree alike.
Descend ==
    /\ pc \in {"search", "place"} /\ Differs
    /\ Child # 0
    /\ at' = Child
    /\ UNCHANGED <<files, fd, pc, arg, newnodepos, answer, remembered>>

-------------------------------------------------------------------------------
(* The end of a process and the next one.                                  *)

\* Only the files outlive a process.
NewProcess ==
    /\ pc' = "idle"
    /\ fd' = NoFile
    /\ answer' = "none"
    /\ NoLocals
    /\ UNCHANGED <<disk, remembered>>

\* get() of a part of a node, or of no node where a pointer leads, is fatal.
ReadFatal ==
    /\ pc \in {"search", "place"}
    /\ ~Present(fd, at)
    /\ ~(pc = "search" /\ at = 0 /\ Absent(fd, 0))
    /\ NewProcess
    /\ UNCHANGED torn

\* A kill, a fatal() or an exit anywhere.
Die ==
    /\ fd # NoFile
    /\ NewProcess
    /\ UNCHANGED torn

-------------------------------------------------------------------------------
(* remember().                                                             *)

\* Mutant of CallRemember: the position is asked for after the write.
CallRememberLate(c) ==
    /\ pc = "idle" /\ fd # NoFile
    /\ ~torn[fd] /\ Length(fd) < MaxNodes[fd]
    /\ disk' = [disk EXCEPT ![fd] = Append(@, NewNode(c))]
    /\ arg' = c /\ at' = 0 /\ newnodepos' = Length(fd) + 1
    /\ pc' = "place"
    /\ UNCHANGED <<remembered, torn, fd, answer>>

\* Append an unlinked node.  The root needs no link: remember() returns.
CallRemember(c) ==
    /\ pc = "idle" /\ fd # NoFile
    /\ ~torn[fd] /\ Length(fd) < MaxNodes[fd]
    /\ disk' = [disk EXCEPT ![fd] = Append(@, NewNode(c))]
    /\ IF Length(fd) = 0
       THEN /\ remembered' = [remembered EXCEPT ![fd] = @ \cup {c}]
            /\ NoLocals
            /\ UNCHANGED pc
       ELSE /\ arg' = c /\ at' = 0 /\ newnodepos' = Length(fd)
            /\ pc' = "place"
            /\ UNCHANGED remembered
    /\ UNCHANGED <<torn, fd, answer>>

\* A short write (a full disk, or a crash in its course), or a file that an
\* earlier one has left with an unsuitable length.
RememberFatal ==
    /\ pc = "idle" /\ fd # NoFile
    /\ Length(fd) < MaxNodes[fd]
    /\ torn' = [torn EXCEPT ![fd] = TRUE]
    /\ NewProcess

Remembered ==
    /\ pc' = "idle"
    /\ remembered' = [remembered EXCEPT ![fd] = @ \cup {arg}]
    /\ NoLocals
    /\ UNCHANGED <<torn, fd, answer>>

\* The commit is there already: the new node stays an orphan.
PlaceDuplicate ==
    /\ pc = "place" /\ Present(fd, at)
    /\ arg = Node(fd, at).commit
    /\ Remembered
    /\ UNCHANGED disk

\* Mutant of PlaceLink: the child that is there already is not looked at.
PlaceLinkOver ==
    /\ pc = "place" /\ Differs
    /\ disk' = [disk EXCEPT ![fd][at + 1] = WithChild(@, arg, newnodepos)]
    /\ Remembered

\* Write the parent back with a pointer to the new node.
PlaceLink ==
    /\ pc = "place" /\ Differs
    /\ Child = 0
    /\ disk' = [disk EXCEPT ![fd][at + 1] = WithChild(@, arg, newnodepos)]
    /\ Remembered

-------------------------------------------------------------------------------

\* The steps of a call in progress.
Walk ==
    \/ SeenNoRoot \/ SeenMatch \/ SeenBottom
    \/ Descend
    \/ PlaceDuplicate \/ PlaceLink
    \/ ReadFatal

Next ==
    \/ \E f \in Files : InitSeen(f)
    \/ \E c \in Commits : CallSeen(c) \/ CallRemember(c)
    \/ RememberFatal
    \/ Walk
    \/ Die

\* A process that is not killed goes on with the call it is in.
Spec == Init /\ [][Next]_vars /\ WF_vars(Walk)

-------------------------------------------------------------------------------
(* Properties.                                                             *)

Positions(f) == 0..Length(f) - 1

\* Whether a search for c that has come to position p finds it: what seen()
\* computes, as a function of the file.
Finds(f, c) ==
    LET from[p \in Positions(f)] ==
            IF Node(f, p).commit = c THEN TRUE
            ELSE Branch(Node(f, p), c) # 0 /\ from[Branch(Node(f, p), c)]
    IN  Length(f) > 0 /\ from[0]

\* The commits of file f that seen() would confirm.
Held(f) == {c \in Commits : Finds(f, c)}

\* The positions that can be reached from the root.
InTree(f) ==
    LET linked[p \in Positions(f)] ==
            \/ p = 0
            \/ \E q \in 0..p - 1 :
                 linked[q] /\ p \in {Node(f, q).left, Node(f, q).right}
    IN  {p \in Positions(f) : linked[p]}

\* Child pointers lead to nodes that are really there and further on in the
\* file.  So every walk ends, and the fatal errors "missing tracking file
\* node" and "missing branch" cannot happen, whatever crash came before.
ChildrenFollow ==
    \A f \in Files : \A p \in Positions(f) :
        \A q \in {Node(f, p).left, Node(f, p).right} :
            q = 0 \/ (p < q /\ q < Length(f))

\* The linked nodes are a search tree without duplicates: along the path that
\* a search for c takes, the linked node that holds c is met.  An append that
\* was never linked, and the wasted node of a second remember(), do no harm.
SearchTree ==
    \A f \in Files : \A p, q \in InTree(f) :
        /\ Finds(f, Node(f, p).commit)
        /\ Node(f, p).commit = Node(f, q).commit => p = q

\* What remember() returned for stays remembered: no later call, crash or
\* torn write makes seen() forget it, in this run or the next.
Durable == \A f \in Files : remembered[f] \subseteq Held(f)

\* A torn write of the first node makes a file that seen() cannot read; any
\* other only stops remember().  So seen() dies of a read only in that case.
DiesOnlyOfTornRoot ==
    [][ReadFatal => torn[fd] /\ Length(fd) = 0]_vars

\* Every call returns, or the process dies: no walk goes round in circles.
WalksEnd == pc # "idle" ~> pc = "idle"

\* Seen through seen(), the files are the sets they stand for: what a seen()
\* returns is whether the commit it was called with is in the set, and a commit
\* joins its set in the one write that links it (or is the root's).
CS == INSTANCE CommitSet WITH
        members  <- [f \in Files |-> Held(f)],
        current  <- fd,
        op       <- IF pc = "idle" THEN "none"
                    ELSE IF pc = "search" THEN "seen" ELSE "remember",
        argument <- arg

\* The files implement CommitSet (init_seen, seen, remember): no crash, orphan
\* or torn node makes a seen() answer wrongly for its commit.
ImplementsSet == CS!Spec
===============================================================================
