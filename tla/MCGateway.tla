------------------------------- MODULE MCGateway -------------------------------
(* Two branches of one repository, which share a tracking file and their   *)
(* first commit, and a second repository, of bzr.                          *)
EXTENDS Gateway

CONSTANTS c1, c2, c3, seen1, seen2

MCArchives == <<"repo:main", "repo:topic", "other">>
MCFiles == {seen1, seen2}
MCFileOf == <<seen1, seen1, seen2>>
MCCommits == {c1, c2, c3}
MCFullLog == <<<<c1, c2>>, <<c1>>, <<c3>>>>
MCGit == {1, 2}
MCMayLackMessage == {c2}
MCMayBreak == {2}

-------------------------------------------------------------------------------
(* Logs of up to three commits against what they should be read as.         *)

Kinds == [message : {<<>>, <<"a">>, <<"a", Empty, "b">>}, note : {Empty, "n"}]
Commit(kind, n) == [id |-> n, revno |-> n, author |-> "ann", branch |-> "b", date |-> 9,
                    message |-> kind.message, note |-> kind.note]
KindLogs == UNION {[1..k -> Kinds] : k \in 0..3}

Entry(c) == [revno |-> c.revno, commitid |-> c.id, timestamp |-> c.date, branch |-> c.branch,
             committer |-> c.author, message |-> c.message]
End(why) == [NoEntry EXCEPT !.commitid = why]

\* Each commit is read with its own fields, whole and in order, up to the first
\* one without a message; notes, and what bzr says of merges, add nothing.
ASSUME LogsRead ==
    \A kinds \in KindLogs :
        LET cs    == [n \in DOMAIN kinds |-> Commit(kinds[n], n)]
            bareAt == {n \in DOMAIN cs : cs[n].message = <<>>}
            upTo  == IF bareAt = {} THEN Len(cs)
                     ELSE (CHOOSE n \in bareAt : \A k \in bareAt : n <= k) - 1
            wanted == [n \in 1..upTo |-> [Entry(cs[n]) EXCEPT !.revno = -1]]
        IN /\ GitEntries(FlattenSeq([n \in DOMAIN cs |-> GitPrinted(cs[n])]), "b")
                 = IF bareAt = {} THEN wanted ELSE Append(wanted, End(Assertion))
           /\ BzrEntries(FlattenSeq([n \in DOMAIN cs |-> BzrPrinted(cs[n])]) \o BzrMerges)
                 = [n \in DOMAIN cs |-> Entry(cs[n])]

\* A revision without a number, or a line that is no header, ends the run.
ASSUME LogsRefused ==
    LET c == Commit([message |-> <<"a">>, note |-> Empty], 1)
    IN /\ BzrEntries(BzrPrinted([c EXCEPT !.revno = 0])) = <<End(Fatal)>>
       /\ BzrEntries(BzrPrinted(c) \o <<Bogus>>) = <<End(Fatal)>>
       /\ BzrEntries(<<Text("a")>>) = <<End(Fatal)>>

\* The Subject holds a part of the message's first line, unless the branch's
\* name is longer than 58: then all of the message is in the headers.
ASSUME Subjects ==
    \A line, rest, branch \in 0..70 :
        /\ branch <= 58 => SubjectLength(line, rest, branch) <= line
                          /\ branch + SubjectLength(line, rest, branch) <= 58
        /\ branch > 58 => SubjectLength(line, rest, branch) = line + rest
================================================================================
