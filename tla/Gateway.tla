-------------------------------- MODULE Gateway --------------------------------
(***************************************************************************)
(* gateways/bzr2news.c: runs of bzr2news or git2news, one after the other. *)
(* A run goes through the archives of its command line, reads each one's   *)
(* log, queues an article for every commit that is neither too old nor in  *)
(* the archive's tracking file, and at last waits for the poster.          *)
(*                                                                         *)
(* The poster is PostQueue, which PostThread implements, and the tracking  *)
(* files are CommitSet, which SeenFile implements.  A commit's article is  *)
(* named by the commit (message IDs do not collide).  A run is cut short   *)
(* by fatal() in either thread, by a kill, by a tracking file that cannot  *)
(* be written or read, by an entry of a log that cannot be read            *)
(* (CommitLog), or by a log command that exits with an error.              *)
(*                                                                         *)
(* History: `offered' and `offeredAgain' record the post() calls over all  *)
(* runs, `interrupted' the commits whose run died between post() and       *)
(* remember().                                                             *)
(***************************************************************************)
EXTENDS CommitLog, FiniteSets

CONSTANTS
    Archives,               \* the DIRECTORY[:BRANCH] arguments, in order
    Files, NoFile,          \* tracking files
    FileOf,                 \* the .seen file next to an archive's repository
    Commits,
    FullLog,                \* the commits an archive ever gets, oldest first
    Git,                    \* which archives git has; bzr has the others
    MayLackMessage,         \* commits that may be made without a message
    MayBreak,               \* archives whose log command may come to fail
    MaxAborts               \* bound on the runs that are cut short

Args == 1..Len(Archives)

ASSUME ArchivesAssumption ==
    /\ Len(Archives) \in Nat
    /\ FileOf \in [Args -> Files]
    /\ FullLog \in [Args -> Seq(Commits)]
    /\ NoFile \notin Files
    /\ Git \subseteq Args /\ MayLackMessage \subseteq Commits
    /\ MayBreak \subseteq Args
    /\ {Assertion, Fatal} \cap Commits = {}
    /\ MaxAborts \in Nat

VARIABLES
    visible,                \* how much of FullLog each archive has so far
    old,                    \* commits beyond the age limit
    bare,                   \* commits made without a message
    broken,                 \* archives whose log command fails
    pc,                     \* the main thread's next step
    arg,                    \* the argument being processed
    log,                    \* what is still to come from `git log' or `bzr log'
    members, current,       \* the tracking files, and the open one
    torn,                   \* tracking files that end in a part of a node
    queue, done, closed, status,    \* the poster's queue in this run
    spool,                  \* external: articles that are on the server
    refused,                \* external: articles the server turned down
    aborts,                 \* runs that were cut short
    offered, offeredAgain,  \* commits post() was called for, and repeatedly
    interrupted

repository == <<visible, old, bare, broken>>
main == <<pc, arg, log>>
tracking == <<members, current>>
posting == <<queue, done, closed, status>>
server == <<spool, refused>>
history == <<aborts, offered, offeredAgain, interrupted>>
vars == <<visible, old, bare, broken, pc, arg, log, members, current, torn, queue,
          done, closed, status, spool, refused, aborts, offered, offeredAgain,
          interrupted>>

Queue == INSTANCE PostQueue WITH Jobs <- Commits

\* The main thread makes its calls of seen() and remember() at once.
AnyCommit == CHOOSE c \in Commits : TRUE
Tracking == INSTANCE CommitSet WITH
                op <- "none", argument <- AnyCommit, answer <- "none"

\* The types, and that the tracking file that is open is the one of the archive
\* being processed (init_seen).
TypeOK ==
    /\ visible \in [Args -> Nat]
    /\ \A a \in Args : visible[a] <= Len(FullLog[a])
    /\ old \subseteq Commits /\ bare \subseteq MayLackMessage
    /\ broken \subseteq MayBreak
    /\ pc \in {"scan", "entry", "remember", "join", "ended"}
    /\ arg \in 0..Len(Archives)
    /\ log \in Seq(Commits \cup {Assertion, Fatal})
    /\ members \in [Files -> SUBSET Commits]
    /\ current = IF arg = 0 THEN NoFile ELSE FileOf[arg]
    /\ torn \subseteq Files
    /\ queue \in Seq(Commits) /\ done \in Seq(Commits)
    /\ closed \in BOOLEAN
    /\ status \in {"open", "finished", "aborted"}
    /\ spool \subseteq Commits /\ refused \subseteq Commits
    /\ aborts \in 0..MaxAborts
    /\ offered \subseteq Commits /\ offeredAgain \subseteq Commits
    /\ interrupted \subseteq Commits

\* Before the first run.
Init ==
    /\ visible = [a \in Args |-> 0]
    /\ old = {} /\ bare = {} /\ broken = {}
    /\ pc = "ended"
    /\ arg = 0
    /\ log = <<>>
    /\ members = [f \in Files |-> {}]
    /\ current = NoFile
    /\ torn = {}
    /\ queue = <<>> /\ done = <<>> /\ closed = FALSE
    /\ status = "finished"
    /\ spool = {} /\ refused = {}
    /\ aborts = 0
    /\ offered = {} /\ offeredAgain = {}
    /\ interrupted = {}

-------------------------------------------------------------------------------
(* The main thread.                                                        *)

Running == pc # "ended"

\* The main thread's variables when no process is there.
NoProcess == pc' = "ended" /\ arg' = 0 /\ log' = <<>>

\* main() starts with create_postthread() and the first argument.
StartRun ==
    /\ pc = "ended"
    /\ pc' = "scan" /\ arg' = 0 /\ log' = <<>>
    /\ queue' = <<>> /\ done' = <<>> /\ closed' = FALSE /\ status' = "open"
    /\ UNCHANGED <<repository, tracking, torn, server, history>>

\* What the log commands print of a commit, if the commits of without have no
\* message.
Printed(c, without) ==
    [id |-> c, revno |-> 1, author |-> "author", branch |-> "branch", date |-> 1,
     message |-> IF c \in without THEN <<>> ELSE <<"text">>, note |-> Empty]

\* It is not what stands for nothing.
ASSUME PrintedAssumption ==
    /\ {NULL, Empty} \cap (Commits \cup {"author", "branch", "text"}) = {}
    /\ NULL \notin Seq({"text", Empty})

\* The first n commits of an archive as its log is read: the entries, and an
\* Assertion or Fatal in place of one at which the run dies.
Entries(a, n, without) ==
    LET Commit(i) == Printed(FullLog[a][i], without)
        entries   == IF a \in Git
                     THEN GitEntries(FlattenSeq([i \in 1..n |-> GitPrinted(Commit(i))]), "dir")
                     ELSE BzrEntries(FlattenSeq([i \in 1..n |-> BzrPrinted(Commit(i))]))
    IN [i \in DOMAIN entries |-> entries[i].commitid]

\* The logs of the archives, at each length.
Lacking == {cs \cap MayLackMessage : cs \in SUBSET Commits}
Logs    == [a \in Args |-> [n \in 0..Len(FullLog[a]) |-> [without \in Lacking |->
                Entries(a, n, without)]]]

\* What a run will read of an archive.  bzr's commits are compared with the age
\* limit of the moment their log was started.
Fresh(ids, aged) ==
    LET kept[n \in 0..Len(ids)] ==
            IF n = 0 THEN <<>>
            ELSE IF ids[n] \in aged THEN kept[n - 1] ELSE Append(kept[n - 1], ids[n])
    IN kept[Len(ids)]

LogOf(a, n) == LET ids == Logs[a][n][bare]
               IN IF a \in Git THEN ids ELSE Fresh(ids, old)

\* git has no log of a branch without commits.
Fails(a) == a \in broken \/ (a \in Git /\ visible[a] = 0)

\* A log command that fails has printed some of its log, or none; its exit
\* status is fatal when all of that has been read.
Outputs(a) ==
    IF Fails(a) THEN {Append(LogOf(a, n), Fatal) : n \in 0..visible[a]}
                ELSE {LogOf(a, visible[a])}

\* Archives with commits in common are branches of one repository: with two
\* clones of it, each with its own tracking file, commits are offered twice.
ASSUME SharingAssumption ==
    \A a, b \in Args :
        Range(FullLog[a]) \cap Range(FullLog[b]) # {} => FileOf[a] = FileOf[b]

TooOld(c) == arg \in Git /\ c \in old

\* Mutant of NextArchive: init_seen() keeps a file that is open already.
NextArchiveSameFile ==
    /\ pc = "scan" /\ arg < Len(Archives)
    /\ arg' = arg + 1
    /\ log' \in Outputs(arg + 1)
    /\ IF current = NoFile THEN Tracking!Open(FileOf[arg + 1])
                           ELSE UNCHANGED tracking
    /\ pc' = "entry"
    /\ UNCHANGED <<repository, torn, posting, server, history>>

\* process_archive(): open the tracking file and start the log command.
NextArchive ==
    /\ pc = "scan" /\ arg < Len(Archives)
    /\ arg' = arg + 1
    /\ log' \in Outputs(arg + 1)
    /\ Tracking!Open(FileOf[arg + 1])
    /\ pc' = "entry"
    /\ UNCHANGED <<repository, torn, posting, server, history>>

\* complete_git_commit(), process_bzr_archive() and post_log() leave out what
\* is too old and what has been seen.
SkipCommit ==
    /\ pc = "entry" /\ log # <<>>
    /\ Head(log) \in Commits
    /\ TooOld(Head(log)) \/ Head(log) \in members[current]
    /\ log' = Tail(log)
    /\ UNCHANGED <<repository, pc, arg, tracking, torn, posting, server, history>>

\* Mutant of PostCommit: post_log() does not ask seen().
PostUnasked ==
    /\ pc = "entry" /\ log # <<>>
    /\ Head(log) \in Commits /\ ~TooOld(Head(log))
    /\ Queue!Enqueue(Head(log))
    /\ offered' = offered \cup {Head(log)}
    /\ offeredAgain' = offeredAgain \cup ({Head(log)} \cap offered)
    /\ pc' = "remember"
    /\ UNCHANGED <<repository, arg, log, tracking, torn, server, aborts,
                   interrupted>>

\* The tracking file is a part of a node and nothing else.
TornRoot == current \in torn /\ members[current] = {}

PostCommit ==
    /\ pc = "entry" /\ log # <<>>
    /\ Head(log) \in Commits /\ ~TornRoot
    /\ ~TooOld(Head(log)) /\ Head(log) \notin members[current]
    /\ Queue!Enqueue(Head(log))
    /\ offered' = offered \cup {Head(log)}
    /\ offeredAgain' = offeredAgain \cup ({Head(log)} \cap offered)
    /\ pc' = "remember"
    /\ UNCHANGED <<repository, arg, log, tracking, torn, server, aborts,
                   interrupted>>

\* Mutant of RememberCommit: a commit at the end of a log is not recorded.
RememberAllButLast ==
    /\ pc = "remember"
    /\ current \notin torn
    /\ IF Len(log) > 1 THEN Tracking!Add(Head(log)) ELSE UNCHANGED tracking
    /\ log' = Tail(log)
    /\ pc' = "entry"
    /\ UNCHANGED <<repository, arg, torn, posting, server, history>>

\* The commit counts as posted as soon as its article is in the queue.
RememberCommit ==
    /\ pc = "remember"
    /\ current \notin torn
    /\ Tracking!Add(Head(log))
    /\ log' = Tail(log)
    /\ pc' = "entry"
    /\ UNCHANGED <<repository, arg, torn, posting, server, history>>

\* Mutant of EndOfLog: nothing is done about the last commit after the loop.
EndOfLogShort ==
    /\ pc = "entry" /\ Len(log) <= 1
    /\ pc' = "scan" /\ log' = <<>>
    /\ UNCHANGED <<repository, arg, tracking, torn, posting, server, history>>

\* The log command has exited with 0.
EndOfLog ==
    /\ pc = "entry" /\ log = <<>>
    /\ pc' = "scan"
    /\ UNCHANGED <<repository, arg, log, tracking, torn, posting, server, history>>

\* join_postthread() is called, and returns when the queue has been worked
\* off; main() then returns 0.
CallJoin ==
    /\ pc = "scan" /\ arg = Len(Archives)
    /\ Queue!Close
    /\ pc' = "join"
    /\ UNCHANGED <<repository, arg, log, tracking, torn, server, history>>

\* Mutant of EndRun: main() returns without waiting for the poster.
EndRunAtOnce ==
    /\ pc = "join"
    /\ status' = "finished"
    /\ UNCHANGED <<queue, done, closed>>
    /\ Tracking!Quit
    /\ NoProcess
    /\ UNCHANGED <<repository, torn, server, history>>

EndRun ==
    /\ pc = "join"
    /\ Queue!Finish
    /\ Tracking!Quit
    /\ NoProcess
    /\ UNCHANGED <<repository, torn, server, history>>

-------------------------------------------------------------------------------
(* The poster and the end of a run that is cut short.                      *)

\* The server has the article, or takes it, or turns it down.
HandleArticle ==
    /\ Running
    /\ Queue!Handle
    /\ \/ spool' = spool \cup {Head(queue)} /\ UNCHANGED refused
       \/ /\ Head(queue) \notin spool
          /\ refused' = refused \cup {Head(queue)}
          /\ UNCHANGED spool
    /\ UNCHANGED <<repository, main, tracking, torn, history>>

\* The process is gone and the queue with it.
EndsAbruptly ==
    /\ Running
    /\ Queue!Abort
    /\ Tracking!Quit
    /\ NoProcess
    /\ interrupted' = IF pc = "remember" THEN interrupted \cup {Head(log)}
                                         ELSE interrupted

\* fatal() in either thread, or a kill.  The answer to the article at the
\* head of the queue may be what did not come.
Abort ==
    /\ aborts < MaxAborts
    /\ aborts' = aborts + 1
    /\ EndsAbruptly
    /\ \/ UNCHANGED spool
       \/ queue # <<>> /\ spool' = spool \cup {Head(queue)}
    /\ UNCHANGED <<repository, torn, refused, offered,
                   offeredAgain>>

\* remember() writes a part of a node only: the first time, and from then on
\* every remember() of this file is fatal.
TearFile ==
    /\ pc = "remember" /\ current \notin torn
    /\ aborts < MaxAborts
    /\ aborts' = aborts + 1
    /\ torn' = torn \cup {current}
    /\ EndsAbruptly
    /\ UNCHANGED <<repository, server, offered,
                   offeredAgain>>

RememberFails ==
    /\ pc = "remember" /\ current \in torn
    /\ EndsAbruptly
    /\ UNCHANGED <<repository, torn, server, aborts,
                   offered, offeredAgain>>

\* seen() reads a part of a node.
SeenFails ==
    /\ pc = "entry" /\ log # <<>>
    /\ Head(log) \in Commits /\ ~TooOld(Head(log)) /\ TornRoot
    /\ EndsAbruptly
    /\ UNCHANGED <<repository, torn, server, aborts,
                   offered, offeredAgain>>

\* assert() or fatal(): the log has something the run does not get beyond, and
\* neither does any later one; or the log command has failed.
UnreadableEntry ==
    /\ pc = "entry" /\ log # <<>> /\ Head(log) \in {Assertion, Fatal}
    /\ EndsAbruptly
    /\ \/ UNCHANGED spool
       \/ queue # <<>> /\ spool' = spool \cup {Head(queue)}
    /\ UNCHANGED <<repository, torn, refused, aborts, offered, offeredAgain>>

-------------------------------------------------------------------------------
(* The rest of the world and the specification.                            *)

\* A commit that is in no archive yet is made now, with a message or without.
Push(a) ==
    /\ visible[a] < Len(FullLog[a])
    /\ visible' = [visible EXCEPT ![a] = @ + 1]
    /\ LET c == FullLog[a][visible[a] + 1]
           made == \E b \in Args : \E n \in 1..visible[b] : FullLog[b][n] = c
       IN bare' \in {bare} \cup (IF made THEN {} ELSE {bare \cup ({c} \cap MayLackMessage)})
    /\ UNCHANGED <<old, broken, main, tracking, torn, posting, server, history>>

GrowOld(c) ==
    /\ c \notin old
    /\ old' = old \cup {c}
    /\ UNCHANGED <<visible, bare, broken, main, tracking, torn, posting, server, history>>

\* A repository is damaged, out of reach or locked, or all right again.
Break(a) ==
    /\ a \in MayBreak
    /\ broken' = IF a \in broken THEN broken \ {a} ELSE broken \cup {a}
    /\ UNCHANGED <<visible, old, bare, main, tracking, torn, posting, server, history>>

RunStep ==
    \/ NextArchive \/ SkipCommit \/ PostCommit \/ RememberCommit
    \/ SeenFails \/ RememberFails \/ UnreadableEntry \/ EndOfLog \/ CallJoin \/ EndRun

Next ==
    \/ StartRun
    \/ RunStep
    \/ HandleArticle
    \/ Abort \/ TearFile
    \/ \E a \in Args : Push(a) \/ Break(a)
    \/ \E c \in Commits : GrowOld(c)

\* cron starts the gateway again and again, and both threads are scheduled.
Spec == Init /\ [][Next]_vars
             /\ WF_vars(StartRun) /\ WF_vars(RunStep) /\ WF_vars(HandleArticle)

-------------------------------------------------------------------------------
(* Properties.                                                             *)

InQueue == {queue[i] : i \in DOMAIN queue}
Settled == spool \cup refused
Remembered == UNION {members[f] : f \in Files}

\* A commit is offered to the server once, however many archives, branches
\* and runs come across it, unless a run died between post() and remember().
OfferedOnce == offeredAgain \subseteq interrupted

\* Outside that window, what is on the server or was turned down has been
\* recorded: no later run will offer it again.
SettledIsRemembered ==
    Settled \subseteq Remembered \cup interrupted
                      \cup (IF pc = "remember" THEN {Head(log)} ELSE {})

\* Commits that count as posted but are neither on the server, nor turned
\* down, nor still in the queue of a run.
LostCommits == Remembered \ (Settled \cup IF status = "open" THEN InQueue ELSE {})

\* Commits are lost only when a run is cut short, and only those it had in its
\* queue: a run that returns from main() loses none, neither of its own nor
\* of an earlier run.
LostOnlyFromQueue ==
    [][\A c \in LostCommits' \ LostCommits :
          status = "open" /\ status' = "aborted" /\ c \in InQueue]_vars

\* Behind a commit without a message, in its git archive or in a later one; or
\* in an archive whose log command fails or one after it.
Unreachable(a, i) ==
    \/ \E b \in Git : \E j \in 1..visible[b] :
          FullLog[b][j] \in bare /\ (b < a \/ (b = a /\ j <= i))
    \/ \E b \in 1..a : Fails(b)

\* Every commit that shows up in an archive is dealt with at last: its
\* article is on the server or was turned down, or the commit has grown too
\* old, or was lost as above.  One torn tracking file stops this for all
\* archives, because each run dies at the same commit.  A commit without a
\* message in a git archive, and a log command that fails for good or again
\* and again (as git's does until a branch has its first commit), stop what
\* comes after it, there and in the archives behind, but nothing that comes
\* before it; and what was held up is dealt with when the command works again.
EventuallySettled ==
    \A a \in Args : \A i \in 1..Len(FullLog[a]) :
        \/ visible[a] >= i ~> \/ FullLog[a][i] \in Settled \cup old \cup LostCommits
                             \/ torn # {}
        \/ []<>Unreachable(a, i)

\* bzr2news(1): "The set of commits already posted is tracked in a .seen
\* file": what is in the file has been posted, or is still being posted.
TrackedIsPosted == LostCommits = {}
================================================================================
