------------------------------ MODULE PostThread ------------------------------
(***************************************************************************)
(* lib/nntp.c: the gateways' main thread and the thread that posts for it. *)
(* They share postjobs and postdone under postlock and meet on postcond;   *)
(* the poster lets go of the lock while it connects and keeps it while it  *)
(* talks to the server about an article.                                   *)
(*                                                                         *)
(* A postjob is its message ID: the text of the article is a function of   *)
(* it.  postlock names the thread that holds the mutex.  `accepted',       *)
(* `handled' and `verdicts' are history: what post() queued, what was      *)
(* taken off the queue and with which answer.  The server is external and  *)
(* is modelled by the answers pts_stat and pts_post tell apart.            *)
(***************************************************************************)
EXTENDS Naturals, Sequences

CONSTANTS
    MsgIds,                 \* message IDs a gateway may post
    MaxPosts,               \* bound on calls of post()
    MaxSpurious             \* bound on spurious returns of pthread_cond_wait

ASSUME PostsAssumption == MaxPosts \in Nat /\ MaxSpurious \in Nat
ASSUME MsgIdsAssumption == MsgIds # {}

VARIABLES
    postjobs, postdone, postlock,
    mainpc, job,            \* main thread: next step, argument of post()
    posterpc,               \* poster thread: next step
    connected,              \* fd # -1 in postthread
    authenticated,          \* the session passed AUTHINFO GENERIC
    alive,                  \* no thread has called fatal()
    spool,                  \* external: the articles the server holds
    spurious,               \* how often the wait returned unsignalled
    accepted, handled, verdicts

shared == <<postjobs, postdone>>
mainvars == <<mainpc, job>>
session == <<connected, authenticated>>
history == <<accepted, handled, verdicts>>
vars == <<postjobs, postdone, postlock, mainpc, job, posterpc, connected,
          authenticated, alive, spool, spurious, accepted, handled, verdicts>>

Main == "main"
Poster == "poster"
Free == "free"

\* The INN codes pts_post looks for in the text of a 441 line.
Reasons == {"435", "437"}

Verdicts == [code : {"exists", "posted", "rejected", "other"},
             line : SUBSET Reasons, reported : BOOLEAN]

MainStates ==
    {"idle", "postlock", "append", "postsignal", "postunlock",
     "joinlock", "setdone", "joinsignal", "joinunlock", "join", "returned"}

PosterStates ==
    {"resolve", "lock", "test", "connect", "banner", "mode", "relock",
     "drain", "stat", "post", "sent", "asleep", "woken", "exit",
     "closing", "done"}

\* Types of the two threads' variables.
TypeOK ==
    /\ postjobs \in Seq(MsgIds)
    /\ postdone \in BOOLEAN
    /\ postlock \in {Main, Poster, Free}
    /\ mainpc \in MainStates
    /\ job \in MsgIds
    /\ posterpc \in PosterStates
    /\ connected \in BOOLEAN
    /\ authenticated \in BOOLEAN
    /\ alive \in BOOLEAN
    /\ spool \subseteq MsgIds
    /\ spurious \in 0..MaxSpurious
    /\ accepted \in Seq(MsgIds)
    /\ handled \in Seq(MsgIds)
    /\ verdicts \in Seq(Verdicts)

\* create_postthread() has returned: the poster is about to resolve the
\* server's name.  The server may hold articles from an earlier run.
Init ==
    /\ postjobs = <<>>
    /\ postdone = FALSE
    /\ postlock = Free
    /\ mainpc = "idle"
    /\ job = CHOOSE m \in MsgIds : TRUE
    /\ posterpc = "resolve"
    /\ connected = FALSE
    /\ authenticated = FALSE
    /\ alive = TRUE
    /\ spool \in SUBSET MsgIds
    /\ spurious = 0
    /\ accepted = <<>>
    /\ handled = <<>>
    /\ verdicts = <<>>

-------------------------------------------------------------------------------
(* pthread primitives.                                                     *)

Lock(thread) == postlock = Free /\ postlock' = thread

Unlock(thread) == postlock = thread /\ postlock' = Free

\* pthread_cond_signal: a thread asleep in pthread_cond_wait has to take the
\* mutex again; a signal nobody waits for is lost.
Signal == posterpc' = IF posterpc = "asleep" THEN "woken" ELSE posterpc

MainStep(from, to) == alive /\ mainpc = from /\ mainpc' = to

PosterStep(from, to) == alive /\ posterpc = from /\ posterpc' = to

-------------------------------------------------------------------------------
(* The main thread: post() and join_postthread().                          *)

CallPost(m) ==
    /\ MainStep("idle", "postlock")
    /\ Len(accepted) < MaxPosts
    /\ job' = m
    /\ UNCHANGED <<shared, postlock, posterpc, session, alive, spool,
                   spurious, history>>

PostLock ==
    /\ MainStep("postlock", "append")
    /\ Lock(Main)
    /\ UNCHANGED <<shared, job, posterpc, session, alive, spool, spurious,
                   history>>

\* Mutant of PostAppend: the new job goes to the front of the list.
PostAppendInFront ==
    /\ MainStep("append", "postsignal")
    /\ postjobs' = <<job>> \o postjobs
    /\ accepted' = Append(accepted, job)
    /\ UNCHANGED <<postdone, postlock, job, posterpc, session, alive, spool,
                   spurious, handled, verdicts>>

\* Walk to the end of the list and link the new job there.
PostAppend ==
    /\ MainStep("append", "postsignal")
    /\ postjobs' = Append(postjobs, job)
    /\ accepted' = Append(accepted, job)
    /\ UNCHANGED <<postdone, postlock, job, posterpc, session, alive, spool,
                   spurious, handled, verdicts>>

\* Mutant of PostSignal: post() forgets to signal.
PostSignalForgotten ==
    /\ MainStep("postsignal", "postunlock")
    /\ UNCHANGED <<shared, postlock, job, posterpc, session, alive, spool,
                   spurious, history>>

PostSignal ==
    /\ MainStep("postsignal", "postunlock")
    /\ Signal
    /\ UNCHANGED <<shared, postlock, job, session, alive, spool, spurious,
                   history>>

PostUnlock ==
    /\ MainStep("postunlock", "idle")
    /\ Unlock(Main)
    /\ UNCHANGED <<shared, job, posterpc, session, alive, spool, spurious,
                   history>>

CallJoin ==
    /\ MainStep("idle", "joinlock")
    /\ UNCHANGED <<shared, postlock, job, posterpc, session, alive, spool,
                   spurious, history>>

\* Mutant of JoinLock: postdone is set without the lock.
JoinLockForgotten ==
    /\ MainStep("joinlock", "setdone")
    /\ UNCHANGED <<shared, postlock, job, posterpc, session, alive, spool,
                   spurious, history>>

JoinLock ==
    /\ MainStep("joinlock", "setdone")
    /\ Lock(Main)
    /\ UNCHANGED <<shared, job, posterpc, session, alive, spool, spurious,
                   history>>

JoinSetDone ==
    /\ MainStep("setdone", "joinsignal")
    /\ postdone' = TRUE
    /\ UNCHANGED <<postjobs, postlock, job, posterpc, session, alive, spool,
                   spurious, history>>

\* Mutant of JoinSignal: join_postthread() forgets to signal.
JoinSignalForgotten ==
    /\ MainStep("joinsignal", "joinunlock")
    /\ UNCHANGED <<shared, postlock, job, posterpc, session, alive, spool,
                   spurious, history>>

JoinSignal ==
    /\ MainStep("joinsignal", "joinunlock")
    /\ Signal
    /\ UNCHANGED <<shared, postlock, job, session, alive, spool, spurious,
                   history>>

JoinUnlock ==
    /\ MainStep("joinunlock", "join")
    /\ Unlock(Main)
    /\ UNCHANGED <<shared, job, posterpc, session, alive, spool, spurious,
                   history>>

\* pthread_join returns once the poster has returned from postthread().
JoinReturn ==
    /\ MainStep("join", "returned")
    /\ posterpc = "done"
    /\ UNCHANGED <<shared, postlock, job, posterpc, session, alive, spool,
                   spurious, history>>

\* fatal() in the gateway's own code, between two calls: exit(1) takes the
\* poster with it wherever it is.
MainFatal ==
    /\ alive /\ mainpc = "idle"
    /\ alive' = FALSE
    /\ UNCHANGED <<shared, postlock, mainvars, posterpc, session, spool,
                   spurious, history>>

-------------------------------------------------------------------------------
(* The poster: connecting.                                                 *)

Resolve ==
    /\ PosterStep("resolve", "lock")
    /\ UNCHANGED <<shared, postlock, mainvars, session, alive, spool,
                   spurious, history>>

FirstLock ==
    /\ PosterStep("lock", "test")
    /\ Lock(Poster)
    /\ UNCHANGED <<shared, mainvars, session, alive, spool, spurious, history>>

\* There is work and no connection: unlock the queue while connecting.
StartConnect ==
    /\ PosterStep("test", "connect")
    /\ postjobs # <<>> /\ ~connected
    /\ Unlock(Poster)
    /\ UNCHANGED <<shared, mainvars, session, alive, spool, spurious, history>>

\* connect() to one of the addresses succeeds.
Connect ==
    /\ PosterStep("connect", "banner")
    /\ connected' = TRUE
    /\ UNCHANGED <<shared, postlock, mainvars, authenticated, alive, spool,
                   spurious, history>>

\* pts_banner reads 200: send MODE READER.
Banner ==
    /\ PosterStep("banner", "mode")
    /\ UNCHANGED <<shared, postlock, mainvars, session, alive, spool,
                   spurious, history>>

\* pts_banner reads 200 again: the server lets us post.
ModeReader ==
    /\ PosterStep("mode", "relock")
    /\ UNCHANGED <<shared, postlock, mainvars, session, alive, spool,
                   spurious, history>>

\* Mutant of Relock: the lock is not taken again after connecting.
RelockForgotten ==
    /\ PosterStep("relock", "drain")
    /\ UNCHANGED <<shared, postlock, mainvars, session, alive, spool,
                   spurious, history>>

Relock ==
    /\ PosterStep("relock", "drain")
    /\ Lock(Poster)
    /\ UNCHANGED <<shared, mainvars, session, alive, spool, spurious, history>>

\* There is work and the connection is still there from earlier articles.
Reuse ==
    /\ PosterStep("test", "drain")
    /\ postjobs # <<>> /\ connected
    /\ UNCHANGED <<shared, postlock, mainvars, session, alive, spool,
                   spurious, history>>

-------------------------------------------------------------------------------
(* The poster: one article, STAT then POST, with the lock held throughout. *)

\* The head of the queue has been dealt with: unlink and free it.
Pop(verdict) ==
    /\ postjobs' = Tail(postjobs)
    /\ handled' = Append(handled, Head(postjobs))
    /\ verdicts' = Append(verdicts, verdict)
    /\ UNCHANGED <<postdone, postlock, mainvars, alive, spurious, accepted>>

Verdict(code, line, reported) ==
    [code |-> code, line |-> line, reported |-> reported]

SendStat ==
    /\ PosterStep("drain", "stat")
    /\ postjobs # <<>>
    /\ UNCHANGED <<shared, postlock, mainvars, session, alive, spool,
                   spurious, history>>

\* Mutant of StatExists: a STAT that failed passes for one that found it.
StatExistsOrFailed ==
    /\ PosterStep("stat", "drain")
    /\ Pop(Verdict("exists", {}, FALSE))
    /\ UNCHANGED <<session, spool>>

\* 223: somebody has posted it already.
StatExists ==
    /\ PosterStep("stat", "drain")
    /\ Head(postjobs) \in spool
    /\ Pop(Verdict("exists", {}, FALSE))
    /\ UNCHANGED <<session, spool>>

\* 423, 430 or, after a call of error(), any other code: send POST.
StatMissing ==
    /\ PosterStep("stat", "post")
    /\ UNCHANGED <<shared, postlock, mainvars, session, alive, spool,
                   spurious, history>>

\* 480 and a helper that succeeds: send the same command again.
Authenticate(pc) ==
    /\ PosterStep(pc, IF pc = "stat" THEN "stat" ELSE "post")
    /\ ~authenticated
    /\ authenticated' = TRUE
    /\ UNCHANGED <<shared, postlock, mainvars, connected, alive, spool,
                   spurious, history>>

\* 340: send the article and the final dot.
SendArticle ==
    /\ PosterStep("post", "sent")
    /\ UNCHANGED <<shared, postlock, mainvars, session, alive, spool,
                   spurious, history>>

\* 240.  A server accepts a message ID once.
ArticlePosted ==
    /\ PosterStep("sent", "drain")
    /\ Head(postjobs) \notin spool
    /\ spool' = spool \cup {Head(postjobs)}
    /\ Pop(Verdict("posted", {}, FALSE))
    /\ UNCHANGED session

\* Mutant of ArticleRejected: 436, "try again later", is taken for unwanted.
ArticleRejectedLoosely(line) ==
    /\ PosterStep("sent", "drain")
    /\ Pop(Verdict("rejected", line \cup {"436"}, FALSE))
    /\ UNCHANGED <<session, spool>>

\* 441 with the INN codes `line' in its text.  error() is called only when
\* both are there.
ArticleRejected(line) ==
    /\ PosterStep("sent", "drain")
    /\ Pop(Verdict("rejected", line, "437" \in line /\ "435" \in line))
    /\ UNCHANGED <<session, spool>>

\* Any other code ends pts_post without a word.
ArticleOther ==
    /\ PosterStep("sent", "drain")
    /\ Pop(Verdict("other", {}, FALSE))
    /\ UNCHANGED <<session, spool>>

\* fatal(): resolving, connecting, an unsuitable banner, a refused POST, a
\* failed helper, EOF, a timeout or a line that is not a response.  The
\* answer to an article that the server did take may be what is lost.
PosterFatal ==
    /\ alive
    /\ posterpc \in {"resolve", "connect", "banner", "mode", "stat", "post",
                     "sent", "closing"}
    /\ alive' = FALSE
    /\ \/ spool' = spool
       \/ posterpc = "sent" /\ spool' = spool \cup {Head(postjobs)}
    /\ UNCHANGED <<shared, postlock, mainvars, posterpc, session, spurious,
                   history>>

-------------------------------------------------------------------------------
(* The poster: waiting and leaving.                                        *)

\* Mutant of Sleep: the break for postdone after the drain loop is missing.
SleepUnlessTested ==
    /\ \E pc \in {"test", "drain"} :
           PosterStep(pc, "asleep") /\ (postdone => pc = "drain")
    /\ postjobs = <<>>
    /\ Unlock(Poster)
    /\ UNCHANGED <<shared, mainvars, session, alive, spool, spurious, history>>

\* pthread_cond_wait lets go of the mutex and sleeps in one step.
Sleep ==
    /\ \E pc \in {"test", "drain"} : PosterStep(pc, "asleep")
    /\ postjobs = <<>> /\ ~postdone
    /\ Unlock(Poster)
    /\ UNCHANGED <<shared, mainvars, session, alive, spool, spurious, history>>

SpuriousWakeup ==
    /\ PosterStep("asleep", "woken")
    /\ spurious < MaxSpurious
    /\ spurious' = spurious + 1
    /\ UNCHANGED <<shared, postlock, mainvars, session, alive, spool, history>>

Wake ==
    /\ PosterStep("woken", "test")
    /\ Lock(Poster)
    /\ UNCHANGED <<shared, mainvars, session, alive, spool, spurious, history>>

\* Mutant of LeaveLoop: while(!postdone), whatever is still queued.
LeaveLoopWhenDone ==
    /\ \E pc \in {"test", "drain"} : PosterStep(pc, "exit")
    /\ postdone
    /\ UNCHANGED <<shared, postlock, mainvars, session, alive, spool,
                   spurious, history>>

\* Mutant of LeaveLoop: while(postjobs), before the last article is queued.
LeaveLoopWhenEmpty ==
    /\ \E pc \in {"test", "drain"} : PosterStep(pc, "exit")
    /\ postjobs = <<>>
    /\ UNCHANGED <<shared, postlock, mainvars, session, alive, spool,
                   spurious, history>>

\* The outer loop ends: at its test, or at the break after the drain loop.
LeaveLoop ==
    /\ \E pc \in {"test", "drain"} : PosterStep(pc, "exit")
    /\ postjobs = <<>> /\ postdone
    /\ UNCHANGED <<shared, postlock, mainvars, session, alive, spool,
                   spurious, history>>

Exit ==
    /\ PosterStep("exit", IF connected THEN "closing" ELSE "done")
    /\ Unlock(Poster)
    /\ UNCHANGED <<shared, mainvars, session, alive, spool, spurious, history>>

Close ==
    /\ PosterStep("closing", "done")
    /\ UNCHANGED <<shared, postlock, mainvars, session, alive, spool,
                   spurious, history>>

-------------------------------------------------------------------------------
(* The rest of the world and the specification.                            *)

\* Another host feeds an article to the server.
Feed(m) ==
    /\ m \notin spool
    /\ spool' = spool \cup {m}
    /\ UNCHANGED <<shared, postlock, mainvars, posterpc, session, alive,
                   spurious, history>>

Terminated ==
    /\ mainpc = "returned" \/ ~alive
    /\ UNCHANGED vars

\* What main does inside a call, which it leaves in bounded time.
MainInCall ==
    \/ PostLock \/ PostAppend \/ PostSignal \/ PostUnlock
    \/ JoinLock \/ JoinSetDone \/ JoinSignal \/ JoinUnlock \/ JoinReturn

PosterWorks ==
    \/ Resolve \/ FirstLock
    \/ StartConnect \/ Connect \/ Banner \/ ModeReader \/ Relock \/ Reuse
    \/ SendStat \/ StatExists \/ StatMissing \/ SendArticle
    \/ \E pc \in {"stat", "post", "sent"} : Authenticate(pc)
    \/ ArticlePosted \/ ArticleOther
    \/ \E line \in SUBSET Reasons : ArticleRejected(line)
    \/ Sleep \/ Wake \/ LeaveLoop \/ Exit \/ Close

Next ==
    \/ \E m \in MsgIds : CallPost(m)
    \/ CallJoin
    \/ MainInCall
    \/ MainFatal
    \/ PosterWorks
    \/ PosterFatal
    \/ SpuriousWakeup
    \/ \E m \in MsgIds : Feed(m)
    \/ Terminated

\* Both threads are scheduled, and the server and the authentication helper
\* answer or the connection breaks (fatal() is then what the poster does).
Spec == Init /\ [][Next]_vars /\ WF_vars(MainInCall)
             /\ WF_vars(PosterWorks \/ PosterFatal)

-------------------------------------------------------------------------------
(* Properties.                                                             *)

\* Every article post() queued is taken off the queue exactly once and in the
\* order of the calls: what was handled and what is queued, one after the
\* other, is what was accepted (the linked list postjobs).
FifoExactlyOnce == accepted = handled \o postjobs

\* The states in which each thread holds postlock.
MainHolds ==
    mainpc \in {"append", "postsignal", "postunlock",
                "setdone", "joinsignal", "joinunlock"}
PosterHolds == posterpc \in {"test", "drain", "stat", "post", "sent", "exit"}

\* The mutex is held by the thread whose code is between lock and unlock, so
\* the two threads are never there together: also across the unlock and lock
\* around connect() and the hidden ones of pthread_cond_wait.
LockHolder ==
    /\ MainHolds <=> postlock = Main
    /\ PosterHolds <=> postlock = Poster

\* The poster never sleeps through work: while it is in pthread_cond_wait with
\* no wakeup on its way, the queue is empty and join_postthread() has not been
\* called, or the main thread is about to signal.  Signals sent while the
\* poster connects or talks to the server are lost, so it has to look again.
NoLostWakeup ==
    posterpc = "asleep" =>
        \/ postjobs = <<>> /\ ~postdone
        \/ mainpc \in {"postsignal", "joinsignal"}

\* join_postthread() returns only when every article ever queued has been
\* handled, each with one verdict.
JoinMeansDrained ==
    mainpc = "returned" => handled = accepted /\ Len(verdicts) = Len(accepted)

\* The poster leaves its loop only for good reasons: it must not return while
\* the main thread can still queue an article that nobody would post.
PosterLeavesLast ==
    posterpc \in {"exit", "closing", "done"} => postdone /\ postjobs = <<>>

\* An article that left the queue is on the server unless the server itself
\* turned it down in its final answer to POST: a failed STAT, an interrupted
\* authentication or a repeated POST never counts as delivery.
GoneMeansDelivered ==
    \A i \in DOMAIN handled :
        \/ handled[i] \in spool
        \/ verdicts[i].code \in {"rejected", "other"}

\* The queue and the flag change only in a step of the thread that holds the
\* lock.
OnlyHolderChangesShared ==
    [][\/ UNCHANGED shared
       \/ postlock = Main /\ mainpc' # mainpc
       \/ postlock = Poster /\ posterpc' # posterpc]_vars

\* post() and join_postthread() return unless the process ends: the poster,
\* which keeps the lock during whole conversations with the server, always
\* gives it back, and join does not wait for a poster that sleeps for ever.
CallsReturn ==
    (alive /\ mainpc # "idle") ~> (~alive \/ mainpc \in {"idle", "returned"})

\* The queue as nntp.h promises it, with its liveness: a queued article is
\* handled, or the process aborts, whether or not another call follows.
PQ == INSTANCE PostQueue WITH
        Jobs <- MsgIds,
        queue <- postjobs,
        done <- handled,
        closed <- postdone,
        status <- IF mainpc = "returned" THEN "finished"
                  ELSE IF alive THEN "open" ELSE "aborted"

\* The two threads implement PostQueue (post, postthread, join_postthread).
ImplementsQueue == PQ!Spec
===============================================================================
