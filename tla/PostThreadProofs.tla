--------------------------- MODULE PostThreadProofs ---------------------------
(***************************************************************************)
(* What MCPostThread.cfg checks for two posts of two message IDs, proved   *)
(* of PostThread for every set of message IDs and every bound.             *)
(***************************************************************************)
EXTENDS PostThread, SequenceTheorems, TLAPS

-------------------------------------------------------------------------------
(* Types.  Tail(postjobs) is a sequence only while there is a job to pop.  *)

\* While the poster connects for, or talks about, an article there is one.
WorkAtHand ==
    posterpc \in {"connect", "banner", "mode", "relock", "stat", "post", "sent"}
        => postjobs # <<>>

TypeInv == TypeOK /\ WorkAtHand

\* A sequence is not empty after Append, and its head is one of its elements.
LEMMA NonEmptyAppend ==
    ASSUME NEW S, NEW s \in Seq(S), NEW x \in S
    PROVE  Append(s, x) # <<>>
BY AppendProperties

\* The job at the head of a list is one of its elements.
LEMMA HeadInSet ==
    ASSUME NEW S, NEW s \in Seq(S), s # <<>>
    PROVE  Head(s) \in S
OBVIOUS

\* TypeInv is inductive.
LEMMA InitTypeInv == Init => TypeInv
<1>1. (CHOOSE m \in MsgIds : TRUE) \in MsgIds
  BY MsgIdsAssumption
<1>2. 0 \in 0..MaxSpurious
  BY PostsAssumption
<1>3. /\ <<>> \in Seq(MsgIds)
      /\ <<>> \in Seq(Verdicts)
  OBVIOUS
<1> QED
  BY <1>1, <1>2, <1>3
     DEF Init, TypeInv, TypeOK, WorkAtHand, Main, Poster, Free, MainStates,
         PosterStates

\* Every step of either thread keeps the types.
LEMMA NextTypeInv == TypeInv /\ [Next]_vars => TypeInv'
<1> SUFFICES ASSUME TypeInv, [Next]_vars PROVE TypeInv'
  OBVIOUS
<1> USE DEF TypeInv, TypeOK, WorkAtHand, Main, Poster, Free, MainStates,
            PosterStates, shared, mainvars, session, history, vars,
            MainStep, PosterStep, Lock, Unlock, Signal
<1>1. ASSUME NEW m \in MsgIds, CallPost(m) PROVE TypeInv'
  BY <1>1 DEF CallPost
<1>2. CASE CallJoin
  BY <1>2 DEF CallJoin
<1>3. CASE MainInCall
  <2>1. CASE PostLock
    BY <2>1 DEF PostLock
  <2>2. CASE PostAppend
    <3>1. postjobs' \in Seq(MsgIds) /\ accepted' \in Seq(MsgIds)
      BY <2>2 DEF PostAppend
    <3>2. postjobs \in Seq(MsgIds) /\ job \in MsgIds
      OBVIOUS
    <3>3. Append(postjobs, job) # <<>>
      BY <3>2, NonEmptyAppend
    <3>4. postjobs' # <<>>
      BY <2>2, <3>3 DEF PostAppend
    <3> QED
      BY <2>2, <3>1, <3>4 DEF PostAppend
  <2>3. CASE PostSignal
    BY <2>3 DEF PostSignal
  <2>4. CASE PostUnlock
    BY <2>4 DEF PostUnlock
  <2>5. CASE JoinLock
    BY <2>5 DEF JoinLock
  <2>6. CASE JoinSetDone
    BY <2>6 DEF JoinSetDone
  <2>7. CASE JoinSignal
    BY <2>7 DEF JoinSignal
  <2>8. CASE JoinUnlock
    BY <2>8 DEF JoinUnlock
  <2>9. CASE JoinReturn
    BY <2>9 DEF JoinReturn
  <2> QED
    BY <1>3, <2>1, <2>2, <2>3, <2>4, <2>5, <2>6, <2>7, <2>8, <2>9
       DEF MainInCall
<1>4. CASE MainFatal
  BY <1>4 DEF MainFatal
<1>5. CASE PosterWorks
  <2> DEFINE Popped(v) == posterpc \in {"stat", "sent"} /\ Pop(v) /\ posterpc' = "drain"
  <2>p. ASSUME NEW v \in Verdicts, Popped(v), UNCHANGED session,
               spool' \subseteq MsgIds
        PROVE  TypeInv'
    <3>1. postjobs # <<>> /\ postjobs \in Seq(MsgIds)
      BY <2>p
    <3>2. postjobs' \in Seq(MsgIds) /\ handled' \in Seq(MsgIds)
      BY <2>p, <3>1 DEF Pop
    <3>3. verdicts' \in Seq(Verdicts)
      BY <2>p DEF Pop
    <3> QED
      BY <2>p, <3>2, <3>3 DEF Pop
  <2>1. CASE Resolve
    BY <2>1 DEF Resolve
  <2>2. CASE FirstLock
    BY <2>2 DEF FirstLock
  <2>3. CASE StartConnect
    BY <2>3 DEF StartConnect
  <2>4. CASE Connect
    BY <2>4 DEF Connect
  <2>5. CASE Banner
    BY <2>5 DEF Banner
  <2>6. CASE ModeReader
    BY <2>6 DEF ModeReader
  <2>7. CASE Relock
    BY <2>7 DEF Relock
  <2>8. CASE Reuse
    BY <2>8 DEF Reuse
  <2>9. CASE SendStat
    BY <2>9 DEF SendStat
  <2>10. CASE StatExists
    <3>1. Verdict("exists", {}, FALSE) \in Verdicts
      BY DEF Verdict, Verdicts
    <3> QED
      BY <2>10, <2>p, <3>1 DEF StatExists
  <2>11. CASE StatMissing
    BY <2>11 DEF StatMissing
  <2>12. CASE SendArticle
    BY <2>12 DEF SendArticle
  <2>13. ASSUME NEW pc \in {"stat", "post", "sent"}, Authenticate(pc)
         PROVE  TypeInv'
    BY <2>13 DEF Authenticate
  <2>14. CASE ArticlePosted
    <3>1. Verdict("posted", {}, FALSE) \in Verdicts
      BY DEF Verdict, Verdicts
    <3>2. Head(postjobs) \in MsgIds
      BY <2>14, HeadInSet DEF ArticlePosted
    <3> QED
      BY <2>14, <2>p, <3>1, <3>2 DEF ArticlePosted
  <2>15. CASE ArticleOther
    <3>1. Verdict("other", {}, FALSE) \in Verdicts
      BY DEF Verdict, Verdicts
    <3> QED
      BY <2>15, <2>p, <3>1 DEF ArticleOther
  <2>16. ASSUME NEW line \in SUBSET Reasons, ArticleRejected(line)
         PROVE  TypeInv'
    <3>1. Verdict("rejected", line, "437" \in line /\ "435" \in line) \in Verdicts
      BY DEF Verdict, Verdicts
    <3> QED
      BY <2>16, <2>p, <3>1 DEF ArticleRejected
  <2>17. CASE Sleep
    BY <2>17 DEF Sleep
  <2>18. CASE Wake
    BY <2>18 DEF Wake
  <2>19. CASE LeaveLoop
    BY <2>19 DEF LeaveLoop
  <2>20. CASE Exit
    BY <2>20 DEF Exit
  <2>21. CASE Close
    BY <2>21 DEF Close
  <2> QED
    BY <1>5, <2>1, <2>2, <2>3, <2>4, <2>5, <2>6, <2>7, <2>8, <2>9, <2>10,
       <2>11, <2>12, <2>13, <2>14, <2>15, <2>16, <2>17, <2>18, <2>19, <2>20,
       <2>21 DEF PosterWorks
<1>6. CASE PosterFatal
  <2>1. /\ postjobs \in Seq(MsgIds)
        /\ posterpc = "sent" => postjobs # <<>>
    OBVIOUS
  <2>2. posterpc = "sent" => Head(postjobs) \in MsgIds
    BY <2>1, HeadInSet
  <2>3. spool' \subseteq MsgIds
    BY <1>6, <2>2 DEF PosterFatal
  <2>4. /\ alive' = FALSE
        /\ UNCHANGED <<shared, postlock, mainvars, posterpc, session, spurious,
                       history>>
    BY <1>6 DEF PosterFatal
  <2>5. TypeOK'
    <3>1. postjobs' \in Seq(MsgIds) /\ accepted' \in Seq(MsgIds)
      BY <2>4
    <3>2. handled' \in Seq(MsgIds) /\ verdicts' \in Seq(Verdicts)
      BY <2>4
    <3>3. /\ postdone' \in BOOLEAN /\ connected' \in BOOLEAN
          /\ authenticated' \in BOOLEAN /\ alive' \in BOOLEAN
      BY <2>4
    <3>4. /\ postlock' \in {Main, Poster, Free} /\ mainpc' \in MainStates
          /\ job' \in MsgIds /\ posterpc' \in PosterStates
          /\ spurious' \in 0..MaxSpurious
      BY <2>4
    <3> QED
      BY <2>3, <3>1, <3>2, <3>3, <3>4
  <2>6. WorkAtHand'
    BY <2>4
  <2> QED
    BY <2>5, <2>6
<1>7. CASE SpuriousWakeup
  BY <1>7, PostsAssumption DEF SpuriousWakeup
<1>8. ASSUME NEW m \in MsgIds, Feed(m) PROVE TypeInv'
  BY <1>8 DEF Feed
<1>9. CASE Terminated
  BY <1>9 DEF Terminated
<1>10. CASE UNCHANGED vars
  BY <1>10
<1> QED
  BY <1>1, <1>2, <1>3, <1>4, <1>5, <1>6, <1>7, <1>8, <1>9, <1>10 DEF Next

\* The types of both threads' state, for any number of posts.
THEOREM TypeCorrect == Spec => []TypeOK
<1>1. TypeInv => TypeOK
  BY DEF TypeInv
<1> QED
  BY InitTypeInv, NextTypeInv, <1>1, PTL DEF Spec
-------------------------------------------------------------------------------
(* The lock, the condition variable and the end.                           *)

\* join_postthread() sets postdone and nothing resets it.
JoinStages ==
    postdone <=> mainpc \in {"joinsignal", "joinunlock", "join", "returned"}

\* pthread_join returns after the poster's end.
JoinedIsDone == mainpc = "returned" => posterpc = "done"

\* The inductive invariant of the two threads' control.  Each of the
\* conjuncts leans on others: that the poster leaves last needs JoinStages
\* (nobody can append once postdone is set), and so does NoLostWakeup.
Control ==
    /\ LockHolder
    /\ JoinStages
    /\ JoinedIsDone
    /\ NoLostWakeup
    /\ PosterLeavesLast

\* Control is inductive, given the types.
LEMMA InitControl == Init => Control
BY DEF Init, Control, LockHolder, JoinStages, JoinedIsDone, NoLostWakeup,
       PosterLeavesLast, MainHolds, PosterHolds, Main, Poster, Free

\* Every step keeps mutex, flag and program counters in agreement.
LEMMA NextControl == TypeInv /\ Control /\ [Next]_vars => Control'
<1> SUFFICES ASSUME TypeInv, Control, [Next]_vars PROVE Control'
  OBVIOUS
<1> USE DEF TypeInv, TypeOK, WorkAtHand, Control, LockHolder, JoinStages,
            JoinedIsDone, NoLostWakeup, PosterLeavesLast, MainHolds,
            PosterHolds, Main, Poster, Free, MainStates, PosterStates, shared,
            mainvars, session, history, vars, MainStep, PosterStep, Lock,
            Unlock, Signal, Pop
<1>1. ASSUME NEW m \in MsgIds, CallPost(m) PROVE Control'
  BY <1>1 DEF CallPost
<1>2. CASE CallJoin
  BY <1>2 DEF CallJoin
<1>3. CASE MainInCall
  <2>1. CASE PostLock
    BY <2>1 DEF PostLock
  <2>2. CASE PostAppend
    BY <2>2 DEF PostAppend
  <2>3. CASE PostSignal
    BY <2>3 DEF PostSignal
  <2>4. CASE PostUnlock
    BY <2>4 DEF PostUnlock
  <2>5. CASE JoinLock
    BY <2>5 DEF JoinLock
  <2>6. CASE JoinSetDone
    BY <2>6 DEF JoinSetDone
  <2>7. CASE JoinSignal
    BY <2>7 DEF JoinSignal
  <2>8. CASE JoinUnlock
    BY <2>8 DEF JoinUnlock
  <2>9. CASE JoinReturn
    BY <2>9 DEF JoinReturn
  <2> QED
    BY <1>3, <2>1, <2>2, <2>3, <2>4, <2>5, <2>6, <2>7, <2>8, <2>9
       DEF MainInCall
<1>4. CASE MainFatal
  BY <1>4 DEF MainFatal
<1>5. CASE PosterWorks
  <2>1. CASE Resolve
    BY <2>1 DEF Resolve
  <2>2. CASE FirstLock
    BY <2>2 DEF FirstLock
  <2>3. CASE StartConnect
    BY <2>3 DEF StartConnect
  <2>4. CASE Connect
    BY <2>4 DEF Connect
  <2>5. CASE Banner
    BY <2>5 DEF Banner
  <2>6. CASE ModeReader
    BY <2>6 DEF ModeReader
  <2>7. CASE Relock
    BY <2>7 DEF Relock
  <2>8. CASE Reuse
    BY <2>8 DEF Reuse
  <2>9. CASE SendStat
    BY <2>9 DEF SendStat
  <2>10. CASE StatExists
    BY <2>10 DEF StatExists
  <2>11. CASE StatMissing
    BY <2>11 DEF StatMissing
  <2>12. CASE SendArticle
    BY <2>12 DEF SendArticle
  <2>13. ASSUME NEW pc \in {"stat", "post", "sent"}, Authenticate(pc) PROVE Control'
    BY <2>13 DEF Authenticate
  <2>14. CASE ArticlePosted
    BY <2>14 DEF ArticlePosted
  <2>15. CASE ArticleOther
    BY <2>15 DEF ArticleOther
  <2>16. ASSUME NEW line \in SUBSET Reasons, ArticleRejected(line) PROVE Control'
    BY <2>16 DEF ArticleRejected
  <2>17. CASE Sleep
    BY <2>17 DEF Sleep
  <2>18. CASE Wake
    BY <2>18 DEF Wake
  <2>19. CASE LeaveLoop
    BY <2>19 DEF LeaveLoop
  <2>20. CASE Exit
    BY <2>20 DEF Exit
  <2>21. CASE Close
    BY <2>21 DEF Close
  <2> QED
    BY <1>5, <2>1, <2>2, <2>3, <2>4, <2>5, <2>6, <2>7, <2>8, <2>9,
       <2>10, <2>11, <2>12, <2>13, <2>14, <2>15, <2>16, <2>17, <2>18,
       <2>19, <2>20, <2>21 DEF PosterWorks
<1>6. CASE PosterFatal
  BY <1>6 DEF PosterFatal
<1>7. CASE SpuriousWakeup
  BY <1>7 DEF SpuriousWakeup
<1>8. ASSUME NEW m \in MsgIds, Feed(m) PROVE Control'
  BY <1>8 DEF Feed
<1>9. CASE Terminated
  BY <1>9 DEF Terminated
<1>10. CASE UNCHANGED vars
  BY <1>10
<1> QED
  BY <1>1, <1>2, <1>3, <1>4, <1>5, <1>6, <1>7, <1>8, <1>9, <1>10 DEF Next

\* The mutex excludes the two threads from each other's sections.
THEOREM MutualExclusion == Spec => []LockHolder
<1>1. Control => LockHolder
  BY DEF Control
<1> QED
  BY InitTypeInv, NextTypeInv, InitControl, NextControl, <1>1, PTL DEF Spec

\* What a thread does with the queue and the flag it does with the lock held: the
\* steps of main that change them are in its critical sections, those of the
\* poster are the ends of an article.
LEMMA HolderChangesShared ==
    ASSUME TypeOK, LockHolder, [Next]_vars
    PROVE  \/ UNCHANGED shared
           \/ postlock = Main /\ mainpc' # mainpc
           \/ postlock = Poster /\ posterpc' # posterpc
<1> DEFINE Goal == \/ UNCHANGED shared
                   \/ postlock = Main /\ mainpc' # mainpc
                   \/ postlock = Poster /\ posterpc' # posterpc
<1>1. posterpc \in {"stat", "sent"} => postlock = Poster
  BY DEF LockHolder, PosterHolds
<1>2. CASE PostAppend \/ JoinSetDone
  BY <1>2 DEF PostAppend, JoinSetDone, MainStep, LockHolder, MainHolds
<1>3. ASSUME NEW from \in {"stat", "sent"}, PosterStep(from, "drain") PROVE Goal
  BY <1>1, <1>3 DEF PosterStep
<1>4. CASE StatExists \/ ArticlePosted \/ ArticleOther
  BY <1>3, <1>4 DEF StatExists, ArticlePosted, ArticleOther
<1>5. ASSUME NEW line \in SUBSET Reasons, ArticleRejected(line) PROVE Goal
  BY <1>3, <1>5 DEF ArticleRejected
<1>6. CASE MainInCall
  BY <1>2, <1>6 DEF MainInCall, PostLock, PostSignal, PostUnlock, JoinLock,
     JoinSignal, JoinUnlock, JoinReturn
<1>7. CASE PosterWorks
  BY <1>4, <1>5, <1>7 DEF PosterWorks, Resolve, FirstLock, StartConnect, Connect,
     Banner, ModeReader, Relock, Reuse, SendStat, StatMissing, Authenticate,
     SendArticle, Sleep, Wake, LeaveLoop, Exit, Close
<1>8. CASE UNCHANGED vars
  BY <1>8 DEF vars, shared
<1> QED
  BY <1>6, <1>7, <1>8 DEF Next, CallPost, CallJoin, MainFatal, PosterFatal,
     SpuriousWakeup, Feed, Terminated, vars

\* The lock protects what it is meant to: without it nothing shared changes
\* (post, join_postthread, postthread, pts_stat and pts_post).
THEOREM LockProtects == Spec => OnlyHolderChangesShared
<1>1. TypeInv /\ Control /\ [Next]_vars
        => [\/ UNCHANGED shared
            \/ postlock = Main /\ mainpc' # mainpc
            \/ postlock = Poster /\ posterpc' # posterpc]_vars
  BY HolderChangesShared DEF TypeInv, Control
<1> QED
  BY InitTypeInv, NextTypeInv, InitControl, NextControl, <1>1, PTL
     DEF Spec, OnlyHolderChangesShared

\* No wakeup is lost, wherever the poster is when the signal is sent.
THEOREM WakeupsReachPoster == Spec => []NoLostWakeup
<1>1. Control => NoLostWakeup
  BY DEF Control
<1> QED
  BY InitTypeInv, NextTypeInv, InitControl, NextControl, <1>1, PTL DEF Spec

\* The poster outlives every call of post().
THEOREM PosterIsLast == Spec => []PosterLeavesLast
<1>1. Control => PosterLeavesLast
  BY DEF Control
<1> QED
  BY InitTypeInv, NextTypeInv, InitControl, NextControl, <1>1, PTL DEF Spec

-------------------------------------------------------------------------------
(* The queue and its history.                                              *)

\* Only these steps touch the queue or what is recorded of it.
Untouched == UNCHANGED <<postjobs, accepted, handled, verdicts>>

Popped(v) ==
    /\ postjobs # <<>>
    /\ Pop(v)
    /\ Head(postjobs) \in spool' \/ v.code \in {"rejected", "other"}

\* The only steps that touch the list of jobs are PostAppend and those
\* that pop an article; sending and connecting leave it alone.
LEMMA QueueSteps ==
  ASSUME TypeInv, [Next]_vars
  PROVE  /\ spool \subseteq spool'
         /\ Untouched \/ PostAppend \/ \E v \in Verdicts : Popped(v)
<1> DEFINE Goal == /\ spool \subseteq spool'
                   /\ Untouched \/ PostAppend \/ \E v \in Verdicts : Popped(v)
<1> SUFFICES Goal
  OBVIOUS
<1> USE DEF TypeInv, TypeOK, WorkAtHand, Untouched, shared, mainvars, session,
            history, vars, MainStep, PosterStep
<1>p. ASSUME NEW v \in Verdicts, Popped(v), spool \subseteq spool' PROVE Goal
  BY <1>p
<1> HIDE DEF Goal
<1>u. ASSUME Untouched, spool \subseteq spool' PROVE Goal
  BY <1>u DEF Goal
<1>1. ASSUME NEW m \in MsgIds, CallPost(m) PROVE Goal
  BY <1>1, <1>u DEF CallPost
<1>2. CASE CallJoin
  BY <1>2, <1>u DEF CallJoin
<1>3. CASE MainInCall
  <2>1. CASE PostLock
    BY <2>1, <1>u DEF PostLock
  <2>2. CASE PostAppend
    BY <2>2 DEF PostAppend, Goal
  <2>3. CASE PostSignal
    BY <2>3, <1>u DEF PostSignal
  <2>4. CASE PostUnlock
    BY <2>4, <1>u DEF PostUnlock
  <2>5. CASE JoinLock
    BY <2>5, <1>u DEF JoinLock
  <2>6. CASE JoinSetDone
    BY <2>6, <1>u DEF JoinSetDone
  <2>7. CASE JoinSignal
    BY <2>7, <1>u DEF JoinSignal
  <2>8. CASE JoinUnlock
    BY <2>8, <1>u DEF JoinUnlock
  <2>9. CASE JoinReturn
    BY <2>9, <1>u DEF JoinReturn
  <2> QED
    BY <1>3, <2>1, <2>2, <2>3, <2>4, <2>5, <2>6, <2>7, <2>8, <2>9
       DEF MainInCall
<1>4. CASE MainFatal
  BY <1>4, <1>u DEF MainFatal
<1>5. CASE PosterWorks
  <2>1. CASE Resolve
    BY <2>1, <1>u DEF Resolve
  <2>2. CASE FirstLock
    BY <2>2, <1>u DEF FirstLock
  <2>3. CASE StartConnect
    BY <2>3, <1>u DEF StartConnect
  <2>4. CASE Connect
    BY <2>4, <1>u DEF Connect
  <2>5. CASE Banner
    BY <2>5, <1>u DEF Banner
  <2>6. CASE ModeReader
    BY <2>6, <1>u DEF ModeReader
  <2>7. CASE Relock
    BY <2>7, <1>u DEF Relock
  <2>8. CASE Reuse
    BY <2>8, <1>u DEF Reuse
  <2>9. CASE SendStat
    BY <2>9, <1>u DEF SendStat
  <2>10. CASE StatExists
    <3>1. Verdict("exists", {}, FALSE) \in Verdicts
      BY DEF Verdict, Verdicts
    <3>2. Popped(Verdict("exists", {}, FALSE)) /\ spool \subseteq spool'
      BY <2>10 DEF StatExists, Popped, Verdict
    <3> QED
      BY <1>p, <3>1, <3>2
  <2>11. CASE StatMissing
    BY <2>11, <1>u DEF StatMissing
  <2>12. CASE SendArticle
    BY <2>12, <1>u DEF SendArticle
  <2>13. ASSUME NEW pc \in {"stat", "post", "sent"}, Authenticate(pc) PROVE Goal
    BY <2>13, <1>u DEF Authenticate
  <2>14. CASE ArticlePosted
    <3>1. Verdict("posted", {}, FALSE) \in Verdicts
      BY DEF Verdict, Verdicts
    <3>2. Popped(Verdict("posted", {}, FALSE)) /\ spool \subseteq spool'
      BY <2>14 DEF ArticlePosted, Popped, Verdict
    <3> QED
      BY <1>p, <3>1, <3>2
  <2>15. CASE ArticleOther
    <3>1. Verdict("other", {}, FALSE) \in Verdicts
      BY DEF Verdict, Verdicts
    <3>2. Popped(Verdict("other", {}, FALSE)) /\ spool \subseteq spool'
      BY <2>15 DEF ArticleOther, Popped, Verdict
    <3> QED
      BY <1>p, <3>1, <3>2
  <2>16. ASSUME NEW line \in SUBSET Reasons, ArticleRejected(line) PROVE Goal
    <3> DEFINE v == Verdict("rejected", line, "437" \in line /\ "435" \in line)
    <3>1. v \in Verdicts
      BY DEF Verdict, Verdicts
    <3>2. Popped(v) /\ spool \subseteq spool'
      BY <2>16 DEF ArticleRejected, Popped, Verdict
    <3> QED
      BY <1>p, <3>1, <3>2
  <2>17. CASE Sleep
    BY <2>17, <1>u DEF Sleep
  <2>18. CASE Wake
    BY <2>18, <1>u DEF Wake
  <2>19. CASE LeaveLoop
    BY <2>19, <1>u DEF LeaveLoop
  <2>20. CASE Exit
    BY <2>20, <1>u DEF Exit
  <2>21. CASE Close
    BY <2>21, <1>u DEF Close
  <2> QED
    BY <1>5, <2>1, <2>2, <2>3, <2>4, <2>5, <2>6, <2>7, <2>8, <2>9,
       <2>10, <2>11, <2>12, <2>13, <2>14, <2>15, <2>16, <2>17, <2>18,
       <2>19, <2>20, <2>21 DEF PosterWorks
<1>6. CASE PosterFatal
  BY <1>6, <1>u DEF PosterFatal
<1>7. CASE SpuriousWakeup
  BY <1>7, <1>u DEF SpuriousWakeup
<1>8. ASSUME NEW m \in MsgIds, Feed(m) PROVE Goal
  BY <1>8, <1>u DEF Feed
<1>9. CASE Terminated
  BY <1>9, <1>u DEF Terminated
<1>10. CASE UNCHANGED vars
  BY <1>10, <1>u
<1> QED
  BY <1>1, <1>2, <1>3, <1>4, <1>5, <1>6, <1>7, <1>8, <1>9, <1>10 DEF Next

\* One verdict per handled article.
VerdictPerJob == Len(verdicts) = Len(handled)

Ledger == FifoExactlyOnce /\ VerdictPerJob /\ GoneMeansDelivered

\* Ledger is inductive, given the types.
LEMMA InitLedger == Init => Ledger
BY DEF Init, Ledger, FifoExactlyOnce, VerdictPerJob, GoneMeansDelivered

\* Every step keeps what is handled, queued and answered in agreement.
LEMMA NextLedger == TypeInv /\ Ledger /\ [Next]_vars => Ledger'
<1> SUFFICES ASSUME TypeInv, Ledger, [Next]_vars PROVE Ledger'
  OBVIOUS
<1>t. /\ postjobs \in Seq(MsgIds) /\ accepted \in Seq(MsgIds)
      /\ handled \in Seq(MsgIds) /\ verdicts \in Seq(Verdicts) /\ job \in MsgIds
  BY DEF TypeInv, TypeOK
<1>s. spool \subseteq spool'
  BY QueueSteps
<1>1. CASE Untouched
  BY <1>1, <1>s DEF Untouched, Ledger, FifoExactlyOnce, VerdictPerJob,
                    GoneMeansDelivered
<1>2. CASE PostAppend
  <2>1. /\ accepted' = accepted \o <<job>>
        /\ postjobs' = postjobs \o <<job>>
    BY <1>2, <1>t, AppendIsConcat DEF PostAppend
  <2>2. accepted' = handled' \o postjobs'
    BY <1>2, <1>t, <2>1, ConcatAssociative, IsASeq
       DEF PostAppend, Ledger, FifoExactlyOnce
  <2> QED
    BY <1>2, <1>s, <2>2 DEF PostAppend, Ledger, FifoExactlyOnce, VerdictPerJob,
                            GoneMeansDelivered
<1>3. ASSUME NEW v \in Verdicts, Popped(v) PROVE Ledger'
  <2> DEFINE h == Head(postjobs)
  <2>1. /\ postjobs # <<>> /\ postjobs' = Tail(postjobs)
        /\ handled' = Append(handled, h) /\ verdicts' = Append(verdicts, v)
        /\ accepted' = accepted
    BY <1>3 DEF Popped, Pop
  <2>2. h \in MsgIds /\ Tail(postjobs) \in Seq(MsgIds)
    BY <1>t, <2>1
  <2>3. postjobs = <<h>> \o Tail(postjobs)
    BY <1>t, <2>1
  <2>4. handled' = handled \o <<h>>
    BY <1>t, <2>1, <2>2, AppendIsConcat
  <2>5. FifoExactlyOnce'
    BY <1>t, <2>1, <2>2, <2>3, <2>4, ConcatAssociative, IsASeq
       DEF Ledger, FifoExactlyOnce
  <2>6. VerdictPerJob'
    BY <1>t, <2>1, <2>2 DEF Ledger, VerdictPerJob
  <2>7. GoneMeansDelivered'
    <3> SUFFICES ASSUME NEW i \in DOMAIN handled'
                 PROVE  \/ handled'[i] \in spool'
                        \/ verdicts'[i].code \in {"rejected", "other"}
      BY DEF GoneMeansDelivered
    <3>1. CASE i = Len(handled) + 1
      <4>1. handled'[i] = h /\ verdicts'[i] = v
        BY <1>t, <2>1, <2>2, <3>1 DEF Ledger, VerdictPerJob
      <4> QED
        BY <1>3, <4>1 DEF Popped
    <3>2. CASE i # Len(handled) + 1
      <4>1. i \in 1..Len(handled)
        BY <1>t, <2>1, <2>2, <3>2
      <4>2. handled'[i] = handled[i] /\ verdicts'[i] = verdicts[i]
        BY <1>t, <2>1, <2>2, <4>1 DEF Ledger, VerdictPerJob
      <4> QED
        BY <1>s, <1>t, <4>1, <4>2 DEF Ledger, GoneMeansDelivered
    <3> QED
      BY <3>1, <3>2
  <2> QED
    BY <2>5, <2>6, <2>7 DEF Ledger
<1> QED
  BY QueueSteps, <1>1, <1>2, <1>3

\* Every accepted article is in the queue or was handled, once and in order.
THEOREM Fifo == Spec => []FifoExactlyOnce
<1>1. Ledger => FifoExactlyOnce
  BY DEF Ledger
<1> QED
  BY InitTypeInv, NextTypeInv, InitLedger, NextLedger, <1>1, PTL DEF Spec

\* Only the server's own final answer lets an article go undelivered.
THEOREM Delivery == Spec => []GoneMeansDelivered
<1>1. Ledger => GoneMeansDelivered
  BY DEF Ledger
<1> QED
  BY InitTypeInv, NextTypeInv, InitLedger, NextLedger, <1>1, PTL DEF Spec

\* join_postthread() returns to an empty queue with everything handled.
THEOREM JoinIsComplete == Spec => []JoinMeansDrained
<1>1. TypeInv /\ Control /\ Ledger => JoinMeansDrained
  <2> SUFFICES ASSUME TypeInv, Control, Ledger, mainpc = "returned"
               PROVE  handled = accepted /\ Len(verdicts) = Len(accepted)
    BY DEF JoinMeansDrained
  <2>1. postjobs = <<>>
    BY DEF Control, JoinedIsDone, PosterLeavesLast
  <2>2. accepted = handled
    BY <2>1, ConcatEmptySeq DEF Ledger, FifoExactlyOnce, TypeInv, TypeOK
  <2> QED
    BY <2>2 DEF Ledger, VerdictPerJob
<1> QED
  BY InitTypeInv, NextTypeInv, InitControl, NextControl, InitLedger,
     NextLedger, <1>1, PTL DEF Spec

-------------------------------------------------------------------------------
(* PostThread implements PostQueue, as far as safety goes.                 *)

\* The initial states of PostThread map to that of PostQueue.
LEMMA InitQueue == Init => PQ!Init
BY DEF Init, PQ!Init

\* Every step maps to a step of PostQueue or changes nothing there.
LEMMA NextQueue ==
  ASSUME TypeInv, Control, [Next]_vars
  PROVE  [PQ!Next]_PQ!vars
<1> USE DEF shared, mainvars, session, history, MainStep, PosterStep
<1>s. \/ UNCHANGED <<postjobs, handled, postdone, mainpc, alive>>
      \/ /\ UNCHANGED <<postjobs, handled, postdone, alive>>
         /\ alive /\ mainpc # "returned" /\ mainpc' # "returned"
      => [PQ!Next]_PQ!vars
  BY DEF PQ!vars
<1>h. ASSUME NEW v, Pop(v), alive, posterpc \in {"stat", "sent"}
      PROVE  [PQ!Next]_PQ!vars
  <2>1. postjobs # <<>> /\ mainpc # "returned"
    BY <1>h DEF TypeInv, WorkAtHand, Control, JoinedIsDone
  <2>2. PQ!Handle
    BY <1>h, <2>1 DEF PQ!Handle, Pop
  <2> QED
    BY <2>2 DEF PQ!Next
<1>1. ASSUME NEW m \in MsgIds, CallPost(m) PROVE [PQ!Next]_PQ!vars
  BY <1>1, <1>s DEF CallPost
<1>2. CASE CallJoin
  BY <1>2, <1>s DEF CallJoin
<1>3. CASE MainInCall
  <2>1. CASE PostLock \/ PostSignal \/ PostUnlock
    BY <2>1, <1>s DEF PostLock, PostSignal, PostUnlock
  <2>2. CASE PostAppend
    <3>1. ~postdone /\ job \in MsgIds
      BY <2>2 DEF PostAppend, Control, JoinStages, TypeInv, TypeOK
    <3>2. PQ!Enqueue(job)
      BY <2>2, <3>1 DEF PostAppend, PQ!Enqueue
    <3> QED
      BY <3>1, <3>2 DEF PQ!Next
  <2>3. CASE JoinLock \/ JoinSignal \/ JoinUnlock
    BY <2>3, <1>s DEF JoinLock, JoinSignal, JoinUnlock
  <2>4. CASE JoinSetDone
    <3>1. ~postdone
      BY <2>4 DEF JoinSetDone, Control, JoinStages, TypeInv, TypeOK
    <3>2. PQ!Close
      BY <2>4, <3>1 DEF JoinSetDone, PQ!Close
    <3> QED
      BY <3>2 DEF PQ!Next
  <2>5. CASE JoinReturn
    <3>1. postdone /\ postjobs = <<>>
      BY <2>5 DEF JoinReturn, Control, PosterLeavesLast
    <3>2. PQ!Finish
      BY <2>5, <3>1 DEF JoinReturn, PQ!Finish
    <3> QED
      BY <3>2 DEF PQ!Next
  <2> QED
    BY <1>3, <2>1, <2>2, <2>3, <2>4, <2>5 DEF MainInCall
<1>4. CASE MainFatal
  <2>1. PQ!Abort
    BY <1>4 DEF MainFatal, PQ!Abort
  <2> QED
    BY <2>1 DEF PQ!Next
<1>5. CASE PosterWorks
  <2>1. CASE Resolve \/ FirstLock \/ StartConnect \/ Connect \/ Banner
    BY <2>1, <1>s DEF Resolve, FirstLock, StartConnect, Connect, Banner
  <2>2. CASE ModeReader \/ Relock \/ Reuse \/ SendStat \/ StatMissing
    BY <2>2, <1>s DEF ModeReader, Relock, Reuse, SendStat, StatMissing
  <2>3. CASE SendArticle \/ Sleep \/ Wake \/ LeaveLoop
    BY <2>3, <1>s DEF SendArticle, Sleep, Wake, LeaveLoop
  <2>4. CASE Exit \/ Close
    BY <2>4, <1>s DEF Exit, Close
  <2>5. ASSUME NEW pc \in {"stat", "post", "sent"}, Authenticate(pc)
        PROVE  [PQ!Next]_PQ!vars
    BY <2>5, <1>s DEF Authenticate
  <2>6. CASE StatExists
    BY <2>6, <1>h DEF StatExists
  <2>7. CASE ArticlePosted
    BY <2>7, <1>h DEF ArticlePosted
  <2>8. CASE ArticleOther
    BY <2>8, <1>h DEF ArticleOther
  <2>9. ASSUME NEW line \in SUBSET Reasons, ArticleRejected(line)
        PROVE  [PQ!Next]_PQ!vars
    BY <2>9, <1>h DEF ArticleRejected
  <2> QED
    BY <1>5, <2>1, <2>2, <2>3, <2>4, <2>5, <2>6, <2>7, <2>8, <2>9
       DEF PosterWorks
<1>6. CASE PosterFatal
  <2>1. mainpc # "returned"
    BY <1>6 DEF PosterFatal, Control, JoinedIsDone
  <2>2. PQ!Abort
    BY <1>6, <2>1 DEF PosterFatal, PQ!Abort
  <2> QED
    BY <2>2 DEF PQ!Next
<1>7. CASE SpuriousWakeup
  BY <1>7, <1>s DEF SpuriousWakeup
<1>8. ASSUME NEW m \in MsgIds, Feed(m) PROVE [PQ!Next]_PQ!vars
  BY <1>8, <1>s DEF Feed
<1>9. CASE Terminated \/ UNCHANGED vars
  BY <1>9, <1>s DEF Terminated, vars
<1> QED
  BY <1>1, <1>2, <1>3, <1>4, <1>5, <1>6, <1>7, <1>8, <1>9 DEF Next

\* Every behaviour of the two threads is one of the promised queue.
THEOREM RefinesQueue == Spec => PQ!SafeSpec
<1>1. TypeInv /\ Control /\ [Next]_vars => [PQ!Next]_PQ!vars
  BY NextQueue
<1> QED
  BY InitTypeInv, NextTypeInv, InitControl, NextControl, InitQueue, <1>1, PTL
     DEF Spec, PQ!SafeSpec
===============================================================================
