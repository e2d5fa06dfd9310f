--------------------------- MODULE NewsSourcesProofs ---------------------------
(***************************************************************************)
(* news-sources: what its counters, timestamp, graphs and pages say of the *)
(* log, for any log, any batch size, and runs that are cut short anywhere. *)
(***************************************************************************)
EXTENDS NewsSources, DataLemmas

Between == pc \in {"off", "done"}
Reading == pc \in {"read", "truncate", "write"}
Drawing == pc \in {"days", "create", "close"}
Linking == pc \in {"links", "symlink"}

\* The batch that the timestamp does not cover yet: it is not full while lines
\* are read, and empty when the days are drawn.
Batches ==
    /\ pc = "read" => Cardinality(unsaved) < Batch
    /\ ~Reading => unsaved = {}

\* Only days of the log are listed or have pages; all but the counters start
\* a run anew.
Lists ==
    /\ IsFiniteSet(pages) /\ IsFiniteSet(todo)
    /\ Between => pos = 1 /\ todo = {}
    /\ pc \in {"create", "close"} => todo # {} /\ Min(todo) \in drawn
    /\ pc = "close" => Min(todo) \in pages
    /\ pc = "symlink" => todo = {} /\ pages # {}

\* Where the times come from: a record that was counted.
TimesCounted ==
    /\ latest = 0 \/ \E j \in Counted : Time(j) = latest
    /\ stamp = 0 \/ \E j \in Counted : Time(j) = stamp

\* Records whose second count has no excuse yet.
Sure == Counted \ exposed

\* The timestamp covers them, except for those of the batch; between two runs
\* it is beyond them.  In a run, latest_time covers them all and is beyond
\* those that are still to be met.
Covered ==
    /\ stampfile = "absent" => stamp = 0
    /\ stampfile # "empty" => \A i \in Sure \ unsaved : Time(i) <= stamp
    /\ stampfile # "empty" /\ Between => \A i \in Sure : Time(i) < stamp
    /\ ~Between => \A i \in Sure : /\ Time(i) <= latest
                                   /\ i < pos \/ Time(i) < latest

\* The days of counted records: drawn, known to be missed, or in the list.
DaysAccounted ==
    \A i \in Counted :
        \/ Day(i) \in missed
        \/ Day(i) \in drawn \cap (pages \ empty)
        \/ (Reading \/ Drawing) /\ Day(i) \in todo

\* The links of the pages that fixup_html() has been through.
LinksSoFar ==
    /\ (Linking \/ pc = "done") =>
         \A d \in (pages \ empty) \ todo : prev[d] = Before(d) /\ next[d] = After(d)
    /\ pc = "done" => index = Max(pages \cup {0})

Inv ==
    /\ TypeOK /\ Batches /\ Lists
    /\ TimesCounted /\ Covered
    /\ DoubleCountExplained /\ SkippedOnlyBackwards
    /\ DaysAccounted /\ LinksSoFar

-------------------------------------------------------------------------------

\* What an entry of the log is.
LEMMA Entries ==
  ASSUME NEW i \in Records
  PROVE  Time(i) \in Nat /\ Time(i) > 0 /\ Day(i) \in Days /\ Day(i) \in Nat /\ i \in Nat
<1> DEFINE Entry == [time : Nat \ {0}, day : Days, minute : Nat, accepted : BOOLEAN]
<1>1. FullLog \in Seq(Entry) /\ Len(FullLog) \in Nat
  BY LogAssumption
<1>2. i \in Nat /\ i \in 1..Len(FullLog)
  BY <1>1 DEF Records
<1> HIDE DEF Entry
<1>3. FullLog[i] \in Entry
  BY <1>1, <1>2
<1>4. Time(i) \in Nat \ {0} /\ Day(i) \in Days
  BY <1>3 DEF Entry, Time, Day
<1>5. Days \subseteq Nat
  BY BoundsAssumption
<1>6. Time(i) \in Nat /\ Time(i) > 0
  BY <1>4
<1> QED
  BY <1>2, <1>4, <1>5, <1>6

\* The numbers of days.
LEMMA DaysAreNumbers == Days \subseteq Nat /\ 0 \notin Days
BY BoundsAssumption

\* The first of the listed days.
LEMMA FirstListed ==
  ASSUME TypeOK, todo # {}
  PROVE  Min(todo) \in todo /\ Min(todo) \in Days
<1>1. todo \in SUBSET Nat /\ todo \subseteq Days
  BY DaysAreNumbers DEF TypeOK
<1> QED
  BY <1>1, MinOf

\* The newest page.
LEMMA NewestPage ==
  ASSUME TypeOK, Lists, pages # {}
  PROVE  Max(pages) \in pages /\ Max(pages) = Max(pages \cup {0})
<1>1. pages \in SUBSET Nat /\ IsFiniteSet(pages)
  BY DaysAreNumbers DEF TypeOK, Lists
<1>2. Max(pages) \in pages /\ \A d \in pages : d <= Max(pages)
  BY <1>1, MaxOf
<1>3. pages \cup {0} \in SUBSET Nat /\ IsFiniteSet(pages \cup {0})
  BY <1>1, FS_AddElement
<1>4. /\ Max(pages \cup {0}) \in pages \cup {0}
      /\ \A d \in pages \cup {0} : d <= Max(pages \cup {0})
  BY <1>3, MaxOf
<1> DEFINE m == Max(pages)
           n == Max(pages \cup {0})
<1>5. m \in Nat /\ n \in Nat /\ m <= n
  <2>0. \A x \in pages : x \in Nat
    BY <1>1
  <2>1. m \in Nat /\ n \in Nat
    BY <1>2, <1>4, <2>0
  <2>2. m <= n
    BY <1>2, <1>4
  <2> QED
    BY <2>1, <2>2
<1>6. n = 0 \/ n <= m
  BY <1>2, <1>4
<1>7. m = n
  <2> HIDE DEF m, n
  <2> QED
    BY <1>5, <1>6
<1> QED
  BY <1>2, <1>7

\* The neighbours of a page are pages, or there are none.
LEMMA Neighbours ==
  ASSUME TypeOK, Lists, NEW d \in Days
  PROVE  Before(d) \in pages \cup {0} /\ After(d) \in pages \cup {0}
<1>1. pages \in SUBSET Nat /\ IsFiniteSet(pages) /\ d \in Nat
  BY DaysAreNumbers DEF TypeOK, Lists
<1>2. Before(d) \in pages \cup {0}
  <2> DEFINE P == {e \in pages : e < d}
  <2>1. IsFiniteSet(P) /\ P \in SUBSET Nat
    BY <1>1, FS_Subset
  <2>2. IsFiniteSet(P \cup {0}) /\ P \cup {0} \in SUBSET Nat
    BY <2>1, FS_AddElement
  <2>3. Max(P \cup {0}) \in P \cup {0}
    BY <2>2, MaxOf
  <2> QED
    BY <2>3 DEF Before
<1>3. After(d) \in pages \cup {0}
  <2> DEFINE P == {e \in pages : e > d}
  <2>1. CASE P # {}
    <3>1. P \in SUBSET Nat
      BY <1>1
    <3>2. Min(P) \in P
      BY <2>1, <3>1, MinOf
    <3> QED
      BY <2>1, <3>2 DEF After
  <2>2. CASE P = {}
    BY <2>2 DEF After
  <2> QED
    BY <2>1, <2>2
<1> QED
  BY <1>2, <1>3

\* The steps that count nothing, and the one that does.
LEMMA CountedKept ==
  ASSUME [Next]_vars, ~CountLine
  PROVE  Counted' = Counted
BY DEF Next, RunStep, StartRun, StartFails, SkipLine, EndOfInput, Truncate, Write,
       DrawGraphs, CreatePage, WritePage, StartLinks, FixPage, Unlink, Exit, Crash,
       WriteLog, vars, Counted

\* What counting a line does to the counters and to the newest time.
LEMMA CountLineCounts ==
  ASSUME TypeOK, CountLine
  PROVE  /\ pos \in Records /\ pos \in Nat /\ Counted' = Counted \cup {pos}
         /\ counted' \in [Records -> 0..2]
         /\ \A i \in Records : i # pos => counted'[i] = counted[i]
         /\ counted'[pos] = 2 => counted[pos] > 0
         /\ latest' \in {latest, Time(pos)} /\ latest <= latest' /\ Time(pos) <= latest'
         /\ latest \in Nat /\ latest <= Time(pos)
<1>1. pos \in Records /\ pos \in Nat
  BY LogAssumption DEF TypeOK, CountLine, Line, Records
<1>2. counted \in [Records -> 0..2] /\ latest \in Nat
  BY Entries DEF TypeOK
<1>3. /\ counted' \in [Records -> 0..2]
      /\ \A i \in Records : i # pos => counted'[i] = counted[i]
      /\ counted'[pos] > 0 /\ (counted'[pos] = 2 => counted[pos] > 0)
  BY <1>1, <1>2 DEF CountLine
<1>4. Counted' = Counted \cup {pos}
  BY <1>1, <1>2, <1>3 DEF Counted
<1>5. Time(pos) \in Nat /\ ~(Time(pos) < latest)
  BY <1>1, Entries DEF CountLine, Wanted
<1>6. latest' = IF latest < Time(pos) THEN Time(pos) ELSE latest
  BY DEF CountLine
<1> QED
  BY <1>1, <1>2, <1>3, <1>4, <1>5, <1>6

\* Without any counters or pages the invariant holds.
LEMMA InitInv == Init => Inv
<1> SUFFICES ASSUME Init PROVE Inv
  OBVIOUS
<1>1. Counted = {}
  BY DEF Init, Counted
<1>2. Len(FullLog) \in Nat
  BY LogAssumption
<1>3. IsFiniteSet({}) /\ Cardinality({}) = 0
  BY FS_EmptySet
<1>4. TypeOK
  <2>1. Batch \in Nat /\ Batch > 0 /\ MaxCrashes \in Nat
    BY BoundsAssumption
  <2>2. /\ 0 \in 0..Len(FullLog) /\ 1 \in 1..Len(FullLog) + 1 /\ 0 \in 0..MaxCrashes
        /\ Cardinality({}) <= Batch
    BY <1>2, <1>3, <2>1
  <2>3. /\ counted \in [Records -> 0..2]
        /\ prev \in [Days -> Days \cup {0}] /\ next \in [Days -> Days \cup {0}]
    BY DEF Init
  <2>4. unsaved \subseteq Counted /\ Cardinality(unsaved) <= Batch /\ exposed \subseteq Counted
    BY <1>1, <2>2 DEF Init
  <2>5. visible \in 0..Len(FullLog) /\ pos \in 1..Len(FullLog) + 1 /\ crashes \in 0..MaxCrashes
    BY <2>2 DEF Init
  <2> QED
    BY <2>3, <2>4, <2>5 DEF Init, TypeOK
<1>7. Batches /\ Lists
  BY <1>3, BoundsAssumption DEF Init, Batches, Lists, Reading, Between
<1>5. TimesCounted /\ Covered /\ DoubleCountExplained
  BY <1>1 DEF Init, TimesCounted, Covered, Sure, Between, DoubleCountExplained
<1>6. SkippedOnlyBackwards
  BY DEF Init, SkippedOnlyBackwards, Records
<1> QED
  BY <1>1, <1>4, <1>5, <1>6, <1>7 DEF Init, Inv, DaysAccounted, LinksSoFar, Linking

-------------------------------------------------------------------------------
(* Every step keeps the invariant, one part of it after the other.         *)

\* Every step keeps the types and the size of a batch.
LEMMA NextTypeOK == Inv /\ [Next]_vars => TypeOK' /\ Batches' /\ Lists'
<1> SUFFICES ASSUME Inv, [Next]_vars PROVE TypeOK' /\ Batches' /\ Lists'
  OBVIOUS
<1>t. TypeOK /\ Batches /\ Lists
  BY DEF Inv
<1>n. /\ Len(FullLog) \in Nat /\ Batch \in Nat /\ Batch > 0 /\ MaxCrashes \in Nat
      /\ IsFiniteSet({}) /\ Cardinality({}) = 0
  BY LogAssumption, BoundsAssumption, FS_EmptySet
<1>m. 1 \in 1..Len(FullLog) + 1 /\ Cardinality({}) <= Batch
  BY <1>n
<1>1. CASE StartRun
  <2>1. TypeOK'
    BY <1>1, <1>t, <1>m DEF StartRun, TypeOK, Counted, timestamp, output, history
  <2> QED
    BY <1>1, <1>t, <1>n, <2>1
       DEF StartRun, Batches, Lists, Reading, Between, timestamp, output, history
<1>2. CASE StartFails \/ UNCHANGED vars
  <2>1. TypeOK'
    BY <1>2, <1>t DEF StartFails, TypeOK, Counted, timestamp, output, local, history, vars
  <2> QED
    BY <1>2, <1>t, <2>1
       DEF StartFails, Batches, Lists, Reading, Between, timestamp, output, local,
           history, vars
<1>3. CASE SkipLine
  <2>1. pos \in Records /\ pos' \in 1..Len(FullLog) + 1
    BY <1>3, <1>t, <1>n DEF SkipLine, Line, TypeOK, Records
  <2>2. TypeOK'
    BY <1>3, <1>t, <2>1 DEF SkipLine, TypeOK, Counted, timestamp, output, local, history
  <2> QED
    BY <1>3, <1>t, <2>2 DEF SkipLine, Line, Batches, Lists, Reading, Between, timestamp,
                        output, local, history
<1>4. CASE CountLine
  <2>1. /\ pos \in Records /\ pos \in Nat /\ Counted' = Counted \cup {pos}
        /\ counted' \in [Records -> 0..2] /\ latest' \in {latest, Time(pos)}
    BY <1>4, <1>t, CountLineCounts
  <2>2. pos' \in 1..Len(FullLog) + 1
    BY <1>4, <1>n, <2>1 DEF CountLine, Records
  <2>3. IsFiniteSet(unsaved)
    <3>1. IsFiniteSet(1..Len(FullLog))
      BY <1>n, FS_Interval
    <3>2. unsaved \subseteq 1..Len(FullLog)
      BY <1>t DEF TypeOK, Counted, Records
    <3> QED
      BY <3>1, <3>2, FS_Subset
  <2>4. /\ Cardinality(unsaved) \in Nat /\ Cardinality(unsaved') \in Nat
        /\ Cardinality(unsaved') <= Cardinality(unsaved) + 1
    BY <1>4, <2>3, FS_AddElement, FS_CardinalityType DEF CountLine
  <2>5. Cardinality(unsaved) < Batch
    BY <1>4, <1>t DEF CountLine, Line, Batches
  <2>6. /\ pc' \in {"read", "truncate"}
        /\ pc' = "read" => Cardinality(unsaved') < Batch
        /\ Cardinality(unsaved') <= Batch
    BY <1>4, <1>n, <2>4, <2>5 DEF CountLine, Due
  <2>7. todo' \subseteq Days /\ IsFiniteSet(todo')
    <3>1. todo' = todo \cup {Day(pos)} /\ Day(pos) \in Days
      BY <1>4, <2>1, Entries DEF CountLine, Todo
    <3>2. IsFiniteSet(todo) /\ todo \subseteq Days
      BY <1>t DEF Lists, TypeOK
    <3>3. IsFiniteSet(todo \cup {Day(pos)})
      BY <3>2, FS_AddElement
    <3> QED
      BY <3>1, <3>2, <3>3
  <2>8. drawn' \subseteq Days /\ unsaved' \subseteq Counted' /\ exposed' \subseteq Counted'
    BY <1>4, <1>t, <2>1 DEF CountLine, TypeOK, history
  <2>9. latest' \in {0} \cup {Time(i) : i \in Records}
    BY <1>t, <2>1 DEF TypeOK
  <2>10. TypeOK'
    BY <1>4, <1>t, <2>1, <2>2, <2>6, <2>7, <2>8, <2>9
       DEF CountLine, TypeOK, timestamp, history
  <2> QED
    BY <1>4, <1>t, <2>6, <2>7, <2>10 DEF CountLine, Batches, Lists, Reading, Between
<1>5. CASE EndOfInput
  <2>1. TypeOK'
    BY <1>5, <1>t DEF EndOfInput, TypeOK, Counted, timestamp, output, history
  <2> QED
    BY <1>5, <1>t, <2>1 DEF EndOfInput, Batches, Lists, Reading, Between, timestamp,
                        output, history
<1>6. CASE Truncate \/ Write
  <2>1. TypeOK'
    BY <1>6, <1>t, <1>m
       DEF Truncate, Write, TypeOK, Counted, timestamp, output, local, history
  <2> QED
    BY <1>6, <1>t, <1>n, <2>1 DEF Truncate, Write, Batches, Lists, Reading, Between,
                              output, local, history
<1>7. CASE DrawGraphs
  <2>1. Min(todo) \in Days
    BY <1>7, <1>t, FirstListed DEF DrawGraphs
  <2>2. TypeOK'
    BY <1>7, <1>t, <2>1 DEF DrawGraphs, TypeOK, Counted, timestamp, local, history
  <2> QED
    BY <1>7, <1>t, <2>2
       DEF DrawGraphs, Batches, Lists, Reading, Between, timestamp, local, history
<1>8. CASE CreatePage
  <2>1. Min(todo) \in Days
    BY <1>8, <1>t, FirstListed DEF CreatePage, Lists
  <2>2. TypeOK'
    BY <1>8, <1>t, <2>1 DEF CreatePage, TypeOK, Counted, timestamp, local, history
  <2>3. IsFiniteSet(pages')
    BY <1>8, <1>t, FS_AddElement DEF CreatePage, Lists
  <2> QED
    BY <1>8, <1>t, <2>2, <2>3
       DEF CreatePage, Batches, Lists, Reading, Between, timestamp, local, history
<1>9. CASE WritePage
  <2>1. /\ prev' \in [Days -> Days \cup {0}] /\ next' \in [Days -> Days \cup {0}]
        /\ missed' \subseteq Days /\ todo' \subseteq Days /\ empty' \subseteq pages
    BY <1>9, <1>t DEF WritePage, TypeOK
  <2>2. TypeOK'
    BY <1>9, <1>t, <2>1 DEF WritePage, TypeOK, Counted, timestamp
  <2>3. IsFiniteSet(todo')
    BY <1>9, <1>t, FS_RemoveElement DEF WritePage, Lists
  <2> QED
    BY <1>9, <1>t, <2>2, <2>3 DEF WritePage, Batches, Lists, Reading, Between
<1>10. CASE StartLinks
  <2>1. TypeOK'
    BY <1>10, <1>t DEF StartLinks, Names, TypeOK, Counted, timestamp, output, history
  <2> QED
    BY <1>10, <1>t, <2>1
       DEF StartLinks, Names, Batches, Lists, Reading, Between, output
<1>11. CASE FixPage
  <2>1. Min(todo) \in Days
    BY <1>11, <1>t, FirstListed DEF FixPage
  <2>2. Before(Min(todo)) \in Days \cup {0} /\ After(Min(todo)) \in Days \cup {0}
    BY <1>t, <2>1, Neighbours DEF TypeOK
  <2>3. /\ prev' \in [Days -> Days \cup {0}] /\ next' \in [Days -> Days \cup {0}]
        /\ todo' \subseteq Days
    BY <1>11, <1>t, <2>1, <2>2 DEF FixPage, TypeOK
  <2>4. TypeOK'
    BY <1>11, <1>t, <2>3 DEF FixPage, TypeOK, Counted, timestamp, history
  <2>5. IsFiniteSet(todo')
    BY <1>11, <1>t, FS_RemoveElement DEF FixPage, Lists
  <2> QED
    BY <1>11, <1>t, <2>4, <2>5 DEF FixPage, Batches, Lists, Reading, Between
<1>12. CASE Unlink
  <2>1. TypeOK'
    BY <1>12, <1>t DEF Unlink, TypeOK, Counted, timestamp, local, history
  <2> QED
    BY <1>12, <1>t, <2>1 DEF Unlink, Batches, Lists, Reading, Between, local
<1>13. CASE Exit
  <2>1. index' \in pages \cup {0}
    BY <1>13, <1>t, NewestPage DEF Exit, Lists, TypeOK
  <2>2. exposed' \subseteq Counted
    BY <1>13, <1>t DEF Exit, Ties, TypeOK
  <2>3. TypeOK'
    BY <1>13, <1>t, <1>m, <2>1, <2>2 DEF Exit, Gone, TypeOK, Counted, timestamp
  <2> QED
    BY <1>13, <1>t, <1>n, <2>3 DEF Exit, Gone, Batches, Lists, Reading, Between
<1>14. CASE Crash
  <2>1. exposed' \subseteq Counted /\ missed' \subseteq Days /\ crashes' \in 0..MaxCrashes
    BY <1>14, <1>t, <1>n DEF Crash, Ties, TypeOK
  <2>2. TypeOK'
    BY <1>14, <1>t, <1>m, <2>1 DEF Crash, Gone, TypeOK, Counted, timestamp, output
  <2> QED
    BY <1>14, <1>t, <1>n, <2>2 DEF Crash, Gone, Batches, Lists, Reading, Between, output
<1>15. CASE WriteLog
  <2>1. TypeOK'
    BY <1>15, <1>t, <1>n DEF WriteLog, TypeOK, Counted, timestamp, output, local, history
  <2> QED
    BY <1>15, <1>t, <2>1 DEF WriteLog, Batches, Lists, Reading, Between, output, local
<1> QED
  BY <1>1, <1>2, <1>3, <1>4, <1>5, <1>6, <1>7, <1>8, <1>9, <1>10, <1>11, <1>12, <1>13,
     <1>14, <1>15 DEF Next, RunStep

\* Every step keeps the times on file those of counted records.
LEMMA NextTimesCounted == Inv /\ [Next]_vars => TimesCounted'
<1> SUFFICES ASSUME Inv, [Next]_vars PROVE TimesCounted'
  OBVIOUS
<1>t. TypeOK /\ TimesCounted
  BY DEF Inv
<1>1. CASE CountLine
  <2>1. /\ Counted' = Counted \cup {pos} /\ latest' \in {latest, Time(pos)}
        /\ stamp' = stamp
    BY <1>1, <1>t, CountLineCounts DEF CountLine, timestamp
  <2> QED
    BY <1>t, <2>1 DEF TimesCounted
<1>2. CASE ~CountLine
  <2>1. Counted' = Counted
    BY <1>2, CountedKept
  <2>2. latest' \in {latest, stamp, 0} /\ stamp' \in {stamp, latest, 0}
    BY <1>2 DEF Next, RunStep, StartRun, StartFails, SkipLine, EndOfInput, Truncate,
       Write, DrawGraphs, CreatePage, WritePage, StartLinks, FixPage, Unlink, Exit,
       Crash, WriteLog, Gone, vars, timestamp, local
  <2> QED
    BY <1>t, <2>1, <2>2 DEF TimesCounted
<1> QED
  BY <1>1, <1>2

\* The steps of a run that have nothing to do with the timestamp.
LEMMA CoveredKept ==
  ASSUME Inv, Counted' = Counted, exposed' = exposed, UNCHANGED <<latest, unsaved>>,
         \/ UNCHANGED timestamp
         \/ stampfile' = "empty",
         pos' \in Nat, pos <= pos', ~Between /\ ~Between'
  PROVE  Covered'
<1>1. Sure' = Sure
  BY DEF Sure
<1>2. \A i \in Sure : i \in Nat
  BY Entries DEF Sure, Counted
<1>3. pos \in Nat
  BY LogAssumption DEF Inv, TypeOK
<1> QED
  BY <1>1, <1>2, <1>3 DEF Inv, Covered, timestamp

\* Every step keeps a reason for what is counted a second time.
LEMMA NextCovered == Inv /\ [Next]_vars => Covered'
<1> SUFFICES ASSUME Inv, [Next]_vars PROVE Covered'
  OBVIOUS
<1>t. TypeOK /\ Batches /\ Covered
  BY DEF Inv
<1>n. /\ pos \in Nat /\ latest \in Nat /\ stamp \in Nat
      /\ \A i \in Sure : i \in Records /\ i \in Nat /\ Time(i) \in Nat /\ Time(i) > 0
  BY <1>t, Entries, LogAssumption DEF TypeOK, Sure, Counted
<1>1. CASE CountLine
  <2>1. /\ pos \in Nat /\ Counted' = Counted \cup {pos}
        /\ latest <= latest' /\ Time(pos) <= latest' /\ latest' \in Nat
        /\ Time(pos) \in Nat /\ latest <= Time(pos)
    BY <1>1, <1>t, <1>n, CountLineCounts, Entries
  <2>2. /\ pos' = pos + 1 /\ unsaved' = unsaved \cup {pos}
        /\ UNCHANGED <<stampfile, stamp, exposed>> /\ ~Between /\ ~Between'
    BY <1>1 DEF CountLine, Line, timestamp, history, Between
  <2>3. Sure' \subseteq Sure \cup {pos}
    BY <2>1, <2>2 DEF Sure
  <2>4. stampfile # "empty" => \A i \in (Sure \ unsaved)' : Time(i) <= stamp
    BY <1>t, <2>2, <2>3 DEF Covered
  <2>5. ASSUME NEW i \in Sure' PROVE Time(i) <= latest' /\ (i < pos' \/ Time(i) < latest')
    <3>1. CASE i = pos
      BY <2>1, <2>2, <3>1
    <3>2. CASE i # pos
      <4>1. i \in Sure
        BY <2>3, <3>2
      <4>2. Time(i) <= latest /\ (i < pos \/ Time(i) < latest)
        BY <1>t, <2>2, <4>1 DEF Covered
      <4>3. i \in Nat /\ Time(i) \in Nat
        BY <1>n, <4>1
      <4> QED
        BY <1>n, <2>1, <2>2, <4>2, <4>3
    <3> QED
      BY <3>1, <3>2
  <2> QED
    BY <1>t, <2>2, <2>4, <2>5 DEF Covered
<1>2. CASE StartRun
  <2>1. /\ Counted' = Counted /\ UNCHANGED <<stampfile, stamp, exposed>>
        /\ Between /\ ~Between' /\ stampfile # "empty" /\ latest' = stamp
        /\ unsaved' = {}
    BY <1>2 DEF StartRun, Between, Counted, timestamp, history
  <2>2. Sure' = Sure /\ \A i \in Sure : Time(i) < stamp
    BY <1>t, <2>1 DEF Sure, Covered
  <2> QED
    BY <1>t, <1>n, <2>1, <2>2 DEF Covered
<1>3. CASE StartFails \/ WriteLog \/ UNCHANGED vars
  <2>1. /\ Counted' = Counted
        /\ UNCHANGED <<stampfile, stamp, exposed, latest, unsaved, pos>>
        /\ Between' = Between
    BY <1>3 DEF StartFails, WriteLog, vars, Between, Counted, timestamp, local, history
  <2>2. Sure' = Sure
    BY <2>1 DEF Sure
  <2> QED
    BY <1>t, <2>1, <2>2 DEF Covered
<1>4. CASE \/ SkipLine \/ EndOfInput \/ Truncate \/ DrawGraphs \/ CreatePage
           \/ WritePage \/ StartLinks \/ FixPage \/ Unlink
  <2>1. /\ Counted' = Counted /\ UNCHANGED <<exposed, latest, unsaved>>
        /\ UNCHANGED timestamp \/ stampfile' = "empty"
        /\ ~Between /\ ~Between'
    BY <1>4 DEF SkipLine, EndOfInput, Truncate, DrawGraphs, CreatePage, WritePage,
       StartLinks, FixPage, Unlink, Line, Between, Counted, timestamp, local, history
  <2>2. pos' \in {pos, pos + 1}
    BY <1>4 DEF SkipLine, EndOfInput, Truncate, DrawGraphs, CreatePage, WritePage,
       StartLinks, FixPage, Unlink
  <2>3. pos' \in Nat /\ pos <= pos'
    BY <1>n, <2>2
  <2> QED
    BY <2>1, <2>3, CoveredKept
<1>5. CASE Write
  <2>1. /\ Counted' = Counted /\ UNCHANGED <<exposed, latest, pos>>
        /\ stampfile' = "written" /\ stamp' = latest /\ unsaved' = {}
        /\ ~Between /\ ~Between'
    BY <1>5 DEF Write, Between, Counted, history
  <2>2. Sure' = Sure
    BY <2>1 DEF Sure
  <2> QED
    BY <1>t, <2>1, <2>2 DEF Covered
\* The end of a run makes those that are as late as the timestamp exposed.
<1>6. CASE Exit \/ Crash
  <2>1. /\ Counted' = Counted /\ UNCHANGED <<stampfile, stamp>>
        /\ exposed' = exposed \cup Ties \/ exposed' = exposed \cup unsaved \cup Ties
        /\ ~Between /\ Between' /\ unsaved' = {}
    BY <1>6 DEF Exit, Crash, Gone, Between, Counted, timestamp
  <2>2. unsaved \subseteq exposed' /\ Ties \subseteq exposed' /\ exposed \subseteq exposed'
    <3>1. CASE Exit
      <4>1. unsaved = {} /\ exposed' = exposed \cup Ties
        BY <1>t, <3>1 DEF Exit, Batches, Reading
      <4> QED
        BY <4>1
    <3>2. CASE Crash
      BY <3>2 DEF Crash
    <3> QED
      BY <1>6, <3>1, <3>2
  <2>3. ASSUME NEW i \in Sure', stampfile # "empty" PROVE Time(i) < stamp
    <3>1. i \in Sure \ unsaved /\ i \in Counted /\ i \notin Ties
      BY <2>1, <2>2 DEF Sure
    <3>2. Time(i) <= stamp
      BY <1>t, <2>3, <3>1 DEF Covered
    <3>3. Time(i) \in Nat /\ Time(i) > 0
      BY <1>n, <3>1
    <3>4. stampfile = "written"
      BY <1>n, <1>t, <2>3, <3>2, <3>3 DEF Covered, TypeOK
    <3>5. Time(i) # stamp
      BY <3>1, <3>4 DEF Ties
    <3> QED
      BY <1>n, <3>2, <3>3, <3>5
  <2>4. \A i \in Sure' : stampfile # "empty" => Time(i) <= stamp
    <3>1. \A i \in Sure' : i \in Records
      BY <1>n, <2>1, <2>2 DEF Sure
    <3> QED
      BY <1>n, <2>3, <3>1, Entries
  <2> QED
    BY <1>t, <2>1, <2>3, <2>4 DEF Covered
<1> QED
  BY <1>1, <1>2, <1>3, <1>4, <1>5, <1>6 DEF Next, RunStep

\* A second count needs an excuse: the line is not older than latest_time.
LEMMA NextDoubleCount == Inv /\ [Next]_vars => DoubleCountExplained'
<1> SUFFICES ASSUME Inv, [Next]_vars PROVE DoubleCountExplained'
  OBVIOUS
<1>1. CASE CountLine
  <2>1. /\ pos \in Records /\ pos \in Nat
        /\ \A i \in Records : i # pos => counted'[i] = counted[i]
        /\ counted'[pos] = 2 => counted[pos] > 0
        /\ latest \in Nat /\ latest <= Time(pos)
    BY <1>1, CountLineCounts DEF Inv
  <2>2. exposed' = exposed /\ ~Between
    BY <1>1 DEF CountLine, Line, history, Between
  <2>3. counted[pos] > 0 => pos \in exposed
    <3> SUFFICES ASSUME counted[pos] > 0, pos \notin exposed PROVE FALSE
      OBVIOUS
    <3>1. pos \in Sure
      BY <2>1 DEF Sure, Counted
    <3>2. pos < pos \/ Time(pos) < latest
      BY <2>2, <3>1 DEF Inv, Covered
    <3>3. Time(pos) \in Nat
      BY <2>1, Entries
    <3> QED
      BY <2>1, <3>2, <3>3
  <2> QED
    BY <2>1, <2>2, <2>3 DEF Inv, DoubleCountExplained
<1>2. CASE ~CountLine
  <2>1. counted' = counted /\ exposed \subseteq exposed'
    BY <1>2 DEF Next, RunStep, StartRun, StartFails, SkipLine, EndOfInput, Truncate,
       Write, DrawGraphs, CreatePage, WritePage, StartLinks, FixPage, Unlink, Exit,
       Crash, WriteLog, vars, history
  <2> QED
    BY <2>1 DEF Inv, DoubleCountExplained
<1> QED
  BY <1>1, <1>2

\* Every step passes over a record only behind a later one.
LEMMA NextSkipped == Inv /\ [Next]_vars => SkippedOnlyBackwards'
<1> SUFFICES ASSUME Inv, [Next]_vars PROVE SkippedOnlyBackwards'
  OBVIOUS
<1>t. TypeOK /\ pos \in Nat /\ SkippedOnlyBackwards
  BY LogAssumption DEF Inv, TypeOK
<1>1. CASE CountLine
  <2>1. /\ pos \in Records /\ Counted' = Counted \cup {pos}
        /\ \A i \in Records : i # pos => counted'[i] = counted[i]
        /\ counted'[pos] # 0 /\ pos' = pos + 1
    <3>1. counted'[pos] > 0
      BY <1>1, <1>t, CountLineCounts DEF Counted
    <3> QED
      BY <1>1, <1>t, <3>1, CountLineCounts DEF CountLine
  <2>2. ASSUME NEW i \in Records, i < pos', FullLog[i].accepted, counted'[i] = 0
        PROVE  \E j \in Counted' : Time(i) < Time(j)
    <3>1. i # pos /\ counted[i] = 0 /\ i \in Nat
      BY <2>1, <2>2, Entries
    <3>2. i < pos
      BY <1>t, <2>1, <2>2, <3>1
    <3> QED
      BY <1>t, <2>1, <2>2, <3>1, <3>2 DEF SkippedOnlyBackwards
  <2> QED
    BY <2>2 DEF SkippedOnlyBackwards
<1>2. CASE SkipLine
  <2>1. /\ counted' = counted /\ Counted' = Counted /\ pos' = pos + 1
        /\ FullLog[pos].accepted => Time(pos) < latest
    BY <1>2 DEF SkipLine, Wanted, Counted
  <2>2. ASSUME NEW i \in Records, i < pos', FullLog[i].accepted, counted[i] = 0
        PROVE  \E j \in Counted : Time(i) < Time(j)
    <3>1. CASE i < pos
      BY <1>t, <2>2, <3>1 DEF SkippedOnlyBackwards
    <3>2. CASE i = pos
      <4>1. Time(pos) < latest /\ Time(pos) \in Nat
        BY <2>1, <2>2, <3>2, Entries
      <4>2. latest # 0
        BY <4>1
      <4> QED
        BY <3>2, <4>1, <4>2 DEF Inv, TimesCounted
    <3> QED
      BY <1>t, <2>1, <2>2, <3>1, <3>2, Entries
  <2> QED
    BY <2>1, <2>2 DEF SkippedOnlyBackwards
<1>3. CASE ~CountLine /\ ~SkipLine
  <2>1. counted' = counted /\ Counted' = Counted /\ pos' \in {pos, 1}
    BY <1>3 DEF Next, RunStep, StartRun, StartFails, EndOfInput, Truncate,
       Write, DrawGraphs, CreatePage, WritePage, StartLinks, FixPage, Unlink, Exit,
       Crash, WriteLog, Gone, vars, local, Counted
  <2>2. \A i \in Records : ~(i < 1)
    BY Entries, LogAssumption DEF Records
  <2> QED
    BY <1>t, <2>1, <2>2 DEF SkippedOnlyBackwards
<1> QED
  BY <1>1, <1>2, <1>3

\* Every step keeps the days to draw among those that changed.
LEMMA NextDaysAccounted == Inv /\ [Next]_vars => DaysAccounted'
<1> SUFFICES ASSUME Inv, [Next]_vars PROVE DaysAccounted'
  OBVIOUS
<1>t. TypeOK /\ Lists /\ DaysAccounted
  BY DEF Inv
<1>1. CASE CountLine
  <2>1. /\ Counted' = Counted \cup {pos} /\ todo' = todo \cup {Day(pos)}
        /\ drawn' = drawn \ {Day(pos)} /\ UNCHANGED <<pages, empty, missed>>
        /\ Reading'
    BY <1>1, <1>t, CountLineCounts DEF CountLine, Todo, Reading, history
  <2> QED
    BY <1>t, <2>1 DEF DaysAccounted
<1>2. CASE StartRun \/ StartFails
  <2>1. Counted' = Counted /\ UNCHANGED <<drawn, pages, empty, missed>>
    BY <1>2 DEF StartRun, StartFails, Counted, output, history
  <2>2. ~Reading /\ ~Drawing
    BY <1>2 DEF StartRun, StartFails, Reading, Drawing
  <2> QED
    BY <1>t, <2>1, <2>2 DEF DaysAccounted
<1>3. CASE \/ SkipLine \/ EndOfInput \/ Truncate \/ Write \/ WriteLog \/ Unlink
           \/ UNCHANGED vars
  <2>1. /\ Counted' = Counted /\ UNCHANGED <<drawn, pages, empty, missed, todo>>
        /\ (Reading \/ Drawing) => (Reading' \/ Drawing')
    BY <1>3 DEF SkipLine, EndOfInput, Truncate, Write, WriteLog, Unlink, vars, Line,
       Counted, output, local, history, Reading, Drawing
  <2> QED
    BY <1>t, <2>1 DEF DaysAccounted
<1>4. CASE DrawGraphs
  <2>1. /\ Counted' = Counted /\ UNCHANGED <<pages, empty, missed, todo>>
        /\ drawn \subseteq drawn' /\ Drawing'
    BY <1>4 DEF DrawGraphs, Counted, local, history, Drawing
  <2> QED
    BY <1>t, <2>1 DEF DaysAccounted
<1>5. CASE CreatePage
  <2>1. /\ Counted' = Counted /\ UNCHANGED <<drawn, missed, todo>>
        /\ pages \subseteq pages' /\ empty' = empty \cup {Min(todo)} /\ Drawing'
    BY <1>5 DEF CreatePage, Counted, local, history, Drawing
  <2>2. Min(todo) \in todo
    BY <1>5, <1>t, FirstListed DEF CreatePage, Lists
  <2> QED
    BY <1>t, <2>1, <2>2 DEF DaysAccounted
<1>6. CASE WritePage
  <2>1. /\ Counted' = Counted /\ UNCHANGED <<drawn, pages>> /\ Drawing'
        /\ empty' = empty \ {Min(todo)} /\ todo' = todo \ {Min(todo)}
        /\ missed' = missed \ {Min(todo)}
    BY <1>6 DEF WritePage, Counted, Drawing
  <2>2. Min(todo) \in drawn /\ Min(todo) \in pages
    BY <1>6, <1>t DEF WritePage, Lists
  <2> QED
    BY <1>t, <2>1, <2>2 DEF DaysAccounted
<1>7. CASE StartLinks \/ FixPage \/ Exit
  <2>1. Counted' = Counted /\ UNCHANGED <<drawn, pages, empty, missed>>
    BY <1>7 DEF StartLinks, FixPage, Exit, Counted, output, history
  <2>2. todo = {} \/ (~Reading /\ ~Drawing)
    BY <1>7 DEF StartLinks, FixPage, Exit, Reading, Drawing
  <2> QED
    BY <1>t, <2>1, <2>2 DEF DaysAccounted
<1>8. CASE Crash
  <2>1. /\ Counted' = Counted /\ UNCHANGED <<drawn, pages, empty>>
        /\ missed \subseteq missed'
        /\ (Reading \/ Drawing) => todo \subseteq missed'
    BY <1>8 DEF Crash, Counted, output, Reading, Drawing
  <2> QED
    BY <1>t, <2>1 DEF DaysAccounted
<1> QED
  BY <1>1, <1>2, <1>3, <1>4, <1>5, <1>6, <1>7, <1>8 DEF Next, RunStep

\* Every step keeps the pages already linked in order.
LEMMA NextLinksSoFar == Inv /\ [Next]_vars => LinksSoFar'
<1> SUFFICES ASSUME Inv, [Next]_vars PROVE LinksSoFar'
  OBVIOUS
<1>t. TypeOK /\ Lists /\ LinksSoFar
  BY DEF Inv
<1>b. ASSUME pages' = pages, NEW d PROVE Before(d)' = Before(d) /\ After(d)' = After(d)
  BY <1>b DEF Before, After
<1>1. CASE \/ StartRun \/ StartFails \/ SkipLine \/ CountLine \/ EndOfInput \/ Truncate
           \/ Write \/ DrawGraphs \/ CreatePage \/ WritePage \/ Crash
  <2>1. pc' \notin {"links", "symlink", "done"}
    BY <1>1 DEF StartRun, StartFails, SkipLine, CountLine, EndOfInput, Truncate, Write,
       DrawGraphs, CreatePage, WritePage, Crash, Line
  <2> QED
    BY <2>1 DEF LinksSoFar, Linking
<1>2. CASE StartLinks
  <2>1. pc' = "links" /\ todo' = pages /\ pages' = pages
    BY <1>2 DEF StartLinks, Names, output
  <2> QED
    BY <2>1 DEF LinksSoFar
<1>3. CASE FixPage
  <2>1. /\ pc = "links" /\ pc' = "links" /\ todo' = todo \ {Min(todo)}
        /\ UNCHANGED <<pages, empty>> /\ todo # {}
    BY <1>3 DEF FixPage
  <2>2. Min(todo) \in Days
    BY <1>t, <2>1, FirstListed
  <2>3. ASSUME NEW d \in (pages \ empty) \ todo'
        PROVE  prev'[d] = Before(d) /\ next'[d] = After(d)
    <3>1. d \in Days /\ prev \in [Days -> Days \cup {0}] /\ next \in [Days -> Days \cup {0}]
      BY <1>t DEF TypeOK
    <3>2. CASE d = Min(todo)
      BY <1>3, <2>2, <2>3, <3>1, <3>2 DEF FixPage
    <3>3. CASE d # Min(todo)
      <4>1. prev[d] = Before(d) /\ next[d] = After(d)
        BY <1>t, <2>1, <2>3, <3>3 DEF LinksSoFar, Linking
      <4> QED
        BY <1>3, <2>2, <3>1, <3>3, <4>1 DEF FixPage
    <3> QED
      BY <3>2, <3>3
  <2> QED
    BY <1>b, <2>1, <2>3 DEF LinksSoFar
<1>4. CASE Unlink
  <2>1. /\ pc = "links" /\ pc' = "symlink" /\ UNCHANGED <<todo, pages, empty, prev, next>>
    BY <1>4 DEF Unlink, local
  <2> QED
    BY <1>b, <1>t, <2>1 DEF LinksSoFar, Linking
<1>5. CASE Exit
  <2>1. /\ pc \in {"links", "symlink"} /\ pc' = "done"
        /\ UNCHANGED <<pages, empty, prev, next>> /\ todo' = {}
        /\ todo = {} \/ pages = {}
    BY <1>5, <1>t DEF Exit, Gone, Lists
  <2>2. index' = Max(pages \cup {0})
    <3>1. CASE pages # {}
      BY <1>5, <1>t, <3>1, NewestPage DEF Exit
    <3>2. CASE pages = {}
      <4>1. index' = index /\ index = 0
        BY <1>5, <1>t, <3>2 DEF Exit, TypeOK, Lists
      <4>2. Max({0}) = 0
        BY FS_Singleton, MaxOf
      <4> QED
        BY <3>2, <4>1, <4>2
    <3> QED
      BY <3>1, <3>2
  <2> QED
    BY <1>b, <1>t, <2>1, <2>2 DEF LinksSoFar, Linking
<1>6. CASE WriteLog \/ UNCHANGED vars
  <2>1. UNCHANGED <<pc, todo, pages, empty, prev, next, index>>
    BY <1>6 DEF WriteLog, vars, output, local
  <2> QED
    BY <1>b, <1>t, <2>1 DEF LinksSoFar, Linking
<1> QED
  BY <1>1, <1>2, <1>3, <1>4, <1>5, <1>6 DEF Next, RunStep

\* Every step keeps the whole invariant.
LEMMA NextInv == Inv /\ [Next]_vars => Inv'
BY NextTypeOK, NextTimesCounted, NextCovered, NextDoubleCount, NextSkipped,
   NextDaysAccounted, NextLinksSoFar DEF Inv

-------------------------------------------------------------------------------

\* The types of the files and of the run; a batch is never larger than it may
\* be, and the index leads to a page or nowhere.
THEOREM NewsTypeCorrect == Spec => []TypeOK
<1>1. Inv => TypeOK
  BY DEF Inv
<1> QED
  BY InitInv, NextInv, <1>1, PTL DEF Spec

\* A record is counted twice only if a run died before its time was on file,
\* or if it is as old as the timestamp that a run left (DoubleCountExplained).
THEOREM DoubleCountsHaveReason == Spec => []DoubleCountExplained
<1>1. Inv => DoubleCountExplained
  BY DEF Inv
<1> QED
  BY InitInv, NextInv, <1>1, PTL DEF Spec

\* Only what is older than a record that was counted is ever passed over
\* (SkippedOnlyBackwards): no crash makes news-sources lose a record.
THEOREM NothingSkippedForward == Spec => []SkippedOnlyBackwards
<1>1. Inv => SkippedOnlyBackwards
  BY DEF Inv
<1> QED
  BY InitInv, NextInv, <1>1, PTL DEF Spec

\* Between two runs the graphs and pages are those of the counters, but for
\* the days that a run which died had still to draw (GraphsCurrent).
THEOREM GraphsFollowCounters == Spec => []GraphsCurrent
<1>1. Inv => GraphsCurrent
  <2> SUFFICES ASSUME Inv, pc \in {"off", "done"}
               PROVE  \A i \in Counted :
                        Day(i) \in missed \/ Day(i) \in drawn \cap (pages \ empty)
    BY DEF GraphsCurrent
  <2>1. ~Reading /\ ~Drawing
    BY DEF Reading, Drawing
  <2> QED
    BY <2>1 DEF Inv, DaysAccounted
<1> QED
  BY InitInv, NextInv, <1>1, PTL DEF Spec

\* When main() returns the pages form one chain from the oldest to the newest,
\* to which the index leads (PagesLinked).
THEOREM PagesFormChain == Spec => []PagesLinked
<1>1. Inv => PagesLinked
  <2> SUFFICES ASSUME Inv, pc = "done"
               PROVE  /\ \A d \in pages \ empty : prev[d] = Before(d) /\ next[d] = After(d)
                      /\ index = Max(pages \cup {0})
    BY DEF PagesLinked
  <2>1. todo = {}
    BY DEF Inv, Lists, Between
  <2> QED
    BY <2>1 DEF Inv, LinksSoFar
<1> QED
  BY InitInv, NextInv, <1>1, PTL DEF Spec
================================================================================
