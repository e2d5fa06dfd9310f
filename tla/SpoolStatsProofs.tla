--------------------------- MODULE SpoolStatsProofs ---------------------------
(***************************************************************************)
(* spoolstats: the types, that a scan misses nothing, that its counts are  *)
(* exact, in whatever order directories are read and whatever arrives and  *)
(* expires meanwhile, and that a run with --no-scan repeats from the logs  *)
(* what the scan counted, for any groups, articles and latencies.          *)
(***************************************************************************)
EXTENDS SpoolStats, DataLemmas, SequenceTheorems

-------------------------------------------------------------------------------
(* The names.                                                              *)

\* What is before a dot in a name is a prefix of it, with the dot.
LEMMA CutAtDot ==
    ASSUME NEW g \in Seq(Nat), NEW m \in 1..Len(g), g[m] = Dot
    PROVE  LET s == SubSeq(g, 1, m - 1)
           IN  /\ s \in Seq(Nat) /\ Len(s) = m - 1
               /\ \A i \in 1..m - 1 : s[i] = g[i]
               /\ IsPrefix(Append(s, Dot), g)
<1> DEFINE s == SubSeq(g, 1, m - 1)
           t == Append(s, Dot)
<1>1. Len(g) \in Nat /\ \A i \in 1..Len(g) : g[i] \in Nat
  BY LenProperties, ElementOfSeq
<1>2. /\ s \in Seq(Nat) /\ Len(s) = m - 1
      /\ \A i \in 1..m - 1 : s[i] = g[i]
  BY <1>1, SubSeqProperties
<1>3. /\ t \in Seq(Nat) /\ Len(t) = m
      /\ \A i \in 1..m - 1 : t[i] = s[i]
      /\ t[m] = Dot
  BY <1>2, AppendProperties DEF Dot
<1>4. \A i \in 1..m : t[i] = g[i]
  BY <1>1, <1>2, <1>3
<1>5. SubSeq(t, 1, Len(t)) = t
  BY <1>3, SubSeqFull
<1>6. /\ SubSeq(g, 1, m) \in Seq(Nat) /\ Len(SubSeq(g, 1, m)) = m
      /\ \A i \in 1..m : SubSeq(g, 1, m)[i] = g[i]
  BY <1>1, SubSeqProperties
<1>7. SubSeq(g, 1, m) = t
  BY <1>3, <1>4, <1>6, SeqEqual
<1>8. IsPrefix(t, g)
  <2> HIDE DEF t, s
  <2>1. Len(t) <= Len(g)
    BY <1>1, <1>3
  <2>2. SubSeq(t, 1, Len(t)) = SubSeq(g, 1, Len(t))
    BY <1>3, <1>5, <1>7
  <2> QED
    BY <2>1, <2>2 DEF IsPrefix
<1> QED
  BY <1>2, <1>8

\* And a prefix with a dot is cut off at that dot.
LEMMA DotAfterPrefix ==
    ASSUME NEW d \in Seq(Nat), NEW g \in Seq(Nat), IsPrefix(Append(d, Dot), g)
    PROVE  /\ Len(d) + 1 \in 1..Len(g) /\ g[Len(d) + 1] = Dot
           /\ d = SubSeq(g, 1, Len(d))
<1> DEFINE t == Append(d, Dot)
           n == Len(d) + 1
<1>1. /\ t \in Seq(Nat) /\ Len(t) = n /\ t[n] = Dot
      /\ \A i \in 1..Len(d) : t[i] = d[i]
  BY AppendProperties DEF Dot
<1>2. Len(d) \in Nat /\ Len(g) \in Nat /\ \A i \in 1..Len(g) : g[i] \in Nat
  BY LenProperties, ElementOfSeq
<1>3. n <= Len(g) /\ t = SubSeq(g, 1, n)
  BY <1>1, SubSeqFull DEF IsPrefix
<1>4. \A i \in 1..n : t[i] = g[i]
  BY <1>2, <1>3, SubSeqProperties
<1>5. /\ SubSeq(g, 1, Len(d)) \in Seq(Nat) /\ Len(SubSeq(g, 1, Len(d))) = Len(d)
      /\ \A i \in 1..Len(d) : SubSeq(g, 1, Len(d))[i] = g[i]
  BY <1>2, <1>3, SubSeqProperties
<1>6. d = SubSeq(g, 1, Len(d))
  <2> HIDE DEF t
  <2>1. \A i \in 1..Len(d) : d[i] = g[i]
    BY <1>1, <1>2, <1>4
  <2>2. \A i \in 1..Len(d) : d[i] = SubSeq(g, 1, Len(d))[i]
    BY <2>1, <1>5
  <2> QED
    BY <2>2, <1>5, SeqEqual
<1> QED
  BY <1>1, <1>2, <1>3, <1>4, <1>6

\* No directory has an empty name.
LEMMA DirectoryNames == Directories \subseteq Seq(Nat) /\ <<>> \notin Directories
<1> SUFFICES ASSUME NEW d \in Directories PROVE d \in Seq(Nat) /\ d # <<>>
  OBVIOUS
<1>1. CASE d \in Active
  BY <1>1, NamesAssumption
<1>2. ASSUME NEW g \in Active, NEW n \in DOMAIN g, g[n] = Dot, d = SubSeq(g, 1, n - 1)
      PROVE  d \in Seq(Nat) /\ d # <<>>
  <2>1. g \in Seq(Nat) /\ n \in 1..Len(g) /\ Len(g) \in Nat
    BY NamesAssumption, LenProperties
  <2>2. n # 1
    BY <1>2, NamesAssumption
  <2>3. d \in Seq(Nat) /\ Len(d) = n - 1
    BY <1>2, <2>1, CutAtDot
  <2> QED
    BY <2>1, <2>2, <2>3, EmptySeq
<1> QED
  BY <1>1, <1>2 DEF Directories

\* A group's hierarchy has the group in its directory or below it.
LEMMA InHierarchy ==
    ASSUME NEW g \in Active, HierarchyOf(g) \in Hierarchies
    PROVE  g \in GroupsBelow[HierarchyOf(g)]
<1> DEFINE dots == {n \in DOMAIN g : g[n] = Dot}
<1>1. g \in Seq(Nat) /\ DOMAIN g = 1..Len(g) /\ Len(g) \in Nat
  BY NamesAssumption, LenProperties
<1>2. CASE dots = {}
  BY <1>2 DEF HierarchyOf, GroupsBelow
<1>3. CASE dots # {}
  <2>1. dots \in SUBSET Nat
    BY <1>1
  <2>2. Min(dots) \in dots
    BY <1>3, <2>1, MinOf
  <2>3. IsPrefix(Append(SubSeq(g, 1, Min(dots) - 1), Dot), g)
    BY <1>1, <2>2, CutAtDot
  <2>4. HierarchyOf(g) = SubSeq(g, 1, Min(dots) - 1)
    BY <1>3 DEF HierarchyOf
  <2> QED
    BY <2>3, <2>4 DEF GroupsBelow
<1> QED
  BY <1>2, <1>3

\* Below a directory is a subdirectory for each group that is not its own.
LEMMA WayDown ==
    ASSUME NEW d \in Directories \cup Hierarchies, d \in Seq(Nat),
           NEW g \in GroupsBelow[d], g # d
    PROVE  \E s \in Directories : Parent(s) = d /\ g \in GroupsBelow[s]
<1> DEFINE l == Len(d) + 1
           later == {n \in DOMAIN g : g[n] = Dot /\ n > l}
<1>0. g \in Active /\ IsPrefix(Append(d, Dot), g)
  BY DEF GroupsBelow
<1>1. g \in Seq(Nat) /\ DOMAIN g = 1..Len(g) /\ Len(g) \in Nat /\ Len(d) \in Nat
  BY <1>0, NamesAssumption, LenProperties
<1>2. l \in 1..Len(g) /\ g[l] = Dot /\ d = SubSeq(g, 1, Len(d))
  BY <1>0, <1>1, DotAfterPrefix
<1>3. ASSUME NEW s \in Seq(Nat), NEW n \in 1..Len(g) + 1, Len(s) = n - 1, n > l,
             \A i \in 1..Len(s) : s[i] = g[i],
             \A i \in 1..Len(s) : g[i] = Dot => i <= l
      PROVE  Parent(s) = d
  <2> DEFINE dots == {i \in DOMAIN s : s[i] = Dot}
  <2>1. DOMAIN s = 1..n - 1
    BY <1>3, LenProperties
  <2>2. l \in dots /\ \A i \in dots : i <= l
    <3>1. l \in 1..n - 1 /\ Len(s) = n - 1
      BY <1>1, <1>2, <1>3
    <3>2. s[l] = g[l]
      BY <3>1, <1>3
    <3>3. \A i \in dots : i \in 1..Len(s) /\ g[i] = Dot
      BY <2>1, <1>3
    <3> QED
      BY <3>1, <3>2, <3>3, <2>1, <1>2, <1>3
  <2>3. dots \in SUBSET Nat /\ IsFiniteSet(dots)
    <3>1. IsFiniteSet(1..n - 1)
      BY <1>1, FS_Interval
    <3>2. dots \subseteq 1..n - 1
      BY <2>1
    <3> QED
      BY <3>1, <3>2, FS_Subset
  <2>4. Max(dots) \in dots /\ \A i \in dots : i <= Max(dots)
    BY <2>2, <2>3, MaxOf
  <2>5. Max(dots) = l
    <3>1. Max(dots) <= l /\ l <= Max(dots) /\ Max(dots) \in Nat /\ l \in Nat
      BY <2>2, <2>3, <2>4, <1>1
    <3> HIDE DEF l, dots
    <3> QED
      BY <3>1
  <2>6. Parent(s) = SubSeq(s, 1, Len(d))
    <3>1. Parent(s) = SubSeq(s, 1, Max(dots) - 1)
      BY <2>2 DEF Parent
    <3>2. Max(dots) - 1 = Len(d)
      BY <2>5, <1>1
    <3> QED
      BY <3>1, <3>2
  <2>7. SubSeq(s, 1, Len(d)) = SubSeq(g, 1, Len(d))
    <3>1. /\ SubSeq(s, 1, Len(d)) \in Seq(Nat) /\ Len(SubSeq(s, 1, Len(d))) = Len(d)
          /\ \A i \in 1..Len(d) : SubSeq(s, 1, Len(d))[i] = s[i]
      <4>1. \A i \in 1..Len(s) : s[i] \in Nat
        BY ElementOfSeq
      <4> QED
        BY <4>1, <1>1, <1>3, SubSeqProperties
    <3>2. /\ SubSeq(g, 1, Len(d)) \in Seq(Nat) /\ Len(SubSeq(g, 1, Len(d))) = Len(d)
          /\ \A i \in 1..Len(d) : SubSeq(g, 1, Len(d))[i] = g[i]
      <4>1. \A i \in 1..Len(g) : g[i] \in Nat
        BY <1>1, ElementOfSeq
      <4> QED
        BY <4>1, <1>1, <1>2, SubSeqProperties
    <3>3. \A i \in 1..Len(d) : s[i] = g[i]
      BY <1>1, <1>3
    <3> QED
      BY <3>1, <3>2, <3>3, SeqEqual
  <2> QED
    BY <2>6, <2>7, <1>2
<1>4. CASE later = {}
  <2>1. \A i \in 1..Len(g) : g[i] = Dot => i <= l
    BY <1>1, <1>4
  <2>2. Len(g) + 1 > l
    BY <1>1, <1>2
  <2>3. Parent(g) = d
    <3>1. Len(g) + 1 \in 1..Len(g) + 1 /\ Len(g) = (Len(g) + 1) - 1
      BY <1>1
    <3> HIDE DEF l
    <3> QED
      BY <1>1, <1>3, <2>1, <2>2, <3>1
  <2> QED
    BY <1>0, <2>3 DEF GroupsBelow, Directories
<1>5. CASE later # {}
  <2> DEFINE m == Min(later)
             s == SubSeq(g, 1, m - 1)
  <2>1. m \in later /\ \A i \in later : m <= i
    <3>1. later \in SUBSET Nat
      BY <1>1
    <3> QED
      BY <1>5, <3>1, MinOf
  <2>2. m \in 1..Len(g) /\ g[m] = Dot /\ m > l
    BY <1>1, <2>1
  <2>3. /\ s \in Seq(Nat) /\ Len(s) = m - 1 /\ \A i \in 1..m - 1 : s[i] = g[i]
        /\ IsPrefix(Append(s, Dot), g)
    BY <1>1, <2>2, CutAtDot
  <2>4. s \in Directories
    <3>1. m \in DOMAIN g /\ g[m] = Dot
      BY <2>1
    <3> HIDE DEF m
    <3>2. s \in {SubSeq(g, 1, n - 1) : n \in {n \in DOMAIN g : g[n] = Dot}}
      BY <3>1
    <3> HIDE DEF s
    <3> QED
      BY <1>0, <3>2 DEF Directories
  <2>5. \A i \in 1..Len(s) : g[i] = Dot => i <= l
    <3> SUFFICES ASSUME NEW i \in 1..Len(s), g[i] = Dot, ~(i <= l) PROVE FALSE
      OBVIOUS
    <3>1. m \in 1..Len(g) /\ Len(s) = m - 1
      BY <2>2, <2>3
    <3> HIDE DEF m, s
    <3>2. i \in 1..Len(g) /\ i < m /\ i > l
      BY <3>1, <1>1
    <3>3. i \in later
      BY <1>1, <3>2
    <3>4. m <= i
      BY <3>3, <2>1
    <3> QED
      BY <3>1, <3>2, <3>4
  <2> HIDE DEF s, m, later
  <2>6. Parent(s) = d
    <3>1. m \in 1..Len(g) + 1 /\ \A i \in 1..Len(s) : s[i] = g[i]
      BY <1>1, <2>2, <2>3
    <3> HIDE DEF l
    <3> QED
      BY <1>3, <2>2, <2>3, <2>5, <3>1
  <2> QED
    BY <1>0, <2>3, <2>4, <2>6 DEF GroupsBelow
<1> QED
  BY <1>4, <1>5

\* A hierarchy with groups has a directory.
LEMMA HierarchyDirectory ==
    ASSUME NEW h \in Hierarchies, NEW g \in GroupsBelow[h]
    PROVE  h \in Directories
<1>1. h \in Seq(Nat)
  BY NamesAssumption, LenProperties, ElementOfSeq DEF Hierarchies, Range
<1>2. g \in Active /\ (g = h \/ IsPrefix(Append(h, Dot), g))
  BY DEF GroupsBelow
<1>3. CASE g = h
  BY <1>2, <1>3 DEF Directories
<1>4. CASE IsPrefix(Append(h, Dot), g)
  <2>1. g \in Seq(Nat) /\ DOMAIN g = 1..Len(g) /\ Len(h) \in Nat
    BY <1>1, <1>2, NamesAssumption, LenProperties
  <2>2. Len(h) + 1 \in DOMAIN g /\ g[Len(h) + 1] = Dot /\ h = SubSeq(g, 1, Len(h))
    BY <1>1, <1>4, <2>1, DotAfterPrefix
  <2>3. h = SubSeq(g, 1, (Len(h) + 1) - 1)
    BY <2>1, <2>2
  <2> QED
    BY <1>2, <2>2, <2>3 DEF Directories
<1> QED
  BY <1>2, <1>3, <1>4

-------------------------------------------------------------------------------
(* The inductive invariant.                                                *)

\* What readdir() may return in d: numbers and subdirectories.
PossibleEntries(d) == (Nat \X {<<>>}) \cup Subdirectories[d]

Frames == UNION {[dir : {d}, unread : SUBSET PossibleEntries(d),
                  read : SUBSET PossibleEntries(d), low_water_mark : {-1} \cup Nat]
                   : d \in Directories}

\* How far each phase counts.
Steps(phase) == CASE phase = "idle"                   -> 1
                  [] phase \in {"scan", "graphs"}     -> Len(HierarchyOrder) + 1
                  [] phase \in {"logs", "readLogs"}   -> 2 * Len(HierarchyOrder) + 3
                  [] phase = "report"                 -> Len(HierarchyOrder) + 5

Phases == {"idle", "scan", "logs", "readLogs", "graphs", "report"}

\* The state of the spool and of the run.
Shape ==
    /\ now \in Moments /\ runs \in 0..MaxRuns
    /\ spool \in [Active -> Seq(Articles \cup {Gone})]
    /\ pc \in Phases /\ todo \in 1..Steps(pc)
    /\ run \in [scan : BOOLEAN, graph : BOOLEAN, end_time : Int]
    /\ stack \in Seq(Frames)
    /\ pc # "scan" => stack = <<>>
    /\ pc = "idle" => seen = {}
    /\ seen \subseteq {a.mid : a \in Articles}

\* The directories open are each in the one below, and what was read of one is
\* not still to be read.
Nested ==
    \A k \in DOMAIN stack : /\ stack[k].unread \cap stack[k].read = {}
                            /\ k > 1 => Parent(stack[k].dir) = stack[k - 1].dir

LogsWellFormed ==
    /\ DOMAIN logs = LogFiles
    /\ \A f \in LogFiles : logs[f] # None => DOMAIN logs[f] = {"rows", "tail"}

TypeInv == Shape /\ Nested /\ LogsWellFormed

\* Numbers follow arrivals, and nothing arrives ahead of the clock; a run
\* starts when the last articles of its interval have come or are too late.
Numbered ==
    /\ \A g \in Active : \A m, n \in DOMAIN spool[g] :
          m < n /\ spool[g][m] # Gone /\ spool[g][n] # Gone =>
              spool[g][m].arrival <= spool[g][n].arrival
    /\ \A g \in Active : \A n \in DOMAIN spool[g] :
          spool[g][n] # Gone => spool[g][n].arrival <= now
    /\ pc # "idle" => run.end_time + EndLatency <= now

\* What frame f of a run that began at time start_mtime has at or below its
\* low water mark came before that time.
MarkTrue(f, s, mtime) ==
    f.low_water_mark # -1 =>
        /\ f.dir \in Active /\ f.low_water_mark <= Len(s[f.dir])
        /\ \A n \in 1..f.low_water_mark :
              s[f.dir][n] # Gone => s[f.dir][n].arrival < mtime

LowWater == \A k \in DOMAIN stack : MarkTrue(stack[k], spool, start_mtime)

\* Article a should be counted by run r.
Due(a, r) ==
    /\ a # Gone /\ Valid(a)
    /\ a.posted >= r.end_time - Day * Days /\ a.posted < r.end_time
    /\ a.arrival - a.posted \in -StartLatency..EndLatency

\* Group g is still to be scanned: its hierarchy is, at or after position t, or
\* a directory that is open has an unread one with g in it or below it.
StillAhead(g, t, s) ==
    \/ \E m \in t..Len(HierarchyOrder) : HierarchyOrder[m] = HierarchyOf(g)
    \/ \E k \in DOMAIN s : \E e \in s[k].unread :
          e[2] \in Directories /\ g \in GroupsBelow[e[2]]

\* Number n of group g is still to be read.
StillUnread(g, n, s) ==
    \E k \in DOMAIN s : s[k].dir = g /\ <<n, <<>>>> \in s[k].unread

\* What should be counted has been, or is still to come.
Covered ==
    pc \in {"scan", "logs"} =>
        \A g \in Active : \A n \in DOMAIN spool[g] :
            HierarchyOf(g) \in Hierarchies /\ Due(spool[g][n], run) =>
                \/ spool[g][n].mid \in seen
                \/ pc = "scan" /\ (StillAhead(g, todo, stack) \/ StillUnread(g, n, stack))

Inv == TypeInv /\ Numbered /\ LowWater /\ Covered

-------------------------------------------------------------------------------
(* Frames and entries.                                                     *)

\* What the steps make of a stack that is not empty.
LEMMA StackTop ==
    ASSUME NEW S, NEW s \in Seq(S), s # <<>>
    PROVE  /\ Len(s) \in Nat /\ Len(s) >= 1 /\ DOMAIN s = 1..Len(s)
           /\ Last(s) = s[Len(s)] /\ Last(s) \in S
           /\ Front(s) \in Seq(S) /\ Len(Front(s)) = Len(s) - 1
           /\ \A i \in 1..Len(s) - 1 : Front(s)[i] = s[i]
<1>1. Len(s) \in Nat /\ Len(s) >= 1 /\ DOMAIN s = 1..Len(s)
  BY EmptySeq, LenProperties
<1>2. \A i \in 1..Len(s) : s[i] \in S
  BY ElementOfSeq
<1>3. /\ Front(s) \in Seq(S) /\ Len(Front(s)) = Len(s) - 1
      /\ \A i \in 1..Len(s) - 1 : Front(s)[i] = s[i]
  <2> DEFINE n == Len(s) - 1
             t == SubSeq(s, 1, n)
  <2>1. n \in Int /\ n >= 0 /\ \A i \in 1..n : s[i] \in S
    BY <1>1, <1>2
  <2> HIDE DEF n
  <2>2. t \in Seq(S) /\ Len(t) = n /\ \A i \in 1..n : t[i] = s[i]
    BY <2>1, SubSeqProperties
  <2>3. Front(s) = t
    BY DEF Front, n
  <2> HIDE DEF t
  <2> QED
    BY <2>2, <2>3 DEF n
<1>4. Last(s) = s[Len(s)] /\ Last(s) \in S
  BY <1>1, <1>2 DEF Last
<1> QED
  BY <1>1, <1>3, <1>4

\* The directory being read is replaced by what is left of it.
LEMMA StackReplace ==
    ASSUME stack \in Seq(Frames), stack # <<>>, NEW x \in Frames,
           stack' = Append(Front(stack), x)
    PROVE  LET L == Len(stack)
           IN /\ stack' \in Seq(Frames) /\ DOMAIN stack' = 1..L /\ Len(stack') = L
              /\ stack'[L] = x /\ \A i \in 1..L - 1 : stack'[i] = stack[i]
<1> DEFINE L == Len(stack)
           f == Front(stack)
           t == Append(f, x)
<1>1. /\ L \in Nat /\ L >= 1 /\ f \in Seq(Frames) /\ Len(f) = L - 1
      /\ \A i \in 1..L - 1 : f[i] = stack[i]
  BY StackTop
<1>2. stack' = t
  OBVIOUS
<1> HIDE DEF f, L
<1>3. /\ t \in Seq(Frames) /\ Len(t) = Len(f) + 1 /\ t[Len(f) + 1] = x
      /\ \A i \in 1..Len(f) : t[i] = f[i]
  BY <1>1, AppendProperties
<1> HIDE DEF t
<1>4. Len(f) + 1 = L /\ 1..Len(f) = 1..L - 1
  BY <1>1
<1>5. DOMAIN t = 1..Len(t)
  BY <1>3, LenProperties
<1> QED
  BY <1>1, <1>2, <1>3, <1>4, <1>5 DEF L

\* A directory is opened on top of the one being read.
LEMMA StackPush ==
    ASSUME stack \in Seq(Frames), stack # <<>>, NEW x \in Frames, NEW y \in Frames,
           stack' = Front(stack) \o <<x, y>>
    PROVE  LET L == Len(stack)
           IN /\ stack' \in Seq(Frames) /\ DOMAIN stack' = 1..L + 1 /\ Len(stack') = L + 1
              /\ stack'[L] = x /\ stack'[L + 1] = y
              /\ \A i \in 1..L - 1 : stack'[i] = stack[i]
<1> DEFINE L == Len(stack)
           f == Front(stack)
           p == <<x, y>>
           t == f \o p
<1>1. /\ L \in Nat /\ L >= 1 /\ f \in Seq(Frames) /\ Len(f) = L - 1
      /\ \A i \in 1..L - 1 : f[i] = stack[i]
  BY StackTop
<1>2. stack' = t
  OBVIOUS
<1>3. p \in Seq(Frames) /\ Len(p) = 2 /\ p[1] = x /\ p[2] = y
  OBVIOUS
<1> HIDE DEF f, p, L
<1>4. /\ t \in Seq(Frames) /\ Len(t) = Len(f) + Len(p)
      /\ \A i \in 1..Len(f) + Len(p) : t[i] = IF i <= Len(f) THEN f[i] ELSE p[i - Len(f)]
  BY <1>1, <1>3, ConcatProperties
<1> HIDE DEF t
<1>5. Len(t) = L + 1
  BY <1>1, <1>3, <1>4
<1>6. t[L] = x
  <2>1. L - Len(f) = 1 /\ L \in 1..Len(f) + Len(p) /\ ~(L <= Len(f))
    BY <1>1, <1>3
  <2> QED
    BY <1>3, <1>4, <2>1
<1>7. t[L + 1] = y
  <2> DEFINE j == L + 1
  <2>1. j - Len(f) = 2 /\ j \in 1..Len(f) + Len(p) /\ ~(j <= Len(f))
    BY <1>1, <1>3
  <2> HIDE DEF j
  <2>2. t[j] = y
    BY <1>3, <1>4, <2>1
  <2> QED
    BY <2>2 DEF j
<1>8. \A i \in 1..L - 1 : t[i] = stack[i]
  <2>1. \A i \in 1..L - 1 : i \in 1..Len(f) + Len(p) /\ i <= Len(f)
    BY <1>1, <1>3
  <2>2. \A i \in 1..L - 1 : f[i] = stack[i]
    BY <1>1, <1>3
  <2> QED
    BY <1>4, <2>1, <2>2
<1>9. DOMAIN t = 1..L + 1
  BY <1>4, <1>5, LenProperties
<1> QED
  BY <1>2, <1>4, <1>5, <1>6, <1>7, <1>8, <1>9 DEF L

\* The fields of an open directory.
LEMMA FrameFields ==
    ASSUME NEW f \in Frames
    PROVE  /\ f.dir \in Directories
           /\ f.unread \subseteq PossibleEntries(f.dir)
           /\ f.read \subseteq PossibleEntries(f.dir)
           /\ f.low_water_mark \in {-1} \cup Nat
<1>1. PICK d \in Directories :
          f \in [dir : {d}, unread : SUBSET PossibleEntries(d),
                 read : SUBSET PossibleEntries(d), low_water_mark : {-1} \cup Nat]
  BY DEF Frames
<1>2. f.dir = d
  BY <1>1
<1> QED
  BY <1>1, <1>2

\* What open directories are made of.
LEMMA FrameMade ==
    ASSUME NEW d \in Directories, NEW u \in SUBSET PossibleEntries(d),
           NEW r \in SUBSET PossibleEntries(d), NEW m \in {-1} \cup Nat
    PROVE  [dir |-> d, unread |-> u, read |-> r, low_water_mark |-> m] \in Frames
BY DEF Frames

\* A directory's subdirectories have it for their parent.
LEMMA SubdirectoryIs ==
    ASSUME NEW d \in Directories, NEW e \in Subdirectories[d]
    PROVE  /\ e = <<e[1], e[2]>> /\ e[2] \in Directories /\ e[2] # <<>>
           /\ Parent(e[2]) = d
<1>1. PICK s \in Directories : /\ Parent(s) = d
                               /\ e = <<Strtol(SubSeq(s, Len(d) + 2, Len(s))), s>>
  BY DEF Subdirectories
<1>2. e[2] = s /\ e = <<e[1], e[2]>>
  BY <1>1
<1> QED
  BY <1>1, <1>2, DirectoryNames

\* An entry is an article that is there, or a subdirectory that is.
LEMMA EntryIs ==
    ASSUME Shape, NEW d \in Directories, NEW e \in Entries(d)
    PROVE  /\ e \in PossibleEntries(d)
           /\ e[2] = <<>> => /\ d \in Active /\ e[1] \in DOMAIN spool[d]
                             /\ spool[d][e[1]] # Gone /\ spool[d][e[1]] \in Articles
                             /\ e = <<e[1], <<>>>> /\ e[1] \in Nat
           /\ e[2] # <<>> => e \in Subdirectories[d]
<1>1. CASE e \in Subdirectories[d]
  BY <1>1, SubdirectoryIs DEF PossibleEntries
<1>2. CASE e \notin Subdirectories[d]
  <2>1. /\ d \in Active
        /\ \E n \in DOMAIN spool[d] : spool[d][n] # Gone /\ e = <<n, <<>>>>
    BY <1>2 DEF Entries
  <2>2. PICK n \in DOMAIN spool[d] : spool[d][n] # Gone /\ e = <<n, <<>>>>
    BY <2>1
  <2>3. spool[d] \in Seq(Articles \cup {Gone})
    BY <2>1 DEF Shape
  <2>4. n \in 1..Len(spool[d]) /\ n \in Nat
    BY <2>2, <2>3, LenProperties
  <2>5. spool[d][n] \in Articles
    BY <2>2, <2>3, <2>4, ElementOfSeq
  <2>6. e[1] = n /\ e[2] = <<>>
    BY <2>2
  <2>7. e \in PossibleEntries(d)
    BY <2>2, <2>4 DEF PossibleEntries
  <2> QED
    BY <2>1, <2>2, <2>4, <2>5, <2>6, <2>7
<1> QED
  BY <1>1, <1>2

\* Opening a directory, and reading an entry of the innermost one.
LEMMA OpenFrame ==
    ASSUME Shape, NEW d \in Directories
    PROVE  /\ Open(d) \in Frames /\ Open(d).dir = d /\ Open(d).unread = Entries(d)
           /\ Open(d).read = {} /\ Open(d).low_water_mark = -1
<1>1. Entries(d) \in SUBSET PossibleEntries(d)
  BY EntryIs
<1> QED
  BY <1>1, FrameMade DEF Open

\* What reading an entry does to the directory being read.
LEMMA ReadFrame ==
    ASSUME Shape, stack # <<>>, NEW e \in dir.unread \cup Entries(dir.dir)
    PROVE  /\ dir \in Frames /\ dir = stack[Len(stack)]
           /\ e \in PossibleEntries(dir.dir)
           /\ ReadOn(e) \in Frames /\ ReadOn(e).dir = dir.dir
           /\ ReadOn(e).unread = dir.unread \ {e}
           /\ ReadOn(e).read = dir.read \cup {e}
           /\ ReadOn(e).low_water_mark = dir.low_water_mark
           /\ \A n \in Nat : LET f == [ReadOn(e) EXCEPT !.low_water_mark = n]
                             IN /\ f \in Frames /\ f.dir = dir.dir
                                /\ f.unread = dir.unread \ {e}
                                /\ f.read = dir.read \cup {e}
                                /\ f.low_water_mark = n
<1>1. dir \in Frames /\ dir = stack[Len(stack)]
  BY StackTop DEF Shape, dir
<1> DEFINE f == dir
<1>2. /\ f.dir \in Directories
      /\ f.unread \subseteq PossibleEntries(f.dir)
      /\ f.read \subseteq PossibleEntries(f.dir)
      /\ f.low_water_mark \in {-1} \cup Nat
  BY <1>1, FrameFields
<1>3. e \in PossibleEntries(f.dir)
  BY <1>2, EntryIs
<1> DEFINE P    == PossibleEntries(f.dir)
           OfDir == [dir : {f.dir}, unread : SUBSET P, read : SUBSET P,
                     low_water_mark : {-1} \cup Nat]
           g    == [f EXCEPT !.unread = @ \ {e}, !.read = @ \cup {e}]
<1>4. f \in OfDir
  BY <1>1 DEF Frames
<1>5. ReadOn(e) = g
  BY DEF ReadOn
<1> HIDE DEF f, P
<1>6. f.unread \ {e} \in SUBSET P /\ f.read \cup {e} \in SUBSET P
  BY <1>2, <1>3 DEF P
<1>7. /\ g \in OfDir
      /\ g.dir = f.dir /\ g.unread = f.unread \ {e} /\ g.read = f.read \cup {e}
      /\ g.low_water_mark = f.low_water_mark
  BY <1>4, <1>6
<1> HIDE DEF g
<1>8. ASSUME NEW n \in Nat
      PROVE  LET h == [g EXCEPT !.low_water_mark = n]
             IN /\ h \in OfDir /\ h.dir = f.dir
                /\ h.unread = f.unread \ {e}
                /\ h.read = f.read \cup {e}
                /\ h.low_water_mark = n
  BY <1>7
<1>9. OfDir \subseteq Frames
  BY <1>2 DEF Frames, P
<1> HIDE DEF OfDir
<1>10. g \in Frames
  BY <1>7, <1>9
<1> QED
  BY <1>1, <1>3, <1>5, <1>7, <1>8, <1>9, <1>10 DEF f

\* How many files there are in a phase.
LEMMA OrderLengths ==
    LET L == Len(HierarchyOrder)
    IN /\ L \in Nat /\ DOMAIN HierarchyOrder = 1..L
       /\ Len(LogOrder) = 2 * L + 3 /\ DOMAIN LogOrder = 1..Len(LogOrder)
       /\ Len(GraphOrder) = L + 1
       /\ Len(PageOrder) = L + 5
<1> DEFINE L == Len(HierarchyOrder)
           N == Seq(Nat)
           K == {"history", "groups", "encodings", "useragents", "index", "allgroups",
                 "agents", "agents-summary", "charsets", "hierarchy"}
           T == K \X N
<1>1. L \in Nat /\ DOMAIN HierarchyOrder = 1..L
      /\ \A n \in 1..L : HierarchyOrder[n] \in N
  BY NamesAssumption, LenProperties, ElementOfSeq
<1>0. /\ <<>> \in N
      /\ \A h \in N : /\ HistoryLog(h) \in T /\ GroupsLog(h) \in T
                      /\ <<"hierarchy", h>> \in T
  <2>1. <<>> \in N
    BY EmptySeq
  <2> HIDE DEF N
  <2> QED
    BY <2>1 DEF HistoryLog, GroupsLog
<1> DEFINE logOrder == [n \in 1..2 * L |->
                           IF n % 2 = 1 THEN HistoryLog(HierarchyOrder[(n + 1) \div 2])
                                        ELSE GroupsLog(HierarchyOrder[n \div 2])]
           graphOrder == [n \in 1..L |-> HistoryLog(HierarchyOrder[n])]
           pageOrder  == [n \in 1..L |-> <<"hierarchy", HierarchyOrder[n]>>]
           common     == << <<"index", <<>>>>, <<"allgroups", <<>>>>, <<"agents", <<>>>>,
                            <<"agents-summary", <<>>>>, <<"charsets", <<>>>> >>
<1>2. ASSUME NEW f, NEW n \in Nat, DOMAIN f = 1..n, f = [i \in 1..n |-> f[i]],
             \A i \in 1..n : f[i] \in T
      PROVE  f \in Seq(T) /\ Len(f) = n
  <2> HIDE DEF T
  <2>1. f \in [1..n -> T]
    BY <1>2
  <2> QED
    BY <2>1, <1>2, SeqDef, LenProperties
<1>3. logOrder \in Seq(T) /\ Len(logOrder) = 2 * L
  <2>1. ASSUME NEW n \in 1..2 * L PROVE logOrder[n] \in T
    <3> HIDE DEF T, N
    <3>1. CASE n % 2 = 1
      <4>1. (n + 1) \div 2 \in 1..L
        BY <1>1, <3>1
      <4> QED
        BY <1>0, <1>1, <3>1, <4>1
    <3>2. CASE n % 2 # 1
      <4>1. n \div 2 \in 1..L
        BY <1>1, <3>2
      <4> QED
        BY <1>0, <1>1, <3>2, <4>1
    <3> QED
      BY <3>1, <3>2
  <2>2. 2 * L \in Nat
    BY <1>1
  <2> HIDE DEF L, T
  <2> QED
    BY <2>1, <2>2, <1>2
<1>4. graphOrder \in Seq(T) /\ Len(graphOrder) = L
  <2>1. \A n \in 1..L : graphOrder[n] \in T
    <3> HIDE DEF T, N
    <3> QED
      BY <1>0, <1>1
  <2> HIDE DEF L, T
  <2> QED
    BY <2>1, <1>1, <1>2
<1>5. pageOrder \in Seq(T) /\ Len(pageOrder) = L
  <2>1. \A n \in 1..L : pageOrder[n] \in T
    <3> HIDE DEF T, N
    <3> QED
      BY <1>0, <1>1
  <2> HIDE DEF L, T
  <2> QED
    BY <2>1, <1>1, <1>2
<1>6. /\ <<AllLog, EncodingsLog, UseragentsLog>> \in Seq(T)
      /\ Len(<<AllLog, EncodingsLog, UseragentsLog>>) = 3
  <2>1. AllLog \in T /\ EncodingsLog \in T /\ UseragentsLog \in T
    <3> HIDE DEF N
    <3> QED
      BY <1>0 DEF AllLog, EncodingsLog, UseragentsLog
  <2> HIDE DEF T
  <2> QED
    BY <2>1
<1>7. <<AllLog>> \in Seq(T) /\ Len(<<AllLog>>) = 1
  <2>1. AllLog \in T
    <3> HIDE DEF N
    <3> QED
      BY <1>0 DEF AllLog
  <2> HIDE DEF T
  <2> QED
    BY <2>1
<1>8. common \in Seq(T) /\ Len(common) = 5
  <2>1. /\ <<"index", <<>>>> \in T /\ <<"allgroups", <<>>>> \in T
        /\ <<"agents", <<>>>> \in T /\ <<"agents-summary", <<>>>> \in T
        /\ <<"charsets", <<>>>> \in T
    <3> HIDE DEF N
    <3> QED
      BY <1>0
  <2> HIDE DEF T
  <2> QED
    BY <2>1
<1>9. /\ LogOrder = logOrder \o <<AllLog, EncodingsLog, UseragentsLog>>
      /\ GraphOrder = graphOrder \o <<AllLog>>
      /\ PageOrder = common \o pageOrder
  BY <1>1 DEF LogOrder, GraphOrder, PageOrder
<1> HIDE DEF logOrder, graphOrder, pageOrder, common, T
<1>10. LogOrder \in Seq(T) /\ Len(LogOrder) = Len(logOrder) + 3
  BY <1>3, <1>6, <1>9, ConcatProperties
<1>11. Len(GraphOrder) = Len(graphOrder) + 1
  BY <1>4, <1>7, <1>9, ConcatProperties
<1>12. Len(PageOrder) = 5 + Len(pageOrder)
  <2>1. Len(common \o pageOrder) = Len(common) + Len(pageOrder)
    BY <1>5, <1>8, ConcatProperties
  <2>2. PageOrder = common \o pageOrder /\ Len(common) = 5
    BY <1>8, <1>9
  <2> QED
    BY <2>1, <2>2
<1>13. DOMAIN LogOrder = 1..Len(LogOrder)
  BY <1>10, LenProperties
<1> HIDE DEF L
<1>14. /\ Len(LogOrder) = 2 * L + 3 /\ Len(GraphOrder) = L + 1
       /\ Len(PageOrder) = L + 5
  BY <1>1, <1>3, <1>4, <1>5, <1>10, <1>11, <1>12
<1> QED
  BY <1>1, <1>13, <1>14 DEF L

\* How many files or hierarchies each phase goes through.
LEMMA StepsAre ==
    LET L == Len(HierarchyOrder)
    IN /\ L \in Nat
       /\ Steps("idle") = 1
       /\ Steps("scan") = L + 1 /\ Steps("graphs") = L + 1
       /\ Steps("logs") = Len(LogOrder) /\ Steps("readLogs") = Len(LogOrder)
       /\ Steps("graphs") = Len(GraphOrder)
       /\ Steps("report") = Len(PageOrder)
       /\ Len(LogOrder) = 2 * L + 3
       /\ Len(PageOrder) = L + 5
       /\ \A phase \in Phases : Steps(phase) \in Nat \ {0}
BY OrderLengths DEF Steps, Phases

-------------------------------------------------------------------------------
(* Types.                                                                  *)

\* The end of a run closes all directories.
LEMMA EndShape ==
    ASSUME Shape, End, UNCHANGED <<now, spool, runs>>
    PROVE  Shape' /\ Nested'
<1>1. Steps("idle") = 1
  BY StepsAre
<1>2. <<>> \in Seq(Frames)
  BY EmptySeq
<1>3. pc' = "idle" /\ todo' \in 1..Steps(pc') /\ pc' \in Phases
  BY <1>1 DEF End, Phases
<1>4. run' \in [scan : BOOLEAN, graph : BOOLEAN, end_time : Int]
  BY DEF End, NoRun
<1>5. stack' = <<>> /\ seen' = {} /\ DOMAIN stack' = {}
  BY DEF End
<1> QED
  BY <1>2, <1>3, <1>4, <1>5 DEF Shape, Nested

\* From one log, graph or page to the next no directory is opened.
LEMMA NextFileShape ==
    ASSUME Shape, Nested, pc \in Phases \ {"idle", "scan"}, NEW phase \in Phases \ {"scan"},
           NextFile(Steps(pc), phase), UNCHANGED <<now, spool, runs>>
    PROVE  Shape' /\ Nested'
<1>1. Steps(pc) \in Nat \ {0} /\ Steps(phase) \in Nat \ {0} /\ todo \in 1..Steps(pc)
  BY StepsAre DEF Shape
<1>2. CASE todo < Steps(pc)
  <2>1. todo' = todo + 1 /\ UNCHANGED <<pc, run, stack, seen, now, spool, runs>>
    BY <1>2 DEF NextFile
  <2>2. todo + 1 \in 1..Steps(pc)
    BY <1>1, <1>2
  <2>3. todo' \in 1..Steps(pc')
    BY <2>1, <2>2
  <2> QED
    BY <2>1, <2>3 DEF Shape, Nested
<1>3. CASE ~(todo < Steps(pc)) /\ phase = "idle"
  BY <1>3, EndShape DEF NextFile
<1>4. CASE ~(todo < Steps(pc)) /\ phase # "idle"
  <2>1. pc' = phase /\ todo' = 1 /\ UNCHANGED <<run, stack, seen, now, spool, runs>>
    BY <1>4 DEF NextFile
  <2>2. todo' \in 1..Steps(pc')
    BY <1>1, <2>1
  <2>3. stack = <<>>
    BY DEF Shape
  <2> QED
    BY <1>4, <2>1, <2>2, <2>3 DEF Shape, Nested
<1> QED
  BY <1>2, <1>3, <1>4

\* What is written to a log file has the shape of one.
LEMMA LogFileShape ==
    ASSUME LogsWellFormed, pc \in {"logs", "readLogs"}, Shape
    PROVE  /\ LogOrder[todo] \in LogFiles
           /\ DOMAIN Written(LogOrder[todo]) = {"rows", "tail"}
           /\ \A left \in CutOff(LogOrder[todo]) : DOMAIN left = {"rows", "tail"}
<1> DEFINE f == LogOrder[todo]
<1>1. f \in LogFiles
  <2>1. todo \in 1..Len(LogOrder)
    BY StepsAre DEF Shape
  <2>2. todo \in DOMAIN LogOrder
    BY <2>1, OrderLengths
  <2> QED
    BY <2>2 DEF LogFiles, Range
<1> HIDE DEF f
<1>2. DOMAIN Written(f) = {"rows", "tail"}
  BY DEF Written
<1>3. ASSUME NEW left \in CutOff(f)
      PROVE  DOMAIN left = {"rows", "tail"}
  <2>1. DOMAIN Opened(f) = {"rows", "tail"}
    BY <1>1 DEF Opened, EmptyLog, LogsWellFormed
  <2> DEFINE old == Opened(f)
  <2> HIDE DEF old
  <2>2. CASE f \in Appended
    <3>1. \/ left = old
          \/ \E k \in CutFields : left = [old EXCEPT !.tail = Continued(@, SubSeq(NewRows(f)[1], 1, k))]
      BY <2>2 DEF CutOff, old
    <3>2. DOMAIN old = {"rows", "tail"}
      BY <2>1 DEF old
    <3> QED
      BY <3>1, <3>2
  <2>3. CASE f \notin Appended
    <3>1. \E n \in DOMAIN NewRows(f), k \in CutFields \cup {0} :
             left = [rows |-> SubSeq(NewRows(f), 1, n - 1), tail |-> SubSeq(NewRows(f)[n], 1, k)]
      BY <2>3 DEF CutOff
    <3> QED
      BY <3>1
  <2> QED
    BY <2>2, <2>3
<1> QED
  BY <1>1, <1>2, <1>3 DEF f

\* Between runs, with logs that earlier runs left, the types hold.
LEMMA TypeInvInit == Init => TypeInv
<1> SUFFICES ASSUME Init PROVE TypeInv
  OBVIOUS
<1>1. now \in Moments
  BY TimesAssumption, MinOf DEF Init
<1>2. spool \in [Active -> Seq(Articles \cup {Gone})]
  <2>1. <<>> \in Seq(Articles \cup {Gone})
    BY EmptySeq
  <2> QED
    BY <2>1 DEF Init
<1>3. todo \in 1..Steps(pc) /\ pc \in Phases
  BY StepsAre DEF Init, Phases
<1>4. stack \in Seq(Frames) /\ stack = <<>> /\ DOMAIN stack = {}
  BY EmptySeq DEF Init
<1>5. runs \in 0..MaxRuns
  BY TimesAssumption DEF Init
<1>6. run \in [scan : BOOLEAN, graph : BOOLEAN, end_time : Int]
  BY DEF Init, NoRun
<1>7. LogsWellFormed
  BY LogsAssumption DEF Init, LogsWellFormed
<1>8. pc = "idle" /\ seen = {}
  BY DEF Init
<1>9. Shape
  BY <1>1, <1>2, <1>3, <1>4, <1>5, <1>6, <1>8 DEF Shape
<1>10. Nested
  BY <1>4 DEF Nested
<1> QED
  BY <1>7, <1>9, <1>10 DEF TypeInv

\* The steps of innd and of the clock.
LEMMA WorldTypes ==
    ASSUME TypeInv, \/ \E a \in Articles : Arrive(a)
                    \/ \E g \in Active : \E n \in DOMAIN spool[g] : Expire(g, n)
                    \/ Tick
    PROVE  TypeInv'
<1>1. UNCHANGED <<runs, pc, run, todo, stack, seen, logs>>
  BY DEF Arrive, Expire, Tick
<1>2. \A g \in Active : spool[g] \in Seq(Articles \cup {Gone})
  BY DEF TypeInv, Shape
<1>3. now' \in Moments
  <2>1. CASE Tick
    <3> DEFINE M == {m \in Moments : m > now}
    <3>1. M \in SUBSET Nat /\ M # {}
      BY <2>1, TimesAssumption DEF Tick
    <3>2. Min(M) \in M
      BY <3>1, MinOf
    <3>3. now' = Min(M)
      BY <2>1 DEF Tick
    <3> QED
      BY <3>2, <3>3
  <2>2. CASE now' = now
    BY <2>2 DEF TypeInv, Shape
  <2> QED
    BY <2>1, <2>2 DEF Arrive, Expire
<1>4. spool' \in [Active -> Seq(Articles \cup {Gone})]
  <2>1. ASSUME NEW a \in Articles, Arrive(a)
        PROVE  spool' \in [Active -> Seq(Articles \cup {Gone})]
    <3>1. \A g \in Active : Append(spool[g], a) \in Seq(Articles \cup {Gone})
      BY <1>2, AppendProperties
    <3> QED
      BY <1>2, <2>1, <3>1 DEF Arrive
  <2>2. ASSUME NEW g \in Active, NEW n \in DOMAIN spool[g], Expire(g, n)
        PROVE  spool' \in [Active -> Seq(Articles \cup {Gone})]
    <3>1. n \in 1..Len(spool[g]) /\ Gone \in Articles \cup {Gone}
      BY <1>2, LenProperties
    <3>2. [spool[g] EXCEPT ![n] = Gone] \in Seq(Articles \cup {Gone})
      BY <1>2, <3>1, ExceptSeq
    <3>3. spool' = [spool EXCEPT ![g] = [spool[g] EXCEPT ![n] = Gone]]
      BY <2>2 DEF Expire
    <3> QED
      BY <3>2, <3>3 DEF TypeInv, Shape
  <2>3. CASE Tick
    BY <2>3 DEF Tick, TypeInv, Shape
  <2> QED
    BY <2>1, <2>2, <2>3
<1>5. Shape'
  BY <1>1, <1>3, <1>4 DEF TypeInv, Shape
<1>6. Nested' /\ LogsWellFormed'
  BY <1>1 DEF TypeInv, Nested, LogsWellFormed
<1> QED
  BY <1>5, <1>6 DEF TypeInv

\* The steps of a scan from directory to directory.
LEMMA OpenTypes ==
    ASSUME TypeInv, ScanHierarchy
    PROVE  TypeInv'
<1>1. Shape /\ Nested /\ LogsWellFormed'
  BY DEF TypeInv, ScanHierarchy, LogsWellFormed
<1> DEFINE h == HierarchyOrder[todo]
<1>2. CASE ~Exists(h)
  <2>1. End /\ UNCHANGED <<now, spool, runs>>
    BY <1>2 DEF ScanHierarchy
  <2> QED
    BY <1>1, <2>1, EndShape DEF TypeInv
<1>3. CASE Exists(h)
  <2>1. /\ stack' = <<Open(h)>> /\ todo' = todo + 1 /\ pc = "scan"
        /\ todo <= Len(HierarchyOrder)
        /\ UNCHANGED <<pc, run, seen, now, spool, runs>>
    BY <1>3 DEF ScanHierarchy
  <2>2. todo \in Nat /\ todo' \in 1..Steps(pc') /\ todo \in 1..Len(HierarchyOrder)
    BY <1>1, <2>1, StepsAre DEF Shape
  <2>3. h \in Hierarchies
    BY <2>2, OrderLengths DEF Hierarchies, Range
  <2>4. h \in Directories
    BY <1>3, <2>3, HierarchyDirectory DEF Exists
  <2>5. Open(h) \in Frames /\ Open(h).read = {}
    BY <1>1, <2>4, OpenFrame
  <2> HIDE DEF h
  <2>6. stack' \in Seq(Frames) /\ DOMAIN stack' = {1} /\ stack'[1] = Open(h)
    <3>1. ASSUME NEW S, NEW x \in S
          PROVE  <<x>> \in Seq(S) /\ DOMAIN <<x>> = {1} /\ <<x>>[1] = x
      OBVIOUS
    <3> QED
      BY <2>1, <2>5, <3>1
  <2>7. Shape'
    BY <1>1, <2>1, <2>2, <2>6 DEF Shape
  <2>8. Nested'
    BY <2>5, <2>6 DEF Nested
  <2> QED
    BY <1>1, <2>7, <2>8 DEF TypeInv
<1> QED
  BY <1>2, <1>3

\* A frame of the same directory in the place of the innermost one.
LEMMA ReplaceTypes ==
    ASSUME Shape, Nested, pc = "scan", stack # <<>>, NEW f \in Frames,
           f.dir = dir.dir, f.unread \cap f.read = {},
           stack' = Append(Front(stack), f),
           UNCHANGED <<now, spool, runs, pc, run, todo>>,
           seen' \subseteq {a.mid : a \in Articles}
    PROVE  Shape' /\ Nested'
<1> DEFINE L == Len(stack)
<1>1. /\ L \in Nat /\ L >= 1 /\ DOMAIN stack = 1..L
      /\ stack' \in Seq(Frames) /\ Len(stack') = L /\ stack'[L] = f
      /\ \A i \in 1..L - 1 : stack'[i] = stack[i]
  <2>1. stack \in Seq(Frames)
    BY DEF Shape
  <2> QED
    BY <2>1, StackTop, StackReplace
<1>2. Shape'
  BY <1>1 DEF Shape
<1>3. DOMAIN stack' = 1..L
  BY <1>1, LenProperties
<1>4. dir = stack[L]
  BY DEF dir, Last
<1>5. ASSUME NEW k \in 1..L
      PROVE  /\ stack'[k].dir = stack[k].dir
             /\ stack'[k].unread \cap stack'[k].read = {}
             /\ k > 1 => stack'[k - 1].dir = stack[k - 1].dir
  <2> HIDE DEF L
  <2>1. CASE k = L
    BY <1>1, <1>4, <2>1
  <2>2. CASE k # L
    <3>1. stack'[k] = stack[k] /\ k \in 1..L - 1
      BY <1>1, <2>2
    <3>2. k > 1 => k - 1 \in 1..L - 1
      BY <1>1, <3>1
    <3> QED
      BY <1>1, <3>1, <3>2 DEF Nested
  <2> QED
    BY <2>1, <2>2
<1>6. Nested'
  BY <1>1, <1>3, <1>5 DEF Nested
<1> QED
  BY <1>2, <1>6

\* Reading an entry of a directory keeps the types.
LEMMA ReadTypes ==
    ASSUME TypeInv, pc = "scan", stack # <<>>,
           NEW e \in dir.unread \cup Entries(dir.dir), Step(e)
    PROVE  TypeInv'
<1>1. Shape /\ Nested /\ LogsWellFormed' /\ UNCHANGED <<now, spool, runs>>
  BY DEF TypeInv, Step, SkipLow, Vanished, Recurse, TooEarly, Visit, LogsWellFormed
<1> DEFINE f == ReadOn(e)
           L == Len(stack)
<1>2. /\ f \in Frames /\ f.dir = dir.dir /\ f.unread = dir.unread \ {e}
      /\ f.read = dir.read \cup {e}
      /\ dir = stack[L] /\ dir \in Frames /\ dir.dir \in Directories
  BY <1>1, ReadFrame, FrameFields
<1>3. /\ L \in Nat /\ L >= 1 /\ DOMAIN stack = 1..L
  BY <1>1, StackTop DEF Shape
<1>4. f.unread \cap f.read = {}
  BY <1>1, <1>2, <1>3 DEF Nested
<1>5. CASE SkipLow(e)
  <2>1. stack' = Append(Front(stack), f) /\ UNCHANGED <<now, spool, runs, pc, run, todo, seen>>
    BY <1>5 DEF SkipLow
  <2> HIDE DEF f
  <2> QED
    BY <1>1, <1>2, <1>4, <2>1, ReplaceTypes DEF TypeInv, Shape
<1>6. CASE Vanished(e)
  <2>1. End
    BY <1>6 DEF Vanished
  <2> QED
    BY <1>1, <2>1, EndShape DEF TypeInv
<1>7. CASE Recurse(e)
  <2> DEFINE g == Open(e[2])
  <2>1. /\ e \in Entries(dir.dir) /\ e[2] # <<>> /\ stack' = Front(stack) \o <<f, g>>
        /\ UNCHANGED <<now, spool, runs, pc, run, todo, seen>>
    BY <1>7 DEF Recurse
  <2>2. e[2] \in Directories /\ Parent(e[2]) = dir.dir
    BY <1>1, <1>2, <2>1, EntryIs, SubdirectoryIs
  <2>3. g \in Frames /\ g.dir = e[2] /\ g.read = {}
    BY <1>1, <2>2, OpenFrame
  <2> HIDE DEF f, g
  <2>4. /\ stack' \in Seq(Frames) /\ Len(stack') = L + 1
        /\ stack'[L] = f /\ stack'[L + 1] = g
        /\ \A i \in 1..L - 1 : stack'[i] = stack[i]
    <3>1. stack \in Seq(Frames)
      BY <1>1 DEF Shape
    <3> QED
      BY <1>2, <2>1, <2>3, <3>1, StackPush
  <2>5. Shape'
    BY <1>1, <2>1, <2>4 DEF Shape
  <2>6. DOMAIN stack' = 1..L + 1
    BY <2>4, LenProperties
  <2> HIDE DEF L
  <2>7. ASSUME NEW k \in 1..L + 1
        PROVE  /\ stack'[k].unread \cap stack'[k].read = {}
               /\ k > 1 => Parent(stack'[k].dir) = stack'[k - 1].dir
    <3>1. CASE k = L + 1
      <4>1. k - 1 = L
        BY <1>3, <3>1
      <4> QED
        BY <1>2, <2>2, <2>3, <2>4, <3>1, <4>1
    <3>2. CASE k = L
      <4>1. k \in DOMAIN stack /\ (k > 1 => k - 1 \in 1..L - 1)
        BY <1>3, <3>2
      <4>2. k > 1 => Parent(stack[k].dir) = stack[k - 1].dir
        BY <1>1, <4>1 DEF Nested
      <4> QED
        BY <1>2, <1>4, <2>4, <3>2, <4>1, <4>2
    <3>3. CASE k # L /\ k # L + 1
      <4>1. /\ k \in 1..L - 1 /\ k \in DOMAIN stack
            /\ k > 1 => k - 1 \in 1..L - 1
        BY <1>3, <3>3
      <4> QED
        BY <1>1, <2>4, <4>1 DEF Nested
    <3> QED
      BY <3>1, <3>2, <3>3
  <2>8. Nested'
    BY <2>6, <2>7 DEF Nested
  <2> QED
    BY <1>1, <2>5, <2>8 DEF TypeInv
<1>8. CASE TooEarly(e)
  <2> DEFINE g == [f EXCEPT !.low_water_mark = e[1]]
  <2>1. /\ e \in Entries(dir.dir) /\ e[2] = <<>> /\ stack' = Append(Front(stack), g)
        /\ UNCHANGED <<now, spool, runs, pc, run, todo, seen>>
    BY <1>8 DEF TooEarly
  <2>2. e[1] \in Nat
    BY <1>1, <1>2, <2>1, EntryIs
  <2>3. g \in Frames /\ g.dir = dir.dir /\ g.unread = f.unread /\ g.read = f.read
    BY <1>1, <1>2, <2>2, ReadFrame
  <2> HIDE DEF f, g
  <2> QED
    BY <1>1, <1>4, <2>1, <2>3, ReplaceTypes DEF TypeInv, Shape
<1>9. CASE Visit(e)
  <2> DEFINE a == spool[dir.dir][e[1]]
  <2>1. /\ e \in Entries(dir.dir) /\ e[2] = <<>> /\ stack' = Append(Front(stack), f)
        /\ seen' \in {seen, seen \cup {a.mid}}
        /\ UNCHANGED <<now, spool, runs, pc, run, todo>>
    BY <1>9 DEF Visit
  <2>2. a \in Articles
    BY <1>1, <1>2, <2>1, EntryIs
  <2> HIDE DEF f, a
  <2>3. seen' \subseteq {b.mid : b \in Articles}
    BY <1>1, <2>1, <2>2 DEF Shape
  <2> QED
    BY <1>1, <1>2, <1>4, <2>1, <2>3, ReplaceTypes DEF TypeInv
<1> QED
  BY <1>5, <1>6, <1>7, <1>8, <1>9 DEF Step

\* The end of a directory keeps the types.
LEMMA CloseTypes ==
    ASSUME TypeInv, CloseDir
    PROVE  TypeInv'
<1> DEFINE L == Len(stack)
<1>1. /\ Shape /\ Nested /\ LogsWellFormed' /\ pc = "scan"
      /\ stack # <<>> /\ stack' = Front(stack)
      /\ UNCHANGED <<now, spool, runs, pc, run, todo, seen>>
  BY DEF TypeInv, CloseDir, LogsWellFormed
<1>2. /\ L \in Nat /\ L >= 1 /\ DOMAIN stack = 1..L
      /\ stack' \in Seq(Frames) /\ Len(stack') = L - 1
      /\ \A i \in 1..L - 1 : stack'[i] = stack[i]
  <2>1. stack \in Seq(Frames)
    BY <1>1 DEF Shape
  <2> QED
    BY <1>1, <2>1, StackTop
<1>3. DOMAIN stack' = 1..L - 1
  BY <1>2, LenProperties
<1>4. Shape'
  BY <1>1, <1>2 DEF Shape
<1>5. Nested'
  <2> HIDE DEF L
  <2>1. ASSUME NEW k \in 1..L - 1
        PROVE  /\ stack'[k].unread \cap stack'[k].read = {}
               /\ k > 1 => Parent(stack'[k].dir) = stack'[k - 1].dir
    <3>1. k \in DOMAIN stack /\ (k > 1 => k - 1 \in 1..L - 1)
      BY <1>2
    <3> QED
      BY <1>1, <1>2, <3>1 DEF Nested
  <2> QED
    BY <1>3, <2>1 DEF Nested
<1> QED
  BY <1>1, <1>4, <1>5 DEF TypeInv

\* The steps between the phases, and from file to file.
LEMMA FileTypes ==
    ASSUME TypeInv, \/ ScanEnds \/ WriteLog \/ LogCutOff \/ ReadLog \/ ReadLogFails
                    \/ Graph \/ WritePage \/ PageCutOff
    PROVE  TypeInv'
<1>1. Shape /\ Nested /\ LogsWellFormed /\ UNCHANGED <<now, spool, runs>>
  BY DEF TypeInv, ScanEnds, WriteLog, LogCutOff, ReadLog, ReadLogFails, Graph, WritePage,
         PageCutOff
<1>2. Shape' /\ Nested'
  <2>1. CASE ScanEnds
    <3>1. /\ pc' = "logs" /\ todo' = 1 /\ stack = <<>>
          /\ UNCHANGED <<now, spool, runs, run, stack, seen>>
      BY <2>1 DEF ScanEnds
    <3>2. todo' \in 1..Steps(pc')
      BY <3>1, StepsAre DEF Phases
    <3> QED
      BY <1>1, <3>1, <3>2 DEF Shape, Nested, Phases
  <2>2. CASE WriteLog
    <3>1. /\ pc = "logs" /\ Steps(pc) = Len(LogOrder)
          /\ (IF run.graph THEN "graphs" ELSE "idle") \in Phases \ {"scan"}
          /\ NextFile(Len(LogOrder), IF run.graph THEN "graphs" ELSE "idle")
      BY <2>2, StepsAre DEF WriteLog, Phases
    <3>2. pc \in Phases \ {"idle", "scan"}
      BY <3>1 DEF Phases
    <3> QED
      BY <1>1, <3>1, <3>2, NextFileShape
  <2>3. CASE LogCutOff \/ ReadLogFails \/ PageCutOff
    BY <1>1, <2>3, EndShape DEF LogCutOff, ReadLogFails, PageCutOff
  <2>4. CASE ReadLog
    <3>1. pc = "readLogs" /\ todo \in 1..Len(LogOrder) /\ stack = <<>>
      BY <1>1, <2>4, StepsAre DEF ReadLog, Shape
    <3>2. CASE End
      BY <1>1, <3>2, EndShape
    <3>3. CASE /\ IF todo < Len(LogOrder) THEN todo' = todo + 1 /\ UNCHANGED pc
                  ELSE todo' = 1 /\ pc' = "graphs"
               /\ UNCHANGED <<run, stack, seen>>
      <4>1. /\ pc' \in {"readLogs", "graphs"} /\ pc' \in Phases
            /\ UNCHANGED <<run, stack, seen>>
        BY <3>1, <3>3 DEF Phases
      <4>2. todo' \in 1..Steps(pc')
        BY <3>1, <3>3, StepsAre
      <4> QED
        BY <1>1, <3>1, <4>1, <4>2 DEF Shape, Nested
    <3> QED
      BY <2>4, <3>2, <3>3 DEF ReadLog
  <2>5. CASE Graph
    <3>1. /\ pc = "graphs" /\ Steps(pc) = Len(GraphOrder)
          /\ NextFile(Len(GraphOrder), "report")
      BY <2>5, StepsAre DEF Graph
    <3>2. pc \in Phases \ {"idle", "scan"} /\ "report" \in Phases \ {"scan"}
      BY <3>1 DEF Phases
    <3> QED
      BY <1>1, <3>1, <3>2, NextFileShape
  <2>6. CASE WritePage
    <3>1. /\ pc = "report" /\ Steps(pc) = Len(PageOrder)
          /\ NextFile(Len(PageOrder), "idle")
      BY <2>6, StepsAre DEF WritePage
    <3>2. pc \in Phases \ {"idle", "scan"} /\ "idle" \in Phases \ {"scan"}
      BY <3>1 DEF Phases
    <3> QED
      BY <1>1, <3>1, <3>2, NextFileShape
  <2> QED
    BY <2>1, <2>2, <2>3, <2>4, <2>5, <2>6
<1>3. LogsWellFormed'
  <2>1. CASE WriteLog \/ LogCutOff
    <3>1. pc \in {"logs", "readLogs"}
      BY <2>1 DEF WriteLog, LogCutOff
    <3>2. PICK x : /\ logs' = [logs EXCEPT ![LogOrder[todo]] = x]
                   /\ x = Written(LogOrder[todo]) \/ x \in CutOff(LogOrder[todo])
      BY <2>1 DEF WriteLog, LogCutOff
    <3>3. DOMAIN x = {"rows", "tail"}
      BY <1>1, <3>1, <3>2, LogFileShape
    <3> QED
      BY <1>1, <3>2, <3>3 DEF LogsWellFormed
  <2>2. CASE UNCHANGED logs
    BY <1>1, <2>2 DEF LogsWellFormed
  <2> QED
    BY <2>1, <2>2 DEF ScanEnds, ReadLog, ReadLogFails, Graph, WritePage, PageCutOff
<1> QED
  BY <1>2, <1>3 DEF TypeInv

\* The beginning of a run and its death keep the types.
LEMMA RunTypes ==
    ASSUME TypeInv, Killed \/ \E scan, graph \in BOOLEAN : Options(scan, graph)
    PROVE  TypeInv'
<1>1. Shape /\ Nested /\ LogsWellFormed'
  BY DEF TypeInv, Options, Killed, LogsWellFormed
<1>2. CASE Killed
  BY <1>1, <1>2, EndShape DEF TypeInv, Killed
<1>3. ASSUME NEW scan \in BOOLEAN, NEW graph \in BOOLEAN, Options(scan, graph)
      PROVE  TypeInv'
  <2>1. /\ pc = "idle" /\ runs < MaxRuns /\ runs' = runs + 1
        /\ run' = [scan |-> scan, graph |-> graph, end_time |-> now - EndLatency]
        /\ pc' = IF scan THEN "scan" ELSE "readLogs"
        /\ UNCHANGED <<now, spool, todo, stack, seen>>
    BY <1>3 DEF Options
  <2>2. todo \in 1..1 /\ runs \in 0..MaxRuns /\ now \in Moments
    BY <1>1, <2>1, StepsAre DEF Shape
  <2>3. pc' \in Phases /\ todo' \in 1..Steps(pc')
    BY <2>1, <2>2, StepsAre DEF Phases
  <2>4. runs' \in 0..MaxRuns /\ run'.end_time \in Int
    BY <2>1, <2>2, TimesAssumption
  <2>5. run' \in [scan : BOOLEAN, graph : BOOLEAN, end_time : Int]
    BY <2>1, <2>4
  <2> QED
    BY <1>1, <2>1, <2>3, <2>4, <2>5 DEF TypeInv, Shape, Nested
<1> QED
  BY <1>2, <1>3

\* Every step of a run and of innd keeps the types.
LEMMA TypeInvNext == TypeInv /\ [Next]_vars => TypeInv'
<1> SUFFICES ASSUME TypeInv, [Next]_vars PROVE TypeInv'
  OBVIOUS
<1>1. CASE UNCHANGED vars
  BY <1>1 DEF vars, TypeInv, Shape, Nested, LogsWellFormed
<1>2. CASE Next
  <2>1. CASE \/ \E a \in Articles : Arrive(a)
             \/ \E g \in Active : \E n \in DOMAIN spool[g] : Expire(g, n)
             \/ Tick
    BY <2>1, WorldTypes
  <2>2. CASE Killed \/ \E scan, graph \in BOOLEAN : Options(scan, graph)
    BY <2>2, RunTypes
  <2>3. CASE ScanHierarchy
    BY <2>3, OpenTypes
  <2>4. CASE ReadDirectory
    BY <2>4, ReadTypes DEF ReadDirectory
  <2>5. CASE CloseDir
    BY <2>5, CloseTypes
  <2>6. CASE \/ ScanEnds \/ WriteLog \/ LogCutOff \/ ReadLog \/ ReadLogFails
             \/ Graph \/ WritePage \/ PageCutOff
    BY <2>6, FileTypes
  <2> QED
    BY <1>2, <2>1, <2>2, <2>3, <2>4, <2>5, <2>6 DEF Next
<1> QED
  BY <1>1, <1>2

\* The invariant contains the type invariant of the model.
LEMMA TypeInvTypes == TypeInv => TypeOK
<1> SUFFICES ASSUME TypeInv PROVE TypeOK
  OBVIOUS
<1>1. Shape /\ Nested /\ LogsWellFormed
  BY DEF TypeInv
<1>2. \A g \in Active : Range(spool[g]) \subseteq Articles \cup {Gone}
  BY <1>1, RangeOfSeq DEF Shape
<1>3. todo \in 1..Len(LogOrder) + Len(PageOrder)
  <2>1. pc \in Phases /\ todo \in 1..Steps(pc)
    BY <1>1 DEF Shape
  <2>2. Steps(pc) \in Nat /\ Steps(pc) <= Len(LogOrder) + Len(PageOrder)
    BY <2>1, StepsAre DEF Phases
  <2>3. Len(LogOrder) + Len(PageOrder) \in Nat
    BY StepsAre
  <2> QED
    BY <2>1, <2>2, <2>3
<1>4. ASSUME NEW n \in DOMAIN stack
      PROVE  stack[n].dir \in Directories /\ stack[n].low_water_mark \in {-1} \cup Nat
  <2>1. stack[n] \in Frames
    BY <1>1, LenProperties, ElementOfSeq DEF Shape
  <2> QED
    BY <2>1, FrameFields
<1> QED
  BY <1>1, <1>2, <1>3, <1>4 DEF TypeOK, Shape, Nested, LogsWellFormed, Phases

\* The types hold, and the directories open nest, in every run, for any groups,
\* articles, latencies and earlier logs.
THEOREM SpoolTypeCorrect == Spec => []TypeOK
<1>1. Spec => []TypeInv
  BY TypeInvInit, TypeInvNext, PTL DEF Spec
<1> QED
  BY <1>1, TypeInvTypes, PTL

-------------------------------------------------------------------------------
(* The numbers, and the low water marks.                                   *)

\* The entries of a group's directory are articles or have gone.
LEMMA ArticleNumbers ==
    ASSUME Shape, NEW g \in Active
    PROVE  /\ spool[g] \in Seq(Articles \cup {Gone}) /\ Len(spool[g]) \in Nat
           /\ DOMAIN spool[g] = 1..Len(spool[g])
           /\ \A n \in DOMAIN spool[g] :
                 spool[g][n] # Gone => /\ spool[g][n] \in Articles
                                       /\ spool[g][n].arrival \in Int
                                       /\ spool[g][n].posted \in Int
<1>1. spool[g] \in Seq(Articles \cup {Gone})
  BY DEF Shape
<1>2. Len(spool[g]) \in Nat /\ DOMAIN spool[g] = 1..Len(spool[g])
  BY <1>1, LenProperties
<1>3. \A n \in 1..Len(spool[g]) : spool[g][n] \in Articles \cup {Gone}
  BY <1>1, ElementOfSeq
<1> QED
  BY <1>1, <1>2, <1>3, ArticlesAssumption

\* A number keeps its article until it expires, and a new one is the last.
LEMMA SpoolGrows ==
    ASSUME Shape, \/ \E a \in Articles : Arrive(a)
                  \/ \E g \in Active : \E n \in DOMAIN spool[g] : Expire(g, n)
    PROVE  \A g \in Active :
              /\ Len(spool'[g]) \in Nat /\ DOMAIN spool'[g] = 1..Len(spool'[g])
              /\ Len(spool[g]) <= Len(spool'[g])
              /\ \A n \in 1..Len(spool'[g]) :
                    \/ spool'[g][n] = Gone
                    \/ n \in 1..Len(spool[g]) /\ spool'[g][n] = spool[g][n]
                    \/ /\ n = Len(spool[g]) + 1 /\ n = Len(spool'[g])
                       /\ spool'[g][n] \in Articles /\ spool'[g][n].arrival = now
<1> SUFFICES ASSUME NEW h \in Active
             PROVE  /\ Len(spool'[h]) \in Nat /\ DOMAIN spool'[h] = 1..Len(spool'[h])
                    /\ Len(spool[h]) <= Len(spool'[h])
                    /\ \A n \in 1..Len(spool'[h]) :
                          \/ spool'[h][n] = Gone
                          \/ n \in 1..Len(spool[h]) /\ spool'[h][n] = spool[h][n]
                          \/ /\ n = Len(spool[h]) + 1 /\ n = Len(spool'[h])
                             /\ spool'[h][n] \in Articles /\ spool'[h][n].arrival = now
  OBVIOUS
<1> DEFINE s == spool[h]
           t == spool'[h]
<1>1. s \in Seq(Articles \cup {Gone}) /\ Len(s) \in Nat /\ DOMAIN s = 1..Len(s)
  BY ArticleNumbers
<1>2. CASE t = s
  BY <1>1, <1>2
<1>3. ASSUME NEW a \in Articles, Arrive(a), t # s
      PROVE  /\ Len(t) = Len(s) + 1 /\ DOMAIN t = 1..Len(s) + 1
             /\ \A n \in 1..Len(s) : t[n] = s[n]
             /\ t[Len(s) + 1] = a /\ a.arrival = now
  <2>1. t = Append(s, a) /\ a.arrival = now
    BY <1>3 DEF Arrive
  <2>2. a \in Articles \cup {Gone}
    OBVIOUS
  <2> HIDE DEF s, t
  <2>3. /\ t \in Seq(Articles \cup {Gone}) /\ Len(t) = Len(s) + 1
        /\ \A n \in 1..Len(s) : t[n] = s[n]
        /\ t[Len(s) + 1] = a
    BY <1>1, <2>1, <2>2, AppendProperties
  <2> QED
    BY <2>1, <2>3, LenProperties
<1>4. ASSUME NEW g \in Active, NEW n \in DOMAIN spool[g], Expire(g, n), t # s
      PROVE  /\ Len(t) = Len(s) /\ DOMAIN t = 1..Len(s)
             /\ \A i \in 1..Len(s) : t[i] = s[i] \/ t[i] = Gone
  <2>1. g = h /\ t = [s EXCEPT ![n] = Gone]
    BY <1>4 DEF Expire, Shape
  <2>2. n \in 1..Len(s) /\ Gone \in Articles \cup {Gone}
    BY <1>1, <2>1
  <2> HIDE DEF s, t
  <2>3. /\ t \in Seq(Articles \cup {Gone}) /\ Len(t) = Len(s)
        /\ \A i \in 1..Len(s) : t[i] = IF i = n THEN Gone ELSE s[i]
    BY <1>1, <2>1, <2>2, ExceptSeq
  <2> QED
    BY <2>3, LenProperties
<1> HIDE DEF s, t
<1>5. CASE \E a \in Articles : Arrive(a) /\ t # s
  <2>1. PICK a \in Articles : Arrive(a) /\ t # s
    BY <1>5
  <2>2. /\ Len(t) = Len(s) + 1 /\ DOMAIN t = 1..Len(s) + 1
        /\ \A n \in 1..Len(s) : t[n] = s[n]
        /\ t[Len(s) + 1] = a /\ a.arrival = now
    BY <1>3, <2>1
  <2>3. ASSUME NEW n \in 1..Len(t)
        PROVE  \/ n \in 1..Len(s) /\ t[n] = s[n]
               \/ n = Len(s) + 1 /\ n = Len(t) /\ t[n] \in Articles /\ t[n].arrival = now
    BY <1>1, <2>2
  <2> QED
    BY <1>1, <2>2, <2>3 DEF s, t
<1>6. CASE \E g \in Active : \E n \in DOMAIN spool[g] : Expire(g, n) /\ t # s
  <2>1. /\ Len(t) = Len(s) /\ DOMAIN t = 1..Len(s)
        /\ \A i \in 1..Len(s) : t[i] = s[i] \/ t[i] = Gone
    BY <1>4, <1>6
  <2> QED
    BY <1>1, <2>1 DEF s, t
<1>7. CASE t = s
  BY <1>2, <1>7 DEF s, t
<1> QED
  BY <1>5, <1>6, <1>7

\* All the other steps leave the spool alone, and a run's options with it.
LEMMA RunKept ==
    ASSUME [Next]_vars, ~\E a \in Articles : Arrive(a),
           ~\E g \in Active : \E n \in DOMAIN spool[g] : Expire(g, n)
    PROVE  /\ spool' = spool
           /\ ~Tick => now' = now
           /\ \/ pc' = "idle"
              \/ pc # "idle" /\ run' = run
              \/ \E scan, graph \in BOOLEAN : Options(scan, graph)
<1>1. CASE UNCHANGED vars
  BY <1>1 DEF vars
<1>2. CASE Tick \/ Killed
  BY <1>2 DEF Tick, Killed, End
<1>3. CASE ScanHierarchy \/ CloseDir \/ ScanEnds
  BY <1>3 DEF ScanHierarchy, CloseDir, ScanEnds, End
<1>4. CASE ReadDirectory
  <2>1. PICK e \in dir.unread \cup Entries(dir.dir) : Step(e) /\ pc = "scan"
    BY <1>4 DEF ReadDirectory
  <2>2. CASE Vanished(e)
    BY <2>2 DEF Vanished, End
  <2>3. CASE SkipLow(e) \/ Recurse(e) \/ TooEarly(e) \/ Visit(e)
    BY <2>1, <2>3 DEF SkipLow, Recurse, TooEarly, Visit
  <2> QED
    BY <2>1, <2>2, <2>3 DEF Step
<1>5. CASE WriteLog \/ LogCutOff
  BY <1>5 DEF WriteLog, LogCutOff, NextFile, End
<1>6. CASE ReadLog \/ ReadLogFails
  BY <1>6 DEF ReadLog, ReadLogFails, End
<1>7. CASE Graph \/ WritePage \/ PageCutOff
  BY <1>7 DEF Graph, WritePage, PageCutOff, NextFile, End
<1>8. CASE \E scan, graph \in BOOLEAN : Options(scan, graph)
  BY <1>8 DEF Options
<1> QED
  BY <1>1, <1>2, <1>3, <1>4, <1>5, <1>6, <1>7, <1>8 DEF Next

\* innd numbers articles in order of arrival, whatever the program does.
LEMMA NumberedNext ==
    ASSUME TypeInv, Numbered, [Next]_vars
    PROVE  Numbered'
<1>1. Shape /\ now \in Nat /\ run.end_time \in Int /\ EndLatency \in Nat
  BY TimesAssumption DEF TypeInv, Shape
<1>2. CASE \/ \E a \in Articles : Arrive(a)
           \/ \E g \in Active : \E n \in DOMAIN spool[g] : Expire(g, n)
  <2>1. UNCHANGED <<now, pc, run>>
    BY <1>2 DEF Arrive, Expire
  <2>2. ASSUME NEW g \in Active, NEW n \in DOMAIN spool'[g], spool'[g][n] # Gone
        PROVE  /\ spool'[g][n].arrival <= now
               /\ \/ n \in 1..Len(spool[g]) /\ spool'[g][n] = spool[g][n]
                  \/ n = Len(spool[g]) + 1 /\ spool'[g][n].arrival = now
               /\ n \in 1..Len(spool'[g])
    <3>1. /\ n \in 1..Len(spool'[g])
          /\ \/ n \in 1..Len(spool[g]) /\ spool'[g][n] = spool[g][n]
             \/ n = Len(spool[g]) + 1 /\ spool'[g][n].arrival = now
      BY <1>1, <1>2, <2>2, SpoolGrows
    <3>2. DOMAIN spool[g] = 1..Len(spool[g])
      BY <1>1, ArticleNumbers
    <3> QED
      BY <1>1, <2>2, <3>1, <3>2 DEF Numbered
  <2>3. ASSUME NEW g \in Active, NEW m \in DOMAIN spool'[g], NEW n \in DOMAIN spool'[g],
               m < n, spool'[g][m] # Gone, spool'[g][n] # Gone
        PROVE  spool'[g][m].arrival <= spool'[g][n].arrival
    <3>1. CASE spool'[g][n].arrival = now
      BY <2>2, <2>3, <3>1
    <3>2. CASE n \in 1..Len(spool[g]) /\ spool'[g][n] = spool[g][n]
      <4>1. Len(spool[g]) \in Nat /\ DOMAIN spool[g] = 1..Len(spool[g])
        BY <1>1, ArticleNumbers
      <4>2. m \in 1..Len(spool[g]) /\ spool'[g][m] = spool[g][m]
        BY <2>2, <2>3, <3>2, <4>1
      <4> QED
        BY <2>3, <3>2, <4>1, <4>2 DEF Numbered
    <3> QED
      BY <2>2, <2>3, <3>1, <3>2
  <2> QED
    BY <2>1, <2>2, <2>3 DEF Numbered
<1>3. CASE Tick
  <2>1. UNCHANGED <<spool, pc, run>>
    BY <1>3 DEF Tick
  <2>2. now' \in Nat /\ now' > now
    <3> DEFINE M == {m \in Moments : m > now}
    <3>1. M \in SUBSET Nat /\ M # {}
      BY <1>3, TimesAssumption DEF Tick
    <3>2. Min(M) \in M
      BY <3>1, MinOf
    <3>3. now' = Min(M)
      BY <1>3 DEF Tick
    <3> QED
      BY <3>1, <3>2, <3>3
  <2>3. ASSUME NEW g \in Active, NEW n \in DOMAIN spool[g], spool[g][n] # Gone
        PROVE  spool[g][n].arrival <= now'
    <3>1. spool[g][n].arrival \in Int
      BY <1>1, <2>3, ArticleNumbers
    <3>2. spool[g][n].arrival <= now
      BY <2>3 DEF Numbered
    <3> QED
      BY <1>1, <2>2, <3>1, <3>2
  <2>4. pc # "idle" => run.end_time + EndLatency <= now'
    BY <1>1, <2>2 DEF Numbered
  <2> QED
    BY <2>1, <2>3, <2>4 DEF Numbered
<1>4. CASE /\ ~\E a \in Articles : Arrive(a)
           /\ ~\E g \in Active : \E n \in DOMAIN spool[g] : Expire(g, n)
           /\ ~Tick
  <2>1. UNCHANGED <<spool, now>>
    BY <1>4, RunKept
  <2>2. pc' # "idle" => run'.end_time + EndLatency <= now'
    <3>1. CASE pc # "idle" /\ run' = run
      BY <2>1, <3>1 DEF Numbered
    <3>2. ASSUME NEW scan \in BOOLEAN, NEW graph \in BOOLEAN, Options(scan, graph)
          PROVE  run'.end_time + EndLatency <= now'
      <4>1. run'.end_time = now - EndLatency
        BY <3>2 DEF Options
      <4> QED
        BY <1>1, <2>1, <4>1
    <3> QED
      BY <1>4, <3>1, <3>2, RunKept
  <2> QED
    BY <2>1, <2>2 DEF Numbered
<1> QED
  BY <1>2, <1>3, <1>4

\* A low water mark is raised only by an article that arrived too early.
LEMMA LowWaterNext ==
    ASSUME TypeInv, Numbered, LowWater, [Next]_vars
    PROVE  LowWater'
<1>1. Shape /\ run.end_time \in Int /\ Days \in Nat /\ StartLatency \in Nat
  BY TimesAssumption DEF TypeInv, Shape
<1> DEFINE Goal == \A k \in DOMAIN stack' : MarkTrue(stack'[k], spool', start_mtime)
<1>2. start_mtime \in Int
  BY <1>1 DEF start_mtime, start_time, Day
<1>3. run' = run /\ Goal => LowWater'
  BY DEF LowWater, start_mtime, start_time
<1>4. stack' = <<>> => LowWater'
  BY DEF LowWater
<1>5. pc # "scan" => stack = <<>>
  BY <1>1 DEF Shape
<1>6. End => stack' = <<>>
  BY DEF End
<1>7. CASE \/ \E a \in Articles : Arrive(a)
           \/ \E g \in Active : \E n \in DOMAIN spool[g] : Expire(g, n)
  <2>1. UNCHANGED <<run, stack>>
    BY <1>7 DEF Arrive, Expire
  <2>2. ASSUME NEW k \in DOMAIN stack
        PROVE  MarkTrue(stack[k], spool', start_mtime)
    <3> DEFINE f == stack[k]
    <3>1. f \in Frames
      BY <1>1, LenProperties, ElementOfSeq DEF Shape
    <3>2. f.low_water_mark \in {-1} \cup Nat
      BY <3>1, FrameFields
    <3>3. MarkTrue(f, spool, start_mtime)
      BY DEF LowWater
    <3> HIDE DEF f
    <3>4. ASSUME f.low_water_mark # -1
          PROVE  MarkTrue(f, spool', start_mtime)
      <4>1. /\ f.dir \in Active /\ f.low_water_mark <= Len(spool[f.dir])
            /\ \A n \in 1..f.low_water_mark : spool[f.dir][n] # Gone =>
                  spool[f.dir][n].arrival < start_mtime
        BY <3>3, <3>4 DEF MarkTrue
      <4> DEFINE s == spool[f.dir] t == spool'[f.dir]
      <4>2. Len(s) \in Nat
        BY <1>1, <4>1, ArticleNumbers
      <4>3. /\ Len(t) \in Nat /\ Len(s) <= Len(t)
            /\ \A n \in 1..Len(t) : \/ t[n] = Gone
                                    \/ n \in 1..Len(s) /\ t[n] = s[n]
                                    \/ n = Len(s) + 1
        BY <1>1, <1>7, <4>1, SpoolGrows
      <4> HIDE DEF s, t
      <4>4. f.low_water_mark <= Len(s) /\ f.low_water_mark \in Nat
        BY <3>2, <3>4, <4>1 DEF s
      <4>5. \A n \in 1..f.low_water_mark : t[n] = Gone \/ t[n] = s[n]
        BY <4>2, <4>3, <4>4
      <4>6. f.low_water_mark <= Len(t)
        BY <4>2, <4>3, <4>4
      <4> QED
        BY <4>1, <4>5, <4>6 DEF s, t, MarkTrue
    <3>5. ASSUME f.low_water_mark = -1
          PROVE  MarkTrue(f, spool', start_mtime)
      BY <3>5 DEF MarkTrue
    <3> QED
      BY <3>4, <3>5 DEF f
  <2> QED
    BY <1>3, <2>1, <2>2
<1>8. CASE UNCHANGED vars \/ Tick
  BY <1>8 DEF vars, Tick, LowWater, start_mtime, start_time
<1>9. CASE \E scan, graph \in BOOLEAN : Options(scan, graph)
  <2>1. stack' = stack /\ pc = "idle"
    BY <1>9 DEF Options
  <2> QED
    BY <1>4, <1>5, <2>1
<1>10. CASE Killed
  BY <1>4, <1>6, <1>10 DEF Killed
<1>11. CASE ScanHierarchy
  <2>1. CASE End
    BY <1>4, <1>6, <2>1
  <2>2. CASE stack' = <<Open(HierarchyOrder[todo])>> /\ run' = run
    <3>1. Open(HierarchyOrder[todo]).low_water_mark = -1
      BY DEF Open
    <3>2. \A k \in DOMAIN stack' : stack'[k].low_water_mark = -1
      BY <2>2, <3>1
    <3> QED
      BY <1>3, <2>2, <3>2 DEF MarkTrue
  <2> QED
    BY <1>11, <2>1, <2>2 DEF ScanHierarchy
<1>12. ASSUME ReadDirectory
       PROVE  LowWater'
  <2>1. PICK e \in dir.unread \cup Entries(dir.dir) : Step(e)
    BY <1>12 DEF ReadDirectory
  <2>2. stack # <<>> /\ pc = "scan" /\ stack \in Seq(Frames)
    BY <1>1, <1>12 DEF ReadDirectory, Shape
  <2> DEFINE L == Len(stack)
             f == ReadOn(e)
  <2>3. L \in Nat /\ L >= 1 /\ DOMAIN stack = 1..L
    BY <2>2, StackTop
  <2>4. \A k \in 1..L : MarkTrue(stack[k], spool, start_mtime)
    BY <2>3 DEF LowWater
  <2>5. /\ f \in Frames /\ f.dir = dir.dir /\ f.low_water_mark = dir.low_water_mark
        /\ dir = stack[L] /\ dir \in Frames /\ dir.dir \in Directories
    BY <1>1, <2>2, ReadFrame, FrameFields
  <2>6. MarkTrue(f, spool, start_mtime)
    BY <2>3, <2>4, <2>5 DEF MarkTrue
  <2>7. CASE Vanished(e)
    BY <1>4, <1>6, <2>7 DEF Vanished
  <2>8. ASSUME NEW g \in Frames, stack' = Append(Front(stack), g),
               MarkTrue(g, spool, start_mtime), spool' = spool, run' = run
        PROVE  LowWater'
    <3> HIDE DEF f, L
    <3>1. /\ stack' \in Seq(Frames) /\ Len(stack') = Len(stack) /\ stack'[Len(stack)] = g
          /\ \A i \in 1..Len(stack) - 1 : stack'[i] = stack[i]
      BY <2>2, <2>8, StackReplace
    <3>2. DOMAIN stack' = 1..L
      BY <3>1, LenProperties DEF L
    <3>3. ASSUME NEW k \in 1..L
          PROVE  MarkTrue(stack'[k], spool, start_mtime)
      <4>1. k = L \/ k \in 1..L - 1
        BY <2>3
      <4> QED
        BY <2>4, <2>8, <3>1, <4>1 DEF L
    <3> QED
      BY <1>3, <2>8, <3>2, <3>3
  <2>9. CASE SkipLow(e) \/ Visit(e)
    <3>1. stack' = Append(Front(stack), f) /\ UNCHANGED <<spool, run>>
      BY <2>9 DEF SkipLow, Visit
    <3> HIDE DEF f
    <3> QED
      BY <2>5, <2>6, <2>8, <3>1
  <2>10. CASE Recurse(e)
    <3> DEFINE g == Open(e[2])
    <3>1. /\ e \in Entries(dir.dir) /\ e[2] # <<>> /\ stack' = Front(stack) \o <<f, g>>
          /\ UNCHANGED <<spool, run>>
      BY <2>10 DEF Recurse
    <3>2. e[2] \in Directories
      BY <1>1, <2>5, <3>1, EntryIs, SubdirectoryIs
    <3>3. g \in Frames /\ g.low_water_mark = -1
      BY <1>1, <3>2, OpenFrame
    <3> HIDE DEF f, g
    <3>5. /\ DOMAIN stack' = 1..L + 1 /\ stack'[L] = f /\ stack'[L + 1] = g
          /\ \A i \in 1..L - 1 : stack'[i] = stack[i]
      BY <2>2, <2>5, <3>1, <3>3, StackPush
    <3>7. MarkTrue(g, spool, start_mtime)
      BY <3>3 DEF MarkTrue
    <3> HIDE DEF L
    <3>8. ASSUME NEW k \in 1..L + 1
          PROVE  MarkTrue(stack'[k], spool, start_mtime)
      <4>1. k = L \/ k \in 1..L - 1 \/ k = L + 1
        BY <2>3
      <4>2. k \in 1..L - 1 => k \in 1..L
        BY <2>3
      <4> QED
        BY <2>4, <2>6, <3>5, <3>7, <4>1, <4>2
    <3> QED
      BY <1>3, <3>1, <3>5, <3>8
  <2>11. CASE TooEarly(e)
    <3> DEFINE g == [f EXCEPT !.low_water_mark = e[1]]
    <3>1. /\ e \in Entries(dir.dir) /\ e[2] = <<>> /\ stack' = Append(Front(stack), g)
          /\ spool[dir.dir][e[1]].arrival < start_mtime
          /\ UNCHANGED <<spool, run>>
      BY <2>11 DEF TooEarly
    <3> DEFINE d == dir.dir
               m == e[1]
    <3>2. /\ d \in Active /\ m \in DOMAIN spool[d] /\ spool[d][m] # Gone /\ m \in Nat
      BY <1>1, <2>5, <3>1, EntryIs
    <3>3. g \in Frames /\ g.dir = d /\ g.low_water_mark = m
      BY <1>1, <2>2, <3>2, ReadFrame
    <3>4. Len(spool[d]) \in Nat /\ DOMAIN spool[d] = 1..Len(spool[d])
      BY <1>1, <3>2, ArticleNumbers
    <3> HIDE DEF f, g, d, m
    <3>5. ASSUME NEW n \in 1..m, spool[d][n] # Gone
          PROVE  spool[d][n].arrival < start_mtime
      <4>1. n \in DOMAIN spool[d] /\ (n < m \/ n = m)
        BY <3>2, <3>4
      <4>2. spool[d][n].arrival \in Int /\ spool[d][m].arrival \in Int
        BY <1>1, <3>2, <3>5, <4>1, ArticleNumbers
      <4>3. spool[d][n].arrival <= spool[d][m].arrival
        BY <3>2, <3>5, <4>1, <4>2 DEF Numbered
      <4>4. spool[d][m].arrival < start_mtime
        BY <3>1 DEF d, m
      <4> QED
        BY <1>2, <4>2, <4>3, <4>4
    <3>6. MarkTrue(g, spool, start_mtime)
      BY <3>2, <3>3, <3>4, <3>5 DEF MarkTrue
    <3> QED
      BY <2>8, <3>1, <3>3, <3>6
  <2> QED
    BY <2>1, <2>7, <2>9, <2>10, <2>11 DEF Step
<1>13. CASE CloseDir
  <2>1. /\ stack # <<>> /\ stack' = Front(stack) /\ UNCHANGED <<spool, run>>
        /\ stack \in Seq(Frames)
    BY <1>1, <1>13 DEF CloseDir, Shape
  <2>2. /\ Len(stack) \in Nat /\ DOMAIN stack = 1..Len(stack)
        /\ stack' \in Seq(Frames) /\ Len(stack') = Len(stack) - 1
        /\ \A i \in 1..Len(stack) - 1 : stack'[i] = stack[i]
    BY <2>1, StackTop
  <2>3. DOMAIN stack' = 1..Len(stack) - 1
    BY <2>2, LenProperties
  <2>4. \A k \in DOMAIN stack' : k \in DOMAIN stack /\ stack'[k] = stack[k]
    BY <2>2, <2>3
  <2> QED
    BY <1>3, <2>1, <2>4 DEF LowWater
<1>14. CASE ScanEnds
  BY <1>4, <1>14 DEF ScanEnds
<1>15. CASE WriteLog \/ LogCutOff \/ ReadLog \/ ReadLogFails \/ Graph \/ WritePage \/ PageCutOff
  <2>1. stack = <<>>
    BY <1>5, <1>15 DEF WriteLog, LogCutOff, ReadLog, ReadLogFails, Graph, WritePage, PageCutOff
  <2>2. stack' = <<>> \/ stack' = stack
    BY <1>6, <1>15 DEF WriteLog, LogCutOff, ReadLog, ReadLogFails, Graph, WritePage,
                       PageCutOff, NextFile
  <2> QED
    BY <1>4, <2>1, <2>2
<1> QED
  BY <1>7, <1>8, <1>9, <1>10, <1>11, <1>12, <1>13, <1>14, <1>15 DEF Next

-------------------------------------------------------------------------------
(* Nothing is missed.                                                      *)

\* An article that should be counted has come by when the run starts, and not
\* before its start_mtime.
LEMMA DueTimes ==
    ASSUME Shape, RightDates, NEW a \in Articles, Due(a, run)
    PROVE  /\ a.arrival < run.end_time + EndLatency
           /\ ~(a.arrival < start_mtime)
           /\ Sampled(a)
<1>1. /\ a.posted \in Int /\ a.arrival \in Int /\ run.end_time \in Int
      /\ Days \in Nat /\ StartLatency \in Nat /\ EndLatency \in Nat
  BY ArticlesAssumption, TimesAssumption DEF Shape
<1>2. /\ Valid(a) /\ a.posted >= start_time /\ a.posted < run.end_time
      /\ a.arrival - a.posted <= EndLatency /\ a.arrival - a.posted >= -StartLatency
  BY <1>1 DEF Due, start_time
<1>3. start_time \in Int /\ start_mtime = start_time - StartLatency
  BY <1>1 DEF start_time, start_mtime, Day
<1>4. Sampled(a)
  BY <1>2 DEF Sampled, RightDates
<1> QED
  BY <1>1, <1>2, <1>3, <1>4

\* The entries of a directory that is opened cover the groups in it or below.
LEMMA OpenCovers ==
    ASSUME Shape, NEW d \in Directories, NEW g \in GroupsBelow[d],
           NEW n \in DOMAIN spool[g], spool[g][n] # Gone
    PROVE  \/ d = g /\ <<n, <<>>>> \in Entries(d)
           \/ \E e \in Entries(d) : e[2] \in Directories /\ g \in GroupsBelow[e[2]]
<1>1. g \in Active
  BY DEF GroupsBelow
<1>2. CASE g = d
  BY <1>1, <1>2 DEF Entries
<1>3. CASE g # d
  <2>1. d \in Seq(Nat)
    BY DirectoryNames
  <2>2. PICK s \in Directories : Parent(s) = d /\ g \in GroupsBelow[s]
    BY <1>3, <2>1, WayDown
  <2> DEFINE e == <<Strtol(SubSeq(s, Len(d) + 2, Len(s))), s>>
  <2>3. e \in Subdirectories[d]
    BY <2>2 DEF Subdirectories
  <2>4. Exists(s)
    <3>1. DOMAIN spool[g] = 1..Len(spool[g]) /\ spool[g] \in Seq(Articles \cup {Gone})
      BY <1>1, ArticleNumbers
    <3>2. spool[g] # <<>>
      BY <3>1, EmptySeq
    <3> QED
      BY <2>2, <3>2 DEF Exists
  <2>5. e[2] = s
    OBVIOUS
  <2>6. e \in Entries(d)
    BY <2>3, <2>4, <2>5 DEF Entries
  <2> QED
    BY <2>2, <2>5, <2>6
<1> QED
  BY <1>2, <1>3

\* Reading entry e of the innermost directory takes nothing else away.
LEMMA ReadLeaves ==
    ASSUME Shape, stack # <<>>, NEW e, NEW f,
           f.dir = dir.dir, f.unread = dir.unread \ {e},
           \A k \in DOMAIN stack : /\ k \in DOMAIN stack'
                                   /\ k < Len(stack) => stack'[k] = stack[k],
           stack'[Len(stack)] = f, todo' = todo
    PROVE  /\ \A g : StillAhead(g, todo, stack) =>
                 \/ StillAhead(g, todo', stack')
                 \/ e \in dir.unread /\ e[2] \in Directories /\ g \in GroupsBelow[e[2]]
           /\ \A g, n : StillUnread(g, n, stack) =>
                 \/ StillUnread(g, n, stack')
                 \/ e = <<n, <<>>>> /\ dir.dir = g
<1> DEFINE L == Len(stack)
<1>1. L \in Nat /\ DOMAIN stack = 1..L /\ dir = stack[L]
  BY StackTop DEF Shape, dir
<1>2. ASSUME NEW k \in DOMAIN stack, NEW x \in stack[k].unread
      PROVE  \/ x = e /\ k = L
             \/ /\ k \in DOMAIN stack' /\ x \in stack'[k].unread
                /\ stack'[k].dir = stack[k].dir
  <2> HIDE DEF L
  <2>1. CASE k = L
    BY <1>1, <2>1 DEF L
  <2>2. CASE k # L
    <3>1. k < L
      BY <1>1, <2>2
    <3>2. stack'[k] = stack[k] /\ k \in DOMAIN stack'
      BY <3>1 DEF L
    <3> QED
      BY <3>2
  <2> QED
    BY <2>1, <2>2
<1>3. ASSUME NEW g, StillAhead(g, todo, stack)
      PROVE  \/ StillAhead(g, todo', stack')
             \/ e \in dir.unread /\ e[2] \in Directories /\ g \in GroupsBelow[e[2]]
  <2>1. CASE \E m \in todo..Len(HierarchyOrder) : HierarchyOrder[m] = HierarchyOf(g)
    BY <2>1 DEF StillAhead
  <2>2. ASSUME NEW k \in DOMAIN stack, NEW x \in stack[k].unread,
               x[2] \in Directories, g \in GroupsBelow[x[2]]
        PROVE  \/ StillAhead(g, todo', stack')
               \/ e \in dir.unread /\ e[2] \in Directories /\ g \in GroupsBelow[e[2]]
    <3>1. \/ x = e /\ k = L
          \/ k \in DOMAIN stack' /\ x \in stack'[k].unread
      BY <1>2
    <3> QED
      BY <1>1, <2>2, <3>1 DEF StillAhead
  <2> QED
    BY <1>3, <2>1, <2>2 DEF StillAhead
<1>4. ASSUME NEW g, NEW n, StillUnread(g, n, stack)
      PROVE  \/ StillUnread(g, n, stack')
             \/ e = <<n, <<>>>> /\ dir.dir = g
  <2>1. PICK k \in DOMAIN stack : stack[k].dir = g /\ <<n, <<>>>> \in stack[k].unread
    BY <1>4 DEF StillUnread
  <2>2. \/ <<n, <<>>>> = e /\ k = L
        \/ /\ k \in DOMAIN stack' /\ <<n, <<>>>> \in stack'[k].unread
           /\ stack'[k].dir = stack[k].dir
    BY <1>2, <2>1
  <2> QED
    BY <1>1, <2>1, <2>2 DEF StillUnread
<1> QED
  BY <1>3, <1>4

\* What covers an article is still there when a directory is read.
LEMMA CoveredRead ==
    ASSUME RightDates, NoNumericNames, TypeInv, Numbered, LowWater, Covered,
           pc = "scan", stack # <<>>,
           NEW e \in dir.unread \cup Entries(dir.dir), Step(e)
    PROVE  Covered'
<1>1. Shape /\ stack \in Seq(Frames)
  BY DEF TypeInv, Shape
<1> DEFINE L == Len(stack)
           f == ReadOn(e)
<1>2. /\ L \in Nat /\ L >= 1 /\ DOMAIN stack = 1..L
      /\ dir = stack[L] /\ dir \in Frames /\ dir.dir \in Directories
      /\ e \in PossibleEntries(dir.dir)
      /\ f \in Frames /\ f.dir = dir.dir /\ f.unread = dir.unread \ {e}
  BY <1>1, StackTop, ReadFrame, FrameFields
<1>3. e[2] \in Directories => e[2] # <<>> /\ e[1] = -1
  <2>1. CASE e \in Nat \X {<<>>}
    BY <2>1, DirectoryNames
  <2>2. CASE e \in Subdirectories[dir.dir]
    BY <1>2, <2>2, SubdirectoryIs DEF NoNumericNames
  <2> QED
    BY <1>2, <2>1, <2>2 DEF PossibleEntries
<1>4. CASE Vanished(e)
  BY <1>4 DEF Vanished, End, Covered
<1> HIDE DEF f, L
\* The steps that read on: what becomes of what was covered by e.
<1>5. ASSUME NEW h, h \in Frames, h.dir = dir.dir, h.unread = dir.unread \ {e},
             \/ stack' = Append(Front(stack), h)
             \/ \E y \in Frames : stack' = Front(stack) \o <<h, y>>,
             UNCHANGED <<spool, pc, run, todo>>, seen \subseteq seen',
             ASSUME NEW g \in Active, NEW n \in DOMAIN spool[g],
                    HierarchyOf(g) \in Hierarchies, Due(spool[g][n], run),
                    spool[g][n] \in Articles,
                    \/ e \in dir.unread /\ e[2] \in Directories /\ g \in GroupsBelow[e[2]]
                    \/ e = <<n, <<>>>> /\ dir.dir = g
             PROVE  \/ spool[g][n].mid \in seen'
                    \/ StillAhead(g, todo', stack') \/ StillUnread(g, n, stack')
      PROVE  Covered'
  <2>1. /\ stack'[L] = h
        /\ \A k \in DOMAIN stack : /\ k \in DOMAIN stack'
                                   /\ k < L => stack'[k] = stack[k]
    <3>1. CASE stack' = Append(Front(stack), h)
      <4>1. /\ DOMAIN stack' = 1..L /\ stack'[L] = h
            /\ \A k \in 1..L - 1 : stack'[k] = stack[k]
        BY <1>1, <1>5, <3>1, StackReplace DEF L
      <4> QED
        BY <1>2, <4>1
    <3>2. ASSUME NEW y \in Frames, stack' = Front(stack) \o <<h, y>>
          PROVE  /\ stack'[L] = h
                 /\ \A k \in DOMAIN stack : /\ k \in DOMAIN stack'
                                            /\ k < L => stack'[k] = stack[k]
      <4>1. /\ DOMAIN stack' = 1..L + 1 /\ stack'[L] = h
            /\ \A k \in 1..L - 1 : stack'[k] = stack[k]
        BY <1>1, <1>5, <3>2, StackPush DEF L
      <4> QED
        BY <1>2, <4>1
    <3> QED
      BY <1>5, <3>1, <3>2
  <2>2. ASSUME NEW g \in Active, NEW n \in DOMAIN spool[g],
               HierarchyOf(g) \in Hierarchies, Due(spool[g][n], run)
        PROVE  \/ spool[g][n].mid \in seen'
               \/ StillAhead(g, todo', stack') \/ StillUnread(g, n, stack')
    <3>1. spool[g][n] \in Articles
      BY <1>1, <2>2, ArticleNumbers DEF Due
    <3>2. CASE spool[g][n].mid \in seen
      BY <1>5, <3>2
    <3>3. CASE StillAhead(g, todo, stack)
      <4>1. \/ StillAhead(g, todo', stack')
            \/ e \in dir.unread /\ e[2] \in Directories /\ g \in GroupsBelow[e[2]]
        BY <1>1, <1>5, <2>1, <3>3, ReadLeaves DEF L
      <4> QED
        BY <1>5, <2>2, <3>1, <4>1
    <3>4. CASE StillUnread(g, n, stack)
      <4>1. \/ StillUnread(g, n, stack')
            \/ e = <<n, <<>>>> /\ dir.dir = g
        BY <1>1, <1>5, <2>1, <3>4, ReadLeaves DEF L
      <4> QED
        BY <1>5, <2>2, <3>1, <4>1
    <3> QED
      BY <2>2, <3>2, <3>3, <3>4 DEF Covered
  <2> QED
    BY <1>5, <2>2 DEF Covered
<1>6. CASE SkipLow(e)
  <2>1. /\ stack' = Append(Front(stack), f) /\ UNCHANGED <<spool, pc, run, todo, seen>>
        /\ e[1] # -1 /\ e[1] < dir.low_water_mark
    BY <1>6 DEF SkipLow, BelowLowWater, f
  <2>2. ASSUME NEW g \in Active, NEW n \in DOMAIN spool[g],
               HierarchyOf(g) \in Hierarchies, Due(spool[g][n], run),
               spool[g][n] \in Articles,
               \/ e \in dir.unread /\ e[2] \in Directories /\ g \in GroupsBelow[e[2]]
               \/ e = <<n, <<>>>> /\ dir.dir = g
        PROVE  FALSE
    <3>1. e = <<n, <<>>>> /\ dir.dir = g
      BY <1>3, <2>1, <2>2
    <3>2. /\ n < dir.low_water_mark /\ n \in 1..Len(spool[g]) /\ n \in Nat
          /\ dir.low_water_mark \in {-1} \cup Nat
      BY <1>1, <1>2, <2>1, <3>1, ArticleNumbers, FrameFields
    <3>3. MarkTrue(dir, spool, start_mtime)
      BY <1>2 DEF LowWater
    <3>4. spool[g][n] # Gone
      BY <2>2 DEF Due
    <3>5. n \in 1..dir.low_water_mark /\ dir.low_water_mark # -1
      BY <3>2
    <3>6. spool[g][n].arrival < start_mtime
      BY <3>1, <3>3, <3>4, <3>5 DEF MarkTrue
    <3> QED
      BY <1>1, <2>2, <3>6, DueTimes
  <2> QED
    BY <1>2, <1>5, <2>1, <2>2
<1>7. CASE Recurse(e)
  <2> DEFINE d == e[2]
  <2>1. /\ e \in Entries(dir.dir) /\ d # <<>>
        /\ stack' = Front(stack) \o <<f, Open(d)>>
        /\ UNCHANGED <<spool, pc, run, todo, seen>>
    BY <1>7 DEF Recurse, f
  <2>2. d \in Directories
    BY <1>1, <1>2, <2>1, EntryIs, SubdirectoryIs
  <2>3. Open(d) \in Frames /\ Open(d).dir = d /\ Open(d).unread = Entries(d)
    BY <1>1, <2>2, OpenFrame
  <2>4. L + 1 \in DOMAIN stack' /\ stack'[L + 1] = Open(d)
    <3>1. DOMAIN stack' = 1..L + 1 /\ stack'[L + 1] = Open(d)
      BY <1>1, <1>2, <2>1, <2>3, StackPush DEF L
    <3> QED
      BY <1>2, <3>1
  <2>5. ASSUME NEW g \in Active, NEW n \in DOMAIN spool[g],
               HierarchyOf(g) \in Hierarchies, Due(spool[g][n], run),
               spool[g][n] \in Articles,
               \/ e \in dir.unread /\ e[2] \in Directories /\ g \in GroupsBelow[e[2]]
               \/ e = <<n, <<>>>> /\ dir.dir = g
        PROVE  \/ spool[g][n].mid \in seen'
               \/ StillAhead(g, todo', stack') \/ StillUnread(g, n, stack')
    <3>1. g \in GroupsBelow[d]
      BY <2>1, <2>5
    <3>2. spool[g][n] # Gone
      BY <2>5 DEF Due
    <3>3. \/ d = g /\ <<n, <<>>>> \in Entries(d)
          \/ \E x \in Entries(d) : x[2] \in Directories /\ g \in GroupsBelow[x[2]]
      BY <1>1, <2>2, <2>5, <3>1, <3>2, OpenCovers
    <3> HIDE DEF d
    <3> QED
      BY <2>3, <2>4, <3>3 DEF StillAhead, StillUnread
  <2> QED
    BY <1>2, <1>5, <2>1, <2>3, <2>5
<1>8. CASE TooEarly(e)
  <2> DEFINE h == [f EXCEPT !.low_water_mark = e[1]]
  <2>1. /\ e \in Entries(dir.dir) /\ e[2] = <<>> /\ stack' = Append(Front(stack), h)
        /\ spool[dir.dir][e[1]].arrival < start_mtime
        /\ UNCHANGED <<spool, pc, run, todo, seen>>
    BY <1>8 DEF TooEarly, f
  <2>2. e[1] \in Nat
    BY <1>1, <1>2, <2>1, EntryIs
  <2>3. h \in Frames /\ h.dir = dir.dir /\ h.unread = dir.unread \ {e}
    BY <1>1, <2>2, ReadFrame DEF f
  <2>4. ASSUME NEW g \in Active, NEW n \in DOMAIN spool[g],
               HierarchyOf(g) \in Hierarchies, Due(spool[g][n], run),
               spool[g][n] \in Articles,
               \/ e \in dir.unread /\ e[2] \in Directories /\ g \in GroupsBelow[e[2]]
               \/ e = <<n, <<>>>> /\ dir.dir = g
        PROVE  FALSE
    <3>1. e = <<n, <<>>>> /\ dir.dir = g
      BY <1>3, <2>1, <2>4
    <3>2. spool[g][n].arrival < start_mtime
      BY <2>1, <3>1
    <3> QED
      BY <1>1, <2>4, <3>2, DueTimes
  <2> HIDE DEF h
  <2> QED
    BY <1>5, <2>1, <2>3, <2>4
<1>9. CASE Visit(e)
  <2> DEFINE a == spool[dir.dir][e[1]]
  <2>1. /\ e[2] = <<>> /\ stack' = Append(Front(stack), f)
        /\ UNCHANGED <<spool, pc, run, todo>> /\ seen \subseteq seen'
        /\ Sampled(a) => a.mid \in seen'
    BY <1>9 DEF Visit, f
  <2>2. ASSUME NEW g \in Active, NEW n \in DOMAIN spool[g],
               HierarchyOf(g) \in Hierarchies, Due(spool[g][n], run),
               spool[g][n] \in Articles,
               \/ e \in dir.unread /\ e[2] \in Directories /\ g \in GroupsBelow[e[2]]
               \/ e = <<n, <<>>>> /\ dir.dir = g
        PROVE  spool[g][n].mid \in seen'
    <3>1. e = <<n, <<>>>> /\ dir.dir = g
      BY <1>3, <2>1, <2>2
    <3>2. a = spool[g][n]
      BY <3>1
    <3>3. Sampled(spool[g][n])
      BY <1>1, <2>2, DueTimes
    <3> QED
      BY <2>1, <3>2, <3>3
  <2> QED
    BY <1>2, <1>5, <2>1, <2>2
<1> QED
  BY <1>4, <1>6, <1>7, <1>8, <1>9 DEF Step

\* Every step keeps what has been read accounted for.
LEMMA CoveredNext ==
    ASSUME RightDates, NoNumericNames, Inv, [Next]_vars
    PROVE  Covered'
<1>1. TypeInv /\ Shape /\ Numbered /\ LowWater /\ Covered
  BY DEF Inv, TypeInv
<1>2. pc' \notin {"scan", "logs"} => Covered'
  BY DEF Covered
<1>3. CASE UNCHANGED vars
  BY <1>1, <1>3 DEF vars, Covered
<1>4. CASE \/ \E a \in Articles : Arrive(a)
           \/ \E g \in Active : \E n \in DOMAIN spool[g] : Expire(g, n)
  <2>1. UNCHANGED <<now, pc, run, todo, stack, seen>>
    BY <1>4 DEF Arrive, Expire
  <2>2. ASSUME NEW g \in Active, NEW n \in DOMAIN spool'[g], pc \in {"scan", "logs"},
               Due(spool'[g][n], run)
        PROVE  n \in DOMAIN spool[g] /\ spool'[g][n] = spool[g][n]
    <3>1. spool'[g][n] # Gone
      BY <2>2 DEF Due
    <3>2. /\ n \in 1..Len(spool'[g])
          /\ \/ n \in 1..Len(spool[g]) /\ spool'[g][n] = spool[g][n]
             \/ spool'[g][n] \in Articles /\ spool'[g][n].arrival = now
      BY <1>1, <1>4, <2>2, <3>1, SpoolGrows
    <3>3. ASSUME spool'[g][n] \in Articles, spool'[g][n].arrival = now
          PROVE  FALSE
      <4>1. now < run.end_time + EndLatency
        BY <1>1, <2>2, <3>3, DueTimes
      <4>2. run.end_time + EndLatency <= now
        BY <1>1, <2>2 DEF Numbered
      <4>3. now \in Int /\ run.end_time + EndLatency \in Int
        BY <1>1, TimesAssumption DEF Shape
      <4> QED
        BY <4>1, <4>2, <4>3
    <3>4. DOMAIN spool[g] = 1..Len(spool[g])
      BY <1>1, ArticleNumbers
    <3> QED
      BY <3>2, <3>3, <3>4
  <2> QED
    BY <1>1, <2>1, <2>2 DEF Covered
<1>5. CASE Tick
  BY <1>1, <1>5 DEF Tick, Covered
<1>6. CASE \E scan, graph \in BOOLEAN : Options(scan, graph)
  <2>1. /\ pc = "idle" /\ pc' # "logs" /\ UNCHANGED <<spool, todo, stack, seen>>
    BY <1>6 DEF Options
  <2>2. todo' = 1
    BY <1>1, <2>1, StepsAre DEF Shape
  <2>3. ASSUME NEW g \in Active, HierarchyOf(g) \in Hierarchies
        PROVE  StillAhead(g, todo', stack')
    <3>1. PICK m \in DOMAIN HierarchyOrder : HierarchyOrder[m] = HierarchyOf(g)
      BY <2>3 DEF Hierarchies, Range
    <3>2. m \in todo'..Len(HierarchyOrder)
      BY <2>2, OrderLengths
    <3> QED
      BY <3>1, <3>2 DEF StillAhead
  <2> QED
    BY <2>1, <2>3 DEF Covered
<1>7. CASE Killed \/ LogCutOff \/ ReadLogFails \/ PageCutOff
  BY <1>2, <1>7 DEF Killed, LogCutOff, ReadLogFails, PageCutOff, End
<1>8. CASE ReadLog \/ Graph \/ WritePage
  BY <1>2, <1>8 DEF ReadLog, Graph, WritePage, NextFile, End
<1>9. CASE ScanHierarchy
  <2> DEFINE h == HierarchyOrder[todo]
  <2>1. CASE End
    BY <1>2, <2>1 DEF End
  <2>2. CASE /\ Exists(h) /\ stack' = <<Open(h)>> /\ todo' = todo + 1
             /\ UNCHANGED <<pc, run, seen>>
    <3>1. /\ pc = "scan" /\ stack = <<>> /\ todo \in 1..Len(HierarchyOrder)
          /\ UNCHANGED <<spool>> /\ todo \in Nat
      BY <1>1, <1>9, StepsAre DEF ScanHierarchy, Shape
    <3>2. DOMAIN stack' = {1} /\ stack'[1] = Open(h)
      BY <2>2
    <3>3. h \in Hierarchies
      BY <3>1, OrderLengths DEF Hierarchies, Range
    <3>4. h \in Directories
      BY <2>2, <3>3, HierarchyDirectory DEF Exists
    <3>5. Open(h).dir = h /\ Open(h).unread = Entries(h)
      BY DEF Open
    <3>6. ASSUME NEW g \in Active, NEW n \in DOMAIN spool[g],
                 HierarchyOf(g) \in Hierarchies, Due(spool[g][n], run),
                 spool[g][n].mid \notin seen
          PROVE  StillAhead(g, todo', stack') \/ StillUnread(g, n, stack')
      <4>1. StillAhead(g, todo, stack) \/ StillUnread(g, n, stack)
        BY <1>1, <3>1, <3>6 DEF Covered
      <4>2. \E m \in todo..Len(HierarchyOrder) : HierarchyOrder[m] = HierarchyOf(g)
        <5>1. DOMAIN stack = {}
          BY <3>1
        <5> QED
          BY <4>1, <5>1 DEF StillAhead, StillUnread
      <4>3. PICK m \in todo..Len(HierarchyOrder) : HierarchyOrder[m] = HierarchyOf(g)
        BY <4>2
      <4>4. CASE m = todo
        <5>1. HierarchyOf(g) = h
          BY <4>3, <4>4
        <5>2. g \in GroupsBelow[h]
          BY <3>6, <5>1, InHierarchy
        <5>3. spool[g][n] # Gone
          BY <3>6 DEF Due
        <5>4. \/ h = g /\ <<n, <<>>>> \in Entries(h)
              \/ \E x \in Entries(h) : x[2] \in Directories /\ g \in GroupsBelow[x[2]]
          BY <1>1, <3>4, <3>6, <5>2, <5>3, OpenCovers
        <5> HIDE DEF h
        <5> QED
          BY <3>2, <3>5, <5>4 DEF StillAhead, StillUnread
      <4>5. CASE m # todo
        <5>1. m \in todo'..Len(HierarchyOrder)
          BY <2>2, <3>1, <4>3, <4>5, OrderLengths
        <5> QED
          BY <4>3, <5>1 DEF StillAhead
      <4> QED
        BY <4>4, <4>5
    <3> QED
      BY <2>2, <3>1, <3>6 DEF Covered
  <2> QED
    BY <1>9, <2>1, <2>2 DEF ScanHierarchy
<1>10. CASE ReadDirectory
  BY <1>1, <1>10, CoveredRead DEF ReadDirectory
<1>11. CASE CloseDir
  <2>1. /\ pc = "scan" /\ stack # <<>> /\ stack' = Front(stack)
        /\ dir.unread \cap Entries(dir.dir) = {}
        /\ UNCHANGED <<spool, pc, run, todo, seen>>
    BY <1>11 DEF CloseDir
  <2> DEFINE L == Len(stack)
  <2>2. /\ L \in Nat /\ L >= 1 /\ DOMAIN stack = 1..L
        /\ stack' \in Seq(Frames) /\ Len(stack') = L - 1
        /\ \A i \in 1..L - 1 : stack'[i] = stack[i]
        /\ dir = stack[L] /\ dir \in Frames
    <3>1. stack \in Seq(Frames)
      BY <1>1 DEF Shape
    <3>2. dir = Last(stack)
      BY DEF dir
    <3> QED
      BY <2>1, <3>1, <3>2, StackTop
  <2>3. DOMAIN stack' = 1..L - 1
    BY <2>2, LenProperties
  <2> HIDE DEF L
  <2>4. ASSUME NEW k \in DOMAIN stack
        PROVE  k = L \/ (k \in DOMAIN stack' /\ stack'[k] = stack[k])
    BY <2>2, <2>3
  <2>5. dir.unread \subseteq PossibleEntries(dir.dir) /\ dir.dir \in Directories
    BY <2>2, FrameFields
  <2>6. ASSUME NEW g \in Active, NEW n \in DOMAIN spool[g], Due(spool[g][n], run)
        PROVE  /\ ~(dir.dir = g /\ <<n, <<>>>> \in dir.unread)
               /\ \A e \in dir.unread : ~(e[2] \in Directories /\ g \in GroupsBelow[e[2]])
    <3>1. spool[g][n] # Gone
      BY <2>6 DEF Due
    <3>2. ASSUME dir.dir = g, <<n, <<>>>> \in dir.unread
          PROVE  FALSE
      <4>1. <<n, <<>>>> \in Entries(dir.dir)
        BY <2>6, <3>1, <3>2 DEF Entries
      <4> QED
        BY <2>1, <3>2, <4>1
    <3>3. ASSUME NEW e \in dir.unread, e[2] \in Directories, g \in GroupsBelow[e[2]]
          PROVE  FALSE
      <4>1. e[2] # <<>>
        BY <3>3, DirectoryNames
      <4>2. e \in Subdirectories[dir.dir]
        BY <2>5, <3>3, <4>1 DEF PossibleEntries
      <4>3. spool[g] \in Seq(Articles \cup {Gone}) /\ DOMAIN spool[g] = 1..Len(spool[g])
        BY <1>1, ArticleNumbers
      <4>4. spool[g] # <<>>
        BY <2>6, <4>3, EmptySeq
      <4>5. Exists(e[2])
        BY <3>3, <4>4 DEF Exists
      <4>6. e \in Entries(dir.dir)
        BY <4>2, <4>5 DEF Entries
      <4> QED
        BY <2>1, <3>3, <4>6
    <3> QED
      BY <3>2, <3>3
  <2>7. ASSUME NEW g \in Active, NEW n \in DOMAIN spool[g],
               HierarchyOf(g) \in Hierarchies, Due(spool[g][n], run),
               spool[g][n].mid \notin seen
        PROVE  StillAhead(g, todo', stack') \/ StillUnread(g, n, stack')
    <3>1. StillAhead(g, todo, stack) \/ StillUnread(g, n, stack)
      BY <1>1, <2>1, <2>7 DEF Covered
    <3>2. CASE \E m \in todo..Len(HierarchyOrder) : HierarchyOrder[m] = HierarchyOf(g)
      BY <2>1, <3>2 DEF StillAhead
    <3>3. ASSUME NEW k \in DOMAIN stack, NEW e \in stack[k].unread,
                 e[2] \in Directories, g \in GroupsBelow[e[2]]
          PROVE  StillAhead(g, todo', stack')
      <4>1. k # L
        BY <2>2, <2>6, <2>7, <3>3
      <4> QED
        BY <2>4, <3>3, <4>1 DEF StillAhead
    <3>4. ASSUME NEW k \in DOMAIN stack, stack[k].dir = g, <<n, <<>>>> \in stack[k].unread
          PROVE  StillUnread(g, n, stack')
      <4>1. k # L
        BY <2>2, <2>6, <2>7, <3>4
      <4> QED
        BY <2>4, <3>4, <4>1 DEF StillUnread
    <3> QED
      BY <3>1, <3>2, <3>3, <3>4 DEF StillAhead, StillUnread
  <2> QED
    BY <2>1, <2>7 DEF Covered
<1>12. CASE ScanEnds
  <2>1. /\ pc = "scan" /\ stack = <<>> /\ todo > Len(HierarchyOrder)
        /\ pc' = "logs" /\ UNCHANGED <<spool, run, seen>>
    BY <1>12 DEF ScanEnds
  <2>2. DOMAIN stack = {}
    BY <2>1
  <2>3. todo \in Nat
    BY <1>1, <2>1, StepsAre DEF Shape
  <2>4. todo..Len(HierarchyOrder) = {}
    BY <2>1, <2>3, OrderLengths
  <2>5. \A g \in Active : \A n \in DOMAIN spool[g] :
           ~StillAhead(g, todo, stack) /\ ~StillUnread(g, n, stack)
    BY <2>2, <2>4 DEF StillAhead, StillUnread
  <2> QED
    BY <1>1, <2>1, <2>5 DEF Covered
<1>13. CASE WriteLog
  <2>1. pc = "logs" /\ UNCHANGED spool
    BY <1>13 DEF WriteLog
  <2>2. CASE UNCHANGED <<pc, run, seen>>
    BY <1>1, <2>1, <2>2 DEF Covered
  <2>3. CASE pc' \in {"idle", "graphs"}
    BY <1>2, <2>3
  <2> QED
    BY <1>13, <2>2, <2>3 DEF WriteLog, NextFile, End
<1> QED
  BY <1>3, <1>4, <1>5, <1>6, <1>7, <1>8, <1>9, <1>10, <1>11, <1>12, <1>13 DEF Next

\* Before the first run the invariant holds.
LEMMA InvInit == Init => Inv
<1> SUFFICES ASSUME Init PROVE Inv
  OBVIOUS
<1>1. TypeInv
  BY TypeInvInit
<1>2. pc = "idle" /\ stack = <<>> /\ spool = [g \in Active |-> <<>>]
  BY DEF Init
<1>3. DOMAIN stack = {} /\ \A g \in Active : DOMAIN spool[g] = {}
  BY <1>2
<1>4. Numbered
  BY <1>2, <1>3 DEF Numbered
<1>5. LowWater /\ Covered
  BY <1>2, <1>3 DEF LowWater, Covered
<1> QED
  BY <1>1, <1>4, <1>5 DEF Inv

\* Every step keeps the whole invariant.
LEMMA InvNext ==
    ASSUME RightDates, NoNumericNames
    PROVE  Inv /\ [Next]_vars => Inv'
BY TypeInvNext, NumberedNext, LowWaterNext, CoveredNext DEF Inv

\* At the end of a scan the invariant says that nothing was missed.
LEMMA InvNothingMissed == Inv => NothingMissed
<1> SUFFICES ASSUME Inv, pc = "logs", NEW a \in Articles,
                    a.posted >= start_time, a.posted < run.end_time,
                    a.arrival - a.posted \in -StartLatency..EndLatency,
                    a.mid # NoHeader, a.date # NoHeader, a.from # NoHeader,
                    NEW g \in Active, HierarchyOf(g) \in Hierarchies,
                    a \in Range(spool[g])
             PROVE  a.mid \in seen
  BY DEF NothingMissed
<1>1. PICK n \in DOMAIN spool[g] : spool[g][n] = a
  BY DEF Range
<1>2. a # Gone
  BY ArticlesAssumption
<1>3. Due(a, run)
  BY <1>2 DEF Due, Valid, start_time
<1> QED
  BY <1>1, <1>3 DEF Inv, Covered

\* When a scan ends, every article of the sampling interval that came in time
\* and is still there has been counted, in whatever order readdir() returned
\* the entries, whatever innd stored and expired meanwhile and whatever the low
\* water marks made the scan skip (AllGroups::recurse); provided dates say when
\* an article was posted and no group has a number in its name.
THEOREM ScanMissesNothing ==
    ASSUME RightDates, NoNumericNames
    PROVE  Spec => []NothingMissed
<1>1. Init => Inv
  BY InvInit
<1>2. Inv /\ [Next]_vars => Inv'
  BY InvNext
<1>3. Inv => NothingMissed
  BY InvNothingMissed
<1> QED
  BY <1>1, <1>2, <1>3, PTL DEF Spec

-------------------------------------------------------------------------------
(* Sums over finite sets.                                                  *)

Bytes(as) == MapThenSumSet(LAMBDA a : a.size, as)

\* The recursive function that Bytes applies.
First(s) == CHOOSE a \in s : TRUE
SumsUp(as, f) ==
    f = [s \in SUBSET as |-> IF s = {} THEN 0 ELSE First(s).size + f[s \ {First(s)}]]

\* The sum is that function's value.
LEMMA BytesByFunction ==
    ASSUME NEW as
    PROVE  Bytes(as) = (CHOOSE f : SumsUp(as, f))[as]
BY DEF Bytes, MapThenSumSet, MapThenFoldSet, SumsUp, First

\* A finite set of which no other set in Bad is a part.
Least(S, s, Bad) == /\ s \subseteq S /\ IsFiniteSet(s)
                    /\ \A t \in Bad : ~(t \subseteq s /\ t # s)

\* A set of finite sets that is not empty has such a one.
LEMMA LeastSet ==
    ASSUME NEW S, NEW Bad, Bad \subseteq FiniteSubsetsOf(S), Bad # {}
    PROVE  \E s \in Bad : Least(S, s, Bad)
<1>1. PICK s \in Bad : \A t \in Bad : ~(<<t, s>> \in StrictSubsetOrdering(S))
  BY FS_StrictSubsetOrderingWellFounded, WFMin
<1>2. ASSUME NEW t \in Bad, t \subseteq s, t # s
      PROVE  <<t, s>> \in StrictSubsetOrdering(S)
  BY <1>2 DEF StrictSubsetOrdering, FiniteSubsetsOf
<1>3. s \subseteq S /\ IsFiniteSet(s)
  BY DEF FiniteSubsetsOf
<1>4. \A t \in Bad : ~(t \subseteq s /\ t # s)
  BY <1>1, <1>2
<1> QED
  BY <1>3, <1>4 DEF Least

\* What the function says of one set.
SumAt(f, s) ==
    /\ s = {} => f[s] = 0
    /\ s # {} => First(s) \in s /\ f[s] = First(s).size + f[s \ {First(s)}]

\* The function is the sum by its first element at every set.
LEMMA SumsUpAt ==
    ASSUME NEW as, NEW f, SumsUp(as, f), NEW s \in SUBSET as
    PROVE  SumAt(f, s)
BY DEF SumsUp, First, SumAt

\* Two functions have the same sum.
Agree(f, g, s) == f[s] = g[s]

\* The functions of two sets agree where both are defined.
LEMMA SumsAgree ==
    ASSUME NEW as, NEW bs, NEW f, NEW g, SumsUp(as, f), SumsUp(bs, g),
           NEW s \in SUBSET as, s \in SUBSET bs, IsFiniteSet(s)
    PROVE  Agree(f, g, s)
<1> SUFFICES f[s] = g[s]
  BY DEF Agree
<1> DEFINE Bad == {t \in FiniteSubsetsOf(s) : f[t] # g[t]}
<1> SUFFICES ASSUME Bad # {} PROVE FALSE
  BY DEF FiniteSubsetsOf
<1>p. PICK t \in Bad : Least(s, t, Bad)
  <2>1. Bad \subseteq FiniteSubsetsOf(s)
    OBVIOUS
  <2> HIDE DEF Bad
  <2> QED
    BY <2>1, LeastSet
<1>1. /\ t \in Bad /\ t \subseteq s /\ IsFiniteSet(t)
     /\ \A u \in Bad : ~(u \subseteq t /\ u # t)
  BY <1>p DEF Least
<1>2. t # {}
  BY <1>1, SumsUpAt DEF SumAt
<1>3. First(t) \in t
  BY <1>2 DEF First
<1> DEFINE u == t \ {First(t)}
<1>4. u \in FiniteSubsetsOf(s) /\ u \subseteq t /\ u # t
  BY <1>1, <1>3, FS_Subset DEF FiniteSubsetsOf
<1>5. f[u] = g[u]
  BY <1>1, <1>4
<1>6. t \in SUBSET as /\ t \in SUBSET bs /\ f[t] # g[t]
  BY <1>1
<1> HIDE DEF Bad
<1>7. SumAt(f, t) /\ SumAt(g, t)
  BY <1>6, SumsUpAt
<1>8. f[t] = First(t).size + f[u] /\ g[t] = First(t).size + g[u]
  BY <1>2, <1>7 DEF SumAt
<1> QED
  BY <1>5, <1>6, <1>8

\* There is such a function on every finite set.
LEMMA SumsExist ==
    ASSUME NEW as, IsFiniteSet(as)
    PROVE  \E f : SumsUp(as, f)
<1> DEFINE Bad == {s \in FiniteSubsetsOf(as) : ~\E f : SumsUp(s, f)}
<1> SUFFICES ASSUME Bad # {} PROVE FALSE
  <2>1. as \in FiniteSubsetsOf(as)
    BY DEF FiniteSubsetsOf
  <2> QED
    BY <2>1
<1>p. PICK s \in Bad : Least(as, s, Bad)
  <2>1. Bad \subseteq FiniteSubsetsOf(as)
    OBVIOUS
  <2> HIDE DEF Bad
  <2> QED
    BY <2>1, LeastSet
<1>1. /\ s \in Bad /\ s \subseteq as /\ IsFiniteSet(s)
     /\ \A t \in Bad : ~(t \subseteq s /\ t # s)
  BY <1>p DEF Least
<1> DEFINE F(t) == CHOOSE f : SumsUp(t, f)
           f == [t \in SUBSET s |->
                    IF t = {} THEN 0
                    ELSE First(t).size + F(t \ {First(t)})[t \ {First(t)}]]
<1>2. ASSUME NEW t \in SUBSET s, t # s
      PROVE  IsFiniteSet(t) /\ SumsUp(t, F(t))
  <2>1. IsFiniteSet(t) /\ t \in FiniteSubsetsOf(as)
    BY <1>1, <1>2, FS_Subset DEF FiniteSubsetsOf
  <2>2. t \notin Bad
    BY <1>1, <1>2
  <2> QED
    BY <2>1, <2>2
<1>3. ASSUME NEW t \in SUBSET s, t # {}
      PROVE  LET u == t \ {First(t)} IN f[u] = F(u)[u]
  <2> DEFINE u == t \ {First(t)}
  <2>1. First(t) \in t
    BY <1>3 DEF First
  <2>2. u \in SUBSET s /\ u # s
    BY <2>1
  <2>3. IsFiniteSet(u) /\ SumsUp(u, F(u))
    BY <1>2, <2>2
  <2>4. CASE u = {}
    <3>1. F(u)[u] = 0
      BY <2>3, <2>4, SumsUpAt DEF SumAt
    <3> QED
      BY <2>2, <2>4, <3>1
  <2>5. CASE u # {}
    <3> DEFINE v == u \ {First(u)}
    <3>1. First(u) \in u
      BY <2>5 DEF First
    <3>2. v \in SUBSET s /\ v # s /\ v \in SUBSET u
      BY <2>2, <3>1
    <3>3. IsFiniteSet(v) /\ SumsUp(v, F(v))
      BY <1>2, <3>2
    <3>4. F(u)[u] = First(u).size + F(u)[v]
      <4> HIDE DEF F, u
      <4>1. u \in SUBSET u
        OBVIOUS
      <4> QED
        BY <2>3, <2>5, <4>1, SumsUpAt DEF SumAt
    <3>5. F(u)[v] = F(v)[v]
      <4> HIDE DEF F, u, v
      <4>1. v \in SUBSET v
        OBVIOUS
      <4> QED
        BY <2>3, <3>2, <3>3, <4>1, SumsAgree DEF Agree
    <3>6. f[u] = First(u).size + F(v)[v]
      BY <2>2, <2>5
    <3> QED
      BY <3>4, <3>5, <3>6
  <2> QED
    BY <2>4, <2>5
<1>4. SumsUp(s, f)
  <2>1. ASSUME NEW t \in SUBSET s
        PROVE  f[t] = IF t = {} THEN 0 ELSE First(t).size + f[t \ {First(t)}]
    <3>1. CASE t = {}
      BY <3>1
    <3>2. CASE t # {}
      <4>1. f[t] = First(t).size + F(t \ {First(t)})[t \ {First(t)}]
        BY <3>2
      <4>2. f[t \ {First(t)}] = F(t \ {First(t)})[t \ {First(t)}]
        BY <1>3, <3>2
      <4> HIDE DEF f, F
      <4> QED
        BY <3>2, <4>1, <4>2
    <3> QED
      BY <3>1, <3>2
  <2>2. f = [t \in SUBSET s |-> f[t]]
    OBVIOUS
  <2> HIDE DEF f
  <2> QED
    BY <2>1, <2>2 DEF SumsUp
<1> QED
  BY <1>1, <1>4

\* The sum over no article, and over all but the first of some.
LEMMA BytesFirst ==
    ASSUME NEW as, IsFiniteSet(as)
    PROVE  /\ Bytes({}) = 0
           /\ as # {} => /\ First(as) \in as
                         /\ Bytes(as) = First(as).size + Bytes(as \ {First(as)})
<1> DEFINE F(t) == CHOOSE f : SumsUp(t, f)
<1>1. ASSUME NEW t, IsFiniteSet(t) PROVE SumsUp(t, F(t)) /\ Bytes(t) = F(t)[t]
  BY <1>1, SumsExist, BytesByFunction
<1> HIDE DEF F
<1>2. Bytes({}) = 0
  <2>1. IsFiniteSet({}) /\ {} \in SUBSET {}
    BY FS_EmptySet
  <2>2. SumsUp({}, F({})) /\ Bytes({}) = F({})[{}]
    BY <1>1, <2>1
  <2> QED
    BY <2>1, <2>2, SumsUpAt DEF SumAt
<1>3. ASSUME as # {}
      PROVE  /\ First(as) \in as
             /\ Bytes(as) = First(as).size + Bytes(as \ {First(as)})
  <2> DEFINE u == as \ {First(as)}
  <2>1. First(as) \in as /\ F(as)[as] = First(as).size + F(as)[u]
    <3>1. SumsUp(as, F(as)) /\ as \in SUBSET as
      BY <1>1
    <3>2. SumAt(F(as), as)
      BY <3>1, SumsUpAt
    <3> QED
      BY <1>3, <3>2 DEF SumAt
  <2>2. IsFiniteSet(u) /\ u \in SUBSET as /\ u \in SUBSET u
    BY FS_Subset
  <2>3. F(as)[u] = F(u)[u]
    <3> HIDE DEF u
    <3>1. SumsUp(as, F(as)) /\ SumsUp(u, F(u))
      BY <1>1, <2>2
    <3>2. Agree(F(as), F(u), u)
      BY <2>2, <3>1, SumsAgree
    <3> QED
      BY <3>2 DEF Agree
  <2> QED
    BY <1>1, <2>1, <2>2, <2>3
<1> QED
  BY <1>2, <1>3

\* Taking away any article takes its size off the sum.
LEMMA BytesWithout ==
    ASSUME NEW as \in SUBSET Articles, IsFiniteSet(as), NEW a \in as
    PROVE  /\ Bytes(as) \in Nat /\ Bytes(as \ {a}) \in Nat
           /\ Bytes(as) = a.size + Bytes(as \ {a})
<1>0. \A b \in Articles : b.size \in Nat
  BY ArticlesAssumption
<1> DEFINE Bad == {s \in FiniteSubsetsOf(as) :
                      ~(/\ Bytes(s) \in Nat
                        /\ \A b \in s : Bytes(s) = b.size + Bytes(s \ {b}))}
<1>1. ASSUME Bad # {} PROVE FALSE
  <2>p. PICK s \in Bad : Least(as, s, Bad)
    <3>1. Bad \subseteq FiniteSubsetsOf(as)
      OBVIOUS
    <3> HIDE DEF Bad
    <3> QED
      BY <1>1, <3>1, LeastSet
  <2>1. /\ s \in Bad /\ s \subseteq as /\ IsFiniteSet(s)
       /\ \A t \in Bad : ~(t \subseteq s /\ t # s)
    BY <2>p DEF Least
  <2>2. ASSUME NEW b \in s
        PROVE  /\ IsFiniteSet(s \ {b}) /\ Bytes(s \ {b}) \in Nat
               /\ \A c \in s \ {b} : Bytes(s \ {b}) = c.size + Bytes((s \ {b}) \ {c})
    <3>1. s \ {b} \in FiniteSubsetsOf(as)
      BY <2>1, FS_Subset DEF FiniteSubsetsOf
    <3>2. s \ {b} \notin Bad
      BY <2>1
    <3> QED
      BY <2>1, <3>1, <3>2, FS_Subset
  <2>3. s # {}
    <3>1. Bytes({}) = 0
      BY FS_EmptySet, BytesFirst
    <3>2. 0 \in Nat
      OBVIOUS
    <3>3. Bytes({}) \in Nat
      BY <3>1, <3>2
    <3>4. s = {} => s \notin Bad
      BY <3>3
    <3> QED
      BY <2>1, <3>4
  <2> DEFINE x == First(s)
  <2>4. x \in s /\ Bytes(s) = x.size + Bytes(s \ {x})
    BY <2>1, <2>3, BytesFirst
  <2> HIDE DEF x
  <2>5. Bytes(s) \in Nat
    <3>1. x.size \in Nat
      BY <1>0, <2>1, <2>4
    <3>2. Bytes(s \ {x}) \in Nat
      BY <2>2, <2>4
    <3> QED
      BY <2>4, <3>1, <3>2
  <2>6. ASSUME NEW b \in s PROVE Bytes(s) = b.size + Bytes(s \ {b})
    <3>1. CASE b = x
      BY <2>4, <3>1
    <3>2. CASE b # x
      <4> DEFINE u == (s \ {x}) \ {b}
      <4>1. u = (s \ {b}) \ {x}
        OBVIOUS
      <4>2. Bytes(s \ {x}) = b.size + Bytes(u)
        BY <2>2, <2>4, <3>2
      <4>3. Bytes(s \ {b}) = x.size + Bytes(u)
        BY <2>2, <2>4, <3>2, <4>1
      <4>4. Bytes(u) \in Nat
        <5>1. u \in FiniteSubsetsOf(as)
          BY <2>1, FS_Subset DEF FiniteSubsetsOf
        <5>2. u \notin Bad
          BY <2>1, <2>4
        <5> QED
          BY <5>1, <5>2
      <4>5. b.size \in Nat /\ x.size \in Nat
        BY <1>0, <2>1, <2>4
      <4> HIDE DEF u
      <4> QED
        BY <2>4, <4>2, <4>3, <4>4, <4>5
    <3> QED
      BY <3>1, <3>2
  <2> QED
    BY <2>1, <2>5, <2>6
<1>2. as \in FiniteSubsetsOf(as) /\ as \ {a} \in FiniteSubsetsOf(as)
  BY FS_Subset DEF FiniteSubsetsOf
<1>3. as \notin Bad /\ as \ {a} \notin Bad
  BY <1>1
<1> QED
  BY <1>2, <1>3

\* Counting one article more.
LEMMA OneMore ==
    ASSUME NEW as \in SUBSET Articles, IsFiniteSet(as), NEW a \in Articles, a \notin as
    PROVE  /\ IsFiniteSet(as \cup {a})
           /\ Cardinality(as) \in Nat /\ Bytes(as) \in Nat
           /\ Cardinality(as \cup {a}) = Cardinality(as) + 1
           /\ Bytes(as \cup {a}) = Bytes(as) + a.size
<1> DEFINE bs == as \cup {a}
<1>1. IsFiniteSet(bs) /\ Cardinality(as) \in Nat /\ Cardinality(bs) = Cardinality(as) + 1
  BY FS_AddElement, FS_CardinalityType
<1>2. bs \in SUBSET Articles /\ a \in bs /\ bs \ {a} = as
  OBVIOUS
<1> HIDE DEF bs
<1>3. /\ Bytes(bs \ {a}) \in Nat
      /\ Bytes(bs) = a.size + Bytes(bs \ {a})
  BY <1>1, <1>2, BytesWithout
<1>4. a.size \in Nat
  BY ArticlesAssumption
<1>5. Bytes(as) \in Nat /\ Bytes(bs) = a.size + Bytes(as)
  BY <1>2, <1>3
<1>6. Bytes(bs) = Bytes(as) + a.size
  <2>1. \A m, n \in Nat : m + n = n + m
    OBVIOUS
  <2> QED
    BY <1>4, <1>5, <2>1
<1> QED
  BY <1>1, <1>5, <1>6 DEF bs

-------------------------------------------------------------------------------
(* The groups and hierarchies of an article.                               *)

\* get_groups() makes a list.
LEMMA GroupsAreList ==
    ASSUME NEW a \in Articles
    PROVE  \E k \in Nat : DOMAIN GroupsOf[a] = 1..k
<1> DEFINE s    == a.newsgroups
           cuts == {0} \cup {n \in DOMAIN s : s[n] = Comma}
           list == Split(Comma, s)
<1>1. IsFiniteSet(cuts)
  <2>1. DOMAIN s = 1..Len(s) /\ Len(s) \in Nat
    BY ArticlesAssumption, LenProperties
  <2>2. IsFiniteSet(DOMAIN s)
    BY <2>1, FS_Interval
  <2>3. IsFiniteSet({n \in DOMAIN s : s[n] = Comma})
    BY <2>2, FS_Subset
  <2> QED
    BY <2>3, FS_Singleton, FS_Union
<1>2. Cardinality(cuts) \in Nat
  BY <1>1, FS_CardinalityType
<1>3. DOMAIN list = 1..Cardinality(cuts)
  BY DEF Split
<1> HIDE DEF list
<1>4. DOMAIN Sorted(list) = DOMAIN list
  BY DEF Sorted
<1>5. GroupsOf[a] = Sorted(list)
  BY DEF GroupsOf, GetGroups, list
<1> QED
  BY <1>2, <1>3, <1>4, <1>5

\* The positions in it that count are numbers.
LEMMA WantedNumbers ==
    ASSUME NEW a \in Articles
    PROVE  /\ DOMAIN GroupsOf[a] \in SUBSET Nat
           /\ Wanted(a) \in SUBSET Nat /\ IsFiniteSet(Wanted(a))
           /\ Wanted(a) \subseteq DOMAIN GroupsOf[a]
<1>1. PICK k \in Nat : DOMAIN GroupsOf[a] = 1..k
  BY GroupsAreList
<1>2. Wanted(a) \subseteq DOMAIN GroupsOf[a]
  BY DEF Wanted
<1>3. IsFiniteSet(1..k)
  BY FS_Interval
<1> QED
  BY <1>1, <1>2, <1>3, FS_Subset

\* A group of a wanted hierarchy counts at the first of its positions.
LEMMA FirstOfGroup ==
    ASSUME NEW a \in Articles, NEW n \in DOMAIN GroupsOf[a],
           HierarchyOf(GroupsOf[a][n]) \in Hierarchies
    PROVE  \E m \in Wanted(a) : GroupsOf[a][m] = GroupsOf[a][n]
<1> DEFINE g    == GroupsOf[a]
           Same == {m \in DOMAIN g : g[m] = g[n]}
<1>1. PICK k \in Nat : DOMAIN g = 1..k
  BY GroupsAreList
<1>2. Same \in SUBSET Nat /\ Same # {}
  BY <1>1
<1>3. PICK m \in Same : \A i \in Same : m <= i
  <2> HIDE DEF Same
  <2> QED
    BY <1>2, LeastOf
<1>4. m \in 1..k /\ g[m] = g[n]
  BY <1>1, <1>3
<1>5. m = 1 \/ g[m - 1] # g[m]
  <2> SUFFICES ASSUME m # 1, g[m - 1] = g[m] PROVE FALSE
    OBVIOUS
  <2>1. m - 1 \in 1..k
    BY <1>4
  <2>2. m - 1 \in Same
    BY <1>1, <1>4, <2>1
  <2>3. m <= m - 1
    BY <1>3, <2>2
  <2> QED
    BY <1>4, <2>3
<1> QED
  BY <1>1, <1>4, <1>5 DEF Wanted

\* What is visited are the groups of wanted hierarchies.
LEMMA VisitedGroups ==
    ASSUME NEW a \in Articles, NEW g
    PROVE  g \in GroupVisits[a] <=>
             g \in Range(GroupsOf[a]) /\ HierarchyOf(g) \in Hierarchies
<1>1. GroupVisits[a] = {GroupsOf[a][n] : n \in Wanted(a)}
  BY DEF GroupVisits
<1>2. ASSUME g \in GroupVisits[a]
      PROVE  g \in Range(GroupsOf[a]) /\ HierarchyOf(g) \in Hierarchies
  BY <1>1, <1>2 DEF Wanted, Range
<1>3. ASSUME g \in Range(GroupsOf[a]), HierarchyOf(g) \in Hierarchies
      PROVE  g \in GroupVisits[a]
  <2>1. PICK n \in DOMAIN GroupsOf[a] : GroupsOf[a][n] = g
    BY <1>3 DEF Range
  <2> QED
    BY <1>1, <1>3, <2>1, FirstOfGroup
<1> QED
  BY <1>2, <1>3

\* An article is in hierarchy h.
InHierarchyOf(a, h) == \E g \in Range(GroupsOf[a]) : HierarchyOf(g) = h

\* Each wanted hierarchy of an article is visited once.
LEMMA VisitedOnce ==
    ASSUME NEW a \in Articles, NEW h \in Hierarchies
    PROVE  HierarchyVisits[a][h] = IF InHierarchyOf(a, h) THEN 1 ELSE 0
<1> DEFINE Named(n)   == HierarchyOf(GroupsOf[a][n])
           Earlier(n) == {m \in Wanted(a) : m < n}
           Visits     == {n \in Wanted(a) :
                            /\ Named(n) = h
                            /\ Earlier(n) = {} \/ Named(Max(Earlier(n))) # h}
<1>0. /\ Wanted(a) \in SUBSET Nat /\ IsFiniteSet(Wanted(a))
      /\ Wanted(a) \subseteq DOMAIN GroupsOf[a]
  BY WantedNumbers
<1>1. HierarchyVisits[a][h] = Cardinality(Visits)
  BY DEF HierarchyVisits
<1>2. ASSUME NEW n \in Wanted(a), Earlier(n) # {}
      PROVE  /\ Max(Earlier(n)) \in Wanted(a) /\ Max(Earlier(n)) < n
             /\ \A m \in Wanted(a) : m < n => m <= Max(Earlier(n))
  <2>1. Earlier(n) \in SUBSET Nat /\ IsFiniteSet(Earlier(n))
    BY <1>0, FS_Subset
  <2> HIDE DEF Earlier
  <2>2. /\ Max(Earlier(n)) \in Earlier(n)
        /\ \A m \in Earlier(n) : m <= Max(Earlier(n))
    BY <1>2, <2>1, MaxOf
  <2> QED
    BY <2>2 DEF Earlier
<1>3. ASSUME NEW m \in Visits, NEW n \in Visits, m < n
      PROVE  FALSE
  <2>1. m \in Wanted(a) /\ n \in Wanted(a) /\ Named(m) = h /\ Named(n) = h
    OBVIOUS
  <2>2. m \in Earlier(n)
    BY <1>3, <2>1
  <2>3. Named(Max(Earlier(n))) # h
    BY <2>2
  <2> DEFINE k == Max(Earlier(n))
  <2>4. k \in Wanted(a) /\ k < n /\ m <= k
    BY <1>2, <1>3, <2>1, <2>2
  <2>5. k # m
    BY <2>1, <2>3
  <2>6. m < k
    <3>1. m \in Nat /\ k \in Nat
      BY <1>0, <2>1, <2>4
    <3> QED
      BY <2>4, <2>5, <3>1
  <2> HIDE DEF k
  <2>7. Named(k) = Named(m)
    BY <2>1, <2>4, <2>6, ContiguousAssumption
  <2> QED
    BY <2>1, <2>3, <2>7 DEF k
<1>4. \A m, n \in Visits : m = n
  <2> SUFFICES ASSUME NEW m \in Visits, NEW n \in Visits, m # n PROVE FALSE
    OBVIOUS
  <2>1. m \in Nat /\ n \in Nat
    BY <1>0
  <2>2. m < n \/ n < m
    BY <2>1
  <2> QED
    BY <1>3, <2>2
<1>5. CASE InHierarchyOf(a, h)
  <2>1. PICK i \in DOMAIN GroupsOf[a] : Named(i) = h
    BY <1>5 DEF InHierarchyOf, Range
  <2>2. PICK j \in Wanted(a) : GroupsOf[a][j] = GroupsOf[a][i]
    BY <2>1, FirstOfGroup
  <2> DEFINE Of == {n \in Wanted(a) : Named(n) = h}
  <2>3. Of \in SUBSET Nat /\ Of # {}
    BY <1>0, <2>1, <2>2
  <2>4. PICK n \in Of : \A m \in Of : n <= m
    <3> HIDE DEF Of
    <3> QED
      BY <2>3, LeastOf
  <2>5. Earlier(n) = {} \/ Named(Max(Earlier(n))) # h
    <3> SUFFICES ASSUME Earlier(n) # {}, Named(Max(Earlier(n))) = h PROVE FALSE
      OBVIOUS
    <3> DEFINE k == Max(Earlier(n))
    <3>1. k \in Wanted(a) /\ k < n
      BY <1>2
    <3>2. k \in Of
      BY <3>1
    <3>3. n <= k
      BY <2>4, <3>2
    <3>4. n \in Nat /\ k \in Nat
      BY <1>0, <3>1
    <3> HIDE DEF k
    <3> QED
      BY <3>1, <3>3, <3>4
  <2>6. n \in Visits
    BY <2>4, <2>5
  <2> HIDE DEF Visits
  <2>7. Visits = {n}
    BY <1>4, <2>6
  <2>8. Cardinality({n}) = 1
    BY FS_Singleton
  <2> QED
    BY <1>1, <1>5, <2>7, <2>8
<1>6. CASE ~InHierarchyOf(a, h)
  <2>1. \A n \in Wanted(a) : Named(n) # h
    BY <1>0, <1>6 DEF InHierarchyOf, Range
  <2>2. Visits = {}
    BY <2>1
  <2> HIDE DEF Visits
  <2> QED
    BY <1>1, <1>6, <2>2, FS_EmptySet
<1> QED
  BY <1>5, <1>6

-------------------------------------------------------------------------------
(* The counts.                                                             *)

Froms(as) == {a.from : a \in as}

\* What a bucket says of the articles that were counted in it.
BucketCounts(b, as) ==
    /\ b.articles = Cardinality(as) /\ b.bytes = Bytes(as)
    /\ b.senders = Froms(as) /\ b.senderCount = Cardinality(Froms(as))

OfHierarchy(h, as) == {a \in as : InHierarchyOf(a, h)}
OfGroup(g, as)     == {a \in as : g \in Range(GroupsOf[a])}
WithValue(v, of, as) == {a \in as : of[a] = v}

\* What one value of a property says of them.
ValueCounts(p, as) ==
    /\ p.articles = Cardinality(as)
    /\ p.senders = Froms(as) /\ p.senderCount = Cardinality(Froms(as))

\* A property, when article a has the value of[a].
PropertyCounts(values, of, as) ==
    /\ DOMAIN values = {of[a] : a \in as}
    /\ \A v \in DOMAIN values : ValueCounts(values[v], WithValue(v, of, as))

AgentOf   == [a \in Articles |-> UserAgent(a)]
CharsetOf == [a \in Articles |-> Charset(a)]

TotalBucket == [articles : Nat, bytes : Nat, senders : {{}}, senderCount : {0}]

\* What the totals, which keep no senders, say of the articles counted.
TotalCounts(t, as) ==
    /\ t \in TotalBucket
    /\ t.articles = Cardinality(as) /\ t.bytes = Bytes(as)

\* Figures f count the articles of the set as.
FiguresCount(f, as) ==
    /\ TotalCounts(f.all, as)
    /\ \A h \in Hierarchies : BucketCounts(f.hierarchies[h], OfHierarchy(h, as))
    /\ DOMAIN f.groups = UNION {GroupVisits[a] : a \in as}
    /\ \A g \in DOMAIN f.groups : BucketCounts(f.groups[g], OfGroup(g, as))
    /\ PropertyCounts(f.useragents, AgentOf, as)
    /\ PropertyCounts(f.charsets, CharsetOf, as)

\* In every state of a scan, and not only at its end, the figures are those of
\* the articles met, and all of these are in the interval; a run begins with
\* none.
Counting ==
    /\ IsFiniteSet(Met)
    /\ pc \in {"idle", "scan", "logs"} =>
          FiguresCount(figures, Met) /\ \A a \in Met : Sampled(a)

\* The senders of one article more.
LEMMA OneMoreSender ==
    ASSUME NEW as, NEW a
    PROVE  Froms(as \cup {a}) = Froms(as) \cup {a.from}
BY DEF Froms

\* A bucket of no articles.
LEMMA EmptyCounts == BucketCounts(EmptyBucket, {})
<1>1. Froms({}) = {}
  BY DEF Froms
<1>2. Cardinality({}) = 0 /\ Bytes({}) = 0
  BY FS_EmptySet, BytesFirst
<1> QED
  BY <1>1, <1>2 DEF BucketCounts, EmptyBucket

\* Visiting it counts one article more.
LEMMA VisitCounts ==
    ASSUME NEW as \in SUBSET Articles, IsFiniteSet(as), NEW a \in Articles, a \notin as,
           NEW b, BucketCounts(b, as)
    PROVE  BucketCounts(VisitBucket(b, a, 1), as \cup {a})
<1> DEFINE v == VisitBucket(b, a, 1)
           bs == as \cup {a}
<1>1. /\ v.articles = b.articles + 1 /\ v.bytes = b.bytes + 1 * a.size
      /\ v.senders = b.senders \cup {a.from}
      /\ v.senderCount = Cardinality(b.senders \cup {a.from})
  BY DEF VisitBucket
<1>2. /\ b.articles = Cardinality(as) /\ b.bytes = Bytes(as) /\ b.senders = Froms(as)
  BY DEF BucketCounts
<1>3. /\ Cardinality(bs) = Cardinality(as) + 1 /\ Bytes(bs) = Bytes(as) + a.size
  BY OneMore
<1>4. Froms(bs) = Froms(as) \cup {a.from}
  BY OneMoreSender
<1>5. 1 * a.size = a.size
  <2>1. \A n \in Nat : 1 * n = n
    OBVIOUS
  <2> QED
    BY <2>1, ArticlesAssumption
<1> HIDE DEF v, bs
<1> QED
  BY <1>1, <1>2, <1>3, <1>4, <1>5 DEF BucketCounts, v, bs

\* No visit leaves it as it was.
LEMMA NoVisit == ASSUME NEW b, NEW a PROVE VisitBucket(b, a, 0) = b
BY DEF VisitBucket

\* Updating a property counts one article more for its value.
LEMMA UpdateCounts ==
    ASSUME NEW as \in SUBSET Articles, IsFiniteSet(as), NEW a \in Articles, a \notin as,
           NEW values, NEW of, PropertyCounts(values, of, as)
    PROVE  PropertyCounts(Update(values, a, of[a]), of, as \cup {a})
<1> DEFINE w    == of[a]
           bs   == as \cup {a}
           zero == [articles |-> 0, senders |-> {}, senderCount |-> 0]
           old  == IF w \in DOMAIN values THEN values[w] ELSE zero
           new  == [articles |-> old.articles + 1, senders |-> old.senders \cup {a.from},
                    senderCount |-> Cardinality(old.senders \cup {a.from})]
           u    == Update(values, a, w)
           these == WithValue(w, of, as)
<1>1. /\ DOMAIN values = {of[b] : b \in as}
      /\ \A v \in DOMAIN values : ValueCounts(values[v], WithValue(v, of, as))
  BY DEF PropertyCounts
<1>2. u = [v \in DOMAIN values \cup {w} |-> IF v = w THEN new ELSE values[v]]
  BY DEF Update
<1>3. /\ DOMAIN u = DOMAIN values \cup {w}
      /\ u[w] = new /\ \A v \in DOMAIN values : v # w => u[v] = values[v]
  <2> HIDE DEF u, new, w
  <2> QED
    BY <1>2
<1>4. DOMAIN u = {of[b] : b \in bs}
  <2> HIDE DEF u
  <2> QED
    BY <1>1, <1>3
<1>5. these \in SUBSET Articles /\ IsFiniteSet(these) /\ a \notin these
  BY FS_Subset DEF WithValue
<1>6. WithValue(w, of, bs) = these \cup {a}
  BY DEF WithValue
<1>7. ASSUME NEW v, v # w PROVE WithValue(v, of, bs) = WithValue(v, of, as)
  BY <1>7 DEF WithValue
<1>8. old.articles = Cardinality(these) /\ old.senders = Froms(these)
  <2>1. CASE w \in DOMAIN values
    <3>1. ValueCounts(values[w], these)
      BY <1>1, <2>1
    <3>2. old = values[w]
      BY <2>1
    <3> HIDE DEF old, these
    <3> QED
      BY <3>1, <3>2 DEF ValueCounts
  <2>2. CASE w \notin DOMAIN values
    <3>1. these = {}
      BY <1>1, <2>2 DEF WithValue
    <3>2. old.articles = 0 /\ old.senders = {}
      BY <2>2
    <3>3. Froms({}) = {} /\ Cardinality({}) = 0
      BY FS_EmptySet DEF Froms
    <3> HIDE DEF old, these
    <3> QED
      BY <3>1, <3>2, <3>3
  <2> QED
    BY <2>1, <2>2
<1>9. ValueCounts(new, these \cup {a})
  <2>1. Cardinality(these \cup {a}) = Cardinality(these) + 1
    <3> HIDE DEF these
    <3> QED
      BY <1>5, OneMore
  <2>2. Froms(these \cup {a}) = Froms(these) \cup {a.from}
    BY OneMoreSender
  <2>3. /\ new.articles = old.articles + 1 /\ new.senders = old.senders \cup {a.from}
        /\ new.senderCount = Cardinality(old.senders \cup {a.from})
    <3> HIDE DEF old
    <3> QED
      OBVIOUS
  <2> HIDE DEF these, old, new
  <2> QED
    BY <1>8, <2>1, <2>2, <2>3 DEF ValueCounts
<1>10. ASSUME NEW v \in DOMAIN u PROVE ValueCounts(u[v], WithValue(v, of, bs))
  <2> HIDE DEF u, bs, new, these
  <2>1. CASE v = w
    BY <1>3, <1>6, <1>9, <2>1
  <2>2. CASE v # w
    <3> HIDE DEF w
    <3>1. v \in DOMAIN values /\ u[v] = values[v]
      BY <1>3, <2>2
    <3>2. WithValue(v, of, bs) = WithValue(v, of, as)
      BY <1>7, <2>2
    <3> QED
      BY <1>1, <3>1, <3>2
  <2> QED
    BY <2>1, <2>2
<1> QED
  <2> HIDE DEF u, bs
  <2>1. PropertyCounts(u, of, bs)
    BY <1>4, <1>10 DEF PropertyCounts
  <2> QED
    BY <2>1 DEF u, bs

\* No articles make no figures.
LEMMA NothingCounted == FiguresCount(EmptyFigures, {})
<1> DEFINE f == EmptyFigures
<1>1. /\ f.all = EmptyBucket /\ \A h \in Hierarchies : f.hierarchies[h] = EmptyBucket
      /\ f.groups = <<>> /\ f.useragents = <<>> /\ f.charsets = <<>>
  BY DEF EmptyFigures
<1>2. Cardinality({}) = 0 /\ Bytes({}) = 0
  BY FS_EmptySet, BytesFirst
<1>3. /\ EmptyBucket \in TotalBucket /\ EmptyBucket.articles = 0 /\ EmptyBucket.bytes = 0
  BY DEF EmptyBucket, TotalBucket
<1>4. DOMAIN <<>> = {}
  OBVIOUS
<1>5. \A of : PropertyCounts(<<>>, of, {})
  BY <1>4 DEF PropertyCounts
<1>6. \A h : OfHierarchy(h, {}) = {}
  BY DEF OfHierarchy
<1>7. UNION {GroupVisits[a] : a \in {}} = {}
  OBVIOUS
<1> HIDE DEF f
<1>8. FiguresCount(f, {})
  BY <1>1, <1>2, <1>3, <1>4, <1>5, <1>6, <1>7, EmptyCounts DEF FiguresCount, TotalCounts
<1> QED
  BY <1>8 DEF f

\* The totals with an article more.
LEMMA TotalsCounted ==
    ASSUME NEW as \in SUBSET Articles, IsFiniteSet(as), NEW a \in Articles, a \notin as,
           NEW b, TotalCounts(b, as)
    PROVE  TotalCounts([b EXCEPT !.articles = @ + 1, !.bytes = @ + a.size], as \cup {a})
<1> DEFINE c == [b EXCEPT !.articles = @ + 1, !.bytes = @ + a.size]
<1>0. b \in TotalBucket /\ b.articles = Cardinality(as) /\ b.bytes = Bytes(as)
  BY DEF TotalCounts
<1>1. b.articles \in Nat /\ b.bytes \in Nat /\ a.size \in Nat
  BY <1>0, ArticlesAssumption DEF TotalBucket
<1>2. b.articles + 1 \in Nat /\ b.bytes + a.size \in Nat
  <2>1. \A m, n \in Nat : m + n \in Nat
    OBVIOUS
  <2> QED
    BY <1>1, <2>1
<1>3. c \in TotalBucket /\ c.articles = b.articles + 1 /\ c.bytes = b.bytes + a.size
  BY <1>0, <1>2 DEF TotalBucket
<1> HIDE DEF c
<1>4. c.articles = Cardinality(as \cup {a}) /\ c.bytes = Bytes(as \cup {a})
  BY <1>0, <1>3, OneMore
<1>5. TotalCounts(c, as \cup {a})
  BY <1>3, <1>4 DEF TotalCounts
<1> QED
  BY <1>5 DEF c

\* What visiting article a makes of the bucket of hierarchy h.
HierarchyStep(b, a, h, as) ==
    BucketCounts(VisitBucket(b, a, HierarchyVisits[a][h]), OfHierarchy(h, as \cup {a}))

\* The hierarchies of an article, each once.
LEMMA HierarchyCounted ==
    ASSUME NEW as \in SUBSET Articles, IsFiniteSet(as), NEW a \in Articles, a \notin as,
           NEW h \in Hierarchies, NEW b, BucketCounts(b, OfHierarchy(h, as))
    PROVE  HierarchyStep(b, a, h, as)
<1> SUFFICES BucketCounts(VisitBucket(b, a, HierarchyVisits[a][h]),
                          OfHierarchy(h, as \cup {a}))
  BY DEF HierarchyStep
<1> DEFINE these == OfHierarchy(h, as)
<1>1. these \in SUBSET Articles /\ IsFiniteSet(these) /\ a \notin these
  BY FS_Subset DEF OfHierarchy
<1>2. CASE InHierarchyOf(a, h)
  <2>1. OfHierarchy(h, as \cup {a}) = these \cup {a}
    BY <1>2 DEF OfHierarchy
  <2>2. HierarchyVisits[a][h] = 1
    BY <1>2, VisitedOnce
  <2> HIDE DEF these
  <2>3. BucketCounts(VisitBucket(b, a, 1), these \cup {a})
    <3>1. BucketCounts(b, these)
      BY DEF these
    <3> QED
      BY <1>1, <3>1, VisitCounts
  <2> QED
    BY <2>1, <2>2, <2>3
<1>3. CASE ~InHierarchyOf(a, h)
  <2>1. OfHierarchy(h, as \cup {a}) = OfHierarchy(h, as)
    BY <1>3 DEF OfHierarchy
  <2>2. HierarchyVisits[a][h] = 0
    BY <1>3, VisitedOnce
  <2> QED
    BY <2>1, <2>2, NoVisit
<1> QED
  BY <1>2, <1>3

\* And of that of group g.
GroupStep(groups, a, g, as) ==
    BucketCounts(VisitBucket(At(groups, g), a, IF g \in GroupVisits[a] THEN 1 ELSE 0),
                 OfGroup(g, as \cup {a}))

\* The groups of an article, each once.
LEMMA GroupCounted ==
    ASSUME NEW as \in SUBSET Articles, IsFiniteSet(as), NEW a \in Articles, a \notin as,
           NEW groups, DOMAIN groups = UNION {GroupVisits[b] : b \in as},
           \A g \in DOMAIN groups : BucketCounts(groups[g], OfGroup(g, as)),
           NEW g \in DOMAIN groups \cup GroupVisits[a]
    PROVE  GroupStep(groups, a, g, as)
<1> SUFFICES BucketCounts(VisitBucket(At(groups, g), a, IF g \in GroupVisits[a] THEN 1 ELSE 0),
                          OfGroup(g, as \cup {a}))
  BY DEF GroupStep
<1> DEFINE these == OfGroup(g, as)
           b     == At(groups, g)
<1>1. these \in SUBSET Articles /\ IsFiniteSet(these) /\ a \notin these
  BY FS_Subset DEF OfGroup
<1>2. HierarchyOf(g) \in Hierarchies
  BY VisitedGroups
<1>3. BucketCounts(b, these)
  <2>1. CASE g \in DOMAIN groups
    BY <2>1 DEF At
  <2>2. CASE g \notin DOMAIN groups
    <3>1. these = {}
      <4> SUFFICES ASSUME NEW c \in as, g \in Range(GroupsOf[c]) PROVE FALSE
        BY DEF OfGroup
      <4>1. g \in GroupVisits[c]
        BY <1>2, VisitedGroups
      <4> QED
        BY <2>2, <4>1
    <3>2. b = EmptyBucket
      BY <2>2 DEF At
    <3> QED
      BY <3>1, <3>2, EmptyCounts
  <2> QED
    BY <2>1, <2>2
<1> HIDE DEF b
<1>4. CASE g \in GroupVisits[a]
  <2>1. OfGroup(g, as \cup {a}) = these \cup {a}
    BY <1>4, VisitedGroups DEF OfGroup
  <2> HIDE DEF these
  <2>2. BucketCounts(VisitBucket(b, a, 1), these \cup {a})
    BY <1>1, <1>3, VisitCounts
  <2> QED
    BY <1>4, <2>1, <2>2 DEF b
<1>5. CASE g \notin GroupVisits[a]
  <2>1. OfGroup(g, as \cup {a}) = these
    BY <1>2, <1>5, VisitedGroups DEF OfGroup
  <2> HIDE DEF these
  <2> QED
    BY <1>3, <1>5, <2>1, NoVisit DEF b
<1> QED
  BY <1>4, <1>5

\* AllGroups::visit() makes the figures those of one article more.
LEMMA FiguresCounted ==
    ASSUME NEW as \in SUBSET Articles, IsFiniteSet(as), NEW a \in Articles, a \notin as,
           NEW f, FiguresCount(f, as)
    PROVE  FiguresCount(Counted(f, a), as \cup {a})
<1> DEFINE bs == as \cup {a}
           c  == Counted(f, a)
<1>1. /\ c.all = [f.all EXCEPT !.articles = @ + 1, !.bytes = @ + a.size]
      /\ c.useragents = Update(f.useragents, a, UserAgent(a))
      /\ c.charsets = Update(f.charsets, a, Charset(a))
      /\ c.groups = VisitGroups(f.groups, a)
      /\ \A h \in Hierarchies :
            c.hierarchies[h] = VisitBucket(f.hierarchies[h], a, HierarchyVisits[a][h])
  BY DEF Counted
<1>2. /\ TotalCounts(f.all, as)
      /\ \A h \in Hierarchies : BucketCounts(f.hierarchies[h], OfHierarchy(h, as))
      /\ DOMAIN f.groups = UNION {GroupVisits[b] : b \in as}
      /\ \A g \in DOMAIN f.groups : BucketCounts(f.groups[g], OfGroup(g, as))
      /\ PropertyCounts(f.useragents, AgentOf, as)
      /\ PropertyCounts(f.charsets, CharsetOf, as)
  BY DEF FiguresCount
<1> HIDE DEF c
<1>3. TotalCounts(c.all, bs)
  <2> DEFINE b == f.all
             d == [b EXCEPT !.articles = @ + 1, !.bytes = @ + a.size]
  <2>1. TotalCounts(b, as) /\ c.all = d
    BY <1>1, <1>2
  <2> HIDE DEF b
  <2>2. TotalCounts(d, bs)
    BY <2>1, TotalsCounted
  <2> HIDE DEF d, bs
  <2> QED
    BY <2>1, <2>2
<1>4. ASSUME NEW h \in Hierarchies
      PROVE  BucketCounts(c.hierarchies[h], OfHierarchy(h, bs))
  <2> DEFINE b == f.hierarchies[h]
  <2>1. BucketCounts(b, OfHierarchy(h, as))
    BY <1>2
  <2>2. c.hierarchies[h] = VisitBucket(b, a, HierarchyVisits[a][h])
    BY <1>1
  <2> HIDE DEF b
  <2>3. HierarchyStep(b, a, h, as)
    BY <2>1, HierarchyCounted
  <2> QED
    BY <2>2, <2>3 DEF HierarchyStep
<1>5. /\ DOMAIN c.groups = DOMAIN f.groups \cup GroupVisits[a]
      /\ \A g \in DOMAIN c.groups :
            c.groups[g] = VisitBucket(At(f.groups, g), a, IF g \in GroupVisits[a] THEN 1 ELSE 0)
  <2> DEFINE D == DOMAIN f.groups \cup GroupVisits[a]
             V(g) == VisitBucket(At(f.groups, g), a, IF g \in GroupVisits[a] THEN 1 ELSE 0)
  <2>1. c.groups = [g \in D |-> V(g)]
    BY <1>1 DEF VisitGroups
  <2> HIDE DEF D, V
  <2>2. DOMAIN c.groups = D /\ \A g \in D : c.groups[g] = V(g)
    BY <2>1
  <2> QED
    BY <2>2 DEF D, V
<1>6. DOMAIN c.groups = UNION {GroupVisits[b] : b \in bs}
  BY <1>2, <1>5
<1>7. ASSUME NEW g \in DOMAIN c.groups
      PROVE  BucketCounts(c.groups[g], OfGroup(g, bs))
  <2> DEFINE gs == f.groups
  <2>1. /\ DOMAIN gs = UNION {GroupVisits[b] : b \in as}
        /\ \A k \in DOMAIN gs : BucketCounts(gs[k], OfGroup(k, as))
        /\ g \in DOMAIN gs \cup GroupVisits[a]
    BY <1>2, <1>5
  <2>2. c.groups[g] = VisitBucket(At(gs, g), a, IF g \in GroupVisits[a] THEN 1 ELSE 0)
    BY <1>5
  <2> HIDE DEF gs
  <2>3. GroupStep(gs, a, g, as)
    BY <2>1, GroupCounted
  <2> QED
    BY <2>2, <2>3 DEF GroupStep
<1>8. PropertyCounts(c.useragents, AgentOf, bs)
  <2>1. AgentOf[a] = UserAgent(a)
    BY DEF AgentOf
  <2>2. PropertyCounts(Update(f.useragents, a, AgentOf[a]), AgentOf, bs)
    BY <1>2, UpdateCounts
  <2> QED
    BY <1>1, <2>1, <2>2
<1>9. PropertyCounts(c.charsets, CharsetOf, bs)
  <2>1. CharsetOf[a] = Charset(a)
    BY DEF CharsetOf
  <2>2. PropertyCounts(Update(f.charsets, a, CharsetOf[a]), CharsetOf, bs)
    BY <1>2, UpdateCounts
  <2> QED
    BY <1>1, <2>1, <2>2
<1> HIDE DEF bs
<1>10. FiguresCount(c, bs)
  BY <1>3, <1>4, <1>6, <1>7, <1>8, <1>9 DEF FiguresCount
<1> QED
  BY <1>10 DEF c, bs
\* Before the first run nothing has been counted.
LEMMA CountingInit == Init => Counting
<1> SUFFICES ASSUME Init PROVE Counting
  OBVIOUS
<1>1. seen = {} /\ figures = EmptyFigures
  BY DEF Init
<1>2. Met = {}
  BY <1>1 DEF Met
<1> QED
  BY <1>1, <1>2, NothingCounted, FS_EmptySet DEF Counting

\* The steps that count nothing keep the figures exact.
LEMMA CountingKept ==
    ASSUME Counting, UNCHANGED <<run, seen, figures>>,
           pc' \in {"idle", "scan", "logs"} => pc \in {"idle", "scan", "logs"}
    PROVE  Counting'
<1>1. Met' = Met
  BY DEF Met
<1>2. \A a : Sampled(a)' <=> Sampled(a)
  BY DEF Sampled, start_time
<1> QED
  BY <1>1, <1>2 DEF Counting

\* And so do those that end the run, which forgets them.
LEMMA CountingEnd == ASSUME End PROVE Counting'
<1>1. seen' = {} /\ figures' = EmptyFigures
  BY DEF End
<1>2. Met' = {}
  BY <1>1 DEF Met
<1> QED
  BY <1>1, <1>2, NothingCounted, FS_EmptySet DEF Counting

\* An article that is met is counted, if it is in the interval and new.
LEMMA CountingVisit ==
    ASSUME TypeInv, Counting, pc = "scan", stack # <<>>,
           NEW e \in dir.unread \cup Entries(dir.dir), Visit(e)
    PROVE  Counting'
<1> DEFINE a == spool[dir.dir][e[1]]
<1>1. UNCHANGED <<pc, run>>
  BY DEF Visit
<1>2. /\ e \in Entries(dir.dir) /\ e[2] = <<>>
      /\ \/ Sampled(a) /\ a.mid \notin seen /\ seen' = seen \cup {a.mid}
            /\ figures' = Counted(figures, a)
         \/ UNCHANGED <<seen, figures>>
  BY DEF Visit
<1>3. a \in Articles
  <2>1. Shape
    BY DEF TypeInv
  <2>2. dir.dir \in Directories
    BY <2>1, ReadFrame, FrameFields
  <2> QED
    BY <1>2, <2>1, <2>2, EntryIs
<1> HIDE DEF a
<1>4. CASE UNCHANGED <<seen, figures>>
  BY <1>1, <1>4, CountingKept
<1>5. CASE Sampled(a) /\ a.mid \notin seen /\ seen' = seen \cup {a.mid}
           /\ figures' = Counted(figures, a)
  <2>1. Met' = Met \cup {a} /\ a \notin Met /\ Met \in SUBSET Articles
    <3>1. \A b \in Articles : b.mid = a.mid => b = a
      BY <1>3, ArticlesAssumption
    <3> QED
      BY <1>3, <1>5, <3>1 DEF Met
  <2>2. IsFiniteSet(Met) /\ FiguresCount(figures, Met) /\ \A b \in Met : Sampled(b)
    BY DEF Counting
  <2>3. FiguresCount(Counted(figures, a), Met \cup {a}) /\ IsFiniteSet(Met \cup {a})
    <3> DEFINE m == Met
               f == figures
    <3>1. m \in SUBSET Articles /\ IsFiniteSet(m) /\ a \notin m /\ FiguresCount(f, m)
      BY <2>1, <2>2
    <3> HIDE DEF m, f
    <3>2. FiguresCount(Counted(f, a), m \cup {a}) /\ IsFiniteSet(m \cup {a})
      BY <1>3, <3>1, FiguresCounted, FS_AddElement
    <3> QED
      BY <3>2 DEF m, f
  <2>4. \A b : Sampled(b)' <=> Sampled(b)
    BY <1>1 DEF Sampled, start_time
  <2>5. \A b \in Met' : Sampled(b)'
    BY <1>5, <2>1, <2>2, <2>4
  <2>6. IsFiniteSet(Met') /\ FiguresCount(figures', Met')
    BY <1>5, <2>1, <2>3
  <2> QED
    BY <2>5, <2>6 DEF Counting
<1> QED
  BY <1>2, <1>4, <1>5

\* Every step keeps the figures exact.
LEMMA CountingNext ==
    ASSUME TypeInv, Counting, [Next]_vars
    PROVE  Counting'
<1>1. CASE \/ UNCHANGED vars \/ Tick
           \/ \E a \in Articles : Arrive(a)
           \/ \E g \in Active : \E n \in DOMAIN spool[g] : Expire(g, n)
  <2>1. UNCHANGED <<pc, run, seen, figures>>
    BY <1>1 DEF vars, Tick, Arrive, Expire
  <2> QED
    BY <2>1, CountingKept
<1>2. CASE \E scan, graph \in BOOLEAN : Options(scan, graph)
  <2>1. pc = "idle" /\ UNCHANGED <<seen, figures>>
    BY <1>2 DEF Options
  <2>2. Met = {} /\ Met' = {}
    BY <2>1 DEF Met, TypeInv, Shape
  <2>3. FiguresCount(figures', Met')
    BY <2>1, <2>2 DEF Counting
  <2> QED
    BY <2>2, <2>3, FS_EmptySet DEF Counting
<1>3. CASE Killed \/ LogCutOff \/ ReadLogFails \/ PageCutOff
  BY <1>3, CountingEnd DEF Killed, LogCutOff, ReadLogFails, PageCutOff
<1>4. CASE ScanHierarchy \/ CloseDir \/ ScanEnds
  <2>1. CASE End
    BY <2>1, CountingEnd
  <2>2. CASE ~End
    <3>1. pc = "scan" /\ UNCHANGED <<run, seen, figures>>
      BY <1>4, <2>2 DEF ScanHierarchy, CloseDir, ScanEnds
    <3> QED
      BY <3>1, CountingKept
  <2> QED
    BY <2>1, <2>2
<1>5. CASE ReadDirectory
  <2>1. pc = "scan" /\ stack # <<>>
    BY <1>5 DEF ReadDirectory
  <2>2. PICK e \in dir.unread \cup Entries(dir.dir) : Step(e)
    BY <1>5 DEF ReadDirectory
  <2>3. CASE SkipLow(e) \/ Recurse(e) \/ TooEarly(e)
    <3>1. UNCHANGED <<pc, run, seen, figures>>
      BY <2>3 DEF SkipLow, Recurse, TooEarly
    <3> QED
      BY <3>1, CountingKept
  <2>4. CASE Vanished(e)
    BY <2>4, CountingEnd DEF Vanished
  <2>5. CASE Visit(e)
    BY <2>1, <2>5, CountingVisit
  <2> QED
    BY <2>2, <2>3, <2>4, <2>5 DEF Step
<1>6. CASE WriteLog \/ Graph \/ WritePage
  <2>1. CASE End
    BY <2>1, CountingEnd
  <2>2. CASE ~End
    <3>1. /\ UNCHANGED <<run, seen, figures>>
          /\ pc' \in {"graphs", "report"} \/ UNCHANGED pc
      BY <1>6, <2>2 DEF WriteLog, Graph, WritePage, NextFile
    <3> QED
      BY <3>1, CountingKept
  <2> QED
    BY <2>1, <2>2
<1>7. CASE ReadLog
  <2>1. CASE End
    BY <2>1, CountingEnd
  <2>2. CASE ~End
    <3>1. pc' \in {"readLogs", "graphs"} /\ UNCHANGED seen
      BY <1>7, <2>2 DEF ReadLog
    <3>2. Met' = Met
      BY <3>1 DEF Met
    <3> QED
      BY <3>1, <3>2 DEF Counting
  <2> QED
    BY <2>1, <2>2
<1> QED
  BY <1>1, <1>2, <1>3, <1>4, <1>5, <1>6, <1>7 DEF Next

\* The articles with value v are those that its entry says.
ExactAt(values, v, these) ==
    /\ these # {} /\ v \in DOMAIN values
    /\ values[v].articles = Cardinality(these)
    /\ Posters(values[v], these)

\* A property's table is exact when its figures are.
LEMMA PropertyIsExact ==
    ASSUME NEW values, NEW of, NEW as, PropertyCounts(values, of, as),
           NEW v \in DOMAIN values \cup {of[a] : a \in as}
    PROVE  ExactAt(values, v, WithValue(v, of, as))
<1>1. v \in DOMAIN values /\ ValueCounts(values[v], WithValue(v, of, as))
  BY DEF PropertyCounts
<1>2. WithValue(v, of, as) # {}
  BY <1>1 DEF PropertyCounts, WithValue
<1> QED
  BY <1>1, <1>2 DEF ValueCounts, Posters, Froms, ExactAt

\* At the end of a scan Counting says that the counts are exact.
LEMMA CountingExact == Counting => CountsExact
<1> SUFFICES ASSUME Counting, pc = "logs" PROVE CountsExact
  BY DEF CountsExact
<1>1. /\ FiguresCount(figures, Met) /\ \A a \in Met : Sampled(a)
      /\ Met \subseteq Articles
  BY DEF Counting, Met
<1>2. /\ TotalCounts(figures.all, Met)
      /\ \A h \in Hierarchies : BucketCounts(figures.hierarchies[h], OfHierarchy(h, Met))
      /\ DOMAIN figures.groups = UNION {GroupVisits[a] : a \in Met}
      /\ \A g \in DOMAIN figures.groups : BucketCounts(figures.groups[g], OfGroup(g, Met))
      /\ PropertyCounts(figures.useragents, AgentOf, Met)
      /\ PropertyCounts(figures.charsets, CharsetOf, Met)
  BY <1>1 DEF FiguresCount
<1>3. Totals(figures.all, Met)
  BY <1>2 DEF TotalCounts, Totals, Bytes
<1>4. \A b, as : BucketCounts(b, as) => Totals(b, as) /\ Posters(b, as)
  BY DEF BucketCounts, Totals, Posters, Bytes, Froms
<1>5. ASSUME NEW h \in Hierarchies
      PROVE  LET as == {a \in Met : \E g \in Range(GroupsOf[a]) : HierarchyOf(g) = h}
             IN Totals(figures.hierarchies[h], as) /\ Posters(figures.hierarchies[h], as)
  <2>1. OfHierarchy(h, Met) = {a \in Met : \E g \in Range(GroupsOf[a]) : HierarchyOf(g) = h}
    BY DEF OfHierarchy, InHierarchyOf
  <2> QED
    BY <1>2, <1>4, <2>1
<1>6. ASSUME NEW g \in DOMAIN figures.groups \cup UNION {GroupVisits[a] : a \in Met}
      PROVE  LET as == {a \in Met : g \in Range(GroupsOf[a])}
             IN /\ as # {} /\ g \in DOMAIN figures.groups
                /\ Totals(figures.groups[g], as) /\ Posters(figures.groups[g], as)
  <2>1. OfGroup(g, Met) = {a \in Met : g \in Range(GroupsOf[a])}
    BY DEF OfGroup
  <2>2. PICK a \in Met : g \in GroupVisits[a]
    BY <1>2
  <2>3. OfGroup(g, Met) # {}
    BY <1>1, <2>1, <2>2, VisitedGroups
  <2> QED
    BY <1>2, <1>4, <2>1, <2>3
<1>7. PropertyExact(figures.useragents, UserAgent)
  <2>1. \A a \in Met : AgentOf[a] = UserAgent(a)
    BY <1>1 DEF AgentOf
  <2>2. \A v : WithValue(v, AgentOf, Met) = {a \in Met : UserAgent(a) = v}
    BY <2>1 DEF WithValue
  <2>3. {AgentOf[a] : a \in Met} = {UserAgent(a) : a \in Met}
    BY <2>1
  <2> DEFINE values == figures.useragents
  <2>4. ASSUME NEW v \in DOMAIN values \cup {UserAgent(a) : a \in Met}
        PROVE  ExactAt(values, v, {a \in Met : UserAgent(a) = v})
    <3>1. PropertyCounts(values, AgentOf, Met)
      BY <1>2
    <3>2. v \in DOMAIN values \cup {AgentOf[a] : a \in Met}
      BY <2>3
    <3> HIDE DEF values
    <3>3. ExactAt(values, v, WithValue(v, AgentOf, Met))
      BY <3>1, <3>2, PropertyIsExact
    <3> QED
      BY <2>2, <3>3
  <2> HIDE DEF values
  <2>5. PropertyExact(values, UserAgent)
    BY <2>4 DEF PropertyExact, ExactAt
  <2> QED
    BY <2>5 DEF values
<1>8. PropertyExact(figures.charsets, Charset)
  <2>1. \A a \in Met : CharsetOf[a] = Charset(a)
    BY <1>1 DEF CharsetOf
  <2>2. \A v : WithValue(v, CharsetOf, Met) = {a \in Met : Charset(a) = v}
    BY <2>1 DEF WithValue
  <2>3. {CharsetOf[a] : a \in Met} = {Charset(a) : a \in Met}
    BY <2>1
  <2> DEFINE values == figures.charsets
  <2>4. ASSUME NEW v \in DOMAIN values \cup {Charset(a) : a \in Met}
        PROVE  ExactAt(values, v, {a \in Met : Charset(a) = v})
    <3>1. PropertyCounts(values, CharsetOf, Met)
      BY <1>2
    <3>2. v \in DOMAIN values \cup {CharsetOf[a] : a \in Met}
      BY <2>3
    <3> HIDE DEF values
    <3>3. ExactAt(values, v, WithValue(v, CharsetOf, Met))
      BY <3>1, <3>2, PropertyIsExact
    <3> QED
      BY <2>2, <3>3
  <2> HIDE DEF values
  <2>5. PropertyExact(values, Charset)
    BY <2>4 DEF PropertyExact, ExactAt
  <2> QED
    BY <2>5 DEF values
<1> QED
  BY <1>1, <1>3, <1>5, <1>6, <1>7, <1>8 DEF CountsExact

\* When a scan ends its counts are those of the articles it met: each of them
\* in the sampling interval, counted once in all, once in each wanted hierarchy
\* and once in each of its groups, with its bytes and its sender, and once for
\* its user agent and its charset (AllGroups::visit), however directories were
\* read, whatever arrived and expired and however many articles there are.
THEOREM ScanCountsExact == Spec => []CountsExact
<1>1. Init => TypeInv /\ Counting
  BY TypeInvInit, CountingInit
<1>2. TypeInv /\ Counting /\ [Next]_vars => (TypeInv /\ Counting)'
  BY TypeInvNext, CountingNext
<1>3. TypeInv /\ Counting => CountsExact
  BY CountingExact
<1> QED
  BY <1>1, <1>2, <1>3, PTL DEF Spec

-------------------------------------------------------------------------------
(* A name is read from the logs as it was written.                         *)

\* Where the n-th of seqs is in the whole: behind position at[n].
LaidOut(seqs, whole, at) ==
    /\ at[1] = 0 /\ at[Len(seqs) + 1] = Len(whole)
    /\ \A n \in 1..Len(seqs) + 1 : at[n] <= Len(whole)
    /\ \A n \in 1..Len(seqs) :
          /\ at[n + 1] = at[n] + Len(seqs[n])
          /\ \A j \in 1..Len(seqs[n]) : whole[at[n] + j] = seqs[n][j]

\* s and behind it t.
Joins(whole, s, t) == /\ Len(whole) = Len(s) + Len(t)
                      /\ \A j \in 1..Len(s) : whole[j] = s[j]
                      /\ \A j \in 1..Len(t) : whole[Len(s) + j] = t[j]

\* s \o t is such a one.
LEMMA ConcatJoins ==
    ASSUME NEW S, NEW s \in Seq(S), NEW t \in Seq(S)
    PROVE  s \o t \in Seq(S) /\ Joins(s \o t, s, t)
BY DEF Joins

\* FlattenSeq() keeps what it puts together, one sequence behind the other.
LEMMA FlattenLayout ==
    ASSUME NEW S, NEW seqs \in Seq(Seq(S))
    PROVE  /\ FlattenSeq(seqs) \in Seq(S)
           /\ \E at \in [1..Len(seqs) + 1 -> Nat] : LaidOut(seqs, FlattenSeq(seqs), at)
<1> DEFINE N == Len(seqs)
           V == Seq(S)
           flat == FlattenSeq(seqs)
<1>1. PICK f \in [0..N -> V] :
         /\ f[0] = <<>> /\ f[N] = flat
         /\ \A n \in 1..N : f[n] = f[n - 1] \o seqs[n]
  BY FlattenSteps
<1>2. N \in Nat /\ \A n \in 1..N : seqs[n] \in V
  OBVIOUS
<1>3. \A s \in V : Len(s) \in Nat
  OBVIOUS
<1>4. \A s, t \in V : Joins(s \o t, s, t)
  BY ConcatJoins
<1> HIDE DEF N, V, flat
<1> DEFINE Laid(m) == Len(f[m]) <= Len(flat) /\ \A j \in 1..Len(f[m]) : flat[j] = f[m][j]
           Bad == {m \in 0..N : ~Laid(m)}
<1>5. \A m \in 0..N : f[m] \in V
  BY <1>1
<1>6. ASSUME NEW n \in 1..N, NEW m \in 0..N, m = n - 1
      PROVE  Joins(f[n], f[m], seqs[n])
  <2>1. f[m] \in V /\ seqs[n] \in V
    BY <1>2, <1>5
  <2>2. f[n] = f[m] \o seqs[n]
    BY <1>1, <1>6
  <2> QED
    BY <1>4, <2>1, <2>2
<1>7. ASSUME Bad # {} PROVE FALSE
  <2>1. Bad \in SUBSET Nat /\ \A m \in Bad : m <= N
    BY <1>2
  <2> HIDE DEF Bad
  <2>2. PICK m \in Bad : \A k \in Bad : k <= m
    BY <1>2, <1>7, <2>1, GreatestOf
  <2> USE DEF Bad
  <2>3. m \in 0..N /\ ~Laid(m)
    BY <2>2
  <2>4. m # N
    <3>1. Len(f[N]) = Len(flat) /\ Len(flat) \in Nat
      BY <1>1, <1>2, <1>3, <1>5
    <3> QED
      BY <1>1, <2>3, <3>1
  <2>5. m + 1 \in 1..N /\ m + 1 \notin Bad /\ m + 1 - 1 = m
    BY <1>2, <2>2, <2>3, <2>4
  <2>6. Laid(m + 1)
    BY <1>2, <2>5
  <2>7. /\ Len(f[m + 1]) = Len(f[m]) + Len(seqs[m + 1])
        /\ \A j \in 1..Len(f[m]) : f[m + 1][j] = f[m][j]
    BY <1>6, <2>3, <2>5 DEF Joins
  <2>8. Len(f[m]) \in Nat /\ Len(seqs[m + 1]) \in Nat
    BY <1>2, <1>3, <1>5, <2>3, <2>5
  <2>9. \A j \in 1..Len(f[m]) : j \in 1..Len(f[m + 1])
    BY <2>7, <2>8
  <2>10. Len(f[m]) <= Len(f[m + 1])
    BY <2>7, <2>8
  <2>11. Len(flat) \in Nat
    BY <1>1, <1>2, <1>3, <1>5
  <2>12. Len(f[m]) <= Len(flat)
    BY <2>6, <2>7, <2>8, <2>10, <2>11
  <2> QED
    BY <2>3, <2>6, <2>7, <2>9, <2>12
<1> DEFINE at == [n \in 1..N + 1 |-> Len(f[n - 1])]
<1>8. at \in [1..N + 1 -> Nat]
  <2>1. \A n \in 1..N + 1 : n - 1 \in 0..N
    BY <1>2
  <2> QED
    BY <1>3, <1>5, <2>1
<1>9. at[1] = 0
  <2>1. Len(f[0]) = 0 /\ 1 \in 1..N + 1
    BY <1>1, <1>2
  <2>2. \A n \in 1..N + 1 : n = 1 => n - 1 = 0
    OBVIOUS
  <2>3. \A n \in 1..N + 1 : n = 1 => at[n] = Len(f[0])
    BY <2>2
  <2> QED
    BY <2>1, <2>3
<1>10. at[N + 1] = Len(flat)
  <2>1. \A n \in 1..N + 1 : n = N + 1 => n - 1 = N
    BY <1>2
  <2>2. \A n \in 1..N + 1 : n = N + 1 => at[n] = Len(f[N])
    BY <2>1
  <2>3. N + 1 \in 1..N + 1
    BY <1>2
  <2> QED
    BY <1>1, <2>2, <2>3
<1>11. ASSUME NEW n \in 1..N
       PROVE  /\ at[n + 1] = at[n] + Len(seqs[n])
              /\ \A j \in 1..Len(seqs[n]) : flat[at[n] + j] = seqs[n][j]
  <2>1. n + 1 \in 1..N + 1 /\ n \in 1..N + 1 /\ n + 1 - 1 = n /\ n \in 0..N /\ n - 1 \in 0..N
    BY <1>2
  <2>2. at[n + 1] = Len(f[n]) /\ at[n] = Len(f[n - 1])
    BY <2>1
  <2>3. Laid(n)
    BY <1>7, <2>1
  <2>4. Len(f[n - 1]) \in Nat /\ Len(seqs[n]) \in Nat
    BY <1>2, <1>3, <1>5, <2>1
  <2> HIDE DEF at
  <2> DEFINE m == n - 1
  <2>6. m \in 0..N /\ m = n - 1
    BY <2>1
  <2>7. /\ Len(f[n]) = at[n] + Len(seqs[n])
        /\ \A j \in 1..Len(seqs[n]) : f[n][at[n] + j] = seqs[n][j]
    <3>1. Joins(f[n], f[m], seqs[n])
      BY <1>6, <2>6
    <3>2. at[n] = Len(f[m])
      BY <2>2
    <3> QED
      BY <3>1, <3>2 DEF Joins
  <2>8. at[n] \in Nat
    BY <2>2, <2>4
  <2>5. ASSUME NEW j \in 1..Len(seqs[n]) PROVE flat[at[n] + j] = seqs[n][j]
    <3>1. at[n] + j \in 1..Len(f[n])
      BY <2>4, <2>7, <2>8
    <3> QED
      BY <2>3, <2>7, <3>1
  <2> QED
    BY <2>2, <2>5, <2>7
<1>14. \A n \in 1..N + 1 : at[n] <= Len(flat)
  <2>1. \A n \in 1..N + 1 : n - 1 \in 0..N
    BY <1>2
  <2>2. \A m \in 0..N : Laid(m)
    BY <1>7
  <2> QED
    BY <2>1, <2>2
<1>12. LaidOut(seqs, flat, at)
  <2> HIDE DEF at
  <2> QED
    BY <1>9, <1>10, <1>11, <1>14 DEF LaidOut, N
<1>13. flat \in V
  <2>1. N \in 0..N
    BY <1>2
  <2> QED
    BY <1>1, <1>5, <2>1
<1> QED
  BY <1>8, <1>12, <1>13 DEF N, V, flat

\* What CsvRead() makes of the text from p on, by what it makes of the rest.
ReadAt(rest, text, p) ==
    IF p > Len(text) THEN Thrown
    ELSE IF text[p] = DoubleQuote THEN <<>>
    ELSE IF text[p] # Backslash THEN Joined(<<text[p]>>, rest[p + 1])
    ELSE IF p = Len(text) THEN Thrown
    ELSE IF text[p + 1] \notin Digits
         THEN Joined(<<text[p + 1]>>, rest[p + 2])
    ELSE LET k == OctalLength(text, p + 1)
         IN Joined(<<OctalValue(text, p + 1, k)>>, rest[p + 1 + k])

Reads(from, text) == from = [p \in 2..Len(text) + 2 |-> ReadAt(from, text, p)]

\* The octal digits behind a backslash are in the text.
LEMMA OctalDigitsInText ==
    ASSUME NEW text \in Seq(Int), NEW p \in 1..Len(text)
    PROVE  /\ OctalLength(text, p) \in 0..3
           /\ p + OctalLength(text, p) <= Len(text) + 1
<1> DEFINE IsLength(k) ==
      /\ \A n \in p..p + k - 1 : n <= Len(text) /\ text[n] \in OctalDigits
      /\ k = 3 \/ p + k > Len(text) \/ text[p + k] \notin OctalDigits
<1> DEFINE Stop(q) == q > Len(text) \/ text[q] \notin OctalDigits
<1>0. Len(text) \in Nat /\ p \in Nat
  OBVIOUS
<1>1. \E k \in 0..3 : IsLength(k)
  <2>1. CASE Stop(p)
    <3>1. IsLength(0)
      BY <1>0, <2>1
    <3> QED
      BY <3>1
  <2>2. CASE ~Stop(p) /\ Stop(p + 1)
    <3>1. IsLength(1)
      BY <1>0, <2>2
    <3> QED
      BY <3>1
  <2>3. CASE ~Stop(p) /\ ~Stop(p + 1) /\ Stop(p + 2)
    <3>1. \A n \in p..p + 1 : n = p \/ n = p + 1
      BY <1>0
    <3>2. p + 2 - 1 = p + 1
      BY <1>0
    <3>4. \A m \in p..p + 2 - 1 : m <= Len(text) /\ text[m] \in OctalDigits
      BY <1>0, <2>3, <3>1, <3>2
    <3>3. IsLength(2)
      BY <2>3, <3>4
    <3> QED
      BY <3>3
  <2>4. CASE ~Stop(p) /\ ~Stop(p + 1) /\ ~Stop(p + 2)
    <3>1. \A n \in p..p + 2 : n = p \/ n = p + 1 \/ n = p + 2
      BY <1>0
    <3>2. p + 3 - 1 = p + 2
      BY <1>0
    <3>4. \A m \in p..p + 3 - 1 : m <= Len(text) /\ text[m] \in OctalDigits
      <4>1. \A q \in {p, p + 1, p + 2} : q <= Len(text) /\ text[q] \in OctalDigits
        BY <1>0, <2>4
      <4>2. \A m \in p..p + 2 : m \in {p, p + 1, p + 2}
        BY <3>1
      <4> QED
        BY ONLY <3>2, <4>1, <4>2
    <3>3. IsLength(3)
      BY <2>4, <3>4
    <3> QED
      BY <3>3
  <2> QED
    BY <2>1, <2>2, <2>3, <2>4
<1> DEFINE k == CHOOSE k \in 0..3 : IsLength(k)
<1>2. k \in 0..3 /\ IsLength(k)
  <2> HIDE DEF IsLength
  <2> QED
    BY <1>1
<1>3. OctalLength(text, p) = k
  BY DEF OctalLength
<1> HIDE DEF k
<1>4. CASE k = 0
  BY <1>0, <1>3, <1>4
<1>5. CASE k > 0
  <2>1. p + k - 1 \in p..p + k - 1
    BY <1>0, <1>2, <1>5
  <2>2. p + k - 1 <= Len(text)
    BY <1>2, <2>1
  <2> QED
    BY <1>0, <1>2, <1>3, <2>2
<1> QED
  BY <1>2, <1>4, <1>5

\* CsvRead() reads forward.
LEMMA ReadsForward ==
    ASSUME NEW text \in Seq(Int), NEW p \in 2..Len(text) + 2, NEW f, NEW g,
           \A q \in p + 1..Len(text) + 2 : f[q] = g[q]
    PROVE  ReadAt(f, text, p) = ReadAt(g, text, p)
<1>0. Len(text) \in Nat
  OBVIOUS
<1>1. CASE p > Len(text)
  BY <1>1 DEF ReadAt
<1>2. CASE p <= Len(text)
  <2>1. f[p + 1] = g[p + 1]
    BY <1>0, <1>2
  <2>2. CASE p = Len(text)
    BY <2>1, <2>2 DEF ReadAt
  <2>3. CASE p < Len(text)
    <3>1. f[p + 2] = g[p + 2]
      BY <1>0, <2>3
    <3> DEFINE k == OctalLength(text, p + 1)
    <3>2. p + 1 \in 1..Len(text)
      BY <1>0, <2>3
    <3>3. k \in 0..3 /\ p + 1 + k <= Len(text) + 1
      BY <3>2, OctalDigitsInText
    <3> HIDE DEF k
    <3>4. p + 1 + k \in p + 1..Len(text) + 2
      BY <1>0, <3>3
    <3>5. f[p + 1 + k] = g[p + 1 + k]
      BY <3>4
    <3> QED
      BY <2>1, <3>1, <3>5 DEF ReadAt, k
  <2> QED
    BY <1>2, <2>2, <2>3
<1> QED
  BY <1>1, <1>2

\* The recursive function in CsvRead() exists.
LEMMA ReadFunction ==
    ASSUME NEW text \in Seq(Int)
    PROVE  \E from : Reads(from, text) /\ CsvRead(text) = from[2]
<1> DEFINE N == Len(text) + 2
           Good(m) == \E f : f = [p \in m..N |-> ReadAt(f, text, p)]
           Bad == {m \in 2..N : ~Good(m)}
<1>0. N \in Nat /\ 2 <= N /\ Len(text) \in Nat
  OBVIOUS
<1>1. Good(N)
  <2> DEFINE f == [p \in N..N |-> ReadAt(<<>>, text, p)]
  <2>1. \A p \in N..N : p > Len(text)
    BY <1>0
  <2>2. \A p \in N..N : ReadAt(<<>>, text, p) = ReadAt(f, text, p)
    BY <2>1 DEF ReadAt
  <2>3. f = [p \in N..N |-> ReadAt(f, text, p)]
    BY <2>2
  <2> QED
    BY <2>3
<1>2. ASSUME NEW m \in 3..N, Good(m) PROVE Good(m - 1)
  <2>1. PICK f : f = [p \in m..N |-> ReadAt(f, text, p)]
    BY <1>2
  <2>2. m - 1 \in 2..N /\ \A p \in m - 1..N : p = m - 1 \/ p \in m..N
    BY <1>0
  <2> DEFINE g == [p \in m - 1..N |-> IF p = m - 1 THEN ReadAt(f, text, p) ELSE f[p]]
  <2>3. \A p \in m..N : g[p] = f[p]
    BY <1>0
  <2>4. ASSUME NEW p \in m - 1..N PROVE ReadAt(f, text, p) = ReadAt(g, text, p)
    <3>1. p \in 2..Len(text) + 2
      BY <1>0
    <3>2. \A q \in p + 1..Len(text) + 2 : f[q] = g[q]
      BY <1>0, <2>3
    <3> HIDE DEF g
    <3> QED
      BY <3>1, <3>2, ReadsForward
  <2>5. ASSUME NEW p \in m - 1..N PROVE g[p] = ReadAt(g, text, p)
    <3>1. CASE p = m - 1
      BY <2>4, <3>1
    <3>2. CASE p \in m..N
      <4>1. g[p] = f[p]
        BY <2>3, <3>2
      <4>2. f[p] = ReadAt(f, text, p)
        BY <2>1, <3>2
      <4> QED
        BY <2>4, <4>1, <4>2
    <3> QED
      BY <2>2, <3>1, <3>2
  <2>6. g = [p \in m - 1..N |-> ReadAt(g, text, p)]
    BY <2>5
  <2> QED
    BY <2>6
<1>3. ASSUME Bad # {} PROVE FALSE
  <2> HIDE DEF Good
  <2>1. Bad \in SUBSET Nat /\ \A m \in Bad : m <= N
    BY <1>0
  <2> HIDE DEF Bad, N
  <2>2. PICK m \in Bad : \A k \in Bad : k <= m
    BY <1>0, <1>3, <2>1, GreatestOf
  <2> USE DEF Bad
  <2>3. m \in 2..N /\ m # N
    BY <1>1, <2>2
  <2>4. m + 1 \in 3..N /\ m + 1 \notin Bad /\ m + 1 - 1 = m
    BY <1>0, <2>2, <2>3
  <2>5. Good(m + 1)
    BY <1>0, <2>4
  <2>6. \A n \in 3..N : Good(n) => \A i : i = n - 1 => Good(i)
    BY <1>2
  <2>7. Good(m)
    BY <2>4, <2>5, <2>6
  <2> QED
    BY <2>2, <2>7
<1>4. Good(2)
  <2> HIDE DEF Good
  <2> QED
    BY <1>0, <1>3
<1> DEFINE from == CHOOSE f : Reads(f, text)
<1>5. Reads(from, text)
  BY <1>4 DEF Reads
<1>6. CsvRead(text) = from[2]
  BY DEF CsvRead, Reads, ReadAt
<1> QED
  BY <1>5, <1>6

\* The digits of an octet up to 127.
LEMMA OctalParts ==
    ASSUME NEW o \in 0..127
    PROVE  /\ o \div 64 \in 0..1 /\ (o \div 8) % 8 \in 0..7 /\ o % 8 \in 0..7
           /\ o = 8 * (8 * (o \div 64) + ((o \div 8) % 8)) + (o % 8)
<1> DEFINE q == o \div 8
           c == o % 8
<1>1. q \in 0..15 /\ o = 8 * q + c /\ c \in 0..7
  OBVIOUS
<1>2. q \div 8 = o \div 64
  OBVIOUS
<1> HIDE DEF q, c
<1>3. ASSUME NEW d, d = q \div 8 PROVE d \in 0..1 /\ q = 8 * d + (q % 8) /\ q % 8 \in 0..7
  BY <1>1, <1>3
<1>4. /\ o \div 64 \in 0..1 /\ q % 8 \in 0..7 /\ c \in 0..7
      /\ o = 8 * (8 * (o \div 64) + (q % 8)) + c
  BY <1>1, <1>2, <1>3
<1> QED
  BY <1>4 DEF q, c

\* One digit more.
LEMMA OctalStep ==
    ASSUME NEW v \in 0..15, NEW d \in 0..7
    PROVE  (8 * v + (d + 48) - 48) % 256 = 8 * v + d
OBVIOUS

\* The three digits of an octet up to 127 make it again.
LEMMA OctalOf ==
    ASSUME NEW o \in 0..127, NEW text \in Seq(Int), NEW p \in Nat,
           text[p] = OctalTriple(o)[1], text[p + 1] = OctalTriple(o)[2],
           text[p + 2] = OctalTriple(o)[3]
    PROVE  OctalValue(text, p, 3) = o
<1> DEFINE a == o \div 64
           b == (o \div 8) % 8
           c == o % 8
           DigitRead(f, n) == IF n = 0 THEN 0 ELSE (8 * f[n - 1] + text[p + n - 1] - 48) % 256
           value == CHOOSE f : f = [n \in 0..3 |-> DigitRead(f, n)]
           h == [n \in 0..3 |-> IF n = 0 THEN 0 ELSE IF n = 1 THEN a
                                ELSE IF n = 2 THEN 8 * a + b ELSE 8 * (8 * a + b) + c]
<1>1. OctalTriple(o) = <<48 + a, 48 + b, 48 + c>>
  BY DEF OctalTriple
<1>0. a = o \div 64 /\ b = (o \div 8) % 8 /\ c = o % 8
  OBVIOUS
<1>4. OctalValue(text, p, 3) = value[3]
  BY DEF OctalValue
<1> HIDE DEF a, b, c
<1>2. a \in 0..1 /\ b \in 0..7 /\ c \in 0..7 /\ o = 8 * (8 * a + b) + c
  BY OctalParts DEF a, b, c
<1>3. text[p] = a + 48 /\ text[p + 1] = b + 48 /\ text[p + 2] = c + 48
  BY <1>1, <1>2
<1>15. /\ a = (8 * 0 + (a + 48) - 48) % 256
      /\ 8 * a + b = (8 * a + (b + 48) - 48) % 256
      /\ 8 * (8 * a + b) + c = (8 * (8 * a + b) + (c + 48) - 48) % 256
  <2>1. 8 * 0 + a = a /\ 0 \in 0..15 /\ a \in 0..15 /\ 8 * a + b \in 0..15 /\ a \in 0..7
    BY <1>2
  <2> DEFINE u == 8 * a + b
             Next8(v, d) == (8 * v + (d + 48) - 48) % 256
  <2>5. \A v \in 0..15 : \A d \in 0..7 : Next8(v, d) = 8 * v + d
    BY OctalStep
  <2>6. u \in 0..15
    BY <2>1
  <2> HIDE DEF u, Next8
  <2>2. Next8(0, a) = a
    BY <2>1, <2>5
  <2>3. Next8(a, b) = 8 * a + b
    BY <1>2, <2>1, <2>5
  <2>4. Next8(u, c) = 8 * u + c
    BY <1>2, <2>5, <2>6
  <2> USE DEF u, Next8
  <2> QED
    BY <2>2, <2>3, <2>4
<1>5. ASSUME NEW n \in 0..3 PROVE h[n] = DigitRead(h, n)
  <2>1. n \in {0, 1, 2, 3}
    OBVIOUS
  <2>2. /\ n = 1 => n - 1 = 0 /\ p + n - 1 = p
        /\ n = 2 => n - 1 = 1 /\ p + n - 1 = p + 1
        /\ n = 3 => n - 1 = 2 /\ p + n - 1 = p + 2
    OBVIOUS
  <2>3. h[0] = 0 /\ h[1] = a /\ h[2] = 8 * a + b /\ h[3] = 8 * (8 * a + b) + c
    OBVIOUS
  <2> HIDE DEF h
  <2>4. CASE n = 0
    BY <2>3, <2>4
  <2>5. CASE n = 1
    <3>1. DigitRead(h, n) = (8 * 0 + (a + 48) - 48) % 256
      BY <1>3, <2>2, <2>3, <2>5
    <3> QED
      BY <1>15, <2>3, <2>5, <3>1
  <2>6. CASE n = 2
    <3>1. DigitRead(h, n) = (8 * a + (b + 48) - 48) % 256
      BY <1>3, <2>2, <2>3, <2>6
    <3> QED
      BY <1>15, <2>3, <2>6, <3>1
  <2>7. CASE n = 3
    <3>1. DigitRead(h, n) = (8 * (8 * a + b) + (c + 48) - 48) % 256
      BY <1>3, <2>2, <2>3, <2>7
    <3> QED
      BY <1>15, <2>3, <2>7, <3>1
  <2> QED
    BY <2>1, <2>4, <2>5, <2>6, <2>7
<1>6. h = [n \in 0..3 |-> DigitRead(h, n)]
  BY <1>5
<1>7. value = [n \in 0..3 |-> DigitRead(value, n)]
  BY <1>6
<1> HIDE DEF value, h
<1>8. \A n \in 0..3 : value[n] = DigitRead(value, n)
  BY <1>7
<1>9. value[0] = 0
  BY <1>8
<1>10. /\ value[1] = (8 * value[0] + text[p] - 48) % 256
       /\ value[2] = (8 * value[1] + text[p + 1] - 48) % 256
       /\ value[3] = (8 * value[2] + text[p + 2] - 48) % 256
  <2>1. ASSUME NEW n \in 0..3, n = 1 PROVE value[n] = (8 * value[0] + text[p] - 48) % 256
    <3>1. n # 0 /\ n - 1 = 0 /\ p + n - 1 = p
      BY <2>1
    <3>2. DigitRead(value, n) = (8 * value[n - 1] + text[p + n - 1] - 48) % 256
      BY <3>1
    <3>3. value[n] = DigitRead(value, n)
      BY <1>8
    <3> HIDE DEF DigitRead
    <3> QED
      BY <3>1, <3>2, <3>3
  <2>2. ASSUME NEW n \in 0..3, n = 2 PROVE value[n] = (8 * value[1] + text[p + 1] - 48) % 256
    <3>1. n # 0 /\ n - 1 = 1 /\ p + n - 1 = p + 1
      BY <2>2
    <3>2. DigitRead(value, n) = (8 * value[n - 1] + text[p + n - 1] - 48) % 256
      BY <3>1
    <3>3. value[n] = DigitRead(value, n)
      BY <1>8
    <3> HIDE DEF DigitRead
    <3> QED
      BY <3>1, <3>2, <3>3
  <2>3. ASSUME NEW n \in 0..3, n = 3 PROVE value[n] = (8 * value[2] + text[p + 2] - 48) % 256
    <3>1. n # 0 /\ n - 1 = 2 /\ p + n - 1 = p + 2
      BY <2>3
    <3>2. DigitRead(value, n) = (8 * value[n - 1] + text[p + n - 1] - 48) % 256
      BY <3>1
    <3>3. value[n] = DigitRead(value, n)
      BY <1>8
    <3> HIDE DEF DigitRead
    <3> QED
      BY <3>1, <3>2, <3>3
  <2> QED
    BY <2>1, <2>2, <2>3
<1>12. value[1] = a
  BY <1>3, <1>15, <1>9, <1>10
<1>13. value[2] = 8 * a + b
  BY <1>3, <1>15, <1>10, <1>12
<1>14. value[3] = 8 * (8 * a + b) + c
  BY <1>3, <1>15, <1>10, <1>13
<1> QED
  BY <1>2, <1>4, <1>14

\* All three of them are read.
LEMMA ThreeOctalDigits ==
    ASSUME NEW text \in Seq(Int), NEW p \in 1..Len(text), p + 2 <= Len(text),
           \A n \in p..p + 2 : text[n] \in OctalDigits
    PROVE  OctalLength(text, p) = 3
<1> DEFINE IsLength(k) ==
      /\ \A n \in p..p + k - 1 : n <= Len(text) /\ text[n] \in OctalDigits
      /\ k = 3 \/ p + k > Len(text) \/ text[p + k] \notin OctalDigits
<1>1. Len(text) \in Nat /\ p + 3 - 1 = p + 2
  OBVIOUS
<1>2. IsLength(3)
  BY <1>1
<1>3. \A k \in 0..3 : IsLength(k) => k = 3
  BY <1>1
<1>4. OctalLength(text, p) = CHOOSE k \in 0..3 : IsLength(k)
  BY DEF OctalLength
<1> HIDE DEF IsLength
<1> QED
  BY <1>2, <1>3, <1>4

\* How an octet up to 127 is written.
EscapedSo(o) ==
    \/ o \in {DoubleQuote, Backslash} /\ Escaped(o) = <<Backslash, o>>
    \/ Escaped(o) = <<Backslash>> \o OctalTriple(o)
    \/ o \notin {DoubleQuote, Backslash} /\ Escaped(o) = <<o>>

\* Every octet up to 127 is.
LEMMA EscapedOctets ==
    ASSUME NEW o \in 0..127
    PROVE  EscapedSo(o) /\ Escaped(o) \in Seq(Int)
<1>1. CASE o \in {DoubleQuote, Backslash}
  <2>1. Escaped(o) = <<Backslash, o>>
    BY <1>1 DEF Escaped, Char, DoubleQuote, Backslash
  <2>2. Backslash \in Int
    BY DEF Backslash
  <2> QED
    BY <1>1, <2>1, <2>2 DEF EscapedSo
<1>2. CASE o \notin {DoubleQuote, Backslash} /\ (Char(o) < 32 \/ Char(o) > 126)
  <2>1. Escaped(o) = <<Backslash>> \o Octal(Char(o))
    BY <1>2 DEF Escaped
  <2>2. Char(o) = o /\ Octal(o) = OctalTriple(o)
    BY DEF Char, Octal
  <2>3. OctalTriple(o) \in Seq(Int) /\ <<Backslash>> \in Seq(Int)
    BY DEF OctalTriple, Backslash
  <2> QED
    BY <2>1, <2>2, <2>3, ConcatProperties DEF EscapedSo
<1>3. CASE o \notin {DoubleQuote, Backslash} /\ ~(Char(o) < 32 \/ Char(o) > 126)
  <2>1. Escaped(o) = <<o>>
    BY <1>3 DEF Escaped
  <2> QED
    BY <1>3, <2>1 DEF EscapedSo
<1> QED
  BY <1>1, <1>2, <1>3

\* A backslash and three digits, and what they are read as.
LEMMA EscapedTriple ==
    ASSUME NEW e, NEW t \in Seq(Int), Len(t) = 3, e = <<Backslash>> \o t
    PROVE  Len(e) = 4 /\ e[1] = Backslash /\ e[2] = t[1] /\ e[3] = t[2] /\ e[4] = t[3]
<1> DEFINE b == <<Backslash>>
<1>1. b \in Seq(Int) /\ Len(b) = 1 /\ b[1] = Backslash
  BY DEF Backslash
<1>2. e = b \o t
  OBVIOUS
<1> HIDE DEF b
<1>3. Joins(e, b, t)
  BY <1>1, <1>2, ConcatJoins
<1>4. 1 + 1 = 2 /\ 1 + 2 = 3 /\ 1 + 3 = 4 /\ {1, 2, 3} \subseteq 1..3 /\ 1 \in 1..1
  OBVIOUS
<1> QED
  BY <1>1, <1>3, <1>4 DEF Joins

\* The three digits are read as the octet they stand for.
LEMMA TripleReadBack ==
    ASSUME NEW o \in 0..127, NEW text \in Seq(Int), NEW from, NEW p \in Nat \ {0},
           p + 4 <= Len(text), text[p] = Backslash, text[p + 1] = OctalTriple(o)[1],
           text[p + 2] = OctalTriple(o)[2], text[p + 3] = OctalTriple(o)[3]
    PROVE  ReadAt(from, text, p) = Joined(<<o>>, from[p + 4])
<1> DEFINE t == OctalTriple(o)
<1>1. t = <<48 + (o \div 64), 48 + ((o \div 8) % 8), 48 + (o % 8)>>
  BY DEF OctalTriple
<1>2. t[1] \in 48..55 /\ t[2] \in 48..55 /\ t[3] \in 48..55
  <2>1. t[1] = 48 + (o \div 64) /\ t[2] = 48 + ((o \div 8) % 8) /\ t[3] = 48 + (o % 8)
    BY <1>1
  <2> HIDE DEF t
  <2>2. \A d \in 0..7 : 48 + d \in 48..55
    OBVIOUS
  <2>3. o \div 64 \in 0..7 /\ (o \div 8) % 8 \in 0..7 /\ o % 8 \in 0..7
    <3>1. \A d \in 0..1 : d \in 0..7
      OBVIOUS
    <3>2. o \div 64 \in 0..1 /\ (o \div 8) % 8 \in 0..7 /\ o % 8 \in 0..7
      BY OctalParts, Zenon
    <3> QED
      BY <3>1, <3>2, Zenon
  <2> QED
    BY <2>1, <2>2, <2>3
<1> HIDE DEF t
<1>3. text[p + 1] = t[1] /\ text[p + 2] = t[2] /\ text[p + 3] = t[3]
  BY DEF t
<1>4. Len(text) \in Nat /\ p + 1 + 2 = p + 3 /\ p + 1 + 1 = p + 2 /\ p + 1 + 3 = p + 4
  OBVIOUS
<1>5. p + 1 \in 1..Len(text) /\ p + 1 + 2 <= Len(text) /\ p # Len(text) /\ ~(p > Len(text))
  <2>1. \A i, k \in Nat : i + 4 <= k =>
           i + 1 \in 1..k /\ i + 1 + 2 <= k /\ i # k /\ ~(i > k)
    OBVIOUS
  <2>2. p \in Nat
    OBVIOUS
  <2> QED
    BY <1>4, <2>1, <2>2
<1>6. \A n \in p + 1..p + 1 + 2 : text[n] \in OctalDigits
  <2>1. \A n \in p + 1..p + 1 + 2 : n = p + 1 \/ n = p + 2 \/ n = p + 3
    OBVIOUS
  <2> QED
    BY <1>2, <1>3, <2>1 DEF OctalDigits
<1>7. OctalLength(text, p + 1) = 3
  BY <1>5, <1>6, ThreeOctalDigits
<1>8. OctalValue(text, p + 1, 3) = o
  <2> DEFINE q == p + 1
  <2>1. q \in Nat /\ q + 1 = p + 2 /\ q + 2 = p + 3
    BY <1>4
  <2>2. text[q] = OctalTriple(o)[1] /\ text[q + 1] = OctalTriple(o)[2]
        /\ text[q + 2] = OctalTriple(o)[3]
    BY <2>1
  <2> HIDE DEF q
  <2>3. OctalValue(text, q, 3) = o
    BY <2>1, <2>2, OctalOf
  <2> QED
    BY <2>3 DEF q
<1>9. text[p + 1] \in Digits /\ Backslash # DoubleQuote
  BY <1>2, <1>3 DEF Digits, Backslash, DoubleQuote
<1> QED
  BY <1>4, <1>5, <1>7, <1>8, <1>9 DEF ReadAt

\* It is read again, whatever follows.
LEMMA OctetReadBack ==
    ASSUME NEW o \in 0..127, NEW text \in Seq(Int), NEW from, NEW p \in 2..Len(text),
           from[p] = ReadAt(from, text, p), p + Len(Escaped(o)) <= Len(text),
           \A j \in 1..Len(Escaped(o)) : text[p + j - 1] = Escaped(o)[j]
    PROVE  from[p] = Joined(<<o>>, from[p + Len(Escaped(o))])
<1>0. Len(text) \in Nat /\ p \in Nat /\ p <= Len(text) /\ p \in 1..Len(text)
  OBVIOUS
<1>1. CASE o \in {DoubleQuote, Backslash} /\ Escaped(o) = <<Backslash, o>>
  <2>1. Len(Escaped(o)) = 2 /\ Escaped(o)[1] = Backslash /\ Escaped(o)[2] = o
    BY <1>1
  <2>2. text[p] = Backslash /\ text[p + 1] = o
    <3>1. 1 \in 1..2 /\ 2 \in 1..2 /\ p + 1 - 1 = p /\ p + 2 - 1 = p + 1
      BY <1>0
    <3> QED
      BY <2>1, <3>1
  <2>3. o \notin Digits /\ Backslash # DoubleQuote
    BY <1>1 DEF Digits, DoubleQuote, Backslash
  <2>4. p # Len(text) /\ ~(p > Len(text))
    BY <1>0, <2>1
  <2> QED
    BY <2>1, <2>2, <2>3, <2>4 DEF ReadAt
<1>2. CASE Escaped(o) = <<Backslash>> \o OctalTriple(o)
  <2> DEFINE t == OctalTriple(o)
  <2>1. t \in Seq(Int) /\ Len(t) = 3
    BY DEF OctalTriple
  <2> HIDE DEF t
  <2>2. /\ Len(Escaped(o)) = 4 /\ Escaped(o)[1] = Backslash
        /\ Escaped(o)[2] = t[1] /\ Escaped(o)[3] = t[2] /\ Escaped(o)[4] = t[3]
    BY <1>2, <2>1, EscapedTriple DEF t
  <2>3. text[p] = Backslash /\ text[p + 1] = t[1] /\ text[p + 2] = t[2] /\ text[p + 3] = t[3]
    <3>1. /\ 1 \in 1..4 /\ 2 \in 1..4 /\ 3 \in 1..4 /\ 4 \in 1..4
          /\ p + 1 - 1 = p /\ p + 2 - 1 = p + 1 /\ p + 3 - 1 = p + 2 /\ p + 4 - 1 = p + 3
      BY <1>0
    <3> QED
      BY <2>2, <3>1
  <2>4. p + 4 <= Len(text) /\ p \in Nat \ {0}
    BY <1>0, <2>2
  <2>5. ReadAt(from, text, p) = Joined(<<o>>, from[p + 4])
    BY <2>3, <2>4, TripleReadBack DEF t
  <2> QED
    BY <2>2, <2>5
<1>3. CASE o \notin {DoubleQuote, Backslash} /\ Escaped(o) = <<o>>
  <2>1. Len(Escaped(o)) = 1 /\ Escaped(o)[1] = o
    BY <1>3
  <2>2. text[p] = o
    <3>1. 1 \in 1..1 /\ p + 1 - 1 = p
      BY <1>0
    <3> QED
      BY <2>1, <3>1
  <2>3. ~(p > Len(text))
    BY <1>0
  <2> QED
    BY <1>3, <2>1, <2>2, <2>3 DEF ReadAt
<1> QED
  BY <1>1, <1>2, <1>3, EscapedOctets DEF EscapedSo

\* A name of octets up to 127 is read from a log as it was written.
LEMMA NameReadBack ==
    ASSUME NEW s \in Seq(0..127)
    PROVE  CsvRead(CsvQuote(s)) = s
<1> DEFINE N == Len(s)
           escaped == [n \in DOMAIN s |-> Escaped(s[n])]
           flat == FlattenSeq(escaped)
           text == CsvQuote(s)
<1>0. N \in Nat /\ DOMAIN s = 1..N /\ \A n \in 1..N : s[n] \in 0..127
  <2>1. N \in Nat /\ DOMAIN s = 1..N
    OBVIOUS
  <2>2. \A n \in 1..Len(s) : s[n] \in 0..127
    BY ElementOfSeq
  <2> QED
    BY <2>1, <2>2
<1>1. ASSUME NEW o \in 0..127
      PROVE  EscapedSo(o) /\ Escaped(o) \in Seq(Int)
  BY EscapedOctets
<1>3. escaped \in Seq(Seq(Int)) /\ Len(escaped) = N
      /\ \A n \in 1..N : escaped[n] = Escaped(s[n])
  <2>1. escaped = [n \in 1..N |-> Escaped(s[n])] /\ \A n \in 1..N : Escaped(s[n]) \in Seq(Int)
    BY <1>0, <1>1
  <2> HIDE DEF escaped, N
  <2>2. escaped \in [1..N -> Seq(Int)]
    BY <2>1
  <2> QED
    BY <1>0, <2>1, <2>2
<1>4. flat \in Seq(Int)
  BY <1>3, FlattenLayout
<1>5. PICK at \in [1..N + 1 -> Nat] : LaidOut(escaped, flat, at)
  BY <1>3, FlattenLayout
<1>6. /\ text \in Seq(Int) /\ Len(text) = Len(flat) + 2 /\ Len(flat) \in Nat
      /\ text[1] = DoubleQuote /\ text[Len(text)] = DoubleQuote
      /\ \A i \in 1..Len(flat) : text[i + 1] = flat[i]
  <2>1. text = <<DoubleQuote>> \o flat \o <<DoubleQuote>>
    BY DEF CsvQuote
  <2> HIDE DEF flat, text
  <2> QED
    BY <1>4, <2>1 DEF DoubleQuote
<1> HIDE DEF text, flat, escaped
<1>7. PICK from : Reads(from, text) /\ CsvRead(text) = from[2]
  BY <1>6, ReadFunction
<1>8. \A p \in 2..Len(text) : from[p] = ReadAt(from, text, p)
  <2> SUFFICES ASSUME NEW p \in 2..Len(text) PROVE from[p] = ReadAt(from, text, p)
    OBVIOUS
  <2>1. p \in 2..Len(text) + 2
    BY <1>6
  <2> QED
    BY <1>7, <2>1 DEF Reads
<1>9. /\ at[1] = 0 /\ at[N + 1] = Len(flat)
      /\ \A n \in 1..N + 1 : at[n] <= Len(flat)
      /\ \A n \in 1..N : /\ at[n + 1] = at[n] + Len(escaped[n])
                         /\ \A j \in 1..Len(escaped[n]) : flat[at[n] + j] = escaped[n][j]
  BY <1>3, <1>5 DEF LaidOut
<1> DEFINE ReadFrom(n) == from[at[n] + 2] = SubSeq(s, n, N)
<1>10. ReadFrom(N + 1)
  <2>1. at[N + 1] + 2 = Len(text)
    BY <1>6, <1>9
  <2>2. from[Len(text)] = <<>>
    <3>1. Len(text) \in 2..Len(text) /\ ~(Len(text) > Len(text))
      BY <1>6
    <3>2. from[Len(text)] = ReadAt(from, text, Len(text))
      BY <1>8, <3>1
    <3> QED
      BY <1>6, <3>1, <3>2 DEF ReadAt
  <2>3. SubSeq(s, N + 1, N) = <<>>
    BY <1>0
  <2> QED
    BY <2>1, <2>2, <2>3
<1>11. ASSUME NEW n \in 1..N, ReadFrom(n + 1) PROVE ReadFrom(n)
  <2> DEFINE o == s[n]
             p == at[n] + 2
             len == Len(Escaped(o))
             rest == SubSeq(s, n + 1, N)
  <2>1. o \in 0..127 /\ escaped[n] = Escaped(o) /\ len \in Nat
    <3>1. o \in 0..127
      BY <1>0
    <3> HIDE DEF o
    <3>2. Escaped(o) \in Seq(Int)
      BY <1>1, <3>1
    <3>3. len \in Nat
      BY <3>2
    <3> QED
      BY <1>3, <3>1, <3>3 DEF o
  <2>2. n + 1 \in 1..N + 1 /\ at[n] \in Nat /\ at[n + 1] \in Nat /\ at[n + 1] = at[n] + len
    BY <1>0, <1>9, <2>1
  <2>3. at[n] + len <= Len(flat)
    BY <1>9, <2>2
  <2>4. p \in 2..Len(text) /\ p + len <= Len(text)
    <3>1. \A i, j, k, m \in Nat : m = k + 2 /\ i + j <= k => i + 2 \in 2..m /\ i + 2 + j <= m
      OBVIOUS
    <3>2. Len(text) \in Nat /\ Len(text) = Len(flat) + 2 /\ Len(flat) \in Nat
      BY <1>6
    <3> HIDE DEF len
    <3> QED
      BY <2>1, <2>2, <2>3, <3>1, <3>2
  <2>5. ASSUME NEW j \in 1..len PROVE text[p + j - 1] = Escaped(o)[j]
    <3>1. flat[at[n] + j] = Escaped(o)[j]
      BY <1>9, <2>1
    <3>3. \A i, k, m \in Nat : \A l \in 1..m :
             i + m <= k => i + l \in 1..k /\ i + 2 + l - 1 = (i + l) + 1
      OBVIOUS
    <3> HIDE DEF len
    <3>2. at[n] + j \in 1..Len(flat) /\ p + j - 1 = (at[n] + j) + 1
      BY <1>6, <2>1, <2>2, <2>3, <3>3
    <3> QED
      BY <1>6, <3>1, <3>2
  <2>6. from[p] = Joined(<<o>>, from[p + len])
    <3> HIDE DEF p, o
    <3> QED
      BY <1>6, <1>8, <2>1, <2>4, <2>5, OctetReadBack
  <2>7. from[p + len] = rest
    <3>1. p + len = at[n + 1] + 2
      <4> HIDE DEF len
      <4> QED
        BY <2>1, <2>2
    <3> QED
      BY <1>11, <3>1
  <2>8. rest # Thrown
    <3>1. rest \in Seq(0..127)
      BY <1>0
    <3>2. Thrown \notin Seq(0..127)
      <4>1. Thrown[1] = -1 /\ 1 \in 1..Len(Thrown)
        BY DEF Thrown
      <4>2. Thrown \in Seq(0..127) => Thrown[1] \in 0..127
        BY <4>1, ElementOfSeq
      <4> QED
        BY <4>1, <4>2
    <3> QED
      BY <3>1, <3>2
  <2>9. <<o>> \o rest = SubSeq(s, n, N)
    <3>1. N \in n..Len(s)
      BY <1>0
    <3> QED
      BY <3>1, SubSeqRecursiveFirst
  <2> QED
    BY <2>6, <2>7, <2>8, <2>9 DEF Joined
<1>12. ReadFrom(1)
  <2> DEFINE Bad == {n \in 1..N + 1 : ~ReadFrom(n)}
  <2> HIDE DEF ReadFrom
  <2>1. ASSUME Bad # {} PROVE FALSE
    <3>1. Bad \in SUBSET Nat /\ N + 1 \in Nat /\ \A m \in Bad : m <= N + 1
      BY <1>0
    <3> HIDE DEF Bad, N
    <3>2. PICK m \in Bad : \A k \in Bad : k <= m
      BY <2>1, <3>1, GreatestOf
    <3> USE DEF Bad
    <3>3. m \in 1..N + 1 /\ m # N + 1
      BY <1>10, <3>2
    <3>4. m \in 1..N /\ m + 1 \in 1..N + 1 /\ m + 1 \notin Bad
      BY <1>0, <3>2, <3>3
    <3>5. ReadFrom(m + 1)
      BY <3>4
    <3> QED
      BY <1>11, <3>2, <3>4, <3>5
  <2>2. 1 \in 1..N + 1
    BY <1>0
  <2> QED
    BY <2>1, <2>2
<1>13. SubSeq(s, 1, N) = s
  BY <1>0
<1>14. at[1] + 2 = 2
  BY <1>9
<1>15. from[2] = s
  BY <1>12, <1>13, <1>14
<1>16. CsvRead(text) = s
  BY <1>7, <1>15
<1> QED
  BY <1>16 DEF text

-------------------------------------------------------------------------------
(* What logs and figures say of each other.                                *)

SameCounts(b, c) ==
    b.articles = c.articles /\ b.bytes = c.bytes /\ b.senderCount = c.senderCount

GroupsAgree(groups, others) ==
    DOMAIN groups = DOMAIN others /\ \A g \in DOMAIN groups : SameCounts(groups[g], others[g])

SameValue(p, q) == p.articles = q.articles /\ p.senderCount = q.senderCount

ValuesAgree(values, others) ==
    DOMAIN values = DOMAIN others /\ \A v \in DOMAIN values : SameValue(values[v], others[v])

\* The bucket of figures F whose history is file f.
BucketOf(f, F) == IF f = AllLog THEN F.all ELSE F.hierarchies[f[2]]

\* A row of file f with the counts of bucket b.
RowSays(row, f, b) ==
    /\ row[3] = b.bytes /\ row[4] = b.articles
    /\ f # AllLog => Len(row) > 4 /\ row[5] = b.senderCount

\* File f, with this content, says what figures F do.
Says(log, f, F) ==
    /\ f \in Appended =>
          /\ log.rows # <<>>
          /\ \/ RunTogether \in Range(Last(log.rows))
             \/ RowSays(Last(log.rows), f, BucketOf(f, F))
    /\ \A h \in Hierarchies :
          f = GroupsLog(h) => GroupsAgree(GroupsRead(log.rows), GroupsIn(F.groups, h))
    /\ f = EncodingsLog => ValuesAgree(PropertyRead(log.rows), F.charsets)
    /\ f = UseragentsLog => ValuesAgree(PropertyRead(log.rows), F.useragents)

BucketsAgree(f, b, c) ==
    b.articles = c.articles /\ b.bytes = c.bytes /\ (f # AllLog => b.senderCount = c.senderCount)

\* What figures F have of file f is what figures S say, where the row is whole.
Agrees(f, F, S) ==
    /\ f \in Appended /\ Whole(f) => BucketsAgree(f, BucketOf(f, F), BucketOf(f, S))
    /\ \A g \in DOMAIN S.groups :
          f = GroupsLog(HierarchyOf(g)) =>
              g \in DOMAIN F.groups /\ SameCounts(F.groups[g], S.groups[g])
    /\ f = EncodingsLog => ValuesAgree(F.charsets, S.charsets)
    /\ f = UseragentsLog => ValuesAgree(F.useragents, S.useragents)

\* Figures have all of their parts.
Fields(F) ==
    /\ DOMAIN F = DOMAIN EmptyFigures /\ DOMAIN F.hierarchies = Hierarchies
    /\ DOMAIN F.all = DOMAIN EmptyBucket
    /\ \A h \in Hierarchies : DOMAIN F.hierarchies[h] = DOMAIN EmptyBucket

\* No run, no figures; only a scan writes logs.
InMemory ==
    /\ pc = "idle" => figures = EmptyFigures
    /\ pc \in {"scan", "logs"} => run.scan
    /\ pc = "readLogs" => ~run.scan /\ (todo = 1 => figures = EmptyFigures)

Listed == \A f \in Appended : logs[f] # None => IsList(logs[f].rows) /\ IsList(logs[f].tail)

\* While a scan writes its logs, those written say what it counted.
Logged == pc = "logs" => \A n \in 1..todo - 1 : Says(logs[LogOrder[n]], LogOrder[n], figures)

\* When it has written them all they say what is in scanned.
Kept ==
    scanned # None =>
        /\ \A f \in LogFiles : Says(logs[f], f, scanned)
        /\ \A g \in DOMAIN scanned.groups : HierarchyOf(g) \in Hierarchies

\* The log files a run with --no-scan has read.
ReadFiles == IF pc = "readLogs" THEN {LogOrder[n] : n \in 1..todo - 1} ELSE LogFiles

\* Its figures are those of the scan as far as it has read.
Reading ==
    pc \in {"readLogs", "graphs", "report"} /\ ~run.scan /\ scanned # None =>
        /\ Fields(figures)
        /\ DOMAIN figures.groups \subseteq DOMAIN scanned.groups
        /\ \A f \in ReadFiles : Agrees(f, figures, scanned)

Reuse == /\ InMemory /\ Listed /\ Logged /\ Kept /\ Reading
         /\ DOMAIN pages = Pages /\ ReuseRepeats

-------------------------------------------------------------------------------
(* The order of names.                                                     *)

\* What two sequences begin with is the same if its elements are.
LEMMA SameBeginning ==
    ASSUME NEW s \in Seq(Nat), NEW t \in Seq(Nat), NEW n \in Nat, n <= Len(s), n <= Len(t)
    PROVE  SubSeq(s, 1, n) = SubSeq(t, 1, n) <=> \A m \in 1..n : s[m] = t[m]
<1> DEFINE a == SubSeq(s, 1, n)
           b == SubSeq(t, 1, n)
<1>1. Len(s) \in Nat /\ Len(t) \in Nat
  OBVIOUS
<1>2. a \in Seq(Nat) /\ Len(a) = n /\ \A m \in 1..n : a[m] = s[m]
  BY <1>1, SubSeqProperties
<1>3. b \in Seq(Nat) /\ Len(b) = n /\ \A m \in 1..n : b[m] = t[m]
  BY <1>1, SubSeqProperties
<1> HIDE DEF a, b
<1>4. a = b <=> \A m \in 1..n : s[m] = t[m]
  BY <1>2, <1>3, SeqEqual
<1> QED
  BY <1>4 DEF a, b

\* s comes before t because of their n-th elements, or because it ends there.
DiffersAt(s, t, n) ==
    /\ n \in 1..Len(t)
    /\ n = Len(s) + 1 \/ (n <= Len(s) /\ s[n] < t[n])
    /\ \A m \in 1..n - 1 : s[m] = t[m]

\* That is the order of strings.
LEMMA BeforeIs ==
    ASSUME NEW s \in Seq(Nat), NEW t \in Seq(Nat)
    PROVE  Before(s, t) <=> \E n \in Nat : DiffersAt(s, t, n)
<1>1. /\ Len(s) \in Nat /\ Len(t) \in Nat
      /\ DOMAIN s = 1..Len(s) /\ DOMAIN t = 1..Len(t)
  OBVIOUS
<1>2. ASSUME Before(s, t) PROVE \E n \in Nat : DiffersAt(s, t, n)
  <2>1. ASSUME NEW n \in DOMAIN s \cap DOMAIN t, s[n] < t[n],
               SubSeq(s, 1, n - 1) = SubSeq(t, 1, n - 1)
        PROVE  DiffersAt(s, t, n) /\ n \in Nat
    <3>1. n \in Nat /\ n - 1 \in Nat /\ n <= Len(s) /\ n <= Len(t) /\ n \in 1..Len(t)
          /\ n - 1 <= Len(s) /\ n - 1 <= Len(t)
      BY <1>1
    <3>2. \A m \in 1..n - 1 : s[m] = t[m]
      BY <2>1, <3>1, SameBeginning
    <3> QED
      BY <2>1, <3>1, <3>2 DEF DiffersAt
  <2>2. ASSUME IsStrictPrefix(s, t)
        PROVE  DiffersAt(s, t, Len(s) + 1) /\ Len(s) + 1 \in Nat
    <3>1. s # t /\ Len(s) <= Len(t) /\ SubSeq(s, 1, Len(s)) = SubSeq(t, 1, Len(s))
      BY <2>2 DEF IsStrictPrefix, IsPrefix
    <3>2. \A m \in 1..Len(s) : s[m] = t[m]
      BY <1>1, <3>1, SameBeginning
    <3>3. Len(s) # Len(t)
      BY <3>1, <3>2, SeqEqual
    <3>4. Len(s) + 1 \in 1..Len(t) /\ Len(s) + 1 - 1 = Len(s)
      <4>1. \A i, j \in Nat : i <= j /\ i # j => i + 1 \in 1..j /\ i + 1 - 1 = i
        OBVIOUS
      <4> QED
        BY <1>1, <3>1, <3>3, <4>1, Zenon
    <3> QED
      BY <1>1, <3>2, <3>4 DEF DiffersAt
  <2> QED
    BY <1>2, <2>1, <2>2 DEF Before
<1>3. ASSUME NEW n \in Nat, DiffersAt(s, t, n) PROVE Before(s, t)
  <2>1. /\ n \in 1..Len(t)
        /\ n = Len(s) + 1 \/ (n <= Len(s) /\ s[n] < t[n])
        /\ \A m \in 1..n - 1 : s[m] = t[m]
    BY <1>3 DEF DiffersAt
  <2>2. CASE n = Len(s) + 1
    <3>1. Len(s) <= Len(t) /\ n - 1 = Len(s)
      <4>1. \A i, j \in Nat : i + 1 \in 1..j => i <= j /\ i + 1 - 1 = i
        OBVIOUS
      <4> QED
        BY <1>1, <2>1, <2>2, <4>1
    <3>2. \A m \in 1..Len(s) : s[m] = t[m]
      BY <2>1, <3>1
    <3>3. SubSeq(s, 1, Len(s)) = SubSeq(t, 1, Len(s))
      BY <1>1, <3>1, <3>2, SameBeginning
    <3>4. s # t
      BY <1>1, <2>1, <2>2
    <3> QED
      BY <3>1, <3>3, <3>4 DEF Before, IsStrictPrefix, IsPrefix
  <2>3. CASE n <= Len(s) /\ s[n] < t[n]
    <3>1. n \in DOMAIN s \cap DOMAIN t /\ n - 1 \in Nat /\ n - 1 <= Len(s) /\ n - 1 <= Len(t)
      BY <1>1, <2>1, <2>3
    <3>2. SubSeq(s, 1, n - 1) = SubSeq(t, 1, n - 1)
      BY <2>1, <3>1, SameBeginning
    <3> QED
      BY <2>3, <3>1, <3>2 DEF Before
  <2> QED
    BY <2>1, <2>2, <2>3
<1> QED
  BY <1>2, <1>3

\* No string comes before itself.
LEMMA NotBeforeItself ==
    ASSUME NEW s \in Seq(Nat)
    PROVE  ~Before(s, s)
<1>1. \A n \in 1..Len(s) : s[n] \in Nat
  BY ElementOfSeq
<1>2. ASSUME NEW n \in Nat PROVE ~DiffersAt(s, s, n)
  <2>1. Len(s) \in Nat
    OBVIOUS
  <2> QED
    BY <1>1, <2>1 DEF DiffersAt
<1> QED
  BY <1>2, BeforeIs

\* What comes before s comes before all that s does.
LEMMA BeforeFollows ==
    ASSUME NEW s \in Seq(Nat), NEW t \in Seq(Nat), NEW u \in Seq(Nat),
           Before(s, t), Before(t, u)
    PROVE  Before(s, u)
<1>1. PICK m \in Nat : DiffersAt(s, t, m)
  BY BeforeIs
<1>2. PICK n \in Nat : DiffersAt(t, u, n)
  BY BeforeIs
<1> DEFINE k == Len(s)
           l == Len(t)
           o == Len(u)
<1>3. /\ k \in Nat /\ l \in Nat /\ o \in Nat
      /\ \A i \in 1..k : s[i] \in Nat
      /\ \A i \in 1..l : t[i] \in Nat
      /\ \A i \in 1..o : u[i] \in Nat
  BY ElementOfSeq
<1>4. /\ m \in 1..l
      /\ m = k + 1 \/ (m <= k /\ s[m] < t[m])
      /\ \A i \in 1..m - 1 : s[i] = t[i]
  BY <1>1 DEF DiffersAt
<1>5. /\ n \in 1..o
      /\ n = l + 1 \/ (n <= l /\ t[n] < u[n])
      /\ \A i \in 1..n - 1 : t[i] = u[i]
  BY <1>2 DEF DiffersAt
<1> DEFINE Differs(i) == /\ i \in 1..o /\ (i = k + 1 \/ (i <= k /\ s[i] < u[i]))
                         /\ \A j \in 1..i - 1 : s[j] = u[j]
<1>9. \A i \in Nat : Differs(i) => DiffersAt(s, u, i)
  BY DEF DiffersAt
<1> HIDE DEF k, l, o
<1>6. CASE m < n
  <2>1. m \in 1..o /\ t[m] = u[m]
    BY <1>3, <1>4, <1>5, <1>6
  <2>2. \A i \in 1..m - 1 : s[i] = u[i]
    BY <1>4, <1>5, <1>6
  <2>3. Differs(m)
    BY <1>4, <2>1, <2>2
  <2> QED
    BY <1>9, <2>3, BeforeIs
<1>7. CASE n < m
  <2>1. n <= k /\ n <= l
    BY <1>3, <1>4, <1>5, <1>7
  <2>2. s[n] = t[n] /\ t[n] < u[n]
    BY <1>3, <1>4, <1>5, <1>7, <2>1
  <2>3. \A i \in 1..n - 1 : s[i] = u[i]
    BY <1>4, <1>5, <1>7
  <2>4. Differs(n)
    BY <1>5, <2>1, <2>2, <2>3
  <2> QED
    BY <1>9, <2>4, BeforeIs
<1>8. CASE m = n
  <2>1. m <= l /\ t[m] < u[m] /\ t[m] \in Nat /\ u[m] \in Nat
    BY <1>3, <1>4, <1>5, <1>8
  <2>2. m = k + 1 \/ (m <= k /\ s[m] < u[m])
    BY <1>3, <1>4, <2>1
  <2>3. \A i \in 1..m - 1 : s[i] = u[i]
    BY <1>4, <1>5, <1>8
  <2>4. Differs(m)
    BY <1>5, <1>8, <2>2, <2>3
  <2> QED
    BY <1>9, <2>4, BeforeIs
<1> QED
  BY <1>6, <1>7, <1>8

\* Of two strings one comes before the other.
LEMMA OneIsBefore ==
    ASSUME NEW s \in Seq(Nat), NEW t \in Seq(Nat), s # t
    PROVE  Before(s, t) \/ Before(t, s)
<1> DEFINE k == Len(s)
           l == Len(t)
           Differ == {n \in Nat : /\ n >= 1 /\ n <= k + 1 /\ n <= l + 1
                                  /\ n = k + 1 \/ n = l + 1 \/ s[n] # t[n]}
           Less(n)    == /\ n \in 1..l /\ (n = k + 1 \/ (n <= k /\ s[n] < t[n]))
                         /\ \A j \in 1..n - 1 : s[j] = t[j]
           Greater(n) == /\ n \in 1..k /\ (n = l + 1 \/ (n <= l /\ t[n] < s[n]))
                         /\ \A j \in 1..n - 1 : t[j] = s[j]
<1>1. /\ k \in Nat /\ l \in Nat
      /\ \A i \in 1..k : s[i] \in Nat
      /\ \A i \in 1..l : t[i] \in Nat
  BY ElementOfSeq
<1>6. ~(k = l /\ \A j \in 1..k : s[j] = t[j])
  BY SeqEqual
<1>7. \A n \in Nat : Less(n) => DiffersAt(s, t, n)
  BY DEF DiffersAt
<1>8. \A n \in Nat : Greater(n) => DiffersAt(t, s, n)
  BY DEF DiffersAt
<1> HIDE DEF k, l
<1>2. Differ # {}
  <2>1. k <= l => k + 1 \in Differ
    BY <1>1
  <2>2. l <= k => l + 1 \in Differ
    BY <1>1
  <2> HIDE DEF Differ
  <2> QED
    BY <1>1, <2>1, <2>2
<1>3. PICK n \in Differ : \A m \in Differ : n <= m
  <2>1. Differ \in SUBSET Nat
    OBVIOUS
  <2> HIDE DEF Differ
  <2> QED
    BY <1>2, <2>1, LeastOf
<1>5. n \in Nat /\ n >= 1 /\ n <= k + 1 /\ n <= l + 1
      /\ (n = k + 1 \/ n = l + 1 \/ s[n] # t[n])
  BY <1>3
<1>4. \A m \in 1..n - 1 : s[m] = t[m]
  <2> SUFFICES ASSUME NEW m \in 1..n - 1, s[m] # t[m] PROVE FALSE
    OBVIOUS
  <2>1. m \in Differ /\ ~(n <= m)
    BY <1>1, <1>5
  <2> QED
    BY <1>3, <2>1
<1> HIDE DEF Differ
<1>9. Less(n) \/ Greater(n)
  <2>1. CASE n = k + 1 /\ n = l + 1
    <3>1. k = l /\ n - 1 = k
      BY <1>1, <2>1
    <3> QED
      BY <1>4, <1>6, <3>1
  <2>2. CASE n = k + 1 /\ n # l + 1
    <3>1. n \in 1..l
      BY <1>1, <1>5, <2>2
    <3> QED
      BY <1>4, <2>2, <3>1
  <2>3. CASE n # k + 1 /\ n = l + 1
    <3>1. n \in 1..k
      BY <1>1, <1>5, <2>3
    <3> QED
      BY <1>4, <2>3, <3>1
  <2>4. CASE n # k + 1 /\ n # l + 1
    <3>1. n \in 1..k /\ n \in 1..l /\ s[n] # t[n]
      BY <1>1, <1>5, <2>4
    <3>2. s[n] < t[n] \/ t[n] < s[n]
      BY <1>1, <3>1
    <3> QED
      BY <1>1, <1>4, <3>1, <3>2
  <2> QED
    BY <2>1, <2>2, <2>3, <2>4
<1> HIDE DEF Less, Greater
<1>10. DiffersAt(s, t, n) \/ DiffersAt(t, s, n)
  BY <1>5, <1>7, <1>8, <1>9
<1> QED
  BY <1>5, <1>10, BeforeIs

\* The keys of a map are listed, each of them and no others.
KeysListed(keys, map) ==
    /\ Cardinality(DOMAIN map) \in Nat /\ DOMAIN keys = 1..Cardinality(DOMAIN map)
    /\ \A n \in DOMAIN keys : keys[n] \in DOMAIN map
    /\ \A k \in DOMAIN map : \E n \in DOMAIN keys : keys[n] = k

\* A key's place is the number of keys before it.
LEMMA KeysAre ==
    ASSUME NEW map, DOMAIN map \subseteq Seq(Nat), IsFiniteSet(DOMAIN map)
    PROVE  KeysListed(Keys(map), map)
<1> DEFINE D == DOMAIN map
           N == Cardinality(D)
           Below(k) == {j \in D : Before(j, k)}
           rank == [k \in D |-> Cardinality(Below(k))]
<1>1. N \in Nat
  BY FS_CardinalityType
<1>2. ASSUME NEW k \in D
      PROVE  /\ IsFiniteSet(Below(k)) /\ Cardinality(Below(k)) \in 0..N - 1 /\ k \notin Below(k)
  <2>1. k \in Seq(Nat) /\ ~Before(k, k)
    BY NotBeforeItself
  <2>2. Below(k) \in SUBSET (D \ {k})
    BY <2>1
  <2>3. IsFiniteSet(D \ {k}) /\ Cardinality(D \ {k}) = N - 1
    BY FS_RemoveElement
  <2> HIDE DEF Below, D, N
  <2>4. IsFiniteSet(Below(k)) /\ Cardinality(Below(k)) <= N - 1
    BY <2>2, <2>3, FS_Subset
  <2>5. Cardinality(Below(k)) \in Nat
    BY <2>4, FS_CardinalityType
  <2> QED
    BY <1>1, <2>2, <2>4, <2>5
<1>3. ASSUME NEW j \in D, NEW k \in D, Before(j, k)
      PROVE  Cardinality(Below(j)) # Cardinality(Below(k))
  <2>1. Below(j) \in SUBSET Below(k)
    <3>1. ASSUME NEW i \in D, Before(i, j) PROVE Before(i, k)
      <4>1. i \in Seq(Nat) /\ j \in Seq(Nat) /\ k \in Seq(Nat)
        OBVIOUS
      <4> QED
        BY <1>3, <3>1, <4>1, BeforeFollows
    <3> QED
      BY <3>1
  <2>2. j \in Below(k) /\ j \notin Below(j)
    BY <1>2, <1>3
  <2>3. Below(j) # Below(k)
    BY <2>2
  <2>4. IsFiniteSet(Below(k))
    BY <1>2
  <2> HIDE DEF Below
  <2> QED
    BY <2>1, <2>3, <2>4, FS_Subset
<1>4. ASSUME NEW j \in D, NEW k \in D, rank[j] = rank[k] PROVE j = k
  <2> SUFFICES ASSUME j # k PROVE FALSE
    OBVIOUS
  <2>1. j \in Seq(Nat) /\ k \in Seq(Nat)
    OBVIOUS
  <2>2. Before(j, k) \/ Before(k, j)
    BY <2>1, OneIsBefore
  <2>3. Cardinality(Below(j)) = Cardinality(Below(k))
    BY <1>4
  <2> HIDE DEF Below, rank
  <2> QED
    BY <1>3, <2>2, <2>3
<1>5. \A r \in 0..N - 1 : \E k \in D : rank[k] = r
  <2>1. rank \in [D -> 0..N - 1]
    <3> HIDE DEF Below, D, N
    <3> QED
      BY <1>2
  <2> HIDE DEF rank, Below, D
  <2>2. rank \in Injection(D, 0..N - 1)
    BY <1>4, <2>1 DEF Injection, IsInjective
  <2>3. IsFiniteSet(0..N - 1) /\ Cardinality(0..N - 1) = N
    <3> HIDE DEF N
    <3>1. 0 \in Int /\ N - 1 \in Int
      BY <1>1
    <3>2. IsFiniteSet(0..N - 1) /\ Cardinality(0..N - 1) = IF 0 > N - 1 THEN 0 ELSE N - 1 - 0 + 1
      BY <3>1, FS_Interval
    <3> QED
      BY <1>1, <3>2
  <2>4. rank \in Surjection(D, 0..N - 1)
    <3>1. Cardinality(D) = Cardinality(0..N - 1)
      BY <2>3
    <3> HIDE DEF N
    <3> QED
      BY <2>2, <2>3, <3>1, FS_Injection
  <2> QED
    BY <2>4 DEF Surjection
<1> DEFINE keys == Keys(map)
           Key1(n) == CHOOSE k \in D : Cardinality(Below(k)) = n - 1
<1>6. DOMAIN keys = 1..N /\ \A n \in 1..N : keys[n] = Key1(n)
  BY DEF Keys
<1> HIDE DEF keys, N
<1>7. ASSUME NEW n \in 1..N
      PROVE  Key1(n) \in D /\ Cardinality(Below(Key1(n))) = n - 1
  <2>1. n - 1 \in 0..N - 1
    BY <1>1
  <2>2. \E k \in D : Cardinality(Below(k)) = n - 1
    BY <1>5, <2>1
  <2> HIDE DEF Below, D
  <2> QED
    BY <2>2
<1>8. ASSUME NEW k \in D PROVE \E n \in 1..N : keys[n] = k
  <2> DEFINE c == Cardinality(Below(k))
             n == c + 1
  <2>1. c \in 0..N - 1
    BY <1>2
  <2>2. n \in 1..N /\ n - 1 = c
    BY <1>1, <2>1
  <2>3. Key1(n) \in D /\ Cardinality(Below(Key1(n))) = c
    BY <1>7, <2>2
  <2>4. Key1(n) = k
    <3>1. \A j \in D : Cardinality(Below(j)) = c => rank[j] = rank[k]
      OBVIOUS
    <3> HIDE DEF rank, c, Below, Key1
    <3> QED
      BY <1>4, <2>3, <3>1
  <2> HIDE DEF Key1, n
  <2> QED
    BY <1>6, <2>2, <2>4
<1>9. \A n \in 1..N : keys[n] \in D
  <2> HIDE DEF D, Key1
  <2> QED
    BY <1>6, <1>7
<1> QED
  BY <1>1, <1>6, <1>8, <1>9 DEF KeysListed, keys, N

-------------------------------------------------------------------------------
(* What is written to a log is read back.                                  *)

\* The names that are.
Plain == Seq(0..127)

\* They are strings.
LEMMA PlainStrings == Plain \subseteq Seq(Nat)
<1>1. 0..127 \subseteq Nat
  OBVIOUS
<1> QED
  BY <1>1, SeqMonotonic DEF Plain

\* Rows with the keys of a map, and in each what a function says of its key.
RowsOf(rows, map, Of) ==
    /\ \E n \in Nat : DOMAIN rows = 1..n
    /\ \A n \in DOMAIN rows : \E k \in DOMAIN map : Key(rows[n]) = k /\ rows[n] = Of[k]
    /\ \A k \in DOMAIN map : \E n \in DOMAIN rows : Key(rows[n]) = k

\* Reading them gives the keys, and at each the row that was made for it.
LEMMA RowsKeyed ==
    ASSUME NEW rows, NEW map, NEW Of, RowsOf(rows, map, Of)
    PROVE  /\ DOMAIN Keyed(rows) = DOMAIN map
           /\ \A k \in DOMAIN map : /\ rows[Max(Keyed(rows)[k])] = Of[k]
                                    /\ rows[Min(Keyed(rows)[k])] = Of[k]
<1>1. PICK N \in Nat : DOMAIN rows = 1..N
  BY DEF RowsOf
<1>2. /\ \A n \in 1..N : \E k \in DOMAIN map : Key(rows[n]) = k /\ rows[n] = Of[k]
      /\ \A k \in DOMAIN map : \E n \in 1..N : Key(rows[n]) = k
  BY <1>1 DEF RowsOf
<1> DEFINE At1(k) == {n \in 1..N : Key(rows[n]) = k}
<1>3. /\ DOMAIN Keyed(rows) = {Key(rows[n]) : n \in 1..N}
      /\ \A k \in {Key(rows[n]) : n \in 1..N} : Keyed(rows)[k] = At1(k)
  BY <1>1 DEF Keyed
<1>4. {Key(rows[n]) : n \in 1..N} = DOMAIN map
  BY <1>2
<1>5. ASSUME NEW k \in DOMAIN map, NEW n \in At1(k) PROVE rows[n] = Of[k]
  BY <1>2, <1>5
<1>6. ASSUME NEW k \in DOMAIN map
      PROVE  /\ At1(k) \in SUBSET Nat /\ At1(k) # {} /\ IsFiniteSet(At1(k))
  <2>1. At1(k) \in SUBSET (1..N) /\ IsFiniteSet(1..N)
    BY FS_Interval
  <2>2. IsFiniteSet(At1(k))
    <3> HIDE DEF At1
    <3> QED
      BY <2>1, FS_Subset
  <2> QED
    BY <1>2, <2>2
<1> HIDE DEF At1
<1>7. ASSUME NEW k \in DOMAIN map
      PROVE  Max(At1(k)) \in At1(k) /\ Min(At1(k)) \in At1(k)
  BY <1>6, MaxOf, MinOf
<1> QED
  BY <1>3, <1>4, <1>5, <1>7

\* The rows of the groups are such rows.
LEMMA GroupRowsOf ==
    ASSUME NEW groups, DOMAIN groups \subseteq Plain, IsFiniteSet(DOMAIN groups)
    PROVE  RowsOf(GroupRows(groups), groups,
                  [g \in DOMAIN groups |-> <<CsvQuote(g), groups[g].bytes, groups[g].articles,
                                             groups[g].senderCount>>])
<1> DEFINE keys == Keys(groups)
           Row(g) == <<CsvQuote(g), groups[g].bytes, groups[g].articles, groups[g].senderCount>>
           rows == GroupRows(groups)
           N == Cardinality(DOMAIN groups)
           Of == [g \in DOMAIN groups |-> Row(g)]
<1>1. KeysListed(keys, groups)
  BY PlainStrings, KeysAre
<1>2. DOMAIN rows = DOMAIN keys /\ \A n \in DOMAIN keys : rows[n] = Row(keys[n])
  BY DEF GroupRows
<1>3. ASSUME NEW g \in DOMAIN groups PROVE Key(Row(g)) = g
  <2>1. Row(g)[1] = CsvQuote(g)
    OBVIOUS
  <2>2. g \in Seq(0..127)
    BY DEF Plain
  <2> QED
    BY <2>1, <2>2, NameReadBack DEF Key
<1>4. \A g \in DOMAIN groups : Of[g] = Row(g)
  OBVIOUS
<1> HIDE DEF keys, rows, Row, Of
<1>5. RowsOf(rows, groups, Of)
  BY <1>1, <1>2, <1>3, <1>4 DEF KeysListed, RowsOf
<1> QED
  BY <1>5 DEF rows, Of, Row

\* So are those of a property.
LEMMA PropertyRowsOf ==
    ASSUME NEW values, DOMAIN values \subseteq Plain, IsFiniteSet(DOMAIN values)
    PROVE  RowsOf(PropertyRows(values), values,
                  [v \in DOMAIN values |-> <<CsvQuote(v), values[v].articles,
                                             values[v].senderCount>>])
<1> DEFINE keys == Keys(values)
           Row(v) == <<CsvQuote(v), values[v].articles, values[v].senderCount>>
           rows == PropertyRows(values)
           Of == [v \in DOMAIN values |-> Row(v)]
<1>1. KeysListed(keys, values)
  BY PlainStrings, KeysAre
<1>2. DOMAIN rows = DOMAIN keys /\ \A n \in DOMAIN keys : rows[n] = Row(keys[n])
  BY DEF PropertyRows
<1>3. ASSUME NEW v \in DOMAIN values PROVE Key(Row(v)) = v
  <2>1. Row(v)[1] = CsvQuote(v)
    OBVIOUS
  <2>2. v \in Seq(0..127)
    BY DEF Plain
  <2> QED
    BY <2>1, <2>2, NameReadBack DEF Key
<1>4. \A v \in DOMAIN values : Of[v] = Row(v)
  OBVIOUS
<1> HIDE DEF keys, rows, Row, Of
<1>5. RowsOf(rows, values, Of)
  BY <1>1, <1>2, <1>3, <1>4 DEF KeysListed, RowsOf
<1> QED
  BY <1>5 DEF rows, Of, Row

-------------------------------------------------------------------------------
(* Rows.                                                                   *)

\* A sequence of any elements is a list.
LEMMA ListOf ==
    ASSUME NEW S, NEW s \in Seq(S)
    PROVE  IsList(s)
<1> DEFINE n == Len(s)
           R == Range(s)
<1>1. n \in Nat /\ s \in [1..n -> S] /\ DOMAIN s = 1..n
  BY LenProperties
<1> HIDE DEF n
<1>2. \A i \in 1..n : s[i] \in R
  BY <1>1 DEF Range
<1> HIDE DEF R
<1>3. s \in [1..n -> R]
  BY <1>1, <1>2
<1>4. s \in Seq(R)
  BY <1>1, <1>3, SeqDef
<1> QED
  BY <1>4 DEF IsList, R

\* A list has a length and a last element, and what is appended to it is the
\* last one then.
LEMMA ListAppend ==
    ASSUME NEW s, IsList(s), NEW x
    PROVE  /\ IsList(Append(s, x)) /\ Append(s, x) # <<>>
           /\ Last(Append(s, x)) = x
<1> DEFINE S == Range(s) \cup {x}
           t == Append(s, x)
           R == Range(s)
<1>1. s \in Seq(S) /\ x \in S
  <2>1. s \in Seq(R) /\ R \subseteq S
    BY DEF IsList
  <2> HIDE DEF R, S
  <2>2. s \in Seq(S)
    BY <2>1, SeqMonotonic
  <2> QED
    BY <2>2 DEF S
<1> HIDE DEF S
<1>2. t \in Seq(S) /\ Len(t) = Len(s) + 1 /\ t[Len(s) + 1] = x /\ Len(s) \in Nat
  BY <1>1, AppendProperties
<1> HIDE DEF t
<1>3. t # <<>>
  BY <1>2
<1>4. Last(t) = x
  BY <1>2 DEF Last
<1> QED
  BY <1>2, <1>3, <1>4, ListOf DEF t

\* A row that continues one cut off before is a list with RunTogether in it.
LEMMA ContinuedRow ==
    ASSUME NEW tail, IsList(tail), NEW row, IsList(row), row # <<>>
    PROVE  /\ IsList(Continued(tail, row))
           /\ tail # <<>> => RunTogether \in Range(Continued(tail, row))
<1> DEFINE S == Range(tail) \cup Range(row) \cup {RunTogether}
           A == Range(tail)
           B == Range(row)
<1>1. tail \in Seq(S) /\ row \in Seq(S) /\ <<RunTogether>> \in Seq(S)
  <2>1. tail \in Seq(A) /\ row \in Seq(B) /\ A \subseteq S /\ B \subseteq S
        /\ RunTogether \in S
    BY DEF IsList
  <2> HIDE DEF A, B, S
  <2>2. tail \in Seq(S) /\ row \in Seq(S)
    BY <2>1, SeqMonotonic
  <2>3. <<RunTogether>> \in Seq(S)
    BY <2>1
  <2> QED
    BY <2>2, <2>3
<1> HIDE DEF S
<1>2. CASE tail = <<>>
  BY <1>2 DEF Continued
<1>3. CASE tail # <<>>
  <2> DEFINE front == Front(tail)
             mark  == <<RunTogether>>
             begin == front \o mark
             rest  == Tail(row)
             c     == begin \o rest
  <2>1. front \in Seq(S) /\ Len(front) \in Nat
    BY <1>1, <1>3 DEF Front
  <2>2. rest \in Seq(S)
    BY <1>1, HeadTailProperties
  <2>3. mark \in Seq(S) /\ Len(mark) = 1 /\ mark[1] = RunTogether
    BY <1>1
  <2>4. Continued(tail, row) = c
    BY <1>3 DEF Continued
  <2> HIDE DEF front, mark, rest
  <2>5. begin \in Seq(S) /\ Len(begin) = Len(front) + 1 /\ begin[Len(front) + 1] = RunTogether
    <3>1. Joins(begin, front, mark) /\ begin \in Seq(S)
      BY <2>1, <2>3, ConcatJoins
    <3>2. 1 \in 1..1
      OBVIOUS
    <3> QED
      BY <2>3, <3>1, <3>2 DEF Joins
  <2> HIDE DEF begin
  <2>6. Joins(c, begin, rest) /\ c \in Seq(S)
    BY <2>2, <2>5, ConcatJoins
  <2>7. Len(front) + 1 \in 1..Len(begin) /\ Len(rest) \in Nat
    BY <2>1, <2>2, <2>5, LenProperties
  <2>8. c[Len(front) + 1] = RunTogether /\ Len(front) + 1 \in 1..Len(c)
    BY <2>5, <2>6, <2>7 DEF Joins
  <2> HIDE DEF c
  <2>9. DOMAIN c = 1..Len(c)
    BY <2>6, LenProperties
  <2>10. RunTogether \in Range(c)
    BY <2>8, <2>9 DEF Range
  <2> QED
    BY <2>4, <2>6, <2>10, ListOf
<1> QED
  BY <1>2, <1>3

\* The logs are those of the hierarchies and three more.
LEMMA LogFilesAre ==
    /\ LogFiles = {HistoryLog(h) : h \in Hierarchies} \cup {GroupsLog(h) : h \in Hierarchies}
                    \cup {AllLog, EncodingsLog, UseragentsLog}
    /\ Appended = {HistoryLog(h) : h \in Hierarchies} \cup {AllLog}
    /\ \A h \in Hierarchies : h # <<>>
<1> DEFINE L == Len(HierarchyOrder)
           first == [n \in 1..2 * L |->
                        IF n % 2 = 1 THEN HistoryLog(HierarchyOrder[(n + 1) \div 2])
                                     ELSE GroupsLog(HierarchyOrder[n \div 2])]
           S == {first[n] : n \in 1..2 * L} \cup {AllLog, EncodingsLog, UseragentsLog}
           last == <<AllLog, EncodingsLog, UseragentsLog>>
<1>1. L \in Nat /\ DOMAIN HierarchyOrder = 1..L
      /\ \A n \in 1..L : HierarchyOrder[n] \in Seq(Nat) \ {<<>>}
  BY NamesAssumption, LenProperties, ElementOfSeq
<1>2. Hierarchies = {HierarchyOrder[n] : n \in 1..L}
  BY <1>1 DEF Hierarchies, Range
<1>3. \A h \in Hierarchies : h # <<>>
  BY <1>1, <1>2
<1>4. {first[n] : n \in 1..2 * L}
        = {HistoryLog(h) : h \in Hierarchies} \cup {GroupsLog(h) : h \in Hierarchies}
  <2> HIDE DEF L
  <2>1. ASSUME NEW n \in 1..2 * L
        PROVE  \E h \in Hierarchies : first[n] \in {HistoryLog(h), GroupsLog(h)}
    <3>1. CASE n % 2 = 1
      <4>1. (n + 1) \div 2 \in 1..L
        BY <1>1, <3>1
      <4> QED
        BY <1>2, <3>1, <4>1
    <3>2. CASE n % 2 # 1
      <4>1. n \div 2 \in 1..L
        BY <1>1, <3>2
      <4> QED
        BY <1>2, <3>2, <4>1
    <3> QED
      BY <3>1, <3>2
  <2>2. ASSUME NEW i \in 1..L
        PROVE  /\ \E n \in 1..2 * L : first[n] = HistoryLog(HierarchyOrder[i])
               /\ \E n \in 1..2 * L : first[n] = GroupsLog(HierarchyOrder[i])
    <3>1. /\ 2 * i - 1 \in 1..2 * L /\ (2 * i - 1) % 2 = 1 /\ (2 * i - 1 + 1) \div 2 = i
          /\ 2 * i \in 1..2 * L /\ (2 * i) % 2 # 1 /\ (2 * i) \div 2 = i
      BY <1>1
    <3>2. \A n \in 1..2 * L : n % 2 = 1 /\ (n + 1) \div 2 = i => first[n] = HistoryLog(HierarchyOrder[i])
      OBVIOUS
    <3>3. \A n \in 1..2 * L : n % 2 # 1 /\ n \div 2 = i => first[n] = GroupsLog(HierarchyOrder[i])
      OBVIOUS
    <3> HIDE DEF first
    <3>4. first[2 * i - 1] = HistoryLog(HierarchyOrder[i]) /\ first[2 * i] = GroupsLog(HierarchyOrder[i])
      BY <3>1, <3>2, <3>3
    <3> QED
      BY <3>1, <3>4
  <2> HIDE DEF first
  <2> QED
    BY <1>2, <2>1, <2>2
<1>5. first \in Seq(S) /\ last \in Seq(S) /\ Len(first) = 2 * L /\ Len(last) = 3
      /\ last[1] = AllLog /\ last[2] = EncodingsLog /\ last[3] = UseragentsLog
      /\ DOMAIN first = 1..2 * L
  <2>1. last \in Seq(S) /\ Len(last) = 3
        /\ last[1] = AllLog /\ last[2] = EncodingsLog /\ last[3] = UseragentsLog
    <3> HIDE DEF first
    <3>1. AllLog \in S /\ EncodingsLog \in S /\ UseragentsLog \in S
      OBVIOUS
    <3> HIDE DEF S
    <3> QED
      BY <3>1
  <2> DEFINE M == 2 * L
  <2>2. M \in Nat /\ DOMAIN first = 1..M /\ (\A n \in 1..M : first[n] \in S)
        /\ first = [n \in 1..M |-> first[n]]
    BY <1>1
  <2> HIDE DEF first, S, L, M
  <2>3. first \in [1..M -> S]
    BY <2>2
  <2> QED
    BY <2>1, <2>2, <2>3, SeqDef, LenProperties DEF M
<1>6. LogOrder = first \o last
  BY <1>1 DEF LogOrder
<1>7. Range(LogOrder) = S
  <2> DEFINE all == first \o last
  <2>1. Joins(all, first, last) /\ all \in Seq(S)
    <3> HIDE DEF first, last, S
    <3> QED
      BY <1>5, ConcatJoins
  <2> HIDE DEF first, last, all, L
  <2>2. DOMAIN all = 1..2 * L + 3
    <3>1. Len(all) = 2 * L + 3
      BY <1>5, <2>1 DEF Joins
    <3> HIDE DEF S
    <3> QED
      BY <2>1, <3>1, LenProperties
  <2>3. /\ \A n \in 1..2 * L : all[n] = first[n]
        /\ \A n \in 1..3 : all[2 * L + n] = last[n]
    BY <1>5, <2>1 DEF Joins
  <2>4. \A n \in 1..2 * L + 3 : n \in 1..2 * L \/ \E i \in 1..3 : n = 2 * L + i
    <3>1. \A n, m \in Nat : n >= 1 /\ n <= m + 3 /\ n > m =>
             n = m + 1 \/ n = m + 2 \/ n = m + 3
      OBVIOUS
    <3>2. \A n \in 1..2 * L + 3 : n > 2 * L => \E i \in 1..3 : n = 2 * L + i
      BY <1>1, <3>1
    <3> QED
      BY <1>1, <3>2
  <2>5. \A n \in 1..2 * L : n \in 1..2 * L + 3
    BY <1>1
  <2>6. \A i \in 1..3 : 2 * L + i \in 1..2 * L + 3
    BY <1>1
  <2>7. 1 \in 1..3 /\ 2 \in 1..3 /\ 3 \in 1..3 /\ \A i \in 1..3 : i = 1 \/ i = 2 \/ i = 3
    OBVIOUS
  <2>8. ASSUME NEW n \in 1..2 * L + 3 PROVE all[n] \in S
    BY <1>5, <2>3, <2>4, <2>7
  <2>9. ASSUME NEW f \in S PROVE \E n \in 1..2 * L + 3 : all[n] = f
    BY <1>5, <2>3, <2>5, <2>6, <2>7
  <2>10. Range(all) = S
    <3> HIDE DEF S
    <3> QED
      BY <2>2, <2>8, <2>9 DEF Range
  <2> QED
    BY <1>6, <2>10 DEF all
<1>8. LogFiles = {HistoryLog(h) : h \in Hierarchies} \cup {GroupsLog(h) : h \in Hierarchies}
                   \cup {AllLog, EncodingsLog, UseragentsLog}
  <2> HIDE DEF first
  <2> QED
    BY <1>4, <1>7 DEF LogFiles
<1>9. Appended = {HistoryLog(h) : h \in Hierarchies} \cup {AllLog}
  BY <1>8 DEF Appended, HistoryLog, GroupsLog, AllLog, EncodingsLog, UseragentsLog
<1> QED
  BY <1>3, <1>8, <1>9

\* A log of groups says what was written to it.
LEMMA GroupsReadBack ==
    ASSUME NEW groups, DOMAIN groups \subseteq Plain, IsFiniteSet(DOMAIN groups)
    PROVE  GroupsAgree(GroupsRead(GroupRows(groups)), groups)
<1> DEFINE rows == GroupRows(groups)
           Row(g) == <<CsvQuote(g), groups[g].bytes, groups[g].articles, groups[g].senderCount>>
           Of == [g \in DOMAIN groups |-> Row(g)]
           new == GroupsRead(rows)
           Read(row) == [articles |-> row[3], bytes |-> row[2], senders |-> {},
                         senderCount |-> row[4]]
<1>1. RowsOf(rows, groups, Of)
  BY GroupRowsOf
<1>2. ASSUME NEW g \in DOMAIN groups
      PROVE  SameCounts(Read(Of[g]), groups[g])
  <2>1. Of[g] = Row(g)
    OBVIOUS
  <2> QED
    BY <2>1 DEF SameCounts
<1> HIDE DEF rows, Of, Row
<1>3. /\ DOMAIN Keyed(rows) = DOMAIN groups
      /\ \A g \in DOMAIN groups : rows[Max(Keyed(rows)[g])] = Of[g]
  BY <1>1, RowsKeyed
<1>4. /\ DOMAIN new = DOMAIN Keyed(rows)
      /\ \A g \in DOMAIN Keyed(rows) : new[g] = Read(rows[Max(Keyed(rows)[g])])
  BY DEF GroupsRead
<1> HIDE DEF new, Read
<1>5. GroupsAgree(new, groups)
  BY <1>2, <1>3, <1>4 DEF GroupsAgree
<1> QED
  BY <1>5 DEF new, rows

\* So does one of a property.
LEMMA PropertyReadBack ==
    ASSUME NEW values, DOMAIN values \subseteq Plain, IsFiniteSet(DOMAIN values)
    PROVE  ValuesAgree(PropertyRead(PropertyRows(values)), values)
<1> DEFINE rows == PropertyRows(values)
           Row(v) == <<CsvQuote(v), values[v].articles, values[v].senderCount>>
           Of == [v \in DOMAIN values |-> Row(v)]
           new == PropertyRead(rows)
           Read(row) == [articles |-> row[2], senders |-> {}, senderCount |-> row[3]]
<1>1. RowsOf(rows, values, Of)
  BY PropertyRowsOf
<1>2. ASSUME NEW v \in DOMAIN values
      PROVE  SameValue(Read(Of[v]), values[v])
  <2>1. Of[v] = Row(v)
    OBVIOUS
  <2> QED
    BY <2>1 DEF SameValue
<1> HIDE DEF rows, Of, Row
<1>3. /\ DOMAIN Keyed(rows) = DOMAIN values
      /\ \A v \in DOMAIN values : rows[Min(Keyed(rows)[v])] = Of[v]
  BY <1>1, RowsKeyed
<1>4. /\ DOMAIN new = DOMAIN Keyed(rows)
      /\ \A v \in DOMAIN Keyed(rows) : new[v] = Read(rows[Min(Keyed(rows)[v])])
  BY DEF PropertyRead
<1> HIDE DEF new, Read
<1>5. ValuesAgree(new, values)
  BY <1>2, <1>3, <1>4 DEF ValuesAgree
<1> QED
  BY <1>5 DEF new, rows

\* The row of a history has its bucket's counts, and four columns or five.
LEMMA HistoryRowSays ==
    ASSUME NEW f
    PROVE  LET row == HistoryRow(f)
           IN  /\ IsList(row) /\ Len(row) \in {4, 5}
               /\ RowSays(row, f, BucketOf(f, figures))
<1> DEFINE b == BucketOf(f, figures)
           both == <<run.end_time, Days * Day, b.bytes, b.articles>>
           S == Range(both) \cup {b.senderCount}
           row == HistoryRow(f)
<1>1. row = IF f = AllLog THEN both ELSE Append(both, b.senderCount)
  BY DEF HistoryRow, BucketOf
<1>2. DOMAIN both = 1..4 /\ Len(both) = 4 /\ both[3] = b.bytes /\ both[4] = b.articles
  <2> HIDE DEF b
  <2> QED
    OBVIOUS
<1>3. IsList(both)
  <2>1. ASSUME NEW w, NEW x, NEW y, NEW z PROVE IsList(<<w, x, y, z>>)
    <3>1. <<w, x, y, z>> \in Seq({w, x, y, z})
      OBVIOUS
    <3> QED
      BY <3>1, ListOf
  <2> HIDE DEF b
  <2> QED
    BY <2>1
<1> HIDE DEF b, both, row
<1>4. both \in Seq(S) /\ b.senderCount \in S
  <2> DEFINE R == Range(both)
  <2>1. both \in Seq(R) /\ R \subseteq S
    BY <1>3 DEF IsList
  <2> HIDE DEF R, S
  <2>2. both \in Seq(S)
    BY <2>1, SeqMonotonic
  <2> QED
    BY <2>2 DEF S
<1> HIDE DEF S
<1>5. CASE f = AllLog
  BY <1>1, <1>2, <1>3, <1>5 DEF RowSays, row, b
<1>6. CASE f # AllLog
  <2> DEFINE x == b.senderCount
  <2>1. row = Append(both, x) /\ x \in S
    BY <1>1, <1>4, <1>6
  <2> HIDE DEF x
  <2>2. /\ row \in Seq(S) /\ Len(row) = Len(both) + 1 /\ row[Len(both) + 1] = x
        /\ \A i \in 1..Len(both) : row[i] = both[i]
    BY <1>4, <2>1, AppendProperties
  <2>3. Len(row) = 5 /\ row[5] = x /\ row[3] = both[3] /\ row[4] = both[4]
    BY <1>2, <2>2
  <2>4. IsList(row)
    BY <2>2, ListOf
  <2> QED
    BY <1>2, <2>3, <2>4 DEF RowSays, row, b, x
<1> QED
  BY <1>5, <1>6 DEF row

\* What is left of it by a write that is cut off is a list with a column.
LEMMA CutRow ==
    ASSUME NEW row, IsList(row), Len(row) \in {4, 5}, NEW k \in CutFields
    PROVE  IsList(SubSeq(row, 1, k)) /\ SubSeq(row, 1, k) # <<>>
<1> DEFINE S == Range(row)
           cut == SubSeq(row, 1, k)
<1>1. row \in Seq(S)
  BY DEF IsList
<1>2. k \in 1..3
  BY LogsAssumption
<1> HIDE DEF S
<1>3. \A i \in 1..k : row[i] \in S
  <2>1. \A i \in 1..k : i \in 1..Len(row)
    <3>1. \A n \in {4, 5} : \A j \in 1..3 : \A i \in 1..j : i \in 1..n
      OBVIOUS
    <3> QED
      BY <1>2, <3>1
  <2> QED
    BY <1>1, <2>1, ElementOfSeq
<1>4. cut \in Seq(S) /\ Len(cut) = k
  BY <1>2, <1>3, SubSeqProperties
<1> HIDE DEF cut
<1>5. cut # <<>>
  BY <1>2, <1>4
<1> QED
  BY <1>4, <1>5, ListOf DEF cut

\* The new rows of each log.
LEMMA NewRowsAre ==
    /\ \A f \in Appended : NewRows(f) = <<HistoryRow(f)>>
    /\ \A h : NewRows(GroupsLog(h)) = GroupRows(GroupsIn(figures.groups, h))
    /\ NewRows(EncodingsLog) = PropertyRows(figures.charsets)
    /\ NewRows(UseragentsLog) = PropertyRows(figures.useragents)
<1>1. \A f \in Appended : NewRows(f) = <<HistoryRow(f)>>
  BY DEF NewRows, Appended, EncodingsLog, UseragentsLog
<1>2. \A h : NewRows(GroupsLog(h)) = GroupRows(GroupsIn(figures.groups, h))
  <2> TAKE h
  <2>1. GroupsLog(h)[1] = "groups" /\ GroupsLog(h)[2] = h
        /\ GroupsLog(h) # EncodingsLog /\ GroupsLog(h) # UseragentsLog
    BY DEF GroupsLog, EncodingsLog, UseragentsLog
  <2> QED
    BY <2>1 DEF NewRows
<1>3. /\ EncodingsLog[1] = "encodings" /\ UseragentsLog[1] = "useragents"
      /\ EncodingsLog # UseragentsLog
  BY DEF EncodingsLog, UseragentsLog
<1> QED
  BY <1>1, <1>2, <1>3 DEF NewRows

\* A history, written or cut off, is a list of rows; written, its last row says
\* what its bucket does, or continues one that was cut off.
HistorySays(log, f) ==
    /\ log.rows # <<>>
    /\ \/ RunTogether \in Range(Last(log.rows))
       \/ RowSays(Last(log.rows), f, BucketOf(f, figures))

Lists(log) == IsList(log.rows) /\ IsList(log.tail)

\* That is what becomes of it.
LEMMA HistoryWritten ==
    ASSUME LogsWellFormed, Listed, NEW f \in Appended
    PROVE  /\ Lists(Written(f)) /\ HistorySays(Written(f), f)
           /\ \A left \in CutOff(f) : Lists(left)
<1> DEFINE row == HistoryRow(f)
           old == Opened(f)
<1>1. NewRows(f)[1] = row
  <2>1. NewRows(f) = <<row>>
    BY NewRowsAre
  <2> HIDE DEF row
  <2> QED
    BY <2>1
<1>2. IsList(row) /\ Len(row) \in {4, 5} /\ RowSays(row, f, BucketOf(f, figures))
  BY HistoryRowSays
<1>3. row # <<>>
  <2> HIDE DEF row
  <2> QED
    BY <1>2
<1>4. IsList(<<>>)
  BY EmptySeq DEF IsList
<1>5. Lists(old) /\ DOMAIN old = {"rows", "tail"}
  <2>1. f \in LogFiles
    BY DEF Appended
  <2>2. CASE logs[f] # None
    <3>1. old = logs[f]
      BY <2>2 DEF Opened
    <3> QED
      BY <2>1, <2>2, <3>1 DEF Lists, Listed, LogsWellFormed
  <2>3. CASE logs[f] = None
    <3>1. old = EmptyLog
      BY <2>3 DEF Opened
    <3> QED
      BY <1>4, <3>1 DEF Lists, EmptyLog
  <2> QED
    BY <2>2, <2>3
<1>6. Written(f) = [rows |-> Append(old.rows, Continued(old.tail, row)), tail |-> <<>>]
  BY <1>1 DEF Written
<1>7. \A left \in CutOff(f) :
         left = old \/ \E k \in CutFields :
                          left = [old EXCEPT !.tail = Continued(@, SubSeq(row, 1, k))]
  BY <1>1 DEF CutOff
<1> HIDE DEF old, row
<1>8. /\ IsList(Continued(old.tail, row))
      /\ RunTogether \in Range(Continued(old.tail, row)) \/ Continued(old.tail, row) = row
  <2>1. old.tail = <<>> => Continued(old.tail, row) = row
    BY DEF Continued
  <2> QED
    BY <1>2, <1>3, <1>5, <2>1, ContinuedRow DEF Lists
<1> DEFINE c == Continued(old.tail, row)
           rows == Append(old.rows, c)
<1>9. IsList(rows) /\ rows # <<>> /\ Last(rows) = c
  <2> HIDE DEF c
  <2> QED
    BY <1>5, ListAppend DEF Lists
<1>10. Lists(Written(f)) /\ HistorySays(Written(f), f)
  <2>1. Written(f).rows = rows /\ Written(f).tail = <<>>
    BY <1>6
  <2> HIDE DEF rows, c
  <2> QED
    BY <1>2, <1>4, <1>8, <1>9, <2>1 DEF Lists, HistorySays, c
<1>11. ASSUME NEW left \in CutOff(f) PROVE Lists(left)
  <2>1. CASE left = old
    BY <1>5, <2>1
  <2>2. ASSUME NEW k \in CutFields, left = [old EXCEPT !.tail = Continued(@, SubSeq(row, 1, k))]
        PROVE  Lists(left)
    <3>1. left.rows = old.rows /\ left.tail = Continued(old.tail, SubSeq(row, 1, k))
      BY <1>5, <2>2
    <3>2. IsList(SubSeq(row, 1, k)) /\ SubSeq(row, 1, k) # <<>>
      BY <1>2, CutRow
    <3>3. IsList(left.tail)
      BY <1>5, <3>1, <3>2, ContinuedRow DEF Lists
    <3> QED
      BY <1>5, <3>1, <3>3 DEF Lists
  <2> QED
    BY <1>7, <2>1, <2>2
<1> QED
  BY <1>10, <1>11

\* The names in the figures can be written and read.
Plainly(F) ==
    /\ \A g \in DOMAIN F.groups : g \in Plain /\ HierarchyOf(g) \in Hierarchies
    /\ IsFiniteSet(DOMAIN F.groups)
    /\ DOMAIN F.useragents \subseteq Plain /\ IsFiniteSet(DOMAIN F.useragents)
    /\ DOMAIN F.charsets \subseteq Plain /\ IsFiniteSet(DOMAIN F.charsets)

\* A log that is written says what the figures do.
LEMMA WrittenSays ==
    ASSUME LogsWellFormed, Listed, Plainly(figures), NEW f \in LogFiles
    PROVE  Says(Written(f), f, figures)
<1> DEFINE rows == Written(f).rows
<1>1. f \in Appended => HistorySays(Written(f), f)
  BY HistoryWritten
<1>2. f \notin Appended => rows = NewRows(f)
  BY DEF Written
<1> HIDE DEF rows
<1>3. /\ \A h : GroupsLog(h) \notin Appended
      /\ EncodingsLog \notin Appended /\ UseragentsLog \notin Appended
  BY DEF Appended, GroupsLog, EncodingsLog, UseragentsLog
<1>4. ASSUME NEW h \in Hierarchies, f = GroupsLog(h)
      PROVE  GroupsAgree(GroupsRead(rows), GroupsIn(figures.groups, h))
  <2> DEFINE groups == GroupsIn(figures.groups, h)
  <2>1. DOMAIN groups \in SUBSET DOMAIN figures.groups
    BY DEF GroupsIn, Restrict
  <2>2. rows = GroupRows(groups)
    BY <1>2, <1>3, <1>4, NewRowsAre
  <2> HIDE DEF groups
  <2>3. DOMAIN groups \subseteq Plain /\ IsFiniteSet(DOMAIN groups)
    BY <2>1, FS_Subset DEF Plainly
  <2> QED
    BY <2>2, <2>3, GroupsReadBack DEF groups
<1>5. ASSUME f = EncodingsLog PROVE ValuesAgree(PropertyRead(rows), figures.charsets)
  <2>1. rows = PropertyRows(figures.charsets)
    BY <1>2, <1>3, <1>5, NewRowsAre
  <2> QED
    BY <2>1, PropertyReadBack DEF Plainly
<1>6. ASSUME f = UseragentsLog PROVE ValuesAgree(PropertyRead(rows), figures.useragents)
  <2>1. rows = PropertyRows(figures.useragents)
    BY <1>2, <1>3, <1>6, NewRowsAre
  <2> QED
    BY <2>1, PropertyReadBack DEF Plainly
<1> QED
  BY <1>1, <1>4, <1>5, <1>6 DEF Says, HistorySays, rows

\* What has one value for each element of a finite set has finitely many.
LEMMA FiniteImage ==
    ASSUME NEW S, IsFiniteSet(S), NEW f, S \subseteq DOMAIN f
    PROVE  IsFiniteSet({f[x] : x \in S})
<1> DEFINE T == {f[x] : x \in S}
           g == [x \in S |-> f[x]]
<1>1. g \in [S -> T] /\ \A t \in T : \E x \in S : g[x] = t
  OBVIOUS
<1> HIDE DEF g, T
<1>2. g \in Surjection(S, T)
  BY <1>1 DEF Surjection
<1>3. IsFiniteSet(T)
  BY <1>2, FS_Surjection
<1> QED
  BY <1>3 DEF T

\* The names that are counted can be written and read.
LEMMA CountedPlainly ==
    ASSUME PlainNames, NEW as \in SUBSET Articles, IsFiniteSet(as),
           NEW F, FiguresCount(F, as)
    PROVE  Plainly(F)
<1>1. /\ DOMAIN F.groups = UNION {GroupVisits[a] : a \in as}
      /\ DOMAIN F.useragents = {AgentOf[a] : a \in as}
      /\ DOMAIN F.charsets = {CharsetOf[a] : a \in as}
  BY DEF FiguresCount, PropertyCounts
<1>2. ASSUME NEW a \in as
      PROVE  /\ IsFiniteSet(GroupVisits[a])
             /\ \A g \in GroupVisits[a] : g \in Plain /\ HierarchyOf(g) \in Hierarchies
             /\ AgentOf[a] \in Plain /\ CharsetOf[a] \in Plain
  <2>1. GroupVisits[a] = {GroupsOf[a][n] : n \in Wanted(a)}
    BY DEF GroupVisits
  <2>2. IsFiniteSet({GroupsOf[a][n] : n \in Wanted(a)})
    BY WantedNumbers, FiniteImage
  <2>3. \A g \in GroupVisits[a] : g \in Plain /\ HierarchyOf(g) \in Hierarchies
    BY VisitedGroups DEF PlainNames, Plain
  <2>4. AgentOf[a] \in Plain /\ CharsetOf[a] \in Plain
    BY DEF AgentOf, CharsetOf, PlainNames, Plain
  <2> QED
    BY <2>1, <2>2, <2>3, <2>4
<1>3. IsFiniteSet(DOMAIN F.groups)
  <2> DEFINE visits == {GroupVisits[a] : a \in as}
  <2>1. as \subseteq DOMAIN GroupVisits
    BY DEF GroupVisits
  <2>2. IsFiniteSet(visits)
    BY <2>1, FiniteImage
  <2>3. \A v \in visits : IsFiniteSet(v)
    BY <1>2
  <2>4. DOMAIN F.groups = UNION visits
    BY <1>1
  <2> HIDE DEF visits
  <2> QED
    BY <2>2, <2>3, <2>4, FS_UNION
<1>4. IsFiniteSet(DOMAIN F.useragents) /\ IsFiniteSet(DOMAIN F.charsets)
  <2>1. as \subseteq DOMAIN AgentOf /\ as \subseteq DOMAIN CharsetOf
    BY DEF AgentOf, CharsetOf
  <2>2. IsFiniteSet({AgentOf[a] : a \in as}) /\ IsFiniteSet({CharsetOf[a] : a \in as})
    BY <2>1, FiniteImage
  <2> QED
    BY <1>1, <2>2
<1> QED
  BY <1>1, <1>2, <1>3, <1>4 DEF Plainly

-------------------------------------------------------------------------------
(* What is read of the logs is what the scan counted.                      *)

\* A bucket with the counts of a row that says what bucket c does.
LEMMA FromRowAgrees ==
    ASSUME NEW b, DOMAIN b = DOMAIN EmptyBucket, NEW row
    PROVE  /\ DOMAIN FromRow(b, row) = DOMAIN EmptyBucket
           /\ \A f, c : RowSays(row, f, c) => BucketsAgree(f, FromRow(b, row), c)
<1> DEFINE new == FromRow(b, row)
<1>1. /\ DOMAIN new = DOMAIN b /\ new.bytes = row[3] /\ new.articles = row[4]
      /\ Len(row) > 4 => new.senderCount = row[5]
  BY DEF FromRow, EmptyBucket
<1> HIDE DEF new
<1>2. ASSUME NEW f, NEW c, RowSays(row, f, c) PROVE BucketsAgree(f, new, c)
  BY <1>1, <1>2 DEF RowSays, BucketsAgree
<1> QED
  BY <1>1, <1>2 DEF new

\* Groups of a log that says what the groups of hierarchy h do.
LEMMA GroupsTaken ==
    ASSUME NEW F, NEW S, NEW new, NEW h,
           DOMAIN F \subseteq DOMAIN S, GroupsAgree(new, GroupsIn(S, h))
    PROVE  LET all == WithGroups(F, new)
           IN  /\ DOMAIN all \subseteq DOMAIN S
               /\ \A g \in DOMAIN S : HierarchyOf(g) = h =>
                      g \in DOMAIN all /\ SameCounts(all[g], S[g])
               /\ \A g \in DOMAIN S : g \in DOMAIN F /\ SameCounts(F[g], S[g]) =>
                      g \in DOMAIN all /\ SameCounts(all[g], S[g])
<1> DEFINE all == WithGroups(F, new)
<1>1. /\ DOMAIN GroupsIn(S, h) = {g \in DOMAIN S : HierarchyOf(g) = h}
      /\ \A g \in DOMAIN GroupsIn(S, h) : GroupsIn(S, h)[g] = S[g]
  BY DEF GroupsIn, Restrict
<1>2. /\ DOMAIN new = {g \in DOMAIN S : HierarchyOf(g) = h}
      /\ \A g \in DOMAIN new : SameCounts(new[g], S[g])
  BY <1>1 DEF GroupsAgree
<1>3. /\ DOMAIN all = DOMAIN F \cup DOMAIN new
      /\ \A g \in DOMAIN all : all[g] = IF g \in DOMAIN new THEN new[g] ELSE F[g]
  BY DEF WithGroups
<1> HIDE DEF all
<1> QED
  BY <1>2, <1>3 DEF all

\* What reading file f makes of the figures F and leaves of them.
TakenFrom(f, new, F, S) ==
    /\ Fields(new) /\ DOMAIN new.groups \subseteq DOMAIN S.groups
    /\ Agrees(f, new, S)
    /\ \A g \in LogFiles : Agrees(g, F, S) => Agrees(g, new, S)

\* The kinds of files differ in their first component, those of a kind in the
\* second.
LEMMA FileKinds ==
    /\ AllLog[1] = "history" /\ EncodingsLog[1] = "encodings" /\ UseragentsLog[1] = "useragents"
    /\ \A h : HistoryLog(h)[1] = "history" /\ HistoryLog(h)[2] = h
    /\ \A h : GroupsLog(h)[1] = "groups" /\ GroupsLog(h)[2] = h
    /\ \A h \in Hierarchies : HistoryLog(h) # AllLog
<1>1. \A h : h # <<>> => HistoryLog(h) # AllLog
  <2> TAKE h
  <2>1. HistoryLog(h)[2] = h /\ AllLog[2] = <<>>
    BY DEF HistoryLog, AllLog
  <2> QED
    BY <2>1
<1> QED
  BY <1>1, LogFilesAre DEF HistoryLog, GroupsLog, AllLog, EncodingsLog, UseragentsLog

\* Reading the history of all articles takes their totals.
LEMMA AllTaken ==
    ASSUME Fields(figures), NEW S, DOMAIN figures.groups \subseteq DOMAIN S.groups,
           AllLog \in Appended, Says(logs[AllLog], AllLog, S)
    PROVE  TakenFrom(AllLog, ReadInto(AllLog), figures, S)
<1> DEFINE F == figures
           row == Last(logs[AllLog].rows)
           b == FromRow(F.all, row)
           new == ReadInto(AllLog)
<1>1. logs[AllLog].rows # <<>> /\ (RunTogether \in Range(row) \/ RowSays(row, AllLog, S.all))
  BY DEF Says, BucketOf
<1>2. new = [F EXCEPT !.all = FromRow(@, row)]
  <2>1. AllLog[1] # "groups" /\ AllLog # EncodingsLog /\ AllLog # UseragentsLog
    BY FileKinds
  <2> QED
    BY <1>1, <2>1 DEF ReadInto
<1>3. DOMAIN F.all = DOMAIN EmptyBucket
  BY DEF Fields
<1> HIDE DEF row
<1>4. DOMAIN b = DOMAIN EmptyBucket /\ (RowSays(row, AllLog, S.all) => BucketsAgree(AllLog, b, S.all))
  BY <1>3, FromRowAgrees
<1> HIDE DEF b
<1>5. /\ DOMAIN new = DOMAIN F /\ new.all = b /\ new.hierarchies = F.hierarchies
      /\ new.groups = F.groups /\ new.charsets = F.charsets /\ new.useragents = F.useragents
  BY <1>2 DEF Fields, EmptyFigures, b
<1> HIDE DEF new, F
<1>6. Fields(new)
  BY <1>4, <1>5 DEF Fields, F
<1>7. ASSUME NEW g \in LogFiles, Agrees(g, F, S) PROVE Agrees(g, new, S) \/ g = AllLog
  BY <1>5, <1>7 DEF Agrees, BucketOf
<1>8. Agrees(AllLog, new, S)
  <2>1. Whole(AllLog) => BucketsAgree(AllLog, BucketOf(AllLog, new), BucketOf(AllLog, S))
    BY <1>1, <1>4, <1>5 DEF Whole, BucketOf, row
  <2>2. AllLog # EncodingsLog /\ AllLog # UseragentsLog /\ \A h : AllLog # GroupsLog(h)
    BY FileKinds
  <2> QED
    BY <2>1, <2>2 DEF Agrees
<1> QED
  BY <1>5, <1>6, <1>7, <1>8 DEF TakenFrom, new, F

\* Reading the history of a hierarchy takes its bucket.
LEMMA HierarchyTaken ==
    ASSUME Fields(figures), NEW S, DOMAIN figures.groups \subseteq DOMAIN S.groups,
           NEW h \in Hierarchies, HistoryLog(h) \in Appended,
           Says(logs[HistoryLog(h)], HistoryLog(h), S)
    PROVE  TakenFrom(HistoryLog(h), ReadInto(HistoryLog(h)), figures, S)
<1> DEFINE F == figures
           f == HistoryLog(h)
           row == Last(logs[f].rows)
           b == FromRow(F.hierarchies[h], row)
           new == ReadInto(f)
<1>0. f[1] = "history" /\ f[2] = h /\ f # AllLog /\ f # EncodingsLog /\ f # UseragentsLog
      /\ \A i : f # GroupsLog(i)
  BY FileKinds
<1>1. logs[f].rows # <<>> /\ (RunTogether \in Range(row) \/ RowSays(row, f, S.hierarchies[h]))
  BY <1>0 DEF Says, BucketOf
<1>2. new = [F EXCEPT !.hierarchies[h] = FromRow(@, row)]
  <2> HIDE DEF f
  <2> QED
    BY <1>0, <1>1 DEF ReadInto
<1>3. DOMAIN F.hierarchies[h] = DOMAIN EmptyBucket /\ DOMAIN F.hierarchies = Hierarchies
  BY DEF Fields
<1> HIDE DEF row, f
<1>4. DOMAIN b = DOMAIN EmptyBucket
      /\ (RowSays(row, f, S.hierarchies[h]) => BucketsAgree(f, b, S.hierarchies[h]))
  BY <1>3, FromRowAgrees
<1>5. /\ DOMAIN new = DOMAIN F /\ new.all = F.all
      /\ DOMAIN new.hierarchies = Hierarchies /\ new.hierarchies[h] = b
      /\ \A i \in Hierarchies : i # h => new.hierarchies[i] = F.hierarchies[i]
      /\ new.groups = F.groups /\ new.charsets = F.charsets /\ new.useragents = F.useragents
  <2>1. new = [F EXCEPT !.hierarchies = [F.hierarchies EXCEPT ![h] = b]]
    BY <1>2
  <2>2. DOMAIN F = DOMAIN EmptyFigures
    BY DEF Fields
  <2> DEFINE x == [F.hierarchies EXCEPT ![h] = b]
  <2>3. DOMAIN x = Hierarchies /\ x[h] = b /\ \A i \in Hierarchies : i # h => x[i] = F.hierarchies[i]
    <3> HIDE DEF b
    <3> QED
      BY <1>3
  <2> HIDE DEF x, new, F
  <2>4. /\ DOMAIN new = DOMAIN F /\ new.all = F.all /\ new.hierarchies = x
        /\ new.groups = F.groups /\ new.charsets = F.charsets /\ new.useragents = F.useragents
    BY <2>1, <2>2 DEF EmptyFigures, x
  <2> QED
    BY <2>3, <2>4
<1> HIDE DEF new, F, b
<1>6. Fields(new)
  <2>1. \A i \in Hierarchies : DOMAIN new.hierarchies[i] = DOMAIN EmptyBucket
    BY <1>4, <1>5 DEF Fields, F
  <2> QED
    BY <1>5, <2>1 DEF Fields, F
<1>7. ASSUME NEW g \in LogFiles, Agrees(g, F, S) PROVE Agrees(g, new, S) \/ g = f
  <2>1. CASE g \in Appended /\ g # f
    <3>1. BucketOf(g, new) = BucketOf(g, F)
      <4>1. CASE g = AllLog
        BY <1>5, <4>1 DEF BucketOf
      <4>2. CASE g # AllLog
        <5>1. PICK i \in Hierarchies : g = HistoryLog(i)
          BY <2>1, <4>2, LogFilesAre
        <5>2. i # h /\ g[2] = i
          BY <2>1, <5>1, FileKinds DEF f
        <5> QED
          BY <1>5, <4>2, <5>2 DEF BucketOf
      <4> QED
        BY <4>1, <4>2
    <3> QED
      BY <1>5, <1>7, <3>1 DEF Agrees
  <2>2. CASE g \notin Appended
    BY <1>5, <1>7, <2>2 DEF Agrees
  <2> QED
    BY <2>1, <2>2
<1>8. Agrees(f, new, S)
  <2>1. Whole(f) => BucketsAgree(f, BucketOf(f, new), BucketOf(f, S))
    BY <1>0, <1>1, <1>4, <1>5 DEF Whole, BucketOf, row
  <2> QED
    BY <1>0, <2>1 DEF Agrees
<1> QED
  BY <1>5, <1>6, <1>7, <1>8 DEF TakenFrom, new, F, f

\* Reading the groups of a hierarchy takes them.
LEMMA GroupsFileTaken ==
    ASSUME Fields(figures), NEW S, DOMAIN figures.groups \subseteq DOMAIN S.groups,
           NEW h \in Hierarchies, Says(logs[GroupsLog(h)], GroupsLog(h), S)
    PROVE  TakenFrom(GroupsLog(h), ReadInto(GroupsLog(h)), figures, S)
<1> DEFINE F == figures
           f == GroupsLog(h)
           read == GroupsRead(logs[f].rows)
           groups == WithGroups(F.groups, read)
           new == ReadInto(f)
<1>0. f[1] = "groups" /\ f[2] = h /\ f # AllLog /\ f # EncodingsLog /\ f # UseragentsLog
      /\ f \notin Appended /\ f[1] # "history"
  BY FileKinds DEF Appended
<1>1. GroupsAgree(read, GroupsIn(S.groups, h))
  BY DEF Says
<1>2. new = [F EXCEPT !.groups = WithGroups(@, read)]
  <2> HIDE DEF f
  <2> QED
    BY <1>0 DEF ReadInto
<1> HIDE DEF read, f
<1>3. /\ DOMAIN groups \subseteq DOMAIN S.groups
      /\ \A g \in DOMAIN S.groups : HierarchyOf(g) = h =>
             g \in DOMAIN groups /\ SameCounts(groups[g], S.groups[g])
      /\ \A g \in DOMAIN S.groups : g \in DOMAIN F.groups /\ SameCounts(F.groups[g], S.groups[g]) =>
             g \in DOMAIN groups /\ SameCounts(groups[g], S.groups[g])
  BY <1>1, GroupsTaken
<1>4. DOMAIN F = DOMAIN EmptyFigures
  BY DEF Fields
<1>5. new = [F EXCEPT !.groups = groups]
  BY <1>2
<1> HIDE DEF groups, new, F
<1>6. /\ DOMAIN new = DOMAIN F /\ new.all = F.all /\ new.hierarchies = F.hierarchies
      /\ new.groups = groups /\ new.charsets = F.charsets /\ new.useragents = F.useragents
  BY <1>4, <1>5 DEF EmptyFigures
<1>7. Fields(new)
  BY <1>6 DEF Fields, F
<1>8. ASSUME NEW g \in LogFiles, Agrees(g, F, S) PROVE Agrees(g, new, S)
  BY <1>3, <1>6, <1>8 DEF Agrees, BucketOf
<1>9. Agrees(f, new, S)
  <2>1. \A g \in DOMAIN S.groups : f = GroupsLog(HierarchyOf(g)) =>
            g \in DOMAIN new.groups /\ SameCounts(new.groups[g], S.groups[g])
    <3> SUFFICES ASSUME NEW g \in DOMAIN S.groups, f = GroupsLog(HierarchyOf(g))
                 PROVE  g \in DOMAIN new.groups /\ SameCounts(new.groups[g], S.groups[g])
      OBVIOUS
    <3>1. HierarchyOf(g) = h
      BY <1>0, FileKinds
    <3> QED
      BY <1>3, <1>6, <3>1
  <2> QED
    BY <1>0, <2>1 DEF Agrees
<1> QED
  BY <1>3, <1>6, <1>7, <1>8, <1>9 DEF TakenFrom, new, F, f

\* Reading a property takes its values.
LEMMA PropertiesTaken ==
    ASSUME Fields(figures), NEW S, DOMAIN figures.groups \subseteq DOMAIN S.groups,
           NEW f \in {EncodingsLog, UseragentsLog}, Says(logs[f], f, S)
    PROVE  TakenFrom(f, ReadInto(f), figures, S)
<1> DEFINE F == figures
           read == PropertyRead(logs[f].rows)
           new == ReadInto(f)
<1>0. f # AllLog /\ f[1] # "history" /\ f[1] # "groups" /\ f \notin Appended
      /\ EncodingsLog # UseragentsLog /\ \A h : f # GroupsLog(h)
  BY FileKinds DEF Appended
<1>1. DOMAIN F = DOMAIN EmptyFigures
  BY DEF Fields
<1>2. /\ f = EncodingsLog => new = [F EXCEPT !.charsets = read]
      /\ f = UseragentsLog => new = [F EXCEPT !.useragents = read]
  BY <1>0 DEF ReadInto
<1>3. /\ f = EncodingsLog => ValuesAgree(read, S.charsets)
      /\ f = UseragentsLog => ValuesAgree(read, S.useragents)
  BY DEF Says
<1> HIDE DEF new, F, read
<1>4. /\ DOMAIN new = DOMAIN F /\ new.all = F.all /\ new.hierarchies = F.hierarchies
      /\ new.groups = F.groups
      /\ f = EncodingsLog => new.charsets = read /\ new.useragents = F.useragents
      /\ f = UseragentsLog => new.useragents = read /\ new.charsets = F.charsets
  BY <1>1, <1>2 DEF EmptyFigures
<1>5. Fields(new)
  BY <1>4 DEF Fields, F
<1>6. ASSUME NEW g \in LogFiles, Agrees(g, F, S) PROVE Agrees(g, new, S) \/ g = f
  BY <1>4, <1>6 DEF Agrees, BucketOf
<1>7. Agrees(f, new, S)
  BY <1>0, <1>3, <1>4 DEF Agrees
<1> QED
  BY <1>4, <1>5, <1>6, <1>7 DEF TakenFrom, new, F

\* Reading a log takes what it says and leaves what others said.
LEMMA ReadTaken ==
    ASSUME Fields(figures), NEW S, DOMAIN figures.groups \subseteq DOMAIN S.groups,
           NEW f \in LogFiles, Says(logs[f], f, S)
    PROVE  TakenFrom(f, ReadInto(f), figures, S)
<1>1. CASE f = AllLog
  BY <1>1, AllTaken, LogFilesAre
<1>2. CASE \E h \in Hierarchies : f = HistoryLog(h)
  BY <1>2, HierarchyTaken, LogFilesAre
<1>3. CASE \E h \in Hierarchies : f = GroupsLog(h)
  BY <1>3, GroupsFileTaken
<1>4. CASE f \in {EncodingsLog, UseragentsLog}
  BY <1>4, PropertiesTaken
<1> QED
  BY <1>1, <1>2, <1>3, <1>4, LogFilesAre

-------------------------------------------------------------------------------
(* The pages.                                                              *)

\* There are five of them and one for each hierarchy.
LEMMA PagesAre ==
    /\ \A p \in Pages :
          \/ p[1] \in {"index", "allgroups", "agents", "agents-summary", "charsets"}
          \/ p[1] = "hierarchy" /\ p[2] \in Hierarchies
    /\ \A n \in 1..Len(PageOrder) : PageOrder[n] \in Pages
<1> DEFINE first == << <<"index", <<>>>>, <<"allgroups", <<>>>>, <<"agents", <<>>>>,
                       <<"agents-summary", <<>>>>, <<"charsets", <<>>>> >>
           last == [n \in DOMAIN HierarchyOrder |-> <<"hierarchy", HierarchyOrder[n]>>]
           A == { <<"index", <<>>>>, <<"allgroups", <<>>>>, <<"agents", <<>>>>,
                  <<"agents-summary", <<>>>>, <<"charsets", <<>>>> }
           B == {<<"hierarchy", h>> : h \in Hierarchies}
           L == Len(HierarchyOrder)
<1>1. first \in Seq(A \cup B)
  <2>1. \A v, w, x, y, z : \A T : {v, w, x, y, z} \subseteq T => <<v, w, x, y, z>> \in Seq(T)
    OBVIOUS
  <2> HIDE DEF B
  <2>2. A \subseteq A \cup B
    OBVIOUS
  <2> QED
    BY <2>1, <2>2
<1>2. last \in Seq(A \cup B)
  <2>1. L \in Nat /\ DOMAIN HierarchyOrder = 1..L
    BY NamesAssumption, LenProperties
  <2>2. last = [n \in 1..L |-> last[n]] /\ \A n \in 1..L : last[n] \in B
    BY <2>1 DEF Hierarchies, Range
  <2> HIDE DEF last, A, B, L
  <2>3. last \in [1..L -> A \cup B]
    BY <2>2
  <2> QED
    BY <2>1, <2>3, SeqDef
<1>3. PageOrder = first \o last
  BY DEF PageOrder
<1> HIDE DEF first, last
<1>4. PageOrder \in Seq(A \cup B)
  <2> DEFINE T == A \cup B
  <2>1. first \in Seq(T) /\ last \in Seq(T)
    BY <1>1, <1>2
  <2> HIDE DEF T
  <2>2. first \o last \in Seq(T)
    BY <2>1, ConcatJoins
  <2> QED
    BY <1>3, <2>2 DEF T
<1>5. Pages \subseteq A \cup B /\ \A n \in 1..Len(PageOrder) : PageOrder[n] \in Pages
  <2> DEFINE T == A \cup B
  <2>1. PageOrder \in Seq(T)
    BY <1>4
  <2> HIDE DEF T
  <2>2. DOMAIN PageOrder = 1..Len(PageOrder) /\ \A n \in 1..Len(PageOrder) : PageOrder[n] \in T
    BY <2>1, LenProperties, ElementOfSeq
  <2> QED
    BY <2>2 DEF Pages, Range, T
<1>6. /\ \A p \in A : p[1] \in {"index", "allgroups", "agents", "agents-summary", "charsets"}
      /\ \A p \in B : p[1] = "hierarchy" /\ p[2] \in Hierarchies
  OBVIOUS
<1> HIDE DEF A, B
<1> QED
  BY <1>5, <1>6

\* Tables of values with the same counts are the same, and so are their sums.
LEMMA TablesAgree ==
    ASSUME NEW values, NEW others, ValuesAgree(values, others)
    PROVE  /\ Table(values) = Table(others)
           /\ Table(Summarized(values)) = Table(Summarized(others))
<1>1. /\ DOMAIN values = DOMAIN others
      /\ \A v \in DOMAIN values : /\ values[v].articles = others[v].articles
                                  /\ values[v].senderCount = others[v].senderCount
  BY DEF ValuesAgree, SameValue
<1>2. Table(values) = Table(others)
  BY <1>1 DEF Table
<1>3. /\ [v \in DOMAIN values |-> values[v].articles] = [v \in DOMAIN others |-> others[v].articles]
      /\ [v \in DOMAIN values |-> values[v].senderCount]
           = [v \in DOMAIN others |-> others[v].senderCount]
  BY <1>1
<1>4. Summarized(values) = Summarized(others)
  BY <1>1, <1>3 DEF Summarized
<1> QED
  BY <1>2, <1>4

\* A page of figures that agree with others is the page of the others, but for
\* one made from a row that is not whole.
LEMMA PageRepeats ==
    ASSUME NEW F, NEW S, DOMAIN F.groups \subseteq DOMAIN S.groups,
           \A g \in DOMAIN S.groups : HierarchyOf(g) \in Hierarchies,
           \A f \in LogFiles : Agrees(f, F, S), NEW p \in Pages
    PROVE  (\E f \in Sources(p) : ~Whole(f)) \/ PageOf(p, F) = PageOf(p, S)
<1>0. /\ \A h \in Hierarchies : HistoryLog(h) \in Appended /\ GroupsLog(h) \in LogFiles
                                /\ HistoryLog(h) # AllLog /\ HistoryLog(h)[2] = h
      /\ AllLog \in Appended /\ EncodingsLog \in LogFiles /\ UseragentsLog \in LogFiles
      /\ Appended \subseteq LogFiles
  BY LogFilesAre, FileKinds DEF Appended
<1>1. DOMAIN F.groups = DOMAIN S.groups
      /\ \A g \in DOMAIN S.groups : Summary(F.groups[g]) = Summary(S.groups[g])
  <2> SUFFICES ASSUME NEW g \in DOMAIN S.groups
               PROVE  g \in DOMAIN F.groups /\ Summary(F.groups[g]) = Summary(S.groups[g])
    OBVIOUS
  <2>1. HierarchyOf(g) \in Hierarchies /\ GroupsLog(HierarchyOf(g)) \in LogFiles
    BY <1>0
  <2>2. g \in DOMAIN F.groups /\ SameCounts(F.groups[g], S.groups[g])
    BY <2>1 DEF Agrees
  <2> QED
    BY <2>2 DEF SameCounts, Summary
<1>2. ASSUME Whole(AllLog) PROVE Total(F.all) = Total(S.all)
  <2>1. BucketsAgree(AllLog, F.all, S.all)
    BY <1>0, <1>2 DEF Agrees, BucketOf
  <2> QED
    BY <2>1 DEF BucketsAgree, Total
<1>3. ASSUME NEW h \in Hierarchies, Whole(HistoryLog(h))
      PROVE  Summary(F.hierarchies[h]) = Summary(S.hierarchies[h])
  <2>1. BucketsAgree(HistoryLog(h), F.hierarchies[h], S.hierarchies[h])
    BY <1>0, <1>3 DEF Agrees, BucketOf
  <2> QED
    BY <1>0, <2>1 DEF BucketsAgree, Summary
<1>4. ValuesAgree(F.charsets, S.charsets) /\ ValuesAgree(F.useragents, S.useragents)
  BY <1>0 DEF Agrees
<1> SUFFICES ASSUME \A f \in Sources(p) : Whole(f) PROVE PageOf(p, F) = PageOf(p, S)
  OBVIOUS
<1>5. CASE p[1] = "index"
  <2>1. Sources(p) = Appended
    BY <1>5 DEF Sources
  <2>2. [h \in Hierarchies |-> Summary(F.hierarchies[h])]
          = [h \in Hierarchies |-> Summary(S.hierarchies[h])]
    BY <1>0, <1>3, <2>1
  <2>3. Total(F.all) = Total(S.all)
    BY <1>0, <1>2, <2>1
  <2> QED
    BY <1>5, <2>2, <2>3 DEF PageOf
<1>6. CASE p[1] = "allgroups"
  <2>1. Total(F.all) = Total(S.all)
    BY <1>2, <1>6 DEF Sources
  <2>2. [g \in DOMAIN F.groups |-> Summary(F.groups[g])]
          = [g \in DOMAIN S.groups |-> Summary(S.groups[g])]
    BY <1>1
  <2> QED
    BY <1>6, <2>1, <2>2 DEF PageOf
<1>7. CASE p[1] = "hierarchy"
  <2>1. p[2] \in Hierarchies
    BY <1>7, PagesAre
  <2>2. Summary(F.hierarchies[p[2]]) = Summary(S.hierarchies[p[2]])
    <3>1. HistoryLog(p[2]) \in Sources(p)
      BY <1>7 DEF Sources
    <3> QED
      BY <1>3, <2>1, <3>1
  <2>3. DOMAIN GroupsIn(F.groups, p[2]) = DOMAIN GroupsIn(S.groups, p[2])
        /\ DOMAIN GroupsIn(S.groups, p[2]) \subseteq DOMAIN S.groups
    BY <1>1 DEF GroupsIn, Restrict
  <2>4. [g \in DOMAIN GroupsIn(F.groups, p[2]) |-> Summary(F.groups[g])]
          = [g \in DOMAIN GroupsIn(S.groups, p[2]) |-> Summary(S.groups[g])]
    BY <1>1, <2>3
  <2> QED
    BY <1>7, <2>2, <2>4 DEF PageOf
<1>8. CASE p[1] \in {"agents", "agents-summary", "charsets"}
  <2>1. /\ Table(F.useragents) = Table(S.useragents) /\ Table(F.charsets) = Table(S.charsets)
        /\ Table(Summarized(F.useragents)) = Table(Summarized(S.useragents))
    BY <1>4, TablesAgree
  <2> QED
    BY <1>8, <2>1 DEF PageOf
<1> QED
  BY <1>5, <1>6, <1>7, <1>8, PagesAre

-------------------------------------------------------------------------------
(* Every step keeps what logs and figures say of each other.               *)

\* A run begins with figures that have all of their parts, and no groups.
LEMMA EmptyFields == Fields(EmptyFigures) /\ DOMAIN EmptyFigures.groups = {}
BY DEF Fields, EmptyFigures

\* At first nothing was scanned.
LEMMA ReuseInit == Init => Reuse
<1> SUFFICES ASSUME Init PROVE Reuse
  OBVIOUS
<1>1. InMemory /\ Logged /\ Kept /\ Reading /\ ReuseRepeats
  BY DEF Init, InMemory, Logged, Kept, Reading, ReuseRepeats
<1>2. Listed
  BY LogsAssumption DEF Init, Listed, Appended
<1>3. DOMAIN pages = Pages
  BY DEF Init
<1> QED
  BY <1>1, <1>2, <1>3 DEF Reuse

\* What is said does not change where nothing of it does.
LEMMA ReuseKept ==
    ASSUME Reuse, UNCHANGED <<pc, run, todo, figures, logs, pages, scanned>>
    PROVE  Reuse'
<1>1. InMemory' /\ Listed' /\ Logged' /\ Kept' /\ DOMAIN pages' = Pages
  BY DEF Reuse, InMemory, Listed, Logged, Kept
<1>2. \A f : Whole(f)' <=> Whole(f)
  BY DEF Whole
<1>3. Reading'
  BY <1>2 DEF Reuse, Reading, ReadFiles, Agrees
<1>4. ReuseRepeats'
  BY <1>2 DEF Reuse, ReuseRepeats
<1> QED
  BY <1>1, <1>3, <1>4 DEF Reuse

\* A run that ends leaves files behind and nothing else.
LEMMA ReuseEnd ==
    ASSUME End, Listed', Kept', DOMAIN pages' = Pages
    PROVE  Reuse'
<1>1. pc' = "idle" /\ figures' = EmptyFigures
  BY DEF End
<1>2. InMemory' /\ Logged' /\ Reading' /\ ReuseRepeats'
  BY <1>1 DEF InMemory, Logged, Reading, ReuseRepeats
<1> QED
  BY <1>2 DEF Reuse

\* Also when no file has changed.
LEMMA ReuseEnds ==
    ASSUME Reuse, End, UNCHANGED <<logs, scanned>>, DOMAIN pages' = DOMAIN pages
    PROVE  Reuse'
BY ReuseEnd DEF Reuse, Listed, Kept

\* A scan does not look at the logs.
LEMMA ReuseScan ==
    ASSUME Reuse, pc = "scan", pc' \in {"scan", "logs"}, pc' = "logs" => todo' = 1,
           UNCHANGED <<run, logs, pages, scanned>>
    PROVE  Reuse'
<1>1. InMemory' /\ Reading' /\ ReuseRepeats'
  BY DEF Reuse, InMemory, Reading, ReuseRepeats
<1>2. Listed' /\ Kept' /\ DOMAIN pages' = Pages
  BY DEF Reuse, Listed, Kept
<1>3. Logged'
  <2>1. ASSUME pc' = "logs" PROVE 1..todo' - 1 = {}
    BY <2>1
  <2> QED
    BY <2>1 DEF Logged
<1> QED
  BY <1>1, <1>2, <1>3 DEF Reuse

\* A run begins.
LEMMA ReuseOptions ==
    ASSUME TypeInv, Reuse, NEW scan \in BOOLEAN, NEW graph \in BOOLEAN, Options(scan, graph)
    PROVE  Reuse'
<1>1. /\ pc = "idle" /\ pc' \in {"scan", "readLogs"} /\ (pc' = "scan" <=> scan)
      /\ run'.scan = scan /\ UNCHANGED <<todo, figures, logs, pages, scanned>>
  BY DEF Options
<1>2. todo = 1 /\ figures = EmptyFigures
  BY <1>1, StepsAre DEF TypeInv, Shape, Reuse, InMemory
<1>3. InMemory' /\ Logged' /\ ReuseRepeats'
  BY <1>1, <1>2 DEF InMemory, Logged, ReuseRepeats
<1>4. Listed' /\ Kept' /\ DOMAIN pages' = Pages
  BY <1>1 DEF Reuse, Listed, Kept
<1>5. Reading'
  <2>1. pc' = "readLogs" => ReadFiles' = {}
    BY <1>1, <1>2 DEF ReadFiles
  <2> QED
    BY <1>1, <1>2, <2>1, EmptyFields DEF Reading
<1> QED
  BY <1>3, <1>4, <1>5 DEF Reuse

\* The place of a file in the order in which the logs are written and read.
LEMMA LogPlaces ==
    /\ LogFiles = {LogOrder[n] : n \in 1..Len(LogOrder)} /\ Len(LogOrder) \in Nat
    /\ \A n \in 1..Len(LogOrder) : LogOrder[n] \in LogFiles
<1>1. DOMAIN LogOrder = 1..Len(LogOrder) /\ Len(LogOrder) \in Nat
  BY OrderLengths, StepsAre
<1> QED
  BY <1>1 DEF LogFiles, Range

\* A log is written, and with the last one they all say what was counted.
LEMMA ReuseWriteLog ==
    ASSUME PlainNames, TypeInv, Counting, Reuse, WriteLog
    PROVE  Reuse'
<1> DEFINE f == LogOrder[todo]
           N == Len(LogOrder)
<1>1. /\ pc = "logs" /\ logs' = [logs EXCEPT ![f] = Written(f)]
      /\ scanned' = IF todo = N THEN figures ELSE None
      /\ UNCHANGED pages /\ NextFile(N, IF run.graph THEN "graphs" ELSE "idle")
  BY DEF WriteLog
<1>2. todo \in 1..N /\ N \in Nat /\ f \in LogFiles /\ DOMAIN logs = LogFiles /\ LogsWellFormed
  BY <1>1, LogPlaces, StepsAre DEF TypeInv, Shape, LogsWellFormed
<1>3. Plainly(figures)
  <2>1. IsFiniteSet(Met) /\ FiguresCount(figures, Met) /\ Met \in SUBSET Articles
    BY <1>1 DEF Counting, Met
  <2> QED
    BY <2>1, CountedPlainly
<1>4. Says(Written(f), f, figures)
  BY <1>2, <1>3, WrittenSays DEF Reuse
<1>5. f \in Appended => Lists(Written(f))
  BY <1>2, HistoryWritten DEF Reuse
<1> HIDE DEF f, N
<1>6. logs'[f] = Written(f) /\ \A g \in LogFiles : g # f => logs'[g] = logs[g]
  BY <1>1, <1>2
<1>7. Listed' /\ DOMAIN pages' = Pages
  <2>1. Appended \subseteq LogFiles
    BY DEF Appended
  <2> QED
    BY <1>1, <1>5, <1>6, <2>1 DEF Reuse, Listed, Lists
<1>8. \A n \in 1..todo : Says(logs'[LogOrder[n]], LogOrder[n], figures)
  <2> SUFFICES ASSUME NEW n \in 1..todo
               PROVE  Says(logs'[LogOrder[n]], LogOrder[n], figures)
    OBVIOUS
  <2>1. LogOrder[n] \in LogFiles /\ (n = todo \/ n \in 1..todo - 1)
    BY <1>2, LogPlaces DEF N
  <2>2. CASE LogOrder[n] = f
    BY <1>4, <1>6, <2>2
  <2>3. CASE LogOrder[n] # f
    <3>1. n \in 1..todo - 1
      BY <2>1, <2>3 DEF f
    <3>2. Says(logs[LogOrder[n]], LogOrder[n], figures)
      BY <1>1, <3>1 DEF Reuse, Logged
    <3> QED
      BY <1>6, <2>1, <2>3, <3>2
  <2> QED
    BY <2>2, <2>3
<1>9. Kept'
  <2>1. CASE todo = N
    <3>1. scanned' = figures /\ \A g \in LogFiles : Says(logs'[g], g, figures)
      BY <1>1, <1>8, <2>1, LogPlaces DEF N
    <3>2. \A g \in DOMAIN figures.groups : HierarchyOf(g) \in Hierarchies
      BY <1>3 DEF Plainly
    <3> QED
      BY <3>1, <3>2 DEF Kept
  <2>2. CASE todo # N
    BY <1>1, <2>2 DEF Kept
  <2> QED
    BY <2>1, <2>2
<1>10. CASE todo < N
  <2>1. pc' = "logs" /\ todo' = todo + 1 /\ UNCHANGED <<run, figures>>
    BY <1>1, <1>10 DEF NextFile
  <2>2. Logged'
    <3>1. todo' - 1 = todo
      BY <1>2, <2>1
    <3> QED
      BY <1>8, <2>1, <3>1 DEF Logged
  <2>3. InMemory' /\ Reading' /\ ReuseRepeats'
    BY <1>1, <2>1 DEF Reuse, InMemory, Reading, ReuseRepeats
  <2> QED
    BY <1>7, <1>9, <2>2, <2>3 DEF Reuse
<1>11. CASE ~(todo < N)
  <2>1. CASE End
    BY <1>7, <1>9, <2>1, ReuseEnd
  <2>2. CASE ~End
    <3>1. pc' = "graphs" /\ UNCHANGED run
      BY <1>1, <1>11, <2>2 DEF NextFile
    <3>2. InMemory' /\ Logged' /\ Reading' /\ ReuseRepeats'
      BY <1>1, <3>1 DEF Reuse, InMemory, Logged, Reading, ReuseRepeats
    <3> QED
      BY <1>7, <1>9, <3>2 DEF Reuse
  <2> QED
    BY <2>1, <2>2
<1> QED
  BY <1>10, <1>11

\* A log is cut off.
LEMMA ReuseLogCutOff ==
    ASSUME TypeInv, Reuse, LogCutOff
    PROVE  Reuse'
<1> DEFINE f == LogOrder[todo]
<1>1. pc = "logs" /\ scanned' = None /\ End /\ UNCHANGED pages
  BY DEF LogCutOff
<1>2. PICK left \in CutOff(f) : logs' = [logs EXCEPT ![f] = left]
  BY DEF LogCutOff
<1>3. f \in LogFiles /\ DOMAIN logs = LogFiles /\ LogsWellFormed
  BY <1>1, LogPlaces, StepsAre DEF TypeInv, Shape, LogsWellFormed
<1>4. f \in Appended => Lists(left)
  BY <1>2, <1>3, HistoryWritten DEF Reuse
<1> HIDE DEF f
<1>5. logs'[f] = left /\ \A g \in LogFiles : g # f => logs'[g] = logs[g]
  BY <1>2, <1>3
<1>6. Listed'
  <2>1. Appended \subseteq LogFiles
    BY DEF Appended
  <2> QED
    BY <1>4, <1>5, <2>1 DEF Reuse, Listed, Lists
<1>7. Kept' /\ DOMAIN pages' = Pages
  BY <1>1 DEF Kept, Reuse
<1> QED
  BY <1>1, <1>6, <1>7, ReuseEnd

\* A log is read.
LEMMA ReuseReadLog ==
    ASSUME TypeInv, Reuse, ReadLog
    PROVE  Reuse'
<1> DEFINE f == LogOrder[todo]
           N == Len(LogOrder)
           new == ReadInto(f)
<1>1. pc = "readLogs" /\ UNCHANGED <<logs, pages, scanned>>
  BY DEF ReadLog
<1>2. todo \in 1..N /\ N \in Nat /\ f \in LogFiles /\ ~run.scan
  BY <1>1, LogPlaces, StepsAre DEF TypeInv, Shape, Reuse, InMemory
<1>3. CASE End
  BY <1>1, <1>3, ReuseEnds
<1>4. CASE ~End
  <2>1. /\ figures' = new /\ UNCHANGED run
        /\ \/ todo < N /\ todo' = todo + 1 /\ pc' = "readLogs"
           \/ ~(todo < N) /\ todo' = 1 /\ pc' = "graphs"
    BY <1>1, <1>4 DEF ReadLog
  <2>2. Listed' /\ Kept' /\ DOMAIN pages' = Pages
    BY <1>1 DEF Reuse, Listed, Kept
  <2>3. InMemory' /\ Logged' /\ ReuseRepeats'
    <3>1. pc' = "readLogs" => todo' # 1
      BY <1>2, <2>1
    <3> QED
      BY <1>2, <2>1, <3>1 DEF InMemory, Logged, ReuseRepeats
  <2>4. ASSUME scanned # None
        PROVE  /\ Fields(new) /\ DOMAIN new.groups \subseteq DOMAIN scanned.groups
               /\ \A g \in ReadFiles' : g \in LogFiles /\ Agrees(g, new, scanned)
    <3>1. /\ Fields(figures) /\ DOMAIN figures.groups \subseteq DOMAIN scanned.groups
          /\ \A n \in 1..todo - 1 : Agrees(LogOrder[n], figures, scanned)
      BY <1>1, <1>2, <2>4 DEF Reuse, Reading, ReadFiles
    <3>2. Says(logs[f], f, scanned)
      BY <1>2, <2>4 DEF Reuse, Kept
    <3>3. TakenFrom(f, new, figures, scanned)
      BY <1>2, <3>1, <3>2, ReadTaken
    <3>4. ASSUME NEW n \in 1..todo PROVE Agrees(LogOrder[n], new, scanned)
      <4>1. LogOrder[n] \in LogFiles /\ (n = todo \/ n \in 1..todo - 1)
        BY <1>2, LogPlaces
      <4> HIDE DEF new
      <4> QED
        BY <3>1, <3>3, <4>1 DEF TakenFrom
    <3>5. ReadFiles' = {LogOrder[n] : n \in 1..todo}
      <4>1. CASE todo < N
        <5>1. todo' - 1 = todo
          BY <1>2, <2>1, <4>1
        <5> QED
          BY <2>1, <4>1, <5>1 DEF ReadFiles
      <4>2. CASE ~(todo < N)
        <5>1. todo = N
          BY <1>2, <4>2
        <5> QED
          BY <2>1, <4>2, <5>1, LogPlaces DEF ReadFiles
      <4> QED
        BY <4>1, <4>2
    <3>6. \A n \in 1..todo : LogOrder[n] \in LogFiles
      BY <1>2, LogPlaces
    <3> HIDE DEF new
    <3> QED
      BY <3>3, <3>4, <3>5, <3>6 DEF TakenFrom
  <2>5. Reading'
    <3> HIDE DEF new
    <3>1. scanned # None => \A g \in ReadFiles' : Agrees(g, figures, scanned)'
      BY <1>1, <2>1, <2>4 DEF Agrees, Whole
    <3> QED
      BY <1>1, <2>1, <2>4, <3>1 DEF Reading
  <2> QED
    BY <2>2, <2>3, <2>5 DEF Reuse
<1> QED
  BY <1>3, <1>4

\* A page is written, from figures that agree with those that were scanned.
LEMMA ReuseWritePage ==
    ASSUME TypeInv, Reuse, WritePage
    PROVE  Reuse'
<1> DEFINE p == PageOrder[todo]
           N == Len(PageOrder)
<1>1. /\ pc = "report" /\ pages' = [pages EXCEPT ![p] = PageOf(p, figures)]
      /\ NextFile(N, "idle") /\ UNCHANGED <<logs, scanned>>
  BY DEF WritePage
<1>2. todo \in 1..N /\ N \in Nat /\ p \in Pages
  BY <1>1, PagesAre, StepsAre DEF TypeInv, Shape
<1>3. DOMAIN pages = Pages /\ DOMAIN pages' = Pages
  BY <1>1 DEF Reuse
<1>4. CASE End
  BY <1>1, <1>3, <1>4, ReuseEnds
<1>5. CASE ~End
  <2>1. pc' = "report" /\ todo' = todo + 1 /\ UNCHANGED <<run, figures>>
    BY <1>1, <1>5 DEF NextFile
  <2>2. \A f : Whole(f)' <=> Whole(f)
    BY <1>1 DEF Whole
  <2>3. Listed' /\ Kept' /\ InMemory' /\ Logged'
    BY <1>1, <2>1 DEF Reuse, Listed, Kept, InMemory, Logged
  <2>4. Reading'
    BY <1>1, <2>1, <2>2 DEF Reuse, Reading, ReadFiles, Agrees
  <2>5. ASSUME ~run.scan, scanned # None, NEW n \in 1..todo' - 1
        PROVE  \/ \E f \in Sources(PageOrder[n]) : ~Whole(f)
               \/ pages'[PageOrder[n]] = PageOf(PageOrder[n], scanned)
    <3>1. /\ DOMAIN figures.groups \subseteq DOMAIN scanned.groups
          /\ \A f \in LogFiles : Agrees(f, figures, scanned)
          /\ \A g \in DOMAIN scanned.groups : HierarchyOf(g) \in Hierarchies
      BY <1>1, <2>5 DEF Reuse, Reading, ReadFiles, Kept
    <3>2. (\E f \in Sources(p) : ~Whole(f)) \/ PageOf(p, figures) = PageOf(p, scanned)
      BY <1>2, <3>1, PageRepeats
    <3>3. n = todo \/ n \in 1..todo - 1
      BY <1>2, <2>1
    <3>4. \/ \E f \in Sources(PageOrder[n]) : ~Whole(f)
          \/ pages[PageOrder[n]] = PageOf(PageOrder[n], scanned)
          \/ PageOrder[n] = p
      BY <1>1, <2>5, <3>3 DEF Reuse, ReuseRepeats
    <3>5. n \in 1..N
      BY <1>2, <3>3
    <3>6. PageOrder[n] \in Pages
      BY <3>5, PagesAre
    <3> HIDE DEF p
    <3> QED
      BY <1>1, <1>2, <1>3, <3>2, <3>4, <3>6
  <2>6. ReuseRepeats'
    BY <1>1, <2>1, <2>2, <2>5 DEF ReuseRepeats
  <2> QED
    BY <1>3, <2>3, <2>4, <2>6 DEF Reuse
<1> QED
  BY <1>4, <1>5

\* A graph is drawn, which changes no figures.
LEMMA ReuseGraph ==
    ASSUME Reuse, Graph
    PROVE  Reuse'
<1>1. pc = "graphs" /\ NextFile(Len(GraphOrder), "report") /\ UNCHANGED <<logs, pages, scanned>>
  BY DEF Graph
<1>2. UNCHANGED <<run, figures>> /\ (pc' = "graphs" \/ (pc' = "report" /\ todo' = 1))
  BY <1>1 DEF NextFile
<1>3. Listed' /\ Kept' /\ InMemory' /\ Logged' /\ DOMAIN pages' = Pages
  BY <1>1, <1>2 DEF Reuse, Listed, Kept, InMemory, Logged
<1>4. Reading'
  <2>1. \A f : Whole(f)' <=> Whole(f)
    BY <1>1 DEF Whole
  <2> QED
    BY <1>1, <1>2, <2>1 DEF Reuse, Reading, ReadFiles, Agrees
<1>5. ReuseRepeats'
  <2>1. ASSUME pc' = "report" PROVE 1..todo' - 1 = {}
    BY <1>2, <2>1
  <2> QED
    BY <2>1 DEF ReuseRepeats
<1> QED
  BY <1>3, <1>4, <1>5 DEF Reuse

\* And so does every step.
LEMMA ReuseNext ==
    ASSUME PlainNames, TypeInv, Counting, Reuse, [Next]_vars
    PROVE  Reuse'
<1>1. CASE \/ UNCHANGED vars \/ Tick
           \/ \E a \in Articles : Arrive(a)
           \/ \E g \in Active : \E n \in DOMAIN spool[g] : Expire(g, n)
  <2>1. UNCHANGED <<pc, run, todo, figures, logs, pages, scanned>>
    BY <1>1 DEF vars, Tick, Arrive, Expire
  <2> QED
    BY <2>1, ReuseKept
<1>2. CASE \E scan, graph \in BOOLEAN : Options(scan, graph)
  BY <1>2, ReuseOptions
<1>3. CASE Killed \/ ReadLogFails \/ PageCutOff
  <2>1. End /\ UNCHANGED <<logs, scanned>> /\ DOMAIN pages' = DOMAIN pages
    BY <1>3 DEF Killed, ReadLogFails, PageCutOff
  <2> QED
    BY <2>1, ReuseEnds
<1>4. CASE ScanHierarchy \/ CloseDir \/ ScanEnds \/ ReadDirectory
  <2>1. UNCHANGED <<logs, pages, scanned>> /\ pc = "scan"
        /\ (End \/ UNCHANGED <<run, pc>> \/ (pc' = "logs" /\ todo' = 1 /\ UNCHANGED run))
    <3>1. CASE ScanHierarchy \/ CloseDir \/ ScanEnds
      BY <3>1 DEF ScanHierarchy, CloseDir, ScanEnds
    <3>2. CASE ReadDirectory
      <4>1. pc = "scan" /\ \E e \in dir.unread \cup Entries(dir.dir) : Step(e)
        BY <3>2 DEF ReadDirectory
      <4>2. PICK e : Step(e)
        BY <4>1
      <4> QED
        BY <4>1, <4>2 DEF Step, SkipLow, Vanished, Recurse, TooEarly, Visit
    <3> QED
      BY <1>4, <3>1, <3>2
  <2>2. CASE End
    BY <2>1, <2>2, ReuseEnds
  <2>3. CASE ~End
    BY <2>1, <2>3, ReuseScan
  <2> QED
    BY <2>2, <2>3
<1>5. CASE WriteLog
  BY <1>5, ReuseWriteLog
<1>6. CASE LogCutOff
  BY <1>6, ReuseLogCutOff
<1>7. CASE ReadLog
  BY <1>7, ReuseReadLog
<1>8. CASE Graph
  BY <1>8, ReuseGraph
<1>9. CASE WritePage
  BY <1>9, ReuseWritePage
<1> QED
  BY <1>1, <1>2, <1>3, <1>4, <1>5, <1>6, <1>7, <1>8, <1>9 DEF Next

\* Where no name has an octet above 127, a run with --no-scan after a scan that
\* wrote all of its logs writes the pages that scan counted, whatever rows came
\* before, but for those made from a row run together with one cut off
\* (AllGroups::logs, AllGroups::readLogs, AllGroups::report).
THEOREM LogsRepeatScan ==
    ASSUME PlainNames
    PROVE  Spec => []ReuseRepeats
<1>1. Init => TypeInv /\ Counting /\ Reuse
  BY TypeInvInit, CountingInit, ReuseInit
<1>2. TypeInv /\ Counting /\ Reuse /\ [Next]_vars => (TypeInv /\ Counting /\ Reuse)'
  BY TypeInvNext, CountingNext, ReuseNext
<1>3. TypeInv /\ Counting /\ Reuse => ReuseRepeats
  BY DEF Reuse
<1> QED
  BY <1>1, <1>2, <1>3, PTL DEF Spec

===============================================================================
