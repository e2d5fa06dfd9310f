----------------------------- MODULE SpoolStats -----------------------------
(***************************************************************************)
(* spoolstats (src/spoolstats/): a run scans the directories of some       *)
(* hierarchies of a news spool, counts every article of its sampling       *)
(* interval once, writes the counts to log files and the reports to pages; *)
(* a run with --no-scan reads the logs instead.  innd stores and expires   *)
(* articles meanwhile, readdir() returns entries in any order, and a run   *)
(* may be killed, or fail to write, between any two files or in one.       *)
(* Names are strings of octets (module Csv), times are in seconds.         *)
(***************************************************************************)
EXTENDS Dates, Csv, FiniteSets

CONSTANTS
    HierarchyOrder, \* the configured hierarchies, in the order of their names
    Articles,       \* what arrives, as records of the headers and of its times
    Active,         \* the groups innd carries, that is keeps directories for
    NoHeader,       \* a header an article does not have
    Clients,        \* the table of known user agents of summarize()
    Days,           \* --days
    StartLatency,   \* --latency: how early an article may arrive
    EndLatency,     \* --latency: how late
    Retention,      \* innd keeps an article this long
    Moments,        \* the moments the clock stops at
    RunTimes,       \* those at which a run may be started
    EarlierLogs,    \* the log files there may be before the first of the runs
    MaxRuns,        \* bound on the runs
    CutFields,      \* how much of a row an interrupted write may leave
    None,           \* no file, or no figures
    Gone            \* an article innd has expired

VARIABLES
    now,      \* the clock
    spool,    \* per group, the articles by number (Gone where expired)
    runs,     \* how many runs were started
    pc,       \* what the run is doing
    run,      \* its options and its sampling interval
    todo,     \* the next hierarchy, log file or page
    stack,    \* the directories open in recurse(), innermost last
    seen,     \* AllGroups::seen
    figures,  \* the counts: AllGroups, its hierarchies, groups and properties
    logs,     \* the log files
    pages,    \* the HTML files
    scanned   \* the figures of the scan whose logs were written last, if all were

vars == <<now, spool, runs, pc, run, todo, stack, seen, figures, logs, pages, scanned>>

Hierarchies == Range(HierarchyOrder)
Day         == 86400

\* No name is empty or begins with a dot.
ASSUME NamesAssumption ==
    /\ HierarchyOrder \in Seq(Seq(Nat) \ {<<>>}) /\ Active \subseteq Seq(Nat)
    /\ \A g \in Active : g # <<>> /\ g[1] # Dot

ASSUME TimesAssumption ==
    /\ Moments \subseteq Nat /\ Moments # {}
    /\ Days \in Nat /\ StartLatency \in Nat /\ EndLatency \in Nat /\ MaxRuns \in Nat

-----------------------------------------------------------------------------
(* Names and directories *)

\* The text before the first dot.
HierarchyOf(g) == LET dots == {n \in DOMAIN g : g[n] = Dot}
                  IN IF dots = {} THEN g ELSE SubSeq(g, 1, Min(dots) - 1)

Parent(d) == LET dots == {n \in DOMAIN d : d[n] = Dot}
             IN IF dots = {} THEN <<>> ELSE SubSeq(d, 1, Max(dots) - 1)

\* A group's articles are in the directory of its name, inside its parent's.
Directories == Active \cup UNION {{SubSeq(g, 1, n - 1) : n \in {n \in DOMAIN g : g[n] = Dot}}
                                    : g \in Active}

\* strtol() on a file name: -1 unless it is all digits.
Strtol(name) == IF Range(name) \subseteq Digits
                THEN FoldLeft(LAMBDA v, o : 10 * v + o - 48, 0, name) ELSE -1

\* The directories in d, with the numbers their names there make, and the
\* groups in d or below it.
Subdirectories == [d \in Directories |->
    {<<Strtol(SubSeq(s, Len(d) + 2, Len(s))), s>> : s \in {s \in Directories : Parent(s) = d}}]
GroupsBelow    == [d \in Directories \cup Hierarchies |->
    {g \in Active : g = d \/ IsPrefix(Append(d, Dot), g)}]

-----------------------------------------------------------------------------
(* What is read from an article *)

\* Article::valid(): nothing is asked about Newsgroups.
Valid(a) == a.mid # NoHeader /\ a.date # NoHeader /\ a.from # NoHeader

GetGroups(a) == Sorted(Split(Comma, a.newsgroups))

Unknown      == <<117, 110, 107, 110, 111, 119, 110>>     \* "unknown"
UnknownAgent == <<40>> \o Unknown \o <<41>>

\* User-Agent, or X-Newsreader, or X-Mailer.
UserAgent(a) == LET given == {n \in DOMAIN a.agent : a.agent[n] # NoHeader}
                IN IF given = {} THEN UnknownAgent ELSE a.agent[Min(given)]

\* The charset parameter of Content-Type.  What is compared with a quote is
\* the position at which the value begins, so that a quoted value counts as
\* unknown unless it begins at offset 34, and an unquoted one there does.
Charset(a) ==
    IF a.ctype = NoHeader \/ a.ctype.quoted # (a.ctype.offset = DoubleQuote)
    THEN Unknown ELSE a.ctype.charset

DateOf        == [a \in {b \in Articles : Valid(b)} |-> ParseDate(a.date)]
GroupsOf      == [a \in Articles |-> GetGroups(a)]
StoredIn(a)   == Range(GroupsOf[a]) \cap Active

\* Every article has its message ID to itself, and Newsgroups, without which
\* get_groups() has no header to read (innd takes none without).
ASSUME ArticlesAssumption ==
    /\ \A a, b \in Articles : a.mid = b.mid => a = b
    /\ \A a \in Articles : /\ a.newsgroups \in Seq(Nat) /\ a.size \in Nat
                           /\ a.posted \in Int /\ a.arrival \in Int
    /\ Gone \notin Articles

\* The positions in the sorted list of groups that are not repetitions and
\* whose hierarchy is wanted.
Wanted(a) == LET g == GroupsOf[a]
             IN {n \in DOMAIN g : /\ n = 1 \/ g[n - 1] # g[n]
                                  /\ HierarchyOf(g[n]) \in Hierarchies}

GroupVisits == [a \in Articles |-> {GroupsOf[a][n] : n \in Wanted(a)}]

\* Mutant of HierarchyVisits: every group counts in its hierarchy.
HierarchyVisitsEach ==
    [a \in Articles |->
        [h \in Hierarchies |->
            Cardinality({g \in GroupVisits[a] : HierarchyOf(g) = h})]]

\* A hierarchy is visited where it differs from the one visited before.
HierarchyVisits ==
    [a \in Articles |->
        [h \in Hierarchies |->
            LET Named(n)   == HierarchyOf(GroupsOf[a][n])
                Earlier(n) == {m \in Wanted(a) : m < n}
            IN Cardinality({n \in Wanted(a) :
                   /\ Named(n) = h
                   /\ Earlier(n) = {} \/ Named(Max(Earlier(n))) # h})]]

\* No group of another hierarchy sorts between two groups of one: it takes a
\* group whose name is that of a hierarchy, "c", and another hierarchy like
\* "c-x" (c, c-x.y, c.z), for a hierarchy to be visited twice.
ASSUME ContiguousAssumption ==
    \A a \in Articles : \A k, m, n \in Wanted(a) :
        LET h(i) == HierarchyOf(GroupsOf[a][i])
        IN k < m /\ m < n /\ h(k) = h(n) => h(m) = h(k)

-----------------------------------------------------------------------------
(* The counts *)

EmptyBucket == [articles |-> 0, bytes |-> 0, senders |-> {}, senderCount |-> 0]

VisitBucket(b, a, times) ==
    LET senders == b.senders \cup {a.from}
    IN IF times = 0 THEN b
       ELSE [articles |-> b.articles + times, bytes |-> b.bytes + times * a.size,
             senders |-> senders, senderCount |-> Cardinality(senders)]

\* h->group(): a group without a bucket gets one.
At(buckets, k) == IF k \in DOMAIN buckets THEN buckets[k] ELSE EmptyBucket

VisitGroups(groups, a) ==
    [g \in DOMAIN groups \cup GroupVisits[a] |->
        VisitBucket(At(groups, g), a, IF g \in GroupVisits[a] THEN 1 ELSE 0)]

\* ArticleProperty::update() on the useragents or the charsets.
Update(values, a, value) ==
    LET old     == IF value \in DOMAIN values THEN values[value]
                   ELSE [articles |-> 0, senders |-> {}, senderCount |-> 0]
        senders == old.senders \cup {a.from}
        new     == [articles |-> old.articles + 1, senders |-> senders,
                    senderCount |-> Cardinality(senders)]
    IN [v \in DOMAIN values \cup {value} |-> IF v = value THEN new ELSE values[v]]

EmptyFigures == [all |-> EmptyBucket,
                 hierarchies |-> [h \in Hierarchies |-> EmptyBucket],
                 groups |-> <<>>, useragents |-> <<>>, charsets |-> <<>>]

\* AllGroups::visit(): the totals (which keep no senders), the properties, the
\* groups and their hierarchies.
Counted(f, a) ==
    [all |-> [f.all EXCEPT !.articles = @ + 1, !.bytes = @ + a.size],
     useragents |-> Update(f.useragents, a, UserAgent(a)),
     charsets |-> Update(f.charsets, a, Charset(a)),
     groups |-> VisitGroups(f.groups, a),
     hierarchies |-> [h \in Hierarchies |->
         VisitBucket(f.hierarchies[h], a, HierarchyVisits[a][h])]]

-----------------------------------------------------------------------------
(* Log files: rows that end in a newline, and what follows the last one *)

HistoryLog(h)  == <<"history", h>>        \* H.csv, one row added by each scan
GroupsLog(h)   == <<"groups", h>>         \* H-groups.csv
AllLog         == <<"history", <<>>>>     \* all.csv
EncodingsLog   == <<"encodings", <<>>>>
UseragentsLog  == <<"useragents", <<>>>>

\* The order in which they are written, and read.  (A hierarchy called "all"
\* would have the file of all groups for its history: there is none.)
LogOrder == [n \in 1..2 * Len(HierarchyOrder) |->
                IF n % 2 = 1 THEN HistoryLog(HierarchyOrder[(n + 1) \div 2])
                             ELSE GroupsLog(HierarchyOrder[n \div 2])]
              \o <<AllLog, EncodingsLog, UseragentsLog>>

LogFiles   == Range(LogOrder)
Appended   == {f \in LogFiles : f[1] = "history"}

IsList(s) == s \in Seq(Range(s))

\* What is left of a row that is cut off has a column and not more of them than
\* the shortest of rows.
ASSUME LogsAssumption ==
    /\ CutFields \subseteq 1..3
    /\ \A l \in EarlierLogs :
          /\ DOMAIN l = LogFiles
          /\ \A f \in LogFiles : l[f] # None => /\ DOMAIN l[f] = {"rows", "tail"}
                                                /\ IsList(l[f].rows) /\ IsList(l[f].tail)

\* The keys of a map in their order.
Keys(map) == [n \in 1..Cardinality(DOMAIN map) |->
                 CHOOSE k \in DOMAIN map :
                     Cardinality({j \in DOMAIN map : Before(j, k)}) = n - 1]

\* The groups of a hierarchy.
GroupsIn(groups, h) == Restrict(groups, {g \in DOMAIN groups : HierarchyOf(g) = h})

HistoryRow(f) ==
    LET b    == IF f = AllLog THEN figures.all ELSE figures.hierarchies[f[2]]
        both == <<run.end_time, Days * Day, b.bytes, b.articles>>
    IN IF f = AllLog THEN both ELSE Append(both, b.senderCount)

GroupRows(groups) ==
    LET Row(g) == <<CsvQuote(g), groups[g].bytes, groups[g].articles,
                    groups[g].senderCount>>
    IN [n \in DOMAIN Keys(groups) |-> Row(Keys(groups)[n])]

PropertyRows(values) ==
    LET Row(v) == <<CsvQuote(v), values[v].articles, values[v].senderCount>>
    IN [n \in DOMAIN Keys(values) |-> Row(Keys(values)[n])]

NewRows(f) == CASE f[1] = "history"   -> <<HistoryRow(f)>>
                [] f[1] = "groups"    -> GroupRows(GroupsIn(figures.groups, f[2]))
                [] f = EncodingsLog   -> PropertyRows(figures.charsets)
                [] f = UseragentsLog  -> PropertyRows(figures.useragents)

\* What an appended row becomes behind a row that was cut off: its first
\* number continues the last one that was begun.
RunTogether == 999999999

Continued(tail, row) ==
    IF tail = <<>> THEN row ELSE Front(tail) \o <<RunTogether>> \o Tail(row)

EmptyLog == [rows |-> <<>>, tail |-> <<>>]

\* The file opened for appending, or for writing from nothing.
Opened(f) == IF f \in Appended /\ logs[f] # None THEN logs[f] ELSE EmptyLog

Written(f) ==
    LET old == Opened(f) new == NewRows(f)
    IN IF f \in Appended
       THEN [rows |-> Append(old.rows, Continued(old.tail, new[1])), tail |-> <<>>]
       ELSE [rows |-> new, tail |-> <<>>]

\* What is left of it by a write that ends early: some of the rows, and
\* some fields of the next one.
CutOff(f) ==
    LET old == Opened(f) new == NewRows(f)
    IN IF f \in Appended
       THEN {old} \cup {[old EXCEPT !.tail = Continued(@, SubSeq(new[1], 1, k))] :
                            k \in CutFields}
       ELSE {[rows |-> SubSeq(new, 1, n - 1), tail |-> SubSeq(new[n], 1, k)] :
                n \in DOMAIN new, k \in CutFields \cup {0}}

-----------------------------------------------------------------------------
(* Pages *)

PageOrder == << <<"index", <<>>>>, <<"allgroups", <<>>>>, <<"agents", <<>>>>,
                <<"agents-summary", <<>>>>, <<"charsets", <<>>>> >>
               \o [n \in DOMAIN HierarchyOrder |-> <<"hierarchy", HierarchyOrder[n]>>]

Pages == Range(PageOrder)

\* A line of a table: articles (per Days), bytes per day, posters.
Summary(b) == <<b.articles, b.bytes \div Days, b.senderCount>>
Total(b)   == <<b.articles, b.bytes \div Days>>

\* Whether text occurs in ua; a pattern with "^" only at its start.
Matches(client, ua) ==
    \E n \in 1..Len(ua) :
        /\ client.anchored => n = 1
        /\ IsPrefix(client.text, SubSeq(ua, n, Len(ua)))

\* AllGroups::summarize(): the first known client, or the string itself.
Summarize(ua) ==
    LET known == {n \in DOMAIN Clients : Matches(Clients[n], ua)}
    IN IF known = {} THEN ua ELSE Clients[Min(known)].name

\* ArticleProperty::summarize(): posters are added up, though one who used two
\* versions is in both sums.
Summarized(values) ==
    LET Of(name)    == {v \in DOMAIN values : Summarize(v) = name}
        articles    == [v \in DOMAIN values |-> values[v].articles]
        senderCount == [v \in DOMAIN values |-> values[v].senderCount]
    IN [name \in {Summarize(v) : v \in DOMAIN values} |->
            [articles    |-> SumFunctionOnSet(articles, Of(name)),
             senderCount |-> SumFunctionOnSet(senderCount, Of(name))]]

\* A table of values; those with most articles come first, ties in any order.
Table(values) == [v \in DOMAIN values |-> <<values[v].articles, values[v].senderCount>>]

PageOf(p, f) ==
    CASE p[1] = "index" ->
           [rows |-> [h \in Hierarchies |-> Summary(f.hierarchies[h])],
            total |-> Total(f.all)]
      [] p[1] = "allgroups" ->
           [rows |-> [g \in DOMAIN f.groups |-> Summary(f.groups[g])],
            total |-> Total(f.all)]
      [] p[1] = "hierarchy" ->
           [rows |-> [g \in DOMAIN GroupsIn(f.groups, p[2]) |-> Summary(f.groups[g])],
            total |-> Summary(f.hierarchies[p[2]])]
      [] p[1] = "agents"         -> [rows |-> Table(f.useragents), total |-> <<>>]
      [] p[1] = "agents-summary" -> [rows |-> Table(Summarized(f.useragents)),
                                     total |-> <<>>]
      [] p[1] = "charsets"       -> [rows |-> Table(f.charsets), total |-> <<>>]

-----------------------------------------------------------------------------
(* innd and the clock *)

Stored(a) == \E g \in Active : a \in Range(spool[g])

\* innd makes a directory for the first article in it or below it.
Exists(d) == \E g \in GroupsBelow[d] : spool[g] # <<>>

\* A directory has no two entries of one name: an article's number is not the
\* last part of the name of a group whose directory is there.
NamesApart ==
    \A d \in Active : \A e \in Subdirectories[d] :
        Exists(e[2]) => e[1] \notin {n \in DOMAIN spool[d] : spool[d][n] # Gone}

\* innd files an article in all its groups when it arrives, under each
\* group's next number, and the files' time is that moment.
Arrive(a) ==
    /\ a.arrival = now /\ ~Stored(a)
    /\ spool' = [g \in Active |-> IF g \in StoredIn(a) THEN Append(spool[g], a)
                                   ELSE spool[g]]
    /\ NamesApart'
    /\ UNCHANGED <<now, runs, pc, run, todo, stack, seen, figures, logs, pages, scanned>>

\* An old article is removed from one of its groups.
Expire(g, n) ==
    /\ n \in DOMAIN spool[g] /\ spool[g][n] # Gone
    /\ spool[g][n].arrival + Retention <= now
    /\ spool' = [spool EXCEPT ![g][n] = Gone]
    /\ UNCHANGED <<now, runs, pc, run, todo, stack, seen, figures, logs, pages, scanned>>

Tick == /\ \A a \in Articles : a.arrival = now => Stored(a)
        /\ \E m \in Moments : m > now
        /\ now' = Min({m \in Moments : m > now})
        /\ UNCHANGED <<spool, runs, pc, run, todo, stack, seen, figures, logs, pages, scanned>>

-----------------------------------------------------------------------------
(* A run *)

NoRun == [scan |-> FALSE, graph |-> FALSE, end_time |-> 0]

\* Mutant of start_mtime: articles that arrived early are not looked at.
start_mtimeLate == run.end_time - Day * Days

start_time  == run.end_time - Day * Days
start_mtime == start_time - StartLatency

Init == /\ now = Min(Moments)
        /\ spool = [g \in Active |-> <<>>]
        /\ runs = 0 /\ pc = "idle" /\ run = NoRun /\ todo = 1
        /\ stack = <<>> /\ seen = {} /\ figures = EmptyFigures
        /\ logs \in EarlierLogs
        /\ pages = [p \in Pages |-> None]
        /\ scanned = None

\* Config::Options(), and main() as far as the first phase.
Options(scan, graph) ==
    /\ pc = "idle" /\ runs < MaxRuns /\ now \in RunTimes
    /\ runs' = runs + 1
    /\ run' = [scan |-> scan, graph |-> graph, end_time |-> now - EndLatency]
    /\ pc' = IF scan THEN "scan" ELSE "readLogs"
    /\ UNCHANGED <<now, spool, todo, stack, seen, figures, logs, pages, scanned>>

\* The run is over and what it had in memory is gone.
End == /\ pc' = "idle" /\ run' = NoRun /\ todo' = 1 /\ stack' = <<>>
       /\ seen' = {} /\ figures' = EmptyFigures

\* It is killed, or the machine goes down, between two steps.
Killed == /\ pc # "idle"
          /\ End
          /\ UNCHANGED <<now, spool, runs, logs, pages, scanned>>

-----------------------------------------------------------------------------
(* Scanning *)

\* The entries of a directory: an article's number, or the number a
\* directory's name makes and the directory.
Entries(d) ==
    {<<n, <<>>>> : n \in IF d \in Active THEN {n \in DOMAIN spool[d] : spool[d][n] # Gone}
                        ELSE {}}
    \cup {e \in Subdirectories[d] : Exists(e[2])}

\* opendir(): what is there now will be returned, what comes later may be.
Open(d) == [dir |-> d, unread |-> Entries(d), read |-> {}, low_water_mark |-> -1]

dir == Last(stack)

\* The next hierarchy's directory.  One that is not there ends the run.
ScanHierarchy ==
    /\ pc = "scan" /\ stack = <<>> /\ todo <= Len(HierarchyOrder)
    /\ IF Exists(HierarchyOrder[todo])
       THEN /\ stack' = <<Open(HierarchyOrder[todo])>>
            /\ todo' = todo + 1
            /\ UNCHANGED <<pc, run, seen, figures>>
       ELSE End
    /\ UNCHANGED <<now, spool, runs, logs, pages, scanned>>

\* readdir() returns e.
Returned(e) == e \in dir.unread \cup (Entries(dir.dir) \ dir.read)

\* Mutant of ReadOn: the entry is still to be read.
ReadOnKeeps(e) == [dir EXCEPT !.read = @ \cup {e}]

ReadOn(e) == [dir EXCEPT !.unread = @ \ {e}, !.read = @ \cup {e}]

BelowLowWater(e) == e[1] # -1 /\ e[1] < dir.low_water_mark

\* A number below the low water mark is not looked at.
SkipLow(e) ==
    /\ Returned(e) /\ BelowLowWater(e)
    /\ stack' = Append(Front(stack), ReadOn(e))
    /\ UNCHANGED <<now, spool, runs, pc, run, todo, seen, figures, logs, pages, scanned>>

\* stat() or open() fails: the entry was removed after readdir() read it.
Vanished(e) ==
    /\ Returned(e) /\ ~BelowLowWater(e)
    /\ e \notin Entries(dir.dir)
    /\ End
    /\ UNCHANGED <<now, spool, runs, logs, pages, scanned>>

\* recurse() into a directory.
Recurse(e) ==
    /\ Returned(e) /\ ~BelowLowWater(e)
    /\ e \in Entries(dir.dir) /\ e[2] # <<>>
    /\ stack' = Front(stack) \o <<ReadOn(e), Open(e[2])>>
    /\ UNCHANGED <<now, spool, runs, pc, run, todo, seen, figures, logs, pages, scanned>>

\* An article that came too early: those with lower numbers came before it.
TooEarly(e) ==
    /\ Returned(e) /\ ~BelowLowWater(e)
    /\ e \in Entries(dir.dir) /\ e[2] = <<>>
    /\ spool[dir.dir][e[1]].arrival < start_mtime
    /\ stack' = Append(Front(stack), [ReadOn(e) EXCEPT !.low_water_mark = e[1]])
    /\ UNCHANGED <<now, spool, runs, pc, run, todo, seen, figures, logs, pages, scanned>>

Sampled(a) == Valid(a) /\ DateOf[a] >= start_time /\ DateOf[a] < run.end_time

\* AllGroups::visit(path): the article counts if it is in the interval and was
\* not met in another of its groups.
Visit(e) ==
    /\ Returned(e) /\ ~BelowLowWater(e)
    /\ e \in Entries(dir.dir) /\ e[2] = <<>>
    /\ LET a == spool[dir.dir][e[1]]
       IN /\ a.arrival >= start_mtime
          /\ IF Sampled(a) /\ a.mid \notin seen
             THEN seen' = seen \cup {a.mid} /\ figures' = Counted(figures, a)
             ELSE UNCHANGED <<seen, figures>>
    /\ stack' = Append(Front(stack), ReadOn(e))
    /\ UNCHANGED <<now, spool, runs, pc, run, todo, logs, pages, scanned>>

\* readdir() has no more entries: it has returned all that were there when the
\* directory was opened and still are.
CloseDir ==
    /\ pc = "scan" /\ stack # <<>>
    /\ dir.unread \cap Entries(dir.dir) = {}
    /\ stack' = Front(stack)
    /\ UNCHANGED <<now, spool, runs, pc, run, todo, seen, figures, logs, pages, scanned>>

ScanEnds ==
    /\ pc = "scan" /\ stack = <<>> /\ todo > Len(HierarchyOrder)
    /\ pc' = "logs" /\ todo' = 1
    /\ UNCHANGED <<now, spool, runs, run, stack, seen, figures, logs, pages, scanned>>

-----------------------------------------------------------------------------
(* Logs, graphs and pages *)

\* To the next file of the phase, or after the last one to the next phase.
NextFile(size, phase) ==
    IF todo < size THEN todo' = todo + 1 /\ UNCHANGED <<pc, run, stack, seen, figures>>
    ELSE IF phase = "idle" THEN End
    ELSE pc' = phase /\ todo' = 1 /\ UNCHANGED <<run, stack, seen, figures>>

\* AllGroups::logs(), one file.
WriteLog ==
    /\ pc = "logs"
    /\ logs' = [logs EXCEPT ![LogOrder[todo]] = Written(LogOrder[todo])]
    /\ scanned' = IF todo = Len(LogOrder) THEN figures ELSE None
    /\ NextFile(Len(LogOrder), IF run.graph THEN "graphs" ELSE "idle")
    /\ UNCHANGED <<now, spool, runs, pages>>

\* Writing fails (fatal()) or the run is killed while it writes.
LogCutOff ==
    /\ pc = "logs"
    /\ \E left \in CutOff(LogOrder[todo]) :
          logs' = [logs EXCEPT ![LogOrder[todo]] = left]
    /\ scanned' = None
    /\ End
    /\ UNCHANGED <<now, spool, runs, pages>>

\* read_csv(): a file that is not there ends the run, and so does a last line
\* without its newline (erase(npos) throws).
Readable(f) == logs[f] # None /\ logs[f].tail = <<>>

FromRow(old, row) == [old EXCEPT !.bytes = row[3], !.articles = row[4],
                                 !.senderCount = IF Len(row) > 4 THEN row[5] ELSE @]

\* Mutant of Key: what is between the quotes, as it is written.
KeyRaw(row) == SubSeq(row[1], 2, Len(row[1]) - 1)

Key(row) == CsvRead(row[1])

\* The rows by their first column.
Keyed(rows) == [k \in {Key(rows[n]) : n \in DOMAIN rows} |->
                   {n \in DOMAIN rows : Key(rows[n]) = k}]

\* Of two rows for a group the last one counts, of two for a user agent or a
\* charset the first.
GroupsRead(rows) ==
    [g \in DOMAIN Keyed(rows) |->
        LET row == rows[Max(Keyed(rows)[g])]
        IN [articles |-> row[3], bytes |-> row[2], senders |-> {}, senderCount |-> row[4]]]

WithGroups(old, new) == [g \in DOMAIN old \cup DOMAIN new |->
                            IF g \in DOMAIN new THEN new[g] ELSE old[g]]

PropertyRead(rows) ==
    [v \in DOMAIN Keyed(rows) |->
        LET row == rows[Min(Keyed(rows)[v])]
        IN [articles |-> row[2], senders |-> {}, senderCount |-> row[3]]]

\* The figures with those of file f.
ReadInto(f) ==
    LET rows == logs[f].rows
    IN CASE f = AllLog ->
              IF rows = <<>> THEN figures
              ELSE [figures EXCEPT !.all = FromRow(@, Last(rows))]
         [] f[1] = "history" /\ f # AllLog ->
              IF rows = <<>> THEN figures
              ELSE [figures EXCEPT !.hierarchies[f[2]] = FromRow(@, Last(rows))]
         [] f[1] = "groups" ->
              [figures EXCEPT !.groups = WithGroups(@, GroupsRead(rows))]
         [] f = EncodingsLog ->
              [figures EXCEPT !.charsets = PropertyRead(rows)]
         [] f = UseragentsLog ->
              [figures EXCEPT !.useragents = PropertyRead(rows)]

\* AllGroups::readLogs(), one file.
ReadLog ==
    /\ pc = "readLogs" /\ Readable(LogOrder[todo])
    /\ IF todo = Len(LogOrder) /\ ~run.graph THEN End
       ELSE /\ figures' = ReadInto(LogOrder[todo])
            /\ IF todo < Len(LogOrder) THEN todo' = todo + 1 /\ UNCHANGED pc
               ELSE todo' = 1 /\ pc' = "graphs"
            /\ UNCHANGED <<run, stack, seen>>
    /\ UNCHANGED <<now, spool, runs, logs, pages, scanned>>

ReadLogFails ==
    /\ pc = "readLogs" /\ ~Readable(LogOrder[todo])
    /\ End
    /\ UNCHANGED <<now, spool, runs, logs, pages, scanned>>

\* AllGroups::graphs() draws the history logs, hierarchy by hierarchy and then
\* all of them; what is drawn is not kept here.  The file is there, whole and
\* not empty (front() needs a row), because logs() or readLogs() was before it.
GraphOrder == [n \in DOMAIN HierarchyOrder |-> HistoryLog(HierarchyOrder[n])]
                \o <<AllLog>>

Graph ==
    /\ pc = "graphs"
    /\ Readable(GraphOrder[todo]) /\ logs[GraphOrder[todo]].rows # <<>>
    /\ NextFile(Len(GraphOrder), "report")
    /\ UNCHANGED <<now, spool, runs, logs, pages, scanned>>

\* Bucket::verticalScale(): the top of an axis, and the chunks it is made of.
Chunk(max)         == CHOOSE c \in {1, 10, 100, 1000, 10000} :
                         10 * c >= max /\ (c > 1 => c < max)
ChunkCount(max)    == CHOOSE n \in 1..10 :
                         n * Chunk(max) >= max /\ \A m \in 1..n - 1 : m * Chunk(max) < max
VerticalScale(max) == Chunk(max) * ChunkCount(max)

\* AllGroups::report(), one page; the last one is followed by the fixed files.
WritePage ==
    /\ pc = "report"
    /\ pages' = [pages EXCEPT ![PageOrder[todo]] = PageOf(PageOrder[todo], figures)]
    /\ NextFile(Len(PageOrder), "idle")
    /\ UNCHANGED <<now, spool, runs, logs, scanned>>

\* A page that is not written to its end.
PageCutOff ==
    /\ pc = "report"
    /\ pages' = [pages EXCEPT ![PageOrder[todo]] = Gone]
    /\ End
    /\ UNCHANGED <<now, spool, runs, logs, scanned>>

Step(e) == SkipLow(e) \/ Vanished(e) \/ Recurse(e) \/ TooEarly(e) \/ Visit(e)

ReadDirectory == /\ pc = "scan" /\ stack # <<>>
                 /\ \E e \in dir.unread \cup Entries(dir.dir) : Step(e)

Next == \/ \E a \in Articles : Arrive(a)
        \/ \E g \in Active : \E n \in DOMAIN spool[g] : Expire(g, n)
        \/ Tick
        \/ \E scan, graph \in BOOLEAN : Options(scan, graph)
        \/ Killed
        \/ ScanHierarchy \/ ReadDirectory
        \/ CloseDir \/ ScanEnds
        \/ WriteLog \/ LogCutOff \/ ReadLog \/ ReadLogFails
        \/ Graph \/ WritePage \/ PageCutOff

Spec == Init /\ [][Next]_vars

-----------------------------------------------------------------------------
(* Properties *)

\* Types, and how the directories open in recurse() nest: each is in the one
\* below it on the stack, and no entry is both still to be read and read.
TypeOK ==
    /\ now \in Moments /\ runs \in 0..MaxRuns
    /\ \A g \in Active : Range(spool[g]) \subseteq Articles \cup {Gone}
    /\ pc \in {"idle", "scan", "logs", "readLogs", "graphs", "report"}
    /\ todo \in 1..Len(LogOrder) + Len(PageOrder)
    /\ \A n \in DOMAIN stack : /\ stack[n].dir \in Directories
                               /\ stack[n].low_water_mark \in {-1} \cup Nat
                               /\ stack[n].unread \cap stack[n].read = {}
                               /\ n > 1 => Parent(stack[n].dir) = stack[n - 1].dir
    /\ seen \subseteq {a.mid : a \in Articles}
    /\ \A f \in LogFiles : logs[f] # None => DOMAIN logs[f] = {"rows", "tail"}
    /\ pc # "scan" => stack = <<>>

Met == {a \in Articles : a.mid \in seen}

Totals(b, as) == /\ b.articles = Cardinality(as)
                 /\ b.bytes = MapThenSumSet(LAMBDA a : a.size, as)

Posters(b, as) == b.senderCount = Cardinality({a.from : a \in as})

PropertyExact(values, Of(_)) ==
    \A v \in DOMAIN values \cup {Of(a) : a \in Met} :
        LET as == {a \in Met : Of(a) = v}
        IN /\ as # {} /\ v \in DOMAIN values
           /\ values[v].articles = Cardinality(as)
           /\ Posters(values[v], as)

\* When a scan ends its counts are those of the articles it met: each one in
\* the interval, counted once in all, once in each wanted hierarchy and once in
\* each of its groups however many groups and links it has, with its bytes and
\* with every sender once (AllGroups::visit, Hierarchy, Group, ArticleProperty).
CountsExact ==
    pc = "logs" =>
        /\ \A a \in Met : Sampled(a)
        /\ Totals(figures.all, Met)
        /\ \A h \in Hierarchies :
              LET as == {a \in Met : \E g \in Range(GroupsOf[a]) : HierarchyOf(g) = h}
              IN Totals(figures.hierarchies[h], as) /\ Posters(figures.hierarchies[h], as)
        /\ \A g \in DOMAIN figures.groups \cup UNION {GroupVisits[a] : a \in Met} :
              LET as == {a \in Met : g \in Range(GroupsOf[a])}
              IN /\ as # {} /\ g \in DOMAIN figures.groups
                 /\ Totals(figures.groups[g], as) /\ Posters(figures.groups[g], as)
        /\ PropertyExact(figures.useragents, UserAgent)
        /\ PropertyExact(figures.charsets, Charset)

\* What the manual promises of the sampling interval (SAMPLING INTERVAL and
\* --latency): when the scan ends, every article posted in it that came not
\* too early and not too late, and that is still in a directory of the
\* hierarchies, has been counted, in whatever order the directories were read
\* and whatever the low water mark made the scan skip (AllGroups::recurse).
\* posted is when it really was posted, whatever its Date: looks like.
NothingMissed ==
    pc = "logs" =>
        \A a \in Articles :
            /\ a.posted >= start_time /\ a.posted < run.end_time
            /\ a.arrival - a.posted \in -StartLatency..EndLatency
            /\ a.mid # NoHeader /\ a.date # NoHeader /\ a.from # NoHeader
            /\ \E g \in Active : HierarchyOf(g) \in Hierarchies /\ a \in Range(spool[g])
            => a.mid \in seen

\* What that takes.  Every date says when its article was posted, as those with
\* named zones need not: Dates takes the hours of most of them for minutes.
RightDates == \A a \in Articles : Valid(a) => DateOf[a] = a.posted

\* And no directory has a number for a name, which recurse() would take for an
\* article's.
NoNumericNames == \A d \in Directories : \A e \in Subdirectories[d] : e[1] = -1

\* The logs appended to that the figures of a page come from.
Sources(p) == CASE p[1] = "index"     -> Appended
                [] p[1] = "allgroups" -> {AllLog}
                [] p[1] = "hierarchy" -> {HistoryLog(p[2])}
                [] p[1] \notin {"index", "allgroups", "hierarchy"} -> {}

Whole(f) == RunTogether \notin Range(Last(logs[f].rows))

\* What ReuseRepeats takes.  Every name is of octets up to 127: one with others is
\* not read back as it was (Octal in module Csv).
PlainNames == \A a \in Articles :
    Range(GroupsOf[a]) \cup {UserAgent(a), Charset(a)} \subseteq Seq(0..127)

\* --no-scan "re-uses the results of the previous scan": if that scan wrote all
\* of its logs, each page a --no-scan run writes says what the scan counted,
\* though senders are only numbers by then and the names have been quoted and
\* read again, and older rows come first; but for pages made from a row that
\* was written behind one cut off before.
ReuseRepeats ==
    pc = "report" /\ ~run.scan /\ scanned # None =>
        \A n \in 1..todo - 1 :
            \/ \E f \in Sources(PageOrder[n]) : ~Whole(f)
            \/ pages[PageOrder[n]] = PageOf(PageOrder[n], scanned)
=============================================================================
