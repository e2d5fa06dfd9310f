------------------------------ MODULE NewsSources ------------------------------
(***************************************************************************)
(* sources/sources.cc: news-sources, run by cron, counts the articles of   *)
(* innd's log in files that are mapped into memory, and draws a page for   *)
(* every day it has counted something for.  What survives a run, or a      *)
(* crash, is: the counters (at once), the file "timestamp" (now and then), *)
(* the graphs, the pages and the symbolic link to the newest page.         *)
(*                                                                         *)
(* The counters are split up by log record: counted[i] says whether record *)
(* i is in them not at all, once, or more than once.  A time stands for a  *)
(* line's date and a day's page is named by a number.                      *)
(***************************************************************************)
EXTENDS Naturals, Sequences, FiniteSets, FiniteSetsExt

CONSTANTS
    FullLog,                \* the log: time, day, minute, and whether the line
                            \* is about an article that was accepted
    Days,                   \* days, as numbers
    Batch,                  \* records between two updates of the timestamp
    Trimmed,                \* how many of the busiest minutes -t leaves out
    MaxCrashes              \* bound on the runs that are cut short

Records == 1..Len(FullLog)

ASSUME LogAssumption ==
    FullLog \in Seq([time : Nat \ {0}, day : Days, minute : Nat,
                     accepted : BOOLEAN])
ASSUME BoundsAssumption ==
    /\ Days \subseteq Nat \ {0}
    /\ Batch \in Nat \ {0}
    /\ Trimmed \in Nat \ {0}
    /\ MaxCrashes \in Nat

VARIABLES
    visible,                \* how much innd has written to the log
    counted,                \* per record: 0, 1, or 2 for more than once
    stampfile, stamp,       \* "timestamp": absent, empty, or with a time
    drawn,                  \* days whose graphs show the counters as they are
    pages, empty,           \* days with a page, and with an empty one
    prev, next,             \* the links on each page, 0 for none
    index,                  \* the page that the symbolic link leads to, or 0
    pc, pos, eof,           \* the process, the next line, the end is reached
    latest,                 \* latest_time
    unsaved,                \* counted since the last update of the timestamp
    todo,                   \* days_changed, less what has been processed
    crashes,
    exposed, missed         \* history: see DoubleCountExplained, GraphsCurrent

timestamp == <<stampfile, stamp>>
output == <<drawn, pages, empty, prev, next, index>>
local == <<eof, latest, unsaved, todo>>
history == <<crashes, exposed, missed>>
vars == <<visible, counted, stampfile, stamp, drawn, pages, empty, prev, next,
          index, pc, pos, eof, latest, unsaved, todo, crashes, exposed, missed>>

Time(i) == FullLog[i].time
Day(i) == FullLog[i].day
Counted == {i \in Records : counted[i] > 0}

\* Types of the files and of the run.
TypeOK ==
    /\ visible \in 0..Len(FullLog)
    /\ counted \in [Records -> 0..2]
    /\ stampfile \in {"absent", "empty", "written"}
    /\ stamp \in {0} \cup {Time(i) : i \in Records}
    /\ drawn \subseteq Days /\ pages \subseteq Days /\ empty \subseteq pages
    /\ prev \in [Days -> Days \cup {0}] /\ next \in [Days -> Days \cup {0}]
    /\ index \in pages \cup {0}
    /\ pc \in {"off", "read", "truncate", "write", "days", "create", "close",
               "links", "symlink", "done"}
    /\ pos \in 1..Len(FullLog) + 1 /\ eof \in BOOLEAN
    /\ latest \in {0} \cup {Time(i) : i \in Records}
    /\ unsaved \subseteq Counted /\ Cardinality(unsaved) <= Batch
    /\ todo \subseteq Days
    /\ crashes \in 0..MaxCrashes
    /\ exposed \subseteq Counted
    /\ missed \subseteq Days

Init ==
    /\ visible = 0
    /\ counted = [i \in Records |-> 0]
    /\ stampfile = "absent" /\ stamp = 0
    /\ drawn = {} /\ pages = {} /\ empty = {}
    /\ prev = [d \in Days |-> 0] /\ next = [d \in Days |-> 0]
    /\ index = 0
    /\ pc = "off" /\ pos = 1 /\ eof = FALSE
    /\ latest = 0 /\ unsaved = {} /\ todo = {}
    /\ crashes = 0 /\ exposed = {} /\ missed = {}

-------------------------------------------------------------------------------
(* Reading the log.                                                        *)

\* read_timestamp(): a time, or no file.
StartRun ==
    /\ pc \in {"off", "done"} /\ pc' = "read"
    /\ stampfile # "empty"
    /\ latest' = stamp
    /\ pos' = 1 /\ eof' = FALSE /\ unsaved' = {} /\ todo' = {}
    /\ UNCHANGED <<visible, counted, timestamp, output, history>>

\* read_timestamp(): the file does not hold a time, fatal().
StartFails ==
    /\ pc \in {"off", "done"} /\ stampfile = "empty"
    /\ pc' = "off"
    /\ UNCHANGED <<visible, counted, timestamp, output, pos, local, history>>

Line == pc = "read" /\ pos <= visible

\* Mutant of Wanted: a line that is as old as the newest one is left out.
WantedIfNewer(i) == FullLog[i].accepted /\ latest < Time(i)

\* Mutant of Wanted: lines are taken whatever their time.
WantedAlways(i) == FullLog[i].accepted

\* process_line(): not older than what has been processed, and accepted.
Wanted(i) == FullLog[i].accepted /\ ~(Time(i) < latest)

\* Mutant of SkipLine: an unwanted line ends the input.
SkipRest ==
    /\ Line /\ ~Wanted(pos)
    /\ pc' = "truncate" /\ eof' = TRUE
    /\ UNCHANGED <<visible, counted, timestamp, output, pos, latest, unsaved,
                   todo, history>>

SkipLine ==
    /\ Line /\ ~Wanted(pos)
    /\ pos' = pos + 1
    /\ UNCHANGED <<visible, counted, timestamp, output, pc, local, history>>

\* Mutant of Todo: a day is noted only when the timestamp is updated.
TodoOfBatch(i) ==
    IF Cardinality(unsaved) + 1 = Batch THEN todo \cup {Day(i)} ELSE todo

\* days_changed with the day of record i.
Todo(i) == todo \cup {Day(i)}

\* Mutant of Due: one record too late.
DueLate(n) == n > Batch

\* Whether the timestamp is to be updated after n records.
Due(n) == n >= Batch

\* process_accepted(): the counters change in the file, the rest in memory.
CountLine ==
    /\ Line /\ Wanted(pos)
    /\ counted' = [counted EXCEPT ![pos] = IF @ < 2 THEN @ + 1 ELSE 2]
    /\ drawn' = drawn \ {Day(pos)}
    /\ latest' = IF latest < Time(pos) THEN Time(pos) ELSE latest
    /\ unsaved' = unsaved \cup {pos}
    /\ todo' = Todo(pos)
    /\ pc' = IF Due(Cardinality(unsaved')) THEN "truncate" ELSE "read"
    /\ pos' = pos + 1
    /\ UNCHANGED <<visible, timestamp, pages, empty, prev, next, index, eof,
                   history>>

EndOfInput ==
    /\ pc = "read" /\ pos > visible
    /\ pc' = "truncate" /\ eof' = TRUE
    /\ UNCHANGED <<visible, counted, timestamp, output, pos, latest, unsaved,
                   todo, history>>

\* update_timestamp(): fopen() leaves an empty file ...
Truncate ==
    /\ pc = "truncate" /\ pc' = "write"
    /\ stampfile' = "empty" /\ stamp' = 0
    /\ UNCHANGED <<visible, counted, output, pos, local, history>>

\* ... and fclose() writes the time.
Write ==
    /\ pc = "write"
    /\ stampfile' = "written" /\ stamp' = latest
    /\ unsaved' = {}
    /\ pc' = IF eof THEN "days" ELSE "read"
    /\ UNCHANGED <<visible, counted, output, pos, eof, latest, todo, history>>

-------------------------------------------------------------------------------
(* Drawing the days that have changed.                                     *)

\* The minutes of a day that are not 0 in the graph.
Busy(d) == {FullLog[i].minute : i \in {j \in Counted : Day(j) = d}}

\* draw_one_graph() scales its axes by the busiest minute that -t leaves.  If
\* that has nothing in it, draw_axes() goes from 0 to 0 in steps of 0: a run
\* that comes to such a day stays there.
Plottable(d) == Cardinality(Busy(d)) >= Trimmed

\* The two images of the first day in the list.
DrawGraphs ==
    /\ pc = "days" /\ todo # {}
    /\ Plottable(Min(todo))
    /\ drawn' = drawn \cup {Min(todo)}
    /\ pc' = "create"
    /\ UNCHANGED <<visible, counted, timestamp, pages, empty, prev, next,
                   index, pos, local, history>>

\* The day's page: fopen() leaves it empty ...
CreatePage ==
    /\ pc = "create" /\ pc' = "close"
    /\ pages' = pages \cup {Min(todo)}
    /\ empty' = empty \cup {Min(todo)}
    /\ UNCHANGED <<visible, counted, timestamp, drawn, prev, next, index, pos,
                   local, history>>

\* ... and fclose() writes it, with no links so far.
WritePage ==
    /\ pc = "close" /\ pc' = "days"
    /\ empty' = empty \ {Min(todo)}
    /\ prev' = [prev EXCEPT ![Min(todo)] = 0]
    /\ next' = [next EXCEPT ![Min(todo)] = 0]
    /\ todo' = todo \ {Min(todo)}
    /\ missed' = missed \ {Min(todo)}
    /\ UNCHANGED <<visible, counted, timestamp, drawn, pages, index, pos, eof,
                   latest, unsaved, crashes, exposed>>

\* Mutant of Names: only the pages that have no links yet.
NamesUnlinked == {d \in pages : prev[d] = 0 /\ next[d] = 0}

\* The pages that fixup_html() looks through.
Names == pages

StartLinks ==
    /\ pc = "days" /\ todo = {}
    /\ pc' = "links" /\ todo' = Names
    /\ UNCHANGED <<visible, counted, timestamp, output, pos, eof, latest,
                   unsaved, history>>

\* The pages before and after a day's, or 0.
Before(d) == Max({e \in pages : e < d} \cup {0})
After(d) == IF \E e \in pages : e > d THEN Min({e \in pages : e > d}) ELSE 0

\* A page is written anew and renamed in one step; an empty one has no lines
\* for the links to go to.
FixPage ==
    /\ pc = "links" /\ todo # {}
    /\ LET d == Min(todo)
       IN  /\ todo' = todo \ {d}
           /\ IF d \in empty
              THEN UNCHANGED <<prev, next>>
              ELSE /\ prev' = [prev EXCEPT ![d] = Before(d)]
                   /\ next' = [next EXCEPT ![d] = After(d)]
    /\ UNCHANGED <<visible, counted, timestamp, drawn, pages, empty, index, pc,
                   pos, eof, latest, unsaved, history>>

\* The link to the newest page goes, and comes back.
Unlink ==
    /\ pc = "links" /\ todo = {} /\ pages # {}
    /\ pc' = "symlink"
    /\ index' = 0
    /\ UNCHANGED <<visible, counted, timestamp, drawn, pages, empty, prev, next,
                   pos, local, history>>

\* Records as old as the timestamp: the next run will count them again.
Ties == {i \in Counted : stampfile = "written" /\ Time(i) = stamp}

\* main() returns.  The process's variables are gone.
Gone == pos' = 1 /\ eof' = FALSE /\ latest' = 0 /\ unsaved' = {} /\ todo' = {}

Exit ==
    /\ \/ pc = "symlink" /\ index' = Max(pages)
       \/ pc = "links" /\ pages = {} /\ UNCHANGED index
    /\ pc' = "done"
    /\ Gone
    /\ exposed' = exposed \cup Ties
    /\ UNCHANGED <<visible, counted, timestamp, drawn, pages, empty, prev, next,
                   crashes, missed>>

\* A kill or a fatal() anywhere.
Crash ==
    /\ pc \notin {"off", "done"} /\ crashes < MaxCrashes
    /\ crashes' = crashes + 1
    /\ pc' = "off"
    /\ Gone
    /\ exposed' = exposed \cup unsaved \cup Ties
    /\ missed' = IF pc \in {"links", "symlink"} THEN missed ELSE missed \cup todo
    /\ UNCHANGED <<visible, counted, timestamp, output>>

-------------------------------------------------------------------------------

\* innd writes a line.
WriteLog ==
    /\ visible < Len(FullLog)
    /\ visible' = visible + 1
    /\ UNCHANGED <<counted, timestamp, output, pc, pos, local, history>>

RunStep ==
    \/ SkipLine \/ CountLine \/ EndOfInput
    \/ Truncate \/ Write
    \/ DrawGraphs \/ CreatePage \/ WritePage
    \/ StartLinks \/ FixPage \/ Unlink
    \/ Exit

Next == StartRun \/ StartFails \/ RunStep \/ Crash \/ WriteLog

\* cron starts the program again and again.
Spec == Init /\ [][Next]_vars /\ WF_vars(StartRun) /\ WF_vars(RunStep)

-------------------------------------------------------------------------------
(* Properties.                                                             *)

\* A record is counted twice for two reasons only: a run died before it had
\* put the record's time on file, or the record is as old as the timestamp
\* that the end of a run, or a crash, left behind.
DoubleCountExplained == \A i \in Records : counted[i] = 2 => i \in exposed

\* No crash makes a later run pass over a record: one that was read and not
\* counted goes back in time, behind a record that was counted.
SkippedOnlyBackwards ==
    \A i \in Records :
        i < pos /\ FullLog[i].accepted /\ counted[i] = 0
            => \E j \in Counted : Time(i) < Time(j)

\* Between two runs, the graphs and the page of a day are those of its
\* counters, unless a run died before it had drawn the day; in that case the
\* day is not drawn until something is counted for it again.
GraphsCurrent ==
    pc \in {"off", "done"} =>
        \A i \in Counted :
            Day(i) \in missed \/ Day(i) \in drawn \cap (pages \ empty)

\* When main() returns, the pages are linked to their neighbours throughout,
\* those of earlier and of interrupted runs included, and the index is the
\* newest.  A page that a crash has left empty is passed over.
PagesLinked ==
    pc = "done" =>
        /\ \A d \in pages \ empty : prev[d] = Before(d) /\ next[d] = After(d)
        /\ index = Max(pages \cup {0})

\* The timestamp file is empty and no process is about to write it: every run
\* from now on ends in read_timestamp().
Stuck == pc = "off" /\ stampfile = "empty"

\* Every accepted record is counted at last, whatever crash came before, if
\* the log does not go backwards there and the timestamp can be read.
EventuallyCounted ==
    \A i \in Records :
        visible >= i /\ FullLog[i].accepted ~>
            \/ i \in Counted
            \/ \E j \in Counted : Time(i) < Time(j)
            \/ Stuck

\* news-sources(1) of the records that -t leaves out: "They will still be
\* plotted."  Whatever is counted shows in its day's graph at last.
EventuallyPlotted ==
    \A d \in Days :
        (\E i \in Counted : Day(i) = d) ~> d \in drawn \cup missed \/ Stuck

\* news-sources(1): "In order to avoid double-counting, input can only go
\* forward in time".  Runs that are not cut short count nothing twice.
NoDoubleCount == crashes = 0 => \A i \in Records : counted[i] < 2
================================================================================
