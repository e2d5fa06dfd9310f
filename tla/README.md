# rjk-nntp-tools in TLA+

TLA+ models, model checking and proofs for rjk-nntp-tools, a set of programs
around a news server: gateways that post commits (`bzr2news`, `git2news`) and
blog entries (`lj2news`) as articles, and programs that report on a server's
spool and logs (`spoolstats`, `news-sources`, `find-unhistorical`).

Modules are checked with `tlc -config X.cfg MCX.tla` and proved with
`tlapm XProofs.tla`. `PROJECT.json` lists the runs, the theorems, the hazards
and the source lines of every definition.

## Inventory

| Part | State | Operations | What is hard | What makes it correct |
|---|---|---|---|---|
| Poster thread, `lib/nntp.c` | list `postjobs`, flag `postdone`, mutex, condition variable, the connection | `post`, `join_postthread`, thread `postthread` with `pts_stat`, `pts_post`, `pts_auth` | two threads; the lock is given up while connecting and kept while talking; signals nobody waits for; 480 at any point; `fatal()` in either thread | each article handled once, in order; no lost wakeup; join returns, and only when all is done |
| Commit tracking, `lib/seen.c` | a file of 64-byte nodes, one open descriptor | `init_seen`, `seen`, `remember` | crash between append and link; short writes; pointer 0; duplicates | the file is the set of what was remembered, whatever happened |
| VCS gateway, `gateways/bzr2news.c` | the log being read, the `.seen` file per repository | the readers of `git log` and `bzr log`; one run over all archives of the command line | "posted" is recorded when an article is queued; runs that die; shared `.seen` files | one article per commit; none lost except as documented; no archive starves |
| `lj2news`, `gateways/lj2news.c` | HTTP state, pipes, `lynx` child, parser | curl thread, main thread, writer thread, `lynx` | sticky HTTP state; full pipes; a response class that nobody waits for | only a good body is parsed; main does not hang |
| Timed IO, `lib/io.c` | read and write buffer, timeout | `io_getline`, `io_write`, `io_flush` | timeouts in the middle of a line; POLLERR | no byte lost or repeated; a call ends in time |
| `news-sources`, `sources/sources.cc` | counters per day and peer, `timestamp`, pages, index | one run over the log | crash between counters and timestamp; equal times; pages of earlier runs | a record is counted once; graphs and links are current |
| `spoolstats`, `spoolstats/` | counters per group, hierarchy, sender; CSV logs of earlier runs | scan, log, merge, report | crossposts; the CSV round trip | an article counts once per hierarchy; a merge repeats nothing |
| `find-unhistorical`, `inn/unhistorical.c` | none | check every article of the spool against history | innd stores and expires meanwhile | reports no article that innd knows |
| Conversions: `utils.c`, `parse_date.cc`, `Timezones.cc`, `parse_csv.cc` | none | dates, zones, CSV | boundaries | agree with a reference |
| Graph drawing, helpers, perl scripts, assets | none | | | not modelled, see below |

The gateways call `create_postthread`, then `post` for every article, then
`join_postthread`; the poster takes the articles from a linked list under
`postlock`. `bzr2news` asks `seen` before `post` and calls `remember` after it.
All parts end the process through `fatal` (`lib/error.c`), from either thread.
Only the `.seen` files, the files of `news-sources`, the CSV logs and what the
server holds outlive a process.

## Modules

| Module | Models | Extends or composes |
|---|---|---|
| `PostQueue` | what `nntp.h` promises: a queue with one consumer | |
| `PostThread` | `lib/nntp.c` | instance `PQ` of `PostQueue` as its abstract specification |
| `PostThreadProofs` | | theorems about `PostThread` |
| `CommitSet` | what `seen.h` promises: a persistent set per file | |
| `SeenFile` | `lib/seen.c` | instance `CS` of `CommitSet` as its abstract specification |
| `SeenFileProofs` | | theorems about `SeenFile` |
| `CommitLog` | the readers of logs in `gateways/bzr2news.c`, as operators | |
| `Gateway` | the runs of `gateways/bzr2news.c` | extends `CommitLog`, composes `PostQueue` and `CommitSet` |
| `GatewayProofs` | | theorems about `Gateway` |
| `Lj2News` | `gateways/lj2news.c` | composes `PostQueue` |
| `Lj2NewsProofs` | | theorems about `Lj2News` |
| `ByteStream` | what `io.h` promises: bytes in order, lines | |
| `TimedIO` | `lib/io.c` | instance `Stream` of `ByteStream` as its abstract specification |
| `TimedIOProofs` | | theorems about `TimedIO` |
| `NewsSources` | `sources/sources.cc` | |
| `NewsSourcesProofs` | | theorems about `NewsSources` |
| `Dates` | `lib/parse_date.cc`, `lib/Timezones.cc`, dates in `lib/utils.c`, as operators | |
| `Csv` | `lib/parse_csv.cc`, `lib/split.cc`, as operators | |
| `SpoolStats` | `spoolstats/` | extends `Dates` and `Csv` |
| `SpoolStatsProofs` | | theorems about `SpoolStats` |
| `DataLemmas` | | lemmas about least and greatest elements, recursive functions and flattened sequences that the proofs share |
| `MC...` | constants for TLC, and assumptions that check operators | the module of the same name |

A definition called "Mutant of X" is a plausible bug in X. Replacing X by it
makes TLC report the property that `PROJECT.json` pairs it with, which shows
that the property depends on that part of the code.

### PostThread

One action per step of either thread between two points where the other can
see a difference: taking the mutex, changing the list, signalling, releasing
it, and every answer of the server. `mainpc` and `posterpc` are the two
program counters, `postlock` the mutex's holder. `Signal` wakes a poster that
is asleep and is otherwise lost, as `pthread_cond_signal` is, and a wait may
end by itself. The server is external: it holds a set of message IDs
(`spool`), may get articles from elsewhere (`Feed`), and gives any answer that
the code distinguishes: 223 or missing to STAT, 480 to anything (once per
session), 240, 441 with or without INN's codes, or another code to an article.
`PosterFatal` stands for each way a conversation can fail, including a lost
answer to an article that the server took.

`accepted`, `handled` and `verdicts` are history. The queue's abstract state is
`postjobs`, `handled`, `postdone`, and a status computed from `alive` and
`mainpc`.

### SeenFile

A file is a sequence of nodes, and a pointer is a node's position. A call is
a walk, one `pread` per step; the append of `remember` and the write of the
parent are two steps, and the process may die between any two. Death is the
process's, not the machine's: what was written stays. A short write is
possible when a file grows (a full disk) and leaves it `torn`; overwriting a
node in place is one step. Commit IDs are compared by rank. The abstract set
of a file is `Held(f)`: what a search finds. A call of `CommitSet` keeps its
argument from the step that asks (`AskSeen`, `AskRemember`) to the one that
answers, so the answer is about the commit that was asked for.

### Gateway

The main thread's loop over archives and log entries, with the poster reduced
to `PostQueue` and the tracking files to `CommitSet`, which the modules above
implement; so a step here stands for a whole call there. Runs follow each
other for ever, commits arrive (`Push`) and pass the age limit (`GrowOld`), and
a run may be cut short anywhere (`MaxAborts` bounds these kills and torn writes, not
the other ways in which a run can die). `offered`, `offeredAgain` and `interrupted` are
history. It is assumed that message IDs do not collide, and that archives with
commits in common share a tracking file (`SharingAssumption`): two clones of one
repository, each with a `.seen` file of its own, are offered twice by design.

What a run reads of an archive is what `CommitLog` makes of the lines that the
log command prints for its commits (`Logs`): commit IDs, up to an entry at which
the program ends. A git commit without a message is such an entry (`assert` in
`process_git_archive`), so commits are made with a message or without (`bare`),
and `UnreadableEntry` ends the run there. A log command may fail (`Fails`): git's on
a branch without commits, and any on a repository that is broken, which `Break` makes
of those in `MayBreak` and repairs again. It has then printed some of its log, cut
between two entries, and its exit status is fatal when that has been read (`Outputs`);
what follows in this archive, and the archives behind it, have to wait. git's entries are compared with the
age limit when they are posted, bzr's when the log is asked for.

### CommitLog

The loop bodies of both readers are operators `GitLine` and `BzrLine` on a
state and a line, applied to the lines one after the other (`GitRead`, `BzrRead`). A line is its kind, a header's name,
and a text of which only emptiness matters. `GitPrinted` and `BzrPrinted` are
the external commands. The assumptions `LogsRead`, `LogsRefused` and
`Subjects` of `MCGateway` say that a log of commits gives back those commits,
which logs are refused, and how long a Subject is.

### Lj2News

All that runs in `lj2news`: the main thread with the parser's callbacks and
`process_item`, the curl thread, the thread that writes to lynx, the lynx child,
and the poster as `PostQueue`. A fetch is a series of responses (a proxy's,
redirects, the last one), each with its class and content type, and then the
body in pieces through a pipe; the HTTP state and its condition variable are
`http`, which `SetHttpState` changes and main awaits. Tokens of XML and
bufferfuls of text are the units of the pipes, which hold one each, so that
every write can block. Lynx's output is
read in bufferfuls: of the first loop, which looks for a line that is not blank,
`ReadLead` passes over blank lines and, as the code does, over the beginning of a
line too long for the buffer (`LongStarts`). The expat callbacks keep the element counts of the
code, so an `item` within another one starts a new list of elements, and text in an
element of the outer one that follows finds none (`NoElement`, a null pointer);
`dc:date` is not among the fields, because the parser is created with
namespaces and reports that element under an expanded name which the code does
not compare with. `PostedFaithfully` reads the articles off a document as a
whole (`ArticlesOf`), so it is independent of the callbacks, and leaves out blank lines
at the beginning only (`Rendered`), as the comments of `process_item` say. What expat refuses,
a second root included, never reaches them (`WellFormed`).

`answers`, `proxied` and `taken` are history. `GoodBodyOnly` excepts URLs for
which a proxy said 2xx to CONNECT, `PostedFaithfully` counts these as feeds, and `MainEnds` excepts the wait of main for a last
response that is neither a success nor an error (`Undecided`): in these cases
the code does what the exception says, and no document promises otherwise. The two
properties count the death of the process as an end, so they do not tell that the
writer's SIGPIPE, which nothing ignores, kills it (`BrokenPipe`).

### TimedIO

One handle. A call is a series of steps: a copy into the buffer, a poll and
the `read` or `write` behind it, a byte taken out of the buffer. The socket
accepts any part of what it is offered, and may at any time become ready,
stop, close or break. The clock ticks in seconds. `todo` is what the caller has handed
over and the call has not accepted, `output` from `sofar` on what has been accepted and
not sent, and `partial`, `input` and what the socket holds are what has not been
returned; that is the refinement mapping to `ByteStream`. There only the first bytes of
what a write was given can be accepted, so that each of them goes out once, and a flush that
succeeds has sent them all. What a failed `io_getline` had read of a line is gone
(`DropPart`); it leaves `*linesize` as it was though `*line` is NULL, which the model's
caller sets right before the next call (`CallGetline`), as `io.h` asks for a size that
belongs to the line; the only caller in the repository ends after a failure.

### SpoolStats, Dates, Csv

Runs of `spoolstats` with or without `--no-scan` and graphs. The scan is
`recurse` step by step: directories open at the same time are a stack, a
directory's entries are read in any order, each with its low water mark, and innd
stores (`Arrive`) and expires (`Expire`) articles in between, a file and a directory of
one name never side by side (`NamesApart`); an entry that has
gone when `stat` looks ends the run. `Visit` counts an article the first time
it is met. Logs are rows of numbers and quoted names, written file by file and
cut off anywhere (`LogCutOff`, `Killed`); the rows that earlier runs left are
part of the initial state. Pages are the figures in their tables; of a graph
only the choice of its scale is modelled. Names are sequences of octets, so
that sorting, splitting and quoting are what the code does. An article's fields
are what the code reads, and `posted` and `arrival` the moments at which it was
really posted and stored.

Three of the module's assumptions matter. `NamesAssumption`: no group's name is empty
or begins with a dot, which INN does not allow. `ContiguousAssumption`: no group has
the name of a hierarchy while another hierarchy's name begins with that and a
character below the dot. Without it a crossposted article counts twice in a
hierarchy (`AllGroups.cc:168` compares with the previous group only).
`ArticlesAssumption`: message IDs differ, every article has Newsgroups, and sizes and
times are numbers.
`NothingMissed` supposes no more than these, but holds only where dates are
converted rightly (`RightDates`) and no name of a directory is a number
(`NoNumericNames`); `NothingToMiss` in `MCSpoolStats` checks which instances that is
true of.
`ReuseRepeats` holds where names are of octets up to 127 (`PlainNames`). A hierarchy
called "all" would share its history with all groups; the model has none: the two
are different files in it. `LogsAssumption` says of the earlier logs only that they are lists of rows,
and that an interrupted write leaves one to three of the columns of its row.

`Dates` and `Csv` are pure. The assumptions of `MCSpoolStats` check them:
the calendar against the lengths of months from 1970 to 2037, zones, CSV quoting
against CSV reading for every octet and all short strings of the tricky ones,
splitting against joining, the order of strings, and the axis of a graph.

### NewsSources

A run reads the log from its beginning, counts what is wanted, updates the
timestamp every `Batch` records (32 in the code) in two steps, draws the days
that changed, and fixes the links. A record's contribution to the counters is
kept apart (`counted`), so that counting twice shows. Days are numbers, and the
split by peer only chooses the file, so it is left out. `-t` is represented by
the number of busy minutes it leaves out, at least one: with none, which is
what the program does when `-t` is not given although the manual says 1, the
code reads beyond an array, and no behaviour can be promised.

## Runs

| Run | Bounds | States | Shows |
|---|---|---|---|
| `post_thread` | 2 message IDs, 2 posts, 1 spurious wakeup | 75 000 | the eight safety properties, `CallsReturn`, and that the two threads implement `PostQueue` with its liveness |
| `seen_file` | 3 commits, files of 4 and 2 nodes | 196 000 | the tree, durability, ends of walks, and that the files implement `CommitSet` |
| `gateway` | 3 commits, one of which may lack a message; 2 git archives with one `.seen` file and a bzr archive; 1 archive whose log command may fail; 1 run cut short | 397 000 | what is offered twice, what is lost, that nothing starves; both readers of logs |
| `gateway_lost` | same | | violation: a commit is tracked as posted and never is |
| `news_sources` | 6 log lines, 3 days, batches of 2, 2 crashes | 53 000 | what is counted twice or skipped, stale graphs, links, liveness |
| `news_repeat` | no crash | | violation: a second run counts the newest record again |
| `news_trim` | 2 minutes left out, no crash | | violation: a quiet day is never plotted |
| `lj2news` | 6 feeds (2 of them on one command line), pipes of 1 piece, 1 response before the last | 135 000 | only a good body is parsed, articles are whole and in order, and the threads do not wait on each other |
| `lj2news_lead` | 1 feed, whose text begins with a long line | | violation: the line is left out of the article |
| `timed_io` | buffers of 2 bytes, 4 bytes to write in calls of 1 or 3, 5 bytes to read, time limits 0 and 1 | 551 000 | the handle is a byte stream, and calls end in time |
| `spool_stats` | 5 articles, 3 groups, 2 hierarchies, 5 moments, 2 runs, 2 states of the earlier logs | 341 000 | counts are exact, nothing is missed, pages from logs repeat the scan; dates, zones, CSV |
| `spool_numeric` | 3 articles, a group named c.a.0, 1 run | | violation: the group's articles are missed |

Why the bounds suffice. Two posts cover an article queued while the poster
connects, sleeps, talks, or has just looked, and both orders of two articles,
equal or not. Four nodes hold a root, two links and an orphan, and the second
file allows a switch in between. Two archives with one file and one with its
own are the ways in which archives can share tracking; after the one run that
is cut short, any number of complete runs follow, and any number that die of a log command, since
`Break` is not bounded. Two crashes let a run follow
one that itself recovered from a crash, and the six lines hold an older line, a
tie, a rejected line, a batch that fills up and a page with two neighbours.

The first feed has what the parser must tell apart (titles of feed and item, a
title given twice, categories, an item that is too old, blank and long lines),
the second an item without a title and with a description longer than both
pipes and lynx's own buffer together, so that all three processes block on each other if
they can; two URLs let one fetch be given up while the next waits. Two feeds lack
what an item must have, and two have an item within an item. Writes of 1
and 3 bytes into a buffer of 2 fit, fill it, and exceed it, also behind what a
failed flush left; the text holds a line, an empty line and an end without a
newline, and lines grow past their first allocation. A time limit of 1 is one
that has not passed at first; more seconds add nothing but waiting.

The articles of `spool_stats` lie on both sides of each end of the interval,
with Date and arrival as far apart as the latencies allow, in one group, two
groups of a hierarchy, and two hierarchies. Two of them are too early on the
second day, which is what a wrong low water mark needs. Two runs are a scan and
one that reads its logs, or two scans where the second appends behind what the
first left; two states of the logs (none, and complete ones but for
a row that was cut off) stand for what earlier runs leave.

## Fairness

- `PostThread`: weak fairness of the main thread's steps inside a call (the
  scheduler), and of the poster's steps or its failure: the server answers or
  the connection breaks. With `lj2news`'s timeout that is what `io__wait` does;
  `bzr2news` sets no timeout, so for it this is an assumption about the server.
  The gateway itself need not call anything.
- `SeenFile`: weak fairness of the steps of a call; it may be cut short.
- `Lj2News`: weak fairness of each thread, of lynx while it has input or output
  to deal with, and of curl, which ends a fetch because it has a timeout. What
  answer comes is not fair, nor is any failure.
- `TimedIO`: the thread is scheduled, and the clock ticks while a call lasts.
  The socket promises nothing: without a time limit a call need not end, and
  `bzr2news` sets none.
- `SpoolStats` has no liveness: a run that does not end tells no one, and it
  waits for nothing.
- `Gateway` and `NewsSources`: cron starts run after run, and a run goes on. Failures
  are never fair, new commits and log lines need not come.

## What is proved

For every set of message IDs and every bound, from `PostsAssumption` and
`MsgIdsAssumption` (`PostThreadProofs`):

- `TypeCorrect`. The type invariant alone is not inductive: `Tail(postjobs)` is a
  sequence only if there is a job, so `TypeInv` adds `WorkAtHand`, that there is
  one whenever the poster connects for it or talks about it.
- `MutualExclusion`, `LockProtects`, `WakeupsReachPoster`, `PosterIsLast`. The inductive invariant
  `Control` relates program counters, mutex and flag: who holds the lock, how far
  join has come when `postdone` is set, and that nobody joins a poster that may
  go back to sleep. With it every step that touches queue or flag is one of the
  holder's.
- `Fifo`, `Delivery`, `JoinIsComplete`. `QueueSteps` says that a step leaves the
  list alone, appends, or pops with a verdict; `Ledger` follows from it.
- `RefinesQueue`: every step maps to a step of `PostQueue` or to none. `PostAppend`
  is `Enqueue`, popping is `Handle`, `JoinSetDone` is `Close`, `JoinReturn` is
  `Finish`, and `fatal` is `Abort`.

For every set of commits and files (`SeenFileProofs`):

- `SeenTypeCorrect`, `PointersForward`, `ReadsSucceed`. `Shape` is inductive: types,
  pointers that lead forward to complete nodes, and a walk that is at a node of
  the file whenever the file has one. A read can then fail only in a file whose
  first write was torn.
- `TreeIsSearchTree`, `RememberedForGood`. What a search finds, and which nodes
  are linked, are recursive functions over a file. Pointers lead forward, so these
  functions exist (`FindsFunction`, `InTreeFunction`), and instead of computing them
  the proofs characterise them: a set of nodes that a search cannot leave decides
  it (`SearchesDecide`), and the tree is the one set that has the root and the
  children of its members (`TreesAreDetermined`). The inductive invariant is
  `SeenInv`: the search for the commit of each linked node ends at that node
  (`Routed`), a call in progress is on the route of its commit (`OnRoute`), and the
  node about to be linked is as it was written (`NewNodeReady`). That each call
  reads a node and then writes the parent from what it read is safe because
  nothing is overwritten in between.
- `FilesAreSets`: every step is one of `CommitSet` or none: the start of a call keeps
  its commit, and the end of its walk answers for that one. The write of the
  parent is what adds the commit; a crash before it leaves a node that nothing
  finds.

For any archives, commits, ages and number of interrupted runs, from
`ArchivesAssumption`, `SharingAssumption`, `FieldsAssumption` and `PrintedAssumption`
(`GatewayProofs`). The last two only say that what stands for a missing field or an
empty line is no name, number, commit or text.

- `LogsReadInOrder`: of a log of any length the readers make its commits, all of
  them and in order, or those before the first one without a message, where the
  assertion of `process_git_archive` fails. The states of the loop follow one
  another (`GitReads`, `BzrReads`), what comes of some lines depends on those before
  only through the state they leave (`GitReadsOn`, `BzrReadsOn`), and `GitBehind` and
  `BzrBehind` say which state the first k commits leave; `GitBehindNext` and
  `BzrBehindNext` add one commit, line by line. It is what the types of `log` rest
  on (`LogType`).
- `GatewayTypeCorrect`. `Control` adds to the types that a run which is at an entry
  has an archive and its log, and that "remember" follows a commit at the head
  of it.
- `OffersOnce`, `SettledStaysRemembered`, `LossesComeFromQueue`. They are inductive
  only together with where each commit came from: `Ledger` says that a commit in a
  tracking file is of an archive that uses that file (`Origins`), that what was
  offered is remembered, about to be, or of a run that died (`Accounted`), and
  that what is queued or settled was offered. `SameLedger` disposes of the steps that touch none of it, so the cases left
  are posting, remembering, the poster's answer and the early ends of a run.

For buffers of any size, any writes, text and time limits, from
`TimedIOAssumption` (`TimedIOProofs`):

- `TimedIOTypeCorrect`. `Sequences` and `Calls` make it inductive: which call the
  rest of a flush or a part of a line belongs to, that `*linesize` is the true
  size while there is a line, and that a part of a line has no newline before
  its last byte.
- `HandleIsStream`: every step is one of `ByteStream` or changes nothing there. `Ops` adds
  what each call may be doing, so that only a write accepts, and accepts the caller's
  next bytes. The
  lemmas are about sequences cut in two: a byte or a buffer moved from one
  part to the next leaves the whole as it was.

For any log, batch size and number of crashes, from `LogAssumption` and
`BoundsAssumption` (`NewsSourcesProofs`):

- `NewsTypeCorrect`. `Batches` and `Lists` make it inductive: how far a batch is filled
  at each point, and that the day being drawn is the first of those listed.
- `DoubleCountsHaveReason`, `NothingSkippedForward`. The timestamp that is on file is
  the time of a counted record (`TimesCounted`). `Covered` says which records it covers:
  all that have no reason to be counted again, except those of the current batch;
  and that `latest_time` is beyond what a run has still to meet of them.
- `GraphsFollowCounters`. The day of a counted record is drawn, known to be missed, or
  in the list of the run (`DaysAccounted`).
- `PagesFormChain`. The links are right for the pages that `fixup_html` has been
  through (`LinksSoFar`).

For any feeds, answers and capacities, from `Lj2NewsAssumption` (`Lj2NewsProofs`):

- `Lj2NewsTypeCorrect`. The counts `item` and `subitem` stay numbers because they are
  the numbers of open elements of each kind (`Parser`), and nothing is open between
  two documents, though the code resets only one of the two.
- `OnlyGoodBodiesParsed`. `Threads` ties a fetch to the URL that main waits for,
  `State` the HTTP state to the response that it was made of, and `Body` the pipe to
  the part of the document that has been sent and not yet taken. The theorem excepts the
  URLs for which a proxy said 2xx to CONNECT: the code takes that for the answer.
- `ExitStatusTells`: the conjunct `ExitStatus` of `PostedFaithfully`, with the same exception. `Outcome` counts the URLs
  main is done with. Main gives a URL up as soon as the state is HTTP_ERROR, before
  the response is complete, so the proof needs that no further response can follow
  such a one, and that a proxy's 2xx has made the state HTTP_OK for good.
- `ArticlesFaithful`: all of `PostedFaithfully`. The invariant that makes it
  inductive is `Whole`. `Feeding`: the tokens taken are the first ones of the document
  at the current URL and those in the pipe come next, so the depth of the stack is that of
  the document there. `Reading`: while an item is open, the list of elements is what the tokens
  since its start say (`Begun`, `Gathered`), but for the text that the open subelement
  still lacks (`Within`); it is `Complete` at the item's end. `Rendering`: the body, the text
  in the two pipes and what is not yet written are together the description, without the
  lines that the first loop of `process_item` leaves out, which are blank, whichever of the threads
  and lynx is ahead. `Posting`: what has been queued is, at each point of main, the
  articles of the URLs before and of the items that have ended. The hypothesis `Rss`
  says that a feed has one root (`OneRoot`), no item within an item, and nothing but
  text in the subelements of an item (`FlatItems`). It is needed: the code fills the
  newest element, whichever is open, so with elements nested in a subelement the
  articles are others; RSS has no such elements. The hypothesis `ShortLeads` says that no
  text begins, after blank lines, with a line too long for the buffer; the run `lj2news_lead`
  is the counterexample without it, and `OnlyBlanksLeftOut` is where it is used. `GoodBodyOnly` and `ExitStatus` are
  proved without either.

For any groups, articles, moments, options and earlier logs, from the module's
assumptions (`SpoolStatsProofs`):

- `SpoolTypeCorrect`. `Shape` and `Nested` make it inductive: the open directories
  are each in the one below.
- `ScanMissesNothing`. Articles are numbered in the order of their arrival (`Numbered`),
  so what is at or below a low water mark is too early (`LowWater`); and what should
  be counted has been, or its hierarchy, its directory or its number is still to be
  read (`Covered`). The theorem has two hypotheses, and both are needed: `RightDates`
  (with a named zone `Valid` takes a date for another) and `NoNumericNames` (the run
  `spool_numeric` is the counterexample without it).
- `ScanCountsExact`. `Counting` says it of every state of a scan and not only of its
  end: the figures are those of the articles met so far. `FiguresCounted` adds one
  article: `VisitedOnce` says that each of its hierarchies is visited once, which is
  where `ContiguousAssumption` is needed, and `VisitedGroups` that what is visited are
  its groups in wanted hierarchies. Bytes are a fold over a set; `BytesWithout` says that
  any article may be taken away first, so the order of a fold does not matter.
- `LogsRepeatScan`. `Reuse` says three things. While a scan writes its logs, those written say what it
  counted (`Logged`); afterwards they say so all together (`Kept`); and the figures
  of a run that reads them agree with that scan's as far as it has read (`Reading`):
  group by group and value by value, and for a history if its row is whole. What
  is written is read back: `NameReadBack` for a name, octet by octet from the end
  of its quotes; `KeysAre`, that the keys of a map come once each, because the rank of a key in the
  order of strings is a number below the count of keys and no two have the same. The hypothesis is
  `PlainNames`: an octet above 127 is not read back as it was.

Where an argument needs an induction over a finite set or over numbers, it is by a
least counterexample: the orders involved are well-founded (`FiniteSetTheorems`,
`WellFoundedInduction`), so a set of bad values that is not empty has a least
member. `DataLemmas` does this for bounds, `Max` and `Min`, for the existence of functions
defined by recursion over numbers, and for what `FlattenSeq` makes of a concatenation.

Only model-checked: liveness, since the prover has no ENABLED (`CallsReturn`,
`WalksEnd`, `CallsEnd`, `EventuallySettled`, `EventuallyCounted`, `EventuallyPlotted`, `MainEnds` and
the fairness of `ImplementsQueue`); and `PostedFaithfully` of feeds that are not `Rss`,
two of which are in the passing run. What `Dates` computes, and `Csv` apart from
quoting and reading names, is checked for the bounded inputs of their assumptions;
so are the readers of `CommitLog` for what `Gateway` does not print: notes, messages
of several lines, merges, and logs that are refused.

## Disagreements found

- `bzr2news` records a commit when its article is queued; bzr2news(1) says that
  posted commits are tracked (`gateway_lost`).
- `news-sources` counts the newest record again in each run over the same log;
  its manual says that double-counting is avoided (`news_repeat`).
- `news-sources -t` does not end on a day with few busy minutes (`news_trim`).
- `spoolstats` passes over the directory of a group whose last name is a number,
  when articles of the group above it were too early (`spool_numeric`): the
  low water mark is meant for articles but applied before `stat`. The number must be
  that of no live article (0, or one that has expired), since a directory has one
  entry of a name.
- `lj2news` looks for the first line of a text that is not blank and leaves out, on the way, the
  beginning of a line that does not fit into its buffer, blank or not; its comments
  speak of blank lines only (`lj2news_lead`).

Smaller ones, seen while modelling and stated by the models or their assumptions:

- `nntp.c:226` tests a 441 line with `!strstr(437) || !strstr(435)`, so every line but
  one that holds both is counted as unwanted, and "article rejected" is never logged;
  meant is, it seems, that a line with either of them counts as unwanted (no negations),
  and any other is logged (`reported` in `verdicts`).
- `git log` of a branch without commits fails, so an empty repository ends every run of
  `git2news`, and the archives behind it wait for its first commit (`bzr2news.c:535`,
  `Unreachable`).
- A failed `io_getline` sets `*line` to NULL but not `*linesize`, though `io.h` says that
  both are updated (`io.c:206`, `CallGetline`).
- Most named zones are in minutes where seconds are subtracted (`Timezones.cc:32`;
  only some entries are scaled): EST is five minutes west (`NamedZonesInMinutes`).
- CSV quoting prints an octet above 127 with eleven octal digits, and
  reading takes three; spoolstats(1) says three (`parse_csv.cc:96`, `QuotingReadsBack`).
- A W3 date of a year only is in the December before (`utils.c:261`), and one with
  a zone less than an hour east gets the wrong sign (`utils.c:258`); a bzr date's
  seconds are never checked (`utils.c:338` tests the minutes again); the zone of an
  RFC 822 date is ignored (`W3Dates`, `BzrDates`, `Rfc822Dates`).
- `Article.cc:133` compares the position, not the character, with a quote, so a
  quoted charset counts as unknown (`Charset`).
- A poster who used two versions of a client counts twice in agents-summary
  (`ArticleProperty.cc:64`, `Summarized`).
- A branch name of more than 58 characters makes the whole message the Subject
  (`bzr2news.c:229`, `Subjects`).
- A git commit without a message ends every run that reaches it, and the
  archives behind it are never read (`bzr2news.c:508`, `Unreachable`).
- `lj2news` takes a proxy's answer to CONNECT for the final one, never
  recognises `dc:date`, and waits for ever after a last response of another class
  (`proxied`, `Undecided`).
- Text in an element around an item that is itself in an item makes
  `character_data` follow a null pointer (`lj2news.c:357`, `NoElement`).

## Plan

Done, in this order: `PostQueue`, `PostThread`, its proofs; `CommitSet`, `SeenFile`,
its proofs; `Gateway`; `NewsSources`; `Lj2News`, which took in the fetch and the
lynx pipes that were planned apart; `ByteStream`, `TimedIO`; `Dates`, `Csv`,
`SpoolStats`; `CommitLog`; the proofs of `Gateway` and `TimedIO`; those of
`NewsSources`, `Lj2News` and `SpoolStats`, and the rest of those of `SeenFile`; and
`PostedFaithfully` of `Lj2News`, the last of the invariants that the runs check. Not
done: two gateway processes with one `.seen` file, for what is lost when runs
overlap, and the dot-stuffing of an article.

## Not modelled, and why

Graph drawing (`graph/`), the HTML around the figures of `spoolstats`, string and process
helpers: no state outlives a call, or it is pure I/O. `become` is a `setuid`
at the start. `find-unhistorical` passes over the spool once and keeps
nothing; whether what it reports of an article that arrives meanwhile is true
depends on the order in which innd stores and records, which is not in this
repository. The perl scripts print
what they read, sequentially. `css.c`, `sorttable.*` are generated or vendored. A power
failure is not modelled: nothing calls `fsync`, so nothing is promised. `seen.c`
on a big-endian machine (`native_order` returns nothing there), two processes
with one `.seen` file, and the uninitialised counter `unwanted`, which only a debug
message reads, are left out. Of `news-sources`, how a log line is taken apart
and the year guessed is abstracted, and daylight saving time is left out.
