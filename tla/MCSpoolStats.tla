---------------------------- MODULE MCSpoolStats ----------------------------
EXTENDS SpoolStats

\* The runs start on 28 May 2010 and the day after, at midnight; one-day
\* intervals, and the latencies spoolstats has by default.
T         == Timegm([year |-> 110, mon |-> 4, mday |-> 29, hour |-> 0, min |-> 0, sec |-> 0])
MCMoments == {T - 2 * Day - 61, T - 2 * Day - 60, T - Day, T - 1, T}
MCRunTimes == {T - Day, T}

\* Groups c.a, c.b and s.x.
ca == <<99, 46, 97>>
cb == <<99, 46, 98>>
sx == <<115, 46, 120>>
MCActive         == {ca, cb, sx}
MCHierarchyOrder == << <<99>>, <<115>> >>

Date(mday, hour, min, sec, zone) ==
    [year |-> 2010, mon |-> "may", mday |-> mday, hour |-> hour, min |-> min,
     sec |-> sec, zone |-> zone]

Text(quoted, offset, charset) == [quoted |-> quoted, offset |-> offset, charset |-> charset]

Article(mid, from, posted, arrival, date, newsgroups, agent, ctype, size) ==
    [mid |-> mid, from |-> from, posted |-> posted, arrival |-> arrival,
     date |-> date, newsgroups |-> newsgroups,
     agent |-> <<NoHeader, agent, NoHeader>>, ctype |-> ctype, size |-> size]

\* old, older: the first day's; on the second, too early by a second;
\* early: posted when the first interval ends and the second begins, and there
\*   a minute before;
\* next: posted when the second interval ends; it arrives while the first run
\*   may be going on, and makes the directory of its hierarchy;
\* late: posted in the second interval's last second, and there a second
\*   before the run.
MCArticles ==
    { Article("old", "ann", T - 2 * Day - 61, T - 2 * Day - 61,
              Date(26, 23, 58, 59, ZoneName("GMT")), ca, NoHeader, NoHeader, 5),
      Article("older", "bob", T - 2 * Day - 62, T - 2 * Day - 61,
              Date(26, 23, 58, 58, ZoneName("UTC")), ca, NoHeader, NoHeader, 5),
      Article("early", "ann", T - 2 * Day, T - 2 * Day - 60,
              Date(27, 1, 0, Missing, ZoneName("BST")), ca \o <<44>> \o cb,
              <<71, 50>>, Text(FALSE, 20, <<117, 56>>), 10),
      Article("next", "ann", T - Day, T - Day,
              Date(28, 0, 0, 0, NoZone), sx, <<71, 50, 49>>, NoHeader, 40),
      Article("late", "bob", T - Day - 1, T - 1,
              Date(27, 18, 59, 59, Offset("-", 5, 0)),
              sx \o <<44>> \o cb \o <<44>> \o cb,
              <<34, 92>>, Text(TRUE, 20, <<117, 56>>), 20) }

\* No logs, and those of a scan five days before that met one article, in c.b,
\* with a row of c.csv cut off by the scan of the next day.
NoLogs == [f \in LogFiles |-> None]

OldLogs ==
    LET before == T - 5 * Day
        log(rows) == [rows |-> rows, tail |-> <<>>]
    IN [f \in LogFiles |->
          CASE f = HistoryLog(<<99>>)  -> [rows |-> << <<before, Day, 7, 1, 1>> >>,
                                           tail |-> <<T - 4 * Day, Day, 5>>]
            [] f = GroupsLog(<<99>>)   -> log(<< <<CsvQuote(cb), 7, 1, 1>> >>)
            [] f = HistoryLog(<<115>>) -> log(<< <<before, Day, 0, 0, 0>> >>)
            [] f = GroupsLog(<<115>>)  -> log(<<>>)
            [] f = AllLog              -> log(<< <<before, Day, 7, 1>> >>)
            [] f \in {EncodingsLog, UseragentsLog} -> log(<< <<CsvQuote(Unknown), 1, 1>> >>)]

MCEarlierLogs == {NoLogs, OldLogs}
MCNoLogs == {NoLogs}

MCClients == << [anchored |-> TRUE, text |-> <<71, 50>>, name |-> <<71>>] >>

-----------------------------------------------------------------------------
(* A group with a number for a name: c.a.0 has its directory in c.a's, which
   holds two articles that came too early, with the numbers 1 and 2. *)
ca0 == ca \o <<46, 48>>
MCNumericActive == {ca, ca0}
MCNumericHierarchies == << <<99>> >>

MCNumericArticles ==
    { Article("old", "ann", T - 2 * Day - 61, T - 2 * Day - 61,
              Date(26, 23, 58, 59, ZoneName("GMT")), ca, NoHeader, NoHeader, 5),
      Article("older", "ann", T - 2 * Day - 62, T - 2 * Day - 61,
              Date(26, 23, 58, 58, ZoneName("GMT")), ca, NoHeader, NoHeader, 5),
      Article("in", "bob", T - Day - 1, T - Day,
              Date(27, 23, 59, 59, NoZone), ca0, NoHeader, NoHeader, 20) }

MCNumericMoments == {T - 2 * Day - 61, T - Day, T}

\* The articles are such that nothing should be missed, numeric names apart, and
\* that every name is read back from the logs.
ASSUME NothingToMiss == RightDates /\ PlainNames /\ (NoNumericNames <=> Active = MCActive)

-----------------------------------------------------------------------------
(* The conversions against what they should compute *)

MonthDays(year) == [n \in 1..12 |-> CASE n \in {4, 6, 9, 11} -> 30
                                      [] n = 2 -> IF year % 4 = 0 THEN 29 ELSE 28
                                      [] OTHER -> 31]
Midnight(year, mon, mday) ==
    Timegm([year |-> year - 1900, mon |-> mon - 1, mday |-> mday,
            hour |-> 0, min |-> 0, sec |-> 0])

\* Months have their lengths from 1970 to 2037.
ASSUME CalendarAgrees ==
    /\ Midnight(1970, 1, 1) = 0
    /\ \A year \in 1970..2037 : \A n \in 1..12 :
          /\ Midnight(year, n + 1, 1) - Midnight(year, n, 1) = Day * MonthDays(year)[n]
          /\ \A d \in 1..MonthDays(year)[n] :
                Midnight(year, n, d) = Midnight(year, n, 1) + Day * (d - 1)

\* The zones of RFC 822 that lie west of Greenwich are taken as minutes, not
\* hours: only GMT comes out right.
ASSUME NamedZonesInMinutes ==
    LET hours == [GMT |-> 0, EST |-> -5, EDT |-> -4, CST |-> -6, CDT |-> -5,
                  MST |-> -7, MDT |-> -6, PST |-> -8, PDT |-> -7]
    IN \A z \in DOMAIN hours : /\ ZoneSeconds(ZoneName(z)) = 60 * hours[z]
                              /\ ZoneSeconds(Offset("-", -hours[z], 0)) = 3600 * hours[z]

\* A numeric zone counts with its sign; a date without enough digits in it,
\* without a month that exists, or with an unknown name is not parsed.
ASSUME DatesParsed ==
    /\ ParseDate(Date(29, 1, 30, 0, Offset("+", 1, 30))) = T
    /\ ParseDate(Date(28, 22, 30, 0, Offset("-", 1, 30))) = T
    /\ ParseDate(Date(29, 0, 0, 0, ShortZone)) = 0
    /\ ParseDate([Date(29, 0, 0, 0, NoZone) EXCEPT !.mon = "mai"]) = 0
    /\ ParseDate([Date(29, 0, 0, 0, NoZone) EXCEPT !.year = 110]) = T
    /\ ParseDate(Date(29, 0, 0, 0, ZoneName("QQ"))) = 0

\* W3 dates: right with a month and either a zone that is not less than an
\* hour east or UTC; without a month the year's date is a month early.
ASSUME W3Dates ==
    LET at(zone) == [year |-> 2010, mon |-> 5, day |-> 29, hour |-> 0, min |-> 0,
                     sec |-> 0, zone |-> zone]
    IN /\ \A h \in 0..12, n \in {0, 30} :
             /\ W3DateToTime(at(<<"-", h, n>>)) = T + 60 * (60 * h + n)
             /\ (W3DateToTime(at(<<"+", h, n>>)) = T - 60 * (60 * h + n))
                  <=> (h > 0 \/ n = 0)
       /\ W3DateToTime([at(<<"+", 0, 0>>) EXCEPT !.mon = Missing, !.day = Missing,
                                                !.hour = Missing]) = Midnight(2009, 12, 1)
       /\ W3DateToTime([at(<<"+", 0, 0>>) EXCEPT !.hour = 24]) = Fatal

\* bzr dates: right, but any number of seconds is taken.
ASSUME BzrDates ==
    LET at(sign, tz, sec) == [year |-> 2010, mon |-> 5, day |-> 29, hour |-> 0,
                              min |-> 0, sec |-> sec, sign |-> sign, tz |-> tz]
    IN /\ BzrDateToTime(at("+", 130, 0)) = T - 5400
       /\ BzrDateToTime(at("-", 130, 0)) = T + 5400
       /\ BzrDateToTime(at("+", 160, 0)) = Fatal
       /\ BzrDateToTime(at("+", 0, 100)) = T + 100

\* RFC 822 dates (lj2news): the zone is not looked at.
ASSUME Rfc822Dates ==
    \A h \in 0..12 : Rfc822DateToTime(Date(29, 0, 0, 0, Offset("+", h, 0))) = T

\* Up to 127 every octet survives the logs, alone, before a digit and behind
\* another; above, none does: eleven digits are written and three are read.
Tricky == {0, 9, 32, 34, 44, 48, 55, 56, 92, 97, 126, 127}
ASSUME QuotingReadsBack ==
    /\ \A o \in 0..127 : CsvRead(CsvQuote(<<o>>)) = <<o>>
    /\ \A o, q, r \in Tricky : CsvRead(CsvQuote(<<o, q, r>>)) = <<o, q, r>>
    /\ \A o \in 128..255 : CsvRead(CsvQuote(<<o>>)) # <<o>>
    /\ CsvRead(<<34, 97>>) = Thrown /\ CsvRead(<<34, 97, 92>>) = Thrown

\* split() keeps everything but the separators, empty pieces included, and
\* the order of strings is one.
ASSUME ListsAndOrder ==
    LET strings == UNION {[1..n -> {44, 97, 98}] : n \in 0..3}
    IN /\ \A s \in strings :
             LET bits == Split(44, s)
             IN /\ FoldLeft(LAMBDA x, y : x \o <<44>> \o y, bits[1], Tail(bits)) = s
                /\ \A n \in DOMAIN bits : 44 \notin Range(bits[n])
       /\ \A s, t \in strings : /\ s # t => (Before(s, t) <=> ~Before(t, s))
                                /\ ~Before(s, s)
             /\ \A u \in strings : Before(s, t) /\ Before(t, u) => Before(s, u)

\* The top of an axis is the least multiple of its chunk that is not below
\* the largest value, and it has at most ten chunks.
ASSUME AxisHolds ==
    \A max \in 0..2000 :
        /\ VerticalScale(max) >= max
        /\ VerticalScale(max) - Chunk(max) < Max({max, 1})
        /\ ChunkCount(max) \in 1..10 /\ 10 * Chunk(max) >= max
=============================================================================
