------------------------------- MODULE Dates -------------------------------
(***************************************************************************)
(* The date conversions of lib/parse_date.cc, lib/Timezones.cc and         *)
(* lib/utils.c.  A date is the record of the fields its text is split      *)
(* into; Missing stands for a number that is not there.  What the text     *)
(* looks like between the fields is left out; which fields are checked,    *)
(* and how they become a time_t, is what the code does.                    *)
(***************************************************************************)
EXTENDS Integers, TLC

Missing == -1          \* no number where one is looked for
Fatal   == -2          \* the conversion ends the program (fatal())

MonthNames == <<"jan", "feb", "mar", "apr", "may", "jun",
                "jul", "aug", "sep", "oct", "nov", "dec">>

\* timegm(), and mktime() with TZ set to UTC: seconds since 1970 of a struct
\* tm, whose fields need not be in their ranges (a month of -1 is the
\* December before).
Timegm(tm) ==
    LET mon   == tm.mon % 12
        year  == 1900 + tm.year + tm.mon \div 12 - (IF mon < 2 THEN 1 ELSE 0)
        march == (mon + 10) % 12
        days  == 365 * year + year \div 4 - year \div 100 + year \div 400
                   + (153 * march + 2) \div 5 + tm.mday - 719469
    IN ((days * 24 + tm.hour) * 60 + tm.min) * 60 + tm.sec

-----------------------------------------------------------------------------
\* Timezones::Timezones(): what each name adds, in seconds.  The table is
\* written as the code's: most entries are in minutes ("+2 * 60"), and only
\* those of Seconds were scaled.  A name assigned twice keeps the last value.
ZonesInMinutes ==
    << <<-12, {"Y"}>>, <<-11, {"X"}>>, <<-10, {"HAST", "HST", "W"}>>,
       <<-9, {"AKST", "HADT", "HNY", "V"}>>, <<-8, {"AKDT", "HAY", "HNP", "PST", "U"}>>,
       <<-7, {"HAP", "HNR", "MST", "PDT", "T"}>>,
       <<-6, {"CST", "HAR", "HNC", "MDT", "S"}>>,
       <<-5, {"CDT", "EST", "HAC", "HNE", "R"}>>,
       <<-4, {"AST", "EDT", "HAE", "HNA", "Q"}>>, <<-3, {"ADT", "HAA", "P"}>>,
       <<-2, {"O"}>>, <<-1, {"N"}>>, <<0, {"GMT", "UTC", "WET", "Z"}>>,
       <<2, {"B", "CEDT", "CEST", "EET", "MESZ"}>>,
       <<3, {"C", "EEDT", "EEST", "MSK"}>>, <<4, {"D", "MSD"}>>, <<5, {"E"}>>,
       <<6, {"F"}>>, <<7, {"CXT", "G"}>>, <<8, {"AWST", "H", "WST"}>>,
       <<9, {"AWDT", "I", "WDT"}>>, <<10, {"AEST", "K"}>>, <<11, {"AEDT", "L"}>>,
       <<12, {"M"}>> >>

ZonesInSeconds ==
    << <<60, {"A", "BST", "CET", "IST", "MEZ", "WEDT", "WEST"}>>,
       <<630, {"ACDT"}>>, <<570, {"ACST"}>>, <<690, {"NFT"}>>,
       <<-150, {"HAT", "NDT"}>>, <<-210, {"HNT", "NST"}>> >>

ZonesOf(table, unit) ==
    [z \in UNION {table[n][2] : n \in DOMAIN table} |->
        unit * table[CHOOSE n \in DOMAIN table : z \in table[n][2]][1]]

Timezones == ZonesOf(ZonesInMinutes, 60) @@ ZonesOf(ZonesInSeconds, 60)

-----------------------------------------------------------------------------
\* The zone of a date header: "+hhmm" or "-hhmm", a name, or nothing.
Offset(sign, hh, mm) == [name |-> "", sign |-> sign, hh |-> hh, mm |-> mm]
ZoneName(z)          == [name |-> z, sign |-> "", hh |-> 0, mm |-> 0]
NoZone               == ZoneName("")
ShortZone            == Offset("+", Missing, Missing)   \* fewer than 4 digits

ZoneParsed(z) == IF z.sign # "" THEN z.hh # Missing /\ z.mm # Missing
                 ELSE z.name = "" \/ z.name \in DOMAIN Timezones

\* What is subtracted from the time: UTC is assumed where no zone is given.
ZoneSeconds(z) == CASE z.sign = "+"  -> z.hh * 3600 + z.mm * 60
                    [] z.sign = "-"  -> -(z.hh * 3600 + z.mm * 60)
                    [] z.name = ""   -> 0
                    [] OTHER         -> Timezones[z.name]

\* parse_date_std(): the fields it insists on.  Hours, minutes and seconds
\* have no upper bound.
DateParsed(d) == /\ d.mday \in 1..31
                 /\ \E n \in DOMAIN MonthNames : MonthNames[n] = d.mon
                 /\ d.year # Missing /\ d.hour # Missing /\ d.min # Missing
                 /\ ZoneParsed(d.zone)

MonthOf(d) == (CHOOSE n \in DOMAIN MonthNames : MonthNames[n] = d.mon) - 1

\* parse_date(): 0 for a date it cannot parse.  A year below 1900 is taken as
\* years since 1900, seconds that are not there are 0.
ParseDate(d) ==
    IF ~DateParsed(d) THEN 0
    ELSE Timegm([year |-> IF d.year >= 1900 THEN d.year - 1900 ELSE d.year,
                 mon |-> MonthOf(d), mday |-> d.mday, hour |-> d.hour,
                 min |-> d.min, sec |-> IF d.sec = Missing THEN 0 ELSE d.sec])
         - ZoneSeconds(d.zone)

-----------------------------------------------------------------------------
\* w3date_to_time_t(): year, year-month, year-month-day, or all of them with
\* the time and its zone.  month, day and hour are Missing from the first
\* field the text does not have; zone is <<sign, hours, minutes>>.
W3InRange(w) == /\ w.year >= 1900
                /\ w.mon = Missing \/ w.mon \in 1..12
                /\ w.day = Missing \/ w.day \in 1..31
                /\ w.hour = Missing \/ /\ w.hour \in 0..23
                                       /\ w.min \in 0..59
                                       /\ w.sec \in 0..61

\* The hours carry the sign and the minutes take it from them: hours of 0
\* count as negative.
W3Zone(zone) == LET tzh == IF zone[1] = "-" THEN -zone[2] ELSE zone[2]
                IN IF tzh > 0 THEN tzh * 3600 + zone[3] * 60
                   ELSE tzh * 3600 - zone[3] * 60

\* A month that is not there stays 0 and becomes the month -1.
W3DateToTime(w) ==
    IF ~W3InRange(w) THEN Fatal
    ELSE Timegm([year |-> w.year - 1900,
                 mon |-> (IF w.mon = Missing THEN 0 ELSE w.mon) - 1,
                 mday |-> IF w.day = Missing THEN 1 ELSE w.day,
                 hour |-> IF w.hour = Missing THEN 0 ELSE w.hour,
                 min |-> IF w.hour = Missing THEN 0 ELSE w.min,
                 sec |-> IF w.hour = Missing THEN 0 ELSE w.sec])
         - (IF w.hour = Missing THEN 0 ELSE W3Zone(w.zone))

-----------------------------------------------------------------------------
\* bzrdate_to_time_t(): every field is there or the program ends.  Where the
\* seconds should be checked the minutes are checked again.
BzrInRange(b) == /\ b.year >= 1900
                 /\ b.mon \in 1..12 /\ b.day \in 1..31
                 /\ b.hour \in 0..23
                 /\ b.min \in 0..59
                 /\ b.min \in 0..61
                 /\ b.tz \div 100 \in 0..23 /\ b.tz % 100 \in 0..59

BzrZone(b) == (IF b.sign = "+" THEN 60 ELSE -60)
                 * ((b.tz % 100) + 60 * (b.tz \div 100))

BzrDateToTime(b) ==
    IF ~BzrInRange(b) THEN Fatal
    ELSE Timegm([year |-> b.year - 1900, mon |-> b.mon - 1, mday |-> b.day,
                 hour |-> b.hour, min |-> b.min, sec |-> b.sec]) - BzrZone(b)

\* rfc822date_to_time_t(): strptime() stops before the zone, so that the time
\* is taken as UTC whatever the zone says.
Rfc822DateToTime(d) ==
    IF d.sec = Missing THEN Fatal
    ELSE Timegm([year |-> d.year - 1900, mon |-> MonthOf(d), mday |-> d.mday,
                 hour |-> d.hour, min |-> d.min, sec |-> d.sec])
=============================================================================
