-------------------------------- MODULE Csv --------------------------------
(***************************************************************************)
(* The strings of the log files (lib/parse_csv.cc) and the list splitting  *)
(* of lib/split.cc.  A string is a sequence of octets.                     *)
(***************************************************************************)
EXTENDS Integers, Sequences, FiniteSets, SequencesExt

DoubleQuote == 34
Comma       == 44
Dot         == 46
Backslash   == 92
Digits      == 48..57
OctalDigits == 48..55

\* A char is signed in the builds this models: an octet above 127 is negative.
Char(o) == IF o > 127 THEN o - 256 ELSE o

OctalTriple(v) == <<48 + v \div 64, 48 + ((v \div 8) % 8), 48 + (v % 8)>>

\* "oct << setw(3) << setfill('0') << int": at least three digits.  A negative
\* int is printed as the unsigned one of 32 bits: a 3, seven 7s and the
\* digits of its last nine bits.
Octal(c) == IF c >= 0 THEN OctalTriple(c)
            ELSE <<51, 55, 55, 55, 55, 55, 55, 55>> \o OctalTriple(512 + c)

Escaped(o) == CASE o \in {DoubleQuote, Backslash} -> <<Backslash, o>>
                [] Char(o) < 32 \/ Char(o) > 126  -> <<Backslash>> \o Octal(Char(o))
                [] OTHER                          -> <<o>>

CsvQuote(s) == <<DoubleQuote>> \o FlattenSeq([n \in DOMAIN s |-> Escaped(s[n])])
                 \o <<DoubleQuote>>

\* at() throws where the text ends before the closing quote.
Thrown == <<-1>>

Joined(s, rest) == IF rest = Thrown THEN Thrown ELSE s \o rest

\* How many octal digits follow in text from p: at most three are taken.
OctalLength(text, p) ==
    CHOOSE k \in 0..3 :
        /\ \A n \in p..p + k - 1 : n <= Len(text) /\ text[n] \in OctalDigits
        /\ k = 3 \/ p + k > Len(text) \/ text[p + k] \notin OctalDigits

OctalValue(text, p, k) ==
    LET Value[n \in 0..k] == IF n = 0 THEN 0
                             ELSE (8 * Value[n - 1] + text[p + n - 1] - 48) % 256
    IN Value[k]

\* read_csv() on a field that starts with a quote: the octets of the string.
CsvRead(text) ==
    LET From[p \in 2..Len(text) + 2] ==
          IF p > Len(text) THEN Thrown
          ELSE IF text[p] = DoubleQuote THEN <<>>
          ELSE IF text[p] # Backslash THEN Joined(<<text[p]>>, From[p + 1])
          ELSE IF p = Len(text) THEN Thrown
          ELSE IF text[p + 1] \notin Digits
               THEN Joined(<<text[p + 1]>>, From[p + 2])
          ELSE LET k == OctalLength(text, p + 1)
               IN Joined(<<OctalValue(text, p + 1, k)>>, From[p + 1 + k])
    IN From[2]

-----------------------------------------------------------------------------
\* split(): the pieces of s between the separators, one more than there are
\* separators.
Split(sep, s) ==
    LET cuts     == {0} \cup {n \in DOMAIN s : s[n] = sep}
        Cut(k)   == CHOOSE n \in cuts : Cardinality({m \in cuts : m < n}) = k - 1
        After(n) == Min({Len(s) + 1} \cup {m \in cuts : m > n})
    IN [k \in 1..Cardinality(cuts) |-> SubSeq(s, Cut(k) + 1, After(Cut(k)) - 1)]

\* The order of C++ strings.
Before(s, t) ==
    \/ \E n \in DOMAIN s \cap DOMAIN t :
          /\ s[n] < t[n]
          /\ SubSeq(s, 1, n - 1) = SubSeq(t, 1, n - 1)
    \/ IsStrictPrefix(s, t)

\* A list of strings in that order.
Sorted(list) ==
    LET order == CHOOSE p \in Bijection(DOMAIN list, DOMAIN list) :
                     \A m, n \in DOMAIN list : m < n => ~Before(list[p[n]], list[p[m]])
    IN [n \in DOMAIN list |-> list[order[n]]]
=============================================================================
