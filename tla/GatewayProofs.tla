---------------------------- MODULE GatewayProofs ----------------------------
(***************************************************************************)
(* What MCGateway.cfg checks for three archives, proved of Gateway for any *)
(* number of archives, commits, tracking files and runs that are cut       *)
(* short: what may be offered twice, and what may be lost; and that a run  *)
(* reads the commits of an archive's log, whatever their number, in order. *)
(***************************************************************************)
EXTENDS Gateway, DataLemmas, SequenceTheorems

\* What a run can find in the log of the archive it is at.
Found(a) == Range(FullLog[a]) \cup {Assertion, Fatal}

\* Where the main thread is: it reads an archive's log, and at "remember" has
\* just queued the commit at the head of it.
Control ==
    /\ pc = "ended" => arg = 0
    /\ pc \in {"entry", "remember"} => arg # 0
    /\ pc = "remember" => log # <<>> /\ Head(log) \in Commits
    /\ arg # 0 => log \in Seq(Found(arg))
    /\ Running <=> status = "open"

TypeInv == TypeOK /\ Control

-----------------------------------------------------------------------------
(* Sequences *)

Elements(s) == {s[i] : i \in DOMAIN s}

\* Queueing an article adds its commit to what is queued.
LEMMA ElementsAppend ==
    ASSUME NEW S, NEW s \in Seq(S), NEW x \in S
    PROVE  Elements(Append(s, x)) = Elements(s) \cup {x}
<1> DEFINE t == Append(s, x)
<1>1. /\ t \in Seq(S) /\ Len(t) = Len(s) + 1
      /\ \A i \in 1..Len(s) : t[i] = s[i]
      /\ t[Len(s) + 1] = x
  BY AppendProperties
<1>2. /\ DOMAIN s = 1..Len(s) /\ Len(s) \in Nat
      /\ DOMAIN t = 1..Len(s) + 1
  BY <1>1
<1>3. \A i \in DOMAIN t : t[i] \in Elements(s) \cup {x}
  BY <1>1, <1>2 DEF Elements
<1>4. \A i \in DOMAIN s : s[i] \in Elements(t)
  BY <1>1, <1>2 DEF Elements
<1>5. x \in Elements(t)
  BY <1>1, <1>2 DEF Elements
<1> QED
  BY <1>3, <1>4, <1>5 DEF Elements

\* What the poster takes from the queue and what is left is what was there.
LEMMA ElementsTail ==
    ASSUME NEW S, NEW s \in Seq(S), s # <<>>
    PROVE  /\ Head(s) \in S /\ Tail(s) \in Seq(S)
           /\ Elements(s) = {Head(s)} \cup Elements(Tail(s))
<1> DEFINE t == Tail(s)
<1>1. /\ Head(s) \in S /\ t \in Seq(S) /\ Len(t) = Len(s) - 1
      /\ Head(s) = s[1]
      /\ \A i \in 1..Len(t) : t[i] = s[i + 1]
  BY HeadTailProperties
<1>2. /\ DOMAIN s = 1..Len(s) /\ Len(s) \in Nat /\ Len(s) > 0
      /\ DOMAIN t = 1..Len(s) - 1
  BY <1>1, EmptySeq
<1>3. \A i \in DOMAIN s : s[i] \in {Head(s)} \cup Elements(t)
  <2> SUFFICES ASSUME NEW i \in DOMAIN s, i # 1 PROVE s[i] \in Elements(t)
    BY <1>1
  <2>1. i - 1 \in DOMAIN t /\ t[i - 1] = s[i]
    BY <1>1, <1>2
  <2> QED
    BY <2>1 DEF Elements
<1>4. \A i \in DOMAIN t : t[i] \in Elements(s)
  BY <1>1, <1>2 DEF Elements
<1>5. Head(s) \in Elements(s)
  BY <1>1, <1>2 DEF Elements
<1> QED
  BY <1>1, <1>3, <1>4, <1>5 DEF Elements

\* What a log holds is at most commits of the archive and the entries at
\* which the run ends.
LEMMA FoundInCommits ==
    ASSUME NEW a \in Args
    PROVE  Found(a) \subseteq Commits \cup {Assertion, Fatal}
<1>1. FullLog[a] \in Seq(Commits)
  BY ArchivesAssumption
<1>2. \A i \in DOMAIN FullLog[a] : FullLog[a][i] \in Commits
  BY <1>1
<1> QED
  BY <1>2 DEF Found, Range

-----------------------------------------------------------------------------
(* How git2news reads a log *)

\* g has the states of process_git_archive() from the first of lines on.
GitSteps(g, lines, dir) == \A n \in 1..Len(lines) : g[n] = GitLine(g[n - 1], lines[n], dir)

\* The loop of process_git_archive() goes through states that follow one from
\* the other.
LEMMA GitReads ==
    ASSUME NEW S, NEW lines \in Seq(S), NEW dir
    PROVE  \E f : f[0] = GitStart /\ GitSteps(f, lines, dir) /\ f[Len(lines)] = GitRead(lines, dir)
<1> DEFINE N == Len(lines)
           Is(f, k) == f = [n \in 0..k |-> IF n = 0 THEN GitStart
                                           ELSE GitLine(f[n - 1], lines[n], dir)]
           Good(k) == \E f : Is(f, k)
           Bad == {k \in 0..N : ~Good(k)}
           after == CHOOSE f : Is(f, N)
<1>1. N \in Nat
  OBVIOUS
<1> HIDE DEF N
<1>2. Good(0)
  <2>1. Is([n \in 0..0 |-> GitStart], 0)
    OBVIOUS
  <2> QED
    BY <2>1
<1>3. ASSUME NEW k \in 1..N, Good(k - 1) PROVE Good(k)
  <2>1. k \in Nat /\ k - 1 \in Nat
    BY <1>1
  <2>2. PICK f : Is(f, k - 1)
    BY <1>3
  <2> DEFINE g == [n \in 0..k |-> IF n = k THEN GitLine(f[k - 1], lines[k], dir) ELSE f[n]]
  <2>3. ASSUME NEW n \in 0..k
        PROVE  g[n] = IF n = 0 THEN GitStart ELSE GitLine(g[n - 1], lines[n], dir)
    <3>1. CASE n = 0
      BY <2>1, <2>2, <3>1
    <3>2. CASE n \in 1..k - 1
      BY <2>1, <2>2, <3>2
    <3>3. CASE n = k
      BY <2>1, <2>2, <3>3
    <3> QED
      BY <2>1, <3>1, <3>2, <3>3
  <2>4. Is(g, k)
    BY <2>3
  <2> QED
    BY <2>4
<1>4. Good(N)
  <2> HIDE DEF Good
  <2> SUFFICES ASSUME Bad # {} PROVE FALSE
    BY <1>1
  <2>1. Bad \in SUBSET Nat
    BY <1>1
  <2> HIDE DEF Bad
  <2>2. PICK k \in Bad : \A m \in Bad : k <= m
    BY <2>1, LeastOf
  <2> USE DEF Bad
  <2>3. k \in 1..N /\ k - 1 \notin Bad /\ k - 1 \in 0..N
    BY <1>1, <1>2, <2>2
  <2> QED
    BY <1>3, <2>2, <2>3
<1>5. Is(after, N)
  <2> HIDE DEF Is
  <2> QED
    BY <1>4
<1>6. GitRead(lines, dir) = after[N]
  BY DEF GitRead, N
<1> HIDE DEF after
<1>7. after[0] = GitStart
  BY <1>1, <1>5
<1>8. GitSteps(after, lines, dir)
  BY <1>1, <1>5 DEF GitSteps, N
<1> QED
  BY <1>6, <1>7, <1>8 DEF N

\* What comes of some lines depends on what came before only through the state
\* in which it left the loop.
LEMMA GitReadsOn ==
    ASSUME NEW S, NEW x \in Seq(S), NEW y \in Seq(S), NEW dir
    PROVE  \E g : /\ g[0] = GitRead(x, dir) /\ GitSteps(g, y, dir)
                  /\ g[Len(y)] = GitRead(x \o y, dir)
<1> DEFINE z == x \o y
           M == Len(x)
           N == Len(y)
<1>1. /\ M \in Nat /\ N \in Nat /\ z \in Seq(S) /\ Len(z) = M + N
      /\ \A n \in 1..M : z[n] = x[n]
      /\ \A n \in 1..N : z[M + n] = y[n]
  OBVIOUS
<1>2. PICK f : f[0] = GitStart /\ GitSteps(f, x, dir) /\ f[M] = GitRead(x, dir)
  BY GitReads
<1> HIDE DEF z
<1>3. PICK h : h[0] = GitStart /\ GitSteps(h, z, dir) /\ h[M + N] = GitRead(z, dir)
  <2>1. \E h : h[0] = GitStart /\ GitSteps(h, z, dir) /\ h[Len(z)] = GitRead(z, dir)
    BY <1>1, GitReads
  <2> QED
    BY <1>1, <2>1
<1> HIDE DEF M, N
<1>4. \A n \in 0..M : h[n] = f[n]
  <2> DEFINE Bad == {n \in 0..M : h[n] # f[n]}
  <2> SUFFICES ASSUME Bad # {} PROVE FALSE
    OBVIOUS
  <2>1. Bad \in SUBSET Nat
    BY <1>1
  <2> HIDE DEF Bad
  <2>2. PICK n \in Bad : \A m \in Bad : n <= m
    BY <2>1, LeastOf
  <2> USE DEF Bad
  <2>3. n \in 1..M /\ n - 1 \in 0..M /\ n - 1 \notin Bad
    BY <1>1, <1>2, <1>3, <2>2
  <2>4. f[n] = GitLine(f[n - 1], x[n], dir)
    BY <1>2, <2>3 DEF GitSteps, M
  <2>5. h[n] = GitLine(h[n - 1], z[n], dir)
    BY <1>1, <1>3, <2>3 DEF GitSteps
  <2> QED
    BY <1>1, <2>2, <2>3, <2>4, <2>5
<1> DEFINE g == [n \in 0..N |-> h[M + n]]
<1>5. g[0] = GitRead(x, dir) /\ g[N] = GitRead(z, dir)
  BY <1>1, <1>2, <1>3, <1>4, SMTT(30)
<1>6. ASSUME NEW n \in 1..N PROVE g[n] = GitLine(g[n - 1], y[n], dir)
  <2>1. M + n \in 1..Len(z) /\ M + n - 1 = M + (n - 1) /\ n - 1 \in 0..N /\ n \in 0..N
    BY <1>1
  <2>2. h[M + n] = GitLine(h[M + n - 1], z[M + n], dir)
    BY <1>1, <1>3, <2>1 DEF GitSteps
  <2> QED
    BY <1>1, <2>1, <2>2
<1>7. GitSteps(g, y, dir)
  BY <1>6 DEF GitSteps, N
<1> QED
  BY <1>5, <1>7 DEF N, z

\* What the lines of a log say, and the lines.
Words == HeaderNames \cup {"author", "branch", "text"}
Lines == [kind : {"header", "text", "divider"}, name : Words \cup {Empty},
          text : Words \cup {Empty} \cup Nat \cup Commits]

\* What is not there is told apart from them.
LEMMA NotWords ==
    \A v \in {NULL, Empty} : v \notin Words /\ v \notin Nat /\ v \notin Commits
  BY FieldsAssumption, PrintedAssumption DEF Words

\* What is read of a commit before its message, and all of it.
GitFields(c) == header(header(header(NoEntry, "commit", c), "Author", "author"), "Date", 1)
GitMessage == <<"text", Empty>>
GitEntry(c, dir) ==
    [header(header(GitFields(c), "branch nick", dir), "message", GitMessage) EXCEPT !.revno = -1]

\* Its lines.
LEMMA GitLines ==
    ASSUME NEW c \in Commits, NEW without
    PROVE  LET y == GitPrinted(Printed(c, without))
           IN  /\ y \in Seq(Lines)
               /\ Len(y) = IF c \in without THEN 4 ELSE 6
               /\ y[1] = Header("commit", c) /\ y[2] = Header("Author", "author")
               /\ y[3] = Header("Date", 1) /\ y[4] = Blank
               /\ c \notin without => y[5] = Text("text") /\ y[6] = Blank
<1> DEFINE p == Printed(c, without)
           head == <<Header("commit", c), Header("Author", "author"), Header("Date", 1), Blank>>
           body == [n \in DOMAIN p.message |-> Text(p.message[n])]
<1>1. /\ p.id = c /\ p.author = "author" /\ p.date = 1 /\ p.note = Empty
      /\ p.message = IF c \in without THEN <<>> ELSE <<"text">>
  BY DEF Printed
<1>2. /\ Blank \in Lines /\ Text("text") \in Lines /\ Header("commit", c) \in Lines
      /\ Header("Author", "author") \in Lines /\ Header("Date", 1) \in Lines
  <2>1. Blank \in Lines
    BY DEF Blank, Line, Lines
  <2>2. Text("text") \in Lines
    BY DEF Text, Line, Lines, Words, HeaderNames
  <2>3. Header("commit", c) \in Lines
    BY DEF Header, Line, Lines, Words, HeaderNames
  <2>4. Header("Author", "author") \in Lines
    BY DEF Header, Line, Lines, Words, HeaderNames
  <2>5. Header("Date", 1) \in Lines
    BY DEF Header, Line, Lines, Words, HeaderNames
  <2> QED
    BY <2>1, <2>2, <2>3, <2>4, <2>5
<1>3. head \in Seq(Lines) /\ <<Blank>> \in Seq(Lines) /\ <<>> \in Seq(Lines)
  <2>1. \A a, b, d, e \in Lines : <<a, b, d, e>> \in Seq(Lines) /\ <<e>> \in Seq(Lines)
    OBVIOUS
  <2> QED
    BY <1>2, <2>1
<1>4. GitPrinted(p) = head \o body \o <<>> \o (IF p.message = <<>> THEN <<>> ELSE <<Blank>>)
  BY <1>1 DEF GitPrinted
<1>5. CASE c \in without
  <2>1. body = <<>>
    BY <1>1, <1>5
  <2>2. GitPrinted(p) = head
    <3> HIDE DEF head
    <3> QED
      BY <1>1, <1>3, <1>4, <1>5, <2>1
  <2> QED
    BY <1>3, <1>5, <2>2
<1>6. CASE c \notin without
  <2>1. body = <<Text("text")>>
    BY <1>1, <1>6
  <2>2. GitPrinted(p) = head \o <<Text("text")>> \o <<>> \o <<Blank>>
    BY <1>1, <1>4, <1>6, <2>1
  <2>3. <<Text("text")>> \in Seq(Lines)
    BY <1>2
  <2>4. /\ head \o <<Text("text")>> \in Seq(Lines)
        /\ head \o <<Text("text")>> \o <<>> = head \o <<Text("text")>>
        /\ GitPrinted(p) \in Seq(Lines)
        /\ Len(GitPrinted(p)) = 6
    <3> HIDE DEF head
    <3>1. Len(head) = 4
      BY DEF head
    <3>2. \A s \in Seq(Lines) : s \o <<>> = s
      OBVIOUS
    <3>3. \A s, t \in Seq(Lines) : s \o t \in Seq(Lines) /\ Len(s \o t) = Len(s) + Len(t)
      OBVIOUS
    <3>4. /\ head \o <<Text("text")>> \in Seq(Lines)
          /\ Len(head \o <<Text("text")>>) = 5
      <4>1. ASSUME NEW s \in Seq(Lines), NEW x \in Lines, Len(s) = 4
            PROVE  s \o <<x>> \in Seq(Lines) /\ Len(s \o <<x>>) = 5
        <5>1. s \o <<x>> = Append(s, x)
          BY AppendIsConcat
        <5>2. Append(s, x) \in Seq(Lines) /\ Len(Append(s, x)) = Len(s) + 1
          BY AppendProperties
        <5> QED
          BY <4>1, <5>1, <5>2
      <4>2. head \in Seq(Lines) /\ Text("text") \in Lines
        BY <1>2, <1>3
      <4> QED
        BY <3>1, <4>1, <4>2
    <3> QED
      BY <1>3, <2>2, <2>3, <3>2, <3>3, <3>4
  <2> QED
    BY <1>3, <1>6, <2>2, <2>3, <2>4
<1> QED
  BY <1>5, <1>6

\* Both keep the ID.
LEMMA GitKeepsID ==
    ASSUME NEW c \in Commits, NEW dir
    PROVE  /\ GitFields(c).commitid = c /\ c # NULL
           /\ header(header(GitFields(c), "branch nick", dir), "message", GitMessage).commitid = c
           /\ GitEntry(c, dir).commitid = c
<1>1. c # NULL
  BY NotWords
<1>2. GitFields(c) = [NoEntry EXCEPT !.commitid = c, !.committer = "author", !.timestamp = 1]
  BY DEF GitFields, header, NoEntry
<1> QED
  BY <1>1, <1>2 DEF GitEntry, header, NoEntry

\* The state of the loop.
GitAt(s, state, l, message, entries) ==
    /\ DOMAIN s = {"state", "l", "message", "entries"}
    /\ s.state = state /\ s.l = l /\ s.message = message /\ s.entries = entries

\* How the steps of the loop change it.
LEMMA GitAtSteps ==
    ASSUME NEW s, NEW z, NEW l, NEW m, NEW e, GitAt(s, z, l, m, e), NEW line, NEW dir, NEW why
    PROVE  /\ GitAt(CollectHeader(s, line), "header", header(l, line.name, line.text), m, e)
           /\ GitAt(Comment(s, line), "comment", l,
                    IF m = NULL THEN IF line = Blank THEN NULL ELSE <<line.text>>
                    ELSE Append(m, line.text), e)
           /\ GitAt(Failed(s, why), "failed", l, m, Append(e, [NoEntry EXCEPT !.commitid = why]))
           /\ LET all == header(header(l, "branch nick", dir), "message", m)
              IN all.commitid # NULL =>
                     GitAt(Complete(s, dir), z, NoEntry, NULL,
                           Append(e, [all EXCEPT !.revno = -1]))
<1>1. GitAt(CollectHeader(s, line), "header", header(l, line.name, line.text), m, e)
  BY DEF CollectHeader, GitAt
<1>2. GitAt(Comment(s, line), "comment", l,
            IF m = NULL THEN IF line = Blank THEN NULL ELSE <<line.text>>
            ELSE Append(m, line.text), e)
  BY DEF Comment, GitAt
<1>3. GitAt(Failed(s, why), "failed", l, m, Append(e, [NoEntry EXCEPT !.commitid = why]))
  BY DEF Failed, GitAt
<1> DEFINE all == header(header(l, "branch nick", dir), "message", m)
<1>4. ASSUME all.commitid # NULL
      PROVE  GitAt(Complete(s, dir), z, NoEntry, NULL, Append(e, [all EXCEPT !.revno = -1]))
  BY <1>4 DEF Complete, GitAt
<1> QED
  BY <1>1, <1>2, <1>3, <1>4

\* The loop at a commit of which it has read the ID, all the headers, or also
\* the message, and when it has given up; e is what it has read before.
Begins(s, c, e) == GitAt(s, "header", header(NoEntry, "commit", c), NULL, e)
Unsaid(s, c, e) == GitAt(s, "comment", GitFields(c), NULL, e)
Said(s, c, e)   == GitAt(s, "comment", GitFields(c), GitMessage, e)
Ended(s, e)     ==
    s.state = "failed" /\ s.entries = Append(e, [NoEntry EXCEPT !.commitid = Assertion])

\* A message of one line.
LEMMA PairOf ==
    ASSUME NEW x, NEW y
    PROVE  Append(<<x>>, y) = <<x, y>>
<1> DEFINE S == {x, y}
           s == Append(<<x>>, y)
           t == <<x, y>>
<1>1. <<x>> \in Seq(S) /\ t \in Seq(S) /\ Len(<<x>>) = 1 /\ <<x>>[1] = x
  OBVIOUS
<1>2. s \in Seq(S) /\ Len(s) = 2 /\ s[1] = x /\ s[2] = y
  <2>1. y \in S
    OBVIOUS
  <2> HIDE DEF S
  <2> QED
    BY <1>1, <2>1, AppendProperties
<1>3. Len(t) = 2 /\ t[1] = x /\ t[2] = y
  OBVIOUS
<1> HIDE DEF s, t, S
<1>4. \A i \in 1..2 : s[i] = t[i]
  BY <1>2, <1>3
<1>5. s = t
  BY <1>1, <1>2, <1>3, <1>4, SeqEqual
<1> QED
  BY <1>5 DEF s, t

\* It is there.
LEMMA HasMessage ==
    /\ GitMessage # NULL /\ <<"text">> # NULL
    /\ Append(<<"text">>, Empty) = GitMessage
<1>1. GitMessage \in Seq({"text", Empty}) /\ <<"text">> \in Seq({"text", Empty})
  BY DEF GitMessage
<1>2. Append(<<"text">>, Empty) = GitMessage
  BY PairOf DEF GitMessage
<1> QED
  BY <1>1, <1>2, PrintedAssumption

\* A commit ID completes the commit before it, if that has a message.
LEMMA GitNextCommit ==
    ASSUME NEW s, NEW b \in Commits, NEW c, NEW e, NEW dir
    PROVE  LET t == GitLine(s, Header("commit", c), dir)
           IN  /\ s = GitStart => Begins(t, c, <<>>)
               /\ Said(s, b, e) => Begins(t, c, Append(e, GitEntry(b, dir)))
               /\ Unsaid(s, b, e) => Ended(t, e)
<1> DEFINE line == Header("commit", c)
           t == GitLine(s, line, dir)
<1>1. line.kind = "header" /\ line.name = "commit" /\ line.text = c
  BY DEF Header, Line
<1> HIDE DEF line
<1>2. ASSUME s = GitStart PROVE Begins(t, c, <<>>)
  <2>1. GitAt(s, "initial", NoEntry, NULL, <<>>)
    BY <1>2 DEF GitStart, GitAt
  <2>2. t = CollectHeader(s, line)
    BY <1>1, <2>1 DEF GitLine, GitAt
  <2> QED
    BY <1>1, <2>1, <2>2, GitAtSteps DEF Begins
<1>3. ASSUME Said(s, b, e) PROVE Begins(t, c, Append(e, GitEntry(b, dir)))
  <2>1. t = CollectHeader(Complete(s, dir), line)
    <3>1. s.state = "comment" /\ s.message # NULL
      BY <1>3, HasMessage DEF GitAt, Said
    <3> QED
      BY <1>1, <3>1 DEF GitLine
  <2>2. GitAt(Complete(s, dir), "comment", NoEntry, NULL, Append(e, GitEntry(b, dir)))
    BY <1>3, GitKeepsID, GitAtSteps DEF Said, GitEntry
  <2> QED
    BY <1>1, <2>1, <2>2, GitAtSteps DEF Begins
<1>4. ASSUME Unsaid(s, b, e) PROVE Ended(t, e)
  <2>1. t = Failed(s, Assertion)
    BY <1>1, <1>4 DEF GitLine, GitAt, Unsaid
  <2>2. GitAt(Failed(s, Assertion), "failed", GitFields(b), NULL,
              Append(e, [NoEntry EXCEPT !.commitid = Assertion]))
    BY <1>4, GitAtSteps DEF Unsaid
  <2> QED
    BY <2>1, <2>2 DEF Ended, GitAt
<1> QED
  BY <1>2, <1>3, <1>4 DEF line

\* Then come the other headers, and the message.
LEMMA GitNextLines ==
    ASSUME NEW c \in Commits, NEW e, NEW dir, NEW without, NEW g,
           GitSteps(g, GitPrinted(Printed(c, without)), dir), Begins(g[1], c, e)
    PROVE  LET last == g[Len(GitPrinted(Printed(c, without)))]
           IN  IF c \in without THEN Unsaid(last, c, e) ELSE Said(last, c, e)
<1> DEFINE y == GitPrinted(Printed(c, without))
<1>1. /\ y[2] = Header("Author", "author") /\ y[3] = Header("Date", 1) /\ y[4] = Blank
      /\ Len(y) = IF c \in without THEN 4 ELSE 6
      /\ c \notin without => y[5] = Text("text") /\ y[6] = Blank
  BY GitLines
<1>2. GitSteps(g, y, dir) /\ Begins(g[1], c, e)
  OBVIOUS
<1> HIDE DEF y
<1>3. /\ g[2] = GitLine(g[1], y[2], dir) /\ g[3] = GitLine(g[2], y[3], dir)
      /\ g[4] = GitLine(g[3], y[4], dir)
  <2>1. 2 \in 1..Len(y) /\ 3 \in 1..Len(y) /\ 4 \in 1..Len(y)
    BY <1>1
  <2>2. g[2] = GitLine(g[2 - 1], y[2], dir) /\ g[3] = GitLine(g[3 - 1], y[3], dir)
        /\ g[4] = GitLine(g[4 - 1], y[4], dir)
    BY <1>2, <2>1 DEF GitSteps
  <2> QED
    BY <2>2
<1>4. ASSUME NEW s, NEW l, NEW name, NEW text, GitAt(s, "header", l, NULL, e)
      PROVE  GitAt(GitLine(s, Header(name, text), dir), "header", header(l, name, text), NULL, e)
  <2> DEFINE line == Header(name, text)
  <2>1. line.kind = "header" /\ line.name = name /\ line.text = text
    BY DEF Header, Line
  <2> HIDE DEF line
  <2>2. GitLine(s, line, dir) = CollectHeader(s, line)
    BY <1>4, <2>1 DEF GitLine, GitAt
  <2>3. GitAt(GitLine(s, line, dir), "header", header(l, name, text), NULL, e)
    BY <1>4, <2>1, <2>2, GitAtSteps
  <2> QED
    BY <2>3 DEF line
<1>5. GitAt(g[3], "header", GitFields(c), NULL, e)
  <2>1. GitAt(g[2], "header", header(header(NoEntry, "commit", c), "Author", "author"), NULL, e)
    BY <1>1, <1>2, <1>3, <1>4 DEF Begins
  <2> QED
    BY <1>1, <1>3, <1>4, <2>1 DEF GitFields
<1>6. ASSUME NEW s, NEW z \in {"header", "comment"}, NEW m, GitAt(s, z, GitFields(c), m, e),
             NEW text
      PROVE  GitAt(GitLine(s, Text(text), dir), "comment", GitFields(c),
                   IF m = NULL THEN IF Text(text) = Blank THEN NULL ELSE <<text>>
                   ELSE Append(m, text), e)
  <2> DEFINE line == Text(text)
  <2>1. line.kind = "text" /\ line.text = text
    BY DEF Text, Line
  <2> HIDE DEF line
  <2>2. GitLine(s, line, dir) = Comment(s, line)
    BY <1>6, <2>1 DEF GitLine, GitAt
  <2>3. GitAt(Comment(s, line), "comment", GitFields(c),
              IF m = NULL THEN IF line = Blank THEN NULL ELSE <<line.text>>
              ELSE Append(m, line.text), e)
    BY <1>6, GitAtSteps
  <2> QED
    BY <2>1, <2>2, <2>3 DEF line
<1>7. Blank = Text(Empty)
  BY DEF Blank, Text
<1>8. Unsaid(g[4], c, e)
  <2>1. GitAt(g[4], "comment", GitFields(c),
              IF NULL = NULL THEN IF Text(Empty) = Blank THEN NULL ELSE <<Empty>>
              ELSE Append(NULL, Empty), e)
    BY <1>1, <1>3, <1>5, <1>6, <1>7
  <2> QED
    BY <1>7, <2>1 DEF Unsaid
<1>9. CASE c \in without
  BY <1>1, <1>8, <1>9 DEF y
<1>10. CASE c \notin without
  <2>1. 5 \in 1..Len(y) /\ 6 \in 1..Len(y)
    BY <1>1, <1>10
  <2>2. g[5] = GitLine(g[5 - 1], y[5], dir) /\ g[6] = GitLine(g[6 - 1], y[6], dir)
    BY <1>2, <2>1 DEF GitSteps
  <2>3. g[5] = GitLine(g[4], Text("text"), dir) /\ g[6] = GitLine(g[5], Text(Empty), dir)
    BY <1>1, <1>7, <1>10, <2>2
  <2>4. Text("text") # Blank
    BY NotWords DEF Text, Blank, Line, Words
  <2>5. GitAt(g[5], "comment", GitFields(c), <<"text">>, e)
    <3>1. GitAt(g[5], "comment", GitFields(c),
                IF NULL = NULL THEN IF Text("text") = Blank THEN NULL ELSE <<"text">>
                ELSE Append(NULL, "text"), e)
      <4>1. GitAt(g[4], "comment", GitFields(c), NULL, e)
        BY <1>8 DEF Unsaid
      <4> QED
        BY <1>6, <2>3, <4>1
    <3> QED
      BY <2>4, <3>1
  <2>6. Said(g[6], c, e)
    <3>1. Append(<<"text">>, Empty) = GitMessage
      BY HasMessage
    <3> DEFINE m == <<"text">>
    <3>2. m # NULL /\ Append(m, Empty) = GitMessage /\ GitAt(g[5], "comment", GitFields(c), m, e)
      BY <2>5, <3>1, HasMessage
    <3> HIDE DEF m
    <3>3. GitAt(g[6], "comment", GitFields(c),
                IF m = NULL THEN IF Text(Empty) = Blank THEN NULL ELSE <<Empty>>
                ELSE Append(m, Empty), e)
      BY <1>6, <2>3, <3>2
    <3>4. GitAt(g[6], "comment", GitFields(c), Append(m, Empty), e)
      BY <3>2, <3>3
    <3> QED
      BY <3>2, <3>4 DEF Said
  <2> QED
    BY <1>1, <1>10, <2>6 DEF y
<1> QED
  BY <1>9, <1>10

\* When the loop has given up it does nothing more.
LEMMA GitStaysEnded ==
    ASSUME NEW g, NEW S, NEW y \in Seq(S), NEW dir, GitSteps(g, y, dir), g[0].state = "failed"
    PROVE  g[Len(y)] = g[0]
<1> DEFINE Bad == {n \in 0..Len(y) : g[n] # g[0]}
<1> SUFFICES ASSUME Bad # {} PROVE FALSE
  OBVIOUS
<1>1. Bad \in SUBSET Nat
  OBVIOUS
<1> HIDE DEF Bad
<1>2. PICK n \in Bad : \A m \in Bad : n <= m
  BY <1>1, LeastOf
<1> USE DEF Bad
<1>3. n \in 1..Len(y) /\ n - 1 \in 0..Len(y) /\ n - 1 \notin Bad
  BY <1>2
<1>4. g[n] = GitLine(g[n - 1], y[n], dir) /\ g[n - 1] = g[0]
  BY <1>3 DEF GitSteps
<1>5. g[n] = g[0]
  BY <1>4 DEF GitLine
<1> QED
  BY <1>2, <1>5

\* The entries of the first k commits of a log.
GitOf(ids, k, dir) == [i \in 1..k |-> GitEntry(ids[i], dir)]
NoMessage == [NoEntry EXCEPT !.commitid = Assertion]

\* A sequence that is given by its elements, and one element more.
LEMMA OneMore ==
    ASSUME NEW F, NEW k \in Nat, k > 0
    PROVE  Append([i \in 1..k - 1 |-> F[i]], F[k]) = [i \in 1..k |-> F[i]]
<1> DEFINE S == {F[i] : i \in 1..k}
           s == [i \in 1..k - 1 |-> F[i]]
           t == [i \in 1..k |-> F[i]]
           a == Append(s, F[k])
<1>1. s \in Seq(S) /\ t \in Seq(S) /\ F[k] \in S /\ Len(s) = k - 1 /\ Len(t) = k
  OBVIOUS
<1>2. (\A i \in 1..k - 1 : s[i] = F[i]) /\ (\A i \in 1..k : t[i] = F[i])
  OBVIOUS
<1> HIDE DEF S, s, t
<1>3. /\ a \in Seq(S) /\ Len(a) = k /\ a[k] = F[k]
      /\ \A i \in 1..k - 1 : a[i] = s[i]
  BY <1>1, AppendProperties
<1> HIDE DEF a
<1>4. \A i \in 1..k : a[i] = t[i]
  BY <1>2, <1>3
<1>5. a = t
  BY <1>1, <1>3, <1>4, SeqEqual
<1> QED
  BY <1>5 DEF s, t, a

\* One commit more.
LEMMA GitOfOneMore ==
    ASSUME NEW ids, NEW k \in Nat, k > 0, NEW dir
    PROVE  Append(GitOf(ids, k - 1, dir), GitEntry(ids[k], dir)) = GitOf(ids, k, dir)
<1> DEFINE F == [i \in 1..k |-> GitEntry(ids[i], dir)]
<1>1. /\ GitOf(ids, k, dir) = [i \in 1..k |-> F[i]]
      /\ GitOf(ids, k - 1, dir) = [i \in 1..k - 1 |-> F[i]]
      /\ F[k] = GitEntry(ids[k], dir)
  BY DEF GitOf
<1> HIDE DEF F
<1> QED
  BY <1>1, OneMore

\* Where the loop is behind the first k commits of a log, of which those of
\* without have no message.
GitBehind(s, ids, k, without, dir) ==
    \/ k = 0 /\ s = GitStart
    \/ /\ k > 0 /\ \A i \in 1..k : ids[i] \notin without
       /\ Said(s, ids[k], GitOf(ids, k - 1, dir))
    \/ /\ k > 0 /\ ids[k] \in without /\ \A i \in 1..k - 1 : ids[i] \notin without
       /\ Unsaid(s, ids[k], GitOf(ids, k - 1, dir))
    \/ \E m \in 1..k - 1 :
          /\ ids[m] \in without /\ \A i \in 1..m - 1 : ids[i] \notin without
          /\ Ended(s, GitOf(ids, m - 1, dir))

\* One commit more.
LEMMA GitBehindNext ==
    ASSUME NEW ids, NEW k \in Nat, k > 0, \A i \in 1..k : ids[i] \in Commits,
           NEW without, NEW dir, NEW g,
           GitBehind(g[0], ids, k - 1, without, dir),
           GitSteps(g, GitPrinted(Printed(ids[k], without)), dir)
    PROVE  GitBehind(g[Len(GitPrinted(Printed(ids[k], without)))], ids, k, without, dir)
<1> DEFINE y == GitPrinted(Printed(ids[k], without))
           t == g[Len(y)]
           E(j) == GitOf(ids, j, dir)
<1>c. ids[k] \in Commits
  OBVIOUS
<1>1. y \in Seq(Lines) /\ y[1] = Header("commit", ids[k]) /\ Len(y) \in {4, 6}
  <2>1. y \in Seq(Lines)
    BY <1>c, GitLines
  <2>2. y[1] = Header("commit", ids[k])
    BY <1>c, GitLines
  <2>3. Len(y) = IF ids[k] \in without THEN 4 ELSE 6
    <3>1. ASSUME NEW c \in Commits
          PROVE  Len(GitPrinted(Printed(c, without))) = IF c \in without THEN 4 ELSE 6
      BY GitLines
    <3> QED
      BY <1>c, <3>1
  <2> HIDE DEF y
  <2> QED
    BY <2>1, <2>2, <2>3
<1>2. GitSteps(g, y, dir)
  OBVIOUS
<1>3. g[1] = GitLine(g[0], Header("commit", ids[k]), dir)
  <2>1. 1 \in 1..Len(y) /\ 1 - 1 = 0
    BY <1>1
  <2> HIDE DEF y
  <2>2. g[1] = GitLine(g[1 - 1], y[1], dir)
    BY <1>2, <2>1 DEF GitSteps
  <2> QED
    BY <1>1, <2>2
<1>4. ASSUME Begins(g[1], ids[k], E(k - 1)), \A i \in 1..k - 1 : ids[i] \notin without
      PROVE  GitBehind(t, ids, k, without, dir)
  <2>1. IF ids[k] \in without THEN Unsaid(t, ids[k], E(k - 1)) ELSE Said(t, ids[k], E(k - 1))
    BY <1>c, <1>4, GitNextLines
  <2> HIDE DEF y, t
  <2>2. CASE ids[k] \in without
    BY <1>4, <2>1, <2>2 DEF GitBehind
  <2>3. CASE ids[k] \notin without
    <3>1. \A i \in 1..k : ids[i] \notin without
      BY <1>4, <2>3
    <3> QED
      BY <2>1, <2>3, <3>1 DEF GitBehind
  <2> QED
    BY <2>2, <2>3
<1>5. CASE k - 1 = 0 /\ g[0] = GitStart
  <2>1. Begins(g[1], ids[k], <<>>)
    BY <1>c, <1>3, <1>5, GitNextCommit
  <2>2. E(k - 1) = <<>>
    BY <1>5 DEF GitOf
  <2> QED
    BY <1>4, <1>5, <2>1, <2>2
<1>6. CASE /\ k - 1 > 0 /\ \A i \in 1..k - 1 : ids[i] \notin without
           /\ Said(g[0], ids[k - 1], GitOf(ids, k - 1 - 1, dir))
  <2>1. k - 1 \in Nat /\ ids[k - 1] \in Commits
    BY <1>6
  <2>2. Append(GitOf(ids, k - 1 - 1, dir), GitEntry(ids[k - 1], dir)) = E(k - 1)
    BY <1>6, <2>1, GitOfOneMore
  <2>3. Begins(g[1], ids[k], E(k - 1))
    BY <1>c, <1>3, <1>6, <2>1, <2>2, GitNextCommit
  <2> QED
    BY <1>4, <1>6, <2>3
<1>7. ASSUME NEW m \in 1..k - 1, ids[m] \in without, \A i \in 1..m - 1 : ids[i] \notin without,
             Ended(t, E(m - 1))
      PROVE  GitBehind(t, ids, k, without, dir)
  <2> HIDE DEF y, t
  <2> QED
    BY <1>7 DEF GitBehind
<1>8. CASE /\ k - 1 > 0 /\ ids[k - 1] \in without
           /\ \A i \in 1..k - 1 - 1 : ids[i] \notin without
           /\ Unsaid(g[0], ids[k - 1], GitOf(ids, k - 1 - 1, dir))
  <2>1. k - 1 \in 1..k - 1 /\ ids[k - 1] \in Commits
    BY <1>8
  <2>2. Ended(g[1], E(k - 1 - 1))
    BY <1>c, <1>3, <1>8, <2>1, GitNextCommit
  <2>3. t = g[1]
    <3> DEFINE z == Tail(y)
               h == [n \in 0..Len(z) |-> g[n + 1]]
    <3>1. z \in Seq(Lines) /\ Len(z) = Len(y) - 1 /\ \A n \in 1..Len(z) : z[n] = y[n + 1]
      <4> HIDE DEF y
      <4>1. y # <<>>
        BY <1>1
      <4> QED
        BY <1>1, <4>1, HeadTailProperties
    <3> HIDE DEF z, y
    <3>2. ASSUME NEW n \in 1..Len(z) PROVE h[n] = GitLine(h[n - 1], z[n], dir)
      <4>1. n + 1 \in 1..Len(y) /\ n - 1 \in 0..Len(z) /\ n \in 0..Len(z) /\ n - 1 + 1 = n + 1 - 1
        BY <1>1, <3>1
      <4>2. g[n + 1] = GitLine(g[n + 1 - 1], y[n + 1], dir)
        BY <1>1, <1>2, <4>1, SMTT(30) DEF GitSteps
      <4> QED
        BY <3>1, <4>1, <4>2
    <3>3. GitSteps(h, z, dir)
      BY <3>2 DEF GitSteps
    <3>4. h[0] = g[1] /\ h[Len(z)] = g[Len(y)]
      BY <1>1, <3>1
    <3>5. h[0].state = "failed"
      BY <2>2, <3>4 DEF Ended
    <3> HIDE DEF h
    <3>6. h[Len(z)] = h[0]
      BY <3>1, <3>3, <3>5, GitStaysEnded
    <3> QED
      BY <3>4, <3>6
  <2> QED
    BY <1>7, <1>8, <2>1, <2>2, <2>3
<1>9. CASE \E m \in 1..k - 1 - 1 :
              /\ ids[m] \in without /\ \A i \in 1..m - 1 : ids[i] \notin without
              /\ Ended(g[0], GitOf(ids, m - 1, dir))
  <2>1. PICK m \in 1..k - 1 - 1 :
              /\ ids[m] \in without /\ \A i \in 1..m - 1 : ids[i] \notin without
              /\ Ended(g[0], GitOf(ids, m - 1, dir))
    BY <1>9
  <2>2. g[0].state = "failed"
    BY <2>1 DEF Ended
  <2>3. t = g[0]
    <3> HIDE DEF y
    <3> QED
      BY <1>1, <1>2, <2>2, GitStaysEnded
  <2>4. m \in 1..k - 1
    OBVIOUS
  <2> QED
    BY <1>7, <2>1, <2>3, <2>4
<1> QED
  BY <1>5, <1>6, <1>8, <1>9 DEF GitBehind

\* What `git log' prints of the first n commits.
GitPages(ids, n, without) == [i \in 1..n |-> GitPrinted(Printed(ids[i], without))]

\* The loop behind such a log.
LEMMA GitBehindLog ==
    ASSUME NEW ids \in Seq(Commits), NEW n \in 0..Len(ids), NEW without, NEW dir
    PROVE  GitBehind(GitRead(FlattenSeq(GitPages(ids, n, without)), dir), ids, n, without, dir)
<1> DEFINE pages == GitPages(ids, n, without)
<1>r. \A x, y \in Seq(Lines) :
          \E g : /\ g[0] = GitRead(x, dir) /\ GitSteps(g, y, dir)
                 /\ g[Len(y)] = GitRead(x \o y, dir)
  BY GitReadsOn
<1>1. n \in Nat /\ \A i \in 1..n : ids[i] \in Commits
  OBVIOUS
<1>2. /\ pages \in Seq(Seq(Lines)) /\ Len(pages) = n
      /\ \A i \in 1..n : pages[i] = GitPrinted(Printed(ids[i], without))
  <2>1. \A i \in 1..n : GitPrinted(Printed(ids[i], without)) \in Seq(Lines)
    BY <1>1, GitLines
  <2> QED
    BY <1>1, <2>1 DEF GitPages
<1> HIDE DEF pages
<1>3. PICK f \in [0..n -> Seq(Lines)] :
         /\ f[0] = <<>> /\ f[n] = FlattenSeq(pages)
         /\ \A i \in 1..n : f[i] = f[i - 1] \o pages[i]
  BY <1>2, FlattenSteps
<1> DEFINE Good(k) == GitBehind(GitRead(f[k], dir), ids, k, without, dir)
           Bad == {k \in 0..n : ~Good(k)}
<1>4. Good(0)
  <2>1. PICK g : g[0] = GitStart /\ g[Len(f[0])] = GitRead(f[0], dir)
    <3>1. f[0] \in Seq(Lines)
      BY <1>1, <1>3
    <3> QED
      BY <3>1, GitReads
  <2>2. Len(f[0]) = 0
    BY <1>3
  <2> QED
    BY <2>1, <2>2 DEF GitBehind
<1>5. ASSUME NEW k \in 1..n, Good(k - 1) PROVE Good(k)
  <2>1. f[k - 1] \in Seq(Lines) /\ pages[k] \in Seq(Lines) /\ f[k] = f[k - 1] \o pages[k]
    <3>1. k - 1 \in 0..n
      BY <1>1
    <3>2. pages[k] \in Seq(Lines)
      BY <1>2, ElementOfSeq
    <3> QED
      BY <1>3, <3>1, <3>2
  <2> DEFINE x == f[k - 1]
             y == pages[k]
  <2> HIDE DEF x, y
  <2>2. y = GitPrinted(Printed(ids[k], without))
    BY <1>2 DEF y
  <2>3. PICK g : /\ g[0] = GitRead(x, dir) /\ GitSteps(g, y, dir)
                 /\ g[Len(y)] = GitRead(x \o y, dir)
    <3>1. x \in Seq(Lines) /\ y \in Seq(Lines)
      BY <2>1 DEF x, y
    <3> QED
      BY <3>1, <1>r
  <2>4. k \in Nat /\ k > 0 /\ \A i \in 1..k : ids[i] \in Commits
    BY <1>1
  <2>5. GitBehind(g[0], ids, k - 1, without, dir)
    BY <1>5, <2>3 DEF x
  <2>6. GitBehind(g[Len(y)], ids, k, without, dir)
    BY <2>2, <2>3, <2>4, <2>5, GitBehindNext
  <2>7. f[k] = x \o y
    BY <2>1 DEF x, y
  <2> QED
    BY <2>3, <2>6, <2>7
<1>6. Good(n)
  <2> HIDE DEF Good
  <2> SUFFICES ASSUME Bad # {} PROVE FALSE
    BY <1>1, SMTT(30)
  <2>1. Bad \in SUBSET Nat
    BY <1>1
  <2> HIDE DEF Bad
  <2>2. PICK k \in Bad : \A m \in Bad : k <= m
    BY <2>1, LeastOf
  <2> USE DEF Bad
  <2>3. k \in 1..n /\ k - 1 \notin Bad /\ k - 1 \in 0..n
    BY <1>1, <1>4, <2>2
  <2> QED
    BY <1>5, <2>2, <2>3
<1> QED
  BY <1>3, <1>6 DEF pages

\* git2news reads a log up to the first commit without a message.
LEMMA GitLogRead ==
    ASSUME NEW ids \in Seq(Commits), NEW n \in 0..Len(ids), NEW without, NEW dir
    PROVE  LET entries == GitEntries(FlattenSeq(GitPages(ids, n, without)), dir)
           IN  \/ /\ \A i \in 1..n : ids[i] \notin without
                  /\ entries = GitOf(ids, n, dir)
               \/ \E m \in 1..n :
                     /\ ids[m] \in without /\ \A i \in 1..m - 1 : ids[i] \notin without
                     /\ entries = Append(GitOf(ids, m - 1, dir), NoMessage)
<1> DEFINE lines == FlattenSeq(GitPages(ids, n, without))
           last == GitRead(lines, dir)
           entries == GitEntries(lines, dir)
<1>1. GitBehind(last, ids, n, without, dir)
  BY GitBehindLog
<1>2. n \in Nat /\ \A i \in 1..n : ids[i] \in Commits
  OBVIOUS
<1>3. entries = IF last.state = "failed" \/ last.l.commitid = NULL THEN last.entries
                ELSE IF last.message = NULL THEN Failed(last, Assertion).entries
                ELSE Complete(last, dir).entries
  BY DEF GitEntries
<1> HIDE DEF lines, last, entries
<1>4. CASE n = 0 /\ last = GitStart
  <2>1. entries = <<>>
    BY <1>3, <1>4 DEF GitStart, NoEntry
  <2>2. GitOf(ids, n, dir) = <<>>
    BY <1>4 DEF GitOf
  <2> QED
    BY <1>4, <2>1, <2>2 DEF entries, lines
<1>5. CASE /\ n > 0 /\ \A i \in 1..n : ids[i] \notin without
           /\ Said(last, ids[n], GitOf(ids, n - 1, dir))
  <2>c. ids[n] \in Commits
    BY <1>2, <1>5
  <2>1. /\ last.state = "comment" /\ last.l = GitFields(ids[n]) /\ last.message = GitMessage
        /\ last.l.commitid # NULL /\ last.message # NULL
    BY <2>c, <1>5, GitKeepsID, HasMessage DEF Said, GitAt
  <2>2. entries = Complete(last, dir).entries
    BY <1>3, <2>1
  <2>3. GitAt(Complete(last, dir), "comment", NoEntry, NULL,
              Append(GitOf(ids, n - 1, dir), GitEntry(ids[n], dir)))
    BY <2>c, <1>5, GitKeepsID, GitAtSteps DEF Said, GitEntry
  <2>4. entries = GitOf(ids, n, dir)
    BY <1>2, <1>5, <2>2, <2>3, GitOfOneMore DEF GitAt
  <2> QED
    BY <1>5, <2>4 DEF entries, lines
<1>6. CASE /\ n > 0 /\ ids[n] \in without /\ \A i \in 1..n - 1 : ids[i] \notin without
           /\ Unsaid(last, ids[n], GitOf(ids, n - 1, dir))
  <2>c. ids[n] \in Commits
    BY <1>2, <1>6
  <2>1. /\ last.state = "comment" /\ last.l = GitFields(ids[n]) /\ last.message = NULL
        /\ last.l.commitid # NULL
    BY <2>c, <1>6, GitKeepsID DEF Unsaid, GitAt
  <2>2. entries = Failed(last, Assertion).entries
    BY <1>3, <2>1
  <2>3. GitAt(Failed(last, Assertion), "failed", GitFields(ids[n]), NULL,
              Append(GitOf(ids, n - 1, dir), NoMessage))
    BY <1>6, GitAtSteps DEF Unsaid, NoMessage
  <2>4. entries = Append(GitOf(ids, n - 1, dir), NoMessage)
    BY <2>2, <2>3 DEF GitAt
  <2>5. n \in 1..n
    BY <1>2, <1>6
  <2> QED
    BY <1>6, <2>4, <2>5 DEF entries, lines
<1>7. CASE \E m \in 1..n - 1 :
              /\ ids[m] \in without /\ \A i \in 1..m - 1 : ids[i] \notin without
              /\ Ended(last, GitOf(ids, m - 1, dir))
  <2>1. PICK m \in 1..n - 1 :
              /\ ids[m] \in without /\ \A i \in 1..m - 1 : ids[i] \notin without
              /\ Ended(last, GitOf(ids, m - 1, dir))
    BY <1>7
  <2>2. entries = Append(GitOf(ids, m - 1, dir), NoMessage)
    <3>1. last.state = "failed" /\ last.entries = Append(GitOf(ids, m - 1, dir), NoMessage)
      BY <2>1 DEF Ended, NoMessage
    <3> QED
      BY <1>3, <3>1
  <2>3. m \in 1..n
    BY <1>2
  <2> QED
    BY <2>1, <2>2, <2>3 DEF entries, lines
<1> QED
  BY <1>1, <1>4, <1>5, <1>6, <1>7 DEF GitBehind

-----------------------------------------------------------------------------
(* How bzr2news does *)

\* g has the states of read_bzr_log() from the first of lines on.
BzrSteps(g, lines) == \A n \in 1..Len(lines) : g[n] = BzrLine(g[n - 1], lines[n])

\* The loop of read_bzr_log() goes through states that follow one from
\* the other.
LEMMA BzrReads ==
    ASSUME NEW S, NEW lines \in Seq(S)
    PROVE  \E f : f[0] = BzrStart /\ BzrSteps(f, lines) /\ f[Len(lines)] = BzrRead(lines)
<1> DEFINE N == Len(lines)
           Is(f, k) == f = [n \in 0..k |-> IF n = 0 THEN BzrStart
                                           ELSE BzrLine(f[n - 1], lines[n])]
           Good(k) == \E f : Is(f, k)
           Bad == {k \in 0..N : ~Good(k)}
           after == CHOOSE f : Is(f, N)
<1>1. N \in Nat
  OBVIOUS
<1> HIDE DEF N
<1>2. Good(0)
  <2>1. Is([n \in 0..0 |-> BzrStart], 0)
    OBVIOUS
  <2> QED
    BY <2>1
<1>3. ASSUME NEW k \in 1..N, Good(k - 1) PROVE Good(k)
  <2>1. k \in Nat /\ k - 1 \in Nat
    BY <1>1
  <2>2. PICK f : Is(f, k - 1)
    BY <1>3
  <2> DEFINE g == [n \in 0..k |-> IF n = k THEN BzrLine(f[k - 1], lines[k]) ELSE f[n]]
  <2>3. ASSUME NEW n \in 0..k
        PROVE  g[n] = IF n = 0 THEN BzrStart ELSE BzrLine(g[n - 1], lines[n])
    <3>1. CASE n = 0
      BY <2>1, <2>2, <3>1
    <3>2. CASE n \in 1..k - 1
      BY <2>1, <2>2, <3>2
    <3>3. CASE n = k
      BY <2>1, <2>2, <3>3
    <3> QED
      BY <2>1, <3>1, <3>2, <3>3
  <2>4. Is(g, k)
    BY <2>3
  <2> QED
    BY <2>4
<1>4. Good(N)
  <2> HIDE DEF Good
  <2> SUFFICES ASSUME Bad # {} PROVE FALSE
    BY <1>1
  <2>1. Bad \in SUBSET Nat
    BY <1>1
  <2> HIDE DEF Bad
  <2>2. PICK k \in Bad : \A m \in Bad : k <= m
    BY <2>1, LeastOf
  <2> USE DEF Bad
  <2>3. k \in 1..N /\ k - 1 \notin Bad /\ k - 1 \in 0..N
    BY <1>1, <1>2, <2>2
  <2> QED
    BY <1>3, <2>2, <2>3
<1>5. Is(after, N)
  <2> HIDE DEF Is
  <2> QED
    BY <1>4
<1>6. BzrRead(lines) = after[N]
  BY DEF BzrRead, N
<1> HIDE DEF after
<1>7. after[0] = BzrStart
  BY <1>1, <1>5
<1>8. BzrSteps(after, lines)
  BY <1>1, <1>5 DEF BzrSteps, N
<1> QED
  BY <1>6, <1>7, <1>8 DEF N

\* What comes of some lines depends on what came before only through the state
\* in which it left the loop.
LEMMA BzrReadsOn ==
    ASSUME NEW S, NEW x \in Seq(S), NEW y \in Seq(S)
    PROVE  \E g : /\ g[0] = BzrRead(x) /\ BzrSteps(g, y)
                  /\ g[Len(y)] = BzrRead(x \o y)
<1> DEFINE z == x \o y
           M == Len(x)
           N == Len(y)
<1>1. /\ M \in Nat /\ N \in Nat /\ z \in Seq(S) /\ Len(z) = M + N
      /\ \A n \in 1..M : z[n] = x[n]
      /\ \A n \in 1..N : z[M + n] = y[n]
  OBVIOUS
<1>2. PICK f : f[0] = BzrStart /\ BzrSteps(f, x) /\ f[M] = BzrRead(x)
  BY BzrReads
<1> HIDE DEF z
<1>3. PICK h : h[0] = BzrStart /\ BzrSteps(h, z) /\ h[M + N] = BzrRead(z)
  <2>1. \E h : h[0] = BzrStart /\ BzrSteps(h, z) /\ h[Len(z)] = BzrRead(z)
    BY <1>1, BzrReads
  <2> QED
    BY <1>1, <2>1
<1> HIDE DEF M, N
<1>4. \A n \in 0..M : h[n] = f[n]
  <2> DEFINE Bad == {n \in 0..M : h[n] # f[n]}
  <2> SUFFICES ASSUME Bad # {} PROVE FALSE
    OBVIOUS
  <2>1. Bad \in SUBSET Nat
    BY <1>1
  <2> HIDE DEF Bad
  <2>2. PICK n \in Bad : \A m \in Bad : n <= m
    BY <2>1, LeastOf
  <2> USE DEF Bad
  <2>3. n \in 1..M /\ n - 1 \in 0..M /\ n - 1 \notin Bad
    BY <1>1, <1>2, <1>3, <2>2
  <2>4. f[n] = BzrLine(f[n - 1], x[n])
    BY <1>2, <2>3 DEF BzrSteps, M
  <2>5. h[n] = BzrLine(h[n - 1], z[n])
    BY <1>1, <1>3, <2>3 DEF BzrSteps
  <2> QED
    BY <1>1, <2>2, <2>3, <2>4, <2>5
<1> DEFINE g == [n \in 0..N |-> h[M + n]]
<1>5. g[0] = BzrRead(x) /\ g[N] = BzrRead(z)
  BY <1>1, <1>2, <1>3, <1>4, SMTT(30)
<1>6. ASSUME NEW n \in 1..N PROVE g[n] = BzrLine(g[n - 1], y[n])
  <2>1. M + n \in 1..Len(z) /\ M + n - 1 = M + (n - 1) /\ n - 1 \in 0..N /\ n \in 0..N
    BY <1>1
  <2>2. h[M + n] = BzrLine(h[M + n - 1], z[M + n])
    BY <1>1, <1>3, <2>1 DEF BzrSteps
  <2> QED
    BY <1>1, <2>1, <2>2
<1>7. BzrSteps(g, y)
  BY <1>6 DEF BzrSteps, N
<1> QED
  BY <1>5, <1>7 DEF N, z

\* What is read of a revision before its message, the lines of that, and all of
\* the revision.
BzrFields(c) ==
    header(header(header(header(header(NoEntry, "revno", 1), "revision-id", c),
                         "committer", "author"), "branch nick", "branch"), "timestamp", 1)
BzrText(c, without) == IF c \in without THEN <<>> ELSE <<"text">>
BzrEntry(c, without) == header(BzrFields(c), "message", BzrText(c, without))

\* The lines of a revision.
LEMMA BzrLines ==
    ASSUME NEW c \in Commits, NEW without
    PROVE  LET y == BzrPrinted(Printed(c, without))
           IN  /\ y \in Seq(Lines)
               /\ Len(y) = 7 + Len(BzrText(c, without))
               /\ y[1] = Divider /\ y[2] = Header("revno", 1) /\ y[3] = Header("revision-id", c)
               /\ y[4] = Header("committer", "author") /\ y[5] = Header("branch nick", "branch")
               /\ y[6] = Header("timestamp", 1) /\ y[7] = Header("message", Empty)
               /\ c \notin without => y[8] = Text("text")
<1> DEFINE p == Printed(c, without)
           head == <<Divider, Header("revno", 1), Header("revision-id", c),
                     Header("committer", "author"), Header("branch nick", "branch"),
                     Header("timestamp", 1), Header("message", Empty)>>
           body == [n \in DOMAIN p.message |-> Text(p.message[n])]
<1>1. /\ p.id = c /\ p.author = "author" /\ p.date = 1 /\ p.revno = 1 /\ p.branch = "branch"
      /\ p.message = BzrText(c, without)
  BY DEF Printed, BzrText
<1>2. /\ Divider \in Lines /\ Text("text") \in Lines /\ Header("revno", 1) \in Lines
      /\ Header("revision-id", c) \in Lines /\ Header("committer", "author") \in Lines
      /\ Header("branch nick", "branch") \in Lines /\ Header("timestamp", 1) \in Lines
      /\ Header("message", Empty) \in Lines
  <2>1. Divider \in Lines
    BY DEF Divider, Line, Lines
  <2>2. Text("text") \in Lines
    BY DEF Text, Line, Lines, Words
  <2>3. ASSUME NEW name \in HeaderNames, NEW text \in Nat \cup Commits \cup Words \cup {Empty}
        PROVE  Header(name, text) \in Lines
    BY DEF Header, Line, Lines, Words
  <2>4. /\ "revno" \in HeaderNames /\ "revision-id" \in HeaderNames /\ "committer" \in HeaderNames
        /\ "branch nick" \in HeaderNames /\ "timestamp" \in HeaderNames /\ "message" \in HeaderNames
        /\ "author" \in Words /\ "branch" \in Words
    BY DEF HeaderNames, Words
  <2> QED
    BY <2>1, <2>2, <2>3, <2>4
<1>3. head \in Seq(Lines) /\ <<Text("text")>> \in Seq(Lines) /\ Len(head) = 7
  <2>1. \A a, b, d, e, f, g, h \in Lines :
            <<a, b, d, e, f, g, h>> \in Seq(Lines) /\ <<h>> \in Seq(Lines)
    OBVIOUS
  <2> QED
    BY <1>2, <2>1
<1>4. BzrPrinted(p) = head \o body
  BY <1>1 DEF BzrPrinted
<1>5. /\ head[1] = Divider /\ head[2] = Header("revno", 1) /\ head[3] = Header("revision-id", c)
      /\ head[4] = Header("committer", "author") /\ head[5] = Header("branch nick", "branch")
      /\ head[6] = Header("timestamp", 1) /\ head[7] = Header("message", Empty)
  OBVIOUS
<1>6. body \in Seq(Lines) /\ Len(body) = Len(BzrText(c, without))
      /\ Len(body) \in {0, 1} /\ (c \notin without => Len(body) = 1 /\ body[1] = Text("text"))
  <2>1. CASE c \in without
    <3>1. body = <<>>
      BY <1>1, <2>1 DEF BzrText
    <3> QED
      BY <2>1, <3>1 DEF BzrText
  <2>2. CASE c \notin without
    <3>1. body = <<Text("text")>>
      BY <1>1, <2>2 DEF BzrText
    <3> QED
      BY <1>3, <2>2, <3>1 DEF BzrText
  <2> QED
    BY <2>1, <2>2
<1> HIDE DEF head, body, p
<1> DEFINE y == BzrPrinted(p)
<1>7. /\ y \in Seq(Lines) /\ Len(y) = 7 + Len(body)
      /\ \A i \in 1..7 : y[i] = head[i]
      /\ \A i \in 1..Len(body) : y[7 + i] = body[i]
  <2>1. \A s, t \in Seq(Lines) :
           /\ s \o t \in Seq(Lines) /\ Len(s \o t) = Len(s) + Len(t)
           /\ \A i \in 1..Len(s) : (s \o t)[i] = s[i]
           /\ \A i \in 1..Len(t) : (s \o t)[Len(s) + i] = t[i]
    OBVIOUS
  <2>2. y = head \o body
    BY <1>4
  <2> HIDE DEF y
  <2>3. /\ y \in Seq(Lines) /\ Len(y) = Len(head) + Len(body)
        /\ \A i \in 1..Len(head) : y[i] = head[i]
        /\ \A i \in 1..Len(body) : y[Len(head) + i] = body[i]
    BY <1>3, <1>6, <2>1, <2>2
  <2> QED
    BY <1>3, <2>3
<1> HIDE DEF y
<1>8. /\ y[1] = head[1] /\ y[2] = head[2] /\ y[3] = head[3] /\ y[4] = head[4]
      /\ y[5] = head[5] /\ y[6] = head[6] /\ y[7] = head[7]
      /\ c \notin without => y[8] = Text("text")
  <2>1. c \notin without => y[7 + 1] = Text("text")
    BY <1>6, <1>7
  <2> QED
    BY <1>7, <2>1
<1> QED
  BY <1>5, <1>6, <1>7, <1>8 DEF y, p

\* The state of the loop.
BzrAt(s, state, l, name, text, entries) ==
    /\ DOMAIN s = {"state", "l", "name", "text", "entries"}
    /\ s.state = state /\ s.l = l /\ s.name = name /\ s.text = text /\ s.entries = entries

\* A header ends the one before it.
LEMMA BzrAtHeader ==
    ASSUME NEW s, NEW z \in {"dividers", "entry"}, NEW l, NEW n, NEW t, NEW e,
           BzrAt(s, z, l, n, t, e), NEW name, NEW text
    PROVE  LET next == BzrLine(s, Header(name, text))
               begun == IF text = Empty THEN <<>> ELSE <<text>>
           IN  /\ n = NULL => BzrAt(next, "entry", l, name, begun, e)
               /\ \A x : n \in HeaderNames \ {"message"} /\ t = <<x>> =>
                            BzrAt(next, "entry", header(l, n, x), name, begun, e)
<1> DEFINE line == Header(name, text)
           next == BzrLine(s, line)
<1>1. line.kind = "header" /\ line.name = name /\ line.text = text
  BY DEF Header, Line
<1> HIDE DEF line
<1>2. s.state # "failed" /\ s.state \in {"dividers", "entry"}
  BY DEF BzrAt
<1>3. next = [s EXCEPT !.state = "entry", !.l = HeaderRead(s), !.name = line.name,
                       !.text = Begun(line)]
  BY <1>1, <1>2 DEF BzrLine
<1> HIDE DEF next
<1>4. BzrAt(next, "entry", HeaderRead(s), name, IF text = Empty THEN <<>> ELSE <<text>>, e)
  BY <1>1, <1>3 DEF BzrAt, Begun
<1>5. ASSUME n = NULL PROVE HeaderRead(s) = l
  <2>1. s.name = NULL /\ s.name # "message" /\ s.l = l
    BY <1>5, FieldsAssumption DEF BzrAt, HeaderNames
  <2> QED
    BY <2>1 DEF HeaderRead
<1>6. ASSUME NEW x, n \in HeaderNames \ {"message"}, t = <<x>>
      PROVE  HeaderRead(s) = header(l, n, x)
  <2>1. s.name = n /\ s.name # NULL /\ s.name # "message" /\ s.l = l
    BY <1>6, FieldsAssumption DEF BzrAt
  <2>2. s.text = <<x>> /\ s.text # <<>> /\ Head(s.text) = x
    BY <1>6 DEF BzrAt
  <2> QED
    BY <2>1, <2>2 DEF HeaderRead
<1> QED
  BY <1>4, <1>5, <1>6 DEF next, line

\* What is read of a revision has an ID and all that post_log() needs.
LEMMA BzrKeepsID ==
    ASSUME NEW c \in Commits, NEW without
    PROVE  /\ BzrEntry(c, without).commitid = c
           /\ BzrEntry(c, without).revno # 0 /\ BzrEntry(c, without).timestamp # 0
           /\ BzrEntry(c, without).branch # NULL /\ BzrEntry(c, without).message # NULL
<1> DEFINE t == BzrText(c, without)
           full == {n \in DOMAIN t : t[n] # Empty}
<1>1. Trimmed(t) \in Seq({"text", Empty})
  <2>1. CASE c \in without
    <3>1. t = <<>> /\ full = {}
      BY <2>1 DEF BzrText
    <3>2. Trimmed(t) = SubSeq(t, 1, 0)
      BY <3>1 DEF Trimmed
    <3>3. SubSeq(<<>>, 1, 0) = <<>>
      OBVIOUS
    <3> QED
      BY <3>1, <3>2, <3>3, EmptySeq
  <2>2. CASE c \notin without
    <3>1. /\ t = <<"text">> /\ t \in Seq({"text", Empty})
          /\ Len(t) = 1 /\ DOMAIN t = {1} /\ t[1] = "text"
      BY <2>2 DEF BzrText
    <3>2. "text" # Empty
      BY NotWords DEF Words
    <3> HIDE DEF t
    <3>3. full = {1}
      <4>1. full = {n \in {1} : t[n] # Empty}
        BY <3>1
      <4> QED
        BY <3>1, <3>2, <4>1
    <3>4. Trimmed(t) = SubSeq(t, 1, IF full = {} THEN 0
                                    ELSE CHOOSE n \in full : \A k \in full : k <= n)
      BY DEF Trimmed
    <3> HIDE DEF full
    <3>5. (CHOOSE n \in full : \A k \in full : k <= n) = 1
      <4>1. \E n \in full : \A k \in full : k <= n
        BY <3>3
      <4>2. (CHOOSE n \in full : \A k \in full : k <= n) \in full
        BY <4>1
      <4> QED
        BY <3>3, <4>2
    <3>6. (IF full = {} THEN 0 ELSE CHOOSE n \in full : \A k \in full : k <= n) = 1
      <4>1. full # {}
        BY <3>3
      <4> QED
        BY <3>5, <4>1
    <3>7. Trimmed(t) = SubSeq(t, 1, 1)
      BY <3>4, <3>6, Zenon
    <3> QED
      BY <3>1, <3>7, SubSeqProperties
  <2> QED
    BY <2>1, <2>2
<1>2. Trimmed(t) # NULL
  BY <1>1, PrintedAssumption
<1>3. BzrFields(c) = [revno |-> 1, commitid |-> c, timestamp |-> 1, branch |-> "branch",
                      committer |-> "author", message |-> NULL]
  <2>1. header(NoEntry, "revno", 1) = [NoEntry EXCEPT !.revno = 1]
    BY DEF header
  <2> DEFINE l1 == header(NoEntry, "revno", 1)
             l2 == header(l1, "revision-id", c)
             l3 == header(l2, "committer", "author")
             l4 == header(l3, "branch nick", "branch")
  <2>2. l1 = [revno |-> 1, commitid |-> NULL, timestamp |-> 0, branch |-> NULL,
              committer |-> NULL, message |-> NULL]
    BY <2>1 DEF NoEntry
  <2> HIDE DEF l1
  <2>3. l2 = [revno |-> 1, commitid |-> c, timestamp |-> 0, branch |-> NULL,
              committer |-> NULL, message |-> NULL]
    BY <2>2 DEF header
  <2> HIDE DEF l2
  <2>4. l3 = [revno |-> 1, commitid |-> c, timestamp |-> 0, branch |-> NULL,
              committer |-> "author", message |-> NULL]
    BY <2>3 DEF header
  <2> HIDE DEF l3
  <2>5. l4 = [revno |-> 1, commitid |-> c, timestamp |-> 0, branch |-> "branch",
              committer |-> "author", message |-> NULL]
    BY <2>4 DEF header
  <2> HIDE DEF l4
  <2>6. header(l4, "timestamp", 1) = [revno |-> 1, commitid |-> c, timestamp |-> 1,
              branch |-> "branch", committer |-> "author", message |-> NULL]
    BY <2>5 DEF header
  <2> QED
    BY <2>6 DEF BzrFields, l1, l2, l3, l4
<1>4. BzrEntry(c, without) = [BzrFields(c) EXCEPT !.message = Trimmed(t)]
  BY DEF BzrEntry, header
<1>5. "branch" # NULL
  BY NotWords DEF Words
<1> HIDE DEF t
<1> QED
  BY <1>2, <1>3, <1>4, <1>5

\* A revision of which all lines have been read.
BzrRevision(s, c, without, e) ==
    BzrAt(s, "entry", BzrFields(c), "message", BzrText(c, without), e)

\* It is complete.
LEMMA BzrEntryRead ==
    ASSUME NEW s, NEW c \in Commits, NEW without, NEW e, BzrRevision(s, c, without, e)
    PROVE  BzrAt(EntryRead(s), "dividers", NoEntry, NULL, <<>>, Append(e, BzrEntry(c, without)))
<1>1. s.name = "message" /\ s.l = BzrFields(c) /\ s.text = BzrText(c, without) /\ s.entries = e
  BY DEF BzrRevision, BzrAt
<1>2. s.name # NULL
  BY <1>1, FieldsAssumption DEF HeaderNames
<1>3. HeaderRead(s) = BzrEntry(c, without)
  BY <1>1, <1>2 DEF HeaderRead, BzrEntry
<1> DEFINE l == BzrEntry(c, without)
<1>4. l.revno # 0 /\ l.timestamp # 0 /\ l.branch # NULL /\ l.message # NULL
  BY BzrKeepsID
<1> HIDE DEF l
<1>5. EntryRead(s) = [state |-> "dividers", l |-> NoEntry, name |-> NULL, text |-> <<>>,
                      entries |-> Append(e, l)]
  BY <1>1, <1>3, <1>4 DEF EntryRead, l
<1> QED
  BY <1>5 DEF BzrAt, l

\* The entries of the first k revisions of a log.
BzrOf(ids, k, without) == [i \in 1..k |-> BzrEntry(ids[i], without)]

\* One revision more.
LEMMA BzrOfOneMore ==
    ASSUME NEW ids, NEW k \in Nat, k > 0, NEW without
    PROVE  Append(BzrOf(ids, k - 1, without), BzrEntry(ids[k], without)) = BzrOf(ids, k, without)
<1> DEFINE F == [i \in 1..k |-> BzrEntry(ids[i], without)]
<1>1. /\ BzrOf(ids, k, without) = [i \in 1..k |-> F[i]]
      /\ BzrOf(ids, k - 1, without) = [i \in 1..k - 1 |-> F[i]]
      /\ F[k] = BzrEntry(ids[k], without)
  BY DEF BzrOf
<1> HIDE DEF F
<1> QED
  BY <1>1, OneMore

\* A divider completes the revision before it, and the lines of the next follow.
LEMMA BzrNextRevision ==
    ASSUME NEW c \in Commits, NEW e, NEW without, NEW g,
           BzrSteps(g, BzrPrinted(Printed(c, without))),
           BzrAt(BzrLine(g[0], Divider), "dividers", NoEntry, NULL, <<>>, e)
    PROVE  BzrRevision(g[Len(BzrPrinted(Printed(c, without)))], c, without, e)
<1> DEFINE y == BzrPrinted(Printed(c, without))
<1>1. /\ y[1] = Divider /\ y[2] = Header("revno", 1) /\ y[3] = Header("revision-id", c)
      /\ y[4] = Header("committer", "author") /\ y[5] = Header("branch nick", "branch")
      /\ y[6] = Header("timestamp", 1) /\ y[7] = Header("message", Empty)
      /\ c \notin without => y[8] = Text("text")
  BY BzrLines, ZenonT(30)
<1>2. BzrSteps(g, y)
  OBVIOUS
<1>3. Len(y) = IF c \in without THEN 7 ELSE 8
  <2>1. Len(y) = 7 + Len(BzrText(c, without))
    BY BzrLines
  <2>2. Len(BzrText(c, without)) = IF c \in without THEN 0 ELSE 1
    BY DEF BzrText
  <2> HIDE DEF y
  <2> QED
    BY <2>1, <2>2
<1> HIDE DEF y
<1>4. /\ g[1] = BzrLine(g[0], y[1]) /\ g[2] = BzrLine(g[1], y[2]) /\ g[3] = BzrLine(g[2], y[3])
      /\ g[4] = BzrLine(g[3], y[4]) /\ g[5] = BzrLine(g[4], y[5]) /\ g[6] = BzrLine(g[5], y[6])
      /\ g[7] = BzrLine(g[6], y[7])
      /\ c \notin without => g[8] = BzrLine(g[7], y[8])
  <2>1. \A n \in 1..7 : n \in 1..Len(y)
    BY <1>3
  <2>2. \A n \in 1..7 : g[n] = BzrLine(g[n - 1], y[n])
    BY <1>2, <2>1 DEF BzrSteps
  <2>3. c \notin without => g[8] = BzrLine(g[8 - 1], y[8])
    BY <1>2, <1>3 DEF BzrSteps
  <2>4. /\ g[1] = BzrLine(g[1 - 1], y[1]) /\ g[2] = BzrLine(g[2 - 1], y[2])
        /\ g[3] = BzrLine(g[3 - 1], y[3]) /\ g[4] = BzrLine(g[4 - 1], y[4])
        /\ g[5] = BzrLine(g[5 - 1], y[5]) /\ g[6] = BzrLine(g[6 - 1], y[6])
        /\ g[7] = BzrLine(g[7 - 1], y[7])
    BY <2>2
  <2> QED
    BY <2>3, <2>4
<1>5. /\ Empty # 1 /\ Empty # c /\ Empty # "author" /\ Empty # "branch"
  BY NotWords DEF Words
<1>6. BzrAt(g[1], "dividers", NoEntry, NULL, <<>>, e)
  BY <1>1, <1>4
<1>7. BzrAt(g[2], "entry", NoEntry, "revno", <<1>>, e)
  BY <1>1, <1>4, <1>5, <1>6, BzrAtHeader
<1>8. ASSUME NEW s, NEW l, NEW n \in HeaderNames \ {"message"}, NEW x, NEW name, NEW text,
             BzrAt(s, "entry", l, n, <<x>>, e)
      PROVE  BzrAt(BzrLine(s, Header(name, text)), "entry", header(l, n, x), name,
                   IF text = Empty THEN <<>> ELSE <<text>>, e)
  BY <1>8, BzrAtHeader
<1>9. {"revno", "revision-id", "committer", "branch nick", "timestamp"}
          \subseteq HeaderNames \ {"message"}
  BY DEF HeaderNames
<1> DEFINE l1 == header(NoEntry, "revno", 1)
           l2 == header(l1, "revision-id", c)
           l3 == header(l2, "committer", "author")
           l4 == header(l3, "branch nick", "branch")
           l5 == header(l4, "timestamp", 1)
<1> HIDE DEF l1, l2, l3, l4, l5
<1>10. BzrAt(g[3], "entry", l1, "revision-id", <<c>>, e)
  BY <1>1, <1>4, <1>5, <1>7, <1>8, <1>9 DEF l1
<1>11. BzrAt(g[4], "entry", l2, "committer", <<"author">>, e)
  BY <1>1, <1>4, <1>5, <1>10, <1>8, <1>9 DEF l2
<1>12. BzrAt(g[5], "entry", l3, "branch nick", <<"branch">>, e)
  BY <1>1, <1>4, <1>5, <1>11, <1>8, <1>9 DEF l3
<1>13. BzrAt(g[6], "entry", l4, "timestamp", <<1>>, e)
  BY <1>1, <1>4, <1>5, <1>12, <1>8, <1>9 DEF l4
<1>14. BzrAt(g[7], "entry", l5, "message", <<>>, e)
  BY <1>1, <1>4, <1>13, <1>8, <1>9 DEF l5
<1>15. l5 = BzrFields(c)
  BY DEF BzrFields, l1, l2, l3, l4, l5
<1>16. CASE c \in without
  BY <1>3, <1>14, <1>15, <1>16 DEF BzrRevision, BzrText, y
<1>17. CASE c \notin without
  <2> DEFINE line == Text("text")
  <2>1. line.kind = "text" /\ line.text = "text"
    BY DEF Text, Line
  <2> HIDE DEF line
  <2>2. g[7].state # "failed" /\ g[7].name # NULL
    BY <1>14, FieldsAssumption DEF BzrAt, HeaderNames
  <2>3. BzrLine(g[7], line) = [g[7] EXCEPT !.text = Append(@, line.text)]
    BY <1>14, <2>1, <2>2 DEF BzrLine, BzrAt
  <2>4. Append(<<>>, "text") = <<"text">>
    OBVIOUS
  <2>5. BzrAt(BzrLine(g[7], line), "entry", l5, "message", <<"text">>, e)
    BY <1>14, <2>1, <2>3, <2>4 DEF BzrAt
  <2> QED
    BY <1>1, <1>3, <1>4, <1>15, <1>17, <2>5 DEF BzrRevision, BzrText, y, line
<1> QED
  BY <1>16, <1>17

\* Where the loop is behind the first k revisions of a log.
BzrBehind(s, ids, k, without) ==
    \/ k = 0 /\ s = BzrStart
    \/ k > 0 /\ BzrRevision(s, ids[k], without, BzrOf(ids, k - 1, without))

\* One revision more.
LEMMA BzrBehindNext ==
    ASSUME NEW ids, NEW k \in Nat, k > 0, \A i \in 1..k : ids[i] \in Commits,
           NEW without, NEW g, BzrBehind(g[0], ids, k - 1, without),
           BzrSteps(g, BzrPrinted(Printed(ids[k], without)))
    PROVE  BzrBehind(g[Len(BzrPrinted(Printed(ids[k], without)))], ids, k, without)
<1>1. Divider.kind = "divider"
  BY DEF Divider, Line
<1>2. ids[k] \in Commits
  OBVIOUS
<1>3. ASSUME BzrAt(BzrLine(g[0], Divider), "dividers", NoEntry, NULL, <<>>,
                   BzrOf(ids, k - 1, without))
      PROVE  BzrBehind(g[Len(BzrPrinted(Printed(ids[k], without)))], ids, k, without)
  BY <1>2, <1>3, BzrNextRevision DEF BzrBehind
<1>4. CASE k - 1 = 0 /\ g[0] = BzrStart
  <2>1. BzrAt(BzrStart, "dividers", NoEntry, NULL, <<>>, <<>>)
    BY DEF BzrStart, BzrAt
  <2>2. BzrLine(BzrStart, Divider) = BzrStart
    BY <1>1, <2>1 DEF BzrLine, BzrAt
  <2>3. BzrOf(ids, k - 1, without) = <<>>
    BY <1>4 DEF BzrOf
  <2> QED
    BY <1>3, <1>4, <2>1, <2>2, <2>3
<1>5. CASE k - 1 > 0 /\ BzrRevision(g[0], ids[k - 1], without, BzrOf(ids, k - 1 - 1, without))
  <2>1. k - 1 \in Nat /\ ids[k - 1] \in Commits
    BY <1>5
  <2>2. Append(BzrOf(ids, k - 1 - 1, without), BzrEntry(ids[k - 1], without))
            = BzrOf(ids, k - 1, without)
    BY <1>5, <2>1, BzrOfOneMore
  <2>3. BzrLine(g[0], Divider) = EntryRead(g[0])
    BY <1>1, <1>5 DEF BzrLine, BzrRevision, BzrAt
  <2>4. BzrAt(EntryRead(g[0]), "dividers", NoEntry, NULL, <<>>, BzrOf(ids, k - 1, without))
    BY <1>5, <2>1, <2>2, BzrEntryRead
  <2> QED
    BY <1>3, <2>3, <2>4
<1> QED
  BY <1>4, <1>5 DEF BzrBehind

\* What `bzr log' prints of the first n revisions.
BzrPages(ids, n, without) == [i \in 1..n |-> BzrPrinted(Printed(ids[i], without))]

\* The loop behind such a log.
LEMMA BzrBehindLog ==
    ASSUME NEW ids \in Seq(Commits), NEW n \in 0..Len(ids), NEW without
    PROVE  BzrBehind(BzrRead(FlattenSeq(BzrPages(ids, n, without))), ids, n, without)
<1> DEFINE pages == BzrPages(ids, n, without)
<1>r. \A x, y \in Seq(Lines) :
          \E g : /\ g[0] = BzrRead(x) /\ BzrSteps(g, y)
                 /\ g[Len(y)] = BzrRead(x \o y)
  BY BzrReadsOn
<1>1. n \in Nat /\ \A i \in 1..n : ids[i] \in Commits
  OBVIOUS
<1>2. /\ pages \in Seq(Seq(Lines)) /\ Len(pages) = n
      /\ \A i \in 1..n : pages[i] = BzrPrinted(Printed(ids[i], without))
  <2>1. \A i \in 1..n : BzrPrinted(Printed(ids[i], without)) \in Seq(Lines)
    BY <1>1, BzrLines
  <2> QED
    BY <1>1, <2>1 DEF BzrPages
<1> HIDE DEF pages
<1>3. PICK f \in [0..n -> Seq(Lines)] :
         /\ f[0] = <<>> /\ f[n] = FlattenSeq(pages)
         /\ \A i \in 1..n : f[i] = f[i - 1] \o pages[i]
  BY <1>2, FlattenSteps
<1> DEFINE Good(k) == BzrBehind(BzrRead(f[k]), ids, k, without)
           Bad == {k \in 0..n : ~Good(k)}
<1>4. Good(0)
  <2>1. PICK g : g[0] = BzrStart /\ g[Len(f[0])] = BzrRead(f[0])
    <3>1. f[0] \in Seq(Lines)
      BY <1>1, <1>3
    <3> QED
      BY <3>1, BzrReads
  <2>2. Len(f[0]) = 0
    BY <1>3
  <2> QED
    BY <2>1, <2>2 DEF BzrBehind
<1>5. ASSUME NEW k \in 1..n, Good(k - 1) PROVE Good(k)
  <2>1. f[k - 1] \in Seq(Lines) /\ pages[k] \in Seq(Lines) /\ f[k] = f[k - 1] \o pages[k]
    <3>1. k - 1 \in 0..n
      BY <1>1
    <3>2. pages[k] \in Seq(Lines)
      BY <1>2, ElementOfSeq
    <3> QED
      BY <1>3, <3>1, <3>2
  <2> DEFINE x == f[k - 1]
             y == pages[k]
  <2> HIDE DEF x, y
  <2>2. y = BzrPrinted(Printed(ids[k], without))
    BY <1>2 DEF y
  <2>3. PICK g : /\ g[0] = BzrRead(x) /\ BzrSteps(g, y)
                 /\ g[Len(y)] = BzrRead(x \o y)
    <3>1. x \in Seq(Lines) /\ y \in Seq(Lines)
      BY <2>1 DEF x, y
    <3> QED
      BY <3>1, <1>r
  <2>4. k \in Nat /\ k > 0 /\ \A i \in 1..k : ids[i] \in Commits
    BY <1>1
  <2>5. BzrBehind(g[0], ids, k - 1, without)
    BY <1>5, <2>3 DEF x
  <2>6. BzrBehind(g[Len(y)], ids, k, without)
    BY <2>2, <2>3, <2>4, <2>5, BzrBehindNext
  <2>7. f[k] = x \o y
    BY <2>1 DEF x, y
  <2> QED
    BY <2>3, <2>6, <2>7
<1>6. Good(n)
  <2> HIDE DEF Good
  <2> SUFFICES ASSUME Bad # {} PROVE FALSE
    BY <1>1, SMTT(30)
  <2>1. Bad \in SUBSET Nat
    BY <1>1
  <2> HIDE DEF Bad
  <2>2. PICK k \in Bad : \A m \in Bad : k <= m
    BY <2>1, LeastOf
  <2> USE DEF Bad
  <2>3. k \in 1..n /\ k - 1 \notin Bad /\ k - 1 \in 0..n
    BY <1>1, <1>4, <2>2
  <2> QED
    BY <1>5, <2>2, <2>3
<1> QED
  BY <1>3, <1>6 DEF pages

\* bzr2news reads a log in full.
LEMMA BzrLogRead ==
    ASSUME NEW ids \in Seq(Commits), NEW n \in 0..Len(ids), NEW without
    PROVE  BzrEntries(FlattenSeq(BzrPages(ids, n, without))) = BzrOf(ids, n, without)
<1> DEFINE lines == FlattenSeq(BzrPages(ids, n, without))
           last == BzrRead(lines)
           entries == BzrEntries(lines)
<1>1. BzrBehind(last, ids, n, without)
  BY BzrBehindLog
<1>2. n \in Nat /\ \A i \in 1..n : ids[i] \in Commits
  OBVIOUS
<1>3. entries = IF last.state = "entry" THEN EntryRead(last).entries ELSE last.entries
  BY DEF BzrEntries
<1> HIDE DEF lines, last, entries
<1>4. CASE n = 0 /\ last = BzrStart
  <2>1. last.state = "dividers" /\ last.entries = <<>>
    BY <1>4 DEF BzrStart
  <2>2. entries = <<>>
    BY <1>3, <2>1
  <2>3. BzrOf(ids, n, without) = <<>>
    BY <1>4 DEF BzrOf
  <2> QED
    BY <2>2, <2>3 DEF entries, lines
<1>5. CASE n > 0 /\ BzrRevision(last, ids[n], without, BzrOf(ids, n - 1, without))
  <2>1. ids[n] \in Commits
    BY <1>2, <1>5
  <2>2. last.state = "entry"
    BY <1>5 DEF BzrRevision, BzrAt
  <2>3. EntryRead(last).entries = Append(BzrOf(ids, n - 1, without), BzrEntry(ids[n], without))
    BY <1>5, <2>1, BzrEntryRead DEF BzrAt
  <2> QED
    BY <1>2, <1>3, <1>5, <2>2, <2>3, BzrOfOneMore DEF entries, lines
<1> QED
  BY <1>1, <1>4, <1>5 DEF BzrBehind

-----------------------------------------------------------------------------
(* What a run gets to see of an archive *)

\* The IDs of entries that are those of commits are the commits.
LEMMA TheIDs ==
    ASSUME NEW ids \in Seq(Commits), NEW k \in 0..Len(ids),
           NEW F, \A i \in 1..k : F[i].commitid = ids[i]
    PROVE  LET entries == [i \in 1..k |-> F[i]]
           IN  [i \in DOMAIN entries |-> entries[i].commitid] = SubSeq(ids, 1, k)
<1> DEFINE t == SubSeq(ids, 1, k)
<1>1. k \in Nat /\ t \in Seq(Commits) /\ Len(t) = k /\ \A i \in 1..k : t[i] = ids[i]
  OBVIOUS
<1>2. t = [i \in 1..k |-> t[i]]
  <2> HIDE DEF t
  <2> QED
    BY <1>1
<1> HIDE DEF t
<1>3. t = [i \in 1..k |-> ids[i]]
  BY <1>1, <1>2
<1> QED
  BY <1>3 DEF t

\* The log readers find in an archive's log all its commits, in their order, or
\* in a log of git those before the first one that has no message, at which the
\* assertion of process_git_archive() fails.
THEOREM LogsReadInOrder ==
    \A a \in Args : \A n \in 0..Len(FullLog[a]), without \in Lacking :
        LET ids    == FullLog[a]
            bareAt == {i \in 1..n : ids[i] \in without}
        IN  Logs[a][n][without] =
                IF a \notin Git \/ bareAt = {} THEN SubSeq(ids, 1, n)
                ELSE Append(SubSeq(ids, 1, Min(bareAt) - 1), Assertion)
<1> SUFFICES ASSUME NEW a \in Args, NEW n \in 0..Len(FullLog[a]), NEW without \in Lacking
             PROVE  LET ids    == FullLog[a]
                        bareAt == {i \in 1..n : ids[i] \in without}
                    IN  Entries(a, n, without) =
                            IF a \notin Git \/ bareAt = {} THEN SubSeq(ids, 1, n)
                            ELSE Append(SubSeq(ids, 1, Min(bareAt) - 1), Assertion)
  BY DEF Logs
<1> DEFINE ids == FullLog[a]
           bareAt == {i \in 1..n : ids[i] \in without}
           git == GitEntries(FlattenSeq(GitPages(ids, n, without)), "dir")
           bzr == BzrEntries(FlattenSeq(BzrPages(ids, n, without)))
           IDs(entries) == [i \in DOMAIN entries |-> entries[i].commitid]
<1>1. ids \in Seq(Commits) /\ n \in 0..Len(ids) /\ n \in Nat /\ bareAt \in SUBSET Nat
  BY ArchivesAssumption
<1>2. Entries(a, n, without) = IDs(IF a \in Git THEN git ELSE bzr)
  BY DEF Entries, GitPages, BzrPages
<1>3. \A i \in 1..n : ids[i] \in Commits
  BY <1>1
<1> HIDE DEF ids, git, bzr
<1>4. CASE a \notin Git
  <2> DEFINE F == [i \in 1..n |-> BzrEntry(ids[i], without)]
  <2>1. bzr = [i \in 1..n |-> F[i]]
    BY <1>1, BzrLogRead DEF BzrOf, bzr
  <2>2. \A i \in 1..n : F[i].commitid = ids[i]
    BY <1>3, BzrKeepsID
  <2> HIDE DEF F
  <2>3. IDs(bzr) = SubSeq(ids, 1, n)
    BY <1>1, <2>1, <2>2, TheIDs
  <2> QED
    BY <1>2, <1>4, <2>3 DEF ids
<1>5. CASE a \in Git /\ bareAt = {}
  <2> DEFINE F == [i \in 1..n |-> GitEntry(ids[i], "dir")]
  <2>1. git = [i \in 1..n |-> F[i]]
    BY <1>1, <1>5, GitLogRead DEF GitOf, git
  <2>2. \A i \in 1..n : F[i].commitid = ids[i]
    BY <1>3, GitKeepsID
  <2> HIDE DEF F
  <2>3. IDs(git) = SubSeq(ids, 1, n)
    BY <1>1, <2>1, <2>2, TheIDs
  <2> QED
    BY <1>2, <1>5, <2>3 DEF ids
<1>6. CASE a \in Git /\ bareAt # {}
  <2>1. Min(bareAt) \in bareAt /\ \A i \in bareAt : Min(bareAt) <= i
    BY <1>1, <1>6, MinOf
  <2>2. PICK m \in 1..n :
          /\ ids[m] \in without /\ \A i \in 1..m - 1 : ids[i] \notin without
          /\ git = Append(GitOf(ids, m - 1, "dir"), NoMessage)
    <3>1. \/ \A i \in 1..n : ids[i] \notin without
          \/ \E m \in 1..n :
                /\ ids[m] \in without /\ \A i \in 1..m - 1 : ids[i] \notin without
                /\ git = Append(GitOf(ids, m - 1, "dir"), NoMessage)
      BY <1>1, GitLogRead DEF git
    <3>2. \E i \in 1..n : ids[i] \in without
      BY <1>6
    <3> QED
      BY <3>1, <3>2
  <2>3. m = Min(bareAt)
    BY <1>1, <2>1, <2>2
  <2> DEFINE F == [i \in 1..m |-> IF i = m THEN NoMessage ELSE GitEntry(ids[i], "dir")]
             r == [i \in 1..m |-> F[i].commitid]
  <2>4. m \in Nat /\ m > 0 /\ m - 1 \in 0..Len(ids) /\ m <= Len(ids)
    BY <1>1
  <2>5. git = [i \in 1..m |-> F[i]]
    <3>1. GitOf(ids, m - 1, "dir") = [i \in 1..m - 1 |-> F[i]] /\ F[m] = NoMessage
      BY <2>4 DEF GitOf
    <3> HIDE DEF F
    <3> QED
      BY <2>2, <2>4, <3>1, OneMore
  <2>6. NoMessage.commitid = Assertion
    BY DEF NoMessage, NoEntry
  <2>7. \A i \in 1..m - 1 : F[i].commitid = ids[i]
    <3> SUFFICES ASSUME NEW i \in 1..m - 1 PROVE F[i].commitid = ids[i]
      OBVIOUS
    <3>1. i \in 1..n /\ i \in 1..m /\ i # m /\ ids[i] \in Commits
      BY <1>1, <1>3, <2>4
    <3>2. F[i] = GitEntry(ids[i], "dir")
      BY <3>1
    <3> HIDE DEF F
    <3> QED
      <4>1. GitEntry(ids[i], "dir").commitid = ids[i]
        BY <3>1, GitKeepsID
      <4> QED
        BY <3>2, <4>1
  <2>8. F[m].commitid = Assertion
    BY <2>4, <2>6
  <2> HIDE DEF F
  <2>9. IDs(git) = r
    BY <2>5
  <2>10. [i \in 1..m - 1 |-> F[i].commitid] = SubSeq(ids, 1, m - 1)
    BY <1>1, <2>4, <2>7, TheIDs
  <2>11. /\ SubSeq(ids, 1, m - 1) = [i \in 1..m - 1 |-> r[i]] /\ r[m] = Assertion
         /\ r = [i \in 1..m |-> r[i]]
    BY <2>4, <2>8, <2>10
  <2> HIDE DEF r
  <2>12. Append(SubSeq(ids, 1, m - 1), Assertion) = r
    <3>1. Append([i \in 1..m - 1 |-> r[i]], r[m]) = [i \in 1..m |-> r[i]]
      BY <2>4, OneMore
    <3> QED
      BY <2>11, <3>1
  <2> QED
    BY <1>2, <1>6, <2>3, <2>9, <2>12 DEF ids
<1> QED
  BY <1>4, <1>5, <1>6 DEF ids

\* What is too old is left out of a log, and nothing is put in.
LEMMA FreshType ==
    ASSUME NEW S, NEW ids \in Seq(S), NEW aged
    PROVE  Fresh(ids, aged) \in Seq(S \ aged)
<1> DEFINE N == Len(ids)
           V == Seq(S \ aged)
           Kept(s, n) == IF ids[n] \in aged THEN s ELSE Append(s, ids[n])
           G == [n \in 1..N |-> [s \in V |-> Kept(s, n)]]
           Is(f) == f = [n \in 0..N |-> IF n = 0 THEN <<>> ELSE Kept(f[n - 1], n)]
           kept == CHOOSE f : Is(f)
<1>1. N \in Nat /\ <<>> \in V /\ \A n \in 1..N : ids[n] \in S
  OBVIOUS
<1>2. \A s \in V, n \in 1..N : Kept(s, n) \in V
  BY <1>1, AppendProperties
<1>3. Fresh(ids, aged) = kept[N]
  BY DEF Fresh
<1> HIDE DEF N, V, Kept
<1>4. G \in [1..N -> [V -> V]]
  BY <1>2
<1>5. PICK f \in [0..N -> V] : Recurses(f, N, <<>>, G)
  <2> HIDE DEF G
  <2> QED
    BY <1>1, <1>4, Recursion
<1>6. Is(f)
  <2>1. f[0] = <<>>
    BY <1>5 DEF Recurses
  <2>2. ASSUME NEW n \in 1..N PROVE f[n] = Kept(f[n - 1], n)
    <3>1. f[n - 1] \in V
      BY <1>1
    <3>2. f[n] = G[n][f[n - 1]]
      BY <1>5 DEF Recurses
    <3> QED
      BY <3>1, <3>2
  <2> QED
    BY <1>1, <2>1, <2>2
<1>7. Is(kept)
  <2> HIDE DEF Is
  <2> QED
    BY <1>6
<1> HIDE DEF kept
<1>8. kept[0] \in V
  BY <1>1, <1>7
<1>9. ASSUME NEW n \in 1..N, kept[n - 1] \in V PROVE kept[n] \in V
  <2>1. kept[n] = Kept(kept[n - 1], n)
    BY <1>1, <1>7
  <2> QED
    BY <1>2, <1>9, <2>1
<1>10. kept[N] \in V
  <2> DEFINE Bad == {n \in 0..N : kept[n] \notin V}
  <2> SUFFICES ASSUME Bad # {} PROVE FALSE
    BY <1>1
  <2>1. Bad \in SUBSET Nat
    BY <1>1
  <2> HIDE DEF Bad
  <2>2. PICK k \in Bad : \A m \in Bad : k <= m
    BY <2>1, LeastOf
  <2> USE DEF Bad
  <2>3. k \in 1..N /\ k - 1 \notin Bad /\ k - 1 \in 0..N
    BY <1>1, <1>8, <2>2
  <2> QED
    BY <1>9, <2>2, <2>3
<1> QED
  BY <1>3, <1>10 DEF V

\* What a reader finds in the log of an archive is commits of that archive.
LEMMA LogType ==
    ASSUME TypeOK, NEW a \in Args, NEW n \in 0..visible[a]
    PROVE  LogOf(a, n) \in Seq(Found(a))
<1> DEFINE ids == FullLog[a]
           bareAt == {i \in 1..n : ids[i] \in bare}
           read == Logs[a][n][bare]
<1>1. /\ n \in 0..Len(ids) /\ n \in Nat /\ ids \in Seq(Commits) /\ bareAt \in SUBSET Nat
  BY ArchivesAssumption DEF TypeOK
<1>2. bare \in Lacking
  <2>1. bare \in SUBSET Commits /\ bare = bare \cap MayLackMessage
    BY ArchivesAssumption DEF TypeOK
  <2> QED
    BY <2>1 DEF Lacking
<1>3. \A k \in 0..n : SubSeq(ids, 1, k) \in Seq(Found(a))
  <2>1. ids \in Seq(Range(ids))
    BY <1>1 DEF Range
  <2>2. \A k \in 0..n : SubSeq(ids, 1, k) \in Seq(Range(ids))
    BY <1>1, <2>1
  <2>3. Range(ids) \subseteq Found(a)
    BY DEF Found
  <2> HIDE DEF ids
  <2> QED
    BY <2>2, <2>3
<1>4. read = IF a \notin Git \/ bareAt = {} THEN SubSeq(ids, 1, n)
             ELSE Append(SubSeq(ids, 1, Min(bareAt) - 1), Assertion)
  BY <1>1, <1>2, LogsReadInOrder
<1>5. read \in Seq(Found(a))
  <2> HIDE DEF ids, read
  <2>1. CASE a \notin Git \/ bareAt = {}
    BY <1>1, <1>3, <1>4, <2>1
  <2>2. CASE a \in Git /\ bareAt # {}
    <3>1. Min(bareAt) \in bareAt
      BY <1>1, <2>2, MinOf
    <3>2. SubSeq(ids, 1, Min(bareAt) - 1) \in Seq(Found(a))
      <4>1. Min(bareAt) - 1 \in 0..n
        BY <1>1, <3>1
      <4> QED
        BY <1>3, <4>1
    <3>3. Assertion \in Found(a)
      BY DEF Found
    <3> QED
      BY <1>4, <2>2, <3>2, <3>3, AppendProperties
  <2> QED
    BY <2>1, <2>2
<1>6. Fresh(read, old) \in Seq(Found(a))
  <2>1. Fresh(read, old) \in Seq(Found(a) \ old)
    BY <1>5, FreshType
  <2> QED
    BY <2>1
<1> QED
  BY <1>5, <1>6 DEF LogOf

\* So is what a log command that fails has printed, and its failure.
LEMMA OutputsType ==
    ASSUME TypeOK, NEW a \in Args
    PROVE  Outputs(a) \subseteq Seq(Found(a))
<1>1. visible[a] \in Nat /\ Fatal \in Found(a)
  BY DEF TypeOK, Found
<1>2. \A n \in 0..visible[a] : LogOf(a, n) \in Seq(Found(a))
  BY LogType
<1>3. \A n \in 0..visible[a] : Append(LogOf(a, n), Fatal) \in Seq(Found(a))
  BY <1>1, <1>2, AppendProperties
<1>4. LogOf(a, visible[a]) \in Seq(Found(a))
  BY <1>1, <1>2
<1> QED
  BY <1>3, <1>4 DEF Outputs

-----------------------------------------------------------------------------
(* Types *)

\* The initial state has the types.
LEMMA InitTypeInv == Init => TypeInv
<1> SUFFICES ASSUME Init PROVE TypeInv
  OBVIOUS
<1>1. \A a \in Args : Len(FullLog[a]) \in Nat
  BY ArchivesAssumption
<1>2. 0 \in 0..Len(Archives) /\ 0 \in 0..MaxAborts
  BY ArchivesAssumption
<1>3. \A S : <<>> \in Seq(S)
  BY EmptySeq
<1>4. TypeOK
  <2>1. visible \in [Args -> Nat] /\ \A a \in Args : visible[a] <= Len(FullLog[a])
    BY <1>1 DEF Init
  <2>2. members \in [Files -> SUBSET Commits]
    BY DEF Init
  <2> QED
    BY <1>2, <1>3, <2>1, <2>2 DEF Init, TypeOK
<1> QED
  BY <1>4 DEF Init, TypeInv, Control, Running

\* The end of a run, however it comes.
LEMMA QuitType ==
    ASSUME TypeInv, NoProcess, Tracking!Quit
    PROVE  /\ pc' = "ended" /\ arg' = 0
           /\ arg' \in 0..Len(Archives)
           /\ log' = <<>> /\ log' \in Seq(Commits \cup {Assertion, Fatal})
           /\ members' \in [Files -> SUBSET Commits]
           /\ current' = IF arg' = 0 THEN NoFile ELSE FileOf[arg']
<1>1. <<>> \in Seq(Commits \cup {Assertion, Fatal})
  BY EmptySeq
<1> QED
  BY <1>1, ArchivesAssumption DEF NoProcess, Tracking!Quit, TypeInv, TypeOK

\* A run that ends early, wherever it is, keeps the types.
LEMMA AbruptEndType ==
    ASSUME TypeInv, EndsAbruptly,
           UNCHANGED repository, torn' \subseteq Files,
           spool' \subseteq Commits, UNCHANGED refused,
           aborts' \in 0..MaxAborts, UNCHANGED <<offered, offeredAgain>>
    PROVE  TypeInv'
<1>1. interrupted' \subseteq Commits
  BY DEF EndsAbruptly, TypeInv, TypeOK, Control
<1>2. /\ pc' = "ended" /\ arg' = 0 /\ arg' \in 0..Len(Archives)
      /\ log' \in Seq(Commits \cup {Assertion, Fatal})
      /\ members' \in [Files -> SUBSET Commits]
      /\ current' = IF arg' = 0 THEN NoFile ELSE FileOf[arg']
  BY QuitType DEF EndsAbruptly
<1>3. UNCHANGED <<queue, done, closed>> /\ status' = "aborted"
  BY DEF EndsAbruptly, Queue!Abort
<1>4. TypeOK'
  BY <1>1, <1>2, <1>3 DEF TypeInv, TypeOK, repository
<1> QED
  BY <1>2, <1>3, <1>4 DEF TypeInv, Control, Running

\* The head of the queue is a commit.
LEMMA QueueHead ==
    ASSUME TypeOK, queue # <<>>
    PROVE  Head(queue) \in Commits /\ Tail(queue) \in Seq(Commits)
BY ElementsTail DEF TypeOK

\* While a commit is remembered a tracking file is open.
LEMMA OpenFile ==
    ASSUME TypeOK, Control, pc = "remember"
    PROVE  current \in Files
<1>1. arg # 0
  BY DEF Control
<1>2. Len(Archives) \in Nat /\ FileOf \in [Args -> Files]
  BY ArchivesAssumption
<1>3. arg \in 0..Len(Archives) /\ current = FileOf[arg]
  BY <1>1 DEF TypeOK
<1>4. arg \in Args
  BY <1>1, <1>2, <1>3 DEF Args
<1> QED
  BY <1>2, <1>3, <1>4

\* Every step of a run, and every commit that arrives, keeps the types.
LEMMA NextTypeInv == TypeInv /\ [Next]_vars => TypeInv'
<1> SUFFICES ASSUME TypeInv, [Next]_vars PROVE TypeInv'
  OBVIOUS
<1>t. TypeOK /\ Control
  BY DEF TypeInv
<1>1. CASE StartRun
  <2>1. <<>> \in Seq(Commits) /\ <<>> \in Seq(Commits \cup {Assertion, Fatal})
    BY EmptySeq
  <2>2. TypeOK'
    BY <1>1, <1>t, <2>1, ArchivesAssumption
       DEF StartRun, TypeOK, repository, tracking, server, history, Control, Running
  <2> QED
    BY <1>1, <2>2 DEF StartRun, TypeInv, Control, Running
<1>2. CASE NextArchive
  <2>1. /\ arg' \in Args /\ arg' = arg + 1 /\ arg' # 0 /\ arg' \in 0..Len(Archives)
    BY <1>2, <1>t, ArchivesAssumption DEF NextArchive, TypeOK, Args
  <2>2. log' \in Seq(Found(arg'))
    BY <1>2, <1>t, <2>1, OutputsType DEF NextArchive
  <2>3. log' \in Seq(Commits \cup {Assertion, Fatal})
    BY <2>1, <2>2, FoundInCommits
  <2>4. TypeOK'
    BY <1>2, <1>t, <2>1, <2>3
       DEF NextArchive, TypeOK, Tracking!Open, repository, posting, server, history
  <2> QED
    BY <1>2, <1>t, <2>1, <2>2, <2>4
       DEF NextArchive, TypeInv, Control, Running, posting
<1>3. CASE SkipCommit
  <2>1. arg \in Args /\ log \in Seq(Found(arg)) /\ log # <<>> /\ pc = "entry"
    BY <1>3, <1>t, ArchivesAssumption DEF SkipCommit, TypeOK, Control, Args
  <2>2. log' \in Seq(Found(arg)) /\ log' \in Seq(Commits \cup {Assertion, Fatal})
    BY <1>3, <1>t, <2>1, ElementsTail DEF SkipCommit, TypeOK
  <2>3. TypeOK'
    BY <1>3, <1>t, <2>2
       DEF SkipCommit, TypeOK, repository, tracking, posting, server, history
  <2> QED
    BY <1>3, <1>t, <2>1, <2>2, <2>3
       DEF SkipCommit, TypeInv, Control, Running, posting
<1>4. CASE PostCommit
  <2>1. Head(log) \in Commits /\ log # <<>> /\ pc = "entry" /\ pc' = "remember"
    BY <1>4 DEF PostCommit
  <2>2. queue' \in Seq(Commits)
    BY <1>4, <1>t, <2>1, AppendProperties DEF PostCommit, Queue!Enqueue, TypeOK
  <2>3. TypeOK'
    BY <1>4, <1>t, <2>1, <2>2
       DEF PostCommit, TypeOK, Queue!Enqueue, repository, tracking, server
  <2> QED
    BY <1>4, <1>t, <2>1, <2>3
       DEF PostCommit, TypeInv, Control, Running, Queue!Enqueue
<1>5. CASE RememberCommit
  <2>1. /\ arg \in Args /\ log \in Seq(Found(arg)) /\ log # <<>>
        /\ Head(log) \in Commits /\ pc = "remember"
    BY <1>5, <1>t, ArchivesAssumption DEF RememberCommit, TypeOK, Control, Args
  <2>2. log' \in Seq(Found(arg)) /\ log' \in Seq(Commits \cup {Assertion, Fatal})
    BY <1>5, <1>t, <2>1, ElementsTail DEF RememberCommit, TypeOK
  <2>3. members' \in [Files -> SUBSET Commits]
    BY <1>5, <1>t, <2>1 DEF RememberCommit, TypeOK, Tracking!Add
  <2>4. TypeOK'
    BY <1>5, <1>t, <2>2, <2>3
       DEF RememberCommit, TypeOK, Tracking!Add, repository, posting, server, history
  <2> QED
    BY <1>5, <1>t, <2>1, <2>2, <2>4
       DEF RememberCommit, TypeInv, Control, Running, posting
<1>6. CASE RememberFails \/ SeenFails
  BY <1>6, <1>t, AbruptEndType DEF RememberFails, SeenFails, TypeOK, server, repository
<1>7. CASE UnreadableEntry
  <2>1. spool' \subseteq Commits
    BY <1>7, <1>t, QueueHead DEF UnreadableEntry, TypeOK
  <2> QED
    BY <1>7, <1>t, <2>1, AbruptEndType DEF UnreadableEntry, TypeOK
<1>8. CASE EndOfLog
  BY <1>8, <1>t DEF EndOfLog, TypeInv, TypeOK, Control, Running, repository,
                    tracking, posting, server, history
<1>9. CASE CallJoin
  BY <1>9, <1>t DEF CallJoin, TypeInv, TypeOK, Control, Running, Queue!Close,
                    repository, tracking, server, history
<1>10. CASE EndRun
  <2>1. /\ pc' = "ended" /\ arg' = 0 /\ arg' \in 0..Len(Archives)
        /\ log' \in Seq(Commits \cup {Assertion, Fatal})
        /\ members' \in [Files -> SUBSET Commits]
        /\ current' = IF arg' = 0 THEN NoFile ELSE FileOf[arg']
    BY <1>10, QuitType DEF EndRun
  <2>2. TypeOK'
    BY <1>10, <1>t, <2>1 DEF EndRun, TypeOK, Queue!Finish, repository, server, history
  <2> QED
    BY <1>10, <2>1, <2>2 DEF EndRun, TypeInv, Control, Running, Queue!Finish
<1>11. CASE HandleArticle
  <2>1. queue # <<>> /\ queue \in Seq(Commits) /\ done \in Seq(Commits)
    BY <1>11, <1>t DEF HandleArticle, Queue!Handle, TypeOK
  <2>2. Head(queue) \in Commits /\ queue' \in Seq(Commits) /\ done' \in Seq(Commits)
    BY <1>11, <1>t, <2>1, QueueHead, AppendProperties DEF HandleArticle, Queue!Handle
  <2>3. TypeOK'
    BY <1>11, <1>t, <2>2
       DEF HandleArticle, TypeOK, Queue!Handle, repository, main, tracking, history
  <2> QED
    BY <1>11, <1>t, <2>3 DEF HandleArticle, TypeInv, Control, Running, Queue!Handle, main
<1>12. CASE Abort
  <2>1. spool' \subseteq Commits /\ aborts' \in 0..MaxAborts
    BY <1>12, <1>t, QueueHead, ArchivesAssumption DEF Abort, TypeOK
  <2> QED
    BY <1>12, <1>t, <2>1, AbruptEndType DEF Abort, TypeOK
<1>13. CASE TearFile
  <2>1. current \in Files
    BY <1>13, <1>t, OpenFile DEF TearFile
  <2>2. aborts' \in 0..MaxAborts /\ torn' \subseteq Files
    BY <1>13, <1>t, <2>1, ArchivesAssumption DEF TearFile, TypeOK
  <2> QED
    BY <1>13, <1>t, <2>2, AbruptEndType DEF TearFile, TypeOK, server
<1>14. ASSUME NEW a \in Args, Push(a) PROVE TypeInv'
  <2>1. /\ visible' \in [Args -> Nat]
        /\ \A b \in Args : visible'[b] <= Len(FullLog[b])
    BY <1>14, <1>t, ArchivesAssumption DEF Push, TypeOK
  <2>2. bare' \subseteq MayLackMessage
    BY <1>14, <1>t DEF Push, TypeOK
  <2>3. TypeOK'
    BY <1>14, <1>t, <2>1, <2>2
       DEF Push, TypeOK, main, tracking, posting, server, history
  <2> QED
    BY <1>14, <1>t, <2>3 DEF Push, TypeInv, Control, Running, main, posting
<1>15. ASSUME NEW c \in Commits, GrowOld(c) PROVE TypeInv'
  <2>1. TypeOK'
    BY <1>15, <1>t DEF GrowOld, TypeOK, main, tracking, posting, server, history
  <2> QED
    BY <1>15, <1>t, <2>1 DEF GrowOld, TypeInv, Control, Running, main, posting
<1>17. ASSUME NEW a \in Args, Break(a) PROVE TypeInv'
  <2>1. broken' \subseteq MayBreak
    BY <1>17, <1>t DEF Break, TypeOK
  <2>2. TypeOK'
    BY <1>17, <1>t, <2>1 DEF Break, TypeOK, main, tracking, posting, server, history
  <2> QED
    BY <1>17, <1>t, <2>2 DEF Break, TypeInv, Control, Running, main, posting
<1>16. CASE UNCHANGED vars
  BY <1>16, <1>t DEF vars, TypeInv, TypeOK, Control, Running
<1> QED
  BY <1>1, <1>2, <1>3, <1>4, <1>5, <1>6, <1>7, <1>8, <1>9, <1>10, <1>11,
     <1>12, <1>13, <1>14, <1>15, <1>16, <1>17 DEF Next, RunStep

\* Every variable of the gateway keeps its type, and the tracking file that is
\* open is the one of the archive being processed, over all runs.
THEOREM GatewayTypeCorrect == Spec => []TypeOK
<1>1. TypeInv => TypeOK
  BY DEF TypeInv
<1> QED
  BY InitTypeInv, NextTypeInv, <1>1, PTL DEF Spec

-----------------------------------------------------------------------------
(* Commits on their way: offered, queued, settled, remembered *)

\* The commit between post() and remember().
Pending == IF pc = "remember" THEN {Head(log)} ELSE {}

\* A tracking file has commits of the archives it belongs to, and no others.
Origins ==
    \A f \in Files : \A c \in members[f] :
        \E a \in Args : FileOf[a] = f /\ c \in Range(FullLog[a])

\* What was offered is remembered, or about to be, or its run died in between.
Accounted == offered \subseteq Remembered \cup interrupted \cup Pending

\* What is queued, or was dealt with by the server, was offered.
OnlyOffered == InQueue \cup Settled \subseteq offered

\* The commit between post() and remember() is queued or dealt with already.
PendingQueued == Pending \subseteq InQueue \cup Settled

Ledger == Origins /\ Accounted /\ OnlyOffered /\ PendingQueued /\ OfferedOnce

Inv == TypeInv /\ Ledger

\* Nothing is offered initially, so the ledger holds.
LEMMA InitInv == Init => Inv
<1> SUFFICES ASSUME Init PROVE Inv
  OBVIOUS
<1>1. InQueue = {}
  BY DEF Init, InQueue
<1> QED
  BY <1>1, InitTypeInv
     DEF Init, Inv, Ledger, Origins, Accounted, OnlyOffered, PendingQueued,
         OfferedOnce, Pending, Settled, Remembered

\* What is in the queue after post(), and before the poster has dealt with its
\* head.
LEMMA EnqueueAdds ==
    ASSUME TypeOK, NEW c \in Commits, Queue!Enqueue(c)
    PROVE  InQueue' = InQueue \cup {c}
<1>1. queue \in Seq(Commits) /\ queue' = Append(queue, c)
  BY DEF TypeOK, Queue!Enqueue
<1>2. Elements(queue') = Elements(queue) \cup {c}
  BY <1>1, ElementsAppend
<1> QED
  BY <1>2 DEF InQueue, Elements

\* The poster takes the head of the queue and nothing else out of it.
LEMMA HandleRemoves ==
    ASSUME TypeOK, Queue!Handle
    PROVE  InQueue = {Head(queue)} \cup InQueue'
<1>1. queue \in Seq(Commits) /\ queue # <<>> /\ queue' = Tail(queue)
  BY DEF TypeOK, Queue!Handle
<1>2. Elements(queue) = {Head(queue)} \cup Elements(queue')
  BY <1>1, ElementsTail
<1> QED
  BY <1>2 DEF InQueue, Elements

\* A step that leaves the lists, the files and the server alone.
LEMMA SameLedger ==
    ASSUME Ledger, Pending' = Pending,
           UNCHANGED <<members, queue, spool, refused, offered, offeredAgain, interrupted>>
    PROVE  Ledger'
BY DEF Ledger, Origins, Accounted, OnlyOffered, PendingQueued, OfferedOnce,
       Settled, Remembered, InQueue

\* The end of a run: what was pending is interrupted, and the server may have
\* taken the head of the queue.
LEMMA AbruptEndLedger ==
    ASSUME Inv, EndsAbruptly,
           spool' = spool \/ (queue # <<>> /\ spool' = spool \cup {Head(queue)}),
           UNCHANGED <<refused, offered, offeredAgain>>
    PROVE  Ledger'
<1>1. /\ interrupted' = interrupted \cup Pending
      /\ Pending' = {} /\ UNCHANGED <<members, queue>>
  BY DEF EndsAbruptly, Pending, NoProcess, Tracking!Quit, Queue!Abort
<1>2. InQueue' = InQueue /\ Remembered' = Remembered
  BY <1>1 DEF InQueue, Remembered
<1>3. queue # <<>> => Head(queue) \in InQueue
  BY ElementsTail DEF Inv, TypeInv, TypeOK, InQueue, Elements
<1>4. Settled \subseteq Settled' /\ Settled' \subseteq Settled \cup InQueue
  BY <1>3 DEF Settled
<1> QED
  BY <1>1, <1>2, <1>4
     DEF Inv, Ledger, Origins, Accounted, OnlyOffered, PendingQueued, OfferedOnce

\* Every step keeps types and ledger.
LEMMA NextInv == Inv /\ [Next]_vars => Inv'
<1> SUFFICES ASSUME Inv, [Next]_vars PROVE Ledger'
  BY NextTypeInv DEF Inv
<1>t. TypeOK /\ Control /\ Ledger
  BY DEF Inv, TypeInv
<1>1. CASE StartRun
  <2>1. /\ InQueue' = {} /\ Pending = {} /\ Pending' = {}
        /\ Settled' = Settled /\ Remembered' = Remembered
    BY <1>1 DEF StartRun, InQueue, Pending, Settled, Remembered, tracking, server
  <2> QED
    BY <1>1, <1>t, <2>1
       DEF StartRun, tracking, server, history, Ledger, Origins, Accounted,
           OnlyOffered, PendingQueued, OfferedOnce
<1>2. CASE NextArchive \/ SkipCommit \/ EndOfLog \/ CallJoin
  <2>1. Pending = {} /\ Pending' = {}
    BY <1>2 DEF NextArchive, SkipCommit, EndOfLog, CallJoin, Pending
  <2> QED
    BY <1>2, <1>t, <2>1, SameLedger
       DEF NextArchive, SkipCommit, EndOfLog, CallJoin, Tracking!Open, Queue!Close,
           tracking, posting, server, history
<1>3. CASE PostCommit
  <2> DEFINE c == Head(log)
  <2>1. /\ c \in Commits /\ log # <<>> /\ c \notin members[current]
        /\ pc = "entry" /\ Pending = {} /\ Pending' = {c}
        /\ offered' = offered \cup {c}
        /\ offeredAgain' = offeredAgain \cup ({c} \cap offered)
        /\ UNCHANGED <<members, spool, refused, interrupted>>
    BY <1>3 DEF PostCommit, Pending, tracking, server
  <2>2. /\ InQueue' = InQueue \cup {c}
        /\ Settled' = Settled /\ Remembered' = Remembered
    BY <1>3, <1>t, <2>1, EnqueueAdds DEF PostCommit, Settled, Remembered
  \* Were c remembered it would be in the open file: the archives that have it
  \* share one.
  <2>3. c \notin Remembered
    <3>1. arg \in Args /\ current = FileOf[arg] /\ log \in Seq(Found(arg))
      BY <1>t, <2>1, ArchivesAssumption DEF TypeOK, Control, Args
    <3>2. c \in Range(FullLog[arg])
      <4>1. c \in Found(arg)
        BY <2>1, <3>1, ElementsTail
      <4> QED
        BY <2>1, <4>1, ArchivesAssumption DEF Found
    <3>3. SUFFICES ASSUME NEW f \in Files, c \in members[f] PROVE FALSE
      BY DEF Remembered
    <3>4. PICK a \in Args : FileOf[a] = f /\ c \in Range(FullLog[a])
      BY <1>t, <3>3 DEF Ledger, Origins
    <3>5. FileOf[a] = FileOf[arg]
      BY <3>1, <3>2, <3>4, SharingAssumption
    <3> QED
      BY <2>1, <3>1, <3>3, <3>4, <3>5
  <2>4. c \in offered => c \in interrupted
    BY <1>t, <2>1, <2>3 DEF Ledger, Accounted
  <2> QED
    BY <1>t, <2>1, <2>2, <2>4
       DEF Ledger, Origins, Accounted, OnlyOffered, PendingQueued, OfferedOnce
<1>4. CASE RememberCommit
  <2> DEFINE c == Head(log)
  <2>1. /\ pc = "remember" /\ Pending = {c} /\ Pending' = {}
        /\ log # <<>> /\ c \in Commits
        /\ UNCHANGED <<queue, spool, refused, offered, offeredAgain, interrupted>>
    BY <1>4, <1>t DEF RememberCommit, Pending, Control, posting, server, history
  <2>2. /\ arg \in Args /\ current = FileOf[arg] /\ current \in Files
        /\ log \in Seq(Found(arg))
    <3>1. arg \in Args /\ current = FileOf[arg] /\ log \in Seq(Found(arg))
      BY <1>t, <2>1, ArchivesAssumption DEF TypeOK, Control, Args
    <3> QED
      BY <3>1, ArchivesAssumption
  <2>3. /\ members'[current] = members[current] \cup {c}
        /\ \A f \in Files : f # current => members'[f] = members[f]
    BY <1>4, <1>t, <2>2 DEF RememberCommit, Tracking!Add, TypeOK
  <2>4. c \in Range(FullLog[arg])
    <3>1. c \in Found(arg)
      BY <2>1, <2>2, ElementsTail
    <3> QED
      BY <2>1, <3>1, ArchivesAssumption DEF Found
  <2>5. Origins'
    BY <1>t, <2>2, <2>3, <2>4 DEF Ledger, Origins
  <2>6. Remembered' = Remembered \cup {c}
    BY <2>2, <2>3 DEF Remembered
  <2>7. InQueue' = InQueue /\ Settled' = Settled
    BY <2>1 DEF InQueue, Settled
  <2> QED
    BY <1>t, <2>1, <2>5, <2>6, <2>7
       DEF Ledger, Accounted, OnlyOffered, PendingQueued, OfferedOnce
<1>5. CASE RememberFails \/ SeenFails \/ UnreadableEntry \/ Abort \/ TearFile
  BY <1>5, AbruptEndLedger DEF RememberFails, SeenFails, UnreadableEntry, Abort, TearFile, server
<1>6. CASE EndRun
  <2>1. Pending = {} /\ Pending' = {}
    BY <1>6 DEF EndRun, NoProcess, Pending
  <2> QED
    BY <1>6, <1>t, <2>1, SameLedger
       DEF EndRun, Queue!Finish, Tracking!Quit, server, history
<1>7. CASE HandleArticle
  <2>1. /\ queue # <<>> /\ queue' = Tail(queue)
        /\ UNCHANGED <<pc, log, members, offered, offeredAgain, interrupted>>
    BY <1>7 DEF HandleArticle, Queue!Handle, main, tracking, history
  <2>2. InQueue = {Head(queue)} \cup InQueue'
    BY <1>7, <1>t, HandleRemoves DEF HandleArticle
  <2>3. Settled' = Settled \cup {Head(queue)}
    BY <1>7 DEF HandleArticle, Settled
  <2>4. Pending' = Pending /\ Remembered' = Remembered
    BY <2>1 DEF Pending, Remembered
  <2> QED
    BY <1>t, <2>1, <2>2, <2>3, <2>4
       DEF Ledger, Origins, Accounted, OnlyOffered, PendingQueued, OfferedOnce
<1>8. ASSUME UNCHANGED <<pc, log, members, queue, spool, refused, offered,
                         offeredAgain, interrupted>>
      PROVE  Ledger'
  <2>1. Pending' = Pending
    BY <1>8 DEF Pending
  <2> QED
    BY <1>t, <1>8, <2>1, SameLedger
<1>9. ASSUME NEW a \in Args, Push(a) \/ Break(a) PROVE Ledger'
  BY <1>8, <1>9 DEF Push, Break, main, tracking, posting, server, history
<1>10. ASSUME NEW c \in Commits, GrowOld(c) PROVE Ledger'
  BY <1>8, <1>10 DEF GrowOld, main, tracking, posting, server, history
<1>11. CASE UNCHANGED vars
  BY <1>8, <1>11 DEF vars
<1> QED
  BY <1>1, <1>2, <1>3, <1>4, <1>5, <1>6, <1>7, <1>9, <1>10, <1>11 DEF Next, RunStep

\* However many archives, branches and runs come across a commit, it is offered
\* once, unless a run died between post() and remember().
THEOREM OffersOnce == Spec => []OfferedOnce
<1>1. Inv => OfferedOnce
  BY DEF Inv, Ledger
<1> QED
  BY InitInv, NextInv, <1>1, PTL DEF Spec

\* Outside that window the tracking files have everything that is on the server
\* or was turned down, so that no later run offers it again.
THEOREM SettledStaysRemembered == Spec => []SettledIsRemembered
<1>1. Inv => SettledIsRemembered
  BY DEF Inv, Ledger, Accounted, OnlyOffered, Pending, SettledIsRemembered
<1> QED
  BY InitInv, NextInv, <1>1, PTL DEF Spec

\* The commits that count as posted and are not: only the end of a run can add
\* to them, and only what was in its queue.
THEOREM LossesComeFromQueue == Spec => LostOnlyFromQueue
<1> DEFINE Loss == \A c \in LostCommits' \ LostCommits :
                      status = "open" /\ status' = "aborted" /\ c \in InQueue
<1>1. ASSUME Inv, [Next]_vars PROVE [Loss]_vars
  <2>t. TypeOK /\ Control /\ Ledger
    BY <1>1 DEF Inv, TypeInv
  <2>1. CASE StartRun
    <3>1. InQueue' = {} /\ Settled' = Settled /\ Remembered' = Remembered
      BY <2>1 DEF StartRun, InQueue, Settled, Remembered, tracking, server
    <3>2. status # "open"
      BY <2>1, <2>t DEF StartRun, Control, Running
    <3> QED
      BY <3>1, <3>2 DEF LostCommits
  <2>2. CASE \/ NextArchive \/ SkipCommit \/ EndOfLog \/ CallJoin
             \/ (\E a \in Args : Push(a) \/ Break(a)) \/ (\E c \in Commits : GrowOld(c))
             \/ UNCHANGED vars
    <3>1. UNCHANGED <<members, queue, spool, refused, status>>
      BY <2>2 DEF NextArchive, SkipCommit, EndOfLog, CallJoin, Push, Break, GrowOld, vars,
                  Tracking!Open, Queue!Close, tracking, posting, server
    <3> QED
      BY <3>1 DEF LostCommits, Settled, Remembered, InQueue
  <2>3. CASE PostCommit
    <3>1. UNCHANGED <<members, spool, refused, status>>
      BY <2>3 DEF PostCommit, Queue!Enqueue, tracking, server
    <3>2. InQueue \subseteq InQueue'
      BY <2>3, <2>t, EnqueueAdds DEF PostCommit
    <3> QED
      BY <3>1, <3>2 DEF LostCommits, Settled, Remembered
  <2>4. CASE RememberCommit
    <3>1. /\ pc = "remember" /\ Pending = {Head(log)} /\ status = "open"
          /\ UNCHANGED <<queue, spool, refused, status>>
          /\ current \in Files
      BY <2>4, <2>t, OpenFile DEF RememberCommit, Pending, Control, Running, posting, server
    <3>2. Remembered' \subseteq Remembered \cup {Head(log)}
      BY <2>4, <2>t, <3>1 DEF RememberCommit, Tracking!Add, TypeOK, Remembered
    <3>3. InQueue' = InQueue /\ Settled' = Settled
      BY <3>1 DEF InQueue, Settled
    <3>4. Head(log) \in InQueue \cup Settled
      BY <2>t, <3>1 DEF Ledger, PendingQueued
    <3> QED
      BY <3>1, <3>2, <3>3, <3>4 DEF LostCommits
  <2>5. CASE RememberFails \/ SeenFails \/ UnreadableEntry \/ Abort \/ TearFile
    <3>1. /\ status = "open" /\ status' = "aborted"
          /\ UNCHANGED <<members, refused>> /\ spool \subseteq spool'
      BY <2>5 DEF RememberFails, SeenFails, UnreadableEntry, Abort, TearFile,
                  EndsAbruptly, Queue!Abort, Tracking!Quit, server
    <3>2. Remembered' = Remembered /\ Settled \subseteq Settled'
      BY <3>1 DEF Remembered, Settled
    <3> QED
      BY <3>1, <3>2 DEF LostCommits
  <2>6. CASE EndRun
    <3>1. queue = <<>> /\ UNCHANGED <<members, spool, refused>>
      BY <2>6 DEF EndRun, Queue!Finish, Tracking!Quit, server
    <3>2. InQueue = {} /\ Settled' = Settled /\ Remembered' = Remembered
      BY <3>1 DEF InQueue, Settled, Remembered
    <3> QED
      BY <3>2 DEF LostCommits
  <2>7. CASE HandleArticle
    <3>1. queue # <<>> /\ queue' = Tail(queue) /\ UNCHANGED <<members, status>>
      BY <2>7 DEF HandleArticle, Queue!Handle, tracking
    <3>2. InQueue = {Head(queue)} \cup InQueue'
      BY <2>7, <2>t, HandleRemoves DEF HandleArticle
    <3>3. Settled' = Settled \cup {Head(queue)} /\ Remembered' = Remembered
      BY <2>7, <3>1 DEF HandleArticle, Settled, Remembered
    <3> QED
      BY <3>1, <3>2, <3>3 DEF LostCommits
  <2> QED
    BY <1>1, <2>1, <2>2, <2>3, <2>4, <2>5, <2>6, <2>7 DEF Next, RunStep
<1> QED
  BY InitInv, NextInv, <1>1, PTL DEF Spec, LostOnlyFromQueue
===============================================================================
