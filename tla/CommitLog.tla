------------------------------ MODULE CommitLog ------------------------------
(***************************************************************************)
(* gateways/bzr2news.c: how the output of `git log' and of `bzr log' is     *)
(* taken apart, line by line, into the entries that post_log() gets.  A    *)
(* line is a kind, a name and a text; of a text matters only whether it is *)
(* Empty.  A message is the sequence of its lines.                         *)
(***************************************************************************)
EXTENDS Integers, Sequences, SequencesExt

CONSTANTS
    Empty,      \* the text of a line with nothing on it
    NULL,       \* a field of a logentry that was not set
    Assertion,  \* instead of a commit: assert(message != NULL) ends the program
    Fatal       \* fatal() does

\* The names that header() knows.
HeaderNames == {"message", "branch nick", "committer", "Author", "revno",
                "timestamp", "Date", "commit", "revision-id"}

\* What is not there is neither a name nor a number.
ASSUME FieldsAssumption ==
    {NULL, Empty} \cap HeaderNames = {} /\ NULL \notin Nat /\ Empty \notin Nat

Line(kind, name, text) == [kind |-> kind, name |-> name, text |-> text]
Header(name, text)     == Line("header", name, text)     \* at the line's start
Text(text)             == Line("text", Empty, text)      \* after white space
Blank                  == Line("text", Empty, Empty)
Divider                == Line("divider", Empty, Empty)  \* "----"
Bogus                  == Line("bogus", Empty, Empty)    \* without a colon

\* What `git log' prints for a commit, and between two of them.
GitPrinted(c) ==
    <<Header("commit", c.id), Header("Author", c.author), Header("Date", c.date), Blank>>
    \o [n \in DOMAIN c.message |-> Text(c.message[n])]
    \o (IF c.note = Empty THEN <<>> ELSE <<Blank, Header("Notes", Empty), Text(c.note)>>)
    \o (IF c.message = <<>> /\ c.note = Empty THEN <<>> ELSE <<Blank>>)

\* What `bzr log' prints for a revision; a merge is announced at the end.
BzrPrinted(c) ==
    <<Divider, Header("revno", c.revno), Header("revision-id", c.id),
      Header("committer", c.author), Header("branch nick", c.branch),
      Header("timestamp", c.date), Header("message", Empty)>>
    \o [n \in DOMAIN c.message |-> Text(c.message[n])]
BzrMerges == <<Divider, Line("merges", Empty, Empty)>>

-----------------------------------------------------------------------------
(* The entry being read *)

NoEntry == [revno |-> 0, commitid |-> NULL, timestamp |-> 0, branch |-> NULL,
            committer |-> NULL, message |-> NULL]

\* Trailing white space is taken off.
Trimmed(message) ==
    LET full == {n \in DOMAIN message : message[n] # Empty}
    IN SubSeq(message, 1, IF full = {} THEN 0 ELSE CHOOSE n \in full : \A k \in full : k <= n)

\* header(): the fields post_log() uses.
header(l, name, text) ==
    CASE name = "message"                 -> [l EXCEPT !.message = Trimmed(text)]
      [] name = "branch nick"             -> [l EXCEPT !.branch = text]
      [] name \in {"committer", "Author"} -> [l EXCEPT !.committer = text]
      [] name = "revno"                   -> [l EXCEPT !.revno = text]
      [] name \in {"timestamp", "Date"}   -> [l EXCEPT !.timestamp = text]
      [] name \in {"commit", "revision-id"} -> [l EXCEPT !.commitid = text]
      [] OTHER                            -> l

-----------------------------------------------------------------------------
(* process_git_archive() *)

\* complete_git_commit(): what has no commit ID is dropped.  (How old it is is
\* looked at when the entry is posted.)
Complete(s, dir) ==
    LET l == header(header(s.l, "branch nick", dir), "message", s.message)
    IN [s EXCEPT !.l = NoEntry, !.message = NULL,
                 !.entries = IF l.commitid = NULL THEN @
                             ELSE Append(@, [l EXCEPT !.revno = -1])]

\* The program ends: no entry follows.
Failed(s, why) ==
    [s EXCEPT !.state = "failed", !.entries = Append(@, [NoEntry EXCEPT !.commitid = why])]

CollectHeader(s, line) ==
    [s EXCEPT !.state = "header", !.l = header(@, line.name, line.text)]

\* Lines of the message are kept from the first one that is not blank.
Comment(s, line) ==
    [s EXCEPT !.state = "comment",
              !.message = IF @ = NULL THEN IF line = Blank THEN NULL ELSE <<line.text>>
                          ELSE Append(@, line.text)]

\* The body of the loop.
GitLine(s, line, dir) ==
    CASE s.state = "failed"                            -> s
      [] s.state = "initial" /\ line.kind = "text"     -> s
      [] s.state = "comment" /\ line.kind = "header"   ->
            IF s.message = NULL THEN Failed(s, Assertion)
            ELSE CollectHeader(Complete(s, dir), line)
      [] s.state \in {"initial", "header"} /\ line.kind = "header" -> CollectHeader(s, line)
      [] s.state \in {"header", "comment"} /\ line.kind = "text"   -> Comment(s, line)

\* The loop.
GitStart == [state |-> "initial", l |-> NoEntry, message |-> NULL, entries |-> <<>>]

GitRead(lines, dir) ==
    LET after[n \in 0..Len(lines)] ==
            IF n = 0 THEN GitStart ELSE GitLine(after[n - 1], lines[n], dir)
    IN after[Len(lines)]

\* The entries of a log, in order, up to an assertion that fails.
GitEntries(lines, dir) ==
    LET last == GitRead(lines, dir)
    IN IF last.state = "failed" \/ last.l.commitid = NULL THEN last.entries
       ELSE IF last.message = NULL THEN Failed(last, Assertion).entries
       ELSE Complete(last, dir).entries

-----------------------------------------------------------------------------
(* process_bzr_archive() *)

\* The header whose lines have been collected, if there is one; only of a
\* message is more than the first of them kept.
HeaderRead(s) ==
    CASE s.name = NULL                          -> s.l
      [] s.name = "message"                     -> header(s.l, s.name, s.text)
      [] s.name \notin {NULL, "message"} /\ s.text = <<>> -> header(s.l, s.name, Empty)
      [] s.name \notin {NULL, "message"} /\ s.text # <<>> -> header(s.l, s.name, Head(s.text))

\* The end of read_bzr_log().
EntryRead(s) ==
    LET l == HeaderRead(s)
    IN IF l.revno = 0 \/ l.timestamp = 0 \/ l.branch = NULL \/ l.message = NULL
       THEN Failed(s, Fatal)
       ELSE [state |-> "dividers", l |-> NoEntry, name |-> NULL, text |-> <<>>,
             entries |-> Append(s.entries, l)]

\* The lines of a header, from what is on the line of its name.
Begun(line) == IF line.text = Empty THEN <<>> ELSE <<line.text>>

BzrLine(s, line) ==
    CASE s.state = "failed" -> s
      [] s.state = "dividers" /\ line.kind \in {"divider", "merges"} -> s
      [] s.state = "entry" /\ line.kind = "divider" -> EntryRead(s)
      [] s.state # "failed" /\ line.kind = "header" ->
            [s EXCEPT !.state = "entry", !.l = HeaderRead(s),
                      !.name = line.name, !.text = Begun(line)]
      [] s.state # "failed" /\ line.kind = "text" ->
            IF s.name = NULL THEN Failed(s, Fatal)
            ELSE [s EXCEPT !.text = Append(@, line.text)]
      [] \/ s.state # "failed" /\ line.kind = "bogus"
         \/ s.state = "entry" /\ line.kind = "merges" -> Failed(s, Fatal)

BzrStart == [state |-> "dividers", l |-> NoEntry, name |-> NULL, text |-> <<>>,
             entries |-> <<>>]

BzrRead(lines) ==
    LET after[n \in 0..Len(lines)] ==
            IF n = 0 THEN BzrStart ELSE BzrLine(after[n - 1], lines[n])
    IN after[Len(lines)]

BzrEntries(lines) ==
    LET last == BzrRead(lines)
    IN IF last.state = "entry" THEN EntryRead(last).entries ELSE last.entries

-----------------------------------------------------------------------------
(* post_log() *)

\* How much of the message becomes the Subject, from the lengths of its first
\* line, of what follows it and of the branch's name: a negative precision
\* means none, and then all of the message does.
SubjectLength(line, rest, branch) ==
    IF line <= 58 - branch THEN line
    ELSE IF branch <= 58 THEN 58 - branch ELSE line + rest
==============================================================================
