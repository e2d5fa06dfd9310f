-------------------------------- MODULE Lj2News --------------------------------
(***************************************************************************)
(* gateways/lj2news.c: one run over the URLs of the command line.  A curl  *)
(* thread fetches a feed and sends its body through a pipe to the main     *)
(* thread, once the HTTP headers are to its liking; the main thread parses *)
(* the body and, for each item, has a lynx child render the description,   *)
(* fed by a thread of its own.  Articles go to the poster, which is        *)
(* PostQueue here.                                                         *)
(*                                                                         *)
(* Bytes come in pieces: a token of XML in the URL pipe, a bufferful in    *)
(* the pipes to and from lynx.  The server, curl's choice of when to fail  *)
(* or to follow a redirect, and lynx are external.                         *)
(*                                                                         *)
(* History: `answers' has the last response to each URL, `proxied' the     *)
(* URLs for which a 2xx response was not the last one (a proxy's answer to *)
(* CONNECT), `taken' the number of tokens parsed of the current URL.       *)
(***************************************************************************)
EXTENDS Integers, Sequences, SequencesExt

CONSTANTS
    Feeds,                  \* what the URLs of a command line may hold: a
                            \* sequence of documents, sequences of tokens
    StartDate,              \* -D, 0 if not given
    DateOf,                 \* rfc822date_to_time_t(), for the dates in Feeds
    Blanks, LongStarts,     \* what lynx may write that fgets() sees as blank,
                            \* and as a part of a line without its end
    MaxHops,                \* bound on the responses before the last one
    Proxies,                \* {TRUE} if there may be a proxy, or {FALSE}
    UrlPipeSize, PipeSize,  \* capacity of the pipes
    LynxBuffer,             \* how far lynx reads ahead of its output
    None

\* What expat makes of a document.
Tokens == [kind : {"open", "close"}, name : STRING] \cup [kind : {"text"}, text : STRING]

ASSUME Lj2NewsAssumption ==
    /\ Feeds \subseteq Seq(Seq(Tokens))
    /\ Blanks \subseteq STRING
    /\ StartDate \in Nat
    /\ MaxHops \in Nat
    /\ UrlPipeSize \in Nat \ {0} /\ PipeSize \in Nat \ {0}
    /\ LynxBuffer \in Nat \ {0}
    /\ Proxies \in SUBSET BOOLEAN

VARIABLES
    docs,                   \* external: the document at each URL
    \* main thread
    pc, url, rc,
    stack,                  \* expat: the open elements
    item, subitem, elements,
    article,                \* the article being put together
    \* curl thread
    curl, http, answer, hops, sent,
    urlPipe,
    \* rendering: the writer thread's rest, the pipes, and lynx
    description, inPipe, inWriters, outPipe, outWriters, lynx, unwritten,
    \* the poster
    queue, done, closed, status,
    \* history
    answers, proxied, taken

parser == <<stack, item, subitem, elements>>
main == <<pc, url, rc, parser, article>>
fetch == <<curl, http, answer, hops, sent>>
render == <<description, inPipe, inWriters, outPipe, outWriters, lynx, unwritten>>
posting == <<queue, done, closed, status>>
history == <<answers, proxied, taken>>
vars == <<docs, pc, url, rc, stack, item, subitem, elements, article, curl, http,
          answer, hops, sent, urlPipe, description, inPipe, inWriters,
          outPipe, outWriters, lynx, unwritten, queue, done, closed, status,
          answers, proxied, taken>>

Urls == DOMAIN docs

Queue == INSTANCE PostQueue WITH Jobs <- {}

NoAnswer == [class |-> "none", ctype |-> "none"]
NoArticle == [id |-> None, subject |-> None, date |-> None, url |-> None,
              keywords |-> <<>>, body |-> <<>>]

Init ==
    /\ docs \in Feeds
    /\ pc = "next" /\ url = 0 /\ rc = 0
    /\ stack = <<>> /\ item = 0 /\ subitem = 0 /\ elements = <<>>
    /\ article = NoArticle
    /\ curl = "ended" /\ http = "INITIAL" /\ answer = NoAnswer
    /\ hops = 0 /\ sent = 0 /\ urlPipe = <<>>
    /\ description = <<>> /\ inPipe = <<>> /\ inWriters = {}
    /\ outPipe = <<>> /\ outWriters = {} /\ lynx = "none" /\ unwritten = <<>>
    /\ Queue!Init
    /\ answers = [u \in Urls |-> NoAnswer] /\ proxied = {} /\ taken = 0

Running == status = "open"

\* fatal() in any thread, or SIGPIPE.
Die == Queue!Abort /\ UNCHANGED <<main, fetch, urlPipe, render, history>>

-------------------------------------------------------------------------------
(* The curl thread.                                                        *)

\* set_http_state(): ERROR and OK are for good.  It signals main, which
\* waits for either.
SetHttpState(s) == http' = IF http \in {"ERROR", "OK"} THEN http ELSE s

FetchStep == Running /\ UNCHANGED <<main, render, posting, taken>>

\* Mutant of StatusLine: a redirection counts as success.
StatusLineRedirect(class) ==
    /\ FetchStep
    /\ curl = "connect"
    /\ answer' = [class |-> class, ctype |-> "none"]
    /\ CASE class = "4xx" -> SetHttpState("ERROR")
         [] class \in {"2xx", "3xx"} -> SetHttpState("FINAL")
         [] OTHER -> UNCHANGED http
    /\ curl' = "header"
    /\ UNCHANGED <<hops, sent, urlPipe, answers, proxied>>

\* writeheader() gets the first line of a response.  4xx stands for 5xx too,
\* and 1xx for anything else.
StatusLine(class) ==
    /\ FetchStep
    /\ curl = "connect"
    /\ answer' = [class |-> class, ctype |-> "none"]
    /\ CASE class = "4xx" -> SetHttpState("ERROR")
         [] class = "2xx" -> SetHttpState("FINAL")
         [] OTHER -> UNCHANGED http
    /\ curl' = "header"
    /\ UNCHANGED <<hops, sent, urlPipe, answers, proxied>>

\* A Content-Type line, which counts in the final response only.
ContentType(ctype) ==
    /\ FetchStep
    /\ curl = "header" /\ answer.ctype = "none"
    /\ answer' = [answer EXCEPT !.ctype = ctype]
    /\ IF http = "FINAL" /\ ctype # "xml" THEN SetHttpState("ERROR")
                                          ELSE UNCHANGED http
    /\ UNCHANGED <<curl, hops, sent, urlPipe, answers, proxied>>

BlankLine == IF http = "FINAL" THEN SetHttpState("OK") ELSE UNCHANGED http

\* Another response follows: after 1xx always, after 3xx if curl is told where
\* to go, after 2xx if it was a proxy's to CONNECT, which has no body.
NextResponse ==
    /\ FetchStep
    /\ curl = "header" /\ hops < MaxHops
    /\ \/ answer.class \in {"1xx", "3xx"}
       \/ answer.class = "2xx" /\ answer.ctype = "none" /\ TRUE \in Proxies
    /\ BlankLine
    /\ hops' = hops + 1
    /\ curl' = "connect"
    /\ proxied' = IF answer.class = "2xx" THEN proxied \cup {url} ELSE proxied
    /\ UNCHANGED <<answer, sent, urlPipe, answers>>

\* This was the last response, and its body follows.
LastResponse ==
    /\ FetchStep
    /\ curl = "header"
    /\ BlankLine
    /\ curl' = "body"
    /\ answers' = [answers EXCEPT ![url] = answer]
    /\ UNCHANGED <<answer, hops, sent, urlPipe, proxied>>

\* The feed comes with a 2xx, and one piece that is no XML with anything else.
BodyLength == IF answer.class = "2xx" THEN Len(docs[url]) ELSE 1

\* writedata() sends a piece through the pipe, if it is liked, and waits while
\* the pipe is full; otherwise to stderr or nowhere.
WriteData ==
    /\ FetchStep
    /\ curl = "body" /\ sent < BodyLength
    /\ \/ /\ http = "OK" /\ Len(urlPipe) < UrlPipeSize
          /\ urlPipe' = Append(urlPipe,
                <<url, IF answer.class = "2xx" THEN sent + 1 ELSE 0>>)
       \/ http # "OK" /\ UNCHANGED urlPipe
    /\ sent' = sent + 1
    /\ UNCHANGED <<curl, http, answer, hops, answers, proxied>>

\* curl_easy_perform() is content, though the body may be cut off, and the
\* thread closes its end of the pipe.
FetchEnds ==
    /\ FetchStep
    /\ curl = "body"
    /\ curl' = "ended"
    /\ UNCHANGED <<http, answer, hops, sent, urlPipe, answers, proxied>>

\* It is not: no connection, a timeout, a partial body.
FetchFails == curl # "ended" /\ Die

Curl ==
    \/ \E class \in {"1xx", "2xx", "3xx", "4xx"} : StatusLine(class)
    \/ \E ctype \in {"xml", "other"} : ContentType(ctype)
    \/ NextResponse \/ LastResponse \/ WriteData \/ FetchEnds

-------------------------------------------------------------------------------
(* The main thread: URLs and the parser's callbacks.                       *)

StartUrl ==
    /\ Running
    /\ pc = "next" /\ url < Len(docs)
    /\ url' = url + 1
    /\ pc' = "await"
    /\ curl' = "connect" /\ http' = "INITIAL" /\ answer' = NoAnswer
    /\ hops' = 0 /\ sent' = 0 /\ urlPipe' = <<>> /\ taken' = 0
    /\ UNCHANGED <<rc, parser, article, render, posting, answers, proxied>>

\* XML_ParserReset() and a fresh start, but for the subelements.
StartParse ==
    /\ Running
    /\ pc = "await" /\ http = "OK"
    /\ pc' = "parse"
    /\ stack' = <<>> /\ item' = 0
    /\ UNCHANGED <<url, rc, subitem, elements, article, fetch, urlPipe, render,
                   posting, history>>

GiveUpUrl ==
    /\ Running
    /\ pc = "await" /\ http = "ERROR"
    /\ rc' = 1
    /\ pc' = "join"
    /\ UNCHANGED <<url, parser, article, fetch, urlPipe, render, posting, history>>

\* start_element(), end_element() and character_data().  The newest of the
\* elements is first.
StartElement(name) ==
    /\ stack' = Append(stack, name)
    /\ pc' = "parse"
    /\ CASE name = "item" ->
              item' = item + 1 /\ elements' = <<>> /\ UNCHANGED subitem
         [] name # "item" /\ item > 0 ->
              /\ elements' = <<[name |-> name, value |-> <<>>]>> \o elements
              /\ subitem' = subitem + 1
              /\ UNCHANGED item
         [] OTHER -> UNCHANGED <<item, subitem, elements>>

\* Mutant of EndElement: </item> counts as the end of a subelement.
EndElementOfAny(name) ==
    /\ stack' = Front(stack)
    /\ subitem' = IF item > 0 THEN subitem - 1 ELSE subitem
    /\ IF name = "item" THEN item' = item - 1 /\ pc' = "process"
                        ELSE pc' = "parse" /\ UNCHANGED item
    /\ UNCHANGED elements

EndElement(name) ==
    /\ stack' = Front(stack)
    /\ IF name = "item"
       THEN item' = item - 1 /\ pc' = "process" /\ UNCHANGED subitem
       ELSE /\ subitem' = IF item > 0 THEN subitem - 1 ELSE subitem
            /\ pc' = "parse" /\ UNCHANGED item
    /\ UNCHANGED elements

CharacterData(text) ==
    /\ subitem > 0 => elements # <<>>
    /\ elements' = IF subitem > 0
                   THEN [elements EXCEPT ![1].value = Append(@, text)]
                   ELSE elements
    /\ pc' = "parse"
    /\ UNCHANGED <<stack, item, subitem>>

Token(piece) == docs[piece[1]][piece[2]]

WellFormed(piece) ==
    /\ piece[2] # 0
    /\ Token(piece).kind = "open" => stack # <<>> \/ taken = 0
    /\ Token(piece).kind = "close" => stack # <<>> /\ Last(stack) = Token(piece).name
    /\ Token(piece).kind = "text" => stack # <<>>

Parse ==
    /\ Running
    /\ pc = "parse" /\ urlPipe # <<>> /\ WellFormed(Head(urlPipe))
    /\ LET token == Token(Head(urlPipe)) IN
       \/ token.kind = "open" /\ StartElement(token.name)
       \/ token.kind = "close" /\ EndElement(token.name)
       \/ token.kind = "text" /\ CharacterData(token.text)
    /\ urlPipe' = Tail(urlPipe) /\ taken' = taken + 1
    /\ UNCHANGED <<url, rc, article, fetch, render, posting, answers, proxied>>

\* End of file, which must not come too soon.
EndParse ==
    /\ Running
    /\ pc = "parse" /\ urlPipe = <<>> /\ curl = "ended"
    /\ stack = <<>> /\ taken > 0
    /\ pc' = "join"
    /\ UNCHANGED <<url, rc, parser, article, fetch, urlPipe, render, posting, history>>

ParseError ==
    /\ pc = "parse"
    /\ \/ urlPipe # <<>> /\ ~WellFormed(Head(urlPipe))
       \/ urlPipe = <<>> /\ curl = "ended" /\ (stack # <<>> \/ taken = 0)
    /\ Die

\* A null pointer: an item within a subelement has emptied the list.
NoElement ==
    /\ pc = "parse" /\ urlPipe # <<>> /\ WellFormed(Head(urlPipe))
    /\ Token(Head(urlPipe)).kind = "text" /\ subitem > 0 /\ elements = <<>>
    /\ Die

JoinCurl ==
    /\ Running
    /\ pc = "join" /\ curl = "ended"
    /\ pc' = "next"
    /\ UNCHANGED <<url, rc, parser, article, fetch, urlPipe, render, posting, history>>

-------------------------------------------------------------------------------
(* process(): one item.                                                    *)

\* Mutant of FindElement: the first of several in the document is taken.
FindFirstElement(name) ==
    LET i == SelectLastInSeq(elements, LAMBDA e : e.name = name)
    IN  IF i = 0 THEN None ELSE elements[i].value

\* find_element(): the last of several in the document.
FindElement(name) ==
    LET i == SelectInSeq(elements, LAMBDA e : e.name = name)
    IN  IF i = 0 THEN None ELSE elements[i].value

\* -D leaves out what is older, and what has no date.
Skipped(date) == StartDate # 0 /\ (date # None => DateOf[date] < StartDate)

Keywords ==
    FlattenSeq([i \in DOMAIN elements |->
        IF elements[i].name = "category" THEN <<elements[i].value>> ELSE <<>>])

Header ==
    [id |-> FindElement("guid"),
     subject |-> IF FindElement("title") = None THEN <<"untitled">>
                                                ELSE FindElement("title"),
     date |-> FindElement("pubDate"),
     url |-> FindElement("link"),
     keywords |-> Keywords,
     body |-> <<>>]

SkipItem ==
    /\ Running
    /\ pc = "process" /\ FindElement("guid") # None /\ Skipped(FindElement("pubDate"))
    /\ pc' = "parse"
    /\ UNCHANGED <<url, rc, parser, article, fetch, urlPipe, render, posting, history>>

ItemIncomplete ==
    /\ pc = "process"
    /\ \/ FindElement("guid") = None
       \/ ~Skipped(FindElement("pubDate")) /\ FindElement("description") = None
    /\ Die

\* Mutant of StartLynx: without cloexec() lynx has the write end of its own
\* input.
StartLynxNoCloexec ==
    /\ Running
    /\ pc = "process" /\ FindElement("guid") # None
    /\ ~Skipped(FindElement("pubDate")) /\ FindElement("description") # None
    /\ article' = Header
    /\ description' = FindElement("description")
    /\ inPipe' = <<>> /\ inWriters' = {"lj2news", "lynx"}
    /\ outPipe' = <<>> /\ outWriters' = {"lynx"}
    /\ lynx' = "running"
    /\ unwritten' \in {<<>>} \cup {<<b>> : b \in Blanks}
    /\ pc' = "lead"
    /\ UNCHANGED <<url, rc, parser, fetch, urlPipe, posting, history>>

\* The header is written, two pipes are made, lynx is started, and so is the
\* writer thread.  cloexec() and close() leave one process at each end.
\* Some versions of lynx begin with a blank line.
StartLynx ==
    /\ Running
    /\ pc = "process" /\ FindElement("guid") # None
    /\ ~Skipped(FindElement("pubDate")) /\ FindElement("description") # None
    /\ article' = Header
    /\ description' = FindElement("description")
    /\ inPipe' = <<>> /\ inWriters' = {"lj2news"}
    /\ outPipe' = <<>> /\ outWriters' = {"lynx"}
    /\ lynx' = "running"
    /\ unwritten' \in {<<>>} \cup {<<b>> : b \in Blanks}
    /\ pc' = "lead"
    /\ UNCHANGED <<url, rc, parser, fetch, urlPipe, posting, history>>

RenderStep == Running /\ UNCHANGED <<url, rc, parser, fetch, urlPipe, posting, history>>

\* writedescriptionthread().
WriteDescription ==
    /\ RenderStep
    /\ description # <<>> /\ lynx = "running" /\ Len(inPipe) < PipeSize
    /\ inPipe' = Append(inPipe, Head(description))
    /\ description' = Tail(description)
    /\ UNCHANGED <<pc, article, inWriters, outPipe, outWriters, lynx, unwritten>>

\* The last piece has gone, and the writer thread ends.
CloseDescription ==
    /\ RenderStep
    /\ description = <<>> /\ "lj2news" \in inWriters
    /\ inWriters' = inWriters \ {"lj2news"}
    /\ UNCHANGED <<pc, article, description, inPipe, outPipe, outWriters, lynx, unwritten>>

\* A write to lynx when it has gone: SIGPIPE is not handled.
BrokenPipe == description # <<>> /\ lynx = "failed" /\ Die

\* External: lynx reads, writes, and ends when there is no more of either.
LynxReads ==
    /\ RenderStep
    /\ lynx = "running" /\ inPipe # <<>> /\ Len(unwritten) < LynxBuffer
    /\ unwritten' = Append(unwritten, Head(inPipe))
    /\ inPipe' = Tail(inPipe)
    /\ UNCHANGED <<pc, article, description, inWriters, outPipe, outWriters, lynx>>

LynxWrites ==
    /\ RenderStep
    /\ lynx = "running" /\ unwritten # <<>> /\ Len(outPipe) < PipeSize
    /\ outPipe' = Append(outPipe, Head(unwritten))
    /\ unwritten' = Tail(unwritten)
    /\ UNCHANGED <<pc, article, description, inPipe, inWriters, outWriters, lynx>>

LynxEnds ==
    /\ RenderStep
    /\ lynx = "running" /\ inPipe = <<>> /\ inWriters = {} /\ unwritten = <<>>
    /\ lynx' = "done" /\ outWriters' = {}
    /\ UNCHANGED <<pc, article, description, inPipe, inWriters, outPipe, unwritten>>

LynxFails ==
    /\ RenderStep
    /\ lynx = "running"
    /\ lynx' = "failed" /\ outWriters' = {}
    /\ UNCHANGED <<pc, article, description, inPipe, inWriters, outPipe, unwritten>>

\* Mutant of ReadLead: the line that ends the search for one is not sent.
ReadLeadDropsLine ==
    /\ RenderStep
    /\ pc = "lead" /\ outPipe # <<>>
    /\ pc' = IF Head(outPipe) \in Blanks \cup LongStarts THEN "lead" ELSE "copy"
    /\ outPipe' = Tail(outPipe)
    /\ UNCHANGED <<article, description, inPipe, inWriters, outWriters, lynx, unwritten>>

\* Blank lines at the beginning are left out, and so is each bufferful of a
\* line that does not end in it; the first other line is sent.
ReadLead ==
    /\ RenderStep
    /\ pc = "lead" /\ outPipe # <<>>
    /\ IF Head(outPipe) \in Blanks \cup LongStarts
       THEN UNCHANGED <<pc, article>>
       ELSE pc' = "copy" /\ article' = [article EXCEPT !.body = <<Head(outPipe)>>]
    /\ outPipe' = Tail(outPipe)
    /\ UNCHANGED <<description, inPipe, inWriters, outWriters, lynx, unwritten>>

ReadRest ==
    /\ RenderStep
    /\ pc = "copy" /\ outPipe # <<>>
    /\ article' = [article EXCEPT !.body = Append(@, Head(outPipe))]
    /\ outPipe' = Tail(outPipe)
    /\ UNCHANGED <<pc, description, inPipe, inWriters, outWriters, lynx, unwritten>>

ReadEnd ==
    /\ RenderStep
    /\ pc \in {"lead", "copy"} /\ outPipe = <<>> /\ outWriters = {}
    /\ pc' = "reap"
    /\ UNCHANGED <<article, render>>

\* The writer thread is joined, lynx waited for, and the article queued.
Post ==
    /\ Running
    /\ pc = "reap" /\ inWriters = {} /\ lynx = "done"
    /\ Queue!Enqueue(article)
    /\ lynx' = "none"
    /\ pc' = "parse"
    /\ UNCHANGED <<url, rc, parser, article, fetch, urlPipe, description, inPipe,
                   inWriters, outPipe, outWriters, unwritten, history>>

LynxFailed == pc = "reap" /\ inWriters = {} /\ lynx = "failed" /\ Die

-------------------------------------------------------------------------------
(* The end, the poster, and the specification.                             *)

CallJoin ==
    /\ pc = "next" /\ url = Len(docs)
    /\ Queue!Close
    /\ pc' = "posting"
    /\ UNCHANGED <<url, rc, parser, article, fetch, urlPipe, render, history>>

Exit ==
    /\ pc = "posting"
    /\ Queue!Finish
    /\ pc' = "exit"
    /\ UNCHANGED <<url, rc, parser, article, fetch, urlPipe, render, history>>

PosterHandles == Queue!Handle /\ UNCHANGED <<main, fetch, urlPipe, render, history>>

Main ==
    \/ StartUrl \/ StartParse \/ GiveUpUrl \/ Parse \/ EndParse \/ ParseError
    \/ NoElement \/ JoinCurl \/ SkipItem \/ ItemIncomplete \/ StartLynx \/ ReadLead
    \/ ReadRest \/ ReadEnd \/ Post \/ LynxFailed \/ CallJoin \/ Exit

Writer == WriteDescription \/ CloseDescription \/ BrokenPipe
Lynx == LynxReads \/ LynxWrites \/ LynxEnds

PosterFails == Die

Next ==
    /\ \/ Main \/ Curl \/ Writer \/ Lynx \/ PosterHandles
       \/ FetchFails \/ LynxFails \/ PosterFails
    /\ UNCHANGED docs

\* The threads are scheduled, a fetch ends (curl has a timeout), and lynx
\* does what it can.
Spec == Init /\ [][Next]_vars
             /\ WF_vars(Main /\ UNCHANGED docs) /\ WF_vars(Curl /\ UNCHANGED docs)
             /\ WF_vars(Writer /\ UNCHANGED docs) /\ WF_vars(Lynx /\ UNCHANGED docs)
             /\ WF_vars(PosterHandles /\ UNCHANGED docs)

-------------------------------------------------------------------------------
(* Properties.                                                             *)

\* Types.  The parser's counts are never negative.
TypeOK ==
    /\ pc \in {"next", "await", "parse", "process", "lead", "copy", "reap",
               "join", "posting", "exit"}
    /\ url \in 0..Len(docs) /\ rc \in {0, 1}
    /\ item \in Nat /\ subitem \in Nat
    /\ curl \in {"connect", "header", "body", "ended"}
    /\ http \in {"INITIAL", "ERROR", "FINAL", "OK"}
    /\ hops \in 0..MaxHops /\ sent \in Nat
    /\ Len(urlPipe) <= UrlPipeSize /\ Len(inPipe) <= PipeSize
    /\ Len(outPipe) <= PipeSize
    /\ inWriters \subseteq {"lj2news", "lynx"} /\ outWriters \subseteq {"lynx"}
    /\ lynx \in {"none", "running", "done", "failed"}
    /\ status \in {"open", "finished", "aborted"} /\ closed \in BOOLEAN
    /\ proxied \subseteq Urls

Good(u) == answers[u].class = "2xx" /\ answers[u].ctype # "other"

\* What the parser has read or will read is the body of the last response to
\* the current URL, from its beginning and without gaps, and that response
\* was a success with an acceptable content type.  The exception is a URL
\* for which a proxy said 2xx before: HTTP_OK is for good, and whatever the
\* origin says then passes for the feed.
GoodBodyOnly ==
    /\ \A i \in DOMAIN urlPipe :
          /\ urlPipe[i][1] = url
          /\ url \notin proxied => Good(url) /\ urlPipe[i][2] = taken + i
    /\ pc \in {"parse", "process", "lead", "copy", "reap"} /\ url \notin proxied
          => http = "OK" /\ answers[url].class \in {"none", "2xx"}

\* The articles of a feed, read off the document as a whole: each item gives
\* one, with the text after the last start tag of each name up to the next
\* tag, and with all of lynx's output but the blank lines it begins with.
StartsAt(doc, from, to, name) ==
    {i \in from..to : doc[i].kind = "open" /\ doc[i].name = name}
TextAt(doc, i) ==
    LET next == CHOOSE j \in i + 1..Len(doc) :
                    doc[j].kind # "text" /\ \A k \in i + 1..j - 1 : doc[k].kind = "text"
    IN  [k \in 1..next - i - 1 |-> doc[i + k].text]
ValueIn(doc, from, to, name) ==
    LET at == StartsAt(doc, from, to, name)
    IN  IF at = {} THEN None ELSE TextAt(doc, CHOOSE i \in at : \A j \in at : i >= j)
Rendered(text) ==
    IF text = None THEN None
    ELSE LET first == SelectInSeq(text, LAMBDA p : p \notin Blanks)
         IN  IF first = 0 THEN <<>> ELSE SubSeq(text, first, Len(text))
KeywordsIn(doc, from, to) ==
    FlattenSeq([n \in 1..to - from |->
        LET i == to + 1 - n
        IN  IF i \in StartsAt(doc, from, to, "category") THEN <<TextAt(doc, i)>>
                                                         ELSE <<>>])
ArticleIn(doc, from, to) ==
    LET title == ValueIn(doc, from, to, "title")
    IN  [id |-> ValueIn(doc, from, to, "guid"),
         subject |-> IF title = None THEN <<"untitled">> ELSE title,
         date |-> ValueIn(doc, from, to, "pubDate"),
         url |-> ValueIn(doc, from, to, "link"),
         keywords |-> KeywordsIn(doc, from, to),
         body |-> Rendered(ValueIn(doc, from, to, "description"))]
IsItem(doc, from, to) ==
    /\ from < to
    /\ doc[from].kind = "open" /\ doc[from].name = "item"
    /\ doc[to].kind = "close" /\ doc[to].name = "item"
    /\ \A k \in from + 1..to - 1 : doc[k].kind # "text" => doc[k].name # "item"
Wanted(doc, from, to) == ~Skipped(ValueIn(doc, from, to, "pubDate"))
ArticleAt(doc, to) ==
    LET starts == {from \in DOMAIN doc : IsItem(doc, from, to) /\ Wanted(doc, from, to)}
    IN  IF starts = {} THEN <<>>
                       ELSE <<ArticleIn(doc, CHOOSE from \in starts : TRUE, to)>>
ArticlesOf(doc) == FlattenSeq([to \in DOMAIN doc |-> ArticleAt(doc, to)])

ArticlesUpTo(n) ==
    FlattenSeq([u \in 1..n |-> IF answers[u].class = "2xx" /\ (Good(u) \/ u \in proxied)
                               THEN ArticlesOf(docs[u]) ELSE <<>>])

\* When lj2news exits its status is 1 exactly if a URL was given up: one whose
\* last response was no feed and for which no proxy had said 2xx before.  With
\* a proxy's 2xx a URL counts as good, whatever the last response to it was.
ExitStatus == pc = "exit" => (rc = 1 <=> \E u \in Urls \ proxied : ~Good(u))

\* What has been queued is a part from the beginning of what the good feeds
\* hold, none twice, and each article whole, from the first line of lynx's that
\* is not blank to the last (process_item); between two URLs it is all of it,
\* and lj2news exits only when the poster has dealt with all of it, with a
\* status that tells whether a URL was given up.
PostedFaithfully ==
    /\ IsPrefix(done \o queue, ArticlesUpTo(url))
    /\ Running /\ pc = "next" => done \o queue = ArticlesUpTo(url)
    /\ pc = "exit" => done = ArticlesUpTo(Len(docs))
    /\ ExitStatus

\* The last response was none that writeheader() makes up its mind about.
Undecided == pc = "await" /\ curl = "ended" /\ http \in {"INITIAL", "FINAL"}

\* lj2news comes to an end, with neither full pipes nor an end of file that
\* never comes in the way (main, process_item): if not, it waits in main() for
\* a response it can decide about.
MainEnds == <>(pc = "exit" \/ status = "aborted" \/ Undecided)
================================================================================
