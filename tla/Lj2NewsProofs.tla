----------------------------- MODULE Lj2NewsProofs -----------------------------
(***************************************************************************)
(* lj2news: the types, with the parser's counts, which bodies reach the    *)
(* parser, what the exit status tells, and which articles are posted, for  *)
(* any feeds, answers and capacities of the pipes.                         *)
(*                                                                         *)
(* The articles: the parser's callbacks gather what the document says of   *)
(* an item (Reading, Complete), what is on its way through lynx completes  *)
(* the body (Rendering), and the queue has the articles of the tokens that *)
(* are done with (Posting).                                                *)
(***************************************************************************)
EXTENDS Lj2News, DataLemmas, SequenceTheorems

Parsing == {"parse", "process", "lead", "copy", "reap"}

\* What the counts count: the open items, and the other open elements that
\* are within one.
Items(s) == {i \in DOMAIN s : s[i] = "item"}
Subitems(s) == {i \in DOMAIN s : s[i] # "item" /\ \E j \in Items(s) : j < i}

Elements == [name : STRING, value : Seq(STRING)]

\* Between two documents nothing is open, so that it does no harm that parse()
\* resets one count and not the other.
Parser ==
    /\ stack \in Seq(STRING) /\ elements \in Seq(Elements)
    /\ item = Cardinality(Items(stack)) /\ subitem = Cardinality(Subitems(stack))
    /\ pc \notin Parsing => stack = <<>>

\* What is in the pipes.
Pipes ==
    /\ urlPipe \in Seq(Nat \X Nat)
    /\ description \in Seq(STRING) /\ inPipe \in Seq(STRING)
    /\ unwritten \in Seq(STRING) /\ outPipe \in Seq(STRING)

Responses == [class : {"none", "1xx", "2xx", "3xx", "4xx"}, ctype : {"none", "xml", "other"}]

\* The two threads: a fetch goes on for the current URL only, and nothing is
\* parsed before the state is HTTP_OK.
Threads ==
    /\ docs \in Feeds
    /\ answer \in Responses /\ answers \in [Urls -> Responses]
    /\ taken \in Nat
    /\ pc \in {"next", "posting", "exit"} => curl = "ended"
    /\ curl # "ended" \/ pc \in Parsing \cup {"await"} \/ urlPipe # <<>> => url \in Urls
    /\ pc \in Parsing => http = "OK"

\* The HTTP state and the response it was made of.
State ==
    /\ http = "FINAL" => /\ curl = "header"
                         /\ answer.class = "2xx" /\ answer.ctype # "other"
    /\ http = "OK" /\ url \notin proxied =>
          /\ curl \in {"body", "ended"}
          /\ answer.class = "2xx" /\ answer.ctype # "other"
          /\ answers[url] = answer

\* What has been sent is what was taken and what is in the pipe, which is
\* part of the current document.
Body ==
    /\ \A i \in DOMAIN urlPipe :
          /\ urlPipe[i][1] = url /\ urlPipe[i][2] <= Len(docs[url])
          /\ url \notin proxied => urlPipe[i][2] = taken + i
    /\ http # "OK" => urlPipe = <<>> /\ taken = 0
    /\ curl \in {"connect", "header"} => urlPipe = <<>> /\ taken = 0 /\ sent = 0
    /\ http = "OK" /\ url \notin proxied => sent = taken + Len(urlPipe)

Inv == TypeOK /\ Parser /\ Pipes /\ Threads /\ State /\ Body

\* A URL that did not answer with a feed, and how far main has come with them.
Rejected(u) == u \notin proxied /\ ~Good(u)
Decided == IF pc \in Parsing \cup {"await"} THEN 1..url - 1 ELSE 1..url

\* The exit status follows the URLs main is done with: once the state is
\* HTTP_ERROR the last response to come is no feed, and before it comes the URL
\* has no answer.
Outcome ==
    /\ proxied \subseteq 1..url /\ (url \in proxied => http = "OK")
    /\ \A u \in Urls : u > url \/ (u = url /\ curl \in {"connect", "header"})
                          => answers[u] = NoAnswer
    /\ curl = "header" /\ answer.class = "2xx" => http # "INITIAL"
    /\ http = "ERROR" =>
          /\ url \in Urls /\ Rejected(url) /\ curl # "connect"
          /\ answer.class = "4xx" \/ (answer.class = "2xx" /\ answer.ctype = "other")
    /\ pc = "join" => http = "ERROR" \/ (http = "OK" /\ curl = "ended")
    /\ pc \in {"posting", "exit"} => url = Len(docs)
    /\ rc = 1 <=> \E u \in Decided : Rejected(u)

-------------------------------------------------------------------------------
(* The parser's counts.                                                    *)

\* Both sets are finite, so that counting them makes sense.
LEMMA Countable ==
    ASSUME NEW s \in Seq(STRING)
    PROVE  /\ IsFiniteSet(Items(s)) /\ IsFiniteSet(Subitems(s))
           /\ Cardinality(Items(s)) \in Nat /\ Cardinality(Subitems(s)) \in Nat
           /\ Cardinality(Items(s)) > 0 <=> Items(s) # {}
<1>1. IsFiniteSet(1..Len(s))
  BY FS_Interval
<1>2. Items(s) \subseteq 1..Len(s) /\ Subitems(s) \subseteq 1..Len(s)
  BY DEF Items, Subitems
<1>3. IsFiniteSet(Items(s)) /\ IsFiniteSet(Subitems(s))
  BY <1>1, <1>2, FS_Subset
<1> QED
  BY <1>3, FS_CardinalityType, FS_EmptySet

\* What a start tag adds, which is what start_element() adds.
LEMMA Opened ==
    ASSUME NEW s \in Seq(STRING), NEW name \in STRING
    PROVE  /\ Cardinality(Items(Append(s, name)))
                = IF name = "item" THEN Cardinality(Items(s)) + 1 ELSE Cardinality(Items(s))
           /\ Cardinality(Subitems(Append(s, name)))
                = IF name # "item" /\ Cardinality(Items(s)) > 0
                  THEN Cardinality(Subitems(s)) + 1 ELSE Cardinality(Subitems(s))
<1> DEFINE t == Append(s, name)
           n == Len(s) + 1
<1>1. /\ t \in Seq(STRING) /\ DOMAIN t = 1..n
      /\ DOMAIN s = 1..Len(s) /\ Len(s) \in Nat
      /\ t[n] = name /\ \A i \in 1..Len(s) : t[i] = s[i]
  <2>1. Len(s) \in Nat /\ DOMAIN s = 1..Len(s)
    BY LenProperties
  <2>2. t \in Seq(STRING) /\ Len(t) = n
    BY AppendProperties
  <2>3. DOMAIN t = 1..n
    BY <2>2, LenProperties
  <2>4. Append(s, name)[Len(s) + 1] = name
    BY AppendProperties
  <2>5. \A i \in 1..Len(s) : Append(s, name)[i] = s[i]
    BY AppendProperties
  <2> QED
    BY <2>1, <2>2, <2>3, <2>4, <2>5
<1> HIDE DEF t
<1>2. n \notin Items(s) /\ n \notin Subitems(s)
  BY <1>1 DEF Items, Subitems
<1>3. Items(t) = IF name = "item" THEN Items(s) \cup {n} ELSE Items(s)
  BY <1>1 DEF Items
<1>4. \A j \in Items(s) : j < n
  BY <1>1 DEF Items
<1>5. \A i \in 1..Len(s) : i \in Subitems(t) <=> i \in Subitems(s)
  BY <1>1, <1>3 DEF Subitems
<1>6. n \in Subitems(t) <=> name # "item" /\ Items(s) # {}
  BY <1>1, <1>3, <1>4 DEF Subitems
<1>7. Subitems(t) \subseteq 1..n /\ Subitems(s) \subseteq 1..Len(s)
  BY <1>1 DEF Subitems
<1>8. Subitems(t) = IF name # "item" /\ Items(s) # {} THEN Subitems(s) \cup {n} ELSE Subitems(s)
  BY <1>1, <1>2, <1>5, <1>6, <1>7
<1>9. Cardinality(Items(s) \cup {n}) = Cardinality(Items(s)) + 1
      /\ Cardinality(Subitems(s) \cup {n}) = Cardinality(Subitems(s)) + 1
  BY <1>2, Countable, FS_AddElement
<1> QED
  BY <1>3, <1>8, <1>9, Countable DEF t

\* What an end tag takes away, which is what end_element() takes away.
LEMMA Closed ==
    ASSUME NEW s \in Seq(STRING), s # <<>>
    PROVE  /\ Front(s) \in Seq(STRING)
           /\ Cardinality(Items(Front(s)))
                = IF Last(s) = "item" THEN Cardinality(Items(s)) - 1 ELSE Cardinality(Items(s))
           /\ Cardinality(Subitems(Front(s)))
                = IF Last(s) # "item" /\ Cardinality(Items(s)) > 0
                  THEN Cardinality(Subitems(s)) - 1 ELSE Cardinality(Subitems(s))
           /\ Last(s) = "item" => Cardinality(Items(s)) > 0
<1> DEFINE r == Front(s)
           name == Last(s)
<1>1. r \in Seq(STRING) /\ name \in STRING
  BY DEF Front, Last
<1>2. s = Append(r, name)
  BY DEF Front, Last
<1> HIDE DEF r, name
<1>3. /\ Cardinality(Items(s))
            = IF name = "item" THEN Cardinality(Items(r)) + 1 ELSE Cardinality(Items(r))
      /\ Cardinality(Subitems(s))
            = IF name # "item" /\ Cardinality(Items(r)) > 0
              THEN Cardinality(Subitems(r)) + 1 ELSE Cardinality(Subitems(r))
  BY <1>1, <1>2, Opened
<1>4. Cardinality(Items(r)) \in Nat /\ Cardinality(Subitems(r)) \in Nat
  BY <1>1, Countable
<1> QED
  BY <1>1, <1>3, <1>4 DEF r, name

\* Nothing is counted when nothing is open.
LEMMA NothingOpen == Cardinality(Items(<<>>)) = 0 /\ Cardinality(Subitems(<<>>)) = 0
<1>1. Items(<<>>) = {} /\ Subitems(<<>>) = {}
  BY DEF Items, Subitems
<1> QED
  BY <1>1, FS_EmptySet

-------------------------------------------------------------------------------
(* The invariant.                                                          *)

\* The initial state.
LEMMA InitInv == Init => Inv
<1> SUFFICES ASSUME Init PROVE Inv
  OBVIOUS
<1> USE DEF Init, Queue!Init
<1>1. docs \in Seq(Seq(Tokens)) /\ Len(docs) \in Nat /\ Urls = 1..Len(docs)
  BY Lj2NewsAssumption DEF Urls
<1>2. TypeOK
  <2>1. url \in 0..Len(docs) /\ rc \in {0, 1} /\ item \in Nat /\ subitem \in Nat
        /\ hops \in 0..MaxHops /\ sent \in Nat
    BY <1>1, Lj2NewsAssumption
  <2>2. Len(urlPipe) <= UrlPipeSize /\ Len(inPipe) <= PipeSize /\ Len(outPipe) <= PipeSize
    BY Lj2NewsAssumption
  <2>3. closed \in BOOLEAN /\ proxied \subseteq Urls
    OBVIOUS
  <2> QED
    BY <2>1, <2>2, <2>3 DEF TypeOK
<1>3. Parser
  BY NothingOpen DEF Parser, Parsing
<1>4. Pipes /\ State /\ Body
  BY DEF Pipes, State, Body
<1>5. Threads
  BY <1>1 DEF Threads, Parsing, NoAnswer, Responses
<1> QED
  BY <1>2, <1>3, <1>4, <1>5 DEF Inv

\* Facts about a state that the steps need: the documents are sequences.
LEMMA Documents ==
    ASSUME Inv
    PROVE  /\ docs \in Seq(Seq(Tokens)) /\ Len(docs) \in Nat /\ Urls = 1..Len(docs)
           /\ url \in Nat
           /\ url \in Urls => Len(docs[url]) \in Nat
  BY Lj2NewsAssumption DEF Inv, TypeOK, Threads, Urls

\* Steps that leave the parser alone.
LEMMA SameParser ==
    ASSUME Parser, UNCHANGED parser, pc' \notin Parsing => pc \notin Parsing
    PROVE  Parser'
  BY DEF Parser, parser

\* fatal(), or a signal: only the status changes.
LEMMA DieKeeps ==
    ASSUME Inv, Die, docs' = docs
    PROVE  Inv'
<1> USE DEF Die, main, parser, fetch, render, history, Queue!Abort
<1>1. TypeOK'
  BY DEF Inv, TypeOK, Urls
<1>2. Parser'
  BY SameParser DEF Inv
<1>3. Pipes' /\ State' /\ Body'
  BY DEF Inv, Pipes, State, Body
<1>4. Threads'
  BY DEF Inv, Threads, Urls
<1> QED
  BY <1>1, <1>2, <1>3, <1>4 DEF Inv

-------------------------------------------------------------------------------
(* The curl thread.                                                        *)

\* What no step of the curl thread touches.
LEMMA FetchFrame ==
    ASSUME Inv, FetchStep, docs' = docs
    PROVE  /\ UNCHANGED <<pc, url, rc, item, subitem, stack, elements, taken,
                          inPipe, outPipe, description, unwritten, inWriters, outWriters,
                          lynx, status, closed>>
           /\ Parser'
           /\ Len(docs) \in Nat /\ Urls = 1..Len(docs) /\ Urls' = Urls
           /\ url \in Urls => Len(docs[url]) \in Nat
  BY SameParser, Documents DEF Inv, FetchStep, main, parser, render, posting, Urls

\* A header line: the response may change, the pipe does not.
LEMMA HeadersKeep ==
    ASSUME Inv, docs' = docs, UNCHANGED <<hops, sent, urlPipe, answers, proxied>>,
           \/ \E class \in {"1xx", "2xx", "3xx", "4xx"} : StatusLine(class)
           \/ \E ctype \in {"xml", "other"} : ContentType(ctype)
    PROVE  Inv'
<1>0. FetchStep /\ curl \in {"connect", "header"}
  BY DEF StatusLine, ContentType
<1>f. /\ UNCHANGED <<pc, url, rc, item, subitem, stack, elements, taken,
                     inPipe, outPipe, description, unwritten, inWriters, outWriters,
                     lynx, status, closed>>
      /\ Parser' /\ Urls' = Urls
  BY <1>0, FetchFrame
<1>1. /\ curl' = "header" /\ http' \in {"INITIAL", "ERROR", "FINAL", "OK"}
      /\ answer' \in Responses
      /\ http = "OK" <=> http' = "OK"
      /\ http' = "FINAL" => answer'.class = "2xx" /\ answer'.ctype # "other"
  <2>t. /\ http \in {"INITIAL", "ERROR", "FINAL", "OK"} /\ answer \in Responses
        /\ http = "FINAL" => curl = "header" /\ answer.class = "2xx" /\ answer.ctype # "other"
    BY DEF Inv, TypeOK, Threads, State
  <2>1. ASSUME NEW class \in {"1xx", "2xx", "3xx", "4xx"}, StatusLine(class) PROVE <1>1
    BY <2>1, <2>t DEF StatusLine, SetHttpState, Responses
  <2>2. ASSUME NEW ctype \in {"xml", "other"}, ContentType(ctype) PROVE <1>1
    BY <2>2, <2>t DEF ContentType, SetHttpState, Responses
  <2> QED
    BY <2>1, <2>2
<1>2. TypeOK'
  BY <1>f, <1>1 DEF Inv, TypeOK
<1>3. Pipes'
  BY <1>f DEF Inv, Pipes
<1>4. Threads'
  BY <1>0, <1>f, <1>1 DEF Inv, Threads
<1>5. State'
  BY <1>0, <1>f, <1>1 DEF Inv, State
<1>6. Body'
  BY <1>0, <1>f, <1>1 DEF Inv, Body
<1> QED
  BY <1>f, <1>2, <1>3, <1>4, <1>5, <1>6 DEF Inv

\* The blank line behind the headers of a response.
LEMMA BlankLineKeeps ==
    ASSUME Inv, docs' = docs, NextResponse \/ LastResponse
    PROVE  Inv'
<1>0. FetchStep /\ curl = "header" /\ BlankLine
  BY DEF NextResponse, LastResponse
<1>f. /\ UNCHANGED <<pc, url, rc, item, subitem, stack, elements, taken,
                     inPipe, outPipe, description, unwritten, inWriters, outWriters,
                     lynx, status, closed>>
      /\ Parser' /\ Urls' = Urls /\ url \in Urls
  BY <1>0, FetchFrame DEF Inv, Threads
<1>1. /\ http' \in {"INITIAL", "ERROR", "OK"}
      /\ http = "OK" => http' = "OK"
      /\ http' = "OK" => http = "OK" \/ (answer.class = "2xx" /\ answer.ctype # "other")
      /\ UNCHANGED <<answer, sent, urlPipe>>
      /\ answers' \in [Urls -> Responses]
  <2>t. /\ http \in {"INITIAL", "ERROR", "FINAL", "OK"} /\ answer \in Responses
        /\ http = "FINAL" => answer.class = "2xx" /\ answer.ctype # "other"
        /\ answers \in [Urls -> Responses]
    BY DEF Inv, TypeOK, Threads, State
  <2>1. UNCHANGED <<answer, sent, urlPipe>>
    BY DEF NextResponse, LastResponse
  <2>2. answers' = answers \/ answers' = [answers EXCEPT ![url] = answer]
    BY DEF NextResponse, LastResponse
  <2>3. answers' \in [Urls -> Responses]
    BY <2>t, <2>2, <1>f
  <2>4. http' = IF http = "FINAL" THEN "OK" ELSE http
    BY <1>0, <2>t DEF BlankLine, SetHttpState
  <2> QED
    BY <2>t, <2>1, <2>3, <2>4
<1>2. /\ curl' \in {"connect", "body"} /\ hops' \in 0..MaxHops
      /\ proxied \subseteq proxied' /\ proxied' \subseteq Urls
  <2>t. hops \in 0..MaxHops /\ MaxHops \in Nat /\ proxied \subseteq Urls
    BY Lj2NewsAssumption DEF Inv, TypeOK
  <2>1. CASE NextResponse
    BY <2>1, <2>t, <1>f DEF NextResponse
  <2>2. CASE LastResponse
    BY <2>2, <2>t DEF LastResponse
  <2> QED
    BY <2>1, <2>2
<1>3. http = "OK" => url \in proxied
  BY <1>0 DEF Inv, State
<1>4. TypeOK'
  BY <1>f, <1>1, <1>2 DEF Inv, TypeOK
<1>5. Pipes' /\ Threads'
  BY <1>0, <1>f, <1>1, <1>2 DEF Inv, Pipes, Threads
<1>6. State'
  <2>1. CASE NextResponse
    BY <2>1, <1>f, <1>1, <1>2, <1>3 DEF State, NextResponse
  <2>2. CASE LastResponse
    BY <2>2, <1>f, <1>1, <1>2, <1>3 DEF Inv, Threads, State, LastResponse
  <2> QED
    BY <2>1, <2>2
<1>7. Body'
  BY <1>0, <1>f, <1>1, <1>2 DEF Inv, Body
<1> QED
  BY <1>f, <1>4, <1>5, <1>6, <1>7 DEF Inv

\* A piece of the body goes into the pipe only if the state is HTTP_OK.
LEMMA WriteDataKeeps ==
    ASSUME Inv, docs' = docs, WriteData
    PROVE  Inv'
<1>0. FetchStep /\ curl = "body"
  BY DEF WriteData
<1>f. /\ UNCHANGED <<pc, url, rc, item, subitem, stack, elements, taken,
                     inPipe, outPipe, description, unwritten, inWriters, outWriters,
                     lynx, status, closed>>
      /\ Parser' /\ Urls' = Urls /\ url \in Urls /\ Len(docs[url]) \in Nat
  BY <1>0, FetchFrame DEF Inv, Threads
<1>t. /\ urlPipe \in Seq(Nat \X Nat) /\ Len(urlPipe) \in Nat /\ DOMAIN urlPipe = 1..Len(urlPipe)
      /\ sent \in Nat /\ taken \in Nat /\ UrlPipeSize \in Nat \ {0} /\ url \in Nat
  BY Lj2NewsAssumption, LenProperties, Documents DEF Inv, TypeOK, Pipes, Threads
<1>1. UNCHANGED <<curl, http, answer, hops, answers, proxied>> /\ sent' = sent + 1
  BY DEF WriteData
<1>2. CASE http = "OK"
  <2> DEFINE piece == <<url, IF answer.class = "2xx" THEN sent + 1 ELSE 0>>
  <2>1. Len(urlPipe) < UrlPipeSize /\ urlPipe' = Append(urlPipe, piece)
    BY <1>2 DEF WriteData
  <2>2. /\ piece \in Nat \X Nat /\ piece[1] = url /\ piece[2] <= Len(docs[url])
        /\ url \notin proxied => piece[2] = taken + Len(urlPipe) + 1
    <3>1. answer.class = "2xx" => sent + 1 <= Len(docs[url])
      BY <1>f, <1>t DEF WriteData, BodyLength
    <3>2. url \notin proxied => answer.class = "2xx" /\ sent = taken + Len(urlPipe)
      BY <1>2 DEF Inv, State, Body
    <3> QED
      BY <1>f, <1>t, <3>1, <3>2
  <2> HIDE DEF piece
  <2>3. /\ urlPipe' \in Seq(Nat \X Nat) /\ Len(urlPipe') = Len(urlPipe) + 1
        /\ DOMAIN urlPipe' = 1..Len(urlPipe) + 1
        /\ \A i \in 1..Len(urlPipe) : urlPipe'[i] = urlPipe[i]
        /\ urlPipe'[Len(urlPipe) + 1] = piece
    <3>1. /\ urlPipe' \in Seq(Nat \X Nat) /\ Len(urlPipe') = Len(urlPipe) + 1
          /\ urlPipe'[Len(urlPipe) + 1] = piece
      BY <1>t, <2>1, <2>2, AppendProperties
    <3>2. \A i \in 1..Len(urlPipe) : urlPipe'[i] = urlPipe[i]
      BY <1>t, <2>1, <2>2, AppendProperties
    <3> QED
      BY <3>1, <3>2, LenProperties
  <2>4. \A i \in DOMAIN urlPipe' :
          /\ urlPipe'[i][1] = url /\ urlPipe'[i][2] <= Len(docs[url])
          /\ url \notin proxied => urlPipe'[i][2] = taken + i
    <3>1. \A i \in 1..Len(urlPipe) :
            /\ urlPipe[i][1] = url /\ urlPipe[i][2] <= Len(docs[url])
            /\ url \notin proxied => urlPipe[i][2] = taken + i
      BY <1>t DEF Inv, Body
    <3> SUFFICES ASSUME NEW i \in 1..Len(urlPipe) + 1
                 PROVE  /\ urlPipe'[i][1] = url /\ urlPipe'[i][2] <= Len(docs[url])
                        /\ url \notin proxied => urlPipe'[i][2] = taken + i
      BY <2>3
    <3>2. CASE i \in 1..Len(urlPipe)
      BY <3>1, <3>2, <2>3
    <3>3. CASE i = Len(urlPipe) + 1
      BY <3>3, <2>2, <2>3, <1>t
    <3> QED
      BY <3>2, <3>3, <1>t
  <2>5. TypeOK'
    BY <1>f, <1>t, <1>1, <2>1, <2>3 DEF Inv, TypeOK
  <2>6. Pipes' /\ Threads'
    BY <1>0, <1>f, <1>t, <1>1, <2>3 DEF Inv, Pipes, Threads
  <2>7. State'
    BY <1>f, <1>1 DEF Inv, State
  <2>8. Body'
    <3>1. url' \notin proxied' => sent' = taken' + Len(urlPipe')
      BY <1>2, <1>f, <1>1, <1>t, <2>3 DEF Inv, Body
    <3> QED
      BY <3>1, <2>4, <1>0, <1>2, <1>f, <1>1 DEF Body
  <2> QED
    BY <1>f, <2>5, <2>6, <2>7, <2>8 DEF Inv
<1>3. CASE http # "OK"
  <2>1. urlPipe' = urlPipe
    BY <1>3 DEF WriteData
  <2>2. TypeOK'
    BY <1>f, <1>t, <1>1, <2>1 DEF Inv, TypeOK
  <2>3. Pipes' /\ Threads' /\ State'
    BY <1>0, <1>f, <1>1, <2>1 DEF Inv, Pipes, Threads, State
  <2>4. Body'
    BY <1>0, <1>3, <1>f, <1>1, <2>1 DEF Inv, Body
  <2> QED
    BY <1>f, <2>2, <2>3, <2>4 DEF Inv
<1> QED
  BY <1>2, <1>3

\* Any step of the curl thread.
LEMMA CurlKeeps ==
    ASSUME Inv, docs' = docs, Curl
    PROVE  Inv'
<1>1. ASSUME NEW class \in {"1xx", "2xx", "3xx", "4xx"}, StatusLine(class) PROVE Inv'
  <2>1. UNCHANGED <<hops, sent, urlPipe, answers, proxied>>
    BY <1>1 DEF StatusLine
  <2> QED
    BY <1>1, <2>1, HeadersKeep
<1>2. ASSUME NEW ctype \in {"xml", "other"}, ContentType(ctype) PROVE Inv'
  <2>1. UNCHANGED <<hops, sent, urlPipe, answers, proxied>>
    BY <1>2 DEF ContentType
  <2> QED
    BY <1>2, <2>1, HeadersKeep
<1>3. CASE NextResponse \/ LastResponse
  BY <1>3, BlankLineKeeps
<1>4. CASE WriteData
  BY <1>4, WriteDataKeeps
<1>5. CASE FetchEnds
  <2>0. FetchStep /\ curl = "body"
    BY <1>5 DEF FetchEnds
  <2>f. /\ UNCHANGED <<pc, url, rc, item, subitem, stack, elements, taken,
                       inPipe, outPipe, description, unwritten, inWriters, outWriters,
                       lynx, status, closed>>
        /\ Parser' /\ Urls' = Urls /\ url \in Urls
    BY <2>0, FetchFrame DEF Inv, Threads
  <2>1. curl' = "ended" /\ UNCHANGED <<http, answer, hops, sent, urlPipe, answers, proxied>>
    BY <1>5 DEF FetchEnds
  <2>2. TypeOK'
    BY <2>f, <2>1 DEF Inv, TypeOK
  <2>3. Pipes' /\ Threads' /\ State' /\ Body'
    BY <2>0, <2>f, <2>1 DEF Inv, Pipes, Threads, State, Body
  <2> QED
    BY <2>f, <2>2, <2>3 DEF Inv
<1> QED
  BY <1>1, <1>2, <1>3, <1>4, <1>5 DEF Curl

-------------------------------------------------------------------------------
(* The parser's callbacks.                                                 *)

\* start_element().
LEMMA StartElementKeeps ==
    ASSUME Parser, NEW name \in STRING, StartElement(name)
    PROVE  Parser'
<1>1. stack' = Append(stack, name) /\ stack \in Seq(STRING) /\ stack' \in Seq(STRING)
  BY DEF StartElement, Parser
<1>2. /\ Cardinality(Items(stack')) = IF name = "item" THEN item + 1 ELSE item
      /\ Cardinality(Subitems(stack'))
            = IF name # "item" /\ item > 0 THEN subitem + 1 ELSE subitem
  BY <1>1, Opened DEF Parser
<1>3. /\ item' = IF name = "item" THEN item + 1 ELSE item
      /\ subitem' = IF name # "item" /\ item > 0 THEN subitem + 1 ELSE subitem
  BY DEF StartElement
<1>4. elements' \in Seq(Elements)
  <2> DEFINE new == <<[name |-> name, value |-> <<>>]>>
  <2>1. new \in Seq(Elements)
    BY DEF Elements
  <2> HIDE DEF new
  <2>2. new \o elements \in Seq(Elements)
    BY <2>1, ConcatProperties DEF Parser
  <2>3. elements' \in {<<>>, elements, new \o elements}
    BY DEF StartElement, new
  <2> QED
    <3>1. <<>> \in Seq(Elements) /\ elements \in Seq(Elements)
      BY EmptySeq DEF Parser
    <3> QED
      BY <3>1, <2>2, <2>3
<1> QED
  BY <1>1, <1>2, <1>3, <1>4 DEF Parser, Parsing, StartElement

\* end_element().
LEMMA EndElementKeeps ==
    ASSUME Parser, NEW name \in STRING, stack # <<>>, Last(stack) = name, EndElement(name)
    PROVE  Parser'
<1>1. stack' = Front(stack) /\ stack \in Seq(STRING) /\ elements' = elements
  BY DEF EndElement, Parser
<1>2. /\ stack' \in Seq(STRING)
      /\ Cardinality(Items(stack')) = IF name = "item" THEN item - 1 ELSE item
      /\ Cardinality(Subitems(stack'))
            = IF name # "item" /\ item > 0 THEN subitem - 1 ELSE subitem
  BY <1>1, Closed DEF Parser
<1>3. /\ item' = IF name = "item" THEN item - 1 ELSE item
      /\ subitem' = IF name # "item" /\ item > 0 THEN subitem - 1 ELSE subitem
  BY DEF EndElement
<1> QED
  BY <1>1, <1>2, <1>3 DEF Parser, Parsing, EndElement

\* character_data().
LEMMA CharacterDataKeeps ==
    ASSUME Parser, NEW text \in STRING, CharacterData(text)
    PROVE  Parser'
<1>1. CASE subitem > 0
  <2> DEFINE first == [elements[1] EXCEPT !.value = Append(@, text)]
  <2>1. elements \in Seq(Elements) /\ elements # <<>> /\ 1 \in 1..Len(elements)
    BY <1>1, EmptySeq DEF Parser, CharacterData
  <2>2. elements[1] \in Elements
    BY <2>1, ElementOfSeq
  <2>3. first \in Elements
    <3> DEFINE e == elements[1]
               v == Append(e.value, text)
    <3>1. e.name \in STRING /\ e.value \in Seq(STRING) /\ e = [name |-> e.name, value |-> e.value]
      BY <2>2 DEF Elements
    <3>2. v \in Seq(STRING)
      BY <3>1, AppendProperties
    <3>3. first = [e EXCEPT !.value = v]
      OBVIOUS
    <3> HIDE DEF e, v, first
    <3>4. first = [name |-> e.name, value |-> v]
      BY <3>1, <3>3
    <3> QED
      BY <3>1, <3>2, <3>4 DEF Elements
  <2> HIDE DEF first
  <2>4. elements' = [elements EXCEPT ![1] = first]
    BY <1>1 DEF CharacterData, first
  <2>5. elements' \in Seq(Elements)
    BY <2>1, <2>3, <2>4, ExceptSeq
  <2> QED
    BY <2>5 DEF Parser, Parsing, CharacterData
<1>2. CASE ~(subitem > 0)
  BY <1>2 DEF Parser, Parsing, CharacterData
<1> QED
  BY <1>1, <1>2

\* A token goes from the pipe to the parser.
LEMMA ParseKeeps ==
    ASSUME Inv, docs' = docs, Parse
    PROVE  Inv'
<1> DEFINE piece == Head(urlPipe)
           token == Token(piece)
<1>t. /\ urlPipe \in Seq(Nat \X Nat) /\ urlPipe # <<>>
      /\ Len(urlPipe) \in Nat /\ DOMAIN urlPipe = 1..Len(urlPipe) /\ taken \in Nat
      /\ docs \in Seq(Seq(Tokens)) /\ Len(docs) \in Nat /\ Urls = 1..Len(docs)
  BY LenProperties, Documents DEF Inv, Pipes, Threads, Parse
<1>1. url \in Urls /\ Len(docs[url]) \in Nat /\ 1 \in DOMAIN urlPipe /\ Len(urlPipe) > 0
  BY <1>t, EmptySeq, Documents DEF Inv, Threads
<1>2. /\ piece = urlPipe[1] /\ piece[1] = url
      /\ piece[2] \in Nat /\ piece[2] <= Len(docs[url])
  <2>1. piece = urlPipe[1] /\ piece \in Nat \X Nat
    BY <1>t, <1>1
  <2>2. urlPipe[1][1] = url /\ urlPipe[1][2] <= Len(docs[url])
    BY <1>1 DEF Inv, Body
  <2> QED
    BY <2>1, <2>2
<1>3. token \in Tokens
  <2>1. piece[2] \in 1..Len(docs[url])
    BY <1>1, <1>2 DEF Parse, WellFormed
  <2>2. docs[url] \in Seq(Tokens)
    BY <1>t, <1>1, ElementOfSeq
  <2>3. docs[url][piece[2]] \in Tokens
    BY <2>1, <2>2, ElementOfSeq
  <2> QED
    BY <2>3, <1>2 DEF Token
<1>4. Parser' /\ pc' \in {"parse", "process"}
  <2>0. Parser /\ WellFormed(piece)
    BY DEF Inv, Parse
  <2>1. CASE token.kind = "open" /\ StartElement(token.name)
    <3>1. token.name \in STRING
      BY <1>3, <2>1 DEF Tokens
    <3> QED
      BY <3>1, <2>0, <2>1, StartElementKeeps DEF StartElement
  <2>2. CASE token.kind = "close" /\ EndElement(token.name)
    <3>1. token.name \in STRING
      BY <1>3, <2>2 DEF Tokens
    <3>2. stack # <<>> /\ Last(stack) = token.name
      BY <2>0, <2>2 DEF WellFormed
    <3> QED
      BY <3>1, <3>2, <2>0, <2>2, EndElementKeeps DEF EndElement
  <2>3. CASE token.kind = "text" /\ CharacterData(token.text)
    <3>1. token.text \in STRING
      BY <1>3, <2>3 DEF Tokens
    <3> QED
      BY <3>1, <2>0, <2>3, CharacterDataKeeps DEF CharacterData
  <2> QED
    BY <2>1, <2>2, <2>3 DEF Parse
<1> HIDE DEF piece, token
<1>f. /\ UNCHANGED <<url, rc, curl, http, answer, hops, sent, inPipe, outPipe,
                     description, unwritten, inWriters, outWriters, lynx, status, closed,
                     answers, proxied>>
      /\ urlPipe' = Tail(urlPipe) /\ taken' = taken + 1 /\ pc = "parse" /\ Urls' = Urls
  BY DEF Parse, fetch, render, posting, Urls
<1>5. /\ urlPipe' \in Seq(Nat \X Nat) /\ Len(urlPipe') = Len(urlPipe) - 1
      /\ DOMAIN urlPipe' = 1..Len(urlPipe) - 1
      /\ \A i \in 1..Len(urlPipe) - 1 : urlPipe'[i] = urlPipe[i + 1]
  <2>1. /\ urlPipe' \in Seq(Nat \X Nat) /\ Len(urlPipe') = Len(urlPipe) - 1
        /\ \A i \in 1..Len(urlPipe') : urlPipe'[i] = urlPipe[i + 1]
    BY <1>t, <1>f, HeadTailProperties
  <2> QED
    BY <2>1, LenProperties
<1>6. TypeOK'
  <2>1. item' \in Nat /\ subitem' \in Nat
    BY <1>4, Countable DEF Parser
  <2>2. Len(urlPipe') <= UrlPipeSize
    BY <1>t, <1>5, Lj2NewsAssumption DEF Inv, TypeOK
  <2> QED
    BY <2>1, <2>2, <1>f, <1>4 DEF Inv, TypeOK
<1>7. Pipes' /\ State'
  BY <1>f, <1>5 DEF Inv, Pipes, State
<1>8. Threads'
  BY <1>t, <1>1, <1>f, <1>4 DEF Inv, Threads, Parsing
<1>9. Body'
  <2>1. http = "OK" /\ curl \notin {"connect", "header"}
    BY <1>t, <1>f DEF Inv, Threads, Body, Parsing
  <2>2. \A i \in 1..Len(urlPipe) - 1 :
          /\ urlPipe'[i][1] = url /\ urlPipe'[i][2] <= Len(docs[url])
          /\ url \notin proxied => urlPipe'[i][2] = taken + 1 + i
    <3> SUFFICES ASSUME NEW i \in 1..Len(urlPipe) - 1
                 PROVE  /\ urlPipe'[i][1] = url /\ urlPipe'[i][2] <= Len(docs[url])
                        /\ url \notin proxied => urlPipe'[i][2] = taken + 1 + i
      OBVIOUS
    <3>1. i + 1 \in DOMAIN urlPipe /\ taken + (i + 1) = taken + 1 + i
      BY <1>t
    <3>2. urlPipe'[i] = urlPipe[i + 1]
      BY <1>5
    <3> QED
      BY <3>1, <3>2 DEF Inv, Body
  <2>3. url \notin proxied => sent = taken + 1 + (Len(urlPipe) - 1)
    BY <1>t, <2>1 DEF Inv, Body
  <2> QED
    BY <2>1, <2>2, <2>3, <1>f, <1>5 DEF Body
<1> QED
  BY <1>4, <1>6, <1>7, <1>8, <1>9 DEF Inv

-------------------------------------------------------------------------------
(* The main thread and the rendering of an item.                           *)

\* What all but the types and the pipes say is kept by a step that neither
\* fetches nor parses.
LEMMA OnlyMainMoves ==
    ASSUME Inv, docs' = docs, UNCHANGED <<url, parser, fetch, urlPipe, history>>,
           pc' \in Parsing => http = "OK",
           pc' \in Parsing \cup {"await"} => url \in Urls,
           pc' \notin Parsing => stack = <<>>,
           pc' \in {"next", "posting", "exit"} => curl = "ended"
    PROVE  /\ Parser' /\ Threads' /\ State' /\ Body'
           /\ UNCHANGED <<item, subitem, curl, http, hops, sent, urlPipe, proxied>>
           /\ Urls' = Urls
<1> USE DEF parser, fetch, history
<1>1. Urls' = Urls
  BY DEF Urls
<1>2. Parser'
  BY DEF Inv, Parser
<1>3. Threads'
  BY <1>1 DEF Inv, Threads
<1>4. State' /\ Body'
  BY DEF Inv, State, Body
<1> QED
  BY <1>1, <1>2, <1>3, <1>4

\* The steps of the main thread between documents.
LEMMA UrlsKeep ==
    ASSUME Inv, docs' = docs,
           \/ StartUrl \/ StartParse \/ GiveUpUrl \/ EndParse \/ JoinCurl
           \/ CallJoin \/ Exit
    PROVE  Inv'
<1>t. /\ Len(docs) \in Nat /\ Urls = 1..Len(docs) /\ url \in Nat
      /\ UrlPipeSize \in Nat \ {0}
  BY Documents, Lj2NewsAssumption
<1>1. CASE StartUrl
  <2>f. /\ UNCHANGED <<rc, stack, item, subitem, elements, inPipe, outPipe, description,
                       unwritten, inWriters, outWriters, lynx, status, closed,
                       answers, proxied>>
        /\ url' = url + 1 /\ pc' = "await" /\ pc = "next" /\ url < Len(docs)
        /\ curl' = "connect" /\ http' = "INITIAL" /\ answer' = NoAnswer
        /\ hops' = 0 /\ sent' = 0 /\ urlPipe' = <<>> /\ taken' = 0 /\ Urls' = Urls
    BY <1>1 DEF StartUrl, parser, render, posting, Urls
  <2>1. url' \in Urls
    BY <2>f, <1>t
  <2>2. Len(urlPipe') = 0 /\ urlPipe' \in Seq(Nat \X Nat)
    BY <2>f, EmptySeq
  <2>3. TypeOK'
    BY <2>f, <2>1, <2>2, <1>t, Lj2NewsAssumption DEF Inv, TypeOK
  <2>4. Parser'
    BY <2>f, SameParser DEF Inv, Parsing, parser
  <2>5. Pipes' /\ State' /\ Body'
    BY <2>f, <2>2 DEF Inv, Pipes, State, Body
  <2>6. Threads'
    <3>1. answer' \in Responses
      BY <2>f DEF NoAnswer, Responses
    <3> QED
      BY <3>1, <2>f, <2>1 DEF Inv, Threads, Parsing
  <2> QED
    BY <2>3, <2>4, <2>5, <2>6 DEF Inv
<1>2. CASE StartParse
  <2>f. /\ UNCHANGED <<url, rc, subitem, elements, curl, http, answer, hops, sent, urlPipe,
                       inPipe, outPipe, description, unwritten, inWriters, outWriters,
                       lynx, status, closed, answers, proxied, taken>>
        /\ pc = "await" /\ http = "OK" /\ pc' = "parse" /\ stack' = <<>> /\ item' = 0
        /\ Urls' = Urls
    BY <1>2 DEF StartParse, fetch, render, posting, history, Urls
  <2>1. TypeOK'
    BY <2>f DEF Inv, TypeOK
  <2>2. Parser'
    BY <2>f, NothingOpen, EmptySeq DEF Inv, Parser, Parsing
  <2>3. Pipes' /\ State' /\ Body'
    BY <2>f DEF Inv, Pipes, State, Body
  <2>4. Threads'
    BY <2>f DEF Inv, Threads, Parsing
  <2> QED
    BY <2>1, <2>2, <2>3, <2>4 DEF Inv
<1>3. CASE GiveUpUrl \/ EndParse \/ JoinCurl \/ CallJoin \/ Exit
  <2>f. /\ UNCHANGED <<url, parser, fetch, urlPipe, history, inPipe, outPipe, description,
                       unwritten, inWriters, outWriters, lynx>>
        /\ rc' \in {rc, 1} /\ pc' \in {"join", "next", "posting", "exit"}
        /\ status' \in {status, "finished"} /\ closed' \in {closed, TRUE}
        /\ pc = "parse" => stack = <<>>
        /\ pc \in {"await", "parse", "join", "next", "posting"}
        /\ pc' \in {"next", "posting", "exit"} =>
              curl = "ended" \/ pc \in {"next", "posting"}
    BY <1>3 DEF GiveUpUrl, EndParse, JoinCurl, CallJoin, Exit, render, posting,
                Queue!Close, Queue!Finish
  <2>1. /\ Parser' /\ Threads' /\ State' /\ Body'
        /\ UNCHANGED <<item, subitem, curl, http, hops, sent, urlPipe, proxied>>
        /\ Urls' = Urls
    <3>1. pc' \notin Parsing
      BY <2>f DEF Parsing
    <3>2. stack = <<>>
      BY <2>f DEF Inv, Parser, Parsing
    <3>3. pc' \in {"next", "posting", "exit"} => curl = "ended"
      BY <2>f DEF Inv, Threads
    <3> QED
      BY <3>1, <3>2, <3>3, <2>f, OnlyMainMoves
  <2>2. TypeOK'
    <3>1. closed' \in BOOLEAN
      BY <2>f DEF Inv, TypeOK
    <3>2. /\ rc' \in {0, 1} /\ status' \in {"open", "finished", "aborted"}
          /\ pc' \in {"next", "join", "posting", "exit"}
      BY <2>f DEF Inv, TypeOK
    <3> QED
      BY <3>1, <3>2, <2>1, <2>f DEF Inv, TypeOK
  <2>3. Pipes'
    BY <2>1, <2>f DEF Inv, Pipes
  <2> QED
    BY <2>1, <2>2, <2>3 DEF Inv
<1> QED
  BY <1>1, <1>2, <1>3

\* What a step of rendering has to see to: the pipes' contents and lengths.
LEMMA RenderKeeps ==
    ASSUME Inv, docs' = docs,
           UNCHANGED <<url, rc, parser, fetch, urlPipe, history>>,
           pc' = pc \/ (pc \in Parsing /\ pc' \in Parsing),
           status' = status, closed' = closed,
           description' \in Seq(STRING), unwritten' \in Seq(STRING),
           inPipe' \in Seq(STRING), outPipe' \in Seq(STRING),
           Len(inPipe') <= PipeSize, Len(outPipe') <= PipeSize,
           inWriters' \subseteq {"lj2news", "lynx"}, outWriters' \subseteq {"lynx"},
           lynx' \in {"none", "running", "done", "failed"}
    PROVE  Inv'
<1>1. pc' = pc \/ pc' \in {"parse", "process", "lead", "copy", "reap"}
  BY DEF Parsing
<1>2. /\ pc' \in Parsing => http = "OK"
      /\ pc' \in Parsing \cup {"await"} => url \in Urls
      /\ pc' \notin Parsing => stack = <<>>
      /\ pc' \in {"next", "posting", "exit"} => curl = "ended"
  BY <1>1 DEF Inv, Parser, Threads, Parsing
<1>3. /\ Parser' /\ Threads' /\ State' /\ Body'
      /\ UNCHANGED <<item, subitem, curl, http, hops, sent, urlPipe, proxied>>
      /\ Urls' = Urls
  BY <1>1, <1>2, OnlyMainMoves
<1>4. TypeOK'
  BY <1>1, <1>3 DEF Inv, TypeOK
<1>5. Pipes'
  BY <1>3 DEF Inv, Pipes
<1> QED
  BY <1>3, <1>4, <1>5 DEF Inv

\* What find_element() returns, if anything.
LEMMA FoundElement ==
    ASSUME elements \in Seq(Elements), NEW name, FindElement(name) # None
    PROVE  FindElement(name) \in Seq(STRING)
<1> DEFINE I == {i \in 1..Len(elements) : elements[i].name = name}
<1>1. FindElement(name) = IF (IF I # {} THEN Min(I) ELSE 0) = 0 THEN None
                          ELSE elements[IF I # {} THEN Min(I) ELSE 0].value
  BY DEF FindElement, SelectInSeq
<1>2. I # {} /\ FindElement(name) = elements[Min(I)].value
  BY <1>1
<1>3. Min(I) \in 1..Len(elements)
  <2>1. I \in SUBSET Nat /\ I \subseteq 1..Len(elements)
    OBVIOUS
  <2> HIDE DEF I
  <2> QED
    BY <1>2, <2>1, MinOf
<1>4. elements[Min(I)] \in Elements
  BY <1>3, ElementOfSeq
<1> QED
  BY <1>2, <1>4 DEF Elements

\* Everything that happens while an item is rendered, and its posting.
LEMMA RenderingKeeps ==
    ASSUME Inv, docs' = docs,
           \/ StartLynx \/ SkipItem \/ ReadLead \/ ReadRest \/ ReadEnd \/ Post
    PROVE  Inv'
<1>t. /\ description \in Seq(STRING) /\ unwritten \in Seq(STRING)
      /\ inPipe \in Seq(STRING) /\ outPipe \in Seq(STRING)
      /\ Len(inPipe) <= PipeSize /\ Len(outPipe) <= PipeSize /\ PipeSize \in Nat
      /\ Len(outPipe) \in Nat
      /\ inWriters \subseteq {"lj2news", "lynx"} /\ outWriters \subseteq {"lynx"}
      /\ lynx \in {"none", "running", "done", "failed"}
  BY Lj2NewsAssumption, LenProperties DEF Inv, Pipes, TypeOK
<1>1. CASE StartLynx
  <2>1. description' \in Seq(STRING)
    BY <1>1, FoundElement DEF StartLynx, Inv, Parser
  <2>2. unwritten' \in Seq(STRING)
    <3>1. ASSUME NEW b \in Blanks PROVE <<b>> \in Seq(STRING)
      <4>1. b \in STRING
        BY Lj2NewsAssumption
      <4>2. ASSUME NEW S, NEW x \in S PROVE <<x>> \in Seq(S)
        OBVIOUS
      <4> QED
        BY <4>1, <4>2
    <3>2. <<>> \in Seq(STRING)
      BY EmptySeq
    <3>3. unwritten' \in {<<>>} \cup {<<b>> : b \in Blanks}
      BY <1>1 DEF StartLynx
    <3> QED
      BY <3>1, <3>2, <3>3
  <2>3. inPipe' = <<>> /\ outPipe' = <<>> /\ Len(<<>>) = 0 /\ <<>> \in Seq(STRING)
    BY <1>1, EmptySeq DEF StartLynx
  <2>4. /\ inWriters' \subseteq {"lj2news", "lynx"} /\ outWriters' \subseteq {"lynx"}
        /\ lynx' \in {"none", "running", "done", "failed"}
        /\ pc \in Parsing /\ pc' \in Parsing /\ status' = status /\ closed' = closed
        /\ UNCHANGED <<url, rc, parser, fetch, urlPipe, history>>
    BY <1>1 DEF StartLynx, Parsing, posting
  <2> QED
    BY <1>t, <2>1, <2>2, <2>3, <2>4, RenderKeeps
<1>2. CASE SkipItem
  BY <1>2, <1>t, RenderKeeps DEF SkipItem, Parsing, render, posting
<1>3. CASE ReadLead \/ ReadRest
  <2>1. /\ outPipe # <<>> /\ outPipe' = Tail(outPipe) /\ RenderStep
        /\ pc \in Parsing /\ pc' \in Parsing
        /\ UNCHANGED <<description, inPipe, inWriters, outWriters, lynx, unwritten>>
    BY <1>3 DEF ReadLead, ReadRest, Parsing
  <2>2. outPipe' \in Seq(STRING) /\ Len(outPipe') = Len(outPipe) - 1
    BY <1>t, <2>1, HeadTailProperties
  <2>3. Len(outPipe') <= PipeSize
    BY <1>t, <2>2
  <2> QED
    <3>1. /\ UNCHANGED <<url, rc, parser, fetch, urlPipe, history>>
          /\ status' = status /\ closed' = closed
      BY <2>1 DEF RenderStep, posting
    <3> QED
      BY <1>t, <2>1, <2>2, <2>3, <3>1, RenderKeeps
<1>4. CASE ReadEnd
  BY <1>4, <1>t, RenderKeeps DEF ReadEnd, RenderStep, Parsing, render, posting
<1>5. CASE Post
  <2>1. status' = status /\ closed' = closed
    BY <1>5 DEF Post, Queue!Enqueue
  <2> QED
    BY <1>5, <1>t, <2>1, RenderKeeps DEF Post, Parsing
<1> QED
  BY <1>1, <1>2, <1>3, <1>4, <1>5

\* The writer thread and lynx.
LEMMA PipesKeep ==
    ASSUME Inv, docs' = docs,
           \/ WriteDescription \/ CloseDescription \/ LynxReads \/ LynxWrites
           \/ LynxEnds \/ LynxFails
    PROVE  Inv'
<1>t. /\ description \in Seq(STRING) /\ unwritten \in Seq(STRING)
      /\ inPipe \in Seq(STRING) /\ outPipe \in Seq(STRING)
      /\ Len(inPipe) <= PipeSize /\ Len(outPipe) <= PipeSize /\ PipeSize \in Nat
      /\ Len(inPipe) \in Nat /\ Len(outPipe) \in Nat
      /\ inWriters \subseteq {"lj2news", "lynx"} /\ outWriters \subseteq {"lynx"}
      /\ lynx \in {"none", "running", "done", "failed"}
  BY Lj2NewsAssumption, LenProperties DEF Inv, Pipes, TypeOK
<1>f. /\ UNCHANGED <<url, rc, parser, fetch, urlPipe, history>>
      /\ status' = status /\ closed' = closed /\ pc' = pc
  BY DEF WriteDescription, CloseDescription, LynxReads, LynxWrites, LynxEnds, LynxFails,
         RenderStep, posting
<1>1. CASE WriteDescription
  <2>1. /\ description # <<>> /\ Len(inPipe) < PipeSize
        /\ inPipe' = Append(inPipe, Head(description)) /\ description' = Tail(description)
        /\ UNCHANGED <<inWriters, outPipe, outWriters, lynx, unwritten>>
    BY <1>1 DEF WriteDescription
  <2>2. description' \in Seq(STRING) /\ Head(description) \in STRING
    BY <1>t, <2>1, HeadTailProperties
  <2>3. inPipe' \in Seq(STRING) /\ Len(inPipe') = Len(inPipe) + 1
    BY <1>t, <2>1, <2>2, AppendProperties
  <2>4. Len(inPipe') <= PipeSize
    BY <1>t, <2>1, <2>3
  <2> QED
    BY <1>t, <1>f, <2>1, <2>2, <2>3, <2>4, RenderKeeps
<1>2. CASE CloseDescription
  <2>1. /\ inWriters' \subseteq inWriters
        /\ UNCHANGED <<description, inPipe, outPipe, outWriters, lynx, unwritten>>
    BY <1>2 DEF CloseDescription
  <2>2. inWriters' \subseteq {"lj2news", "lynx"}
    BY <1>t, <2>1
  <2> QED
    BY <1>t, <1>f, <2>1, <2>2, RenderKeeps
<1>3. CASE LynxReads
  <2>1. /\ inPipe # <<>> /\ inPipe' = Tail(inPipe)
        /\ unwritten' = Append(unwritten, Head(inPipe))
        /\ UNCHANGED <<description, inWriters, outPipe, outWriters, lynx>>
    BY <1>3 DEF LynxReads
  <2>2. /\ inPipe' \in Seq(STRING) /\ Head(inPipe) \in STRING
        /\ Len(inPipe') = Len(inPipe) - 1
    BY <1>t, <2>1, HeadTailProperties
  <2>3. unwritten' \in Seq(STRING)
    BY <1>t, <2>1, <2>2, AppendProperties
  <2>4. Len(inPipe') <= PipeSize
    BY <1>t, <2>2
  <2> QED
    BY <1>t, <1>f, <2>1, <2>2, <2>3, <2>4, RenderKeeps
<1>4. CASE LynxWrites
  <2>1. /\ unwritten # <<>> /\ Len(outPipe) < PipeSize
        /\ outPipe' = Append(outPipe, Head(unwritten)) /\ unwritten' = Tail(unwritten)
        /\ UNCHANGED <<description, inPipe, inWriters, outWriters, lynx>>
    BY <1>4 DEF LynxWrites
  <2>2. unwritten' \in Seq(STRING) /\ Head(unwritten) \in STRING
    BY <1>t, <2>1, HeadTailProperties
  <2>3. outPipe' \in Seq(STRING) /\ Len(outPipe') = Len(outPipe) + 1
    BY <1>t, <2>1, <2>2, AppendProperties
  <2>4. Len(outPipe') <= PipeSize
    BY <1>t, <2>1, <2>3
  <2> QED
    BY <1>t, <1>f, <2>1, <2>2, <2>3, <2>4, RenderKeeps
<1>5. CASE LynxEnds \/ LynxFails
  <2>1. /\ lynx' \in {"done", "failed"} /\ outWriters' \subseteq {"lynx"}
        /\ UNCHANGED <<description, inPipe, inWriters, outPipe, unwritten>>
    BY <1>5 DEF LynxEnds, LynxFails
  <2> QED
    BY <1>t, <1>f, <2>1, RenderKeeps
<1> QED
  BY <1>1, <1>2, <1>3, <1>4, <1>5

-------------------------------------------------------------------------------
(* Every step.                                                             *)

\* The invariant is inductive.
LEMMA NextInv == Inv /\ [Next]_vars => Inv'
<1> SUFFICES ASSUME Inv, [Next]_vars PROVE Inv'
  OBVIOUS
<1>1. CASE UNCHANGED vars
  <2>1. TypeOK'
    BY <1>1 DEF Inv, TypeOK, vars, Urls
  <2>2. Parser'
    BY <1>1, SameParser DEF Inv, vars, parser
  <2>3. Pipes' /\ Threads' /\ State' /\ Body'
    BY <1>1 DEF Inv, Pipes, Threads, State, Body, vars, Urls
  <2> QED
    BY <2>1, <2>2, <2>3 DEF Inv
<1>2. CASE Next
  <2>0. docs' = docs
    BY <1>2 DEF Next
  <2>1. CASE Main
    <3>1. CASE StartUrl \/ StartParse \/ GiveUpUrl \/ EndParse \/ JoinCurl \/ CallJoin \/ Exit
      BY <2>0, <3>1, UrlsKeep
    <3>2. CASE Parse
      BY <2>0, <3>2, ParseKeeps
    <3>3. CASE StartLynx \/ SkipItem \/ ReadLead \/ ReadRest \/ ReadEnd \/ Post
      BY <2>0, <3>3, RenderingKeeps
    <3>4. CASE ParseError \/ NoElement \/ ItemIncomplete \/ LynxFailed
      BY <2>0, <3>4, DieKeeps DEF ParseError, NoElement, ItemIncomplete, LynxFailed
    <3> QED
      BY <2>1, <3>1, <3>2, <3>3, <3>4 DEF Main
  <2>2. CASE Curl
    BY <2>0, <2>2, CurlKeeps
  <2>3. CASE WriteDescription \/ CloseDescription \/ Lynx \/ LynxFails
    BY <2>0, <2>3, PipesKeep DEF Lynx
  <2>4. CASE BrokenPipe \/ FetchFails \/ PosterFails
    BY <2>0, <2>4, DieKeeps DEF BrokenPipe, FetchFails, PosterFails
  <2>5. CASE PosterHandles
    <3>1. /\ UNCHANGED <<main, fetch, urlPipe, render, history>>
          /\ status' = status /\ closed' = closed
      BY <2>5 DEF PosterHandles, Queue!Handle
    <3>2. /\ UNCHANGED <<pc, url, rc, parser, fetch, urlPipe, history, description, unwritten,
                         inPipe, outPipe, inWriters, outWriters, lynx>>
      BY <3>1 DEF main, render
    <3> QED
      BY <2>0, <3>1, <3>2, RenderKeeps DEF Inv, Pipes, TypeOK
  <2> QED
    BY <1>2, <2>1, <2>2, <2>3, <2>4, <2>5 DEF Next, Writer
<1> QED
  BY <1>1, <1>2

\* The invariant holds always.
LEMMA Invariant == Spec => []Inv
<1> QED
  BY InitInv, NextInv, PTL DEF Spec

-------------------------------------------------------------------------------
(* The exit status.                                                        *)

\* Steps that neither take up a URL nor are done with one, nor change what is
\* known of them.
LEMMA SameOutcome ==
    ASSUME Outcome, docs' = docs, UNCHANGED <<url, rc, curl, http, answer, answers, proxied>>,
           \/ pc' = pc
           \/ pc \in Parsing \cup {"await"} /\ pc' \in Parsing
    PROVE  Outcome'
<1>1. Urls' = Urls /\ \A u : Rejected(u)' <=> Rejected(u)
  BY DEF Urls, Rejected, Good
<1>2. Decided' = Decided
  BY DEF Decided
<1>3. rc' = 1 <=> \E u \in Decided' : Rejected(u)'
  BY <1>1, <1>2 DEF Outcome
<1>4. pc' \in {"join", "posting", "exit"} => pc' = pc
  BY DEF Parsing
<1> QED
  BY <1>1, <1>3, <1>4 DEF Outcome

\* A header line.
LEMMA HeadersOutcome ==
    ASSUME Inv, Outcome, docs' = docs, UNCHANGED <<hops, sent, urlPipe, answers, proxied>>,
           \/ \E class \in {"1xx", "2xx", "3xx", "4xx"} : StatusLine(class)
           \/ \E ctype \in {"xml", "other"} : ContentType(ctype)
    PROVE  Outcome'
<1>0. /\ FetchStep /\ curl \in {"connect", "header"} /\ curl' = "header"
      /\ UNCHANGED <<pc, url, rc>> /\ Urls' = Urls /\ url \in Urls
  BY FetchFrame DEF StatusLine, ContentType, FetchStep, main, Inv, Threads, Urls
<1>1. Decided' = Decided /\ \A u : Rejected(u)' <=> Rejected(u)
  BY <1>0 DEF Decided, Rejected, Good
<1>2. answers[url] = NoAnswer
  BY <1>0 DEF Outcome
<1>3. url \notin proxied /\ http # "OK" => Rejected(url)
  BY <1>2 DEF Rejected, Good, NoAnswer
<1>t. /\ http \in {"INITIAL", "ERROR", "FINAL", "OK"} /\ answer \in Responses
      /\ http = "FINAL" => answer.class = "2xx" /\ answer.ctype # "other"
      /\ url \in proxied => http = "OK"
      /\ curl = "header" /\ answer.class = "2xx" => http # "INITIAL"
      /\ http = "ERROR" => /\ curl # "connect"
                           /\ answer.class = "4xx" \/ (answer.class = "2xx" /\ answer.ctype = "other")
  BY DEF Inv, TypeOK, Threads, State, Outcome
<1>4. /\ http' = "OK" <=> http = "OK"
      /\ answer'.class = "2xx" => http' # "INITIAL"
      /\ http' = "ERROR" =>
            answer'.class = "4xx" \/ (answer'.class = "2xx" /\ answer'.ctype = "other")
      /\ http = "ERROR" => http' = "ERROR"
  <2>1. ASSUME NEW class \in {"1xx", "2xx", "3xx", "4xx"}, StatusLine(class) PROVE <1>4
    BY <2>1, <1>t DEF StatusLine, SetHttpState
  <2>2. ASSUME NEW ctype \in {"xml", "other"}, ContentType(ctype) PROVE <1>4
    <3>1. /\ answer' = [answer EXCEPT !.ctype = ctype] /\ answer.ctype = "none"
          /\ answer'.class = answer.class /\ answer'.ctype = ctype
          /\ curl = "header"
      BY <2>2, <1>t DEF ContentType, Responses
    <3>2. \/ http = "FINAL" /\ ctype # "xml" /\ http' = "ERROR"
          \/ ~(http = "FINAL" /\ ctype # "xml") /\ http' = http
      BY <2>2, <1>t DEF ContentType, SetHttpState
    <3> QED
      BY <1>t, <3>1, <3>2
  <2> QED
    BY <2>1, <2>2
<1>5. pc' = "join" => http' = "ERROR" \/ (http' = "OK" /\ curl' = "ended")
  BY <1>0, <1>4 DEF Outcome
<1>6. http' = "ERROR" => http' # "OK" /\ url \notin proxied
  BY <1>4, <1>t
<1>7. http' = "ERROR" => Rejected(url)'
  BY <1>0, <1>1, <1>3, <1>4, <1>6
<1>8. rc' = 1 <=> \E u \in Decided' : Rejected(u)'
  BY <1>0, <1>1 DEF Outcome
<1>9. \A u \in Urls' : u > url' \/ (u = url' /\ curl' \in {"connect", "header"})
                          => answers'[u] = NoAnswer
  BY <1>0, <1>2 DEF Outcome
<1> QED
  BY <1>0, <1>4, <1>5, <1>7, <1>8, <1>9 DEF Outcome

\* The blank line behind the headers: a response that another one follows was
\* not the reason for HTTP_ERROR, and of one that was the answer is no feed.
LEMMA BlankLineOutcome ==
    ASSUME Inv, Outcome, docs' = docs, NextResponse \/ LastResponse
    PROVE  Outcome'
<1>0. /\ FetchStep /\ curl = "header" /\ BlankLine /\ answer' = answer
      /\ UNCHANGED <<pc, url, rc>> /\ Urls' = Urls /\ url \in Urls
      /\ Urls = 1..Len(docs) /\ Len(docs) \in Nat
  BY FetchFrame DEF NextResponse, LastResponse, FetchStep, main, Inv, Threads, Urls
<1>t. /\ http \in {"INITIAL", "ERROR", "FINAL", "OK"} /\ answer \in Responses
      /\ http = "FINAL" => answer.class = "2xx" /\ answer.ctype # "other"
      /\ answers \in [Urls -> Responses]
  BY DEF Inv, TypeOK, Threads, State
<1>1. http' = IF http = "FINAL" THEN "OK" ELSE http
  BY <1>0, <1>t DEF BlankLine, SetHttpState
<1>2. pc \notin {"next", "posting", "exit"} /\ (pc = "join" => http = "ERROR")
  BY <1>0 DEF Inv, Threads, Outcome
<1>3. \A u \in Urls \ {url} : answers'[u] = answers[u] /\ (u \in proxied' <=> u \in proxied)
  <2>1. CASE NextResponse
    BY <2>1 DEF NextResponse
  <2>2. CASE LastResponse
    BY <2>2, <1>0, <1>t DEF LastResponse
  <2> QED
    BY <2>1, <2>2
<1>4. \A u \in Urls \ {url} : Rejected(u)' <=> Rejected(u)
  BY <1>3 DEF Rejected, Good
<1>5. http = "ERROR" => LastResponse /\ Rejected(url)'
  <2> SUFFICES ASSUME http = "ERROR" PROVE LastResponse /\ Rejected(url)'
    OBVIOUS
  <2>1. /\ answer.class = "4xx" \/ (answer.class = "2xx" /\ answer.ctype = "other")
        /\ url \notin proxied
    BY DEF Outcome, Rejected
  <2>2. LastResponse
    BY <2>1 DEF NextResponse
  <2>3. answers'[url] = answer /\ proxied' = proxied
    BY <2>2, <1>0, <1>t DEF LastResponse
  <2> QED
    BY <1>0, <2>1, <2>2, <2>3 DEF Rejected, Good
<1>6. proxied' \subseteq 1..url' /\ (url' \in proxied' => http' = "OK")
  <2>1. proxied \subseteq 1..url /\ (url \in proxied => http = "OK") /\ url \in 1..url
    BY <1>0 DEF Outcome
  <2>2. CASE NextResponse /\ answer.class = "2xx"
    <3>1. http \in {"FINAL", "OK"} /\ proxied' = proxied \cup {url}
      BY <1>0, <1>t, <1>5, <2>2 DEF Outcome, NextResponse, LastResponse
    <3> QED
      BY <1>0, <1>1, <2>1, <3>1
  <2>3. CASE ~(NextResponse /\ answer.class = "2xx")
    <3>1. proxied' = proxied
      BY <2>3 DEF NextResponse, LastResponse
    <3> QED
      BY <1>0, <1>1, <2>1, <3>1
  <2> QED
    BY <2>2, <2>3
<1>7. rc' = 1 <=> \E u \in Decided' : Rejected(u)'
  <2>1. Decided' = Decided /\ Decided \subseteq Urls
    BY <1>0 DEF Decided
  <2>2. CASE pc = "join"
    <3>1. http = "ERROR" /\ Rejected(url)' /\ Rejected(url) /\ url \in Decided
      BY <1>0, <1>2, <1>5, <2>2 DEF Outcome, Decided, Parsing
    <3>2. rc = 1
      BY <3>1 DEF Outcome
    <3> QED
      BY <1>0, <2>1, <3>1, <3>2
  <2>3. CASE pc # "join"
    <3>1. Decided = 1..url - 1 /\ url \notin Decided
      BY <1>0, <1>2, <2>3 DEF Inv, TypeOK, Decided, Parsing
    <3> QED
      BY <1>0, <1>4, <2>1, <3>1 DEF Outcome
  <2> QED
    BY <2>2, <2>3
<1>8. \A u \in Urls' : u > url' \/ (u = url' /\ curl' \in {"connect", "header"})
                          => answers'[u] = NoAnswer
  <2> SUFFICES ASSUME NEW u \in Urls, u > url \/ (u = url /\ curl' \in {"connect", "header"})
               PROVE  answers'[u] = NoAnswer
    BY <1>0
  <2>1. CASE u > url
    BY <1>0, <1>3, <2>1 DEF Outcome
  <2>2. CASE u = url
    <3>1. NextResponse
      BY <2>2, <1>0 DEF LastResponse
    <3> QED
      BY <1>0, <2>2, <3>1 DEF NextResponse, Outcome
  <2> QED
    BY <2>1, <2>2
<1>9. curl' \in {"connect", "body"} /\ (http' = "ERROR" => curl' = "body")
  BY <1>1, <1>5 DEF NextResponse, LastResponse
<1>10. http' = "ERROR" <=> http = "ERROR"
  BY <1>1
<1> QED
  BY <1>0, <1>2, <1>5, <1>6, <1>7, <1>8, <1>9, <1>10 DEF Outcome

\* Any step of the curl thread.
LEMMA CurlOutcome ==
    ASSUME Inv, Outcome, docs' = docs, Curl
    PROVE  Outcome'
<1>1. ASSUME NEW class \in {"1xx", "2xx", "3xx", "4xx"}, StatusLine(class) PROVE Outcome'
  <2>1. UNCHANGED <<hops, sent, urlPipe, answers, proxied>>
    BY <1>1 DEF StatusLine
  <2> QED
    BY <1>1, <2>1, HeadersOutcome
<1>2. ASSUME NEW ctype \in {"xml", "other"}, ContentType(ctype) PROVE Outcome'
  <2>1. UNCHANGED <<hops, sent, urlPipe, answers, proxied>>
    BY <1>2 DEF ContentType
  <2> QED
    BY <1>2, <2>1, HeadersOutcome
<1>3. CASE NextResponse \/ LastResponse
  BY <1>3, BlankLineOutcome
<1>4. CASE WriteData
  <2>1. UNCHANGED <<pc, url, rc, curl, http, answer, answers, proxied>>
    BY <1>4 DEF WriteData, FetchStep, main
  <2> QED
    BY <2>1, SameOutcome
<1>5. CASE FetchEnds
  <2>1. /\ UNCHANGED <<pc, url, rc, http, answer, answers, proxied>>
        /\ curl = "body" /\ curl' = "ended"
    BY <1>5 DEF FetchEnds, FetchStep, main
  <2>2. Urls' = Urls /\ Decided' = Decided /\ \A u : Rejected(u)' <=> Rejected(u)
    BY <2>1 DEF Urls, Decided, Rejected, Good
  <2>3. rc' = 1 <=> \E u \in Decided' : Rejected(u)'
    BY <2>1, <2>2 DEF Outcome
  <2> QED
    BY <2>1, <2>2, <2>3 DEF Outcome
<1> QED
  BY <1>1, <1>2, <1>3, <1>4, <1>5 DEF Curl

\* The steps of the main thread between documents.
LEMMA UrlsOutcome ==
    ASSUME Inv, Outcome, docs' = docs,
           \/ StartUrl \/ GiveUpUrl \/ EndParse \/ JoinCurl \/ CallJoin \/ Exit
    PROVE  Outcome'
<1>t. /\ Len(docs) \in Nat /\ Urls = 1..Len(docs) /\ url \in Nat /\ Urls' = Urls
  BY Documents DEF Urls
<1>1. CASE StartUrl
  <2>f. /\ UNCHANGED <<rc, answers, proxied>>
        /\ url' = url + 1 /\ pc' = "await" /\ pc = "next" /\ url < Len(docs)
        /\ curl' = "connect" /\ http' = "INITIAL"
    BY <1>1 DEF StartUrl
  <2>1. Decided' = Decided /\ \A u : Rejected(u)' <=> Rejected(u)
    BY <2>f, <1>t DEF Decided, Rejected, Good, Parsing
  <2>2. rc' = 1 <=> \E u \in Decided' : Rejected(u)'
    BY <2>f, <2>1 DEF Outcome
  <2>3. proxied' \subseteq 1..url' /\ url' \notin proxied'
    BY <2>f, <1>t DEF Outcome
  <2>4. \A u \in Urls' : u >= url' => answers'[u] = NoAnswer
    BY <2>f, <1>t DEF Outcome
  <2> QED
    BY <2>f, <1>t, <2>2, <2>3, <2>4 DEF Outcome
<1>f. ASSUME ~StartUrl
      PROVE  /\ UNCHANGED <<url, curl, http, answer, answers, proxied>>
             /\ \A u : Rejected(u)' <=> Rejected(u)
  BY <1>f DEF GiveUpUrl, EndParse, JoinCurl, CallJoin, Exit, fetch, history, Rejected, Good
<1>2. CASE GiveUpUrl /\ ~StartUrl
  <2>1. pc = "await" /\ http = "ERROR" /\ rc' = 1 /\ pc' = "join"
    BY <1>2 DEF GiveUpUrl
  <2>2. url \in Decided' /\ Rejected(url)
    BY <1>2, <1>f, <1>t, <2>1 DEF Outcome, Decided, Parsing
  <2>3. rc' = 1 <=> \E u \in Decided' : Rejected(u)'
    BY <1>2, <1>f, <2>1, <2>2
  <2> QED
    BY <1>2, <1>f, <1>t, <2>1, <2>3 DEF Outcome
<1>3. CASE EndParse /\ ~StartUrl
  <2>1. pc = "parse" /\ curl = "ended" /\ http = "OK" /\ rc' = rc /\ pc' = "join" /\ url \in Urls
    BY <1>3 DEF EndParse, Inv, Threads, Parsing
  <2>2. ~Rejected(url)
    BY <2>1 DEF Inv, State, Rejected, Good
  <2>3. Decided' = Decided \cup {url}
    BY <1>3, <1>f, <1>t, <2>1 DEF Decided, Parsing
  <2>4. rc' = 1 <=> \E u \in Decided' : Rejected(u)'
    BY <1>3, <1>f, <2>1, <2>2, <2>3 DEF Outcome
  <2> QED
    BY <1>3, <1>f, <1>t, <2>1, <2>4 DEF Outcome
<1>4. CASE (JoinCurl \/ CallJoin \/ Exit) /\ ~StartUrl
  <2>1. /\ pc \in {"join", "next", "posting"} /\ pc' \in {"next", "posting", "exit"} /\ rc' = rc
        /\ pc' = "posting" => url = Len(docs)
        /\ pc' = "exit" => pc = "posting"
    BY <1>4 DEF JoinCurl, CallJoin, Exit
  <2>2. Decided' = Decided
    BY <1>4, <1>f, <2>1 DEF Decided, Parsing
  <2>3. rc' = 1 <=> \E u \in Decided' : Rejected(u)'
    BY <1>4, <1>f, <2>1, <2>2 DEF Outcome
  <2>4. pc' \in {"posting", "exit"} => url' = Len(docs')
    BY <1>4, <1>f, <2>1 DEF Outcome
  <2> QED
    BY <1>4, <1>f, <1>t, <2>1, <2>3, <2>4 DEF Outcome
<1> QED
  BY <1>1, <1>2, <1>3, <1>4

\* Every step.
LEMMA NextOutcome == Inv /\ Outcome /\ [Next]_vars => Outcome'
<1> SUFFICES ASSUME Inv, Outcome, [Next]_vars PROVE Outcome'
  OBVIOUS
<1>1. CASE UNCHANGED vars
  BY <1>1, SameOutcome DEF vars
<1>2. CASE Next
  <2>0. docs' = docs
    BY <1>2 DEF Next
  <2>1. CASE StartUrl \/ GiveUpUrl \/ EndParse \/ JoinCurl \/ CallJoin \/ Exit
    BY <2>0, <2>1, UrlsOutcome
  <2>2. CASE Curl
    BY <2>0, <2>2, CurlOutcome
  <2>3. CASE \/ StartParse \/ Parse \/ SkipItem \/ StartLynx \/ ReadLead \/ ReadRest
             \/ ReadEnd \/ Post
    <3>1. UNCHANGED <<url, rc, curl, http, answer, answers, proxied>>
      BY <2>3 DEF StartParse, Parse, SkipItem, StartLynx, ReadLead, ReadRest, ReadEnd, Post,
                  RenderStep, fetch, history
    <3>2. pc \in Parsing \cup {"await"} /\ pc' \in Parsing
      BY <2>3 DEF StartParse, Parse, SkipItem, StartLynx, ReadLead, ReadRest, ReadEnd, Post,
                  StartElement, EndElement, CharacterData, Parsing
    <3> QED
      BY <2>0, <3>1, <3>2, SameOutcome
  <2>4. CASE \/ WriteDescription \/ CloseDescription \/ Lynx \/ LynxFails \/ PosterHandles
             \/ ParseError \/ NoElement \/ ItemIncomplete \/ LynxFailed
             \/ BrokenPipe \/ FetchFails \/ PosterFails
    <3>1. UNCHANGED <<pc, url, rc, curl, http, answer, answers, proxied>>
      BY <2>4 DEF WriteDescription, CloseDescription, Lynx, LynxReads, LynxWrites, LynxEnds,
                  LynxFails, PosterHandles, ParseError, NoElement, ItemIncomplete, LynxFailed,
                  BrokenPipe, FetchFails, PosterFails, Die, RenderStep, main, fetch, history
    <3> QED
      BY <2>0, <3>1, SameOutcome
  <2> QED
    BY <1>2, <2>1, <2>2, <2>3, <2>4 DEF Next, Main, Writer
<1> QED
  BY <1>1, <1>2

\* The initial state.
LEMMA InitOutcome == Init => Outcome
<1> SUFFICES ASSUME Init PROVE Outcome
  OBVIOUS
<1>1. Inv
  BY InitInv
<1>2. Decided = {}
  BY DEF Init, Decided, Parsing
<1> QED
  BY <1>2 DEF Init, Outcome

\* lj2news exits only when every URL is decided, and its status follows them.
LEMMA ExitStatusFollows == Inv /\ Outcome => ExitStatus
<1> SUFFICES ASSUME Inv, Outcome, pc = "exit"
             PROVE  rc = 1 <=> \E u \in Urls \ proxied : ~Good(u)
  BY DEF ExitStatus
<1>1. Decided = Urls
  BY Documents DEF Outcome, Decided, Parsing
<1> QED
  BY <1>1 DEF Outcome, Rejected

-------------------------------------------------------------------------------
(* What the articles are made of.                                          *)

\* A well-formed document has one root, so that something is open until its
\* last token.
Depth(doc, n) == Cardinality({i \in 1..n : doc[i].kind = "open"})
                     - Cardinality({i \in 1..n : doc[i].kind = "close"})
OneRoot(doc) == \A n \in 1..Len(doc) - 1 : Depth(doc, n) > 0

\* In a feed there is no item within an item, and a subelement of an item has
\* nothing but text in it.
InItem(doc, i) ==
    \E p \in 1..i - 1 :
        /\ doc[p].kind = "open" /\ doc[p].name = "item"
        /\ \A k \in p + 1..i - 1 : doc[k].kind = "close" => doc[k].name # "item"
FlatItems(doc) ==
    \A i \in DOMAIN doc : doc[i].kind = "open" /\ InItem(doc, i) =>
        /\ doc[i].name # "item"
        /\ \A j \in i + 1..Len(doc) :
              (\A k \in i + 1..j - 1 : doc[k].kind = "text") => doc[j].kind # "open"
Rss == \A u \in Urls : OneRoot(docs[u]) /\ FlatItems(docs[u])

\* No description begins, after blank lines, with a line that does not fit into
\* process_item()'s buffer.
BeginsShort(text) ==
    LET first == SelectInSeq(text, LAMBDA p : p \notin Blanks)
    IN  first # 0 => text[first] \notin LongStarts
ShortLeads ==
    \A u \in Urls : \A p, n \in Nat :
        LET text == ValueIn(docs[u], p, n, "description")
        IN  text # None => BeginsShort(text)

Doc == docs[url]

\* The tokens taken are the first ones of the document at the current URL.
Feeding ==
    /\ url \in Urls /\ curl \in {"body", "ended"} => answers[url] = answer
    /\ taken > 0 \/ urlPipe # <<>> => url \in Urls /\ http = "OK" /\ curl \in {"body", "ended"}
    /\ taken > 0 => answer.class = "2xx" /\ taken <= Len(Doc)
    /\ http = "OK" /\ curl \in {"body", "ended"} /\ answer.class = "2xx" =>
          /\ sent = taken + Len(urlPipe)
          /\ \A i \in DOMAIN urlPipe : urlPipe[i][2] = taken + i
    /\ answer.class # "2xx" => \A i \in DOMAIN urlPipe : urlPipe[i][2] = 0
    /\ pc = "await" => taken = 0
    /\ pc \in Parsing => Len(stack) = Depth(Doc, taken)

\* What find_element() and the loop over the categories make of a list of
\* elements, and that it is what the item that began at p says so far.
FindIn(els, name) ==
    LET i == SelectInSeq(els, LAMBDA e : e.name = name)
    IN  IF i = 0 THEN None ELSE els[i].value
KeywordsOf(els) ==
    FlattenSeq([i \in DOMAIN els |->
        IF els[i].name = "category" THEN <<els[i].value>> ELSE <<>>])
Fields == {"guid", "title", "pubDate", "link", "description"}
Gathered(els, doc, p, n) ==
    /\ \A name \in Fields : FindIn(els, name) = ValueIn(doc, p, n, name)
    /\ KeywordsOf(els) = KeywordsIn(doc, p, n)

\* After n tokens the item that began at p is open, and so is its subelement
\* that began at i, whose text is not complete; the elements as they will be
\* when it is.
Begun(doc, p, n) ==
    /\ doc[p].kind = "open" /\ doc[p].name = "item"
    /\ \A k \in p + 1..n : doc[k].kind # "text" => doc[k].name # "item"
Within(els, doc, p, i, n) ==
    /\ p < i /\ doc[i].kind = "open"
    /\ \A k \in i + 1..n : doc[k].kind = "text"
    /\ els # <<>> /\ els[1].name = doc[i].name
    /\ Len(els[1].value) = n - i
    /\ \A k \in 1..n - i : els[1].value[k] = doc[i + k].text
Completed(els, doc, i) == <<[name |-> els[1].name, value |-> TextAt(doc, i)]>> \o Tail(els)

\* Between callbacks the stack has at most an item and a subelement of it.
Reading ==
    pc = "parse" =>
        /\ item \in {0, 1} /\ subitem \in {0, 1}
        /\ item = 1 /\ subitem = 0 =>
              /\ stack # <<>> /\ Last(stack) = "item"
              /\ \E p \in 1..taken : Begun(Doc, p, taken) /\ Gathered(elements, Doc, p, taken)
        /\ subitem = 1 =>
              /\ item = 1
              /\ Len(stack) > 1 /\ Last(stack) # "item" /\ stack[Len(stack) - 1] = "item"
              /\ \E p, i \in 1..taken :
                    /\ Begun(Doc, p, taken) /\ Within(elements, Doc, p, i, taken)
                    /\ Gathered(Completed(elements, Doc, i), Doc, p, taken)

ItemDone == {"process", "lead", "copy", "reap"}
Complete ==
    pc \in ItemDone =>
        /\ item = 0 /\ taken > 0
        /\ \E p \in 1..taken : IsItem(Doc, p, taken) /\ Gathered(elements, Doc, p, taken)

\* A description without the pieces that ReadLead leaves out, which are more than
\* the blank lines; what is on its way to and from lynx comes behind what is in
\* the article.
Stripped(text) ==
    LET first == SelectInSeq(text, LAMBDA p : p \notin Blanks \cup LongStarts)
    IN  IF first = 0 THEN <<>> ELSE SubSeq(text, first, Len(text))
OnItsWay == outPipe \o (unwritten \o (inPipe \o description))
Rendering ==
    pc \in {"lead", "copy", "reap"} =>
        /\ FindElement("description") # None /\ ~Skipped(FindElement("pubDate"))
        /\ \E body \in Seq(STRING) :
              /\ article = [Header EXCEPT !.body = body]
              /\ pc = "lead" => /\ body = <<>>
                                /\ Stripped(OnItsWay) = Stripped(FindElement("description"))
              /\ pc = "copy" => body \o OnItsWay = Stripped(FindElement("description"))
              /\ pc = "reap" => lynx = "failed" \/ body = Stripped(FindElement("description"))
        /\ inWriters = {} => description = <<>>
        /\ lynx = "done" => unwritten = <<>> /\ inPipe = <<>> /\ inWriters = {}
        /\ outWriters = {} => lynx \in {"done", "failed"}
        /\ pc = "reap" => outWriters = {}

\* The articles queued are those of the URLs main is done with and of the items
\* it is done with at the current one.
Articles == {ArticleIn(docs[u], p, n) : u \in Urls, p \in Nat, n \in Nat}
Share(u) == IF answers[u].class = "2xx" /\ (Good(u) \/ u \in proxied)
            THEN ArticlesOf(docs[u]) ELSE <<>>
ArticlesTo(doc, n) == FlattenSeq([to \in 1..n |-> ArticleAt(doc, to)])
Posted == done \o queue
Earlier == ArticlesUpTo(url - 1)
UpToHere == ArticlesUpTo(url)
SoFar == ArticlesTo(Doc, taken)
BeforeLast == ArticlesTo(Doc, taken - 1)
Posting ==
    /\ done \in Seq(Articles) /\ queue \in Seq(Articles)
    /\ pc \in {"next", "posting", "exit"} => Posted = UpToHere
    /\ pc = "await" => Posted = Earlier
    /\ pc = "parse" => Posted = Earlier \o SoFar
    /\ pc \in ItemDone => Posted = Earlier \o BeforeLast
    /\ pc = "join" => Posted = IF http = "ERROR" THEN Earlier ELSE UpToHere
    /\ pc = "exit" => queue = <<>>

Whole == Feeding /\ Rendering /\ (Rss => Reading /\ Complete)
             /\ (Rss /\ ShortLeads => Posting)

-------------------------------------------------------------------------------
(* What an item says, as one token more is read.                           *)

\* find_element(), with one element more in front.
LEMMA FindCons ==
    ASSUME NEW V, NEW e \in [name : STRING, value : V],
           NEW els \in Seq([name : STRING, value : V]), NEW name
    PROVE  FindIn(<<e>> \o els, name) = IF e.name = name THEN e.value ELSE FindIn(els, name)
<1> DEFINE all == <<e>> \o els
           I == {i \in 1..Len(els) : els[i].name = name}
           J == {i \in 1..Len(all) : all[i].name = name}
<1>1. /\ Len(els) \in Nat /\ Len(all) = Len(els) + 1 /\ all[1] = e
      /\ \A i \in 1..Len(els) : all[i + 1] = els[i]
  BY FirstOfCons, LenProperties
<1>2. FindIn(els, name) = IF (IF I # {} THEN Min(I) ELSE 0) = 0 THEN None
                          ELSE els[IF I # {} THEN Min(I) ELSE 0].value
  BY DEF FindIn, SelectInSeq
<1>3. FindIn(all, name) = IF (IF J # {} THEN Min(J) ELSE 0) = 0 THEN None
                          ELSE all[IF J # {} THEN Min(J) ELSE 0].value
  BY DEF FindIn, SelectInSeq
<1>4. I \in SUBSET Nat /\ J \in SUBSET Nat
  OBVIOUS
<1> HIDE DEF all
<1>5. CASE e.name = name
  <2>1. 1 \in J /\ \A j \in J : 1 <= j
    BY <1>1, <1>5
  <2> HIDE DEF I, J
  <2>2. Min(J) = 1
    <3>1. Min(J) \in J /\ \A j \in J : Min(J) <= j
      BY <1>4, <2>1, MinOf
    <3>2. Min(J) \in Nat /\ Min(J) <= 1 /\ 1 <= Min(J)
      BY <1>4, <2>1, <3>1
    <3> HIDE DEF J
    <3> QED
      BY <3>2
  <2> QED
    BY <1>1, <1>3, <1>5, <2>1, <2>2 DEF all
<1>6. CASE e.name # name
  <2>1. \A i \in I : i + 1 \in J
    BY <1>1
  <2>2. \A j \in J : j - 1 \in I /\ j - 1 \in Nat
    <3> SUFFICES ASSUME NEW j \in J PROVE j - 1 \in I /\ j - 1 \in Nat
      OBVIOUS
    <3>1. j \in 1..Len(els) + 1 /\ all[j].name = name
      BY <1>1
    <3>2. j # 1
      BY <1>1, <1>6, <3>1
    <3>3. j - 1 \in 1..Len(els) /\ (j - 1) + 1 = j
      BY <1>1, <3>1, <3>2
    <3>4. all[j] = els[j - 1]
      BY <1>1, <3>3
    <3> QED
      BY <3>1, <3>3, <3>4
  <2>i. I \subseteq 1..Len(els)
    OBVIOUS
  <2> HIDE DEF I, J
  <2>3. CASE I = {}
    <3>1. J = {}
      BY <2>2, <2>3
    <3> QED
      BY <1>2, <1>3, <1>6, <2>3, <3>1 DEF all
  <2>4. CASE I # {}
    <3>1. Min(I) \in I /\ \A m \in I : Min(I) <= m
      BY <1>4, <2>4, MinOf
    <3>2. J # {}
      BY <2>1, <3>1
    <3>3. Min(J) \in J /\ \A m \in J : Min(J) <= m
      BY <1>4, <3>2, MinOf
    <3>4. Min(J) = Min(I) + 1
      <4>1. Min(I) \in Nat /\ Min(J) \in Nat
        BY <1>4, <3>1, <3>3
      <4>2. Min(J) <= Min(I) + 1 /\ Min(I) <= Min(J) - 1
        BY <2>1, <2>2, <3>1, <3>3
      <4> QED
        BY <4>1, <4>2
    <3>5. all[Min(J)] = els[Min(I)] /\ Min(I) # 0 /\ Min(J) # 0
      <4>1. Min(I) \in 1..Len(els) /\ Min(J) = Min(I) + 1
        BY <2>i, <3>1, <3>4
      <4>2. \A k \in 1..Len(els) : all[k + 1] = els[k] /\ k # 0 /\ k + 1 # 0
        BY <1>1
      <4> QED
        BY <4>1, <4>2
    <3> QED
      BY <1>2, <1>3, <1>6, <2>4, <3>2, <3>5 DEF all
  <2> QED
    BY <2>3, <2>4
<1> QED
  BY <1>5, <1>6

\* The loop over the categories, with one element more in front.
LEMMA KeywordsCons ==
    ASSUME NEW V, NEW e \in [name : STRING, value : V],
           NEW els \in Seq([name : STRING, value : V])
    PROVE  KeywordsOf(<<e>> \o els)
             = (IF e.name = "category" THEN <<e.value>> ELSE <<>>) \o KeywordsOf(els)
<1> DEFINE all == <<e>> \o els
           first == IF e.name = "category" THEN <<e.value>> ELSE <<>>
           rest == [i \in DOMAIN els |->
                      IF els[i].name = "category" THEN <<els[i].value>> ELSE <<>>]
           both == [i \in DOMAIN all |->
                      IF all[i].name = "category" THEN <<all[i].value>> ELSE <<>>]
           W == Seq(V)
<1>1. /\ Len(els) \in Nat /\ Len(all) = Len(els) + 1 /\ all[1] = e
      /\ \A i \in 1..Len(els) : all[i + 1] = els[i]
      /\ DOMAIN els = 1..Len(els) /\ DOMAIN all = 1..Len(els) + 1
  BY FirstOfCons, LenProperties
<1>w. \A v \in V : <<v>> \in W /\ <<>> \in W
  OBVIOUS
<1>v. e.value \in V /\ \A i \in 1..Len(els) : els[i].value \in V
  <2>1. ASSUME NEW x \in [name : STRING, value : V] PROVE x.value \in V
    OBVIOUS
  <2>2. \A i \in 1..Len(els) : els[i] \in [name : STRING, value : V]
    BY ElementOfSeq
  <2> QED
    BY <2>1, <2>2
<1>2. first \in W
  <2>1. CASE e.name = "category"
    BY <2>1, <1>v, <1>w
  <2>2. CASE e.name # "category"
    BY <2>2, EmptySeq
  <2> QED
    BY <2>1, <2>2
<1> HIDE DEF all, first
<1>3. rest \in [1..Len(els) -> W] /\ both \in [1..Len(els) + 1 -> W]
  <2>1. ASSUME NEW i \in 1..Len(els)
        PROVE  (IF els[i].name = "category" THEN <<els[i].value>> ELSE <<>>) \in W
    <3> HIDE DEF W
    <3> QED
      BY <1>v, <1>w
  <2>2. ASSUME NEW i \in 1..Len(els) + 1
        PROVE  (IF all[i].name = "category" THEN <<all[i].value>> ELSE <<>>) \in W
    <3> HIDE DEF W
    <3>1. all[i].value \in V
      <4>1. CASE i = 1
        BY <1>1, <1>v, <4>1
      <4>2. CASE i # 1
        <5>1. i - 1 \in 1..Len(els) /\ (i - 1) + 1 = i
          BY <1>1, <4>2
        <5>2. all[i] = els[i - 1]
          BY <1>1, <5>1
        <5> QED
          BY <1>v, <5>1, <5>2
      <4> QED
        BY <4>1, <4>2
    <3> QED
      BY <1>w, <3>1
  <2> HIDE DEF W
  <2> QED
    BY <1>1, <2>1, <2>2
<1>4. /\ rest \in Seq(W) /\ Len(rest) = Len(els)
      /\ both \in Seq(W) /\ Len(both) = Len(els) + 1
      /\ both[1] = first
      /\ \A i \in 1..Len(els) : both[i + 1] = rest[i]
  <2>1. \A i \in 1..Len(els) : i + 1 \in 1..Len(els) + 1
    BY <1>1
  <2>2. 1 \in 1..Len(els) + 1
    BY <1>1
  <2>3. both[1] = first
    BY <1>1, <2>2 DEF first
  <2>4. \A i \in 1..Len(els) : both[i + 1] = rest[i]
    BY <1>1, <2>1
  <2>5. rest \in [1..Len(els) -> W] /\ both \in [1..Len(els) + 1 -> W] /\ Len(els) \in Nat
    BY <1>1, <1>3
  <2> HIDE DEF W, rest, both
  <2>6. rest \in Seq(W) /\ Len(rest) = Len(els)
    BY <2>5
  <2>7. both \in Seq(W) /\ Len(both) = Len(els) + 1
    BY <2>5
  <2> QED
    BY <2>3, <2>4, <2>6, <2>7
<1> HIDE DEF rest, both
<1>5. both = <<first>> \o rest
  <2> HIDE DEF W
  <2>1. /\ <<first>> \o rest \in Seq(W) /\ Len(<<first>> \o rest) = Len(rest) + 1
        /\ (<<first>> \o rest)[1] = first
        /\ \A i \in 1..Len(rest) : (<<first>> \o rest)[i + 1] = rest[i]
    BY <1>2, <1>4, FirstOfCons
  <2>2. ASSUME NEW i \in 1..Len(both) PROVE both[i] = (<<first>> \o rest)[i]
    <3>1. CASE i = 1
      BY <1>4, <2>1, <3>1
    <3>2. CASE i # 1
      <4>1. i - 1 \in 1..Len(els) /\ (i - 1) + 1 = i
        BY <1>1, <1>4, <3>2
      <4> QED
        BY <1>4, <2>1, <4>1
    <3> QED
      BY <3>1, <3>2
  <2>3. Len(both) = Len(<<first>> \o rest)
    BY <1>4, <2>1
  <2> QED
    BY <1>4, <2>1, <2>2, <2>3, SeqEqual
<1>6. FlattenSeq(<<first>> \o rest) = first \o FlattenSeq(rest)
  BY <1>2, <1>4, FlattenCons
<1> QED
  BY <1>5, <1>6 DEF KeywordsOf, all, first, rest, both

\* The document's side: what the last start tag of a name says.
LEMMA ValueNext ==
    ASSUME NEW doc, NEW p \in Nat, NEW n \in Nat, p <= n, NEW name
    PROVE  ValueIn(doc, p, n + 1, name)
             = IF doc[n + 1].kind = "open" /\ doc[n + 1].name = name
               THEN TextAt(doc, n + 1) ELSE ValueIn(doc, p, n, name)
<1> DEFINE at == StartsAt(doc, p, n + 1, name)
           before == StartsAt(doc, p, n, name)
<1>1. CASE doc[n + 1].kind = "open" /\ doc[n + 1].name = name
  <2>1. n + 1 \in at /\ at \subseteq p..n + 1
    BY <1>1 DEF StartsAt
  <2>2. (CHOOSE i \in at : \A j \in at : i >= j) = n + 1
    <3> HIDE DEF at
    <3>1. \A j \in at : n + 1 >= j
      BY <2>1
    <3>2. ASSUME NEW i \in at, \A j \in at : i >= j PROVE i = n + 1
      BY <2>1, <3>2
    <3> QED
      BY <2>1, <3>1, <3>2
  <2> QED
    BY <1>1, <2>1, <2>2 DEF ValueIn
<1>2. CASE ~(doc[n + 1].kind = "open" /\ doc[n + 1].name = name)
  <2>1. at = before
    BY <1>2 DEF StartsAt
  <2>2. ValueIn(doc, p, n + 1, name)
          = IF at = {} THEN None ELSE TextAt(doc, CHOOSE i \in at : \A j \in at : i >= j)
    BY DEF ValueIn
  <2>3. ValueIn(doc, p, n, name)
          = IF before = {} THEN None
                           ELSE TextAt(doc, CHOOSE i \in before : \A j \in before : i >= j)
    BY DEF ValueIn
  <2> HIDE DEF at, before
  <2>4. ValueIn(doc, p, n + 1, name) = ValueIn(doc, p, n, name)
    BY <2>1, <2>2, <2>3
  <2> QED
    BY <1>2, <2>4
<1> QED
  BY <1>1, <1>2

\* And what all the categories say, the last first.
LEMMA KeywordsNext ==
    ASSUME NEW doc, NEW p \in Nat, NEW n \in Nat, p <= n
    PROVE  KeywordsIn(doc, p, n + 1)
             = (IF doc[n + 1].kind = "open" /\ doc[n + 1].name = "category"
                THEN <<TextAt(doc, n + 1)>> ELSE <<>>) \o KeywordsIn(doc, p, n)
<1> DEFINE V == {TextAt(doc, i) : i \in Nat}
           W == Seq(V)
           at(i) == IF doc[i].kind = "open" /\ doc[i].name = "category"
                    THEN <<TextAt(doc, i)>> ELSE <<>>
           first == at(n + 1)
           rest == [k \in 1..n - p |-> at(n + 1 - k)]
           both == [k \in 1..n + 1 - p |-> at(n + 2 - k)]
<1>1. KeywordsIn(doc, p, n) = FlattenSeq(rest)
  <2>1. ASSUME NEW k \in 1..n - p
        PROVE  n + 1 - k \in StartsAt(doc, p, n, "category")
                 <=> doc[n + 1 - k].kind = "open" /\ doc[n + 1 - k].name = "category"
    BY DEF StartsAt
  <2>2. [k \in 1..n - p |->
            LET i == n + 1 - k
            IN  IF i \in StartsAt(doc, p, n, "category") THEN <<TextAt(doc, i)>> ELSE <<>>]
          = rest
    BY <2>1
  <2> QED
    BY <2>2 DEF KeywordsIn
<1>2. KeywordsIn(doc, p, n + 1) = FlattenSeq(both)
  <2>1. ASSUME NEW k \in 1..n + 1 - p
        PROVE  /\ n + 1 + 1 - k = n + 2 - k
               /\ n + 2 - k \in StartsAt(doc, p, n + 1, "category")
                    <=> doc[n + 2 - k].kind = "open" /\ doc[n + 2 - k].name = "category"
    BY DEF StartsAt
  <2> DEFINE code == [k \in 1..n + 1 - p |->
            LET i == n + 1 + 1 - k
            IN  IF i \in StartsAt(doc, p, n + 1, "category") THEN <<TextAt(doc, i)>> ELSE <<>>]
  <2>2. code = both
    BY <2>1
  <2>3. KeywordsIn(doc, p, n + 1) = FlattenSeq(code)
    BY DEF KeywordsIn
  <2> HIDE DEF code, both
  <2> QED
    BY <2>2, <2>3
<1>3. \A i \in Nat : at(i) \in W
  <2> SUFFICES ASSUME NEW i \in Nat PROVE at(i) \in W
    OBVIOUS
  <2>1. TextAt(doc, i) \in V
    OBVIOUS
  <2> HIDE DEF V
  <2>2. <<TextAt(doc, i)>> \in W /\ <<>> \in W
    BY <2>1
  <2> QED
    BY <2>2
<1> HIDE DEF W, at
<1>4. rest \in [1..n - p -> W] /\ both \in [1..n + 1 - p -> W] /\ first \in W
  <2>1. \A k \in 1..n - p : n + 1 - k \in Nat
    OBVIOUS
  <2>2. \A k \in 1..n + 1 - p : n + 2 - k \in Nat
    OBVIOUS
  <2> QED
    BY <1>3, <2>1, <2>2
<1>5. /\ both[1] = first /\ n - p \in Nat /\ n + 1 - p = (n - p) + 1
      /\ \A i \in 1..n - p : both[i + 1] = rest[i]
  <2>1. 1 \in 1..n + 1 - p /\ n + 2 - 1 = n + 1
    OBVIOUS
  <2>2. both[1] = first
    BY <2>1
  <2>3. ASSUME NEW i \in 1..n - p PROVE both[i + 1] = rest[i]
    <3>1. i + 1 \in 1..n + 1 - p /\ n + 2 - (i + 1) = n + 1 - i
      OBVIOUS
    <3> QED
      BY <3>1
  <2> QED
    BY <2>2, <2>3
<1> HIDE DEF rest, both, first
<1>6. /\ rest \in Seq(W) /\ Len(rest) = n - p
      /\ both \in Seq(W) /\ Len(both) = (n - p) + 1
  BY <1>4, <1>5
<1>7. both = <<first>> \o rest
  <2>1. /\ <<first>> \o rest \in Seq(W) /\ Len(<<first>> \o rest) = Len(rest) + 1
        /\ (<<first>> \o rest)[1] = first
        /\ \A i \in 1..Len(rest) : (<<first>> \o rest)[i + 1] = rest[i]
    <3>1. first \in W /\ rest \in Seq(W)
      BY <1>4, <1>6
    <3> HIDE DEF V
    <3> QED
      BY <3>1, FirstOfCons
  <2>2. ASSUME NEW i \in 1..Len(both) PROVE both[i] = (<<first>> \o rest)[i]
    <3>1. CASE i = 1
      BY <1>5, <2>1, <3>1
    <3>2. CASE i # 1
      <4>1. i - 1 \in 1..n - p /\ (i - 1) + 1 = i
        BY <1>5, <1>6, <3>2
      <4> QED
        BY <1>5, <1>6, <2>1, <4>1
    <3> QED
      BY <3>1, <3>2
  <2>3. Len(both) = Len(<<first>> \o rest)
    BY <1>6, <2>1
  <2> QED
    BY <1>6, <2>1, <2>2, <2>3, SeqEqual
<1>8. FlattenSeq(<<first>> \o rest) = first \o FlattenSeq(rest)
  BY <1>4, <1>6, FlattenCons DEF W
<1> QED
  BY <1>1, <1>2, <1>7, <1>8 DEF first, at

\* They are texts of the document.
LEMMA KeywordsTyped ==
    ASSUME NEW doc, NEW p \in Nat, NEW n \in Nat, p <= n
    PROVE  KeywordsIn(doc, p, n) \in Seq({TextAt(doc, i) : i \in Nat})
<1> DEFINE V == {TextAt(doc, i) : i \in Nat}
           W == Seq(V)
           all == [k \in 1..n - p |->
                      LET i == n + 1 - k
                      IN  IF i \in StartsAt(doc, p, n, "category") THEN <<TextAt(doc, i)>>
                                                                   ELSE <<>>]
<1>1. ASSUME NEW k \in 1..n - p PROVE all[k] \in W
  <2>1. n + 1 - k \in Nat
    OBVIOUS
  <2>2. TextAt(doc, n + 1 - k) \in V
    BY <2>1
  <2> HIDE DEF V
  <2>3. <<TextAt(doc, n + 1 - k)>> \in W /\ <<>> \in W
    BY <2>2
  <2> QED
    BY <2>3
<1>2. all \in Seq(W)
  <2> HIDE DEF W
  <2>1. n - p \in Nat /\ DOMAIN all = 1..n - p /\ all = [k \in 1..n - p |-> all[k]]
    OBVIOUS
  <2> HIDE DEF all
  <2>2. all \in [1..n - p -> W]
    BY <1>1, <2>1
  <2> QED
    BY <2>1, <2>2
<1> HIDE DEF all
<1>3. FlattenSeq(all) \in Seq(V)
  BY <1>2, FlattenConcat
<1> QED
  BY <1>3 DEF KeywordsIn, all

\* The text of a subelement, when the tag behind it has come.
LEMMA TextComplete ==
    ASSUME NEW doc \in Seq(Tokens), NEW i \in Nat, NEW n \in i + 1..Len(doc),
           doc[n].kind # "text", \A k \in i + 1..n - 1 : doc[k].kind = "text",
           NEW v \in Seq(STRING), Len(v) = n - i - 1,
           \A k \in 1..n - i - 1 : v[k] = doc[i + k].text
    PROVE  v = TextAt(doc, i)
<1>1. Len(doc) \in Nat
  BY LenProperties
<1> DEFINE Next1(j) == doc[j].kind # "text" /\ \A k \in i + 1..j - 1 : doc[k].kind = "text"
<1>2. (CHOOSE j \in i + 1..Len(doc) : Next1(j)) = n
  <2>1. Next1(n)
    OBVIOUS
  <2>2. ASSUME NEW j \in i + 1..Len(doc), Next1(j) PROVE j = n
    <3>1. CASE j < n
      <4>1. j \in i + 1..n - 1
        BY <1>1, <3>1
      <4> QED
        BY <2>2, <4>1
    <3>2. CASE n < j
      <4>1. n \in i + 1..j - 1
        BY <1>1, <3>2
      <4> QED
        BY <2>2, <4>1
    <3> QED
      BY <1>1, <3>1, <3>2
  <2> QED
    BY <2>1, <2>2
<1>3. TextAt(doc, i) = [k \in 1..n - i - 1 |-> doc[i + k].text]
  BY <1>2 DEF TextAt
<1>4. v = [k \in 1..n - i - 1 |-> v[k]]
  BY LenProperties
<1> QED
  BY <1>3, <1>4

\* So an item says one thing more with each subelement that begins, and nothing
\* with any other token.
LEMMA GatheredNext ==
    ASSUME NEW doc, NEW p \in Nat, NEW n \in Nat, p <= n, NEW els, Gathered(els, doc, p, n)
    PROVE  /\ doc[n + 1].kind # "open" => Gathered(els, doc, p, n + 1)
           /\ \A V : els \in Seq([name : STRING, value : V]) /\ doc[n + 1].kind = "open"
                     /\ doc[n + 1].name \in STRING /\ TextAt(doc, n + 1) \in V
                => Gathered(<<[name |-> doc[n + 1].name, value |-> TextAt(doc, n + 1)]>> \o els,
                            doc, p, n + 1)
<1>1. /\ \A name \in Fields : ValueIn(doc, p, n + 1, name)
             = IF doc[n + 1].kind = "open" /\ doc[n + 1].name = name
               THEN TextAt(doc, n + 1) ELSE ValueIn(doc, p, n, name)
      /\ KeywordsIn(doc, p, n + 1)
             = (IF doc[n + 1].kind = "open" /\ doc[n + 1].name = "category"
                THEN <<TextAt(doc, n + 1)>> ELSE <<>>) \o KeywordsIn(doc, p, n)
  <2>1. ASSUME NEW name
        PROVE  ValueIn(doc, p, n + 1, name)
                   = IF doc[n + 1].kind = "open" /\ doc[n + 1].name = name
                     THEN TextAt(doc, n + 1) ELSE ValueIn(doc, p, n, name)
    BY ValueNext
  <2>2. KeywordsIn(doc, p, n + 1)
             = (IF doc[n + 1].kind = "open" /\ doc[n + 1].name = "category"
                THEN <<TextAt(doc, n + 1)>> ELSE <<>>) \o KeywordsIn(doc, p, n)
    BY KeywordsNext
  <2> QED
    BY <2>1, <2>2
<1>2. ASSUME doc[n + 1].kind # "open" PROVE Gathered(els, doc, p, n + 1)
  <2>1. KeywordsIn(doc, p, n + 1) = <<>> \o KeywordsIn(doc, p, n)
    BY <1>1, <1>2
  <2>2. <<>> \o KeywordsIn(doc, p, n) = KeywordsIn(doc, p, n)
    <3> DEFINE V == {TextAt(doc, i) : i \in Nat}
    <3>1. KeywordsIn(doc, p, n) \in Seq(V)
      BY KeywordsTyped
    <3> QED
      BY <3>1, ConcatEmptySeq
  <2> QED
    BY <1>1, <1>2, <2>1, <2>2 DEF Gathered
<1>3. ASSUME NEW V, els \in Seq([name : STRING, value : V]), doc[n + 1].kind = "open",
             doc[n + 1].name \in STRING, TextAt(doc, n + 1) \in V
      PROVE  Gathered(<<[name |-> doc[n + 1].name, value |-> TextAt(doc, n + 1)]>> \o els,
                      doc, p, n + 1)
  <2> DEFINE e == [name |-> doc[n + 1].name, value |-> TextAt(doc, n + 1)]
  <2>1. e \in [name : STRING, value : V] /\ e.name = doc[n + 1].name /\ e.value = TextAt(doc, n + 1)
    BY <1>3
  <2> HIDE DEF e
  <2>2. ASSUME NEW name \in Fields PROVE FindIn(<<e>> \o els, name) = ValueIn(doc, p, n + 1, name)
    <3>1. FindIn(<<e>> \o els, name) = IF e.name = name THEN e.value ELSE FindIn(els, name)
      BY <1>3, <2>1, FindCons
    <3> QED
      BY <1>1, <1>3, <2>1, <3>1 DEF Gathered
  <2>3. KeywordsOf(<<e>> \o els)
          = (IF e.name = "category" THEN <<e.value>> ELSE <<>>) \o KeywordsOf(els)
    BY <1>3, <2>1, KeywordsCons
  <2>4. KeywordsOf(<<e>> \o els) = KeywordsIn(doc, p, n + 1)
    BY <1>1, <1>3, <2>1, <2>3 DEF Gathered
  <2>5. Gathered(<<e>> \o els, doc, p, n + 1)
    BY <2>2, <2>4 DEF Gathered
  <2> QED
    BY <2>5 DEF e
<1> QED
  BY <1>2, <1>3

\* When it begins it says nothing.
LEMMA GatheredFirst ==
    ASSUME NEW doc, NEW p \in Nat, doc[p].name = "item"
    PROVE  Gathered(<<>>, doc, p, p)
<1>1. ASSUME NEW name \in Fields PROVE FindIn(<<>>, name) = ValueIn(doc, p, p, name)
  <2>1. name # "item"
    BY DEF Fields
  <2>2. StartsAt(doc, p, p, name) = {}
    BY <2>1 DEF StartsAt
  <2>3. ValueIn(doc, p, p, name) = None
    BY <2>2 DEF ValueIn
  <2>4. FindIn(<<>>, name) = None
    <3>1. {i \in 1..Len(<<>>) : <<>>[i].name = name} = {}
      OBVIOUS
    <3> QED
      BY <3>1 DEF FindIn, SelectInSeq
  <2> QED
    BY <2>3, <2>4
<1>2. KeywordsOf(<<>>) = <<>>
  BY DEF KeywordsOf, FlattenSeq
<1>3. KeywordsIn(doc, p, p) = <<>>
  BY DEF KeywordsIn, FlattenSeq
<1> QED
  BY <1>1, <1>2, <1>3 DEF Gathered

-------------------------------------------------------------------------------
(* What the parser is fed.                                                 *)

\* The depth after a token.
LEMMA DepthNext ==
    ASSUME NEW doc, NEW n \in Nat
    PROVE  /\ Depth(doc, 0) = 0 /\ Depth(doc, n) \in Int
           /\ Depth(doc, n + 1) = IF doc[n + 1].kind = "open" THEN Depth(doc, n) + 1
                                  ELSE IF doc[n + 1].kind = "close" THEN Depth(doc, n) - 1
                                  ELSE Depth(doc, n)
<1> DEFINE O(k) == {i \in 1..k : doc[i].kind = "open"}
           C(k) == {i \in 1..k : doc[i].kind = "close"}
<1>1. ASSUME NEW k \in Nat
      PROVE  /\ IsFiniteSet(O(k)) /\ IsFiniteSet(C(k))
             /\ Cardinality(O(k)) \in Nat /\ Cardinality(C(k)) \in Nat
  <2>1. IsFiniteSet(1..k) /\ O(k) \subseteq 1..k /\ C(k) \subseteq 1..k
    BY FS_Interval
  <2>2. IsFiniteSet(O(k)) /\ IsFiniteSet(C(k))
    BY <2>1, FS_Subset
  <2> QED
    BY <2>2, FS_CardinalityType
<1>2. /\ O(n + 1) = IF doc[n + 1].kind = "open" THEN O(n) \cup {n + 1} ELSE O(n)
      /\ C(n + 1) = IF doc[n + 1].kind = "close" THEN C(n) \cup {n + 1} ELSE C(n)
      /\ n + 1 \notin O(n) /\ n + 1 \notin C(n)
  OBVIOUS
<1>3. O(0) = {} /\ C(0) = {}
  OBVIOUS
<1>4. \A k \in Nat : Depth(doc, k) = Cardinality(O(k)) - Cardinality(C(k))
  BY DEF Depth
<1> HIDE DEF O, C
<1>5. Depth(doc, 0) = 0
  BY <1>3, <1>4, FS_EmptySet
<1>6. /\ Cardinality(O(n) \cup {n + 1}) = Cardinality(O(n)) + 1
      /\ Cardinality(C(n) \cup {n + 1}) = Cardinality(C(n)) + 1
  BY <1>1, <1>2, FS_AddElement
<1>7. /\ Depth(doc, n) = Cardinality(O(n)) - Cardinality(C(n))
      /\ Depth(doc, n + 1) = Cardinality(O(n + 1)) - Cardinality(C(n + 1))
      /\ Cardinality(O(n)) \in Nat /\ Cardinality(C(n)) \in Nat
  BY <1>1, <1>4
<1>8. /\ Cardinality(O(n + 1)) = IF doc[n + 1].kind = "open" THEN Cardinality(O(n)) + 1
                                                           ELSE Cardinality(O(n))
      /\ Cardinality(C(n + 1)) = IF doc[n + 1].kind = "close" THEN Cardinality(C(n)) + 1
                                                            ELSE Cardinality(C(n))
  BY <1>2, <1>6
<1> QED
  BY <1>5, <1>7, <1>8

\* A step that leaves the fetch and the parser alone.
LEMMA SameFeeding ==
    ASSUME Feeding, docs' = docs, UNCHANGED <<url, curl, http, answer, sent, urlPipe, stack,
                                              answers, taken>>,
           pc' \in Parsing => pc \in Parsing, pc' = "await" => pc = "await"
    PROVE  Feeding'
  BY DEF Feeding, Doc, Urls

\* What there is to know of a token that is parsed: it is the next one of the
\* document.
LEMMA NextToken ==
    ASSUME Inv, Feeding, Parse
    PROVE  /\ url \in Urls /\ http = "OK" /\ curl \in {"body", "ended"}
           /\ answer.class = "2xx" /\ taken \in Nat
           /\ sent = taken + Len(urlPipe) /\ Len(urlPipe) \in Nat \ {0}
           /\ \A i \in 1..Len(urlPipe) : urlPipe[i][2] = taken + i
           /\ Token(Head(urlPipe)) = Doc[taken + 1] /\ taken + 1 \in 1..Len(Doc)
           /\ Doc \in Seq(Tokens) /\ Len(Doc) \in Nat /\ Doc[taken + 1] \in Tokens
<1>1. /\ urlPipe \in Seq(Nat \X Nat) /\ urlPipe # <<>> /\ WellFormed(Head(urlPipe))
      /\ Len(urlPipe) \in Nat \ {0} /\ DOMAIN urlPipe = 1..Len(urlPipe) /\ taken \in Nat
  BY LenProperties, EmptySeq DEF Inv, Pipes, Threads, Parse
<1>2. 1 \in DOMAIN urlPipe /\ Head(urlPipe) = urlPipe[1]
  BY <1>1
<1>3. url \in Urls /\ http = "OK" /\ curl \in {"body", "ended"}
  BY <1>1 DEF Feeding
<1>4. answer.class = "2xx"
  BY <1>1, <1>2 DEF Feeding, WellFormed
<1>5. sent = taken + Len(urlPipe) /\ \A i \in 1..Len(urlPipe) : urlPipe[i][2] = taken + i
  BY <1>1, <1>3, <1>4 DEF Feeding
<1>6. urlPipe[1][1] = url /\ urlPipe[1][2] <= Len(Doc) /\ urlPipe[1][2] = taken + 1
  BY <1>1, <1>2, <1>5 DEF Inv, Body, Doc
<1>7. docs \in Seq(Seq(Tokens)) /\ Urls = 1..Len(docs) /\ Len(Doc) \in Nat
  BY <1>3, Documents DEF Doc
<1>8. Doc \in Seq(Tokens)
  BY <1>3, <1>7, ElementOfSeq DEF Doc
<1>9. taken + 1 \in 1..Len(Doc)
  BY <1>1, <1>6, <1>7
<1>10. Doc[taken + 1] \in Tokens
  BY <1>8, <1>9, ElementOfSeq
<1>11. Token(Head(urlPipe)) = Doc[taken + 1]
  BY <1>2, <1>6 DEF Token, Doc
<1> QED
  BY <1>1, <1>3, <1>4, <1>5, <1>7, <1>8, <1>9, <1>10, <1>11

\* A token goes from the pipe to the parser.
LEMMA ParseFeeding ==
    ASSUME Inv, Feeding, docs' = docs, Parse
    PROVE  Feeding'
<1>1. /\ url \in Urls /\ http = "OK" /\ curl \in {"body", "ended"}
      /\ answer.class = "2xx" /\ taken \in Nat
      /\ sent = taken + Len(urlPipe) /\ Len(urlPipe) \in Nat \ {0}
      /\ \A i \in 1..Len(urlPipe) : urlPipe[i][2] = taken + i
      /\ Token(Head(urlPipe)) = Doc[taken + 1] /\ taken + 1 \in 1..Len(Doc)
  BY NextToken
<1>2. /\ UNCHANGED <<url, curl, http, answer, sent, answers>> /\ Doc' = Doc /\ Urls' = Urls
      /\ urlPipe' = Tail(urlPipe) /\ taken' = taken + 1 /\ pc = "parse"
  BY DEF Parse, fetch, Doc, Urls
<1>3. /\ urlPipe' \in Seq(Nat \X Nat) /\ Len(urlPipe') = Len(urlPipe) - 1
      /\ DOMAIN urlPipe' = 1..Len(urlPipe) - 1
      /\ \A i \in 1..Len(urlPipe) - 1 : urlPipe'[i] = urlPipe[i + 1]
  <2>1. urlPipe \in Seq(Nat \X Nat) /\ urlPipe # <<>>
    BY DEF Inv, Pipes, Parse
  <2>2. /\ urlPipe' \in Seq(Nat \X Nat) /\ Len(urlPipe') = Len(urlPipe) - 1
        /\ \A i \in 1..Len(urlPipe') : urlPipe'[i] = urlPipe[i + 1]
    BY <1>2, <2>1, HeadTailProperties
  <2> QED
    BY <2>2, LenProperties
<1>4. sent = taken + 1 + Len(urlPipe')
  BY <1>1, <1>3
<1>5. \A i \in 1..Len(urlPipe) - 1 : urlPipe'[i][2] = taken + 1 + i
  <2> SUFFICES ASSUME NEW i \in 1..Len(urlPipe) - 1 PROVE urlPipe'[i][2] = taken + 1 + i
    OBVIOUS
  <2>1. i + 1 \in 1..Len(urlPipe) /\ taken + (i + 1) = taken + 1 + i
    BY <1>1
  <2> QED
    BY <1>1, <1>3, <2>1
<1>6. Len(stack') = Depth(Doc, taken + 1)
  <2>1. /\ Depth(Doc, taken) \in Int
        /\ Depth(Doc, taken + 1) = IF Doc[taken + 1].kind = "open" THEN Depth(Doc, taken) + 1
                                   ELSE IF Doc[taken + 1].kind = "close" THEN Depth(Doc, taken) - 1
                                   ELSE Depth(Doc, taken)
    BY <1>1, DepthNext
  <2>2. Len(stack) = Depth(Doc, taken) /\ stack \in Seq(STRING)
    BY <1>2 DEF Feeding, Parsing, Inv, Parser
  <2>3. WellFormed(Head(urlPipe))
    BY DEF Parse
  <2>4. CASE Doc[taken + 1].kind = "open" /\ StartElement(Doc[taken + 1].name)
    <3>1. stack' = Append(stack, Doc[taken + 1].name) /\ Doc[taken + 1].name \in STRING
      <4>1. Doc[taken + 1] \in Tokens
        BY NextToken
      <4> QED
        BY <2>4, <4>1 DEF StartElement, Tokens
    <3>2. Len(stack') = Len(stack) + 1
      BY <2>2, <3>1, AppendProperties
    <3> QED
      BY <2>1, <2>2, <2>4, <3>2
  <2>5. CASE Doc[taken + 1].kind = "close" /\ EndElement(Doc[taken + 1].name)
    <3>1. stack' = Front(stack) /\ stack # <<>>
      BY <1>1, <2>3, <2>5 DEF EndElement, WellFormed
    <3>2. Len(stack') = Len(stack) - 1
      BY <2>2, <3>1 DEF Front
    <3> QED
      BY <2>1, <2>2, <2>5, <3>2
  <2>6. CASE Doc[taken + 1].kind = "text" /\ CharacterData(Doc[taken + 1].text)
    BY <2>1, <2>2, <2>6 DEF CharacterData
  <2> QED
    BY <1>1, <2>4, <2>5, <2>6 DEF Parse
<1>7. taken + 1 <= Len(Doc) /\ url' \in Urls' /\ pc' # "await"
  BY <1>1, <1>2 DEF Parse, StartElement, EndElement, CharacterData
<1>8. answers[url] = answer
  BY <1>1 DEF Feeding
<1> QED
  BY <1>1, <1>2, <1>3, <1>4, <1>5, <1>6, <1>7, <1>8 DEF Feeding

\* The curl thread's steps.
LEMMA CurlFeeding ==
    ASSUME Inv, Feeding, docs' = docs, Curl
    PROVE  Feeding'
<1>0. FetchStep
  BY DEF Curl, StatusLine, ContentType, NextResponse, LastResponse, WriteData, FetchEnds
<1>f. /\ UNCHANGED <<pc, url, stack, taken>> /\ Doc' = Doc /\ Urls' = Urls
      /\ url \in Urls /\ taken \in Nat
  <2>1. curl # "ended"
    BY DEF Curl, StatusLine, ContentType, NextResponse, LastResponse, WriteData, FetchEnds
  <2> QED
    BY <1>0, <2>1, FetchFrame DEF Doc, Inv, Threads
<1>1. CASE curl \in {"connect", "header"}
  <2>1. urlPipe = <<>> /\ taken = 0 /\ sent = 0 /\ Len(urlPipe) = 0
    BY <1>1, EmptySeq DEF Inv, Body
  <2>2. UNCHANGED <<urlPipe, sent>>
    BY <1>1 DEF Curl, StatusLine, ContentType, NextResponse, LastResponse, WriteData, FetchEnds
  <2>3. curl' \in {"body", "ended"} => answers'[url] = answer'
    <3> SUFFICES ASSUME curl' \in {"body", "ended"} PROVE answers'[url] = answer'
      OBVIOUS
    <3>1. LastResponse
      BY <1>1 DEF Curl, StatusLine, ContentType, NextResponse, LastResponse, WriteData, FetchEnds
    <3> QED
      BY <1>f, <3>1 DEF LastResponse, Inv, Threads
  <2>4. pc \in Parsing => Len(stack) = Depth(Doc, taken)
    BY DEF Feeding
  <2>5. DOMAIN urlPipe = {}
    BY <2>1
  <2> QED
    BY <1>f, <2>1, <2>2, <2>3, <2>4, <2>5 DEF Feeding
<1>2. CASE curl \notin {"connect", "header"}
  <2>1. curl = "body" /\ (WriteData \/ FetchEnds)
    BY <1>2 DEF Curl, StatusLine, ContentType, NextResponse, LastResponse, WriteData, FetchEnds
  <2>2. CASE FetchEnds
    <3>1. curl' = "ended" /\ UNCHANGED <<http, answer, sent, urlPipe, answers>>
      BY <2>2 DEF FetchEnds
    <3> QED
      BY <1>f, <2>1, <3>1 DEF Feeding
  <2>3. CASE WriteData
    <3>t. /\ urlPipe \in Seq(Nat \X Nat) /\ Len(urlPipe) \in Nat
          /\ DOMAIN urlPipe = 1..Len(urlPipe) /\ sent \in Nat /\ url \in Nat
      BY LenProperties, Documents DEF Inv, TypeOK, Pipes
    <3>1. UNCHANGED <<curl, http, answer, answers>> /\ sent' = sent + 1
      BY <2>3 DEF WriteData
    <3>2. CASE http # "OK"
      <4>1. urlPipe' = urlPipe
        BY <2>3, <3>2 DEF WriteData
      <4>2. taken = 0 /\ urlPipe = <<>>
        BY <3>2 DEF Inv, Body
      <4> QED
        BY <1>f, <2>1, <3>1, <3>2, <4>1, <4>2 DEF Feeding
    <3>3. CASE http = "OK"
      <4> DEFINE piece == <<url, IF answer.class = "2xx" THEN sent + 1 ELSE 0>>
      <4>1. urlPipe' = Append(urlPipe, piece)
        BY <2>3, <3>3 DEF WriteData
      <4>2. piece \in Nat \X Nat /\ piece[2] = IF answer.class = "2xx" THEN sent + 1 ELSE 0
        BY <3>t
      <4> HIDE DEF piece
      <4>3. /\ urlPipe' \in Seq(Nat \X Nat) /\ Len(urlPipe') = Len(urlPipe) + 1
            /\ \A i \in 1..Len(urlPipe) : urlPipe'[i] = urlPipe[i]
            /\ urlPipe'[Len(urlPipe) + 1] = piece
        BY <3>t, <4>1, <4>2, AppendProperties
      <4>4. DOMAIN urlPipe' = 1..Len(urlPipe) + 1
        BY <4>3, LenProperties
      <4>5. answer.class = "2xx" =>
              /\ sent + 1 = taken + (Len(urlPipe) + 1)
              /\ \A i \in 1..Len(urlPipe) + 1 : urlPipe'[i][2] = taken + i
        <5> SUFFICES ASSUME answer.class = "2xx"
                     PROVE  /\ sent + 1 = taken + (Len(urlPipe) + 1)
                            /\ \A i \in 1..Len(urlPipe) + 1 : urlPipe'[i][2] = taken + i
          OBVIOUS
        <5>1. sent = taken + Len(urlPipe) /\ \A i \in 1..Len(urlPipe) : urlPipe[i][2] = taken + i
          BY <2>1, <3>3, <3>t DEF Feeding
        <5>2. ASSUME NEW i \in 1..Len(urlPipe) + 1 PROVE urlPipe'[i][2] = taken + i
          <6>1. CASE i \in 1..Len(urlPipe)
            BY <4>3, <5>1, <6>1
          <6>2. CASE i = Len(urlPipe) + 1
            BY <1>f, <3>t, <4>2, <4>3, <5>1, <6>2
          <6> QED
            BY <3>t, <6>1, <6>2
        <5> QED
          BY <1>f, <3>t, <5>1, <5>2
      <4>6. answer.class # "2xx" => \A i \in 1..Len(urlPipe) + 1 : urlPipe'[i][2] = 0
        <5> SUFFICES ASSUME answer.class # "2xx", NEW i \in 1..Len(urlPipe) + 1
                     PROVE  urlPipe'[i][2] = 0
          OBVIOUS
        <5>1. CASE i \in 1..Len(urlPipe)
          BY <3>t, <4>3, <5>1 DEF Feeding
        <5>2. CASE i = Len(urlPipe) + 1
          BY <4>2, <4>3, <5>2
        <5>3. i \in 1..Len(urlPipe) \/ i = Len(urlPipe) + 1
          BY <3>t
        <5> QED
          BY <5>1, <5>2, <5>3
      <4> QED
        BY <1>f, <2>1, <3>1, <3>3, <4>3, <4>4, <4>5, <4>6 DEF Feeding
    <3> QED
      BY <3>2, <3>3
  <2> QED
    BY <2>1, <2>2, <2>3
<1> QED
  BY <1>1, <1>2

\* Every step.
LEMMA NextFeeding ==
    ASSUME Inv, Feeding, [Next]_vars
    PROVE  Feeding'
<1>1. CASE UNCHANGED vars
  BY <1>1, SameFeeding DEF vars
<1>2. CASE Next
  <2>0. docs' = docs
    BY <1>2 DEF Next
  <2>1. CASE Parse
    BY <2>0, <2>1, ParseFeeding
  <2>2. CASE Curl
    BY <2>0, <2>2, CurlFeeding
  <2>3. CASE StartUrl
    <3>1. /\ curl' = "connect" /\ urlPipe' = <<>> /\ taken' = 0 /\ pc' = "await"
          /\ DOMAIN urlPipe' = {}
      BY <2>3 DEF StartUrl
    <3> QED
      BY <3>1 DEF Feeding, Parsing
  <2>4. CASE StartParse
    <3>1. /\ UNCHANGED <<url, curl, http, answer, sent, urlPipe, answers, taken>>
          /\ stack' = <<>> /\ pc = "await" /\ pc' = "parse"
          /\ Doc' = Doc /\ Urls' = Urls
      BY <2>0, <2>4 DEF StartParse, fetch, history, Doc, Urls
    <3>2. taken = 0 /\ Len(stack') = Depth(Doc, taken)
      BY <3>1, DepthNext, EmptySeq DEF Feeding
    <3> QED
      BY <3>1, <3>2 DEF Feeding
  <2>5. CASE \/ GiveUpUrl \/ EndParse \/ JoinCurl \/ CallJoin \/ Exit
             \/ SkipItem \/ StartLynx \/ ReadLead \/ ReadRest \/ ReadEnd \/ Post
    <3>1. /\ UNCHANGED <<url, curl, http, answer, sent, urlPipe, stack, answers, taken>>
          /\ pc' \in Parsing => pc \in Parsing
          /\ pc' # "await"
      BY <2>5 DEF GiveUpUrl, EndParse, JoinCurl, CallJoin, Exit, SkipItem, StartLynx, ReadLead,
                  ReadRest, ReadEnd, Post, RenderStep, parser, fetch, history, Parsing
    <3> QED
      BY <2>0, <3>1, SameFeeding
  <2>6. CASE \/ WriteDescription \/ CloseDescription \/ Lynx \/ LynxFails \/ PosterHandles
             \/ ParseError \/ NoElement \/ ItemIncomplete \/ LynxFailed
             \/ BrokenPipe \/ FetchFails \/ PosterFails
    <3>1. UNCHANGED <<pc, url, curl, http, answer, sent, urlPipe, stack, answers, taken>>
      BY <2>6 DEF WriteDescription, CloseDescription, Lynx, LynxReads, LynxWrites, LynxEnds,
                  LynxFails, PosterHandles, ParseError, NoElement, ItemIncomplete, LynxFailed,
                  BrokenPipe, FetchFails, PosterFails, Die, RenderStep, main, parser, fetch,
                  history
    <3> QED
      BY <2>0, <3>1, SameFeeding
  <2> QED
    BY <1>2, <2>1, <2>2, <2>3, <2>4, <2>5, <2>6 DEF Next, Main, Writer
<1> QED
  BY <1>1, <1>2

-------------------------------------------------------------------------------
(* What the parser's callbacks gather.                                     *)

\* The document allows no more in an open item than a subelement, and in that
\* no more than text.
LEMMA FlatNext ==
    ASSUME Rss, url \in Urls, NEW p \in Nat, NEW n \in Nat, 0 < p, p <= n, n + 1 <= Len(Doc),
           Doc \in Seq(Tokens), Begun(Doc, p, n), Doc[n + 1].kind = "open"
    PROVE  /\ Doc[n + 1].name # "item"
           /\ \A i \in p + 1..n : Doc[i].kind = "open" =>
                 \E k \in i + 1..n : Doc[k].kind # "text"
<1>1. FlatItems(Doc) /\ Len(Doc) \in Nat /\ DOMAIN Doc = 1..Len(Doc)
  BY LenProperties DEF Rss, Doc
<1>2. ASSUME NEW i \in p + 1..n + 1, Doc[i].kind = "open" PROVE InItem(Doc, i) /\ i \in DOMAIN Doc
  <2>1. i \in 1..Len(Doc) /\ p \in 1..i - 1
    BY <1>1
  <2>2. \A k \in p + 1..i - 1 : Doc[k].kind = "close" => Doc[k].name # "item"
    <3> SUFFICES ASSUME NEW k \in p + 1..i - 1, Doc[k].kind = "close" PROVE Doc[k].name # "item"
      OBVIOUS
    <3>1. k \in p + 1..n
      OBVIOUS
    <3> QED
      BY <3>1 DEF Begun
  <2> QED
    BY <1>1, <2>1, <2>2 DEF InItem, Begun
<1>3. Doc[n + 1].name # "item"
  <2>1. n + 1 \in p + 1..n + 1
    OBVIOUS
  <2> QED
    BY <1>1, <1>2, <2>1 DEF FlatItems
<1>4. ASSUME NEW i \in p + 1..n, Doc[i].kind = "open"
      PROVE  \E k \in i + 1..n : Doc[k].kind # "text"
  <2>1. i \in p + 1..n + 1 /\ n + 1 \in i + 1..Len(Doc)
    BY <1>1
  <2>2. (\A k \in i + 1..n + 1 - 1 : Doc[k].kind = "text") => Doc[n + 1].kind # "open"
    BY <1>1, <1>2, <1>4, <2>1, SMTT(30) DEF FlatItems
  <2>3. n + 1 - 1 = n
    OBVIOUS
  <2> QED
    BY <2>2, <2>3
<1> QED
  BY <1>3, <1>4

\* start_element().
LEMMA OpenReading ==
    ASSUME Inv, Feeding, Rss, Reading, docs' = docs, Parse,
           Doc[taken + 1].kind = "open", StartElement(Doc[taken + 1].name)
    PROVE  Reading'
<1> DEFINE n == taken + 1
           name == Doc[n].name
<1>1. /\ taken \in Nat /\ n \in 1..Len(Doc) /\ Doc \in Seq(Tokens) /\ Doc[n] \in Tokens
      /\ url \in Urls /\ Len(Doc) \in Nat
  BY NextToken
<1>2. /\ pc = "parse" /\ pc' = "parse" /\ taken' = n /\ Doc' = Doc
      /\ stack' = Append(stack, name) /\ name \in STRING /\ stack \in Seq(STRING)
      /\ elements \in Seq(Elements)
  BY <1>1 DEF Parse, StartElement, Doc, Tokens, Inv, Parser
<1>3. Last(stack') = name /\ stack' # <<>> /\ Len(stack') = Len(stack) + 1 /\ Len(stack) \in Nat
      /\ (stack # <<>> => stack'[Len(stack') - 1] = Last(stack) /\ Len(stack') > 1)
  <2>1. /\ stack' \in Seq(STRING) /\ stack' # <<>> /\ Len(stack') = Len(stack) + 1
        /\ \A i \in 1..Len(stack) : stack'[i] = stack[i]
        /\ stack'[Len(stack) + 1] = name
    BY <1>2, AppendProperties
  <2>2. Len(stack) \in Nat /\ (stack # <<>> => Len(stack) > 0)
    BY <1>2, LenProperties, EmptySeq
  <2> QED
    BY <2>1, <2>2 DEF Last
<1>4. /\ item \in {0, 1} /\ subitem \in {0, 1}
      /\ item = 1 /\ subitem = 0 =>
            /\ stack # <<>> /\ Last(stack) = "item"
            /\ \E p \in 1..taken : Begun(Doc, p, taken) /\ Gathered(elements, Doc, p, taken)
      /\ subitem = 1 => item = 1
      /\ item = 0 => subitem = 0
  BY <1>2 DEF Reading
<1>5. subitem # 1
  <2> SUFFICES ASSUME subitem = 1 PROVE FALSE
    OBVIOUS
  <2>1. PICK p, i \in 1..taken : Begun(Doc, p, taken) /\ Within(elements, Doc, p, i, taken)
    BY <1>2 DEF Reading
  <2>2. i \in p + 1..taken /\ \A k \in i + 1..taken : Doc[k].kind = "text"
    BY <2>1 DEF Within
  <2>3. \E k \in i + 1..taken : Doc[k].kind # "text"
    <3>1. p \in Nat /\ 0 < p /\ p <= taken /\ taken + 1 <= Len(Doc)
      BY <1>1
    <3>2. \A j \in p + 1..taken : Doc[j].kind = "open" =>
            \E k \in j + 1..taken : Doc[k].kind # "text"
      BY <1>1, <2>1, <3>1, FlatNext
    <3> QED
      BY <2>1, <2>2, <3>2 DEF Within
  <2> QED
    BY <2>2, <2>3
<1>6. CASE name = "item"
  <2>1. item' = item + 1 /\ elements' = <<>> /\ subitem' = subitem
    BY <1>6 DEF StartElement
  <2>2. item = 0
    <3> SUFFICES ASSUME item = 1 PROVE FALSE
      BY <1>4
    <3>1. PICK p \in 1..taken : Begun(Doc, p, taken)
      BY <1>4, <1>5
    <3>2. p \in Nat /\ 0 < p /\ p <= taken /\ taken + 1 <= Len(Doc)
      BY <1>1
    <3> QED
      BY <1>1, <1>6, <3>1, <3>2, FlatNext
  <2>3. Begun(Doc, n, n) /\ Gathered(<<>>, Doc, n, n) /\ n \in 1..n
    <3>1. n \in Nat /\ n \in 1..n
      BY <1>1
    <3>2. \A k \in n + 1..n : FALSE
      BY <3>1
    <3> QED
      BY <1>6, <3>1, <3>2, GatheredFirst DEF Begun
  <2> QED
    BY <1>2, <1>3, <1>4, <1>6, <2>1, <2>2, <2>3 DEF Reading
<1>7. CASE name # "item" /\ item = 0
  <2>1. UNCHANGED <<item, subitem>>
    BY <1>7 DEF StartElement
  <2> QED
    BY <1>4, <1>7, <2>1 DEF Reading
<1>8. CASE name # "item" /\ item = 1
  <2> DEFINE new == [name |-> name, value |-> <<>>]
             R == [name : STRING, value : Seq(STRING)]
  <2>1. item' = 1 /\ subitem' = 1 /\ elements' = <<new>> \o elements
    BY <1>4, <1>5, <1>8 DEF StartElement
  <2>2. PICK p \in 1..taken : Begun(Doc, p, taken) /\ Gathered(elements, Doc, p, taken)
    BY <1>4, <1>5, <1>8
  <2>3. new \in R /\ new.name = name /\ new.value = <<>> /\ elements \in Seq(R)
    BY <1>2 DEF Elements
  <2> HIDE DEF new
  <2>4. /\ elements' \in Seq(R) /\ elements' # <<>> /\ elements'[1] = new
        /\ Tail(elements') = elements
    <3> HIDE DEF R
    <3>1. /\ elements' \in Seq(R) /\ Len(elements') = Len(elements) + 1 /\ elements'[1] = new
          /\ \A i \in 1..Len(elements) : elements'[i + 1] = elements[i]
      BY <2>1, <2>3, FirstOfCons
    <3>2. Len(elements) \in Nat
      BY <2>3, LenProperties
    <3>3. elements' # <<>>
      BY <3>1, <3>2, EmptySeq
    <3>4. /\ Tail(elements') \in Seq(R) /\ Len(Tail(elements')) = Len(elements)
          /\ \A i \in 1..Len(elements) : Tail(elements')[i] = elements[i]
      <4>1. /\ Tail(elements') \in Seq(R) /\ Len(Tail(elements')) = Len(elements') - 1
            /\ \A i \in 1..Len(Tail(elements')) : Tail(elements')[i] = elements'[i + 1]
        BY <3>1, <3>3, HeadTailProperties
      <4> QED
        BY <3>1, <3>2, <4>1
    <3>5. Tail(elements') = elements
      BY <2>3, <3>4, SeqEqual
    <3> QED
      BY <3>1, <3>3, <3>5
  <2>5. Begun(Doc, p, n)
    <3>1. \A k \in p + 1..n : k \in p + 1..taken \/ k = n
      BY <1>1
    <3> QED
      BY <1>8, <2>2, <3>1 DEF Begun
  <2>6. Within(elements', Doc, p, n, n)
    <3>1. p < n /\ n - n = 0 /\ (\A k \in n + 1..n : FALSE) /\ (\A k \in 1..0 : FALSE)
      BY <1>1
    <3>2. Len(elements'[1].value) = 0
      BY <2>3, <2>4, EmptySeq
    <3> QED
      BY <2>3, <2>4, <3>1, <3>2 DEF Within
  <2>7. Completed(elements', Doc, n) = <<[name |-> name, value |-> TextAt(Doc, n)]>> \o elements
    BY <2>3, <2>4 DEF Completed
  <2>8. Gathered(Completed(elements', Doc, n), Doc, p, n)
    <3> DEFINE V == Seq(STRING) \cup {TextAt(Doc, n)}
    <3>1. elements \in Seq([name : STRING, value : V])
      <4>1. R \subseteq [name : STRING, value : V]
        OBVIOUS
      <4> HIDE DEF R, V
      <4> QED
        BY <2>3, <4>1, SeqMonotonic
    <3>2. TextAt(Doc, n) \in V
      OBVIOUS
    <3> HIDE DEF V
    <3>3. p \in Nat /\ p <= taken
      BY <1>1
    <3>4. \A W : elements \in Seq([name : STRING, value : W]) /\ Doc[taken + 1].kind = "open"
                     /\ Doc[taken + 1].name \in STRING /\ TextAt(Doc, taken + 1) \in W
                => Gathered(<<[name |-> Doc[taken + 1].name, value |-> TextAt(Doc, taken + 1)]>>
                               \o elements, Doc, p, taken + 1)
      BY <1>1, <2>2, <3>3, GatheredNext
    <3>5. Gathered(<<[name |-> Doc[taken + 1].name, value |-> TextAt(Doc, taken + 1)]>>
                               \o elements, Doc, p, taken + 1)
      BY <1>2, <3>1, <3>2, <3>4
    <3> QED
      BY <2>7, <3>5
  <2>9. p \in 1..n /\ n \in 1..n
    BY <1>1
  <2>10. stack # <<>> /\ Last(stack) = "item"
    BY <1>4, <1>5, <1>8
  <2> HIDE DEF n
  <2> QED
    BY <1>2, <1>3, <1>8, <2>1, <2>5, <2>6, <2>8, <2>9, <2>10 DEF Reading
<1> QED
  BY <1>4, <1>6, <1>7, <1>8

\* character_data().
LEMMA TextReading ==
    ASSUME Inv, Feeding, Reading, docs' = docs, Parse,
           Doc[taken + 1].kind = "text", CharacterData(Doc[taken + 1].text)
    PROVE  Reading'
<1> DEFINE n == taken + 1
           text == Doc[n].text
<1>1. /\ taken \in Nat /\ n \in 1..Len(Doc) /\ Doc \in Seq(Tokens) /\ Doc[n] \in Tokens
      /\ url \in Urls /\ Len(Doc) \in Nat
  BY NextToken
<1>2. /\ pc = "parse" /\ pc' = "parse" /\ taken' = n /\ Doc' = Doc
      /\ UNCHANGED <<stack, item, subitem>> /\ text \in STRING
      /\ elements \in Seq(Elements)
  BY <1>1 DEF Parse, CharacterData, Doc, Tokens, Inv, Parser
<1>3. ASSUME NEW p \in 1..taken, Begun(Doc, p, taken) PROVE Begun(Doc, p, n)
  <2>1. \A k \in p + 1..n : k \in p + 1..taken \/ k = n
    BY <1>1
  <2> QED
    BY <1>3, <2>1 DEF Begun
<1>4. ASSUME NEW p \in 1..taken, NEW els, Gathered(els, Doc, p, taken)
      PROVE  Gathered(els, Doc, p, n)
  <2>1. p \in Nat /\ p <= taken
    BY <1>1
  <2> QED
    BY <1>1, <1>4, <2>1, GatheredNext
<1>5. \A p \in 1..taken : p \in 1..n
  BY <1>1
<1>6. CASE subitem = 1
  <2>1. PICK p, i \in 1..taken : /\ Begun(Doc, p, taken) /\ Within(elements, Doc, p, i, taken)
                                 /\ Gathered(Completed(elements, Doc, i), Doc, p, taken)
    BY <1>2, <1>6 DEF Reading
  <2> DEFINE first == [elements[1] EXCEPT !.value = Append(@, text)]
  <2>2. elements # <<>> /\ 1 \in 1..Len(elements) /\ elements[1] \in Elements
    <3>1. elements # <<>>
      BY <2>1 DEF Within
    <3>2. 1 \in 1..Len(elements)
      BY <1>2, <3>1, EmptySeq
    <3> QED
      BY <1>2, <3>1, <3>2, ElementOfSeq
  <2>3. /\ first \in Elements /\ first.name = elements[1].name
        /\ first.value = Append(elements[1].value, text)
    <3> DEFINE e == elements[1]
               v == Append(e.value, text)
    <3>1. e.name \in STRING /\ e.value \in Seq(STRING) /\ e = [name |-> e.name, value |-> e.value]
      BY <2>2 DEF Elements
    <3>2. v \in Seq(STRING)
      BY <1>2, <3>1, AppendProperties
    <3>3. first = [e EXCEPT !.value = v]
      OBVIOUS
    <3> HIDE DEF e, v, first
    <3>4. first.name = e.name /\ first.value = v /\ first = [name |-> e.name, value |-> v]
      BY <3>1, <3>3
    <3> QED
      BY <3>1, <3>2, <3>4 DEF Elements, e, v
  <2> HIDE DEF first
  <2>4. elements' = [elements EXCEPT ![1] = first]
    BY <1>6 DEF CharacterData, first
  <2>5. /\ elements' \in Seq(Elements) /\ Len(elements') = Len(elements)
        /\ elements'[1] = first /\ \A j \in 2..Len(elements) : elements'[j] = elements[j]
    <3>1. /\ elements' \in Seq(Elements) /\ Len(elements') = Len(elements)
          /\ \A j \in 1..Len(elements) : elements'[j] = IF j = 1 THEN first ELSE elements[j]
      BY <1>2, <2>2, <2>3, <2>4, ExceptSeq
    <3>2. \A j \in 2..Len(elements) : j \in 1..Len(elements) /\ j # 1
      BY <2>2
    <3> QED
      BY <2>2, <3>1, <3>2
  <2>6. elements' # <<>> /\ Tail(elements') = Tail(elements)
    <3>0. Len(elements) \in Nat \ {0}
      BY <1>2, <2>2, EmptySeq
    <3>1. elements' # <<>>
      BY <2>5, <3>0, EmptySeq
    <3>2. /\ Tail(elements') \in Seq(Elements) /\ Len(Tail(elements')) = Len(elements') - 1
          /\ \A j \in 1..Len(Tail(elements')) : Tail(elements')[j] = elements'[j + 1]
      BY <2>5, <3>1, HeadTailProperties
    <3>3. /\ Tail(elements) \in Seq(Elements) /\ Len(Tail(elements)) = Len(elements) - 1
          /\ \A j \in 1..Len(Tail(elements)) : Tail(elements)[j] = elements[j + 1]
      BY <1>2, <2>2, HeadTailProperties
    <3>4. ASSUME NEW j \in 1..Len(Tail(elements')) PROVE Tail(elements')[j] = Tail(elements)[j]
      <4>1. j + 1 \in 2..Len(elements) /\ j \in 1..Len(Tail(elements))
        BY <2>5, <3>0, <3>2, <3>3
      <4> QED
        BY <2>5, <3>2, <3>3, <4>1
    <3>5. Len(Tail(elements')) = Len(Tail(elements))
      BY <2>5, <3>2, <3>3
    <3> QED
      BY <3>1, <3>2, <3>3, <3>4, <3>5, SeqEqual
  <2>7. Completed(elements', Doc, i) = Completed(elements, Doc, i)
    BY <2>3, <2>5, <2>6 DEF Completed
  <2>8. Within(elements', Doc, p, i, n)
    <3>1. /\ p < i /\ Doc[i].kind = "open" /\ elements[1].name = Doc[i].name
          /\ \A k \in i + 1..taken : Doc[k].kind = "text"
          /\ Len(elements[1].value) = taken - i
          /\ \A k \in 1..taken - i : elements[1].value[k] = Doc[i + k].text
      BY <2>1 DEF Within
    <3>2. elements[1].value \in Seq(STRING)
      BY <2>2 DEF Elements
    <3>3. /\ Len(first.value) = Len(elements[1].value) + 1
          /\ \A k \in 1..Len(elements[1].value) : first.value[k] = elements[1].value[k]
          /\ first.value[Len(elements[1].value) + 1] = text
      BY <1>2, <2>3, <3>2, AppendProperties
    <3>4. \A k \in i + 1..n : Doc[k].kind = "text"
      <4>1. \A k \in i + 1..n : k \in i + 1..taken \/ k = n
        BY <1>1
      <4> QED
        BY <3>1, <4>1
    <3>5. ASSUME NEW k \in 1..n - i PROVE first.value[k] = Doc[i + k].text
      <4>1. CASE k \in 1..taken - i
        BY <3>1, <3>3, <4>1
      <4>2. CASE k = n - i
        <5>1. k = Len(elements[1].value) + 1 /\ i + k = n
          BY <1>1, <3>1, <4>2
        <5> QED
          BY <3>3, <5>1
      <4>3. k \in 1..taken - i \/ k = n - i
        BY <1>1
      <4> QED
        BY <4>1, <4>2, <4>3
    <3>6. Len(first.value) = n - i
      BY <1>1, <3>1, <3>3
    <3> HIDE DEF n
    <3> QED
      BY <2>3, <2>5, <2>6, <3>1, <3>4, <3>5, <3>6 DEF Within
  <2>9. Begun(Doc, p, n) /\ Gathered(Completed(elements', Doc, i), Doc, p, n)
        /\ p \in 1..n /\ i \in 1..n
    BY <1>3, <1>4, <1>5, <2>1, <2>7
  <2>10. /\ item = 1
         /\ Len(stack) > 1 /\ Last(stack) # "item" /\ stack[Len(stack) - 1] = "item"
    BY <1>2, <1>6 DEF Reading
  <2> HIDE DEF n
  <2> QED
    BY <1>2, <1>6, <2>8, <2>9, <2>10 DEF Reading
<1>7. CASE subitem = 0
  <2>1. elements' = elements
    BY <1>7 DEF CharacterData
  <2>2. /\ item \in {0, 1} /\ subitem \in {0, 1}
        /\ item = 1 /\ subitem = 0 =>
              /\ stack # <<>> /\ Last(stack) = "item"
              /\ \E p \in 1..taken : Begun(Doc, p, taken) /\ Gathered(elements, Doc, p, taken)
    BY <1>2 DEF Reading
  <2>3. item = 1 => \E p \in 1..n : Begun(Doc, p, n) /\ Gathered(elements, Doc, p, n)
    BY <1>3, <1>4, <1>5, <1>7, <2>2
  <2> HIDE DEF n
  <2> QED
    BY <1>2, <1>7, <2>1, <2>2, <2>3 DEF Reading
<1> QED
  BY <1>2, <1>6, <1>7 DEF Reading

\* end_element().
LEMMA CloseReading ==
    ASSUME Inv, Feeding, Reading, docs' = docs, Parse,
           Doc[taken + 1].kind = "close", EndElement(Doc[taken + 1].name)
    PROVE  Reading' /\ Complete'
<1> DEFINE n == taken + 1
           name == Doc[n].name
<1>1. /\ taken \in Nat /\ n \in 1..Len(Doc) /\ Doc \in Seq(Tokens) /\ Doc[n] \in Tokens
      /\ url \in Urls /\ Len(Doc) \in Nat
  BY NextToken
<1>2. /\ pc = "parse" /\ taken' = n /\ Doc' = Doc
      /\ stack' = Front(stack) /\ stack # <<>> /\ Last(stack) = name
      /\ stack \in Seq(STRING) /\ elements \in Seq(Elements)
      /\ elements' = elements
      /\ item' = (IF name = "item" THEN item - 1 ELSE item)
      /\ pc' = (IF name = "item" THEN "process" ELSE "parse")
      /\ subitem' = (IF name # "item" /\ item > 0 THEN subitem - 1 ELSE subitem)
  <2>1. Token(Head(urlPipe)) = Doc[n] /\ WellFormed(Head(urlPipe))
    BY NextToken DEF Parse
  <2>2. stack # <<>> /\ Last(stack) = name
    BY <2>1 DEF WellFormed
  <2> QED
    BY <2>2 DEF Parse, EndElement, Doc, Inv, Parser
<1>3. /\ item \in {0, 1} /\ subitem \in {0, 1}
      /\ item = 1 /\ subitem = 0 =>
            /\ stack # <<>> /\ Last(stack) = "item"
            /\ \E p \in 1..taken : Begun(Doc, p, taken) /\ Gathered(elements, Doc, p, taken)
      /\ subitem = 1 => item = 1 /\ Last(stack) # "item"
      /\ item = 0 => subitem = 0
  BY <1>2 DEF Reading
<1>4. ASSUME NEW p \in 1..taken, NEW els, Gathered(els, Doc, p, taken)
      PROVE  Gathered(els, Doc, p, n)
  <2>1. p \in Nat /\ p <= taken
    BY <1>1
  <2> QED
    BY <1>1, <1>4, <2>1, GatheredNext
<1>5. \A p \in 1..taken : p \in 1..n
  BY <1>1
<1>6. CASE name = "item"
  <2>1. item = 1 /\ subitem = 0
    <3>1. item > 0
      BY <1>2, <1>6, Closed DEF Inv, Parser
    <3> QED
      BY <1>2, <1>3, <1>6, <3>1
  <2>2. PICK p \in 1..taken : Begun(Doc, p, taken) /\ Gathered(elements, Doc, p, taken)
    BY <1>3, <2>1
  <2>3. IsItem(Doc, p, n)
    <3>1. p < n /\ \A k \in p + 1..n - 1 : k \in p + 1..taken
      BY <1>1
    <3> QED
      BY <1>6, <2>2, <3>1 DEF IsItem, Begun
  <2>4. Gathered(elements, Doc, p, n) /\ p \in 1..n /\ n > 0
    BY <1>1, <1>4, <1>5, <2>2
  <2>5. pc' = "process" /\ item' = 0
    BY <1>2, <1>6, <2>1
  <2> HIDE DEF n
  <2> QED
    BY <1>2, <2>3, <2>4, <2>5 DEF Reading, Complete
<1>7. CASE name # "item"
  <2>p. pc' = "parse"
    BY <1>2, <1>7
  <2>1. CASE item = 0
    BY <1>2, <1>3, <1>7, <2>1, <2>p DEF Reading, Complete, ItemDone
  <2>2. CASE item = 1
    <3>1. subitem = 1
      BY <1>2, <1>3, <1>7, <2>2
    <3>2. PICK p, i \in 1..taken : /\ Begun(Doc, p, taken) /\ Within(elements, Doc, p, i, taken)
                                   /\ Gathered(Completed(elements, Doc, i), Doc, p, taken)
      BY <1>2, <3>1 DEF Reading
    <3>3. Len(stack) > 1 /\ stack[Len(stack) - 1] = "item"
      BY <1>2, <3>1 DEF Reading
    <3>4. stack' # <<>> /\ Last(stack') = "item"
      <4>1. Len(stack) \in Nat /\ \A k \in 1..Len(stack) - 1 : stack[k] \in STRING
        BY <1>2, LenProperties, ElementOfSeq
      <4>2. /\ Len(stack') = Len(stack) - 1
            /\ \A k \in 1..Len(stack) - 1 : stack'[k] = stack[k]
        <5>1. stack' = SubSeq(stack, 1, Len(stack) - 1)
          BY <1>2 DEF Front
        <5> QED
          BY <1>2, <3>3, <4>1, <5>1
      <4>3. Len(stack) - 1 \in 1..Len(stack) - 1
        BY <3>3, <4>1
      <4>4. Len(stack') # 0
        BY <3>3, <4>1, <4>2
      <4>5. stack' # <<>>
        BY <4>4, EmptySeq
      <4> QED
        BY <3>3, <4>2, <4>3, <4>5 DEF Last
    <3>5. Completed(elements, Doc, i) = elements
      <4>1. /\ p < i /\ \A k \in i + 1..taken : Doc[k].kind = "text"
            /\ elements # <<>> /\ elements[1].name = Doc[i].name
            /\ Len(elements[1].value) = taken - i
            /\ \A k \in 1..taken - i : elements[1].value[k] = Doc[i + k].text
        BY <3>2 DEF Within
      <4>2. elements[1] \in Elements
        <5>1. 1 \in 1..Len(elements)
          BY <1>2, <4>1, EmptySeq
        <5> QED
          BY <1>2, <5>1, ElementOfSeq
      <4>3. elements[1].value = TextAt(Doc, i)
        <5>1. /\ i \in Nat /\ n \in i + 1..Len(Doc) /\ n - 1 = taken /\ n - i - 1 = taken - i
              /\ Doc[n].kind # "text"
          BY <1>1
        <5>2. elements[1].value \in Seq(STRING)
          BY <4>2 DEF Elements
        <5> HIDE DEF n
        <5>3. /\ \A k \in i + 1..n - 1 : Doc[k].kind = "text"
              /\ Len(elements[1].value) = n - i - 1
              /\ \A k \in 1..n - i - 1 : elements[1].value[k] = Doc[i + k].text
          BY <4>1, <5>1
        <5> QED
          BY <1>1, <5>1, <5>2, <5>3, TextComplete
      <4>4. [name |-> elements[1].name, value |-> TextAt(Doc, i)] = elements[1]
        BY <4>2, <4>3 DEF Elements
      <4>5. <<elements[1]>> \o Tail(elements) = elements
        <5>1. elements = <<Head(elements)>> \o Tail(elements)
          BY <1>2, <4>1, HeadAndTail
        <5> QED
          BY <1>2, <4>1, <5>1
      <4> QED
        BY <4>4, <4>5 DEF Completed
    <3>6. Begun(Doc, p, n)
      <4>1. \A k \in p + 1..n : k \in p + 1..taken \/ k = n
        BY <1>1
      <4> QED
        BY <1>7, <3>2, <4>1 DEF Begun
    <3>7. Gathered(elements, Doc, p, n) /\ p \in 1..n
      BY <1>4, <1>5, <3>2, <3>5
    <3>8. item' = 1 /\ subitem' = 0
      BY <1>2, <1>7, <2>2, <3>1
    <3> HIDE DEF n
    <3> QED
      BY <1>2, <2>p, <3>4, <3>6, <3>7, <3>8 DEF Reading, Complete, ItemDone
  <2> QED
    BY <1>3, <2>1, <2>2
<1> QED
  BY <1>6, <1>7

\* So, whatever the token.
LEMMA ParseReading ==
    ASSUME Inv, Feeding, Rss, Reading, docs' = docs, Parse
    PROVE  Reading' /\ Complete'
<1>1. Token(Head(urlPipe)) = Doc[taken + 1]
  BY NextToken
<1>2. CASE Doc[taken + 1].kind = "open" /\ StartElement(Doc[taken + 1].name)
  <2>1. pc' \notin ItemDone
    BY <1>2 DEF StartElement, ItemDone
  <2> QED
    BY <1>2, <2>1, OpenReading DEF Complete
<1>3. CASE Doc[taken + 1].kind = "close" /\ EndElement(Doc[taken + 1].name)
  BY <1>3, CloseReading
<1>4. CASE Doc[taken + 1].kind = "text" /\ CharacterData(Doc[taken + 1].text)
  <2>1. pc' \notin ItemDone
    BY <1>4 DEF CharacterData, ItemDone
  <2> QED
    BY <1>4, <2>1, TextReading DEF Complete
<1> QED
  BY <1>1, <1>2, <1>3, <1>4 DEF Parse

-------------------------------------------------------------------------------
(* What the article is made of, and what is on its way through lynx.       *)

\* The pieces that ReadLead leaves out, one after the other.
LEMMA StrippedCons ==
    ASSUME NEW S, NEW x \in S, NEW s \in Seq(S)
    PROVE  Stripped(<<x>> \o s) = IF x \in Blanks \cup LongStarts THEN Stripped(s)
                                  ELSE <<x>> \o s
<1> DEFINE all == <<x>> \o s
           I == {i \in 1..Len(s) : s[i] \notin Blanks \cup LongStarts}
           J == {i \in 1..Len(all) : all[i] \notin Blanks \cup LongStarts}
<1>1. /\ Len(s) \in Nat /\ all \in Seq(S) /\ Len(all) = Len(s) + 1 /\ all[1] = x
      /\ \A i \in 1..Len(s) : all[i + 1] = s[i]
  BY FirstOfCons, LenProperties
<1>2. Stripped(s) = IF (IF I # {} THEN Min(I) ELSE 0) = 0 THEN <<>>
                    ELSE SubSeq(s, IF I # {} THEN Min(I) ELSE 0, Len(s))
  BY DEF Stripped, SelectInSeq
<1>3. Stripped(all) = IF (IF J # {} THEN Min(J) ELSE 0) = 0 THEN <<>>
                      ELSE SubSeq(all, IF J # {} THEN Min(J) ELSE 0, Len(all))
  BY DEF Stripped, SelectInSeq
<1>4. I \in SUBSET Nat /\ J \in SUBSET Nat
  OBVIOUS
<1> HIDE DEF all
<1>5. CASE x \notin Blanks \cup LongStarts
  <2>1. 1 \in J /\ \A j \in J : 1 <= j
    BY <1>1, <1>5
  <2> HIDE DEF I, J
  <2>2. Min(J) = 1
    <3>1. Min(J) \in J /\ \A j \in J : Min(J) <= j
      BY <1>4, <2>1, MinOf
    <3>2. Min(J) \in Nat /\ Min(J) <= 1 /\ 1 <= Min(J)
      BY <1>4, <2>1, <3>1
    <3> HIDE DEF J
    <3> QED
      BY <3>2
  <2>3. SubSeq(all, 1, Len(all)) = all
    BY <1>1, SubSeqFull
  <2>4. J # {} /\ 1 # 0
    BY <2>1
  <2>5. Stripped(all) = SubSeq(all, 1, Len(all))
    BY <1>3, <2>2, <2>4
  <2> QED
    BY <1>5, <2>3, <2>5 DEF all
<1>6. CASE x \in Blanks \cup LongStarts
  <2>1. \A i \in I : i + 1 \in J
    BY <1>1
  <2>2. \A j \in J : j - 1 \in I /\ j - 1 \in Nat
    <3> SUFFICES ASSUME NEW j \in J PROVE j - 1 \in I /\ j - 1 \in Nat
      OBVIOUS
    <3>1. j \in 1..Len(s) + 1 /\ all[j] \notin Blanks \cup LongStarts
      BY <1>1
    <3>2. j # 1
      BY <1>1, <1>6, <3>1
    <3>3. j - 1 \in 1..Len(s) /\ (j - 1) + 1 = j
      BY <1>1, <3>1, <3>2
    <3>4. all[j] = s[j - 1]
      BY <1>1, <3>3
    <3> QED
      BY <3>1, <3>3, <3>4
  <2>i. I \subseteq 1..Len(s)
    OBVIOUS
  <2> HIDE DEF I, J
  <2>3. CASE I = {}
    <3>1. J = {}
      BY <2>2, <2>3
    <3> QED
      BY <1>2, <1>3, <1>6, <2>3, <3>1 DEF all
  <2>4. CASE I # {}
    <3>1. Min(I) \in I /\ \A m \in I : Min(I) <= m
      BY <1>4, <2>4, MinOf
    <3>2. J # {}
      BY <2>1, <3>1
    <3>3. Min(J) \in J /\ \A m \in J : Min(J) <= m
      BY <1>4, <3>2, MinOf
    <3>4. Min(J) = Min(I) + 1
      <4>1. Min(I) \in Nat /\ Min(J) \in Nat
        BY <1>4, <3>1, <3>3
      <4>2. Min(J) <= Min(I) + 1 /\ Min(I) <= Min(J) - 1
        BY <2>1, <2>2, <3>1, <3>3
      <4> QED
        BY <4>1, <4>2
    <3>5. Min(I) \in 1..Len(s)
      BY <2>i, <3>1
    <3>6. SubSeq(all, Min(J), Len(all)) = SubSeq(s, Min(I), Len(s))
      <4> DEFINE m == Min(I)
      <4>1. m \in 1..Len(s) /\ Min(J) = m + 1
        BY <3>4, <3>5
      <4> HIDE DEF m
      <4> DEFINE a == m + 1
                 b == Len(s) + 1
      <4>2. <<x>> \in Seq(S) /\ Len(<<x>>) = 1
        OBVIOUS
      <4>3. /\ a \in Len(<<x>>) + 1..Len(<<x>>) + Len(s) /\ a - 1 = m
            /\ b \in Len(<<x>>) + 1..Len(<<x>>) + Len(s) /\ b - 1 = Len(s)
        BY <1>1, <4>1, <4>2
      <4> HIDE DEF a, b
      <4>4. SubSeq(<<x>> \o s, a, b) = SubSeq(s, a - Len(<<x>>), b - Len(<<x>>))
        BY <4>2, <4>3, SubSeqOfConcat2
      <4>5. SubSeq(all, m + 1, Len(all)) = SubSeq(s, m, Len(s))
        BY <1>1, <4>2, <4>3, <4>4 DEF all, a, b
      <4> QED
        BY <4>1, <4>5 DEF m
    <3>7. Min(I) # 0 /\ Min(J) # 0
      BY <1>1, <3>4, <3>5
    <3> QED
      BY <1>2, <1>3, <1>6, <2>4, <3>2, <3>6, <3>7 DEF all
  <2> QED
    BY <2>3, <2>4
<1> QED
  BY <1>5, <1>6

\* What is left is part of the description.
LEMMA StrippedTyped ==
    ASSUME NEW S, NEW s \in Seq(S)
    PROVE  Stripped(s) \in Seq(S) /\ Stripped(<<>>) = <<>>
<1> DEFINE I == {i \in 1..Len(s) : s[i] \notin Blanks \cup LongStarts}
<1>1. Stripped(s) = IF (IF I # {} THEN Min(I) ELSE 0) = 0 THEN <<>>
                    ELSE SubSeq(s, IF I # {} THEN Min(I) ELSE 0, Len(s))
  BY DEF Stripped, SelectInSeq
<1>2. I \in SUBSET Nat /\ I \subseteq 1..Len(s) /\ Len(s) \in Nat
  BY LenProperties
<1> HIDE DEF I
<1>3. ASSUME I = {} PROVE Stripped(s) \in Seq(S)
  BY <1>1, <1>3, EmptySeq
<1>4. ASSUME I # {} PROVE Stripped(s) \in Seq(S)
  <2> DEFINE m == Min(I)
  <2>1. m \in 1..Len(s)
    BY <1>2, <1>4, MinOf
  <2> HIDE DEF m
  <2>2. m \in Int /\ Len(s) \in Int /\ \A i \in m..Len(s) : s[i] \in S
    BY <1>2, <2>1, ElementOfSeq
  <2>3. SubSeq(s, m, Len(s)) \in Seq(S)
    BY <2>2, SubSeqProperties
  <2>4. Stripped(s) = IF m = 0 THEN <<>> ELSE SubSeq(s, m, Len(s))
    BY <1>1, <1>4 DEF m
  <2> QED
    BY <2>3, <2>4, EmptySeq
<1>5. Stripped(<<>>) = <<>>
  <2>1. {i \in 1..Len(<<>>) : <<>>[i] \notin Blanks \cup LongStarts} = {}
    OBVIOUS
  <2> QED
    BY <2>1 DEF Stripped, SelectInSeq
<1> QED
  BY <1>3, <1>4, <1>5

\* If the first line that is not blank is a short one, ReadLead leaves out the
\* blank ones only.
LEMMA OnlyBlanksLeftOut ==
    ASSUME NEW S, NEW text \in Seq(S), text # None, BeginsShort(text)
    PROVE  Rendered(text) = Stripped(text)
<1> DEFINE I == {i \in 1..Len(text) : text[i] \notin Blanks}
           J == {i \in 1..Len(text) : text[i] \notin Blanks \cup LongStarts}
           first == IF I # {} THEN Min(I) ELSE 0
<1>1. Rendered(text) = IF first = 0 THEN <<>> ELSE SubSeq(text, first, Len(text))
  BY DEF Rendered, SelectInSeq
<1>2. Stripped(text) = IF (IF J # {} THEN Min(J) ELSE 0) = 0 THEN <<>>
                       ELSE SubSeq(text, IF J # {} THEN Min(J) ELSE 0, Len(text))
  BY DEF Stripped, SelectInSeq
<1>3. first # 0 => text[first] \notin LongStarts
  BY DEF BeginsShort, SelectInSeq
<1>4. J \subseteq I /\ \A i \in I : i \in J <=> text[i] \notin LongStarts
  OBVIOUS
<1>5. I \in SUBSET Nat /\ J \in SUBSET Nat /\ \A i \in I : i # 0
  BY LenProperties
<1> HIDE DEF I, J
<1>6. CASE I = {}
  BY <1>1, <1>2, <1>4, <1>6
<1>7. CASE I # {}
  <2>1. Min(I) \in I /\ \A m \in I : Min(I) <= m
    BY <1>5, <1>7, MinOf
  <2>2. Min(I) \in J
    BY <1>3, <1>4, <1>5, <1>7, <2>1
  <2>3. Min(J) \in J /\ \A m \in J : Min(J) <= m
    BY <1>5, <2>2, MinOf
  <2>4. Min(I) <= Min(J) /\ Min(J) <= Min(I) /\ Min(I) \in Nat /\ Min(J) \in Nat
    BY <1>4, <1>5, <2>1, <2>2, <2>3
  <2>5. Min(J) = Min(I)
    BY ONLY <2>4
  <2>6. J # {}
    BY <2>2
  <2> QED
    BY <1>1, <1>2, <1>7, <2>5, <2>6
<1> QED
  BY <1>6, <1>7

\* process() finds what the item says, so that the header is that of its article.
LEMMA HeaderOf ==
    ASSUME NEW p, NEW n, Gathered(elements, Doc, p, n)
    PROVE  /\ ValueIn(Doc, p, n, "pubDate") = FindElement("pubDate")
           /\ ValueIn(Doc, p, n, "description") = FindElement("description")
           /\ FindElement("description") # None =>
                 ArticleIn(Doc, p, n)
                   = [Header EXCEPT !.body = Rendered(FindElement("description"))]
<1>1. \A name \in Fields : FindElement(name) = ValueIn(Doc, p, n, name)
  BY DEF Gathered, FindElement, FindIn
<1>2. Keywords = KeywordsIn(Doc, p, n)
  BY DEF Gathered, Keywords, KeywordsOf
<1>3. /\ FindElement("guid") = ValueIn(Doc, p, n, "guid")
      /\ FindElement("title") = ValueIn(Doc, p, n, "title")
      /\ FindElement("pubDate") = ValueIn(Doc, p, n, "pubDate")
      /\ FindElement("link") = ValueIn(Doc, p, n, "link")
      /\ FindElement("description") = ValueIn(Doc, p, n, "description")
  BY <1>1 DEF Fields
<1> QED
  BY <1>2, <1>3 DEF ArticleIn, Header

\* What the parser has gathered stays what it is.
LEMMA SameElements ==
    ASSUME elements' = elements
    PROVE  /\ FindElement("guid")' = FindElement("guid")
           /\ FindElement("title")' = FindElement("title")
           /\ FindElement("pubDate")' = FindElement("pubDate")
           /\ FindElement("link")' = FindElement("link")
           /\ FindElement("description")' = FindElement("description")
           /\ Header' = Header
           /\ \A text : Stripped(text)' = Stripped(text)
<1>1. /\ FindElement("guid")' = FindElement("guid")
      /\ FindElement("title")' = FindElement("title")
      /\ FindElement("pubDate")' = FindElement("pubDate")
      /\ FindElement("link")' = FindElement("link")
      /\ FindElement("description")' = FindElement("description")
  BY DEF FindElement, SelectInSeq
<1>2. Keywords' = Keywords
  BY DEF Keywords
<1> QED
  BY <1>1, <1>2 DEF Header

\* A step that leaves the rendering alone, or ends it.
LEMMA SameRendering ==
    ASSUME Rendering, UNCHANGED <<elements, article, render>>,
           pc' = pc \/ pc' \notin {"lead", "copy", "reap"}
    PROVE  Rendering'
<1>1. /\ FindElement("pubDate")' = FindElement("pubDate")
      /\ FindElement("description")' = FindElement("description")
      /\ Header' = Header
  BY SameElements
<1>2. OnItsWay' = OnItsWay
  BY DEF OnItsWay, render
<1>3. UNCHANGED <<article, description, inPipe, inWriters, outPipe, outWriters, lynx, unwritten>>
  BY DEF render
<1> QED
  BY <1>1, <1>2, <1>3 DEF Rendering, Skipped

\* On the way nothing is lost, nor does anything overtake.
LEMMA NothingLost ==
    ASSUME Inv, WriteDescription \/ LynxReads \/ LynxWrites
    PROVE  OnItsWay' = OnItsWay
<1>t. /\ description \in Seq(STRING) /\ unwritten \in Seq(STRING)
      /\ inPipe \in Seq(STRING) /\ outPipe \in Seq(STRING)
      /\ inPipe \o description \in Seq(STRING)
  BY ConcatProperties DEF Inv, Pipes
<1>1. CASE WriteDescription
  <2>1. inPipe' \o description' = inPipe \o description
    BY <1>1, <1>t, PieceMoves DEF WriteDescription
  <2>2. UNCHANGED <<unwritten, outPipe>>
    BY <1>1 DEF WriteDescription
  <2> QED
    BY <2>1, <2>2 DEF OnItsWay
<1>2. CASE LynxReads
  <2>0. inPipe # <<>> /\ inPipe' = Tail(inPipe) /\ unwritten' = Append(unwritten, Head(inPipe))
    BY <1>2 DEF LynxReads
  <2>1. unwritten' \o (inPipe' \o description) = unwritten \o (inPipe \o description)
    BY ONLY <1>t, <2>0, PieceMovesBefore, SMTT(30)
  <2>2. UNCHANGED <<description, outPipe>>
    BY <1>2 DEF LynxReads
  <2> QED
    BY <2>1, <2>2 DEF OnItsWay
<1>3. CASE LynxWrites
  <2>0. /\ unwritten # <<>> /\ unwritten' = Tail(unwritten)
        /\ outPipe' = Append(outPipe, Head(unwritten))
    BY <1>3 DEF LynxWrites
  <2>1. ASSUME NEW behind \in Seq(STRING)
        PROVE  outPipe' \o (unwritten' \o behind) = outPipe \o (unwritten \o behind)
    <3>1. outPipe \in Seq(STRING) /\ unwritten \in Seq(STRING)
      BY <1>t
    <3> QED
      BY ONLY <2>0, <3>1, behind \in Seq(STRING), PieceMovesBefore, SMTT(30)
  <2>2. UNCHANGED <<description, inPipe>>
    BY <1>3 DEF LynxWrites
  <2> QED
    BY <1>t, <2>1, <2>2 DEF OnItsWay
<1> QED
  BY <1>1, <1>2, <1>3

\* The writer thread and lynx, at whichever end they are.
LEMMA FlowRendering ==
    ASSUME Inv, Rendering, WriteDescription \/ CloseDescription \/ Lynx \/ LynxFails
    PROVE  Rendering'
<1>1. /\ UNCHANGED <<pc, article, elements>>
      /\ WriteDescription \/ CloseDescription \/ LynxReads \/ LynxWrites \/ LynxEnds \/ LynxFails
  BY DEF WriteDescription, CloseDescription, Lynx, LynxReads, LynxWrites, LynxEnds, LynxFails,
         RenderStep, parser
<1>2. /\ FindElement("pubDate")' = FindElement("pubDate")
      /\ FindElement("description")' = FindElement("description")
      /\ Header' = Header
  BY <1>1, SameElements
<1>3. OnItsWay' = OnItsWay
  <2>1. CASE WriteDescription \/ LynxReads \/ LynxWrites
    BY <2>1, NothingLost
  <2>2. CASE CloseDescription \/ LynxEnds \/ LynxFails
    BY <2>2 DEF CloseDescription, LynxEnds, LynxFails, OnItsWay
  <2> QED
    BY <1>1, <2>1, <2>2
<1> SUFFICES ASSUME pc \in {"lead", "copy", "reap"} PROVE Rendering'
  BY <1>1 DEF Rendering
<1>4. /\ FindElement("description") # None /\ ~Skipped(FindElement("pubDate"))
      /\ inWriters = {} => description = <<>>
      /\ lynx = "done" => unwritten = <<>> /\ inPipe = <<>> /\ inWriters = {}
      /\ outWriters = {} => lynx \in {"done", "failed"}
      /\ pc = "reap" => outWriters = {}
  BY DEF Rendering
<1>5. PICK body \in Seq(STRING) :
          /\ article = [Header EXCEPT !.body = body]
          /\ pc = "lead" => /\ body = <<>>
                            /\ Stripped(OnItsWay) = Stripped(FindElement("description"))
          /\ pc = "copy" => body \o OnItsWay = Stripped(FindElement("description"))
          /\ pc = "reap" => lynx = "failed" \/ body = Stripped(FindElement("description"))
  BY DEF Rendering
<1>6. /\ inWriters' = {} => description' = <<>>
      /\ lynx' = "done" => unwritten' = <<>> /\ inPipe' = <<>> /\ inWriters' = {}
      /\ outWriters' = {} => lynx' \in {"done", "failed"}
      /\ pc = "reap" => outWriters' = {}
      /\ lynx = "failed" => lynx' = "failed"
  <2>1. CASE WriteDescription
    BY <1>4, <2>1 DEF WriteDescription
  <2>2. CASE CloseDescription
    BY <1>4, <2>2 DEF CloseDescription
  <2>3. CASE LynxReads \/ LynxWrites
    BY <1>4, <2>3 DEF LynxReads, LynxWrites
  <2>4. CASE LynxEnds \/ LynxFails
    BY <1>4, <2>4 DEF LynxEnds, LynxFails
  <2> QED
    BY <1>1, <2>1, <2>2, <2>3, <2>4
<1>7. Skipped(FindElement("pubDate"))' = Skipped(FindElement("pubDate"))
  BY <1>2 DEF Skipped
<1> QED
  BY <1>1, <1>2, <1>3, <1>4, <1>5, <1>6, <1>7 DEF Rendering

\* The rendering begins with the description at one end, but for a blank line
\* that lynx may add, and nothing in the article.
LEMMA StartRendering ==
    ASSUME Inv, StartLynx
    PROVE  Rendering'
<1>1. /\ elements' = elements /\ FindElement("description") # None
      /\ ~Skipped(FindElement("pubDate")) /\ article' = Header
      /\ description' = FindElement("description")
      /\ inPipe' = <<>> /\ outPipe' = <<>> /\ inWriters' # {} /\ outWriters' # {}
      /\ lynx' = "running" /\ pc' = "lead"
      /\ unwritten' \in {<<>>} \cup {<<b>> : b \in Blanks}
  BY DEF StartLynx, parser
<1>2. /\ FindElement("pubDate")' = FindElement("pubDate")
      /\ FindElement("description")' = FindElement("description")
      /\ Header' = Header
  BY <1>1, SameElements
<1>3. Header = [Header EXCEPT !.body = <<>>]
  BY DEF Header
<1> DEFINE text == FindElement("description")
<1>4. text \in Seq(STRING) /\ <<>> \in Seq(STRING)
  BY <1>1, FoundElement, EmptySeq DEF Inv, Parser
<1>5. Stripped(OnItsWay') = Stripped(text)
  <2>1. OnItsWay' = <<>> \o (unwritten' \o (<<>> \o text))
    BY <1>1 DEF OnItsWay
  <2> HIDE DEF text
  <2>2. <<>> \o text = text
    BY <1>4, ConcatEmptySeq
  <2>3. CASE unwritten' = <<>>
    <3>1. OnItsWay' = text
      BY <2>1, <2>2, <2>3
    <3> QED
      BY <3>1
  <2>4. CASE unwritten' # <<>>
    <3>1. PICK b \in Blanks : unwritten' = <<b>>
      BY <1>1, <2>4
    <3>2. b \in STRING
      BY Lj2NewsAssumption
    <3> DEFINE all == <<b>> \o text
    <3>3. all \in Seq(STRING) /\ Stripped(all) = Stripped(text)
      <4>1. \A S : b \in S /\ text \in Seq(S) =>
               <<b>> \o text \in Seq(S) /\ Stripped(<<b>> \o text) = Stripped(text)
        BY StrippedCons, FirstOfCons
      <4> QED
        BY <1>4, <3>2, <4>1
    <3>4. OnItsWay' = <<>> \o all
      BY <2>1, <2>2, <3>1
    <3> HIDE DEF all
    <3>5. OnItsWay' = all
      BY <3>3, <3>4, ConcatEmptySeq
    <3> QED
      BY <3>3, <3>5
  <2> QED
    BY <2>3, <2>4
<1>6. Skipped(FindElement("pubDate"))' = Skipped(FindElement("pubDate"))
  BY <1>2 DEF Skipped
<1> HIDE DEF text
<1>7. \E body \in Seq(STRING) :
          /\ article' = [Header EXCEPT !.body = body]
          /\ body = <<>> /\ Stripped(OnItsWay') = Stripped(text)
  BY <1>1, <1>3, <1>4, <1>5
<1> QED
  BY <1>1, <1>2, <1>6, <1>7 DEF Rendering, text

\* ReadLead: a piece that is left out, or the first of the article.
LEMMA LeadRendering ==
    ASSUME Inv, Rendering, ReadLead
    PROVE  Rendering'
<1>1. /\ pc = "lead" /\ outPipe # <<>> /\ outPipe' = Tail(outPipe) /\ elements' = elements
      /\ UNCHANGED <<description, inPipe, inWriters, outWriters, lynx, unwritten>>
      /\ IF Head(outPipe) \in Blanks \cup LongStarts
         THEN UNCHANGED <<pc, article>>
         ELSE pc' = "copy" /\ article' = [article EXCEPT !.body = <<Head(outPipe)>>]
  BY DEF ReadLead, RenderStep, parser
<1>2. /\ FindElement("pubDate")' = FindElement("pubDate")
      /\ FindElement("description")' = FindElement("description")
      /\ Header' = Header
  BY <1>1, SameElements
<1> DEFINE rest == unwritten \o (inPipe \o description)
           after == Tail(outPipe) \o rest
           text == FindElement("description")
           h == Head(outPipe)
<1>3. /\ outPipe \in Seq(STRING) /\ Tail(outPipe) \in Seq(STRING) /\ h \in STRING
      /\ rest \in Seq(STRING)
  BY <1>1, ConcatProperties, HeadTailProperties DEF Inv, Pipes
<1>4. after \in Seq(STRING) /\ OnItsWay = <<h>> \o after /\ OnItsWay' = after
  <2> HIDE DEF rest, h
  <2>1. after \in Seq(STRING)
    BY <1>3, ConcatProperties
  <2>2. OnItsWay = outPipe \o rest /\ OnItsWay' = after
    BY <1>1 DEF OnItsWay, rest
  <2>3. outPipe = <<h>> \o Tail(outPipe) /\ <<h>> \in Seq(STRING)
    BY <1>1, <1>3, HeadAndTail DEF h
  <2>4. (<<h>> \o Tail(outPipe)) \o rest = <<h>> \o (Tail(outPipe) \o rest)
    <3> DEFINE first == <<h>>
    <3>1. first \in Seq(STRING)
      BY <2>3
    <3> HIDE DEF first
    <3>2. (first \o Tail(outPipe)) \o rest = first \o (Tail(outPipe) \o rest)
      BY ONLY <1>3, <3>1, ConcatAssociative, SMTT(30)
    <3> QED
      BY <3>2 DEF first
  <2> QED
    BY <2>1, <2>2, <2>3, <2>4
<1> HIDE DEF rest, after, text, h
<1>5. PICK body \in Seq(STRING) :
          article = [Header EXCEPT !.body = body] /\ body = <<>>
          /\ Stripped(OnItsWay) = Stripped(text)
  BY <1>1 DEF Rendering, text
<1>6. Stripped(OnItsWay) = IF h \in Blanks \cup LongStarts THEN Stripped(after) ELSE OnItsWay
  <2>1. \A S : h \in S /\ after \in Seq(S) =>
            Stripped(<<h>> \o after) = IF h \in Blanks \cup LongStarts THEN Stripped(after)
                                       ELSE <<h>> \o after
    BY StrippedCons
  <2> QED
    BY <1>3, <1>4, <2>1
<1>7. /\ text # None /\ ~Skipped(FindElement("pubDate"))
      /\ inWriters = {} => description = <<>>
      /\ lynx = "done" => unwritten = <<>> /\ inPipe = <<>> /\ inWriters = {}
      /\ outWriters = {} => lynx \in {"done", "failed"}
  BY <1>1 DEF Rendering, text
<1>8. Skipped(FindElement("pubDate"))' = Skipped(FindElement("pubDate"))
  BY <1>2 DEF Skipped
<1>9. CASE h \in Blanks \cup LongStarts
  <2>1. UNCHANGED <<pc, article>> /\ Stripped(OnItsWay') = Stripped(text)
    BY <1>1, <1>4, <1>5, <1>6, <1>9 DEF h
  <2> QED
    BY <1>1, <1>2, <1>5, <1>7, <1>8, <2>1 DEF Rendering, text
<1>10. CASE h \notin Blanks \cup LongStarts
  <2>1. pc' = "copy" /\ article' = [article EXCEPT !.body = <<h>>]
    BY <1>1, <1>10 DEF h
  <2>2. <<h>> \in Seq(STRING)
    BY <1>1, <1>3, HeadAndTail DEF h
  <2>3. <<h>> \o OnItsWay' = Stripped(text)
    BY <1>4, <1>5, <1>6, <1>10
  <2>4. article' = [Header EXCEPT !.body = <<h>>]
    BY <1>5, <2>1 DEF Header
  <2>5. \E body_ \in Seq(STRING) : article' = [Header EXCEPT !.body = body_]
                                  /\ body_ \o OnItsWay' = Stripped(text)
    BY <2>2, <2>3, <2>4
  <2> QED
    BY <1>1, <1>2, <1>7, <1>8, <2>1, <2>5 DEF Rendering, text
<1> QED
  BY <1>9, <1>10

\* ReadRest: a piece more.
LEMMA RestRendering ==
    ASSUME Inv, Rendering, ReadRest
    PROVE  Rendering'
<1>1. /\ pc = "copy" /\ pc' = pc /\ outPipe # <<>> /\ outPipe' = Tail(outPipe)
      /\ elements' = elements
      /\ UNCHANGED <<description, inPipe, inWriters, outWriters, lynx, unwritten>>
      /\ article' = [article EXCEPT !.body = Append(@, Head(outPipe))]
  BY DEF ReadRest, RenderStep, parser
<1>2. /\ FindElement("pubDate")' = FindElement("pubDate")
      /\ FindElement("description")' = FindElement("description")
      /\ Header' = Header
  BY <1>1, SameElements
<1> DEFINE rest == unwritten \o (inPipe \o description)
           text == FindElement("description")
           h == Head(outPipe)
<1>3. outPipe \in Seq(STRING) /\ h \in STRING /\ rest \in Seq(STRING)
  BY <1>1, ConcatProperties, HeadTailProperties DEF Inv, Pipes
<1>4. OnItsWay = outPipe \o rest /\ OnItsWay' = Tail(outPipe) \o rest
  BY <1>1 DEF OnItsWay
<1> HIDE DEF rest, text
<1>5. PICK body \in Seq(STRING) :
          article = [Header EXCEPT !.body = body] /\ body \o OnItsWay = Stripped(text)
  BY <1>1 DEF Rendering, text
<1> DEFINE more == Append(body, h)
<1>6. more \in Seq(STRING)
  BY <1>3, AppendProperties
<1>7. more \o OnItsWay' = Stripped(text)
  <2> HIDE DEF more
  <2>1. more = Append(body, Head(outPipe))
    BY DEF more
  <2>2. more \o (outPipe' \o rest) = body \o (outPipe \o rest)
    <3>1. outPipe # <<>> /\ outPipe' = Tail(outPipe)
      BY <1>1
    <3>2. body \in Seq(STRING) /\ outPipe \in Seq(STRING) /\ rest \in Seq(STRING)
      BY <1>3
    <3> QED
      BY ONLY <2>1, <3>1, <3>2, PieceMovesBefore, SMTT(30)
  <2> QED
    BY <1>1, <1>4, <1>5, <2>2
<1>8. article' = [Header EXCEPT !.body = more]
  <2>1. article.body = body
    BY <1>5 DEF Header
  <2>2. article' = [article EXCEPT !.body = more]
    BY <1>1, <2>1
  <2> HIDE DEF more
  <2> QED
    BY <1>5, <2>2 DEF Header
<1> HIDE DEF more
<1>9. /\ text # None /\ ~Skipped(FindElement("pubDate"))
      /\ inWriters = {} => description = <<>>
      /\ lynx = "done" => unwritten = <<>> /\ inPipe = <<>> /\ inWriters = {}
      /\ outWriters = {} => lynx \in {"done", "failed"}
  BY <1>1 DEF Rendering, text
<1>10. Skipped(FindElement("pubDate"))' = Skipped(FindElement("pubDate"))
  BY <1>2 DEF Skipped
<1>11. \E body_ \in Seq(STRING) : article' = [Header EXCEPT !.body = body_]
                                 /\ body_ \o OnItsWay' = Stripped(text)
  BY <1>6, <1>7, <1>8
<1> QED
  BY <1>1, <1>2, <1>9, <1>10, <1>11 DEF Rendering, text

\* End of file: nothing is on its way any more, unless lynx has failed.
LEMMA EndRendering ==
    ASSUME Inv, Rendering, ReadEnd
    PROVE  Rendering'
<1>1. /\ pc \in {"lead", "copy"} /\ pc' = "reap" /\ outPipe = <<>> /\ outWriters = {}
      /\ UNCHANGED <<elements, article, description, inPipe, inWriters, outPipe, outWriters,
                     lynx, unwritten>>
  BY DEF ReadEnd, RenderStep, parser, render
<1>2. /\ FindElement("pubDate")' = FindElement("pubDate")
      /\ FindElement("description")' = FindElement("description")
      /\ Header' = Header
  BY <1>1, SameElements
<1>3. /\ FindElement("description") # None /\ ~Skipped(FindElement("pubDate"))
      /\ inWriters = {} => description = <<>>
      /\ lynx = "done" => unwritten = <<>> /\ inPipe = <<>> /\ inWriters = {}
      /\ lynx \in {"done", "failed"}
  BY <1>1 DEF Rendering
<1> DEFINE text == FindElement("description")
<1> HIDE DEF text
<1>4. PICK body \in Seq(STRING) :
          /\ article = [Header EXCEPT !.body = body]
          /\ pc = "lead" => body = <<>> /\ Stripped(OnItsWay) = Stripped(text)
          /\ pc = "copy" => body \o OnItsWay = Stripped(text)
  BY <1>1 DEF Rendering, text
<1>5. lynx = "failed" \/ body = Stripped(text)
  <2> SUFFICES ASSUME lynx = "done" PROVE body = Stripped(text)
    BY <1>3
  <2>1. outPipe = <<>> /\ unwritten = <<>> /\ inPipe = <<>> /\ description = <<>>
    BY <1>1, <1>3
  <2>2. \A s \in Seq(STRING) : s \o <<>> = s
    BY ConcatEmptySeq
  <2>3. <<>> \in Seq(STRING)
    BY EmptySeq
  <2>4. OnItsWay = <<>>
    BY <2>1, <2>2, <2>3 DEF OnItsWay
  <2>5. Stripped(<<>>) = <<>>
    BY <2>3, StrippedTyped
  <2> QED
    BY <1>1, <1>4, <2>2, <2>4, <2>5
<1>6. Skipped(FindElement("pubDate"))' = Skipped(FindElement("pubDate"))
  BY <1>2 DEF Skipped
<1>7. \E body_ \in Seq(STRING) : article' = [Header EXCEPT !.body = body_]
                                /\ (lynx' = "failed" \/ body_ = Stripped(text))
  BY <1>1, <1>4, <1>5
<1> QED
  BY <1>1, <1>2, <1>3, <1>6, <1>7 DEF Rendering, text

\* Every step, as far as the rendering goes.
LEMMA NextRendering ==
    ASSUME Inv, Rendering, [Next]_vars
    PROVE  Rendering'
<1>1. CASE UNCHANGED vars
  BY <1>1, SameRendering DEF vars, render
<1>2. CASE Next
  <2>1. CASE StartLynx
    BY <2>1, StartRendering
  <2>2. CASE ReadLead \/ ReadRest \/ ReadEnd
    BY <2>2, LeadRendering, RestRendering, EndRendering
  <2>3. CASE WriteDescription \/ CloseDescription \/ Lynx \/ LynxFails
    BY <2>3, FlowRendering
  <2>4. CASE \/ StartUrl \/ StartParse \/ GiveUpUrl \/ Parse \/ EndParse \/ JoinCurl
             \/ SkipItem \/ Post \/ CallJoin \/ Exit
    <3>1. pc' \notin {"lead", "copy", "reap"}
      BY <2>4 DEF StartUrl, StartParse, GiveUpUrl, Parse, StartElement, EndElement,
                  CharacterData, EndParse, JoinCurl, SkipItem, Post, CallJoin, Exit
    <3> QED
      BY <3>1 DEF Rendering
  <2>5. CASE \/ Curl \/ PosterHandles \/ ParseError \/ NoElement \/ ItemIncomplete
             \/ LynxFailed \/ BrokenPipe \/ FetchFails \/ PosterFails
    <3>1. UNCHANGED <<pc, elements, article, render>>
      BY <2>5 DEF Curl, StatusLine, ContentType, NextResponse, LastResponse, WriteData,
                  FetchEnds, FetchStep, PosterHandles, ParseError, NoElement, ItemIncomplete,
                  LynxFailed, BrokenPipe, FetchFails, PosterFails, Die, main, parser
    <3> QED
      BY <3>1, SameRendering
  <2> QED
    BY <1>2, <2>1, <2>2, <2>3, <2>4, <2>5 DEF Next, Main, Writer
<1> QED
  BY <1>1, <1>2

\* A step that neither feeds the parser nor ends an item.
LEMMA SameReading ==
    ASSUME Reading, Complete, docs' = docs,
           UNCHANGED <<url, stack, item, subitem, elements, taken>>,
           pc' = "parse" => pc = "parse", pc' \in ItemDone => pc \in ItemDone
    PROVE  Reading' /\ Complete'
<1>1. Doc' = Doc
  BY DEF Doc
<1>2. Reading'
  BY <1>1 DEF Reading
<1>3. Complete'
  BY <1>1 DEF Complete
<1> QED
  BY <1>2, <1>3

\* Every step, as far as the items go.
LEMMA NextReading ==
    ASSUME Inv, Feeding, Rss, Reading, Complete, [Next]_vars
    PROVE  Reading' /\ Complete'
<1>1. CASE UNCHANGED vars
  BY <1>1, SameReading DEF vars
<1>2. CASE Next
  <2>0. docs' = docs
    BY <1>2 DEF Next
  <2>1. CASE Parse
    BY <2>0, <2>1, ParseReading
  <2>2. CASE StartParse
    <3>1. Inv'
      BY <2>0, <2>2, UrlsKeep
    <3>2. pc' = "parse" /\ stack' = <<>> /\ item' = 0
      BY <2>2 DEF StartParse
    <3>3. subitem' = 0
      BY <3>1, <3>2, NothingOpen DEF Inv, Parser
    <3> QED
      BY <3>2, <3>3 DEF Reading, Complete, ItemDone
  <2>3. CASE SkipItem \/ Post
    <3>1. /\ pc \in ItemDone /\ pc' = "parse"
          /\ UNCHANGED <<stack, item, subitem>>
      BY <2>3 DEF SkipItem, Post, parser, ItemDone
    <3>2. item = 0
      BY <3>1 DEF Complete
    <3>3. subitem = 0
      <4>1. Items(stack) = {}
        <5>1. stack \in Seq(STRING) /\ Cardinality(Items(stack)) = 0
          BY <3>2 DEF Inv, Parser
        <5>2. ~(Cardinality(Items(stack)) > 0)
          BY <5>1
        <5> QED
          BY <5>1, <5>2, Countable
      <4>2. Subitems(stack) = {}
        BY <4>1 DEF Subitems
      <4> QED
        BY <4>2, FS_EmptySet DEF Inv, Parser
    <3> QED
      BY <3>1, <3>2, <3>3 DEF Reading, Complete, ItemDone
  <2>4. CASE \/ StartUrl \/ GiveUpUrl \/ EndParse \/ JoinCurl \/ CallJoin \/ Exit
    <3>1. pc' \notin ItemDone \cup {"parse"}
      BY <2>4 DEF StartUrl, GiveUpUrl, EndParse, JoinCurl, CallJoin, Exit, ItemDone
    <3> QED
      BY <3>1 DEF Reading, Complete
  <2>5. CASE StartLynx \/ ReadLead \/ ReadRest \/ ReadEnd
    <3>1. /\ UNCHANGED <<url, stack, item, subitem, elements, taken>>
          /\ pc \in ItemDone /\ pc' \in ItemDone
      BY <2>5 DEF StartLynx, ReadLead, ReadRest, ReadEnd, RenderStep, parser, history, ItemDone
    <3> QED
      BY <2>0, <3>1, SameReading DEF ItemDone
  <2>6. CASE \/ WriteDescription \/ CloseDescription \/ Lynx \/ LynxFails \/ PosterHandles
             \/ ParseError \/ NoElement \/ ItemIncomplete \/ LynxFailed
             \/ BrokenPipe \/ FetchFails \/ PosterFails
    <3>1. UNCHANGED <<pc, url, stack, item, subitem, elements, taken>>
      BY <2>6 DEF WriteDescription, CloseDescription, Lynx, LynxReads, LynxWrites, LynxEnds,
                  LynxFails, PosterHandles, ParseError, NoElement, ItemIncomplete, LynxFailed,
                  BrokenPipe, FetchFails, PosterFails, Die, RenderStep, main, parser, history
    <3> QED
      BY <2>0, <3>1, SameReading
  <2>7. CASE Curl
    <3>1. UNCHANGED <<pc, url, stack, item, subitem, elements, taken>>
      BY <2>7 DEF Curl, StatusLine, ContentType, NextResponse, LastResponse, WriteData,
                  FetchEnds, FetchStep, main, parser
    <3> QED
      BY <2>0, <3>1, SameReading
  <2> QED
    BY <1>2, <2>1, <2>2, <2>3, <2>4, <2>5, <2>6, <2>7 DEF Next, Main, Writer
<1> QED
  BY <1>1, <1>2

-------------------------------------------------------------------------------
(* What has been queued.                                                   *)

\* The articles up to a token: what the next one adds comes behind.
LEMMA ArticlesNext ==
    ASSUME NEW doc, NEW V, \A to \in Nat : ArticleAt(doc, to) \in Seq(V)
    PROVE  /\ ArticlesTo(doc, 0) = <<>>
           /\ \A n \in Nat : /\ ArticlesTo(doc, n) \in Seq(V)
                             /\ ArticlesTo(doc, n + 1) = ArticlesTo(doc, n) \o ArticleAt(doc, n + 1)
<1>1. ArticlesTo(doc, 0) = <<>>
  <2> DEFINE s == [to \in 1..0 |-> ArticleAt(doc, to)]
  <2>1. Len(s) = 0 /\ s = <<>>
    OBVIOUS
  <2> QED
    BY <2>1 DEF ArticlesTo, FlattenSeq
<1>2. ASSUME NEW n \in Nat
      PROVE  /\ ArticlesTo(doc, n) \in Seq(V)
             /\ ArticlesTo(doc, n + 1) = ArticlesTo(doc, n) \o ArticleAt(doc, n + 1)
  <2> DEFINE s == [to \in 1..n + 1 |-> ArticleAt(doc, to)]
             r == [to \in 1..n |-> ArticleAt(doc, to)]
             r_ == [to \in 1..n |-> s[to]]
             W == Seq(V)
  <2>0. \A to \in Nat : ArticleAt(doc, to) \in W
    OBVIOUS
  <2> HIDE DEF W
  <2>1. s \in [1..n + 1 -> W]
    BY <2>0
  <2>2. \A to \in 1..n : to \in 1..n + 1
    OBVIOUS
  <2>3. r_ = r /\ s[n + 1] = ArticleAt(doc, n + 1)
    BY <2>2
  <2> HIDE DEF s, r
  <2>4. FlattenSeq(s) = FlattenSeq(r_) \o s[n + 1] /\ FlattenSeq(r_) \in Seq(V)
    BY <2>1, FlattenAppend DEF W
  <2>5. FlattenSeq(s) = FlattenSeq(r) \o ArticleAt(doc, n + 1) /\ FlattenSeq(r) \in Seq(V)
    BY <2>3, <2>4
  <2> QED
    BY <2>5 DEF ArticlesTo, s, r
<1> QED
  BY <1>1, <1>2

\* An item has one beginning.
LEMMA OneItem ==
    ASSUME NEW doc, NEW to \in Nat, NEW p \in Nat, NEW q \in Nat,
           IsItem(doc, p, to), IsItem(doc, q, to)
    PROVE  p = q
<1>1. ~(p < q)
  <2> SUFFICES ASSUME p < q PROVE FALSE
    OBVIOUS
  <2>1. q \in p + 1..to - 1
    BY DEF IsItem
  <2> QED
    BY <2>1 DEF IsItem
<1>2. ~(q < p)
  <2> SUFFICES ASSUME q < p PROVE FALSE
    OBVIOUS
  <2>1. p \in q + 1..to - 1
    BY DEF IsItem
  <2> QED
    BY <2>1 DEF IsItem
<1> QED
  BY <1>1, <1>2

\* What a token adds: nothing, unless it is the end of an item, and then its
\* article if it is wanted.
LEMMA ArticleAtToken ==
    ASSUME NEW doc \in Seq(Tokens), NEW to \in Nat
    PROVE  /\ ~(doc[to].kind = "close" /\ doc[to].name = "item") => ArticleAt(doc, to) = <<>>
           /\ \A p \in 1..to : IsItem(doc, p, to) /\ to <= Len(doc) =>
                 ArticleAt(doc, to) = IF Wanted(doc, p, to) THEN <<ArticleIn(doc, p, to)>>
                                      ELSE <<>>
<1> DEFINE starts == {from \in DOMAIN doc : IsItem(doc, from, to) /\ Wanted(doc, from, to)}
<1>1. ArticleAt(doc, to) = IF starts = {} THEN <<>>
                           ELSE <<ArticleIn(doc, CHOOSE from \in starts : TRUE, to)>>
  BY DEF ArticleAt
<1>2. ASSUME ~(doc[to].kind = "close" /\ doc[to].name = "item") PROVE ArticleAt(doc, to) = <<>>
  <2>1. starts = {}
    BY <1>2 DEF IsItem
  <2> QED
    BY <1>1, <2>1
<1>3. ASSUME NEW p \in 1..to, IsItem(doc, p, to), to <= Len(doc)
      PROVE  ArticleAt(doc, to) = IF Wanted(doc, p, to) THEN <<ArticleIn(doc, p, to)>> ELSE <<>>
  <2>1. DOMAIN doc = 1..Len(doc) /\ Len(doc) \in Nat
    BY LenProperties
  <2>2. p \in DOMAIN doc /\ p \in Nat
    BY <1>3, <2>1
  <2>3. \A q \in DOMAIN doc : IsItem(doc, q, to) => q = p
    <3> SUFFICES ASSUME NEW q \in DOMAIN doc, IsItem(doc, q, to) PROVE q = p
      OBVIOUS
    <3>1. q \in Nat
      BY <2>1
    <3> QED
      BY <1>3, <2>2, <3>1, OneItem
  <2>4. starts = IF Wanted(doc, p, to) THEN {p} ELSE {}
    BY <1>3, <2>2, <2>3
  <2> HIDE DEF starts
  <2>5. CASE Wanted(doc, p, to)
    <3>1. starts = {p}
      BY <2>4, <2>5
    <3>2. (CHOOSE from \in starts : TRUE) = p
      BY <3>1
    <3> QED
      BY <1>1, <2>5, <3>1, <3>2
  <2>6. CASE ~Wanted(doc, p, to)
    BY <1>1, <2>4, <2>6
  <2> QED
    BY <2>5, <2>6
<1> QED
  BY <1>2, <1>3

\* Whatever it is, it is of the articles of the documents.
LEMMA ArticleAtTyped ==
    ASSUME Inv, NEW u \in Urls, NEW to \in Nat
    PROVE  ArticleAt(docs[u], to) \in Seq(Articles)
<1> DEFINE doc == docs[u]
           starts == {from \in DOMAIN doc : IsItem(doc, from, to) /\ Wanted(doc, from, to)}
<1>1. doc \in Seq(Tokens) /\ DOMAIN doc = 1..Len(doc) /\ Len(doc) \in Nat
  <2>1. docs \in Seq(Seq(Tokens)) /\ Urls = 1..Len(docs)
    BY Documents
  <2>2. doc \in Seq(Tokens)
    BY <2>1, ElementOfSeq
  <2> QED
    BY <2>2, LenProperties
<1>2. ArticleAt(doc, to) = IF starts = {} THEN <<>>
                           ELSE <<ArticleIn(doc, CHOOSE from \in starts : TRUE, to)>>
  BY DEF ArticleAt
<1>3. starts \subseteq Nat
  BY <1>1
<1> HIDE DEF starts
<1>4. \A p \in Nat : ArticleIn(doc, p, to) \in Articles
  BY DEF Articles
<1> HIDE DEF doc
<1>5. \A a \in Articles : <<a>> \in Seq(Articles)
  OBVIOUS
<1>6. CASE starts = {}
  BY <1>2, <1>6, EmptySeq DEF doc
<1>7. CASE starts # {}
  <2>1. (CHOOSE from \in starts : TRUE) \in Nat
    BY <1>3, <1>7
  <2> DEFINE p == CHOOSE from \in starts : TRUE
  <2>2. p \in Nat /\ ArticleAt(doc, to) = <<ArticleIn(doc, p, to)>>
    BY <1>2, <1>7, <2>1
  <2> HIDE DEF p
  <2> QED
    BY <1>4, <1>5, <2>2 DEF doc
<1> QED
  BY <1>6, <1>7

\* The articles of a document are those up to any of its tokens, and others.
LEMMA ArticlesSplit ==
    ASSUME NEW doc \in Seq(Tokens), NEW V, \A to \in Nat : ArticleAt(doc, to) \in Seq(V),
           NEW n \in 0..Len(doc)
    PROVE  /\ ArticlesOf(doc) = ArticlesTo(doc, Len(doc))
           /\ \E r \in Seq(V) : ArticlesOf(doc) = ArticlesTo(doc, n) \o r
<1>1. Len(doc) \in Nat /\ DOMAIN doc = 1..Len(doc)
  BY LenProperties
<1>2. ArticlesOf(doc) = ArticlesTo(doc, Len(doc))
  BY <1>1 DEF ArticlesOf, ArticlesTo
<1>3. \A m \in Nat : n <= m => \E r \in Seq(V) : ArticlesTo(doc, m) = ArticlesTo(doc, n) \o r
  <2> DEFINE Bad == {m \in Nat :
                   n <= m /\ ~\E r \in Seq(V) : ArticlesTo(doc, m) = ArticlesTo(doc, n) \o r}
  <2> SUFFICES ASSUME Bad # {} PROVE FALSE
    OBVIOUS
  <2>1. Bad \in SUBSET Nat
    OBVIOUS
  <2> HIDE DEF Bad
  <2>2. PICK m \in Bad : \A k \in Bad : m <= k
    BY <2>1, LeastOf
  <2>3. /\ m \in Nat /\ n <= m
        /\ \A r \in Seq(V) : ArticlesTo(doc, m) # ArticlesTo(doc, n) \o r
        /\ \A k \in Nat : k < m /\ n <= k =>
              \E r \in Seq(V) : ArticlesTo(doc, k) = ArticlesTo(doc, n) \o r
    <3>1. m \in Nat /\ n <= m /\ \A r \in Seq(V) : ArticlesTo(doc, m) # ArticlesTo(doc, n) \o r
      BY <2>2 DEF Bad
    <3>2. ASSUME NEW k \in Nat, k < m, n <= k
          PROVE  \E r \in Seq(V) : ArticlesTo(doc, k) = ArticlesTo(doc, n) \o r
      <4>1. k \notin Bad
        BY <2>2, <3>1, <3>2
      <4> QED
        BY <3>2, <4>1 DEF Bad
    <3> QED
      BY <3>1, <3>2
  <2>4. \A k \in Nat : /\ ArticlesTo(doc, k) \in Seq(V)
                       /\ ArticlesTo(doc, k + 1) = ArticlesTo(doc, k) \o ArticleAt(doc, k + 1)
    BY ArticlesNext
  <2>5. n \in Nat
    BY <1>1
  <2>6. CASE m = n
    <3>1. ArticlesTo(doc, n) \o <<>> = ArticlesTo(doc, n) /\ <<>> \in Seq(V)
      BY <2>4, <2>5, ConcatEmptySeq, EmptySeq
    <3> QED
      BY <2>3, <2>6, <3>1
  <2>7. CASE m # n
    <3> DEFINE k == m - 1
    <3>1. k \in Nat /\ k < m /\ n <= k /\ k + 1 = m
      BY <2>3, <2>5, <2>7
    <3> HIDE DEF k
    <3>2. PICK r \in Seq(V) : ArticlesTo(doc, k) = ArticlesTo(doc, n) \o r
      BY <2>3, <3>1
    <3> DEFINE a == ArticleAt(doc, m)
               b == ArticlesTo(doc, n)
    <3>3. a \in Seq(V) /\ b \in Seq(V)
      BY <2>3, <2>4, <2>5
    <3>4. ArticlesTo(doc, m) = (b \o r) \o a
      BY <2>4, <3>1, <3>2
    <3>5. \A r_ \in Seq(V) : ArticlesTo(doc, m) # b \o r_
      BY <2>3
    <3> HIDE DEF a, b
    <3>6. (b \o r) \o a = b \o (r \o a)
      <4>1. r \in Seq(V) /\ b \in Seq(V) /\ a \in Seq(V)
        BY <3>3
      <4> QED
        BY ONLY <4>1, ConcatAssociative, SMTT(30)
    <3>7. r \o a \in Seq(V)
      BY <3>3, ConcatProperties
    <3> QED
      BY <3>4, <3>5, <3>6, <3>7
  <2> QED
    BY <2>6, <2>7
<1>4. \E r \in Seq(V) : ArticlesTo(doc, Len(doc)) = ArticlesTo(doc, n) \o r
  <2>1. n <= Len(doc)
    BY <1>1
  <2> QED
    BY <1>1, <1>3, <2>1
<1> QED
  BY <1>2, <1>4

\* What is known of the documents' articles in any state.
LEMMA ArticlesTyped ==
    ASSUME Inv
    PROVE  /\ \A u \in Urls : docs[u] \in Seq(Tokens) /\ Share(u) \in Seq(Articles)
           /\ \A u \in Urls, n \in Nat :
                 /\ ArticlesTo(docs[u], n) \in Seq(Articles)
                 /\ ArticlesTo(docs[u], 0) = <<>>
                 /\ ArticlesTo(docs[u], n + 1)
                       = ArticlesTo(docs[u], n) \o ArticleAt(docs[u], n + 1)
           /\ ArticlesUpTo(0) = <<>>
           /\ \A n \in Nat : n < Len(docs) =>
                 /\ ArticlesUpTo(n) \in Seq(Articles) /\ ArticlesUpTo(n + 1) \in Seq(Articles)
                 /\ ArticlesUpTo(n + 1) = ArticlesUpTo(n) \o Share(n + 1)
<1>1. docs \in Seq(Seq(Tokens)) /\ Urls = 1..Len(docs) /\ Len(docs) \in Nat
  BY Documents
<1>2. ASSUME NEW u \in Urls
      PROVE  /\ docs[u] \in Seq(Tokens)
             /\ \A to \in Nat : ArticleAt(docs[u], to) \in Seq(Articles)
  <2>1. docs[u] \in Seq(Tokens)
    BY <1>1, ElementOfSeq
  <2> QED
    BY <2>1, ArticleAtTyped
<1>3. ASSUME NEW u \in Urls, NEW n \in Nat
      PROVE  /\ ArticlesTo(docs[u], n) \in Seq(Articles)
             /\ ArticlesTo(docs[u], 0) = <<>>
             /\ ArticlesTo(docs[u], n + 1)
                   = ArticlesTo(docs[u], n) \o ArticleAt(docs[u], n + 1)
  <2> DEFINE doc == docs[u]
             V == Articles
  <2>1. \A to \in Nat : ArticleAt(doc, to) \in Seq(V)
    BY <1>2
  <2> HIDE DEF doc, V
  <2>2. /\ ArticlesTo(doc, 0) = <<>>
        /\ \A k \in Nat : /\ ArticlesTo(doc, k) \in Seq(V)
                          /\ ArticlesTo(doc, k + 1) = ArticlesTo(doc, k) \o ArticleAt(doc, k + 1)
    BY <2>1, ArticlesNext
  <2> QED
    BY <2>2 DEF doc, V
<1>4. ASSUME NEW u \in Urls PROVE Share(u) \in Seq(Articles)
  <2>1. Len(docs[u]) \in Nat
    BY <1>2, LenProperties
  <2>2. ArticlesOf(docs[u]) = ArticlesTo(docs[u], Len(docs[u]))
    <3>1. DOMAIN docs[u] = 1..Len(docs[u])
      BY <1>2, LenProperties
    <3> QED
      BY <3>1 DEF ArticlesOf, ArticlesTo
  <2>3. ArticlesTo(docs[u], Len(docs[u])) \in Seq(Articles)
    BY <1>3, <2>1
  <2> QED
    BY <2>2, <2>3, EmptySeq DEF Share
<1>5. ArticlesUpTo(0) = <<>>
  <2> DEFINE s == [u \in 1..0 |-> Share(u)]
  <2>1. Len(s) = 0 /\ s = <<>>
    OBVIOUS
  <2>2. ArticlesUpTo(0) = FlattenSeq(s)
    BY DEF ArticlesUpTo, Share
  <2> HIDE DEF s
  <2> QED
    BY <2>1, <2>2 DEF FlattenSeq
<1>6. ASSUME NEW n \in Nat, n < Len(docs)
      PROVE  /\ ArticlesUpTo(n) \in Seq(Articles) /\ ArticlesUpTo(n + 1) \in Seq(Articles)
             /\ ArticlesUpTo(n + 1) = ArticlesUpTo(n) \o Share(n + 1)
  <2> DEFINE s == [u \in 1..n + 1 |-> Share(u)]
             r == [u \in 1..n |-> Share(u)]
             r_ == [u \in 1..n |-> s[u]]
             V == Articles
             W == Seq(V)
  <2>0. \A u \in 1..n + 1 : Share(u) \in W
    BY <1>1, <1>4, <1>6
  <2>f. ArticlesUpTo(n + 1) = FlattenSeq(s) /\ ArticlesUpTo(n) = FlattenSeq(r)
    BY DEF ArticlesUpTo, Share
  <2> HIDE DEF W
  <2>1. s \in [1..n + 1 -> W]
    BY <2>0
  <2>2. n + 1 \in 1..n + 1 /\ \A u \in 1..n : u \in 1..n + 1
    OBVIOUS
  <2>3. r_ = r /\ s[n + 1] = Share(n + 1) /\ Share(n + 1) \in W
    BY <2>0, <2>2
  <2> HIDE DEF s, r, V
  <2>4. FlattenSeq(s) = FlattenSeq(r_) \o s[n + 1] /\ FlattenSeq(r_) \in Seq(V)
    BY <2>1, FlattenAppend DEF W
  <2>5. FlattenSeq(r_) \o s[n + 1] \in Seq(V)
    BY <2>3, <2>4, ConcatProperties DEF W
  <2> QED
    BY <2>f, <2>3, <2>4, <2>5 DEF V
<1> QED
  BY <1>2, <1>3, <1>4, <1>5, <1>6

\* The same at the current URL.
LEMMA ArticlesHere ==
    ASSUME Inv, url \in Urls
    PROVE  /\ Doc \in Seq(Tokens) /\ Len(Doc) \in Nat
           /\ Share(url) \in Seq(Articles) /\ SoFar \in Seq(Articles)
           /\ Earlier \in Seq(Articles) /\ UpToHere \in Seq(Articles)
           /\ UpToHere = Earlier \o Share(url)
           /\ taken = 0 => SoFar = <<>>
           /\ taken > 0 => BeforeLast \in Seq(Articles)
                           /\ SoFar = BeforeLast \o ArticleAt(Doc, taken)
           /\ ArticlesTo(Doc, taken + 1) = SoFar \o ArticleAt(Doc, taken + 1)
           /\ ArticleAt(Doc, taken) \in Seq(Articles)
<1>1. Urls = 1..Len(docs) /\ Len(docs) \in Nat /\ taken \in Nat
  BY Documents DEF Inv, Threads
<1>2. /\ Doc \in Seq(Tokens) /\ Share(url) \in Seq(Articles)
      /\ \A n \in Nat : /\ ArticlesTo(Doc, n) \in Seq(Articles)
                        /\ ArticlesTo(Doc, 0) = <<>>
                        /\ ArticlesTo(Doc, n + 1) = ArticlesTo(Doc, n) \o ArticleAt(Doc, n + 1)
  BY ArticlesTyped DEF Doc
<1>3. Earlier \in Seq(Articles) /\ UpToHere \in Seq(Articles) /\ UpToHere = Earlier \o Share(url)
  <2>1. url - 1 \in Nat /\ url - 1 < Len(docs) /\ (url - 1) + 1 = url
    BY <1>1
  <2>2. /\ ArticlesUpTo(url - 1) \in Seq(Articles) /\ ArticlesUpTo((url - 1) + 1) \in Seq(Articles)
        /\ ArticlesUpTo((url - 1) + 1) = ArticlesUpTo(url - 1) \o Share((url - 1) + 1)
    BY <2>1, ArticlesTyped
  <2> QED
    BY <2>1, <2>2 DEF Earlier, UpToHere
<1>4. taken > 0 => BeforeLast \in Seq(Articles) /\ SoFar = BeforeLast \o ArticleAt(Doc, taken)
  <2> SUFFICES ASSUME taken > 0
               PROVE  BeforeLast \in Seq(Articles) /\ SoFar = BeforeLast \o ArticleAt(Doc, taken)
    OBVIOUS
  <2>1. taken - 1 \in Nat /\ (taken - 1) + 1 = taken
    BY <1>1
  <2>2. /\ ArticlesTo(Doc, taken - 1) \in Seq(Articles)
        /\ ArticlesTo(Doc, (taken - 1) + 1)
              = ArticlesTo(Doc, taken - 1) \o ArticleAt(Doc, (taken - 1) + 1)
    BY <1>2, <2>1
  <2> QED
    BY <2>1, <2>2 DEF SoFar, BeforeLast
<1>5. SoFar \in Seq(Articles) /\ (taken = 0 => SoFar = <<>>)
  BY <1>1, <1>2 DEF SoFar
<1>6. ArticlesTo(Doc, taken + 1) = SoFar \o ArticleAt(Doc, taken + 1)
  BY <1>1, <1>2 DEF SoFar
<1>7. Len(Doc) \in Nat
  BY <1>2, LenProperties
<1>8. ArticleAt(Doc, taken) \in Seq(Articles)
  BY <1>1, ArticleAtTyped DEF Doc
<1> QED
  BY <1>2, <1>3, <1>4, <1>5, <1>6, <1>7, <1>8

\* A step after which no other articles are due.
LEMMA SameArticles ==
    ASSUME docs' = docs, url' = url
    PROVE  /\ Articles' = Articles /\ Doc' = Doc /\ Urls' = Urls
           /\ (\A u \in 1..url - 1 : answers'[u] = answers[u] /\ (u \in proxied' <=> u \in proxied))
                 => Earlier' = Earlier
           /\ UNCHANGED <<answers, proxied>> => UpToHere' = UpToHere
           /\ taken' = taken => SoFar' = SoFar /\ BeforeLast' = BeforeLast
<1>1. Articles' = Articles /\ Doc' = Doc /\ Urls' = Urls
  BY DEF Articles, Doc, Urls
<1>2. ASSUME \A u \in 1..url - 1 : answers'[u] = answers[u] /\ (u \in proxied' <=> u \in proxied)
      PROVE  Earlier' = Earlier
  <2>1. [u \in 1..url - 1 |-> IF answers[u].class = "2xx" /\ (Good(u) \/ u \in proxied)
                              THEN ArticlesOf(docs[u]) ELSE <<>>]'
          = [u \in 1..url - 1 |-> IF answers[u].class = "2xx" /\ (Good(u) \/ u \in proxied)
                              THEN ArticlesOf(docs[u]) ELSE <<>>]
    BY <1>2 DEF Good
  <2> QED
    BY <2>1 DEF Earlier, ArticlesUpTo
<1>3. ASSUME UNCHANGED <<answers, proxied>> PROVE UpToHere' = UpToHere
  BY <1>3 DEF UpToHere, ArticlesUpTo, Good
<1>4. ASSUME taken' = taken PROVE SoFar' = SoFar /\ BeforeLast' = BeforeLast
  BY <1>1, <1>4 DEF SoFar, BeforeLast
<1> QED
  BY <1>1, <1>2, <1>3, <1>4

\* A step that posts nothing and is done with nothing.
LEMMA SamePosting ==
    ASSUME Posting, docs' = docs, UNCHANGED <<url, http, answers, proxied, taken, done, queue>>,
           \/ pc' = pc
           \/ pc \in ItemDone /\ pc' \in ItemDone
           \/ pc \in {"next", "posting"} /\ pc' \in {"posting", "exit"}
              /\ (pc' = "exit" => queue = <<>>)
    PROVE  Posting'
<1>1. /\ Articles' = Articles /\ UNCHANGED <<Earlier, UpToHere, SoFar, BeforeLast>>
      /\ Posted' = Posted
  BY SameArticles DEF Posted
<1> QED
  BY <1>1 DEF Posting, ItemDone

\* The poster: what it deals with is at one end of the queue.
LEMMA PosterPosting ==
    ASSUME Posting, docs' = docs, PosterHandles
    PROVE  Posting'
<1>1. /\ UNCHANGED <<pc, url, http, answers, proxied, taken>>
      /\ queue # <<>> /\ queue' = Tail(queue) /\ done' = Append(done, Head(queue))
  BY DEF PosterHandles, Queue!Handle, main, fetch, history
<1>2. /\ Articles' = Articles /\ UNCHANGED <<Earlier, UpToHere, SoFar, BeforeLast>>
  BY <1>1, SameArticles
<1>3. done \in Seq(Articles) /\ queue \in Seq(Articles)
  BY DEF Posting
<1>4. Head(queue) \in Articles /\ queue' \in Seq(Articles)
  BY <1>1, <1>3, HeadTailProperties
<1>5. done' \in Seq(Articles)
  BY <1>1, <1>3, <1>4, AppendProperties
<1>6. Posted' = Posted
  <2>1. Append(done, Head(queue)) \o Tail(queue) = done \o queue
    BY <1>1, <1>3, PieceMoves
  <2> QED
    BY <1>1, <2>1 DEF Posted
<1> QED
  BY <1>1, <1>2, <1>4, <1>5, <1>6 DEF Posting

\* The curl thread: only what is known of the current URL may change, and main
\* is not done with that, or has given it up.
LEMMA CurlPosting ==
    ASSUME Inv, Outcome, Posting, docs' = docs, Curl
    PROVE  Posting'
<1>1. /\ UNCHANGED <<pc, url, taken, done, queue>> /\ curl # "ended"
      /\ http \in {"ERROR", "OK"} => http' = http
      /\ \A u \in 1..url - 1 : answers'[u] = answers[u] /\ (u \in proxied' <=> u \in proxied)
  <2>1. FetchStep /\ curl # "ended"
    BY DEF Curl, StatusLine, ContentType, NextResponse, LastResponse, WriteData, FetchEnds
  <2>2. UNCHANGED <<pc, url, taken, done, queue>>
    BY <2>1 DEF FetchStep, main, posting
  <2>3. http \in {"ERROR", "OK"} => http' = http
    BY DEF Curl, StatusLine, ContentType, NextResponse, LastResponse, WriteData, FetchEnds,
           SetHttpState, BlankLine
  <2>4. url \in Nat
    BY Documents
  <2>5. answers' = answers \/ \E a : answers' = [answers EXCEPT ![url] = a]
    BY DEF Curl, StatusLine, ContentType, NextResponse, LastResponse, WriteData, FetchEnds
  <2>6. proxied' \in {proxied, proxied \cup {url}}
    BY DEF Curl, StatusLine, ContentType, NextResponse, LastResponse, WriteData, FetchEnds
  <2>7. \A u \in 1..url - 1 : u # url
    BY <2>4
  <2>8. ASSUME NEW u \in 1..url - 1
        PROVE  answers'[u] = answers[u] /\ (u \in proxied' <=> u \in proxied)
    <3>1. u # url /\ (u \in proxied' <=> u \in proxied)
      BY <2>6, <2>7
    <3>2. u \in Urls /\ answers \in [Urls -> Responses]
      <4>1. Urls = 1..Len(docs) /\ Len(docs) \in Nat /\ url <= Len(docs)
        BY Documents DEF Inv, TypeOK
      <4> QED
        BY <2>4, <4>1 DEF Inv, Threads
    <3>3. answers'[u] = answers[u]
      BY <2>5, <3>1, <3>2
    <3> QED
      BY <3>1, <3>3
  <2> QED
    BY <2>1, <2>2, <2>3, <2>8
<1>2. pc \notin {"next", "posting", "exit"} /\ (pc = "join" => http = "ERROR")
  BY <1>1 DEF Inv, Threads, Outcome
<1>3. Articles' = Articles /\ UNCHANGED <<Earlier, SoFar, BeforeLast>>
  BY <1>1, SameArticles
<1>4. Posted' = Posted
  BY <1>1 DEF Posted
<1> QED
  BY <1>1, <1>2, <1>3, <1>4 DEF Posting

\* A URL is taken up.
LEMMA StartUrlPosting ==
    ASSUME Inv, Posting, docs' = docs, StartUrl
    PROVE  Posting'
<1>1. /\ pc = "next" /\ pc' = "await" /\ url' = url + 1
      /\ UNCHANGED <<answers, proxied, done, queue>>
  BY DEF StartUrl, posting
<1>2. Articles' = Articles
  BY DEF Articles, Urls
<1>3. Earlier' = UpToHere
  <2>1. url' - 1 = url
    BY <1>1, Documents
  <2> QED
    BY <1>1, <2>1 DEF Earlier, UpToHere, ArticlesUpTo, Good
<1>4. Posted' = Posted
  BY <1>1 DEF Posted
<1> QED
  BY <1>1, <1>2, <1>3, <1>4 DEF Posting, ItemDone

\* Its document is begun.
LEMMA StartParsePosting ==
    ASSUME Inv, Feeding, Posting, docs' = docs, StartParse
    PROVE  Posting'
<1>1. /\ pc = "await" /\ pc' = "parse"
      /\ UNCHANGED <<url, http, answers, proxied, taken, done, queue>>
  BY DEF StartParse, fetch, posting, history
<1>2. Articles' = Articles /\ UNCHANGED <<Earlier, SoFar>>
  BY <1>1, SameArticles
<1>3. url \in Urls /\ taken = 0
  BY <1>1 DEF Inv, Threads, Feeding
<1>4. SoFar = <<>> /\ Earlier \in Seq(Articles)
  BY <1>3, ArticlesHere
<1>5. Earlier \o SoFar = Earlier
  BY <1>4, ConcatEmptySeq
<1>6. Posted' = Posted
  BY <1>1 DEF Posted
<1> QED
  BY <1>1, <1>2, <1>5, <1>6 DEF Posting, ItemDone

\* A token: the end of an item gives the article, and nothing else does.
LEMMA ParsePosting ==
    ASSUME Inv, Feeding, Posting, docs' = docs, Parse
    PROVE  Posting'
<1>1. /\ pc = "parse" /\ taken' = taken + 1 /\ taken \in Nat
      /\ UNCHANGED <<url, http, answers, proxied, done, queue>>
      /\ url \in Urls /\ Token(Head(urlPipe)) = Doc[taken + 1] /\ taken + 1 \in 1..Len(Doc)
      /\ Doc \in Seq(Tokens)
  BY NextToken DEF Parse, fetch, posting
<1>2. Articles' = Articles /\ UNCHANGED <<Earlier, Doc>>
  BY <1>1, SameArticles
<1>3. Posted' = Posted /\ Posted = Earlier \o SoFar
  BY <1>1 DEF Posted, Posting
<1>4. SoFar' = SoFar \o ArticleAt(Doc, taken + 1) /\ SoFar \in Seq(Articles)
  BY <1>1, <1>2, ArticlesHere DEF SoFar
<1>5. BeforeLast' = SoFar
  <2>1. taken' - 1 = taken
    BY <1>1
  <2> QED
    BY <1>2, <2>1 DEF BeforeLast, SoFar
<1>6. \/ pc' = "process"
      \/ pc' = "parse" /\ ~(Doc[taken + 1].kind = "close" /\ Doc[taken + 1].name = "item")
  <2>1. CASE Doc[taken + 1].kind = "open" /\ StartElement(Doc[taken + 1].name)
    BY <2>1 DEF StartElement
  <2>2. CASE Doc[taken + 1].kind = "close" /\ EndElement(Doc[taken + 1].name)
    BY <2>2 DEF EndElement
  <2>3. CASE Doc[taken + 1].kind = "text" /\ CharacterData(Doc[taken + 1].text)
    BY <2>3 DEF CharacterData
  <2> QED
    BY <1>1, <2>1, <2>2, <2>3 DEF Parse
<1>7. CASE pc' = "process"
  BY <1>1, <1>2, <1>3, <1>5, <1>7 DEF Posting, ItemDone
<1>8. CASE pc' # "process"
  <2>1. ArticleAt(Doc, taken + 1) = <<>>
    <3>1. taken + 1 \in Nat
      BY <1>1
    <3> QED
      BY <1>1, <1>6, <1>8, <3>1, ArticleAtToken
  <2>2. SoFar' = SoFar
    BY <1>4, <2>1, ConcatEmptySeq
  <2> QED
    BY <1>1, <1>2, <1>3, <1>6, <1>8, <2>2 DEF Posting, ItemDone
<1> QED
  BY <1>7, <1>8

\* The item is left out, for its date.
LEMMA SkipPosting ==
    ASSUME Inv, Feeding, Complete, Posting, docs' = docs, SkipItem
    PROVE  Posting'
<1>1. /\ pc = "process" /\ pc' = "parse" /\ Skipped(FindElement("pubDate"))
      /\ UNCHANGED <<url, http, answers, proxied, taken, done, queue>>
  BY DEF SkipItem, fetch, posting, history
<1>2. /\ url \in Urls /\ taken \in Nat /\ taken > 0 /\ taken <= Len(Doc)
  BY <1>1 DEF Inv, Threads, Parsing, Feeding, Complete, ItemDone
<1>3. PICK p \in 1..taken : IsItem(Doc, p, taken) /\ Gathered(elements, Doc, p, taken)
  BY <1>1 DEF Complete, ItemDone
<1>4. ~Wanted(Doc, p, taken)
  <2>1. ValueIn(Doc, p, taken, "pubDate") = FindElement("pubDate")
    BY <1>3, HeaderOf
  <2> QED
    BY <1>1, <2>1 DEF Wanted
<1>5. ArticleAt(Doc, taken) = <<>>
  <2>1. Doc \in Seq(Tokens)
    BY <1>2, ArticlesHere
  <2> QED
    BY <1>2, <1>3, <1>4, <2>1, ArticleAtToken
<1>6. SoFar = BeforeLast
  <2>1. SoFar = BeforeLast \o ArticleAt(Doc, taken) /\ BeforeLast \in Seq(Articles)
    BY <1>2, ArticlesHere
  <2> QED
    BY <1>5, <2>1, ConcatEmptySeq
<1>7. Articles' = Articles /\ UNCHANGED <<Earlier, SoFar>> /\ Posted' = Posted
  BY <1>1, SameArticles DEF Posted
<1> QED
  BY <1>1, <1>6, <1>7 DEF Posting, ItemDone

\* Its article is posted.
LEMMA PostPosting ==
    ASSUME Inv, Feeding, Rendering, ShortLeads, Complete, Posting, docs' = docs, Post
    PROVE  Posting'
<1>1. /\ pc = "reap" /\ pc' = "parse" /\ lynx = "done"
      /\ UNCHANGED <<url, http, answers, proxied, taken, done>>
      /\ queue' = Append(queue, article)
  BY DEF Post, Queue!Enqueue, fetch, history
<1>2. /\ url \in Urls /\ taken \in Nat /\ taken > 0 /\ taken <= Len(Doc)
  BY <1>1 DEF Inv, Threads, Parsing, Feeding, Complete, ItemDone
<1>3. PICK p \in 1..taken : IsItem(Doc, p, taken) /\ Gathered(elements, Doc, p, taken)
  BY <1>1 DEF Complete, ItemDone
<1>4. /\ FindElement("description") # None /\ ~Skipped(FindElement("pubDate"))
      /\ article = [Header EXCEPT !.body = Stripped(FindElement("description"))]
  BY <1>1 DEF Rendering
<1>5. Wanted(Doc, p, taken) /\ article = ArticleIn(Doc, p, taken)
  <2>1. /\ ValueIn(Doc, p, taken, "pubDate") = FindElement("pubDate")
        /\ ValueIn(Doc, p, taken, "description") = FindElement("description")
        /\ ArticleIn(Doc, p, taken)
             = [Header EXCEPT !.body = Rendered(FindElement("description"))]
    BY <1>3, <1>4, HeaderOf
  <2>2. FindElement("description") \in Seq(STRING)
    BY <1>4, FoundElement DEF Inv, Parser
  <2>3. p \in Nat /\ BeginsShort(FindElement("description"))
    BY <1>2, <1>4, <2>1 DEF ShortLeads, Doc
  <2>4. Rendered(FindElement("description")) = Stripped(FindElement("description"))
    BY <1>4, <2>2, <2>3, OnlyBlanksLeftOut
  <2> QED
    BY <1>4, <2>1, <2>4 DEF Wanted
<1>6. ArticleAt(Doc, taken) = <<article>>
  <2>1. Doc \in Seq(Tokens)
    BY <1>2, ArticlesHere
  <2>2. ArticleAt(Doc, taken) = IF Wanted(Doc, p, taken) THEN <<ArticleIn(Doc, p, taken)>>
                                ELSE <<>>
    BY <1>2, <1>3, <2>1, ArticleAtToken
  <2> QED
    BY <1>5, <2>2
<1>7. article \in Articles
  <2>1. p \in Nat
    BY <1>2
  <2> QED
    BY <1>2, <1>5, <2>1 DEF Articles, Doc
<1>8. /\ SoFar = BeforeLast \o <<article>> /\ BeforeLast \in Seq(Articles)
      /\ Earlier \in Seq(Articles) /\ <<article>> \in Seq(Articles)
  BY <1>2, <1>6, ArticlesHere
<1>9. done \in Seq(Articles) /\ queue \in Seq(Articles) /\ Posted = Earlier \o BeforeLast
  BY <1>1 DEF Posting, ItemDone
<1>10. Posted' = Earlier \o SoFar /\ queue' \in Seq(Articles)
  <2> DEFINE a == <<article>>
  <2>1. queue' = queue \o a /\ queue' \in Seq(Articles)
    BY <1>1, <1>7, <1>9, AppendIsConcat, AppendProperties
  <2>2. a \in Seq(Articles)
    BY <1>8
  <2>3. SoFar = BeforeLast \o a
    BY <1>8
  <2> HIDE DEF a
  <2>4. done \o (queue \o a) = (done \o queue) \o a
    BY ONLY <1>9, <2>2, ConcatAssociative, SMTT(30)
  <2>5. (Earlier \o BeforeLast) \o a = Earlier \o (BeforeLast \o a)
    BY ONLY <1>8, <2>2, ConcatAssociative, SMTT(30)
  <2> QED
    BY <1>1, <1>9, <2>1, <2>3, <2>4, <2>5 DEF Posted
<1>11. Articles' = Articles /\ UNCHANGED <<Earlier, SoFar>>
  BY <1>1, SameArticles
<1> QED
  BY <1>1, <1>9, <1>10, <1>11 DEF Posting, ItemDone

\* When nothing is open any more the document is at its end, and all of it has
\* been dealt with.
LEMMA EndPosting ==
    ASSUME Inv, Feeding, Rss, Posting, docs' = docs, EndParse
    PROVE  Posting'
<1>1. /\ pc = "parse" /\ pc' = "join" /\ curl = "ended" /\ stack = <<>> /\ taken > 0
      /\ UNCHANGED <<url, http, answers, proxied, taken, done, queue>>
  BY DEF EndParse, fetch, posting, history
<1>2. /\ url \in Urls /\ taken \in Nat /\ http = "OK" /\ answers[url] = answer
      /\ answer.class = "2xx" /\ taken <= Len(Doc) /\ Depth(Doc, taken) = 0
  <2>1. url \in Urls /\ taken \in Nat /\ http = "OK"
    BY <1>1 DEF Inv, Threads, Parsing
  <2>2. Len(stack) = 0
    BY <1>1, EmptySeq
  <2> QED
    BY <1>1, <2>1, <2>2 DEF Feeding, Parsing
<1>3. /\ Doc \in Seq(Tokens) /\ Len(Doc) \in Nat
      /\ UpToHere = Earlier \o Share(url)
  BY <1>2, ArticlesHere
<1>4. taken = Len(Doc)
  <2>1. OneRoot(Doc)
    BY <1>2 DEF Rss, Doc
  <2>2. taken \notin 1..Len(Doc) - 1
    BY <1>2, <2>1 DEF OneRoot
  <2> QED
    BY <1>1, <1>2, <1>3, <2>2
<1>5. Share(url) = SoFar
  <2>1. Good(url) \/ url \in proxied
    BY <1>2 DEF Inv, State, Good
  <2>2. Share(url) = ArticlesOf(Doc)
    BY <1>2, <2>1 DEF Share, Doc
  <2>3. DOMAIN Doc = 1..taken
    BY <1>3, <1>4, LenProperties
  <2> QED
    BY <2>2, <2>3 DEF ArticlesOf, SoFar, ArticlesTo
<1>6. Articles' = Articles /\ UNCHANGED UpToHere /\ Posted' = Posted
  BY <1>1, SameArticles DEF Posted
<1> QED
  BY <1>1, <1>2, <1>3, <1>5, <1>6 DEF Posting, ItemDone

\* A URL that is given up has no share.
LEMMA GivenUp ==
    ASSUME Inv, Outcome, http = "ERROR"
    PROVE  UpToHere = Earlier
<1>1. url \in Urls /\ Rejected(url)
  BY DEF Outcome
<1>2. Share(url) = <<>>
  BY <1>1 DEF Share, Rejected
<1>3. UpToHere = Earlier \o Share(url) /\ Earlier \in Seq(Articles)
  BY <1>1, ArticlesHere
<1> QED
  BY <1>2, <1>3, ConcatEmptySeq

\* Every step, as far as the queue goes.
LEMMA NextPosting ==
    ASSUME Inv, Outcome, Feeding, Rendering, Rss, ShortLeads, Complete, Posting,
           [Next]_vars
    PROVE  Posting'
<1>1. CASE UNCHANGED vars
  BY <1>1, SamePosting DEF vars
<1>2. CASE Next
  <2>0. docs' = docs
    BY <1>2 DEF Next
  <2>1. CASE StartUrl \/ StartParse \/ Parse \/ EndParse \/ SkipItem \/ Post
    BY <2>0, <2>1, StartUrlPosting, StartParsePosting, ParsePosting, EndPosting, SkipPosting,
       PostPosting
  <2>2. CASE GiveUpUrl
    <3>1. /\ pc = "await" /\ pc' = "join" /\ http = "ERROR"
          /\ UNCHANGED <<url, http, answers, proxied, taken, done, queue>>
      BY <2>2 DEF GiveUpUrl, fetch, posting, history
    <3>2. Articles' = Articles /\ UNCHANGED Earlier /\ Posted' = Posted
      BY <2>0, <3>1, SameArticles DEF Posted
    <3> QED
      BY <3>1, <3>2 DEF Posting, ItemDone
  <2>3. CASE JoinCurl
    <3>1. /\ pc = "join" /\ pc' = "next"
          /\ UNCHANGED <<url, http, answers, proxied, taken, done, queue>>
      BY <2>3 DEF JoinCurl, fetch, posting, history
    <3>2. Articles' = Articles /\ UNCHANGED UpToHere /\ Posted' = Posted
      BY <2>0, <3>1, SameArticles DEF Posted
    <3>3. Posted = UpToHere
      BY <3>1, GivenUp DEF Posting
    <3> QED
      BY <3>1, <3>2, <3>3 DEF Posting, ItemDone
  <2>4. CASE CallJoin \/ Exit
    <3>1. /\ pc \in {"next", "posting"} /\ pc' \in {"posting", "exit"}
          /\ pc' = "exit" => queue = <<>>
          /\ UNCHANGED <<url, http, answers, proxied, taken, done, queue>>
      BY <2>4 DEF CallJoin, Exit, Queue!Close, Queue!Finish, fetch, history
    <3> QED
      BY <2>0, <3>1, SamePosting
  <2>5. CASE StartLynx \/ ReadLead \/ ReadRest \/ ReadEnd
    <3>1. /\ UNCHANGED <<url, http, answers, proxied, taken, done, queue>>
          /\ pc \in ItemDone /\ pc' \in ItemDone
      BY <2>5 DEF StartLynx, ReadLead, ReadRest, ReadEnd, RenderStep, fetch, posting, history,
                  ItemDone
    <3> QED
      BY <2>0, <3>1, SamePosting
  <2>6. CASE Curl
    BY <2>0, <2>6, CurlPosting
  <2>7. CASE PosterHandles
    BY <2>0, <2>7, PosterPosting
  <2>8. CASE \/ WriteDescription \/ CloseDescription \/ Lynx \/ LynxFails
             \/ ParseError \/ NoElement \/ ItemIncomplete \/ LynxFailed
             \/ BrokenPipe \/ FetchFails \/ PosterFails
    <3>1. UNCHANGED <<pc, url, http, answers, proxied, taken, done, queue>>
      BY <2>8 DEF WriteDescription, CloseDescription, Lynx, LynxReads, LynxWrites, LynxEnds,
                  LynxFails, ParseError, NoElement, ItemIncomplete, LynxFailed,
                  BrokenPipe, FetchFails, PosterFails, Die, RenderStep, main, fetch, posting,
                  history, Queue!Abort
    <3> QED
      BY <2>0, <3>1, SamePosting
  <2> QED
    BY <1>2, <2>1, <2>2, <2>3, <2>4, <2>5, <2>6, <2>7, <2>8 DEF Next, Main, Writer
<1> QED
  BY <1>1, <1>2

\* The initial state.
LEMMA InitWhole == Init => Whole
<1> SUFFICES ASSUME Init PROVE Whole
  OBVIOUS
<1>1. Inv
  BY InitInv
<1>2. /\ pc = "next" /\ url = 0 /\ urlPipe = <<>> /\ taken = 0 /\ curl = "ended"
      /\ http = "INITIAL" /\ answer = NoAnswer /\ done = <<>> /\ queue = <<>>
      /\ answers = [u \in Urls |-> NoAnswer]
  BY DEF Init, Queue!Init
<1>3. url \notin Urls
  BY <1>1, <1>2, Documents
<1>4. Feeding
  BY <1>2, <1>3 DEF Feeding, Parsing, NoAnswer
<1>5. Rendering /\ Reading /\ Complete
  BY <1>2 DEF Rendering, Reading, Complete, ItemDone
<1>6. Posting
  <2>1. ArticlesUpTo(0) = <<>>
    BY <1>1, ArticlesTyped
  <2>2. <<>> \in Seq(Articles) /\ <<>> \o <<>> = <<>>
    BY EmptySeq, ConcatEmptySeq
  <2> QED
    BY <1>2, <2>1, <2>2 DEF Posting, Posted, UpToHere, ItemDone
<1> QED
  BY <1>4, <1>5, <1>6 DEF Whole

\* Every step.
LEMMA NextWhole == Inv /\ Outcome /\ Whole /\ [Next]_vars => Whole'
<1> SUFFICES ASSUME Inv, Outcome, Whole, [Next]_vars PROVE Whole'
  OBVIOUS
<1>1. docs' = docs
  BY DEF Next, vars
<1>2. Rss' => Rss
  BY <1>1 DEF Rss, Urls
<1>3. ShortLeads' => ShortLeads
  BY <1>1 DEF ShortLeads, Urls
<1> QED
  BY <1>2, <1>3, NextFeeding, NextRendering, NextReading, NextPosting DEF Whole

\* What has been queued is a part from the beginning of what is due by the
\* current URL.
LEMMA PostedPrefix ==
    ASSUME Inv, Outcome, Feeding, Complete, Posting
    PROVE  IsPrefix(Posted, UpToHere)
<1>0. Posted \in Seq(Articles)
  BY ConcatProperties DEF Posting, Posted
<1>1. CASE Posted = UpToHere
  <2>1. Posted \o <<>> = Posted /\ <<>> \in Seq(Articles)
    BY <1>0, ConcatEmptySeq, EmptySeq
  <2>2. IsPrefix(Posted, Posted \o <<>>)
    BY <1>0, <2>1, PrefixOfConcat
  <2> QED
    BY <1>1, <2>1, <2>2
<1>2. ASSUME url \in Urls, NEW s \in Seq(Articles), NEW r \in Seq(Articles),
             Share(url) = s \o r, Posted = Earlier \o s
      PROVE  IsPrefix(Posted, UpToHere)
  <2>1. UpToHere = Earlier \o Share(url) /\ Earlier \in Seq(Articles)
    BY <1>2, ArticlesHere
  <2>2. Earlier \o (s \o r) = (Earlier \o s) \o r
    BY ONLY <2>1, s \in Seq(Articles), r \in Seq(Articles), ConcatAssociative, SMTT(30)
  <2>3. IsPrefix(Posted, Posted \o r)
    BY <1>0, PrefixOfConcat
  <2> QED
    BY <1>2, <2>1, <2>2, <2>3
<1>3. ASSUME url \in Urls, Posted = Earlier PROVE IsPrefix(Posted, UpToHere)
  <2>1. Share(url) \in Seq(Articles) /\ Earlier \in Seq(Articles) /\ <<>> \in Seq(Articles)
    BY <1>3, ArticlesHere, EmptySeq
  <2>2. Share(url) = <<>> \o Share(url) /\ Earlier = Earlier \o <<>>
    BY <2>1, ConcatEmptySeq
  <2> QED
    BY <1>2, <1>3, <2>1, <2>2
<1>4. CASE pc \in Parsing
  <2>1. url \in Urls /\ http = "OK" /\ taken \in Nat
    BY <1>4 DEF Inv, Threads
  <2>2. Doc \in Seq(Tokens) /\ Len(Doc) \in Nat /\ Earlier \in Seq(Articles)
        /\ (taken = 0 => SoFar = <<>>)
    BY <2>1, ArticlesHere
  <2>3. CASE pc = "parse" /\ taken = 0
    <3>1. Posted = Earlier
      BY <2>2, <2>3, ConcatEmptySeq DEF Posting
    <3> QED
      BY <1>3, <2>1, <3>1
  <2>4. CASE taken > 0
    <3>1. answer.class = "2xx" /\ taken <= Len(Doc) /\ answers[url] = answer
      BY <2>4 DEF Feeding
    <3>2. Good(url) \/ url \in proxied
      BY <2>1, <3>1 DEF Inv, State, Good
    <3>3. Share(url) = ArticlesOf(Doc)
      BY <3>1, <3>2 DEF Share, Doc
    <3>4. \A to \in Nat : ArticleAt(Doc, to) \in Seq(Articles)
      BY <2>1, ArticleAtTyped DEF Doc
    <3>5. \A n \in 0..Len(Doc) :
              \E r \in Seq(Articles) : ArticlesOf(Doc) = ArticlesTo(Doc, n) \o r
      BY <2>2, <3>4, ArticlesSplit
    <3>6. PICK n \in 0..Len(Doc) : Posted = Earlier \o ArticlesTo(Doc, n)
      <4>1. CASE pc = "parse"
        <5>1. taken \in 0..Len(Doc)
          BY <2>1, <2>2, <3>1
        <5> QED
          BY <4>1, <5>1 DEF Posting, SoFar
      <4>2. CASE pc \in ItemDone
        <5>1. taken - 1 \in 0..Len(Doc)
          BY <2>1, <2>2, <2>4, <3>1
        <5> QED
          BY <4>2, <5>1 DEF Posting, BeforeLast
      <4> QED
        BY <1>4, <4>1, <4>2 DEF Parsing, ItemDone
    <3>7. ArticlesTo(Doc, n) \in Seq(Articles)
      <4>1. n \in Nat
        OBVIOUS
      <4> QED
        BY <2>1, <4>1, ArticlesTyped DEF Doc
    <3> QED
      BY <1>2, <2>1, <3>3, <3>5, <3>6, <3>7
  <2>5. pc # "parse" => taken > 0
    BY <1>4 DEF Complete, ItemDone, Parsing
  <2> QED
    BY <2>1, <2>3, <2>4, <2>5
<1>5. CASE pc = "await"
  <2>1. url \in Urls
    BY <1>5 DEF Inv, Threads
  <2> QED
    BY <1>3, <1>5, <2>1 DEF Posting
<1>6. CASE pc \in {"next", "posting", "exit", "join"}
  <2>1. Posted = UpToHere
    BY <1>6, GivenUp DEF Posting
  <2> QED
    BY <1>1, <2>1
<1> QED
  BY <1>4, <1>5, <1>6 DEF Inv, TypeOK, Parsing

\* What the invariant says of the articles.
LEMMA WholeFaithful == Inv /\ Outcome /\ Whole /\ Rss /\ ShortLeads => PostedFaithfully
<1> SUFFICES ASSUME Inv, Outcome, Whole, Rss, ShortLeads PROVE PostedFaithfully
  OBVIOUS
<1>1. Feeding /\ Complete /\ Posting
  BY DEF Whole
<1>2. IsPrefix(done \o queue, ArticlesUpTo(url))
  BY <1>1, PostedPrefix DEF Posted, UpToHere
<1>3. pc \in {"next", "exit"} => done \o queue = ArticlesUpTo(url)
  BY <1>1 DEF Posting, Posted, UpToHere
<1>4. pc = "exit" => done = ArticlesUpTo(Len(docs))
  <2> SUFFICES ASSUME pc = "exit" PROVE done = ArticlesUpTo(Len(docs))
    OBVIOUS
  <2>1. queue = <<>> /\ done \in Seq(Articles)
    BY <1>1 DEF Posting
  <2>2. done \o queue = done
    BY <2>1, ConcatEmptySeq
  <2>3. url = Len(docs)
    BY DEF Outcome
  <2> QED
    BY <1>3, <2>2, <2>3
<1> QED
  BY <1>2, <1>3, <1>4, ExitStatusFollows DEF PostedFaithfully

-------------------------------------------------------------------------------
(* The theorems.                                                           *)

\* The variables have their types: no pipe holds more than it can, and the
\* parser's counts of open items and subelements never go below zero, though
\* they are reset apart from each other (start_element, end_element, parse).
THEOREM Lj2NewsTypeCorrect == Spec => []TypeOK
<1>1. Inv => TypeOK
  BY DEF Inv
<1> QED
  BY <1>1, Invariant, PTL

\* Unless a proxy has said 2xx before for the same URL: whatever responses a
\* server gives, and in whatever order the threads run, only the body of a last
\* response that was a success with an acceptable content type gets to the
\* parser, from its beginning and without gaps.  With a proxy's 2xx the theorem
\* says no more than that the pipe has pieces of the current URL's body only:
\* HTTP_OK is for good, and the body of an error passes for the feed then
\* (writeheader, writedata, main).
THEOREM OnlyGoodBodiesParsed == Spec => []GoodBodyOnly
<1>1. Inv => GoodBodyOnly
  <2> SUFFICES ASSUME Inv PROVE GoodBodyOnly
    OBVIOUS
  <2>1. ASSUME NEW i \in DOMAIN urlPipe
        PROVE  /\ urlPipe[i][1] = url
               /\ url \notin proxied => Good(url) /\ urlPipe[i][2] = taken + i
    <3>1. http = "OK"
      BY <2>1 DEF Inv, Body
    <3>2. url \notin proxied => Good(url)
      BY <3>1 DEF Inv, State, Good
    <3> QED
      BY <3>2 DEF Inv, Body
  <2>2. ASSUME pc \in Parsing, url \notin proxied
        PROVE  http = "OK" /\ answers[url].class \in {"none", "2xx"}
    BY <2>2 DEF Inv, Threads, State
  <2> QED
    BY <2>1, <2>2 DEF GoodBodyOnly, Parsing
<1> QED
  BY <1>1, Invariant, PTL

\* lj2news exits with status 1 if, and only if, the last response of some URL for
\* which no proxy had said 2xx was no feed: the curl thread may still be at it
\* when main gives it up, and the status is right for the response that comes
\* then.  A URL for which a proxy had said 2xx never makes the status 1, not even
\* if the origin's response was an error (main, writeheader).
THEOREM ExitStatusTells == Spec => []ExitStatus
<1> QED
  BY InitOutcome, ExitStatusFollows, Invariant, NextOutcome, PTL DEF Spec

\* If each feed is a document with one root, with no item in another and
\* nothing but text in the subelements of one, and no description begins with a
\* line longer than process_item()'s buffer, then all that has been queued is
\* due, each article with all of its text but for blank lines at its beginning,
\* in the feeds' order and none twice, and lj2news exits only when all of it
\* has been dealt with, with a status that tells whether a URL was given up:
\* whatever the server answers, however the pipes fill up, and whichever of
\* curl, the parser, the writer thread and lynx is ahead (main, start_element,
\* end_element, process, process_item).
THEOREM ArticlesFaithful == Spec => [](Rss /\ ShortLeads => PostedFaithfully)
<1>1. Init => Outcome /\ Whole
  BY InitOutcome, InitWhole
<1>2. Inv /\ Outcome /\ Whole => (Rss /\ ShortLeads => PostedFaithfully)
  BY WholeFaithful
<1> QED
  BY <1>1, <1>2, Invariant, NextOutcome, NextWhole, PTL DEF Spec
================================================================================
