-------------------------------- MODULE TimedIO --------------------------------
(***************************************************************************)
(* lib/io.c: one handle, used by one thread, with an output buffer that is *)
(* written when it is full or flushed, an input buffer, and a time limit   *)
(* per call.  The socket is external: bytes arrive one by one, there is    *)
(* room for more now and then, the peer may close or the connection break. *)
(*                                                                         *)
(* A poll() that says the socket is ready and the read() or write() that   *)
(* follows are one step; EINTR and EAGAIN lead to the same wait again and  *)
(* are no step.  `left' is what remains of the time limit in seconds.      *)
(* Bytes written are numbered, to tell them apart.                         *)
(*                                                                         *)
(* The caller is any: nntp.c calls fatal() when a call fails; one that     *)
(* goes on, as it might after a timeout, starts the next line with NULL, 0.*)
(***************************************************************************)
EXTENDS Naturals, Sequences, SequencesExt

CONSTANTS
    BufferSize,             \* of either buffer
    FirstSize,              \* first allocation of a line
    Timeouts,               \* what io_set_timeout() may set
    WriteSizes, MaxWritten, \* lengths of writes, and bound on their sum
    Text, Newline           \* what the peer says

ASSUME TimedIOAssumption ==
    /\ BufferSize \in Nat \ {0} /\ FirstSize \in Nat \ {0}
    /\ Timeouts \subseteq Nat
    /\ WriteSizes \subseteq Nat \ {0} /\ MaxWritten \in Nat
    /\ Text \in Seq(Range(Text))

VARIABLES
    timeout, left,          \* io->timeout, and seconds until `limit'
    op, pc,                 \* the call, and where it is
    output, sofar,          \* io->output; written_so_far of io__flush()
    todo,                   \* what io_write() has yet to copy
    input,                  \* io->input between inptr and available
    partial,                \* buffer[0 .. used-1] of io_getline()
    linesize, allocated,    \* *linesize, and the true size of *line
    result,                 \* what the last call returned
    lines,                  \* history: the lines returned
    numbered,               \* history: bytes handed to io_write()
    \* external: the socket
    wire, room, arrived, read, peerClosed, broken

handle == <<output, sofar, todo, input, partial, linesize, allocated>>
socket == <<wire, room, arrived, read, peerClosed, broken>>
vars == <<timeout, left, op, pc, handle, result, lines, numbered, socket>>

Stream == INSTANCE ByteStream WITH
    offered <- todo,
    unsent <- SubSeq(output, sofar + 1, Len(output)),
    unread <- partial \o input \o SubSeq(Text, read + 1, Len(Text))

Init ==
    /\ timeout \in Timeouts /\ left = 0
    /\ op = "none" /\ pc = "idle"
    /\ output = <<>> /\ sofar = 0 /\ todo = <<>>
    /\ input = <<>> /\ partial = <<>> /\ linesize = 0 /\ allocated = 0
    /\ result = "ok" /\ lines = <<>> /\ numbered = 0
    /\ wire = <<>> /\ room = TRUE /\ arrived = 0 /\ read = 0
    /\ peerClosed = FALSE /\ broken = FALSE

-------------------------------------------------------------------------------
(* Calls begin and end.                                                    *)

Begin(call, at) ==
    /\ pc = "idle"
    /\ op' = call /\ pc' = at
    /\ left' = timeout

Return(r) ==
    /\ result' = r
    /\ pc' = IF op = "close" THEN "closed" ELSE "idle"
    /\ op' = "none"

CallWrite(n) ==
    /\ Begin("write", "copy")
    /\ numbered + n <= MaxWritten
    /\ todo' = [i \in 1..n |-> numbered + i]
    /\ numbered' = numbered + n
    /\ UNCHANGED <<timeout, output, sofar, input, partial, linesize, allocated,
                   result, lines, socket>>

CallFlush ==
    /\ Begin("flush", "flush")
    /\ UNCHANGED <<timeout, handle, result, lines, numbered, socket>>

CallClose ==
    /\ Begin("close", "flush")
    /\ UNCHANGED <<timeout, handle, result, lines, numbered, socket>>

CallGetline ==
    /\ Begin("getline", "read")
    /\ result # "eof"
    /\ linesize' = IF allocated = 0 THEN 0 ELSE linesize
    /\ UNCHANGED <<timeout, output, sofar, todo, input, partial, allocated,
                   result, lines, numbered, socket>>

-------------------------------------------------------------------------------
(* io__wait(): the limit comes first, even if the socket is ready.         *)

\* Mutant of Expired: the limit itself is not enough.
ExpiredLate == timeout # 0 /\ left < 0
Expired == timeout # 0 /\ left = 0

\* Mutant of WriteCount: as much as there is.
WriteCountUnlimited == Len(todo)

\* How much io_write() can copy.
WriteCount == IF Len(todo) > BufferSize - Len(output) THEN BufferSize - Len(output)
                                                     ELSE Len(todo)

Copy ==
    /\ pc = "copy" /\ todo # <<>> /\ Len(output) < BufferSize
    /\ output' = output \o SubSeq(todo, 1, WriteCount)
    /\ todo' = SubSeq(todo, WriteCount + 1, Len(todo))
    /\ UNCHANGED <<timeout, left, op, pc, sofar, input, partial, linesize,
                   allocated, result, lines, numbered, socket>>

BufferFull ==
    /\ pc = "copy" /\ todo # <<>> /\ Len(output) = BufferSize
    /\ pc' = "flush"
    /\ UNCHANGED <<timeout, left, op, handle, result, lines, numbered, socket>>

WriteReturns ==
    /\ pc = "copy" /\ todo = <<>>
    /\ Return("ok")
    /\ UNCHANGED <<timeout, left, handle, lines, numbered, socket>>

\* write() takes some of what it is offered.
FlushSome ==
    /\ pc = "flush" /\ sofar < Len(output) /\ ~Expired
    /\ room /\ ~broken
    /\ \E n \in 1..Len(output) - sofar :
          /\ wire' = wire \o SubSeq(output, sofar + 1, sofar + n)
          /\ sofar' = sofar + n
    /\ UNCHANGED <<timeout, left, op, pc, output, todo, input, partial, linesize,
                   allocated, result, lines, numbered, room, arrived, read,
                   peerClosed, broken>>

\* Mutant of KeepUnsent: a failed flush leaves the buffer as it was.
KeepWhole == output' = output /\ sofar' = 0
KeepUnsent == output' = SubSeq(output, sofar + 1, Len(output)) /\ sofar' = 0

FlushEnds ==
    /\ pc = "flush" /\ sofar = Len(output)
    /\ KeepUnsent
    /\ IF op = "write" THEN pc' = "copy" /\ UNCHANGED <<op, result>> ELSE Return("ok")
    /\ UNCHANGED <<timeout, left, todo, input, partial, linesize, allocated, lines,
                   numbered, socket>>

\* The unsent rest stays for the next flush; io_write() has not accepted what
\* it has not copied.
FlushFails ==
    /\ pc = "flush" /\ sofar < Len(output)
    /\ \/ Expired /\ Return("timeout")
       \/ ~Expired /\ broken /\ Return("error")
    /\ KeepUnsent
    /\ todo' = <<>>
    /\ UNCHANGED <<timeout, left, input, partial, linesize, allocated, lines,
                   numbered, socket>>

-------------------------------------------------------------------------------
(* io_getline().                                                           *)

LineComplete == partial # <<>> /\ Last(partial) = Newline

Grown == IF linesize = 0 THEN FirstSize ELSE 2 * linesize

\* *line is enlarged if it is too small for one more byte.
EnsureSize(used) ==
    IF used >= linesize THEN linesize' = Grown /\ allocated' = Grown
                        ELSE UNCHANGED <<linesize, allocated>>

\* io__readbyte(), as long as there is something in the buffer.
ReadByte ==
    /\ pc = "read" /\ input # <<>>
    /\ ~LineComplete
    /\ EnsureSize(Len(partial))
    /\ partial' = Append(partial, Head(input))
    /\ input' = Tail(input)
    /\ UNCHANGED <<timeout, left, op, pc, output, sofar, todo, result, lines,
                   numbered, socket>>

Fill ==
    /\ pc = "read" /\ input = <<>> /\ ~Expired
    /\ ~LineComplete
    /\ read < arrived /\ ~broken
    /\ \E n \in 1..arrived - read :
          /\ n <= BufferSize
          /\ input' = SubSeq(Text, read + 1, read + n)
          /\ read' = read + n
    /\ UNCHANGED <<timeout, left, op, pc, output, sofar, todo, partial, linesize,
                   allocated, result, lines, numbered, wire, room, arrived,
                   peerClosed, broken>>

AtEof == input = <<>> /\ ~Expired /\ peerClosed /\ read = arrived /\ ~broken

\* A newline, or the end of the stream after a part of a line.
LineReturns ==
    /\ pc = "read"
    /\ LineComplete \/ (AtEof /\ partial # <<>>)
    /\ EnsureSize(Len(partial))
    /\ lines' = Append(lines, partial)
    /\ partial' = <<>>
    /\ Return("ok")
    /\ UNCHANGED <<timeout, left, output, sofar, todo, input, numbered, socket>>

EofReturns ==
    /\ pc = "read" /\ partial = <<>> /\ AtEof
    /\ allocated' = 0
    /\ Return("eof")
    /\ UNCHANGED <<timeout, left, output, sofar, todo, input, partial, linesize,
                   lines, numbered, socket>>

\* *line is freed with what had been read; *linesize is not changed.
ReadFails ==
    /\ pc = "read" /\ input = <<>>
    /\ ~LineComplete
    /\ \/ Expired /\ Return("timeout")
       \/ ~Expired /\ broken /\ Return("error")
    /\ partial' = <<>>
    /\ allocated' = 0
    /\ UNCHANGED <<timeout, left, output, sofar, todo, input, linesize, lines,
                   numbered, socket>>

-------------------------------------------------------------------------------
(* The clock, the socket, and the specification.                           *)

Tick ==
    /\ left > 0 /\ pc \notin {"idle", "closed"}
    /\ left' = left - 1
    /\ UNCHANGED <<timeout, op, pc, handle, result, lines, numbered, socket>>

Socket ==
    /\ \/ /\ arrived < Len(Text) /\ arrived' = arrived + 1
          /\ UNCHANGED <<room, peerClosed, broken>>
       \/ room' = ~room /\ UNCHANGED <<arrived, peerClosed, broken>>
       \/ /\ arrived = Len(Text) /\ ~peerClosed /\ peerClosed' = TRUE
          /\ UNCHANGED <<arrived, room, broken>>
       \/ ~broken /\ broken' = TRUE /\ UNCHANGED <<arrived, room, peerClosed>>
    /\ UNCHANGED <<timeout, left, op, pc, handle, result, lines, numbered, wire, read>>

Caller == CallFlush \/ CallClose \/ CallGetline \/ \E n \in WriteSizes : CallWrite(n)

InCall ==
    \/ Copy \/ BufferFull \/ WriteReturns \/ FlushSome \/ FlushEnds \/ FlushFails
    \/ ReadByte \/ Fill \/ LineReturns \/ EofReturns \/ ReadFails

Next == Caller \/ InCall \/ Tick \/ Socket

\* The thread is scheduled and time goes on; the socket promises nothing.
Spec == Init /\ [][Next]_vars /\ WF_vars(InCall) /\ WF_vars(Tick)

-------------------------------------------------------------------------------
(* Properties.                                                             *)

\* Types, with the buffers within their sizes, and each byte of a line within
\* what is allocated for it.
TypeOK ==
    /\ timeout \in Timeouts /\ left \in 0..timeout
    /\ op \in {"none", "write", "flush", "close", "getline"}
    /\ pc \in {"idle", "copy", "flush", "read", "closed"}
    /\ Len(output) <= BufferSize /\ sofar \in 0..Len(output)
    /\ Len(input) <= BufferSize
    /\ Len(partial) <= allocated
    /\ result \in {"ok", "eof", "timeout", "error"}
    /\ read <= arrived /\ arrived <= Len(Text)

\* The handle is a byte stream: of what io_write() has taken over nothing is
\* sent twice, out of order or not at all, however calls fail in between; a
\* flush that succeeds has sent it all; and no byte of the input is lost or
\* repeated except for the beginning of a line in a call that failed.
ImplementsStream == Stream!Spec

\* With a timeout every call returns, whatever the peer does.  Without one
\* this is not promised: bzr2news sets none, and waits as long as the server
\* keeps silent.
CallsEnd == timeout # 0 => (pc \notin {"idle", "closed"} ~> pc \in {"idle", "closed"})
================================================================================
