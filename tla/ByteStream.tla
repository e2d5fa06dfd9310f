------------------------------ MODULE ByteStream ------------------------------
(***************************************************************************)
(* What io.h promises of a handle: the bytes that a write accepts of those *)
(* it is given go out in their order, each once, whether or not a call     *)
(* fails, and have gone when a flush says so; and what comes in is handed  *)
(* out line by line, in order and without gaps, but for the beginning of a *)
(* line that a failed io_getline() has dropped.                            *)
(***************************************************************************)
EXTENDS Naturals, Sequences, SequencesExt

CONSTANT Newline

VARIABLES
    op,                     \* the call in progress, or "none"
    offered,                \* what it was given to write and has not accepted
    unsent,                 \* accepted and not yet sent
    wire,                   \* sent
    unread,                 \* what the peer says and no call has returned
    lines,                  \* the lines returned
    result                  \* of the last call: "ok", "eof" or an error

vars == <<op, offered, unsent, wire, unread, lines, result>>

Init ==
    /\ op = "none" /\ offered = <<>>
    /\ unsent = <<>> /\ wire = <<>> /\ lines = <<>> /\ result = "ok"

Call ==
    /\ op = "none" /\ op' \in {"write", "flush", "close", "getline"}
    /\ op' # "write" => offered' = <<>>
    /\ UNCHANGED <<unsent, wire, unread, lines, result>>

Return(r) == op' = "none" /\ result' = r

-------------------------------------------------------------------------------

Writing == op \in {"write", "flush", "close"}

Accept ==
    /\ op = "write"
    /\ \E n \in 1..Len(offered) :
          /\ unsent' = unsent \o SubSeq(offered, 1, n)
          /\ offered' = SubSeq(offered, n + 1, Len(offered))
    /\ UNCHANGED <<op, wire, unread, lines, result>>

Send ==
    /\ Writing
    /\ IsStrictPrefix(wire, wire')
    /\ wire' \o unsent' = wire \o unsent
    /\ UNCHANGED <<op, offered, unread, lines, result>>

\* A write has accepted everything, a flush has sent everything.
Done ==
    /\ Writing /\ Return("ok")
    /\ IF op = "write" THEN offered = <<>> ELSE unsent = <<>>
    /\ UNCHANGED <<offered, unsent, wire, unread, lines>>

\* What was accepted stays to be sent, what was not is the caller's again.
Fail ==
    /\ Writing /\ \E r \in {"timeout", "error"} : Return(r)
    /\ offered' = <<>>
    /\ UNCHANGED <<unsent, wire, unread, lines>>

-------------------------------------------------------------------------------

NoNewline(n) == \A i \in 1..n : unread[i] # Newline

\* A line ends in a newline, unless it is the last.
TakeLine ==
    /\ op = "getline" /\ Return("ok")
    /\ \E n \in 1..Len(unread) :
          /\ NoNewline(n - 1)
          /\ unread[n] = Newline \/ n = Len(unread)
          /\ lines' = Append(lines, SubSeq(unread, 1, n))
          /\ unread' = SubSeq(unread, n + 1, Len(unread))
    /\ UNCHANGED <<offered, unsent, wire>>

\* A call that fails drops what it had of a line, or nothing.
DropPart ==
    /\ op = "getline" /\ \E r \in {"timeout", "error"} : Return(r)
    /\ \E n \in 0..Len(unread) :
          NoNewline(n) /\ unread' = SubSeq(unread, n + 1, Len(unread))
    /\ UNCHANGED <<offered, unsent, wire, lines>>

\* The last line has been returned.
EndOfFile ==
    /\ op = "getline" /\ Return("eof")
    /\ unread = <<>>
    /\ UNCHANGED <<offered, unsent, wire, unread, lines>>

Next == Call \/ Accept \/ Send \/ Done \/ Fail \/ TakeLine \/ DropPart \/ EndOfFile

Spec == Init /\ [][Next]_vars
================================================================================
