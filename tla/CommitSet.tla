------------------------------ MODULE CommitSet ------------------------------
(***************************************************************************)
(* What seen.h promises the gateways: one persistent set of commits per    *)
(* tracking file, and questions about the set of the file that is open.    *)
(* A call is asked for in one step and answered, for the commit it was     *)
(* asked for, in another; or the process ends in between.                  *)
(***************************************************************************)
CONSTANTS
    Commits,                \* commit IDs
    Files,                  \* tracking files
    NoFile                  \* "no file is open"

VARIABLES
    members,                \* the set each file stands for
    current,                \* the open file, or NoFile
    op,                     \* the call in progress: "none", "seen", "remember"
    argument,               \* the commit it is about; anything between calls
    answer                  \* what the last seen() said: "none", "yes", "no"

vars == <<members, current, op, argument, answer>>

NoCall == op' = "none" /\ argument' \in Commits

Init ==
    /\ members = [f \in Files |-> {}]
    /\ current = NoFile
    /\ op = "none" /\ argument \in Commits
    /\ answer = "none"

Open(f) ==
    /\ op = "none"
    /\ current' = f
    /\ NoCall
    /\ UNCHANGED <<members, answer>>

\* The process ends, in a call or not; the sets stay.
Quit ==
    /\ current' = NoFile
    /\ NoCall
    /\ answer' = "none"
    /\ UNCHANGED members

AskSeen(c) ==
    /\ op = "none" /\ current \in Files
    /\ op' = "seen" /\ argument' = c
    /\ answer' = "none"
    /\ UNCHANGED <<members, current>>

Answer ==
    /\ op = "seen"
    /\ answer' = IF argument \in members[current] THEN "yes" ELSE "no"
    /\ NoCall
    /\ UNCHANGED <<members, current>>

AskRemember(c) ==
    /\ op = "none" /\ current \in Files
    /\ op' = "remember" /\ argument' = c
    /\ UNCHANGED <<members, current, answer>>

Remembered ==
    /\ op = "remember"
    /\ members' = [members EXCEPT ![current] = @ \cup {argument}]
    /\ NoCall
    /\ UNCHANGED <<current, answer>>

\* The two at once.
Add(c) ==
    /\ op = "none" /\ current \in Files
    /\ members' = [members EXCEPT ![current] = @ \cup {c}]
    /\ NoCall
    /\ UNCHANGED <<current, answer>>

Next ==
    \/ \E f \in Files : Open(f)
    \/ \E c \in Commits : AskSeen(c) \/ AskRemember(c) \/ Add(c)
    \/ Answer \/ Remembered
    \/ Quit

Spec == Init /\ [][Next]_vars
===============================================================================
