---------------------------- MODULE TimedIOProofs ----------------------------
(***************************************************************************)
(* The handle of TimedIO is a byte stream, proved for any sizes of its     *)
(* buffers, any writes, any text from the peer and any time limits.        *)
(***************************************************************************)
EXTENDS TimedIO, SequenceTheorems, TLAPS

Octets == Range(Text)

\* What TypeOK leaves to be said of the types.
Sequences ==
    /\ output \in Seq(Nat) /\ todo \in Seq(Nat) /\ wire \in Seq(Nat)
    /\ input \in Seq(Octets) /\ partial \in Seq(Octets)
    /\ lines \in Seq(Seq(Octets))
    /\ numbered \in Nat /\ linesize \in Nat /\ allocated \in Nat
    /\ read \in Nat /\ arrived \in Nat
    /\ room \in BOOLEAN /\ peerClosed \in BOOLEAN /\ broken \in BOOLEAN

\* Where the calls leave the handle: `written_so_far' and a part of a line are
\* there only in the call they belong to, *linesize is true while there is a
\* line, and only the last byte of a part of a line can be a newline.
Calls ==
    /\ sofar # 0 => pc = "flush"
    /\ partial # <<>> => pc = "read"
    /\ pc = "read" \/ allocated # 0 => linesize = allocated
    /\ \A i \in 1..Len(partial) - 1 : partial[i] # Newline
    /\ peerClosed => arrived = Len(Text)

Inv == TypeOK /\ Sequences /\ Calls

-----------------------------------------------------------------------------
(* Sequences in parts *)

\* What is behind the first k elements.
Rest(s, k) == SubSeq(s, k + 1, Len(s))

\* The length of a part of a sequence.
LEMMA Slice ==
    ASSUME NEW S, NEW s \in Seq(S), NEW m \in Nat, NEW n \in Nat,
           m <= n, n <= Len(s)
    PROVE  SubSeq(s, m + 1, n) \in Seq(S) /\ Len(SubSeq(s, m + 1, n)) = n - m
<1>1. Len(s) \in Nat /\ \A k \in 1..Len(s) : s[k] \in S
  BY LenProperties
<1>2. \A k \in m + 1..n : s[k] \in S
  BY <1>1
<1> QED
  BY <1>2, SubSeqProperties

\* What follows a position is the part up to another position and the rest.
LEMMA Parts ==
    ASSUME NEW S, NEW s \in Seq(S), NEW i \in 0..Len(s), NEW j \in i..Len(s)
    PROVE  /\ SubSeq(s, i + 1, j) \in Seq(S)
           /\ Len(SubSeq(s, i + 1, j)) = j - i
           /\ Rest(s, j) \in Seq(S)
           /\ Len(Rest(s, j)) = Len(s) - j
           /\ Rest(s, i) = SubSeq(s, i + 1, j) \o Rest(s, j)
<1>1. Len(s) \in Nat /\ \A k \in 1..Len(s) : s[k] \in S
  BY LenProperties
<1>2. /\ SubSeq(s, i + 1, j) \in Seq(S)
      /\ Len(SubSeq(s, i + 1, j)) = j - i
  BY <1>1, Slice
<1>3. /\ SubSeq(s, j + 1, Len(s)) \in Seq(S)
      /\ Len(SubSeq(s, j + 1, Len(s))) = Len(s) - j
  BY <1>1, Slice
<1>4. SubSeq(s, i + 1, j) \o SubSeq(s, j + 1, Len(s)) = SubSeq(s, i + 1, Len(s))
  <2>1. i + 1 \in 1..Len(s) + 1 /\ j \in (i + 1) - 1..Len(s) /\ Len(s) \in j..Len(s)
    BY <1>1
  <2> QED
    BY <2>1, ConcatAdjacentSubSeq
<1> QED
  BY <1>2, <1>3, <1>4 DEF Rest

\* What is behind the first elements is a sequence, shorter by them.
LEMMA RestTyped ==
    ASSUME NEW S, NEW s \in Seq(S), NEW i \in 0..Len(s)
    PROVE  Rest(s, i) \in Seq(S) /\ Len(Rest(s, i)) = Len(s) - i
<1>1. i \in i..Len(s)
  BY LenProperties
<1> QED
  BY <1>1, Parts

\* What is taken from the front of one sequence and put behind another.
MovesSome(S, s, t, i, n) ==
    /\ SubSeq(t, i + 1, i + n) \in Seq(S)
    /\ SubSeq(t, i + 1, i + n) # <<>>
    /\ (s \o SubSeq(t, i + 1, i + n)) \o Rest(t, i + n) = s \o Rest(t, i)

\* A part moved from the front of one sequence to the end of another leaves
\* the two together as they were.
LEMMA MoveSome ==
    ASSUME NEW S, NEW s \in Seq(S), NEW t \in Seq(S),
           NEW i \in 0..Len(t), NEW n \in 1..Len(t) - i
    PROVE  MovesSome(S, s, t, i, n)
<1>1. i + n \in i..Len(t) /\ (i + n) - i = n /\ n # 0
  BY LenProperties
<1> DEFINE j == i + n
<1>2. j \in i..Len(t) /\ j - i # 0
  BY <1>1
<1> HIDE DEF j
<1> DEFINE some == SubSeq(t, i + 1, j)
           rest == Rest(t, j)
<1>3. some \in Seq(S) /\ rest \in Seq(S) /\ Len(some) = j - i /\ Rest(t, i) = some \o rest
  BY <1>2, Parts
<1> HIDE DEF some, rest
<1>4. (s \o some) \o rest = s \o (some \o rest)
  <2>1. s \in Seq(S) /\ some \in Seq(S) /\ rest \in Seq(S)
    BY <1>3
  <2> QED
    BY ONLY <2>1, ConcatAssociative, SMTT(30)
<1>5. some # <<>>
  BY <1>2, <1>3, EmptySeq
<1>6. (s \o some) \o rest = s \o Rest(t, i)
  BY <1>3, <1>4
<1> QED
  BY <1>3, <1>5, <1>6 DEF j, some, rest, MovesSome

\* Before anything is taken, the rest is all.
LEMMA RestOfNone ==
    ASSUME NEW S, NEW s \in Seq(S)
    PROVE  Rest(s, 0) = s
BY SubSeqFull DEF Rest

\* The two parts of a concatenation.
LEMMA Halves ==
    ASSUME NEW S, NEW s \in Seq(S), NEW t \in Seq(S)
    PROVE  /\ SubSeq(s \o t, 1, Len(s)) = s
           /\ Rest(s \o t, Len(s)) = t
<1> DEFINE u == s \o t
<1>1. /\ u \in Seq(S) /\ Len(u) = Len(s) + Len(t)
      /\ Len(s) \in Nat /\ Len(t) \in Nat
      /\ \A i \in 1..Len(s) : u[i] = s[i]
      /\ \A i \in 1..Len(t) : u[Len(s) + i] = t[i]
  BY ConcatProperties, LenProperties
<1>2. \A i \in 1..Len(u) : u[i] \in S
  BY <1>1, LenProperties
<1>3. SubSeq(u, 1, Len(s)) = s
  <2>1. /\ SubSeq(u, 1, Len(s)) \in Seq(S)
        /\ Len(SubSeq(u, 1, Len(s))) = Len(s)
        /\ \A i \in 1..Len(s) : SubSeq(u, 1, Len(s))[i] = u[i]
    BY <1>1, <1>2, SubSeqProperties
  <2> QED
    BY <1>1, <2>1, SeqEqual
<1>4. Rest(u, Len(s)) = t
  <2> DEFINE r == SubSeq(u, Len(s) + 1, Len(u))
  <2>1. /\ r \in Seq(S) /\ Len(r) = Len(t)
        /\ \A i \in 1..Len(t) : r[i] = u[Len(s) + i]
    BY <1>1, <1>2, SubSeqProperties
  <2>2. \A i \in 1..Len(t) : r[i] = t[i]
    BY <1>1, <2>1
  <2>3. r = t
    BY <2>1, <2>2, SeqEqual
  <2> QED
    BY <2>3 DEF Rest
<1> QED
  BY <1>3, <1>4

\* A sequence is a strict prefix of a longer one that begins with it.
LEMMA LongerIsStrictPrefix ==
    ASSUME NEW S, NEW s \in Seq(S), NEW t \in Seq(S), t # <<>>
    PROVE  IsStrictPrefix(s, s \o t)
<1>1. /\ Len(s \o t) = Len(s) + Len(t)
      /\ Len(s) \in Nat /\ Len(t) \in Nat /\ Len(t) # 0
  BY ConcatProperties, LenProperties, EmptySeq
<1>2. SubSeq(s, 1, Len(s)) = s /\ SubSeq(s \o t, 1, Len(s)) = s
  BY Halves, SubSeqFull
<1>3. s # s \o t
  BY <1>1
<1>4. Len(s) <= Len(s \o t)
  BY <1>1
<1>5. IsPrefix(s, s \o t)
  BY <1>2, <1>4, Zenon DEF IsPrefix
<1> QED
  BY <1>3, <1>5 DEF IsStrictPrefix

\* A byte moved from the one to the other changes nothing.
LEMMA MoveByte ==
    ASSUME NEW S, NEW s \in Seq(S), NEW t \in Seq(S), t # <<>>
    PROVE  Append(s, Head(t)) \o Tail(t) = s \o t
<1>1. Head(t) \in S /\ Tail(t) \in Seq(S) /\ <<Head(t)>> \in Seq(S)
  BY HeadTailProperties
<1>2. <<Head(t)>> \o Tail(t) = t
  <2>1. Len(t) \in Nat \ {0}
    BY EmptySeq
  <2>2. SubSeq(t, 1, Len(t)) = <<t[1]>> \o SubSeq(t, 2, Len(t))
    BY <2>1, SubSeqRecursiveFirst
  <2>3. Tail(t) = SubSeq(t, 2, Len(t)) /\ SubSeq(t, 1, Len(t)) = t /\ Head(t) = t[1]
    BY TailIsSubSeq, SubSeqFull
  <2> QED
    BY <2>2, <2>3
<1>3. Append(s, Head(t)) = s \o <<Head(t)>>
  BY <1>1, AppendIsConcat
<1>4. (s \o <<Head(t)>>) \o Tail(t) = s \o (<<Head(t)>> \o Tail(t))
  BY <1>1, ConcatAssociative
<1> QED
  BY <1>2, <1>3, <1>4
-----------------------------------------------------------------------------
(* The invariant *)

\* A new handle satisfies the invariant.
LEMMA InitInv == Init => Inv
<1> SUFFICES ASSUME Init
             PROVE  Inv
  OBVIOUS
<1>1. Len(Text) \in Nat /\ <<>> \in Seq(Nat) /\ <<>> \in Seq(Octets)
      /\ <<>> \in Seq(Seq(Octets)) /\ Len(<<>>) = 0
  BY TimedIOAssumption, EmptySeq, LenProperties
<1>2. timeout \in Nat /\ BufferSize \in Nat
  BY TimedIOAssumption DEF Init
<1>3. TypeOK
  BY <1>1, <1>2 DEF Init, TypeOK
<1>4. Sequences
  BY <1>1 DEF Init, Sequences
<1>5. Calls
  BY <1>1 DEF Init, Calls
<1> QED
  BY <1>3, <1>4, <1>5 DEF Inv

\* The lengths of what the invariant calls sequences.
LEMMA Lengths ==
    ASSUME Inv
    PROVE  /\ Len(output) \in Nat /\ Len(todo) \in Nat /\ Len(wire) \in Nat
           /\ Len(input) \in Nat /\ Len(partial) \in Nat /\ Len(Text) \in Nat
           /\ timeout \in Nat /\ left \in Nat /\ sofar \in Nat
           /\ BufferSize \in Nat \ {0} /\ FirstSize \in Nat \ {0}
BY TimedIOAssumption DEF Inv, Sequences, TypeOK

\* The beginning of a call keeps the invariant.
LEMMA CallsBegin ==
    ASSUME Inv, Caller
    PROVE  Inv'
<1>0. timeout \in Nat /\ timeout \in 0..timeout
  BY Lengths
<1> USE <1>0 DEF Inv, TypeOK, Sequences, Calls, Begin, handle, socket
<1>1. CASE CallFlush
  BY <1>1 DEF CallFlush
<1>2. CASE CallClose
  BY <1>2 DEF CallClose
<1>3. CASE CallGetline
  BY <1>3 DEF CallGetline
<1>4. ASSUME NEW n \in WriteSizes, CallWrite(n)
      PROVE  Inv'
  <2>1. n \in Nat
    BY TimedIOAssumption
  <2>2. todo' \in Seq(Nat) /\ numbered' \in Nat
    BY <1>4, <2>1 DEF CallWrite
  <2> QED
    BY <1>4, <2>2 DEF CallWrite
<1> QED
  BY <1>1, <1>2, <1>3, <1>4 DEF Caller

\* The steps of io_write() keep the invariant.
LEMMA WritingInv ==
    ASSUME Inv, Copy \/ BufferFull \/ WriteReturns
    PROVE  Inv'
<1>0. /\ Len(output) \in Nat /\ Len(todo) \in Nat /\ Len(wire) \in Nat
      /\ Len(input) \in Nat /\ Len(partial) \in Nat /\ Len(Text) \in Nat
      /\ timeout \in Nat /\ left \in Nat /\ sofar \in Nat
      /\ BufferSize \in Nat \ {0} /\ FirstSize \in Nat \ {0}
  BY Lengths
<1> USE <1>0 DEF Inv, TypeOK, Sequences, Calls, Return, handle, socket
<1>1. CASE Copy
  <2> DEFINE some == SubSeq(todo, 1, WriteCount)
             most == SubSeq(todo, WriteCount + 1, Len(todo))
  <2>1. WriteCount \in 0..Len(todo) /\ WriteCount <= BufferSize - Len(output)
    <3>1. Len(output) < BufferSize
      BY <1>1 DEF Copy
    <3> HIDE DEF Inv, TypeOK, Sequences, Calls
    <3> QED
      BY <3>1 DEF WriteCount
  <2>2. /\ some \in Seq(Nat) /\ Len(some) = WriteCount
        /\ most \in Seq(Nat)
    <3>1. todo \in Seq(Nat)
      OBVIOUS
    <3>2. SubSeq(todo, 0 + 1, WriteCount) \in Seq(Nat)
          /\ Len(SubSeq(todo, 0 + 1, WriteCount)) = WriteCount - 0
      <4> HIDE DEF Inv, TypeOK, Sequences, Calls, WriteCount
      <4> QED
        BY <2>1, <3>1, Slice
    <3>3. most \in Seq(Nat)
      <4> HIDE DEF Inv, TypeOK, Sequences, Calls, WriteCount
      <4> QED
        BY <2>1, <3>1, Slice
    <3>4. 0 + 1 = 1 /\ WriteCount - 0 = WriteCount
      <4> HIDE DEF Inv, TypeOK, Sequences, Calls, WriteCount
      <4> QED
        BY <2>1
    <3> HIDE DEF Inv, TypeOK, Sequences, Calls, WriteCount
    <3> QED
      BY <3>2, <3>3, <3>4
  <2>3. output \o some \in Seq(Nat) /\ Len(output \o some) = Len(output) + WriteCount
    <3>1. output \in Seq(Nat)
      OBVIOUS
    <3> HIDE DEF Inv, TypeOK, Sequences, Calls, some
    <3> QED
      BY <2>2, <3>1, ConcatProperties
  <2>4. output' = output \o some /\ todo' = most /\ sofar' = 0
    BY <1>1 DEF Copy
  <2>5. output' \in Seq(Nat) /\ todo' \in Seq(Nat)
        /\ Len(output') <= BufferSize /\ sofar' \in 0..Len(output')
    <3> HIDE DEF Inv, TypeOK, Sequences, Calls, some, most
    <3> QED
      BY <2>1, <2>2, <2>3, <2>4
  <2> QED
    BY <1>1, <2>5 DEF Copy
<1>2. CASE BufferFull
  BY <1>2 DEF BufferFull
<1>3. CASE WriteReturns
  BY <1>3 DEF WriteReturns
<1> QED
  BY <1>1, <1>2, <1>3

\* The steps of io_flush() keep the invariant.
LEMMA FlushingInv ==
    ASSUME Inv, FlushSome \/ FlushEnds \/ FlushFails
    PROVE  Inv'
<1>0. /\ Len(output) \in Nat /\ Len(todo) \in Nat /\ Len(wire) \in Nat
      /\ Len(input) \in Nat /\ Len(partial) \in Nat /\ Len(Text) \in Nat
      /\ timeout \in Nat /\ left \in Nat /\ sofar \in Nat
      /\ BufferSize \in Nat \ {0} /\ FirstSize \in Nat \ {0}
  BY Lengths
<1> USE <1>0 DEF Inv, TypeOK, Sequences, Calls, Return, handle, socket
<1>1. CASE FlushSome
  <2>1. PICK n \in 1..Len(output) - sofar :
              /\ wire' = wire \o SubSeq(output, sofar + 1, sofar + n)
              /\ sofar' = sofar + n
    BY <1>1 DEF FlushSome
  <2>2. SubSeq(output, sofar + 1, sofar + n) \in Seq(Nat)
    <3>1. output \in Seq(Nat) /\ sofar + n \in Nat
          /\ sofar <= sofar + n /\ sofar + n <= Len(output)
      BY <2>1
    <3> QED
      BY <3>1, Slice
  <2>3. wire' \in Seq(Nat)
    BY <2>1, <2>2, ConcatProperties
  <2>4. sofar' \in 0..Len(output)
    BY <2>1
  <2> QED
    BY <1>1, <2>3, <2>4 DEF FlushSome
<1>2. ASSUME KeepUnsent
      PROVE  output' \in Seq(Nat) /\ Len(output') <= BufferSize /\ sofar' = 0
             /\ sofar' \in 0..Len(output')
  <2>1. output \in Seq(Nat) /\ sofar <= Len(output) /\ Len(output) <= BufferSize
    OBVIOUS
  <2>2. output' = SubSeq(output, sofar + 1, Len(output)) /\ sofar' = 0
    BY <1>2 DEF KeepUnsent
  <2> HIDE DEF Inv, TypeOK, Sequences, Calls
  <2>3. output' \in Seq(Nat) /\ Len(output') = Len(output) - sofar
    <3>1. sofar \in 0..Len(output)
      BY <2>1
    <3>2. Rest(output, sofar) \in Seq(Nat) /\ Len(Rest(output, sofar)) = Len(output) - sofar
      BY ONLY <2>1, <3>1, RestTyped
    <3> QED
      BY ONLY <2>2, <3>2 DEF Rest
  <2>4. Len(output') \in Nat /\ Len(output') <= BufferSize
    BY ONLY <1>0, <2>1, <2>3
  <2> QED
    BY ONLY <2>2, <2>3, <2>4
<1>3. CASE FlushEnds
  BY <1>2, <1>3 DEF FlushEnds
<1>4. CASE FlushFails
  <2>1. <<>> \in Seq(Nat)
    BY EmptySeq
  <2> QED
    BY <1>2, <1>4, <2>1 DEF FlushFails
<1> QED
  BY <1>1, <1>3, <1>4

\* The steps of io_getline() keep the invariant.
LEMMA ReadingInv ==
    ASSUME Inv, ReadByte \/ Fill \/ LineReturns \/ EofReturns \/ ReadFails
    PROVE  Inv'
<1>0. /\ Len(output) \in Nat /\ Len(todo) \in Nat /\ Len(wire) \in Nat
      /\ Len(input) \in Nat /\ Len(partial) \in Nat /\ Len(Text) \in Nat
      /\ timeout \in Nat /\ left \in Nat /\ sofar \in Nat
      /\ BufferSize \in Nat \ {0} /\ FirstSize \in Nat \ {0}
  BY Lengths
<1> USE <1>0 DEF Inv, TypeOK, Sequences, Calls, Return, handle, socket
<1>1. /\ <<>> \in Seq(Octets) /\ Len(<<>>) = 0
      /\ Text \in Seq(Octets)
  BY EmptySeq, TimedIOAssumption DEF Octets
<1>2. ASSUME EnsureSize(Len(partial)), pc = "read"
      PROVE  /\ linesize' \in Nat /\ allocated' = linesize'
             /\ Len(partial) + 1 <= allocated'
  <2>1. /\ linesize \in Nat /\ allocated = linesize /\ Len(partial) \in Nat
        /\ Len(partial) <= linesize /\ FirstSize \in Nat \ {0}
    BY <1>2
  <2> HIDE DEF Inv, TypeOK, Sequences, Calls
  <2> QED
    BY <1>2, <2>1 DEF EnsureSize, Grown
<1>3. CASE ReadByte
  <2>1. Head(input) \in Octets /\ Tail(input) \in Seq(Octets)
        /\ Len(Tail(input)) = Len(input) - 1
    BY <1>3, HeadTailProperties DEF ReadByte
  <2>2. /\ partial' \in Seq(Octets) /\ Len(partial') = Len(partial) + 1
        /\ \A i \in 1..Len(partial) : partial'[i] = partial[i]
    BY <1>3, <2>1, AppendProperties DEF ReadByte
  <2>3. \A i \in 1..Len(partial) : partial[i] # Newline
    <3>1. /\ Len(partial) \in Nat /\ ~LineComplete
          /\ \A i \in 1..Len(partial) - 1 : partial[i] # Newline
      BY <1>3 DEF ReadByte
    <3> HIDE DEF Inv, TypeOK, Sequences, Calls
    <3> QED
      BY <3>1, EmptySeq DEF LineComplete, Last
  <2>4. \A i \in 1..Len(partial') - 1 : partial'[i] # Newline
    <3> HIDE DEF Inv, TypeOK, Sequences, Calls
    <3> QED
      BY <2>2, <2>3
  <2>5. /\ input' \in Seq(Octets) /\ Len(input') <= BufferSize
        /\ linesize' \in Nat /\ allocated' = linesize' /\ Len(partial') <= allocated'
    BY <1>2, <1>3, <2>1, <2>2 DEF ReadByte
  <2> QED
    BY <1>3, <2>2, <2>4, <2>5 DEF ReadByte
<1>4. CASE Fill
  <2>1. PICK n \in 1..arrived - read : /\ n <= BufferSize
                                       /\ input' = SubSeq(Text, read + 1, read + n)
                                       /\ read' = read + n
    BY <1>4 DEF Fill
  <2>2. input' \in Seq(Octets) /\ Len(input') = n
    <3>1. read \in Nat /\ read + n \in Nat
          /\ read <= read + n /\ read + n <= Len(Text)
      BY <2>1
    <3> HIDE DEF Inv, TypeOK, Sequences, Calls
    <3> QED
      BY <1>1, <2>1, <3>1, Slice
  <2>3. read' \in Nat /\ read' <= arrived /\ Len(input') <= BufferSize
    BY <2>1, <2>2
  <2> QED
    BY <1>4, <2>2, <2>3 DEF Fill
<1>5. CASE LineReturns
  <2>1. lines' \in Seq(Seq(Octets))
    BY <1>5, AppendProperties DEF LineReturns
  <2>2. linesize' \in Nat /\ allocated' = linesize'
    BY <1>2, <1>5 DEF LineReturns
  <2> QED
    BY <1>1, <1>5, <2>1, <2>2 DEF LineReturns
<1>6. CASE EofReturns
  BY <1>1, <1>6 DEF EofReturns
<1>7. CASE ReadFails
  BY <1>1, <1>7 DEF ReadFails
<1> QED
  BY <1>3, <1>4, <1>5, <1>6, <1>7

\* Every step of a handle, the socket or the clock keeps the invariant.
LEMMA NextInv == Inv /\ [Next]_vars => Inv'
<1> SUFFICES ASSUME Inv, [Next]_vars
             PROVE  Inv'
  OBVIOUS
<1>1. CASE Caller
  BY <1>1, CallsBegin
<1>2. CASE InCall
  BY <1>2, WritingInv, FlushingInv, ReadingInv DEF InCall
<1>3. CASE Tick
  BY <1>3, Lengths DEF Tick, Inv, TypeOK, Sequences, Calls, handle, socket
<1>4. CASE Socket
  <2>1. Len(Text) \in Nat
    BY Lengths
  <2>2. UNCHANGED <<timeout, left, op, pc, handle, result, lines, numbered, wire, read>>
    BY <1>4 DEF Socket
  <2> USE DEF Inv, TypeOK, Sequences, Calls, handle
  <2>3. CASE /\ arrived < Len(Text) /\ arrived' = arrived + 1
             /\ UNCHANGED <<room, peerClosed, broken>>
    BY <2>1, <2>2, <2>3
  <2>4. CASE room' = ~room /\ UNCHANGED <<arrived, peerClosed, broken>>
    BY <2>2, <2>4
  <2>5. CASE /\ arrived = Len(Text) /\ ~peerClosed /\ peerClosed' = TRUE
             /\ UNCHANGED <<arrived, room, broken>>
    BY <2>2, <2>5
  <2>6. CASE ~broken /\ broken' = TRUE /\ UNCHANGED <<arrived, room, peerClosed>>
    BY <2>2, <2>6
  <2> QED
    BY <1>4, <2>3, <2>4, <2>5, <2>6 DEF Socket
<1>5. CASE UNCHANGED vars
  BY <1>5 DEF vars, Inv, TypeOK, Sequences, Calls, handle, socket
<1> QED
  BY <1>1, <1>2, <1>3, <1>4, <1>5 DEF Next

\* The buffers of a handle stay within their sizes, a line within what is
\* allocated for it, and the time that is left within the time limit.
THEOREM TimedIOTypeCorrect == Spec => []TypeOK
<1>1. Inv => TypeOK
  BY DEF Inv
<1> QED
  BY <1>1, InitInv, NextInv, PTL DEF Spec
-----------------------------------------------------------------------------
(* Refinement: each step is one of ByteStream, or leaves its state alone. *)

Unsent == Rest(output, sofar)
Unread == (partial \o input) \o Rest(Text, read)

\* What is read and not returned, in sequences of known type.
LEMMA Pieces ==
    ASSUME Inv
    PROVE  /\ Text \in Seq(Octets) /\ Rest(Text, read) \in Seq(Octets)
           /\ input \o Rest(Text, read) \in Seq(Octets)
           /\ Unread = partial \o (input \o Rest(Text, read))
           /\ Len(Unread) = Len(partial) + Len(input \o Rest(Text, read))
<1>1. /\ Text \in Seq(Octets) /\ Len(Text) \in Nat /\ read \in 0..Len(Text)
      /\ partial \in Seq(Octets) /\ input \in Seq(Octets)
  BY TimedIOAssumption, Lengths DEF Octets, Inv, TypeOK, Sequences
<1>2. Rest(Text, read) \in Seq(Octets)
  BY <1>1, Parts
<1>3. input \o Rest(Text, read) \in Seq(Octets)
  BY <1>1, <1>2, ConcatProperties
<1>4. Unread = partial \o (input \o Rest(Text, read))
  <2>1. partial \in Seq(Octets) /\ input \in Seq(Octets) /\ Rest(Text, read) \in Seq(Octets)
    BY <1>1, <1>2
  <2>2. (partial \o input) \o Rest(Text, read) = partial \o (input \o Rest(Text, read))
    BY ONLY <2>1, ConcatAssociative, SMTT(30)
  <2> QED
    BY <2>2 DEF Unread
<1>5. Len(partial \o (input \o Rest(Text, read))) = Len(partial) + Len(input \o Rest(Text, read))
  BY <1>1, <1>3, ConcatProperties, Zenon
<1> QED
  BY <1>1, <1>2, <1>3, <1>4, <1>5

\* A part of a line is the beginning of what is unread.
LEMMA PartOfUnread ==
    ASSUME Inv
    PROVE  /\ SubSeq(Unread, 1, Len(partial)) = partial
           /\ SubSeq(Unread, Len(partial) + 1, Len(Unread)) = input \o Rest(Text, read)
           /\ \A i \in 1..Len(partial) : Unread[i] = partial[i]
<1> DEFINE behind == input \o Rest(Text, read)
<1>1. partial \in Seq(Octets) /\ behind \in Seq(Octets) /\ Unread = partial \o behind
  BY Pieces DEF Inv, Sequences
<1> HIDE DEF behind
<1>2. \A i \in 1..Len(partial) : Unread[i] = partial[i]
  BY <1>1, ConcatProperties, LenProperties
<1>3. SubSeq(Unread, 1, Len(partial)) = partial
      /\ SubSeq(Unread, Len(partial) + 1, Len(Unread)) = behind
  BY <1>1, Halves DEF Rest
<1> QED
  BY <1>2, <1>3 DEF behind

\* At the end of the stream nothing is behind the part of a line.
LEMMA NothingBehind ==
    ASSUME Inv, AtEof
    PROVE  input \o Rest(Text, read) = <<>> /\ Len(Unread) = Len(partial)
<1>1. read = Len(Text) /\ input = <<>> /\ Len(Text) \in Nat /\ Len(partial) \in Nat
  BY Lengths DEF AtEof, Inv, Calls
<1>2. Rest(Text, read) = <<>>
  BY <1>1, SubSeqEmpty DEF Rest
<1>3. input \o Rest(Text, read) = <<>>
  BY <1>1, <1>2, EmptySeq, ConcatEmptySeq
<1> QED
  BY <1>1, <1>3, Pieces, EmptySeq

\* A failed or ended flush moves the unsent rest to the beginning of the buffer.
LEMMA UnsentKept ==
    ASSUME Inv, KeepUnsent
    PROVE  Unsent' = Unsent
<1>1. output \in Seq(Nat) /\ sofar \in 0..Len(output) /\ Len(output) \in Nat
  BY Lengths DEF Inv, TypeOK, Sequences
<1>2. Rest(output, sofar) \in Seq(Nat)
  BY <1>1, Parts
<1>3. output' = Rest(output, sofar) /\ sofar' = 0
  BY DEF KeepUnsent, Rest
<1> QED
  BY <1>2, <1>3, RestOfNone DEF Unsent

\* Which call is at which place, and that only io_write() has bytes to copy.
Ops ==
    /\ pc = "copy" => op = "write"
    /\ pc = "flush" => op \in {"write", "flush", "close"}
    /\ pc = "read" => op = "getline"
    /\ pc \in {"idle", "closed"} => op = "none"
    /\ todo # <<>> => op = "write"

LEMMA InitOps == Init => Ops
BY DEF Init, Ops

LEMMA NextOps == TypeOK /\ Ops /\ [Next]_vars => Ops'
<1> SUFFICES ASSUME TypeOK, Ops, [Next]_vars PROVE Ops'
  OBVIOUS
<1> USE DEF Ops, Begin, Return, handle, socket
<1>1. CASE Caller
  BY <1>1 DEF Caller, CallFlush, CallClose, CallGetline, CallWrite
<1>2. CASE InCall
  <2>1. CASE Copy \/ BufferFull \/ WriteReturns
    BY <2>1 DEF Copy, BufferFull, WriteReturns
  <2>2. CASE FlushSome \/ FlushEnds \/ FlushFails
    BY <2>2 DEF FlushSome, FlushEnds, FlushFails
  <2>3. CASE ReadByte \/ Fill \/ LineReturns \/ EofReturns \/ ReadFails
    BY <2>3 DEF ReadByte, Fill, LineReturns, EofReturns, ReadFails
  <2> QED
    BY <1>2, <2>1, <2>2, <2>3 DEF InCall
<1>3. CASE Tick
  BY <1>3 DEF Tick
<1>4. CASE Socket
  BY <1>4 DEF Socket
<1>5. CASE UNCHANGED vars
  BY <1>5 DEF vars
<1> QED
  BY <1>1, <1>2, <1>3, <1>4, <1>5 DEF Next

\* What a step of the handle may do to the stream, by name.
Begins ==
    /\ op = "none" /\ op' \in {"write", "flush", "close", "getline"}
    /\ op' # "write" => todo' = <<>>
    /\ UNCHANGED <<Unsent, wire, Unread, lines, result>>

Writes == op \in {"write", "flush", "close"}
Ends(r) == op' = "none" /\ result' = r

Accepts ==
    /\ op = "write"
    /\ \E n \in 1..Len(todo) :
          /\ Unsent' = Unsent \o SubSeq(todo, 1, n)
          /\ todo' = SubSeq(todo, n + 1, Len(todo))
    /\ UNCHANGED <<op, wire, Unread, lines, result>>

Sends ==
    /\ Writes
    /\ IsStrictPrefix(wire, wire')
    /\ wire' \o Unsent' = wire \o Unsent
    /\ UNCHANGED <<op, todo, Unread, lines, result>>

Succeeds ==
    /\ Writes /\ Ends("ok")
    /\ IF op = "write" THEN todo = <<>> ELSE Unsent = <<>>
    /\ UNCHANGED <<todo, Unsent, wire, Unread, lines>>

GivesUp ==
    /\ Writes /\ (Ends("timeout") \/ Ends("error"))
    /\ todo' = <<>>
    /\ UNCHANGED <<Unsent, wire, Unread, lines>>

TakesLine ==
    /\ op = "getline" /\ Ends("ok")
    /\ \E n \in 1..Len(Unread) :
          /\ \A i \in 1..n - 1 : Unread[i] # Newline
          /\ Unread[n] = Newline \/ n = Len(Unread)
          /\ lines' = Append(lines, SubSeq(Unread, 1, n))
          /\ Unread' = SubSeq(Unread, n + 1, Len(Unread))
    /\ UNCHANGED <<todo, Unsent, wire>>

DropsPart ==
    /\ op = "getline" /\ (Ends("timeout") \/ Ends("error"))
    /\ \E n \in 0..Len(Unread) :
          /\ \A i \in 1..n : Unread[i] # Newline
          /\ Unread' = SubSeq(Unread, n + 1, Len(Unread))
    /\ UNCHANGED <<todo, Unsent, wire, lines>>

FindsEnd ==
    /\ op = "getline" /\ Ends("eof") /\ Unread = <<>>
    /\ UNCHANGED <<todo, Unsent, wire, Unread, lines>>

StreamStep ==
    \/ Begins \/ Accepts \/ Sends \/ Succeeds \/ GivesUp
    \/ TakesLine \/ DropsPart \/ FindsEnd
    \/ UNCHANGED <<op, todo, Unsent, wire, Unread, lines, result>>

\* What StreamStep allows is a step of the byte stream or a stutter.
LEMMA StreamStepIsNext == StreamStep => [Stream!Next]_(Stream!vars)
<1> USE DEF Unsent, Unread, Rest, Writes, Ends, Stream!Writing, Stream!Return
<1>1. Begins => Stream!Call
  BY Zenon DEF Begins, Stream!Call
<1>2. Accepts => Stream!Accept
  BY Zenon DEF Accepts, Stream!Accept
<1>3. Sends => Stream!Send
  BY Zenon DEF Sends, Stream!Send, IsStrictPrefix, IsPrefix,
               Stream!IsStrictPrefix, Stream!IsPrefix
<1>4. Succeeds => Stream!Done
  BY DEF Succeeds, Stream!Done
<1>5. GivesUp => Stream!Fail
  BY DEF GivesUp, Stream!Fail
<1>6. TakesLine => Stream!TakeLine
  BY Zenon DEF TakesLine, Stream!TakeLine, Stream!NoNewline
<1>7. DropsPart => Stream!DropPart
  BY Zenon DEF DropsPart, Stream!DropPart, Stream!NoNewline
<1>8. FindsEnd => Stream!EndOfFile
  BY DEF FindsEnd, Stream!EndOfFile
<1>9. UNCHANGED <<op, todo, Unsent, wire, Unread, lines, result>> => UNCHANGED Stream!vars
  BY DEF Stream!vars
<1> QED
  BY <1>1, <1>2, <1>3, <1>4, <1>5, <1>6, <1>7, <1>8, <1>9, Zenon DEF StreamStep, Stream!Next

\* Steps that write move bytes along, send some, or fail.
LEMMA WritingSteps ==
    ASSUME Inv, Ops, Copy \/ FlushSome \/ FlushEnds \/ FlushFails
    PROVE  StreamStep
<1>1. CASE Copy
  <2> DEFINE some == SubSeq(todo, 1, WriteCount)
  <2>1. output \in Seq(Nat) /\ todo \in Seq(Nat) /\ sofar = 0 /\ sofar' = 0
        /\ output' = output \o some /\ todo # <<>> /\ Len(output) < BufferSize
        /\ UNCHANGED <<op, wire, partial, input, read, lines, result>>
    BY <1>1 DEF Copy, Inv, Sequences, Calls, socket
  <2>0. op = "write" /\ todo' = SubSeq(todo, WriteCount + 1, Len(todo))
    BY <1>1 DEF Copy, Ops
  <2>2. WriteCount \in 1..Len(todo)
    BY <2>1, Lengths, EmptySeq DEF WriteCount
  <2>3. some \in Seq(Nat) /\ some # <<>>
    <3>1. SubSeq(todo, 0 + 1, WriteCount) \in Seq(Nat)
          /\ Len(SubSeq(todo, 0 + 1, WriteCount)) = WriteCount - 0
      <4>1. WriteCount \in Nat /\ WriteCount <= Len(todo) /\ 0 <= WriteCount
        BY <2>2, Lengths
      <4> HIDE DEF WriteCount
      <4> QED
        BY <2>1, <4>1, Slice
    <3>2. 0 + 1 = 1 /\ WriteCount - 0 # 0
      BY <2>2
    <3> QED
      BY <3>1, <3>2, EmptySeq
  <2> HIDE DEF some
  <2>4. output \o some \in Seq(Nat)
    BY <2>1, <2>3, ConcatProperties
  <2>5. Unsent = output /\ Unsent' = output'
    BY <2>1, <2>4, RestOfNone DEF Unsent
  <2>6. UNCHANGED Unread
    BY <2>1 DEF Unread
  <2>7. Unsent' = Unsent \o SubSeq(todo, 1, WriteCount)
    BY <2>1, <2>5 DEF some
  <2> HIDE DEF WriteCount
  <2> QED
    BY <2>0, <2>1, <2>2, <2>6, <2>7 DEF StreamStep, Accepts
<1>2. CASE FlushSome
  <2>1. PICK n \in 1..Len(output) - sofar :
              /\ wire' = wire \o SubSeq(output, sofar + 1, sofar + n)
              /\ sofar' = sofar + n
    BY <1>2 DEF FlushSome
  <2>2. /\ UNCHANGED <<op, todo, output, partial, input, read, lines, result>>
        /\ Writes
    BY <1>2 DEF FlushSome, Ops, Writes
  <2> DEFINE sent == SubSeq(output, sofar + 1, sofar + n)
  <2>3. output \in Seq(Nat) /\ wire \in Seq(Nat) /\ sofar \in 0..Len(output)
    BY DEF Inv, TypeOK, Sequences
  <2>4. /\ sent \in Seq(Nat) /\ sent # <<>>
        /\ (wire \o sent) \o Rest(output, sofar + n) = wire \o Rest(output, sofar)
    <3>1. n \in 1..Len(output) - sofar
      OBVIOUS
    <3>2. MovesSome(Nat, wire, output, sofar, n)
      BY <2>3, <3>1, MoveSome
    <3> QED
      BY <3>2 DEF MovesSome
  <2>5. Unsent' = Rest(output, sofar + n) /\ wire' = wire \o sent
    BY <2>1, <2>2 DEF Unsent
  <2> HIDE DEF sent
  <2>7. IsStrictPrefix(wire, wire')
    BY <2>3, <2>4, <2>5, LongerIsStrictPrefix
  <2>8. wire' \o Unsent' = wire \o Unsent
    BY <2>4, <2>5 DEF Unsent
  <2>9. UNCHANGED <<Unread, lines>>
    BY <2>2 DEF Unread
  <2> QED
    BY <2>2, <2>7, <2>8, <2>9 DEF StreamStep, Sends
<1>3. CASE FlushEnds
  <2>1. UNCHANGED <<todo, Unsent, wire, Unread, lines>> /\ Writes
    BY <1>3, UnsentKept DEF FlushEnds, Unread, socket, Ops, Writes
  <2>2. CASE op = "write"
    BY <1>3, <2>1, <2>2 DEF FlushEnds, StreamStep
  <2>3. CASE op # "write"
    <3>1. output \in Seq(Nat) /\ sofar = Len(output)
      BY <1>3 DEF FlushEnds, Inv, Sequences
    <3>2. Unsent = <<>>
      BY <3>1, Lengths, SubSeqEmpty DEF Unsent, Rest
    <3>3. Ends("ok")
      BY <1>3, <2>3 DEF FlushEnds, Return, Ends
    <3> QED
      BY <2>1, <2>3, <3>2, <3>3 DEF StreamStep, Succeeds
  <2> QED
    BY <2>2, <2>3
<1>4. CASE FlushFails
  <2>1. UNCHANGED <<Unsent, wire, Unread, lines>> /\ Writes /\ todo' = <<>>
    BY <1>4, UnsentKept DEF FlushFails, Unread, socket, Ops, Writes
  <2>2. Ends("timeout") \/ Ends("error")
    BY <1>4 DEF FlushFails, Return, Ends
  <2> QED
    BY <2>1, <2>2 DEF StreamStep, GivesUp
<1> QED
  BY <1>1, <1>2, <1>3, <1>4

\* Steps that read move bytes along, return a line, or drop a part of one.
LEMMA ReadingSteps ==
    ASSUME Inv, Ops, ReadByte \/ Fill \/ LineReturns \/ EofReturns \/ ReadFails
    PROVE  StreamStep
<1>0. /\ partial \in Seq(Octets) /\ input \in Seq(Octets) /\ Len(partial) \in Nat
      /\ Text \in Seq(Octets) /\ Len(Text) \in Nat
      /\ read \in Nat /\ arrived \in Nat /\ arrived <= Len(Text)
  BY TimedIOAssumption, Lengths DEF Octets, Inv, Sequences, TypeOK
<1>1. CASE ReadByte
  <2>1. partial' \o input' = partial \o input
    BY <1>0, <1>1, MoveByte DEF ReadByte
  <2>2. UNCHANGED <<op, todo, Unsent, wire, Unread, lines, result>>
    BY <1>1, <2>1 DEF ReadByte, Unsent, Unread, socket
  <2> QED
    BY <2>2 DEF StreamStep
<1>2. CASE Fill
  <2>1. PICK n \in 1..arrived - read : /\ input' = SubSeq(Text, read + 1, read + n)
                                       /\ read' = read + n
    BY <1>2 DEF Fill
  <2>2. /\ input = <<>>
        /\ UNCHANGED <<op, todo, output, sofar, wire, partial, lines, result>>
    BY <1>2 DEF Fill
  <2>3. read \in 0..Len(Text) /\ n \in 1..Len(Text) - read
    BY <1>0, <2>1 DEF Inv, TypeOK
  <2>4. (partial \o SubSeq(Text, read + 1, read + n)) \o Rest(Text, read + n)
        = partial \o Rest(Text, read)
    <3>1. partial \in Seq(Octets) /\ Text \in Seq(Octets)
      BY <1>0
    <3>2. MovesSome(Octets, partial, Text, read, n)
      BY <2>3, <3>1, MoveSome
    <3> QED
      BY <3>2 DEF MovesSome
  <2>5. Unread' = partial \o Rest(Text, read)
    BY <2>1, <2>2, <2>4 DEF Unread, Rest
  <2>6. Unread = partial \o Rest(Text, read)
    BY <1>0, <2>2, ConcatEmptySeq DEF Unread
  <2>7. UNCHANGED <<op, todo, Unsent, wire, Unread, lines, result>>
    BY <2>2, <2>5, <2>6 DEF Unsent
  <2> QED
    BY <2>7 DEF StreamStep
<1>3. ASSUME partial' = <<>>, UNCHANGED <<input, read>>
      PROVE  Unread' = SubSeq(Unread, Len(partial) + 1, Len(Unread))
  <2>1. Unread' = input \o Rest(Text, read)
    BY <1>0, <1>3, ConcatEmptySeq DEF Unread
  <2> QED
    BY <2>1, PartOfUnread
<1>4. Len(partial) <= Len(Unread) /\ (partial # <<>> => Len(partial) \in 1..Len(Unread))
  <2>1. Len(Unread) = Len(partial) + Len(input \o Rest(Text, read))
        /\ Len(input \o Rest(Text, read)) \in Nat
    BY Pieces, LenProperties
  <2> QED
    BY <1>0, <2>1, EmptySeq
<1>5. CASE LineReturns
  <2>1. partial # <<>>
    BY <1>5 DEF LineReturns, LineComplete
  <2>2. /\ partial' = <<>> /\ UNCHANGED <<input, read, output, sofar, wire>>
        /\ lines' = Append(lines, partial) /\ todo' = todo
    BY <1>5 DEF LineReturns, socket
  <2>8. op = "getline" /\ Ends("ok")
    BY <1>5 DEF LineReturns, Return, Ends, Ops
  <2>3. \A i \in 1..Len(partial) - 1 : Unread[i] # Newline
    <3>1. \A i \in 1..Len(partial) - 1 : partial[i] # Newline
      BY DEF Inv, Calls
    <3>2. \A i \in 1..Len(partial) : Unread[i] = partial[i]
      BY PartOfUnread
    <3> QED
      BY ONLY <1>0, <3>1, <3>2
  <2>4. Unread[Len(partial)] = Newline \/ Len(partial) = Len(Unread)
    <3>1. CASE LineComplete
      BY <1>0, <2>1, <3>1, PartOfUnread, EmptySeq DEF LineComplete, Last
    <3>2. CASE AtEof
      BY <3>2, NothingBehind
    <3> QED
      BY <1>5, <3>1, <3>2 DEF LineReturns
  <2>5. lines' = Append(lines, SubSeq(Unread, 1, Len(partial)))
    BY <2>2, PartOfUnread
  <2>6. Unread' = SubSeq(Unread, Len(partial) + 1, Len(Unread))
    BY <1>3, <2>2
  <2>7. UNCHANGED <<Unsent, wire>>
    BY <2>2 DEF Unsent
  <2> QED
    BY <1>4, <2>1, <2>2, <2>3, <2>4, <2>5, <2>6, <2>7, <2>8
       DEF StreamStep, TakesLine
<1>6. CASE EofReturns
  <2>1. partial = <<>> /\ AtEof /\ op = "getline" /\ Ends("eof")
        /\ UNCHANGED <<todo, partial, input, read, output, sofar, wire, lines>>
    BY <1>6 DEF EofReturns, Return, Ends, Ops, socket
  <2>2. Unread = <<>>
    BY <2>1, NothingBehind, Pieces, EmptySeq, ConcatEmptySeq
  <2>3. UNCHANGED <<Unsent, wire, Unread, lines>>
    BY <2>1 DEF Unsent, Unread
  <2> QED
    BY <2>1, <2>2, <2>3 DEF StreamStep, FindsEnd
<1>7. CASE ReadFails
  <2>1. /\ partial' = <<>> /\ UNCHANGED <<todo, input, read, output, sofar, wire, lines>>
        /\ op = "getline" /\ (Ends("timeout") \/ Ends("error")) /\ ~LineComplete
    BY <1>7 DEF ReadFails, Return, Ends, Ops, socket
  <2>2. UNCHANGED <<Unsent, wire, lines>>
    BY <2>1 DEF Unsent
  <2>3. \A i \in 1..Len(partial) : Unread[i] # Newline
    <3>1. CASE partial = <<>>
      BY <3>1, EmptySeq
    <3>2. CASE partial # <<>>
      <4>1. \A i \in 1..Len(partial) : partial[i] # Newline
        BY <1>0, <2>1, <3>2 DEF LineComplete, Last, Inv, Calls
      <4> QED
        BY <4>1, PartOfUnread
    <3> QED
      BY <3>1, <3>2
  <2>4. Unread' = SubSeq(Unread, Len(partial) + 1, Len(Unread))
    BY <1>3, <2>1
  <2>5. Len(partial) \in 0..Len(Unread)
    BY <1>0, <1>4, EmptySeq
  <2> QED
    BY <2>1, <2>2, <2>3, <2>4, <2>5 DEF StreamStep, DropsPart
<1> QED
  BY <1>1, <1>2, <1>5, <1>6, <1>7

\* A new handle is an empty byte stream.
LEMMA InitStream == Init => Stream!Init
<1>1. SubSeq(<<>>, 0 + 1, 0) = <<>>
  BY SubSeqEmpty
<1> QED
  BY <1>1, EmptySeq DEF Init, Stream!Init

\* Every step of a handle is a step of the byte stream or a stutter.
LEMMA NextStream == Inv /\ Ops /\ [Next]_vars => [Stream!Next]_(Stream!vars)
<1> SUFFICES ASSUME Inv, Ops, [Next]_vars
             PROVE  StreamStep
  BY StreamStepIsNext
<1> USE DEF Unsent, Unread, StreamStep, handle, socket
<1>1. CASE Caller
  <2>1. op = "none" /\ todo = <<>>
    BY <1>1 DEF Caller, CallFlush, CallClose, CallGetline, CallWrite, Begin, Ops
  <2> QED
    BY <1>1, <2>1 DEF Caller, CallFlush, CallClose, CallGetline, CallWrite, Begin, Begins
<1>2. CASE InCall
  <2>1. CASE BufferFull
    BY <2>1 DEF BufferFull
  <2>2. CASE WriteReturns
    BY <2>2 DEF WriteReturns, Return, Succeeds, Writes, Ends, Ops
  <2> QED
    BY <1>2, <2>1, <2>2, WritingSteps, ReadingSteps DEF InCall
<1>3. CASE Tick
  BY <1>3 DEF Tick
<1>4. CASE Socket
  BY <1>4 DEF Socket
<1>5. CASE UNCHANGED vars
  BY <1>5 DEF vars
<1> QED
  BY <1>1, <1>2, <1>3, <1>4, <1>5 DEF Next

\* lib/io.c keeps the promise of a byte stream for buffers of any size, any
\* writes and any text, whatever the peer does and wherever a call fails: of the
\* bytes given to io_write() those it accepts are sent in their order and once,
\* also when a flush failed half way, io_flush() that succeeds has sent them
\* all, and io_getline() returns the text line by line without gaps, but for
\* the beginning of a line that a failed call has dropped.
THEOREM HandleIsStream == Spec => ImplementsStream
<1>1. Inv => TypeOK
  BY DEF Inv
<1> QED
  BY InitInv, NextInv, InitOps, NextOps, InitStream, NextStream, <1>1, PTL
     DEF Spec, ImplementsStream, Stream!Spec
===============================================================================
