-------------------------- MODULE MmsgSocketProofs --------------------------
(***************************************************************************)
(* Proofs, for any number of slots and packets, that the batching socket   *)
(* keeps the order of what it is given, forgets nothing but what a call of *)
(* sendmmsg leaves behind, and is a UDP socket to the worker.              *)
(***************************************************************************)
EXTENDS MmsgSocket, SequenceLemmas

-----------------------------------------------------------------------------
(* Sequences of numbers.                                                   *)

Increasing(s) == \A i, j \in DOMAIN s : i < j => s[i] < s[j]

Count(n) == [i \in 1 .. n |-> i]

\* A greater number at the end.
LEMMA IncreasingAppend ==
  ASSUME NEW n \in Nat, NEW s \in Seq(1 .. n), Increasing(s)
  PROVE  Append(s, n + 1) \in Seq(1 .. n + 1) /\ Increasing(Append(s, n + 1))
<1>1. Len(s) \in Nat /\ DOMAIN s = 1 .. Len(s) /\ \A i \in 1 .. Len(s) : s[i] \in 1 .. n
  BY LenProperties, ElementOfSeq
<1>2. s \in Seq(1 .. n + 1)
  <2>1. 1 .. n \subseteq 1 .. n + 1
    OBVIOUS
  <2> QED
    BY <2>1, SeqMonotonic
<1>3. /\ Append(s, n + 1) \in Seq(1 .. n + 1)
      /\ DOMAIN Append(s, n + 1) = 1 .. Len(s) + 1
      /\ \A i \in 1 .. Len(s) : Append(s, n + 1)[i] = s[i]
      /\ Append(s, n + 1)[Len(s) + 1] = n + 1
  BY <1>1, <1>2, AppendProperties, LenProperties
<1>4. ASSUME NEW i \in 1 .. Len(s) + 1, NEW j \in 1 .. Len(s) + 1, i < j
      PROVE  Append(s, n + 1)[i] < Append(s, n + 1)[j]
  <2>1. i \in 1 .. Len(s) /\ Append(s, n + 1)[i] = s[i] /\ s[i] < n + 1
    BY <1>1, <1>3, <1>4
  <2>2. CASE j = Len(s) + 1
    BY <2>1, <2>2, <1>3
  <2>3. CASE j \in 1 .. Len(s)
    BY <2>1, <2>3, <1>1, <1>3, <1>4 DEF Increasing
  <2> QED
    BY <1>1, <2>2, <2>3
<1> QED
  BY <1>3, <1>4 DEF Increasing

\* The beginning of an increasing sequence.
LEMMA IncreasingPrefix ==
  ASSUME NEW S, NEW s \in Seq(S), Increasing(s), NEW m \in 0 .. Len(s)
  PROVE  /\ SubSeq(s, 1, m) \in Seq(S) /\ Len(SubSeq(s, 1, m)) = m
         /\ Increasing(SubSeq(s, 1, m))
<1>1. Len(s) \in Nat /\ DOMAIN s = 1 .. Len(s) /\ \A i \in 1 .. Len(s) : s[i] \in S
  BY LenProperties, ElementOfSeq
<1>2. \A i \in 1 .. m : i \in 1 .. Len(s) /\ s[i] \in S
  BY <1>1
<1>3. /\ SubSeq(s, 1, m) \in Seq(S) /\ Len(SubSeq(s, 1, m)) = m
      /\ \A i \in 1 .. m : SubSeq(s, 1, m)[i] = s[i]
  BY <1>1, <1>2, SubSeqProperties
<1>4. DOMAIN SubSeq(s, 1, m) = 1 .. m
  BY <1>3, LenProperties
<1> QED
  BY <1>1, <1>2, <1>3, <1>4 DEF Increasing

\* The beginning of a concatenation.
LEMMA PrefixOfConcat ==
  ASSUME NEW S, NEW s \in Seq(S), NEW t \in Seq(S), NEW n \in 0 .. Len(t)
  PROVE  /\ SubSeq(t, 1, n) \in Seq(S) /\ Len(SubSeq(t, 1, n)) = n
         /\ Range(SubSeq(t, 1, n)) \subseteq Range(t)
         /\ s \o SubSeq(t, 1, n) = SubSeq(s \o t, 1, Len(s) + n)
<1> DEFINE u == SubSeq(t, 1, n)
           v == SubSeq(s \o t, 1, Len(s) + n)
<1>1. /\ Len(s) \in Nat /\ Len(t) \in Nat
      /\ DOMAIN t = 1 .. Len(t) /\ \A i \in 1 .. Len(t) : t[i] \in S
  BY LenProperties, ElementOfSeq
<1>2. \A i \in 1 .. n : i \in 1 .. Len(t) /\ t[i] \in S
  BY <1>1
<1>3. u \in Seq(S) /\ Len(u) = n /\ \A i \in 1 .. n : u[i] = t[i]
  BY <1>1, <1>2, SubSeqProperties
<1>4. Range(u) \subseteq Range(t)
  <2>1. DOMAIN u = 1 .. n
    BY <1>3, LenProperties
  <2> QED
    BY <1>1, <1>2, <1>3, <2>1 DEF Range
<1>5. /\ s \o t \in Seq(S) /\ Len(s \o t) = Len(s) + Len(t)
      /\ \A i \in 1 .. Len(s) + Len(t) : (s \o t)[i] = IF i <= Len(s) THEN s[i] ELSE t[i - Len(s)]
  BY ConcatProperties
<1>6. \A i \in 1 .. Len(s) + n : i \in 1 .. Len(s) + Len(t) /\ (s \o t)[i] \in S
  <2>1. \A i \in 1 .. Len(s) + n : i \in 1 .. Len(s) + Len(t)
    BY <1>1
  <2> QED
    BY <1>5, <2>1, ElementOfSeq
<1>7. v \in Seq(S) /\ Len(v) = Len(s) + n /\ \A i \in 1 .. Len(s) + n : v[i] = (s \o t)[i]
  BY <1>1, <1>6, SubSeqProperties
<1> HIDE DEF u, v
<1>8. /\ s \o u \in Seq(S) /\ Len(s \o u) = Len(s) + n
      /\ \A i \in 1 .. Len(s) + n : (s \o u)[i] = IF i <= Len(s) THEN s[i] ELSE u[i - Len(s)]
  BY <1>3, ConcatProperties
<1>9. \A i \in 1 .. Len(s) + n : ~ i <= Len(s) => i - Len(s) \in 1 .. n
  BY <1>1
<1>10. \A i \in 1 .. Len(s) + n : (s \o u)[i] = v[i]
  BY <1>3, <1>5, <1>6, <1>7, <1>8, <1>9
<1>11. s \o u = v
  BY <1>7, <1>8, <1>10, SeqEqual
<1> QED
  BY <1>3, <1>4, <1>11 DEF u, v

\* Counting one further.
LEMMA CountAppend == ASSUME NEW n \in Nat PROVE Append(Count(n), n + 1) = Count(n + 1)
<1>1. Count(n) \in Seq(Nat) /\ Len(Count(n)) = n
  BY LenProperties DEF Count
<1>2. /\ Append(Count(n), n + 1) \in Seq(Nat) /\ Len(Append(Count(n), n + 1)) = n + 1
      /\ \A i \in 1 .. n : Append(Count(n), n + 1)[i] = Count(n)[i]
      /\ Append(Count(n), n + 1)[n + 1] = n + 1
  BY <1>1, AppendProperties
<1>3. Count(n + 1) \in Seq(Nat) /\ Len(Count(n + 1)) = n + 1
  BY LenProperties DEF Count
<1>4. \A i \in 1 .. n + 1 : Append(Count(n), n + 1)[i] = Count(n + 1)[i]
  <2>1. \A i \in 1 .. n + 1 : i \in 1 .. n \/ i = n + 1
    OBVIOUS
  <2> QED
    BY <1>2, <2>1 DEF Count
<1> QED
  BY <1>2, <1>3, <1>4, SeqEqual

-----------------------------------------------------------------------------
(* The inductive invariant: the slots in use and the wire hold packets     *)
(* that were accepted.                                                     *)

Leaving == wire \o Queued

SocketInv ==
  /\ TypeOK
  /\ \A slot \in 0 .. queue_len - 1 : bufs[slot] \in 1 .. sends
  /\ wire \in Seq(1 .. sends)
  /\ OrderKept

\* What OrderKept says.
LEMMA OrderIs ==
  OrderKept <=> Increasing(Leaving) /\ (~short => Leaving = Count(sends))
  BY DEF OrderKept, Leaving, Increasing, Count

\* The queue is a sequence of accepted packets.
LEMMA QueuedType ==
  ASSUME SocketInv
  PROVE  Queued \in Seq(1 .. sends) /\ Len(Queued) = queue_len /\ Leaving \in Seq(1 .. sends)
<1>1. queue_len \in Nat /\ \A i \in 1 .. queue_len : bufs[i - 1] \in 1 .. sends
  BY QueueAssumption DEF SocketInv, TypeOK
<1>2. Queued \in Seq(1 .. sends) /\ Len(Queued) = queue_len
  BY <1>1, LenProperties DEF Queued
<1> QED
  BY <1>2, ConcatProperties DEF SocketInv, Leaving

\* A packet put into the slot after those in use is the last of the queue.
LEMMA PutNext ==
  ASSUME SocketInv, ~Full, Put(queue_len)
  PROVE  /\ Queued' = Append(Queued, sends + 1)
         /\ queue_len' \in 0 .. Queue
         /\ \A slot \in 0 .. queue_len' - 1 : bufs'[slot] \in 1 .. sends'
<1>1. /\ queue_len \in Slots /\ queue_len \in Nat /\ sends \in Nat /\ MaxSends \in Nat
      /\ bufs \in [Slots -> 0 .. MaxSends] /\ sends' = sends + 1 /\ queue_len' = queue_len + 1
      /\ bufs' = [bufs EXCEPT ![queue_len] = sends + 1]
  BY QueueAssumption, BoundsAssumption DEF SocketInv, TypeOK, Full, Put, Slots
<1>0. Queue \in Nat /\ queue_len' \in 0 .. Queue /\ queue_len < Queue
  BY <1>1, QueueAssumption DEF Slots
<1>2. \A slot \in 0 .. queue_len - 1 : slot \in Slots /\ slot # queue_len
  BY <1>0, <1>1 DEF Slots
<1>3. /\ \A slot \in 0 .. queue_len - 1 : bufs'[slot] = bufs[slot]
      /\ bufs'[queue_len] = sends + 1
  BY <1>1, <1>2
<1>4. \A slot \in 0 .. queue_len' - 1 : bufs'[slot] \in 1 .. sends'
  <2>1. \A slot \in 0 .. queue_len' - 1 : slot \in 0 .. queue_len - 1 \/ slot = queue_len
    BY <1>1
  <2> QED
    BY <1>1, <1>3, <2>1 DEF SocketInv
<1>5. Queued' = Append(Queued, sends + 1)
  <2>1. Queued \in Seq(Nat) /\ Len(Queued) = queue_len
    <3>1. Queued \in Seq(1 .. sends) /\ Len(Queued) = queue_len /\ 1 .. sends \subseteq Nat
      BY <1>1, QueuedType
    <3> QED
      BY <3>1, SeqMonotonic
  <2>2. /\ Append(Queued, sends + 1) \in Seq(Nat) /\ Len(Append(Queued, sends + 1)) = queue_len + 1
        /\ \A i \in 1 .. queue_len : Append(Queued, sends + 1)[i] = Queued[i]
        /\ Append(Queued, sends + 1)[queue_len + 1] = sends + 1
    BY <1>1, <2>1, AppendProperties
  <2>3. Queued' = [i \in 1 .. queue_len + 1 |-> bufs'[i - 1]]
    BY <1>1 DEF Queued
  <2>4. \A i \in 1 .. queue_len + 1 : bufs'[i - 1] \in Nat
    BY <1>1, <1>4
  <2>5. Queued' \in Seq(Nat) /\ Len(Queued') = queue_len + 1
    BY <1>1, <2>3, <2>4, LenProperties
  <2>6. \A i \in 1 .. queue_len : Queued'[i] = Queued[i]
    BY <1>1, <1>3, <2>3 DEF Queued
  <2>7. Queued'[queue_len + 1] = sends + 1
    BY <1>1, <1>3, <2>3
  <2>8. \A i \in 1 .. queue_len + 1 : i \in 1 .. queue_len \/ i = queue_len + 1
    BY <1>1
  <2>9. \A i \in 1 .. queue_len + 1 : Queued'[i] = Append(Queued, sends + 1)[i]
    BY <2>2, <2>6, <2>7, <2>8
  <2> QED
    BY <2>2, <2>5, <2>9, SeqEqual
<1> QED
  BY <1>0, <1>4, <1>5

\* A packet put into the first slot is alone in the queue.
LEMMA PutFirst ==
  ASSUME SocketInv, Put(0)
  PROVE  /\ Queued' = Append(<<>>, sends + 1) /\ queue_len' \in 0 .. Queue
         /\ \A slot \in 0 .. queue_len' - 1 : bufs'[slot] \in 1 .. sends'
<1>1. /\ 0 \in Slots /\ sends \in Nat /\ bufs \in [Slots -> 0 .. MaxSends]
      /\ sends' = sends + 1 /\ queue_len' = 1 /\ bufs' = [bufs EXCEPT ![0] = sends + 1]
  BY QueueAssumption, BoundsAssumption DEF SocketInv, TypeOK, Put, Slots
<1>2. bufs'[0] = sends + 1
  BY <1>1
<1>3. Queued' = [i \in 1 .. 1 |-> bufs'[i - 1]]
  BY <1>1 DEF Queued
<1>4. Append(<<>>, sends + 1) = <<sends + 1>>
  OBVIOUS
<1>5. Queued' = <<sends + 1>>
  BY <1>1, <1>2, <1>3
<1> QED
  BY <1>1, <1>2, <1>4, <1>5, QueueAssumption

\* An empty queue.
LEMMA QueueEmpty == queue_len' = 0 => Queued' = <<>>
  BY DEF Queued

\* What a call of sendmmsg puts on the wire is the beginning of what is leaving, all of
\* it unless the call falls short.
LEMMA Sent ==
  ASSUME SocketInv, NEW n \in 0 .. queue_len, Sendmmsg(n)
  PROVE  /\ wire' \in Seq(1 .. sends) /\ Increasing(wire')
         /\ Range(wire') = Range(wire) \cup Range(SubSeq(Queued, 1, n))
         /\ Range(SubSeq(Queued, 1, n)) \subseteq Range(Queued)
         /\ ~short' => wire' = Count(sends)
<1>1. /\ Queued \in Seq(1 .. sends) /\ Len(Queued) = queue_len /\ Leaving \in Seq(1 .. sends)
      /\ wire \in Seq(1 .. sends) /\ queue_len \in Nat /\ short \in BOOLEAN
      /\ Increasing(Leaving) /\ (~short => Leaving = Count(sends))
  BY QueuedType, OrderIs, QueueAssumption DEF SocketInv, TypeOK
<1> DEFINE S == 1 .. sends
           q == Queued
           u == SubSeq(Queued, 1, n)
<1>2. /\ u \in Seq(S) /\ Len(u) = n
      /\ Range(u) \subseteq Range(q)
      /\ wire \o u = SubSeq(Leaving, 1, Len(wire) + n)
  <2>1. wire \in Seq(S) /\ q \in Seq(S) /\ n \in 0 .. Len(q) /\ Leaving = wire \o q
        /\ u = SubSeq(q, 1, n)
    BY <1>1 DEF Leaving
  <2> HIDE DEF S, q, u
  <2> QED
    BY <2>1, PrefixOfConcat
<1>3. wire' = wire \o SubSeq(Queued, 1, n) /\ (short' <=> (short \/ n < queue_len))
  BY DEF Sendmmsg
<1>4. Len(wire) \in Nat /\ Len(Leaving) = Len(wire) + queue_len
  BY <1>1, LenProperties, ConcatProperties DEF Leaving
<1>5. Len(wire) + n \in 0 .. Len(Leaving)
  BY <1>1, <1>4
<1>6. wire' \in Seq(S) /\ Increasing(wire')
  <2> DEFINE m == Len(wire) + n
  <2>1. /\ wire' = SubSeq(Leaving, 1, m) /\ m \in 0 .. Len(Leaving)
        /\ Leaving \in Seq(S) /\ Increasing(Leaving)
    BY <1>1, <1>2, <1>3, <1>5
  <2> HIDE DEF S, m
  <2> QED
    BY <2>1, IncreasingPrefix
<1>7. Range(wire') = Range(wire) \cup Range(u)
  <2>1. wire' = wire \o u /\ wire \in Seq(S)
    BY <1>1, <1>3
  <2>2. u \in Seq(S)
    BY <1>2
  <2> HIDE DEF S, u
  <2>3. Range(wire \o u) = Range(wire) \cup Range(u)
    BY <2>1, <2>2, RangeConcatenation
  <2> QED
    BY <2>1, <2>3
<1>8. ASSUME ~short' PROVE wire' = Count(sends)
  <2>1. n = queue_len /\ Leaving = Count(sends)
    BY <1>1, <1>3, <1>8
  <2>2. SubSeq(Leaving, 1, Len(Leaving)) = Leaving
    BY <1>1, SubSeqFull
  <2> QED
    BY <1>2, <1>3, <1>4, <2>1, <2>2
<1> QED
  BY <1>2, <1>6, <1>7, <1>8

\* A packet that is accepted is the last one to leave.
LEMMA Accepted ==
  ASSUME NEW n \in Nat, NEW s \in Seq(1 .. n), NEW t \in Seq(1 .. n), Increasing(s \o t)
  PROVE  /\ s \o Append(t, n + 1) = Append(s \o t, n + 1)
         /\ Increasing(s \o Append(t, n + 1))
<1>1. s \o t \in Seq(1 .. n)
  BY ConcatProperties
<1>2. Increasing(Append(s \o t, n + 1))
  BY <1>1, IncreasingAppend
<1> DEFINE S == 1 .. n + 1
           e == n + 1
<1>3. 1 .. n \subseteq S /\ e \in S
  OBVIOUS
<1> HIDE DEF S
<1>4. s \in Seq(S) /\ t \in Seq(S)
  BY <1>3, SeqMonotonic
<1> HIDE DEF e
<1>5. s \o Append(t, e) = Append(s \o t, e)
  BY <1>3, <1>4, ConcatAppend
<1> QED
  BY <1>2, <1>5 DEF e

\* Every step keeps the invariant.
LEMMA SocketStep == SocketInv /\ [Next]_vars => SocketInv'
<1> SUFFICES ASSUME SocketInv, [Next]_vars PROVE SocketInv'
  OBVIOUS
<1>0. /\ TypeOK /\ sends \in Nat /\ queue_len \in Nat /\ short \in BOOLEAN
      /\ wire \in Seq(1 .. sends) /\ Queued \in Seq(1 .. sends) /\ Leaving \in Seq(1 .. sends)
      /\ Increasing(Leaving) /\ (~short => Leaving = Count(sends))
  BY OrderIs, QueuedType, QueueAssumption, BoundsAssumption DEF SocketInv, TypeOK
<1>1. OrderKept' <=> Increasing(Leaving') /\ (~short' => Leaving' = Count(sends'))
  BY DEF OrderKept, Leaving, Increasing, Count
<1>2. Leaving' = wire' \o Queued'
  BY DEF Leaving
<1>3. ASSUME UNCHANGED output,
             phase' \in {"out", "in", "commit"}, socket' \in Seq(1 .. MaxPackets),
             given' \in Seq(1 .. MaxPackets), arrived' \in 0 .. MaxPackets
      PROVE  SocketInv'
  <2>1. UNCHANGED <<bufs, queue_len, sends, wire, short>>
    BY <1>3 DEF output
  <2>2. Leaving' = Leaving
    BY <2>1 DEF Leaving, Queued
  <2>3. OrderKept'
    BY <1>0, <1>1, <2>1, <2>2
  <2> QED
    BY <1>3, <2>1, <2>3 DEF SocketInv, TypeOK
<1>4. ASSUME sends < MaxSends, UNCHANGED <<phase, input>>, sends' = sends + 1,
             NEW slot \in Slots, bufs' = [bufs EXCEPT ![slot] = sends + 1],
             queue_len' \in 0 .. Queue, \A s \in 0 .. queue_len' - 1 : bufs'[s] \in 1 .. sends',
             wire' \in Seq(1 .. sends), Increasing(Leaving'), short' \in BOOLEAN,
             ~short' => Leaving' = Count(sends')
      PROVE  SocketInv'
  <2>1. bufs' \in [Slots -> 0 .. MaxSends] /\ sends' \in 0 .. MaxSends
    BY <1>0, <1>4, BoundsAssumption DEF TypeOK
  <2>2. wire' \in Seq(1 .. sends') /\ wire' \in Seq(1 .. MaxSends)
    <3>1. 1 .. sends \subseteq 1 .. sends' /\ 1 .. sends \subseteq 1 .. MaxSends
      BY <1>0, <1>4, BoundsAssumption
    <3> QED
      BY <1>4, <3>1, SeqMonotonic
  <2> QED
    BY <1>0, <1>1, <1>4, <2>1, <2>2 DEF SocketInv, TypeOK, input
<1>5. ASSUME UNCHANGED <<input, bufs, sends>>, phase' \in {"out", "in", "commit"}, queue_len' = 0,
             wire' \in Seq(1 .. sends), Increasing(wire'), short' \in BOOLEAN,
             ~short' => wire' = Count(sends)
      PROVE  SocketInv'
  <2>1. Leaving' = wire'
    BY <1>2, <1>5, QueueEmpty, ConcatEmptySeq
  <2>2. wire' \in Seq(1 .. MaxSends)
    <3>1. 1 .. sends \subseteq 1 .. MaxSends
      BY <1>0, BoundsAssumption DEF TypeOK
    <3> QED
      BY <1>5, <3>1, SeqMonotonic
  <2>3. queue_len' \in 0 .. Queue /\ 0 .. queue_len' - 1 = {}
    BY <1>5, QueueAssumption
  <2> QED
    BY <1>0, <1>1, <1>5, <2>1, <2>2, <2>3 DEF SocketInv, TypeOK, input
<1>6. CASE StartReading
  BY <1>0, <1>3, <1>6 DEF StartReading, input, TypeOK
<1>7. CASE RecvFrom
  <2>1. socket # <<>> => /\ Append(given, Head(socket)) \in Seq(1 .. MaxPackets)
                         /\ Tail(socket) \in Seq(1 .. MaxPackets)
    BY <1>0, HeadTailProperties, AppendProperties DEF TypeOK
  <2> QED
    BY <1>0, <1>3, <1>7, <2>1 DEF RecvFrom, TypeOK
<1>8. CASE Arrive
  <2>1. arrived' \in 0 .. MaxPackets /\ arrived + 1 \in 1 .. MaxPackets
    BY <1>0, <1>8, BoundsAssumption DEF Arrive, TypeOK
  <2>2. socket' \in Seq(1 .. MaxPackets)
    BY <1>0, <1>8, <2>1, AppendProperties DEF Arrive, TypeOK
  <2> QED
    BY <1>0, <1>3, <1>8, <2>1, <2>2 DEF Arrive, TypeOK
<1>9. CASE AddSendTo
  <2>1. /\ sends < MaxSends /\ ~Full /\ Put(queue_len) /\ sends' = sends + 1
        /\ UNCHANGED <<phase, input>> /\ wire' = wire /\ short' = short
        /\ bufs' = [bufs EXCEPT ![queue_len] = sends + 1] /\ queue_len \in Slots
    BY <1>0, <1>9, QueueAssumption DEF AddSendTo, Put, TypeOK, Full, Slots
  <2>2. /\ Queued' = Append(Queued, sends + 1) /\ queue_len' \in 0 .. Queue
        /\ \A s \in 0 .. queue_len' - 1 : bufs'[s] \in 1 .. sends'
    BY <2>1, PutNext
  <2>3. Leaving' = Append(Leaving, sends + 1) /\ Increasing(Leaving')
    <3>1. Leaving' = wire \o Append(Queued, sends + 1)
      BY <1>2, <2>1, <2>2
    <3>2. Increasing(wire \o Queued)
      BY <1>0 DEF Leaving
    <3> QED
      BY <1>0, <3>1, <3>2, Accepted DEF Leaving
  <2>4. ~short' => Leaving' = Count(sends')
    BY <1>0, <2>1, <2>3, CountAppend
  <2> QED
    BY <1>0, <1>4, <2>1, <2>2, <2>3, <2>4
<1>10. CASE AddSendToFull
  <2>1. PICK n \in 0 .. queue_len :
          /\ Sendmmsg(n)
          /\ IF Fails(n) THEN queue_len' = Committed /\ UNCHANGED <<bufs, sends>> ELSE Put(0)
    BY <1>10 DEF AddSendToFull
  <2>2. /\ wire' \in Seq(1 .. sends) /\ Increasing(wire') /\ (~short' => wire' = Count(sends))
        /\ short' \in BOOLEAN
    BY <1>0, <2>1, Sent DEF Sendmmsg
  <2>3. CASE Fails(n)
    <3>1. queue_len' = 0 /\ UNCHANGED <<input, bufs, sends>> /\ phase' = phase
      BY <1>10, <2>1, <2>3 DEF AddSendToFull, Committed
    <3> QED
      BY <1>0, <1>5, <2>2, <3>1 DEF TypeOK
  <2>4. CASE ~Fails(n)
    <3>1. /\ sends < MaxSends /\ Put(0) /\ sends' = sends + 1 /\ UNCHANGED <<phase, input>>
          /\ bufs' = [bufs EXCEPT ![0] = sends + 1] /\ 0 \in Slots
      BY <1>10, <2>1, <2>4, QueueAssumption DEF AddSendToFull, Put, Slots
    <3>2. /\ Queued' = Append(<<>>, sends + 1) /\ queue_len' \in 0 .. Queue
          /\ \A s \in 0 .. queue_len' - 1 : bufs'[s] \in 1 .. sends'
      BY <3>1, PutFirst
    <3>3. Leaving' = Append(wire', sends + 1) /\ Increasing(Leaving')
      <4>1. wire' \o <<>> = wire' /\ <<>> \in Seq(1 .. sends)
        BY <2>2, ConcatEmptySeq
      <4> QED
        BY <1>0, <1>2, <2>2, <3>2, <4>1, Accepted
    <3>4. ~short' => Leaving' = Count(sends')
      BY <1>0, <2>2, <3>1, <3>3, CountAppend
    <3> QED
      BY <1>0, <1>4, <2>2, <3>1, <3>2, <3>3, <3>4
  <2> QED
    BY <2>3, <2>4
<1>11. CASE CommitSendTo
  <2>1. PICK n \in 0 .. queue_len : Sendmmsg(n)
    BY <1>11 DEF CommitSendTo
  <2>2. /\ wire' \in Seq(1 .. sends) /\ Increasing(wire') /\ (~short' => wire' = Count(sends))
        /\ short' \in BOOLEAN
    BY <1>0, <2>1, Sent DEF Sendmmsg
  <2>3. UNCHANGED <<input, bufs, sends>> /\ phase' = "out" /\ queue_len' = 0
    BY <1>11 DEF CommitSendTo, Committed
  <2> QED
    BY <1>5, <2>2, <2>3
<1>12. CASE UNCHANGED vars
  BY <1>0, <1>3, <1>12 DEF vars, input, TypeOK
<1> QED
  BY <1>6, <1>7, <1>8, <1>9, <1>10, <1>11, <1>12 DEF Next, Cycle

\* The invariant, in every reachable state.
LEMMA SocketInvariant == Spec => []SocketInv
<1>1. Init => SocketInv
  <2> SUFFICES ASSUME Init PROVE SocketInv
    OBVIOUS
  <2>1. /\ bufs \in [Slots -> 0 .. MaxSends] /\ queue_len = 0 /\ 0 \in 0 .. Queue
        /\ sends = 0 /\ 0 \in 0 .. MaxSends /\ arrived = 0 /\ 0 \in 0 .. MaxPackets
        /\ 0 .. queue_len - 1 = {}
    BY QueueAssumption, BoundsAssumption DEF Init
  <2>2. TypeOK /\ wire \in Seq(1 .. sends)
    BY <2>1, EmptySeq DEF Init, TypeOK
  <2>3. Queued = <<>> /\ Leaving = <<>> /\ Count(sends) = <<>>
    BY <2>1, ConcatEmptySeq, EmptySeq DEF Init, Queued, Leaving, Count
  <2>4. OrderKept
    BY <2>3, OrderIs DEF Increasing
  <2> QED
    BY <2>1, <2>2, <2>4 DEF SocketInv
<1> QED
  BY <1>1, SocketStep, PTL DEF Spec

\* The slots, the queue of the socket and the wire hold packets that were accepted or
\* have arrived.
THEOREM MmsgTypes == Spec => []TypeOK
<1>1. SocketInv => TypeOK
  BY DEF SocketInv
<1> QED
  BY <1>1, SocketInvariant, PTL

\* Packets leave in the order they were sent, none twice, and none is missing as long
\* as no call of sendmmsg has failed or fallen short.
THEOREM InOrder == Spec => []OrderKept
<1>1. SocketInv => OrderKept
  BY DEF SocketInv
<1> QED
  BY <1>1, SocketInvariant, PTL

-----------------------------------------------------------------------------
(* The refinement of UdpSocket.                                            *)

\* What is queued or on the wire was accepted earlier: the next packet is new.
LEMMA NextIsNew ==
  ASSUME SocketInv, sends < MaxSends
  PROVE  sends + 1 \in 1 .. MaxPackets + MaxSends /\ sends + 1 \notin Range(Queued) \cup Range(wire)
<1>1. Queued \in Seq(1 .. sends) /\ wire \in Seq(1 .. sends) /\ sends \in Nat
  BY QueuedType, BoundsAssumption DEF SocketInv, TypeOK
<1>2. Range(Queued) \subseteq 1 .. sends /\ Range(wire) \subseteq 1 .. sends
  <2> DEFINE q == Queued
             S == 1 .. sends
  <2>1. q \in Seq(S) /\ wire \in Seq(S)
    BY <1>1
  <2> HIDE DEF q, S
  <2>2. Range(q) \in SUBSET S /\ Range(wire) \in SUBSET S
    BY <2>1, RangeOfSeq
  <2> QED
    BY <2>2 DEF q, S
<1> QED
  BY <1>1, <1>2, BoundsAssumption

\* Every step of the socket is one of the abstract socket or changes nothing of it.
LEMMA SocketRefines ==
  SocketInv /\ [Next]_vars => [U!Next]_(U!vars)
<1> SUFFICES ASSUME SocketInv, [Next]_vars PROVE [U!Next]_(U!vars)
  OBVIOUS
<1>0. /\ TypeOK /\ sends \in Nat /\ Queued \in Seq(1 .. sends) /\ wire \in Seq(1 .. sends)
  BY QueuedType, BoundsAssumption DEF SocketInv, TypeOK
<1>1. ASSUME UNCHANGED <<socket, given, bufs, queue_len, wire>> PROVE UNCHANGED U!vars
  BY <1>1 DEF U!vars, Queued
<1>2. CASE StartReading
  BY <1>1, <1>2 DEF StartReading, input, output
<1>3. CASE RecvFrom
  <2>1. CASE socket = <<>>
    BY <1>1, <1>3, <2>1 DEF RecvFrom, output
  <2>2. CASE socket # <<>>
    <3>1. UNCHANGED <<bufs, queue_len, wire>>
      BY <1>3 DEF RecvFrom, output
    <3>2. Range(Queued)' = Range(Queued) /\ Range(wire)' = Range(wire)
      BY <3>1 DEF Queued
    <3>3. U!Receive
      BY <1>3, <2>2, <3>2 DEF RecvFrom, U!Receive
    <3> QED
      BY <3>3 DEF U!Next
  <2> QED
    BY <2>1, <2>2
<1>4. CASE Arrive
  <2>1. UNCHANGED <<bufs, queue_len, wire>>
    BY <1>4 DEF Arrive, output
  <2>2. Range(Queued)' = Range(Queued) /\ Range(wire)' = Range(wire)
    BY <2>1 DEF Queued
  <2>3. arrived + 1 \in 1 .. MaxPackets + MaxSends
    BY <1>0, <1>4, BoundsAssumption DEF Arrive, TypeOK
  <2>4. U!Arrive(arrived + 1)
    BY <1>4, <2>2 DEF Arrive, U!Arrive
  <2> QED
    BY <2>3, <2>4 DEF U!Next
<1>5. CASE AddSendTo
  <2>1. /\ sends < MaxSends /\ ~Full /\ Put(queue_len)
        /\ wire' = wire /\ socket' = socket /\ given' = given
    BY <1>5 DEF AddSendTo, input
  <2>2. Queued' = Append(Queued, sends + 1)
    BY <2>1, PutNext
  <2>3. Range(Queued)' = Range(Queued) \cup {sends + 1}
    <3> DEFINE q == Queued
               e == sends + 1
    <3>1. q \in Seq(Nat) /\ e \in Nat /\ Queued' = Append(q, e)
      <4>1. 1 .. sends \subseteq Nat
        OBVIOUS
      <4> QED
        BY <1>0, <2>2, <4>1, SeqMonotonic
    <3>2. Range(Queued)' = Range(Append(q, e))
      BY <3>1 DEF Range
    <3> HIDE DEF q, e
    <3>3. Range(Append(q, e)) = Range(q) \cup {e}
      BY <3>1, RangeOfAppend
    <3> QED
      BY <3>2, <3>3 DEF q, e
  <2>4. U!AddSendTo(sends + 1, {}, {})
    BY <2>1, <2>3, NextIsNew DEF U!AddSendTo, U!Output
  <2> QED
    BY <2>1, <2>4, NextIsNew DEF U!Next
<1>6. ASSUME NEW n \in 0 .. queue_len, Sendmmsg(n), queue_len' = 0, UNCHANGED <<socket, given>>
      PROVE  U!Next
  <2> DEFINE transmitted == Range(SubSeq(Queued, 1, n))
             dropped     == Range(Queued) \ transmitted
  <2>1. transmitted \subseteq Range(Queued) /\ Range(wire)' = Range(wire) \cup transmitted
    BY <1>6, Sent
  <2>2. Range(Queued)' = {}
    BY <1>6, QueueEmpty DEF Range
  <2> HIDE DEF transmitted
  <2>3. U!CommitSendTo(transmitted, dropped)
    BY <1>6, <2>1, <2>2 DEF U!CommitSendTo, U!Output
  <2> QED
    BY <2>1, <2>3 DEF U!Next
<1>7. CASE AddSendToFull
  <2>1. PICK n \in 0 .. queue_len :
          /\ Sendmmsg(n)
          /\ IF Fails(n) THEN queue_len' = Committed /\ UNCHANGED <<bufs, sends>> ELSE Put(0)
    BY <1>7 DEF AddSendToFull
  <2>2. sends < MaxSends /\ UNCHANGED <<socket, given>>
    BY <1>7 DEF AddSendToFull, input
  <2>3. CASE Fails(n)
    BY <1>6, <2>1, <2>2, <2>3 DEF Committed
  <2>4. CASE ~Fails(n)
    <3> DEFINE transmitted == Range(SubSeq(Queued, 1, n))
               dropped     == Range(Queued) \ transmitted
    <3>1. transmitted \subseteq Range(Queued) /\ Range(wire)' = Range(wire) \cup transmitted
      BY <2>1, Sent
    <3>2. Range(Queued)' = {sends + 1}
      <4>1. Queued' = <<sends + 1>>
        BY <2>1, <2>4, PutFirst
      <4> QED
        BY <4>1 DEF Range
    <3> HIDE DEF transmitted
    <3>3. U!AddSendTo(sends + 1, transmitted, dropped)
      BY <2>2, <3>1, <3>2, NextIsNew DEF U!AddSendTo, U!Output
    <3> QED
      BY <2>2, <3>1, <3>3, NextIsNew DEF U!Next
  <2> QED
    BY <2>3, <2>4
<1>8. CASE CommitSendTo
  <2>1. PICK n \in 0 .. queue_len : Sendmmsg(n)
    BY <1>8 DEF CommitSendTo
  <2> QED
    BY <1>6, <1>8, <2>1 DEF CommitSendTo, Committed, input
<1>9. CASE UNCHANGED vars
  BY <1>1, <1>9 DEF vars, input, output
<1> QED
  BY <1>2, <1>3, <1>4, <1>5, <1>7, <1>8, <1>9 DEF Next, Cycle

\* To the worker the batching socket is a UDP socket: it receives in order, and sends
\* every packet at most once and with its own content, or loses it.
THEOREM Mmsg == Spec => ImplementsUdpSocket
<1>1. Init => U!Init
  <2> SUFFICES ASSUME Init PROVE U!Init
    OBVIOUS
  <2>1. Queued = <<>> /\ wire = <<>>
    BY EmptySeq DEF Init, Queued
  <2>2. Range(Queued) = {} /\ Range(wire) = {}
    BY <2>1 DEF Range
  <2> QED
    BY <2>2 DEF Init, U!Init
<1> QED
  BY <1>1, SocketRefines, SocketInvariant, PTL DEF Spec, ImplementsUdpSocket, U!Spec
=============================================================================
