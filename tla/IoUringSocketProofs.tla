------------------------ MODULE IoUringSocketProofs -------------------------
(***************************************************************************)
(* Proofs, for any number of buffers, groups and packets, that a buffer    *)
(* shared with the kernel is never in two hands, that the ring always has  *)
(* room, that a cycle ends, and that the whole is a UDP socket.            *)
(***************************************************************************)
EXTENDS IoUringSocket, SelectionProofs, SequenceLemmas

-----------------------------------------------------------------------------
(* Buffers of groups.                                                      *)

\* The buffers of the groups fill the range of buffers.
LEMMA ToBufferType ==
  ASSUME NEW g \in GroupIds, NEW i \in Indices
  PROVE  ToBuffer(g, i) \in Buffers
<1>1. Groups \in Nat /\ GroupSize \in Nat /\ g \in Nat /\ i \in Nat /\ g <= Groups - 1 /\ i <= GroupSize - 1
  BY GroupsAssumption, GroupSizeAssumption DEF GroupIds, Indices
<1>2. PICK d \in Nat : Groups = g + 1 + d
  <2>1. Groups - g - 1 \in Nat /\ Groups = g + 1 + (Groups - g - 1)
    BY <1>1
  <2> QED
    BY <2>1
<1>3. (g + 1 + d) * GroupSize = g * GroupSize + GroupSize + d * GroupSize
  BY <1>1
<1>4. g * GroupSize \in Nat /\ d * GroupSize \in Nat
  BY <1>1
<1>5. g * GroupSize + i <= Groups * GroupSize - 1 /\ g * GroupSize + i \in Nat
  BY <1>1, <1>2, <1>3, <1>4
<1>6. Groups * GroupSize \in Nat
  BY <1>1
<1> QED
  BY <1>5, <1>6 DEF ToBuffer, Buffers

\* No two groups share a buffer.
LEMMA ToBufferInjective ==
  ASSUME NEW g \in Nat, NEW h \in Nat, NEW i \in Indices, NEW j \in Indices,
         ToBuffer(g, i) = ToBuffer(h, j)
  PROVE  g = h /\ i = j
<1>0. GroupSize \in Nat /\ i \in Nat /\ j \in Nat /\ i < GroupSize /\ j < GroupSize
  BY GroupSizeAssumption DEF Indices
<1>1. ASSUME NEW a \in Nat, NEW b \in Nat, a < b, NEW k \in Indices, NEW l \in Indices
      PROVE  ToBuffer(a, k) # ToBuffer(b, l)
  <2>0. k \in Nat /\ l \in Nat /\ k < GroupSize
    BY GroupSizeAssumption DEF Indices
  <2>1. PICK d \in Nat : b = a + 1 + d
    <3>1. b - a - 1 \in Nat /\ b = a + 1 + (b - a - 1)
      BY <1>1
    <3> QED
      BY <3>1
  <2>2. (a + 1 + d) * GroupSize = a * GroupSize + GroupSize + d * GroupSize
    BY <1>0
  <2>3. a * GroupSize \in Nat /\ d * GroupSize \in Nat
    BY <1>0
  <2>4. a * GroupSize + k < a * GroupSize + GroupSize + d * GroupSize + l
    BY <1>0, <2>0, <2>3
  <2>5. ToBuffer(b, l) = a * GroupSize + GroupSize + d * GroupSize + l
    BY <2>1, <2>2 DEF ToBuffer
  <2>6. ToBuffer(a, k) = a * GroupSize + k
    BY DEF ToBuffer
  <2>7. ToBuffer(a, k) < ToBuffer(b, l) /\ ToBuffer(a, k) \in Nat
    BY <2>0, <2>3, <2>4, <2>5, <2>6
  <2> QED
    BY <2>7
<1>2. g = h
  <2>1. ~(g < h) /\ ~(h < g)
    BY <1>1
  <2> QED
    BY <2>1
<1>3. g * GroupSize \in Nat /\ g * GroupSize + i = g * GroupSize + j
  BY <1>0, <1>2 DEF ToBuffer
<1> QED
  BY <1>0, <1>2, <1>3

-----------------------------------------------------------------------------
(* A queue of the socket together with what a poll adds to it: f of the    *)
(* completions that are in S.                                              *)

Maps(f, T, V) == f \in [T -> V]

Mapped(f, p) == [i \in DOMAIN p |-> f[p[i]]]

Waiting(q, f, S, c) == q \o Mapped(f, Select(c, S))

\* The images of a sequence.
LEMMA MappedType ==
  ASSUME NEW T, NEW V, NEW f, Maps(f, T, V), NEW p \in Seq(T)
  PROVE  /\ Mapped(f, p) \in Seq(V) /\ Len(Mapped(f, p)) = Len(p)
         /\ \A i \in 1 .. Len(p) : Mapped(f, p)[i] = f[p[i]]
<1>1. Len(p) \in Nat /\ DOMAIN p = 1 .. Len(p) /\ \A i \in 1 .. Len(p) : p[i] \in T
  BY LenProperties, ElementOfSeq
<1>2. \A i \in 1 .. Len(p) : f[p[i]] \in V
  BY <1>1 DEF Maps
<1> QED
  BY <1>1, <1>2, LenProperties DEF Mapped

\* One more element.
LEMMA MappedAppend ==
  ASSUME NEW T, NEW V, NEW f, Maps(f, T, V), NEW p \in Seq(T), NEW e \in T
  PROVE  Mapped(f, Append(p, e)) = Append(Mapped(f, p), f[e])
<1> DEFINE n == Len(p)
           a == Append(p, e)
           m == Mapped(f, p)
           b == Mapped(f, a)
           x == f[e]
<1>1. n \in Nat /\ x \in V
  BY LenProperties DEF Maps
<1>2. a \in Seq(T) /\ Len(a) = n + 1 /\ (\A i \in 1 .. n : a[i] = p[i]) /\ a[n + 1] = e
  BY AppendProperties
<1>3. m \in Seq(V) /\ Len(m) = n /\ \A i \in 1 .. n : m[i] = f[p[i]]
  BY MappedType
<1> HIDE DEF n, a
<1>4. b \in Seq(V) /\ Len(b) = n + 1 /\ \A i \in 1 .. n + 1 : b[i] = f[a[i]]
  BY <1>2, MappedType
<1> HIDE DEF m, b, x
<1>5. /\ Append(m, x) \in Seq(V) /\ Len(Append(m, x)) = n + 1
      /\ \A i \in 1 .. n : Append(m, x)[i] = m[i]
      /\ Append(m, x)[n + 1] = x
  BY <1>1, <1>3, AppendProperties
<1>6. \A i \in 1 .. n + 1 : i \in 1 .. n \/ i = n + 1
  BY <1>1
<1>7. \A i \in 1 .. n : i \in 1 .. n + 1
  BY <1>1
<1>8. \A i \in 1 .. n + 1 : b[i] = Append(m, x)[i]
  BY <1>2, <1>3, <1>4, <1>5, <1>6, <1>7 DEF x
<1>9. b = Append(m, x)
  BY <1>4, <1>5, <1>8, SeqEqual
<1> QED
  BY <1>9 DEF b, m, x, a

\* A completion adds to the queue when it is one of those selected.
LEMMA WaitingAppend ==
  ASSUME NEW T, NEW V, NEW f, Maps(f, T, V), NEW q \in Seq(V), NEW S, NEW c \in Seq(T), NEW e \in T
  PROVE  Waiting(q, f, S, Append(c, e))
           = IF e \in S THEN Append(Waiting(q, f, S, c), f[e]) ELSE Waiting(q, f, S, c)
<1> DEFINE p == Select(c, S)
<1>1. p \in Seq(T)
  <2>1. p \in Seq(T \cap S) /\ T \cap S \subseteq T
    BY SelectType
  <2> QED
    BY <2>1, SeqMonotonic
<1>2. Select(Append(c, e), S) = IF e \in S THEN Append(p, e) ELSE p
  BY SelectAppend
<1> HIDE DEF p
<1>3. CASE e \in S
  <2> DEFINE m == Mapped(f, p)
             x == f[e]
  <2>1. m \in Seq(V) /\ x \in V /\ Mapped(f, Append(p, e)) = Append(m, x)
    <3>1. m \in Seq(V)
      BY <1>1, MappedType
    <3>2. Mapped(f, Append(p, e)) = Append(m, x)
      BY <1>1, MappedAppend
    <3> QED
      BY <3>1, <3>2 DEF Maps
  <2>2. q \o Append(m, x) = Append(q \o m, x)
    <3> HIDE DEF m, x
    <3> QED
      BY <2>1, ConcatAppend
  <2>3. Waiting(q, f, S, Append(c, e)) = q \o Append(m, x) /\ Waiting(q, f, S, c) = q \o m
    BY <1>2, <1>3, <2>1 DEF Waiting, p
  <2> QED
    BY <1>3, <2>2, <2>3
<1>4. CASE e \notin S
  BY <1>2, <1>4 DEF Waiting, p
<1> QED
  BY <1>3, <1>4

\* The queue alone.
LEMMA WaitingNone ==
  ASSUME NEW V, NEW f, NEW q \in Seq(V), NEW S
  PROVE  Waiting(q, f, S, <<>>) = q
<1>1. Mapped(f, Select(<<>>, S)) = <<>>
  BY SelectEmpty DEF Mapped
<1> QED
  BY <1>1, ConcatEmptySeq DEF Waiting

\* What is waiting, and its head when it is in the queue.
LEMMA WaitingType ==
  ASSUME NEW T, NEW V, NEW f, Maps(f, T, V), NEW q \in Seq(V), NEW S, NEW c \in Seq(T)
  PROVE  /\ Waiting(q, f, S, c) \in Seq(V)
         /\ Range(q) \subseteq Range(Waiting(q, f, S, c))
         /\ q # <<>> => /\ Waiting(q, f, S, c) # <<>>
                        /\ Head(Waiting(q, f, S, c)) = Head(q)
                        /\ Waiting(Tail(q), f, S, c) = Tail(Waiting(q, f, S, c))
<1> DEFINE p == Select(c, S)
           m == Mapped(f, p)
<1>1. m \in Seq(V) /\ Waiting(q, f, S, c) = q \o m /\ Waiting(Tail(q), f, S, c) = Tail(q) \o m
  <2>1. p \in Seq(T \cap S) /\ T \cap S \subseteq T
    BY SelectType
  <2>2. p \in Seq(T)
    BY <2>1, SeqMonotonic
  <2> HIDE DEF p
  <2>3. m \in Seq(V)
    BY <2>2, MappedType
  <2> QED
    BY <2>3 DEF Waiting, p
<1> HIDE DEF p, m
<1>2. q \o m \in Seq(V) /\ Range(q) \subseteq Range(q \o m)
  BY <1>1, ConcatProperties, RangeConcatenation
<1>3. ASSUME q # <<>>
      PROVE  q \o m # <<>> /\ Head(q \o m) = Head(q) /\ Tail(q) \o m = Tail(q \o m)
  BY <1>1, <1>3, HeadTailOfConcat
<1> QED
  BY <1>1, <1>2, <1>3

-----------------------------------------------------------------------------
(* What the steps do to the queues as they are after a poll.               *)

AllCqes == Cqes({"recv", "send"}, BOOLEAN)
RecvPackets == Cqes({"recv"}, {TRUE})
RecvEnds == Cqes({"recv"}, {FALSE})
SendsDone == Cqes({"send"}, {FALSE})

BufferOf == [e \in AllCqes |-> ToBuffer(e.id, e.index)]
IdOf == [e \in AllCqes |-> e.id]

\* The types, with those of the queues after a poll.
TypeInv ==
  /\ TypeOK
  /\ ReadWait \in Seq(Buffers)
  /\ FreeGroups \in Seq(GroupIds)
  /\ FreeSlots \in Seq(Slots)
  /\ reading # None => phase = "in"

\* A completion names a buffer, and a group or a send buffer.
LEMMA OfTypes == Maps(BufferOf, AllCqes, Int) /\ Maps(IdOf, AllCqes, Int)
<1>1. \A e \in AllCqes : e.id \in Nat /\ e.index \in Int
  BY DEF AllCqes, Cqes, Indices
<1>2. \A e \in AllCqes : ToBuffer(e.id, e.index) \in Int
  BY <1>1, GroupSizeAssumption DEF ToBuffer
<1> QED
  BY <1>1, <1>2 DEF BufferOf, IdOf, Maps

\* What is selected are completions.
LEMMA SelectedCqes ==
  ASSUME NEW c \in Seq(AllCqes), NEW S
  PROVE  /\ Select(c, S) \in Seq(AllCqes)
         /\ [i \in DOMAIN Select(c, S) |-> ToBuffer(Select(c, S)[i].id, Select(c, S)[i].index)]
              = Mapped(BufferOf, Select(c, S))
         /\ [i \in DOMAIN Select(c, S) |-> Select(c, S)[i].id] = Mapped(IdOf, Select(c, S))
<1> DEFINE p == Select(c, S)
<1>1. p \in Seq(AllCqes)
  <2>1. p \in Seq(AllCqes \cap S) /\ AllCqes \cap S \subseteq AllCqes
    BY SelectType
  <2> QED
    BY <2>1, SeqMonotonic
<1> HIDE DEF p
<1>2. \A i \in DOMAIN p : p[i] \in AllCqes
  BY <1>1, LenProperties, ElementOfSeq
<1>3. /\ [i \in DOMAIN p |-> ToBuffer(p[i].id, p[i].index)] = Mapped(BufferOf, p)
      /\ [i \in DOMAIN p |-> p[i].id] = Mapped(IdOf, p)
  BY <1>2 DEF Mapped, BufferOf, IdOf
<1> QED
  BY <1>1, <1>3 DEF p

\* The three queues.
LEMMA QueuesAre ==
  ASSUME cq \in Seq(AllCqes)
  PROVE  /\ ReadWait = Waiting(read_wait_queue, BufferOf, RecvPackets, cq)
         /\ FreeGroups = Waiting(read_wait_free_groups, IdOf, RecvEnds, cq)
         /\ FreeSlots = Waiting(send_free_queue, IdOf, SendsDone, cq)
  BY SelectedCqes
     DEF ReadWait, Packets, FreeGroups, Ends, FreeSlots, Done, Waiting, RecvPackets, RecvEnds, SendsDone

\* They are so in the next state.
LEMMA NextQueuesAre ==
  ASSUME cq' \in Seq(AllCqes)
  PROVE  /\ ReadWait' = Waiting(read_wait_queue', BufferOf, RecvPackets, cq')
         /\ FreeGroups' = Waiting(read_wait_free_groups', IdOf, RecvEnds, cq')
         /\ FreeSlots' = Waiting(send_free_queue', IdOf, SendsDone, cq')
  BY SelectedCqes
     DEF ReadWait, Packets, FreeGroups, Ends, FreeSlots, Done, Waiting, RecvPackets, RecvEnds, SendsDone

\* Elements of the queues are integers.
LEMMA QueuesInt ==
  ASSUME TypeOK
  PROVE  /\ cq \in Seq(AllCqes) /\ read_wait_queue \in Seq(Int)
         /\ read_wait_free_groups \in Seq(Int) /\ send_free_queue \in Seq(Int)
<1>1. Buffers \subseteq Int /\ GroupIds \subseteq Int /\ Slots \subseteq Int
  BY DEF Buffers, GroupIds, Slots
<1> QED
  BY <1>1, SeqMonotonic DEF TypeOK, AllCqes

\* After a poll the queues are what they are, and no completion is left.
LEMMA Polled ==
  ASSUME cq' = <<>>, NEW S, read_wait_queue' \in Seq(S),
         NEW T, read_wait_free_groups' \in Seq(T), NEW V, send_free_queue' \in Seq(V)
  PROVE  /\ ReadWait' = read_wait_queue' /\ FreeGroups' = read_wait_free_groups'
         /\ FreeSlots' = send_free_queue' /\ Packets' = <<>>
<1>1. cq' \in Seq(AllCqes)
  BY EmptySeq
<1>2. Packets' = <<>>
  BY SelectEmpty DEF Packets
<1> QED
  BY <1>1, <1>2, NextQueuesAre, WaitingNone

\* Nothing is polled and nothing completes.
LEMMA Unpolled ==
  ASSUME UNCHANGED <<queues, cq>>
  PROVE  /\ ReadWait' = ReadWait /\ FreeGroups' = FreeGroups
         /\ FreeSlots' = FreeSlots /\ Packets' = Packets
  BY DEF queues, ReadWait, FreeGroups, FreeSlots, Packets, Ends, Done

\* A completion adds to the queue it is for.
LEMMA Completed ==
  ASSUME TypeOK, NEW e \in AllCqes, UNCHANGED queues, cq' = Append(cq, e)
  PROVE  /\ cq' \in Seq(AllCqes)
         /\ ReadWait' = IF e \in RecvPackets THEN Append(ReadWait, BufferOf[e]) ELSE ReadWait
         /\ FreeGroups' = IF e \in RecvEnds THEN Append(FreeGroups, IdOf[e]) ELSE FreeGroups
         /\ FreeSlots' = IF e \in SendsDone THEN Append(FreeSlots, IdOf[e]) ELSE FreeSlots
         /\ Packets' = IF e \in RecvPackets THEN Append(Packets, e) ELSE Packets
<1>1. /\ cq \in Seq(AllCqes) /\ read_wait_queue \in Seq(Int)
      /\ read_wait_free_groups \in Seq(Int) /\ send_free_queue \in Seq(Int)
  BY QueuesInt
<1>2. cq' \in Seq(AllCqes)
  BY <1>1, AppendProperties
<1>3. UNCHANGED <<read_wait_queue, read_wait_free_groups, send_free_queue>>
  BY DEF queues
<1>4. Packets' = IF e \in RecvPackets THEN Append(Packets, e) ELSE Packets
  <2>1. Packets' = Select(Append(cq, e), RecvPackets) /\ Packets = Select(cq, RecvPackets)
    BY DEF Packets, RecvPackets, Cqes
  <2> QED
    BY <1>1, <2>1, SelectAppend
<1>5. /\ ReadWait' = Waiting(read_wait_queue, BufferOf, RecvPackets, Append(cq, e))
      /\ FreeGroups' = Waiting(read_wait_free_groups, IdOf, RecvEnds, Append(cq, e))
      /\ FreeSlots' = Waiting(send_free_queue, IdOf, SendsDone, Append(cq, e))
  BY <1>2, <1>3, NextQueuesAre
<1>6. /\ ReadWait = Waiting(read_wait_queue, BufferOf, RecvPackets, cq)
      /\ FreeGroups = Waiting(read_wait_free_groups, IdOf, RecvEnds, cq)
      /\ FreeSlots = Waiting(send_free_queue, IdOf, SendsDone, cq)
  BY <1>1, QueuesAre
<1>7. ReadWait' = IF e \in RecvPackets THEN Append(ReadWait, BufferOf[e]) ELSE ReadWait
  <2>1. Waiting(read_wait_queue, BufferOf, RecvPackets, Append(cq, e))
          = IF e \in RecvPackets THEN Append(Waiting(read_wait_queue, BufferOf, RecvPackets, cq), BufferOf[e])
            ELSE Waiting(read_wait_queue, BufferOf, RecvPackets, cq)
    BY <1>1, OfTypes, WaitingAppend
  <2> QED
    BY <1>5, <1>6, <2>1
<1>8. FreeGroups' = IF e \in RecvEnds THEN Append(FreeGroups, IdOf[e]) ELSE FreeGroups
  <2>1. Waiting(read_wait_free_groups, IdOf, RecvEnds, Append(cq, e))
          = IF e \in RecvEnds THEN Append(Waiting(read_wait_free_groups, IdOf, RecvEnds, cq), IdOf[e])
            ELSE Waiting(read_wait_free_groups, IdOf, RecvEnds, cq)
    BY <1>1, OfTypes, WaitingAppend
  <2> QED
    BY <1>5, <1>6, <2>1
<1>9. FreeSlots' = IF e \in SendsDone THEN Append(FreeSlots, IdOf[e]) ELSE FreeSlots
  <2>1. Waiting(send_free_queue, IdOf, SendsDone, Append(cq, e))
          = IF e \in SendsDone THEN Append(Waiting(send_free_queue, IdOf, SendsDone, cq), IdOf[e])
            ELSE Waiting(send_free_queue, IdOf, SendsDone, cq)
    BY <1>1, OfTypes, WaitingAppend
  <2> QED
    BY <1>5, <1>6, <2>1
<1> QED
  BY <1>2, <1>4, <1>7, <1>8, <1>9

\* add_send_to takes the first free buffer, if there is one.
LEMMA AddSendToDoes ==
  ASSUME TypeInv, AddSendTo
  PROVE  /\ ReadWait' = ReadWait /\ FreeGroups' = FreeGroups /\ Packets' = <<>> /\ cq' = <<>>
         /\ read_wait_queue' = ReadWait /\ read_wait_free_groups' = FreeGroups
         /\ send_free_queue' = FreeSlots'
         /\ \/ /\ FreeSlots # <<>> /\ FreeSlots' = Tail(FreeSlots) /\ sq' = Append(sq, Head(FreeSlots))
               /\ sends < MaxSends /\ sends' = sends + 1
               /\ send_bufs' = [send_bufs EXCEPT ![Head(FreeSlots)] = sends + 1]
            \/ FreeSlots = <<>> /\ FreeSlots' = FreeSlots /\ UNCHANGED <<send_bufs, sq, sends>>
<1>1. /\ cq' = <<>> /\ read_wait_queue' = ReadWait /\ read_wait_free_groups' = FreeGroups
      /\ \/ /\ FreeSlots # <<>> /\ send_free_queue' = Tail(FreeSlots) /\ sq' = Append(sq, Head(FreeSlots))
            /\ sends < MaxSends /\ sends' = sends + 1
            /\ send_bufs' = [send_bufs EXCEPT ![Head(FreeSlots)] = sends + 1]
         \/ FreeSlots = <<>> /\ send_free_queue' = <<>> /\ UNCHANGED <<send_bufs, sq, sends>>
  BY DEF AddSendTo
<1>2. /\ read_wait_queue' \in Seq(Buffers) /\ read_wait_free_groups' \in Seq(GroupIds)
      /\ send_free_queue' \in Seq(Slots)
  <2>1. FreeSlots # <<>> => Tail(FreeSlots) \in Seq(Slots)
    <3> DEFINE free == FreeSlots
    <3>1. free \in Seq(Slots)
      BY DEF TypeInv
    <3> HIDE DEF free
    <3>2. free # <<>> => Tail(free) \in Seq(Slots)
      BY <3>1, HeadTailProperties
    <3> QED
      BY <3>2 DEF free
  <2>2. (FreeSlots # <<>> /\ send_free_queue' = Tail(FreeSlots)) \/ send_free_queue' = <<>>
    BY <1>1
  <2> QED
    BY <1>1, <2>1, <2>2 DEF TypeInv
<1>3. /\ ReadWait' = read_wait_queue' /\ FreeGroups' = read_wait_free_groups'
      /\ FreeSlots' = send_free_queue' /\ Packets' = <<>>
  BY <1>1, <1>2, Polled
<1> QED
  BY <1>1, <1>3

\* recv_from takes the first buffer that waits, if there is one.
LEMMA RecvFromDoes ==
  ASSUME TypeInv, RecvFrom
  PROVE  /\ FreeSlots' = FreeSlots /\ FreeGroups' = FreeGroups /\ Packets' = <<>> /\ cq' = <<>>
         /\ send_free_queue' = FreeSlots /\ read_wait_free_groups' = FreeGroups
         /\ \/ ReadWait = <<>> /\ ReadWait' = ReadWait /\ phase' = "commit"
                 /\ UNCHANGED <<read_wait_queue, reading>>
            \/ ReadWait # <<>> /\ ReadWait' = Tail(ReadWait) /\ reading' = Head(ReadWait)
                 /\ read_wait_queue' = Tail(ReadWait) /\ phase' = "in"
<1>1. /\ cq' = <<>> /\ send_free_queue' = FreeSlots /\ read_wait_free_groups' = FreeGroups
      /\ \/ ReadWait = <<>> /\ phase' = "commit" /\ UNCHANGED <<read_wait_queue, reading>>
         \/ ReadWait # <<>> /\ reading' = Head(ReadWait)
                 /\ read_wait_queue' = Tail(ReadWait) /\ phase' = "in"
  BY DEF RecvFrom
<1>2. /\ read_wait_queue' \in Seq(Buffers) /\ read_wait_free_groups' \in Seq(GroupIds)
      /\ send_free_queue' \in Seq(Slots)
  <2>1. ReadWait \in Seq(Buffers) /\ FreeGroups \in Seq(GroupIds) /\ FreeSlots \in Seq(Slots)
    BY DEF TypeInv
  <2>2. read_wait_queue \in Seq(Buffers)
    BY DEF TypeInv, TypeOK
  <2>3. ReadWait # <<>> => Tail(ReadWait) \in Seq(Buffers)
    BY <2>1, HeadTailProperties
  <2> QED
    BY <1>1, <2>1, <2>2, <2>3
<1>3. /\ ReadWait' = read_wait_queue' /\ FreeGroups' = read_wait_free_groups'
      /\ FreeSlots' = send_free_queue' /\ Packets' = <<>>
  BY <1>1, <1>2, Polled
<1>4. ReadWait = <<>> => read_wait_queue = <<>>
  <2>1. cq \in Seq(AllCqes) /\ read_wait_queue \in Seq(Int)
    BY QueuesInt DEF TypeInv
  <2>2. ReadWait = Waiting(read_wait_queue, BufferOf, RecvPackets, cq)
    BY <2>1, QueuesAre
  <2>3. read_wait_queue # <<>> => Waiting(read_wait_queue, BufferOf, RecvPackets, cq) # <<>>
    BY <2>1, OfTypes, WaitingType
  <2> QED
    BY <2>2, <2>3
<1> QED
  BY <1>1, <1>3, <1>4

\* finish_read_from arms the first group that waits for it, if nothing is left to read.
LEMMA FinishDoes ==
  ASSUME TypeInv, FinishReading, UNCHANGED <<read_wait_queue, send_free_queue, cq>>
  PROVE  /\ ReadWait' = ReadWait /\ FreeSlots' = FreeSlots /\ Packets' = Packets
         /\ \/ /\ Rearm /\ read_wait_free_groups # <<>> /\ read_wait_queue = <<>>
               /\ read_wait_free_groups' = Tail(read_wait_free_groups)
               /\ FreeGroups # <<>> /\ Head(FreeGroups) = Head(read_wait_free_groups)
               /\ FreeGroups' = Tail(FreeGroups)
               /\ PrepareRead(Head(FreeGroups))
            \/ FreeGroups' = FreeGroups
                 /\ UNCHANGED <<provided, armed, read_wait_free_groups, sq, sending>>
<1>1. ReadWait' = ReadWait /\ FreeSlots' = FreeSlots /\ Packets' = Packets
  BY DEF ReadWait, FreeSlots, Packets, Done
<1>2. CASE Rearm
  <2>1. /\ read_wait_free_groups # <<>> /\ read_wait_queue = <<>>
        /\ read_wait_free_groups' = Tail(read_wait_free_groups)
        /\ PrepareRead(Head(read_wait_free_groups))
    BY <1>2 DEF FinishReading, Rearm
  <2>2. cq \in Seq(AllCqes) /\ cq' \in Seq(AllCqes) /\ read_wait_free_groups \in Seq(Int)
    BY QueuesInt DEF TypeInv
  <2>3. /\ FreeGroups = Waiting(read_wait_free_groups, IdOf, RecvEnds, cq)
        /\ FreeGroups' = Waiting(Tail(read_wait_free_groups), IdOf, RecvEnds, cq)
    BY <2>1, <2>2, QueuesAre, NextQueuesAre
  <2>4. /\ FreeGroups # <<>> /\ Head(FreeGroups) = Head(read_wait_free_groups)
        /\ FreeGroups' = Tail(FreeGroups)
    BY <2>1, <2>2, <2>3, OfTypes, WaitingType
  <2> QED
    BY <1>1, <1>2, <2>1, <2>4
<1>3. CASE ~Rearm
  BY <1>1, <1>3 DEF FinishReading, FreeGroups, Ends
<1> QED
  BY <1>2, <1>3

\* A packet makes its buffer wait to be read.
LEMMA PacketDoes ==
  ASSUME TypeInv, NEW g \in GroupIds, NEW i \in Indices, UNCHANGED queues,
         cq' = Append(cq, Cqe("recv", g, i, TRUE))
  PROVE  /\ cq' \in Seq(AllCqes)
         /\ ReadWait' = Append(ReadWait, ToBuffer(g, i)) /\ FreeGroups' = FreeGroups
         /\ FreeSlots' = FreeSlots
         /\ Packets' = Append(Packets, Cqe("recv", g, i, TRUE))
<1> DEFINE e == Cqe("recv", g, i, TRUE)
<1>1. e \in AllCqes /\ e \in RecvPackets /\ e \notin RecvEnds /\ e \notin SendsDone
      /\ e.id = g /\ e.index = i
  BY DEF Cqe, Cqes, AllCqes, RecvPackets, RecvEnds, SendsDone, GroupIds
<1>2. BufferOf[e] = ToBuffer(g, i)
  BY <1>1 DEF BufferOf
<1> HIDE DEF e
<1>3. TypeOK /\ cq' = Append(cq, e)
  BY DEF TypeInv, e
<1> QED
  BY <1>1, <1>2, <1>3, Completed DEF e

\* A receive that ends makes its group wait to be armed.
LEMMA EndDoes ==
  ASSUME TypeInv, NEW g \in GroupIds, UNCHANGED queues,
         cq' = Append(cq, Cqe("recv", g, 0, FALSE))
  PROVE  /\ cq' \in Seq(AllCqes)
         /\ ReadWait' = ReadWait /\ FreeGroups' = Append(FreeGroups, g)
         /\ FreeSlots' = FreeSlots /\ Packets' = Packets
<1> DEFINE e == Cqe("recv", g, 0, FALSE)
<1>1. e \in AllCqes /\ e \notin RecvPackets /\ e \in RecvEnds /\ e \notin SendsDone /\ e.id = g
  BY GroupSizeAssumption DEF Cqe, Cqes, AllCqes, RecvPackets, RecvEnds, SendsDone, GroupIds, Indices
<1>2. IdOf[e] = g
  BY <1>1 DEF IdOf
<1> HIDE DEF e
<1>3. TypeOK /\ cq' = Append(cq, e)
  BY DEF TypeInv, e
<1> QED
  BY <1>1, <1>2, <1>3, Completed

\* The completions of a send: the last one frees its buffer.
LEMMA SendDoes ==
  ASSUME TypeInv, NEW slot \in Slots, NEW more \in BOOLEAN, UNCHANGED queues,
         cq' = Append(cq, Cqe("send", slot, 0, more))
  PROVE  /\ cq' \in Seq(AllCqes)
         /\ ReadWait' = ReadWait /\ FreeGroups' = FreeGroups /\ Packets' = Packets
         /\ FreeSlots' = IF more THEN FreeSlots ELSE Append(FreeSlots, slot)
<1> DEFINE e == Cqe("send", slot, 0, more)
<1>0. e.op = "send" /\ e.id = slot /\ e.index = 0 /\ e.more = more /\ slot \in Nat /\ 0 \in Indices
  BY GroupSizeAssumption DEF Cqe, Slots, Indices
<1>1. /\ e \in AllCqes /\ e \notin RecvPackets /\ e \notin RecvEnds /\ (e \in SendsDone <=> ~more)
      /\ e.id = slot
  <2>1. e \notin RecvPackets /\ e \notin RecvEnds
    BY <1>0 DEF Cqes, RecvPackets, RecvEnds
  <2>2. CASE more = TRUE
    <3>1. e = [op |-> "send", id |-> slot, index |-> 0, more |-> TRUE]
      BY <2>2 DEF Cqe
    <3> DEFINE d == [op |-> "send", id |-> slot, index |-> 0, more |-> TRUE]
    <3>2. d \in AllCqes /\ d \notin SendsDone
      <4>1. slot \in Nat /\ 0 \in Indices
        BY <1>0
      <4> QED
        BY <4>1 DEF Cqes, AllCqes, SendsDone
    <3> QED
      BY <1>0, <2>1, <2>2, <3>1, <3>2
  <2>3. CASE more = FALSE
    <3>1. e = [op |-> "send", id |-> slot, index |-> 0, more |-> FALSE]
      BY <2>3 DEF Cqe
    <3> DEFINE d == [op |-> "send", id |-> slot, index |-> 0, more |-> FALSE]
    <3>2. d \in AllCqes /\ d \in SendsDone
      <4>1. slot \in Nat /\ 0 \in Indices
        BY <1>0
      <4> QED
        BY <4>1 DEF Cqes, AllCqes, SendsDone
    <3> QED
      BY <1>0, <2>1, <2>3, <3>1, <3>2
  <2> QED
    BY <2>2, <2>3
<1>2. IdOf[e] = slot
  BY <1>1 DEF IdOf
<1> HIDE DEF e
<1>3. TypeOK /\ cq' = Append(cq, e)
  BY DEF TypeInv, e
<1> QED
  BY <1>1, <1>2, <1>3, Completed

\* The head and the tail of a queue that is not empty, and what a queue is with one more.
LEMMA QueueTypes ==
  ASSUME NEW S, NEW q \in Seq(S)
  PROVE  /\ q # <<>> => Head(q) \in S /\ Tail(q) \in Seq(S)
         /\ \A e \in S : Append(q, e) \in Seq(S)
  BY HeadTailProperties, AppendProperties

\* Every step keeps the types.
LEMMA TypeStep == TypeInv /\ [Next]_vars => TypeInv'
<1> SUFFICES ASSUME TypeInv, [Next]_vars PROVE TypeInv'
  OBVIOUS
<1>0. TypeOK
  BY DEF TypeInv
<1>15. cq \in Seq(AllCqes)
  BY <1>0, QueuesInt
<1>16. \A c : c \in Seq(AllCqes) <=> c \in Seq(Cqes({"recv", "send"}, BOOLEAN))
  BY DEF AllCqes
<1>1. CASE StartReading
  <2>1. UNCHANGED <<queues, cq>>
    BY <1>1 DEF StartReading
  <2> QED
    BY <1>1, <2>1, Unpolled DEF StartReading, TypeInv, TypeOK, bufs, queues, kernel, outside, history
<1>2. CASE Input
  <2>1. UNCHANGED <<queues, cq>>
    BY <1>2 DEF Input
  <2>2. given' \in Seq(Nat) /\ taken' \in Nat
    <3>1. reading \in Buffers
      BY <1>0, <1>2 DEF Input, TypeOK
    <3>2. given' = Append(given, read_bufs[reading]) /\ read_bufs[reading] \in Nat /\ taken' = taken + 1
      BY <1>0, <1>2, <3>1 DEF Input, TypeOK
    <3> QED
      BY <1>0, <3>2, AppendProperties DEF TypeOK
  <2>3. reading' = None /\ UNCHANGED <<phase, bufs, queues, cq, sq, kernel, outside, sends>>
    BY <1>2 DEF Input
  <2> QED
    BY <2>1, <2>2, <2>3, Unpolled DEF TypeInv, TypeOK, bufs, queues, kernel, outside
<1>3. Submitted \in [Slots -> {"idle", "issued", "queued", "sent"}]
  BY <1>0 DEF Submitted, TypeOK
<1>4. CASE CommitSendTo
  <2>1. UNCHANGED <<queues, cq>>
    BY <1>4 DEF CommitSendTo
  <2>2. sq' \in Seq(Slots) /\ sending' \in [Slots -> {"idle", "issued", "queued", "sent"}]
    BY <1>0, <1>3, <1>4, EmptySeq DEF CommitSendTo, TypeOK
  <2>3. reading = None
    BY <1>4 DEF CommitSendTo, TypeInv
  <2>4. phase' = "finish" /\ UNCHANGED <<bufs, queues, cq, reading, provided, armed, outside, history>>
    BY <1>4 DEF CommitSendTo
  <2> QED
    BY <2>1, <2>2, <2>3, <2>4, Unpolled DEF TypeInv, TypeOK, bufs, queues, outside, history
<1>5. CASE Arrive
  <2>1. UNCHANGED <<queues, cq>>
    BY <1>5 DEF Arrive, worker
  <2>2. arrived' \in Nat /\ socket' \in Seq(Nat)
    BY <1>0, <1>5, QueueTypes DEF Arrive, TypeOK
  <2> QED
    BY <1>5, <2>1, <2>2, Unpolled DEF Arrive, TypeInv, TypeOK, worker, bufs, queues, kernel, history
<1>6. ASSUME NEW slot \in Slots, Transmit(slot) PROVE TypeInv'
  <2>1. UNCHANGED <<queues, cq>>
    BY <1>6 DEF Transmit, worker
  <2>2. wire' \subseteq Nat /\ sending' \in [Slots -> {"idle", "issued", "queued", "sent"}]
    BY <1>0, <1>6 DEF Transmit, TypeOK
  <2> QED
    BY <1>6, <2>1, <2>2, Unpolled DEF Transmit, TypeInv, TypeOK, worker, bufs, queues, history
<1>7. CASE AddSendTo
  <2>1. /\ FreeSlots \in Seq(Slots) /\ sq \in Seq(Slots) /\ send_bufs \in [Slots -> Nat] /\ sends \in Nat
        /\ ReadWait \in Seq(Buffers) /\ FreeGroups \in Seq(GroupIds) /\ reading = None
    BY <1>7 DEF AddSendTo, TypeInv, TypeOK
  <2>2. /\ FreeSlots' \in Seq(Slots) /\ sq' \in Seq(Slots)
        /\ send_bufs' \in [Slots -> Nat] /\ sends' \in Nat
    <3> DEFINE free == FreeSlots
    <3>1. free \in Seq(Slots) /\ (free # <<>> => Head(free) \in Slots /\ Tail(free) \in Seq(Slots))
      <4>1. free \in Seq(Slots)
        BY <2>1
      <4> HIDE DEF free
      <4> QED
        BY <4>1, QueueTypes
    <3>2. \/ /\ free # <<>> /\ FreeSlots' = Tail(free) /\ sq' = Append(sq, Head(free))
             /\ sends' = sends + 1
             /\ send_bufs' = [send_bufs EXCEPT ![Head(free)] = sends + 1]
          \/ FreeSlots' = free /\ UNCHANGED <<send_bufs, sq, sends>>
      BY <1>7, AddSendToDoes
    <3>3. free # <<>> => Append(sq, Head(free)) \in Seq(Slots)
      BY <2>1, <3>1, QueueTypes
    <3> HIDE DEF free
    <3>4. CASE /\ free # <<>> /\ FreeSlots' = Tail(free) /\ sq' = Append(sq, Head(free))
               /\ sends' = sends + 1
               /\ send_bufs' = [send_bufs EXCEPT ![Head(free)] = sends + 1]
      BY <2>1, <3>1, <3>3, <3>4
    <3>5. CASE FreeSlots' = free /\ UNCHANGED <<send_bufs, sq, sends>>
      BY <2>1, <3>1, <3>5
    <3> QED
      BY <3>2, <3>4, <3>5
  <2>3. /\ ReadWait' = ReadWait /\ FreeGroups' = FreeGroups /\ cq' = <<>>
        /\ read_wait_queue' = ReadWait /\ read_wait_free_groups' = FreeGroups
        /\ send_free_queue' = FreeSlots'
    BY <1>7, AddSendToDoes
  <2>4. cq' \in Seq(Cqes({"recv", "send"}, BOOLEAN))
    BY <2>3, EmptySeq
  <2>5. UNCHANGED <<phase, read_bufs, reading, kernel, outside, given, taken>>
    BY <1>7 DEF AddSendTo
  <2> QED
    BY <2>1, <2>2, <2>3, <2>4, <2>5 DEF TypeInv, TypeOK, kernel, outside
<1>8. CASE RecvFrom
  <2>1. /\ FreeSlots' = FreeSlots /\ FreeGroups' = FreeGroups /\ cq' = <<>>
        /\ send_free_queue' = FreeSlots /\ read_wait_free_groups' = FreeGroups
        /\ \/ ReadWait' = ReadWait /\ phase' = "commit" /\ UNCHANGED <<read_wait_queue, reading>>
           \/ ReadWait # <<>> /\ ReadWait' = Tail(ReadWait) /\ reading' = Head(ReadWait)
                 /\ read_wait_queue' = Tail(ReadWait) /\ phase' = "in"
    BY <1>8, RecvFromDoes
  <2>2. FreeSlots \in Seq(Slots) /\ FreeGroups \in Seq(GroupIds) /\ ReadWait \in Seq(Buffers)
    BY DEF TypeInv
  <2>3. ReadWait # <<>> => Head(ReadWait) \in Buffers /\ Tail(ReadWait) \in Seq(Buffers)
    <3> DEFINE waiting == ReadWait
    <3>1. waiting \in Seq(Buffers)
      BY <2>2
    <3> HIDE DEF waiting
    <3>2. waiting # <<>> => Head(waiting) \in Buffers /\ Tail(waiting) \in Seq(Buffers)
      BY <3>1, QueueTypes
    <3> QED
      BY <3>2 DEF waiting
  <2>4. cq' \in Seq(Cqes({"recv", "send"}, BOOLEAN))
    BY <2>1, EmptySeq
  <2>5. UNCHANGED <<bufs, sq, kernel, outside, history>> /\ reading = None
    BY <1>8 DEF RecvFrom
  <2>6. /\ ReadWait' \in Seq(Buffers) /\ read_wait_queue' \in Seq(Buffers)
        /\ reading' \in Buffers \cup {None} /\ phase' \in {"out", "in", "commit", "finish"}
        /\ reading' # None => phase' = "in"
    <3>1. CASE ReadWait' = ReadWait /\ phase' = "commit" /\ UNCHANGED <<read_wait_queue, reading>>
      BY <1>0, <2>2, <2>5, <3>1 DEF TypeOK
    <3>2. CASE ReadWait # <<>> /\ ReadWait' = Tail(ReadWait) /\ reading' = Head(ReadWait)
                 /\ read_wait_queue' = Tail(ReadWait) /\ phase' = "in"
      BY <2>3, <3>2
    <3> QED
      BY <2>1, <3>1, <3>2
  <2> QED
    BY <1>0, <2>1, <2>2, <2>4, <2>5, <2>6 DEF TypeInv, TypeOK, bufs, kernel, outside, history
<1>9. CASE FinishReadFrom
  <2>1. /\ FinishReading /\ phase' = "out" /\ taken' = 0 /\ phase = "finish"
        /\ UNCHANGED <<bufs, send_free_queue, read_wait_queue, reading, cq, outside, sends, given>>
    BY <1>9 DEF FinishReadFrom
  <2>2. /\ ReadWait' = ReadWait /\ FreeSlots' = FreeSlots
        /\ \/ /\ read_wait_free_groups # <<>>
              /\ read_wait_free_groups' = Tail(read_wait_free_groups)
              /\ FreeGroups # <<>> /\ FreeGroups' = Tail(FreeGroups)
              /\ PrepareRead(Head(FreeGroups))
           \/ FreeGroups' = FreeGroups
                /\ UNCHANGED <<provided, armed, read_wait_free_groups, sq, sending>>
    BY <2>1, FinishDoes
  <2>3. /\ FreeGroups' \in Seq(GroupIds) /\ read_wait_free_groups' \in Seq(GroupIds)
        /\ provided' \in [GroupIds -> SUBSET Indices] /\ armed' \subseteq GroupIds
        /\ sq' \in Seq(Slots) /\ sending' \in [Slots -> {"idle", "issued", "queued", "sent"}]
    <3> DEFINE free == FreeGroups
    <3>0. free \in Seq(GroupIds) /\ read_wait_free_groups \in Seq(GroupIds)
      BY DEF TypeInv, TypeOK
    <3>1. CASE /\ read_wait_free_groups # <<>>
               /\ read_wait_free_groups' = Tail(read_wait_free_groups)
               /\ FreeGroups # <<>> /\ FreeGroups' = Tail(FreeGroups)
               /\ PrepareRead(Head(FreeGroups))
      <4>1. /\ read_wait_free_groups # <<>>
            /\ read_wait_free_groups' = Tail(read_wait_free_groups)
            /\ free # <<>> /\ FreeGroups' = Tail(free)
            /\ provided' = [provided EXCEPT ![Head(free)] = Indices]
            /\ armed' = armed \cup {Head(free)}
            /\ sq' = <<>> /\ sending' = Submitted
        BY <3>1 DEF PrepareRead
      <4> HIDE DEF free
      <4>2. /\ Head(free) \in GroupIds /\ FreeGroups' \in Seq(GroupIds)
            /\ read_wait_free_groups' \in Seq(GroupIds)
        BY <3>0, <4>1, QueueTypes
      <4> QED
        BY <1>0, <1>3, <4>1, <4>2, EmptySeq DEF TypeOK
    <3>2. CASE FreeGroups' = FreeGroups
                /\ UNCHANGED <<provided, armed, read_wait_free_groups, sq, sending>>
      BY <1>0, <3>0, <3>2 DEF TypeOK
    <3> QED
      BY <2>2, <3>1, <3>2
  <2>4. reading' = None
    BY <2>1 DEF TypeInv
  <2> QED
    BY <1>0, <2>1, <2>2, <2>3, <2>4 DEF TypeInv, TypeOK, bufs, outside
<1>10. ASSUME NEW g \in GroupIds, Fill(g) PROVE TypeInv'
  <2>1. PICK i \in provided[g] :
          /\ provided' = [provided EXCEPT ![g] = @ \ {i}]
          /\ read_bufs' = [read_bufs EXCEPT ![ToBuffer(g, i)] = Head(socket)]
          /\ cq' = Append(cq, Cqe("recv", g, i, TRUE))
    BY <1>10 DEF Fill
  <2>2. i \in Indices /\ ToBuffer(g, i) \in Buffers
    BY <1>0, ToBufferType DEF TypeOK
  <2>3. UNCHANGED <<worker, send_bufs, armed, sending, arrived, wire>> /\ socket # <<>>
          /\ socket' = Tail(socket) /\ UNCHANGED queues
    BY <1>10 DEF Fill, worker
  <2>4. /\ cq' \in Seq(AllCqes) /\ ReadWait' = Append(ReadWait, ToBuffer(g, i))
        /\ FreeGroups' = FreeGroups /\ FreeSlots' = FreeSlots
    BY <2>1, <2>2, <2>3, PacketDoes
  <2>5. Head(socket) \in Nat /\ socket' \in Seq(Nat)
    BY <1>0, <2>3, QueueTypes DEF TypeOK
  <2>6. ReadWait' \in Seq(Buffers)
    <3> DEFINE waiting == ReadWait
               b == ToBuffer(g, i)
    <3>1. waiting \in Seq(Buffers) /\ b \in Buffers /\ ReadWait' = Append(waiting, b)
      BY <2>2, <2>4 DEF TypeInv
    <3> HIDE DEF waiting, b
    <3> QED
      BY <3>1, QueueTypes
  <2>7. provided' \in [GroupIds -> SUBSET Indices] /\ read_bufs' \in [Buffers -> Nat]
    BY <1>0, <2>1, <2>2, <2>5 DEF TypeOK
  <2> QED
    BY <1>16, <2>3, <2>4, <2>5, <2>6, <2>7 DEF TypeInv, TypeOK, worker, history, queues
<1>11. ASSUME NEW g \in GroupIds, Exhaust(g) PROVE TypeInv'
  <2>1. /\ armed' = armed \ {g} /\ cq' = Append(cq, Cqe("recv", g, 0, FALSE))
        /\ UNCHANGED <<worker, bufs, provided, sending, outside>> /\ UNCHANGED queues
    BY <1>11 DEF Exhaust, worker
  <2>2. /\ cq' \in Seq(AllCqes) /\ ReadWait' = ReadWait
        /\ FreeGroups' = Append(FreeGroups, g) /\ FreeSlots' = FreeSlots
    BY <2>1, EndDoes
  <2>3. FreeGroups' \in Seq(GroupIds)
    <3> DEFINE free == FreeGroups
    <3>1. free \in Seq(GroupIds) /\ FreeGroups' = Append(free, g)
      BY <2>2 DEF TypeInv
    <3> HIDE DEF free
    <3> QED
      BY <3>1, QueueTypes
  <2> QED
    BY <1>16, <2>1, <2>2, <2>3 DEF TypeInv, TypeOK, worker, history, queues, bufs, outside
<1>12. ASSUME NEW slot \in Slots, NEW more \in BOOLEAN, UNCHANGED <<worker, bufs, provided, armed, outside>>,
              NEW state \in {"idle", "queued"}, sending' = [sending EXCEPT ![slot] = state],
              cq' = Append(cq, Cqe("send", slot, 0, more))
       PROVE  TypeInv'
  <2>1. UNCHANGED queues
    BY <1>12 DEF worker
  <2>2. /\ cq' \in Seq(AllCqes) /\ ReadWait' = ReadWait /\ FreeGroups' = FreeGroups
        /\ FreeSlots' = IF more THEN FreeSlots ELSE Append(FreeSlots, slot)
    BY <1>12, <2>1, SendDoes
  <2>3. FreeSlots' \in Seq(Slots)
    <3> DEFINE free == FreeSlots
    <3>1. free \in Seq(Slots) /\ (FreeSlots' = free \/ FreeSlots' = Append(free, slot))
      BY <2>2 DEF TypeInv
    <3> HIDE DEF free
    <3> QED
      BY <3>1, QueueTypes
  <2>4. sending' \in [Slots -> {"idle", "issued", "queued", "sent"}]
    BY <1>0, <1>12 DEF TypeOK
  <2> QED
    BY <1>16, <1>12, <2>1, <2>2, <2>3, <2>4 DEF TypeInv, TypeOK, worker, history, queues, bufs, outside
<1>13. ASSUME NEW slot \in Slots, Queue(slot) \/ Fail(slot) \/ Notify(slot) PROVE TypeInv'
  BY <1>12, <1>13 DEF Queue, Fail, Notify
<1>14. CASE UNCHANGED vars
  <2>1. UNCHANGED <<queues, cq>>
    BY <1>14 DEF vars, worker
  <2> QED
    BY <1>14, <2>1, Unpolled
       DEF TypeInv, TypeOK, vars, worker, bufs, queues, kernel, outside, history
<1> QED
  BY <1>1, <1>2, <1>4, <1>5, <1>6, <1>7, <1>8, <1>9, <1>10, <1>11, <1>13, <1>14
     DEF Next, Cycle, Kernel

-----------------------------------------------------------------------------
(* The receive buffers.  That a group may be armed again once nothing is   *)
(* left to read rests on an order: the end of its receive is polled after  *)
(* the packets, so that no packet of a group that waits in the queue is    *)
(* still to be polled.                                                     *)

PolledFirst ==
  \A g \in Range(read_wait_free_groups) : \A e \in Range(Packets) : e.id # g

ReadsInv == ReadBuffersOwned /\ PolledFirst

\* A group in the queue has ended.
LEMMA QueuedGroups == TypeInv => Range(read_wait_free_groups) \subseteq Range(FreeGroups)
<1> SUFFICES ASSUME TypeInv PROVE Range(read_wait_free_groups) \subseteq Range(FreeGroups)
  OBVIOUS
<1>1. cq \in Seq(AllCqes) /\ read_wait_free_groups \in Seq(Int)
  BY QueuesInt DEF TypeInv
<1>2. Range(read_wait_free_groups) \subseteq Range(Waiting(read_wait_free_groups, IdOf, RecvEnds, cq))
  BY <1>1, OfTypes, WaitingType
<1> QED
  BY <1>1, <1>2, QueuesAre

\* When the queue of packets is empty, what waits are the packets to be polled.
LEMMA OnlyPolled ==
  ASSUME TypeInv, read_wait_queue = <<>>, NEW b \in Range(ReadWait)
  PROVE  \E e \in Range(Packets) : e.id \in Nat /\ e.index \in Indices /\ b = ToBuffer(e.id, e.index)
<1>1. Packets \in Seq(AllCqes)
  <2>1. cq \in Seq(AllCqes)
    BY QueuesInt DEF TypeInv
  <2> QED
    BY <2>1, SelectedCqes DEF Packets
<1> DEFINE m == [i \in DOMAIN Packets |-> ToBuffer(Packets[i].id, Packets[i].index)]
<1>2. ReadWait = <<>> \o m
  BY DEF ReadWait
<1>3. m \in Seq(Int)
  <2>1. cq \in Seq(AllCqes)
    BY QueuesInt DEF TypeInv
  <2>2. m = Mapped(BufferOf, Packets)
    BY <2>1, SelectedCqes DEF Packets
  <2>3. Mapped(BufferOf, Packets) \in Seq(Int)
    <3> DEFINE p == Packets
               f == BufferOf
    <3>1. p \in Seq(AllCqes) /\ Maps(f, AllCqes, Int)
      BY <1>1, OfTypes
    <3> HIDE DEF p, f
    <3>2. Mapped(f, p) \in Seq(Int)
      BY <3>1, MappedType
    <3> QED
      BY <3>2 DEF p, f
  <2> QED
    BY <2>2, <2>3
<1>4. ReadWait = m
  <2> HIDE DEF m
  <2> QED
    BY <1>2, <1>3, ConcatEmptySeq
<1>5. PICK i \in DOMAIN Packets : b = ToBuffer(Packets[i].id, Packets[i].index)
  BY <1>4 DEF Range
<1>6. Packets[i] \in AllCqes /\ Packets[i] \in Range(Packets)
  BY <1>1, LenProperties, ElementOfSeq DEF Range
<1>7. Packets[i].id \in Nat /\ Packets[i].index \in Indices
  BY <1>6 DEF AllCqes, Cqes
<1> QED
  BY <1>5, <1>6, <1>7

\* Every step leaves each receive buffer in one hand.
LEMMA ReadsStep == TypeInv /\ ReadsInv /\ [Next]_vars => ReadsInv'
<1> SUFFICES ASSUME TypeInv, ReadsInv, [Next]_vars PROVE ReadsInv'
  OBVIOUS
<1>0. /\ TypeOK /\ ReadWait \in Seq(Buffers) /\ FreeGroups \in Seq(GroupIds)
      /\ provided \in [GroupIds -> SUBSET Indices] /\ armed \subseteq GroupIds
  BY DEF TypeInv, TypeOK
<1>1. /\ IsInjective(ReadWait) /\ reading \notin Range(ReadWait)
      /\ \A g \in GroupIds : \A i \in provided[g] : ToBuffer(g, i) \notin Range(ReadWait) \cup {reading}
      /\ IsInjective(FreeGroups) /\ Range(FreeGroups) = GroupIds \ armed
      /\ \A g \in Range(FreeGroups) : provided[g] = {}
  BY DEF ReadsInv, ReadBuffersOwned
<1>2. \A b \in Buffers : b # None
  BY DEF Buffers, None
<1>3. ASSUME ReadWait' = ReadWait, FreeGroups' = FreeGroups, UNCHANGED <<reading, provided, armed>>,
             Packets' = <<>> \/ UNCHANGED <<Packets, read_wait_free_groups>>
      PROVE  ReadsInv'
  <2>1. Range(<<>>) = {}
    BY DEF Range
  <2>2. PolledFirst'
    BY <1>3, <2>1 DEF PolledFirst, ReadsInv
  <2> QED
    BY <1>1, <1>3, <2>2 DEF ReadsInv, ReadBuffersOwned
<1>4. ASSUME UNCHANGED <<queues, cq, reading, provided, armed>> PROVE ReadsInv'
  <2>1. UNCHANGED <<queues, cq>> /\ UNCHANGED read_wait_free_groups
    BY <1>4 DEF queues
  <2>2. ReadWait' = ReadWait /\ FreeGroups' = FreeGroups /\ Packets' = Packets
    BY <2>1, Unpolled
  <2> QED
    BY <1>3, <1>4, <2>1, <2>2
<1>5. CASE StartReading \/ CommitSendTo \/ Arrive
  BY <1>4, <1>5 DEF StartReading, CommitSendTo, Arrive, worker, kernel
<1>6. ASSUME NEW slot \in Slots, Transmit(slot) PROVE ReadsInv'
  BY <1>4, <1>6 DEF Transmit, worker
<1>7. ASSUME NEW slot \in Slots, Queue(slot) \/ Fail(slot) \/ Notify(slot) PROVE ReadsInv'
  <2>1. PICK more \in BOOLEAN :
          UNCHANGED <<worker, provided, armed>> /\ cq' = Append(cq, Cqe("send", slot, 0, more))
    BY <1>7 DEF Queue, Fail, Notify
  <2>2. UNCHANGED queues /\ UNCHANGED <<read_wait_free_groups, reading>>
    BY <2>1 DEF worker, queues
  <2>3. ReadWait' = ReadWait /\ FreeGroups' = FreeGroups /\ Packets' = Packets
    BY <2>1, <2>2, SendDoes
  <2> QED
    BY <1>3, <2>1, <2>2, <2>3
<1>8. CASE AddSendTo
  <2>1. ReadWait' = ReadWait /\ FreeGroups' = FreeGroups /\ Packets' = <<>>
    BY <1>8, AddSendToDoes
  <2> QED
    BY <1>3, <1>8, <2>1 DEF AddSendTo, kernel
<1>9. CASE Input
  <2>1. ReadWait' = ReadWait /\ FreeGroups' = FreeGroups /\ Packets' = Packets
    BY <1>9, Unpolled DEF Input
  <2>2. reading' = None /\ UNCHANGED <<provided, armed, read_wait_free_groups>>
    BY <1>9 DEF Input, kernel, queues
  <2>3. PolledFirst'
    BY <2>1, <2>2 DEF PolledFirst, ReadsInv
  <2>4. Range(ReadWait) \subseteq Buffers
    <3> DEFINE waiting == ReadWait
    <3>1. waiting \in Seq(Buffers)
      BY <1>0
    <3> HIDE DEF waiting
    <3>2. Range(waiting) \in SUBSET Buffers
      BY <3>1, RangeOfSeq
    <3> QED
      BY <3>2 DEF waiting
  <2>5. \A g \in GroupIds : \A i \in provided[g] : ToBuffer(g, i) # None
    BY <1>0, <1>2, ToBufferType
  <2> QED
    BY <1>1, <1>2, <2>1, <2>2, <2>3, <2>4, <2>5 DEF ReadsInv, ReadBuffersOwned
<1>10. CASE RecvFrom
  <2>1. FreeGroups' = FreeGroups /\ Packets' = <<>> /\ UNCHANGED <<provided, armed>>
    BY <1>10, RecvFromDoes DEF RecvFrom, kernel
  <2>2. \/ ReadWait' = ReadWait /\ reading' = reading
        \/ ReadWait # <<>> /\ ReadWait' = Tail(ReadWait) /\ reading' = Head(ReadWait)
    BY <1>10, RecvFromDoes
  <2>3. CASE ReadWait' = ReadWait /\ reading' = reading
    BY <1>3, <2>1, <2>3
  <2>4. CASE ReadWait # <<>> /\ ReadWait' = Tail(ReadWait) /\ reading' = Head(ReadWait)
    <3> DEFINE waiting == ReadWait
    <3>1. waiting \in Seq(Buffers) /\ waiting # <<>> /\ IsInjective(waiting)
      BY <1>0, <1>1, <2>4
    <3>2. /\ Head(waiting) \in Range(waiting) /\ Range(Tail(waiting)) = Range(waiting) \ {Head(waiting)}
          /\ IsInjective(Tail(waiting))
      <4> HIDE DEF waiting
      <4> QED
        BY <3>1, RangeTail
    <3>3. /\ IsInjective(ReadWait') /\ Range(ReadWait') = Range(ReadWait) \ {reading'}
          /\ reading' \in Range(ReadWait)
      BY <2>4, <3>2
    <3>4. PolledFirst'
      BY <2>1 DEF PolledFirst, Range
    <3> QED
      BY <1>1, <2>1, <3>3, <3>4 DEF ReadsInv, ReadBuffersOwned
  <2> QED
    BY <2>2, <2>3, <2>4
<1>11. CASE FinishReadFrom
  <2>1. FinishReading /\ UNCHANGED <<read_wait_queue, send_free_queue, cq, reading>> /\ phase = "finish"
    BY <1>11 DEF FinishReadFrom
  <2>2. reading = None
    BY <2>1 DEF TypeInv
  <2>3. ReadWait' = ReadWait /\ Packets' = Packets
    BY <2>1, FinishDoes
  <2>4. CASE FreeGroups' = FreeGroups /\ UNCHANGED <<provided, armed, read_wait_free_groups>>
    BY <1>3, <2>1, <2>3, <2>4
  <2>5. CASE /\ read_wait_free_groups # <<>> /\ read_wait_queue = <<>>
             /\ read_wait_free_groups' = Tail(read_wait_free_groups)
             /\ FreeGroups # <<>> /\ Head(FreeGroups) = Head(read_wait_free_groups)
             /\ FreeGroups' = Tail(FreeGroups)
             /\ PrepareRead(Head(FreeGroups))
    <3> DEFINE free == FreeGroups
               h    == Head(free)
    <3>1. free \in Seq(GroupIds) /\ free # <<>> /\ IsInjective(free)
      BY <1>0, <1>1, <2>5
    <3>2. h \in Range(free) /\ Range(Tail(free)) = Range(free) \ {h} /\ IsInjective(Tail(free))
      <4> HIDE DEF free
      <4> QED
        BY <3>1, RangeTail
    <3>3. h \in Range(read_wait_free_groups) /\ Range(Tail(read_wait_free_groups)) \subseteq Range(read_wait_free_groups)
      <4>1. read_wait_free_groups \in Seq(GroupIds) /\ read_wait_free_groups # <<>>
              /\ h = Head(read_wait_free_groups)
        BY <1>0, <2>5 DEF TypeOK
      <4> HIDE DEF h
      <4> QED
        BY <4>1, RangeHeadTail
    <3>4. /\ IsInjective(FreeGroups') /\ Range(FreeGroups') = Range(FreeGroups) \ {h}
          /\ provided' = [provided EXCEPT ![h] = Indices] /\ armed' = armed \cup {h}
          /\ h \in GroupIds /\ h \in Range(FreeGroups)
      BY <1>1, <2>5, <3>2 DEF PrepareRead
    <3> HIDE DEF h
    <3>5. \A i \in Indices : ToBuffer(h, i) \notin Range(ReadWait)
      <4> SUFFICES ASSUME NEW i \in Indices, ToBuffer(h, i) \in Range(ReadWait) PROVE FALSE
        OBVIOUS
      <4>1. PICK e \in Range(Packets) :
              e.id \in Nat /\ e.index \in Indices /\ ToBuffer(h, i) = ToBuffer(e.id, e.index)
        BY <2>5, OnlyPolled
      <4>2. h \in Nat
        BY <3>4 DEF GroupIds
      <4>3. h = e.id
        BY <4>1, <4>2, ToBufferInjective
      <4> QED
        BY <3>3, <4>1, <4>3 DEF ReadsInv, PolledFirst
    <3>6. \A g \in GroupIds : \A i \in provided'[g] : ToBuffer(g, i) \notin Range(ReadWait) \cup {reading}
      <4> SUFFICES ASSUME NEW g \in GroupIds, NEW i \in provided'[g]
                   PROVE  ToBuffer(g, i) \notin Range(ReadWait) \cup {reading}
        OBVIOUS
      <4>1. CASE g = h
        <5>1. i \in Indices
          BY <1>0, <3>4, <4>1
        <5>2. ToBuffer(g, i) # None
          BY <1>2, <5>1, ToBufferType
        <5> QED
          BY <2>2, <3>5, <4>1, <5>1, <5>2
      <4>2. CASE g # h
        <5>1. i \in provided[g]
          BY <1>0, <3>4, <4>2
        <5> QED
          BY <1>1, <5>1
      <4> QED
        BY <4>1, <4>2
    <3>7. \A g \in Range(FreeGroups') : provided'[g] = {}
      BY <1>0, <1>1, <3>4
    <3>8. PolledFirst'
      BY <2>3, <2>5, <3>3 DEF ReadsInv, PolledFirst
    <3>9. reading' = reading
      BY <2>1
    <3>10. Range(FreeGroups') = GroupIds \ armed'
      BY <1>1, <3>4
    <3> QED
      BY <1>1, <2>3, <3>4, <3>6, <3>7, <3>8, <3>9, <3>10 DEF ReadsInv, ReadBuffersOwned
  <2> QED
    BY <2>1, <2>4, <2>5, FinishDoes
<1>12. ASSUME NEW g \in GroupIds, Fill(g) PROVE ReadsInv'
  <2>1. PICK i \in provided[g] :
          /\ provided' = [provided EXCEPT ![g] = @ \ {i}]
          /\ cq' = Append(cq, Cqe("recv", g, i, TRUE))
    BY <1>12 DEF Fill
  <2>2. g \in armed /\ UNCHANGED queues /\ UNCHANGED <<read_wait_free_groups, reading, armed>>
    BY <1>12 DEF Fill, worker, queues
  <2> DEFINE b == ToBuffer(g, i)
             e == Cqe("recv", g, i, TRUE)
  <2>3. i \in Indices /\ b \in Buffers /\ g \in Nat
    BY <1>0, ToBufferType DEF GroupIds
  <2>4. /\ ReadWait' = Append(ReadWait, b) /\ FreeGroups' = FreeGroups
        /\ Packets' = Append(Packets, e)
    BY <2>1, <2>2, <2>3, PacketDoes
  <2>5. b \notin Range(ReadWait) /\ b # reading
    BY <1>1, <2>1
  <2>6. Range(ReadWait') = Range(ReadWait) \cup {b} /\ IsInjective(ReadWait')
    <3> DEFINE waiting == ReadWait
    <3>1. waiting \in Seq(Buffers) /\ IsInjective(waiting) /\ b \notin Range(waiting)
            /\ ReadWait' = Append(waiting, b)
      BY <1>0, <1>1, <2>4, <2>5
    <3>2. Range(Append(waiting, b)) = Range(waiting) \cup {b} /\ IsInjective(Append(waiting, b))
      <4> HIDE DEF waiting, b
      <4> QED
        BY <2>3, <3>1, RangeAppend
    <3> QED
      BY <3>1, <3>2
  <2>7. \A k \in GroupIds : \A j \in provided'[k] :
           ToBuffer(k, j) \notin Range(ReadWait) \cup {reading} /\ ToBuffer(k, j) # b
    <3> SUFFICES ASSUME NEW k \in GroupIds, NEW j \in provided'[k]
                 PROVE  ToBuffer(k, j) \notin Range(ReadWait) \cup {reading} /\ ToBuffer(k, j) # b
      OBVIOUS
    <3>1. j \in provided[k] /\ (k = g => j # i) /\ j \in Indices /\ k \in Nat
      <4>1. CASE k = g
        BY <1>0, <2>1, <4>1 DEF GroupIds
      <4>2. CASE k # g
        BY <1>0, <2>1, <4>2 DEF GroupIds
      <4> QED
        BY <4>1, <4>2
    <3> QED
      BY <1>1, <2>3, <3>1, ToBufferInjective
  <2>8. g \notin Range(FreeGroups)
    BY <1>1, <2>2
  <2>9. \A k \in Range(FreeGroups) : provided'[k] = {}
    BY <1>0, <1>1, <2>1, <2>8
  <2>10. PolledFirst'
    <3>1. g \notin Range(read_wait_free_groups)
      BY <2>8, QueuedGroups
    <3>2. Range(Packets') = Range(Packets) \cup {e}
      <4> DEFINE p == Packets
      <4>1. p \in Seq(AllCqes)
        <5>1. cq \in Seq(AllCqes)
          BY <1>0, QueuesInt
        <5> QED
          BY <5>1, SelectedCqes DEF Packets
      <4>2. e \in AllCqes
        BY <2>3 DEF Cqe, AllCqes, Cqes
      <4> HIDE DEF p, e
      <4>3. Range(Append(p, e)) = Range(p) \cup {e}
        BY <4>1, <4>2, RangeOfAppend
      <4> QED
        BY <2>4, <4>3 DEF p
    <3>3. e.id = g
      BY DEF Cqe
    <3> HIDE DEF e
    <3> QED
      BY <2>2, <3>1, <3>2, <3>3 DEF ReadsInv, PolledFirst
  <2> HIDE DEF b
  <2> QED
    BY <1>1, <2>2, <2>4, <2>5, <2>6, <2>7, <2>9, <2>10 DEF ReadsInv, ReadBuffersOwned
<1>13. ASSUME NEW g \in GroupIds, Exhaust(g) PROVE ReadsInv'
  <2>1. /\ g \in armed /\ armed' = armed \ {g} /\ cq' = Append(cq, Cqe("recv", g, 0, FALSE))
        /\ provided[g] = {} /\ provided' = provided
        /\ UNCHANGED queues /\ UNCHANGED <<read_wait_free_groups, reading>>
    BY <1>13 DEF Exhaust, worker, queues
  <2>2. ReadWait' = ReadWait /\ FreeGroups' = Append(FreeGroups, g) /\ Packets' = Packets
    BY <2>1, EndDoes
  <2>3. Range(FreeGroups') = Range(FreeGroups) \cup {g} /\ IsInjective(FreeGroups')
    <3> DEFINE free == FreeGroups
    <3>1. free \in Seq(GroupIds) /\ IsInjective(free) /\ g \notin Range(free)
            /\ FreeGroups' = Append(free, g)
      BY <1>0, <1>1, <2>1, <2>2
    <3>2. Range(Append(free, g)) = Range(free) \cup {g} /\ IsInjective(Append(free, g))
      <4> HIDE DEF free
      <4> QED
        BY <3>1, RangeAppend
    <3> QED
      BY <3>1, <3>2
  <2>4. PolledFirst'
    BY <2>1, <2>2 DEF ReadsInv, PolledFirst
  <2> QED
    BY <1>1, <2>1, <2>2, <2>3, <2>4 DEF ReadsInv, ReadBuffersOwned
<1>14. CASE UNCHANGED vars
  BY <1>4, <1>14 DEF vars, worker, kernel
<1> QED
  BY <1>5, <1>6, <1>7, <1>8, <1>9, <1>10, <1>11, <1>12, <1>13, <1>14 DEF Next, Cycle, Kernel

\* The first state, with nothing in the rings.
LEMMA FirstQueues ==
  Init => /\ ReadWait = <<>> /\ FreeGroups = <<>> /\ Packets = <<>>
          /\ FreeSlots = send_free_queue /\ send_free_queue \in Seq(Slots) /\ TypeInv
<1> SUFFICES ASSUME Init
             PROVE  /\ ReadWait = <<>> /\ FreeGroups = <<>> /\ Packets = <<>>
                    /\ FreeSlots = send_free_queue /\ send_free_queue \in Seq(Slots) /\ TypeInv
  OBVIOUS
<1>1. cq = <<>> /\ read_wait_queue = <<>> /\ read_wait_free_groups = <<>> /\ cq \in Seq(AllCqes)
  BY EmptySeq DEF Init
<1>2. send_free_queue \in Seq(Slots)
  <2>1. send_free_queue \in [1 .. SendQueue -> Slots]
    BY SendQueueAssumption DEF Init, Slots
  <2> QED
    BY <2>1, SendQueueAssumption, IsASeq DEF Init, Slots
<1>3. /\ ReadWait = Waiting(<<>>, BufferOf, RecvPackets, <<>>)
      /\ FreeGroups = Waiting(<<>>, IdOf, RecvEnds, <<>>)
      /\ FreeSlots = Waiting(send_free_queue, IdOf, SendsDone, <<>>)
  BY <1>1, QueuesAre
<1>4. <<>> \in Seq(Int)
  BY EmptySeq
<1>5. ReadWait = <<>> /\ FreeGroups = <<>> /\ FreeSlots = send_free_queue
  BY <1>2, <1>3, <1>4, WaitingNone
<1>6. Packets = <<>>
  BY <1>1, SelectEmpty DEF Packets
<1>7. TypeOK
  <2>1. /\ phase = "out" /\ read_wait_queue = <<>> /\ read_wait_free_groups = <<>> /\ reading = None
        /\ sq = <<>> /\ cq = <<>> /\ armed = GroupIds /\ socket = <<>>
        /\ arrived = 0 /\ sends = 0 /\ given = <<>> /\ wire = {} /\ taken = 0
    BY DEF Init
  <2>2. /\ send_bufs \in [Slots -> Nat] /\ read_bufs \in [Buffers -> Nat]
        /\ provided \in [GroupIds -> SUBSET Indices]
        /\ sending \in [Slots -> {"idle", "issued", "queued", "sent"}]
    BY DEF Init
  <2> QED
    BY <1>2, <2>1, <2>2, EmptySeq DEF TypeOK
<1>8. reading = None
  BY DEF Init
<1> QED
  BY <1>2, <1>5, <1>6, <1>7, <1>8, EmptySeq DEF TypeInv

\* The invariant of the receive buffers holds at first.
LEMMA ReadsInit == Init => ReadsInv
<1> SUFFICES ASSUME Init PROVE ReadsInv
  OBVIOUS
<1>1. /\ ReadWait = <<>> /\ FreeGroups = <<>> /\ Packets = <<>> /\ read_wait_free_groups = <<>>
      /\ armed = GroupIds /\ reading = None /\ provided \in [GroupIds -> SUBSET Indices]
  BY FirstQueues DEF Init, TypeInv, TypeOK
<1>2. Range(<<>>) = {} /\ IsInjective(<<>>)
  BY DEF Range, IsInjective
<1>3. \A g \in GroupIds : \A i \in provided[g] : ToBuffer(g, i) # None
  <2>1. \A b \in Buffers : b # None
    BY DEF Buffers, None
  <2> QED
    BY <1>1, <2>1, ToBufferType
<1> QED
  BY <1>1, <1>2, <1>3 DEF ReadsInv, ReadBuffersOwned, PolledFirst

\* The types, in every reachable state.
LEMMA TypeInvariant == Spec => []TypeInv
<1>1. Init => TypeInv
  BY FirstQueues
<1> QED
  BY <1>1, TypeStep, PTL DEF Spec

\* Both rings and all queues, as they are and as they are after a poll, hold what
\* their readers take from them.
THEOREM IoUringTypes == Spec => []TypeOK
<1>1. TypeInv => TypeOK
  BY DEF TypeInv
<1> QED
  BY <1>1, TypeInvariant, PTL

\* Each receive buffer in one hand, in every reachable state.
LEMMA ReadsInvariant == Spec => []ReadsInv
  BY ReadsInit, ReadsStep, TypeInvariant, PTL DEF Spec

\* A buffer the kernel may fill holds no packet that is still to be read or being read,
\* no packet is read twice, and the groups that wait to be armed are those whose
\* receive has ended.
THEOREM ReadBuffers == Spec => []ReadBuffersOwned
<1>1. ReadsInv => ReadBuffersOwned
  BY DEF ReadsInv
<1> QED
  BY <1>1, ReadsInvariant, PTL

-----------------------------------------------------------------------------
(* The send buffers: those that are free and those in the ring are the      *)
(* idle ones, each once.                                                    *)

Idle == {slot \in Slots : sending[slot] = "idle"}

Owned(free, ring, idle) ==
  /\ IsInjective(free) /\ IsInjective(ring)
  /\ Range(free) \cap Range(ring) = {}
  /\ Range(free) \cup Range(ring) = idle

\* The property, by its parts.
LEMMA Ownership ==
  ASSUME NEW S, NEW free \in Seq(S), NEW ring \in Seq(S), NEW idle
  PROVE  IsInjective(free \o ring) /\ Range(free \o ring) = idle <=> Owned(free, ring, idle)
<1>1. Range(free \o ring) = Range(free) \cup Range(ring)
  BY RangeConcatenation
<1>2. IsInjective(free \o ring)
        <=> IsInjective(free) /\ IsInjective(ring) /\ Range(free) \cap Range(ring) = {}
  BY InjectiveConcat
<1> QED
  BY <1>1, <1>2 DEF Owned

\* add_send_to moves a free buffer to the ring.
LEMMA OwnedPush ==
  ASSUME NEW S, NEW free \in Seq(S), NEW ring \in Seq(S), NEW idle, Owned(free, ring, idle), free # <<>>
  PROVE  Owned(Tail(free), Append(ring, Head(free)), idle)
<1>1. /\ Head(free) \in Range(free) /\ Range(Tail(free)) = Range(free) \ {Head(free)}
      /\ IsInjective(Tail(free)) /\ Head(free) \in S
  BY RangeTail, QueueTypes DEF Owned
<1>2. Head(free) \notin Range(ring)
  BY <1>1 DEF Owned
<1>3. Range(Append(ring, Head(free))) = Range(ring) \cup {Head(free)} /\ IsInjective(Append(ring, Head(free)))
  <2> DEFINE h == Head(free)
  <2>1. h \in S /\ h \notin Range(ring) /\ IsInjective(ring)
    BY <1>1, <1>2 DEF Owned
  <2> HIDE DEF h
  <2>2. Range(Append(ring, h)) = Range(ring) \cup {h} /\ IsInjective(Append(ring, h))
    BY <2>1, RangeAppend
  <2> QED
    BY <2>2 DEF h
<1> QED
  BY <1>1, <1>3 DEF Owned

\* A submit hands the buffers of the ring to the kernel.
LEMMA OwnedSubmit ==
  ASSUME NEW free, NEW ring, NEW idle, Owned(free, ring, idle)
  PROVE  Owned(free, <<>>, idle \ Range(ring))
<1>1. Range(<<>>) = {} /\ IsInjective(<<>>)
  BY DEF Range, IsInjective
<1> QED
  BY <1>1 DEF Owned

\* The last completion of a send gives its buffer back.
LEMMA OwnedReturn ==
  ASSUME NEW S, NEW free \in Seq(S), NEW ring, NEW idle, Owned(free, ring, idle),
         NEW slot \in S, slot \notin idle
  PROVE  Owned(Append(free, slot), ring, idle \cup {slot})
<1>1. slot \notin Range(free) /\ slot \notin Range(ring) /\ IsInjective(free)
  BY DEF Owned
<1>2. Range(Append(free, slot)) = Range(free) \cup {slot} /\ IsInjective(Append(free, slot))
  BY <1>1, RangeAppend
<1> QED
  BY <1>1, <1>2 DEF Owned

\* What a submit changes: the buffers of the ring are idle no more.
LEMMA Submits ==
  ASSUME TypeInv, sending' = Submitted
  PROVE  /\ Idle' = Idle \ Range(sq)
         /\ {s \in Slots : sending[s] = "issued"} \cup Range(sq) = {s \in Slots : sending'[s] = "issued"}
         /\ \A s \in Slots : s \notin Range(sq) => sending'[s] = sending[s]
<1>1. sending \in [Slots -> {"idle", "issued", "queued", "sent"}] /\ sq \in Seq(Slots)
  BY DEF TypeInv, TypeOK
<1>2. \A s \in Slots : sending'[s] = IF s \in Range(sq) THEN "issued" ELSE sending[s]
  BY <1>1 DEF Submitted, Range
<1>3. Range(sq) \subseteq Slots
  <2>1. Range(sq) \in SUBSET Slots
    BY <1>1, RangeOfSeq
  <2> QED
    BY <2>1
<1> QED
  BY <1>2, <1>3 DEF Idle

\* Every step leaves each send buffer in one hand.
LEMMA SendsStep == TypeInv /\ TypeInv' /\ SendBuffersOwned /\ [Next]_vars => SendBuffersOwned'
<1> SUFFICES ASSUME TypeInv, TypeInv', SendBuffersOwned, [Next]_vars PROVE SendBuffersOwned'
  OBVIOUS
<1> DEFINE free == FreeSlots
           idle == Idle
<1>0. /\ free \in Seq(Slots) /\ sq \in Seq(Slots)
      /\ sending \in [Slots -> {"idle", "issued", "queued", "sent"}]
  BY DEF TypeInv, TypeOK
<1>1. Owned(free, sq, idle)
  <2>1. IsInjective(free \o sq) /\ Range(free \o sq) = idle
    BY DEF SendBuffersOwned, Idle
  <2> HIDE DEF free, idle
  <2> QED
    BY <1>0, <2>1, Ownership
<1>2. ASSUME Owned(free', sq', idle') PROVE SendBuffersOwned'
  <2> DEFINE f == free'
             r == sq'
             d == idle'
  <2>1. f \in Seq(Slots) /\ r \in Seq(Slots) /\ Owned(f, r, d)
    BY <1>2 DEF TypeInv, TypeOK
  <2> HIDE DEF f, r, d
  <2>2. IsInjective(f \o r) /\ Range(f \o r) = d
    BY <2>1, Ownership
  <2> QED
    BY <2>2 DEF f, r, d, SendBuffersOwned, Idle
<1>3. ASSUME UNCHANGED <<queues, cq, sq, sending>> PROVE SendBuffersOwned'
  <2>1. free' = free /\ sq' = sq /\ idle' = idle
    BY <1>3, Unpolled DEF Idle
  <2> HIDE DEF free, idle
  <2> QED
    BY <1>1, <1>2, <2>1
<1>4. ASSUME sq' = <<>>, sending' = Submitted, free' = free PROVE SendBuffersOwned'
  <2>1. idle' = idle \ Range(sq)
    BY <1>4, Submits
  <2> HIDE DEF free, idle
  <2> QED
    BY <1>1, <1>2, <1>4, <2>1, OwnedSubmit
<1>5. CASE StartReading \/ Input \/ Arrive
  BY <1>3, <1>5 DEF StartReading, Input, Arrive, worker, kernel, history
<1>6. CASE CommitSendTo
  <2>1. UNCHANGED <<queues, cq>>
    BY <1>6 DEF CommitSendTo
  <2>2. free' = free
    BY <2>1, Unpolled
  <2> QED
    BY <1>3, <1>4, <1>6, <2>1, <2>2 DEF CommitSendTo
<1>7. CASE AddSendTo
  <2>1. /\ \/ free # <<>> /\ free' = Tail(free) /\ sq' = Append(sq, Head(free))
           \/ free' = free /\ sq' = sq
        /\ idle' = idle
    BY <1>7, AddSendToDoes DEF AddSendTo, kernel, Idle
  <2> HIDE DEF free, idle
  <2>2. CASE free # <<>> /\ free' = Tail(free) /\ sq' = Append(sq, Head(free))
    <3>1. Owned(Tail(free), Append(sq, Head(free)), idle)
      BY <1>0, <1>1, <2>2, OwnedPush
    <3> QED
      BY <1>2, <2>1, <2>2, <3>1
  <2> QED
    BY <1>1, <1>2, <2>1, <2>2
<1>8. CASE RecvFrom
  <2>1. free' = free /\ sq' = sq /\ idle' = idle
    BY <1>8, RecvFromDoes DEF RecvFrom, kernel, Idle
  <2> HIDE DEF free, idle
  <2> QED
    BY <1>1, <1>2, <2>1
<1>9. CASE FinishReadFrom
  <2>1. /\ free' = free
        /\ \/ sq' = <<>> /\ sending' = Submitted
           \/ UNCHANGED <<sq, sending>>
    BY <1>9, FinishDoes DEF FinishReadFrom, PrepareRead
  <2>2. CASE UNCHANGED <<sq, sending>>
    <3>1. idle' = idle
      BY <2>2 DEF Idle
    <3> HIDE DEF free, idle
    <3> QED
      BY <1>1, <1>2, <2>1, <2>2, <3>1
  <2> QED
    BY <1>4, <2>1, <2>2
<1>10. ASSUME NEW g \in GroupIds, Fill(g) \/ Exhaust(g) PROVE SendBuffersOwned'
  <2>1. UNCHANGED queues /\ UNCHANGED <<sq, sending>>
    BY <1>10 DEF Fill, Exhaust, worker, queues
  <2>2. idle' = idle
    BY <2>1 DEF Idle
  <2>3. free' = free
    <3>1. CASE Fill(g)
      <4>1. PICK i \in provided[g] : cq' = Append(cq, Cqe("recv", g, i, TRUE))
        BY <3>1 DEF Fill
      <4>2. i \in Indices
        BY DEF TypeInv, TypeOK
      <4> QED
        BY <2>1, <4>1, <4>2, PacketDoes
    <3>2. CASE Exhaust(g)
      BY <2>1, <3>2, EndDoes DEF Exhaust
    <3> QED
      BY <1>10, <3>1, <3>2
  <2> HIDE DEF free, idle
  <2> QED
    BY <1>1, <1>2, <2>1, <2>2, <2>3
<1>11. ASSUME NEW slot \in Slots, Queue(slot) PROVE SendBuffersOwned'
  <2>1. /\ UNCHANGED queues /\ sq' = sq /\ cq' = Append(cq, Cqe("send", slot, 0, TRUE))
        /\ sending[slot] = "issued" /\ sending' = [sending EXCEPT ![slot] = "queued"]
    BY <1>11 DEF Queue, worker, queues
  <2>2. idle' = idle
    BY <1>0, <2>1 DEF Idle
  <2>3. free' = free
    BY <2>1, SendDoes
  <2> HIDE DEF free, idle
  <2> QED
    BY <1>1, <1>2, <2>1, <2>2, <2>3
<1>12. ASSUME NEW slot \in Slots, Fail(slot) \/ Notify(slot) PROVE SendBuffersOwned'
  <2>1. /\ UNCHANGED queues /\ sq' = sq /\ cq' = Append(cq, Cqe("send", slot, 0, FALSE))
        /\ sending[slot] # "idle" /\ sending' = [sending EXCEPT ![slot] = "idle"]
    BY <1>12 DEF Fail, Notify, worker, queues
  <2>2. slot \notin idle /\ idle' = idle \cup {slot}
    BY <1>0, <2>1 DEF Idle
  <2>3. free' = Append(free, slot)
    BY <2>1, SendDoes
  <2> HIDE DEF free, idle
  <2>4. Owned(Append(free, slot), sq, idle \cup {slot})
    BY <1>0, <1>1, <2>2, OwnedReturn
  <2> QED
    BY <1>2, <2>1, <2>2, <2>3, <2>4
<1>13. ASSUME NEW slot \in Slots, Transmit(slot) PROVE SendBuffersOwned'
  <2>1. UNCHANGED <<queues, cq>> /\ sq' = sq
        /\ sending[slot] = "queued" /\ sending' = [sending EXCEPT ![slot] = "sent"]
    BY <1>13 DEF Transmit, worker
  <2>2. idle' = idle
    BY <1>0, <2>1 DEF Idle
  <2>3. free' = free
    BY <2>1, Unpolled
  <2> HIDE DEF free, idle
  <2> QED
    BY <1>1, <1>2, <2>1, <2>2, <2>3
<1>14. CASE UNCHANGED vars
  BY <1>3, <1>14 DEF vars, worker, kernel
<1> QED
  BY <1>5, <1>6, <1>7, <1>8, <1>9, <1>10, <1>11, <1>12, <1>13, <1>14 DEF Next, Cycle, Kernel

\* At first all send buffers are free.
LEMMA SendsInit == Init => SendBuffersOwned
<1> SUFFICES ASSUME Init PROVE SendBuffersOwned
  OBVIOUS
<1> DEFINE free == send_free_queue
<1>1. free \in Seq(Slots) /\ FreeSlots \o sq = free
  <2>1. free \in Seq(Slots) /\ FreeSlots = free /\ sq = <<>>
    BY FirstQueues DEF Init
  <2> HIDE DEF free
  <2> QED
    BY <2>1, ConcatEmptySeq
<1>2. free = [i \in 1 .. SendQueue |-> i - 1] /\ sending = [s \in Slots |-> "idle"]
  BY DEF Init
<1>3. IsInjective(free)
  BY <1>2, SendQueueAssumption DEF IsInjective
<1>4. Range(free) = Slots
  <2>1. \A s \in Slots : s + 1 \in 1 .. SendQueue /\ s = (s + 1) - 1
    BY SendQueueAssumption DEF Slots
  <2>2. \A i \in 1 .. SendQueue : i - 1 \in Slots
    BY SendQueueAssumption DEF Slots
  <2> QED
    BY <1>2, <2>1, <2>2 DEF Range
<1> QED
  BY <1>1, <1>2, <1>3, <1>4 DEF SendBuffersOwned

\* A send buffer is free, in the ring or with the kernel, and never two of them.
THEOREM SendBuffers == Spec => []SendBuffersOwned
  BY SendsInit, SendsStep, TypeInvariant, PTL DEF Spec

-----------------------------------------------------------------------------
(* Room in the ring, and the length of a cycle.                             *)

\* What is in the ring has a send buffer each, and the free buffers are further ones.
LEMMA RingLength == TypeInv /\ SendBuffersOwned => Len(FreeSlots) + Len(sq) <= SendQueue
<1> SUFFICES ASSUME TypeInv, SendBuffersOwned PROVE Len(FreeSlots) + Len(sq) <= SendQueue
  OBVIOUS
<1> DEFINE free == FreeSlots
           both == free \o sq
<1>1. free \in Seq(Slots) /\ sq \in Seq(Slots) /\ IsInjective(both)
  BY DEF TypeInv, TypeOK, SendBuffersOwned
<1>2. both \in Seq(Slots) /\ Len(both) = Len(free) + Len(sq)
  <2> HIDE DEF free
  <2> QED
    BY <1>1, ConcatProperties
<1> HIDE DEF both
<1>3. Range(both) \subseteq Slots
  <2>1. Range(both) \in SUBSET Slots
    BY <1>2, RangeOfSeq
  <2> QED
    BY <2>1
<1>4. Cardinality(Range(both)) = Len(both)
  BY <1>1, <1>2, InjectiveLength
<1>5. IsFiniteSet(Slots) /\ Cardinality(Slots) = SendQueue
  <2>1. 0 \in Int /\ SendQueue - 1 \in Int
    BY SendQueueAssumption
  <2>2. IsFiniteSet(Slots) /\ Cardinality(Slots) = IF 0 > SendQueue - 1 THEN 0 ELSE (SendQueue - 1) - 0 + 1
    BY <2>1, FS_Interval DEF Slots
  <2> QED
    BY <2>2, SendQueueAssumption
<1>6. Cardinality(Range(both)) <= Cardinality(Slots)
  BY <1>3, <1>5, FS_Subset
<1> QED
  BY <1>2, <1>4, <1>5, <1>6

\* As many entries as send buffers, and one group more, fit into the ring.
LEMMA RoomFromOwnership == TypeInv /\ SendBuffersOwned => RingHasRoom
<1> SUFFICES ASSUME TypeInv, SendBuffersOwned PROVE RingHasRoom
  OBVIOUS
<1> DEFINE free == FreeSlots
           m    == Len(free)
           n    == Len(sq)
<1>1. m \in Nat /\ n \in Nat /\ (free # <<>> => m >= 1)
  <2>1. free \in Seq(Slots) /\ sq \in Seq(Slots)
    BY DEF TypeInv, TypeOK
  <2> HIDE DEF free
  <2> QED
    BY <2>1, LenProperties, EmptySeq
<1>2. m + n <= SendQueue
  BY RingLength
<1>3. GroupSize + 1 <= Groups * GroupSize /\ Groups * GroupSize \in Nat
  <2>1. PICK d \in Nat : Groups = 2 + d
    <3>1. Groups - 2 \in Nat /\ Groups = 2 + (Groups - 2)
      BY GroupsAssumption
    <3> QED
      BY <3>1
  <2>2. (2 + d) * GroupSize = 2 * GroupSize + d * GroupSize /\ d * GroupSize \in Nat
    BY GroupSizeAssumption
  <2>3. GroupSize + 1 <= 2 * GroupSize + d * GroupSize /\ 2 * GroupSize + d * GroupSize \in Nat
    BY <2>2, GroupSizeAssumption
  <2> QED
    BY <2>1, <2>2, <2>3
<1> DEFINE reads == Groups * GroupSize
<1>4. GroupSize + 1 <= reads /\ reads \in Nat /\ Entries = SendQueue + reads
  BY <1>3 DEF Entries
<1> HIDE DEF m, n, reads
<1>5. free # <<>> => n + 1 <= Entries
  BY <1>1, <1>2, <1>4, SendQueueAssumption
<1>6. n + GroupSize + 1 <= Entries
  BY <1>1, <1>2, <1>4, SendQueueAssumption, GroupSizeAssumption
<1> QED
  BY <1>5, <1>6 DEF RingHasRoom, n

\* The pushes of add_send_to and prepare_read find room in the ring.
THEOREM RingRoom == Spec => []RingHasRoom
  BY RoomFromOwnership, TypeInvariant, SendBuffers, PTL

\* The receive buffers that the kernel may fill.
FreeBuffers == {b \in Buffers : \E g \in GroupIds : \E i \in provided[g] : b = ToBuffer(g, i)}

Lent == IF reading = None THEN 0 ELSE 1

\* Of the packets of a cycle each has used up one receive buffer.
CycleInv == taken + Lent + Len(ReadWait) + Cardinality(FreeBuffers) <= Groups * GroupSize

\* Buffers are finitely many.
LEMMA BufferCount == IsFiniteSet(Buffers) /\ Cardinality(Buffers) = Groups * GroupSize
<1> DEFINE n == Groups * GroupSize
<1>1. n \in Nat
  BY GroupsAssumption, GroupSizeAssumption
<1> HIDE DEF n
<1>2. IsFiniteSet(0 .. n - 1) /\ Cardinality(0 .. n - 1) = IF 0 > n - 1 THEN 0 ELSE (n - 1) - 0 + 1
  BY <1>1, FS_Interval
<1>3. Cardinality(0 .. n - 1) = n
  BY <1>1, <1>2
<1> QED
  BY <1>2, <1>3 DEF n, Buffers

\* A set of buffers is finite.
LEMMA FewBuffers ==
  ASSUME NEW B, B \subseteq Buffers
  PROVE  IsFiniteSet(B) /\ Cardinality(B) \in Nat /\ Cardinality(B) <= Groups * GroupSize
  BY BufferCount, FS_Subset, FS_CardinalityType

\* No buffer is both free and full.
LEMMA BuffersInUse ==
  TypeInv /\ ReadBuffersOwned => Len(ReadWait) + Cardinality(FreeBuffers) <= Groups * GroupSize
<1> SUFFICES ASSUME TypeInv, ReadBuffersOwned
             PROVE  Len(ReadWait) + Cardinality(FreeBuffers) <= Groups * GroupSize
  OBVIOUS
<1> DEFINE waiting == ReadWait
           W == Range(waiting)
           F == FreeBuffers
<1>1. waiting \in Seq(Buffers) /\ IsInjective(waiting) /\ W \cap F = {} /\ F \subseteq Buffers
  BY DEF TypeInv, ReadBuffersOwned, FreeBuffers
<1> HIDE DEF waiting, F
<1>2. W \subseteq Buffers /\ Cardinality(W) = Len(waiting)
  <2>1. W \in SUBSET Buffers
    BY <1>1, RangeOfSeq
  <2> QED
    BY <1>1, <2>1, InjectiveLength
<1> HIDE DEF W
<1>3. IsFiniteSet(W) /\ IsFiniteSet(F) /\ Cardinality(W) \in Nat /\ Cardinality(F) \in Nat
  BY <1>1, <1>2, FewBuffers
<1>4. Cardinality(W \cup F) = Cardinality(W) + Cardinality(F) - Cardinality(W \cap F)
  BY <1>3, FS_Union
<1>5. Cardinality(W \cap F) = 0
  BY <1>1, FS_EmptySet
<1>6. Cardinality(W \cup F) <= Groups * GroupSize
  BY <1>1, <1>2, FewBuffers
<1>7. Len(waiting) + Cardinality(F) = Cardinality(W \cup F)
  BY <1>2, <1>3, <1>4, <1>5
<1> QED
  BY <1>6, <1>7 DEF waiting, F

\* Every step keeps the count: a packet that is read has given up its buffer, and
\* buffers come back only when the count starts again.
LEMMA CycleStep ==
  TypeInv /\ TypeInv' /\ ReadBuffersOwned' /\ CycleInv /\ [Next]_vars => CycleInv'
<1> SUFFICES ASSUME TypeInv, TypeInv', ReadBuffersOwned', CycleInv, [Next]_vars PROVE CycleInv'
  OBVIOUS
<1> DEFINE waiting == ReadWait
           n == Len(waiting)
           f == Cardinality(FreeBuffers)
           l == Lent
           total == Groups * GroupSize
           nextN == n'
           nextF == f'
           nextL == l'
           nextT == taken'
<1>0. /\ n \in Nat /\ f \in Nat /\ l \in Nat /\ l <= 1 /\ taken \in Nat /\ total \in Nat
      /\ taken + l + n + f <= total
  <2>1. waiting \in Seq(Buffers) /\ FreeBuffers \subseteq Buffers /\ taken \in Nat
    BY DEF TypeInv, TypeOK, FreeBuffers
  <2>2. n \in Nat
    <3> HIDE DEF waiting
    <3> QED
      BY <2>1, LenProperties
  <2> QED
    BY <2>1, <2>2, FewBuffers, GroupsAssumption, GroupSizeAssumption DEF CycleInv, Lent
<1>1. ASSUME waiting' = waiting, UNCHANGED <<reading, provided, taken>> PROVE CycleInv'
  <2>1. FreeBuffers' = FreeBuffers /\ Lent' = Lent
    BY <1>1 DEF FreeBuffers, Lent
  <2> QED
    BY <1>1, <2>1 DEF CycleInv
<1>2. ASSUME UNCHANGED <<queues, cq, reading, provided, taken>> PROVE CycleInv'
  <2>1. UNCHANGED <<queues, cq>>
    BY <1>2
  <2>2. waiting' = waiting
    BY <2>1, Unpolled
  <2> QED
    BY <1>1, <1>2, <2>2
<1>3. CASE StartReading \/ CommitSendTo \/ Arrive
  BY <1>2, <1>3 DEF StartReading, CommitSendTo, Arrive, worker, kernel, history
<1>4. CASE AddSendTo
  BY <1>1, <1>4, AddSendToDoes DEF AddSendTo, kernel
<1>5. CASE RecvFrom
  <2>1. UNCHANGED <<provided, taken>> /\ reading = None
    BY <1>5 DEF RecvFrom, kernel, history
  <2>2. \/ waiting' = waiting /\ UNCHANGED reading
        \/ waiting # <<>> /\ waiting' = Tail(waiting)
    BY <1>5, RecvFromDoes
  <2>3. CASE waiting # <<>> /\ waiting' = Tail(waiting)
    <3>1. waiting \in Seq(Buffers)
      BY DEF TypeInv
    <3>2. nextN = n - 1
      <4>1. n' = Len(Tail(waiting))
        BY <2>3
      <4> HIDE DEF waiting
      <4> QED
        BY <2>3, <3>1, <4>1, HeadTailProperties
    <3>3. l = 0 /\ nextL \in Nat /\ nextL <= 1 /\ nextF = f /\ nextT = taken
      BY <2>1 DEF Lent, FreeBuffers
    <3> HIDE DEF n, f, l, total, nextN, nextF, nextL, nextT
    <3>4. nextT + nextL + nextN + nextF <= total
      BY <1>0, <3>2, <3>3
    <3> QED
      BY <3>4 DEF CycleInv, n, f, l, total, nextN, nextF, nextL, nextT
  <2> QED
    BY <1>1, <2>1, <2>2, <2>3
<1>6. CASE Input
  <2>1. /\ reading # None /\ reading' = None /\ nextT = taken + 1
        /\ UNCHANGED <<queues, cq>> /\ UNCHANGED provided
    BY <1>6 DEF Input, kernel
  <2>2. nextN = n
    BY <2>1, Unpolled
  <2>3. l = 1 /\ nextL = 0 /\ nextF = f
    BY <2>1 DEF Lent, FreeBuffers
  <2> HIDE DEF n, f, l, total, nextN, nextF, nextL, nextT
  <2>4. nextT + nextL + nextN + nextF <= total
    BY <1>0, <2>1, <2>2, <2>3
  <2> QED
    BY <2>4 DEF CycleInv, n, f, l, total, nextN, nextF, nextL, nextT
<1>7. CASE FinishReadFrom
  <2>1. nextT = 0 /\ reading' = None
    BY <1>7 DEF FinishReadFrom, TypeInv
  <2>2. nextN + nextF <= total
    <3>1. TypeInv /\ ReadBuffersOwned => n + f <= total
      BY BuffersInUse
    <3> HIDE DEF n, f, total
    <3>2. (TypeInv /\ ReadBuffersOwned => n + f <= total)'
      <4>1. TypeInv /\ ReadBuffersOwned => Len(ReadWait) + Cardinality(FreeBuffers) <= Groups * GroupSize
        BY BuffersInUse
      <4> QED
        BY <4>1, BuffersInUse, PTL DEF n, f, total
    <3> QED
      BY <3>2
  <2>3. nextN \in Nat /\ nextF \in Nat
    <3> DEFINE w == waiting'
               F == FreeBuffers'
    <3>1. w \in Seq(Buffers) /\ F \subseteq Buffers
      BY DEF TypeInv, FreeBuffers
    <3> HIDE DEF w, F
    <3>2. Len(w) \in Nat /\ Cardinality(F) \in Nat
      BY <3>1, LenProperties, FewBuffers
    <3> QED
      BY <3>2 DEF w, F
  <2>4. nextL = 0
    BY <2>1 DEF Lent
  <2> HIDE DEF n, f, l, total, nextN, nextF, nextL, nextT
  <2>5. nextT + nextL + nextN + nextF <= total
    BY <1>0, <2>1, <2>2, <2>3, <2>4
  <2> QED
    BY <2>5 DEF CycleInv, n, f, l, total, nextN, nextF, nextL, nextT
<1>8. ASSUME NEW g \in GroupIds, Fill(g) PROVE CycleInv'
  <2>1. PICK i \in provided[g] :
          /\ provided' = [provided EXCEPT ![g] = @ \ {i}]
          /\ cq' = Append(cq, Cqe("recv", g, i, TRUE))
    BY <1>8 DEF Fill
  <2>2. UNCHANGED queues /\ UNCHANGED <<reading, taken>>
    BY <1>8 DEF Fill, worker, queues, history
  <2>3. provided \in [GroupIds -> SUBSET Indices] /\ i \in Indices
    BY DEF TypeInv, TypeOK
  <2> DEFINE b == ToBuffer(g, i)
             F == FreeBuffers
  <2>4. waiting' = Append(waiting, b) /\ waiting \in Seq(Buffers) /\ b \in Buffers
    BY <2>1, <2>2, <2>3, PacketDoes, ToBufferType DEF TypeInv
  <2>5. nextN = n + 1
    <3>1. n' = Len(Append(waiting, b))
      BY <2>4
    <3> HIDE DEF waiting, b
    <3> QED
      BY <2>4, <3>1, AppendProperties
  <2>6. b \in F /\ F' \subseteq F \ {b} /\ F \subseteq Buffers
    <3>1. \A k \in GroupIds : k \in Nat /\ provided'[k] \subseteq provided[k] /\ provided[k] \subseteq Indices
      BY <2>1, <2>3 DEF GroupIds
    <3>2. i \notin provided'[g]
      BY <2>1, <2>3
    <3>3. \A k \in GroupIds : \A j \in provided'[k] : ToBuffer(k, j) # b
      <4> SUFFICES ASSUME NEW k \in GroupIds, NEW j \in provided'[k], ToBuffer(k, j) = ToBuffer(g, i)
                   PROVE  FALSE
        OBVIOUS
      <4>1. k \in Nat /\ g \in Nat /\ j \in Indices /\ i \in Indices
        BY <2>3, <3>1
      <4>2. k = g /\ j = i
        BY <4>1, ToBufferInjective
      <4> QED
        BY <3>2, <4>2
    <3>4. b \in F
      BY <2>4 DEF FreeBuffers
    <3>5. F' \subseteq F \ {b}
      <4> SUFFICES ASSUME NEW k \in GroupIds, NEW j \in provided'[k], ToBuffer(k, j) \in Buffers
                   PROVE  ToBuffer(k, j) \in F \ {b}
        BY DEF FreeBuffers
      <4>1. j \in provided[k]
        BY <3>1
      <4>2. ToBuffer(k, j) \in F
        BY <4>1 DEF FreeBuffers
      <4> QED
        BY <3>3, <4>2
    <3> QED
      BY <3>4, <3>5 DEF FreeBuffers
  <2>7. nextF <= f - 1 /\ nextF \in Nat
    <3> DEFINE G == F'
    <3>1. b \in F /\ G \subseteq F \ {b} /\ F \subseteq Buffers
      BY <2>6
    <3> HIDE DEF F, G, b
    <3>2. /\ IsFiniteSet(F) /\ IsFiniteSet(F \ {b})
          /\ Cardinality(F \ {b}) = Cardinality(F) - 1
      BY <3>1, FewBuffers, FS_RemoveElement
    <3>3. Cardinality(G) <= Cardinality(F \ {b}) /\ Cardinality(G) \in Nat
      BY <3>1, <3>2, FS_Subset, FS_CardinalityType
    <3> QED
      BY <3>2, <3>3 DEF F, G
  <2>8. nextL = l /\ nextT = taken
    BY <2>2 DEF Lent
  <2> HIDE DEF n, f, l, total, nextN, nextF, nextL, nextT
  <2>9. nextT + nextL + nextN + nextF <= total
    BY <1>0, <2>5, <2>7, <2>8
  <2> QED
    BY <2>9 DEF CycleInv, n, f, l, total, nextN, nextF, nextL, nextT
<1>9. ASSUME NEW g \in GroupIds, Exhaust(g) PROVE CycleInv'
  <2>1. UNCHANGED queues /\ UNCHANGED <<reading, provided, taken>> /\ cq' = Append(cq, Cqe("recv", g, 0, FALSE))
    BY <1>9 DEF Exhaust, worker, queues, history
  <2>2. waiting' = waiting
    BY <2>1, EndDoes
  <2> QED
    BY <1>1, <2>1, <2>2
<1>10. ASSUME NEW slot \in Slots, Queue(slot) \/ Fail(slot) \/ Notify(slot) PROVE CycleInv'
  <2>1. PICK more \in BOOLEAN : UNCHANGED <<worker, provided>> /\ cq' = Append(cq, Cqe("send", slot, 0, more))
    BY <1>10 DEF Queue, Fail, Notify
  <2>2. UNCHANGED queues /\ UNCHANGED <<reading, provided, taken>>
    BY <2>1 DEF worker, queues, history
  <2>3. waiting' = waiting
    BY <2>1, <2>2, SendDoes
  <2> QED
    BY <1>1, <2>2, <2>3
<1>11. ASSUME NEW slot \in Slots, Transmit(slot) PROVE CycleInv'
  BY <1>2, <1>11 DEF Transmit, worker, history
<1>12. CASE UNCHANGED vars
  BY <1>2, <1>12 DEF vars, worker, kernel, history
<1> QED
  BY <1>3, <1>4, <1>5, <1>6, <1>7, <1>8, <1>9, <1>10, <1>11, <1>12 DEF Next, Cycle, Kernel

\* One cycle of the worker reads no more packets than there are receive buffers,
\* however fast packets come.
THEOREM CycleEnds == Spec => []CycleBounded
<1>1. Init => CycleInv
  <2> SUFFICES ASSUME Init PROVE CycleInv
    OBVIOUS
  <2>1. Len(ReadWait) = 0 /\ taken = 0 /\ Lent = 0
    BY FirstQueues, EmptySeq DEF Init, Lent
  <2>2. FreeBuffers \subseteq Buffers
    BY DEF FreeBuffers
  <2>3. Cardinality(FreeBuffers) \in Nat /\ Cardinality(FreeBuffers) <= Groups * GroupSize
    BY <2>2, FewBuffers
  <2> QED
    BY <2>1, <2>3 DEF CycleInv
<1>2. TypeInv /\ CycleInv => CycleBounded
  <2> SUFFICES ASSUME TypeInv, CycleInv PROVE CycleBounded
    OBVIOUS
  <2> DEFINE waiting == ReadWait
             n == Len(waiting)
             f == Cardinality(FreeBuffers)
             total == Groups * GroupSize
  <2>1. waiting \in Seq(Buffers) /\ FreeBuffers \subseteq Buffers /\ taken \in Nat
    BY DEF TypeInv, TypeOK, FreeBuffers
  <2>2. n \in Nat
    <3> HIDE DEF waiting
    <3> QED
      BY <2>1, LenProperties
  <2>3. /\ f \in Nat /\ Lent \in {0, 1} /\ total \in Nat /\ taken \in Nat
        /\ taken + Lent + n + f <= total
    BY <2>1, FewBuffers, GroupsAssumption, GroupSizeAssumption DEF CycleInv, Lent
  <2> HIDE DEF n, f, total
  <2>4. taken <= total
    BY <2>2, <2>3
  <2> QED
    BY <2>4 DEF CycleBounded, total
<1> QED
  BY <1>1, <1>2, CycleStep, TypeInvariant, ReadBuffers, PTL DEF Spec

-----------------------------------------------------------------------------
(* The refinement of UdpSocket.  What is sent: the buffers whose packet is  *)
(* still to reach the wire.                                                 *)

Active == Range(sq) \cup {s \in Slots : sending[s] \in {"issued", "queued"}}

Outbox == {send_bufs[slot] : slot \in Active}

Accepts(slot) ==
  /\ slot \in Slots \ Active /\ Active' = Active \cup {slot}
  /\ sends < MaxSends /\ sends' = sends + 1
  /\ send_bufs' = [send_bufs EXCEPT ![slot] = sends + 1]
  /\ wire' = wire

Leaves(slot) ==
  /\ slot \in Active /\ Active' = Active \ {slot}
  /\ UNCHANGED <<send_bufs, sends>>
  /\ wire' \in {wire, wire \cup {send_bufs[slot]}}

Stays == UNCHANGED <<Active, send_bufs, sends, wire>>

\* A step accepts a packet, lets one leave its buffer, or does neither.
LEMMA OutputDoes ==
  ASSUME TypeInv, SendBuffersOwned, [Next]_vars
  PROVE  (\E slot \in Slots : Accepts(slot) \/ Leaves(slot)) \/ Stays
<1> DEFINE free == FreeSlots
<1>0. /\ free \in Seq(Slots) /\ sq \in Seq(Slots)
      /\ sending \in [Slots -> {"idle", "issued", "queued", "sent"}]
  BY DEF TypeInv, TypeOK
<1>1. Owned(free, sq, Idle)
  <2>1. IsInjective(free \o sq) /\ Range(free \o sq) = Idle
    BY DEF SendBuffersOwned, Idle
  <2> HIDE DEF free
  <2> QED
    BY <1>0, <2>1, Ownership
<1>2. \A s \in Range(sq) : s \in Slots /\ sending[s] = "idle"
  BY <1>1 DEF Owned, Idle
<1>3. ASSUME UNCHANGED <<sq, sending, send_bufs, sends, wire>> PROVE Stays
  BY <1>3 DEF Stays, Active
<1>4. ASSUME sq' = <<>>, sending' = Submitted, UNCHANGED <<send_bufs, sends, wire>> PROVE Stays
  <2>1. /\ {s \in Slots : sending[s] = "issued"} \cup Range(sq) = {s \in Slots : sending'[s] = "issued"}
        /\ \A s \in Slots : s \notin Range(sq) => sending'[s] = sending[s]
    BY <1>4, Submits
  <2>2. \A s \in Slots : s \in Active <=> s \in Range(sq) \/ sending[s] = "issued" \/ sending[s] = "queued"
    BY DEF Active
  <2>3. Range(sq') = {}
    BY <1>4 DEF Range
  <2>4. \A s \in Slots : s \in Active' <=> sending'[s] = "issued" \/ sending'[s] = "queued"
    BY <2>3 DEF Active
  <2>5. Active \subseteq Slots /\ Active' \subseteq Slots
    BY <1>2, <2>3 DEF Active
  <2>6. \A s \in Slots : sending'[s] = "issued" <=> s \in Range(sq) \/ sending[s] = "issued"
    BY <2>1
  <2>7. \A s \in Slots : sending'[s] = "queued" <=> sending[s] = "queued"
    BY <1>2, <2>1, <2>6
  <2>8. \A s \in Slots : s \in Active <=> s \in Active'
    BY <2>2, <2>4, <2>6, <2>7
  <2> QED
    BY <1>4, <2>5, <2>8 DEF Stays
<1>5. CASE StartReading \/ RecvFrom \/ Input \/ Arrive
  BY <1>3, <1>5 DEF StartReading, RecvFrom, Input, Arrive, worker, bufs, kernel, outside, history
<1>6. CASE CommitSendTo
  BY <1>3, <1>4, <1>6 DEF CommitSendTo, bufs, outside, history
<1>7. CASE FinishReadFrom
  <2>1. \/ sq' = <<>> /\ sending' = Submitted
        \/ UNCHANGED <<sq, sending>>
    BY <1>7, FinishDoes DEF FinishReadFrom, PrepareRead
  <2> QED
    BY <1>3, <1>4, <1>7, <2>1 DEF FinishReadFrom, bufs, outside
<1>8. ASSUME NEW g \in GroupIds, Fill(g) \/ Exhaust(g) PROVE Stays
  BY <1>3, <1>8 DEF Fill, Exhaust, worker, bufs, outside, history
<1>9. CASE AddSendTo
  <2>1. UNCHANGED <<sending, wire>>
    BY <1>9 DEF AddSendTo, kernel, outside
  <2>2. \/ /\ free # <<>> /\ sq' = Append(sq, Head(free))
           /\ sends < MaxSends /\ sends' = sends + 1
           /\ send_bufs' = [send_bufs EXCEPT ![Head(free)] = sends + 1]
        \/ UNCHANGED <<send_bufs, sq, sends>>
    BY <1>9, AddSendToDoes
  <2>3. CASE /\ free # <<>> /\ sq' = Append(sq, Head(free))
             /\ sends < MaxSends /\ sends' = sends + 1
             /\ send_bufs' = [send_bufs EXCEPT ![Head(free)] = sends + 1]
    <3> DEFINE slot == Head(free)
    <3>1. slot \in Slots /\ slot \in Range(free)
      <4> HIDE DEF free
      <4> QED
        BY <1>0, <2>3, RangeHeadTail, QueueTypes
    <3> HIDE DEF slot, free
    <3>2. slot \notin Active
      BY <1>1, <3>1 DEF Owned, Active, Idle
    <3>3. Range(sq') = Range(sq) \cup {slot}
      <4>1. Range(Append(sq, slot)) = Range(sq) \cup {slot} /\ sq' = Append(sq, slot)
        BY <1>0, <2>3, <3>1, RangeOfAppend DEF slot
      <4> QED
        BY <4>1
    <3>4. Active' = Active \cup {slot}
      BY <2>1, <3>3 DEF Active
    <3>5. Accepts(slot)
      BY <2>1, <2>3, <3>1, <3>2, <3>4 DEF Accepts, slot
    <3> QED
      BY <3>1, <3>5
  <2> QED
    BY <1>3, <2>1, <2>2, <2>3
<1>10. ASSUME NEW slot \in Slots, Queue(slot) \/ Notify(slot) PROVE Stays
  <2>1. UNCHANGED <<sq, send_bufs, sends, wire>>
    BY <1>10 DEF Queue, Notify, worker, bufs, outside, history
  <2>2. \/ sending[slot] = "issued" /\ sending' = [sending EXCEPT ![slot] = "queued"]
        \/ sending[slot] = "sent" /\ sending' = [sending EXCEPT ![slot] = "idle"]
    BY <1>10 DEF Queue, Notify
  <2>3. Active' = Active
    BY <1>0, <2>1, <2>2 DEF Active
  <2> QED
    BY <2>1, <2>3 DEF Stays
<1>11. ASSUME NEW slot \in Slots, Fail(slot) \/ Transmit(slot) PROVE Leaves(slot)
  <2>1. UNCHANGED <<sq, send_bufs, sends>> /\ wire' \in {wire, wire \cup {send_bufs[slot]}}
    BY <1>11 DEF Fail, Transmit, worker, bufs, outside, history
  <2>2. \/ sending[slot] = "issued" /\ sending' = [sending EXCEPT ![slot] = "idle"]
        \/ sending[slot] = "queued" /\ sending' = [sending EXCEPT ![slot] = "sent"]
    BY <1>11 DEF Fail, Transmit
  <2>3. slot \notin Range(sq)
    BY <1>2, <2>2
  <2>4. slot \in Active
    BY <2>2 DEF Active
  <2>5. Active' = Active \ {slot}
    BY <1>0, <2>1, <2>2, <2>3 DEF Active
  <2> QED
    BY <2>1, <2>4, <2>5 DEF Leaves
<1>12. CASE UNCHANGED vars
  BY <1>3, <1>12 DEF vars, worker, bufs, kernel, outside, history
<1> QED
  BY <1>5, <1>6, <1>7, <1>8, <1>9, <1>10, <1>11, <1>12 DEF Next, Cycle, Kernel

\* Each packet that is to leave is in one buffer and was accepted earlier.
ContentInv ==
  /\ arrived <= MaxPackets /\ sends <= MaxSends
  /\ wire \subseteq 1 .. sends
  /\ \A s \in Active : s \in Slots /\ send_bufs[s] \in 1 .. sends
  /\ \A s, t \in Active : send_bufs[s] = send_bufs[t] => s = t

\* Every step keeps this.
LEMMA ContentStep ==
  TypeInv /\ SendBuffersOwned /\ ContentInv /\ [Next]_vars => ContentInv'
<1> SUFFICES ASSUME TypeInv, SendBuffersOwned, ContentInv, [Next]_vars PROVE ContentInv'
  OBVIOUS
<1>0. send_bufs \in [Slots -> Nat] /\ sends \in Nat /\ arrived \in Nat
  BY DEF TypeInv, TypeOK
<1>1. arrived' <= MaxPackets
  <2>1. arrived' = arrived \/ (arrived < MaxPackets /\ arrived' = arrived + 1)
    BY DEF Next, Cycle, Kernel, vars, outside, AddSendTo, StartReading, RecvFrom, Input, CommitSendTo,
           FinishReadFrom, Arrive, Fill, Exhaust, Queue, Fail, Transmit, Notify
  <2> QED
    BY <1>0, <2>1, BoundsAssumption DEF ContentInv
<1>2. ASSUME NEW slot \in Slots, Accepts(slot) PROVE ContentInv'
  <2>1. 1 .. sends \subseteq 1 .. sends' /\ sends + 1 \in 1 .. sends' /\ sends + 1 \notin 1 .. sends
        /\ sends' <= MaxSends
    BY <1>0, <1>2, BoundsAssumption DEF Accepts
  <2>2. \A s \in Active : s # slot /\ send_bufs'[s] = send_bufs[s] /\ send_bufs[s] \in 1 .. sends
    BY <1>0, <1>2 DEF Accepts, ContentInv
  <2>3. send_bufs'[slot] = sends + 1
    BY <1>0, <1>2 DEF Accepts
  <2>4. \A s \in Active' : s \in Active \/ s = slot
    BY <1>2 DEF Accepts
  <2>5. \A s, t \in Active' : send_bufs'[s] = send_bufs'[t] => s = t
    BY <2>1, <2>2, <2>3, <2>4 DEF ContentInv
  <2>6. \A s \in Active' : s \in Slots /\ send_bufs'[s] \in 1 .. sends'
    BY <2>1, <2>2, <2>3, <2>4 DEF ContentInv
  <2> QED
    BY <1>1, <1>2, <2>1, <2>5, <2>6 DEF Accepts, ContentInv
<1>3. ASSUME NEW slot \in Slots, Leaves(slot) PROVE ContentInv'
  BY <1>1, <1>3 DEF Leaves, ContentInv
<1>4. CASE Stays
  BY <1>1, <1>4 DEF Stays, ContentInv
<1> QED
  BY <1>2, <1>3, <1>4, OutputDoes

-----------------------------------------------------------------------------
(* What is received: the packet that is read, those that wait to be read or *)
(* to be polled, and those in the queue of the kernel.                      *)

Lending == IF reading = None THEN <<>> ELSE <<reading>>

Filled == Lending \o ReadWait

Inbox == Contents(Filled) \o socket

\* The contents of buffers, read from one end.
LEMMA MappedHead ==
  ASSUME NEW T, NEW V, NEW f, Maps(f, T, V), NEW p \in Seq(T), p # <<>>
  PROVE  /\ Mapped(f, p) # <<>> /\ Head(Mapped(f, p)) = f[Head(p)]
         /\ Tail(Mapped(f, p)) = Mapped(f, Tail(p))
<1> DEFINE m == Mapped(f, p)
           t == Tail(p)
           n == Mapped(f, t)
<1>2. /\ t \in Seq(T) /\ Len(p) \in Nat \ {0} /\ Len(t) = Len(p) - 1 /\ Head(p) = p[1]
      /\ \A i \in 1 .. Len(p) - 1 : t[i] = p[i + 1]
  BY HeadTailProperties, EmptySeq
<1> HIDE DEF t
<1>3. /\ m \in Seq(V) /\ Len(m) = Len(p) /\ \A i \in 1 .. Len(p) : m[i] = f[p[i]]
      /\ n \in Seq(V) /\ Len(n) = Len(p) - 1 /\ \A i \in 1 .. Len(p) - 1 : n[i] = f[t[i]]
  BY <1>2, MappedType
<1> HIDE DEF m, n
<1>4. m # <<>> /\ Head(m) = f[p[1]]
  BY <1>2, <1>3, EmptySeq
<1>5. /\ Tail(m) \in Seq(V) /\ Len(Tail(m)) = Len(p) - 1
      /\ \A i \in 1 .. Len(p) - 1 : Tail(m)[i] = m[i + 1]
  BY <1>3, <1>4, HeadTailProperties
<1>6. \A i \in 1 .. Len(p) - 1 : i + 1 \in 1 .. Len(p)
  BY <1>2
<1>7. \A i \in 1 .. Len(p) - 1 : Tail(m)[i] = n[i]
  <2> SUFFICES ASSUME NEW i \in 1 .. Len(p) - 1 PROVE Tail(m)[i] = n[i]
    OBVIOUS
  <2>1. Tail(m)[i] = m[i + 1] /\ i + 1 \in 1 .. Len(p)
    BY <1>5, <1>6
  <2>2. m[i + 1] = f[p[i + 1]]
    BY <1>3, <2>1
  <2>3. n[i] = f[t[i]] /\ t[i] = p[i + 1]
    BY <1>2, <1>3
  <2> QED
    BY <2>1, <2>2, <2>3
<1>8. Tail(m) = n
  BY <1>3, <1>5, <1>7, SeqEqual
<1> QED
  BY <1>2, <1>4, <1>8 DEF m, n, t

\* Buffers that are not written keep their contents.
LEMMA MappedSame ==
  ASSUME NEW f, NEW g, NEW p, \A e \in Range(p) : f[e] = g[e]
  PROVE  Mapped(f, p) = Mapped(g, p)
<1>1. \A i \in DOMAIN p : f[p[i]] = g[p[i]]
  BY DEF Range
<1> QED
  BY <1>1 DEF Mapped

\* Types of the queues.
LEMMA FilledTypes ==
  ASSUME TypeInv
  PROVE  /\ Lending \in Seq(Buffers) /\ Filled \in Seq(Buffers)
         /\ Range(Filled) = Range(ReadWait) \cup (IF reading = None THEN {} ELSE {reading})
         /\ Contents(Filled) \in Seq(Nat) /\ Contents(Filled) = Mapped(read_bufs, Filled)
         /\ read_bufs \in [Buffers -> Nat] /\ socket \in Seq(Nat)
<1> DEFINE w == ReadWait
           l == Lending
           c == l \o w
<1>1. w \in Seq(Buffers) /\ read_bufs \in [Buffers -> Nat] /\ socket \in Seq(Nat) /\ reading \in Buffers \cup {None}
  BY DEF TypeInv, TypeOK
<1>2. l \in Seq(Buffers) /\ Range(l) = IF reading = None THEN {} ELSE {reading}
  <2>1. CASE reading = None
    BY <2>1, EmptySeq DEF Lending, Range
  <2>2. CASE reading # None
    BY <1>1, <2>2 DEF Lending, Range
  <2> QED
    BY <2>1, <2>2
<1> HIDE DEF w, l
<1>3. c \in Seq(Buffers) /\ Range(c) = Range(l) \cup Range(w)
  BY <1>1, <1>2, ConcatProperties, RangeConcatenation
<1> HIDE DEF c
<1>4. Mapped(read_bufs, c) \in Seq(Nat)
  <2>1. Maps(read_bufs, Buffers, Nat)
    BY <1>1 DEF Maps
  <2> QED
    BY <1>3, <2>1, MappedType
<1>5. Contents(c) = Mapped(read_bufs, c)
  BY DEF Contents, Mapped
<1> QED
  BY <1>1, <1>2, <1>3, <1>4, <1>5 DEF w, l, c, Filled

\* The steps that move no packet.
LEMMA InboxSame ==
  ASSUME Filled' = Filled, UNCHANGED <<read_bufs, socket>>
  PROVE  Inbox' = Inbox
  BY DEF Inbox, Contents

\* recv_from and its caller hand packets on, and the kernel fills buffers, in order.
LEMMA InputDoes ==
  ASSUME TypeInv, ReadBuffersOwned, [Next]_vars
  PROVE  \/ Arrive /\ Inbox' = Append(Inbox, arrived + 1) /\ given' = given
         \/ Input /\ Inbox # <<>> /\ given' = Append(given, Head(Inbox)) /\ Inbox' = Tail(Inbox)
         \/ Inbox' = Inbox /\ given' = given
<1> DEFINE w == ReadWait
           c == Contents(Filled)
<1>0. /\ Lending \in Seq(Buffers) /\ Filled \in Seq(Buffers) /\ w \in Seq(Buffers)
      /\ Range(Filled) = Range(w) \cup (IF reading = None THEN {} ELSE {reading})
      /\ c \in Seq(Nat) /\ c = Mapped(read_bufs, Filled)
      /\ read_bufs \in [Buffers -> Nat] /\ socket \in Seq(Nat)
  BY FilledTypes DEF TypeInv
<1>1. ASSUME w' = w, UNCHANGED <<reading, read_bufs, socket, given>>
      PROVE  Inbox' = Inbox /\ given' = given
  <2>1. Filled' = Filled
    BY <1>1 DEF Filled, Lending
  <2> QED
    BY <1>1, <2>1, InboxSame
<1>2. ASSUME UNCHANGED <<queues, cq, reading, read_bufs, socket, given>>
      PROVE  Inbox' = Inbox /\ given' = given
  <2>1. UNCHANGED <<queues, cq>>
    BY <1>2
  <2>2. w' = w
    BY <2>1, Unpolled
  <2> QED
    BY <1>1, <1>2, <2>2
<1>3. CASE StartReading \/ CommitSendTo
  BY <1>2, <1>3 DEF StartReading, CommitSendTo, bufs, outside, history
<1>4. CASE AddSendTo
  <2>1. w' = w
    BY <1>4, AddSendToDoes
  <2> QED
    BY <1>1, <1>4, <2>1 DEF AddSendTo, outside
<1>5. CASE RecvFrom
  <2>1. UNCHANGED <<read_bufs, socket, given>> /\ reading = None
    BY <1>5 DEF RecvFrom, bufs, outside, history
  <2>2. \/ w' = w /\ UNCHANGED reading
        \/ w # <<>> /\ w' = Tail(w) /\ reading' = Head(w)
    BY <1>5, RecvFromDoes
  <2>3. CASE w # <<>> /\ w' = Tail(w) /\ reading' = Head(w)
    <3>1. Filled = w
      <4>1. Filled = <<>> \o w
        BY <2>1 DEF Filled, Lending
      <4> HIDE DEF w
      <4> QED
        BY <1>0, <4>1, ConcatEmptySeq
    <3>2. Head(w) # None /\ <<Head(w)>> \o Tail(w) = w
      <4> HIDE DEF w
      <4>1. Head(w) \in Buffers /\ <<Head(w)>> \o Tail(w) = w
        BY <1>0, <2>3, HeadInFront, QueueTypes
      <4> QED
        BY <4>1 DEF Buffers, None
    <3>3. Filled' = <<Head(w)>> \o Tail(w)
      BY <2>3, <3>2 DEF Filled, Lending
    <3>4. Filled' = Filled
      BY <3>1, <3>2, <3>3
    <3> QED
      BY <2>1, <3>4, InboxSame
  <2> QED
    BY <1>1, <2>1, <2>2, <2>3
<1>6. CASE Input
  <2>1. /\ reading # None /\ given' = Append(given, read_bufs[reading]) /\ reading' = None
        /\ UNCHANGED <<queues, cq>> /\ UNCHANGED <<read_bufs, socket>>
    BY <1>6 DEF Input, bufs, outside
  <2>2. w' = w
    BY <2>1, Unpolled
  <2>3. reading \in Buffers
    BY <2>1 DEF TypeInv, TypeOK
  <2> DEFINE p == Filled
             q == Filled'
  <2>4. p \in Seq(Buffers) /\ p # <<>> /\ Head(p) = reading /\ Tail(p) = w
    <3>1. p = <<reading>> \o w
      BY <2>1 DEF Filled, Lending
    <3> HIDE DEF p, w
    <3> QED
      BY <1>0, <2>3, <3>1, InFront
  <2>5. q = w
    <3>1. q = <<>> \o w
      BY <2>1, <2>2 DEF Filled, Lending
    <3> HIDE DEF q, w
    <3> QED
      BY <1>0, <3>1, ConcatEmptySeq
  <2>6. c = Mapped(read_bufs, p) /\ c \in Seq(Nat) /\ Inbox = c \o socket
    BY <1>0 DEF Inbox
  <2>7. Inbox' = Mapped(read_bufs, q) \o socket
    BY <2>1 DEF Inbox, Contents, Mapped
  <2> HIDE DEF p, q, c, w
  <2>8. c # <<>> /\ Head(c) = read_bufs[reading] /\ Tail(c) = Mapped(read_bufs, q)
    <3>1. Maps(read_bufs, Buffers, Nat) /\ p \in Seq(Buffers) /\ p # <<>>
      BY <1>0, <2>4 DEF Maps
    <3>2. /\ Mapped(read_bufs, p) # <<>> /\ Head(Mapped(read_bufs, p)) = read_bufs[Head(p)]
          /\ Tail(Mapped(read_bufs, p)) = Mapped(read_bufs, Tail(p))
      BY <3>1, MappedHead
    <3> QED
      BY <2>4, <2>5, <2>6, <3>2
  <2>9. /\ c \o socket # <<>> /\ Head(c \o socket) = Head(c)
        /\ Tail(c) \o socket = Tail(c \o socket)
    BY <1>0, <2>6, <2>8, HeadTailOfConcat
  <2> QED
    BY <1>6, <2>1, <2>6, <2>7, <2>8, <2>9
<1>7. CASE FinishReadFrom
  <2>1. w' = w
    BY <1>7, FinishDoes DEF FinishReadFrom
  <2> QED
    BY <1>1, <1>7, <2>1 DEF FinishReadFrom, bufs, outside
<1>8. CASE Arrive
  <2>1. UNCHANGED <<queues, cq>> /\ UNCHANGED <<reading, read_bufs, given>>
        /\ socket' = Append(socket, arrived + 1) /\ arrived + 1 \in Nat
    BY <1>8 DEF Arrive, worker, bufs, history, TypeInv, TypeOK
  <2>2. w' = w
    BY <2>1, Unpolled
  <2>3. c' = c
    BY <2>1, <2>2 DEF Filled, Lending, Contents
  <2>4. Inbox' = c \o Append(socket, arrived + 1) /\ Inbox = c \o socket
    BY <2>1, <2>3 DEF Inbox
  <2> DEFINE e == arrived + 1
  <2>5. e \in Nat
    BY <2>1
  <2> HIDE DEF c, e
  <2>6. c \o Append(socket, e) = Append(c \o socket, e)
    BY <1>0, <2>5, ConcatAppend
  <2> QED
    BY <1>8, <2>1, <2>4, <2>6 DEF e
<1>9. ASSUME NEW g \in GroupIds, Fill(g) PROVE Inbox' = Inbox /\ given' = given
  <2>1. PICK i \in provided[g] :
          /\ read_bufs' = [read_bufs EXCEPT ![ToBuffer(g, i)] = Head(socket)]
          /\ cq' = Append(cq, Cqe("recv", g, i, TRUE))
    BY <1>9 DEF Fill
  <2>2. /\ UNCHANGED queues /\ UNCHANGED <<reading, given>>
        /\ socket # <<>> /\ socket' = Tail(socket) /\ i \in Indices
    BY <1>9 DEF Fill, worker, queues, history, TypeInv, TypeOK
  <2> DEFINE b == ToBuffer(g, i)
             x == Head(socket)
             p == Filled
             q == Filled'
  <2>3. w' = Append(w, b) /\ b \in Buffers
    BY <2>1, <2>2, PacketDoes, ToBufferType
  <2>4. x \in Nat /\ Tail(socket) \in Seq(Nat)
    BY <1>0, <2>2, QueueTypes
  <2>5. q = Append(p, b)
    <3> DEFINE l == Lending
    <3>1. q = l \o Append(w, b) /\ p = l \o w /\ l \in Seq(Buffers)
      BY <1>0, <2>2, <2>3 DEF Filled, Lending
    <3>2. w \in Seq(Buffers) /\ b \in Buffers
      BY <1>0, <2>3
    <3> HIDE DEF l, p, q, w, b
    <3>3. l \o Append(w, b) = Append(l \o w, b)
      BY <3>1, <3>2, ConcatAppend
    <3> QED
      BY <3>1, <3>3
  <2>6. b \notin Range(p)
    <3>1. b \notin Range(w) \cup {reading}
      BY <2>1 DEF ReadBuffersOwned
    <3> QED
      BY <1>0, <3>1
  <2>7. p \in Seq(Buffers) /\ c = Mapped(read_bufs, p) /\ Inbox = c \o socket
    BY <1>0 DEF Inbox
  <2>8. Inbox' = Mapped(read_bufs', q) \o socket'
    BY DEF Inbox, Contents, Mapped
  <2> HIDE DEF b, p, q, c
  <2>9. read_bufs' \in [Buffers -> Nat] /\ read_bufs'[b] = x
    BY <1>0, <2>1, <2>3, <2>4 DEF b
  <2>10. Mapped(read_bufs', p) = c
    <3>1. Range(p) \subseteq Buffers
      <4>1. Range(p) \in SUBSET Buffers
        BY <2>7, RangeOfSeq
      <4> QED
        BY <4>1
    <3>2. \A e \in Range(p) : read_bufs'[e] = read_bufs[e]
      BY <1>0, <2>1, <2>6, <3>1 DEF b
    <3> QED
      BY <2>7, <3>2, MappedSame
  <2>11. Mapped(read_bufs', q) = Append(c, x)
    <3> DEFINE f == read_bufs'
    <3>1. f \in [Buffers -> Nat] /\ f[b] = x /\ Mapped(f, p) = c /\ q = Append(p, b)
      BY <2>5, <2>9, <2>10
    <3> HIDE DEF f
    <3>2. Mapped(f, Append(p, b)) = Append(Mapped(f, p), f[b])
      <4>1. Maps(f, Buffers, Nat) /\ p \in Seq(Buffers) /\ b \in Buffers
        BY <2>3, <2>7, <3>1 DEF Maps
      <4> QED
        BY <4>1, MappedAppend
    <3>3. Mapped(f, q) = Append(c, x)
      BY <2>3, <3>1, <3>2
    <3> QED
      BY <3>3 DEF f
  <2> DEFINE t == Tail(socket)
             o == <<x>>
  <2>12. <<x>> \o t = socket
    BY <1>0, <2>2, HeadInFront
  <2>13. t \in Seq(Nat) /\ o \in Seq(Nat) /\ socket' = t
    BY <2>2, <2>4
  <2> HIDE DEF x, t
  <2>14. Append(c, x) = c \o o
    BY <1>0, <2>4, AppendIsConcat
  <2> HIDE DEF o
  <2>15. (c \o o) \o t = c \o (o \o t)
    <3>1. c \in Seq(Nat) /\ o \in Seq(Nat) /\ t \in Seq(Nat)
      BY <1>0, <2>13
    <3> QED
      BY <3>1, ConcatAssociative, SMTT(20)
  <2> QED
    BY <2>2, <2>7, <2>8, <2>11, <2>12, <2>13, <2>14, <2>15 DEF o
<1>10. ASSUME NEW g \in GroupIds, Exhaust(g) PROVE Inbox' = Inbox /\ given' = given
  <2>1. /\ UNCHANGED queues /\ UNCHANGED <<reading, read_bufs, socket, given>>
        /\ cq' = Append(cq, Cqe("recv", g, 0, FALSE))
    BY <1>10 DEF Exhaust, worker, queues, history, bufs, outside
  <2>2. w' = w
    BY <2>1, EndDoes
  <2> QED
    BY <1>1, <2>1, <2>2
<1>11. ASSUME NEW slot \in Slots, Queue(slot) \/ Fail(slot) \/ Notify(slot)
       PROVE  Inbox' = Inbox /\ given' = given
  <2>1. PICK more \in BOOLEAN :
          UNCHANGED <<worker, bufs, outside>> /\ cq' = Append(cq, Cqe("send", slot, 0, more))
    BY <1>11 DEF Queue, Fail, Notify
  <2>2. UNCHANGED queues /\ UNCHANGED <<reading, read_bufs, socket, given>>
    BY <2>1 DEF worker, queues, history, bufs, outside
  <2>3. w' = w
    BY <2>1, <2>2, SendDoes
  <2> QED
    BY <1>1, <2>2, <2>3
<1>12. ASSUME NEW slot \in Slots, Transmit(slot) PROVE Inbox' = Inbox /\ given' = given
  BY <1>2, <1>12 DEF Transmit, worker, bufs, history
<1>13. CASE UNCHANGED vars
  BY <1>2, <1>13 DEF vars, worker, bufs, outside, history
<1> QED
  BY <1>3, <1>4, <1>5, <1>6, <1>7, <1>8, <1>9, <1>10, <1>11, <1>12, <1>13 DEF Next, Cycle, Kernel

\* Arrivals, and what the steps on the outputs are to the abstract socket.
LEMMA Abstract ==
  ASSUME TypeInv, ContentInv
  PROVE  /\ Arrive /\ Inbox' = Append(Inbox, arrived + 1) /\ given' = given /\ Stays => U!Next
         /\ Inbox # <<>> /\ given' = Append(given, Head(Inbox)) /\ Inbox' = Tail(Inbox) /\ Stays => U!Next
         /\ \A slot \in Slots : Inbox' = Inbox /\ given' = given /\ (Accepts(slot) \/ Leaves(slot)) => U!Next
         /\ Inbox' = Inbox /\ given' = given /\ Stays => UNCHANGED U!vars
<1>0. /\ send_bufs \in [Slots -> Nat] /\ sends \in Nat /\ arrived \in Nat
      /\ MaxPackets \in Nat /\ MaxSends \in Nat
  BY BoundsAssumption DEF TypeInv, TypeOK
<1>1. Stays => Outbox' = Outbox /\ wire' = wire
  BY DEF Stays, Outbox
<1>2. ASSUME Arrive, Inbox' = Append(Inbox, arrived + 1), given' = given, Stays PROVE U!Next
  <2>1. arrived + 1 \in 1 .. MaxPackets + MaxSends
    BY <1>0, <1>2 DEF Arrive
  <2>2. U!Arrive(arrived + 1)
    BY <1>1, <1>2 DEF U!Arrive, Inbox, Filled, Lending, Outbox, Active
  <2> QED
    BY <2>1, <2>2 DEF U!Next
<1>3. ASSUME Inbox # <<>>, given' = Append(given, Head(Inbox)), Inbox' = Tail(Inbox), Stays PROVE U!Next
  <2>1. U!Receive
    BY <1>1, <1>3 DEF U!Receive, Inbox, Filled, Lending, Outbox, Active
  <2> QED
    BY <2>1 DEF U!Next
<1>4. ASSUME NEW slot \in Slots, Inbox' = Inbox, given' = given, Accepts(slot) PROVE U!Next
  <2>0. PICK d : d = sends + 1
    OBVIOUS
  <2>1. d \in 1 .. MaxPackets + MaxSends /\ d \notin 1 .. sends
    BY <1>0, <1>4, <2>0 DEF Accepts
  <2>2. d \notin Outbox \cup wire
    BY <2>1 DEF ContentInv, Outbox
  <2>3. Outbox' = Outbox \cup {d}
    <3>1. \A s \in Active : s \in Slots /\ s # slot
      BY <1>4 DEF Accepts, ContentInv
    <3>2. send_bufs'[slot] = d /\ \A s \in Active : send_bufs'[s] = send_bufs[s]
      BY <1>0, <1>4, <2>0, <3>1 DEF Accepts
    <3>3. Active' = Active \cup {slot}
      BY <1>4 DEF Accepts
    <3>4. Outbox' = {send_bufs'[s] : s \in Active'}
      BY DEF Outbox
    <3>5. \A x : x \in Outbox' <=> x \in Outbox \cup {d}
      BY <3>2, <3>3, <3>4 DEF Outbox
    <3> QED
      BY <3>5
  <2>4. wire' = wire
    BY <1>4 DEF Accepts
  <2>5. U!AddSendTo(d, {}, {})
    BY <1>4, <2>2, <2>3, <2>4 DEF U!AddSendTo, U!Output, Inbox, Filled, Lending, Outbox, Active
  <2> QED
    BY <2>1, <2>5 DEF U!Next
<1>5. ASSUME NEW slot \in Slots, Inbox' = Inbox, given' = given, Leaves(slot) PROVE U!Next
  <2> DEFINE d == send_bufs[slot]
  <2>1. d \in Outbox /\ slot \in Active /\ Active' = Active \ {slot} /\ UNCHANGED send_bufs
        /\ wire' \in {wire, wire \cup {d}}
    BY <1>5 DEF Leaves, Outbox
  <2>2. Outbox' = Outbox \ {d}
    <3>1. \A s \in Active : s # slot => send_bufs[s] # d
      BY <2>1 DEF ContentInv
    <3>2. Outbox' = {send_bufs[s] : s \in Active \ {slot}}
      BY <2>1 DEF Outbox
    <3> QED
      BY <3>1, <3>2 DEF Outbox
  <2> HIDE DEF d
  <2>3. CASE wire' = wire
    <3>1. U!CommitSendTo({}, {d})
      BY <1>5, <2>2, <2>3 DEF U!CommitSendTo, U!Output, Inbox, Filled, Lending, Outbox, Active
    <3>2. {} \in SUBSET Outbox /\ {d} \in SUBSET (Outbox \ {})
      BY <2>1
    <3> QED
      BY <3>1, <3>2 DEF U!Next, Outbox, Active
  <2>4. CASE wire' = wire \cup {d}
    <3>1. U!CommitSendTo({d}, {})
      BY <1>5, <2>2, <2>4 DEF U!CommitSendTo, U!Output, Inbox, Filled, Lending, Outbox, Active
    <3>2. {d} \in SUBSET Outbox /\ {} \in SUBSET (Outbox \ {d})
      BY <2>1
    <3> QED
      BY <3>1, <3>2 DEF U!Next, Outbox, Active
  <2> QED
    BY <2>1, <2>3, <2>4
<1>6. ASSUME Inbox' = Inbox, given' = given, Stays PROVE UNCHANGED U!vars
  BY <1>1, <1>6 DEF U!vars, Inbox, Filled, Lending, Outbox, Active
<1> QED
  BY <1>2, <1>3, <1>4, <1>5, <1>6

\* Every step is one of the abstract socket or changes nothing of it.
LEMMA SocketRefines ==
  TypeInv /\ ReadBuffersOwned /\ SendBuffersOwned /\ ContentInv /\ [Next]_vars => [U!Next]_(U!vars)
<1> SUFFICES ASSUME TypeInv, ReadBuffersOwned, SendBuffersOwned, ContentInv, [Next]_vars
             PROVE  [U!Next]_(U!vars)
  OBVIOUS
<1>1. Arrive \/ Input => Stays
  BY DEF Arrive, Input, Stays, Active, worker, bufs, kernel, outside, history
<1>2. \/ Arrive /\ Inbox' = Append(Inbox, arrived + 1) /\ given' = given
      \/ Input /\ Inbox # <<>> /\ given' = Append(given, Head(Inbox)) /\ Inbox' = Tail(Inbox)
      \/ Inbox' = Inbox /\ given' = given
  BY InputDoes
<1>3. (\E slot \in Slots : Accepts(slot) \/ Leaves(slot)) \/ Stays
  BY OutputDoes
<1>4. U!Next \/ UNCHANGED U!vars
  BY <1>1, <1>2, <1>3, Abstract
<1> QED
  BY <1>4

\* To the worker the socket with rings is a UDP socket: it receives packets in order,
\* once and with their own content, and sends each at most once and with its own
\* content, whatever buffers they went through and however the kernel completes.
THEOREM IoUring == Spec => ImplementsUdpSocket
<1>1. Init => U!Init
  <2> SUFFICES ASSUME Init PROVE U!Init
    OBVIOUS
  <2>1. /\ reading = None /\ socket = <<>> /\ given = <<>> /\ wire = {} /\ sq = <<>>
        /\ sending = [s \in Slots |-> "idle"]
    BY DEF Init
  <2>2. Inbox = <<>>
    <3>1. Lending = <<>> /\ ReadWait = <<>>
      BY <2>1, FirstQueues DEF Lending
    <3>2. <<>> \o <<>> = <<>>
      BY EmptySeq, ConcatEmptySeq
    <3>3. Filled = <<>>
      BY <3>1, <3>2 DEF Filled
    <3>4. Contents(<<>>) = <<>>
      BY DEF Contents
    <3> QED
      BY <2>1, <3>2, <3>3, <3>4 DEF Inbox
  <2>3. Active = {}
    BY <2>1 DEF Active, Range
  <2>4. Outbox = {}
    BY <2>3 DEF Outbox
  <2> QED
    BY <2>1, <2>2, <2>4 DEF U!Init, Inbox, Filled, Lending, Outbox, Active
<1>2. Init => ContentInv
  <2> SUFFICES ASSUME Init PROVE ContentInv
    OBVIOUS
  <2>1. arrived = 0 /\ sends = 0 /\ wire = {} /\ sq = <<>> /\ sending = [s \in Slots |-> "idle"]
    BY DEF Init
  <2>2. Active = {}
    BY <2>1 DEF Active, Range
  <2> QED
    BY <2>1, <2>2, BoundsAssumption DEF ContentInv
<1>3. Spec => []ContentInv
  BY <1>2, ContentStep, TypeInvariant, SendBuffers, PTL DEF Spec
<1> QED
  BY <1>1, <1>3, SocketRefines, TypeInvariant, ReadBuffers, SendBuffers, PTL
     DEF Spec, ImplementsUdpSocket, U!Spec
=============================================================================
