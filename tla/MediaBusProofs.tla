--------------------------- MODULE MediaBusProofs ---------------------------
(***************************************************************************)
(* Proofs, for any number of workers, tasks, slots and events, that the    *)
(* bus hands each task the events it is due, in order, and that workers,   *)
(* mutex and ring together implement MediaFlow.                            *)
(***************************************************************************)
EXTENDS MediaBus, SelectionProofs

-----------------------------------------------------------------------------
(* Types, and mutual exclusion.                                            *)

\* The tasks live on workers.
LEMMA HomeType == \A t \in Tasks : Home[t] \in Workers
  BY HomeAssumption

\* A slot holds an event of the stream.
LEMMA SlotType ==
  ASSUME Len(sent) \in Nat, NEW n \in 1 .. Len(sent)
  PROVE  InSlot(n) \in Nat \ {0}
<1> DEFINE turns == (Len(sent) - n) \div BusSize
<1>1. turns \in Nat
  BY BusSizeAssumption
<1> HIDE DEF turns
<1>2. BusSize * turns \in Nat
  BY <1>1, BusSizeAssumption
<1> QED
  BY <1>2 DEF InSlot, turns

\* Every step keeps the types, the cursors within the stream, and the mutex with the
\* thread that broadcasts.
LEMMA TypeStep == TypeOK /\ [Next]_vars => TypeOK'
<1> SUFFICES ASSUME TypeOK, [Next]_vars PROVE TypeOK'
  OBVIOUS
<1> USE NoOneAssumption, HomeType
<1>0. Len(sent) \in Nat
  BY LenProperties DEF TypeOK
<1>1. ASSUME NEW w \in Workers, AddReader(w) PROVE TypeOK'
  BY <1>0, <1>1 DEF AddReader, TypeOK, Busy
<1>2. ASSUME NEW w \in Workers, Receive(w) PROVE TypeOK'
  <2> DEFINE n == InSlot(cursor[w] + 1)
  <2>1. cursor[w] + 1 \in 1 .. Len(sent)
    BY <1>0, <1>2 DEF Receive, Backlog, TypeOK
  <2>2. n \in Nat \ {0}
    BY <1>0, <2>1, SlotType
  <2> HIDE DEF n
  <2>3. received' = [t \in Tasks |-> IF t \in Takers(w, sent[n])
                                     THEN Append(received[t], n) ELSE received[t]]
    BY <1>2 DEF Receive, n
  <2>4. received' \in [Tasks -> Seq(Nat \ {0})]
    <3>1. \A t \in Tasks : Append(received[t], n) \in Seq(Nat \ {0})
      BY <2>2, AppendProperties DEF TypeOK
    <3> QED
      BY <2>3, <3>1 DEF TypeOK
  <2> QED
    <3>1. cursor' = [cursor EXCEPT ![w] = @ + 1] /\ UNCHANGED <<pc, lock, sent, out, status, since>>
      BY <1>2 DEF Receive
    <3>2. cursor' \in [Workers -> Nat] /\ \A v \in Workers : cursor'[v] <= Len(sent)
      BY <1>0, <2>1, <3>1 DEF TypeOK
    <3> QED
      BY <2>4, <3>1, <3>2 DEF TypeOK, Busy
<1>3. ASSUME NEW w \in Workers, ReceiveDone(w) PROVE TypeOK'
  BY <1>3 DEF ReceiveDone, TypeOK, Busy
<1>4. ASSUME NEW w \in Workers, Lock(w) PROVE TypeOK'
  BY <1>4 DEF Lock, Free, TypeOK, Busy
<1>5. ASSUME NEW w \in Workers, Broadcast(w) PROVE TypeOK'
  <2>1. out[w] \in Tasks /\ sent' \in Seq(Tasks) /\ Len(sent') = Len(sent) + 1
    BY <1>5, AppendProperties DEF Broadcast, TypeOK, Busy
  <2> QED
    BY <1>0, <1>5, <2>1 DEF Broadcast, TypeOK, Busy
<1>6. ASSUME NEW w \in Workers, EndCycle(w) PROVE TypeOK'
  BY <1>6 DEF EndCycle, TypeOK, Busy
<1>7. ASSUME NEW t \in Tasks, Announce(t) PROVE TypeOK'
  BY <1>7 DEF Announce, TypeOK, Busy
<1>8. ASSUME NEW t \in Tasks, End(t) PROVE TypeOK'
  BY <1>8 DEF End, TypeOK, Busy
<1>9. ASSUME NEW t \in Tasks, Output(t) PROVE TypeOK'
  BY <1>9 DEF Output, TypeOK, Busy
<1>10. ASSUME NEW w \in Workers, Die(w) PROVE TypeOK'
  BY <1>10 DEF Die, TypeOK, Busy
<1>11. CASE UNCHANGED vars
  BY <1>11 DEF vars, TypeOK, Busy
<1> QED
  BY <1>1, <1>2, <1>3, <1>4, <1>5, <1>6, <1>7, <1>8, <1>9, <1>10, <1>11 DEF Next, Thread

\* Threads, mutex and ring keep their types; in particular no two threads are in
\* broadcast at once, and the one that is there holds the mutex.
THEOREM BusTypes == Spec => []TypeOK
<1>1. Init => TypeOK
  BY NoOneAssumption DEF Init, TypeOK, Busy
<1> QED
  BY <1>1, TypeStep, PTL DEF Spec

-----------------------------------------------------------------------------
(* The ring.                                                               *)

\* A broadcast waits for every reader, so that none is ever more than a ring behind.
RingInv == \A w \in Workers : Reader(w) => Backlog(w) <= BusSize

\* No step lets a reader fall more than a ring behind.
LEMMA RingStep == TypeOK /\ RingInv /\ [Next]_vars => RingInv'
<1> SUFFICES ASSUME TypeOK, RingInv, [Next]_vars, NEW v \in Workers, Reader(v)'
             PROVE  Backlog(v)' <= BusSize
  BY DEF RingInv
<1> USE NoOneAssumption, BusSizeAssumption, HomeType
<1>0. Len(sent) \in Nat /\ cursor[v] \in Nat /\ (Reader(v) => Backlog(v) <= BusSize)
  BY LenProperties DEF TypeOK, RingInv
<1>1. ASSUME NEW w \in Workers, AddReader(w) PROVE Backlog(v)' <= BusSize
  BY <1>0, <1>1 DEF AddReader, TypeOK, Reader, Backlog
<1>2. ASSUME NEW w \in Workers, Receive(w) PROVE Backlog(v)' <= BusSize
  BY <1>0, <1>2 DEF Receive, TypeOK, Reader, Backlog
<1>3. ASSUME NEW w \in Workers, Broadcast(w) PROVE Backlog(v)' <= BusSize
  <2>1. Reader(v) /\ Len(sent') = Len(sent) + 1
    BY <1>3, AppendProperties DEF Broadcast, TypeOK, Reader, Busy
  <2> QED
    BY <1>0, <1>3, <2>1 DEF Broadcast, Room, Backlog
<1>4. ASSUME NEW w \in Workers,
             ReceiveDone(w) \/ Lock(w) \/ EndCycle(w) \/ Die(w)
      PROVE  Backlog(v)' <= BusSize
  BY <1>0, <1>4 DEF ReceiveDone, Lock, EndCycle, Die, TypeOK, Reader, Backlog
<1>5. ASSUME NEW t \in Tasks, Announce(t) \/ End(t) \/ Output(t)
      PROVE  Backlog(v)' <= BusSize
  BY <1>0, <1>5 DEF Announce, End, Output, TypeOK, Reader, Backlog
<1>6. CASE UNCHANGED vars
  BY <1>0, <1>6 DEF vars, Reader, Backlog
<1> QED
  BY <1>1, <1>2, <1>3, <1>4, <1>5, <1>6 DEF Next, Thread

\* What a reader finds in the next slot is the next event, not one that has been
\* written over it.
LEMMA NextSlot ==
  ASSUME TypeOK, RingInv, NEW w \in Workers, Reader(w), Backlog(w) > 0
  PROVE  InSlot(cursor[w] + 1) = cursor[w] + 1
<1>1. /\ Len(sent) \in Nat /\ cursor[w] \in Nat
      /\ Len(sent) - (cursor[w] + 1) \in 0 .. BusSize - 1
  <2>1. Len(sent) \in Nat /\ cursor[w] \in Nat
    BY LenProperties DEF TypeOK
  <2>2. Len(sent) - cursor[w] <= BusSize /\ Len(sent) - cursor[w] > 0
    BY DEF RingInv, Backlog
  <2> QED
    BY <2>1, <2>2, BusSizeAssumption
<1>2. (Len(sent) - (cursor[w] + 1)) \div BusSize = 0
  <2>1. \A k \in 0 .. BusSize - 1 : k \div BusSize = 0
    BY BusSizeAssumption
  <2> QED
    BY <1>1, <2>1
<1> QED
  BY <1>1, <1>2, BusSizeAssumption DEF InSlot

-----------------------------------------------------------------------------
(* What tasks and threads have in common.                                  *)

\* How far a task has seen the stream.
Seen(t) == IF received[t] = <<>> THEN since[t] ELSE received[t][Len(received[t])]

\* A task on the bus lives on a thread that reads it.  It has seen no more than its
\* thread, and nothing in between is for it.
TaskInv ==
  \A t \in Tasks :
     /\ status[t] = "new" => received[t] = <<>>
     /\ status[t] = "on" =>
          /\ Reader(Home[t])
          /\ since[t] <= cursor[Home[t]]
          /\ Seen(t) <= cursor[Home[t]]
          /\ \A n \in Seen(t) + 1 .. cursor[Home[t]] : ~F!IsFor(t, n)

\* What a thread broadcasts comes from a task of its own that is on the bus.
OutInv == \A w \in Busy : Home[out[w]] = w /\ status[out[w]] = "on"

BusInv == TypeOK /\ RingInv /\ TaskInv /\ OutInv

\* What a task has seen is a position of the stream.
LEMMA SeenType ==
  ASSUME TypeOK, NEW t \in Tasks
  PROVE  Seen(t) \in Nat
  BY LenProperties DEF TypeOK, Seen

\* Reading the next event: those it is for are the takers, and see it.
LEMMA Read ==
  ASSUME BusInv, NEW w \in Workers, Receive(w)
  PROVE  LET n == cursor[w] + 1
         IN  /\ Reader(w)
             /\ n \in 1 .. Len(sent)
             /\ received' = [t \in Tasks |-> IF t \in Takers(w, sent[n])
                                             THEN Append(received[t], n) ELSE received[t]]
             /\ \A t \in Tasks : t \in Takers(w, sent[n])
                                   <=> Home[t] = w /\ status[t] = "on" /\ F!IsFor(t, n)
<1> DEFINE n == cursor[w] + 1
<1>1. Reader(w) /\ Backlog(w) > 0
  BY DEF Receive, Reader
<1>2. InSlot(n) = n
  BY <1>1, NextSlot DEF BusInv
<1>3. n \in 1 .. Len(sent)
  BY <1>1, LenProperties DEF BusInv, TypeOK, Backlog
<1>4. received' = [t \in Tasks |-> IF t \in Takers(w, sent[n])
                                   THEN Append(received[t], n) ELSE received[t]]
  BY <1>2 DEF Receive
<1> QED
  BY <1>1, <1>3, <1>4 DEF Takers, IsMedia, F!IsFor

\* Every step keeps the tasks of a thread level with it.
LEMMA TaskStep == BusInv /\ [Next]_vars => TaskInv'
<1> SUFFICES ASSUME BusInv, [Next]_vars PROVE TaskInv'
  OBVIOUS
<1> USE HomeType DEF BusInv
<1>0. Len(sent) \in Nat
  BY LenProperties DEF TypeOK
<1>1. ASSUME NEW w \in Workers, AddReader(w) PROVE TaskInv'
  BY <1>1 DEF AddReader, TaskInv, TypeOK, Reader, Seen, F!IsFor
<1>2. ASSUME NEW w \in Workers, Receive(w) PROVE TaskInv'
  <2> DEFINE n == cursor[w] + 1
  <2>1. /\ Reader(w) /\ n \in 1 .. Len(sent)
        /\ received' = [t \in Tasks |-> IF t \in Takers(w, sent[n])
                                        THEN Append(received[t], n) ELSE received[t]]
        /\ \A t \in Tasks : t \in Takers(w, sent[n])
                              <=> Home[t] = w /\ status[t] = "on" /\ F!IsFor(t, n)
    BY <1>2, Read
  <2>2. /\ cursor' = [cursor EXCEPT ![w] = n]
        /\ UNCHANGED <<pc, sent, status, since>>
    BY <1>2 DEF Receive
  <2> SUFFICES ASSUME NEW t \in Tasks
               PROVE  /\ (status[t] = "new" => received[t] = <<>>)'
                      /\ status[t] = "on" =>
                           /\ Reader(Home[t])'
                           /\ (since[t] <= cursor[Home[t]])'
                           /\ (Seen(t) <= cursor[Home[t]])'
                           /\ (\A m \in Seen(t) + 1 .. cursor[Home[t]] : ~F!IsFor(t, m))'
    BY <2>2 DEF TaskInv
  <2>3. Seen(t) \in Nat /\ cursor[w] \in Nat /\ cursor[Home[t]] \in Nat /\ since[t] \in Nat
    BY SeenType DEF TypeOK
  <2>4. CASE t \in Takers(w, sent[n])
    <3>1. received'[t] = Append(received[t], n)
      BY <2>1, <2>4
    <3>2. received'[t] # <<>> /\ received'[t][Len(received'[t])] = n
      <4>1. received[t] \in Seq(Nat \ {0}) /\ n \in Nat \ {0}
        BY <1>0, <2>1 DEF TypeOK
      <4> HIDE DEF n
      <4> QED
        BY <3>1, <4>1, AppendProperties
    <3>3. Seen(t)' = n /\ cursor'[Home[t]] = n
      BY <2>1, <2>2, <2>4, <3>2 DEF Seen, TypeOK
    <3> QED
      BY <2>1, <2>2, <2>3, <2>4, <3>3 DEF TaskInv, Reader
  <2>5. CASE t \notin Takers(w, sent[n])
    <3>1. received'[t] = received[t] /\ Seen(t)' = Seen(t)
      BY <2>1, <2>2, <2>5 DEF Seen
    <3>2. CASE Home[t] = w /\ status[t] = "on"
      <4>1. cursor'[Home[t]] = n /\ ~F!IsFor(t, n)
        BY <2>1, <2>2, <2>5, <3>2 DEF TypeOK
      <4>2. \A m \in Seen(t) + 1 .. n : ~F!IsFor(t, m)
        BY <2>3, <3>2, <4>1 DEF TaskInv
      <4> QED
        BY <2>2, <2>3, <3>1, <3>2, <4>1, <4>2 DEF TaskInv, Reader, F!IsFor
    <3>3. CASE ~(Home[t] = w /\ status[t] = "on")
      BY <2>2, <3>1, <3>3 DEF TaskInv, Reader, F!IsFor, TypeOK
    <3> QED
      BY <3>2, <3>3
  <2> QED
    BY <2>4, <2>5
<1>3. ASSUME NEW w \in Workers, Broadcast(w) PROVE TaskInv'
  <2>1. /\ Len(sent') = Len(sent) + 1
        /\ \A n \in 1 .. Len(sent) : sent'[n] = sent[n]
    BY <1>3, AppendProperties DEF Broadcast, TypeOK, Busy
  <2>2. \A t \in Tasks : Seen(t)' = Seen(t) /\ Seen(t) \in Nat
    BY <1>3, SeenType DEF Broadcast, Seen
  <2>3. \A t \in Tasks : \A n \in Seen(t) + 1 .. cursor[Home[t]] : F!IsFor(t, n)' <=> F!IsFor(t, n)
    <3>1. ASSUME NEW t \in Tasks, NEW n \in Seen(t) + 1 .. cursor[Home[t]]
          PROVE  n \in 1 .. Len(sent)
      BY <1>0, <2>2 DEF TypeOK
    <3> QED
      BY <2>1, <3>1 DEF F!IsFor
  <2>4. \A v \in Workers : Reader(v)' <=> Reader(v)
    BY <1>3 DEF Broadcast, Reader, TypeOK
  <2> QED
    BY <1>3, <2>2, <2>3, <2>4 DEF Broadcast, TaskInv
<1>4. ASSUME NEW w \in Workers, ReceiveDone(w) \/ Lock(w) \/ EndCycle(w)
      PROVE  TaskInv'
  <2>1. UNCHANGED <<sent, cursor, status, since, received>>
    BY <1>4 DEF ReceiveDone, Lock, EndCycle
  <2>2. \A v \in Workers : Reader(v) => Reader(v)'
    BY <1>4 DEF ReceiveDone, Lock, EndCycle, TypeOK, Reader
  <2>3. \A t \in Tasks : Reader(Home[t]) => Reader(Home[t])'
    BY <2>2, HomeType
  <2> QED
    BY <2>1, <2>3 DEF TaskInv, Seen, F!IsFor
<1>5. ASSUME NEW w \in Workers, Die(w) PROVE TaskInv'
  BY <1>5 DEF Die, TaskInv, TypeOK, Reader, Seen, F!IsFor
<1>6. ASSUME NEW u \in Tasks, Announce(u) PROVE TaskInv'
  BY <1>6 DEF Announce, TaskInv, TypeOK, Reader, Seen, F!IsFor
<1>7. ASSUME NEW u \in Tasks, End(u) PROVE TaskInv'
  BY <1>7 DEF End, TaskInv, TypeOK, Reader, Seen, F!IsFor
<1>8. ASSUME NEW u \in Tasks, Output(u) PROVE TaskInv'
  BY <1>8 DEF Output, TaskInv, TypeOK, Reader, Seen, F!IsFor
<1>9. CASE UNCHANGED vars
  BY <1>9 DEF vars, TaskInv, Reader, Seen, F!IsFor
<1> QED
  BY <1>1, <1>2, <1>3, <1>4, <1>5, <1>6, <1>7, <1>8, <1>9 DEF Next, Thread

\* Every step keeps the task that is broadcast for one of the thread, and on the bus.
LEMMA OutStep == BusInv /\ [Next]_vars => OutInv'
<1> SUFFICES ASSUME BusInv, [Next]_vars PROVE OutInv'
  OBVIOUS
<1> USE HomeType DEF BusInv
<1>1. ASSUME NEW w \in Workers, Thread(w) PROVE OutInv'
  BY <1>1 DEF Thread, AddReader, Receive, ReceiveDone, Lock, Broadcast, EndCycle,
              OutInv, TypeOK, Busy
<1>2. ASSUME NEW w \in Workers, Die(w) PROVE OutInv'
  BY <1>2 DEF Die, OutInv, TypeOK, Busy
<1>3. ASSUME NEW t \in Tasks, Announce(t) PROVE OutInv'
  BY <1>3 DEF Announce, OutInv, TypeOK, Busy
<1>4. ASSUME NEW t \in Tasks, End(t) PROVE OutInv'
  BY <1>4 DEF End, OutInv, TypeOK, Busy
<1>5. ASSUME NEW t \in Tasks, Output(t) PROVE OutInv'
  BY <1>5 DEF Output, OutInv, TypeOK, Busy
<1>6. CASE UNCHANGED vars
  BY <1>6 DEF vars, OutInv, Busy
<1> QED
  BY <1>1, <1>2, <1>3, <1>4, <1>5, <1>6 DEF Next

\* The inductive invariant holds.
LEMMA BusInvariant == Spec => []BusInv
<1>1. Init => BusInv
  <2> SUFFICES ASSUME Init PROVE BusInv
    OBVIOUS
  <2>1. TypeOK
    BY NoOneAssumption DEF Init, TypeOK, Busy
  <2>2. RingInv /\ TaskInv /\ OutInv
    BY HomeType DEF Init, RingInv, Reader, TaskInv, OutInv, Busy
  <2> QED
    BY <2>1, <2>2 DEF BusInv
<1>2. BusInv /\ [Next]_vars => BusInv'
  BY TypeStep, RingStep, TaskStep, OutStep DEF BusInv
<1> QED
  BY <1>1, <1>2, PTL DEF Spec

-----------------------------------------------------------------------------
(* MediaFlow.                                                              *)

\* Reading is handing the next event that is due to a group of tasks.
LEMMA ReadHands ==
  ASSUME BusInv, NEW w \in Workers, Receive(w)
  PROVE  F!Hand(Takers(w, sent[cursor[w] + 1]))
<1> DEFINE n     == cursor[w] + 1
           group == Takers(w, sent[n])
<1> USE HomeType DEF BusInv
<1>1. /\ n \in 1 .. Len(sent)
      /\ received' = [t \in Tasks |-> IF t \in group THEN Append(received[t], n) ELSE received[t]]
      /\ \A t \in Tasks : t \in group <=> Home[t] = w /\ status[t] = "on" /\ F!IsFor(t, n)
  BY Read
<1>2. Len(sent) \in Nat /\ cursor[w] \in Nat /\ group \subseteq Tasks
  BY LenProperties DEF TypeOK, Takers
<1> HIDE DEF group
<1>3. ASSUME NEW t \in group
      PROVE  F!On(t) /\ F!Due(t) # {} /\ F!Min(F!Due(t)) = n
  <2>1. t \in Tasks /\ status[t] = "on" /\ Home[t] = w /\ F!IsFor(t, n)
    BY <1>1, <1>2
  <2>2. /\ Seen(t) \in Nat /\ Seen(t) <= cursor[w]
        /\ \A m \in Seen(t) + 1 .. cursor[w] : ~F!IsFor(t, m)
    BY <2>1, SeenType DEF TaskInv
  <2>3. F!Due(t) = {m \in Seen(t) + 1 .. Len(sent) : F!IsFor(t, m)}
    BY DEF F!Due, Seen
  <2>4. n \in F!Due(t)
    BY <1>1, <1>2, <2>1, <2>2, <2>3
  <2>5. \A m \in F!Due(t) : m \in Nat /\ n <= m
    BY <1>1, <1>2, <2>2, <2>3
  <2>6. F!Min(F!Due(t)) = n
    BY <1>2, <2>4, <2>5 DEF F!Min
  <2> QED
    BY <2>1, <2>4, <2>6 DEF F!On
<1>4. received' = [t \in F!Tasks |-> IF t \in group THEN Append(received[t], F!Min(F!Due(t)))
                                     ELSE received[t]]
  BY <1>1, <1>3 DEF F!Tasks, Tasks
<1> QED
  BY <1>3, <1>4 DEF F!Hand, Receive, group

\* Every step is a step of MediaFlow, or changes nothing that tasks can see.
LEMMA FlowStep ==
  ASSUME BusInv, [Next]_vars
  PROVE  [F!Next]_F!vars
<1> USE HomeType DEF BusInv
<1>0. F!Tasks = Tasks /\ Len(sent) \in Nat
  BY LenProperties DEF F!Tasks, Tasks, TypeOK
<1>1. ASSUME NEW w \in Workers, Receive(w) PROVE F!Next
  <2>1. Takers(w, sent[cursor[w] + 1]) \in SUBSET F!Tasks
    BY <1>0 DEF Takers
  <2> QED
    BY <1>1, <2>1, ReadHands DEF F!Next
<1>2. ASSUME NEW w \in Workers, Broadcast(w) PROVE F!Next
  <2>1. out[w] \in Tasks /\ status[out[w]] = "on"
    BY <1>2 DEF Broadcast, TypeOK, OutInv, Busy
  <2>2. F!Send(out[w])
    BY <1>2, <2>1 DEF Broadcast, F!Send, F!On
  <2> QED
    BY <1>0, <2>1, <2>2 DEF F!Next
<1>3. ASSUME NEW t \in Tasks, Announce(t) PROVE F!Next
  <2>1. cursor[Home[t]] \in 0 .. Len(sent)
    BY <1>0 DEF TypeOK
  <2>2. F!Join(t)
    BY <1>3, <2>1 DEF Announce, F!Join
  <2> QED
    BY <1>0, <2>2 DEF F!Next
<1>4. ASSUME NEW t \in Tasks, End(t) PROVE F!Next
  <2>1. F!Leave({t})
    BY <1>0, <1>4 DEF End, F!Leave, TypeOK
  <2> QED
    BY <1>0, <2>1 DEF F!Next
<1>5. ASSUME NEW w \in Workers, Die(w) PROVE F!Next
  <2> DEFINE group == {t \in Tasks : Home[t] = w}
  <2>1. F!Leave(group)
    BY <1>0, <1>5 DEF Die, F!Leave
  <2>2. group \in SUBSET F!Tasks
    BY <1>0
  <2> QED
    BY <2>1, <2>2 DEF F!Next
<1>6. ASSUME NEW w \in Workers,
             AddReader(w) \/ ReceiveDone(w) \/ Lock(w) \/ EndCycle(w)
      PROVE  UNCHANGED F!vars
  BY <1>6 DEF AddReader, ReceiveDone, Lock, EndCycle, F!vars
<1>7. ASSUME NEW t \in Tasks, Output(t) PROVE UNCHANGED F!vars
  BY <1>7 DEF Output, F!vars
<1>8. CASE UNCHANGED vars
  BY <1>8 DEF vars, F!vars
<1> QED
  BY <1>1, <1>2, <1>3, <1>4, <1>5, <1>6, <1>7, <1>8 DEF Next, Thread

\* Workers, mutex and ring together implement MediaFlow: to its tasks the server is one
\* stream of events, handed over in order and without a gap.
THEOREM Flow == Spec => ImplementsMediaFlow
<1>1. Init => F!Init
  BY DEF Init, F!Init, F!Tasks, Tasks
<1>2. BusInv /\ [Next]_vars => [F!Next]_F!vars
  BY FlowStep
<1> QED
  BY <1>1, <1>2, BusInvariant, PTL DEF Spec, ImplementsMediaFlow, F!Spec

-----------------------------------------------------------------------------
(* What each task has been handed.                                         *)

\* The positions from a + 1 to b, and those of them that concern a task.
Positions(a, b) == [i \in 1 .. b - a |-> a + i]

For(t) == {n \in 1 .. Len(sent) : t \in Viewers <=> IsMedia(sent[n])}

\* The positions from one to another.
LEMMA PositionsType ==
  ASSUME NEW a \in Nat, NEW b \in Nat, a <= b
  PROVE  /\ Positions(a, b) \in Seq(Nat)
         /\ Len(Positions(a, b)) = b - a
         /\ \A i \in 1 .. b - a : Positions(a, b)[i] = a + i
  BY DEF Positions

\* There are none between a position and itself.
LEMMA PositionsNone ==
  ASSUME NEW a \in Nat
  PROVE  Positions(a, a) = <<>>
  BY DEF Positions

\* With one more event there is one more position.
LEMMA PositionsNext ==
  ASSUME NEW a \in Nat, NEW b \in Nat, a <= b
  PROVE  Positions(a, b + 1) = Append(Positions(a, b), b + 1)
<1> DEFINE p == Positions(a, b)
           q == Append(p, b + 1)
           r == Positions(a, b + 1)
<1>1. p \in Seq(Nat) /\ Len(p) = b - a /\ \A i \in 1 .. b - a : p[i] = a + i
  BY PositionsType
<1>2. r \in Seq(Nat) /\ Len(r) = b + 1 - a /\ \A i \in 1 .. b + 1 - a : r[i] = a + i
  BY PositionsType, b + 1 \in Nat, a <= b + 1
<1> HIDE DEF p, r
<1>3. /\ q \in Seq(Nat) /\ Len(q) = Len(p) + 1
      /\ \A i \in 1 .. Len(p) : q[i] = p[i]
      /\ q[Len(p) + 1] = b + 1
  BY <1>1, b + 1 \in Nat, AppendProperties
<1> HIDE DEF q
<1>4. ASSUME NEW i \in 1 .. b + 1 - a
      PROVE  q[i] = r[i]
  <2>1. CASE i \in 1 .. b - a
    BY <1>1, <1>2, <1>3, <2>1
  <2>2. CASE i = Len(p) + 1
    BY <1>1, <1>2, <1>3, <2>2
  <2> QED
    BY <1>1, <2>1, <2>2
<1>5. Len(q) = b + 1 - a
  BY <1>1, <1>3
<1> QED
  BY <1>2, <1>3, <1>4, <1>5, SeqEqual DEF p, q, r

\* One more event concerns a task or does not.
LEMMA ConcerningNext ==
  ASSUME NEW t, NEW a \in Nat, NEW b \in Nat, a <= b
  PROVE  Concerning(t, a, b + 1) = IF b + 1 \in For(t) THEN Append(Concerning(t, a, b), b + 1)
                                   ELSE Concerning(t, a, b)
<1>1. Concerning(t, a, b) = Select(Positions(a, b), For(t))
  BY DEF Concerning, Positions, For
<1>2. Concerning(t, a, b + 1) = Select(Append(Positions(a, b), b + 1), For(t))
  <2>1. Concerning(t, a, b + 1) = Select(Positions(a, b + 1), For(t))
    BY DEF Concerning, Positions, For
  <2> QED
    BY <2>1, PositionsNext
<1>3. Select(Append(Positions(a, b), b + 1), For(t))
        = IF b + 1 \in For(t) THEN Append(Select(Positions(a, b), For(t)), b + 1)
          ELSE Select(Positions(a, b), For(t))
  <2> DEFINE n == b + 1
             p == Positions(a, b)
  <2>1. p \in Seq(Nat) /\ n \in Nat
    BY PositionsType
  <2> HIDE DEF n, p
  <2>2. Select(Append(p, n), For(t)) = IF n \in For(t) THEN Append(Select(p, For(t)), n)
                                       ELSE Select(p, For(t))
    BY <2>1, SelectAppend
  <2> QED
    BY <2>2 DEF n, p
<1> QED
  BY <1>1, <1>2, <1>3

\* Every step hands each task the next event that concerns it, if any.
LEMMA HandedStep == BusInv /\ HandedInOrder /\ [Next]_vars => HandedInOrder'
<1> SUFFICES ASSUME BusInv, HandedInOrder, [Next]_vars,
                    NEW t \in Tasks, status'[t] = "on"
             PROVE  received'[t] = Concerning(t, since[t], cursor[Home[t]])'
  BY DEF HandedInOrder
<1> USE HomeType DEF BusInv
<1>0. Len(sent) \in Nat /\ since[t] \in Nat /\ cursor[Home[t]] \in 0 .. Len(sent)
  BY LenProperties DEF TypeOK
<1>1. ASSUME status[t] = "on", UNCHANGED <<sent, received, since>>,
             cursor'[Home[t]] = cursor[Home[t]]
      PROVE  received'[t] = Concerning(t, since[t], cursor[Home[t]])'
  BY <1>1 DEF HandedInOrder, Concerning
<1>2. ASSUME NEW w \in Workers, AddReader(w)
      PROVE  received'[t] = Concerning(t, since[t], cursor[Home[t]])'
  <2>1. status[t] = "on" /\ Home[t] # w
    BY <1>2 DEF AddReader, TaskInv, Reader
  <2> QED
    BY <1>1, <1>2, <2>1 DEF AddReader, TypeOK
<1>3. ASSUME NEW w \in Workers, Receive(w)
      PROVE  received'[t] = Concerning(t, since[t], cursor[Home[t]])'
  <2> DEFINE n == cursor[w] + 1
  <2>1. /\ n \in 1 .. Len(sent)
        /\ received' = [u \in Tasks |-> IF u \in Takers(w, sent[n])
                                        THEN Append(received[u], n) ELSE received[u]]
        /\ \A u \in Tasks : u \in Takers(w, sent[n])
                              <=> Home[u] = w /\ status[u] = "on" /\ F!IsFor(u, n)
    BY <1>3, Read
  <2>2. /\ cursor' = [cursor EXCEPT ![w] = n]
        /\ UNCHANGED <<sent, status, since>>
    BY <1>3 DEF Receive
  <2>3. CASE Home[t] = w
    <3>1. cursor'[Home[t]] = n /\ status[t] = "on"
      BY <2>2, <2>3 DEF TypeOK
    <3>2. n \in For(t) <=> F!IsFor(t, n)
      BY <2>1 DEF For, IsMedia, F!IsFor
    <3>3. Concerning(t, since[t], n) = IF n \in For(t)
                                       THEN Append(Concerning(t, since[t], cursor[w]), n)
                                       ELSE Concerning(t, since[t], cursor[w])
      <4>1. cursor[w] \in Nat /\ since[t] <= cursor[w]
        BY <1>0, <2>3, <3>1 DEF TaskInv
      <4> QED
        BY <1>0, <4>1, ConcerningNext
    <3>4. received'[t] = Concerning(t, since[t], n)
      BY <2>1, <2>3, <3>1, <3>2, <3>3 DEF HandedInOrder
    <3> QED
      BY <2>2, <3>1, <3>4 DEF Concerning
  <2>4. CASE Home[t] # w
    BY <2>1, <2>2, <2>4 DEF HandedInOrder, Concerning, TypeOK
  <2> QED
    BY <2>3, <2>4
<1>4. ASSUME NEW w \in Workers, Broadcast(w)
      PROVE  received'[t] = Concerning(t, since[t], cursor[Home[t]])'
  <2> DEFINE a == since[t]
             b == cursor[Home[t]]
  <2>1. /\ UNCHANGED <<cursor, status, since, received>>
        /\ Len(sent') = Len(sent) + 1
        /\ \A n \in 1 .. Len(sent) : sent'[n] = sent[n]
    BY <1>4, AppendProperties DEF Broadcast, TypeOK, Busy
  <2>2. a \in Nat /\ b \in Nat /\ b <= Len(sent) /\ a <= b
    BY <1>0, <2>1 DEF TaskInv
  <2>3. \A n \in 1 .. Len(sent) : n \in For(t) <=> n \in For(t)'
    BY <1>0, <2>1 DEF For
  <2>4. \A i \in 1 .. Len(Positions(a, b)) :
           Positions(a, b)[i] \in For(t) <=> Positions(a, b)[i] \in For(t)'
    <3> HIDE DEF a, b
    <3>1. \A i \in 1 .. b - a : a + i \in 1 .. Len(sent)
      BY <1>0, <2>2
    <3>2. /\ Len(Positions(a, b)) = b - a
          /\ \A i \in 1 .. b - a : Positions(a, b)[i] = a + i
      BY <2>2, PositionsType
    <3> QED
      BY <2>3, <3>1, <3>2
  <2>5. Select(Positions(a, b), For(t)) = Select(Positions(a, b), For(t)')
    <3> HIDE DEF a, b
    <3>1. Positions(a, b) \in Seq(Nat)
      BY <2>2, PositionsType
    <3> QED
      BY <2>4, <3>1, SelectSame
  <2> QED
    BY <2>1, <2>5 DEF HandedInOrder, Concerning, Positions, For
<1>5. ASSUME NEW u \in Tasks, Announce(u)
      PROVE  received'[t] = Concerning(t, since[t], cursor[Home[t]])'
  <2>1. CASE u = t
    <3>1. received'[t] = <<>> /\ since'[t] = cursor'[Home[t]] /\ since'[t] \in Nat
      BY <1>0, <1>5, <2>1 DEF Announce, TaskInv, TypeOK
    <3>2. Select(Positions(since'[t], since'[t]), For(t)') = <<>>
      <4>1. Positions(since'[t], since'[t]) = <<>>
        BY <3>1, PositionsNone
      <4> QED
        BY <4>1, SelectEmpty
    <3> QED
      BY <3>1, <3>2 DEF Concerning, Positions, For
  <2>2. CASE u # t
    <3>1. UNCHANGED <<sent, cursor, received>>
      BY <1>5 DEF Announce
    <3>2. status'[t] = status[t] /\ since'[t] = since[t]
      BY <1>5, <2>2 DEF Announce, TypeOK
    <3> QED
      BY <3>1, <3>2 DEF HandedInOrder, Concerning
  <2> QED
    BY <2>1, <2>2
<1>6. ASSUME NEW w \in Workers, ReceiveDone(w) \/ Lock(w) \/ EndCycle(w) \/ Die(w)
      PROVE  received'[t] = Concerning(t, since[t], cursor[Home[t]])'
  BY <1>1, <1>6 DEF ReceiveDone, Lock, EndCycle, Die
<1>7. ASSUME NEW u \in Tasks, End(u) \/ Output(u)
      PROVE  received'[t] = Concerning(t, since[t], cursor[Home[t]])'
  BY <1>1, <1>7 DEF End, Output, TypeOK
<1>8. CASE UNCHANGED vars
  BY <1>1, <1>8 DEF vars
<1> QED
  BY <1>2, <1>3, <1>4, <1>5, <1>6, <1>7, <1>8 DEF Next, Thread

\* A task on the bus has been handed exactly the events that concern it since it came
\* on, in the order of the ring.
THEOREM InOrder == Spec => []HandedInOrder
<1>1. Init => HandedInOrder
  BY DEF Init, HandedInOrder
<1> QED
  BY <1>1, HandedStep, BusInvariant, PTL DEF Spec
=============================================================================
