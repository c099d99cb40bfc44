------------------------------ MODULE MediaBus ------------------------------
(***************************************************************************)
(* The bus between the workers: one bounded broadcast ring, shared by all  *)
(* threads behind a mutex, that every worker writes to and reads from.     *)
(*                                                                         *)
(* A worker reads its whole backlog at the start of a cycle and writes in  *)
(* the rest of it, so that a writer is also one of the readers it waits    *)
(* for.  Where Worker models the tables of one thread with a free bus,     *)
(* this module models the threads and the bus with the tables reduced to   *)
(* who is a source or a consumer of one video track:                       *)
(*                                                                         *)
(*   "spawned"  the thread has not added its reader yet                    *)
(*   "recv"     process_bus_recv                                           *)
(*   "work"     the rest of the cycle, outputs of the tasks included       *)
(*   "lock"     an output goes to the bus: waiting for the mutex           *)
(*   "send"     broadcast, with the mutex held, until every reader has room*)
(*   "dead"     the thread panicked, its reader is dropped                 *)
(***************************************************************************)
EXTENDS Integers, Sequences, FiniteSets, Selections

CONSTANTS
  Workers,     \* the worker threads
  Publishers,  \* Whip tasks of the track
  Viewers,     \* Whep tasks of the track
  Home,        \* the worker of each task
  NoOne,       \* nobody holds the mutex
  BusSize,     \* slots of the ring: Bus::new(1000)
  MaxEvents    \* bound: events broadcast in a behaviour

Tasks == Publishers \cup Viewers

ASSUME HomeAssumption      == Home \in [Tasks -> Workers]
ASSUME RolesAssumption     == Publishers \cap Viewers = {}
ASSUME NoOneAssumption     == NoOne \notin Workers
ASSUME BusSizeAssumption   == BusSize \in Nat \ {0}
ASSUME MaxEventsAssumption == MaxEvents \in Nat

VARIABLES
  pc,        \* where each thread is
  lock,      \* who holds the mutex around the bus
  sent,      \* every event broadcast so far, in the order of the ring
  cursor,    \* how many of them each reader has consumed or skipped
  out,       \* the task whose output a thread is broadcasting
  status,    \* of each task: "new", "on" (in the bus table) or "gone"
  since,     \* the cursor of its worker when the task came on
  received   \* the events handed to each task, as positions in sent

vars == <<pc, lock, sent, cursor, out, status, since, received>>

-----------------------------------------------------------------------------
\* A Whip task sends media, a Whep task asks for a keyframe; an event is named by
\* the task it comes from.
IsMedia(event) == event \in Publishers

Busy == {w \in Workers : pc[w] \in {"lock", "send"}}

\* Mutant: the reader of a dead thread is not dropped.
ReaderKept(w) == pc[w] # "spawned"

Reader(w) == pc[w] \notin {"spawned", "dead"}

Backlog(w) == Len(sent) - cursor[w]

\* Mutant: a broadcast does not wait for the reader of its own thread.
RoomForOthers(w) == \A v \in Workers \ {w} : Reader(v) => Backlog(v) < BusSize

Room(w) == \A v \in Workers : Reader(v) => Backlog(v) < BusSize

-----------------------------------------------------------------------------
Init ==
  /\ pc = [w \in Workers |-> "spawned"]
  /\ lock = NoOne
  /\ sent = <<>>
  /\ cursor = [w \in Workers |-> 0]
  /\ out = [w \in Workers |-> NoOne]
  /\ status = [t \in Tasks |-> "new"]
  /\ since = [t \in Tasks |-> 0]
  /\ received = [t \in Tasks |-> <<>>]

\* bus.lock().add_rx(): the new reader sees what is broadcast from now on.
AddReader(w) ==
  /\ pc[w] = "spawned"
  /\ lock = NoOne
  /\ cursor' = [cursor EXCEPT ![w] = Len(sent)]
  /\ pc' = [pc EXCEPT ![w] = "recv"]
  /\ UNCHANGED <<lock, sent, out, status, since, received>>

-----------------------------------------------------------------------------
(* process_bus_recv: media goes to the consumers, a keyframe request to the *)
(* sources of the track, as the table has them when the event is read.      *)

\* Mutants: events of the thread's own tasks are skipped; the kind of the event is
\* not looked at.
TakersElsewhere(w, event) ==
  {t \in Tasks : /\ Home[t] = w /\ Home[event] # w /\ status[t] = "on"
                 /\ t \in Viewers <=> IsMedia(event)}
TakersAll(w, event) == {t \in Tasks : Home[t] = w /\ status[t] = "on"}

Takers(w, event) ==
  {t \in Tasks : Home[t] = w /\ status[t] = "on" /\ (t \in Viewers <=> IsMedia(event))}

\* The slot of the n-th event holds that event until the ring has wrapped over it.
InSlot(n) == n + BusSize * ((Len(sent) - n) \div BusSize)

Receive(w) ==
  /\ pc[w] = "recv"
  /\ Backlog(w) > 0
  /\ LET n == InSlot(cursor[w] + 1)
     IN  /\ received' = [t \in Tasks |-> IF t \in Takers(w, sent[n])
                                         THEN Append(received[t], n) ELSE received[t]]
         /\ cursor' = [cursor EXCEPT ![w] = @ + 1]
  /\ UNCHANGED <<pc, lock, sent, out, status, since>>

ReceiveDone(w) ==
  /\ pc[w] = "recv"
  /\ Backlog(w) = 0
  /\ pc' = [pc EXCEPT ![w] = "work"]
  /\ UNCHANGED <<lock, sent, cursor, out, status, since, received>>

-----------------------------------------------------------------------------
(* The rest of the cycle.                                                   *)

\* PublishTrack or SubscribeTrack of a task that has connected.
Announce(t) ==
  /\ pc[Home[t]] = "work"
  /\ status[t] = "new"
  /\ status' = [status EXCEPT ![t] = "on"]
  /\ since' = [since EXCEPT ![t] = cursor[Home[t]]]
  /\ UNCHANGED <<pc, lock, sent, cursor, out, received>>

\* The teardown of a task in pop_ended_tasks.
End(t) ==
  /\ pc[Home[t]] = "work"
  /\ status[t] = "on"
  /\ status' = [status EXCEPT ![t] = "gone"]
  /\ UNCHANGED <<pc, lock, sent, cursor, out, since, received>>

\* TrackMedia or RequestKeyframeTrack comes out of a task.
Output(t) ==
  LET w == Home[t]
  IN  /\ pc[w] = "work"
      /\ status[t] = "on"
      /\ Len(sent) + Cardinality(Busy) < MaxEvents
      /\ out' = [out EXCEPT ![w] = t]
      /\ pc' = [pc EXCEPT ![w] = "lock"]
      /\ UNCHANGED <<lock, sent, cursor, status, since, received>>

\* Mutant: the bus is used without its mutex.
FreeAlways == TRUE

Free == lock = NoOne

Lock(w) ==
  /\ pc[w] = "lock"
  /\ Free
  /\ lock' = w
  /\ pc' = [pc EXCEPT ![w] = "send"]
  /\ UNCHANGED <<sent, cursor, out, status, since, received>>

\* Bus::broadcast returns when the event is in the ring; the guard of the mutex is
\* dropped at the end of the statement.
Broadcast(w) ==
  /\ pc[w] = "send"
  /\ Room(w)
  /\ sent' = Append(sent, out[w])
  /\ out' = [out EXCEPT ![w] = NoOne]
  /\ lock' = NoOne
  /\ pc' = [pc EXCEPT ![w] = "work"]
  /\ UNCHANGED <<cursor, status, since, received>>

EndCycle(w) ==
  /\ pc[w] = "work"
  /\ pc' = [pc EXCEPT ![w] = "recv"]
  /\ UNCHANGED <<lock, sent, cursor, out, status, since, received>>

\* A panic of the thread, in the middle of its backlog too: its tasks and its reader
\* are gone.
Die(w) ==
  /\ pc[w] \in {"recv", "work"}
  /\ pc' = [pc EXCEPT ![w] = "dead"]
  /\ status' = [t \in Tasks |-> IF Home[t] = w THEN "gone" ELSE status[t]]
  /\ UNCHANGED <<lock, sent, cursor, out, since, received>>

-----------------------------------------------------------------------------
\* What a thread does without anything new from outside.
Thread(w) ==
  \/ AddReader(w)
  \/ Receive(w)
  \/ ReceiveDone(w)
  \/ Lock(w)
  \/ Broadcast(w)
  \/ EndCycle(w)

Next ==
  \/ \E w \in Workers : Thread(w)
  \/ \E t \in Tasks : Announce(t)
  \/ \E t \in Tasks : End(t)
  \/ \E t \in Tasks : Output(t)
  \/ \E w \in Workers : Die(w)

Spec == Init /\ [][Next]_vars

\* The operating system runs every thread, and the mutex is handed over.
FairSpec == Spec /\ \A w \in Workers : WF_vars(Thread(w))

-----------------------------------------------------------------------------
(* Properties.                                                             *)

\* The ring, the cursors and the mutex are well formed; the mutex is held by a
\* thread exactly while it broadcasts.
TypeOK ==
  /\ pc \in [Workers -> {"spawned", "recv", "work", "lock", "send", "dead"}]
  /\ lock \in Workers \cup {NoOne}
  /\ sent \in Seq(Tasks)
  /\ cursor \in [Workers -> Nat]
  /\ out \in [Workers -> Tasks \cup {NoOne}]
  /\ status \in [Tasks -> {"new", "on", "gone"}]
  /\ since \in [Tasks -> Nat]
  /\ received \in [Tasks -> Seq(Nat \ {0})]
  /\ \A w \in Workers : cursor[w] <= Len(sent)
  /\ \A w \in Workers : lock = w <=> pc[w] = "send"
  /\ \A w \in Workers : w \in Busy => out[w] \in Tasks

\* The events of sent from position a + 1 to b that concern task t.
Concerning(t, a, b) ==
  Select([i \in 1 .. b - a |-> a + i],
         {n \in 1 .. Len(sent) : t \in Viewers <=> IsMedia(sent[n])})

\* A task on the bus has been handed exactly the events that concern it since it
\* came on, in the order of the ring: none is lost, none comes twice, and the
\* viewers of a track on all workers see the same order.
HandedInOrder ==
  \A t \in Tasks :
     status[t] = "on" => received[t] = Concerning(t, since[t], cursor[Home[t]])

\* Workers, mutex and ring together are one stream for all tasks: none can tell on
\* which worker it lives, how often the ring has wrapped, or that a worker has died.
F == INSTANCE MediaFlow WITH stream <- sent, from <- since, handed <- received

ImplementsMediaFlow == F!Spec

\* A broadcast that has begun comes to its end, and with it the cycle of the
\* thread: nobody waits for ever on a backlog.
BroadcastCompletes == \A w \in Workers : w \in Busy ~> w \notin Busy

\* A thread with a full backlog is itself on its way into the ring: it waits for the
\* mutex, or holds it and waits for its own reader, and so never reads again.
Deadlocked ==
  \E v \in Workers :
     /\ pc[v] \notin {"spawned", "dead"} /\ Backlog(v) >= BusSize
     /\ pc[v] = "send" \/ (pc[v] = "lock" /\ lock # NoOne)

\* This is the only way for a broadcast to wait for ever: a full ring alone, a thread
\* that is slow or one that has died with a backlog holds nobody up, and the mutex
\* goes round.
OnlyDeadlockBlocks == \A w \in Workers : w \in Busy ~> (w \notin Busy \/ Deadlocked)

\* What is broadcast while a task is on the bus reaches it, on whichever worker it
\* lives, unless it ends first or the threads deadlock: again and again the task has
\* been handed all of it.
CatchesUp ==
  \A t \in Tasks :
     []<>(Deadlocked \/ (status[t] = "on" => received[t] = Concerning(t, since[t], Len(sent))))
=============================================================================
