----------------------------- MODULE MediaFlow ------------------------------
(***************************************************************************)
(* What publishers and viewers may expect of the server, wherever they     *)
(* live: one stream of events, media of the publishers and keyframe        *)
(* requests of the viewers, of which each task is handed those meant for   *)
(* it, from some point on, in order and without a gap, until it leaves.    *)
(***************************************************************************)
EXTENDS Naturals, Sequences, FiniteSetsExt

CONSTANTS Publishers, Viewers

VARIABLES
  stream,  \* the task each event comes from
  status,  \* of each task: "new", "on" or "gone"
  from,    \* how much of the stream was over when a task came on
  handed   \* the events handed to each task, as positions in the stream

vars == <<stream, status, from, handed>>

Tasks == Publishers \cup Viewers

Init ==
  /\ stream = <<>>
  /\ status = [t \in Tasks |-> "new"]
  /\ from = [t \in Tasks |-> 0]
  /\ handed = [t \in Tasks |-> <<>>]

On(t) == status[t] = "on"

\* Media is for the viewers, a keyframe request for the publishers.
IsFor(t, n) == t \in Viewers <=> stream[n] \in Publishers

\* The positions that are still to be handed to a task.
Due(t) ==
  LET seen == IF handed[t] = <<>> THEN from[t] ELSE handed[t][Len(handed[t])]
  IN  {n \in seen + 1 .. Len(stream) : IsFor(t, n)}

Join(t) ==
  /\ status[t] = "new"
  /\ status' = [status EXCEPT ![t] = "on"]
  /\ \E n \in 0 .. Len(stream) : from' = [from EXCEPT ![t] = n]
  /\ UNCHANGED <<stream, handed>>

Send(t) ==
  /\ On(t)
  /\ stream' = Append(stream, t)
  /\ UNCHANGED <<status, from, handed>>

\* Some tasks are handed the next event each of them is due.
Hand(group) ==
  /\ \A t \in group : On(t) /\ Due(t) # {}
  /\ handed' = [t \in Tasks |-> IF t \in group THEN Append(handed[t], Min(Due(t))) ELSE handed[t]]
  /\ UNCHANGED <<stream, status, from>>

\* Tasks leave, one by one or with their thread, which new ones never join then.
Leave(group) ==
  /\ status' = [t \in Tasks |-> IF t \in group THEN "gone" ELSE status[t]]
  /\ UNCHANGED <<stream, from, handed>>

Next ==
  \/ \E t \in Tasks : Join(t) \/ Send(t)
  \/ \E group \in SUBSET Tasks : Hand(group) \/ Leave(group)

Spec == Init /\ [][Next]_vars
=============================================================================
