----------------------------- MODULE MmsgSocket -----------------------------
(***************************************************************************)
(* The UDP socket that sends in batches (src/net/socket2_mmsg.rs): packets *)
(* are copied to slots and leave together, in one call of sendmmsg, when   *)
(* the worker commits at the end of its cycle or when all slots are taken. *)
(*                                                                         *)
(* sendmmsg sends a prefix of what it is given and returns its length, or  *)
(* fails when it cannot send the first packet.  The socket does not look   *)
(* at the length: what was not sent is forgotten, and so are all packets   *)
(* when the call fails.                                                    *)
(*                                                                         *)
(* The worker calls the socket in the order of its cycle: "out" outputs of *)
(* the tasks, "in" process_udp with more outputs in between, then commit.  *)
(***************************************************************************)
EXTENDS Integers, Sequences, FiniteSets, SequencesExt

CONSTANTS
  Queue,       \* slots: the parameter QUEUE
  MaxPackets,  \* bound: packets that arrive
  MaxSends     \* bound: packets sent

ASSUME QueueAssumption  == Queue \in Nat \ {0}
ASSUME BoundsAssumption == MaxPackets \in Nat /\ MaxSends \in Nat

VARIABLES
  phase,      \* where the worker is in its cycle
  bufs,       \* content of each slot, with its address
  queue_len,  \* slots in use
  socket,     \* kernel: packets in the socket's queue
  arrived,    \* history: packets that have arrived
  given,      \* history: packets the worker has read
  sends,      \* history: packets accepted by add_send_to
  wire,       \* history: what the kernel put on the wire, in its order
  short       \* history: has a call of sendmmsg left packets behind?

input  == <<socket, arrived, given>>
output == <<bufs, queue_len, sends, wire, short>>

vars == <<phase, input, output>>

Slots == 0 .. Queue - 1

Init ==
  /\ phase = "out"
  /\ bufs = [s \in Slots |-> 0]
  /\ queue_len = 0
  /\ socket = <<>>
  /\ arrived = 0
  /\ given = <<>>
  /\ sends = 0
  /\ wire = <<>>
  /\ short = FALSE

-----------------------------------------------------------------------------
Queued == [i \in 1 .. queue_len |-> bufs[i - 1]]

\* sendmmsg sends the first n packets.
Sendmmsg(n) ==
  /\ wire' = wire \o SubSeq(Queued, 1, n)
  /\ short' = (short \/ n < queue_len)

Fails(n) == n = 0 /\ queue_len > 0

\* The next packet is copied to a slot.
Put(slot) ==
  /\ bufs' = [bufs EXCEPT ![slot] = sends + 1]
  /\ queue_len' = slot + 1
  /\ sends' = sends + 1

\* Mutants: the queue is full one packet later; what has been committed stays.
FullLate == queue_len > Queue
LengthKept == queue_len

Full == queue_len = Queue

Committed == 0

AddSendTo ==
  /\ phase \in {"out", "in"}
  /\ sends < MaxSends
  /\ ~Full
  /\ Put(queue_len)
  /\ UNCHANGED <<phase, input, wire, short>>

\* Mutant: a full queue starts again at its first slot, without commit_send_to.
AddSendToWraps ==
  /\ phase \in {"out", "in"}
  /\ sends < MaxSends
  /\ Full
  /\ Put(0)
  /\ UNCHANGED <<phase, input, wire, short>>

\* A full queue is committed first.  If that fails the new packet is refused.
AddSendToFull ==
  /\ phase \in {"out", "in"}
  /\ sends < MaxSends
  /\ Full
  /\ \E n \in 0 .. queue_len :
        /\ Sendmmsg(n)
        /\ IF Fails(n) THEN queue_len' = Committed /\ UNCHANGED <<bufs, sends>> ELSE Put(0)
  /\ UNCHANGED <<phase, input>>

StartReading ==
  /\ phase = "out"
  /\ phase' = "in"
  /\ UNCHANGED <<input, output>>

\* recv_from: a copy of the oldest packet, or WouldBlock, which ends process_udp.
RecvFrom ==
  /\ phase = "in"
  /\ IF socket = <<>>
     THEN phase' = "commit" /\ UNCHANGED <<socket, given>>
     ELSE given' = Append(given, Head(socket)) /\ socket' = Tail(socket) /\ UNCHANGED phase
  /\ UNCHANGED <<arrived, output>>

\* Mutant: a queue that is not full waits for more.
CommitFull ==
  /\ phase = "commit"
  /\ IF Full THEN (\E n \in 0 .. queue_len : Sendmmsg(n)) /\ queue_len' = 0
             ELSE UNCHANGED <<queue_len, wire, short>>
  /\ phase' = "out"
  /\ UNCHANGED <<input, bufs, sends>>

CommitSendTo ==
  /\ phase = "commit"
  /\ \E n \in 0 .. queue_len : Sendmmsg(n)
  /\ queue_len' = Committed
  /\ phase' = "out"
  /\ UNCHANGED <<input, bufs, sends>>

Arrive ==
  /\ arrived < MaxPackets
  /\ arrived' = arrived + 1
  /\ socket' = Append(socket, arrived + 1)
  /\ UNCHANGED <<phase, given, output>>

Cycle == StartReading \/ RecvFrom \/ CommitSendTo

Next == AddSendTo \/ AddSendToFull \/ Cycle \/ Arrive

Spec == Init /\ [][Next]_vars

\* The thread runs its cycle; the packets that arrive while it reads are finitely
\* many.
FairSpec == Spec /\ WF_vars(Cycle)

-----------------------------------------------------------------------------
(* Properties.                                                             *)

TypeOK ==
  /\ phase \in {"out", "in", "commit"}
  /\ bufs \in [Slots -> 0 .. MaxSends]
  /\ queue_len \in 0 .. Queue
  /\ socket \in Seq(1 .. MaxPackets) /\ given \in Seq(1 .. MaxPackets)
  /\ arrived \in 0 .. MaxPackets
  /\ sends \in 0 .. MaxSends
  /\ wire \in Seq(1 .. MaxSends)
  /\ short \in BOOLEAN

\* Packets leave in the order the tasks have sent them, none twice, through slots
\* that are used again and calls that fail or fall short; and as long as no call has
\* done so, what is on the wire or queued is all that was accepted.
OrderKept ==
  LET leaving == wire \o Queued
  IN  /\ \A i, j \in DOMAIN leaving : i < j => leaving[i] < leaving[j]
      /\ ~short => leaving = [i \in 1 .. sends |-> i]

U == INSTANCE UdpSocket WITH
       Datagrams <- 1 .. MaxPackets + MaxSends,
       inbox     <- socket,
       outbox    <- Range(Queued),
       wire      <- Range(wire)

\* To the worker it is a UDP socket like the other one, although a packet may push
\* all those before it out of the socket, or be refused and have them all lost.
ImplementsUdpSocket == U!Spec

\* A packet does not stay in the queue: whether or not the call succeeds, it is out
\* of the socket by the end of the cycle.
QueuedLeave == \A n \in 1 .. MaxSends : n \in Range(Queued) ~> n \notin Range(Queued)
=============================================================================
