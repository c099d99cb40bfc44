--------------------------- MODULE IoUringSocket ----------------------------
(***************************************************************************)
(* The UDP socket of the workers on Linux (src/net/socket2_io_uring.rs):   *)
(* packets go through buffers shared with the kernel, in both directions,  *)
(* and the two sides tell each other by ring entries whose a buffer is.    *)
(*                                                                         *)
(* Receive buffers come in groups.  A multishot receive is armed per       *)
(* group; it takes one buffer of the group per packet and ends when the    *)
(* group has none left.  The socket arms the group again when nothing is   *)
(* left to read.  A zero-copy send reads its buffer until a second         *)
(* completion says that it does not any more.                              *)
(*                                                                         *)
(* The worker calls the socket in the order of its cycle: "out" outputs of *)
(* the tasks, "in" process_udp with more outputs in between, then commit   *)
(* and finish.  The kernel runs beside it.  The initial state is the one   *)
(* after prepare.                                                          *)
(*                                                                         *)
(* A receive is taken to end only when its group has no free buffer: the   *)
(* completion ring (twice the submission ring) has room for two            *)
(* completions per send, one per receive buffer and one per group.         *)
(***************************************************************************)
EXTENDS Integers, Sequences, FiniteSets, Functions, Selections

CONSTANTS
  SendQueue,   \* send buffers (2048)
  Groups,      \* groups of receive buffers (2048 / 16): prepare needs one, a full ring two
  GroupSize,   \* buffers of a group: RECV_BUF_GROUP_SIZE (16)
  MaxPackets,  \* bound: packets that arrive
  MaxSends     \* bound: packets sent

ASSUME SendQueueAssumption == SendQueue \in Nat \ {0}
ASSUME GroupsAssumption    == Groups \in Nat /\ Groups >= 2
ASSUME GroupSizeAssumption == GroupSize \in Nat \ {0}
ASSUME BoundsAssumption    == MaxPackets \in Nat /\ MaxSends \in Nat

VARIABLES
  phase,                  \* where the worker is in its cycle
  send_bufs,              \* content of each send buffer
  send_free_queue,        \* send buffers free for use
  read_bufs,              \* content of each receive buffer
  read_wait_queue,        \* receive buffers with a packet to read
  read_wait_free_groups,  \* groups whose receive has ended
  reading,                \* the buffer recv_from has lent to the worker
  sq,                     \* send buffers pushed to the ring, not submitted
  cq,                     \* completions the socket has not polled
  provided,               \* kernel: free buffers of each group
  armed,                  \* kernel: groups with a receive that has not ended
  sending,                \* kernel: what it does with each send buffer
  socket,                 \* kernel: packets in the socket's queue
  arrived,                \* history: packets that have arrived
  sends,                  \* history: packets accepted by add_send_to
  given,                  \* history: packets the worker has read
  wire,                   \* history: what the kernel put on the wire
  taken                   \* history: packets the worker has read in this cycle

bufs    == <<send_bufs, read_bufs>>
queues  == <<send_free_queue, read_wait_queue, read_wait_free_groups>>
kernel  == <<provided, armed, sending>>
outside == <<socket, arrived, wire>>
history == <<sends, given, taken>>
worker  == <<phase, queues, reading, sq, history>>

vars == <<worker, bufs, cq, kernel, outside>>

Slots   == 0 .. SendQueue - 1
GroupIds == 0 .. Groups - 1
Indices == 0 .. GroupSize - 1
Buffers == 0 .. Groups * GroupSize - 1
None    == -1

\* GroupIndex::to_u32: a buffer by its group and its index in the group.
ToBuffer(group, index) == group * GroupSize + index

\* Mutant: a ring with entries for the sends only.
EntriesForSends == SendQueue

Entries == SendQueue + Groups * GroupSize

Init ==
  /\ phase = "out"
  /\ send_bufs = [s \in Slots |-> 0]
  /\ send_free_queue = [i \in 1 .. SendQueue |-> i - 1]
  /\ read_bufs = [b \in Buffers |-> 0]
  /\ read_wait_queue = <<>>
  /\ read_wait_free_groups = <<>>
  /\ reading = None
  /\ sq = <<>>
  /\ cq = <<>>
  /\ provided = [g \in GroupIds |-> Indices]
  /\ armed = GroupIds
  /\ sending = [s \in Slots |-> "idle"]
  /\ socket = <<>>
  /\ arrived = 0
  /\ sends = 0
  /\ given = <<>>
  /\ wire = {}
  /\ taken = 0

-----------------------------------------------------------------------------
(* Completions: [op, id, index, more].  A receive completes with more for   *)
(* each packet and without when it ends; a send with more when the kernel   *)
(* has taken it and without when its buffer is free.  Those of provided     *)
(* buffers are ignored by the socket and left out.                          *)

Cqe(op, id, index, more) == [op |-> op, id |-> id, index |-> index, more |-> more]

Cqes(ops, mores) == [op: ops, id: Nat, index: Indices, more: mores]

\* poll_completions: what the queues of the socket are after it.
Packets == Select(cq, Cqes({"recv"}, {TRUE}))

\* Mutants: a receive is taken to last for ever, or to end with every packet.
NoEnds  == <<>>
AnyEnds == Select(cq, Cqes({"recv"}, BOOLEAN))

Ends == Select(cq, Cqes({"recv"}, {FALSE}))

\* Mutant: any completion of a send frees its buffer.
AllDone == Select(cq, Cqes({"send"}, BOOLEAN))

Done    == Select(cq, Cqes({"send"}, {FALSE}))

ReadWait == read_wait_queue \o [i \in DOMAIN Packets |-> ToBuffer(Packets[i].id, Packets[i].index)]

\* Mutant: a group is queued under the number of its successor.
FreeSuccessors == read_wait_free_groups \o [i \in DOMAIN Ends |-> Ends[i].id + 1]

FreeGroups == read_wait_free_groups \o [i \in DOMAIN Ends |-> Ends[i].id]
FreeSlots  == send_free_queue \o [i \in DOMAIN Done |-> Done[i].id]

-----------------------------------------------------------------------------
(* The socket, called by the worker.                                        *)

\* add_send_to: without a free buffer it polls and refuses the packet.
AddSendTo ==
  /\ phase \in {"out", "in"} /\ reading = None
  /\ \/ /\ FreeSlots # <<>> /\ sends < MaxSends
        /\ LET slot == Head(FreeSlots)
           IN  /\ send_bufs' = [send_bufs EXCEPT ![slot] = sends + 1]
               /\ sq' = Append(sq, slot)
               /\ send_free_queue' = Tail(FreeSlots)
        /\ sends' = sends + 1
     \/ /\ FreeSlots = <<>>
        /\ send_free_queue' = <<>>
        /\ UNCHANGED <<send_bufs, sq, sends>>
  /\ read_wait_queue' = ReadWait
  /\ read_wait_free_groups' = FreeGroups
  /\ cq' = <<>>
  /\ UNCHANGED <<phase, read_bufs, reading, kernel, outside, given, taken>>

StartReading ==
  /\ phase = "out"
  /\ phase' = "in"
  /\ UNCHANGED <<bufs, queues, cq, reading, sq, kernel, outside, history>>

\* recv_from: a slice of the buffer, or WouldBlock.
RecvFrom ==
  /\ phase = "in" /\ reading = None
  /\ send_free_queue' = FreeSlots
  /\ read_wait_free_groups' = FreeGroups
  /\ cq' = <<>>
  /\ IF ReadWait = <<>>
     THEN /\ phase' = "commit"
          /\ UNCHANGED <<read_wait_queue, reading>>
     ELSE /\ read_wait_queue' = Tail(ReadWait)
          /\ reading' = Head(ReadWait)
          /\ UNCHANGED phase
  /\ UNCHANGED <<bufs, sq, kernel, outside, history>>

Submitted == [s \in Slots |-> IF \E i \in DOMAIN sq : sq[i] = s THEN "issued" ELSE sending[s]]

\* Mutant: groups are armed again when all of them have ended.
RearmAll == read_wait_queue = <<>> /\ Len(read_wait_free_groups) = Groups

Rearm == read_wait_queue = <<>> /\ read_wait_free_groups # <<>>

\* Mutant: the buffers of every group are provided again.
PrepareEvery(group) ==
  /\ provided' = [g \in GroupIds |-> Indices]
  /\ armed' = armed \cup {group}
  /\ sq' = <<>>
  /\ sending' = Submitted

\* prepare_read; its submit takes along whatever is in the ring.
PrepareRead(group) ==
  /\ provided' = [provided EXCEPT ![group] = Indices]
  /\ armed' = armed \cup {group}
  /\ sq' = <<>>
  /\ sending' = Submitted

FinishReading ==
  IF Rearm
  THEN PrepareRead(Head(read_wait_free_groups)) /\ read_wait_free_groups' = Tail(read_wait_free_groups)
  ELSE UNCHANGED <<provided, armed, read_wait_free_groups, sq, sending>>

\* Mutant: finish_read_from after every packet.
InputFinishing ==
  /\ reading # None
  /\ given' = Append(given, read_bufs[reading])
  /\ taken' = taken + 1
  /\ reading' = None
  /\ FinishReading
  /\ UNCHANGED <<phase, bufs, send_free_queue, read_wait_queue, cq, outside, sends>>

\* The task the packet is for has taken what it needs of the slice.
Input ==
  /\ reading # None
  /\ given' = Append(given, read_bufs[reading])
  /\ taken' = taken + 1
  /\ reading' = None
  /\ UNCHANGED <<phase, bufs, queues, cq, sq, kernel, outside, sends>>

\* commit_send_to; an error of submit leaves the entries in the ring.
CommitSendTo ==
  /\ phase = "commit"
  /\ \/ sq' = <<>> /\ sending' = Submitted
     \/ sq # <<>> /\ UNCHANGED <<sq, sending>>
  /\ phase' = "finish"
  /\ UNCHANGED <<bufs, queues, cq, reading, provided, armed, outside, history>>

FinishReadFrom ==
  /\ phase = "finish"
  /\ FinishReading
  /\ phase' = "out"
  /\ taken' = 0
  /\ UNCHANGED <<bufs, send_free_queue, read_wait_queue, reading, cq, outside, sends, given>>

-----------------------------------------------------------------------------
(* The kernel.                                                              *)

Arrive ==
  /\ arrived < MaxPackets
  /\ arrived' = arrived + 1
  /\ socket' = Append(socket, arrived + 1)
  /\ UNCHANGED <<worker, bufs, cq, kernel, wire>>

\* A packet goes to some armed receive, into some free buffer of its group.
Fill(group) ==
  /\ group \in armed
  /\ socket # <<>>
  /\ \E index \in provided[group] :
        /\ provided' = [provided EXCEPT ![group] = @ \ {index}]
        /\ read_bufs' = [read_bufs EXCEPT ![ToBuffer(group, index)] = Head(socket)]
        /\ cq' = Append(cq, Cqe("recv", group, index, TRUE))
  /\ socket' = Tail(socket)
  /\ UNCHANGED <<worker, send_bufs, armed, sending, arrived, wire>>

\* A receive that finds no free buffer in its group ends.
Exhaust(group) ==
  /\ group \in armed
  /\ socket # <<>>
  /\ provided[group] = {}
  /\ armed' = armed \ {group}
  /\ cq' = Append(cq, Cqe("recv", group, 0, FALSE))
  /\ UNCHANGED <<worker, bufs, provided, sending, outside>>

\* The first completion of a send: the packet is queued, its buffer still in use.
Queue(slot) ==
  /\ sending[slot] = "issued"
  /\ sending' = [sending EXCEPT ![slot] = "queued"]
  /\ cq' = Append(cq, Cqe("send", slot, 0, TRUE))
  /\ UNCHANGED <<worker, bufs, provided, armed, outside>>

\* A send that fails completes once.
Fail(slot) ==
  /\ sending[slot] = "issued"
  /\ sending' = [sending EXCEPT ![slot] = "idle"]
  /\ cq' = Append(cq, Cqe("send", slot, 0, FALSE))
  /\ UNCHANGED <<worker, bufs, provided, armed, outside>>

\* The network card reads the buffer; the second completion follows.
Transmit(slot) ==
  /\ sending[slot] = "queued"
  /\ sending' = [sending EXCEPT ![slot] = "sent"]
  /\ wire' = wire \cup {send_bufs[slot]}
  /\ UNCHANGED <<worker, bufs, cq, provided, armed, socket, arrived>>

Notify(slot) ==
  /\ sending[slot] = "sent"
  /\ sending' = [sending EXCEPT ![slot] = "idle"]
  /\ cq' = Append(cq, Cqe("send", slot, 0, FALSE))
  /\ UNCHANGED <<worker, bufs, provided, armed, outside>>

-----------------------------------------------------------------------------
Cycle == StartReading \/ RecvFrom \/ Input \/ CommitSendTo \/ FinishReadFrom

Kernel ==
  \/ \E group \in GroupIds : Fill(group) \/ Exhaust(group)
  \/ \E slot \in Slots : Queue(slot) \/ Fail(slot) \/ Transmit(slot) \/ Notify(slot)

Next == AddSendTo \/ Cycle \/ Arrive \/ Kernel

Spec == Init /\ [][Next]_vars

\* The thread runs its cycle, and the kernel does not leave a packet or a send it
\* can process.
FairSpec ==
  /\ Spec
  /\ WF_vars(Cycle)
  /\ WF_vars(\E group \in GroupIds : Fill(group) \/ Exhaust(group))
  /\ \A slot \in Slots : WF_vars(Queue(slot) \/ Fail(slot) \/ Transmit(slot) \/ Notify(slot))

-----------------------------------------------------------------------------
(* Properties.                                                             *)

TypeOK ==
  /\ phase \in {"out", "in", "commit", "finish"}
  /\ send_bufs \in [Slots -> Nat]
  /\ send_free_queue \in Seq(Slots)
  /\ read_bufs \in [Buffers -> Nat]
  /\ read_wait_queue \in Seq(Buffers)
  /\ read_wait_free_groups \in Seq(GroupIds)
  /\ reading \in Buffers \cup {None}
  /\ sq \in Seq(Slots)
  /\ cq \in Seq(Cqes({"recv", "send"}, BOOLEAN))
  /\ provided \in [GroupIds -> SUBSET Indices]
  /\ armed \subseteq GroupIds
  /\ sending \in [Slots -> {"idle", "issued", "queued", "sent"}]
  /\ socket \in Seq(Nat)
  /\ given \in Seq(Nat)
  /\ wire \subseteq Nat
  /\ arrived \in Nat /\ sends \in Nat /\ taken \in Nat

\* The buffers of poll_completions are never in two hands: one that the kernel may
\* fill holds no packet that is still to be read, no packet is queued twice, and a
\* group waits to be armed exactly while its receive has ended, with all its
\* buffers back.
ReadBuffersOwned ==
  /\ IsInjective(ReadWait)
  /\ reading \notin Range(ReadWait)
  /\ \A group \in GroupIds : \A index \in provided[group] :
        ToBuffer(group, index) \notin Range(ReadWait) \cup {reading}
  /\ IsInjective(FreeGroups)
  /\ Range(FreeGroups) = GroupIds \ armed
  /\ \A group \in Range(FreeGroups) : provided[group] = {}

\* A send buffer is free, in the ring or with the kernel, and never two of them:
\* of the completions of a send only the last one gives the buffer back.
SendBuffersOwned ==
  /\ IsInjective(FreeSlots \o sq)
  /\ Range(FreeSlots \o sq) = {slot \in Slots : sending[slot] = "idle"}

\* The pushes of add_send_to and prepare_read ("Should push sendmsg to io_uring",
\* "Should submit") find room in a ring of SEND_QUEUE + RECV_QUEUE entries, even
\* after commits that failed.
RingHasRoom ==
  /\ FreeSlots # <<>> => Len(sq) + 1 <= Entries
  /\ Rearm => Len(sq) + GroupSize + 1 <= Entries

\* process_udp ends however fast packets come: in one cycle it reads no more
\* packets than there are receive buffers, since groups are armed after it.
CycleBounded == taken <= Groups * GroupSize

\* The worker sees a UDP socket: packets in order, once, with their own content,
\* sends at most once with their own content, whatever buffers they went through.
Contents(buffers) == [i \in DOMAIN buffers |-> read_bufs[buffers[i]]]

U == INSTANCE UdpSocket WITH
       Datagrams <- 1 .. MaxPackets + MaxSends,
       inbox     <- Contents((IF reading = None THEN <<>> ELSE <<reading>>) \o ReadWait) \o socket,
       outbox    <- {send_bufs[slot] : slot \in Range(sq) \cup
                                        {s \in Slots : sending[s] \in {"issued", "queued"}}}

ImplementsUdpSocket == U!Spec

\* Every packet that arrives is read, although only one group is armed again per
\* cycle and only when nothing is left to read.
ArrivedAreRead == \A n \in 1 .. MaxPackets : arrived >= n ~> Len(given) >= n

\* A group whose receive has ended gets a new one.
GroupsReturn == \A group \in GroupIds : group \notin armed ~> group \in armed
=============================================================================
