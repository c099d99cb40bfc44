----------------------------- MODULE UdpSocket ------------------------------
(***************************************************************************)
(* What a worker may expect of UdpSocketGeneric (src/net.rs), whichever    *)
(* socket is behind it: datagrams are received in the order they reached   *)
(* the socket, each once and with its own content; of the datagrams that   *)
(* add_send_to has accepted each reaches the wire at most once and with    *)
(* its own content, in no particular order, or is lost.                    *)
(***************************************************************************)
EXTENDS Sequences

CONSTANT Datagrams

VARIABLES
  inbox,   \* datagrams at the socket, not given to the worker yet
  given,   \* datagrams given to the worker
  outbox,  \* datagrams the worker has sent, not on the wire yet
  wire     \* datagrams on the wire

vars == <<inbox, given, outbox, wire>>

Init ==
  /\ inbox = <<>>
  /\ given = <<>>
  /\ outbox = {}
  /\ wire = {}

Arrive(d) ==
  /\ inbox' = Append(inbox, d)
  /\ UNCHANGED <<given, outbox, wire>>

Receive ==
  /\ inbox # <<>>
  /\ given' = Append(given, Head(inbox))
  /\ inbox' = Tail(inbox)
  /\ UNCHANGED <<outbox, wire>>

\* Of the datagrams accepted earlier some are transmitted and some are lost, when a
\* new one comes, at a commit, or later.
Output(accepted, transmitted, lost) ==
  /\ accepted \cap (outbox \cup wire) = {}
  /\ outbox' = (outbox \ (transmitted \cup lost)) \cup accepted
  /\ wire' = wire \cup transmitted
  /\ UNCHANGED <<inbox, given>>

AddSendTo(d, transmitted, lost) == Output({d}, transmitted, lost)

CommitSendTo(transmitted, lost) == Output({}, transmitted, lost)

Next ==
  \/ \E d \in Datagrams : Arrive(d)
  \/ Receive
  \/ \E transmitted \in SUBSET outbox : \E lost \in SUBSET (outbox \ transmitted) :
        \/ \E d \in Datagrams : AddSendTo(d, transmitted, lost)
        \/ CommitSendTo(transmitted, lost)

Spec == Init /\ [][Next]_vars
=============================================================================
