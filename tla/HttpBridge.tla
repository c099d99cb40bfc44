----------------------------- MODULE HttpBridge -----------------------------
(***************************************************************************)
(* The bridge between the HTTP server and the workers: the loop of main    *)
(* (src/main.rs), the Controller with its bounded channels (controller.rs) *)
(* and what a worker does with a request (process_http in worker.rs).      *)
(*                                                                         *)
(* Main and the workers are threads.  Main waits for a request, hands it   *)
(* to the next worker in turn, remembers it, and answers the responses it  *)
(* finds.  A worker that gets an offer it cannot parse panics, as it may   *)
(* for other reasons; a broadcast on the bus may keep it from its requests *)
(* for ever.  A main that panics drops the Controller, which joins the     *)
(* workers.                                                                *)
(***************************************************************************)
EXTENDS Integers, Sequences, FiniteSets

CONSTANTS
  NumWorkers,  \* the worker threads, 0 .. NumWorkers - 1
  Kinds,       \* what is requested: see KindsAssumption
  ReqCap,      \* capacity of a worker's request channel: bounded(100)
  RespCap,     \* capacity of the response channel: bounded(100)
  MaxReqs      \* bound: requests of clients in a behaviour

\* "offer"   POST of an SDP offer that parses, answered 200 by a new task
\* "bad"     POST of an offer that does not parse
\* "other"   any other path, answered 404
\* "static"  /public or OPTIONS, answered by main itself
\* "broken"  a request main cannot answer: no such file, a body cut off, a client
\*           that has hung up
ASSUME KindsAssumption      == Kinds \subseteq {"offer", "bad", "other", "static", "broken"}
ASSUME NumWorkersAssumption == NumWorkers \in Nat \ {0}
ASSUME ReqCapAssumption     == ReqCap \in Nat \ {0}
ASSUME RespCapAssumption    == RespCap \in Nat \ {0}
ASSUME MaxReqsAssumption    == MaxReqs \in Nat

Workers == 0 .. NumWorkers - 1

VARIABLES
  main,      \* where the main thread is
  request,   \* the request main is handling
  req_id,    \* the id of the next request
  reqs,      \* ids of the requests main still has to answer
  count,     \* requests the controller has handed out
  inbox,     \* the request channel of each worker
  worker,    \* each worker: "run", "blocked" on a 404, "stuck" on the bus, "dead"
  blocked,   \* the id of the 404 a blocked worker is sending
  outbox,    \* the response channel, shared by the workers: worker_recv
  lost       \* history: ids no worker will ever answer

vars == <<main, request, req_id, reqs, count, inbox, worker, blocked, outbox, lost>>
workerVars == <<worker, blocked>>

Ids == 0 .. MaxReqs - 1
NoRequest == [id |-> 0, kind |-> "static"]

Init ==
  /\ main = "wait"
  /\ request = NoRequest
  /\ req_id = 0
  /\ reqs = {}
  /\ count = 0
  /\ inbox = [w \in Workers |-> <<>>]
  /\ worker = [w \in Workers |-> "run"]
  /\ blocked = [w \in Workers |-> 0]
  /\ outbox = <<>>
  /\ lost = {}

-----------------------------------------------------------------------------
(* The loop of main.                                                       *)

\* recv_timeout returned no request: the responses are looked at.
Timeout ==
  /\ main = "wait"
  /\ main' = "drain"
  /\ UNCHANGED <<request, req_id, reqs, count, inbox, workerVars, outbox, lost>>

\* Main answers such a request itself, of which there may be any number.
ServeStatic ==
  /\ main = "wait"
  /\ "static" \in Kinds
  /\ main' = "static"
  /\ UNCHANGED <<request, req_id, reqs, count, inbox, workerVars, outbox, lost>>

\* It goes on with the next request, past the responses.
Continue ==
  /\ main = "static"
  /\ main' = "wait"
  /\ UNCHANGED <<request, req_id, reqs, count, inbox, workerVars, outbox, lost>>

\* An expect or unwrap of main fails: its locals are dropped, the controller first.
Panic ==
  /\ main = "wait"
  /\ "broken" \in Kinds
  /\ main' = "drop"
  /\ UNCHANGED <<request, req_id, reqs, count, inbox, workerVars, outbox, lost>>

Accept(kind) ==
  /\ main = "wait"
  /\ req_id < MaxReqs
  /\ request' = [id |-> req_id, kind |-> kind]
  /\ main' = "input"
  /\ UNCHANGED <<req_id, reqs, count, inbox, workerVars, outbox, lost>>

\* Controller::input: try_send to the next worker in turn, whatever comes of it.
Slot == count % NumWorkers

Input ==
  /\ main = "input"
  /\ IF worker[Slot] # "dead" /\ Len(inbox[Slot]) < ReqCap
     THEN /\ inbox' = [inbox EXCEPT ![Slot] = Append(@, request)]
          /\ UNCHANGED lost
     ELSE /\ lost' = lost \cup {request.id}
          /\ UNCHANGED inbox
  /\ count' = count + 1
  /\ main' = "insert"
  /\ UNCHANGED <<request, req_id, reqs, workerVars, outbox>>

\* Mutant: req_id is not advanced.
ReqIdKept == req_id

NextReqId == req_id + 1

Insert ==
  /\ main = "insert"
  /\ reqs' = reqs \cup {request.id}
  /\ req_id' = NextReqId
  /\ request' = NoRequest
  /\ main' = "drain"
  /\ UNCHANGED <<count, inbox, workerVars, outbox, lost>>

\* Mutant: the request is looked up and stays in the map.
LookedUp(id) == reqs

Removed(id) == reqs \ {id}

\* reqs.remove(&res.req_id).expect("Should have a request."), and the unwrap of
\* respond.
Respond ==
  /\ main = "drain"
  /\ outbox # <<>>
  /\ outbox' = Tail(outbox)
  /\ reqs' = Removed(Head(outbox))
  /\ \/ Head(outbox) \in reqs /\ main' = "drain"
     \/ (Head(outbox) \notin reqs \/ "broken" \in Kinds) /\ main' = "drop"
  /\ UNCHANGED <<request, req_id, count, inbox, workerVars, lost>>

Drained ==
  /\ main = "drain"
  /\ outbox = <<>>
  /\ main' = "wait"
  /\ UNCHANGED <<request, req_id, reqs, count, inbox, workerVars, outbox, lost>>

\* Controller::drop joins the workers in turn.  It gets no further than the first:
\* process_cycle is always Some, so that a worker never returns, and if the first
\* has panicked the expect of join fails, and a panic while another panic unwinds
\* the stack aborts the process.
JoinDead ==
  /\ main = "drop"
  /\ worker[0] = "dead"
  /\ main' = "aborted"
  /\ UNCHANGED <<request, req_id, reqs, count, inbox, workerVars, outbox, lost>>

-----------------------------------------------------------------------------
(* process_http of worker w.                                               *)

\* Mutant: one response too many finds room.
RoomForOneMore == Len(outbox) <= RespCap

Room == Len(outbox) < RespCap

\* Mutant: the request is looked at and stays in the channel.
PeekOnly(q) == q

Received(q) == Tail(q)

Takes(w, kind) ==
  /\ main # "aborted"
  /\ worker[w] = "run"
  /\ inbox[w] # <<>>
  /\ Head(inbox[w]).kind = kind
  /\ inbox' = [inbox EXCEPT ![w] = Received(@)]

\* The answer of the new task leaves in its first pop_task, by try_send.
Answer(w) ==
  /\ Takes(w, "offer")
  /\ IF Room
     THEN /\ outbox' = Append(outbox, Head(inbox[w]).id)
          /\ UNCHANGED lost
     ELSE /\ lost' = lost \cup {Head(inbox[w]).id}
          /\ UNCHANGED outbox
  /\ UNCHANGED <<main, request, req_id, reqs, count, workerVars>>

\* A panic drops the receiver with what is left in it.
Dies(w) ==
  /\ main # "aborted"
  /\ worker[w] = "run"
  /\ worker' = [worker EXCEPT ![w] = "dead"]
  /\ lost' = lost \cup {inbox[w][i].id : i \in DOMAIN inbox[w]}
  /\ inbox' = [inbox EXCEPT ![w] = <<>>]
  /\ UNCHANGED <<main, request, req_id, reqs, count, blocked, outbox>>

\* The expect of an offer that does not parse.
Crash(w) ==
  /\ inbox[w] # <<>>
  /\ Head(inbox[w]).kind = "bad"
  /\ Dies(w)

\* Any other panic of the thread: a packet that is not STUN, a task that ended twice,
\* a frame that cannot be written.
Die(w) == Dies(w)

\* A 404 is sent by a send that waits for room.
NotFound(w) ==
  /\ Takes(w, "other")
  /\ worker' = [worker EXCEPT ![w] = "blocked"]
  /\ blocked' = [blocked EXCEPT ![w] = Head(inbox[w]).id]
  /\ UNCHANGED <<main, request, req_id, reqs, count, outbox, lost>>

SendNotFound(w) ==
  /\ main # "aborted"
  /\ worker[w] = "blocked"
  /\ Room
  /\ outbox' = Append(outbox, blocked[w])
  /\ worker' = [worker EXCEPT ![w] = "run"]
  /\ UNCHANGED <<main, request, req_id, reqs, count, inbox, blocked, lost>>

\* An output of a task goes to the bus: a broadcast that may wait for ever, see
\* MediaBus, with the requests of the worker left where they are.
Broadcast(w) ==
  /\ main # "aborted"
  /\ worker[w] = "run"
  /\ worker' = [worker EXCEPT ![w] = "stuck"]
  /\ UNCHANGED <<main, request, req_id, reqs, count, inbox, blocked, outbox, lost>>

BroadcastReturns(w) ==
  /\ main # "aborted"
  /\ worker[w] = "stuck"
  /\ worker' = [worker EXCEPT ![w] = "run"]
  /\ UNCHANGED <<main, request, req_id, reqs, count, inbox, blocked, outbox, lost>>

-----------------------------------------------------------------------------
MainStep ==
  \/ Timeout
  \/ Continue
  \/ Input
  \/ Insert
  \/ Respond
  \/ Drained
  \/ JoinDead

WorkerStep(w) ==
  \/ Answer(w)
  \/ Crash(w)
  \/ NotFound(w)
  \/ SendNotFound(w)

Next ==
  \/ MainStep
  \/ ServeStatic
  \/ Panic
  \/ \E kind \in Kinds \ {"static", "broken"} : Accept(kind)
  \/ \E w \in Workers : WorkerStep(w)
  \/ \E w \in Workers : Die(w)
  \/ \E w \in Workers : Broadcast(w)
  \/ \E w \in Workers : BroadcastReturns(w)

Spec == Init /\ [][Next]_vars

\* Every thread keeps running; clients need not send anything.  A broadcast need not
\* return, but a worker whose broadcasts do gets to its requests in every cycle.
FairSpec == Spec /\ WF_vars(MainStep) /\ \A w \in Workers : SF_vars(WorkerStep(w))

-----------------------------------------------------------------------------
(* Properties.                                                             *)

Requests == [id: Ids, kind: {"offer", "bad", "other", "static"}]

\* Channels stay within their capacity and hold requests and ids of requests that
\* clients have made.
TypeOK ==
  /\ main \in {"wait", "static", "input", "insert", "drain", "drop", "aborted"}
  /\ request \in Requests \cup {NoRequest}
  /\ req_id \in 0 .. MaxReqs
  /\ reqs \subseteq 0 .. req_id - 1
  /\ count \in Nat
  /\ inbox \in [Workers -> Seq(Requests)]
  /\ \A w \in Workers : Len(inbox[w]) <= ReqCap
  /\ worker \in [Workers -> {"run", "blocked", "stuck", "dead"}]
  /\ blocked \in [Workers -> Nat]
  /\ outbox \in Seq(Ids)
  /\ Len(outbox) <= RespCap
  /\ lost \subseteq Ids

\* Where the id of a request is between Controller::input and the answer.
Places(id) ==
  (UNION {{<<"inbox", w, i>> : i \in {j \in DOMAIN inbox[w] : inbox[w][j].id = id}} : w \in Workers})
    \cup {<<"blocked", w, 0>> : w \in {v \in Workers : worker[v] = "blocked" /\ blocked[v] = id}}
    \cup {<<"outbox", i, 0>> : i \in {j \in DOMAIN outbox : outbox[j] = id}}
    \cup {<<"lost", l, 0>> : l \in lost \cap {id}}

\* A request main has not answered is in one place, so that it is answered at most
\* once and never by two workers, and one it has answered is nowhere: nothing is
\* left in a channel that could answer it again.
OnePlace ==
  \A id \in 0 .. req_id - 1 : Cardinality(Places(id)) = IF id \in reqs THEN 1 ELSE 0

\* The expectation "Should have a request." of main: although the worker may answer
\* before main has remembered the request, main never looks up one it has not.
ExpectHolds == main = "drain" /\ outbox # <<>> => Head(outbox) \in reqs

\* What main answers on its own keeps it from the responses only if, from some time
\* on, main is given nothing else and never a pause.
OnlyStatic == <>[](main \in {"wait", "static"})

\* A request waits for ever behind a broadcast that never returns.
StuckWith(id) ==
  <>[](\E w \in Workers : worker[w] = "stuck" /\ \E i \in DOMAIN inbox[w] : inbox[w][i].id = id)

\* Every request main remembers is answered, however full the channels are, unless
\* it is lost (its worker's channel full or closed, the response channel full, a
\* panic of its worker), main itself panics, or one of the two cases above holds.  In
\* particular a worker that waits for room for a 404 is always let go on, and a
\* worker that is stuck keeps only its own requests waiting.
EveryRequestResolved ==
  \A id \in Ids :
     \/ OnlyStatic
     \/ StuckWith(id)
     \/ id \in reqs ~> (id \notin reqs \/ id \in lost \/ main \in {"drop", "aborted"})

\* The expectation "Should wait child thread to finish." of Controller::drop: the
\* drop comes to an end.
DropFinishes == main = "drop" ~> main # "drop"
=============================================================================
