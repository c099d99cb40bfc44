-------------------------- MODULE HttpBridgeProofs --------------------------
(***************************************************************************)
(* Proofs, for any number of workers and requests and any capacity of the  *)
(* channels, that a request that is not answered is in exactly one place,  *)
(* and that main knows every request it finds a response to.               *)
(***************************************************************************)
EXTENDS HttpBridge, SequenceLemmas

-----------------------------------------------------------------------------
(* Types.                                                                  *)

\* What main handles has the next id, and a 404 that waits has the id of a request.
TypeInv ==
  /\ TypeOK
  /\ main \in {"input", "insert"} => request \in Requests /\ request.id = req_id
  /\ \A w \in Workers : worker[w] = "blocked" => blocked[w] \in Ids

\* The next worker in turn is a worker.
LEMMA SlotType == TypeOK => Slot \in Workers
<1>1. \A n \in Nat : n % NumWorkers \in 0 .. NumWorkers - 1
  BY NumWorkersAssumption
<1> QED
  BY <1>1 DEF TypeOK, Slot, Workers

\* The oldest request of a channel, and what is left when it has been taken.
LEMMA InboxTaken ==
  ASSUME TypeOK, NEW w \in Workers, inbox[w] # <<>>
  PROVE  /\ Head(inbox[w]) \in Requests /\ Head(inbox[w]).id \in Ids
         /\ Tail(inbox[w]) \in Seq(Requests) /\ Len(Tail(inbox[w])) <= ReqCap
<1> DEFINE queue == inbox[w]
<1>1. queue \in Seq(Requests) /\ queue # <<>> /\ Len(queue) <= ReqCap
  BY DEF TypeOK
<1> HIDE DEF queue
<1>2. Len(queue) \in Nat \ {0}
  BY <1>1, LenProperties, EmptySeq
<1>3. Head(queue) \in Requests /\ Tail(queue) \in Seq(Requests) /\ Len(Tail(queue)) = Len(queue) - 1
  BY <1>1, <1>2, HeadTailProperties
<1>4. Head(queue).id \in Ids
  BY <1>3 DEF Requests
<1>5. Len(Tail(queue)) <= ReqCap
  BY <1>1, <1>2, <1>3, ReqCapAssumption
<1> QED
  BY <1>3, <1>4, <1>5 DEF queue

\* A response that finds room.
LEMMA ResponseSent ==
  ASSUME TypeOK, Room, NEW id \in Ids
  PROVE  Append(outbox, id) \in Seq(Ids) /\ Len(Append(outbox, id)) <= RespCap
<1>1. outbox \in Seq(Ids) /\ Len(outbox) \in Nat
  BY LenProperties DEF TypeOK
<1> QED
  BY <1>1, AppendProperties, RespCapAssumption DEF Room

\* Every step keeps the types.
LEMMA TypeStep == TypeInv /\ [Next]_vars => TypeInv'
<1> SUFFICES ASSUME TypeInv, [Next]_vars PROVE TypeInv'
  OBVIOUS
<1> USE DEF TypeInv
<1>1. CASE Timeout \/ Continue \/ Drained \/ JoinDead \/ ServeStatic \/ Panic
  BY <1>1 DEF Timeout, Continue, Drained, JoinDead, ServeStatic, Panic, workerVars, TypeOK
<1>2. CASE Input
  <2>1. Slot \in Workers
    BY SlotType
  <2>2. request \in Requests /\ request.id \in Ids
    BY <1>2 DEF Input, Requests
  <2>3. Len(inbox[Slot]) < ReqCap
          => /\ Append(inbox[Slot], request) \in Seq(Requests)
             /\ Len(Append(inbox[Slot], request)) <= ReqCap
    <3>1. inbox[Slot] \in Seq(Requests) /\ Len(inbox[Slot]) \in Nat
      BY <2>1, LenProperties DEF TypeOK
    <3> QED
      BY <2>2, <3>1, AppendProperties, ReqCapAssumption
  <2>4. /\ inbox' \in [Workers -> Seq(Requests)]
        /\ \A w \in Workers : Len(inbox'[w]) <= ReqCap
        /\ lost' \subseteq Ids
    BY <1>2, <2>1, <2>2, <2>3 DEF Input, TypeOK
  <2> QED
    BY <1>2, <2>4 DEF Input, workerVars, TypeOK
<1>3. CASE Insert
  <2>1. req_id \in Ids /\ req_id \in Nat
    BY <1>3, MaxReqsAssumption DEF Insert, Requests, TypeOK
  <2>2. req_id' = req_id + 1 /\ reqs' = reqs \cup {req_id}
    BY <1>3 DEF Insert, NextReqId
  <2>3. req_id' \in 0 .. MaxReqs
    BY <2>1, <2>2, MaxReqsAssumption DEF Ids
  <2>4. reqs' \subseteq 0 .. req_id' - 1
    BY <2>1, <2>2 DEF TypeOK
  <2> QED
    BY <1>3, <2>3, <2>4 DEF Insert, workerVars, TypeOK, NoRequest
<1>4. CASE Respond
  <2>1. /\ Tail(outbox) \in Seq(Ids) /\ Len(Tail(outbox)) <= RespCap
    <3>1. outbox \in Seq(Ids) /\ Len(outbox) \in Nat /\ outbox # <<>>
      BY <1>4, LenProperties DEF Respond, TypeOK
    <3> QED
      BY <3>1, HeadTailProperties, RespCapAssumption DEF TypeOK
  <2> QED
    BY <1>4, <2>1 DEF Respond, Removed, workerVars, TypeOK
<1>5. ASSUME NEW kind \in Kinds \ {"static", "broken"}, Accept(kind)
      PROVE  TypeInv'
  <2>1. [id |-> req_id, kind |-> kind] \in Requests
    BY <1>5, KindsAssumption, MaxReqsAssumption DEF Accept, Requests, Ids, TypeOK
  <2> QED
    BY <1>5, <2>1 DEF Accept, workerVars, TypeOK
<1>6. ASSUME NEW w \in Workers, Answer(w) PROVE TypeInv'
  BY <1>6, InboxTaken, ResponseSent DEF Answer, Takes, Received, workerVars, TypeOK
<1>7. ASSUME NEW w \in Workers, Dies(w) PROVE TypeInv'
  <2>1. \A i \in DOMAIN inbox[w] : inbox[w][i].id \in Ids
    <3>1. inbox[w] \in Seq(Requests)
      BY DEF TypeOK
    <3>2. \A i \in DOMAIN inbox[w] : inbox[w][i] \in Requests
      BY <3>1, LenProperties, ElementOfSeq
    <3> QED
      BY <3>2 DEF Requests
  <2>2. <<>> \in Seq(Requests) /\ Len(<<>>) <= ReqCap
    BY ReqCapAssumption
  <2> QED
    BY <1>7, <2>1, <2>2 DEF Dies, TypeOK
<1>8. ASSUME NEW w \in Workers, NotFound(w) PROVE TypeInv'
  <2>1. Head(inbox[w]).id \in Nat
    BY <1>8, InboxTaken DEF NotFound, Takes, Ids
  <2> QED
    BY <1>8, <2>1, InboxTaken DEF NotFound, Takes, Received, TypeOK
<1>9. ASSUME NEW w \in Workers, SendNotFound(w) PROVE TypeInv'
  BY <1>9, ResponseSent DEF SendNotFound, TypeOK
<1>10. ASSUME NEW w \in Workers, Broadcast(w) \/ BroadcastReturns(w) PROVE TypeInv'
  BY <1>10 DEF Broadcast, BroadcastReturns, TypeOK
<1>11. CASE UNCHANGED vars
  BY <1>11 DEF vars, workerVars, TypeOK
<1> QED
  BY <1>1, <1>2, <1>3, <1>4, <1>5, <1>6, <1>7, <1>8, <1>9, <1>10, <1>11
     DEF Next, MainStep, WorkerStep, Crash, Die

\* The types and what they say of the queues, in every reachable state.
LEMMA TypeInvariant == Spec => []TypeInv
<1>1. Init => TypeInv
  <2> SUFFICES ASSUME Init PROVE TypeInv
    OBVIOUS
  <2>1. req_id \in 0 .. MaxReqs /\ reqs \subseteq 0 .. req_id - 1
    BY MaxReqsAssumption DEF Init
  <2>2. /\ inbox \in [Workers -> Seq(Requests)]
        /\ \A w \in Workers : Len(inbox[w]) <= ReqCap
    BY ReqCapAssumption DEF Init
  <2>3. outbox \in Seq(Ids) /\ Len(outbox) <= RespCap
    BY RespCapAssumption DEF Init
  <2> QED
    BY <2>1, <2>2, <2>3 DEF Init, TypeInv, TypeOK
<1> QED
  BY <1>1, TypeStep, PTL DEF Spec

\* The channels stay within their capacity and hold requests that clients have made.
THEOREM BridgeTypes == Spec => []TypeOK
<1>1. TypeInv => TypeOK
  BY DEF TypeInv
<1> QED
  BY <1>1, TypeInvariant, PTL

-----------------------------------------------------------------------------
(* The ids of the requests in a channel.                                   *)

IdSeq(q) == [i \in 1 .. Len(q) |-> q[i].id]

IdsIn(q) == Range(IdSeq(q))

\* The ids of the requests of a queue, in its order.
LEMMA IdSeqType ==
  ASSUME NEW q \in Seq(Requests)
  PROVE  /\ IdSeq(q) \in Seq(Ids) /\ Len(IdSeq(q)) = Len(q) /\ DOMAIN IdSeq(q) = DOMAIN q
         /\ \A i \in DOMAIN q : IdSeq(q)[i] = q[i].id
         /\ IdsIn(q) = {q[i].id : i \in DOMAIN q}
<1>1. Len(q) \in Nat /\ DOMAIN q = 1 .. Len(q) /\ \A i \in DOMAIN q : q[i] \in Requests
  BY LenProperties, ElementOfSeq
<1>2. \A i \in 1 .. Len(q) : q[i].id \in Ids
  BY <1>1 DEF Requests
<1>3. IdSeq(q) \in Seq(Ids) /\ Len(IdSeq(q)) = Len(q) /\ DOMAIN IdSeq(q) = DOMAIN q
  BY <1>1, <1>2, LenProperties DEF IdSeq
<1>4. \A i \in DOMAIN q : IdSeq(q)[i] = q[i].id
  BY <1>1 DEF IdSeq
<1> QED
  BY <1>3, <1>4 DEF IdsIn, Range

\* A worker that takes a request from its channel takes its id out.
LEMMA IdsTail ==
  ASSUME NEW q \in Seq(Requests), q # <<>>, IsInjective(IdSeq(q))
  PROVE  /\ Head(q).id \in IdsIn(q)
         /\ IdsIn(Tail(q)) = IdsIn(q) \ {Head(q).id}
         /\ IsInjective(IdSeq(Tail(q)))
<1>1. Len(q) \in Nat \ {0} /\ DOMAIN q = 1 .. Len(q)
  BY LenProperties, EmptySeq
<1>2. /\ Head(q) = q[1] /\ Tail(q) \in Seq(Requests) /\ Len(Tail(q)) = Len(q) - 1
      /\ \A i \in 1 .. Len(q) - 1 : Tail(q)[i] = q[i + 1]
  BY <1>1, HeadTailProperties
<1> DEFINE s == IdSeq(q)
<1>3. s \in Seq(Ids) /\ Len(s) = Len(q) /\ \A i \in 1 .. Len(q) : s[i] = q[i].id
  BY <1>1, IdSeqType
<1>4. IdSeq(Tail(q)) \in Seq(Ids) /\ Len(IdSeq(Tail(q))) = Len(q) - 1
  BY <1>2, IdSeqType
<1>5. \A i \in 1 .. Len(q) - 1 : IdSeq(Tail(q))[i] = q[i + 1].id
  BY <1>2 DEF IdSeq
<1>6. IsInjective(s) /\ IdsIn(q) = Range(s)
  BY DEF IdsIn
<1> HIDE DEF s
<1>7. /\ s # <<>> /\ Head(s) = s[1] /\ Tail(s) \in Seq(Ids) /\ Len(Tail(s)) = Len(s) - 1
      /\ \A i \in 1 .. Len(s) - 1 : Tail(s)[i] = s[i + 1]
  BY <1>1, <1>3, HeadTailProperties, EmptySeq
<1>8. \A i \in 1 .. Len(q) - 1 : i + 1 \in 1 .. Len(q)
  BY <1>1
<1>9. \A i \in 1 .. Len(q) - 1 : IdSeq(Tail(q))[i] = Tail(s)[i]
  BY <1>3, <1>5, <1>7, <1>8
<1>10. IdSeq(Tail(q)) = Tail(s)
  BY <1>3, <1>4, <1>7, <1>9, SeqEqual
<1>11. Head(s) = Head(q).id
  BY <1>1, <1>2, <1>3, <1>7
<1> QED
  BY <1>3, <1>6, <1>7, <1>10, <1>11, RangeTail DEF IdsIn

\* The controller hands over a request with an id that is not in the channel.
LEMMA IdsAppend ==
  ASSUME NEW q \in Seq(Requests), NEW r \in Requests,
         IsInjective(IdSeq(q)), r.id \notin IdsIn(q)
  PROVE  /\ IdsIn(Append(q, r)) = IdsIn(q) \cup {r.id}
         /\ IsInjective(IdSeq(Append(q, r)))
<1>1. Len(q) \in Nat /\ DOMAIN q = 1 .. Len(q) /\ r.id \in Ids
  BY LenProperties DEF Requests
<1>2. /\ Append(q, r) \in Seq(Requests) /\ Len(Append(q, r)) = Len(q) + 1
      /\ \A i \in 1 .. Len(q) : Append(q, r)[i] = q[i]
      /\ Append(q, r)[Len(q) + 1] = r
  BY <1>1, AppendProperties
<1> DEFINE s == IdSeq(q)
           t == IdSeq(Append(q, r))
<1>3. s \in Seq(Ids) /\ Len(s) = Len(q) /\ \A i \in 1 .. Len(q) : s[i] = q[i].id
  BY <1>1, IdSeqType
<1>4. t \in Seq(Ids) /\ Len(t) = Len(q) + 1
  BY <1>2, IdSeqType
<1>5. \A i \in 1 .. Len(q) + 1 : t[i] = Append(q, r)[i].id
  BY <1>2 DEF IdSeq
<1>6. IsInjective(s) /\ IdsIn(q) = Range(s) /\ r.id \notin Range(s)
      /\ IdsIn(Append(q, r)) = Range(t)
  BY DEF IdsIn
<1> HIDE DEF s, t
<1>7. /\ Append(s, r.id) \in Seq(Ids) /\ Len(Append(s, r.id)) = Len(s) + 1
      /\ \A i \in 1 .. Len(s) : Append(s, r.id)[i] = s[i]
      /\ Append(s, r.id)[Len(s) + 1] = r.id
  BY <1>1, <1>3, AppendProperties
<1>8. \A i \in 1 .. Len(q) + 1 : i \in 1 .. Len(q) \/ i = Len(q) + 1
  BY <1>1
<1>9. \A i \in 1 .. Len(q) + 1 : t[i] = Append(s, r.id)[i]
  BY <1>2, <1>3, <1>5, <1>7, <1>8
<1>10. t = Append(s, r.id)
  BY <1>3, <1>4, <1>7, <1>9, SeqEqual
<1>11. /\ Range(Append(s, r.id)) = Range(s) \cup {r.id}
       /\ IsInjective(Append(s, r.id))
  BY <1>1, <1>3, <1>6, RangeAppend
<1> QED
  BY <1>6, <1>10, <1>11 DEF t

-----------------------------------------------------------------------------
(* The inductive invariant: the places a request can be in are disjoint,   *)
(* and together they hold the requests main has not answered, the one main *)
(* has handed over and not remembered yet included.                        *)

InboxIds == UNION {IdsIn(inbox[w]) : w \in Workers}
BlockedIds == {blocked[w] : w \in {v \in Workers : worker[v] = "blocked"}}

Live == IF main = "insert" THEN reqs \cup {req_id} ELSE reqs

InboxInv ==
  /\ \A w \in Workers : IsInjective(IdSeq(inbox[w]))
  /\ \A v, w \in Workers : v # w => IdsIn(inbox[v]) \cap IdsIn(inbox[w]) = {}

BlockedInv ==
  \A v, w \in Workers :
     worker[v] = "blocked" /\ worker[w] = "blocked" /\ blocked[v] = blocked[w] => v = w

Parted(a, b, c, d) ==
  a \cap b = {} /\ a \cap c = {} /\ a \cap d = {} /\ b \cap c = {} /\ b \cap d = {} /\ c \cap d = {}

PlaceInv ==
  /\ InboxInv
  /\ BlockedInv
  /\ IsInjective(outbox)
  /\ Parted(InboxIds, BlockedIds, Range(outbox), lost)
  /\ InboxIds \cup BlockedIds \cup Range(outbox) \cup lost = Live

\* What the controller hands over is new in all channels.
LEMMA InboxPut ==
  ASSUME TypeOK, InboxInv, NEW w \in Workers, NEW r \in Requests, r.id \notin InboxIds,
         inbox' = [inbox EXCEPT ![w] = Append(@, r)]
  PROVE  InboxInv' /\ InboxIds' = InboxIds \cup {r.id}
<1>1. inbox[w] \in Seq(Requests) /\ r.id \notin IdsIn(inbox[w]) /\ IsInjective(IdSeq(inbox[w]))
  BY DEF TypeOK, InboxIds, InboxInv
<1>2. /\ IdsIn(Append(inbox[w], r)) = IdsIn(inbox[w]) \cup {r.id}
      /\ IsInjective(IdSeq(Append(inbox[w], r)))
  BY <1>1, IdsAppend
<1>3. /\ inbox'[w] = Append(inbox[w], r)
      /\ \A v \in Workers : v # w => inbox'[v] = inbox[v]
  BY DEF TypeOK
<1>4. /\ IdsIn(inbox'[w]) = IdsIn(inbox[w]) \cup {r.id} /\ IsInjective(IdSeq(inbox'[w]))
      /\ \A v \in Workers : v # w => IdsIn(inbox'[v]) = IdsIn(inbox[v])
      /\ \A v \in Workers : v # w => IsInjective(IdSeq(inbox'[v]))
  BY <1>2, <1>3 DEF InboxInv
<1>5. \A v \in Workers : r.id \notin IdsIn(inbox[v])
  BY DEF InboxIds
<1>6. InboxInv'
  <2>1. \A v \in Workers : IsInjective(IdSeq(inbox'[v]))
    BY <1>4
  <2>2. ASSUME NEW u \in Workers, NEW v \in Workers, u # v
        PROVE  IdsIn(inbox'[u]) \cap IdsIn(inbox'[v]) = {}
    <3>1. IdsIn(inbox[u]) \cap IdsIn(inbox[v]) = {}
      BY <2>2 DEF InboxInv
    <3> QED
      BY <2>2, <3>1, <1>4, <1>5
  <2> QED
    BY <2>1, <2>2 DEF InboxInv
<1>7. InboxIds' = InboxIds \cup {r.id}
  BY <1>4 DEF InboxIds
<1> QED
  BY <1>6, <1>7

\* What a worker takes out of its channel is in no channel.
LEMMA InboxGet ==
  ASSUME TypeOK, InboxInv, NEW w \in Workers, inbox[w] # <<>>,
         inbox' = [inbox EXCEPT ![w] = Tail(@)]
  PROVE  /\ InboxInv' /\ Head(inbox[w]).id \in InboxIds
         /\ InboxIds' = InboxIds \ {Head(inbox[w]).id}
<1> DEFINE h == Head(inbox[w]).id
<1>1. inbox[w] \in Seq(Requests) /\ IsInjective(IdSeq(inbox[w]))
  BY DEF TypeOK, InboxInv
<1>2. /\ h \in IdsIn(inbox[w])
      /\ IdsIn(Tail(inbox[w])) = IdsIn(inbox[w]) \ {h}
      /\ IsInjective(IdSeq(Tail(inbox[w])))
  BY <1>1, IdsTail
<1>3. /\ inbox'[w] = Tail(inbox[w])
      /\ \A v \in Workers : v # w => inbox'[v] = inbox[v]
  BY DEF TypeOK
<1> HIDE DEF h
<1>4. /\ IdsIn(inbox'[w]) = IdsIn(inbox[w]) \ {h} /\ IsInjective(IdSeq(inbox'[w]))
      /\ \A v \in Workers : v # w => IdsIn(inbox'[v]) = IdsIn(inbox[v])
      /\ \A v \in Workers : v # w => IsInjective(IdSeq(inbox'[v]))
  BY <1>2, <1>3 DEF InboxInv
<1>5. \A v \in Workers : v # w => h \notin IdsIn(inbox[v])
  BY <1>2 DEF InboxInv
<1>6. InboxInv'
  BY <1>4 DEF InboxInv
<1>7. InboxIds' = InboxIds \ {h}
  BY <1>4, <1>5 DEF InboxIds
<1> QED
  BY <1>2, <1>6, <1>7 DEF InboxIds, h

\* What is left in the channel of a worker that panics is in no channel.
LEMMA InboxDropped ==
  ASSUME TypeOK, InboxInv, NEW w \in Workers, inbox' = [inbox EXCEPT ![w] = <<>>]
  PROVE  /\ InboxInv' /\ IdsIn(inbox[w]) \subseteq InboxIds
         /\ InboxIds' = InboxIds \ IdsIn(inbox[w])
<1>1. IdsIn(<<>>) = {} /\ IsInjective(IdSeq(<<>>))
  BY DEF IdsIn, IdSeq, Range, IsInjective
<1>2. /\ inbox'[w] = <<>>
      /\ \A v \in Workers : v # w => inbox'[v] = inbox[v]
  BY DEF TypeOK
<1>3. /\ IdsIn(inbox'[w]) = {} /\ IsInjective(IdSeq(inbox'[w]))
      /\ \A v \in Workers : v # w => IdsIn(inbox'[v]) = IdsIn(inbox[v])
      /\ \A v \in Workers : v # w => IsInjective(IdSeq(inbox'[v]))
  BY <1>1, <1>2 DEF InboxInv
<1>4. InboxInv'
  BY <1>3 DEF InboxInv
<1>5. InboxIds' = InboxIds \ IdsIn(inbox[w])
  BY <1>3 DEF InboxIds, InboxInv
<1> QED
  BY <1>4, <1>5 DEF InboxIds

\* Main takes the oldest response.
LEMMA OutboxGet ==
  ASSUME TypeOK, IsInjective(outbox), outbox # <<>>, outbox' = Tail(outbox)
  PROVE  /\ Head(outbox) \in Range(outbox)
         /\ Range(outbox)' = Range(outbox) \ {Head(outbox)} /\ IsInjective(outbox)'
<1>1. outbox \in Seq(Ids)
  BY DEF TypeOK
<1>2. Range(outbox)' = Range(Tail(outbox)) /\ (IsInjective(outbox)' <=> IsInjective(Tail(outbox)))
  BY DEF Range, IsInjective
<1> QED
  BY <1>1, <1>2, RangeTail

\* A worker sends a response.
LEMMA OutboxPut ==
  ASSUME TypeOK, IsInjective(outbox), NEW id \in Ids, id \notin Range(outbox),
         outbox' = Append(outbox, id)
  PROVE  Range(outbox)' = Range(outbox) \cup {id} /\ IsInjective(outbox)'
<1>1. outbox \in Seq(Ids)
  BY DEF TypeOK
<1>2. /\ Range(outbox)' = Range(Append(outbox, id))
      /\ IsInjective(outbox)' <=> IsInjective(Append(outbox, id))
  BY DEF Range, IsInjective
<1> QED
  BY <1>1, <1>2, RangeAppend

\* Every step keeps the places apart and complete.
LEMMA PlaceStep == TypeInv /\ PlaceInv /\ [Next]_vars => PlaceInv'
<1> SUFFICES ASSUME TypeInv, PlaceInv, [Next]_vars PROVE PlaceInv'
  OBVIOUS
<1>0. TypeOK
  BY DEF TypeInv
<1>1. ASSUME UNCHANGED <<reqs, inbox, workerVars, outbox, lost>>, main # "insert", main' # "insert"
      PROVE  PlaceInv'
  BY <1>1 DEF PlaceInv, InboxInv, BlockedInv, InboxIds, BlockedIds, Range, IsInjective, Live,
              workerVars
<1>2. CASE Timeout \/ Continue \/ Drained \/ JoinDead \/ ServeStatic \/ Panic
  BY <1>1, <1>2 DEF Timeout, Continue, Drained, JoinDead, ServeStatic, Panic
<1>3. ASSUME NEW kind \in Kinds \ {"static", "broken"}, Accept(kind)
      PROVE  PlaceInv'
  BY <1>1, <1>3 DEF Accept
<1>4. CASE Input
  <2>1. Slot \in Workers /\ request \in Requests /\ request.id = req_id
    BY <1>0, <1>4, SlotType DEF Input, TypeInv
  <2>2. Live = reqs /\ req_id \notin Live /\ Live' = Live \cup {req_id}
    BY <1>0, <1>4 DEF Input, Live, TypeOK
  <2>3. req_id \notin InboxIds \cup BlockedIds \cup Range(outbox) \cup lost
    BY <2>2 DEF PlaceInv
  <2>4. BlockedInv' /\ IsInjective(outbox)' /\ BlockedIds' = BlockedIds
          /\ Range(outbox)' = Range(outbox)
    BY <1>4 DEF Input, workerVars, PlaceInv, BlockedInv, BlockedIds, Range, IsInjective
  <2>5. CASE worker[Slot] # "dead" /\ Len(inbox[Slot]) < ReqCap
    <3>1. inbox' = [inbox EXCEPT ![Slot] = Append(@, request)] /\ lost' = lost
      BY <1>4, <2>5 DEF Input
    <3>2. InboxInv' /\ InboxIds' = InboxIds \cup {req_id}
      BY <1>0, <2>1, <2>3, <3>1, InboxPut DEF PlaceInv
    <3> QED
      BY <2>2, <2>3, <2>4, <3>1, <3>2 DEF PlaceInv, Parted
  <2>6. CASE ~(worker[Slot] # "dead" /\ Len(inbox[Slot]) < ReqCap)
    <3>1. inbox' = inbox /\ lost' = lost \cup {req_id}
      BY <1>4, <2>1, <2>6 DEF Input
    <3>2. InboxInv' /\ InboxIds' = InboxIds
      BY <3>1 DEF PlaceInv, InboxInv, InboxIds
    <3> QED
      BY <2>2, <2>3, <2>4, <3>1, <3>2 DEF PlaceInv, Parted
  <2> QED
    BY <2>5, <2>6
<1>5. CASE Insert
  <2>1. Live' = Live
    BY <1>5 DEF Insert, Live, TypeInv
  <2>2. UNCHANGED <<inbox, worker, blocked, outbox, lost>>
    BY <1>5 DEF Insert, workerVars
  <2> QED
    BY <2>1, <2>2 DEF PlaceInv, InboxInv, BlockedInv, InboxIds, BlockedIds, Range, IsInjective
<1>6. CASE Respond
  <2>1. outbox # <<>> /\ outbox' = Tail(outbox)
    BY <1>6 DEF Respond
  <2>2. /\ Head(outbox) \in Range(outbox)
        /\ Range(outbox)' = Range(outbox) \ {Head(outbox)} /\ IsInjective(outbox)'
    BY <1>0, <2>1, OutboxGet DEF PlaceInv
  <2>3. Live' = Live \ {Head(outbox)}
    BY <1>6 DEF Respond, Live, Removed
  <2>4. InboxInv' /\ BlockedInv' /\ InboxIds' = InboxIds /\ BlockedIds' = BlockedIds /\ lost' = lost
    BY <1>6 DEF Respond, workerVars, PlaceInv, InboxInv, BlockedInv, InboxIds, BlockedIds
  <2> QED
    BY <2>2, <2>3, <2>4 DEF PlaceInv, Parted
<1>7. ASSUME NEW w \in Workers, Answer(w) PROVE PlaceInv'
  <2> DEFINE h == Head(inbox[w]).id
  <2>1. inbox[w] # <<>> /\ inbox' = [inbox EXCEPT ![w] = Tail(@)]
    BY <1>7 DEF Answer, Takes, Received
  <2>2. InboxInv' /\ h \in InboxIds /\ InboxIds' = InboxIds \ {h}
    BY <1>0, <2>1, InboxGet DEF PlaceInv
  <2>3. h \in Ids /\ h \notin Range(outbox)
    BY <1>0, <2>1, <2>2, InboxTaken DEF PlaceInv, Parted
  <2>4. BlockedInv' /\ BlockedIds' = BlockedIds /\ Live' = Live
    BY <1>7 DEF Answer, workerVars, PlaceInv, BlockedInv, BlockedIds, Live
  <2>5. CASE Room
    <3>1. outbox' = Append(outbox, h) /\ lost' = lost
      BY <1>7, <2>5 DEF Answer
    <3> HIDE DEF h
    <3>2. Range(outbox)' = Range(outbox) \cup {h} /\ IsInjective(outbox)'
      BY <1>0, <2>3, <3>1, OutboxPut DEF PlaceInv
    <3> QED
      BY <2>2, <2>4, <3>1, <3>2 DEF PlaceInv, Parted
  <2>6. CASE ~Room
    <3>1. outbox' = outbox /\ lost' = lost \cup {h}
      BY <1>7, <2>6 DEF Answer
    <3> HIDE DEF h
    <3>2. Range(outbox)' = Range(outbox) /\ IsInjective(outbox)'
      BY <3>1 DEF PlaceInv, Range, IsInjective
    <3> QED
      BY <2>2, <2>4, <3>1, <3>2 DEF PlaceInv, Parted
  <2> QED
    BY <2>5, <2>6
<1>8. ASSUME NEW w \in Workers, Dies(w) PROVE PlaceInv'
  <2>1. inbox' = [inbox EXCEPT ![w] = <<>>] /\ inbox[w] \in Seq(Requests)
    BY <1>0, <1>8 DEF Dies, TypeOK
  <2>2. InboxInv' /\ IdsIn(inbox[w]) \subseteq InboxIds /\ InboxIds' = InboxIds \ IdsIn(inbox[w])
    BY <1>0, <2>1, InboxDropped DEF PlaceInv
  <2>3. lost' = lost \cup IdsIn(inbox[w])
    BY <1>8, <2>1, IdSeqType DEF Dies
  <2>4. \A v \in Workers : worker'[v] = "blocked" <=> worker[v] = "blocked"
    BY <1>0, <1>8 DEF Dies, TypeOK
  <2>5. BlockedInv' /\ BlockedIds' = BlockedIds
    BY <1>8, <2>4 DEF Dies, PlaceInv, BlockedInv, BlockedIds
  <2>6. IsInjective(outbox)' /\ Range(outbox)' = Range(outbox) /\ Live' = Live
    BY <1>8 DEF Dies, PlaceInv, Range, IsInjective, Live
  <2> QED
    BY <2>2, <2>3, <2>5, <2>6 DEF PlaceInv, Parted
<1>9. ASSUME NEW w \in Workers, NotFound(w) PROVE PlaceInv'
  <2> DEFINE h == Head(inbox[w]).id
  <2>1. inbox[w] # <<>> /\ inbox' = [inbox EXCEPT ![w] = Tail(@)]
    BY <1>9 DEF NotFound, Takes, Received
  <2>2. InboxInv' /\ h \in InboxIds /\ InboxIds' = InboxIds \ {h}
    BY <1>0, <2>1, InboxGet DEF PlaceInv
  <2>3. /\ worker[w] = "run" /\ worker'[w] = "blocked" /\ blocked'[w] = h
        /\ \A v \in Workers : v # w => worker'[v] = worker[v] /\ blocked'[v] = blocked[v]
    BY <1>0, <1>9 DEF NotFound, Takes, TypeOK
  <2>4. IsInjective(outbox)' /\ Range(outbox)' = Range(outbox) /\ Live' = Live /\ lost' = lost
    BY <1>9 DEF NotFound, PlaceInv, Range, IsInjective, Live
  <2> HIDE DEF h
  <2>5. BlockedIds' = BlockedIds \cup {h}
    BY <2>3 DEF BlockedIds
  <2>6. BlockedInv'
    <3>1. \A v \in Workers : worker[v] = "blocked" => blocked[v] # h
      BY <2>2 DEF PlaceInv, Parted, BlockedIds
    <3> QED
      BY <2>3, <3>1 DEF PlaceInv, BlockedInv
  <2> QED
    BY <2>2, <2>4, <2>5, <2>6 DEF PlaceInv, Parted
<1>10. ASSUME NEW w \in Workers, SendNotFound(w) PROVE PlaceInv'
  <2> DEFINE id == blocked[w]
  <2>1. /\ worker[w] = "blocked" /\ worker'[w] = "run" /\ blocked' = blocked
        /\ \A v \in Workers : v # w => worker'[v] = worker[v]
        /\ outbox' = Append(outbox, id)
    BY <1>0, <1>10 DEF SendNotFound, TypeOK
  <2>2. id \in Ids /\ id \in BlockedIds
    BY <2>1 DEF TypeInv, BlockedIds
  <2>3. BlockedInv' /\ BlockedIds' = BlockedIds \ {id}
    BY <2>1 DEF PlaceInv, BlockedInv, BlockedIds
  <2>4. InboxInv' /\ InboxIds' = InboxIds /\ Live' = Live /\ lost' = lost
    BY <1>10 DEF SendNotFound, PlaceInv, InboxInv, InboxIds, Live
  <2> HIDE DEF id
  <2>5. Range(outbox)' = Range(outbox) \cup {id} /\ IsInjective(outbox)'
    BY <1>0, <2>1, <2>2, OutboxPut DEF PlaceInv, Parted
  <2> QED
    BY <2>2, <2>3, <2>4, <2>5 DEF PlaceInv, Parted
<1>11. ASSUME NEW w \in Workers, Broadcast(w) \/ BroadcastReturns(w) PROVE PlaceInv'
  <2>1. \A v \in Workers : worker'[v] = "blocked" <=> worker[v] = "blocked"
    BY <1>0, <1>11 DEF Broadcast, BroadcastReturns, TypeOK
  <2>2. UNCHANGED <<main, req_id, reqs, inbox, blocked, outbox, lost>>
    BY <1>11 DEF Broadcast, BroadcastReturns
  <2>3. BlockedInv' /\ BlockedIds' = BlockedIds
    BY <2>1, <2>2 DEF PlaceInv, BlockedInv, BlockedIds
  <2>4. InboxInv' /\ InboxIds' = InboxIds /\ Live' = Live
    BY <2>2 DEF PlaceInv, InboxInv, InboxIds, Live
  <2>5. IsInjective(outbox)' /\ Range(outbox)' = Range(outbox) /\ lost' = lost
    BY <2>2 DEF PlaceInv, Range, IsInjective
  <2> QED
    BY <2>3, <2>4, <2>5 DEF PlaceInv
<1>12. CASE UNCHANGED vars
  BY <1>12 DEF vars, workerVars, PlaceInv, InboxInv, BlockedInv, InboxIds, BlockedIds,
               Range, IsInjective, Live
<1> QED
  BY <1>2, <1>3, <1>4, <1>5, <1>6, <1>7, <1>8, <1>9, <1>10, <1>11, <1>12
     DEF Next, MainStep, WorkerStep, Crash, Die

\* Every request is in one place, in every reachable state.
LEMMA PlaceInvariant == Spec => [](TypeInv /\ PlaceInv)
<1>1. Init => PlaceInv
  <2> SUFFICES ASSUME Init PROVE PlaceInv
    OBVIOUS
  <2>1. /\ IdsIn(<<>>) = {} /\ IsInjective(IdSeq(<<>>))
        /\ Range(<<>>) = {} /\ IsInjective(<<>>)
    BY DEF IdsIn, IdSeq, Range, IsInjective
  <2>2. InboxInv /\ InboxIds = {}
    BY <2>1 DEF Init, InboxInv, InboxIds
  <2>3. BlockedInv /\ BlockedIds = {}
    BY DEF Init, BlockedInv, BlockedIds
  <2>4. IsInjective(outbox) /\ Range(outbox) = {} /\ lost = {} /\ Live = {}
    BY <2>1 DEF Init, Live
  <2> QED
    BY <2>2, <2>3, <2>4 DEF PlaceInv, Parted
<1> QED
  BY <1>1, TypeInvariant, PlaceStep, PTL DEF Spec

-----------------------------------------------------------------------------
(* What main may rely on.                                                  *)

\* What a place of an id is.
LEMMA PlacesAre ==
  ASSUME TypeOK, NEW id, NEW p
  PROVE  p \in Places(id)
           <=> \/ \E w \in Workers : \E i \in DOMAIN inbox[w] :
                     inbox[w][i].id = id /\ p = <<"inbox", w, i>>
               \/ \E w \in Workers :
                     worker[w] = "blocked" /\ blocked[w] = id /\ p = <<"blocked", w, 0>>
               \/ \E i \in DOMAIN outbox : outbox[i] = id /\ p = <<"outbox", i, 0>>
               \/ id \in lost /\ p = <<"lost", id, 0>>
  BY DEF Places

\* An id is in a channel of a worker when a request with this id is.
LEMMA InboxIdsAre ==
  ASSUME TypeOK, NEW id
  PROVE  id \in InboxIds <=> \E w \in Workers : \E i \in DOMAIN inbox[w] : inbox[w][i].id = id
<1>1. \A w \in Workers : IdsIn(inbox[w]) = {inbox[w][i].id : i \in DOMAIN inbox[w]}
  BY IdSeqType DEF TypeOK
<1> QED
  BY <1>1 DEF InboxIds

\* An id that is not alive is nowhere, one that is has one place.
LEMMA OneOrNone ==
  ASSUME TypeOK, PlaceInv, NEW id
  PROVE  /\ id \notin Live => Places(id) = {}
         /\ id \in Live => \E p : Places(id) = {p}
<1>0. id \in Live
        <=> id \in InboxIds \/ id \in BlockedIds \/ id \in Range(outbox) \/ id \in lost
  BY DEF PlaceInv
<1>1. id \notin InboxIds => \A w \in Workers : \A i \in DOMAIN inbox[w] : inbox[w][i].id # id
  BY InboxIdsAre
<1>2. id \notin BlockedIds => \A w \in Workers : worker[w] = "blocked" => blocked[w] # id
  BY DEF BlockedIds
<1>3. id \notin Range(outbox) => \A i \in DOMAIN outbox : outbox[i] # id
  BY DEF Range
<1>4. ASSUME id \notin Live PROVE Places(id) = {}
  BY <1>0, <1>1, <1>2, <1>3, <1>4, PlacesAre
<1>5. ASSUME id \in InboxIds PROVE \E p : Places(id) = {p}
  <2>1. id \notin BlockedIds /\ id \notin Range(outbox) /\ id \notin lost
    BY <1>5 DEF PlaceInv, Parted
  <2>2. PICK w \in Workers : \E i \in DOMAIN inbox[w] : inbox[w][i].id = id
    BY <1>5, InboxIdsAre
  <2>3. PICK i \in DOMAIN inbox[w] : inbox[w][i].id = id
    BY <2>2
  <2>4. \A v \in Workers : DOMAIN IdSeq(inbox[v]) = DOMAIN inbox[v]
          /\ \A j \in DOMAIN inbox[v] : IdSeq(inbox[v])[j] = inbox[v][j].id
    BY IdSeqType DEF TypeOK
  <2>5. \A v \in Workers : \A j \in DOMAIN inbox[v] :
           inbox[v][j].id = id => id \in IdsIn(inbox[v])
    BY <2>4 DEF IdsIn, Range
  <2>6. \A v \in Workers : \A j \in DOMAIN inbox[v] : inbox[v][j].id = id => v = w
    BY <2>3, <2>5 DEF PlaceInv, InboxInv
  <2>7. \A j \in DOMAIN inbox[w] : inbox[w][j].id = id => j = i
    BY <2>3, <2>4 DEF PlaceInv, InboxInv, IsInjective
  <2>8. \A p : p \in Places(id) <=> p = <<"inbox", w, i>>
    BY <1>2, <1>3, <2>1, <2>3, <2>6, <2>7, PlacesAre
  <2>9. Places(id) = {<<"inbox", w, i>>}
    BY <2>8
  <2> QED
    BY <2>9
<1>6. ASSUME id \in BlockedIds PROVE \E p : Places(id) = {p}
  <2>1. id \notin InboxIds /\ id \notin Range(outbox) /\ id \notin lost
    BY <1>6 DEF PlaceInv, Parted
  <2>2. PICK w \in Workers : worker[w] = "blocked" /\ blocked[w] = id
    BY <1>6 DEF BlockedIds
  <2>3. \A v \in Workers : worker[v] = "blocked" /\ blocked[v] = id => v = w
    BY <2>2 DEF PlaceInv, BlockedInv
  <2>4. \A p : p \in Places(id) <=> p = <<"blocked", w, 0>>
    BY <1>1, <1>3, <2>1, <2>2, <2>3, PlacesAre
  <2>5. Places(id) = {<<"blocked", w, 0>>}
    BY <2>4
  <2> QED
    BY <2>5
<1>7. ASSUME id \in Range(outbox) PROVE \E p : Places(id) = {p}
  <2>1. id \notin InboxIds /\ id \notin BlockedIds /\ id \notin lost
    BY <1>7 DEF PlaceInv, Parted
  <2>2. PICK i \in DOMAIN outbox : outbox[i] = id
    BY <1>7 DEF Range
  <2>3. \A j \in DOMAIN outbox : outbox[j] = id => j = i
    BY <2>2 DEF PlaceInv, IsInjective
  <2>4. \A p : p \in Places(id) <=> p = <<"outbox", i, 0>>
    BY <1>1, <1>2, <2>1, <2>2, <2>3, PlacesAre
  <2>5. Places(id) = {<<"outbox", i, 0>>}
    BY <2>4
  <2> QED
    BY <2>5
<1>8. ASSUME id \in lost PROVE \E p : Places(id) = {p}
  <2>1. id \notin InboxIds /\ id \notin BlockedIds /\ id \notin Range(outbox)
    BY <1>8 DEF PlaceInv, Parted
  <2>2. \A p : p \in Places(id) <=> p = <<"lost", id, 0>>
    BY <1>1, <1>2, <1>3, <1>8, <2>1, PlacesAre
  <2>3. Places(id) = {<<"lost", id, 0>>}
    BY <2>2
  <2> QED
    BY <2>3
<1> QED
  BY <1>0, <1>4, <1>5, <1>6, <1>7, <1>8

\* A request that is not answered is in one place: it is answered at most once and by
\* one worker, and no channel holds the id of one that is answered.
THEOREM OneAnswer == Spec => []OnePlace
<1>1. TypeInv /\ PlaceInv => OnePlace
  <2> SUFFICES ASSUME TypeInv, PlaceInv, NEW id \in 0 .. req_id - 1
               PROVE  Cardinality(Places(id)) = IF id \in reqs THEN 1 ELSE 0
    BY DEF OnePlace
  <2>1. TypeOK /\ req_id \in Nat /\ id # req_id
    BY MaxReqsAssumption DEF TypeInv, TypeOK
  <2>2. id \in Live <=> id \in reqs
    BY <2>1 DEF Live
  <2>3. CASE id \in reqs
    <3>1. PICK p : Places(id) = {p}
      BY <2>1, <2>2, <2>3, OneOrNone
    <3> QED
      BY <2>3, <3>1, FS_Singleton
  <2>4. CASE id \notin reqs
    BY <2>1, <2>2, <2>4, OneOrNone, FS_EmptySet
  <2> QED
    BY <2>3, <2>4
<1> QED
  BY <1>1, PlaceInvariant, PTL

\* Main knows every request it finds a response to, although a worker may answer
\* before main has remembered the request: the expect of main never fails.
THEOREM Expected == Spec => []ExpectHolds
<1>1. TypeInv /\ PlaceInv => ExpectHolds
  <2> SUFFICES ASSUME TypeInv, PlaceInv, main = "drain", outbox # <<>>
               PROVE  Head(outbox) \in reqs
    BY DEF ExpectHolds
  <2>1. outbox \in Seq(Ids)
    BY DEF TypeInv, TypeOK
  <2>2. Head(outbox) \in Range(outbox)
    BY <2>1, RangeTail DEF PlaceInv
  <2> QED
    BY <2>2 DEF PlaceInv, Live
<1> QED
  BY <1>1, PlaceInvariant, PTL
=============================================================================
