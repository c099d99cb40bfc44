---------------------------- MODULE WorkerProofs ----------------------------
(***************************************************************************)
(* Proofs, for any number of tasks, channels, peers and ufrags, of what    *)
(* Worker promises about its tables.                                       *)
(***************************************************************************)
EXTENDS Worker, TLAPS

\* The part of the state that routes packets and bus events.
tables == <<task_id_seed, tasks, task_remotes, task_ufrags, bus_channels, ended_tasks>>

-----------------------------------------------------------------------------
(* Operators.                                                              *)

\* HashMap::insert adds the key and keeps the type of the map.
LEMMA InsertType ==
  ASSUME NEW f, NEW R, f \in [DOMAIN f -> R], NEW k, NEW v \in R
  PROVE  /\ DOMAIN Insert(f, k, v) = DOMAIN f \cup {k}
         /\ Insert(f, k, v) \in [DOMAIN Insert(f, k, v) -> R]
  BY DEF Insert

\* A fresh task is a well-formed container.
LEMMA NewTaskType ==
  ASSUME NEW kind \in {"whip", "whep"}, NEW channel \in Channels, NEW ufrag \in Ufrags
  PROVE  NewTask(kind, channel, ufrag) \in Container
  BY DEF NewTask, Container

\* pop_task keeps the container of a task well formed.
LEMMA AfterPopType ==
  ASSUME NEW c \in Container, NEW p \in [connected: BOOLEAN, ended: BOOLEAN]
  PROVE  AfterPop(c, p) \in Container
<1>1. TracksOf(c.channel) \subseteq Tracks
  BY DEF TracksOf, Tracks, Container
<1>2. /\ c.pub_channels \cup c.outputs \subseteq Tracks
      /\ c.sub_channels \cup c.outputs \subseteq Tracks
      /\ (c.connected \/ p.connected) \in BOOLEAN
  BY DEF Container
<1> QED
  BY <1>1, <1>2 DEF AfterPop, Container

\* What pop_task leaves alone in a container.
LEMMA AfterPopKeeps ==
  ASSUME NEW c \in Container, NEW p
  PROVE  LET d == AfterPop(c, p)
         IN  /\ d.kind = c.kind
             /\ d.channel = c.channel
             /\ d.ufrag = c.ufrag
             /\ d.remotes = c.remotes
             /\ d.pub_channels = IF c.kind = "whip" THEN c.pub_channels \cup c.outputs
                                                   ELSE c.pub_channels
             /\ d.sub_channels = IF c.kind = "whep" THEN c.sub_channels \cup c.outputs
                                                   ELSE c.sub_channels
             /\ d.ice = IF p.ended THEN "down" ELSE c.ice
  BY DEF AfterPop, Container

\* A packet changes at most the ICE state of a container.
LEMMA AfterInputType ==
  ASSUME NEW c \in Container, NEW stun, NEW d \in AfterInput(c, stun)
  PROVE  /\ d \in Container
         /\ d.kind = c.kind
         /\ d.ufrag = c.ufrag
         /\ d.remotes = c.remotes
         /\ d.pub_channels = c.pub_channels
         /\ d.sub_channels = c.sub_channels
         /\ d.outputs = c.outputs
         /\ d.ice # c.ice => c.ice = "down" /\ d.ice = "revived"
  BY DEF AfterInput, Container

\* What a poll may report is a pair of flags.
LEMMA PollType == ASSUME NEW c PROVE PollOutcomes(c) \subseteq [connected: BOOLEAN, ended: BOOLEAN]
  BY DEF PollOutcomes

\* pop_task keeps the bus table and the list of ended tasks well formed.
LEMMA PopTaskType ==
  ASSUME TypeOK, NEW id \in TaskIds, NEW c \in Container, NEW p, PopTask(id, c, p)
  PROVE  /\ DOMAIN bus_channels' \subseteq Tracks
         /\ bus_channels' \in [DOMAIN bus_channels' -> [sources: SUBSET TaskIds,
                                                         consumers: SUBSET TaskIds]]
         /\ ended_tasks' \in Seq(TaskIds)
<1> DEFINE Chan == [sources: SUBSET TaskIds, consumers: SUBSET TaskIds]
<1>1. c.outputs \subseteq Tracks
  BY DEF Container
<1>2. ASSUME NEW k PROVE ChannelAt(k) \in Chan
  BY DEF TypeOK, ChannelAt, EmptyChannel
<1>3. ASSUME NEW x \in Chan PROVE Joined(x, id, c.kind) \in Chan
  BY DEF Joined
<1>4. ended_tasks' \in Seq(TaskIds)
  BY DEF PopTask, TypeOK
<1>5. DOMAIN bus_channels' = DOMAIN bus_channels \cup c.outputs
  BY DEF PopTask
<1>6. bus_channels' \in [DOMAIN bus_channels \cup c.outputs -> Chan]
  BY <1>2, <1>3 DEF PopTask, TypeOK
<1> QED
  BY <1>1, <1>4, <1>5, <1>6 DEF TypeOK

-----------------------------------------------------------------------------
(* Type correctness.                                                       *)

\* Feeding a packet to a task that exists keeps the tables well formed; c is the
\* task's container, with or without a new remote.
LEMMA DeliverType ==
  ASSUME TypeOK, NEW id \in DOMAIN tasks, NEW c \in Container, NEW stun, Deliver(id, c, stun)
  PROVE  /\ DOMAIN tasks' = DOMAIN tasks
         /\ tasks' \in [DOMAIN tasks' -> Container]
         /\ DOMAIN bus_channels' \subseteq Tracks
         /\ bus_channels' \in [DOMAIN bus_channels' -> [sources: SUBSET TaskIds,
                                                         consumers: SUBSET TaskIds]]
         /\ ended_tasks' \in Seq(TaskIds)
<1>1. PICK d \in AfterInput(c, stun) : \E p \in PollOutcomes(d) :
         /\ PopTask(id, d, p)
         /\ tasks' = [tasks EXCEPT ![id] = AfterPop(d, p)]
  BY DEF Deliver
<1>2. PICK p \in PollOutcomes(d) :
         /\ PopTask(id, d, p)
         /\ tasks' = [tasks EXCEPT ![id] = AfterPop(d, p)]
  BY <1>1
<1>3. d \in Container
  BY AfterInputType
<1>4. AfterPop(d, p) \in Container
  BY <1>3, PollType, AfterPopType
<1>5. id \in TaskIds
  BY MaxTasksAssumption DEF TypeOK, TaskIds
<1>6. DOMAIN tasks' = DOMAIN tasks /\ tasks' \in [DOMAIN tasks' -> Container]
  BY <1>2, <1>4 DEF TypeOK
<1> QED
  BY <1>2, <1>3, <1>5, <1>6, PopTaskType

\* The initial tables are empty.
LEMMA TypeInit == Init => TypeOK
<1> SUFFICES ASSUME Init PROVE TypeOK
  OBVIOUS
<1> QED
  BY MaxTasksAssumption DEF Init, TypeOK

\* Every step of the thread keeps TypeOK.
LEMMA TypeStep == TypeOK /\ [Next]_vars => TypeOK'
<1> SUFFICES ASSUME TypeOK, [Next]_vars PROVE TypeOK'
  OBVIOUS
<1>0. TaskIds = 0 .. MaxTasks - 1 /\ MaxTasks \in Nat /\ DOMAIN tasks \subseteq TaskIds
  BY MaxTasksAssumption DEF TaskIds, TypeOK
<1>1. ASSUME NEW e \in BusEvents, BusRecv(e) PROVE TypeOK'
  BY <1>1 DEF BusRecv, TypeOK
<1>2. CASE BusEmpty
  BY <1>2 DEF BusEmpty, TypeOK
<1>3. ASSUME NEW kind \in {"whip", "whep"}, NEW channel \in Channels, NEW ufrag \in Ufrags,
             CreateTask(kind, channel, ufrag)
      PROVE  TypeOK'
  <2> DEFINE new == NewTask(kind, channel, ufrag)
  <2>1. new \in Container
    BY NewTaskType
  <2>2. AfterPop(new, Quiet) \in Container
    BY <2>1, AfterPopType DEF Quiet
  <2>3. task_id_seed \in TaskIds /\ task_id_seed' = task_id_seed + 1 /\ task_id_seed' \in 0 .. MaxTasks
    BY <1>0, <1>3 DEF CreateTask, NextSeed, TypeOK
  <2>4. PopTask(task_id_seed, new, Quiet) /\ tasks' = Insert(tasks, task_id_seed, AfterPop(new, Quiet))
    BY <1>3 DEF CreateTask
  <2>5. DOMAIN tasks' = DOMAIN tasks \cup {task_id_seed} /\ tasks' \in [DOMAIN tasks' -> Container]
    BY <2>2, <2>4, InsertType DEF TypeOK
  <2>6. task_ufrags' = Insert(task_ufrags, ufrag, task_id_seed)
    BY <1>3 DEF CreateTask
  <2>7. DOMAIN task_ufrags' = DOMAIN task_ufrags \cup {ufrag}
        /\ task_ufrags' \in [DOMAIN task_ufrags' -> TaskIds]
    BY <2>3, <2>6, InsertType DEF TypeOK
  <2>8. DOMAIN tasks' \subseteq 0 .. task_id_seed' - 1
    BY <2>3, <2>5, <1>0 DEF TypeOK
  <2>9. UNCHANGED <<phase, task_remotes, to_pop, peers>>
    BY <1>3 DEF CreateTask
  <2>10. /\ DOMAIN bus_channels' \subseteq Tracks
         /\ bus_channels' \in [DOMAIN bus_channels' -> [sources: SUBSET TaskIds,
                                                         consumers: SUBSET TaskIds]]
         /\ ended_tasks' \in Seq(TaskIds)
    BY <2>1, <2>3, <2>4, PopTaskType
  <2> QED
    BY <2>3, <2>5, <2>7, <2>8, <2>9, <2>10 DEF TypeOK
<1>4. CASE RejectOffer
  BY <1>0, <1>4 DEF RejectOffer, NextSeed, TypeOK
<1>5. CASE HttpEmpty
  BY <1>5 DEF HttpEmpty, TypeOK
<1>6. CASE Tick
  BY <1>6 DEF Tick, ToPop, TypeOK
<1>7. ASSUME NEW id \in TaskIds, PopOne(id) PROVE TypeOK'
  <2>1. id \in DOMAIN tasks
    BY <1>7 DEF PopOne, TypeOK
  <2>2. tasks[id] \in Container
    BY <2>1 DEF TypeOK
  <2>3. PICK p \in PollOutcomes(tasks[id]) :
           /\ PopTask(id, tasks[id], p)
           /\ tasks' = [tasks EXCEPT ![id] = AfterPop(tasks[id], p)]
    BY <1>7 DEF PopOne
  <2>4. AfterPop(tasks[id], p) \in Container
    BY <2>2, PollType, AfterPopType
  <2>5. DOMAIN tasks' = DOMAIN tasks /\ tasks' \in [DOMAIN tasks' -> Container]
    BY <2>3, <2>4 DEF TypeOK
  <2>6. phase = "pop" /\ to_pop' = to_pop \ {id}
        /\ UNCHANGED <<phase, task_id_seed, task_remotes, task_ufrags, peers>>
    BY <1>7 DEF PopOne
  <2>7. /\ DOMAIN bus_channels' \subseteq Tracks
        /\ bus_channels' \in [DOMAIN bus_channels' -> [sources: SUBSET TaskIds,
                                                        consumers: SUBSET TaskIds]]
        /\ ended_tasks' \in Seq(TaskIds)
    BY <2>2, <2>3, PopTaskType
  <2> QED
    BY <2>5, <2>6, <2>7 DEF TypeOK
<1>8. CASE AllPopped
  BY <1>8 DEF AllPopped, TypeOK
<1>9. CASE PopEndedTasks
  <2>1. tasks' = Restrict(tasks, DOMAIN tasks \ Ended)
        /\ task_remotes' = Restrict(task_remotes, DOMAIN task_remotes \ EndedRemotes)
        /\ task_ufrags' = Restrict(task_ufrags, DOMAIN task_ufrags \ EndedUfrags)
        /\ bus_channels' = [k \in {x \in DOMAIN bus_channels : ~Abandoned(x)} |-> AfterLeave(k)]
        /\ ended_tasks' = <<>> /\ phase' = "udp" /\ phase = "ended"
        /\ UNCHANGED <<task_id_seed, to_pop, peers>>
    BY <1>9 DEF PopEndedTasks, Drained
  <2>2. DOMAIN tasks' \subseteq DOMAIN tasks /\ tasks' \in [DOMAIN tasks' -> Container]
    BY <2>1 DEF Restrict, TypeOK
  <2>3. DOMAIN task_remotes' \subseteq Remotes /\ task_remotes' \in [DOMAIN task_remotes' -> TaskIds]
    BY <2>1 DEF Restrict, TypeOK
  <2>4. DOMAIN task_ufrags' \subseteq Ufrags /\ task_ufrags' \in [DOMAIN task_ufrags' -> TaskIds]
    BY <2>1 DEF Restrict, TypeOK
  <2>5. ASSUME NEW k \in DOMAIN bus_channels
        PROVE  AfterLeave(k) \in [sources: SUBSET TaskIds, consumers: SUBSET TaskIds]
    BY DEF AfterLeave, TypeOK
  <2>6. DOMAIN bus_channels' \subseteq Tracks
        /\ bus_channels' \in [DOMAIN bus_channels' -> [sources: SUBSET TaskIds,
                                                        consumers: SUBSET TaskIds]]
    BY <2>1, <2>5 DEF TypeOK
  <2>7. to_pop' \subseteq DOMAIN tasks'
    BY <2>1 DEF TypeOK
  <2>8. DOMAIN tasks' \subseteq 0 .. task_id_seed' - 1
    BY <2>1, <2>2 DEF TypeOK
  <2>9. ended_tasks' \in Seq(TaskIds)
    BY <2>1
  <2> QED
    BY <2>1, <2>2, <2>3, <2>4, <2>6, <2>7, <2>8, <2>9 DEF TypeOK
<1>10. CASE EndedTaskMissing
  BY <1>10 DEF EndedTaskMissing, TypeOK
<1>11. ASSUME NEW remote \in Remotes, NEW stun \in Ufrags \cup {NotStun}, UdpKnownRemote(remote, stun)
       PROVE  TypeOK'
  <2> DEFINE id == task_remotes[remote]
  <2>1. id \in DOMAIN tasks /\ tasks[id] \in Container /\ Deliver(id, tasks[id], stun)
        /\ UNCHANGED <<phase, task_id_seed, task_remotes, task_ufrags, to_pop, peers>>
    BY <1>11 DEF UdpKnownRemote, TypeOK
  <2>2. /\ DOMAIN tasks' = DOMAIN tasks
        /\ tasks' \in [DOMAIN tasks' -> Container]
        /\ DOMAIN bus_channels' \subseteq Tracks
        /\ bus_channels' \in [DOMAIN bus_channels' -> [sources: SUBSET TaskIds,
                                                        consumers: SUBSET TaskIds]]
        /\ ended_tasks' \in Seq(TaskIds)
    BY <2>1, DeliverType
  <2> QED
    BY <2>1, <2>2 DEF TypeOK
<1>12. ASSUME NEW remote \in Remotes, NEW ufrag \in Ufrags, UdpNewRemote(remote, ufrag)
       PROVE  TypeOK'
  <2> DEFINE id == task_ufrags[ufrag]
  <2> DEFINE c == [tasks[id] EXCEPT !.remotes = @ \cup {remote}]
  <2>1. id \in TaskIds /\ task_remotes' = Insert(task_remotes, remote, id)
        /\ peers' = peers \cup {remote} /\ UNCHANGED <<phase, task_id_seed, task_ufrags, to_pop>>
    BY <1>12 DEF UdpNewRemote, TypeOK
  <2>2. DOMAIN task_remotes' \subseteq Remotes /\ task_remotes' \in [DOMAIN task_remotes' -> TaskIds]
    <3>1. task_remotes \in [DOMAIN task_remotes -> TaskIds] /\ DOMAIN task_remotes \subseteq Remotes
      BY DEF TypeOK
    <3> HIDE DEF id, c
    <3> DEFINE new == Insert(task_remotes, remote, id)
    <3>2. id \in TaskIds /\ task_remotes' = new
      BY <2>1
    <3>3. DOMAIN new = DOMAIN task_remotes \cup {remote} /\ new \in [DOMAIN new -> TaskIds]
      BY <3>1, <3>2, InsertType
    <3> HIDE DEF new
    <3>4. DOMAIN task_remotes' = DOMAIN task_remotes \cup {remote}
          /\ task_remotes' \in [DOMAIN task_remotes' -> TaskIds]
      BY <3>2, <3>3
    <3> QED
      BY <3>1, <3>4
  <2>3. /\ DOMAIN tasks' = DOMAIN tasks
        /\ tasks' \in [DOMAIN tasks' -> Container]
        /\ DOMAIN bus_channels' \subseteq Tracks
        /\ bus_channels' \in [DOMAIN bus_channels' -> [sources: SUBSET TaskIds,
                                                        consumers: SUBSET TaskIds]]
        /\ ended_tasks' \in Seq(TaskIds)
    <3>1. CASE id \in DOMAIN tasks
      <4>1. tasks[id] \in Container
        BY <3>1 DEF TypeOK
      <4>2. c \in Container
        BY <4>1 DEF Container
      <4>3. Deliver(id, c, ufrag)
        BY <1>12, <3>1 DEF UdpNewRemote
      <4> QED
        BY <3>1, <4>2, <4>3, DeliverType
    <3>2. CASE id \notin DOMAIN tasks
      BY <1>12, <3>2 DEF UdpNewRemote, TypeOK
    <3> QED
      BY <3>1, <3>2
  <2> QED
    BY <2>1, <2>2, <2>3 DEF TypeOK
<1>13. ASSUME NEW remote \in Remotes, UdpNotStun(remote) PROVE TypeOK'
  BY <1>13 DEF UdpNotStun, TypeOK
<1>14. CASE UdpEmpty
  BY <1>14 DEF UdpEmpty, TypeOK
<1>15. CASE Hang
  BY <1>15 DEF Hang, TypeOK
<1>16. CASE UNCHANGED vars
  BY <1>16 DEF vars, TypeOK
<1> QED
  BY <1>1, <1>2, <1>3, <1>4, <1>5, <1>6, <1>7, <1>8, <1>9, <1>10, <1>11, <1>12, <1>13, <1>14,
     <1>15, <1>16 DEF Next

\* The tables of the worker keep their types, whatever the bus, the controller
\* and the peers send.
THEOREM TypeCorrect == Spec => []TypeOK
<1>1. Init => TypeOK
  BY TypeInit
<1>2. TypeOK /\ [Next]_vars => TypeOK'
  BY TypeStep
<1> QED
  BY <1>1, <1>2, PTL DEF Spec

-----------------------------------------------------------------------------
(* Routing of packets.                                                     *)

\* A packet changes the container of one task only, and not how it is reached.
LEMMA DeliverKeeps ==
  ASSUME TypeOK, NEW id \in DOMAIN tasks, NEW c \in Container, NEW stun, Deliver(id, c, stun)
  PROVE  /\ DOMAIN tasks' = DOMAIN tasks
         /\ \A i \in DOMAIN tasks : i # id => tasks'[i] = tasks[i]
         /\ tasks'[id].remotes = c.remotes
         /\ tasks'[id].ufrag = c.ufrag
<1>1. PICK d \in AfterInput(c, stun) : \E p \in PollOutcomes(d) :
         /\ PopTask(id, d, p)
         /\ tasks' = [tasks EXCEPT ![id] = AfterPop(d, p)]
  BY DEF Deliver
<1>2. PICK p \in PollOutcomes(d) : tasks' = [tasks EXCEPT ![id] = AfterPop(d, p)]
  BY <1>1
<1>3. d \in Container /\ d.remotes = c.remotes /\ d.ufrag = c.ufrag
  BY AfterInputType
<1>4. AfterPop(d, p).remotes = d.remotes /\ AfterPop(d, p).ufrag = d.ufrag
  BY <1>3, AfterPopKeeps
<1> QED
  BY <1>2, <1>3, <1>4 DEF TypeOK

\* The packet tables agree as long as neither they nor what the containers say
\* of remotes and ufrags changes.
LEMMA RoutesKept ==
  ASSUME RoutesAgree, UNCHANGED <<task_remotes, task_ufrags>>,
         DOMAIN tasks' = DOMAIN tasks,
         \A i \in DOMAIN tasks : tasks'[i].remotes = tasks[i].remotes
                                 /\ tasks'[i].ufrag = tasks[i].ufrag
  PROVE  RoutesAgree'
  BY DEF RoutesAgree

\* Every step of the thread keeps the packet tables and the containers agreed.
LEMMA RoutesStep == TypeOK /\ RoutesAgree /\ [Next]_vars => RoutesAgree'
<1> SUFFICES ASSUME TypeOK, RoutesAgree, [Next]_vars PROVE RoutesAgree'
  OBVIOUS
<1>1. CASE UNCHANGED <<tasks, task_remotes, task_ufrags>>
  BY <1>1 DEF RoutesAgree
<1>2. ASSUME NEW kind \in {"whip", "whep"}, NEW channel \in Channels, NEW ufrag \in Ufrags,
             CreateTask(kind, channel, ufrag)
      PROVE  RoutesAgree'
  <2> DEFINE new == NewTask(kind, channel, ufrag)
  <2> DEFINE c == AfterPop(new, Quiet)
  <2>1. c.remotes = {} /\ c.ufrag = ufrag
    <3>1. new.remotes = {} /\ new.ufrag = ufrag
      BY DEF NewTask
    <3> QED
      BY <3>1, NewTaskType, AfterPopKeeps
  <2>2. task_id_seed \notin DOMAIN tasks
    BY DEF TypeOK
  <2>3. ufrag \notin DOMAIN task_ufrags /\ task_ufrags' = Insert(task_ufrags, ufrag, task_id_seed)
        /\ tasks' = Insert(tasks, task_id_seed, c) /\ UNCHANGED task_remotes
    BY <1>2 DEF CreateTask
  <2> HIDE DEF c
  <2> QED
    BY <2>1, <2>2, <2>3 DEF RoutesAgree, Insert
<1>3. ASSUME NEW id \in TaskIds, PopOne(id) PROVE RoutesAgree'
  <2>1. id \in DOMAIN tasks /\ tasks[id] \in Container
    BY <1>3 DEF PopOne, TypeOK
  <2>2. PICK p \in PollOutcomes(tasks[id]) : tasks' = [tasks EXCEPT ![id] = AfterPop(tasks[id], p)]
    BY <1>3 DEF PopOne
  <2>3. AfterPop(tasks[id], p).remotes = tasks[id].remotes
        /\ AfterPop(tasks[id], p).ufrag = tasks[id].ufrag
    BY <2>1, AfterPopKeeps
  <2>4. UNCHANGED <<task_remotes, task_ufrags>>
    BY <1>3 DEF PopOne
  <2>5. DOMAIN tasks' = DOMAIN tasks
        /\ \A i \in DOMAIN tasks : tasks'[i].remotes = tasks[i].remotes
                                   /\ tasks'[i].ufrag = tasks[i].ufrag
    BY <2>1, <2>2, <2>3 DEF TypeOK
  <2> QED
    BY <2>4, <2>5, RoutesKept
<1>4. CASE PopEndedTasks
  <2>1. tasks' = Restrict(tasks, DOMAIN tasks \ Ended)
        /\ task_remotes' = Restrict(task_remotes, DOMAIN task_remotes \ EndedRemotes)
        /\ task_ufrags' = Restrict(task_ufrags, DOMAIN task_ufrags \ EndedUfrags)
        /\ Ended \subseteq DOMAIN tasks
    BY <1>4 DEF PopEndedTasks
  <2>2. ASSUME NEW i \in Ended
        PROVE  tasks[i].ufrag \in EndedUfrags /\ tasks[i].remotes \subseteq EndedRemotes
    BY DEF EndedUfrags, EndedRemotes
  <2>3. ASSUME NEW i \in DOMAIN tasks \ Ended
        PROVE  tasks[i].ufrag \notin EndedUfrags /\ tasks[i].remotes \cap EndedRemotes = {}
    BY <2>1 DEF EndedUfrags, EndedRemotes, RoutesAgree
  <2>4. DOMAIN tasks' = DOMAIN tasks \ Ended
        /\ \A i \in DOMAIN tasks' : tasks'[i] = tasks[i]
    BY <2>1 DEF Restrict
  <2>5. DOMAIN task_remotes' = DOMAIN task_remotes \ EndedRemotes
        /\ \A r \in DOMAIN task_remotes' : task_remotes'[r] = task_remotes[r]
    BY <2>1 DEF Restrict
  <2>6. DOMAIN task_ufrags' = DOMAIN task_ufrags \ EndedUfrags
        /\ \A u \in DOMAIN task_ufrags' : task_ufrags'[u] = task_ufrags[u]
    BY <2>1 DEF Restrict
  <2>7. ASSUME NEW r \in DOMAIN task_remotes'
        PROVE  task_remotes'[r] \in DOMAIN tasks' /\ r \in tasks'[task_remotes'[r]].remotes
    BY <2>2, <2>4, <2>5 DEF RoutesAgree
  <2>8. ASSUME NEW i \in DOMAIN tasks', NEW r \in tasks'[i].remotes
        PROVE  r \in DOMAIN task_remotes' /\ task_remotes'[r] = i
    BY <2>3, <2>4, <2>5 DEF RoutesAgree
  <2>9. ASSUME NEW u \in DOMAIN task_ufrags'
        PROVE  task_ufrags'[u] \in DOMAIN tasks' /\ tasks'[task_ufrags'[u]].ufrag = u
    BY <2>2, <2>4, <2>6 DEF RoutesAgree
  <2>10. ASSUME NEW i \in DOMAIN tasks'
         PROVE  tasks'[i].ufrag \in DOMAIN task_ufrags' /\ task_ufrags'[tasks'[i].ufrag] = i
    BY <2>3, <2>4, <2>6 DEF RoutesAgree
  <2> QED
    BY <2>7, <2>8, <2>9, <2>10 DEF RoutesAgree
<1>5. ASSUME NEW remote \in Remotes, NEW stun \in Ufrags \cup {NotStun}, UdpKnownRemote(remote, stun)
      PROVE  RoutesAgree'
  <2> DEFINE id == task_remotes[remote]
  <2>1. id \in DOMAIN tasks /\ tasks[id] \in Container /\ Deliver(id, tasks[id], stun)
        /\ UNCHANGED <<task_remotes, task_ufrags>>
    BY <1>5 DEF UdpKnownRemote, TypeOK
  <2>2. DOMAIN tasks' = DOMAIN tasks
        /\ \A i \in DOMAIN tasks : tasks'[i].remotes = tasks[i].remotes
                                   /\ tasks'[i].ufrag = tasks[i].ufrag
    BY <2>1, DeliverKeeps
  <2> QED
    BY <2>1, <2>2, RoutesKept
<1>6. ASSUME NEW remote \in Remotes, NEW ufrag \in Ufrags, UdpNewRemote(remote, ufrag)
      PROVE  RoutesAgree'
  <2> DEFINE id == task_ufrags[ufrag]
  <2> DEFINE c == [tasks[id] EXCEPT !.remotes = @ \cup {remote}]
  <2>1. id \in DOMAIN tasks /\ tasks[id] \in Container
    BY <1>6 DEF UdpNewRemote, RoutesAgree, TypeOK
  <2>2. c \in Container /\ c.remotes = tasks[id].remotes \cup {remote} /\ c.ufrag = tasks[id].ufrag
    BY <2>1 DEF Container
  <2>3. Deliver(id, c, ufrag) /\ remote \notin DOMAIN task_remotes
        /\ task_remotes' = Insert(task_remotes, remote, id) /\ UNCHANGED task_ufrags
    BY <1>6, <2>1 DEF UdpNewRemote, Unmapped
  <2> HIDE DEF c
  <2>4. /\ DOMAIN tasks' = DOMAIN tasks
        /\ \A i \in DOMAIN tasks : i # id => tasks'[i] = tasks[i]
        /\ tasks'[id].remotes = tasks[id].remotes \cup {remote}
        /\ tasks'[id].ufrag = tasks[id].ufrag
    BY <2>1, <2>2, <2>3, DeliverKeeps
  <2> HIDE DEF id
  <2>5. /\ DOMAIN task_remotes' = DOMAIN task_remotes \cup {remote}
        /\ \A r \in DOMAIN task_remotes : task_remotes'[r] = task_remotes[r]
        /\ task_remotes'[remote] = id
    BY <2>3 DEF Insert
  <2>6. ASSUME NEW r \in DOMAIN task_remotes'
        PROVE  task_remotes'[r] \in DOMAIN tasks' /\ r \in tasks'[task_remotes'[r]].remotes
    <3>1. CASE r = remote
      BY <3>1, <2>1, <2>4, <2>5
    <3>2. CASE r # remote
      BY <3>2, <2>4, <2>5 DEF RoutesAgree
    <3> QED
      BY <3>1, <3>2
  <2>7. ASSUME NEW i \in DOMAIN tasks', NEW r \in tasks'[i].remotes
        PROVE  r \in DOMAIN task_remotes' /\ task_remotes'[r] = i
    <3>1. CASE i = id
      BY <3>1, <2>1, <2>4, <2>5 DEF RoutesAgree
    <3>2. CASE i # id
      BY <3>2, <2>4, <2>5 DEF RoutesAgree
    <3> QED
      BY <3>1, <3>2
  <2>8. \A i \in DOMAIN tasks : tasks'[i].ufrag = tasks[i].ufrag
    BY <2>1, <2>4
  <2>9. /\ \A u \in DOMAIN task_ufrags' :
             task_ufrags'[u] \in DOMAIN tasks' /\ tasks'[task_ufrags'[u]].ufrag = u
        /\ \A i \in DOMAIN tasks' :
             tasks'[i].ufrag \in DOMAIN task_ufrags' /\ task_ufrags'[tasks'[i].ufrag] = i
    BY <2>3, <2>4, <2>8 DEF RoutesAgree
  <2> QED
    BY <2>6, <2>7, <2>9 DEF RoutesAgree
<1> QED
  BY <1>1, <1>2, <1>3, <1>4, <1>5, <1>6
     DEF Next, vars, BusRecv, BusEmpty, RejectOffer, HttpEmpty, Tick, AllPopped, EndedTaskMissing,
         UdpNotStun, UdpEmpty, Hang

\* A remote or a ufrag is mapped to exactly the live task that lists it: no
\* teardown leaves a mapping behind and no new mapping hides a task.
THEOREM Routing == Spec => []RoutesAgree
<1>1. Init => RoutesAgree
  BY DEF Init, RoutesAgree
<1>2. Spec => []TypeOK
  BY TypeCorrect
<1>3. TypeOK /\ RoutesAgree /\ [Next]_vars => RoutesAgree'
  BY RoutesStep
<1> QED
  BY <1>1, <1>2, <1>3, PTL DEF Spec

\* No step moves a remote from one live task to another: a STUN check with
\* another task's ufrag does not take over an established session.
THEOREM Rebinding == Spec => NoRebind
<1>1. [Next]_vars =>
        [\A r \in DOMAIN task_remotes \cap DOMAIN task_remotes' :
            task_remotes'[r] = task_remotes[r]]_vars
  BY DEF Next, vars, BusRecv, BusEmpty, CreateTask, RejectOffer, HttpEmpty, Tick, PopOne, AllPopped,
         PopEndedTasks, EndedTaskMissing, UdpKnownRemote, UdpNewRemote, UdpNotStun, UdpEmpty, Hang,
         Unmapped, Insert, Restrict
<1> QED
  BY <1>1, PTL DEF Spec, NoRebind

-----------------------------------------------------------------------------
(* The bus table.                                                          *)

\* Only Whip tasks become sources and only Whep tasks consumers; a source may be
\* a task that is gone, but then its id has been given out.
KindsAgree ==
  \A k \in DOMAIN bus_channels :
     /\ \A i \in bus_channels[k].sources :
           i < task_id_seed /\ (i \in DOMAIN tasks => tasks[i].kind = "whip")
     /\ \A i \in bus_channels[k].consumers : i \in DOMAIN tasks => tasks[i].kind = "whep"

BusTable == MembershipAgrees /\ NoEmptyChannel /\ KindsAgree

\* pop_task, of a task that exists or of the one just created, enters the task in
\* the bus table and in its own container alike.
LEMMA PopTaskBus ==
  ASSUME TypeOK, BusTable,
         NEW id \in TaskIds, NEW c \in Container, NEW p, PopTask(id, c, p),
         IF id \in DOMAIN tasks
         THEN /\ c.kind = tasks[id].kind
              /\ c.pub_channels = tasks[id].pub_channels
              /\ c.sub_channels = tasks[id].sub_channels
         ELSE /\ c.pub_channels = {} /\ c.sub_channels = {} /\ c.outputs = {}
              /\ id = task_id_seed,
         DOMAIN tasks' = DOMAIN tasks \cup {id},
         tasks'[id] = AfterPop(c, p),
         \A i \in DOMAIN tasks : i # id => tasks'[i] = tasks[i],
         task_id_seed' \in Nat, task_id_seed <= task_id_seed', id < task_id_seed'
  PROVE  BusTable'
<1> DEFINE d == AfterPop(c, p)
<1>1. /\ d.kind = c.kind
      /\ d.pub_channels = IF c.kind = "whip" THEN c.pub_channels \cup c.outputs ELSE c.pub_channels
      /\ d.sub_channels = IF c.kind = "whep" THEN c.sub_channels \cup c.outputs ELSE c.sub_channels
  BY AfterPopKeeps
<1>2. c.kind \in {"whip", "whep"}
  BY DEF Container
<1> HIDE DEF d
<1>3. tasks'[id] = d
  BY DEF d
<1>4. ASSUME NEW k
      PROVE  /\ ChannelAt(k).sources \subseteq TaskIds
             /\ ChannelAt(k).consumers \subseteq TaskIds
             /\ k \in DOMAIN bus_channels => ChannelAt(k) = bus_channels[k]
             /\ k \notin DOMAIN bus_channels =>
                   ChannelAt(k).sources = {} /\ ChannelAt(k).consumers = {}
  BY DEF TypeOK, ChannelAt, EmptyChannel
<1>5. ASSUME NEW k
      PROVE  LET new == Joined(ChannelAt(k), id, c.kind)
             IN  /\ new.sources = ChannelAt(k).sources \cup (IF c.kind = "whip" THEN {id} ELSE {})
                 /\ new.consumers = ChannelAt(k).consumers \cup (IF c.kind = "whip" THEN {} ELSE {id})
  BY DEF Joined, TypeOK, ChannelAt, EmptyChannel
<1>6. /\ DOMAIN bus_channels' = DOMAIN bus_channels \cup c.outputs
      /\ \A k \in c.outputs : bus_channels'[k] = Joined(ChannelAt(k), id, c.kind)
      /\ \A k \in DOMAIN bus_channels \ c.outputs : bus_channels'[k] = bus_channels[k]
  BY DEF PopTask
<1>7. ASSUME NEW k \in DOMAIN bus_channels'
      PROVE  /\ bus_channels'[k].sources =
                  ChannelAt(k).sources
                    \cup (IF k \in c.outputs /\ c.kind = "whip" THEN {id} ELSE {})
             /\ bus_channels'[k].consumers =
                  ChannelAt(k).consumers
                    \cup (IF k \in c.outputs /\ c.kind = "whep" THEN {id} ELSE {})
  BY <1>2, <1>4, <1>5, <1>6
<1>8. KindsAgree'
  <2> SUFFICES ASSUME NEW k \in DOMAIN bus_channels'
               PROVE  /\ \A i \in bus_channels'[k].sources :
                            i < task_id_seed' /\ (i \in DOMAIN tasks' => tasks'[i].kind = "whip")
                      /\ \A i \in bus_channels'[k].consumers :
                            i \in DOMAIN tasks' => tasks'[i].kind = "whep"
    BY DEF KindsAgree
  <2>1. ASSUME NEW i \in bus_channels'[k].sources
        PROVE  i < task_id_seed' /\ (i \in DOMAIN tasks' => tasks'[i].kind = "whip")
    <3>1. CASE i \in ChannelAt(k).sources
      <4>1. k \in DOMAIN bus_channels /\ i \in bus_channels[k].sources
        BY <3>1, <1>4
      <4>2. i < task_id_seed /\ (i \in DOMAIN tasks => tasks[i].kind = "whip")
        BY <4>1 DEF BusTable, KindsAgree
      <4>3. i \in Nat /\ task_id_seed \in Nat
        BY <4>1, MaxTasksAssumption DEF TypeOK, TaskIds
      <4>4. i < task_id_seed'
        BY <4>2, <4>3
      <4>5. i = id => id \in DOMAIN tasks
        BY <4>2, <4>3
      <4> QED
        BY <4>2, <4>4, <4>5, <1>1, <1>3
    <3>2. CASE i \notin ChannelAt(k).sources
      BY <3>2, <1>1, <1>3, <1>7
    <3> QED
      BY <3>1, <3>2
  <2>2. ASSUME NEW i \in bus_channels'[k].consumers, i \in DOMAIN tasks'
        PROVE  tasks'[i].kind = "whep"
    <3>1. CASE i \in ChannelAt(k).consumers
      <4>1. k \in DOMAIN bus_channels /\ i \in bus_channels[k].consumers
        BY <3>1, <1>4
      <4>2. i \in DOMAIN tasks /\ tasks[i].kind = "whep"
        BY <4>1 DEF BusTable, MembershipAgrees, KindsAgree
      <4> QED
        BY <4>2, <1>1, <1>3
    <3>2. CASE i \notin ChannelAt(k).consumers
      BY <3>2, <1>1, <1>3, <1>7
    <3> QED
      BY <3>1, <3>2
  <2> QED
    BY <2>1, <2>2
<1>9. NoEmptyChannel'
  <2> SUFFICES ASSUME NEW k \in DOMAIN bus_channels' PROVE bus_channels'[k] # EmptyChannel
    BY DEF NoEmptyChannel, EmptyChannel
  <2>1. CASE k \in c.outputs
    <3>1. id \in bus_channels'[k].sources \cup bus_channels'[k].consumers
      BY <2>1, <1>2, <1>7
    <3> QED
      BY <3>1 DEF EmptyChannel
  <2>2. CASE k \notin c.outputs
    BY <2>2, <1>6 DEF BusTable, NoEmptyChannel
  <2> QED
    BY <2>1, <2>2
<1>10. MembershipAgrees'
  <2>1. ASSUME NEW k \in DOMAIN bus_channels', NEW i \in bus_channels'[k].consumers
        PROVE  i \in DOMAIN tasks' /\ k \in tasks'[i].sub_channels
    <3>1. CASE i \in ChannelAt(k).consumers
      <4>1. k \in DOMAIN bus_channels /\ i \in bus_channels[k].consumers
        BY <3>1, <1>4
      <4>2. i \in DOMAIN tasks /\ k \in tasks[i].sub_channels
        BY <4>1 DEF BusTable, MembershipAgrees
      <4> QED
        BY <4>2, <1>1, <1>3
    <3>2. CASE i \notin ChannelAt(k).consumers
      <4>1. i = id /\ k \in c.outputs /\ c.kind = "whep"
        BY <3>2, <1>7
      <4> QED
        BY <4>1, <1>1, <1>3
    <3> QED
      BY <3>1, <3>2
  <2>2. ASSUME NEW i \in DOMAIN tasks', NEW k \in tasks'[i].sub_channels
        PROVE  k \in DOMAIN bus_channels' /\ i \in bus_channels'[k].consumers
    <3>1. CASE i \in DOMAIN tasks /\ k \in tasks[i].sub_channels
      <4>1. k \in DOMAIN bus_channels /\ i \in bus_channels[k].consumers
        BY <3>1 DEF BusTable, MembershipAgrees
      <4> QED
        BY <4>1, <1>4, <1>6, <1>7
    <3>2. CASE ~(i \in DOMAIN tasks /\ k \in tasks[i].sub_channels)
      <4>1. i = id /\ k \in c.outputs /\ c.kind = "whep"
        BY <3>2, <1>1, <1>3
      <4> QED
        BY <4>1, <1>6, <1>7
    <3> QED
      BY <3>1, <3>2
  <2>3. ASSUME NEW i \in DOMAIN tasks', NEW k \in tasks'[i].pub_channels
        PROVE  k \in DOMAIN bus_channels' /\ i \in bus_channels'[k].sources
    <3>1. CASE i \in DOMAIN tasks /\ k \in tasks[i].pub_channels
      <4>1. k \in DOMAIN bus_channels /\ i \in bus_channels[k].sources
        BY <3>1 DEF BusTable, MembershipAgrees
      <4> QED
        BY <4>1, <1>4, <1>6, <1>7
    <3>2. CASE ~(i \in DOMAIN tasks /\ k \in tasks[i].pub_channels)
      <4>1. i = id /\ k \in c.outputs /\ c.kind = "whip"
        BY <3>2, <1>1, <1>3
      <4> QED
        BY <4>1, <1>6, <1>7
    <3> QED
      BY <3>1, <3>2
  <2> QED
    BY <2>1, <2>2, <2>3 DEF MembershipAgrees
<1> QED
  BY <1>8, <1>9, <1>10 DEF BusTable

\* A packet delivered to a task that exists keeps the bus table; c differs from
\* the task's container at most in its remotes.
LEMMA DeliverBus ==
  ASSUME TypeOK, BusTable, NEW id \in DOMAIN tasks, NEW c \in Container, NEW stun,
         c.kind = tasks[id].kind, c.pub_channels = tasks[id].pub_channels,
         c.sub_channels = tasks[id].sub_channels,
         Deliver(id, c, stun), UNCHANGED task_id_seed
  PROVE  BusTable'
<1>1. PICK d \in AfterInput(c, stun) : \E p \in PollOutcomes(d) :
         /\ PopTask(id, d, p)
         /\ tasks' = [tasks EXCEPT ![id] = AfterPop(d, p)]
  BY DEF Deliver
<1>2. PICK p \in PollOutcomes(d) :
         /\ PopTask(id, d, p)
         /\ tasks' = [tasks EXCEPT ![id] = AfterPop(d, p)]
  BY <1>1
<1>3. /\ d \in Container
      /\ d.kind = tasks[id].kind
      /\ d.pub_channels = tasks[id].pub_channels
      /\ d.sub_channels = tasks[id].sub_channels
  BY AfterInputType
<1>4. /\ DOMAIN tasks' = DOMAIN tasks \cup {id}
      /\ tasks'[id] = AfterPop(d, p)
      /\ \A i \in DOMAIN tasks : i # id => tasks'[i] = tasks[i]
  BY <1>2 DEF TypeOK
<1>5. /\ id \in TaskIds /\ task_id_seed' \in Nat
      /\ task_id_seed <= task_id_seed' /\ id < task_id_seed'
  BY MaxTasksAssumption DEF TypeOK, TaskIds
<1> QED
  BY <1>2, <1>3, <1>4, <1>5, PopTaskBus

\* Every step of the thread keeps the bus table.
LEMMA BusStep == TypeOK /\ BusTable /\ [Next]_vars => BusTable'
<1> SUFFICES ASSUME TypeOK, BusTable, [Next]_vars PROVE BusTable'
  OBVIOUS
<1>1. CASE UNCHANGED <<tasks, bus_channels, task_id_seed>>
  BY <1>1 DEF BusTable, MembershipAgrees, NoEmptyChannel, KindsAgree, EmptyChannel
<1>2. ASSUME NEW kind \in {"whip", "whep"}, NEW channel \in Channels, NEW ufrag \in Ufrags,
             CreateTask(kind, channel, ufrag)
      PROVE  BusTable'
  <2> DEFINE new == NewTask(kind, channel, ufrag)
  <2>1. new \in Container
    BY NewTaskType
  <2>2. new.pub_channels = {} /\ new.sub_channels = {} /\ new.outputs = {}
    BY DEF NewTask
  <2>3. /\ PopTask(task_id_seed, new, Quiet)
        /\ tasks' = Insert(tasks, task_id_seed, AfterPop(new, Quiet))
        /\ task_id_seed' = task_id_seed + 1
        /\ task_id_seed < MaxTasks
    BY <1>2 DEF CreateTask, NextSeed
  <2> HIDE DEF new
  <2>4. /\ task_id_seed \in TaskIds /\ task_id_seed' \in Nat
        /\ task_id_seed <= task_id_seed' /\ task_id_seed < task_id_seed'
        /\ task_id_seed \notin DOMAIN tasks
    BY <2>3, MaxTasksAssumption DEF TypeOK, TaskIds
  <2>5. /\ DOMAIN tasks' = DOMAIN tasks \cup {task_id_seed}
        /\ tasks'[task_id_seed] = AfterPop(new, Quiet)
        /\ \A i \in DOMAIN tasks : i # task_id_seed => tasks'[i] = tasks[i]
    BY <2>3 DEF Insert
  <2> QED
    BY <2>1, <2>2, <2>3, <2>4, <2>5, PopTaskBus
<1>3. CASE RejectOffer
  <2>1. task_id_seed < task_id_seed' /\ task_id_seed \in Nat /\ task_id_seed' \in Nat
    BY <1>3, MaxTasksAssumption DEF RejectOffer, NextSeed, TypeOK
  <2>2. UNCHANGED <<tasks, bus_channels>>
    BY <1>3 DEF RejectOffer
  <2>3. ASSUME NEW k \in DOMAIN bus_channels, NEW i \in bus_channels[k].sources
        PROVE  i < task_id_seed'
    <3>1. i \in Nat
      BY MaxTasksAssumption DEF TypeOK, TaskIds
    <3>2. i < task_id_seed
      BY DEF BusTable, KindsAgree
    <3> QED
      BY <2>1, <3>1, <3>2
  <2> QED
    BY <2>2, <2>3 DEF BusTable, MembershipAgrees, NoEmptyChannel, KindsAgree, EmptyChannel
<1>4. ASSUME NEW id \in TaskIds, PopOne(id) PROVE BusTable'
  <2>1. id \in DOMAIN tasks /\ tasks[id] \in Container
    BY <1>4 DEF PopOne, TypeOK
  <2>2. PICK p \in PollOutcomes(tasks[id]) :
           /\ PopTask(id, tasks[id], p)
           /\ tasks' = [tasks EXCEPT ![id] = AfterPop(tasks[id], p)]
    BY <1>4 DEF PopOne
  <2>3. /\ DOMAIN tasks' = DOMAIN tasks \cup {id}
        /\ tasks'[id] = AfterPop(tasks[id], p)
        /\ \A i \in DOMAIN tasks : i # id => tasks'[i] = tasks[i]
    BY <2>1, <2>2 DEF TypeOK
  <2>4. /\ task_id_seed' \in Nat /\ task_id_seed <= task_id_seed' /\ id < task_id_seed'
    BY <1>4, <2>1, MaxTasksAssumption DEF PopOne, TypeOK
  <2> QED
    BY <2>1, <2>2, <2>3, <2>4, PopTaskBus
<1>5. CASE PopEndedTasks
  <2>1. /\ DOMAIN tasks' = DOMAIN tasks \ Ended
        /\ \A i \in DOMAIN tasks' : tasks'[i] = tasks[i]
        /\ UNCHANGED task_id_seed
    BY <1>5 DEF PopEndedTasks, Restrict
  <2>2. /\ DOMAIN bus_channels' = {x \in DOMAIN bus_channels : ~Abandoned(x)}
        /\ \A k \in DOMAIN bus_channels' : bus_channels'[k] = AfterLeave(k)
    BY <1>5 DEF PopEndedTasks
  <2>3. ASSUME NEW k \in DOMAIN bus_channels
        PROVE  /\ AfterLeave(k).sources = bus_channels[k].sources
               /\ AfterLeave(k).consumers = bus_channels[k].consumers \ Leavers(k)
    BY DEF AfterLeave, TypeOK
  <2>4. KindsAgree'
    BY <2>1, <2>2, <2>3 DEF BusTable, KindsAgree
  <2>5. NoEmptyChannel'
    <3>1. ASSUME NEW k \in DOMAIN bus_channels'
          PROVE  AfterLeave(k) # EmptyChannel
      <4>1. CASE Leavers(k) = {}
        BY <2>2, <2>3, <4>1 DEF BusTable, NoEmptyChannel, EmptyChannel, TypeOK
      <4>2. CASE Leavers(k) # {}
        BY <2>2, <4>2 DEF Abandoned
      <4> QED
        BY <4>1, <4>2
    <3> QED
      BY <2>2, <3>1 DEF NoEmptyChannel, EmptyChannel
  <2>6. MembershipAgrees'
    <3>1. ASSUME NEW k \in DOMAIN bus_channels', NEW i \in bus_channels'[k].consumers
          PROVE  i \in DOMAIN tasks' /\ k \in tasks'[i].sub_channels
      <4>1. i \in bus_channels[k].consumers /\ i \notin Leavers(k)
        BY <2>2, <2>3
      <4>2. i \in DOMAIN tasks /\ k \in tasks[i].sub_channels
        BY <2>2, <4>1 DEF BusTable, MembershipAgrees
      <4>3. i \notin Ended
        BY <4>1, <4>2 DEF Leavers
      <4> QED
        BY <2>1, <4>2, <4>3
    <3>2. ASSUME NEW i \in DOMAIN tasks', NEW k \in tasks'[i].sub_channels
          PROVE  k \in DOMAIN bus_channels' /\ i \in bus_channels'[k].consumers
      <4>1. k \in DOMAIN bus_channels /\ i \in bus_channels[k].consumers
        BY <2>1 DEF BusTable, MembershipAgrees
      <4>2. i \notin Leavers(k)
        BY <2>1 DEF Leavers
      <4>3. i \in AfterLeave(k).consumers
        BY <2>3, <4>1, <4>2
      <4>4. ~Abandoned(k)
        BY <4>3 DEF Abandoned, EmptyChannel
      <4> QED
        BY <2>2, <4>1, <4>3, <4>4
    <3>3. ASSUME NEW i \in DOMAIN tasks', NEW k \in tasks'[i].pub_channels
          PROVE  k \in DOMAIN bus_channels' /\ i \in bus_channels'[k].sources
      <4>1. k \in DOMAIN bus_channels /\ i \in bus_channels[k].sources
        BY <2>1 DEF BusTable, MembershipAgrees
      <4>2. i \in AfterLeave(k).sources
        BY <2>3, <4>1
      <4>3. ~Abandoned(k)
        BY <4>2 DEF Abandoned, EmptyChannel
      <4> QED
        BY <2>2, <4>1, <4>2, <4>3
    <3> QED
      BY <3>1, <3>2, <3>3 DEF MembershipAgrees
  <2> QED
    BY <2>4, <2>5, <2>6 DEF BusTable
<1>6. ASSUME NEW remote \in Remotes, NEW stun \in Ufrags \cup {NotStun}, UdpKnownRemote(remote, stun)
      PROVE  BusTable'
  <2> DEFINE id == task_remotes[remote]
  <2>1. id \in DOMAIN tasks /\ tasks[id] \in Container /\ Deliver(id, tasks[id], stun)
        /\ UNCHANGED task_id_seed
    BY <1>6 DEF UdpKnownRemote, TypeOK
  <2> QED
    BY <2>1, DeliverBus
<1>7. ASSUME NEW remote \in Remotes, NEW ufrag \in Ufrags, UdpNewRemote(remote, ufrag)
      PROVE  BusTable'
  <2> DEFINE id == task_ufrags[ufrag]
  <2> DEFINE c == [tasks[id] EXCEPT !.remotes = @ \cup {remote}]
  <2>1. CASE id \in DOMAIN tasks
    <3>1. tasks[id] \in Container
      BY <2>1 DEF TypeOK
    <3>2. /\ c \in Container
          /\ c.kind = tasks[id].kind
          /\ c.pub_channels = tasks[id].pub_channels
          /\ c.sub_channels = tasks[id].sub_channels
      BY <3>1 DEF Container
    <3>3. Deliver(id, c, ufrag) /\ UNCHANGED task_id_seed
      BY <1>7, <2>1 DEF UdpNewRemote
    <3> HIDE DEF c
    <3> QED
      BY <2>1, <3>2, <3>3, DeliverBus
  <2>2. CASE id \notin DOMAIN tasks
    BY <1>1, <1>7, <2>2 DEF UdpNewRemote
  <2> QED
    BY <2>1, <2>2
<1> QED
  BY <1>1, <1>2, <1>3, <1>4, <1>5, <1>6, <1>7
     DEF Next, vars, BusRecv, BusEmpty, HttpEmpty, Tick, AllPopped, EndedTaskMissing,
         UdpNotStun, UdpEmpty, Hang

\* The bus table holds for every reachable state.
LEMMA BusTableInvariant == Spec => []BusTable
<1>1. Init => BusTable
  BY DEF Init, BusTable, MembershipAgrees, NoEmptyChannel, KindsAgree
<1>2. Spec => []TypeOK
  BY TypeCorrect
<1>3. TypeOK /\ BusTable /\ [Next]_vars => BusTable'
  BY BusStep
<1> QED
  BY <1>1, <1>2, <1>3, PTL DEF Spec

\* The bus table and the live tasks agree: consumers are exactly the tasks that
\* subscribed, and every task that published is a source.
THEOREM Membership == Spec => []MembershipAgrees
<1>1. BusTable => MembershipAgrees
  BY DEF BusTable
<1> QED
  BY <1>1, BusTableInvariant, PTL

\* No channel outlives its last source and consumer.
THEOREM ChannelsInUse == Spec => []NoEmptyChannel
<1>1. BusTable => NoEmptyChannel
  BY DEF BusTable
<1> QED
  BY <1>1, BusTableInvariant, PTL

\* process_bus_recv never hands a task an event it panics on, although pub_channels
\* of an ended task leave its id among the sources.
THEOREM Delivery == Spec => []NoMisdelivery
<1>1. BusTable => NoMisdelivery
  BY DEF BusTable, MembershipAgrees, KindsAgree, NoMisdelivery, Misdelivered, Receivers, Accepts,
         BusEvents
<1> QED
  BY <1>1, BusTableInvariant, PTL

-----------------------------------------------------------------------------
(* The end of a task.                                                      *)

\* pop_task adds a task that ended to the list.
LEMMA AppendRange ==
  ASSUME NEW S, NEW s \in Seq(S), NEW x \in S
  PROVE  Range(Append(s, x)) = Range(s) \cup {x}
<1>1. Len(s) \in Nat /\ DOMAIN s = 1 .. Len(s) /\ DOMAIN Append(s, x) = 1 .. Len(s) + 1
  OBVIOUS
<1>2. Append(s, x)[Len(s) + 1] = x /\ \A n \in 1 .. Len(s) : Append(s, x)[n] = s[n]
  OBVIOUS
<1>3. DOMAIN Append(s, x) = DOMAIN s \cup {Len(s) + 1}
  BY <1>1
<1> QED
  BY <1>1, <1>2, <1>3 DEF Range

\* One pop_task of a task that exists; d is its container, with the packet that
\* came just before.
LEMMA PopTaskListed ==
  ASSUME TypeOK, EndedListed,
         NEW id \in DOMAIN tasks, NEW d \in Container, tasks[id].ice = "up" <=> d.ice = "up",
         NEW p, PopTask(id, d, p), tasks' = [tasks EXCEPT ![id] = AfterPop(d, p)]
  PROVE  EndedListed'
<1>1. /\ DOMAIN tasks' = DOMAIN tasks
      /\ tasks'[id] = AfterPop(d, p)
      /\ \A i \in DOMAIN tasks : i # id => tasks'[i] = tasks[i]
  BY DEF TypeOK
<1>2. tasks'[id].ice = IF p.ended THEN "down" ELSE d.ice
  BY <1>1, AfterPopKeeps
<1>3. CASE p.ended
  <2>1. ended_tasks \in Seq(TaskIds) /\ id \in TaskIds
    BY MaxTasksAssumption DEF TypeOK, TaskIds
  <2>2. Range(ended_tasks') = Range(ended_tasks) \cup {id}
    BY <1>3, <2>1, AppendRange DEF PopTask
  <2> QED
    BY <1>1, <1>2, <1>3, <2>2 DEF EndedListed
<1>4. CASE ~p.ended
  <2>1. Range(ended_tasks') = Range(ended_tasks)
    BY <1>4 DEF PopTask
  <2> QED
    BY <1>1, <1>2, <1>4, <2>1 DEF EndedListed
<1> QED
  BY <1>3, <1>4

\* Delivery of a packet: only a disconnected task is revived by it, and it stays on
\* the list.
LEMMA DeliverListed ==
  ASSUME TypeOK, EndedListed,
         NEW id \in DOMAIN tasks, NEW c \in Container, c.ice = tasks[id].ice,
         NEW stun, Deliver(id, c, stun)
  PROVE  EndedListed'
<1>1. PICK d \in AfterInput(c, stun) : \E p \in PollOutcomes(d) :
         /\ PopTask(id, d, p)
         /\ tasks' = [tasks EXCEPT ![id] = AfterPop(d, p)]
  BY DEF Deliver
<1>2. PICK p \in PollOutcomes(d) :
         /\ PopTask(id, d, p)
         /\ tasks' = [tasks EXCEPT ![id] = AfterPop(d, p)]
  BY <1>1
<1>3. d \in Container /\ (tasks[id].ice = "up" <=> d.ice = "up")
  BY AfterInputType
<1> QED
  BY <1>2, <1>3, PopTaskListed

\* Every step keeps the list complete.
LEMMA EndedStep == TypeOK /\ EndedListed /\ [Next]_vars => EndedListed'
<1> SUFFICES ASSUME TypeOK, EndedListed, [Next]_vars PROVE EndedListed'
  OBVIOUS
<1>1. CASE UNCHANGED <<tasks, ended_tasks>>
  BY <1>1 DEF EndedListed, Range
<1>2. ASSUME NEW kind \in {"whip", "whep"}, NEW channel \in Channels, NEW ufrag \in Ufrags,
             CreateTask(kind, channel, ufrag)
      PROVE  EndedListed'
  <2> DEFINE c == AfterPop(NewTask(kind, channel, ufrag), Quiet)
  <2>1. tasks' = Insert(tasks, task_id_seed, c)
    BY <1>2 DEF CreateTask
  <2>2. ended_tasks' = ended_tasks
    BY <1>2 DEF CreateTask, PopTask, Quiet
  <2>3. c.ice = "up"
    BY NewTaskType, AfterPopKeeps DEF NewTask, Quiet
  <2> HIDE DEF c
  <2>4. task_id_seed \notin DOMAIN tasks
    BY DEF TypeOK
  <2>5. /\ DOMAIN tasks' = DOMAIN tasks \cup {task_id_seed}
        /\ tasks'[task_id_seed] = c
        /\ \A i \in DOMAIN tasks : tasks'[i] = tasks[i]
    BY <2>1, <2>4 DEF Insert
  <2>6. Range(ended_tasks') = Range(ended_tasks)
    BY <2>2
  <2> QED
    BY <2>3, <2>5, <2>6 DEF EndedListed
<1>3. ASSUME NEW id \in TaskIds, PopOne(id) PROVE EndedListed'
  <2>1. id \in DOMAIN tasks /\ tasks[id] \in Container
    BY <1>3 DEF PopOne, TypeOK
  <2>2. PICK p \in PollOutcomes(tasks[id]) :
           /\ PopTask(id, tasks[id], p)
           /\ tasks' = [tasks EXCEPT ![id] = AfterPop(tasks[id], p)]
    BY <1>3 DEF PopOne
  <2> QED
    BY <2>1, <2>2, PopTaskListed
<1>4. CASE PopEndedTasks
  <2>1. /\ DOMAIN tasks' = DOMAIN tasks \ Ended
        /\ \A i \in DOMAIN tasks' : tasks'[i] = tasks[i]
    BY <1>4 DEF PopEndedTasks, Restrict
  <2>2. Range(ended_tasks') = {}
    BY <1>4 DEF PopEndedTasks, Drained, Range
  <2> QED
    BY <2>1, <2>2 DEF EndedListed, Ended
<1>5. ASSUME NEW remote \in Remotes, NEW stun \in Ufrags \cup {NotStun}, UdpKnownRemote(remote, stun)
      PROVE  EndedListed'
  <2> DEFINE id == task_remotes[remote]
  <2>1. id \in DOMAIN tasks /\ tasks[id] \in Container /\ Deliver(id, tasks[id], stun)
    BY <1>5 DEF UdpKnownRemote, TypeOK
  <2> QED
    BY <2>1, DeliverListed
<1>6. ASSUME NEW remote \in Remotes, NEW ufrag \in Ufrags, UdpNewRemote(remote, ufrag)
      PROVE  EndedListed'
  <2> DEFINE id == task_ufrags[ufrag]
  <2> DEFINE c == [tasks[id] EXCEPT !.remotes = @ \cup {remote}]
  <2>1. CASE id \in DOMAIN tasks
    <3>1. tasks[id] \in Container
      BY <2>1 DEF TypeOK
    <3>2. c \in Container /\ c.ice = tasks[id].ice
      BY <3>1 DEF Container
    <3>3. Deliver(id, c, ufrag)
      BY <1>6, <2>1 DEF UdpNewRemote
    <3> HIDE DEF c
    <3> QED
      BY <2>1, <3>2, <3>3, DeliverListed
  <2>2. CASE id \notin DOMAIN tasks
    BY <1>1, <1>6, <2>2 DEF UdpNewRemote
  <2> QED
    BY <2>1, <2>2
<1> QED
  BY <1>1, <1>2, <1>3, <1>4, <1>5, <1>6
     DEF Next, vars, BusRecv, BusEmpty, RejectOffer, HttpEmpty, Tick, AllPopped, EndedTaskMissing,
         UdpNotStun, UdpEmpty, Hang

\* ended_tasks lists exactly the tasks whose Rtc has reported its end, however long
\* the thread is stalled: the reports of Rtcs and the teardowns of the worker keep
\* step, and the next teardown takes every task that is over and no other.
THEOREM EndedTasks == Spec => []EndedListed
<1>1. Init => EndedListed
  BY DEF Init, EndedListed, Range
<1>2. Spec => []TypeOK
  BY TypeCorrect
<1>3. TypeOK /\ EndedListed /\ [Next]_vars => EndedListed'
  BY EndedStep
<1> QED
  BY <1>1, <1>2, <1>3, PTL DEF Spec
=============================================================================
