------------------------------- MODULE Worker -------------------------------
(***************************************************************************)
(* One worker thread of the media server (src/worker.rs): the WebRTC tasks *)
(* it owns, the three tables that route packets and bus events to them,    *)
(* and the cycle that creates, feeds and tears them down.                  *)
(*                                                                         *)
(* The thread runs process_cycle for ever:                                 *)
(*                                                                         *)
(*   "bus"   process_bus_recv   events of other publishers / subscribers   *)
(*   "http"  process_http       requests of the controller create tasks    *)
(*   "tick"  process_tick       timers of every task                       *)
(*   "pop"   pop_tasks          outputs of every task, one task at a time  *)
(*   "ended" pop_ended_tasks    removal of the tasks that ended            *)
(*   "udp"   process_udp        packets, each followed by one pop_task     *)
(*                                                                         *)
(* and stops only in a panic ("panicked") or in a call that never returns  *)
(* ("stuck").  What arrives on the bus, on the HTTP channel and on the     *)
(* socket is chosen freely by the environment; what a task's Rtc reports   *)
(* is external and bounded by PollOutcomes and AfterInput.                 *)
(***************************************************************************)
EXTENDS Integers, Sequences, FiniteSets, Functions

CONSTANTS
  Channels,   \* channel names: the Authorization header of a request
  Remotes,    \* socket addresses of peers
  Ufrags,     \* ICE user fragments, one drawn at random by each Rtc
  NotStun,    \* stands for a packet that is not STUN (DTLS, RTP, RTCP)
  Offers,     \* what SDP offers come in: "ok" parses, "bad" does not
  MaxTasks,   \* bound: tasks this worker creates in a behaviour
  Stall,      \* may the thread be stalled longer than ICE's expiry time?
  Strays      \* may anyone send packets that are not STUN, or peers only?

ASSUME ChannelsAssumption == Channels # {}
ASSUME OffersAssumption   == Offers \subseteq {"ok", "bad"}
ASSUME MaxTasksAssumption == MaxTasks \in Nat
ASSUME StallAssumption    == Stall \in BOOLEAN
ASSUME StraysAssumption   == Strays \in BOOLEAN
ASSUME NotStunAssumption  == NotStun \notin Ufrags

VARIABLES
  phase,          \* where the thread is in process_cycle
  task_id_seed,   \* the id of the next task
  tasks,          \* HashMap<usize, TaskContainer>
  task_remotes,   \* HashMap<SocketAddr, usize>
  task_ufrags,    \* HashMap<String, usize>
  bus_channels,   \* HashMap<u64, BusChannelContainer>
  ended_tasks,    \* Vec<usize>: tasks that reported TaskEnded
  to_pop,         \* tasks that pop_tasks has still to visit in this cycle
  peers           \* environment: remotes that have passed an ICE check

vars == <<phase, task_id_seed, tasks, task_remotes, task_ufrags, bus_channels,
          ended_tasks, to_pop, peers>>

-----------------------------------------------------------------------------
(* Data.                                                                   *)

\* HashMap::insert.
Insert(f, k, v) == [x \in DOMAIN f \cup {k} |-> IF x = k THEN v ELSE f[x]]

TaskIds == 0 .. MaxTasks - 1

\* track_id_builder hashes channel and kind to a u64; two tracks are taken to
\* have different hashes.
Tracks == Channels \X {"audio", "video"}
TracksOf(channel) == {channel} \X {"audio", "video"}

\* A task with its container.  `outputs` holds the tracks a task has queued to
\* publish (Whip) or to subscribe to (Whep) and not handed to the worker yet;
\* `ice` is "up" until the Rtc reports Disconnected, and "revived" when a later
\* STUN check has brought the connection back.
Container ==
  [kind: {"whip", "whep"}, channel: Channels, ufrag: Ufrags,
   remotes: SUBSET Remotes, sub_channels: SUBSET Tracks,
   pub_channels: SUBSET Tracks, outputs: SUBSET Tracks,
   connected: BOOLEAN, ice: {"up", "down", "revived"}]

NewTask(kind, channel, ufrag) ==
  [kind |-> kind, channel |-> channel, ufrag |-> ufrag, remotes |-> {},
   sub_channels |-> {}, pub_channels |-> {}, outputs |-> {},
   connected |-> FALSE, ice |-> "up"]

\* The Vecs of a BusChannelContainer, as sets: a task connects once and so
\* announces each of its two tracks once, and the order of a Vec decides nothing.
EmptyChannel == [sources |-> {}, consumers |-> {}]

BusEvents == [type: {"media", "keyframe"}, track: Tracks]

Init ==
  /\ phase = "bus"
  /\ task_id_seed = 0
  /\ tasks = <<>>
  /\ task_remotes = <<>>
  /\ task_ufrags = <<>>
  /\ bus_channels = <<>>
  /\ ended_tasks = <<>>
  /\ to_pop = {}
  /\ peers = {}

-----------------------------------------------------------------------------
(* The Rtc of a task: external, known from how the tasks drive it.          *)

\* Connected is reported once, after a DTLS handshake with some remote.
MayConnect(c) == ~c.connected /\ c.remotes # {}

\* Disconnected is reported when the ICE checks have stopped.  A connection that
\* a check has just revived expires again before pop_ended_tasks only if the
\* thread is stalled for seconds before its next tick: by a broadcast that waits
\* for readers or by a 404 that waits for main.
MayExpire(c) == c.ice = "up" \/ (c.ice = "revived" /\ Stall /\ phase = "pop")

\* What one pop_task may learn from poll_output before it returns None.
PollOutcomes(c) ==
  {p \in [connected: BOOLEAN, ended: BOOLEAN] :
      /\ p.connected => MayConnect(c)
      /\ p.ended => MayExpire(c)}

Quiet == [connected |-> FALSE, ended |-> FALSE]

\* A STUN check with the task's own ufrag can revive a disconnected Rtc.
AfterInput(c, stun) ==
  {c} \cup {d \in {[c EXCEPT !.ice = "revived"]} : c.ice = "down" /\ stun = c.ufrag}

-----------------------------------------------------------------------------
(* pop_task: drains the outputs the task has queued, then polls the Rtc     *)
(* until pop_action returns None.                                           *)

AfterPop(c, p) ==
  [c EXCEPT
     !.pub_channels = IF c.kind = "whip" THEN @ \cup c.outputs ELSE @,
     !.sub_channels = IF c.kind = "whep" THEN @ \cup c.outputs ELSE @,
     !.outputs      = IF p.connected THEN TracksOf(c.channel) ELSE {},
     !.connected    = @ \/ p.connected,
     !.ice          = IF p.ended THEN "down" ELSE @]

ChannelAt(k) == IF k \in DOMAIN bus_channels THEN bus_channels[k] ELSE EmptyChannel

Joined(channel, id, kind) ==
  IF kind = "whip" THEN [channel EXCEPT !.sources = @ \cup {id}]
                   ELSE [channel EXCEPT !.consumers = @ \cup {id}]

PopTask(id, c, p) ==
  /\ bus_channels' =
       [k \in DOMAIN bus_channels \cup c.outputs |->
          IF k \in c.outputs THEN Joined(ChannelAt(k), id, c.kind) ELSE bus_channels[k]]
  /\ ended_tasks' = IF p.ended THEN Append(ended_tasks, id) ELSE ended_tasks

-----------------------------------------------------------------------------
(* process_bus_recv                                                        *)

Receivers(e) ==
  IF e.track \notin DOMAIN bus_channels THEN {}
  ELSE DOMAIN tasks \cap (IF e.type = "media" THEN bus_channels[e.track].consumers
                                             ELSE bus_channels[e.track].sources)

\* A Whip task panics on TrackMedia and a Whep task on RequestKeyframeTrack.
Accepts(kind, type) == (kind = "whep") <=> (type = "media")

Misdelivered(e) == \E i \in Receivers(e) : ~Accepts(tasks[i].kind, e.type)

BusRecv(e) ==
  /\ phase = "bus"
  /\ phase' = IF Misdelivered(e) THEN "panicked" ELSE "bus"
  /\ UNCHANGED <<task_id_seed, tasks, task_remotes, task_ufrags, bus_channels,
                 ended_tasks, to_pop, peers>>

BusEmpty ==
  /\ phase = "bus"
  /\ phase' = "http"
  /\ UNCHANGED <<task_id_seed, tasks, task_remotes, task_ufrags, bus_channels,
                 ended_tasks, to_pop, peers>>

-----------------------------------------------------------------------------
(* process_http.  A request with any other path is answered 404 and changes *)
(* nothing here.                                                            *)

\* Mutants: the seed is not advanced; an id is the number of live tasks.
SeedKept == task_id_seed
SeedCounts == Cardinality(DOMAIN tasks)

NextSeed == task_id_seed + 1

CreateTask(kind, channel, ufrag) ==
  /\ phase = "http"
  /\ task_id_seed < MaxTasks
  /\ ufrag \notin DOMAIN task_ufrags
  /\ LET new == NewTask(kind, channel, ufrag)
     IN  /\ PopTask(task_id_seed, new, Quiet)
         /\ tasks' = Insert(tasks, task_id_seed, AfterPop(new, Quiet))
  /\ task_ufrags' = Insert(task_ufrags, ufrag, task_id_seed)
  /\ task_id_seed' = NextSeed
  /\ UNCHANGED <<phase, task_remotes, to_pop, peers>>

\* WhipServerTask::new and WhepServerTask::new expect the offer to parse.
RejectOffer ==
  /\ phase = "http"
  /\ "bad" \in Offers
  /\ task_id_seed < MaxTasks
  /\ task_id_seed' = NextSeed
  /\ phase' = "panicked"
  /\ UNCHANGED <<tasks, task_remotes, task_ufrags, bus_channels, ended_tasks, to_pop, peers>>

HttpEmpty ==
  /\ phase = "http"
  /\ phase' = "tick"
  /\ UNCHANGED <<task_id_seed, tasks, task_remotes, task_ufrags, bus_channels,
                 ended_tasks, to_pop, peers>>

-----------------------------------------------------------------------------
(* process_tick and pop_tasks.  A tick lets the Rtcs notice that time has   *)
(* passed; what they report is found by the pop that follows.               *)

\* Mutant: only the tasks whose Rtc has something to report are visited.
ToPopDue == {i \in DOMAIN tasks : tasks[i].ice # "up"}

ToPop == DOMAIN tasks

Tick ==
  /\ phase = "tick"
  /\ phase' = "pop"
  /\ to_pop' = ToPop
  /\ UNCHANGED <<task_id_seed, tasks, task_remotes, task_ufrags, bus_channels,
                 ended_tasks, peers>>

PopOne(id) ==
  /\ phase = "pop"
  /\ id \in to_pop
  /\ to_pop' = to_pop \ {id}
  /\ \E p \in PollOutcomes(tasks[id]) :
        /\ PopTask(id, tasks[id], p)
        /\ tasks' = [tasks EXCEPT ![id] = AfterPop(tasks[id], p)]
  /\ UNCHANGED <<phase, task_id_seed, task_remotes, task_ufrags, peers>>

AllPopped ==
  /\ phase = "pop"
  /\ to_pop = {}
  /\ phase' = "ended"
  /\ UNCHANGED <<task_id_seed, tasks, task_remotes, task_ufrags, bus_channels,
                 ended_tasks, to_pop, peers>>

-----------------------------------------------------------------------------
(* pop_ended_tasks                                                         *)

\* Mutant: one entry of ended_tasks is taken (pop), the others are forgotten.
EndedLast == IF ended_tasks = <<>> THEN {} ELSE {ended_tasks[Len(ended_tasks)]}

Ended == Range(ended_tasks)

\* Mutant: a task forgets all its remotes but the one it was mapped to first.
EndedFirstRemotes ==
  {CHOOSE r \in tasks[i].remotes : TRUE : i \in {j \in Ended : tasks[j].remotes # {}}}

\* The remotes whose mapping goes with the ended tasks.
EndedRemotes == UNION {tasks[i].remotes : i \in Ended}
EndedUfrags  == {tasks[i].ufrag : i \in Ended}

\* Mutant: the loop over sub_channels is missing.
LeaversPublished(k) == {i \in Ended : k \in tasks[i].pub_channels}

\* Both loops, over sub_channels and over pub_channels, take the task out of the
\* consumers; neither takes it out of the sources.
Leavers(k) == {i \in Ended : k \in tasks[i].sub_channels \cup tasks[i].pub_channels}

AfterLeave(k) == [bus_channels[k] EXCEPT !.consumers = @ \ Leavers(k)]

\* Mutant: only the loop over pub_channels removes an empty channel.
AbandonedPublished(k) ==
  (\E i \in Leavers(k) : k \in tasks[i].pub_channels) /\ AfterLeave(k) = EmptyChannel

Abandoned(k) == Leavers(k) # {} /\ AfterLeave(k) = EmptyChannel

\* Mutant: ended_tasks is iterated over and not drained.
Undrained == ended_tasks

Drained == <<>>

PopEndedTasks ==
  /\ phase = "ended"
  /\ Ended \subseteq DOMAIN tasks
  /\ IsInjective(ended_tasks)
  /\ tasks' = Restrict(tasks, DOMAIN tasks \ Ended)
  /\ task_remotes' = Restrict(task_remotes, DOMAIN task_remotes \ EndedRemotes)
  /\ task_ufrags' = Restrict(task_ufrags, DOMAIN task_ufrags \ EndedUfrags)
  /\ bus_channels' = [k \in {x \in DOMAIN bus_channels : ~Abandoned(x)} |-> AfterLeave(k)]
  /\ ended_tasks' = Drained
  /\ phase' = "udp"
  /\ UNCHANGED <<task_id_seed, to_pop, peers>>

\* self.tasks.remove(&task_id).expect("Should have a task")
EndedTaskMissing ==
  /\ phase = "ended"
  /\ ~(Ended \subseteq DOMAIN tasks /\ IsInjective(ended_tasks))
  /\ phase' = "panicked"
  /\ UNCHANGED <<task_id_seed, tasks, task_remotes, task_ufrags, bus_channels,
                 ended_tasks, to_pop, peers>>

-----------------------------------------------------------------------------
(* process_udp.  A STUN packet from an unmapped remote with an unknown or no *)
(* username is dropped, and so is a packet of a remote whose task is gone:   *)
(* neither changes anything.                                                 *)

\* task.input followed at once by pop_task.
Deliver(id, c, stun) ==
  \E d \in AfterInput(c, stun) : \E p \in PollOutcomes(d) :
     /\ PopTask(id, d, p)
     /\ tasks' = [tasks EXCEPT ![id] = AfterPop(d, p)]

\* Mutant: a STUN username is looked up before the remote's mapping.
UnmappedAlways(remote) == TRUE

Unmapped(remote) == remote \notin DOMAIN task_remotes

UdpKnownRemote(remote, stun) ==
  /\ phase = "udp"
  /\ remote \in DOMAIN task_remotes
  /\ task_remotes[remote] \in DOMAIN tasks
  /\ LET id == task_remotes[remote] IN Deliver(id, tasks[id], stun)
  /\ UNCHANGED <<phase, task_id_seed, task_remotes, task_ufrags, to_pop, peers>>

UdpNewRemote(remote, ufrag) ==
  /\ phase = "udp"
  /\ Unmapped(remote)
  /\ ufrag \in DOMAIN task_ufrags
  /\ LET id == task_ufrags[ufrag]
     IN  /\ task_remotes' = Insert(task_remotes, remote, id)
         /\ IF id \in DOMAIN tasks
            THEN Deliver(id, [tasks[id] EXCEPT !.remotes = @ \cup {remote}], ufrag)
            ELSE UNCHANGED <<tasks, bus_channels, ended_tasks>>
  /\ peers' = peers \cup {remote}
  /\ UNCHANGED <<phase, task_id_seed, task_ufrags, to_pop>>

\* get_stun_username unwraps the decoding of whatever an unmapped remote sends.
\* A peer sends DTLS and media only after its ICE check succeeded, so without
\* Strays this is a packet of a session that has been torn down.
UdpNotStun(remote) ==
  /\ phase = "udp"
  /\ remote \in peers \/ Strays
  /\ Unmapped(remote)
  /\ phase' = "panicked"
  /\ UNCHANGED <<task_id_seed, tasks, task_remotes, task_ufrags, bus_channels,
                 ended_tasks, to_pop, peers>>

UdpEmpty ==
  /\ phase = "udp"
  /\ phase' = "bus"
  /\ UNCHANGED <<task_id_seed, tasks, task_remotes, task_ufrags, bus_channels,
                 ended_tasks, to_pop, peers>>

-----------------------------------------------------------------------------
\* A 404 is sent by a send that waits for room in the response channel, and an
\* output that goes to the bus waits for the mutex and then for every reader.
\* MediaBus shows that this may be for ever.  The pop_task that is cut short is
\* left out: nobody looks at the tables again.
Hang ==
  /\ phase \in {"http", "pop", "udp"}
  /\ phase' = "stuck"
  /\ UNCHANGED <<task_id_seed, tasks, task_remotes, task_ufrags, bus_channels,
                 ended_tasks, to_pop, peers>>

Next ==
  \/ \E e \in BusEvents : BusRecv(e)
  \/ BusEmpty
  \/ \E kind \in {"whip", "whep"}, channel \in Channels, ufrag \in Ufrags :
        CreateTask(kind, channel, ufrag)
  \/ RejectOffer
  \/ HttpEmpty
  \/ Tick
  \/ \E id \in TaskIds : PopOne(id)
  \/ AllPopped
  \/ PopEndedTasks
  \/ EndedTaskMissing
  \/ \E remote \in Remotes, stun \in Ufrags \cup {NotStun} : UdpKnownRemote(remote, stun)
  \/ \E remote \in Remotes, ufrag \in Ufrags : UdpNewRemote(remote, ufrag)
  \/ \E remote \in Remotes : UdpNotStun(remote)
  \/ UdpEmpty
  \/ Hang

Spec == Init /\ [][Next]_vars

\* A thread that is not stuck goes on: each loop of a cycle comes to its end when
\* its input runs dry.
Cycle ==
  \/ BusEmpty
  \/ HttpEmpty
  \/ Tick
  \/ \E id \in TaskIds : PopOne(id)
  \/ AllPopped
  \/ PopEndedTasks
  \/ EndedTaskMissing
  \/ UdpEmpty

FairSpec == Spec /\ WF_vars(Cycle)

-----------------------------------------------------------------------------
(* Properties.                                                             *)

\* Every table holds values of its declared type, an id is in use only if the
\* seed has passed it, and pop_tasks visits only tasks that exist.
TypeOK ==
  /\ phase \in {"bus", "http", "tick", "pop", "ended", "udp", "panicked", "stuck"}
  /\ task_id_seed \in 0 .. MaxTasks
  /\ DOMAIN tasks \subseteq 0 .. task_id_seed - 1
  /\ tasks \in [DOMAIN tasks -> Container]
  /\ DOMAIN task_remotes \subseteq Remotes
  /\ task_remotes \in [DOMAIN task_remotes -> TaskIds]
  /\ DOMAIN task_ufrags \subseteq Ufrags
  /\ task_ufrags \in [DOMAIN task_ufrags -> TaskIds]
  /\ DOMAIN bus_channels \subseteq Tracks
  /\ bus_channels \in [DOMAIN bus_channels -> [sources: SUBSET TaskIds,
                                               consumers: SUBSET TaskIds]]
  /\ ended_tasks \in Seq(TaskIds)
  /\ to_pop \subseteq DOMAIN tasks
  /\ phase \notin {"pop", "stuck"} => to_pop = {}
  /\ peers \subseteq Remotes

\* The packet tables and the containers say the same thing: a remote or a ufrag
\* is mapped to exactly the task that lists it, and to no task that is gone.  A
\* mapping left behind by a teardown would swallow a returning peer's packets.
RoutesAgree ==
  /\ \A r \in DOMAIN task_remotes :
        task_remotes[r] \in DOMAIN tasks /\ r \in tasks[task_remotes[r]].remotes
  /\ \A i \in DOMAIN tasks : \A r \in tasks[i].remotes :
        r \in DOMAIN task_remotes /\ task_remotes[r] = i
  /\ \A u \in DOMAIN task_ufrags :
        task_ufrags[u] \in DOMAIN tasks /\ tasks[task_ufrags[u]].ufrag = u
  /\ \A i \in DOMAIN tasks :
        tasks[i].ufrag \in DOMAIN task_ufrags /\ task_ufrags[tasks[i].ufrag] = i

\* The bus table and the containers say the same thing about the tasks that
\* exist: a consumer is a task that subscribed, a task that subscribed is a
\* consumer, and a task that published is a source.
MembershipAgrees ==
  /\ \A k \in DOMAIN bus_channels : \A i \in bus_channels[k].consumers :
        i \in DOMAIN tasks /\ k \in tasks[i].sub_channels
  /\ \A i \in DOMAIN tasks : \A k \in tasks[i].sub_channels :
        k \in DOMAIN bus_channels /\ i \in bus_channels[k].consumers
  /\ \A i \in DOMAIN tasks : \A k \in tasks[i].pub_channels :
        k \in DOMAIN bus_channels /\ i \in bus_channels[k].sources

\* A channel nobody uses is removed by the teardown of its last user.
NoEmptyChannel == \A k \in DOMAIN bus_channels : bus_channels[k] # EmptyChannel

\* No event of the bus reaches a task that panics on it ("Should not receive
\* this event."), although the sources of a channel keep ids of tasks that are
\* gone: an id is never given out twice.
NoMisdelivery == \A e \in BusEvents : ~Misdelivered(e)

\* The tasks whose Rtc has reported its end are exactly those that wait for their
\* teardown, revived or not: none is left in the tables for ever, since it would
\* not report its end again, none is torn down while its connection is up, and no
\* id is kept after the teardown.
EndedListed == Range(ended_tasks) = {i \in DOMAIN tasks : tasks[i].ice # "up"}

\* The expectation "Should have a task" of pop_ended_tasks: every id in
\* ended_tasks is a task of this worker, and is there once.
EndedTasksKnown == Range(ended_tasks) \subseteq DOMAIN tasks /\ IsInjective(ended_tasks)

\* A remote is moved from one task to another only through a teardown: a STUN
\* check that names another task's ufrag does not steal a live session.
NoRebind ==
  [][\A r \in DOMAIN task_remotes \cap DOMAIN task_remotes' :
        task_remotes'[r] = task_remotes[r]]_vars

Stopped == phase \in {"panicked", "stuck"}

\* A task that reported TaskEnded is removed, whatever packets still arrive, unless
\* the thread stops.
TeardownCompletes ==
  \A i \in TaskIds : i \in Range(ended_tasks) ~> (i \notin DOMAIN tasks \/ Stopped)

HasConnected(i, k) ==
  i \in DOMAIN tasks /\ tasks[i].connected /\ k \in TracksOf(tasks[i].channel)

OnTheBus(i, k) ==
  /\ k \in DOMAIN bus_channels
  /\ i \in IF tasks[i].kind = "whip" THEN bus_channels[k].sources ELSE bus_channels[k].consumers

\* Once a task has connected, the bus table has it as a source or as a consumer of
\* both its tracks, although pop_action returned None right after queueing them;
\* unless the task goes first or the thread stops.
AnnouncementLands ==
  \A i \in TaskIds, k \in Tracks :
     HasConnected(i, k) ~> (i \notin DOMAIN tasks \/ OnTheBus(i, k) \/ Stopped)

\* pop_ended_tasks removes a channel "if channel.consumers.is_empty() &&
\* channel.sources.is_empty()", also in the loop over the channels the ended task
\* published: so a task that has ended is no source of any channel.
NoStaleSource ==
  \A k \in DOMAIN bus_channels : bus_channels[k].sources \subseteq DOMAIN tasks

\* get_stun_username returns an Option and process_udp drops a packet for which it
\* is None: a packet that belongs to no session does not stop the worker.
SurvivesLateMedia == phase # "panicked"
=============================================================================
