# TLA+ specifications of tiny-media-server

tiny-media-server is a WebRTC media server: browsers publish with WHIP and watch
with WHEP, and worker threads forward the media. This directory holds
specifications of its concurrent core, the TLC configurations that check them
on small instances, and proofs, checked by TLAPS, of what holds on every
instance. Paths are relative to the repository root.

Contents: [the system](#the-system), [the modules](#the-modules),
[how the code is read](#how-state-and-actions-correspond-to-the-code),
[the runs](#the-runs), [bounds](#bounds), [fairness](#fairness),
[proofs](#proofs), [findings](#findings), [assumptions](#assumptions-about-what-is-not-in-src),
[what is missing](#what-is-not-modelled), [plan](#plan).

## The system

```
 HTTP clients          main thread                worker thread 0..n-1          peers
 POST offer  --->  tiny_http, reqs map            process_cycle                UDP
                     |          ^                   |  tasks, routing tables <------->  UDP socket
               Controller::input|pop_action         |                           (io_uring / sendmmsg / plain)
                     v          |                   v
              one bounded channel per worker     Mutex<bus::Bus> (one ring of 1000 events,
              one bounded channel back            every worker writes and reads it)
```

| Component | State | Operations | What is hard | What makes it correct |
|---|---|---|---|---|
| Worker (`src/worker.rs`) | `tasks`, `task_remotes`, `task_ufrags`, `bus_channels`, `ended_tasks`, id seed | `process_cycle`: bus, http, tick, pop, ended, udp | four copies of one relation changed in six phases; tasks that end while packets for them arrive; ids in the bus table of tasks that are gone | tables agree with the tasks; no event reaches a task that panics on it; ended tasks go; announcements arrive |
| Media bus (`src/controller.rs`, `src/worker.rs:213-243,351-359`) | the ring, a reader per worker, the mutex | `broadcast`, `try_recv`, `add_rx`, drop of a reader | bounded; a writer waits for all readers, its own included, with the mutex held; threads start and die | events in order, once; nothing overwritten; broadcasts return |
| Controller and HTTP front end (`src/controller.rs`, `src/main.rs`) | `reqs`, `req_id`, round-robin counter, request and response channels | `input`, `pop_action`, `drop`, loop of `main`, `process_http` | responses may overtake the insertion of their request; full channels; panicking workers and main | each request in one place; answered once or known to be lost |
| io_uring socket (`src/net/socket2_io_uring.rs`) | send and receive buffers, free lists, ring | `prepare`, `add_send_to`, `commit_send_to`, `recv_from`, `finish_read_from` | buffers shared with the kernel; a send completes twice, a receive many times; ring at its limit | no buffer in two hands; packets intact and in order; every packet read |
| sendmmsg socket (`src/net/socket2_mmsg.rs`) | send queue | the same interface | partial and failed sends, a queue that fills up within a cycle | packets leave once and in order; the promise of a UDP socket |
| plain socket (`src/net/socket2.rs`) | - | the same interface | - | - |
| Whip and Whep tasks (`src/tasks/`) | an `Rtc` (str0m), its queued outputs, timeout, mids | `tick`, `input`, `pop_action` | the Rtc must be polled dry before the next packet; the cached timeout decides whether it is polled at all; events that end a poll early | what the Rtc reports reaches the worker, announcements first; what it is given is sent; its timers run |
| `src/http.rs`, `src/io.rs` | - | header lookup, message types | - | - |
| browser demo (`public`) | - | prebuilt client | - | - |

How they interact: `main` hands requests to the workers through bounded
crossbeam channels and takes responses from one shared channel. A worker creates
a task per offer, finds the task of a UDP packet by remote address or, for the
first STUN packet, by ICE user fragment, and lets each task produce outputs:
UDP packets, the HTTP response, bus events, and its end. Bus events are read
by every worker at the start of its cycle and given to its own tasks that
publish or subscribe the track.

`PROJECT.json` lists the hazards of this code, each at its line, with the
properties that cover it or the reason why none does yet.

## The modules

| Module | Models | Composed with |
|---|---|---|
| `Worker.tla` | one worker thread: tables, tasks as far as the tables depend on them, the six phases of a cycle, panics | bus and sockets are free inputs |
| `WorkerProofs.tla` | theorems about `Worker` | extends `Worker`, `TLAPS` |
| `MediaBus.tla` | all worker threads, mutex and ring, with the tables reduced to who is on one track | the complement of `Worker`: there the bus is free, here the tables are small |
| `MCMediaBus.tla` | where the tasks live, for TLC | extends `MediaBus` |
| `MediaBusProofs.tla` | theorems about `MediaBus` | extends `MediaBus`, `SelectionProofs` |
| `MediaFlow.tla` | abstract: one stream of events, each task handed its part of it without a gap | `MediaBus` implements it (`F == INSTANCE MediaFlow WITH ...`) |
| `WebrtcTask.tla` | one Whip or Whep task between the worker's cycle and its Rtc: timeout, output queue, polling | the complement of `Worker` for one task: there what an Rtc reports is free, here it is followed into the worker; `AnnouncedFirst` is what `Worker` assumes when it queues announcements before anything else |
| `WebrtcTaskProofs.tla` | theorems about `WebrtcTask` | extends `WebrtcTask`, `TLAPS` |
| `HttpBridge.tla` | main, Controller, channels, `process_http`, panics and drop | main and workers interleaved |
| `HttpBridgeProofs.tla` | theorems about `HttpBridge` | extends `HttpBridge`, `SequenceLemmas` |
| `UdpSocket.tla` | abstract: what a worker may expect of `UdpSocketGeneric` | target of the refinement |
| `IoUringSocket.tla` | the io_uring socket and the kernel beside it | implements `UdpSocket` (`U == INSTANCE UdpSocket WITH ...`) |
| `IoUringSocketProofs.tla` | theorems about `IoUringSocket` | extends `IoUringSocket`, `SelectionProofs` |
| `MmsgSocket.tla` | the sendmmsg socket, with calls that fail or fall short | implements `UdpSocket` |
| `MmsgSocketProofs.tla` | theorems about `MmsgSocket` | extends `MmsgSocket`, `SequenceLemmas` |
| `Selections.tla` | `Select(s, S)`, the elements of a sequence that are in a set: what `MediaBus` and `IoUringSocket` say of a stream and of the completion queue | used by both |
| `SelectionProofs.tla` | what `Select` does to an element appended or taken away, and to a test that changes | extends `Selections`, `SequenceLemmas` |
| `SequenceLemmas.tla` | ranges, injectivity and concatenation of sequences, which the other proofs share | - |

Operators whose comment begins with "Mutant" stand for plausible mistakes in the
code. They are used by no specification: putting one in the place of the
definition it follows must make a property fail, which shows that the property
depends on that piece of code. `PROJECT.json` names the pairs.

## How state and actions correspond to the code

The line ranges of every definition are in `PROJECT.json` under `map`.

**Worker.** Variables carry the names of the fields of `Worker`; `phase` is the
program counter of `process_cycle`, `to_pop` the rest of the iteration in
`pop_tasks`, `peers` the remotes that have ever passed an ICE check. One
action is one iteration of a loop (a bus event, a request, a task popped, a
packet), because nothing of another thread touches these tables. `pop_task`
itself is one step: it drains the outputs of one task, applying each to the
tables. A track announcement queued when the Rtc reports Connected stays in
`outputs` until the *next* `pop_task`, as in the code, where `pop_action`
returns `None` right after queueing. The Vecs of a bus channel are sets, since
each task announces a track once. Media, SDP, addresses and ufrags are model
values; a packet is STUN with some ufrag, or not STUN. The panics of the
thread that depend on these tables are modelled: an offer that does not
parse, `ended_tasks` with an id twice, anything but STUN from an unmapped remote
(`UdpNotStun`: from anyone, or with `Strays = FALSE` only from a peer of an
earlier session), a bus event of the wrong kind (`Misdelivered`). `Hang` is a
call that never returns: the broadcasts of `pop_task` (`src/worker.rs:352`, `:356`)
and the 404 of `process_http` (`:198`) wait for other threads. `Stall` says that such a wait may
also be long and end, so that a connection expires meanwhile.

**MediaBus.** `pc` splits a cycle where other threads can interfere: the
receive loop, the rest of the cycle, waiting for the mutex, broadcasting.
`sent` is every event ever broadcast and `cursor` each reader's position, so
the ring's content is `sent` from the slowest cursor on and the ring is full
for a writer when some backlog reaches `BusSize`. What a reader reads is what is in the slot (`InSlot`): a writer that did
not wait would be seen as an event that is skipped. `since` and `received` are
histories of what each task was handed; they are all that `MediaFlow` sees beside
`sent` and `status`, so that the refinement hides workers, mutex and ring.

**WebrtcTask.** `kind` is the variant of `ComposeTask`. A phase is a place in
`process_cycle` at which the task is called; `"react"` is the `pop_task` that
`process_udp` makes after each packet. One action is one call of `tick` or
`input`, or one round of the loop of `pop_task`, whose result is `output`: `None` is
split into "idle" (the Rtc is not to be polled, or has nothing more) and
"swallowed" (an event for which `pop_action` returns `None`). A `timeout` of
`Some(t)` is "later" or "now", by whether `t` has come; `Elapse` is the
passing of time, and may happen between any two calls. The Rtc is a set of events
noticed and not reported, the one slot of an RTP packet, datagrams ready to be polled, what
it holds back until it is fed again, and the time it wants to be fed at. In what
order `poll_output` reports is left open; only `Output::Timeout` comes last.
Audio and video differ in nothing but their ids, so one stream is followed.

**HttpBridge.** `main`'s program counter separates `Controller::input` from
`reqs.insert`, the window in which a worker may answer first. Requests that main
answers itself (`static`) are not counted: any number may come. A response is
the id of its request. `lost` records each place where the code drops a request
or a response: `try_send` to a full or dead worker, a full response channel, a
worker that dies with requests in its channel. A worker dies of a bad offer (`Crash`) or of
any of its other panics (`Die`), and may be kept from its requests by a broadcast,
for a while or for ever (`Broadcast`, `BroadcastReturns`). What makes main panic is
one kind of request, "broken": at once (`Panic`) or when its answer is written (`Respond`).

**MmsgSocket.** `queue_len` and `bufs` are the fields; addresses travel with the
contents. A call of `sendmmsg` sends the first `n` queued packets and fails if
there are some and `n` is 0. `AddSendToFull` is `add_send_to` with the commit it
makes when all slots are taken. `short` remembers whether a call has left packets behind.

**IoUringSocket.** `provided`, `armed` and `sending` are the kernel's side: the
free buffers of each group, the multishot receives that have not ended, and
what the kernel does with each send buffer (issued, queued, sent). `sq` holds
pushed sends that are not submitted, `cq` the completions not polled. Contents
are numbers, so that a buffer overwritten while somebody still needs it shows.
`phase` orders the calls as `process_cycle` does. `poll_completions` is part
of each call that makes it. In this order of calls `read_wait_queue` is
always empty when `finish_read_from` looks at it, since `process_udp` reads
until it is.

## The runs

| Run | Module / cfg | Asks | Result |
|---|---|---|---|
| `worker` | `Worker` / `Worker.cfg` | Do the tables agree with the tasks after any sequence of requests, packets, bus events and teardowns (`RoutesAgree`, `MembershipAgrees`, `NoEmptyChannel`), does no bus event reach a task that panics on it (`NoMisdelivery`), does no packet move a live session's remote (`NoRebind`), are the tasks that ended the ones listed for teardown (`EndedListed`)? Unless the thread stops: is every ended task removed (`TeardownCompletes`), does the bus table get every connected task (`AnnouncementLands`)? | hold, 305,656 states |
| `worker_stale_source` | `Worker` / `WorkerStaleSource.cfg` | Does a teardown take a publisher out of its channels? | violated, see findings |
| `worker_late_media` | `Worker` / `WorkerLateMedia.cfg` | Does a worker survive a packet of a session that is gone? | violated, see findings |
| `worker_ended_twice` | `Worker` / `WorkerEndedTwice.cfg` | Is a task that ended there once when its teardown looks for it, also on a thread that is stalled? | violated, see findings |
| `bus` | `MCMediaBus` / `MCMediaBus.cfg` | At any load, with threads that start and die: is each task handed exactly its events, in order (`HandedInOrder`), is what tasks see one stream without gaps, whatever the ring overwrites (`ImplementsMediaFlow`)? Does every broadcast return (`OnlyDeadlockBlocks`) and every task catch up (`CatchesUp`), unless a thread with a full backlog is itself waiting to write? | hold, 225,219 states |
| `bus_stuck` | `MCMediaBus` / `MCMediaBusStuck.cfg` | Does every broadcast return? | violated, see findings |
| `http` | `HttpBridge` / `HttpBridge.cfg` | Is every unanswered request in exactly one place (`OnePlace`), does main's `expect("Should have a request.")` hold (`ExpectHolds`), is every request answered or known to be lost, except behind a broadcast that never returns and while main is given nothing but static requests for ever (`EveryRequestResolved`)? | hold, 148,688 states |
| `http_drop` | `HttpBridge` / `HttpBridgeDrop.cfg` | Does the drop of the controller end? | violated, see findings |
| `io_uring` | `IoUringSocket` / `IoUringSocket.cfg` | Is no buffer in two hands (`ReadBuffersOwned`, `SendBuffersOwned`), has the ring room for each push (`RingHasRoom`), is `process_udp` bounded (`CycleBounded`), is it a UDP socket (`ImplementsUdpSocket`), is each packet read and each group armed again (`ArrivedAreRead`, `GroupsReturn`)? | hold, 175,168 states |
| `webrtc_task` | `WebrtcTask` / `WebrtcTask.cfg` | When is a received packet overwritten before it is polled (`LossExplained`)? Do announcements come first (`AnnouncedFirst`), does the cached timeout agree with the Rtc (`TimeoutAgrees`), is what a task is given sent (`GivenIsSent`), do the Rtc's timers run (`TimersRun`), does the end of a connection and a received packet get through (`EventsReported`)? | hold, 12,602 states |
| `webrtc_overwrite` | `WebrtcTask` / `WebrtcTaskOverwrite.cfg` | Does the `pop_task` after each packet keep packets from being lost in the Rtc? | violated, see findings |
| `mmsg` | `MmsgSocket` / `MmsgSocket.cfg` | With calls that fail or fall short: do packets leave once, in order, and all of them if no call falls short (`OrderKept`), is it a UDP socket (`ImplementsUdpSocket`), does no packet stay (`QueuedLeave`)? | hold, 55,116 states |

`TypeOK` of each module is checked along with its first passing run.

What three of these answers say about the code:

- The comment at `src/worker.rs:291` wants `pop_task` after each packet so that no packet
  is overwritten in the Rtc. `LossExplained` is what remains true: a packet is
  overwritten only if that `pop_task` was cut short, because `pop_action` returns `None`
  for Connected, MediaAdded and every event it does not care about, and the next
  packet for the task comes in the same `process_udp`. Run `webrtc_overwrite`
  shows the exception: an event without output is polled before the packet.
- `GivenIsSent` and `TimersRun` hold for a viewer only if again and again there is a cycle in which
  it is sent no media (`Unfed`). Media clears the timeout (`src/tasks/whep.rs:153`) in
  `process_bus_recv`, before `process_tick` looks at it, so that media in every
  cycle keeps the task from ever feeding the time to its Rtc. Without the premise TLC
  shows this behaviour. A publisher has no such input, and needs no premise.
- A keyframe request leaves the cached timeout of a publisher as it is
  (`src/tasks/whip.rs:126`). `TimeoutAgrees` says that this is the only case in which the
  cache is later than the Rtc wants, and `GivenIsSent` that the request goes out nevertheless.

Run one with `tlc -config Worker.cfg Worker.tla`, check the proofs of a module with
`tlapm WorkerProofs.tla`, and so for each module whose name ends in `Proofs` and for `SequenceLemmas`.

## Bounds

Each is a CONSTANT that a guard names.

- `Worker`: one channel (two tracks), two remotes, two ufrags, three tasks
  (`MaxTasks`). Two tasks are enough for any two-task interference (publisher
  and subscriber, old and new session of a peer); the third gives a session that starts
  after a teardown beside a live one, with a ufrag used again. Remotes and ufrags
  are interchangeable, and nothing distinguishes more of them. The thread may be stalled and
  anyone may send packets in `worker`; the violating runs need neither strays nor more than one
  peer. The theorems do not depend on any of these values.
- `MediaBus`: two workers, one publisher, one viewer beside it and one on the
  other worker: own reader, other reader, and a thread without a publisher.
  Two slots and three events (`MaxEvents`) make the ring fill, wrap and, at the third event,
  hold a writer up; threads may deadlock and need not. One track, since tracks share nothing but the ring.
- `HttpBridge`: two workers, so that turns, a dead and a live worker meet; channels of
  two and one slots, so that five requests (`MaxReqs`) overflow both.
- `HttpBridge` counts the requests that reach a worker, and no others.
- `WebrtcTask`: one task, of either kind, and three events of no interest (`MaxOther`): each
  may cut one poll short, so that polls are cut short up to five times, twice in
  a row by Connected and MediaAdded. Datagrams, media, keyframe requests and the passing of
  time are not bounded. Packets are numbered modulo two, which tells one from the next.
- `MmsgSocket`: three slots and seven packets sent, so that the queue fills twice and a
  call falls short at every place; two packets arrive.
- `IoUringSocket`: one send buffer used by three sends (`MaxSends`), two groups of
  one receive buffer and three packets (`MaxPackets`): both groups are exhausted, a
  buffer is used again, and one cycle could read more packets than there are buffers
  if groups were armed during it. `GroupsAssumption` asks for two groups at least: `RingHasRoom` needs
  them. The server uses 128, the tests of the repository one, so the theorems do not speak of that configuration.

Deadlock is checked only in `io_uring` and `mmsg`: the other instances stop when their
bounds are used up, when the thread has panicked or the task is gone, or where a finding says so.

## Fairness

- `Worker`: weak fairness on `Cycle`, the steps that leave a loop, pop a task or run into the `expect` of a
  teardown. This does not say that these calls return: a broadcast (`src/worker.rs:352`, `:356`) waits for readers and a 404
  (`:198`) for main, and `Hang` may happen instead at any of them, after which nothing is promised (`Stopped`). Each
  loop ends when its input runs dry: bus and HTTP channel hold bounded backlogs, and `CycleBounded` of
  `IoUringSocket` bounds `process_udp`. The other two sockets do not bound
  it; there the assumption is that peers do not send faster than the worker reads.
  Nothing is assumed of peers, requests or the Rtc.
- `MediaBus`: weak fairness on each thread; the operating system schedules it. A
  mutex with finitely many events in an instance is handed over under weak fairness.
- `HttpBridge`: weak fairness on the steps main takes without a client, strong fairness on what each worker does with
  requests: a worker that is not in a broadcast for ever comes to `process_http` in each of its cycles. No broadcast
  is assumed to return. Clients need not do anything. `recv_timeout` gives main a pause only when no request comes:
  static requests in an unbroken row may keep main from the responses. `EveryRequestResolved` names the two cases
  in which a request waits for ever without being lost: `OnlyStatic`, and `StuckWith`, a request in the channel of a worker
  whose broadcast does not return.
- `WebrtcTask`: weak fairness on `tick` and the rounds of `pop_task`, and on time; weak fairness on
  leaving `process_bus_recv` and strong fairness on leaving `process_udp`, which is left only
  between packets: both loops end, for the reasons given for `Worker`. No packet, media
  or request has to come.
- `MmsgSocket`: weak fairness on the cycle. `process_udp` reads until this socket is empty, and
  what arrives in an instance is finite; the code has no other bound here.
- `IoUringSocket`: weak fairness on the cycle and on the kernel taking packets and
  processing sends. The submit of a commit may fail every time; liveness is claimed
  only for what does not depend on it.

## Proofs

`WorkerProofs.tla` proves, for all values of the constants of `Worker`, without
bounds on peers, channels or tasks:

| Theorem | Statement |
|---|---|
| `TypeCorrect` | `Spec => []TypeOK` |
| `Routing` | `Spec => []RoutesAgree` |
| `Rebinding` | `Spec => NoRebind` |
| `Membership` | `Spec => []MembershipAgrees` |
| `ChannelsInUse` | `Spec => []NoEmptyChannel` |
| `Delivery` | `Spec => []NoMisdelivery` |
| `EndedTasks` | `Spec => []EndedListed` |

The proofs use the named assumptions of the module (`MaxTasks \in Nat`,
`NotStun \notin Ufrags`, ...) and nothing else. The argument:

- `TypeOK` is inductive because it also says that ids in use are below the
  seed, and that `to_pop` holds live tasks in phase "pop" only. The id of a new task is
  therefore fresh.
- `RoutesAgree` is inductive relative to `TypeOK`: it maps both ways, so that a
  teardown that removes the remotes a task lists removes all entries that point at it.
- `MembershipAgrees` alone is not inductive. `BusTable` adds `NoEmptyChannel` and
  `KindsAgree`: of the ids in a channel that are still tasks, the sources are Whip
  tasks and the consumers are Whep tasks. Stale ids of ended publishers do stay in
  `sources`; they are harmless exactly because the seed never returns to them,
  and this is how `Delivery` follows.
- `EndedListed` is inductive relative to `TypeOK`, since it is an equality: a report of the end adds the id on
  one side and takes the Rtc out of "up" on the other; a STUN check revives a connection but does not make
  it "up" again; a teardown empties both sides. The theorem holds for stalled threads too. What does
  not follow from it is that an id is in the list *once*: that fails, see the findings.

`WebrtcTaskProofs.tla` proves, for both kinds of task and any number of events of no interest:

| Theorem | Statement |
|---|---|
| `TaskTypes` | `Spec => []TypeOK` |
| `Deadlines` | `Spec => []TimeoutAgrees` |
| `Losses` | `Spec => LossExplained` |
| `AnnouncementsFirst` | `Spec => []AnnouncedFirst` |

They use `MaxOtherAssumption` and what the module says of the Rtc, and nothing else. The argument:

- `TimeoutAgrees` is inductive as it stands: the cached time is set to the one the Rtc has just named,
  both come together, and every input that moves the time of the Rtc clears the cache, except the
  keyframe request.
- `LossExplained` needs `PacketInv`: while a packet waits in the Rtc there is no cached timeout, so
  that only an event can end a poll before the packet has been polled; and where `process_udp` reads on
  with a packet waiting, an event has.
- `AnnouncedFirst` needs `Stage`, the five places the output queue can be in, each with what has
  been announced and whether the Rtc has its keys, and `KeysInv`: packets and keyframe requests
  exist only with keys. Keys come with the poll of Connected, which queues the announcements, and the
  queue goes before the next poll.

`MediaBusProofs.tla` proves, for any number of threads, tasks and events, a ring of any size,
and tasks living anywhere:

| Theorem | Statement |
|---|---|
| `BusTypes` | `Spec => []TypeOK` |
| `Flow` | `Spec => ImplementsMediaFlow` |
| `InOrder` | `Spec => []HandedInOrder` |

The argument:

- `TypeOK` carries mutual exclusion: the thread in "send" is the one that holds the mutex.
- `RingInv`: no reader is more than a ring behind, since a broadcast waits for every reader and a
  new reader starts at the end. So what is in the slot of a reader's cursor is the next event of the
  stream, and this is the only thing the proof of `Flow` needs to know of the ring.
- `TaskInv`: of what its thread has read, a task has seen the last event that is for it. Hence what a
  `Receive` hands over is the least event the task is due, which is the step `Hand` of `MediaFlow`; a thread that dies is `Leave`.
- `HandedInOrder` is the same statement about the whole history instead of its last event. Its proof needs
  that selecting from a longer stream leaves the selection of the shorter one as it was (`SelectionProofs`).

`HttpBridgeProofs.tla` proves, for any number of workers and requests and channels of any capacity:

| Theorem | Statement |
|---|---|
| `BridgeTypes` | `Spec => []TypeOK` |
| `OneAnswer` | `Spec => []OnePlace` |
| `Expected` | `Spec => []ExpectHolds` |

The argument: `OnePlace` counts places, which is hard to follow through a step. `PlaceInv` says it with sets: the
ids in the inboxes, at blocked workers, in the response channel and lost are disjoint, none comes twice in any
of them, and together they are `Live`, the requests main remembers and the one it has handed over and is about to insert.
Each step moves one id from one set to another. The id between `Controller::input` and
`reqs.insert` is what makes `ExpectHolds` more than an immediate consequence: main never drains with it.

`MmsgSocketProofs.tla` proves, for any number of slots and packets:

| Theorem | Statement |
|---|---|
| `MmsgTypes` | `Spec => []TypeOK` |
| `InOrder` | `Spec => []OrderKept` |
| `Mmsg` | `Spec => ImplementsUdpSocket` |

The argument: the wire followed by the queue is increasing and below the number of accepted packets (`SocketInv`).
A call that falls short takes a part out of the middle of it, which leaves it increasing; a call that does not moves
the border between the two. That no accepted packet is on the wire or in the queue already, the guard of `Output`, follows.

`IoUringSocketProofs.tla` proves, for any number of send buffers, any two or more groups of any
size, and any number of packets:

| Theorem | Statement |
|---|---|
| `IoUringTypes` | `Spec => []TypeOK` |
| `ReadBuffers` | `Spec => []ReadBuffersOwned` |
| `SendBuffers` | `Spec => []SendBuffersOwned` |
| `RingRoom` | `Spec => []RingHasRoom` |
| `CycleEnds` | `Spec => []CycleBounded` |
| `IoUring` | `Spec => ImplementsUdpSocket` |

The argument:

- `ReadBuffersOwned` is not inductive. A group is armed again, with all its buffers, once nothing is left to
  read; a packet of the group that had not been polled then would be read from a buffer that the kernel
  fills. `PolledFirst` excludes it: the end of a receive is polled after its packets, so that a group that waits in the queue has no
  packet still to be polled. This is where the order of completions is used.
- `SendBuffersOwned` is inductive with `TypeOK`, in the form `Owned`: the free buffers and those in the ring, both without
  repetition and disjoint, are the ones the kernel does not have. A completion that has been posted counts as free, polled or
  not, which is why the last of the two completions is the one that may give the buffer back.
- `RingRoom` follows from it by counting: each entry of the ring has a send buffer, and the
  entries for the largest rearming, a group and its receive, fit into the part of the receive buffers if there are two groups
  (`GroupsAssumption`; the server uses 128).
- `CycleBounded` needs `CycleInv`: packets read in this cycle, the buffer lent to the worker, those waiting to be read and
  those the kernel may fill are together no more than all buffers. No step of `process_udp` adds to this sum, as groups are armed after it.
- `IoUring` needs `ContentInv`: the send buffers in use hold different packets, all accepted, so that
  taking one out of the set of contents is taking it out of the ring or the kernel. On the other side, reading
  and polling leave the sequence of packets as it is, and the buffers the kernel fills are in nobody's hand (`ReadBuffersOwned`).

`Select` is a recursive function and the proofs need facts about it for every sequence. These are shown by the
least element of the set of lengths at which the fact fails (`SelectionProofs`), not by an
induction theorem with an operator as its parameter.

Every invariant, action property and refinement of the passing runs is thus also a theorem. Only
model-checked is liveness (`TeardownCompletes`, `AnnouncementLands`, `OnlyDeadlockBlocks`, `CatchesUp`,
`EveryRequestResolved`, `ArrivedAreRead`, `GroupsReturn`, `GivenIsSent`, `TimersRun`, `EventsReported`,
`QueuedLeave`): the prover has no support for fairness and ENABLED. Both refinements are of
specifications without fairness. No module uses RECURSIVE operators.

## Findings

1. **Stale sources** (`worker_stale_source`). `src/worker.rs:409` removes an ended
   publisher from `channel.consumers` instead of `channel.sources`. Its id stays
   for ever and the channel is never removed; the table and the walk of each
   keyframe request grow with every publisher. `NoMisdelivery` shows that nothing
   worse happens, as ids are never used again.
2. **Late media** (`worker_late_media`). `src/worker.rs:308` unwraps the decoding of any
   packet from an unmapped remote. DTLS or RTP still in flight when its session is
   torn down panics the thread and takes all its tasks with it, although the
   caller is written for `None`.
3. **Ended twice** (`worker_ended_twice`). A task that has reported its end is fed until its teardown, so a STUN
   check of its peer can revive the connection. If the thread is then held up until ICE expires again, by a broadcast
   that waits for a slow reader or a 404 that waits for main, the next tick and pop report the end a second time
   before `pop_ended_tasks` has run. The second `remove` finds nothing and
   `expect("Should have a task")` (`src/worker.rs:394`) takes all tasks of the worker down.
4. **Overwritten packet** (`webrtc_overwrite`). `src/worker.rs:291` explains the `pop_task` after each packet: without it
   packets would be lost in the Rtc. But `pop_action` returns `None` for every event it swallows (`src/tasks/whip.rs:180`), which ends
   that `pop_task`; a packet behind the event stays in the Rtc's one slot and the next packet of the same
   `process_udp` overwrites it. `LossExplained` shows that this is the only way.
5. **Bus** (`bus_stuck`). `broadcast` blocks until all readers have room, holding
   the mutex, in the middle of a cycle; a worker reads only at the start of one. When a
   backlog fills the ring the worker waits for itself, or for a worker that
   waits for the mutex, and all forwarding stops. `README.md` describes a
   channel between workers and a design without blocking on I/O. `OnlyDeadlockBlocks` shows that
   this is the only cause: a full ring whose slow readers do not write, or die, holds nobody up for ever.
6. **Drop** (`http_drop`). `Controller::drop` joins threads whose loop has no end, so
   a main that panics neither serves nor exits.

Each is a run with expectation "violation", whose trace shows the steps.

## Assumptions about what is not in src

- str0m: Connected is reported once per Rtc and only after a packet; Disconnected is
  reported when checks stop, and again only if a STUN packet revived the
  connection and it then expires (`MayExpire`, `AfterInput`). Ufrags of live tasks are distinct.
- str0m, as `WebrtcTask` uses it: `poll_output` answers with a timeout only when it has nothing else
  to say, and with a time that comes; the Rtc has one slot for a received packet; SRTP keys come with
  Connected; what it is given to send leaves at the latest when it is fed after that;
  Connected, MediaAdded and Disconnected are reported once (a revived connection is in `Worker`); a
  stream exists when its mid is known. An error of `poll_output` is an event of no interest, and
  an error of `handle_input` is left out.
- `sendmmsg` sends a prefix and fails only if it sends nothing.
- `track_id_builder` hashes channel and kind to 64 bits; two tracks are taken to differ.
- `bus::Bus`: `broadcast` waits for the slowest reader; a dropped reader is no longer
  waited for; a new reader starts at the current end.
- `std::thread`: a panic unwinds, dropping the worker, its channel ends and its reader.
- io_uring: completions of one receive are posted in order; a multishot receive ends when
  its group has no buffer left and for no other reason (the completion ring cannot
  overflow: it has room for two completions per send, one per buffer and per group); the
  buffer of a zero-copy send is not read after its last completion; entries are submitted
  all or none, and the submit of `prepare_read` succeeds.

## What is not modelled

- SDP, ICE, DTLS, RTP contents and the Rtc itself (external), and payload lengths.
- The plain socket: each call is one system call and it has no state of its own.
- The `expect`s that depend on str0m alone: `src/tasks/whip.rs:118` (a datagram that is none of
  the protocols) and `:133` (a stream that does not exist although its mid is known).
- Both media streams of a task at once, and both tracks on one bus: neither shares anything with the other
  but the queues that are modelled.
- The startup of `main` (arguments, addresses), logging, static files, the browser demo,
  build files.

## Plan

Done: `Worker` (the core: it decides where every packet goes), its proofs,
`MediaBus` and `HttpBridge` (the two places where threads meet), `IoUringSocket` against
`UdpSocket`. Then `WebrtcTask` (between the worker and str0m), `MmsgSocket`, and `MediaFlow` as the
promise `MediaBus` keeps; the proofs about `WebrtcTask`; and the proofs about `MediaBus`, `HttpBridge` and
both sockets, refinements included.

Next, in this order:

1. A keyframe request followed from a viewer through the bus to the PLI of its publisher, as a composition
   of `WebrtcTask` and `MediaBus`, with the safety part proved from the theorems of the two.
2. `Worker` as an implementation of an abstract table of sessions (a remote belongs to one
   session at a time), with `RoutesAgree` as the core of the refinement.
