----------------------------- MODULE WebrtcTask -----------------------------
(***************************************************************************)
(* One task of a worker (src/tasks/whip.rs, src/tasks/whep.rs) between the *)
(* cycle that drives it (src/worker.rs) and its Rtc (str0m, external).     *)
(*                                                                         *)
(* An Rtc does no I/O: it is fed with handle_input and the calls of its    *)
(* direct API, and asked with poll_output what has come of it, until it    *)
(* answers with the time at which it wants to be fed again.  The task      *)
(* remembers that time in `timeout` and does not poll before it; what      *)
(* makes the Rtc work clears it.  Where Worker takes what a task reports   *)
(* as given, this module is about whether it gets reported at all.         *)
(*                                                                         *)
(*   "http"  the pop_task that follows the creation of the task            *)
(*   "bus"   process_bus_recv: media, or requests for a keyframe           *)
(*   "tick"  process_tick                                                  *)
(*   "pop"   pop_task called by pop_tasks                                  *)
(*   "udp"   process_udp, and "react": the pop_task after each packet      *)
(*   "gone"  pop_ended_tasks has removed the task                          *)
(*                                                                         *)
(* Time is not counted.  Of each deadline the model knows whether it is    *)
(* still to come ("later") or has come ("now").  One video stream stands   *)
(* for the two streams of a session: audio has a mid and a track of its    *)
(* own and differs in nothing else.                                        *)
(***************************************************************************)
EXTENDS Naturals, Sequences, FiniteSets

CONSTANTS
  Kinds,    \* which of "whip" and "whep" are considered
  MaxOther  \* bound: events of the Rtc that the task does not care about

ASSUME KindsAssumption    == Kinds \subseteq {"whip", "whep"}
ASSUME MaxOtherAssumption == MaxOther \in Nat

VARIABLES
  kind,       \* ComposeTask::Whip or ComposeTask::Whep
  outputs,    \* what is to be handed to the worker before the Rtc is polled
  timeout,    \* Option<Instant>
  video_mid,  \* is the mid of the stream known?
  phase,      \* where the thread is
  output,     \* what pop_action has returned last; "idle" and "swallowed" are None
  announced,  \* what the task has handed to the worker of its outputs
  ended,      \* is the task in ended_tasks?
  fed,        \* has media been written to the Rtc in this cycle?
  fresh,      \* Rtc: what it reports once and has not yet noticed
  events,     \* Rtc: what it has noticed and not reported
  others,     \* Rtc: how many more events of no interest there are
  packet,     \* Rtc: the RTP packet to be polled, by its number modulo two, or 0
  held,       \* Rtc: what it turns into datagrams when it is fed next
  ready,      \* Rtc: datagrams to be polled
  timer       \* Rtc: the time at which it wants to be fed

rtc  == <<fresh, events, others, packet, held, ready, timer>>
task == <<kind, outputs, timeout, video_mid>>
seen == <<output, announced, ended, fed>>

vars == <<task, phase, seen, rtc>>

\* What follows the response to the offer: PublishTrack or SubscribeTrack.
Tracks == <<"audio", "video">>

Init ==
  /\ kind \in Kinds
  /\ outputs = <<"response">>
  /\ timeout = "none"
  /\ video_mid = FALSE
  /\ phase = "http"
  /\ output = "idle"
  /\ announced = {}
  /\ ended = FALSE
  /\ fed = FALSE
  /\ fresh = {"connected", "media_added", "disconnected"}
  /\ events = {}
  /\ others = MaxOther
  /\ packet = 0
  /\ held = {}
  /\ ready = {}
  /\ timer = "now"

-----------------------------------------------------------------------------
(* The Rtc.                                                                 *)

\* Media and requests are encrypted with keys that it has when Connected is polled.
Keyed == "connected" \notin fresh \cup events

Notices ==
  fresh \cup {e \in {"other"} : others > 0}
        \cup {e \in {"keyframe"} : kind = "whep" /\ Keyed}

\* handle_input: at most one new event.  Whatever it held back becomes datagrams,
\* possibly with some of its own (ICE, DTLS, RTCP).
HandleInput(news) ==
  /\ news \subseteq Notices
  /\ Cardinality(news) <= 1
  /\ events' = events \cup news
  /\ fresh' = fresh \ news
  /\ others' = IF "other" \in news THEN others - 1 ELSE others
  /\ \E own \in SUBSET {"own"} : ready' = ready \cup held \cup own
  /\ held' = {}
  /\ timer' = "later"

\* A call of the direct API: the Rtc has a datagram at once, or holds it back and
\* may want to be fed earlier for it.
Accept(x) ==
  /\ \/ ready' = ready \cup {x} /\ UNCHANGED <<held, timer>>
     \/ held' = held \cup {x} /\ timer' \in {timer, "now"} /\ UNCHANGED ready
  /\ UNCHANGED <<fresh, events, others, packet>>

\* Time passes.
Elapse ==
  /\ "later" \in {timer, timeout}
  /\ timer' = "now"
  /\ timeout' = IF timeout = "later" THEN "now" ELSE timeout
  /\ UNCHANGED <<kind, outputs, video_mid, phase, seen,
                 fresh, events, others, packet, held, ready>>

-----------------------------------------------------------------------------
(* tick and input.                                                          *)

\* Mutant: the deadline is cleared but the Rtc is not told.
TickForgetting ==
  /\ phase = "tick"
  /\ phase' = "pop"
  /\ timeout' = IF timeout = "now" THEN "none" ELSE timeout
  /\ UNCHANGED <<kind, outputs, video_mid, seen, rtc>>

Tick ==
  /\ phase = "tick"
  /\ phase' = "pop"
  /\ IF timeout = "now"
     THEN /\ \E news \in SUBSET {"disconnected", "other"} : HandleInput(news)
          /\ timeout' = "none"
          /\ UNCHANGED packet
     ELSE UNCHANGED <<timeout, rtc>>
  /\ UNCHANGED <<kind, outputs, video_mid, seen>>

\* Mutant: written media does not clear the timeout.
InputMediaKeeping ==
  /\ phase = "bus"
  /\ kind = "whep"
  /\ "video" \in announced
  /\ video_mid
  /\ Accept("rtp")
  /\ fed' = TRUE
  /\ UNCHANGED <<task, phase, output, announced, ended>>

\* TrackMedia for a viewer.  Without a mid it is dropped.
InputMedia ==
  /\ phase = "bus"
  /\ kind = "whep"
  /\ "video" \in announced
  /\ video_mid
  /\ Accept("rtp")
  /\ timeout' = "none"
  /\ fed' = TRUE
  /\ UNCHANGED <<kind, outputs, video_mid, phase, output, announced, ended>>

\* RequestKeyframeTrack for a publisher: the timeout stays.  Without a mid it is
\* dropped.
InputKeyframeRequest ==
  /\ phase = "bus"
  /\ kind = "whip"
  /\ "video" \in announced
  /\ video_mid
  /\ Accept("pli")
  /\ UNCHANGED <<task, phase, seen>>

\* Mutant: process_udp reads on without pop_task.
ReadsOn == "udp"

Reacts == "react"

\* UdpSocketRecv.  The Rtc keeps one RTP packet: a new one takes the place of one
\* that has not been polled.
InputUdp ==
  /\ phase = "udp"
  /\ \E news \in SUBSET Notices : HandleInput(news)
  /\ \/ UNCHANGED packet
     \/ kind = "whip" /\ Keyed /\ packet' = IF packet = 1 THEN 2 ELSE 1
  /\ timeout' = "none"
  /\ phase' = Reacts
  /\ UNCHANGED <<kind, outputs, video_mid, seen>>

-----------------------------------------------------------------------------
(* pop_action, called by pop_task until it returns None.                    *)

Popping == phase \in {"http", "pop", "react"}

\* Where the thread goes when it has returned None: from process_http to
\* process_tick, from pop_tasks by way of pop_ended_tasks to process_udp.
AfterNone ==
  CASE phase = "http" -> "tick"
    [] phase = "pop" -> IF ended THEN "gone" ELSE "udp"
    [] phase = "react" -> "udp"

\* Mutant: the last of the outputs is taken (pop_back).
PopBack ==
  /\ Popping
  /\ outputs # <<>>
  /\ output' = outputs[Len(outputs)]
  /\ announced' = announced \cup {outputs[Len(outputs)]}
  /\ outputs' = SubSeq(outputs, 1, Len(outputs) - 1)
  /\ UNCHANGED <<kind, timeout, video_mid, phase, ended, fed, rtc>>

PopOutput ==
  /\ Popping
  /\ outputs # <<>>
  /\ output' = Head(outputs)
  /\ announced' = announced \cup {Head(outputs)}
  /\ outputs' = Tail(outputs)
  /\ UNCHANGED <<kind, timeout, video_mid, phase, ended, fed, rtc>>

\* The Rtc is not polled before the time it has named.
PopNothing ==
  /\ Popping
  /\ outputs = <<>>
  /\ timeout = "later"
  /\ output' = "idle"
  /\ phase' = AfterNone
  /\ UNCHANGED <<task, announced, ended, fed, rtc>>

\* Mutant: outputs do not come before what the Rtc has.
PollsAlways == Popping /\ timeout # "later"

Polls == Popping /\ outputs = <<>> /\ timeout # "later"

PollTransmit(x) ==
  /\ Polls
  /\ x \in ready
  /\ ready' = ready \ {x}
  /\ output' = x
  /\ UNCHANGED <<task, phase, announced, ended, fed,
                 fresh, events, others, packet, held, timer>>

PollPacket ==
  /\ Polls
  /\ packet # 0
  /\ packet' = 0
  /\ output' = "media"
  /\ UNCHANGED <<task, phase, announced, ended, fed,
                 fresh, events, others, held, ready, timer>>

Polled(e) ==
  /\ Polls
  /\ e \in events
  /\ events' = events \ {e}
  /\ UNCHANGED <<fresh, others, packet, held, ready, timer>>

\* Connected, MediaAdded and what is of no interest: None, though the Rtc may have
\* more to say.
PollSwallowed(e) ==
  /\ e \in {"connected", "media_added", "other"}
  /\ Polled(e)
  /\ outputs' = IF e = "connected" THEN outputs \o Tracks ELSE outputs
  /\ video_mid' = (video_mid \/ e = "media_added")
  /\ output' = "swallowed"
  /\ phase' = AfterNone
  /\ UNCHANGED <<kind, timeout, announced, ended, fed>>

\* Mutant: the end of the connection is one of the events of no interest.
PollDisconnectedLost ==
  /\ Polled("disconnected")
  /\ output' = "swallowed"
  /\ phase' = AfterNone
  /\ UNCHANGED <<task, announced, ended, fed>>

\* IceConnectionState::Disconnected: TaskEnded.
PollDisconnected ==
  /\ Polled("disconnected")
  /\ output' = "task_ended"
  /\ ended' = TRUE
  /\ UNCHANGED <<task, phase, announced, fed>>

\* KeyframeRequest of a viewer: RequestKeyframeTrack.
PollKeyframe ==
  /\ Polled("keyframe")
  /\ output' = "keyframe"
  /\ UNCHANGED <<task, phase, announced, ended, fed>>

\* Mutant: the time named by the Rtc is not remembered.
Forgotten == "none"

Remembered == timer

\* The Rtc has nothing else to say.
PollTimeout ==
  /\ Polls
  /\ events = {} /\ packet = 0 /\ ready = {}
  /\ timeout' = Remembered
  /\ output' = "idle"
  /\ phase' = AfterNone
  /\ UNCHANGED <<kind, outputs, video_mid, announced, ended, fed, rtc>>

-----------------------------------------------------------------------------
(* The thread.                                                              *)

BusDone ==
  /\ phase = "bus"
  /\ phase' = "tick"
  /\ UNCHANGED <<task, seen, rtc>>

\* Other packets than those of this task do not touch it.
UdpDone ==
  /\ phase = "udp"
  /\ phase' = "bus"
  /\ fed' = FALSE
  /\ UNCHANGED <<task, output, announced, ended, rtc>>

PopAction ==
  \/ PopOutput
  \/ PopNothing
  \/ \E x \in {"own", "rtp", "pli"} : PollTransmit(x)
  \/ PollPacket
  \/ \E e \in {"connected", "media_added", "other"} : PollSwallowed(e)
  \/ PollDisconnected
  \/ PollKeyframe
  \/ PollTimeout

Next ==
  \/ BusDone \/ Tick \/ PopAction \/ UdpDone
  \/ InputMedia \/ InputKeyframeRequest \/ InputUdp
  \/ Elapse

Spec == Init /\ [][Next]_vars

\* The thread runs, time passes, and each loop over what comes in has an end,
\* however much comes in.
FairSpec ==
  /\ Spec
  /\ WF_vars(Tick \/ PopAction)
  /\ WF_vars(BusDone)
  /\ SF_vars(UdpDone)
  /\ WF_vars(Elapse)

-----------------------------------------------------------------------------
(* Properties.                                                             *)

\* Types of the task and its Rtc; the outputs are the response, or what is left of
\* the announcements in their order.
TypeOK ==
  /\ kind \in Kinds
  /\ outputs \in {<<"response">>, Tracks, Tail(Tracks), <<>>}
  /\ timeout \in {"none", "later", "now"}
  /\ video_mid \in BOOLEAN /\ ended \in BOOLEAN /\ fed \in BOOLEAN
  /\ phase \in {"http", "bus", "tick", "pop", "udp", "react", "gone"}
  /\ output \in {"idle", "swallowed", "response", "audio", "video", "media", "keyframe",
                 "task_ended", "own", "rtp", "pli"}
  /\ announced \subseteq {"response", "audio", "video"}
  /\ fresh \subseteq {"connected", "media_added", "disconnected"}
  /\ events \subseteq {"connected", "media_added", "disconnected", "other", "keyframe"}
  /\ others \in 0 .. MaxOther
  /\ packet \in 0 .. 2
  /\ held \subseteq {"rtp", "pli"} /\ ready \subseteq {"own", "rtp", "pli"}
  /\ timer \in {"later", "now"}

\* A packet leaves the Rtc by being handed to the worker.  It is overwritten by the
\* next one, which the pop_task after every input is there to prevent, only if that
\* pop_task was cut short by an event for which pop_action returns None.
LossExplained ==
  [][packet # 0 /\ packet' # packet => output' = "media" \/ output = "swallowed"]_vars

\* "we should pop_task here because str0m don't store pending incomming packets in
\* queue, only flag": with a pop_task after every packet none is lost, a packet leaves
\* the Rtc only by being handed to the worker.
NoPacketLost == [][packet # 0 /\ packet' # packet => packet' = 0]_vars

\* Media and keyframe requests reach the worker only after both tracks of the task
\* have been announced and the offer has been answered, whatever the Rtc reports
\* first.
AnnouncedFirst ==
  output \in {"media", "keyframe"} => announced = {"response", "audio", "video"}

\* The time that gates pop_action is the one the Rtc wants: only a keyframe request
\* can leave a publisher waiting for a later one.
TimeoutAgrees ==
  /\ timeout = "now" => timer = "now"
  /\ timeout = "later" /\ timer = "now" => kind = "whip" /\ "pli" \in held

\* A cycle that writes no media leaves the timeout to process_tick.
Unfed == phase = "tick" /\ ~fed

\* What a task is given to send, media of a viewer or a keyframe request for a
\* publisher, is sent: unless media comes in every single cycle, which clears the
\* timeout before process_tick has looked at it.
GivenIsSent ==
  \A x \in {"rtp", "pli"} :
     []<>Unfed => (x \in held \cup ready ~> output = x \/ phase = "gone")

\* The Rtc is fed when its time has come, under the same condition.
TimersRun == []<>Unfed => (timer = "now" ~> timer = "later" \/ phase = "gone")

\* A task whose connection is lost is removed, and a received packet is handed on or
\* overwritten, whatever comes in and however often polls are cut short; MaxOther
\* bounds how many events of no interest do so.
EventsReported ==
  /\ "disconnected" \in events ~> phase = "gone"
  /\ packet # 0 ~> output = "media" \/ phase = "gone"
=============================================================================
