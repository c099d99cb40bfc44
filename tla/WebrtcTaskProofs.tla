-------------------------- MODULE WebrtcTaskProofs --------------------------
(***************************************************************************)
(* Proofs, for any number of events of no interest, of what WebrtcTask     *)
(* promises in every step: announcements first, a timeout that agrees with *)
(* the Rtc, and the one way in which a packet is lost.                     *)
(***************************************************************************)
EXTENDS WebrtcTask, TLAPS

-----------------------------------------------------------------------------
(* Types.                                                                  *)

\* The outputs that are left when the first of them has been handed over.
LEMMA OutputsLeft ==
  ASSUME outputs \in {<<"response">>, Tracks, Tail(Tracks), <<>>}, outputs # <<>>
  PROVE  /\ Head(outputs) \in {"response", "audio", "video"}
         /\ Tail(outputs) \in {Tail(Tracks), <<>>}
<1>1. /\ Head(<<"response">>) = "response"
      /\ Tail(<<"response">>) = <<>>
  OBVIOUS
<1>2. /\ Head(Tracks) = "audio"
      /\ Tail(Tracks) = <<"video">>
  BY DEF Tracks
<1>3. /\ Head(<<"video">>) = "video"
      /\ Tail(<<"video">>) = <<>>
  OBVIOUS
<1> QED
  BY <1>1, <1>2, <1>3

\* After pop_action has returned None the thread is at one of these places.
LEMMA AfterNoneType ==
  ASSUME Popping, ended \in BOOLEAN
  PROVE  AfterNone \in {"tick", "udp", "gone"}
  BY DEF Popping, AfterNone

\* What the Rtc notices are events of its types.
LEMMA FedType ==
  ASSUME TypeOK, NEW news, HandleInput(news)
  PROVE  /\ fresh' \subseteq {"connected", "media_added", "disconnected"}
         /\ events' \subseteq {"connected", "media_added", "disconnected", "other", "keyframe"}
         /\ others' \in 0 .. MaxOther
         /\ held' \subseteq {"rtp", "pli"}
         /\ ready' \subseteq {"own", "rtp", "pli"}
         /\ timer' \in {"later", "now"}
<1>1. news \subseteq {"connected", "media_added", "disconnected", "other", "keyframe"}
  BY DEF HandleInput, Notices, TypeOK
<1>2. others' \in 0 .. MaxOther
  <2>1. CASE "other" \in news
    <3>1. others > 0
      BY <2>1 DEF HandleInput, Notices, TypeOK
    <3> QED
      BY <2>1, <3>1, MaxOtherAssumption DEF HandleInput, TypeOK
  <2>2. CASE "other" \notin news
    BY <2>2 DEF HandleInput, TypeOK
  <2> QED
    BY <2>1, <2>2
<1> QED
  BY <1>1, <1>2 DEF HandleInput, TypeOK

\* Every step keeps the types.
LEMMA TypeStep == TypeOK /\ [Next]_vars => TypeOK'
<1> SUFFICES ASSUME TypeOK, [Next]_vars PROVE TypeOK'
  OBVIOUS
<1>1. CASE BusDone
  BY <1>1 DEF BusDone, TypeOK, task, seen, rtc
<1>2. CASE Tick
  <2>1. CASE timeout = "now"
    BY <1>2, <2>1, FedType DEF Tick, TypeOK, seen
  <2>2. CASE timeout # "now"
    <3>1. phase' = "pop" /\ UNCHANGED <<kind, outputs, timeout, video_mid, seen, rtc>>
      BY <1>2, <2>2 DEF Tick
    <3> QED
      BY <3>1 DEF TypeOK, seen, rtc
  <2> QED
    BY <2>1, <2>2
<1>3. CASE PopOutput
  <2>1. /\ outputs # <<>> /\ outputs' = Tail(outputs)
        /\ output' = Head(outputs) /\ announced' = announced \cup {Head(outputs)}
        /\ UNCHANGED <<kind, timeout, video_mid, phase, ended, fed, rtc>>
    BY <1>3 DEF PopOutput
  <2>2. /\ outputs' \in {Tail(Tracks), <<>>}
        /\ output' \in {"response", "audio", "video"}
        /\ announced' \subseteq {"response", "audio", "video"}
    BY <2>1, OutputsLeft DEF TypeOK
  <2> QED
    BY <2>1, <2>2 DEF TypeOK, rtc
<1>4. CASE PopNothing
  BY <1>4, AfterNoneType DEF PopNothing, TypeOK, task, rtc
<1>5. ASSUME NEW x \in {"own", "rtp", "pli"}, PollTransmit(x)
      PROVE  TypeOK'
  BY <1>5 DEF PollTransmit, TypeOK, task
<1>6. CASE PollPacket
  BY <1>6 DEF PollPacket, TypeOK, task
<1>7. ASSUME NEW e \in {"connected", "media_added", "other"}, PollSwallowed(e)
      PROVE  TypeOK'
  <2>1. Popping /\ outputs = <<>>
    BY <1>7 DEF PollSwallowed, Polled, Polls
  <2>2. outputs' \in {Tracks, <<>>}
    BY <1>7, <2>1 DEF PollSwallowed, Tracks
  <2>3. phase' \in {"tick", "udp", "gone"}
    BY <1>7, <2>1, AfterNoneType DEF PollSwallowed, TypeOK
  <2> QED
    BY <1>7, <2>2, <2>3 DEF PollSwallowed, Polled, TypeOK
<1>8. CASE PollDisconnected
  BY <1>8 DEF PollDisconnected, Polled, TypeOK, task
<1>9. CASE PollKeyframe
  BY <1>9 DEF PollKeyframe, Polled, TypeOK, task
<1>10. CASE PollTimeout
  BY <1>10, AfterNoneType DEF PollTimeout, Polls, Remembered, TypeOK, rtc
<1>11. CASE UdpDone
  <2>1. /\ phase' = "bus" /\ fed' = FALSE
        /\ UNCHANGED <<kind, outputs, timeout, video_mid, output, announced, ended>>
        /\ UNCHANGED <<fresh, events, others, packet, held, ready, timer>>
    BY <1>11 DEF UdpDone, task, rtc
  <2>2. /\ kind' \in Kinds /\ outputs' \in {<<"response">>, Tracks, Tail(Tracks), <<>>}
        /\ timeout' \in {"none", "later", "now"} /\ video_mid' \in BOOLEAN
        /\ ended' \in BOOLEAN
    BY <2>1 DEF TypeOK
  <2>3. /\ fresh' \subseteq {"connected", "media_added", "disconnected"}
        /\ events' \subseteq {"connected", "media_added", "disconnected", "other", "keyframe"}
        /\ others' \in 0 .. MaxOther /\ packet' \in 0 .. 2
        /\ held' \subseteq {"rtp", "pli"} /\ ready' \subseteq {"own", "rtp", "pli"}
        /\ timer' \in {"later", "now"}
    BY <2>1 DEF TypeOK
  <2>4. /\ output' = output /\ announced' \subseteq {"response", "audio", "video"}
    BY <2>1 DEF TypeOK
  <2> QED
    BY <2>1, <2>2, <2>3, <2>4 DEF TypeOK
<1>12. CASE InputMedia
  BY <1>12 DEF InputMedia, Accept, TypeOK
<1>13. CASE InputKeyframeRequest
  <2>1. Accept("pli") /\ UNCHANGED <<task, phase, seen>>
    BY <1>13 DEF InputKeyframeRequest
  <2>2. /\ held' \subseteq {"rtp", "pli"} /\ ready' \subseteq {"own", "rtp", "pli"}
        /\ timer' \in {"later", "now"} /\ UNCHANGED <<fresh, events, others, packet>>
    BY <2>1 DEF Accept, TypeOK
  <2> QED
    BY <2>1, <2>2 DEF TypeOK, task, seen
<1>14. CASE InputUdp
  BY <1>14, FedType DEF InputUdp, Reacts, TypeOK, seen
<1>15. CASE Elapse
  BY <1>15 DEF Elapse, TypeOK, seen
<1>16. CASE UNCHANGED vars
  BY <1>16 DEF vars, task, seen, rtc, TypeOK
<1> QED
  BY <1>1, <1>2, <1>3, <1>4, <1>5, <1>6, <1>7, <1>8, <1>9, <1>10, <1>11, <1>12, <1>13,
     <1>14, <1>15, <1>16 DEF Next, PopAction

\* A task and its Rtc keep their types, and the output queue holds the response or what
\* is left of the two announcements, in their order.
THEOREM TaskTypes == Spec => []TypeOK
<1>1. Init => TypeOK
  <2> SUFFICES ASSUME Init PROVE TypeOK
    OBVIOUS
  <2>1. others \in 0 .. MaxOther /\ packet \in 0 .. 2
    BY MaxOtherAssumption DEF Init
  <2>2. /\ kind \in Kinds
        /\ video_mid \in BOOLEAN /\ ended \in BOOLEAN /\ fed \in BOOLEAN
        /\ outputs \in {<<"response">>, Tracks, Tail(Tracks), <<>>}
    BY DEF Init
  <2> QED
    BY <2>1, <2>2 DEF Init, TypeOK
<1> QED
  BY <1>1, TypeStep, PTL DEF Spec

-----------------------------------------------------------------------------
(* The timeout.                                                            *)

\* TimeoutAgrees is inductive: the cached time is set to what the Rtc has named, both
\* come together, and whatever else moves the time of the Rtc clears the cache or is
\* a keyframe request that the Rtc holds back.
LEMMA TimeoutStep == TypeOK /\ TimeoutAgrees /\ [Next]_vars => TimeoutAgrees'
<1> SUFFICES ASSUME TypeOK, TimeoutAgrees, [Next]_vars PROVE TimeoutAgrees'
  OBVIOUS
<1>1. CASE BusDone \/ UdpDone \/ PopOutput \/ PopNothing \/ UNCHANGED vars
  BY <1>1 DEF BusDone, UdpDone, PopOutput, PopNothing, vars, task, rtc, TimeoutAgrees
<1>2. CASE Tick
  BY <1>2 DEF Tick, HandleInput, rtc, TimeoutAgrees
<1>3. ASSUME NEW x \in {"own", "rtp", "pli"}, PollTransmit(x)
      PROVE  TimeoutAgrees'
  BY <1>3 DEF PollTransmit, task, TimeoutAgrees
<1>4. CASE PollPacket \/ PollDisconnected \/ PollKeyframe
  BY <1>4 DEF PollPacket, PollDisconnected, PollKeyframe, Polled, task, TimeoutAgrees
<1>5. ASSUME NEW e \in {"connected", "media_added", "other"}, PollSwallowed(e)
      PROVE  TimeoutAgrees'
  BY <1>5 DEF PollSwallowed, Polled, TimeoutAgrees
<1>6. CASE PollTimeout
  BY <1>6 DEF PollTimeout, Remembered, rtc, TimeoutAgrees
<1>7. CASE InputMedia
  BY <1>7 DEF InputMedia, TimeoutAgrees
<1>8. CASE InputKeyframeRequest
  BY <1>8 DEF InputKeyframeRequest, Accept, task, TimeoutAgrees
<1>9. CASE InputUdp
  BY <1>9 DEF InputUdp, TimeoutAgrees
<1>10. CASE Elapse
  BY <1>10 DEF Elapse, TimeoutAgrees, TypeOK
<1> QED
  BY <1>1, <1>2, <1>3, <1>4, <1>5, <1>6, <1>7, <1>8, <1>9, <1>10 DEF Next, PopAction

\* The time that keeps a task from polling its Rtc is the one the Rtc has named, and
\* an earlier one is wanted only by a publisher for a keyframe request.
THEOREM Deadlines == Spec => []TimeoutAgrees
<1>1. Init => TimeoutAgrees
  BY DEF Init, TimeoutAgrees
<1> QED
  BY <1>1, TimeoutStep, TaskTypes, PTL DEF Spec

-----------------------------------------------------------------------------
(* The packet of the Rtc.                                                  *)

\* While a packet waits there is no timeout, so that nothing but an event can end a
\* poll before it; and when process_udp reads on with a packet waiting, one has.
PacketInv ==
  packet # 0 =>
    /\ timeout = "none"
    /\ phase = "udp" => output = "swallowed"

\* Packets are received after a pop_task that has emptied the Rtc or was ended by an event.
LEMMA PacketStep == TypeOK /\ PacketInv /\ [Next]_vars => PacketInv'
<1> SUFFICES ASSUME TypeOK, PacketInv, [Next]_vars PROVE PacketInv'
  OBVIOUS
<1>1. CASE BusDone \/ UdpDone \/ UNCHANGED vars
  BY <1>1 DEF BusDone, UdpDone, vars, task, seen, rtc, PacketInv
<1>2. CASE PopOutput
  BY <1>2 DEF PopOutput, Popping, rtc, PacketInv
<1>3. CASE PopNothing
  BY <1>3 DEF PopNothing, rtc, PacketInv
<1>4. CASE Tick
  BY <1>4 DEF Tick, rtc, PacketInv
<1>5. ASSUME NEW x \in {"own", "rtp", "pli"}, PollTransmit(x)
      PROVE  PacketInv'
  BY <1>5 DEF PollTransmit, Polls, Popping, task, PacketInv
<1>6. CASE PollPacket
  BY <1>6 DEF PollPacket, PacketInv
<1>7. CASE PollDisconnected \/ PollKeyframe
  BY <1>7 DEF PollDisconnected, PollKeyframe, Polled, Polls, Popping, task, PacketInv
<1>8. ASSUME NEW e \in {"connected", "media_added", "other"}, PollSwallowed(e)
      PROVE  PacketInv'
  BY <1>8 DEF PollSwallowed, Polled, PacketInv
<1>9. CASE PollTimeout
  BY <1>9 DEF PollTimeout, rtc, PacketInv
<1>10. CASE InputMedia
  BY <1>10 DEF InputMedia, Accept, PacketInv
<1>11. CASE InputKeyframeRequest
  BY <1>11 DEF InputKeyframeRequest, Accept, task, seen, PacketInv
<1>12. CASE InputUdp
  BY <1>12 DEF InputUdp, Reacts, PacketInv
<1>13. CASE Elapse
  BY <1>13 DEF Elapse, seen, PacketInv
<1> QED
  BY <1>1, <1>2, <1>3, <1>4, <1>5, <1>6, <1>7, <1>8, <1>9, <1>10, <1>11, <1>12, <1>13
     DEF Next, PopAction

\* A step that takes the packet out of the Rtc hands it to the worker, or overwrites it
\* after a poll that an event has ended.
LEMMA PacketLeaves ==
  ASSUME PacketInv, Next, packet # 0, packet' # packet
  PROVE  output' = "media" \/ output = "swallowed"
<1>1. CASE PollPacket
  BY <1>1 DEF PollPacket
<1>2. CASE InputUdp
  BY <1>2 DEF InputUdp, PacketInv
<1> QED
  BY <1>1, <1>2
     DEF Next, PopAction, BusDone, Tick, UdpDone, PopOutput, PopNothing, PollTransmit,
         PollDisconnected, PollKeyframe, Polled, PollSwallowed, PollTimeout, InputMedia,
         InputKeyframeRequest, Accept, Elapse, rtc

\* A received packet is handed to the worker, or overwritten in the one case that the
\* pop_task after each packet does not exclude: an event has ended it early.
THEOREM Losses == Spec => LossExplained
<1>1. Init => PacketInv
  BY DEF Init, PacketInv
<1>2. Spec => []PacketInv
  BY <1>1, PacketStep, TaskTypes, PTL DEF Spec
<1>3. PacketInv /\ [Next]_vars
        => [packet # 0 /\ packet' # packet => output' = "media" \/ output = "swallowed"]_vars
  BY PacketLeaves
<1> QED
  BY <1>2, <1>3, PTL DEF Spec, LossExplained

-----------------------------------------------------------------------------
(* Announcements.                                                          *)

\* How far the outputs are, and that nothing which needs the keys of the connection can
\* be reported before Connected has been polled.
Stage ==
  \/ outputs = <<"response">> /\ announced = {} /\ ~Keyed
  \/ outputs = <<>> /\ announced = {"response"} /\ ~Keyed
  \/ outputs = Tracks /\ announced = {"response"} /\ Keyed
  \/ outputs = Tail(Tracks) /\ announced = {"response", "audio"} /\ Keyed
  \/ outputs = <<>> /\ announced = {"response", "audio", "video"} /\ Keyed

KeysInv ==
  /\ "connected" \notin fresh \cap events
  /\ packet # 0 \/ "keyframe" \in events => Keyed

AnnouncedInv == Stage /\ KeysInv /\ AnnouncedFirst

\* What the Rtc is fed does not give it keys, and it does not notice Connected twice.
LEMMA KeysFed ==
  ASSUME TypeOK, KeysInv, NEW news, HandleInput(news), packet' = packet \/ Keyed
  PROVE  (Keyed' <=> Keyed) /\ KeysInv'
<1>1. fresh' \cup events' = fresh \cup events \cup (news \ fresh)
  BY DEF HandleInput
<1>2. "connected" \notin news \ fresh
  BY DEF HandleInput, Notices
<1>3. Keyed' <=> Keyed
  BY <1>1, <1>2 DEF Keyed
<1>4. "connected" \notin fresh' \cap events'
  BY <1>2 DEF HandleInput, KeysInv
<1>5. "keyframe" \in events' => "keyframe" \in events \/ Keyed
  BY DEF HandleInput, Notices, TypeOK
<1> QED
  BY <1>3, <1>4, <1>5 DEF KeysInv

\* Keys and stage do not change with a step that leaves the outputs, and what the Rtc
\* knows of the connection, alone.
LEMMA StageKept ==
  ASSUME AnnouncedInv, UNCHANGED <<outputs, announced>>, Keyed' <=> Keyed, KeysInv',
         output' = output \/ output' \notin {"media", "keyframe"}
  PROVE  AnnouncedInv'
  BY DEF AnnouncedInv, Stage, AnnouncedFirst, Tracks

\* The same for a step that leaves all events as they are.
LEMMA EventsKept ==
  ASSUME AnnouncedInv, UNCHANGED <<outputs, announced, fresh, events, packet>>,
         output' = output \/ output' \notin {"media", "keyframe"}
  PROVE  AnnouncedInv'
<1>1. (Keyed' <=> Keyed) /\ KeysInv'
  BY DEF AnnouncedInv, KeysInv, Keyed
<1> QED
  BY <1>1, StageKept

\* And for an event that is taken from the Rtc and is not Connected.
LEMMA EventTaken ==
  ASSUME AnnouncedInv, UNCHANGED <<outputs, announced, fresh, packet>>,
         NEW e, e # "connected", events' = events \ {e},
         output' \notin {"media", "keyframe"}
  PROVE  AnnouncedInv'
<1>1. (Keyed' <=> Keyed) /\ KeysInv'
  BY DEF AnnouncedInv, KeysInv, Keyed
<1> QED
  BY <1>1, StageKept

\* When the Rtc is polled and has its keys, everything has been announced.
LEMMA PolledLate ==
  ASSUME AnnouncedInv, outputs = <<>>, Keyed
  PROVE  announced = {"response", "audio", "video"}
  BY DEF AnnouncedInv, Stage, Tracks

\* Every step keeps the announcements in their order and before what needs the keys.
LEMMA AnnouncedStep == TypeOK /\ AnnouncedInv /\ [Next]_vars => AnnouncedInv'
<1> SUFFICES ASSUME TypeOK, AnnouncedInv, [Next]_vars PROVE AnnouncedInv'
  OBVIOUS
<1>1. CASE BusDone \/ UdpDone \/ UNCHANGED vars
  BY <1>1, EventsKept DEF BusDone, UdpDone, vars, task, seen, rtc
<1>2. CASE PopNothing \/ PollTimeout
  BY <1>2, EventsKept DEF PopNothing, PollTimeout, task, rtc
<1>3. CASE Tick
  <2>1. CASE timeout = "now"
    <3>1. (Keyed' <=> Keyed) /\ KeysInv'
      BY <1>3, <2>1, KeysFed DEF Tick, AnnouncedInv
    <3> QED
      BY <1>3, <3>1, StageKept DEF Tick, seen
  <2>2. CASE timeout # "now"
    BY <1>3, <2>2, EventsKept DEF Tick, seen, rtc
  <2> QED
    BY <2>1, <2>2
<1>4. CASE InputUdp
  <2>1. (Keyed' <=> Keyed) /\ KeysInv'
    BY <1>4, KeysFed DEF InputUdp, AnnouncedInv
  <2> QED
    BY <1>4, <2>1, StageKept DEF InputUdp, seen
<1>5. CASE InputMedia \/ InputKeyframeRequest
  BY <1>5, EventsKept DEF InputMedia, InputKeyframeRequest, Accept, task, seen
<1>6. CASE Elapse
  BY <1>6, EventsKept DEF Elapse, seen
<1>7. CASE PopOutput
  <2>1. Stage' /\ KeysInv' /\ announced \subseteq announced'
    <3>1. (Keyed' <=> Keyed) /\ KeysInv' /\ announced \subseteq announced'
      BY <1>7 DEF PopOutput, rtc, AnnouncedInv, KeysInv, Keyed
    <3>2. CASE outputs = <<"response">>
      <4>1. Head(outputs) = "response" /\ Tail(outputs) = <<>>
        BY <3>2
      <4> QED
        BY <1>7, <3>1, <3>2, <4>1 DEF PopOutput, AnnouncedInv, Stage, Tracks
    <3>3. CASE outputs = Tracks
      <4>1. Head(outputs) = "audio" /\ Tail(outputs) = Tail(Tracks)
        BY <3>3 DEF Tracks
      <4> QED
        BY <1>7, <3>1, <3>3, <4>1 DEF PopOutput, AnnouncedInv, Stage, Tracks
    <3>4. CASE outputs = Tail(Tracks)
      <4>1. Head(outputs) = "video" /\ Tail(outputs) = <<>>
        BY <3>4 DEF Tracks
      <4> QED
        BY <1>7, <3>1, <3>4, <4>1 DEF PopOutput, AnnouncedInv, Stage, Tracks
    <3> QED
      BY <1>7, <3>1, <3>2, <3>3, <3>4 DEF PopOutput, TypeOK
  <2>2. output' \notin {"media", "keyframe"}
    BY <1>7, OutputsLeft DEF PopOutput, TypeOK
  <2> QED
    BY <2>1, <2>2 DEF AnnouncedInv, AnnouncedFirst
<1>8. ASSUME NEW x \in {"own", "rtp", "pli"}, PollTransmit(x)
      PROVE  AnnouncedInv'
  BY <1>8, EventsKept DEF PollTransmit, task
<1>9. CASE PollPacket
  <2>1. announced = {"response", "audio", "video"}
    BY <1>9, PolledLate DEF PollPacket, Polls, AnnouncedInv, KeysInv
  <2> QED
    BY <1>9, <2>1 DEF PollPacket, task, AnnouncedInv, Stage, KeysInv, Keyed, AnnouncedFirst
<1>10. CASE PollKeyframe
  <2>1. announced = {"response", "audio", "video"}
    BY <1>10, PolledLate DEF PollKeyframe, Polled, Polls, AnnouncedInv, KeysInv
  <2> QED
    BY <1>10, <2>1
       DEF PollKeyframe, Polled, task, AnnouncedInv, Stage, KeysInv, Keyed, AnnouncedFirst
<1>11. CASE PollDisconnected
  BY <1>11, EventTaken DEF PollDisconnected, Polled, task
<1>12. ASSUME NEW e \in {"connected", "media_added", "other"}, PollSwallowed(e)
       PROVE  AnnouncedInv'
  <2>1. CASE e = "connected"
    <3>1. outputs = <<>> /\ ~Keyed
      BY <1>12, <2>1 DEF PollSwallowed, Polled, Polls, Keyed
    <3>2. outputs' = Tracks
      BY <1>12, <2>1, <3>1 DEF PollSwallowed, Tracks
    <3>3. announced' = {"response"}
      BY <1>12, <3>1 DEF PollSwallowed, AnnouncedInv, Stage, Tracks
    <3>4. Keyed' /\ KeysInv'
      BY <1>12, <2>1 DEF PollSwallowed, Polled, AnnouncedInv, KeysInv, Keyed
    <3> QED
      BY <1>12, <3>2, <3>3, <3>4 DEF PollSwallowed, AnnouncedInv, Stage, AnnouncedFirst, Tracks
  <2>2. CASE e # "connected"
    BY <1>12, <2>2, EventTaken DEF PollSwallowed, Polled
  <2> QED
    BY <2>1, <2>2
<1> QED
  BY <1>1, <1>2, <1>3, <1>4, <1>5, <1>6, <1>7, <1>8, <1>9, <1>10, <1>11, <1>12
     DEF Next, PopAction

\* Whatever the Rtc reports first, the worker has answered the offer and knows both
\* tracks of the task before it is handed media or a keyframe request.
THEOREM AnnouncementsFirst == Spec => []AnnouncedFirst
<1>1. Init => AnnouncedInv
  BY DEF Init, AnnouncedInv, Stage, KeysInv, Keyed, AnnouncedFirst
<1>2. AnnouncedInv => AnnouncedFirst
  BY DEF AnnouncedInv
<1> QED
  BY <1>1, <1>2, AnnouncedStep, TaskTypes, PTL DEF Spec
=============================================================================
