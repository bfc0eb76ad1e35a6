--------------------------- MODULE ReportingProofs ---------------------------
(***************************************************************************)
(* What an agent reports, and what the server makes of reports.            *)
(*                                                                         *)
(* The pipeline, for every buffer size, batch size and number of events:   *)
(* it accounts for every event, hands each sink the events in the order in *)
(* which they were judged, never sends on its closed channel, and is empty *)
(* when Close returns.                                                     *)
(*                                                                         *)
(* The server's books, for every fleet, threshold and configuration: the   *)
(* registry calls an agent silent only when it has been, and the canary    *)
(* analyzer rolls back only on evidence, and its rollbacks hold.           *)
(***************************************************************************)
EXTENDS Pipeline, ServerBooks, TLAPS

\* Where the emitter, the loop and Close are relative to each other.
Phases ==
  /\ emitter = "checked" => received < MaxEvents
  /\ emitter = "counted" => received > 0
  /\ loop = "process" => cur \in Events
  /\ ~chanOpen => emitter = "ended"
  /\ closed => emitter = "ended"
  /\ closer # "no" => emitter = "ended"
  /\ loop = "exited" => ~chanOpen /\ eventCh = << >>
  /\ closer \in {"sinks", "done"} => loop = "exited"
  /\ closer = "done" => batch = << >>

PInv == TypeOK /\ Phases /\ EventsAccounted /\ NoSendAfterClose

LEMMA PipelineInit == Init => PInv
<1> SUFFICES ASSUME Init PROVE PInv
  OBVIOUS
<1>1. TypeOK
  <2>1. << >> \in Seq(Events) /\ Len(<< >>) = 0
    OBVIOUS
  <2>2. /\ eventCh \in Seq(Events) /\ batch \in Seq(Events)
        /\ posted \in Seq(Events) /\ logged \in Seq(Events)
        /\ Len(eventCh) = 0 /\ Len(batch) = 0
    BY <2>1 DEF Init
  <2>3. received \in 0..MaxEvents /\ cur \in Events \cup {0}
    BY PipelineAssumption DEF Init
  <2>4. /\ emitter = "idle" /\ closer = "no" /\ loop = "select"
        /\ chanOpen \in BOOLEAN /\ closed \in BOOLEAN /\ panicked \in BOOLEAN
        /\ emitted = 0 /\ dropped = 0 /\ sinkErrors = 0 /\ lost = 0
    BY Zenon DEF Init
  <2>5. QED
    BY <2>2, <2>3, <2>4, PipelineAssumption DEF TypeOK
<1>2. Phases /\ NoSendAfterClose
  BY DEF Init, Phases, NoSendAfterClose
<1>3. EventsAccounted
  BY DEF Init, EventsAccounted, InEmit, InProcess
<1>4. QED
  BY <1>1, <1>2, <1>3 DEF PInv

\* A flush moves the events it is given to the posted or the lost ones.
LEMMA FlushAccounts ==
  ASSUME TypeOK, NEW b \in Seq(Events), NEW ok \in BOOLEAN, Flush(b, ok)
  PROVE  /\ batch' \in Seq(Events) /\ posted' \in Seq(Events) /\ lost' \in Nat
         /\ Len(batch') < BatchSize
         /\ Len(posted') + lost' + Len(batch') = Len(posted) + lost + Len(b)
  BY PipelineAssumption DEF Flush, TypeOK

LEMMA PipelineStep == PInv /\ [Next]_vars => PInv'
<1> SUFFICES ASSUME PInv, [Next]_vars PROVE PInv'
  OBVIOUS
<1> USE PipelineAssumption
<1>1. CASE EmitChecks
  BY <1>1 DEF EmitChecks, KeepLoop, KeepClose, PInv, TypeOK, Events, Phases,
     EventsAccounted, InEmit, InProcess, NoSendAfterClose, webhook
<1>2. CASE EmitCounts
  BY <1>2, SMTT(30), Z3T(30) DEF EmitCounts, KeepLoop, KeepClose, PInv, TypeOK,
     Events, Phases, EventsAccounted, InEmit, InProcess, NoSendAfterClose,
     webhook
<1>3. CASE EmitterEnds
  BY <1>3 DEF EmitterEnds, KeepLoop, KeepClose, PInv, TypeOK, Events, Phases,
     EventsAccounted, InEmit, InProcess, NoSendAfterClose, webhook
<1>4. CASE EmitSends
  <2>1. /\ emitter = "counted" /\ emitter' = "idle" /\ chanOpen
        /\ received \in Events /\ UNCHANGED <<received, panicked>>
        /\ UNCHANGED <<loop, cur, emitted, sinkErrors, batch, posted, lost,
                      logged, chanOpen, closed, closer>>
    BY <1>4 DEF EmitSends, KeepLoop, KeepClose, webhook, PInv, TypeOK, Phases,
       Events
  <2>2. CASE Len(eventCh) < BufferSize
    <3>1. eventCh' = Append(eventCh, received) /\ dropped' = dropped
      BY <1>4, <2>1, <2>2 DEF EmitSends
    <3>2. eventCh' \in Seq(Events) /\ Len(eventCh') = Len(eventCh) + 1
      BY <3>1, <2>1 DEF PInv, TypeOK
    <3>3. QED
      BY <2>1, <2>2, <3>1, <3>2 DEF PInv, TypeOK, Events, Phases, EventsAccounted,
     InEmit, InProcess, NoSendAfterClose, webhook
  <2>3. CASE ~(Len(eventCh) < BufferSize)
    <3>1. eventCh' = eventCh /\ dropped' = dropped + 1
      BY <1>4, <2>1, <2>3 DEF EmitSends
    <3>2. QED
      BY <2>1, <3>1 DEF PInv, TypeOK, Events, Phases, EventsAccounted,
     InEmit, InProcess, NoSendAfterClose, webhook
  <2>4. QED
    BY <2>2, <2>3
<1>5. CASE LoopTakes
  <2>1. /\ cur' \in Events /\ eventCh' \in Seq(Events)
        /\ Len(eventCh') = Len(eventCh) - 1
    BY <1>5 DEF LoopTakes, PInv, TypeOK
  <2>2. QED
    BY <1>5, <2>1 DEF LoopTakes, KeepEmit, KeepClose, PInv, TypeOK, Events, Phases,
       EventsAccounted, InEmit, InProcess, NoSendAfterClose, webhook
<1>6. CASE LoopExits
  BY <1>6 DEF LoopExits, KeepEmit, KeepClose, PInv, TypeOK, Events, Phases,
     EventsAccounted, InEmit, InProcess, NoSendAfterClose, webhook
<1>7. ASSUME NEW due \in BOOLEAN, NEW ok1 \in BOOLEAN, NEW ok2 \in BOOLEAN,
             Process(due, ok1, ok2)
      PROVE  PInv'
  <2>1. /\ loop = "process" /\ loop' = "select" /\ cur' = 0
        /\ emitted' = emitted + 1 /\ cur \in Events
        /\ UNCHANGED <<eventCh, emitter, received, dropped, panicked, chanOpen,
                      closed, closer>>
    BY <1>7 DEF Process, KeepEmit, KeepClose, PInv, Phases
  <2>2. sinkErrors' \in Nat
    BY <1>7 DEF Process, Errors, PInv, TypeOK
  <2>3. logged' \in Seq(Events)
    BY <1>7, <2>1 DEF Process, SyslogWrite, PInv, TypeOK
  <2>d. DEFINE b == Append(batch, cur)
  <2>4. b \in Seq(Events) /\ Len(b) = Len(batch) + 1
    BY <2>1 DEF PInv, TypeOK
  <2>5. WebhookWrite(cur, due, ok1)
    BY <1>7 DEF Process
  <2>6. /\ batch' \in Seq(Events) /\ posted' \in Seq(Events) /\ lost' \in Nat
        /\ Len(batch') < BatchSize
        /\ Len(posted') + lost' + Len(batch') = Len(posted) + lost + Len(b)
    <3>1. CASE Len(b) >= BatchSize \/ due
      <4>1. TypeOK /\ Flush(b, ok1)
        BY <2>4, <2>5, <3>1 DEF WebhookWrite, PInv
      <4>2. QED
        BY <4>1, <2>4, FlushAccounts, Zenon
    <3>2. CASE ~(Len(b) >= BatchSize \/ due)
      <4>1. batch' = b /\ posted' = posted /\ lost' = lost
        BY <2>5, <3>2 DEF WebhookWrite
      <4>2. Len(b) < BatchSize /\ posted \in Seq(Events) /\ lost \in Nat
        BY <2>4, <3>2 DEF PInv, TypeOK
      <4>3. QED
        BY <4>1, <4>2, <2>4
    <3>3. QED
      BY <3>1, <3>2
  <2>7. closer # "done"
    BY <2>1 DEF PInv, Phases, TypeOK
  <2>8. TypeOK'
    BY <2>1, <2>2, <2>3, <2>6 DEF PInv, TypeOK
  <2>9. Phases' /\ NoSendAfterClose'
    BY <2>1, <2>7 DEF PInv, Phases, NoSendAfterClose
  <2>10. EventsAccounted'
    <3>1. received' = emitted' + dropped' + Len(eventCh') + InEmit' + InProcess'
      BY <2>1 DEF PInv, TypeOK, EventsAccounted, InEmit, InProcess
    <3>2. emitted' = Len(posted') + lost' + Len(batch')
      BY <2>1, <2>4, <2>6 DEF PInv, TypeOK, EventsAccounted
    <3>3. QED
      BY <3>1, <3>2 DEF EventsAccounted
  <2>11. QED
    BY <2>8, <2>9, <2>10 DEF PInv
<1>8. ASSUME NEW ok \in BOOLEAN, LoopFlushes(ok) PROVE PInv'
  <2>1. /\ batch' \in Seq(Events) /\ posted' \in Seq(Events) /\ lost' \in Nat
        /\ Len(batch') < BatchSize /\ batch' = << >>
        /\ Len(posted') + lost' + Len(batch') = Len(posted) + lost + Len(batch)
    BY <1>8, FlushAccounts DEF LoopFlushes, Flush, PInv, TypeOK
  <2>2. sinkErrors' \in Nat
    BY <1>8 DEF LoopFlushes, Errors, PInv, TypeOK
  <2>3. QED
    BY <1>8, <2>1, <2>2, Zenon DEF LoopFlushes, KeepEmit, KeepClose, PInv, TypeOK,
       Events, Phases, EventsAccounted, InEmit, InProcess, NoSendAfterClose, webhook
<1>9. ASSUME NEW ok \in BOOLEAN, CloseSinks(ok) PROVE PInv'
  <2>1. /\ batch' \in Seq(Events) /\ posted' \in Seq(Events) /\ lost' \in Nat
        /\ Len(batch') < BatchSize /\ batch' = << >>
        /\ Len(posted') + lost' + Len(batch') = Len(posted) + lost + Len(batch)
    BY <1>9, FlushAccounts DEF CloseSinks, Flush, PInv, TypeOK
  <2>2. sinkErrors' \in Nat
    BY <1>9 DEF CloseSinks, Errors, PInv, TypeOK
  <2>3. QED
    BY <1>9, <2>1, <2>2 DEF CloseSinks, KeepEmit, PInv, TypeOK, Events, Phases,
       EventsAccounted, InEmit, InProcess, NoSendAfterClose, webhook
<1>10. CASE CloseFlags
  BY <1>10 DEF CloseFlags, KeepSinks, KeepEmit, PInv, TypeOK, Events, Phases,
     EventsAccounted, InEmit, InProcess, NoSendAfterClose, webhook
<1>11. CASE CloseChannel
  BY <1>11, Zenon DEF CloseChannel, KeepSinks, KeepEmit, PInv, TypeOK, Events,
     Phases, EventsAccounted, InEmit, InProcess, NoSendAfterClose, webhook
<1>12. CASE CloseWaits
  BY <1>12 DEF CloseWaits, KeepSinks, KeepEmit, PInv, TypeOK, Events, Phases,
     EventsAccounted, InEmit, InProcess, NoSendAfterClose, webhook
<1>13. CASE UNCHANGED vars
  BY <1>13 DEF vars, pipelineCounters, PInv, TypeOK, Events, Phases, EventsAccounted,
     InEmit, InProcess, NoSendAfterClose, webhook
<1>14. QED
  BY <1>1, <1>2, <1>3, <1>4, <1>5, <1>6, <1>7, <1>8, <1>9, <1>10, <1>11, <1>12, <1>13
     DEF Next, Terminated

LEMMA PipelineAlways == Spec => []PInv
  BY PipelineInit, PipelineStep, PTL DEF Spec

\* Every event Emit counts is emitted, dropped or on its way, and every event
\* emitted is posted, lost or in the webhook's batch.
THEOREM PipelineAccounts == Spec => []EventsAccounted
<1>1. PInv => EventsAccounted
  BY DEF PInv
<1>2. QED
  BY PipelineAlways, <1>1, PTL

\* When Close returns, the channel and the batch are empty.
THEOREM CloseLeavesNothing == Spec => []CloseDrains
<1>1. PInv => CloseDrains
  BY DEF PInv, TypeOK, Phases, EventsAccounted, CloseDrains, InEmit, InProcess
<1>2. QED
  BY PipelineAlways, <1>1, PTL

\* Emit never sends on the channel Close has closed.
THEOREM NeverSendsOnClosed == Spec => []NoSendAfterClose
<1>1. PInv => NoSendAfterClose
  BY DEF PInv
<1>2. QED
  BY PipelineAlways, <1>1, PTL
-----------------------------------------------------------------------------
(* The order of the events on their way to the sinks. *)

Before(s, n) == \A i \in DOMAIN s : s[i] < n
Ahead(n, s) == \A i \in DOMAIN s : n < s[i]
Behind(s, t) == \A i \in DOMAIN s, j \in DOMAIN t : s[i] < t[j]

\* The number of the next event that can enter the channel.
Fresh == IF emitter = "counted" THEN received ELSE received + 1

\* What a sink has, then the event in process, then the channel, then the
\* event in Emit: each in order, and each part behind all the later ones.
Stream ==
  /\ Increasing(posted) /\ Increasing(batch)
  /\ Increasing(logged) /\ Increasing(eventCh)
  /\ Behind(posted, batch) /\ Behind(posted, eventCh)
  /\ Behind(batch, eventCh) /\ Behind(logged, eventCh)
  /\ loop = "process" =>
       /\ Before(posted, cur) /\ Before(batch, cur) /\ Before(logged, cur)
       /\ Ahead(cur, eventCh) /\ cur < Fresh
  /\ Before(posted, Fresh) /\ Before(batch, Fresh)
  /\ Before(logged, Fresh) /\ Before(eventCh, Fresh)

LEMMA Joined ==
  ASSUME NEW s \in Seq(Events), NEW t \in Seq(Events),
         Increasing(s), Increasing(t), Behind(s, t)
  PROVE  /\ Increasing(s \o t)
         /\ \A n \in Int : Before(s, n) /\ Before(t, n) => Before(s \o t, n)
         /\ \A u \in Seq(Events) :
              Behind(s, u) /\ Behind(t, u) => Behind(s \o t, u)
<1> DEFINE w == s \o t
<1>1. /\ Len(w) = Len(s) + Len(t) /\ DOMAIN w = 1..Len(w)
      /\ DOMAIN s = 1..Len(s) /\ DOMAIN t = 1..Len(t)
      /\ Len(s) \in Nat /\ Len(t) \in Nat
  OBVIOUS
<1>2. \A i \in DOMAIN w : \/ i \in DOMAIN s /\ w[i] = s[i]
                          \/ /\ i > Len(s) /\ i - Len(s) \in DOMAIN t
                             /\ w[i] = t[i - Len(s)]
  OBVIOUS
<1>3. /\ \A i \in DOMAIN s : s[i] \in Int
      /\ \A i \in DOMAIN t : t[i] \in Int
  BY PipelineAssumption DEF Events
<1> HIDE DEF w
<1>4. Increasing(w)
  <2> SUFFICES ASSUME NEW i \in DOMAIN w, NEW j \in DOMAIN w, i < j
               PROVE  w[i] < w[j]
    BY DEF Increasing
  <2>1. CASE j \in DOMAIN s
    BY <1>1, <1>2, <2>1 DEF Increasing
  <2>2. CASE j \notin DOMAIN s /\ i \in DOMAIN s
    BY <1>1, <1>2, <2>2 DEF Behind
  <2>3. CASE j \notin DOMAIN s /\ i \notin DOMAIN s
    <3>1. /\ i - Len(s) \in DOMAIN t /\ w[i] = t[i - Len(s)]
          /\ j - Len(s) \in DOMAIN t /\ w[j] = t[j - Len(s)]
          /\ i - Len(s) < j - Len(s)
      BY <1>1, <1>2, <2>3
    <3>2. QED
      BY <3>1 DEF Increasing
  <2>4. QED
    BY <2>1, <2>2, <2>3
<1>5. \A n \in Int : Before(s, n) /\ Before(t, n) => Before(w, n)
  BY <1>2 DEF Before
<1>6. \A u \in Seq(Events) : Behind(s, u) /\ Behind(t, u) => Behind(w, u)
  BY <1>2 DEF Behind
<1>7. QED
  BY <1>4, <1>5, <1>6 DEF w

LEMMA Appended ==
  ASSUME NEW s \in Seq(Events), NEW e \in Events, Increasing(s), Before(s, e)
  PROVE  /\ Increasing(Append(s, e))
         /\ \A n \in Int : Before(s, n) /\ e < n => Before(Append(s, e), n)
         /\ \A u \in Seq(Events) :
              Behind(s, u) /\ Ahead(e, u) => Behind(Append(s, e), u)
         /\ \A u \in Seq(Events) :
              Behind(u, s) /\ Before(u, e) => Behind(u, Append(s, e))
         /\ \A n \in Int : Ahead(n, s) /\ n < e => Ahead(n, Append(s, e))
<1> DEFINE w == Append(s, e)
<1>1. /\ DOMAIN s = 1..Len(s) /\ DOMAIN w = 1..(Len(s) + 1) /\ Len(s) \in Nat
      /\ w[Len(s) + 1] = e
      /\ \A i \in DOMAIN s : w[i] = s[i]
  OBVIOUS
<1> HIDE DEF w
<1>2. \A i \in DOMAIN w : \/ i \in DOMAIN s /\ w[i] = s[i]
                          \/ i = Len(s) + 1 /\ w[i] = e
  BY <1>1
<1>3. Increasing(w)
  BY <1>1, <1>2 DEF Increasing, Before
<1>4. /\ \A n \in Int : Before(s, n) /\ e < n => Before(w, n)
      /\ \A u \in Seq(Events) : Behind(s, u) /\ Ahead(e, u) => Behind(w, u)
  BY <1>2 DEF Before, Behind, Ahead
<1>5. /\ \A u \in Seq(Events) : Behind(u, s) /\ Before(u, e) => Behind(u, w)
      /\ \A n \in Int : Ahead(n, s) /\ n < e => Ahead(n, w)
  BY <1>2 DEF Before, Behind, Ahead
<1>6. QED
  BY <1>3, <1>4, <1>5 DEF w

LEMMA LaterBound ==
  ASSUME NEW s \in Seq(Events), NEW m \in Int, NEW n \in Int, m <= n,
         Before(s, m)
  PROVE  Before(s, n)
  BY PipelineAssumption DEF Before, Events

LEMMA StreamInit == Init => Stream
<1> SUFFICES ASSUME Init PROVE Stream
  OBVIOUS
<1>1. DOMAIN << >> = {}
  OBVIOUS
<1>2. /\ posted = << >> /\ batch = << >> /\ logged = << >> /\ eventCh = << >>
      /\ loop = "select"
  BY DEF Init
<1>3. QED
  BY <1>1, <1>2 DEF Stream, Increasing, Behind, Before

\* What a flush of b leaves in order: the posted events are the old ones, or
\* the old ones and b.
LEMMA FlushInOrder ==
  ASSUME TypeOK, NEW b \in Seq(Events), NEW ok \in BOOLEAN, Flush(b, ok),
         Increasing(posted), Increasing(b), Behind(posted, b)
  PROVE  /\ batch' = << >> /\ Increasing(posted')
         /\ \A n \in Int : Before(posted, n) /\ Before(b, n) =>
              Before(posted', n)
         /\ \A u \in Seq(Events) : Behind(posted, u) /\ Behind(b, u) =>
              Behind(posted', u)
<1>1. posted \in Seq(Events)
  BY DEF TypeOK
<1>2. batch' = << >> /\ (posted' = posted \/ posted' = posted \o b)
  BY DEF Flush
<1>3. CASE posted' = posted
  BY <1>2, <1>3
<1>4. CASE posted' = posted \o b
  BY <1>1, <1>2, <1>4, Joined
<1>5. QED
  BY <1>2, <1>3, <1>4

LEMMA StreamStep == PInv /\ Stream /\ [Next]_vars => Stream'
<1> SUFFICES ASSUME PInv, Stream, [Next]_vars PROVE Stream'
  OBVIOUS
<1> USE PipelineAssumption
<1>t. /\ eventCh \in Seq(Events) /\ batch \in Seq(Events)
      /\ posted \in Seq(Events) /\ logged \in Seq(Events)
      /\ received \in Nat /\ Fresh \in Int
  BY DEF PInv, TypeOK, Fresh
<1>e. /\ DOMAIN << >> = {} /\ << >> \in Seq(Events)
      /\ Increasing(<< >>) /\ \A n : Before(<< >>, n)
      /\ \A u : Behind(<< >>, u) /\ Behind(u, << >>)
  BY DEF Increasing, Before, Behind
<1>1. CASE /\ UNCHANGED <<posted, batch, logged, eventCh, loop, cur>>
           /\ Fresh <= Fresh' /\ Fresh' \in Int
  <2>1. /\ Before(posted, Fresh') /\ Before(batch, Fresh')
        /\ Before(logged, Fresh') /\ Before(eventCh, Fresh')
    BY <1>t, <1>1, LaterBound DEF Stream
  <2>2. loop = "process" => cur < Fresh'
    BY <1>t, <1>1 DEF Stream, PInv, Phases, Events
  <2>3. QED
    BY <1>1, <2>1, <2>2 DEF Stream
<1>2. CASE EmitChecks \/ EmitCounts \/ EmitterEnds
  BY <1>1, <1>2, <1>t DEF EmitChecks, EmitCounts, EmitterEnds, KeepLoop, webhook,
     Fresh
<1>3. CASE EmitSends
  <2>1. /\ emitter = "counted" /\ emitter' = "idle" /\ chanOpen
        /\ received \in Events /\ received' = received
        /\ UNCHANGED <<loop, cur, batch, posted, logged>>
        /\ Fresh = received /\ Fresh' = received + 1
    BY <1>3 DEF EmitSends, KeepLoop, webhook, PInv, TypeOK, Phases, Events,
       Fresh
  <2>2. CASE eventCh' = eventCh
    BY <1>1, <2>1, <2>2, <1>t
  <2>3. CASE eventCh' = Append(eventCh, received)
    <3>1. /\ Before(posted, received) /\ Before(batch, received)
          /\ Before(logged, received) /\ Before(eventCh, received)
          /\ Increasing(eventCh)
      BY <2>1 DEF Stream
    <3>2. /\ Before(posted, Fresh') /\ Before(batch, Fresh')
          /\ Before(logged, Fresh') /\ Before(eventCh, Fresh')
      BY <3>1, <2>1, <1>t, LaterBound
    <3>3. Increasing(eventCh') /\ Before(eventCh', Fresh')
      BY <1>t, <2>1, <2>3, <3>1, <3>2, Appended
    <3>4. /\ Behind(posted, eventCh') /\ Behind(batch, eventCh')
          /\ Behind(logged, eventCh')
      BY <1>t, <2>1, <2>3, <3>1, Appended DEF Stream
    <3>5. loop = "process" => Ahead(cur, eventCh') /\ cur < Fresh'
      BY <1>t, <2>1, <2>3, <3>1, Appended DEF Stream, PInv, Phases, Events
    <3>6. QED
      BY <2>1, <3>2, <3>3, <3>4, <3>5 DEF Stream
  <2>4. QED
    BY <1>3, <2>1, <2>2, <2>3 DEF EmitSends
<1>4. CASE LoopTakes
  <2>1. /\ cur' = eventCh[1] /\ loop' = "process"
        /\ eventCh \in Seq(Events) /\ eventCh # << >> /\ eventCh' = Tail(eventCh)
        /\ UNCHANGED <<batch, posted, logged, emitter, received>>
        /\ Fresh' = Fresh
    BY <1>4, <1>t DEF LoopTakes, KeepEmit, webhook, Fresh
  <2>2. /\ DOMAIN eventCh = 1..Len(eventCh) /\ Len(eventCh) \in Nat \ {0}
        /\ DOMAIN eventCh' = 1..(Len(eventCh) - 1)
        /\ \A i \in DOMAIN eventCh' : /\ i + 1 \in DOMAIN eventCh
                                      /\ eventCh'[i] = eventCh[i + 1]
    BY <2>1
  <2>3. Increasing(eventCh') /\ Ahead(cur', eventCh') /\ Before(eventCh', Fresh)
    BY <2>1, <2>2 DEF Stream, Increasing, Ahead, Before
  <2>4. /\ Before(posted, cur') /\ Before(batch, cur') /\ Before(logged, cur')
        /\ cur' < Fresh
    BY <2>1, <2>2 DEF Stream, Behind, Before
  <2>5. /\ Behind(posted, eventCh') /\ Behind(batch, eventCh')
        /\ Behind(logged, eventCh')
    BY <2>2 DEF Stream, Behind
  <2>6. QED
    BY <2>1, <2>3, <2>4, <2>5 DEF Stream
<1>5. CASE LoopExits
  BY <1>5 DEF LoopExits, KeepEmit, webhook, Fresh, Stream
<1>6. ASSUME NEW due \in BOOLEAN, NEW ok1 \in BOOLEAN, NEW ok2 \in BOOLEAN,
             Process(due, ok1, ok2)
      PROVE  Stream'
  <2>1. /\ loop = "process" /\ loop' = "select" /\ cur \in Events
        /\ UNCHANGED <<eventCh, emitter, received>> /\ Fresh' = Fresh
        /\ logged' = logged \/ logged' = Append(logged, cur)
        /\ WebhookWrite(cur, due, ok1)
    BY <1>6 DEF Process, KeepEmit, PInv, Phases, Fresh, SyslogWrite
  <2>2. /\ Before(posted, cur) /\ Before(batch, cur) /\ Before(logged, cur)
        /\ Ahead(cur, eventCh) /\ cur < Fresh
    BY <2>1 DEF Stream
  <2>3. /\ Increasing(logged') /\ Behind(logged', eventCh)
        /\ Before(logged', Fresh)
    <3>1. CASE logged' = logged
      BY <3>1 DEF Stream
    <3>2. CASE logged' = Append(logged, cur)
      BY <1>t, <2>1, <2>2, <3>2, Appended DEF Stream
    <3>3. QED
      BY <2>1, <3>1, <3>2
  <2> DEFINE b == Append(batch, cur)
  <2>4. /\ b \in Seq(Events) /\ Increasing(b) /\ Before(b, Fresh)
        /\ Behind(b, eventCh) /\ Behind(posted, b)
    BY <1>t, <2>1, <2>2, Appended DEF Stream
  <2>5. \/ batch' = b /\ posted' = posted
        \/ Flush(b, ok1)
    BY <2>1 DEF WebhookWrite
  <2> HIDE DEF b
  <2>6. CASE batch' = b /\ posted' = posted
    BY <2>1, <2>3, <2>4, <2>6 DEF Stream
  <2>7. CASE Flush(b, ok1)
    <3>1. /\ batch' = << >> /\ Increasing(posted') /\ Before(posted', Fresh)
          /\ Behind(posted', eventCh)
      BY <1>t, <2>4, <2>7, FlushInOrder DEF Stream, PInv
    <3>2. QED
      BY <1>e, <2>1, <2>3, <3>1 DEF Stream
  <2>8. QED
    BY <2>5, <2>6, <2>7
<1>7. ASSUME NEW ok \in BOOLEAN, LoopFlushes(ok) \/ CloseSinks(ok)
      PROVE  Stream'
  <2>1. /\ Flush(batch, ok) /\ loop' = loop /\ loop # "process"
        /\ UNCHANGED <<eventCh, emitter, received, logged>> /\ Fresh' = Fresh
    BY <1>7, Zenon DEF LoopFlushes, CloseSinks, KeepEmit, PInv, TypeOK, Phases, Fresh
  <2>2. /\ batch' = << >> /\ Increasing(posted') /\ Before(posted', Fresh)
        /\ Behind(posted', eventCh)
    BY <1>t, <2>1, FlushInOrder DEF Stream, PInv
  <2>3. QED
    BY <1>e, <2>1, <2>2 DEF Stream
<1>8. CASE CloseFlags \/ CloseChannel \/ CloseWaits
  BY <1>1, <1>8, <1>t DEF CloseFlags, CloseChannel, CloseWaits, KeepSinks,
     KeepEmit, webhook, Fresh
<1>9. CASE UNCHANGED vars
  BY <1>1, <1>9, <1>t DEF vars, pipelineCounters, webhook, Fresh
<1>10. QED
  BY <1>2, <1>3, <1>4, <1>5, <1>6, <1>7, <1>8, <1>9 DEF Next, Terminated

\* What the webhook has posted and still batches, and what the syslog has, is
\* in the order of emission and without repetition, for every interleaving of
\* Emit, the loop, its flush ticker and Close, and every failed post.
THEOREM SinksInOrder == Spec => []InOrder
<1>1. PInv /\ Stream => InOrder
  BY Joined DEF PInv, TypeOK, Stream, InOrder
<1>2. Spec => []Stream
  BY StreamInit, StreamStep, PipelineAlways, PTL DEF Spec
<1>3. QED
  BY PipelineAlways, <1>1, <1>2, PTL
-----------------------------------------------------------------------------
(* The server's books: the registry of agents and the canary analyzer. *)

RegistryInv == R!TypeOK /\ R!StatusMeansSilence

LEMMA RegistryInit == R!Init => RegistryInv
  BY RegistryAssumption DEF R!Init, RegistryInv, R!TypeOK, R!Oldest,
     R!StatusMeansSilence

LEMMA RegistryStep ==
  ASSUME RegistryInv, R!Next
  PROVE  RegistryInv'
<1> USE RegistryAssumption DEF R!Oldest
<1>1. ASSUME NEW a \in Fleet, R!RegisterAgent(a) PROVE RegistryInv'
  BY <1>1 DEF RegistryInv, R!TypeOK, R!StatusMeansSilence, R!RegisterAgent
<1>2. ASSUME NEW a \in Fleet,
             R!SendHeartbeat(a) \/ R!HeartbeatLost(a) \/ R!AgentStops(a)
      PROVE  RegistryInv'
  <2>1. UNCHANGED <<status, age>>
    BY <1>2 DEF R!SendHeartbeat, R!HeartbeatLost, R!AgentStops
  <2>2. running' \in [Fleet -> BOOLEAN] /\ flight' \in [Fleet -> 0..MaxFlight]
    <3>1. CASE R!SendHeartbeat(a)
      BY <3>1 DEF RegistryInv, R!TypeOK, R!SendHeartbeat
    <3>2. CASE R!HeartbeatLost(a)
      BY <3>2 DEF RegistryInv, R!TypeOK, R!HeartbeatLost
    <3>3. CASE R!AgentStops(a)
      BY <3>3 DEF RegistryInv, R!TypeOK, R!AgentStops
    <3>4. QED
      BY <1>2, <3>1, <3>2, <3>3
  <2>3. QED
    BY <2>1, <2>2 DEF RegistryInv, R!TypeOK, R!StatusMeansSilence
<1>3. ASSUME NEW a \in Fleet, R!Heartbeat(a) PROVE RegistryInv'
  BY <1>3 DEF RegistryInv, R!TypeOK, R!StatusMeansSilence, R!Heartbeat
<1>4. CASE R!MarkStaleAgents
  <2>1. \A a \in Fleet :
          /\ R!Checked(a) \in {"unknown", "active", "stale", "disconnected"}
          /\ R!Checked(a) = "stale" => age[a] > Threshold
          /\ R!Checked(a) = "disconnected" => age[a] > 3 * Threshold
    BY DEF RegistryInv, R!TypeOK, R!StatusMeansSilence, R!Checked
  <2>2. QED
    BY <1>4, <2>1 DEF RegistryInv, R!TypeOK, R!StatusMeansSilence,
       R!MarkStaleAgents
<1>5. CASE R!ServerRestart
  BY <1>5 DEF RegistryInv, R!TypeOK, R!StatusMeansSilence, R!ServerRestart
<1>6. CASE R!Tick
  <2>1. \A a \in Fleet : age'[a] \in 0..R!Oldest /\ age'[a] >= age[a]
    BY <1>6 DEF RegistryInv, R!TypeOK, R!Tick
  <2>2. QED
    BY <1>6, <2>1 DEF RegistryInv, R!TypeOK, R!StatusMeansSilence, R!Tick
<1>7. QED
  BY <1>1, <1>2, <1>3, <1>4, <1>5, <1>6 DEF R!Next

LEMMA CanaryInit == C!Init => C!TypeOK
  BY CanaryAssumption DEF C!Init, C!TypeOK

LEMMA CanaryStep ==
  ASSUME C!TypeOK, C!Next
  PROVE  C!TypeOK'
<1> USE CanaryAssumption
<1> DEFINE Sound(c) == /\ c \in C!Counters /\ c.baselineDeny <= c.baselineTotal
                       /\ c.canaryDeny <= c.canaryTotal
<1>1. Sound(C!Counted)
  BY DEF C!Counted, C!Fresh, C!TypeOK, C!Counters
<1>2. ASSUME NEW c \in C!Configs, C!Configure(c) PROVE C!TypeOK'
  <2>1. config' = c /\ counters' = C!Counted /\ Sound(counters')
    BY <1>1, <1>2 DEF C!Configure
  <2> HIDE DEF Sound
  <2>2. QED
    BY <1>2, <2>1 DEF C!Configure, C!TypeOK, Sound, C!Counters, C!Configs, C!None
<1>3. ASSUME NEW i \in BOOLEAN, NEW d \in BOOLEAN, C!RecordDecision(i, d)
      PROVE  C!TypeOK'
  <2>1. Sound(counters')
    <3> DEFINE k == C!Counted
               e == IF d THEN 1 ELSE 0
    <3>1. Sound(k) /\ e \in 0..1
      BY <1>1
    <3>2. \/ /\ k.canaryTotal < MaxSamples
             /\ counters' = [k EXCEPT !.canaryTotal = k.canaryTotal + 1,
                                      !.canaryDeny = k.canaryDeny + e]
          \/ /\ k.baselineTotal < MaxSamples
             /\ counters' = [k EXCEPT !.baselineTotal = k.baselineTotal + 1,
                                      !.baselineDeny = k.baselineDeny + e]
      BY <1>3 DEF C!RecordDecision
    <3> HIDE DEF k, e
    <3>3. /\ e \in 0..1 /\ k.startedAt \in 0..MaxTime /\ k.rolledBack \in BOOLEAN
          /\ k.baselineTotal \in 0..MaxSamples /\ k.baselineDeny \in 0..MaxSamples
          /\ k.canaryTotal \in 0..MaxSamples /\ k.canaryDeny \in 0..MaxSamples
          /\ k.baselineDeny <= k.baselineTotal /\ k.canaryDeny <= k.canaryTotal
      BY <3>1 DEF C!Counters
    <3>4. CASE /\ k.canaryTotal < MaxSamples
               /\ counters' = [k EXCEPT !.canaryTotal = k.canaryTotal + 1,
                                        !.canaryDeny = k.canaryDeny + e]
      <4>1. counters' = [baselineTotal |-> k.baselineTotal,
                         baselineDeny |-> k.baselineDeny,
                         canaryTotal |-> k.canaryTotal + 1,
                         canaryDeny |-> k.canaryDeny + e,
                         startedAt |-> k.startedAt, rolledBack |-> k.rolledBack]
        BY <3>1, <3>4, Zenon DEF C!Counters
      <4>2. /\ k.canaryTotal + 1 \in 0..MaxSamples /\ k.canaryDeny + e \in 0..MaxSamples
            /\ k.canaryDeny + e <= k.canaryTotal + 1
        BY <3>3, <3>4
      <4>3. QED
        BY <3>3, <4>1, <4>2 DEF C!Counters
    <3>5. CASE /\ k.baselineTotal < MaxSamples
               /\ counters' = [k EXCEPT !.baselineTotal = k.baselineTotal + 1,
                                        !.baselineDeny = k.baselineDeny + e]
      <4>1. counters' = [baselineTotal |-> k.baselineTotal + 1,
                         baselineDeny |-> k.baselineDeny + e,
                         canaryTotal |-> k.canaryTotal,
                         canaryDeny |-> k.canaryDeny,
                         startedAt |-> k.startedAt, rolledBack |-> k.rolledBack]
        BY <3>1, <3>5, Zenon DEF C!Counters
      <4>2. /\ k.baselineTotal + 1 \in 0..MaxSamples
            /\ k.baselineDeny + e \in 0..MaxSamples
            /\ k.baselineDeny + e <= k.baselineTotal + 1
        BY <3>3, <3>5
      <4>3. QED
        BY <3>3, <4>1, <4>2 DEF C!Counters
    <3>6. QED
      BY <3>2, <3>4, <3>5
  <2>2. QED
    BY <1>3, <2>1 DEF C!RecordDecision, C!TypeOK, C!Counters, C!Configs, C!None
<1>4. CASE C!Evaluate
  <2>1. CASE config = C!None \/ counters = C!None
    BY <1>4, <2>1 DEF C!Evaluate, C!TypeOK, C!Counters, C!Configs, C!None
  <2>2. CASE config # C!None /\ counters # C!None
    <3>1. Sound(counters)
      BY <2>2 DEF C!TypeOK
    <3>2. \/ counters' = counters /\ rollout' = rollout
          \/ /\ counters' = [counters EXCEPT !.rolledBack = TRUE]
             /\ rollout' = C!Aborted
      BY <1>4, <2>2 DEF C!Evaluate
    <3>3. Sound(counters') /\ rollout' \in {"none", "active", "completed", "aborted"}
      BY <3>1, <3>2, Zenon DEF C!Counters, C!Aborted, C!TypeOK
    <3>4. /\ verdict' \in {"none", "pending", "healthy", "degraded", "rolled-back"}
          /\ UNCHANGED <<config, started, now>>
      BY <1>4, <2>2 DEF C!Evaluate
    <3>5. QED
      BY <3>3, <3>4 DEF C!TypeOK, C!Counters, C!Configs, C!None
  <2>3. QED
    BY <2>1, <2>2
<1>5. CASE C!Reset
  BY <1>5 DEF C!Reset, C!TypeOK, C!None
<1>6. CASE C!CreateRollout \/ C!EndRollout("completed") \/ C!EndRollout("aborted")
  BY <1>6 DEF C!CreateRollout, C!EndRollout, C!TypeOK, C!Counters, C!Configs,
     C!None
<1>7. CASE C!Tick
  BY <1>7 DEF C!Tick, C!TypeOK, C!Counters, C!Configs, C!None
<1>8. QED
  BY <1>2, <1>3, <1>4, <1>5, <1>6, <1>7 DEF C!Next

BooksInv == RegistryInv /\ C!TypeOK

LEMMA BooksAlways == BooksSpec => []BooksInv
<1>1. BooksInit => BooksInv
  BY RegistryInit, CanaryInit DEF BooksInit, BooksInv
<1>2. BooksInv /\ [BooksNext]_books => BooksInv'
  <2> SUFFICES ASSUME BooksInv, [BooksNext]_books PROVE BooksInv'
    OBVIOUS
  <2>1. ASSUME UNCHANGED registry PROVE RegistryInv'
    BY <2>1 DEF registry, BooksInv, RegistryInv, R!TypeOK, R!StatusMeansSilence,
       R!Oldest
  <2>2. ASSUME UNCHANGED canary PROVE C!TypeOK'
    BY <2>2 DEF canary, BooksInv, C!TypeOK, C!Counters, C!Configs, C!None
  <2>3. CASE Agent(R!Next)
    BY <2>2, <2>3, RegistryStep DEF Agent, BooksInv
  <2>4. CASE Analyze
    BY <2>1, <2>4, CanaryStep DEF Analyze, BooksInv
  <2>5. CASE UNCHANGED books
    BY <2>1, <2>2, <2>5 DEF books, BooksInv
  <2>6. QED
    BY <2>3, <2>4, <2>5 DEF BooksNext
<1>3. QED
  BY <1>1, <1>2, PTL DEF BooksSpec

\* MarkStaleAgents shows an agent as stale or disconnected only after the
\* silence it stands for, for every threshold and any number of agents, however
\* its check, late heartbeats and restarts interleave.
THEOREM SilenceIsReal == BooksSpec => []StatusMeansSilence
<1>1. BooksInv => StatusMeansSilence
  BY DEF BooksInv, RegistryInv, StatusMeansSilence
<1>2. QED
  BY BooksAlways, <1>1, PTL

\* A difference of two rates above a threshold that is not negative, as
\* Evaluate computes it without dividing.
LEMMA RatesDiffer ==
  ASSUME NEW b \in Nat, NEW c \in Nat, NEW bd \in Nat, NEW cd \in Nat,
         NEW delta \in Nat, (cd * b - bd * c) * 100 > delta * b * c
  PROVE  cd * b > bd * c /\ cd > 0
<1> DEFINE x == cd * b
           y == bd * c
           z == delta * b * c
<1>1. x \in Nat /\ y \in Nat /\ z \in Nat
  <2>1. \A m, n \in Nat : m * n \in Nat
    OBVIOUS
  <2>2. QED
    BY <2>1
<1>2. (x - y) * 100 > z
  OBVIOUS
<1>3. cd = 0 => x = 0
  OBVIOUS
<1> HIDE DEF x, y, z
<1>4. x > y /\ x > 0
  BY <1>1, <1>2
<1>5. cd > 0
  BY <1>3, <1>4
<1>6. QED
  BY <1>4, <1>5 DEF x, y

\* Evaluate rolls back only when the canary cohort denies a larger share than
\* the baseline and both have samples, for every configuration.
THEOREM RollbacksHaveEvidence == BooksSpec => RollbackOnEvidence
<1>1. ASSUME BooksInv, C!RollsBack
      PROVE  /\ counters.baselineTotal > 0 /\ counters.canaryDeny > 0
             /\ counters.canaryDeny * counters.baselineTotal
                  > counters.baselineDeny * counters.canaryTotal
  <2>1. config # C!None /\ counters # C!None /\ C!Exceeds
    BY <1>1 DEF C!RollsBack, C!Evaluate
  <2>2. counters \in C!Counters /\ config \in C!Configs
    BY <1>1, <2>1 DEF BooksInv, C!TypeOK
  <2>3. /\ counters.baselineTotal \in Nat /\ counters.canaryTotal \in Nat
        /\ counters.baselineDeny \in Nat /\ counters.canaryDeny \in Nat
        /\ config.delta \in Nat
    <3>1. \A c \in C!Counters : /\ c.baselineTotal \in Nat /\ c.canaryTotal \in Nat
                                /\ c.baselineDeny \in Nat /\ c.canaryDeny \in Nat
      BY CanaryAssumption DEF C!Counters
    <3>2. \A c \in C!Configs : c.delta \in Nat
      BY CanaryAssumption, Zenon DEF C!Configs
    <3>3. QED
      BY <2>2, <3>1, <3>2, Zenon
  <2>4. QED
    BY <2>1, <2>3, RatesDiffer DEF C!Exceeds
<1>2. BooksInv /\ [BooksNext]_books =>
        [C!RollsBack =>
           /\ counters.baselineTotal > 0 /\ counters.canaryDeny > 0
           /\ counters.canaryDeny * counters.baselineTotal
                > counters.baselineDeny * counters.canaryTotal]_books
  BY <1>1
<1>3. QED
  BY BooksAlways, <1>2, PTL DEF BooksSpec, RollbackOnEvidence

\* A rollout that was there when the analyzer rolled back is never active again
\* without its knowing, in any order of the analyzer's and the operator's steps.
THEOREM RollbacksHold == BooksSpec => RollbackHolds
<1> DEFINE Holds == Unwatched' => Unwatched \/ rollout = "none"
<1>1. ASSUME BooksInv, C!Next PROVE Holds
  <2>1. counters = C!None \/ counters \in C!Counters
    BY <1>1 DEF BooksInv, C!TypeOK
  <2>2. C!Fresh.rolledBack = FALSE
    BY DEF C!Fresh
  <2>3. CASE \E c \in C!Configs : C!Configure(c)
    BY <2>2, <2>3 DEF C!Configure, C!Counted, Unwatched
  <2>4. CASE \E i, d \in BOOLEAN : C!RecordDecision(i, d)
    <3>1. counters'.rolledBack = C!Counted.rolledBack /\ rollout' = rollout
      BY <2>1, <2>4 DEF C!RecordDecision, C!Counted, C!Fresh, C!Counters
    <3>2. QED
      BY <2>2, <3>1 DEF C!Counted, Unwatched
  <2>5. CASE C!Evaluate
    BY <2>5 DEF C!Evaluate, C!Aborted, Unwatched
  <2>6. CASE C!Reset
    BY <2>6 DEF C!Reset, Unwatched
  <2>7. CASE C!CreateRollout
    BY <2>7 DEF C!CreateRollout
  <2>8. CASE C!Tick
    BY <2>8 DEF C!Tick, Unwatched
  <2>9. CASE C!EndRollout("completed") \/ C!EndRollout("aborted")
    BY <2>9 DEF C!EndRollout, Unwatched
  <2>10. QED
    BY <1>1, <2>3, <2>4, <2>5, <2>6, <2>7, <2>8, <2>9, Zenon DEF C!Next
<1>2. BooksInv /\ [BooksNext]_books => [Holds]_books
  <2> SUFFICES ASSUME BooksInv, BooksNext PROVE Holds
    OBVIOUS
  <2>1. CASE Analyze
    BY <1>1, <2>1 DEF Analyze
  <2>2. CASE Agent(R!Next)
    <3>1. counters' = counters /\ rollout' = rollout
      BY <2>2, Zenon DEF Agent, canary
    <3>2. QED
      BY <3>1 DEF Unwatched
  <2>3. QED
    BY <2>1, <2>2, Zenon DEF BooksNext
<1>3. QED
  BY BooksAlways, <1>2, PTL DEF BooksSpec, RollbackHolds
=============================================================================
