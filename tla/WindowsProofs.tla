---------------------------- MODULE WindowsProofs ----------------------------
(***************************************************************************)
(* What holds of the Windows platform for every machine, every set of      *)
(* threads and subjects, every capacity and any number of runs of the      *)
(* daemon.  They rest on four invariants that are inductive each by        *)
(* itself; the fourth, on the events, needs what the parser makes of every *)
(* record, which follows from the layout of the structs.                   *)
(***************************************************************************)
EXTENDS WindowsPlatform, LayoutProofs

LEMMA Actions ==
  ASSUME [Next]_vars
  PROVE  \/ Load \/ StartLoader \/ StartConsumer \/ Serve
         \/ \E k \in Programs : EnableProgram(k)
         \/ \E step \in {"etwProcess", "etwFile", "etwNetwork"},
               k \in Programs : EnableSession(step, k)
         \/ Cancel \/ CloseStopChan \/ Release \/ StopConsumer \/ StopWaits
         \/ Close \/ Again
         \/ Run(Kernel) \/ Run(Poller) \/ Run(LoopHandles) \/ Run(LoopEnds)
         \/ UNCHANGED vars
  BY DEF Next, Start, Stop, Programs
-----------------------------------------------------------------------------
(* The ring buffer and its poller. *)

RingInv ==
  /\ poller \in {"check", "poll", "callback"} => rb /\ object # {}
  /\ pc = "new" => poller = "none"

\* What happens in the kernel and in the loop leaves the loader as it is.
LEMMA RunKeepsLoader ==
  ASSUME Run(Kernel) \/ Run(LoopHandles) \/ Run(LoopEnds)
  PROVE  UNCHANGED <<loader, pc>>
<1>1. CASE Run(Kernel)
  <2>1. PICK build, o, blocked : Monitors(build, o, blocked)
    BY <1>1, Zenon DEF Run, Kernel, process_monitor, file_monitor, network_monitor,
                bind_process, bind_file, bind_network
  <2> QED
    BY <1>1, <2>1 DEF Run, Monitors, pvars
<1>2. CASE Run(LoopHandles) \/ Run(LoopEnds)
  BY <1>2 DEF Run, LoopHandles, LoopEnds, pvars
<1> QED
  BY <1>1, <1>2

LEMMA RingInductive == RingInv /\ [Next]_vars => RingInv'
<1> SUFFICES ASSUME RingInv, [Next]_vars PROVE RingInv'
  OBVIOUS
<1> USE DEF RingInv
<1>1. CASE Load
  BY <1>1 DEF Load
<1>2. CASE StartLoader
  <2>1. pc' = "starting" /\ object' = object
    BY <1>2 DEF StartLoader, Turn
  <2>2. PICK ok \in BOOLEAN : /\ rb' = (ok /\ object # {})
                              /\ poller' = IF rb' THEN "check" ELSE "wait"
    BY <1>2 DEF StartLoader
  <2> QED
    BY <2>1, <2>2, Zenon
<1>3. CASE StartConsumer \/ Serve
  BY <1>3 DEF StartConsumer, Serve, Turn, lvars, loader
<1>4. CASE \E k \in Programs : EnableProgram(k)
  BY <1>4 DEF EnableProgram, Turn, loader
<1>5. CASE \E step \in {"etwProcess", "etwFile", "etwNetwork"},
              k \in Programs : EnableSession(step, k)
  <2>1. PICK step, k : EnableSession(step, k)
    BY <1>5
  <2> QED
    BY <2>1 DEF EnableSession, Turn, lvars, loader
<1>6. CASE Cancel \/ CloseStopChan \/ Release
  BY <1>6 DEF Cancel, CloseStopChan, Release, loader
<1>7. CASE StopConsumer \/ StopWaits \/ Close
  BY <1>7 DEF StopConsumer, StopWaits, Close, lvars, loader
<1>8. CASE Again
  BY <1>8 DEF Again
<1>9. CASE Run(Kernel) \/ Run(LoopHandles) \/ Run(LoopEnds)
  BY <1>9, RunKeepsLoader DEF loader
<1>10. CASE Run(Poller)
  BY <1>10 DEF Run, Poller, PollerQuits, PollerPolls, PollFinds,
               ringBufferCallback, PollReturns, pvars
<1>11. CASE UNCHANGED vars
  BY <1>11 DEF vars, lvars, loader, pvars
<1> QED
  BY <1>1, <1>2, <1>3, <1>4, <1>5, <1>6, <1>7, <1>8, <1>9, <1>10, <1>11, Actions

\* EBPFLoader.Stop (ebpf_loader.go:801) frees the ring buffer and closes the
\* object only when no poller can still use them, and Start starts a poller
\* only with both.
THEOREM RingIsHeld == Spec => []RingHeld
<1>1. Init => RingInv
  BY DEF Init, LoaderInit, PlatformInit, RingInv
<1>2. RingInv => RingHeld
  BY DEF RingInv, RingHeld
<1> QED
  BY <1>1, <1>2, RingInductive, PTL DEF Spec
-----------------------------------------------------------------------------
(* The loader's counters. *)

\* A sequence of whatever elements.
Sequence(s) == Len(s) \in Nat /\ s = [i \in 1..Len(s) |-> s[i]]

LEMMA SeqSequence ==
  ASSUME NEW S, NEW s \in Seq(S)
  PROVE  Sequence(s)
<1>1. Len(s) \in Nat /\ s \in [1..Len(s) -> S]
  OBVIOUS
<1> QED
  BY <1>1 DEF Sequence

LEMMA AppendSequence ==
  ASSUME NEW s, NEW e, Sequence(s)
  PROVE  Sequence(Append(s, e)) /\ Len(Append(s, e)) = Len(s) + 1
<1> DEFINE S == {s[i] : i \in 1..Len(s)} \cup {e}
<1>1. s \in [1..Len(s) -> S] /\ Len(s) \in Nat
  BY DEF Sequence
<1>2. s \in Seq(S) /\ e \in S
  BY <1>1
<1> HIDE DEF S
<1>3. Append(s, e) \in Seq(S) /\ Len(Append(s, e)) = Len(s) + 1
  BY <1>2
<1> QED
  BY <1>3, SeqSequence, Zenon

LEMMA TailSequence ==
  ASSUME NEW s, Sequence(s), s # << >>
  PROVE  Sequence(Tail(s)) /\ Len(Tail(s)) = Len(s) - 1
<1> DEFINE S == {s[i] : i \in 1..Len(s)}
<1>1. s \in [1..Len(s) -> S] /\ Len(s) \in Nat
  BY DEF Sequence
<1>2. s \in Seq(S)
  BY <1>1
<1> HIDE DEF S
<1>3. Tail(s) \in Seq(S) /\ Len(Tail(s)) = Len(s) - 1
  BY <1>2
<1> QED
  BY <1>3, SeqSequence, Zenon

\* What is left when n is divided by w.
LEMMA Remainder ==
  ASSUME NEW w \in Nat \ {0}, NEW q \in Int, NEW r \in 0..(w - 1)
  PROVE  (r + q * w) % w = r
<1> DEFINE n == r + q * w
           d == n \div w
           m == n % w
<1>1. n \in Int
  OBVIOUS
<1> HIDE DEF n
<1>2. d \in Int /\ m \in 0..(w - 1) /\ n = w * d + m
  BY <1>1
<1> HIDE DEF d, m
<1>3. q = d
  <2>1. r + q * w = w * d + m
    BY <1>2 DEF n
  <2>2. CASE q > d
    <3>1. q * w >= (d + 1) * w
      BY <1>2, <2>2
    <3>2. (d + 1) * w = w * d + w
      BY <1>2
    <3> QED
      BY <1>2, <2>1, <3>1, <3>2
  <2>3. CASE q < d
    <3>1. d * w >= (q + 1) * w
      BY <1>2, <2>3
    <3>2. (q + 1) * w = q * w + w /\ d * w = w * d
      BY <1>2
    <3> QED
      BY <1>2, <2>1, <3>1, <3>2
  <2> QED
    BY <1>2, <2>2, <2>3
<1>4. q * w = w * d
  BY <1>2, <1>3
<1>5. m = r
  BY <1>2, <1>4 DEF n
<1> QED
  BY <1>5 DEF m, n

\* The counters agree up to whole turns.
Turns(k) == \E q \in Int : k = q * CounterSize

LEMMA TurnsAdd ==
  /\ Turns(0)
  /\ \A k \in Int : Turns(k) => Turns(k + CounterSize) /\ Turns(k - CounterSize)
<1> USE LoaderAssumption
<1>1. Turns(0)
  <2>1. 0 = 0 * CounterSize
    OBVIOUS
  <2> QED
    BY <2>1 DEF Turns
<1>2. ASSUME NEW k \in Int, Turns(k)
      PROVE  Turns(k + CounterSize) /\ Turns(k - CounterSize)
  <2>1. PICK q \in Int : k = q * CounterSize
    BY <1>2 DEF Turns
  <2>2. /\ k + CounterSize = (q + 1) * CounterSize
        /\ k - CounterSize = (q - 1) * CounterSize
    BY <2>1
  <2> QED
    BY <2>2 DEF Turns
<1> QED
  BY <1>1, <1>2

\* A counter moves by one, or by one and a turn back.
LEMMA AddsOne ==
  ASSUME NEW n \in 0..(CounterSize - 1)
  PROVE  /\ Add1(n) \in 0..(CounterSize - 1)
         /\ Add1(n) = n + 1 \/ Add1(n) = n + 1 - CounterSize
  BY LoaderAssumption DEF Add1

CountInv ==
  /\ {received, errors, dropped, handled} \subseteq 0..(CounterSize - 1)
  /\ Sequence(chan)
  /\ Turns((errors + dropped + handled + Len(chan)) - received)

\* Counting one record twice, once as received and once as what became of it.
LEMMA BothAdd ==
  ASSUME NEW k \in Int, Turns(k), NEW a \in {1, 1 - CounterSize},
         NEW b \in {1, 1 - CounterSize}
  PROVE  Turns(k + a - b)
<1> USE LoaderAssumption
<1>1. k + a - b \in {k, k + CounterSize, k - CounterSize}
  OBVIOUS
<1> QED
  BY <1>1, TurnsAdd

LEMMA CountInductive == CountInv /\ [Next]_vars => CountInv'
<1> SUFFICES ASSUME CountInv, [Next]_vars PROVE CountInv'
  OBVIOUS
<1>0. /\ {received, errors, dropped, handled} \subseteq 0..(CounterSize - 1)
      /\ Sequence(chan) /\ Len(chan) \in Nat
      /\ Turns((errors + dropped + handled + Len(chan)) - received)
  BY DEF CountInv, Sequence
<1> DEFINE diff == (errors + dropped + handled + Len(chan)) - received
<1>k. diff \in Int /\ Turns(diff) /\ CounterSize \in Nat \ {0}
  BY <1>0, LoaderAssumption
<1>t. /\ received \in Int /\ errors \in Int /\ dropped \in Int /\ handled \in Int
      /\ Len(chan) \in Int
  BY <1>0, <1>k
<1>a. \A n \in {received, errors, dropped, handled} :
        \E a \in {1, 1 - CounterSize} : Add1(n) = n + a
  <2> SUFFICES ASSUME NEW n \in 0..(CounterSize - 1)
               PROVE  \E a \in {1, 1 - CounterSize} : Add1(n) = n + a
    BY <1>0
  <2>1. n + 1 - CounterSize = n + (1 - CounterSize)
    BY <1>k
  <2> QED
    BY <2>1, AddsOne
<1>1. CASE UNCHANGED <<counts, chan>>
  BY <1>1 DEF CountInv, counts, Sequence, Turns
<1>2. CASE Again
  <2>1. /\ received' = 0 /\ dropped' = 0 /\ errors' = 0 /\ handled' = 0
        /\ chan' = << >>
    BY <1>2 DEF Again
  <2>2. Sequence(<< >>) /\ Len(<< >>) = 0
    BY DEF Sequence
  <2>3. 0 \in 0..(CounterSize - 1)
    BY <1>k
  <2>4. (errors' + dropped' + handled' + Len(chan')) - received' = 0
    BY <2>1, <2>2
  <2>5. Turns((errors' + dropped' + handled' + Len(chan')) - received')
    BY <2>4, TurnsAdd, Zenon
  <2> QED
    BY <2>1, <2>2, <2>3, <2>5, Zenon DEF CountInv, Turns
<1>3. CASE ringBufferCallback
  <2> DEFINE event == parseEBPFEvent(machine.build, Head(ring))
             item == [of |-> Head(ring), event |-> event]
             known == event.type \in Programs
             room == Len(chan) < ChanSize
  <2>1. /\ received' = Add1(received) /\ handled' = handled
        /\ errors' = IF known THEN errors ELSE Add1(errors)
        /\ dropped' = IF known /\ ~room THEN Add1(dropped) ELSE dropped
        /\ chan' = IF known /\ room THEN Append(chan, item) ELSE chan
    BY <1>3 DEF ringBufferCallback
  <2> HIDE DEF item, known, room, event
  <2>2. Sequence(Append(chan, item)) /\ Len(Append(chan, item)) = Len(chan) + 1
    BY <1>0, AppendSequence
  <2>3. Sequence(chan')
    BY <1>0, <2>1, <2>2, Zenon
  <2>4. {received', errors', dropped', handled'} \subseteq 0..(CounterSize - 1)
    BY <1>0, <2>1, AddsOne, SMTT(30), Z3T(30)
  <2>5. PICK b \in {1, 1 - CounterSize} : received' = received + b
    BY <1>a, <2>1, Zenon
  <2>6. \E a \in {1, 1 - CounterSize} :
          errors' + dropped' + handled' + Len(chan')
            = errors + dropped + handled + Len(chan) + a
    <3> DEFINE sum == errors + dropped + handled + Len(chan)
               sumP == errors' + dropped' + handled' + Len(chan')
    <3>1. CASE known /\ room
      <4>1. sumP = sum + 1
        BY <1>t, <2>1, <2>2, <3>1
      <4> QED
        BY <4>1
    <3>2. CASE known /\ ~room
      <4>1. PICK a \in {1, 1 - CounterSize} : dropped' = dropped + a
        BY <1>a, <2>1, <3>2, Zenon
      <4>2. errors' = errors /\ handled' = handled /\ chan' = chan /\ a \in Int
        BY <1>k, <2>1, <3>2
      <4>3. sumP = sum + a
        BY <1>t, <4>1, <4>2
      <4> QED
        BY <4>3
    <3>3. CASE ~known
      <4>1. PICK a \in {1, 1 - CounterSize} : errors' = errors + a
        BY <1>a, <2>1, <3>3, Zenon
      <4>2. dropped' = dropped /\ handled' = handled /\ chan' = chan /\ a \in Int
        BY <1>k, <2>1, <3>3
      <4>3. sumP = sum + a
        BY <1>t, <4>1, <4>2
      <4> QED
        BY <4>3
    <3> QED
      BY <3>1, <3>2, <3>3
  <2>7. PICK a \in {1, 1 - CounterSize} :
          errors' + dropped' + handled' + Len(chan')
            = errors + dropped + handled + Len(chan) + a
    BY <2>6
  <2>8. (errors' + dropped' + handled' + Len(chan')) - received' = diff + a - b
    <3>1. a \in Int /\ b \in Int
      BY <1>k
    <3>2. (errors' + dropped' + handled' + Len(chan')) - received'
            = (errors + dropped + handled + Len(chan) + a) - (received + b)
      BY <2>5, <2>7, Zenon
    <3>3. (errors + dropped + handled + Len(chan) + a) - (received + b)
            = diff + a - b
      BY <1>t, <3>1
    <3> QED
      BY <3>2, <3>3, Zenon
  <2>9. Turns(diff + a - b)
    <3> HIDE DEF diff
    <3> QED
      BY <1>k, BothAdd, Zenon
  <2> QED
    BY <2>3, <2>4, <2>8, <2>9, Zenon DEF CountInv, Turns
<1>4. CASE LoopHandles
  <2>1. /\ chan # << >> /\ chan' = Tail(chan) /\ handled' = Add1(handled)
        /\ UNCHANGED <<received, dropped, errors>>
    BY <1>4 DEF LoopHandles
  <2>2. Sequence(chan') /\ Len(chan') = Len(chan) - 1
    BY <1>0, <2>1, TailSequence, Zenon
  <2>3. {received', errors', dropped', handled'} \subseteq 0..(CounterSize - 1)
    BY <1>0, <2>1, AddsOne
  <2>4. PICK a \in {1, 1 - CounterSize} : handled' = handled + a
    BY <1>a, <2>1, Zenon
  <2>5. (errors' + dropped' + handled' + Len(chan')) - received' = diff + a - 1
    <3>1. a \in Int
      BY <1>k
    <3> QED
      BY <1>t, <2>1, <2>2, <2>4, <3>1
  <2>6. Turns(diff + a - 1)
    <3> HIDE DEF diff
    <3> QED
      BY <1>k, BothAdd, Zenon
  <2> QED
    BY <2>2, <2>3, <2>5, <2>6, Zenon DEF CountInv, Turns
<1>5. CASE Run(Kernel)
  <2>1. PICK build, o, blocked : Monitors(build, o, blocked)
    BY <1>5, Zenon DEF Run, Kernel, process_monitor, file_monitor, network_monitor,
                bind_process, bind_file, bind_network
  <2> QED
    BY <1>1, <2>1 DEF Monitors
<1>6. CASE Run(Poller) \/ Run(LoopHandles) \/ Run(LoopEnds)
  BY <1>1, <1>3, <1>4, <1>6 DEF Run, Poller, PollerQuits, PollerPolls,
                               PollFinds, PollReturns, LoopEnds
<1>7. CASE Load \/ StartLoader \/ Serve \/ Cancel \/ CloseStopChan \/ Release
  BY <1>1, <1>7 DEF Load, StartLoader, Serve, Cancel, CloseStopChan, Release
<1>8. CASE StartConsumer \/ StopConsumer \/ StopWaits \/ Close
  BY <1>1, <1>8 DEF StartConsumer, StopConsumer, StopWaits, Close, lvars
<1>9. ASSUME NEW k, EnableProgram(k) PROVE CountInv'
  BY <1>1, <1>9 DEF EnableProgram
<1>10. ASSUME NEW step, NEW k, EnableSession(step, k) PROVE CountInv'
  BY <1>1, <1>10 DEF EnableSession, lvars
<1>11. CASE UNCHANGED vars
  BY <1>1, <1>11 DEF vars, lvars
<1> QED
  BY <1>2, <1>5, <1>6, <1>7, <1>8, <1>9, <1>10, <1>11, Actions

\* However the poller, the loop and Stop interleave, the counters of
\* ebpf_loader.go:427 account for every record taken from the ring buffer.
THEOREM ReceivedIsAccounted == Spec => []ReceivedAccounted
<1>1. Init => CountInv
  <2> SUFFICES ASSUME Init PROVE CountInv
    OBVIOUS
  <2>1. /\ received = 0 /\ dropped = 0 /\ errors = 0 /\ handled = 0
        /\ chan = << >> /\ Sequence(chan) /\ Len(chan) = 0
        /\ 0 \in 0..(CounterSize - 1)
    BY LoaderAssumption DEF Init, LoaderInit, Sequence
  <2>2. (errors + dropped + handled + Len(chan)) - received = 0
    BY <2>1
  <2> QED
    BY <2>1, <2>2, TurnsAdd, Zenon DEF CountInv
<1>2. CountInv => ReceivedAccounted
  <2> SUFFICES ASSUME CountInv PROVE ReceivedAccounted
    OBVIOUS
  <2> DEFINE sum == errors + dropped + handled + Len(chan)
  <2>1. received \in 0..(CounterSize - 1) /\ sum \in Int /\ CounterSize \in Nat \ {0}
    BY LoaderAssumption DEF CountInv, Sequence
  <2>2. PICK q \in Int : sum - received = q * CounterSize
    BY DEF CountInv, Turns
  <2>3. sum = received + q * CounterSize
    BY <2>1, <2>2
  <2>4. (received + q * CounterSize) % CounterSize = received
    BY <2>1, Remainder, Zenon
  <2> QED
    BY <2>3, <2>4, Zenon DEF ReceivedAccounted
<1> QED
  BY <1>1, <1>2, CountInductive, PTL DEF Spec
-----------------------------------------------------------------------------
(* The ETW sessions. *)

\* What is left of Start as long as the consumer does not run: no session is
\* enabled before its turn.
Ahead ==
  {<<"loader", "process", "file", "network">>, <<"process", "file", "network">>,
   <<"file", "network">>, <<"network">>, << >>,
   <<"loader", "network", "consumer", "etwProcess", "etwFile">>,
   <<"network", "consumer", "etwProcess", "etwFile">>,
   <<"consumer", "etwProcess", "etwFile">>,
   <<"consumer", "etwProcess", "etwFile", "etwNetwork">>}

LEMMA AheadCalls ==
  /\ << >> \in Ahead
  /\ \A m \in Modes : Calls(m) \in Ahead
  BY DEF Ahead, Modes, Calls

LEMMA AheadTail ==
  ASSUME NEW t \in Ahead, t # << >>
  PROVE  /\ Head(t) \notin {"etwProcess", "etwFile", "etwNetwork"}
         /\ Head(t) # "consumer" => Tail(t) \in Ahead
<1>1. CASE t = <<"loader", "process", "file", "network">>
  <2>1. Tail(t) = <<"process", "file", "network">>
    BY <1>1
  <2> QED
    BY <1>1, <2>1 DEF Ahead
<1>2. CASE t = <<"process", "file", "network">>
  <2>1. Tail(t) = <<"file", "network">>
    BY <1>2
  <2> QED
    BY <1>2, <2>1 DEF Ahead
<1>3. CASE t = <<"file", "network">>
  <2>1. Tail(t) = <<"network">>
    BY <1>3
  <2> QED
    BY <1>3, <2>1 DEF Ahead
<1>4. CASE t = <<"network">>
  <2>1. Tail(t) = << >>
    BY <1>4
  <2> QED
    BY <1>4, <2>1 DEF Ahead
<1>5. CASE t = <<"loader", "network", "consumer", "etwProcess", "etwFile">>
  <2>1. Tail(t) = <<"network", "consumer", "etwProcess", "etwFile">>
    BY <1>5
  <2> QED
    BY <1>5, <2>1 DEF Ahead
<1>6. CASE t = <<"network", "consumer", "etwProcess", "etwFile">>
  <2>1. Tail(t) = <<"consumer", "etwProcess", "etwFile">>
    BY <1>6
  <2> QED
    BY <1>6, <2>1 DEF Ahead
<1>7. CASE t \in {<<"consumer", "etwProcess", "etwFile">>,
                   <<"consumer", "etwProcess", "etwFile", "etwNetwork">>}
  BY <1>7, SMTT(30), Z3T(30)
<1> QED
  BY <1>1, <1>2, <1>3, <1>4, <1>5, <1>6, <1>7, SMTT(30), Z3T(30) DEF Ahead

\* The sessions of the system are those found there and the daemon's own, and
\* the daemon has some of its own only while its consumer runs.
SessionInv ==
  /\ sessions = leftover \cup started /\ started \cap leftover = {}
  /\ ~running => started = {} /\ todo \in Ahead
  /\ pc # "starting" => todo = << >>
  /\ pc \in {"new", "starting", "serving", "cancelled"} => ~stopChan
  /\ pc \in {"looping", "stopped", "closed", "panicked"} => started = {}

LEMMA SessionInductive == SessionInv /\ [Next]_vars => SessionInv'
<1> SUFFICES ASSUME SessionInv, [Next]_vars PROVE SessionInv'
  OBVIOUS
<1> USE DEF SessionInv
<1>1. CASE Load
  <2>1. todo' \in Ahead
    BY <1>1, AheadCalls DEF Load, Modes
  <2>2. UNCHANGED <<sessions, leftover, started, running, stopChan>>
    BY <1>1 DEF Load, consumer
  <2>3. pc = "new" /\ (pc' = "starting" \/ (pc' = "failed" /\ todo' = << >>))
    BY <1>1 DEF Load
  <2> QED
    BY <2>1, <2>2, <2>3
<1>2. CASE StartLoader
  <2>1. pc' = "starting" /\ (~running => todo' \in Ahead)
    BY <1>2, AheadTail DEF StartLoader, Turn
  <2> QED
    BY <1>2, <2>1 DEF StartLoader, Turn, consumer
<1>3. CASE StartConsumer
  BY <1>3 DEF StartConsumer, Turn, lvars, loader
<1>4. ASSUME NEW k \in Programs, EnableProgram(k) PROVE SessionInv'
  <2>1. pc' = "starting" /\ (~running => todo' \in Ahead)
    BY <1>4, AheadTail DEF EnableProgram, Turn, Programs
  <2> QED
    BY <1>4, <2>1 DEF EnableProgram, Turn, consumer, loader
<1>5. ASSUME NEW step \in {"etwProcess", "etwFile", "etwNetwork"}, NEW k,
             EnableSession(step, k)
      PROVE  SessionInv'
  <2>1. running
    BY <1>5, AheadTail DEF EnableSession, Turn
  <2>2. /\ started' = started \/ (k \notin sessions /\ started' = started \cup {k})
        /\ sessions' = sessions \cup started' /\ leftover' = leftover
        /\ running' = running /\ pc' = "starting" /\ pc = "starting"
        /\ stopChan' = stopChan
    BY <1>5, SMTT(30), Z3T(30) DEF EnableSession, Turn, lvars, loader
  <2> QED
    BY <2>1, <2>2
<1>6. CASE Serve \/ Cancel \/ CloseStopChan \/ Release
  BY <1>6 DEF Serve, Cancel, CloseStopChan, Release, loader, consumer
<1>7. CASE StopConsumer
  BY <1>7, AheadCalls DEF StopConsumer
<1>8. CASE StopWaits \/ Close
  BY <1>8 DEF StopWaits, Close, consumer
<1>9. CASE Again
  BY <1>9, AheadCalls DEF Again
<1>10. CASE Run(Kernel) \/ Run(LoopHandles) \/ Run(LoopEnds)
  <2>1. UNCHANGED <<pvars, stopChan>>
    BY <1>10, RunKeepsLoader DEF loader, Run
  <2> QED
    BY <2>1 DEF pvars, consumer
<1>11. CASE Run(Poller)
  <2>1. UNCHANGED <<pvars, stopChan>>
    BY <1>11 DEF Run, Poller, PollerQuits, PollerPolls, PollFinds,
                 ringBufferCallback, PollReturns, loader
  <2> QED
    BY <2>1 DEF pvars, consumer
<1>12. CASE UNCHANGED vars
  BY <1>12 DEF vars, lvars, loader, pvars, consumer
<1> QED
  BY <1>1, <1>2, <1>3, <1>4, <1>5, <1>6, <1>7, <1>8, <1>9, <1>10, <1>11, <1>12,
     Actions, Zenon

\* Consumer.Stop (consumer.go:265) leaves exactly the sessions the daemon found
\* when it was started, after any number of crashed daemons and whichever of
\* the calls of WindowsPlatform.Start failed.
THEOREM SessionsAreReleased == Spec => []SessionsReleased
<1>1. Init => SessionInv
  BY AheadCalls DEF Init, LoaderInit, PlatformInit, SessionInv
<1>2. SessionInv => SessionsReleased
  BY DEF SessionInv, SessionsReleased
<1> QED
  BY <1>1, <1>2, SessionInductive, PTL DEF Spec

-----------------------------------------------------------------------------
(* The layout of the records. *)

\* Where the fields are, by program: packed, and aligned.
PackedAt ==
  [process |-> <<0, 4, 8, 12, 20, 24, 28, 284>>,
   file |-> <<0, 4, 8, 12, 20, 24, 28>>,
   network |-> <<0, 4, 8, 12, 20, 24, 28, 44, 60, 62, 64, 66>>]
AlignedAt ==
  [process |-> <<0, 4, 8, 16, 24, 28, 32, 288>>,
   file |-> <<0, 4, 8, 16, 24, 28, 32>>,
   network |-> <<0, 4, 8, 16, 24, 28, 32, 48, 64, 66, 68, 70>>]

LEMMA StructsAre ==
  ASSUME NEW k \in Programs
  PROVE  /\ IsStruct(GoStruct[k]) /\ \A i \in 1..Len(GoStruct[k]) : GoStruct[k][i].size # 0
         /\ IsPacked(GoStruct[k], PackedAt[k])
         /\ IsAligned(GoStruct[k], AlignedAt[k])
<1> USE DEF event_header, U16, U32, U64, Bytes, Field
<1>1. CASE k = "process"
  <2> DEFINE s == process_event
             p == <<0, 4, 8, 12, 20, 24, 28, 284>>
             a == <<0, 4, 8, 16, 24, 28, 32, 288>>
  <2>1. IsStruct(s) /\ \A i \in 1..Len(s) : s[i].size # 0
    BY DEF process_event, IsStruct
  <2>2. IsPacked(s, p)
    BY DEF process_event, IsPacked
  <2>3. IsAligned(s, a)
    BY DEF process_event, IsAligned
  <2>4. GoStruct[k] = s
    BY <1>1 DEF GoStruct, EBPFProcessEvent
  <2>5. PackedAt[k] = p /\ AlignedAt[k] = a
    BY <1>1 DEF PackedAt, AlignedAt
  <2> HIDE DEF s, p, a
  <2> QED
    BY <2>1, <2>2, <2>3, <2>4, <2>5, Zenon
<1>2. CASE k = "file"
  <2> DEFINE s == file_event
             p == <<0, 4, 8, 12, 20, 24, 28>>
             a == <<0, 4, 8, 16, 24, 28, 32>>
  <2>1. IsStruct(s) /\ \A i \in 1..Len(s) : s[i].size # 0
    BY DEF file_event, IsStruct
  <2>2. IsPacked(s, p)
    BY DEF file_event, IsPacked
  <2>3. IsAligned(s, a)
    BY DEF file_event, IsAligned
  <2>4. GoStruct[k] = s
    BY <1>2 DEF GoStruct, EBPFFileEvent
  <2>5. PackedAt[k] = p /\ AlignedAt[k] = a
    BY <1>2 DEF PackedAt, AlignedAt
  <2> HIDE DEF s, p, a
  <2> QED
    BY <2>1, <2>2, <2>3, <2>4, <2>5, Zenon
<1>3. CASE k = "network"
  <2> DEFINE s == network_event
             p == <<0, 4, 8, 12, 20, 24, 28, 44, 60, 62, 64, 66>>
             a == <<0, 4, 8, 16, 24, 28, 32, 48, 64, 66, 68, 70>>
  <2>1. IsStruct(s) /\ \A i \in 1..Len(s) : s[i].size # 0
    BY DEF network_event, IsStruct
  <2>2. IsPacked(s, p)
    BY DEF network_event, IsPacked
  <2>3. IsAligned(s, a)
    BY DEF network_event, IsAligned
  <2>4. GoStruct[k] = s
    BY <1>3 DEF GoStruct, EBPFNetworkEvent
  <2>5. PackedAt[k] = p /\ AlignedAt[k] = a
    BY <1>3 DEF PackedAt, AlignedAt
  <2> HIDE DEF s, p, a
  <2> QED
    BY <2>1, <2>2, <2>3, <2>4, <2>5, Zenon
<1> QED
  BY <1>1, <1>2, <1>3, Zenon DEF Programs

At(build, k) == IF build = "packed" THEN PackedAt[k] ELSE AlignedAt[k]

LEMMA TwoBuilds ==
  /\ \A build \in Builds : build = "packed" \/ build = "natural"
  /\ \A k \in Programs : k = "process" \/ k = "file" \/ k = "network"
BY DEF Builds, Programs

LEMMA StartsAre ==
  ASSUME NEW build \in Builds, NEW k \in Programs
  PROVE  /\ CStruct[build][k] = GoStruct[k]
         /\ Successive(GoStruct[k], Starts(build, k))
         /\ Layout[build][k] = Places(GoStruct[k], Starts(build, k))
         /\ \A i \in 1..Len(GoStruct[k]) : Starts(build, k)[i] = At(build, k)[i]
<1> DEFINE s == GoStruct[k]
<1>1. CStruct[build][k] = s
  BY TwoBuilds, SMT DEF CStruct, GoStruct, EBPFProcessEvent, EBPFFileEvent,
     EBPFNetworkEvent, bind_process_event, bind_file_event, bind_network_event
<1>2. /\ IsStruct(s) /\ IsPacked(s, PackedAt[k]) /\ IsAligned(s, AlignedAt[k])
  BY StructsAre, Zenon
<1>3. Layout[build][k] = Places(s, Starts(build, k))
  BY <1>1, TwoBuilds, SMT DEF Layout, PlacesOf
<1> HIDE DEF s
<1>4. /\ Successive(s, Starts(build, k))
      /\ \A i \in 1..Len(s) : Starts(build, k)[i] = At(build, k)[i]
  <2>1. CASE build = "packed"
    <3>1. Starts(build, k) = Packed(s) /\ At(build, k) = PackedAt[k]
      BY <1>1, <2>1, Zenon DEF Starts, At
    <3>2. Successive(s, Packed(s))
      BY <1>2, PackedSuccessive, Zenon
    <3>3. \A i \in 1..Len(s) : Packed(s)[i] = PackedAt[k][i]
      BY <1>2, PackedIs, Zenon
    <3> QED
      BY <3>1, <3>2, <3>3, Zenon
  <2>2. CASE build # "packed"
    <3>1. Starts(build, k) = Aligned(s) /\ At(build, k) = AlignedAt[k]
      BY <1>1, <2>2, Zenon DEF Starts, At
    <3>2. Successive(s, Aligned(s))
      BY <1>2, AlignedIsAligned, Zenon DEF IsAligned, Successive
    <3>3. \A i \in 1..Len(s) : Aligned(s)[i] = AlignedAt[k][i]
      BY <1>2, AlignedIs, Zenon
    <3> QED
      BY <3>1, <3>2, <3>3, Zenon
  <2> QED
    BY <2>1, <2>2, Zenon
<1> QED
  BY <1>1, <1>3, <1>4, Zenon DEF s

\* Reading where a field starts yields what was written to the field.
LEMMA ReadField ==
  ASSUME NEW build \in Builds, NEW o, o.prog \in Programs,
         NEW i \in 1..Len(GoStruct[o.prog]), NEW name, NEW first,
         GoStruct[o.prog][i].name = name, name # "pad",
         At(build, o.prog)[i] = first
  PROVE  Read(build, o, first) = Written(build, o, name)
<1> DEFINE s == GoStruct[o.prog]
           start == Starts(build, o.prog)
           q == <<s[i].name, start[i], s[i].size>>
           here == {p \in Layout[build][o.prog] : first \in p[2] .. (p[2] + p[3] - 1)}
<1>1. /\ IsStruct(s) /\ s[i].size # 0
  BY StructsAre, Zenon
<1>2. /\ Successive(s, start) /\ start[i] = first
      /\ Layout[build][o.prog] = Places(s, start)
  BY StartsAre, Zenon
<1>3. here = {q}
  <2> HIDE DEF s, start
  <2>1. {p \in Places(s, start) : start[i] \in p[2] .. (p[2] + p[3] - 1)} = {q}
    BY <1>1, <1>2, OnePlace, ZenonT(60) DEF s
  <2> QED
    BY <1>2, <2>1, Zenon
<1>4. q[1] = name /\ q[2] = first
  BY <1>2, Zenon
<1>5. Read(build, o, first) =
        IF \A p \in here : Written(build, o, p[1]) = Zero THEN Zero
        ELSE IF \E p \in here : p[2] = first
             THEN Written(build, o, (CHOOSE p \in here : p[2] = first)[1])
             ELSE "garbled"
  BY Zenon DEF Read
<1> HIDE DEF here, q, s, start
<1>6. (CHOOSE p \in here : p[2] = first) = q
  BY <1>3, <1>4, Zenon
<1> QED
  BY <1>3, <1>4, <1>5, <1>6, Zenon

\* The structs, field by field.
LEMMA ProcessFields ==
  LET s == GoStruct["process"]
  IN  /\ Len(s) = 8 /\ s[1] = U32("event_type") /\ s[2] = U32("pid")
      /\ s[3] = U32("tid") /\ s[4] = U64("timestamp")
      /\ s[5] = U32("parent_pid") /\ s[6] = U32("exit_code")
      /\ s[7] = Bytes("image_name", 256) /\ s[8] = Bytes("cmd_line", 512)
<1>1. GoStruct["process"] = process_event
  BY DEF GoStruct, EBPFProcessEvent
<1> QED
  BY <1>1 DEF process_event, event_header

LEMMA FileFields ==
  LET s == GoStruct["file"]
  IN  /\ Len(s) = 7 /\ s[1] = U32("event_type") /\ s[2] = U32("pid")
      /\ s[3] = U32("tid") /\ s[4] = U64("timestamp")
      /\ s[5] = U32("operation") /\ s[6] = U32("flags")
      /\ s[7] = Bytes("file_path", 512)
<1>1. GoStruct["file"] = file_event
  BY DEF GoStruct, EBPFFileEvent
<1> QED
  BY <1>1 DEF file_event, event_header

LEMMA NetworkFields ==
  LET s == GoStruct["network"]
  IN  /\ Len(s) = 12 /\ s[1] = U32("event_type") /\ s[2] = U32("pid")
      /\ s[3] = U32("tid") /\ s[4] = U64("timestamp")
      /\ s[5] = U32("protocol") /\ s[6] = U32("operation")
      /\ s[7] = Bytes("local_addr", 16) /\ s[8] = Bytes("remote_addr", 16)
      /\ s[9] = U16("local_port") /\ s[10] = U16("remote_port")
      /\ s[11] = U16("addr_family") /\ s[12] = U16("pad")
<1>1. GoStruct["network"] = network_event
  BY DEF GoStruct, EBPFNetworkEvent
<1> QED
  BY <1>1 DEF network_event, event_header

LEMMA HeaderFields ==
  ASSUME NEW k \in Programs
  PROVE  /\ Len(GoStruct[k]) \in 4..12
         /\ GoStruct[k][1] = U32("event_type") /\ GoStruct[k][2] = U32("pid")
         /\ GoStruct[k][3] = U32("tid") /\ GoStruct[k][4] = U64("timestamp")
<1> DEFINE Goal(p) == /\ Len(GoStruct[p]) \in 4..12
                      /\ GoStruct[p][1] = U32("event_type")
                      /\ GoStruct[p][2] = U32("pid")
                      /\ GoStruct[p][3] = U32("tid")
                      /\ GoStruct[p][4] = U64("timestamp")
<1>1. Goal("process")
  BY ProcessFields
<1>2. Goal("file")
  BY FileFields
<1>3. Goal("network")
  BY NetworkFields
<1> HIDE DEF Goal
<1>4. Goal(k)
  BY <1>1, <1>2, <1>3, Zenon DEF Programs
<1> QED
  BY <1>4, Zenon DEF Goal

LEMMA HeaderRead ==
  ASSUME NEW build \in Builds, NEW o, o.prog \in Programs
  PROVE  Read(build, o, 0) = o.prog /\ Read(build, o, 4) = o.pid
<1> DEFINE s == GoStruct[o.prog]
<1>1. /\ Len(s) \in 4..12
      /\ s[1] = U32("event_type") /\ s[2] = U32("pid")
  BY HeaderFields, Zenon
<1> HIDE DEF s
<1>2. /\ 1 \in 1..Len(s) /\ 2 \in 1..Len(s)
      /\ s[1].name = "event_type" /\ s[2].name = "pid"
  BY <1>1 DEF U32, Field
<1>3. At(build, o.prog)[1] = 0 /\ At(build, o.prog)[2] = 4
  BY DEF At, PackedAt, AlignedAt, Programs, Builds
<1>4. Written(build, o, "event_type") = o.prog /\ Written(build, o, "pid") = o.pid
  BY DEF Written, fill_header
<1>5. "event_type" # "pad" /\ "pid" # "pad"
  OBVIOUS
<1>6. Read(build, o, 0) = o.prog
  BY <1>2, <1>3, <1>4, <1>5, ReadField, Zenon DEF s
<1>7. Read(build, o, 4) = o.pid
  BY <1>2, <1>3, <1>4, <1>5, ReadField, Zenon DEF s
<1> QED
  BY <1>6, <1>7, Zenon

\* A packed record is shorter than the Go struct, so its details are not read.
LEMMA PackedNotWhole == Detailed["packed"] = {}
<1>1. ASSUME NEW k \in Programs PROVE ~(RecordSize("packed", k) >= GoSize(k))
  <2> DEFINE s == GoStruct[k]
             n == Len(s)
  <2>1. CStruct["packed"][k] = s /\ "packed" \in Builds
    BY StartsAre, Zenon DEF Builds
  <2>2. n \in 4..12
    BY HeaderFields, Zenon
  <2>3. n \in 1..n
    <3> HIDE DEF s, n
    <3> QED
      BY <2>2
  <2>4. Starts("packed", k)[n] = PackedAt[k][n]
    BY <2>1, <2>3, StartsAre, Zenon DEF At
  <2>5. Aligned(s)[n] = AlignedAt[k][n]
    <3>1. IsStruct(s) /\ IsAligned(s, AlignedAt[k])
      BY StructsAre, Zenon
    <3> HIDE DEF s
    <3> QED
      BY <2>3, <3>1, AlignedIs, Zenon
  <2>6. /\ RecordSize("packed", k) = RoundUp(PackedAt[k][n] + s[n].size, 1)
        /\ GoSize(k) = RoundUp(AlignedAt[k][n] + s[n].size, 8)
    BY <2>1, <2>4, <2>5, Zenon DEF RecordSize, GoSize, SizeOf
  <2>7. \/ PackedAt[k][n] = 284 /\ AlignedAt[k][n] = 288 /\ s[n].size = 512
        \/ PackedAt[k][n] = 28 /\ AlignedAt[k][n] = 32 /\ s[n].size = 512
        \/ PackedAt[k][n] = 66 /\ AlignedAt[k][n] = 70 /\ s[n].size = 2
    <3>1. CASE k = "process"
      <4>1. n = 8 /\ s[8] = Bytes("cmd_line", 512)
        BY <3>1, ProcessFields, Zenon
      <4> HIDE DEF n, s
      <4> QED
        BY <3>1, <4>1 DEF PackedAt, AlignedAt, Bytes, Field
    <3>2. CASE k = "file"
      <4>1. n = 7 /\ s[7] = Bytes("file_path", 512)
        BY <3>2, FileFields, Zenon
      <4> HIDE DEF n, s
      <4> QED
        BY <3>2, <4>1 DEF PackedAt, AlignedAt, Bytes, Field
    <3>3. CASE k = "network"
      <4>1. n = 12 /\ s[12] = U16("pad")
        BY <3>3, NetworkFields, Zenon
      <4> HIDE DEF n, s
      <4> QED
        BY <3>3, <4>1 DEF PackedAt, AlignedAt, U16, Field
    <3> QED
      BY <3>1, <3>2, <3>3, Zenon DEF Programs
  <2> HIDE DEF s, n
  <2> QED
    BY <2>6, <2>7 DEF RoundUp
<1>2. Detailed["packed"] = Whole("packed")
  BY DEF Detailed
<1> QED
  BY <1>1, <1>2, Zenon DEF Whole

\* The parser reads an aligned record at the packed offsets, which are those of
\* earlier fields: the exit code, the flags and the local port are all zero.
LEMMA NaturalDetails ==
  ASSUME NEW o, o.prog \in Programs
  PROVE  Details("natural", o) = Zero
<1>1. "natural" \in Builds
  BY DEF Builds
<1> DEFINE s == GoStruct[o.prog]
           at == At("natural", o.prog)
<1>2. CASE o.prog = "process"
  <2>1. Len(s) = 8 /\ s[6] = U32("exit_code")
    BY <1>2, ProcessFields, Zenon
  <2>2. at[6] = 28
    BY <1>2 DEF At, AlignedAt
  <2>3. Written("natural", o, "exit_code") = Zero
    BY <1>2 DEF Written, fill_header, Fields, process_fields
  <2> HIDE DEF s, at
  <2>4. 6 \in 1..Len(s) /\ s[6].name = "exit_code" /\ s[6].name # "pad"
    BY <2>1 DEF U32, Field
  <2>5. Read("natural", o, 28) = Zero
    BY <1>1, <2>2, <2>3, <2>4, ReadField DEF s, at
  <2>6. ProcessAt.image_name = 28
    BY DEF ProcessAt
  <2> QED
    BY <1>2, <2>5, <2>6 DEF Details
<1>3. CASE o.prog = "file"
  <2>1. Len(s) = 7 /\ s[6] = U32("flags")
    BY <1>3, FileFields, Zenon
  <2>2. at[6] = 28
    BY <1>3 DEF At, AlignedAt
  <2>3. Written("natural", o, "flags") = Zero
    BY <1>3 DEF Written, fill_header, Fields, file_fields
  <2> HIDE DEF s, at
  <2>4. 6 \in 1..Len(s) /\ s[6].name = "flags" /\ s[6].name # "pad"
    BY <2>1 DEF U32, Field
  <2>5. Read("natural", o, 28) = Zero
    BY <1>1, <2>2, <2>3, <2>4, ReadField DEF s, at
  <2>6. FileAt.file_path = 28 /\ "file" # "process"
    BY DEF FileAt
  <2> QED
    BY <1>3, <2>5, <2>6 DEF Details
<1>4. CASE o.prog = "network"
  <2>1. Len(s) = 12 /\ s[9] = U16("local_port")
    BY <1>4, NetworkFields, Zenon
  <2>2. at[9] = 64
    BY <1>4 DEF At, AlignedAt
  <2>3. Written("natural", o, "local_port") = Zero
    BY <1>4 DEF Written, fill_header, Fields, network_defaults
  <2> HIDE DEF s, at
  <2>4. 9 \in 1..Len(s) /\ s[9].name = "local_port" /\ s[9].name # "pad"
    BY <2>1 DEF U16, Field
  <2>5. Read("natural", o, 64) = Zero
    BY <1>1, <2>2, <2>3, <2>4, ReadField DEF s, at
  <2>6. NetworkAt.addr_family = 64
    BY DEF NetworkAt
  <2>7. Zero # "inet" /\ "network" # "process" /\ "network" # "file"
    BY DEF Zero
  <2>8. parseNetworkEvent("natural", o) = Zero
    BY <2>5, <2>6, <2>7, Zenon DEF parseNetworkEvent
  <2> QED
    BY <1>4, <2>7, <2>8 DEF Details
<1> QED
  BY <1>2, <1>3, <1>4, Zenon DEF Programs

\* Whatever the build and whatever the operation, the loader's parser makes the
\* same of its record: the kind and the process are right, and the event names
\* nothing.
THEOREM ParsedAs ==
  ASSUME NEW build \in Builds, NEW o, o.prog \in Programs
  PROVE  parseEBPFEvent(build, o) =
           [type |-> o.prog, pid |-> o.pid, subject |-> Zero]
<1>1. Read(build, o, 0) = o.prog /\ Read(build, o, 4) = o.pid
  BY HeaderRead, Zenon
<1>2. HeaderAt.event_type = 0 /\ HeaderAt.pid = 4
  BY DEF HeaderAt
<1>3. Details("packed", o) = Zero
  BY PackedNotWhole, Zenon DEF Details
<1>4. Details(build, o) = Zero
  BY <1>3, NaturalDetails, TwoBuilds, SMT
<1> QED
  BY <1>1, <1>2, <1>4, Zenon DEF parseEBPFEvent

\* A field of that name starts there.
HasAt(build, k, name, first) ==
  \E p \in Layout[build][k] : p[1] = name /\ p[2] = first
ReadsAt(build, k, at) == \A name \in DOMAIN at : HasAt(build, k, name, at[name])

LEMMA FieldAt ==
  ASSUME NEW build \in Builds, NEW k \in Programs,
         NEW i \in 1..Len(GoStruct[k]), NEW name, NEW first,
         GoStruct[k][i].name = name, name # "pad", At(build, k)[i] = first
  PROVE  HasAt(build, k, name, first)
<1> DEFINE s == GoStruct[k]
           start == Starts(build, k)
           q == <<s[i].name, start[i], s[i].size>>
<1>1. Layout[build][k] = Places(s, start) /\ start[i] = first
  BY StartsAre, Zenon
<1>2. q[1] = name /\ q[2] = first
  BY <1>1, Zenon
<1> HIDE DEF start
<1>3. q \in Places(s, start)
  BY Zenon DEF Places
<1> HIDE DEF q
<1> QED
  BY <1>1, <1>2, <1>3, Zenon DEF HasAt

LEMMA NoFieldAt12 ==
  ASSUME NEW k \in Programs, NEW name
  PROVE  ~HasAt("natural", k, name, 12)
<1> DEFINE s == GoStruct[k]
           start == Starts("natural", k)
<1>0. "natural" \in Builds /\ "natural" # "packed"
  BY DEF Builds
<1>1. /\ Layout["natural"][k] = Places(s, start)
      /\ \A i \in 1..Len(s) : start[i] = AlignedAt[k][i]
  BY <1>0, StartsAre, Zenon DEF At
<1>2. \A i \in 1..Len(s) : AlignedAt[k][i] # 12
  <2>1. CASE k = "process"
    BY <2>1, ProcessFields DEF AlignedAt
  <2>2. CASE k = "file"
    BY <2>2, FileFields DEF AlignedAt
  <2>3. CASE k = "network"
    BY <2>3, NetworkFields DEF AlignedAt
  <2> QED
    BY <2>1, <2>2, <2>3, TwoBuilds, Zenon
<1> HIDE DEF s, start
<1>3. ASSUME NEW p \in Places(s, start) PROVE p[2] # 12
  <2>1. PICK i \in 1..Len(s) : p = <<s[i].name, start[i], s[i].size>>
    BY <1>3, Zenon DEF Places
  <2> QED
    BY <1>1, <1>2, <2>1, Zenon
<1> QED
  BY <1>1, <1>3, Zenon DEF HasAt

\* etw/programs/warmor_common.h:4, "Struct layouts match the Go parser's byte
\* offsets exactly": every offset the parser (ebpf_loader.go) slices at is that
\* of the field it takes it for in a packed record.  Of the header of an aligned
\* record (bpf-windows/), all but the timestamp are read where they are.
THEOREM OffsetsRight ==
  /\ ReadsAt("packed", "process", ProcessAt)
  /\ ReadsAt("packed", "file", FileAt)
  /\ ReadsAt("packed", "network", NetworkAt)
  /\ \A k \in Programs : ReadsAt("packed", k, HeaderAt)
  /\ \A k \in Programs, name \in DOMAIN HeaderAt :
       HasAt("natural", k, name, HeaderAt[name]) <=> name # "timestamp"
<1>0. "packed" \in Builds /\ {"process", "file", "network"} \subseteq Programs
  BY DEF Builds, Programs
<1>1. ReadsAt("packed", "process", ProcessAt)
  <2> DEFINE s == GoStruct["process"]
             at == At("packed", "process")
  <2>1. \A i \in {5, 7, 8} : i \in 1..Len(s)
    BY ProcessFields
  <2>2. /\ s[5].name = "parent_pid" /\ at[5] = ProcessAt.parent_pid
        /\ s[7].name = "image_name" /\ at[7] = ProcessAt.image_name
        /\ s[8].name = "cmd_line" /\ at[8] = ProcessAt.cmd_line
    <3>1. /\ s[5].name = "parent_pid" /\ s[7].name = "image_name"
          /\ s[8].name = "cmd_line"
      BY ProcessFields DEF U32, Bytes, Field
    <3>2. /\ at[5] = ProcessAt.parent_pid /\ at[7] = ProcessAt.image_name
          /\ at[8] = ProcessAt.cmd_line
      BY DEF At, PackedAt, ProcessAt
    <3> QED
      BY <3>1, <3>2, Zenon
  <2>3. \A i \in 1..Len(s) :
          s[i].name # "pad" => HasAt("packed", "process", s[i].name, at[i])
    BY <1>0, FieldAt, Zenon
  <2> HIDE DEF s, at
  <2>4. HasAt("packed", "process", "parent_pid", ProcessAt.parent_pid)
    BY <2>1, <2>2, <2>3
  <2>5. HasAt("packed", "process", "image_name", ProcessAt.image_name)
    BY <2>1, <2>2, <2>3
  <2>6. HasAt("packed", "process", "cmd_line", ProcessAt.cmd_line)
    BY <2>1, <2>2, <2>3
  <2>7. DOMAIN ProcessAt = {"parent_pid", "image_name", "cmd_line"}
    BY DEF ProcessAt
  <2> QED
    BY <2>4, <2>5, <2>6, <2>7, Zenon DEF ReadsAt
<1>2. ReadsAt("packed", "file", FileAt)
  <2> DEFINE s == GoStruct["file"]
             at == At("packed", "file")
  <2>1. \A i \in {5, 6, 7} : i \in 1..Len(s)
    BY FileFields
  <2>2. /\ s[5].name = "operation" /\ at[5] = FileAt.operation
        /\ s[6].name = "flags" /\ at[6] = FileAt.flags
        /\ s[7].name = "file_path" /\ at[7] = FileAt.file_path
    <3>1. /\ s[5].name = "operation" /\ s[6].name = "flags"
          /\ s[7].name = "file_path"
      BY FileFields DEF U32, Bytes, Field
    <3>2. /\ at[5] = FileAt.operation /\ at[6] = FileAt.flags
          /\ at[7] = FileAt.file_path
      BY DEF At, PackedAt, FileAt
    <3> QED
      BY <3>1, <3>2, Zenon
  <2>3. \A i \in 1..Len(s) :
          s[i].name # "pad" => HasAt("packed", "file", s[i].name, at[i])
    BY <1>0, FieldAt, Zenon
  <2> HIDE DEF s, at
  <2>4. HasAt("packed", "file", "operation", FileAt.operation)
    BY <2>1, <2>2, <2>3
  <2>5. HasAt("packed", "file", "flags", FileAt.flags)
    BY <2>1, <2>2, <2>3
  <2>6. HasAt("packed", "file", "file_path", FileAt.file_path)
    BY <2>1, <2>2, <2>3
  <2>7. DOMAIN FileAt = {"operation", "flags", "file_path"}
    BY DEF FileAt
  <2> QED
    BY <2>4, <2>5, <2>6, <2>7, Zenon DEF ReadsAt
<1>3. ReadsAt("packed", "network", NetworkAt)
  <2> DEFINE s == GoStruct["network"]
             at == At("packed", "network")
  <2>1. \A i \in {5, 6, 7, 8, 9, 10, 11} : i \in 1..Len(s)
    BY NetworkFields
  <2>2. /\ s[5].name = "protocol" /\ s[6].name = "operation"
        /\ s[7].name = "local_addr" /\ s[8].name = "remote_addr"
        /\ s[9].name = "local_port" /\ s[10].name = "remote_port"
        /\ s[11].name = "addr_family"
    BY NetworkFields DEF U16, U32, Bytes, Field
  <2>3. /\ at[5] = NetworkAt.protocol /\ at[6] = NetworkAt.operation
        /\ at[7] = NetworkAt.local_addr /\ at[8] = NetworkAt.remote_addr
        /\ at[9] = NetworkAt.local_port /\ at[10] = NetworkAt.remote_port
        /\ at[11] = NetworkAt.addr_family
    BY DEF At, PackedAt, NetworkAt
  <2>4. \A i \in {5, 6, 7, 8, 9, 10, 11} : s[i].name # "pad"
    BY <2>2
  <2>5. /\ HasAt("packed", "network", s[5].name, at[5])
        /\ HasAt("packed", "network", s[6].name, at[6])
        /\ HasAt("packed", "network", s[7].name, at[7])
        /\ HasAt("packed", "network", s[8].name, at[8])
        /\ HasAt("packed", "network", s[9].name, at[9])
        /\ HasAt("packed", "network", s[10].name, at[10])
        /\ HasAt("packed", "network", s[11].name, at[11])
    <3>1. \A i \in {5, 6, 7, 8, 9, 10, 11} :
            HasAt("packed", "network", s[i].name, at[i])
      <4> DEFINE I == {5, 6, 7, 8, 9, 10, 11}
      <4> HIDE DEF I
      <4> SUFFICES \A i \in I : HasAt("packed", "network", s[i].name, at[i])
        BY DEF I
      <4>1. \A i \in I : i \in 1..Len(s) /\ s[i].name # "pad"
        BY <2>1, <2>4, Zenon DEF I
      <4> QED
        BY <1>0, <4>1, FieldAt, Zenon
    <3> QED
      BY <3>1
  <2> HIDE DEF s, at
  <2>6. /\ HasAt("packed", "network", "protocol", NetworkAt.protocol)
        /\ HasAt("packed", "network", "operation", NetworkAt.operation)
        /\ HasAt("packed", "network", "local_addr", NetworkAt.local_addr)
        /\ HasAt("packed", "network", "remote_addr", NetworkAt.remote_addr)
        /\ HasAt("packed", "network", "local_port", NetworkAt.local_port)
        /\ HasAt("packed", "network", "remote_port", NetworkAt.remote_port)
        /\ HasAt("packed", "network", "addr_family", NetworkAt.addr_family)
    BY <2>2, <2>3, <2>5, SMT
  <2>7. DOMAIN NetworkAt = {"protocol", "operation", "local_addr", "remote_addr",
                              "local_port", "remote_port", "addr_family"}
    BY DEF NetworkAt
  <2> QED
    BY <2>6, <2>7, Zenon DEF ReadsAt
<1>4. ASSUME NEW k \in Programs, NEW b \in Builds
      PROVE  /\ HasAt(b, k, "event_type", 0) /\ HasAt(b, k, "pid", 4)
             /\ HasAt(b, k, "tid", 8)
             /\ b = "packed" => HasAt(b, k, "timestamp", 12)
  <2> DEFINE s == GoStruct[k]
  <2>1. /\ Len(s) \in 4..12
        /\ s[1] = U32("event_type") /\ s[2] = U32("pid")
        /\ s[3] = U32("tid") /\ s[4] = U64("timestamp")
    BY HeaderFields, Zenon
  <2> HIDE DEF s
  <2>2. /\ 1 \in 1..Len(s) /\ 2 \in 1..Len(s) /\ 3 \in 1..Len(s) /\ 4 \in 1..Len(s)
        /\ s[1].name = "event_type" /\ s[2].name = "pid"
        /\ s[3].name = "tid" /\ s[4].name = "timestamp"
    BY <2>1 DEF U32, U64, Field
  <2>3. /\ "event_type" # "pad" /\ "pid" # "pad" /\ "tid" # "pad"
        /\ "timestamp" # "pad"
    OBVIOUS
  <2>4. /\ At(b, k)[1] = 0 /\ At(b, k)[2] = 4 /\ At(b, k)[3] = 8
        /\ b = "packed" => At(b, k)[4] = 12
    BY DEF At, PackedAt, AlignedAt, Programs, Builds
  <2>5. HasAt(b, k, "event_type", 0)
    BY <2>2, <2>3, <2>4, FieldAt, Zenon DEF s
  <2>6. HasAt(b, k, "pid", 4)
    BY <2>2, <2>3, <2>4, FieldAt, Zenon DEF s
  <2>7. HasAt(b, k, "tid", 8)
    BY <2>2, <2>3, <2>4, FieldAt, Zenon DEF s
  <2>8. b = "packed" => HasAt(b, k, "timestamp", 12)
    BY <2>2, <2>3, <2>4, FieldAt, Zenon DEF s
  <2> QED
    BY <2>5, <2>6, <2>7, <2>8
<1>5. /\ DOMAIN HeaderAt = {"event_type", "pid", "tid", "timestamp"}
      /\ HeaderAt["event_type"] = 0 /\ HeaderAt["pid"] = 4
      /\ HeaderAt["tid"] = 8 /\ HeaderAt["timestamp"] = 12
  BY DEF HeaderAt
<1>6. ASSUME NEW k \in Programs PROVE ReadsAt("packed", k, HeaderAt)
  BY <1>0, <1>4, <1>5, Zenon DEF ReadsAt
<1>7. ASSUME NEW k \in Programs, NEW name \in DOMAIN HeaderAt
      PROVE  HasAt("natural", k, name, HeaderAt[name]) <=> name # "timestamp"
  <2>1. "natural" \in Builds
    BY DEF Builds
  <2>2. ~HasAt("natural", k, "timestamp", 12)
    BY NoFieldAt12, Zenon
  <2>3. /\ "event_type" # "timestamp" /\ "pid" # "timestamp"
        /\ "tid" # "timestamp"
    OBVIOUS
  <2>4. /\ HasAt("natural", k, "event_type", 0) /\ HasAt("natural", k, "pid", 4)
        /\ HasAt("natural", k, "tid", 8)
    BY <1>4, <2>1, Zenon
  <2>5. CASE name = "timestamp"
    BY <1>5, <2>2, <2>5, Zenon
  <2>6. CASE name \in {"event_type", "pid", "tid"}
    BY <1>5, <2>3, <2>4, <2>6, Zenon
  <2> QED
    BY <1>5, <2>5, <2>6, Zenon
<1> QED
  BY <1>1, <1>2, <1>3, <1>6, <1>7, Zenon
-----------------------------------------------------------------------------
(* The events. *)

\* What the channel may hold: an operation, and its event as ParsedAs says.
Reported ==
  {[of |-> o, event |-> [type |-> o.prog, pid |-> o.pid, subject |-> Zero]] :
     o \in Operations}

\* The policy map stays empty: without a subject there is nothing to sync.
EventInv ==
  /\ machine.build \in Builds
  /\ ring \in Seq(Operations)
  /\ chan \in Seq(Reported)
  /\ rules = {}

LEMMA MonitorsReports ==
  ASSUME EventInv, NEW build, NEW o \in Operations, NEW blocked,
         Monitors(build, o, blocked)
  PROVE  EventInv'
<1>1. ring' \in Seq(Operations)
  <2>1. ring' = ring \/ ring' = Append(ring, o)
    BY Zenon DEF Monitors
  <2>2. ring \in Seq(Operations)
    BY DEF EventInv
  <2> QED
    BY <2>1, <2>2
<1>2. UNCHANGED <<machine, chan, rules>>
  BY DEF Monitors
<1> QED
  BY <1>1, <1>2 DEF EventInv

LEMMA KernelReports ==
  ASSUME EventInv, NEW a \in Actors,
         \/ process_monitor(a) \/ file_monitor(a) \/ network_monitor(a)
         \/ bind_process(a) \/ bind_file(a) \/ bind_network(a)
  PROVE  EventInv'
<1>1. ASSUME NEW prog \in Programs, NEW s \in Subjects, NEW n \in SockOps \cup {0},
             NEW f \in Families
      PROVE  Operation(prog, a, s, n, f) \in Operations
  <2>1. a[1] \in {b[1] : b \in Actors} /\ a[2] \in {b[2] : b \in Actors}
    BY Zenon
  <2> QED
    BY <1>1, <2>1, Zenon DEF Operation, Operations
<1>2. /\ "process" \in Programs /\ "file" \in Programs /\ "network" \in Programs
      /\ "other" \in Families
  BY DEF Programs, Families
<1>3. /\ 0 \in SockOps \cup {0} /\ \A n \in SockOps : n \in SockOps \cup {0}
  OBVIOUS
<1>4. CASE process_monitor(a)
  BY <1>1, <1>2, <1>3, <1>4, MonitorsReports, Zenon DEF process_monitor
<1>5. CASE file_monitor(a)
  BY <1>1, <1>2, <1>3, <1>5, MonitorsReports, Zenon DEF file_monitor
<1>6. CASE network_monitor(a)
  BY <1>1, <1>2, <1>3, <1>6, MonitorsReports, Zenon DEF network_monitor
<1>7. CASE bind_process(a)
  BY <1>1, <1>2, <1>3, <1>7, MonitorsReports, Zenon DEF bind_process
<1>8. CASE bind_file(a)
  BY <1>1, <1>2, <1>3, <1>8, MonitorsReports, Zenon DEF bind_file
<1>9. CASE bind_network(a)
  BY <1>1, <1>2, <1>3, <1>9, MonitorsReports, Zenon DEF bind_network
<1> QED
  BY <1>4, <1>5, <1>6, <1>7, <1>8, <1>9

LEMMA CallbackParses ==
  ASSUME EventInv, ringBufferCallback
  PROVE  EventInv'
<1> DEFINE o == Head(ring)
           event == parseEBPFEvent(machine.build, o)
           item == [of |-> o, event |-> event]
<1>1. ring # << >> /\ ring' = Tail(ring) /\ UNCHANGED <<machine, rules>>
  BY DEF ringBufferCallback
<1>2. chan' = chan \/ chan' = Append(chan, item)
  BY Zenon DEF ringBufferCallback
<1>3. ring \in Seq(Operations) /\ chan \in Seq(Reported) /\ machine.build \in Builds
  BY DEF EventInv
<1>4. o \in Operations /\ ring' \in Seq(Operations)
  BY <1>1, <1>3
<1>5. o.prog \in Programs
  BY <1>4 DEF Operations
<1>6. event = [type |-> o.prog, pid |-> o.pid, subject |-> Zero]
  <2> HIDE DEF o
  <2> QED
    BY <1>3, <1>5, ParsedAs, Zenon
<1>7. item \in Reported
  <2> HIDE DEF o, event
  <2> QED
    BY <1>4, <1>6, Zenon DEF Reported
<1>8. chan' \in Seq(Reported)
  <2> HIDE DEF item
  <2> QED
    BY <1>2, <1>3, <1>7
<1> QED
  BY <1>1, <1>4, <1>8 DEF EventInv

LEMMA LoopSyncsNothing ==
  ASSUME EventInv, LoopHandles
  PROVE  EventInv'
<1>1. chan # << >> /\ chan' = Tail(chan) /\ UNCHANGED <<machine, ring>>
  BY DEF LoopHandles
<1>2. chan \in Seq(Reported) /\ rules = {}
  BY DEF EventInv
<1>3. Head(chan) \in Reported /\ chan' \in Seq(Reported)
  BY <1>1, <1>2
<1>4. Head(chan).event.subject = Zero
  <2>1. PICK o \in Operations :
          Head(chan) = [of |-> o, event |-> [type |-> o.prog, pid |-> o.pid,
                                             subject |-> Zero]]
    BY <1>3, Zenon DEF Reported
  <2> QED
    BY <2>1
<1>5. rules' = {}
  BY <1>2, <1>4, Zenon DEF LoopHandles, Sync
<1> QED
  BY <1>1, <1>3, <1>5 DEF EventInv

LEMMA EventInductive == EventInv /\ [Next]_vars => EventInv'
<1> SUFFICES ASSUME EventInv, [Next]_vars PROVE EventInv'
  OBVIOUS
<1>1. CASE UNCHANGED <<machine, ring, chan, rules>>
  BY <1>1 DEF EventInv
<1>2. CASE Again \/ Release
  <2>1. /\ machine' = machine /\ ring' = << >> /\ rules' = {}
        /\ chan' = chan \/ chan' = << >>
    BY <1>2, Zenon DEF Again, Release
  <2>2. << >> \in Seq(Operations) /\ << >> \in Seq(Reported)
    OBVIOUS
  <2> QED
    BY <2>1, <2>2, Zenon DEF EventInv
<1>3. CASE Run(Kernel)
  BY <1>3, KernelReports, Zenon DEF Run, Kernel
<1>4. CASE Run(Poller) \/ Run(LoopHandles) \/ Run(LoopEnds)
  <2>1. CASE ringBufferCallback \/ LoopHandles
    BY <2>1, CallbackParses, LoopSyncsNothing, Zenon
  <2>2. CASE PollerQuits \/ PollerPolls \/ PollFinds \/ PollReturns \/ LoopEnds
    BY <1>1, <2>2 DEF PollerQuits, PollerPolls, PollFinds, PollReturns, LoopEnds,
                      kernel
  <2> QED
    BY <1>4, <2>1, <2>2, Zenon DEF Run, Poller
<1>5. CASE Load \/ StartLoader \/ Serve \/ Cancel \/ CloseStopChan
  BY <1>1, <1>5 DEF Load, StartLoader, Serve, Cancel, CloseStopChan, kernel
<1>6. CASE StartConsumer \/ StopConsumer \/ StopWaits \/ Close
  BY <1>1, <1>6 DEF StartConsumer, StopConsumer, StopWaits, Close, lvars, kernel
<1>7. ASSUME NEW k, EnableProgram(k) PROVE EventInv'
  BY <1>1, <1>7 DEF EnableProgram
<1>8. ASSUME NEW step, NEW k, EnableSession(step, k) PROVE EventInv'
  BY <1>1, <1>8 DEF EnableSession, lvars, kernel
<1>9. CASE UNCHANGED vars
  BY <1>1, <1>9 DEF vars, lvars, kernel
<1> QED
  BY <1>2, <1>3, <1>4, <1>5, <1>6, <1>7, <1>8, <1>9, Actions, Zenon

LEMMA EventInitially == Init => EventInv
<1> SUFFICES ASSUME Init PROVE EventInv
  OBVIOUS
<1>1. machine.build \in Builds
  BY LoaderAssumption DEF Init
<1> QED
  BY <1>1 DEF Init, LoaderInit, EventInv

\* Whichever build is installed, every event the enforcer judges has the kind
\* and the process of its operation (parseEBPFEvent, ebpf_loader.go).
THEOREM EventsAreTrue == Spec => []EventTrue
<1>1. EventInv => EventTrue
  <2> SUFFICES ASSUME EventInv, NEW i \in 1..Len(chan)
               PROVE  /\ chan[i].event.type = chan[i].of.prog
                      /\ chan[i].event.pid = chan[i].of.pid
                      /\ chan[i].event.subject = Zero
    BY Zenon DEF EventTrue
  <2>1. chan \in Seq(Reported)
    BY DEF EventInv
  <2>2. chan[i] \in Reported
    BY <2>1
  <2>3. PICK o \in Operations :
          chan[i] = [of |-> o, event |-> [type |-> o.prog, pid |-> o.pid,
                                          subject |-> Zero]]
    BY <2>2, Zenon DEF Reported
  <2>4. /\ chan[i].of = o
        /\ chan[i].event = [type |-> o.prog, pid |-> o.pid, subject |-> Zero]
    BY <2>3
  <2>5. /\ chan[i].event.type = o.prog /\ chan[i].event.pid = o.pid
        /\ chan[i].event.subject = Zero
    BY <2>4
  <2> QED
    BY <2>4, <2>5, Zenon
<1> QED
  BY <1>1, EventInitially, EventInductive, PTL DEF Spec

\* No event names what its operation was about, so the enforcer never writes a
\* rule (syncToPolicyMap, enforcer.go, does nothing without a pattern) and the
\* kernel's policy map stays empty, whatever the policy denies.
THEOREM NothingIsPushed == Spec => [](rules = {})
<1>1. EventInv => rules = {}
  BY DEF EventInv
<1> QED
  BY <1>1, EventInitially, EventInductive, PTL DEF Spec
=============================================================================
