---------------------------- MODULE LinuxMonitors ----------------------------
(***************************************************************************)
(* The running Linux platform: one goroutine per ring buffer (process,     *)
(* file, network and LSM events) that reads the kernel's events and sends  *)
(* them to the enforcer's channel, and the shutdown that ends them         *)
(* (internal/platform/linux.go, Enforcer.Start and Stop).                  *)
(***************************************************************************)
EXTENDS Integers, Sequences

CONSTANTS Monitors,
          RingSize,  \* bound: events a ring buffer holds
          ChanSize,  \* capacity of the enforcer's channel
          MaxNumber, \* bound: events are numbered up to it, later ones alike
          Busy       \* the kernel never runs out of events

VARIABLES
  ring,     \* per monitor: numbers of the events in its ring buffer
  produced, \* per monitor: number of the last event
  mpc,      \* per monitor: "check", "read", "send", "done"
  held,     \* per monitor: the event being sent, 0 for none
  chan,     \* eventChan: <<monitor, number>>
  handled,  \* per monitor: number of the last event the enforcer took
  loop,     \* the enforcer's event loop runs
  stop      \* Enforcer.Stop: "no", "cancelled", "waiting", "stopped"

vars == <<ring, produced, mpc, held, chan, handled, loop, stop>>

Numbers == 0..MaxNumber
Following(n) == IF n < MaxNumber THEN n + 1 ELSE n

TypeOK ==
  /\ ring \in [Monitors -> Seq(Numbers)]
  /\ \A m \in Monitors : Len(ring[m]) <= RingSize
  /\ produced \in [Monitors -> Numbers] /\ handled \in [Monitors -> Numbers]
  /\ mpc \in [Monitors -> {"check", "read", "send", "done"}]
  /\ held \in [Monitors -> Numbers]
  /\ chan \in Seq(Monitors \X Numbers) /\ Len(chan) <= ChanSize
  /\ loop \in BOOLEAN
  /\ stop \in {"no", "cancelled", "waiting", "stopped"}

\* LinuxPlatform.Start
Init ==
  /\ ring = [m \in Monitors |-> << >>] /\ chan = << >>
  /\ produced = [m \in Monitors |-> 0] /\ handled = [m \in Monitors |-> 0]
  /\ mpc = [m \in Monitors |-> "check"] /\ held = [m \in Monitors |-> 0]
  /\ loop = TRUE /\ stop = "no"

\* A BPF program submits an event.  One that finds no room is lost there and
\* gets no number.
KernelEvent(m) ==
  /\ Len(ring[m]) < RingSize
  /\ produced' = [produced EXCEPT ![m] = Following(@)]
  /\ ring' = [ring EXCEPT ![m] = Append(@, produced'[m])]
  /\ UNCHANGED <<mpc, held, chan, handled, loop, stop>>

\* ctx.Done or stopChan
Told == stop # "no"

\* The select with a default at the head of the loop.
MonitorChecks(m) ==
  /\ mpc[m] = "check"
  /\ mpc' = [mpc EXCEPT ![m] = IF Told THEN "done" ELSE "read"]
  /\ UNCHANGED <<ring, produced, held, chan, handled, loop, stop>>

\* Read blocks on an empty ring buffer; it knows neither ctx nor stopChan.
MonitorReads(m) ==
  /\ mpc[m] = "read" /\ ring[m] # << >>
  /\ held' = [held EXCEPT ![m] = Head(ring[m])]
  /\ ring' = [ring EXCEPT ![m] = Tail(@)]
  /\ mpc' = [mpc EXCEPT ![m] = "send"]
  /\ UNCHANGED <<produced, chan, handled, loop, stop>>

\* Mutant of MonitorSends: a full channel drops the event.
MonitorSendsDrops(m) ==
  /\ mpc[m] = "send"
  /\ chan' = IF Len(chan) < ChanSize THEN Append(chan, <<m, held[m]>>) ELSE chan
  /\ held' = [held EXCEPT ![m] = 0] /\ mpc' = [mpc EXCEPT ![m] = "check"]
  /\ UNCHANGED <<ring, produced, handled, loop, stop>>

MonitorSends(m) ==
  /\ mpc[m] = "send" /\ Len(chan) < ChanSize
  /\ chan' = Append(chan, <<m, held[m]>>)
  /\ held' = [held EXCEPT ![m] = 0] /\ mpc' = [mpc EXCEPT ![m] = "check"]
  /\ UNCHANGED <<ring, produced, handled, loop, stop>>

\* Mutant of MonitorQuits: the send does not select on the stop.
MonitorQuitsNot(m) ==
  /\ mpc[m] = "send" /\ Told /\ loop
  /\ held' = [held EXCEPT ![m] = 0] /\ mpc' = [mpc EXCEPT ![m] = "done"]
  /\ UNCHANGED <<ring, produced, chan, handled, loop, stop>>

MonitorQuits(m) ==
  /\ mpc[m] = "send" /\ Told
  /\ held' = [held EXCEPT ![m] = 0] /\ mpc' = [mpc EXCEPT ![m] = "done"]
  /\ UNCHANGED <<ring, produced, chan, handled, loop, stop>>

\* The enforcer's event loop takes an event, or sees the cancelled context.
LoopTakes ==
  /\ loop /\ chan # << >>
  /\ handled' = [handled EXCEPT ![Head(chan)[1]] = Head(chan)[2]]
  /\ chan' = Tail(chan)
  /\ UNCHANGED <<ring, produced, mpc, held, loop, stop>>

LoopEnds ==
  /\ loop /\ Told /\ loop' = FALSE
  /\ UNCHANGED <<ring, produced, mpc, held, chan, handled, stop>>

\* Enforcer.Stop: cancel, then LinuxPlatform.Stop: close(stopChan), wg.Wait.
StopCancels ==
  /\ stop = "no" /\ stop' = "cancelled"
  /\ UNCHANGED <<ring, produced, mpc, held, chan, handled, loop>>

StopCloses ==
  /\ stop = "cancelled" /\ stop' = "waiting"
  /\ UNCHANGED <<ring, produced, mpc, held, chan, handled, loop>>

StopWaits ==
  /\ stop = "waiting" /\ \A m \in Monitors : mpc[m] = "done"
  /\ stop' = "stopped"
  /\ UNCHANGED <<ring, produced, mpc, held, chan, handled, loop>>

Monitor(m) == MonitorChecks(m) \/ MonitorReads(m) \/ MonitorSends(m)
              \/ MonitorQuits(m)

Next == \/ \E m \in Monitors : KernelEvent(m) \/ Monitor(m)
        \/ LoopTakes \/ LoopEnds \/ StopCancels \/ StopCloses \/ StopWaits

\* Goroutines are scheduled fairly; a select with several ready cases picks
\* each of them sooner or later.  Events come without end only when Busy.
Fairness ==
  /\ \A m \in Monitors :
       /\ WF_vars(Monitor(m)) /\ SF_vars(MonitorQuits(m))
       /\ Busy => WF_vars(KernelEvent(m))
  /\ WF_vars(LoopTakes) /\ SF_vars(LoopEnds)
  /\ WF_vars(StopCloses) /\ WF_vars(StopWaits)

Spec == Init /\ [][Next]_vars /\ Fairness
-----------------------------------------------------------------------------
\* Until the stop, the enforcer sees every event of a ring buffer, once and in
\* the kernel's order: a slow enforcer holds the monitors up, which leaves the
\* losses to the ring buffer.
NothingSkipped ==
  [][LoopTakes => LET e == Head(chan)
                  IN  e[2] = Following(handled[e[1]])]_vars

\* While the kernel has events, Stop returns, even when the enforcer's loop has
\* gone first and the channel is full.
StopReturnsBusy == Busy => (stop = "cancelled" ~> stop = "stopped")

\* docs/PRD.md:492, "Handle graceful shutdown": Stop returns on a quiet system
\* too.
StopReturns == stop = "cancelled" ~> stop = "stopped"
=============================================================================
