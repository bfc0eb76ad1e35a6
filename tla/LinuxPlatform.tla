---------------------------- MODULE LinuxPlatform ----------------------------
(***************************************************************************)
(* The Linux platform from Load to Stop: LinuxLoad, then Start, then       *)
(* LinuxMonitors.  Which monitors Start creates depends on what Load got   *)
(* the kernel to accept.  One monitor stands for the three tracepoint      *)
(* monitors, which run the same code; the other reads the LSM events.      *)
(***************************************************************************)
EXTENDS Integers, Sequences

CONSTANTS Monitors, RingSize, ChanSize, MaxNumber, Busy \* LinuxMonitors

ASSUME MonitorAssumption ==
  /\ {RingSize, ChanSize, MaxNumber} \subseteq Nat \ {0}
  /\ Busy \in BOOLEAN

VARIABLES enforce, require, skip, filter, at, traced, scope, lsmSteps, lsm,
          armed, lsmScope, posture, \* LinuxLoad
          ring, produced, mpc, held, chan, handled, loop, stop, \* LinuxMonitors
          started                   \* Start has been called

loading == <<enforce, require, skip, filter, at, traced, scope, lsmSteps, lsm,
             armed, lsmScope, posture>>
monitoring == <<ring, produced, mpc, held, chan, handled, loop, stop>>
platform == <<monitoring, loading, started>>

L == INSTANCE LinuxLoad
M == INSTANCE LinuxMonitors

LSM == "lsm"

ASSUME LSMAssumption == LSM \in Monitors

PlatformTypeOK == M!TypeOK /\ L!TypeOK /\ started \in BOOLEAN

PlatformInit ==
  /\ L!Init /\ started = FALSE
  /\ ring = [m \in Monitors |-> << >>] /\ chan = << >>
  /\ produced = [m \in Monitors |-> 0] /\ handled = [m \in Monitors |-> 0]
  /\ mpc = [m \in Monitors |-> "done"] /\ held = [m \in Monitors |-> 0]
  /\ loop = FALSE /\ stop = "no"

Load == ~started /\ L!Next /\ UNCHANGED <<monitoring, started>>

\* Mutant of Start: the LSM monitor is forgotten.
StartThree ==
  /\ ~started /\ at = "ok" /\ started' = TRUE /\ loop' = TRUE
  /\ mpc' = [m \in Monitors |-> IF m = LSM THEN "done" ELSE "check"]
  /\ UNCHANGED <<ring, produced, held, chan, handled, stop, loading>>

\* LinuxPlatform.Start and the enforcer's own goroutine.
Start ==
  /\ ~started /\ at = "ok" /\ started' = TRUE /\ loop' = TRUE
  /\ mpc' = [m \in Monitors |-> IF m = LSM /\ ~lsm THEN "done" ELSE "check"]
  /\ UNCHANGED <<ring, produced, held, chan, handled, stop, loading>>

\* A program that is attached submits an event.
Submit(m) ==
  /\ started /\ (m = LSM => lsm)
  /\ M!KernelEvent(m) /\ UNCHANGED <<loading, started>>

Rest(A) == started /\ A /\ UNCHANGED <<loading, started>>

PlatformNext ==
  \/ Load \/ Start
  \/ \E m \in Monitors : Submit(m) \/ Rest(M!Monitor(m))
  \/ Rest(M!LoopTakes) \/ Rest(M!LoopEnds)
  \/ Rest(M!StopCancels) \/ Rest(M!StopCloses) \/ Rest(M!StopWaits)

\* As in LinuxMonitors; attached programs submit without end when Busy.
PlatformFairness ==
  /\ \A m \in Monitors :
       /\ WF_platform(Rest(M!Monitor(m))) /\ SF_platform(Rest(M!MonitorQuits(m)))
       /\ Busy => WF_platform(Submit(m))
  /\ WF_platform(Rest(M!LoopTakes)) /\ SF_platform(Rest(M!LoopEnds))
  /\ WF_platform(Rest(M!StopCloses)) /\ WF_platform(Rest(M!StopWaits))

PlatformSpec == PlatformInit /\ [][PlatformNext]_platform /\ PlatformFairness
-----------------------------------------------------------------------------
\* A Load that succeeds got what it was asked for, and the posture it printed
\* is true to the programs in the kernel (see LinuxLoad); neither is undone
\* while the platform runs and stops.
LoadGranted == L!LoadGranted
PostureMatchesPrograms == L!PostureMatchesPrograms

\* Every ring buffer that attached programs fill has a monitor that reads it,
\* until the platform is told to stop.
RingsRead ==
  started /\ ~M!Told =>
    \A m \in Monitors : mpc[m] # "done" <=> (m = LSM => lsmSteps = L!LSMSteps)

\* Nothing the kernel's programs submitted is lost between a ring buffer and
\* the enforcer, and Stop returns, with either loader's outcome (see
\* LinuxMonitors).
NothingSkipped == M!NothingSkipped
StopReturnsBusy == M!StopReturnsBusy
=============================================================================
