------------------------------- MODULE Canary -------------------------------
(***************************************************************************)
(* The canary analyzer (internal/policyserver/canary.go) and the rollout   *)
(* it watches.  The analyzer keeps its counters by rollout id, so one id   *)
(* is enough; decisions, evaluations, configuration and the operator's     *)
(* own changes to the rollout come in any order.                           *)
(***************************************************************************)
EXTENDS Integers

CONSTANTS Deltas, Windows, Mins, \* bound: configurations used, see Configs
          MaxSamples, \* bound: decisions recorded per cohort
          MaxTime     \* bound: the clock

\* MaxDenyRateDelta in percent, ObservationWindow in ticks.
Configs == [delta : Deltas, window : Windows, min : Mins, auto : BOOLEAN]

VARIABLES
  config,   \* configs[id], or None
  counters, \* counters[id], or None
  verdict,  \* of the last Evaluate
  rollout,  \* the rollout's status, "none" before it is created
  started,  \* when it was created
  now

vars == <<config, counters, verdict, rollout, started, now>>

None == [none |-> TRUE]

Counters == [baselineTotal : 0..MaxSamples, baselineDeny : 0..MaxSamples,
             canaryTotal : 0..MaxSamples, canaryDeny : 0..MaxSamples,
             startedAt : 0..MaxTime, rolledBack : BOOLEAN]

TypeOK ==
  /\ config \in Configs \cup {None}
  /\ \/ counters = None
     \/ /\ counters \in Counters
        /\ counters.baselineDeny <= counters.baselineTotal
        /\ counters.canaryDeny <= counters.canaryTotal
  /\ verdict \in {"none", "pending", "healthy", "degraded", "rolled-back"}
  /\ rollout \in {"none", "active", "completed", "aborted"}
  /\ started \in 0..MaxTime /\ now \in 0..MaxTime

\* NewCanaryAnalyzer
Init == /\ config = None /\ counters = None /\ verdict = "none"
        /\ rollout = "none" /\ started = 0 /\ now = 0

Fresh == [baselineTotal |-> 0, baselineDeny |-> 0, canaryTotal |-> 0,
          canaryDeny |-> 0, startedAt |-> now, rolledBack |-> FALSE]

\* The counters are made by whichever call comes first.
Counted == IF counters = None THEN Fresh ELSE counters

Configure(c) ==
  /\ config' = c /\ counters' = Counted
  /\ UNCHANGED <<verdict, rollout, started, now>>

RecordDecision(isCanary, denied) ==
  LET d == IF denied THEN 1 ELSE 0 IN
  /\ IF isCanary
     THEN /\ Counted.canaryTotal < MaxSamples
          /\ counters' = [Counted EXCEPT !.canaryTotal = @ + 1,
                                         !.canaryDeny = @ + d]
     ELSE /\ Counted.baselineTotal < MaxSamples
          /\ counters' = [Counted EXCEPT !.baselineTotal = @ + 1,
                                         !.baselineDeny = @ + d]
  /\ UNCHANGED <<config, verdict, rollout, started, now>>

EnoughObserved ==
  /\ counters.canaryTotal >= config.min /\ counters.baselineTotal >= config.min
  /\ now - counters.startedAt >= config.window

\* Mutant of Exceeds: a cohort without samples counts as denying everything.
ExceedsEmpty ==
  LET b == counters.baselineTotal  c == counters.canaryTotal
  IN  \/ c = 0
      \/ (counters.canaryDeny * b - counters.baselineDeny * c) * 100
           > config.delta * b * c

\* delta > MaxDenyRateDelta.  A rate of a cohort without samples is not a
\* number, and no comparison with it is true.
Exceeds ==
  LET b == counters.baselineTotal  c == counters.canaryTotal
  IN  /\ b > 0 /\ c > 0
      /\ (counters.canaryDeny * b - counters.baselineDeny * c) * 100
           > config.delta * b * c

\* AbortRollout; the error for a rollout that does not exist is dropped.
Aborted == IF rollout = "none" THEN "none" ELSE "aborted"

\* Mutant of Evaluate: the rollback is noted before AutoRollback is asked.
EvaluateMarks ==
  /\ \/ /\ config = None \/ counters = None
        /\ verdict' = "pending" /\ UNCHANGED <<counters, rollout>>
     \/ /\ config # None /\ counters # None
        /\ IF EnoughObserved /\ Exceeds /\ ~counters.rolledBack
           THEN /\ counters' = [counters EXCEPT !.rolledBack = TRUE]
                /\ rollout' = IF config.auto THEN Aborted ELSE rollout
                /\ verdict' = "rolled-back"
           ELSE UNCHANGED <<counters, rollout, verdict>>
  /\ UNCHANGED <<config, started, now>>

Evaluate ==
  /\ \/ /\ config = None \/ counters = None
        /\ verdict' = "pending" /\ UNCHANGED <<counters, rollout>>
     \/ /\ config # None /\ counters # None
        /\ IF EnoughObserved /\ Exceeds /\ config.auto /\ ~counters.rolledBack
           THEN /\ counters' = [counters EXCEPT !.rolledBack = TRUE]
                /\ rollout' = Aborted /\ verdict' = "rolled-back"
           ELSE /\ verdict' = IF counters.rolledBack THEN "rolled-back"
                              ELSE IF ~EnoughObserved THEN "pending"
                              ELSE IF Exceeds THEN "degraded" ELSE "healthy"
                /\ UNCHANGED <<counters, rollout>>
  /\ UNCHANGED <<config, started, now>>

Reset ==
  /\ config' = None /\ counters' = None
  /\ UNCHANGED <<verdict, rollout, started, now>>

\* The operator: RolloutManager's CreateRollout, CompleteRollout, AbortRollout.
CreateRollout ==
  /\ rollout = "none" /\ rollout' = "active" /\ started' = now
  /\ UNCHANGED <<config, counters, verdict, now>>

EndRollout(status) ==
  /\ rollout # "none" /\ rollout' = status
  /\ UNCHANGED <<config, counters, verdict, started, now>>

Tick == now < MaxTime /\ now' = now + 1
        /\ UNCHANGED <<config, counters, verdict, rollout, started>>

Next == \/ \E c \in Configs : Configure(c)
        \/ \E i, d \in BOOLEAN : RecordDecision(i, d)
        \/ Evaluate \/ Reset \/ CreateRollout \/ Tick
        \/ EndRollout("completed") \/ EndRollout("aborted")

Spec == Init /\ [][Next]_vars
-----------------------------------------------------------------------------
RollsBack == Evaluate /\ verdict' = "rolled-back" /\ ~counters.rolledBack

\* docs/canary-rollout.md:93, "Wait until `observation_window` has elapsed
\* since rollout start": no rollback comes sooner after the rollout began.
ObservedSinceStart ==
  [][RollsBack /\ rollout = "active" => now - started >= config.window]_vars
=============================================================================
