----------------------------- MODULE ServerBooks -----------------------------
(***************************************************************************)
(* The two books the policy server keeps beside its policies: which agents *)
(* are alive (AgentRegistry) and how a canary rollout does (Canary).  They *)
(* have a lock each and read nothing of each other, so a property of one   *)
(* book cannot depend on the steps of the other; a behaviour here runs one *)
(* of them and leaves the other as it was.                                 *)
(***************************************************************************)
EXTENDS Integers

CONSTANTS Fleet, Threshold, MaxFlight,               \* AgentRegistry
          Deltas, Windows, Mins, MaxSamples, MaxTime \* Canary

ASSUME RegistryAssumption == Threshold \in Nat \ {0} /\ MaxFlight \in Nat \ {0}

ASSUME CanaryAssumption ==
  /\ Deltas \subseteq Nat /\ Windows \subseteq Nat /\ Mins \subseteq Nat
  /\ MaxSamples \in Nat /\ MaxTime \in Nat

VARIABLES status, age, running, flight, \* AgentRegistry
          config, counters, verdict, rollout, started, now, \* Canary
          book  \* the one that runs

registry == <<status, age, running, flight>>
canary == <<config, counters, verdict, rollout, started, now>>
books == <<registry, canary, book>>

R == INSTANCE AgentRegistry WITH Agents <- Fleet
C == INSTANCE Canary

BooksTypeOK == R!TypeOK /\ C!TypeOK /\ book \in {"agents", "canary"}

BooksInit == R!Init /\ C!Init /\ book \in {"agents", "canary"}

Agent(A) == book = "agents" /\ A /\ UNCHANGED <<canary, book>>

Analyze == book = "canary" /\ C!Next /\ UNCHANGED <<registry, book>>

BooksNext == Agent(R!Next) \/ Analyze

\* The fairness of AgentRegistry, when it runs.
BooksFairness ==
  /\ WF_books(Agent(R!Tick)) /\ WF_books(Agent(R!MarkStaleAgents))
  /\ \A a \in Fleet : WF_books(Agent(R!Heartbeat(a) \/ R!HeartbeatLost(a)))

BooksSpec == BooksInit /\ [][BooksNext]_books /\ BooksFairness
-----------------------------------------------------------------------------
\* Evaluate rolls back only on evidence from both cohorts: the canary cohort
\* has denied something, and a larger share of its decisions than the baseline.
\* No order of Configure, RecordDecision and Reset brings it to divide by zero
\* samples and act on the result.
RollbackOnEvidence ==
  [][C!RollsBack =>
       /\ counters.baselineTotal > 0 /\ counters.canaryDeny > 0
       /\ counters.canaryDeny * counters.baselineTotal
            > counters.baselineDeny * counters.canaryTotal]_books

\* A rollout the analyzer has given up is active all the same.
Unwatched ==
  counters # C!None /\ counters.rolledBack /\ rollout = "active"

\* A rollback holds.  Evaluate acts once and drops AbortRollout's error, so a
\* rollout that is active behind its back is never rolled back again; the only
\* way there is that it was created after the rollback, under an id for which
\* decisions had already been recorded.  No order of Configure, RecordDecision,
\* Reset and the operator's changes makes one that was there active again.
RollbackHolds == [][Unwatched' => Unwatched \/ rollout = "none"]_books

\* What the registry shows of an agent is true of it, and a lasting silence is
\* noticed (see AgentRegistry).
StatusMeansSilence == R!StatusMeansSilence
SilenceNoticed == R!SilenceNoticed
=============================================================================
