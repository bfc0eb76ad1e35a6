---------------------------- MODULE AgentRegistry ----------------------------
(***************************************************************************)
(* Which agents the policy server takes for alive: registration, the       *)
(* heartbeats on their way, the stale check of the server's ticker, and    *)
(* restarts of either side (internal/policyserver/store.go, client.go).    *)
(* Time is kept as the age of the last heartbeat, which stops counting     *)
(* once it is beyond every threshold, so that time itself is unbounded.    *)
(***************************************************************************)
EXTENDS Integers

CONSTANTS Agents,
          Threshold, \* the server's staleCheck, in ticks
          MaxFlight  \* bound: heartbeats of one agent on their way

VARIABLES
  status,  \* of each agent at the server; "unknown" is not registered
  age,     \* time since LastHeartbeat
  running, \* the agent's process, after Register has succeeded
  flight   \* its heartbeats sent and not yet handled

vars == <<status, age, running, flight>>

Oldest == 3 * Threshold + 1

TypeOK ==
  /\ status \in [Agents -> {"unknown", "active", "stale", "disconnected"}]
  /\ age \in [Agents -> 0..Oldest]
  /\ running \in [Agents -> BOOLEAN]
  /\ flight \in [Agents -> 0..MaxFlight]

Init ==
  /\ status = [a \in Agents |-> "unknown"] /\ age = [a \in Agents |-> 0]
  /\ running = [a \in Agents |-> FALSE] /\ flight = [a \in Agents |-> 0]

\* An agent starts, or starts again, and registers.
RegisterAgent(a) ==
  /\ ~running[a] /\ running' = [running EXCEPT ![a] = TRUE]
  /\ status' = [status EXCEPT ![a] = "active"]
  /\ age' = [age EXCEPT ![a] = 0]
  /\ UNCHANGED flight

\* The client gives up on an answer after a timeout and sends the next one;
\* the earlier request may still arrive.
SendHeartbeat(a) ==
  /\ running[a] /\ flight[a] < MaxFlight
  /\ flight' = [flight EXCEPT ![a] = @ + 1]
  /\ UNCHANGED <<status, age, running>>

\* Mutant of Heartbeat: the time is updated and the status is not.
HeartbeatTimeOnly(a) ==
  /\ flight[a] > 0 /\ flight' = [flight EXCEPT ![a] = @ - 1]
  /\ age' = [age EXCEPT ![a] = IF status[a] = "unknown" THEN @ ELSE 0]
  /\ UNCHANGED <<running, status>>

\* An agent the server does not know gets an error, which it does not look at.
Heartbeat(a) ==
  /\ flight[a] > 0 /\ flight' = [flight EXCEPT ![a] = @ - 1]
  /\ IF status[a] = "unknown" THEN UNCHANGED <<status, age>>
     ELSE /\ status' = [status EXCEPT ![a] = "active"]
          /\ age' = [age EXCEPT ![a] = 0]
  /\ UNCHANGED running

HeartbeatLost(a) ==
  /\ flight[a] > 0 /\ flight' = [flight EXCEPT ![a] = @ - 1]
  /\ UNCHANGED <<status, age, running>>

AgentStops(a) ==
  /\ running[a] /\ running' = [running EXCEPT ![a] = FALSE]
  /\ UNCHANGED <<status, age, flight>>

\* Mutant of Checked: stale agents are not looked at again.
CheckedOnce(a) ==
  IF status[a] = "active" /\ age[a] > Threshold THEN "stale" ELSE status[a]

\* MarkStaleAgents, for one agent: the second test sees the first one's result.
Checked(a) ==
  LET s == IF status[a] = "active" /\ age[a] > Threshold
           THEN "stale" ELSE status[a]
  IN  IF s = "stale" /\ age[a] > 3 * Threshold THEN "disconnected" ELSE s

MarkStaleAgents ==
  /\ status' = [a \in Agents |-> Checked(a)]
  /\ UNCHANGED <<age, running, flight>>

\* The store is in memory.
ServerRestart ==
  /\ status' = [a \in Agents |-> "unknown"] /\ age' = [a \in Agents |-> 0]
  /\ UNCHANGED <<running, flight>>

Tick ==
  /\ age' = [a \in Agents |-> IF status[a] # "unknown" /\ age[a] < Oldest
                              THEN age[a] + 1 ELSE age[a]]
  /\ UNCHANGED <<status, running, flight>>

Next == \/ \E a \in Agents : \/ RegisterAgent(a) \/ SendHeartbeat(a)
                             \/ Heartbeat(a) \/ HeartbeatLost(a)
                             \/ AgentStops(a)
        \/ MarkStaleAgents \/ ServerRestart \/ Tick

\* Time passes, staleLoop's ticker fires, and a request on its way arrives or
\* is lost.
Fairness ==
  /\ WF_vars(Tick) /\ WF_vars(MarkStaleAgents)
  /\ \A a \in Agents : WF_vars(Heartbeat(a) \/ HeartbeatLost(a))

Spec == Init /\ [][Next]_vars /\ Fairness
-----------------------------------------------------------------------------
\* An agent shown as stale or disconnected has really been silent for as long
\* as MarkStaleAgents requires, however its check and late heartbeats meet.
StatusMeansSilence ==
  \A a \in Agents : /\ status[a] = "stale" => age[a] > Threshold
                    /\ status[a] = "disconnected" => age[a] > 3 * Threshold

\* An agent that has stopped for good is not shown as alive for ever: whatever
\* heartbeats were still on their way, it ends as disconnected, unless a
\* restart of the server has forgotten it.
SilenceNoticed ==
  \A a \in Agents :
    <>[](~running[a])
      => <>[](status[a] \in {"disconnected", "unknown"})
=============================================================================
