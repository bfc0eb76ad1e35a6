---------------------------- MODULE PolicyServer ----------------------------
(***************************************************************************)
(* The policy server and its agents (internal/policyserver): the store of  *)
(* policies, the rollouts, and the polling client of every agent.  A poll  *)
(* is two requests, one for the assignment and one for the WASM binary,    *)
(* and the server answers the first under two locks taken one after the    *)
(* other, so administrators act between any two of these steps.            *)
(***************************************************************************)
EXTENDS Integers, FiniteSets

CONSTANTS Agents, Policies, Rollouts, \* their ids
          Selects,    \* selectorMatches: <<policy, agent>> -> BOOLEAN
          Priority,   \* of each policy
          Bucket,     \* consistentBucket: <<rollout, agent>> -> 0..99
          Percents,   \* bound: percentages used
          MaxPushes,  \* bound: binaries uploaded
          Documented  \* administrators keep to the documented workflow

ASSUME ServerAssumption ==
  /\ Selects \in [Policies \X Agents -> BOOLEAN]
  /\ Priority \in [Policies -> Int]
  /\ Bucket \in [Rollouts \X Agents -> 0..99]
  /\ Percents \subseteq 0..100
  /\ MaxPushes \in Nat /\ Documented \in BOOLEAN

VARIABLES
  policies, \* Store.policies and wasm: partial function from ids
  pushes,   \* binaries uploaded so far; each gets the next number
  life,     \* of the server: how many had been uploaded when it started
  rollouts, \* RolloutManager.rollouts: partial function from ids
  agents,   \* ids registered
  pc,       \* per agent's poll: "idle", "matched", "fetch"
  base,     \* per agent: the policy matched
  asg,      \* per agent: the assignment received
  version,  \* per agent: Client.policyVersion
  wasm,     \* per agent: the binary it runs, as handed to onUpdate
  origin    \* history, per agent: the server's life its version is from

store == <<policies, pushes, life>>
client == <<pc, base, asg, version, wasm, origin>>
vars == <<store, rollouts, agents, client>>

None == [policy |-> "none"]
Versions == 0..MaxPushes

\* A binary: the policy it was uploaded for, as which version, in which life of
\* the server, and its number.
Binary == [policy : Policies, ver : Versions, life : Versions, push : 1..MaxPushes]
Assignment == [policy : Policies, ver : Versions, life : Versions]
RolloutState == [policy : Policies, target : Versions, pct : 0..100,
                 status : {"active", "completed", "aborted"},
                 baseVersion : Versions]

TypeOK ==
  /\ DOMAIN policies \subseteq Policies
  /\ \A p \in DOMAIN policies : policies[p] \in Binary /\ policies[p].policy = p
  /\ pushes \in Versions /\ life \in Versions
  /\ DOMAIN rollouts \subseteq Rollouts
  /\ \A r \in DOMAIN rollouts : rollouts[r] \in RolloutState
  /\ agents \subseteq Agents
  /\ pc \in [Agents -> {"idle", "matched", "fetch"}]
  /\ base \in [Agents -> Binary \cup {None}]
  /\ asg \in [Agents -> Assignment \cup {None}]
  /\ version \in [Agents -> Versions]
  /\ wasm \in [Agents -> Binary \cup {None}]
  /\ origin \in [Agents -> Versions]

\* NewStore, NewRolloutManager, NewClient
Init ==
  /\ policies = << >> /\ pushes = 0 /\ life = 0 /\ rollouts = << >> /\ agents = {}
  /\ pc = [a \in Agents |-> "idle"]
  /\ base = [a \in Agents |-> None] /\ asg = [a \in Agents |-> None]
  /\ version = [a \in Agents |-> 0] /\ wasm = [a \in Agents |-> None]
  /\ origin = [a \in Agents |-> 0]

Put(f, k, v) == [x \in DOMAIN f \cup {k} |-> IF x = k THEN v ELSE f[x]]
Delete(f, k) == [x \in DOMAIN f \ {k} |-> f[x]]
-----------------------------------------------------------------------------
(* Administrators: policies. *)

Upload(p, ver) ==
  /\ pushes < MaxPushes /\ pushes' = pushes + 1
  /\ policies' = Put(policies, p, [policy |-> p, ver |-> ver, life |-> life,
                                   push |-> pushes + 1])
  /\ UNCHANGED <<life, rollouts, agents, client>>

CreatePolicy(p) == p \notin DOMAIN policies /\ Upload(p, 1)

\* Mutant of UpdatePolicy: the version is not raised.
UpdatePolicySame(p) ==
  p \in DOMAIN policies /\ Upload(p, policies[p].ver)

UpdatePolicy(p) == p \in DOMAIN policies /\ Upload(p, policies[p].ver + 1)

DeletePolicy(p) ==
  /\ ~Documented /\ p \in DOMAIN policies
  /\ policies' = Delete(policies, p)
  /\ UNCHANGED <<pushes, life, rollouts, agents, client>>

\* A crash, or a new process: everything the server knows is in memory, and
\* requests it was serving fail.
ServerRestart ==
  /\ policies' = << >> /\ rollouts' = << >> /\ agents' = {} /\ life' = pushes
  /\ pc' = [a \in Agents |-> IF pc[a] = "matched" THEN "idle" ELSE pc[a]]
  /\ base' = [a \in Agents |-> None]
  /\ UNCHANGED <<pushes, asg, version, wasm, origin>>
-----------------------------------------------------------------------------
(* Administrators: rollouts. *)

\* The target version is whatever the request says; the documented workflow
\* pushes the new version first and names it.
CreateRollout(r, p, target, pct) ==
  /\ r \notin DOMAIN rollouts /\ p \in DOMAIN policies
  /\ Documented => target = policies[p].ver
  /\ rollouts' = Put(rollouts, r,
       [policy |-> p, target |-> target, pct |-> pct, status |-> "active",
        baseVersion |-> policies[p].ver - 1])
  /\ UNCHANGED <<store, agents, client>>

\* In whatever state the rollout is; 100 completes it.
UpdatePercentage(r, pct) ==
  /\ r \in DOMAIN rollouts
  /\ rollouts' = [rollouts EXCEPT ![r].pct = pct,
                    ![r].status = IF pct = 100 THEN "completed" ELSE @]
  /\ UNCHANGED <<store, agents, client>>

AbortRollout(r) ==
  /\ r \in DOMAIN rollouts
  /\ rollouts' = [rollouts EXCEPT ![r].status = "aborted"]
  /\ UNCHANGED <<store, agents, client>>
-----------------------------------------------------------------------------
(* Agents. *)

RegisterAgent(a) ==
  /\ agents' = agents \cup {a}
  /\ UNCHANGED <<store, rollouts, client>>

\* MatchPolicy: a policy of the highest priority that selects the agent.
Matching(a) ==
  LET sel == {p \in DOMAIN policies : Selects[<<p, a>>]}
  IN  {p \in sel : \A q \in sel : Priority[q] <= Priority[p]}

\* handleGetPolicy up to MatchPolicy.  An agent that is not registered, or
\* matches nothing, gets an error and polls again.
PollMatches(a) ==
  /\ pc[a] = "idle" /\ a \in agents
  /\ \E p \in Matching(a) : base' = [base EXCEPT ![a] = policies[p]]
  /\ pc' = [pc EXCEPT ![a] = "matched"]
  /\ UNCHANGED <<store, rollouts, agents, asg, version, wasm, origin>>

\* The rollouts of the matched policy whose cohort the agent is in.
Cohorts(a) ==
  {r \in DOMAIN rollouts : /\ rollouts[r].status = "active"
                           /\ rollouts[r].policy = base[a].policy
                           /\ Bucket[<<r, a>>] < rollouts[r].pct}

\* ResolvePolicy: the target of any such rollout, else the policy's version.
Resolved(a) ==
  IF Cohorts(a) = {} THEN {base[a].ver}
  ELSE {rollouts[r].target : r \in Cohorts(a)}

\* Mutant of NotModified: any difference is an update.
NotModifiedEqual(a, v) == version[a] = v

\* handleGetPolicy and poll: the agent's version is compared with that of the
\* assignment, on both sides.
NotModified(a, v) == version[a] >= v

PollResolves(a, v) ==
  /\ pc[a] = "matched" /\ v \in Resolved(a)
  /\ IF NotModified(a, v)
     THEN pc' = [pc EXCEPT ![a] = "idle"] /\ UNCHANGED asg
     ELSE /\ pc' = [pc EXCEPT ![a] = "fetch"]
          /\ asg' = [asg EXCEPT ![a] = [policy |-> base[a].policy, ver |-> v,
                                         life |-> base[a].life]]
  /\ base' = [base EXCEPT ![a] = None]
  /\ UNCHANGED <<store, rollouts, agents, version, wasm, origin>>

\* Mutant of FetchWASM: the version is taken over even if no binary arrives.
FetchWASMEarly(a) ==
  /\ pc[a] = "fetch"
  /\ version' = [version EXCEPT ![a] = asg[a].ver]
  /\ origin' = [origin EXCEPT ![a] = asg[a].life]
  /\ \/ UNCHANGED wasm
     \/ /\ asg[a].policy \in DOMAIN policies
        /\ wasm' = [wasm EXCEPT ![a] = policies[asg[a].policy]]
  /\ pc' = [pc EXCEPT ![a] = "idle"] /\ asg' = [asg EXCEPT ![a] = None]
  /\ UNCHANGED <<store, rollouts, agents, base>>

\* fetchWASM: whatever binary the policy has by now.
FetchWASM(a) ==
  /\ pc[a] = "fetch" /\ asg[a].policy \in DOMAIN policies
  /\ version' = [version EXCEPT ![a] = asg[a].ver]
  /\ origin' = [origin EXCEPT ![a] = asg[a].life]
  /\ wasm' = [wasm EXCEPT ![a] = policies[asg[a].policy]]
  /\ pc' = [pc EXCEPT ![a] = "idle"] /\ asg' = [asg EXCEPT ![a] = None]
  /\ UNCHANGED <<store, rollouts, agents, base>>

\* A request or an answer is lost, or the policy is gone.
PollFails(a) ==
  /\ pc[a] # "idle"
  /\ pc' = [pc EXCEPT ![a] = "idle"]
  /\ base' = [base EXCEPT ![a] = None] /\ asg' = [asg EXCEPT ![a] = None]
  /\ UNCHANGED <<store, rollouts, agents, version, wasm, origin>>

Next ==
  \/ \E p \in Policies : CreatePolicy(p) \/ UpdatePolicy(p) \/ DeletePolicy(p)
  \/ ServerRestart
  \/ \E r \in Rollouts, p \in Policies, t \in Versions, pct \in Percents :
       CreateRollout(r, p, t, pct)
  \/ \E r \in Rollouts : \/ AbortRollout(r)
                         \/ \E pct \in Percents : UpdatePercentage(r, pct)
  \/ \E a \in Agents : \/ RegisterAgent(a) \/ PollMatches(a) \/ FetchWASM(a)
                       \/ PollFails(a)
                       \/ \E v \in Versions : PollResolves(a, v)

\* The poll loop's ticker keeps firing; a network that keeps losing requests
\* lets one through in the end.  Nothing makes an agent register, or register
\* again with a server that forgot it.
Fairness ==
  \A a \in Agents : /\ WF_vars(PollMatches(a))
                    /\ SF_vars(\E v \in Versions : PollResolves(a, v))
                    /\ SF_vars(FetchWASM(a))

Spec == Init /\ [][Next]_vars /\ Fairness
-----------------------------------------------------------------------------
\* An agent's version only rises, and a binary is never replaced by an older
\* one of the same policy, whatever happens between the two requests of a poll
\* and however often the server loses its memory.
NeverGoesBack ==
  [][\A a \in Agents :
       /\ version'[a] >= version[a]
       /\ wasm'[a] # wasm[a] => version'[a] > version[a]
       /\ wasm[a] # None /\ wasm'[a] # None /\ wasm'[a].policy = wasm[a].policy
            => wasm'[a].push >= wasm[a].push]_vars

\* In the documented workflow an agent's version never overstates the binary
\* it runs, although the two arrive in separate requests with administrators
\* acting between them.  Only a restart of the server in between can part them,
\* because versions then begin at 1 again.
VersionHonest ==
  Documented => \A a \in Agents : version[a] > 0 =>
    wasm[a] # None /\ (wasm[a].life = origin[a] => version[a] <= wasm[a].ver)

\* The version is from before the server last started, and the policy's has not
\* passed it since.
Overtaken(a, p) == origin[a] < policies[p].life /\ version[a] >= policies[p].ver

\* In the documented workflow, when no rollout is active any more every agent
\* that stays registered and that one policy selects comes to run that policy's
\* latest binary; or else it holds a version from an earlier life of the server
\* that the policy's, counted from 1 again, has not passed.
CaughtUp ==
  \A a \in Agents, p \in Policies :
    /\ \A q \in Policies : Selects[<<q, a>>] <=> q = p
    /\ <>[](/\ p \in DOMAIN policies /\ a \in agents
            /\ \A r \in DOMAIN rollouts : rollouts[r].status # "active")
    => <>[](/\ p \in DOMAIN policies
            /\ wasm[a] = policies[p] \/ Overtaken(a, p))

\* internal/policyserver/server.go:196, "if agent already has this version,
\* return 304": an agent told that nothing changed runs the policy it matches.
NotModifiedIsRunning ==
  [][\A a \in Agents, v \in Versions :
       PollResolves(a, v) /\ NotModified(a, v)
         => wasm[a].policy = base[a].policy]_vars

\* docs/canary-rollout.md:7, "Agents are assigned to the canary (new policy) or
\* baseline (current policy) cohort": an agent outside the cohort of an active
\* rollout is not sent beyond the version from before the rollout.
BaselineStays ==
  [][\A a \in Agents, r \in DOMAIN rollouts :
       /\ pc[a] = "matched" /\ pc'[a] = "fetch"
       /\ rollouts[r].status = "active" /\ rollouts[r].policy = base[a].policy
       /\ Bucket[<<r, a>>] >= rollouts[r].pct /\ rollouts[r].baseVersion > 0
       => asg'[a].ver <= rollouts[r].baseVersion]_vars

\* docs/canary-rollout.md:86, "Reverts all agents to the baseline policy
\* version": after an abort an agent that stays registered is at the base version
\* in the end, restarts of the server apart.
AbortReverts ==
  \A r \in Rollouts, a \in Agents :
    <>[](/\ r \in DOMAIN rollouts /\ a \in agents /\ origin[a] = life
         /\ rollouts[r].status = "aborted" /\ rollouts[r].baseVersion > 0)
    => <>(r \in DOMAIN rollouts /\ version[a] <= rollouts[r].baseVersion
            /\ rollouts[r].status = "aborted")
=============================================================================
