-------------------------- MODULE PolicyServerProofs --------------------------
(* For any agents, policies, rollouts and bounds: what an agent runs never    *)
(* goes back, and in the documented workflow its version is honest unless the *)
(* server restarted between the two requests of the poll.                     *)
EXTENDS PolicyServer, TLAPS

\* Versions and numbers of binaries only rise in the store while a policy
\* exists, and all the store's are from this life of the server; a fetch under
\* way is for a version above the agent's; nothing an agent holds or was
\* promised is newer than the store, and a life is over once another begins.
PollsAhead ==
  /\ life <= pushes
  /\ \A p \in DOMAIN policies :
       /\ 1 <= policies[p].ver /\ policies[p].ver <= policies[p].push
       /\ policies[p].push <= pushes
       /\ policies[p].life = life /\ life < policies[p].push
  /\ \A a \in Agents : pc[a] = "matched" =>
       base[a] \in Binary /\ base[a].life < pushes
  /\ \A a \in Agents : pc[a] = "fetch" =>
       asg[a] \in Assignment /\ version[a] < asg[a].ver /\ asg[a].life < pushes
  /\ \A a \in Agents : wasm[a] # None =>
       /\ wasm[a].push <= pushes
       /\ wasm[a].policy \in DOMAIN policies
            => wasm[a].push <= policies[wasm[a].policy].push

\* In the documented workflow, for versions given in this life of the server.
VersionsKnown ==
  Documented =>
    /\ \A r \in DOMAIN rollouts :
         /\ rollouts[r].policy \in DOMAIN policies
         /\ rollouts[r].target <= policies[rollouts[r].policy].ver
    /\ \A a \in Agents : pc[a] = "matched" =>
         /\ base[a].policy \in DOMAIN policies
         /\ base[a].ver <= policies[base[a].policy].ver
    /\ \A a \in Agents : pc[a] = "fetch" /\ asg[a].life = life =>
         /\ asg[a].policy \in DOMAIN policies
         /\ asg[a].ver <= policies[asg[a].policy].ver

IInv == TypeOK /\ PollsAhead /\ VersionsKnown /\ VersionHonest

\* The store is a map: what a deletion leaves in it.
LEMMA DeleteFacts ==
  ASSUME NEW f, NEW k
  PROVE  /\ DOMAIN Delete(f, k) = DOMAIN f \ {k}
         /\ \A x \in DOMAIN Delete(f, k) : Delete(f, k)[x] = f[x]
  BY DEF Delete

\* A fresh server and fresh clients.
LEMMA ServerInit == Init => IInv
  <1> SUFFICES ASSUME Init PROVE IInv
    OBVIOUS
  <1>1. DOMAIN policies = {} /\ DOMAIN rollouts = {}
    BY DEF Init
  <1>2. TypeOK
    BY <1>1, ServerAssumption DEF Init, TypeOK, Versions
  <1>3. PollsAhead /\ VersionsKnown /\ VersionHonest
    BY <1>1, ServerAssumption DEF Init, PollsAhead, VersionsKnown, VersionHonest
  <1> QED
    BY <1>2, <1>3 DEF IInv

\* An upload under a version that its number allows and that does not lower the
\* version of an existing policy.
LEMMA UploadKeeps ==
  ASSUME IInv, NEW p \in Policies, NEW v \in Nat, Upload(p, v),
         1 <= v, v <= pushes + 1,
         p \in DOMAIN policies => policies[p].ver <= v
  PROVE  IInv'
  <1> DEFINE b == [policy |-> p, ver |-> v, life |-> life, push |-> pushes + 1]
  <1>1. /\ pushes' = pushes + 1 /\ pushes' \in Versions
        /\ life' = life /\ life <= pushes /\ life \in Versions /\ pushes \in Nat
        /\ DOMAIN policies' = DOMAIN policies \cup {p}
        /\ policies'[p] = b
        /\ \A x \in DOMAIN policies : x # p => policies'[x] = policies[x]
    <2>1. /\ pushes' = pushes + 1 /\ pushes' \in Versions
          /\ life' = life /\ life <= pushes /\ life \in Versions /\ pushes \in Nat
      BY ServerAssumption DEF Upload, IInv, TypeOK, Versions, PollsAhead
    <2>2. policies' = Put(policies, p, b)
      BY DEF Upload
    <2> HIDE DEF b
    <2> QED
      BY <2>1, <2>2 DEF Put
  <1>2. /\ b \in Binary /\ b.policy = p /\ b.ver = v /\ b.push = pushes + 1
        /\ b.life = life
    BY <1>1, ServerAssumption DEF Binary, Versions, IInv, TypeOK
  <1>3. \A x \in DOMAIN policies : policies[x] \in Binary
    BY DEF IInv, TypeOK
  <1> HIDE DEF b
  <1>4. TypeOK'
    BY <1>1, <1>2 DEF Upload, IInv, TypeOK, client
  <1>5. PollsAhead'
    <2>1. ASSUME NEW x \in DOMAIN policies'
          PROVE  /\ 1 <= policies'[x].ver /\ policies'[x].ver <= policies'[x].push
                 /\ policies'[x].push <= pushes'
                 /\ policies'[x].life = life /\ life < policies'[x].push
      <3>1. CASE x = p
        BY <1>1, <1>2, <3>1 DEF Versions
      <3>2. CASE x # p
        <4>1. x \in DOMAIN policies /\ policies'[x] = policies[x]
          BY <1>1, <3>2
        <4>2. policies[x].push \in Int
          BY <1>3, <4>1 DEF Binary
        <4> QED
          BY <1>1, <4>1, <4>2 DEF IInv, PollsAhead
      <3> QED
        BY <3>1, <3>2
    <2>2. \A a \in Agents : wasm[a] # None =>
            wasm[a] \in Binary /\ wasm[a].push <= pushes
      BY DEF IInv, TypeOK, PollsAhead
    <2>3. \A a \in Agents : wasm[a] # None =>
            /\ wasm[a].push <= pushes'
            /\ wasm[a].policy \in DOMAIN policies'
                 => wasm[a].push <= policies'[wasm[a].policy].push
      BY <1>1, <1>2, <2>2 DEF IInv, TypeOK, PollsAhead, Binary, Versions
    <2>4. UNCHANGED <<pc, base, asg, version, wasm>>
      BY Zenon DEF Upload, client
    <2>5. \A a \in Agents : pc[a] = "matched" =>
            base[a] \in Binary /\ base[a].life < pushes'
      BY <1>1 DEF IInv, PollsAhead, Binary, Versions
    <2>6. \A a \in Agents : pc[a] = "fetch" =>
            asg[a] \in Assignment /\ version[a] < asg[a].ver /\ asg[a].life < pushes'
      BY <1>1 DEF IInv, PollsAhead, Assignment, Versions
    <2>7. life' <= pushes'
      BY <1>1 DEF Versions
    <2>8. \A x \in DOMAIN policies' :
            policies'[x].life = life' /\ life' < policies'[x].push
      BY <1>1, <2>1
    <2> QED
      BY <2>1, <2>3, <2>4, <2>5, <2>6, <2>7, <2>8, Zenon DEF PollsAhead
  <1>6. \A x \in DOMAIN policies : x \in DOMAIN policies'
                                    /\ policies[x].ver <= policies'[x].ver
    BY <1>1, <1>2, <1>3 DEF Binary, Versions
  <1>7. VersionsKnown'
    <2>1. UNCHANGED <<life, rollouts, pc, base, asg>>
      BY Zenon DEF Upload, client
    <2>2. ASSUME NEW x \in DOMAIN policies, NEW t \in Versions,
                 t <= policies[x].ver
          PROVE  x \in DOMAIN policies' /\ t <= policies'[x].ver
      <3>1. x \in DOMAIN policies' /\ policies'[x] \in Binary
        BY <1>1, <1>2, <1>3
      <3>2. policies[x].ver \in Int /\ policies'[x].ver \in Int
        BY <1>3, <3>1 DEF Binary, Versions
      <3> QED
        BY <1>6, <2>2, <3>1, <3>2 DEF Versions
    <2>3. /\ \A r \in DOMAIN rollouts : rollouts[r].target \in Versions
          /\ \A a \in Agents : pc[a] = "matched" => base[a].ver \in Versions
          /\ \A a \in Agents : pc[a] = "fetch" => asg[a].ver \in Versions
      BY DEF IInv, TypeOK, PollsAhead, RolloutState, Binary, Assignment
    <2> QED
      BY <2>1, <2>2, <2>3, Zenon DEF IInv, VersionsKnown
  <1>8. VersionHonest'
    BY DEF VersionHonest, Upload, client, IInv
  <1> QED
    BY <1>4, <1>5, <1>7, <1>8 DEF IInv

\* Deleting a policy, outside the documented workflow.
LEMMA ForgetKeeps ==
  ASSUME IInv, ~Documented, UNCHANGED <<pushes, life, rollouts, agents, client>>,
         DOMAIN policies' \subseteq DOMAIN policies,
         \A x \in DOMAIN policies' : policies'[x] = policies[x]
  PROVE  IInv'
  <1>1. TypeOK'
    BY DEF IInv, TypeOK, client
  <1>2. PollsAhead'
    BY DEF IInv, PollsAhead, client
  <1>3. VersionsKnown' /\ VersionHonest'
    BY DEF VersionsKnown, VersionHonest
  <1> QED
    BY <1>1, <1>2, <1>3 DEF IInv

\* A restart: a fetch under way is for an assignment of a life that is over.
LEMMA RestartKeeps ==
  ASSUME IInv, ServerRestart
  PROVE  IInv'
  <1>1. /\ DOMAIN policies' = {} /\ DOMAIN rollouts' = {} /\ agents' = {}
        /\ life' = pushes /\ UNCHANGED <<pushes, asg, version, wasm, origin>>
    BY DEF ServerRestart
  <1>2. /\ pc' \in [Agents -> {"idle", "matched", "fetch"}]
        /\ base' \in [Agents -> Binary \cup {None}]
        /\ \A a \in Agents : pc'[a] # "matched"
                             /\ (pc'[a] = "fetch" => pc[a] = "fetch")
    BY DEF ServerRestart, IInv, TypeOK
  <1>3. pushes \in Versions /\ pushes \in Nat
    BY ServerAssumption DEF IInv, TypeOK, Versions
  <1>4. TypeOK'
    BY <1>1, <1>2, <1>3 DEF IInv, TypeOK
  <1>5. PollsAhead'
    BY <1>1, <1>2, <1>3 DEF IInv, PollsAhead
  <1>6. VersionsKnown'
    <2>1. \A a \in Agents : pc'[a] = "fetch" => asg[a].life < pushes
                                               /\ asg[a].life \in Int
      BY <1>2 DEF IInv, PollsAhead, Assignment, Versions
    <2>2. \A a \in Agents : pc'[a] = "fetch" => asg'[a].life # life'
      BY <1>1, <1>3, <2>1
    <2> QED
      BY <1>1, <1>2, <2>2 DEF VersionsKnown
  <1>7. VersionHonest'
    BY <1>1, Zenon DEF IInv, VersionHonest
  <1> QED
    BY <1>4, <1>5, <1>6, <1>7 DEF IInv

\* Rollouts change no policy and no agent.
LEMMA RolloutKeeps ==
  ASSUME IInv, UNCHANGED <<store, agents, client>>,
         DOMAIN rollouts' \subseteq Rollouts,
         \A r \in DOMAIN rollouts' :
           /\ rollouts'[r] \in RolloutState
           /\ Documented =>
                /\ rollouts'[r].policy \in DOMAIN policies
                /\ rollouts'[r].target <= policies[rollouts'[r].policy].ver
  PROVE  IInv'
  <1>1. TypeOK'
    BY DEF IInv, TypeOK, client, store
  <1>2. PollsAhead' /\ VersionHonest'
    BY DEF IInv, PollsAhead, VersionHonest, client, store
  <1>3. VersionsKnown'
    BY DEF IInv, VersionsKnown, client, store
  <1> QED
    BY <1>1, <1>2, <1>3 DEF IInv

\* An administrator's step.
LEMMA AdminKeeps ==
  ASSUME IInv,
         \/ \E p \in Policies : CreatePolicy(p) \/ UpdatePolicy(p) \/ DeletePolicy(p)
         \/ ServerRestart
         \/ \E r \in Rollouts, p \in Policies, t \in Versions, pct \in Percents :
              CreateRollout(r, p, t, pct)
         \/ \E r \in Rollouts : \/ AbortRollout(r)
                                \/ \E pct \in Percents : UpdatePercentage(r, pct)
  PROVE  IInv'
  <1>t. /\ pushes \in Nat
        /\ \A p \in DOMAIN policies :
             policies[p].ver \in Nat /\ 1 <= policies[p].ver
               /\ policies[p].ver <= pushes /\ policies[p].ver \in Versions
    BY ServerAssumption DEF IInv, TypeOK, PollsAhead, Binary, Versions
  <1>1. CASE \E p \in Policies : CreatePolicy(p)
    <2> PICK p \in Policies : CreatePolicy(p)
      BY <1>1
    <2>1. p \notin DOMAIN policies /\ Upload(p, 1)
      BY DEF CreatePolicy
    <2>2. 1 <= pushes + 1
      BY <1>t
    <2> QED
      BY <2>1, <2>2, UploadKeeps
  <1>2. CASE \E p \in Policies : UpdatePolicy(p)
    <2> PICK p \in Policies : UpdatePolicy(p)
      BY <1>2
    <2> DEFINE v == policies[p].ver + 1
    <2>1. p \in DOMAIN policies /\ Upload(p, v)
      BY DEF UpdatePolicy
    <2>2. v \in Nat /\ 1 <= v /\ v <= pushes + 1 /\ policies[p].ver <= v
      BY <1>t, <2>1
    <2> HIDE DEF v
    <2> QED
      BY <2>1, <2>2, UploadKeeps
  <1>3. CASE \E p \in Policies : DeletePolicy(p)
    <2> PICK p \in Policies : DeletePolicy(p)
      BY <1>3
    <2>1. policies' = Delete(policies, p)
      BY DEF DeletePolicy
    <2>2. /\ DOMAIN policies' \subseteq DOMAIN policies
          /\ \A x \in DOMAIN policies' : policies'[x] = policies[x]
      BY <2>1, DeleteFacts, ZenonT(60)
    <2>3. ~Documented /\ UNCHANGED <<pushes, life, rollouts, agents, client>>
      BY DEF DeletePolicy
    <2> QED
      BY <2>2, <2>3, ForgetKeeps
  <1>4. CASE ServerRestart
    BY <1>4, RestartKeeps
  <1>5. CASE \E r \in Rollouts, p \in Policies, t \in Versions, pct \in Percents :
               CreateRollout(r, p, t, pct)
    <2> PICK r \in Rollouts, p \in Policies, t \in Versions, pct \in Percents :
               CreateRollout(r, p, t, pct)
      BY <1>5
    <2> DEFINE s == [policy |-> p, target |-> t, pct |-> pct, status |-> "active",
                     baseVersion |-> policies[p].ver - 1]
    <2>1. /\ p \in DOMAIN policies /\ (Documented => t = policies[p].ver)
          /\ rollouts' = Put(rollouts, r, s) /\ UNCHANGED <<store, agents, client>>
      BY DEF CreateRollout
    <2>2. pct \in 0..100 /\ policies[p].ver - 1 \in Versions
      BY <1>t, <2>1, ServerAssumption DEF Versions
    <2>3. s \in RolloutState /\ s.policy = p /\ s.target = t
      BY <2>2 DEF RolloutState
    <2>4. Documented => s.target <= policies[s.policy].ver
      BY <2>1, <2>3, <1>t DEF Versions
    <2> HIDE DEF s
    <2>5. /\ DOMAIN rollouts' = DOMAIN rollouts \cup {r} /\ rollouts'[r] = s
          /\ \A x \in DOMAIN rollouts : x # r => rollouts'[x] = rollouts[x]
      BY <2>1, SMTT(30), Z3T(30) DEF Put
    <2>6. /\ DOMAIN rollouts' \subseteq Rollouts
          /\ \A x \in DOMAIN rollouts' :
               /\ rollouts'[x] \in RolloutState
               /\ Documented =>
                    /\ rollouts'[x].policy \in DOMAIN policies
                    /\ rollouts'[x].target <= policies[rollouts'[x].policy].ver
      <3>1. /\ DOMAIN rollouts \subseteq Rollouts
            /\ \A x \in DOMAIN rollouts :
                 /\ rollouts[x] \in RolloutState
                 /\ Documented =>
                      /\ rollouts[x].policy \in DOMAIN policies
                      /\ rollouts[x].target <= policies[rollouts[x].policy].ver
        BY Zenon DEF IInv, TypeOK, VersionsKnown
      <3>2. Documented => s.policy \in DOMAIN policies
        BY <2>1, <2>3, Zenon
      <3>3. DOMAIN rollouts' \subseteq Rollouts
        BY <2>5, <3>1
      <3>4. QED
        BY <2>3, <2>4, <2>5, <3>1, <3>2, <3>3, ZenonT(60)
    <2> QED
      BY <2>1, <2>6, RolloutKeeps
  <1>6. ASSUME NEW r \in Rollouts,
               AbortRollout(r) \/ \E pct \in Percents : UpdatePercentage(r, pct)
        PROVE  IInv'
    <2>1. r \in DOMAIN rollouts /\ UNCHANGED <<store, agents, client>>
      BY <1>6, Zenon DEF AbortRollout, UpdatePercentage
    <2>2. /\ DOMAIN rollouts' = DOMAIN rollouts
          /\ \A x \in DOMAIN rollouts : x # r => rollouts'[x] = rollouts[x]
      BY <1>6, Zenon DEF AbortRollout, UpdatePercentage
    <2>3. rollouts[r] \in RolloutState
      BY <2>1 DEF IInv, TypeOK
    <2>4. /\ rollouts'[r] \in RolloutState
          /\ rollouts'[r].policy = rollouts[r].policy
          /\ rollouts'[r].target = rollouts[r].target
      <3>1. CASE AbortRollout(r)
        BY <2>1, <2>3, <3>1 DEF AbortRollout, RolloutState
      <3>2. CASE \E pct \in Percents : UpdatePercentage(r, pct)
        <4> PICK pct \in Percents : UpdatePercentage(r, pct)
          BY <3>2
        <4>1. pct \in 0..100
          BY ServerAssumption
        <4>2. CASE pct = 100
          BY <2>1, <2>3, <4>1, <4>2 DEF UpdatePercentage, RolloutState
        <4>3. CASE pct # 100
          BY <2>1, <2>3, <4>1, <4>3, SMTT(30), Z3T(30) DEF UpdatePercentage,
             RolloutState
        <4> QED
          BY <4>2, <4>3
      <3> QED
        BY <1>6, <3>1, <3>2
    <2>5. /\ DOMAIN rollouts' \subseteq Rollouts
          /\ \A x \in DOMAIN rollouts' :
               /\ rollouts'[x] \in RolloutState
               /\ Documented =>
                    /\ rollouts'[x].policy \in DOMAIN policies
                    /\ rollouts'[x].target <= policies[rollouts'[x].policy].ver
      BY <2>2, <2>4 DEF IInv, TypeOK, VersionsKnown
    <2> QED
      BY <2>1, <2>5, RolloutKeeps
  <1> QED
    BY <1>1, <1>2, <1>3, <1>4, <1>5, <1>6

\* A client's map of one value per agent, with the value of one agent replaced.
LEMMA OneReplaced ==
  ASSUME NEW S, NEW T, NEW f \in [S -> T], NEW a \in S, NEW v,
         NEW g, g = [f EXCEPT ![a] = v]
  PROVE  /\ g[a] = v /\ \A x \in S : x # a => g[x] = f[x]
         /\ v \in T => g \in [S -> T]
  OBVIOUS

Steps == {"idle", "matched", "fetch"}
ClientTyped ==
  /\ pc \in [Agents -> Steps]
  /\ base \in [Agents -> Binary \cup {None}]
  /\ asg \in [Agents -> Assignment \cup {None}]
  /\ version \in [Agents -> Versions]
  /\ wasm \in [Agents -> Binary \cup {None}]
  /\ origin \in [Agents -> Versions]

LEMMA ClientsTyped ==
  ASSUME IInv
  PROVE  /\ ClientTyped
         /\ UNCHANGED <<policies, pushes, life, rollouts, agents>> /\ ClientTyped'
              => TypeOK'
  BY Zenon DEF IInv, TypeOK, ClientTyped, Steps

\* What the agents other than a know stays as it is.
Others(a) ==
  \A x \in Agents : x # a => /\ pc'[x] = pc[x] /\ base'[x] = base[x]
                             /\ asg'[x] = asg[x] /\ version'[x] = version[x]
                             /\ wasm'[x] = wasm[x] /\ origin'[x] = origin[x]

\* The invariant after a step of one agent's poll, from what it says of the
\* agent itself.
LEMMA PollKeeps ==
  ASSUME IInv, NEW a \in Agents, ClientTyped', Others(a),
         UNCHANGED <<policies, pushes, life, rollouts, agents>>,
         pc'[a] = "matched" => base'[a] \in Binary /\ base'[a].life < pushes,
         pc'[a] = "fetch" => asg'[a] \in Assignment /\ version'[a] < asg'[a].ver
                             /\ asg'[a].life < pushes,
         wasm'[a] # None =>
           /\ wasm'[a].push <= pushes
           /\ wasm'[a].policy \in DOMAIN policies
                => wasm'[a].push <= policies[wasm'[a].policy].push,
         Documented =>
           /\ pc'[a] = "matched" => /\ base'[a].policy \in DOMAIN policies
                                    /\ base'[a].ver <= policies[base'[a].policy].ver
           /\ pc'[a] = "fetch" /\ asg'[a].life = life =>
                /\ asg'[a].policy \in DOMAIN policies
                /\ asg'[a].ver <= policies[asg'[a].policy].ver
           /\ version'[a] > 0 =>
                /\ wasm'[a] # None
                /\ wasm'[a].life = origin'[a] => version'[a] <= wasm'[a].ver
  PROVE  IInv'
  <1>1. TypeOK'
    BY ClientsTyped, Zenon
  <1>2. PollsAhead'
    BY Zenon DEF IInv, PollsAhead, Others
  <1>3. VersionsKnown'
    <2> SUFFICES ASSUME Documented PROVE VersionsKnown'
      BY Zenon DEF VersionsKnown
    <2>1. \A r \in DOMAIN rollouts' :
            /\ rollouts'[r].policy \in DOMAIN policies'
            /\ rollouts'[r].target <= policies'[rollouts'[r].policy].ver
      BY Zenon DEF IInv, VersionsKnown
    <2>2. \A x \in Agents : pc'[x] = "matched" =>
            /\ base'[x].policy \in DOMAIN policies'
            /\ base'[x].ver <= policies'[base'[x].policy].ver
      BY Zenon DEF IInv, VersionsKnown, Others
    <2>3. \A x \in Agents : pc'[x] = "fetch" /\ asg'[x].life = life' =>
            /\ asg'[x].policy \in DOMAIN policies'
            /\ asg'[x].ver <= policies'[asg'[x].policy].ver
      BY ZenonT(60) DEF IInv, VersionsKnown, Others
    <2> QED
      BY <2>1, <2>2, <2>3, Zenon DEF VersionsKnown
  <1>4. VersionHonest'
    BY Zenon DEF IInv, VersionHonest, Others
  <1> QED
    BY <1>1, <1>2, <1>3, <1>4, Zenon DEF IInv

\* An agent's step: registering, or one of the steps of a poll.
LEMMA AgentKeeps ==
  ASSUME IInv, NEW a \in Agents,
         \/ RegisterAgent(a) \/ PollMatches(a) \/ FetchWASM(a)
         \/ PollFails(a)
         \/ \E v \in Versions : PollResolves(a, v)
  PROVE  IInv'
  <1>0. ClientTyped
    BY ClientsTyped, Zenon
  <1>6. /\ wasm[a] # None =>
             /\ wasm[a].push <= pushes
             /\ wasm[a].policy \in DOMAIN policies
                  => wasm[a].push <= policies[wasm[a].policy].push
        /\ Documented /\ version[a] > 0 =>
             /\ wasm[a] # None
             /\ wasm[a].life = origin[a] => version[a] <= wasm[a].ver
    BY Zenon DEF IInv, PollsAhead, VersionHonest
  <1>1. CASE RegisterAgent(a)
    <2>1. TypeOK'
      BY <1>1 DEF IInv, TypeOK, RegisterAgent, client, store
    <2>2. PollsAhead' /\ VersionsKnown' /\ VersionHonest'
      BY <1>1 DEF IInv, PollsAhead, VersionsKnown, VersionHonest,
                  RegisterAgent, client, store
    <2> QED
      BY <2>1, <2>2 DEF IInv
  <1>2. CASE PollMatches(a)
    <2> PICK p \in Matching(a) : base' = [base EXCEPT ![a] = policies[p]]
      BY <1>2, Zenon DEF PollMatches
    <2>1. /\ pc' = [pc EXCEPT ![a] = "matched"]
          /\ UNCHANGED <<asg, version, wasm, origin>>
          /\ UNCHANGED <<policies, pushes, life, rollouts, agents>>
      BY <1>2, Zenon DEF PollMatches, store
    <2>2. /\ p \in DOMAIN policies /\ policies[p] \in Binary
          /\ policies[p].policy = p /\ policies[p].ver \in Int
          /\ policies[p].life < pushes
      <3>1. p \in DOMAIN policies
        BY Zenon DEF Matching
      <3>2. policies[p] \in Binary /\ policies[p].policy = p
        BY <3>1, Zenon DEF IInv, TypeOK
      <3>3. policies[p].ver \in Int
        BY <3>2 DEF Binary, Versions
      <3>4. policies[p].life < pushes
        BY <3>1, <3>2, ServerAssumption, SMTT(30), Z3T(30)
           DEF IInv, TypeOK, PollsAhead, Binary, Versions
      <3> QED
        BY <3>1, <3>2, <3>3, <3>4, Zenon
    <2>3. /\ base'[a] = policies[p] /\ base' \in [Agents -> Binary \cup {None}]
          /\ \A x \in Agents : x # a => base'[x] = base[x]
      BY <1>0, <2>2, OneReplaced DEF ClientTyped
    <2>4. /\ pc'[a] = "matched" /\ pc' \in [Agents -> Steps]
          /\ \A x \in Agents : x # a => pc'[x] = pc[x]
      BY <1>0, <2>1, OneReplaced DEF ClientTyped, Steps
    <2>5. ClientTyped' /\ Others(a)
      BY <1>0, <2>1, <2>3, <2>4, Zenon DEF ClientTyped, Others
    <2>6. base'[a].policy = p /\ base'[a].ver <= policies[p].ver
      BY <2>2, <2>3
    <2> QED
      BY <1>6, <2>1, <2>2, <2>3, <2>4, <2>5, <2>6, PollKeeps, Zenon
  <1>3. ASSUME NEW v \in Versions, PollResolves(a, v)
        PROVE  IInv'
    <2> DEFINE n == [policy |-> base[a].policy, ver |-> v, life |-> base[a].life]
    <2>1. /\ pc[a] = "matched" /\ v \in Resolved(a)
          /\ base' = [base EXCEPT ![a] = None] /\ UNCHANGED <<version, wasm, origin>>
          /\ UNCHANGED <<policies, pushes, life, rollouts, agents>>
      BY <1>3, Zenon DEF PollResolves, store
    <2>2. base[a] \in Binary /\ base[a].life < pushes
      BY <2>1, Zenon DEF IInv, PollsAhead
    <2>3. /\ n \in Assignment /\ n.policy = base[a].policy /\ n.ver = v
          /\ n.life < pushes
      BY <2>2 DEF Assignment, Binary
    <2>4. Documented => /\ base[a].policy \in DOMAIN policies
                        /\ v <= policies[base[a].policy].ver
      BY <2>1, ZenonT(60) DEF Resolved, Cohorts, IInv, VersionsKnown
    <2>5. /\ base' \in [Agents -> Binary \cup {None}]
          /\ \A x \in Agents : x # a => base'[x] = base[x]
      BY <1>0, <2>1, OneReplaced DEF ClientTyped
    <2>6. CASE NotModified(a, v)
      <3>1. pc' = [pc EXCEPT ![a] = "idle"] /\ asg' = asg
        BY <1>3, <2>6, ZenonT(60) DEF PollResolves
      <3>2. /\ pc'[a] = "idle" /\ pc' \in [Agents -> Steps]
            /\ \A x \in Agents : x # a => pc'[x] = pc[x]
        BY <1>0, <3>1, OneReplaced DEF ClientTyped, Steps
      <3>3. ClientTyped' /\ Others(a)
        BY <1>0, <2>1, <2>5, <3>1, <3>2, Zenon DEF ClientTyped, Others
      <3> QED
        BY <1>6, <2>1, <3>2, <3>3, PollKeeps, Zenon
    <2>7. CASE ~NotModified(a, v)
      <3>1. pc' = [pc EXCEPT ![a] = "fetch"] /\ asg' = [asg EXCEPT ![a] = n]
        BY <1>3, <2>7, ZenonT(60) DEF PollResolves
      <3> HIDE DEF n
      <3>2. /\ pc'[a] = "fetch" /\ pc' \in [Agents -> Steps]
            /\ \A x \in Agents : x # a => pc'[x] = pc[x]
        BY <1>0, <3>1, OneReplaced DEF ClientTyped, Steps
      <3>3. /\ asg'[a] = n /\ asg' \in [Agents -> Assignment \cup {None}]
            /\ \A x \in Agents : x # a => asg'[x] = asg[x]
        BY <1>0, <2>3, <3>1, OneReplaced DEF ClientTyped
      <3>4. ClientTyped' /\ Others(a)
        BY <1>0, <2>1, <2>5, <3>2, <3>3, Zenon DEF ClientTyped, Others
      <3>5. version'[a] < v
        BY <1>0, <2>1, <2>7 DEF NotModified, ClientTyped, Versions
      <3> QED
        BY <1>6, <2>1, <2>3, <2>4, <3>2, <3>3, <3>4, <3>5, PollKeeps, Zenon
    <2> QED
      BY <2>6, <2>7, Zenon
  <1>4. CASE FetchWASM(a)
    <2> DEFINE w == policies[asg[a].policy]
    <2>1. /\ pc[a] = "fetch" /\ asg[a].policy \in DOMAIN policies
          /\ version' = [version EXCEPT ![a] = asg[a].ver]
          /\ origin' = [origin EXCEPT ![a] = asg[a].life]
          /\ wasm' = [wasm EXCEPT ![a] = w]
          /\ pc' = [pc EXCEPT ![a] = "idle"] /\ asg' = [asg EXCEPT ![a] = None]
          /\ UNCHANGED <<policies, pushes, life, rollouts, agents>> /\ base' = base
      BY <1>4, Zenon DEF FetchWASM, store
    <2>2. /\ w \in Binary /\ w.policy = asg[a].policy
          /\ w.push <= pushes /\ w.life = life /\ asg[a] \in Assignment
      BY <2>1, Zenon DEF IInv, TypeOK, PollsAhead
    <2>3. Documented /\ w.life = asg[a].life => asg[a].ver <= w.ver
      BY <2>1, <2>2, Zenon DEF IInv, VersionsKnown
    <2>4. /\ asg[a].ver \in Versions /\ asg[a].life \in Versions
          /\ w.push <= policies[w.policy].push /\ w # None
      BY <2>2 DEF Binary, Assignment, None
    <2> HIDE DEF w
    <2>5. /\ pc'[a] = "idle" /\ pc' \in [Agents -> Steps]
          /\ \A x \in Agents : x # a => pc'[x] = pc[x]
      BY <1>0, <2>1, OneReplaced DEF ClientTyped, Steps
    <2>6. /\ asg' \in [Agents -> Assignment \cup {None}]
          /\ \A x \in Agents : x # a => asg'[x] = asg[x]
      BY <1>0, <2>1, OneReplaced DEF ClientTyped
    <2>7. /\ version'[a] = asg[a].ver /\ version' \in [Agents -> Versions]
          /\ \A x \in Agents : x # a => version'[x] = version[x]
      BY <1>0, <2>1, <2>4, OneReplaced DEF ClientTyped
    <2>10. /\ origin'[a] = asg[a].life /\ origin' \in [Agents -> Versions]
           /\ \A x \in Agents : x # a => origin'[x] = origin[x]
      BY <1>0, <2>1, <2>4, OneReplaced DEF ClientTyped
    <2>8. /\ wasm'[a] = w /\ wasm' \in [Agents -> Binary \cup {None}]
          /\ \A x \in Agents : x # a => wasm'[x] = wasm[x]
      BY <1>0, <2>1, <2>2, OneReplaced DEF ClientTyped
    <2>9. ClientTyped' /\ Others(a)
      BY <1>0, <2>1, <2>5, <2>6, <2>7, <2>8, <2>10, Zenon DEF ClientTyped, Others
    <2> QED
      BY <1>6, <2>1, <2>2, <2>3, <2>4, <2>5, <2>7, <2>8, <2>9, <2>10, PollKeeps,
         Zenon
  <1>5. CASE PollFails(a)
    <2>1. /\ pc' = [pc EXCEPT ![a] = "idle"]
          /\ base' = [base EXCEPT ![a] = None] /\ asg' = [asg EXCEPT ![a] = None]
          /\ UNCHANGED <<policies, pushes, life, rollouts, agents>>
          /\ UNCHANGED <<version, wasm, origin>>
      BY <1>5, Zenon DEF PollFails, store
    <2>2. /\ pc'[a] = "idle" /\ pc' \in [Agents -> Steps]
          /\ \A x \in Agents : x # a => pc'[x] = pc[x]
      BY <1>0, <2>1, OneReplaced DEF ClientTyped, Steps
    <2>3. /\ base' \in [Agents -> Binary \cup {None}]
          /\ \A x \in Agents : x # a => base'[x] = base[x]
      BY <1>0, <2>1, OneReplaced DEF ClientTyped
    <2>4. /\ asg' \in [Agents -> Assignment \cup {None}]
          /\ \A x \in Agents : x # a => asg'[x] = asg[x]
      BY <1>0, <2>1, OneReplaced DEF ClientTyped
    <2>5. ClientTyped' /\ Others(a)
      BY <1>0, <2>1, <2>2, <2>3, <2>4, Zenon DEF ClientTyped, Others
    <2> QED
      BY <1>6, <2>1, <2>2, <2>5, PollKeeps, Zenon
  <1> QED
    BY <1>1, <1>2, <1>3, <1>4, <1>5, Zenon

LEMMA ServerStep == IInv /\ [Next]_vars => IInv'
  <1> SUFFICES ASSUME IInv, [Next]_vars PROVE IInv'
    OBVIOUS
  <1>1. CASE Next
    BY <1>1, AdminKeeps, AgentKeeps DEF Next
  <1>2. CASE UNCHANGED vars
    <2>1. TypeOK'
      BY <1>2 DEF IInv, TypeOK, vars, store, client
    <2>2. PollsAhead' /\ VersionsKnown' /\ VersionHonest'
      BY <1>2 DEF IInv, PollsAhead, VersionsKnown, VersionHonest,
                  vars, store, client
    <2> QED
      BY <2>1, <2>2 DEF IInv
  <1> QED
    BY <1>1, <1>2

LEMMA ServerAlways == Spec => []IInv
  BY ServerInit, ServerStep, PTL DEF Spec

\* In the documented workflow the version an agent reports never overstates the
\* binary it runs, though poll fetches them in two requests, unless the server
\* restarted between the two.
THEOREM VersionsHonest == Spec => []VersionHonest
  <1>1. IInv => VersionHonest
    BY SMTT(30), Z3T(30) DEF IInv
  <1> QED
    BY <1>1, ServerAlways, PTL

\* No agent ever goes back to an earlier version or to an older binary of the
\* same policy, across deletions, aborted rollouts and restarts of the server.
THEOREM AgentsNeverGoBack == Spec => NeverGoesBack
  <1> DEFINE Forward(a) ==
        /\ version'[a] >= version[a]
        /\ wasm'[a] # wasm[a] => version'[a] > version[a]
        /\ wasm[a] # None /\ wasm'[a] # None /\ wasm'[a].policy = wasm[a].policy
             => wasm'[a].push >= wasm[a].push
  <1>1. ASSUME IInv, [Next]_vars, NEW a \in Agents
        PROVE  Forward(a)
    <2>0. version[a] \in Int
      BY <1>1, SMTT(30), Z3T(30) DEF IInv, TypeOK, Versions
    <2>1. CASE FetchWASM(a)
      <3> DEFINE w == policies[asg[a].policy]
      <3>1. /\ version[a] < asg[a].ver /\ asg[a].ver \in Int
            /\ asg[a].policy \in DOMAIN policies
        BY <1>1, <2>1, SMTT(30), Z3T(30)
           DEF FetchWASM, IInv, PollsAhead, Assignment, Versions
      <3>2. version'[a] = asg[a].ver /\ wasm'[a] = w
        BY <1>1, <2>1 DEF FetchWASM, IInv, TypeOK
      <3>3. w \in Binary /\ w.policy = asg[a].policy
        BY <1>1, <3>1 DEF IInv, TypeOK
      <3>4. wasm[a] # None /\ w.policy = wasm[a].policy
              => wasm[a] \in Binary /\ wasm[a].push <= w.push
        BY <1>1, <3>1, <3>3 DEF IInv, TypeOK, PollsAhead
      <3> HIDE DEF w
      <3>5. version'[a] >= version[a] /\ version'[a] > version[a]
        BY <2>0, <3>1, <3>2
      <3>6. w.push \in Int
        BY <3>3 DEF Binary
      <3>7. wasm[a] # None /\ w.policy = wasm[a].policy => w.push >= wasm[a].push
        <4> SUFFICES ASSUME wasm[a] # None, w.policy = wasm[a].policy
                     PROVE  w.push >= wasm[a].push
          OBVIOUS
        <4>1. wasm[a].push \in Int /\ wasm[a].push <= w.push
          BY <3>4 DEF Binary
        <4> QED
          BY <3>6, <4>1
      <3> QED
        BY <3>2, <3>5, <3>7, Zenon
    <2>2. CASE version'[a] = version[a] /\ wasm'[a] = wasm[a]
      <3>1. wasm[a] # None => wasm[a].push \in Int
        BY <1>1 DEF IInv, TypeOK, Binary
      <3> QED
        BY <2>0, <2>2, <3>1
    <2>3. CASE \E b \in Agents : b # a /\ FetchWASM(b)
      <3>1. version'[a] = version[a] /\ wasm'[a] = wasm[a]
        BY <1>1, <2>3 DEF FetchWASM, IInv, TypeOK
      <3> QED
        BY <2>2, <3>1, SMTT(30), Z3T(30)
    <2>4. CASE UNCHANGED <<version, wasm>>
      BY <2>2, <2>4
    <2>5. \/ UNCHANGED <<version, wasm>>
          \/ \E b \in Agents : FetchWASM(b)
      BY <1>1, Zenon DEF Next, vars, client, CreatePolicy, UpdatePolicy, Upload,
           DeletePolicy, ServerRestart, CreateRollout, UpdatePercentage,
           AbortRollout, RegisterAgent, PollMatches, PollResolves, PollFails
    <2> QED
      BY <2>1, <2>3, <2>4, <2>5
  <1>2. IInv /\ [Next]_vars => [\A a \in Agents : Forward(a)]_vars
    BY <1>1
  <1> QED
    BY <1>2, ServerAlways, PTL DEF Spec, NeverGoesBack
=============================================================================
