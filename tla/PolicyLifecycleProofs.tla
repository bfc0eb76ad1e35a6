------------------------ MODULE PolicyLifecycleProofs ------------------------
(***************************************************************************)
(* For every pool size, queue capacity and number of reloads: instances of *)
(* an open pool are neither lost nor shared, the event loop never uses a   *)
(* closed instance, and a failed reload leaves nothing behind.             *)
(***************************************************************************)
EXTENDS PolicyLifecycle, FiniteSetTheorems, TLAPS

\* What ties the three properties together.  NoUseAfterClose needs to know
\* that the borrowed instance is not in the channel Pool.Close drains, and
\* that no runtime the loop can hold is ever closed; the latter is because
\* the channel is closed when CloseAgain is reached, so it panics first.
Bookkeeping ==
  /\ \A g \in Gens : \A s \in free[g] :
       <<g, s>> \in open /\ <<g, s>> \notin Borrowed
  /\ Borrowed \subseteq open
  /\ pc \in {"get", "eval", "put"} => runtime[gen] = "open"
  /\ main \in {"drainOld", "closeOldAgain"} => chanClosed[old]
  /\ main \in {"drain", "closeAgain"} => chanClosed[cur]
  /\ main = "swap" => runtime[built] = "open"

\* The generation ReloadPolicy is building is apart from the serving one: its
\* instances are those NewPool has put in the channel, so that whichever step
\* fails, Runtime.Close and Pool.Close find all of them and nothing else.
Construction ==
  /\ \A g \in Gens : g > built => free[g] = {}
  /\ main \in {"host", "load", "giveUp"} => free[built] = {}
  /\ main \in BuildPCs =>
       /\ cur < built /\ gen < built /\ ~chanClosed[cur]
       /\ \A g \in Gens : runtime[g] = "open" <=> g \in {cur, built}
       /\ \A g \in Gens, s \in Slots :
            <<g, s>> \in open <=> (g = cur \/ (g = built /\ s \in free[g]))

LifeInv ==
  /\ TypeOK
  /\ cur <= built /\ gen <= built
  /\ runtime[cur] = "open"
  /\ main = "crashed" => pc = "crashed"
  /\ FailedReloadReleases
  /\ InstancesAccounted
  /\ main # "crashed" => Bookkeeping /\ Construction

LEMMA LifeInit == New => LifeInv
<1> SUFFICES ASSUME New PROVE LifeInv
  OBVIOUS
<1> USE LifecycleAssumption
<1>1. 0 \in Gens /\ 1 \in Slots
  BY DEF Gens, Slots
<1>2. TypeOK
  <2>1. queue \in Seq(Events) /\ Len(queue) <= QueueCap
    BY DEF New
  <2>2. open \subseteq Gens \X Slots /\ free \in [Gens -> SUBSET Slots]
    BY <1>1 DEF New
  <2>3. /\ runtime \in [Gens -> {"absent", "open", "closed"}]
        /\ chanClosed \in [Gens -> BOOLEAN]
        /\ cache \in [Events -> Decisions \cup {NoDecision}]
    BY DEF New
  <2>4. QED
    BY <1>1, <2>1, <2>2, <2>3 DEF New, TypeOK, LoopPCs, MainPCs, Decisions
<1>3. Borrowed = {}
  BY SMTT(30), Z3T(30) DEF New, Borrowed
<1>4. main = "serve" /\ \A g \in Gens : g > 0 => free[g] = {}
  BY DEF New
<1>5. Construction
  BY <1>4 DEF New, Construction, BuildPCs
<1>6. QED
  BY <1>1, <1>2, <1>3, <1>5
     DEF New, LifeInv, FailedReloadReleases, InstancesAccounted, Bookkeeping

\* Every action keeps the variables in their types.
LEMMA LifeType == TypeOK /\ [Next]_vars => TypeOK'
<1> SUFFICES ASSUME TypeOK, [Next]_vars PROVE TypeOK'
  OBVIOUS
<1> USE LifecycleAssumption DEF TypeOK, KeepGens, KeepMain, KeepLoop, Crash,
        LoopPCs, MainPCs, Decisions
<1>1. ASSUME NEW e \in Events, Deliver(e) PROVE TypeOK'
  <2>1. queue' \in Seq(Events) /\ Len(queue') <= QueueCap
    BY <1>1 DEF Deliver
  <2>2. QED
    BY <1>1, <2>1 DEF Deliver
<1>2. CASE LoopTake
  <2>1. queue' \in Seq(Events) /\ Len(queue') <= QueueCap
    BY <1>2 DEF LoopTake
  <2>2. Head(queue) \in Events
    BY <1>2 DEF LoopTake
  <2>3. QED
    BY <1>2, <2>1, <2>2 DEF LoopTake
<1>3. CASE LoopExit \/ Lookup \/ ReadEvaluator \/ Enforce
  BY <1>3 DEF LoopExit, Lookup, ReadEvaluator, Enforce
<1>4. CASE PoolGet
  <2>1. free' \in [Gens -> SUBSET Slots] /\ open' \subseteq Gens \X Slots
    BY <1>4 DEF PoolGet
  <2>2. QED
    BY <1>4, <2>1, ZenonT(60) DEF PoolGet
<1>5. CASE Evaluate
  BY <1>5 DEF Evaluate
<1>6. CASE PoolPut
  <2>1. free' \in [Gens -> SUBSET Slots] /\ open' \subseteq Gens \X Slots
    BY <1>6 DEF PoolPut
  <2>2. QED
    BY <1>6, <2>1, Zenon DEF PoolPut
<1>7. CASE CachePut
  BY <1>7 DEF CachePut
<1>8. CASE NewRuntime \/ HostCallbacks \/ LoadPolicy \/ Instantiate
           \/ PoolFails \/ GiveUp
  <2> USE DEF KeepServing
  <2>a. ASSUME CloseNewRuntime PROVE TypeOK'
    <3>1. /\ runtime' \in [Gens -> {"absent", "open", "closed"}]
          /\ open' \subseteq Gens \X Slots
      BY <2>a, Zenon DEF CloseNewRuntime
    <3>2. QED
      BY <2>a, <3>1 DEF CloseNewRuntime
  <2>1. CASE NewRuntime
    <3>1. built' \in Gens /\ built + 1 \in Gens
      BY <2>1 DEF NewRuntime, Gens
    <3>2. runtime' \in [Gens -> {"absent", "open", "closed"}]
      BY <2>1, <3>1, Zenon DEF NewRuntime
    <3>3. QED
      BY <2>1, <3>1, <3>2 DEF NewRuntime, BuildPCs
  <2>2. CASE HostCallbacks \/ LoadPolicy \/ GiveUp
    BY <2>2, <2>a DEF HostCallbacks, LoadPolicy, GiveUp, BuildPCs
  <2>3. CASE Instantiate
    <3>1. free' \in [Gens -> SUBSET Slots] /\ open' \subseteq Gens \X Slots
      BY <2>3 DEF Instantiate
    <3>2. main' \in MainPCs
      BY <2>3 DEF Instantiate, BuildPCs
    <3>3. QED
      BY <2>3, <3>1, <3>2, Zenon DEF Instantiate
  <2>4. CASE PoolFails
    <3>1. /\ free' \in [Gens -> SUBSET Slots] /\ open' \subseteq Gens \X Slots
          /\ chanClosed' \in [Gens -> BOOLEAN]
      BY <2>4 DEF PoolFails
    <3>2. QED
      BY <2>4, <3>1 DEF PoolFails, BuildPCs
  <2>5. QED
    BY <1>8, <2>1, <2>2, <2>3, <2>4
<1>9. CASE ReloadSwaps \/ ReloadClears
  BY <1>9 DEF ReloadSwaps, ReloadClears
<1>10. ASSUME NEW g \in Gens, NEW next \in MainPCs, CloseChannel(g, next)
       PROVE  TypeOK'
  BY <1>10, ZenonT(60) DEF CloseChannel
<1>11. ASSUME NEW g \in Gens, NEW next \in MainPCs, Drain(g, next)
       PROVE  TypeOK'
  <2>1. free' \in [Gens -> SUBSET Slots] /\ open' \subseteq Gens \X Slots
    <3>1. CASE free' = free /\ open' = open
      BY <3>1
    <3>2. ASSUME NEW s \in free[g], free' = [free EXCEPT ![g] = @ \ {s}],
                 open' = open \ {<<g, s>>}
          PROVE  free' \in [Gens -> SUBSET Slots] /\ open' \subseteq Gens \X Slots
      BY <3>2, Zenon
    <3>3. QED
      BY <1>11, <3>1, <3>2, Zenon DEF Drain
  <2>2. main' \in MainPCs
    BY <1>11, Zenon DEF Drain
  <2>3. QED
    BY <1>11, <2>1, <2>2, Zenon DEF Drain
<1>12. ASSUME NEW g \in Gens, NEW next \in MainPCs, CloseAgain(g, next)
       PROVE  TypeOK'
  <2>1. free' \in [Gens -> SUBSET Slots] /\ open' \subseteq Gens \X Slots
    BY <1>12 DEF CloseAgain
  <2>2. CASE chanClosed[g]
    BY <1>12, <2>2, Zenon DEF CloseAgain
  <2>3. CASE ~chanClosed[g]
    <3>1. /\ runtime' \in [Gens -> {"absent", "open", "closed"}]
          /\ chanClosed' \in [Gens -> BOOLEAN]
      BY <1>12, <2>3, Zenon DEF CloseAgain
    <3>2. QED
      BY <1>12, <2>1, <2>3, <3>1 DEF CloseAgain
  <2>4. QED
    BY <2>2, <2>3
<1>13. CASE StopCancels \/ StopPlatform \/ StopWaits
  BY <1>13, ZenonT(60) DEF StopCancels, StopPlatform, StopWaits
<1>14. CASE Ended \/ UNCHANGED vars
  BY <1>14 DEF Ended, vars
<1>15. CASE \/ ReloadClosesEvaluator \/ ReloadDrains \/ ReloadClosesPool
            \/ CloseEvaluator \/ CloseDrains \/ ClosePool
  BY <1>10, <1>11, <1>12, <1>15
     DEF ReloadClosesEvaluator, ReloadDrains, ReloadClosesPool,
         CloseEvaluator, CloseDrains, ClosePool
<1>16. QED
  BY <1>1, <1>2, <1>3, <1>4, <1>5, <1>6, <1>7, <1>8, <1>9, <1>13, <1>14,
     <1>15, ZenonT(60) DEF Next, LoopStep, MainStep

\* Pool.Put finds room: the pool's other instances are all there is.
LEMMA PoolHasRoom ==
  ASSUME NEW F \in SUBSET Slots, NEW s \in Slots, s \notin F
  PROVE  Cardinality(F) < PoolSize
<1> USE LifecycleAssumption
<1>1. IsFiniteSet(Slots) /\ Cardinality(Slots) = PoolSize
  BY FS_Interval DEF Slots
<1>2. IsFiniteSet(Slots \ {s}) /\ Cardinality(Slots \ {s}) = PoolSize - 1
  BY <1>1, FS_RemoveElement
<1>3. F \subseteq Slots \ {s}
  OBVIOUS
<1>4. Cardinality(F) <= Cardinality(Slots \ {s}) /\ IsFiniteSet(F)
  BY <1>2, <1>3, FS_Subset
<1>5. Cardinality(F) \in Nat
  BY <1>4, FS_CardinalityType
<1>6. QED
  BY <1>2, <1>4, <1>5

LEMMA LifeStep == LifeInv /\ [Next]_vars => LifeInv'
<1> SUFFICES ASSUME LifeInv, [Next]_vars PROVE LifeInv'
  OBVIOUS
<1>t. TypeOK /\ TypeOK'
  BY LifeType, SMTT(30), Z3T(30) DEF LifeInv
<1> USE LifecycleAssumption
<1>c. ASSUME Crash, KeepGens PROVE LifeInv'
  BY <1>c, <1>t, SMTT(30), Z3T(30) DEF LifeInv, Crash, KeepGens, TypeOK,
     FailedReloadReleases, InstancesAccounted
<1>1. ASSUME NEW e \in Events, Deliver(e) PROVE LifeInv'
  BY <1>1, <1>t, SMTT(30), Z3T(30)
     DEF LifeInv, Deliver, KeepGens, KeepMain, KeepLoop,
     FailedReloadReleases, InstancesAccounted, Bookkeeping, Borrowed,
     Construction
<1>2. CASE LoopTake \/ LoopExit \/ Lookup \/ Evaluate \/ CachePut \/ Enforce
  <2>1. Borrowed' = Borrowed
    BY <1>2, Zenon DEF LoopTake, LoopExit, Lookup, Evaluate, CachePut, Enforce,
       Borrowed
  <2>2. main' = main /\ free' = free /\ open' = open /\ KeepGens /\ gen' = gen
    BY <1>2 DEF LoopTake, LoopExit, Lookup, Evaluate, CachePut, Enforce,
       KeepMain
  <2>3. pc' \in {"get", "eval", "put"} => pc \in {"get", "eval", "put"}
    BY <1>2 DEF LoopTake, LoopExit, Lookup, Evaluate, CachePut, Enforce
  <2>4. main # "crashed" \/ pc' = "crashed"
    BY <1>2 DEF LoopTake, LoopExit, Lookup, Evaluate, CachePut, Enforce,
       LifeInv
  <2>5. QED
    BY <2>1, <2>2, <2>3, <2>4, <1>t DEF LifeInv, KeepGens,
       FailedReloadReleases, InstancesAccounted, Bookkeeping, Construction
<1>3. CASE ReadEvaluator
  BY <1>3, <1>t DEF ReadEvaluator, LifeInv, KeepGens, KeepMain, Borrowed,
     FailedReloadReleases, InstancesAccounted, Bookkeeping, Construction
<1>4. CASE PoolGet
  <2>a. main # "crashed" /\ Borrowed = {}
    BY <1>4 DEF LifeInv, PoolGet, Borrowed
  <2>1. CASE /\ pc' = "store" /\ gen' = gen /\ KeepMain /\ KeepGens
             /\ UNCHANGED <<free, open>>
    <3>1. Borrowed' = Borrowed /\ pc = "get"
      BY <2>1, <2>a, <1>4, Zenon DEF Borrowed, PoolGet
    <3>2. /\ UNCHANGED <<main, free, open, runtime, chanClosed, cur, old, built>>
          /\ pc' \notin {"get", "eval", "put"} /\ gen' = gen
      BY <2>1 DEF KeepGens, KeepMain
    <3>3. InstancesAccounted' /\ FailedReloadReleases'
      BY <3>1, <3>2, Zenon DEF LifeInv, InstancesAccounted,
         FailedReloadReleases
    <3>4. Bookkeeping'
      BY <3>1, <3>2, <2>a, Zenon DEF LifeInv, Bookkeeping
    <3>5. Construction'
      BY <3>2, <2>a, Zenon DEF LifeInv, Construction
    <3>6. QED
      BY <3>2, <3>3, <3>4, <3>5, <2>a, <1>t, Zenon DEF LifeInv
  <2>2. ASSUME NEW s \in free[gen], pc' = "eval", slot' = s, gen' = gen,
               free' = [free EXCEPT ![gen] = @ \ {s}], KeepMain, KeepGens,
               UNCHANGED open
        PROVE  LifeInv'
    <3>1. Borrowed' = {<<gen, s>>} /\ <<gen, s>> \in open
      BY <2>2, <2>a, <1>t DEF Borrowed, LifeInv, Bookkeeping, TypeOK
    <3>2. InstancesAccounted'
      BY <2>2, <2>a, <3>1, <1>t, SMTT(30), Z3T(30) DEF LifeInv,
         InstancesAccounted, KeepGens, KeepMain, TypeOK
    <3>3. Bookkeeping'
      BY <2>2, <2>a, <3>1, <1>4, <1>t DEF LifeInv, Bookkeeping, KeepGens,
         KeepMain, TypeOK, PoolGet
    <3>4. Construction'
      <4>1. \A h \in Gens : h # gen => free'[h] = free[h]
        BY <2>2, <1>t DEF TypeOK
      <4>2. \A h \in Gens : free'[h] \subseteq free[h]
        BY <2>2, <1>t DEF TypeOK
      <4>3. built \in Gens /\ built \in Int /\ gen \in Int
        BY <1>t DEF TypeOK, Gens
      <4>4. main \in BuildPCs => free'[built] = free[built]
        BY <4>1, <4>3, <2>a DEF LifeInv, Construction
      <4>5. UNCHANGED <<main, open, runtime, chanClosed, cur, built>>
        BY <2>2 DEF KeepGens, KeepMain
      <4>6. QED
        BY <2>2, <2>a, <4>2, <4>4, <4>5 DEF LifeInv, Construction, BuildPCs
    <3>5. QED
      BY <2>2, <2>a, <3>2, <3>3, <3>4, <1>t DEF LifeInv, FailedReloadReleases,
         KeepGens, KeepMain
  <2>3. QED
    BY <1>4, <1>c, <2>1, <2>2 DEF PoolGet
<1>5. CASE PoolPut
  <2>a. main # "crashed" /\ Borrowed = {<<gen, slot>>}
    BY <1>5 DEF LifeInv, PoolPut, Borrowed
  <2>1. slot \notin free[gen]
    BY <2>a, <1>t DEF LifeInv, Bookkeeping, TypeOK
  <2>2. Cardinality(free[gen]) < PoolSize
    BY <2>1, <1>t, PoolHasRoom DEF TypeOK
  <2>3. CASE chanClosed[gen]
    BY <2>3, <1>5, <1>c DEF PoolPut
  <2>4. CASE ~chanClosed[gen]
    <3>1. /\ pc' = "store" /\ gen' = gen /\ KeepMain /\ KeepGens
          /\ open' = open /\ free' = [free EXCEPT ![gen] = @ \cup {slot}]
      BY <2>2, <2>4, <1>5 DEF PoolPut
    <3>2. Borrowed' = {}
      BY <3>1, SMTT(30), Z3T(30) DEF Borrowed
    <3>3. InstancesAccounted'
      BY <3>1, <3>2, <2>a, <1>t, SMTT(30), Z3T(30) DEF LifeInv,
         InstancesAccounted, KeepGens, KeepMain, TypeOK
    <3>4. Bookkeeping'
      BY <3>1, <3>2, <2>a, <1>t, ZenonT(60) DEF LifeInv, Bookkeeping, KeepGens,
         KeepMain, TypeOK
    <3>5. Construction'
      <4>1. \A h \in Gens : h # gen => free'[h] = free[h]
        BY <3>1, <1>t DEF TypeOK
      <4>2. gen \in Int /\ built \in Int /\ gen <= built
        BY <1>t DEF TypeOK, Gens, LifeInv
      <4>3. \A h \in Gens : h > built => free'[h] = {}
        BY <4>1, <4>2, <2>a DEF LifeInv, Construction, Gens
      <4>4. built \in Gens
        BY <1>t DEF TypeOK
      <4>5. main \in BuildPCs => free'[built] = free[built] /\ gen < built
        BY <4>1, <4>2, <4>4, <2>a DEF LifeInv, Construction
      <4>6. QED
        BY <3>1, <2>a, <4>3, <4>5 DEF LifeInv, Construction, KeepGens,
           KeepMain, BuildPCs
    <3>6. QED
      BY <3>1, <3>3, <3>4, <3>5, <2>a, <1>t DEF LifeInv, FailedReloadReleases,
         KeepGens, KeepMain
  <2>5. QED
    BY <2>3, <2>4
<1>6. CASE NewRuntime \/ HostCallbacks \/ LoadPolicy \/ Instantiate
           \/ PoolFails \/ GiveUp
  <2>a. /\ main \in BuildPCs \cup {"serve"} /\ main # "crashed"
        /\ UNCHANGED <<cur, old, pc, gen, slot>> /\ Borrowed' = Borrowed
    BY <1>6, Zenon DEF NewRuntime, HostCallbacks, LoadPolicy, Instantiate,
       PoolFails, GiveUp, CloseNewRuntime, KeepLoop, KeepServing, Borrowed,
       BuildPCs
  <2>b. Bookkeeping /\ Construction /\ FailedReloadReleases
        /\ InstancesAccounted
    BY <2>a DEF LifeInv
  <2>c. cur \in Gens /\ gen \in Gens /\ built \in Gens /\ cur \in Int
        /\ gen \in Int /\ built \in Int /\ cur <= built /\ gen <= built
        /\ runtime[cur] = "open"
    BY <1>t DEF LifeInv, TypeOK, Gens
  <2>d. main # "crashed" => main' # "crashed"
    BY <1>6 DEF NewRuntime, HostCallbacks, LoadPolicy, Instantiate, PoolFails,
       GiveUp, CloseNewRuntime
  <2>e. \A s : gen # built => <<built, s>> \notin Borrowed
    BY DEF Borrowed
  <2>f. /\ free \in [Gens -> SUBSET Slots] /\ open \subseteq Gens \X Slots
        /\ open' \subseteq Gens \X Slots
        /\ runtime \in [Gens -> {"absent", "open", "closed"}]
        /\ chanClosed \in [Gens -> BOOLEAN]
    BY <1>t DEF TypeOK
  <2>g. \A x \in Borrowed : x = <<gen, slot>>
    BY DEF Borrowed
  <2>1. ASSUME CloseNewRuntime, main \in BuildPCs, free[built] = {}
        PROVE  LifeInv'
    <3>1. /\ runtime' = [runtime EXCEPT ![built] = "closed"]
          /\ open' = open \ ({built} \X Slots) /\ main' = "serve"
          /\ UNCHANGED <<built, free, chanClosed>>
      BY <2>1 DEF CloseNewRuntime
    <3>2. cur < built /\ gen < built /\ ~chanClosed[cur]
      BY <2>1, <2>b DEF Construction
    <3>3. /\ runtime'[built] # "open"
          /\ \A g \in Gens : g # built => runtime'[g] = runtime[g]
      BY <3>1, <2>c, <2>f
    <3>4. \A g \in Gens : runtime'[g] = "open" <=> g = cur
      BY <3>2, <3>3, <2>1, <2>b, <2>c DEF Construction
    <3>a. /\ cur # built /\ gen # built
          /\ \A g \in Gens, s \in Slots :
               <<g, s>> \in open <=> (g = cur \/ (g = built /\ s \in free[g]))
      BY <3>2, <2>1, <2>b, <2>c DEF Construction
    <3>5. ASSUME NEW g \in Gens, NEW s \in Slots
          PROVE  <<g, s>> \in open' <=> g = cur
      <4>1. <<g, s>> \in open' <=> <<g, s>> \in open /\ g # built
        BY <3>1, Zenon
      <4>2. QED
        BY <3>a, <4>1
    <3>6. open' = {cur} \X Slots
      <4>1. ASSUME NEW x \in open' PROVE x \in {cur} \X Slots
        <5>1. PICK g \in Gens, s \in Slots : x = <<g, s>>
          BY <2>f, <4>1
        <5>2. QED
          BY <3>5, <5>1
      <4>2. ASSUME NEW x \in {cur} \X Slots PROVE x \in open'
        <5>1. PICK s \in Slots : x = <<cur, s>>
          BY <4>2
        <5>2. QED
          BY <3>5, <5>1, <2>c
      <4>3. QED
        BY <4>1, <4>2, Zenon
    <3>7. FailedReloadReleases'
      BY <3>1, <3>2, <3>4, <3>6, <2>a DEF FailedReloadReleases
    <3>8. InstancesAccounted'
      BY <3>1, <3>2, <3>4, <2>a, <2>b, <2>c DEF InstancesAccounted, BuildPCs
    <3>9. Bookkeeping'
      <4>1. \A g \in Gens : \A s \in free'[g] : <<g, s>> \in open'
        <5> SUFFICES ASSUME NEW g \in Gens, NEW s \in free'[g]
                     PROVE  <<g, s>> \in open'
          OBVIOUS
        <5>1. s \in free[g] /\ s \in Slots /\ <<g, s>> \in open
          BY <3>1, <2>b, <2>f DEF Bookkeeping
        <5>2. QED
          BY <5>1, <3>a, <3>5, <2>1
      <4>2. Borrowed' \subseteq open'
        <5>1. \A x \in Borrowed : x \notin {built} \X Slots
          BY <3>a, <2>g
        <5>2. QED
          BY <3>1, <5>1, <2>a, <2>b, Zenon DEF Bookkeeping
      <4>3. pc' \in {"get", "eval", "put"} => runtime'[gen'] = "open"
        BY <3>a, <3>3, <2>a, <2>b, <2>c DEF Bookkeeping
      <4>4. QED
        BY <3>1, <4>1, <4>2, <4>3, <2>a, <2>b DEF Bookkeeping
    <3>10. Construction'
      BY <3>1, <2>b DEF Construction, BuildPCs
    <3>11. QED
      BY <3>1, <3>4, <3>7, <3>8, <3>9, <3>10, <2>a, <2>c, <1>t DEF LifeInv
  <2>2. CASE NewRuntime
    <3>1. /\ main = "serve" /\ built' = built + 1 /\ built' \in Gens
          /\ cur < built' /\ gen < built'
          /\ UNCHANGED <<free, chanClosed, open>>
      BY <2>2, <2>c DEF NewRuntime, Gens
    <3>2. /\ \A g \in Gens : runtime[g] = "open" <=> g = cur
          /\ open = {cur} \X Slots /\ ~chanClosed[cur]
      BY <3>1, <2>b DEF FailedReloadReleases
    <3>3. \A g \in Gens : g # built' => runtime'[g] = runtime[g]
      BY <2>2, <2>f, <3>1 DEF NewRuntime
    <3>4. runtime'[cur] = "open"
      BY <3>1, <3>3, <2>c
    <3>5. \A g \in Gens : g > built => free'[g] = {}
      BY <3>1, <2>b DEF Construction
    <3>6. Bookkeeping'
      BY <2>2, <3>1, <3>3, <2>a, <2>b, <2>c DEF Bookkeeping, NewRuntime
    <3>7. CASE main' = "serve" /\ runtime' = runtime
      <4>1. FailedReloadReleases' /\ InstancesAccounted'
        BY <3>1, <3>2, <3>7, <2>a, <2>b DEF FailedReloadReleases,
           InstancesAccounted, BuildPCs
      <4>2. Construction'
        BY <3>1, <3>5, <3>7, <2>c DEF Construction, BuildPCs, Gens
      <4>3. QED
        BY <4>1, <4>2, <3>1, <3>4, <3>6, <3>7, <2>a, <2>c, <1>t DEF LifeInv
    <3>8. CASE main' = "host" /\ runtime' = [runtime EXCEPT ![built'] = "open"]
      <4>1. FailedReloadReleases'
        BY <3>8 DEF FailedReloadReleases
      <4>2. InstancesAccounted'
        BY <3>1, <3>3, <3>8, <2>a, <2>b DEF InstancesAccounted, BuildPCs
      <4>3. free'[built'] = {}
        BY <3>1, <3>5, <2>c
      <4>4. \A g \in Gens : runtime'[g] = "open" <=> g \in {cur, built'}
        BY <3>1, <3>2, <3>3, <3>8, <2>f
      <4>5. \A g \in Gens, s \in Slots : <<g, s>> \in open' <=> g = cur
        BY <3>1, <3>2
      <4>6. \A g \in Gens : g > built' => free'[g] = {}
        BY <3>1, <3>5, <2>c DEF Gens
      <4>7. Construction'
        BY <3>1, <3>2, <4>3, <4>4, <4>5, <4>6, <2>a DEF Construction
      <4>8. QED
        BY <4>1, <4>2, <4>7, <3>1, <3>4, <3>6, <3>8, <2>a, <2>c, <1>t
           DEF LifeInv
    <3>9. QED
      BY <2>2, <3>1, <3>7, <3>8 DEF NewRuntime
  <2>3. ASSUME main \in {"host", "load"}, main' \in {"load", "pool"},
               UNCHANGED <<built, runtime, free, chanClosed, open>>
        PROVE  LifeInv'
    <3>1. FailedReloadReleases' /\ InstancesAccounted'
      BY <2>3, <2>a, <2>b DEF FailedReloadReleases, InstancesAccounted,
         BuildPCs
    <3>2. Bookkeeping'
      BY <2>3, <2>a, <2>b DEF Bookkeeping
    <3>3. Construction'
      BY <2>3, <2>a, <2>b DEF Construction, BuildPCs
    <3>4. QED
      BY <2>3, <3>1, <3>2, <3>3, <2>a, <2>c, <2>d, <1>t DEF LifeInv
  <2>4. CASE Instantiate
    <3>1. /\ main = "pool" /\ main \in BuildPCs
          /\ UNCHANGED <<built, runtime, chanClosed>>
          /\ main' \in {"pool", "swap", "poolFails"}
      BY <2>4 DEF Instantiate, BuildPCs
    <3>2. cur < built /\ gen < built /\ ~chanClosed[cur]
      BY <3>1, <2>b DEF Construction
    <3>3. FailedReloadReleases'
      BY <3>1 DEF FailedReloadReleases
    <3> DEFINE Grown ==
          /\ \A g \in Gens : g # built => free'[g] = free[g]
          /\ \A g \in Gens, s \in Slots :
               <<g, s>> \in open' <=> (g = cur \/ (g = built /\ s \in free'[g]))
          /\ main' = "swap" => free'[built] = Slots
    <3>4. Grown
      <4>1. \A g \in Gens, s \in Slots :
              <<g, s>> \in open <=> (g = cur \/ (g = built /\ s \in free[g]))
        BY <3>1, <2>b DEF Construction
      <4>2. CASE free' = free /\ open' = open /\ main' = "poolFails"
        BY <4>1, <4>2
      <4>3. ASSUME NEW s \in Slots \ free[built],
                   free' = [free EXCEPT ![built] = @ \cup {s}],
                   open' = open \cup {<<built, s>>},
                   main' = IF free'[built] = Slots THEN "swap" ELSE "pool"
            PROVE  Grown
        <5>1. /\ free'[built] = free[built] \cup {s}
              /\ \A g \in Gens : g # built => free'[g] = free[g]
          BY <4>3, <2>c, <2>f
        <5>2. QED
          BY <4>1, <4>3, <5>1, <3>2, <2>c
      <4> HIDE DEF Grown
      <4>4. QED
        BY <2>4, <4>2, <4>3, Zenon DEF Instantiate
    <3>5. InstancesAccounted'
      <4>1. CASE main' \in BuildPCs
        BY <4>1, <3>1, <3>4, <2>a, <2>b DEF InstancesAccounted
      <4>2. CASE main' \notin BuildPCs
        <5>1. free'[built] = Slots
          BY <4>2, <3>1, <3>4 DEF BuildPCs
        <5>2. \A s \in Slots : <<built, s>> \notin Borrowed
          BY <3>2, <2>c, <2>e
        <5>3. \A g \in Gens : g # built => free'[g] = free[g]
          BY <3>4
        <5>4. QED
          BY <5>1, <5>2, <5>3, <3>1, <2>a, <2>b DEF InstancesAccounted
      <4>3. QED
        BY <4>1, <4>2
    <3>6. Bookkeeping'
      <4>1. \A g \in Gens : \A s \in free'[g] :
              <<g, s>> \in open' /\ <<g, s>> \notin Borrowed'
        <5> SUFFICES ASSUME NEW g \in Gens, NEW s \in free'[g]
                     PROVE  <<g, s>> \in open' /\ <<g, s>> \notin Borrowed'
          OBVIOUS
        <5>1. s \in Slots
          BY <1>t DEF TypeOK
        <5>2. CASE g = built
          BY <5>1, <5>2, <3>2, <3>4, <2>a, <2>c, <2>e
        <5>3. CASE g # built
          <6>1. free'[g] = free[g] /\ <<g, s>> \in open
            BY <5>3, <3>4, <2>b DEF Bookkeeping
          <6>2. g = cur
            BY <6>1, <5>1, <5>3, <3>1, <2>b DEF Construction
          <6>3. QED
            BY <6>1, <6>2, <5>1, <3>4, <2>a, <2>b DEF Bookkeeping
        <5>4. QED
          BY <5>2, <5>3
      <4>2. open \subseteq open'
        BY <2>4 DEF Instantiate
      <4>3. runtime'[built'] = "open"
        BY <3>1, <2>b, <2>c DEF Construction
      <4>4. QED
        BY <4>1, <4>2, <4>3, <3>1, <2>a, <2>b DEF Bookkeeping
    <3>7. Construction'
      <4>1. \A g \in Gens : g > built => free'[g] = {}
        BY <3>4, <2>b, <2>c DEF Construction, Gens
      <4>2. QED
        BY <4>1, <3>1, <3>2, <3>4, <2>a, <2>b DEF Construction
    <3>8. QED
      BY <3>1, <3>3, <3>5, <3>6, <3>7, <2>a, <2>c, <2>d, <1>t DEF LifeInv
  <2>5. CASE PoolFails
    <3>1. /\ main = "poolFails" /\ main \in BuildPCs /\ main' = "giveUp"
          /\ chanClosed' = [chanClosed EXCEPT ![built] = TRUE]
          /\ free' = [free EXCEPT ![built] = {}]
          /\ open' = open \ ({built} \X free[built])
          /\ UNCHANGED <<built, runtime>>
      BY <2>5 DEF PoolFails, BuildPCs
    <3>2. cur < built /\ gen < built /\ ~chanClosed[cur]
      BY <3>1, <2>b DEF Construction
    <3>3. /\ free'[built] = {}
          /\ \A g \in Gens : g # built => free'[g] = free[g]
          /\ \A g \in Gens : g # built => chanClosed'[g] = chanClosed[g]
      BY <3>1, <2>c, <2>f
    <3>a. /\ cur # built /\ gen # built
          /\ \A g \in Gens, s \in Slots :
               <<g, s>> \in open <=> (g = cur \/ (g = built /\ s \in free[g]))
      BY <3>1, <3>2, <2>b, <2>c DEF Construction
    <3>4. ASSUME NEW g \in Gens, NEW s \in Slots
          PROVE  <<g, s>> \in open' <=> g = cur
      <4>1. <<g, s>> \in open'
              <=> <<g, s>> \in open /\ ~(g = built /\ s \in free[built])
        BY <3>1, Zenon
      <4>2. QED
        BY <3>a, <4>1
    <3>5. FailedReloadReleases'
      BY <3>1 DEF FailedReloadReleases
    <3>6. InstancesAccounted'
      BY <3>1, <3>3, <2>a, <2>b DEF InstancesAccounted, BuildPCs
    <3>7. Bookkeeping'
      <4>1. \A g \in Gens : \A s \in free'[g] : <<g, s>> \in open'
        <5> SUFFICES ASSUME NEW g \in Gens, NEW s \in free'[g]
                     PROVE  <<g, s>> \in open'
          OBVIOUS
        <5>1. g # built
          BY <3>3
        <5>2. s \in Slots /\ <<g, s>> \in open
          BY <5>1, <3>3, <2>b, <2>f DEF Bookkeeping
        <5>3. QED
          BY <5>1, <5>2, <3>a, <3>4
      <4>2. Borrowed' \subseteq open'
        <5>1. \A x \in Borrowed : x \notin {built} \X free[built]
          BY <3>a, <2>g
        <5>2. QED
          BY <3>1, <5>1, <2>a, <2>b, Zenon DEF Bookkeeping
      <4>3. \A g \in Gens : \A s \in free'[g] : <<g, s>> \notin Borrowed'
        BY <3>3, <2>a, <2>b DEF Bookkeeping
      <4>4. QED
        BY <4>1, <4>2, <4>3, <3>1, <2>a, <2>b DEF Bookkeeping
    <3>8. Construction'
      <4>1. \A g \in Gens : g > built => free'[g] = {}
        BY <3>3, <2>b, <2>c DEF Construction, Gens
      <4>2. QED
        BY <4>1, <3>1, <3>2, <3>3, <3>4, <2>a, <2>b, <2>c DEF Construction
    <3>9. QED
      BY <3>1, <3>5, <3>6, <3>7, <3>8, <2>a, <2>c, <1>t DEF LifeInv
  <2>6. CASE HostCallbacks \/ LoadPolicy \/ GiveUp
    <3>1. main \in {"host", "load", "giveUp"} /\ main \in BuildPCs
      BY <2>6 DEF HostCallbacks, LoadPolicy, GiveUp, BuildPCs
    <3>2. free[built] = {}
      BY <3>1, <2>b DEF Construction
    <3>3. QED
      BY <2>1, <2>3, <2>6, <3>1, <3>2 DEF HostCallbacks, LoadPolicy, GiveUp
  <2>7. QED
    BY <1>6, <2>2, <2>4, <2>5, <2>6
<1>7. CASE \/ ReloadSwaps \/ ReloadClears
           \/ StopCancels \/ StopPlatform \/ StopWaits
  <2>1. /\ UNCHANGED <<free, open, runtime, chanClosed, built, gen, pc>>
        /\ Borrowed' = Borrowed
        /\ main \in {"swap", "clear", "serve", "cancelled", "waiting"}
        /\ main' \in {"clear", "closeOld", "cancelled", "waiting", "stopped"}
        /\ cur' = cur \/ (cur' = built /\ main = "swap")
    BY <1>7, Zenon DEF ReloadSwaps, ReloadClears, StopCancels, StopPlatform,
       StopWaits, KeepLoop, Borrowed
  <2>2. /\ main # "crashed" /\ main' \notin {"serve", "crashed", "swap"}
        /\ main \notin BuildPCs /\ main' \notin BuildPCs
        /\ main' \notin {"host", "load", "giveUp", "drainOld", "closeOldAgain",
                         "drain", "closeAgain"}
    BY <2>1 DEF BuildPCs
  <2>3. Bookkeeping /\ Construction /\ InstancesAccounted
    BY <2>2 DEF LifeInv
  <2>4. cur' <= built' /\ gen' <= built' /\ runtime'[cur'] = "open"
    <3>1. built \in Int /\ cur <= built /\ gen <= built
          /\ runtime[cur] = "open"
      BY <1>t DEF LifeInv, TypeOK, Gens
    <3>2. main = "swap" => runtime[built] = "open"
      BY <2>3 DEF Bookkeeping
    <3>3. QED
      BY <2>1, <3>1, <3>2
  <2>5. InstancesAccounted' /\ FailedReloadReleases'
    BY <2>1, <2>2, <2>3, Zenon DEF InstancesAccounted, FailedReloadReleases
  <2>6. Bookkeeping' /\ Construction'
    BY <2>1, <2>2, <2>3, Zenon DEF Bookkeeping, Construction
  <2>7. QED
    BY <2>2, <2>4, <2>5, <2>6, <1>t, Zenon DEF LifeInv
<1>8. ASSUME NEW g \in Gens, NEW next, CloseChannel(g, next),
             main \in {"closeOld", "stopped"},
             \/ g = old /\ next = "drainOld"
             \/ g = cur /\ next = "drain"
      PROVE  LifeInv'
  <2>1. CASE chanClosed[g]
    BY <2>1, <1>8, <1>c, SMTT(30), Z3T(30) DEF CloseChannel, KeepGens
  <2>2. CASE ~chanClosed[g]
    <3>1. /\ main' = next /\ chanClosed' = [chanClosed EXCEPT ![g] = TRUE]
          /\ UNCHANGED <<cur, old, built, runtime, free, open, pc, gen>>
          /\ Borrowed' = Borrowed
      BY <1>8, <2>2, Zenon DEF CloseChannel, KeepLoop, Borrowed
    <3>2. chanClosed \in [Gens -> BOOLEAN]
      BY <1>t, Zenon DEF TypeOK
    <3>3. chanClosed'[g] /\ \A h \in Gens : chanClosed[h] => chanClosed'[h]
      BY <3>1, <3>2
    <3>5. /\ main # "crashed" /\ main \notin BuildPCs /\ main' \notin BuildPCs
          /\ main' \notin {"serve", "crashed", "swap", "host", "load", "giveUp"}
      BY <1>8, <3>1 DEF BuildPCs
    <3>4. InstancesAccounted'
      BY <1>8, <3>1, <3>3, <3>5, Zenon DEF LifeInv, InstancesAccounted
    <3>6. FailedReloadReleases'
      BY <3>5, Zenon DEF FailedReloadReleases
    <3>7. /\ main' \in {"drainOld", "closeOldAgain"} => chanClosed'[old']
          /\ main' \in {"drain", "closeAgain"} => chanClosed'[cur']
      BY <1>8, <3>1, <3>3
    <3>8. Bookkeeping'
      BY <1>8, <3>1, <3>5, <3>7, Zenon DEF LifeInv, Bookkeeping
    <3>9. Construction'
      BY <3>1, <3>5, Zenon DEF LifeInv, Construction
    <3>10. QED
      BY <1>t, <3>1, <3>4, <3>5, <3>6, <3>8, <3>9, Zenon DEF LifeInv
  <2>3. QED
    BY <2>1, <2>2
<1>9. ASSUME NEW g \in Gens, NEW next, Drain(g, next), chanClosed[g],
             \/ g = old /\ main = "drainOld" /\ next = "closeOldAgain"
             \/ g = cur /\ main = "drain" /\ next = "closeAgain"
      PROVE  LifeInv'
  <2>1. /\ UNCHANGED <<cur, old, built, runtime, chanClosed, pc, gen>>
        /\ Borrowed' = Borrowed
    BY <1>9, Zenon DEF Drain, KeepLoop, Borrowed
  <2>2. /\ main # "crashed" /\ (main' = main \/ main' = next)
        /\ main' \notin {"serve", "crashed", "swap", "host", "load", "giveUp"}
        /\ main \notin BuildPCs /\ main' \notin BuildPCs
    <3>1. main' = main \/ main' = next
      BY <1>9, Zenon DEF Drain
    <3>2. QED
      BY <1>9, <3>1 DEF BuildPCs
  <2>3. Bookkeeping /\ Construction /\ free \in [Gens -> SUBSET Slots]
    BY <1>t, <2>2, Zenon DEF LifeInv, TypeOK
  <2> DEFINE Left ==
        /\ \A h \in Gens : h # g => free'[h] = free[h]
        /\ \A h \in Gens : \A s \in free'[h] : s \in free[h] /\ <<h, s>> \in open'
        /\ Borrowed \subseteq open'
  <2>4. Left
    <3>1. CASE free' = free /\ open' = open
      BY <2>3, <3>1, Zenon DEF Bookkeeping
    <3>2. ASSUME NEW s \in free[g], free' = [free EXCEPT ![g] = @ \ {s}],
                 open' = open \ {<<g, s>>}
          PROVE  Left
      <4>1. /\ free'[g] = free[g] \ {s}
            /\ \A h \in Gens : h # g => free'[h] = free[h]
        BY <2>3, <3>2
      <4>2. <<g, s>> \notin Borrowed
        BY <2>3, Zenon DEF Bookkeeping
      <4>3. \A h \in Gens : \A t \in free[h] : <<h, t>> \in open
        BY <2>3, Zenon DEF Bookkeeping
      <4>4. Borrowed \subseteq open'
        BY <2>3, <3>2, <4>2, Zenon DEF Bookkeeping
      <4>5. ASSUME NEW h \in Gens, NEW t \in free'[h]
            PROVE  t \in free[h] /\ <<h, t>> \in open'
        BY <3>2, <4>1, <4>3, <4>5
      <4>6. QED
        BY <4>1, <4>4, <4>5, Zenon
    <3> HIDE DEF Left
    <3>3. QED
      BY <1>9, <3>1, <3>2, Zenon DEF Drain
  <2>5. InstancesAccounted'
    BY <1>9, <2>1, <2>2, <2>4, Zenon DEF LifeInv, InstancesAccounted
  <2>6. FailedReloadReleases'
    BY <2>2 DEF FailedReloadReleases
  <2>7. /\ main' \in {"drainOld", "closeOldAgain"} => chanClosed'[old']
        /\ main' \in {"drain", "closeAgain"} => chanClosed'[cur']
    BY <1>9, <2>1, <2>2
  <2>8. Bookkeeping'
    <3>1. \A h \in Gens : \A s \in free'[h] :
            <<h, s>> \in open' /\ <<h, s>> \notin Borrowed'
      BY <2>1, <2>3, <2>4, Zenon DEF Bookkeeping
    <3>2. main' # "swap"
      BY <2>2
    <3>3. QED
      BY <2>1, <2>3, <2>4, <2>7, <3>1, <3>2, Zenon DEF Bookkeeping
  <2>9. Construction'
    <3>1. \A h \in Gens : free[h] = {} => free'[h] = {}
      BY <2>4, Zenon
    <3>2. QED
      BY <2>1, <2>2, <2>3, <3>1, Zenon DEF Construction
  <2>10. QED
    <3>1. main' # "crashed"
      BY <2>2
    <3>2. QED
      BY <1>t, <2>1, <2>5, <2>6, <2>8, <2>9, <3>1, Zenon DEF LifeInv
<1>10. ASSUME NEW g, NEW next, CloseAgain(g, next), chanClosed[g]
       PROVE  LifeInv'
  BY <1>10, <1>c DEF CloseAgain, KeepGens
<1>11. CASE \/ ReloadClosesEvaluator \/ ReloadDrains \/ ReloadClosesPool
            \/ CloseEvaluator \/ CloseDrains \/ ClosePool
  <2>1. cur \in Gens /\ old \in Gens
    BY <1>t DEF TypeOK
  <2>2. /\ main \in {"drainOld", "closeOldAgain"} => chanClosed[old]
        /\ main \in {"drain", "closeAgain"} => chanClosed[cur]
    BY DEF LifeInv, Bookkeeping
  <2>3. QED
    BY <1>8, <1>9, <1>10, <1>11, <2>1, <2>2
       DEF ReloadClosesEvaluator, ReloadDrains, ReloadClosesPool,
           CloseEvaluator, CloseDrains, ClosePool
<1>12. CASE Ended \/ UNCHANGED vars
  <2>1. UNCHANGED vars
    BY <1>12 DEF Ended
  <2>2. Borrowed' = Borrowed
    BY <2>1 DEF vars, Borrowed
  <2>3. InstancesAccounted' = InstancesAccounted
    BY <2>1, <2>2 DEF vars, InstancesAccounted
  <2>4. FailedReloadReleases' = FailedReloadReleases
    BY <2>1 DEF vars, FailedReloadReleases
  <2>5. Bookkeeping' = Bookkeeping
    BY <2>1, <2>2 DEF vars, Bookkeeping
  <2>7. Construction' = Construction
    BY <2>1 DEF vars, Construction
  <2>6. QED
    BY <2>1, <2>3, <2>4, <2>5, <2>7, <1>t DEF vars, LifeInv
<1>13. QED
  BY <1>1, <1>2, <1>3, <1>4, <1>5, <1>6, <1>7, <1>11, <1>12
     DEF Next, LoopStep, MainStep

\* The inductive invariant holds throughout, whatever the pool size, the
\* queue capacity and the number of reloads.
LEMMA LifeAlways == Spec => []LifeInv
  BY LifeInit, LifeStep, PTL DEF Spec

\* Every instance of an open pool is in its channel or with the event loop,
\* never in both and never lost (Pool.Get, Evaluate's deferred Pool.Put).
THEOREM PoolAccounted == Spec => []InstancesAccounted
<1>1. LifeInv => InstancesAccounted
  BY DEF LifeInv
<1>2. QED
  BY LifeAlways, <1>1, PTL

\* The event loop never evaluates with an instance that Pool.Close or
\* Runtime.Close has closed, wherever a reload overtakes it.
THEOREM NeverUsedAfterClose == Spec => []NoUseAfterClose
<1>1. LifeInv => NoUseAfterClose
  BY DEF LifeInv, Bookkeeping, NoUseAfterClose, Borrowed
<1>2. QED
  BY LifeAlways, <1>1, PTL

\* A ReloadPolicy that returns an error leaves only the serving generation.
THEOREM FailedReloadLeavesNothing == Spec => []FailedReloadReleases
<1>1. LifeInv => FailedReloadReleases
  BY DEF LifeInv
<1>2. QED
  BY LifeAlways, <1>1, PTL
=============================================================================
