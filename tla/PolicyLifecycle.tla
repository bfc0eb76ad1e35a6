--------------------------- MODULE PolicyLifecycle ---------------------------
(***************************************************************************)
(* The life of the policy an enforcer evaluates with: the pool of WASM     *)
(* instances (internal/wasm/pool.go, context.go), the event loop that      *)
(* borrows from it (internal/enforcer/enforcer.go, eventLoop and           *)
(* handleEvent), and the daemon's main goroutine that replaces it on       *)
(* SIGHUP and tears it down on SIGTERM (ReloadPolicy, Stop, Close,         *)
(* cmd/warmor-daemon/main.go).  A generation is one runtime, pool and      *)
(* evaluator; ReloadPolicy builds the next one.                            *)
(*                                                                         *)
(* The two goroutines share no lock but evaluatorMu, held only to read or  *)
(* swap the pointer, and the cache's.  What handleEvent does before the    *)
(* cache (network filter, sandbox, learning mode) is in EventPath.         *)
(***************************************************************************)
EXTENDS Integers, Sequences, FiniteSets

CONSTANTS Events,     \* events, told apart by their cache key
          PoolSize,   \* runtime.NumCPU()
          QueueCap,   \* capacity of eventChan: 1024
          MaxReload   \* bound on the number of reloads

ASSUME LifecycleAssumption ==
  /\ PoolSize \in Nat \ {0}
  /\ QueueCap \in Nat \ {0}
  /\ MaxReload \in Nat

VARIABLES queue,      \* eventChan
          delivering, \* the platform monitor is sending events
          ctxDone,    \* e.ctx is cancelled
          cur,        \* generation of e.evaluator, e.pool and e.wasmRuntime
          old,        \* oldEvaluator, oldPool and oldRuntime of ReloadPolicy
          built,      \* the last generation ReloadPolicy tried to build
          runtime,    \* per generation: "absent", "open" or "closed"
          free,       \* per generation: the instances in the pool's channel
          chanClosed, \* per generation: the pool's channel is closed
          open,       \* the instances, <<generation, index>>, not closed
          cache,      \* decision cache: the decision under each event's key
          main,       \* control point of the main goroutine
          pc,         \* control point of the event loop, and its locals:
          ev,         \* the event,
          gen,        \* the generation of the evaluator it read,
          slot,       \* the instance it borrowed,
          res,        \* the decision,
          since       \* and, for the properties, see LoopTake

vars == <<queue, delivering, ctxDone, cur, old, built, runtime, free,
          chanClosed, open, cache, main, pc, ev, gen, slot, res, since>>

Gens == 0..MaxReload
Slots == 1..PoolSize

\* A decision, by the generation that made it; -1 is the fail-closed denial
\* of an evaluation that returned an error.
Failed == -1
Decisions == Gens \cup {Failed}
NoDecision == -2

\* handleEvent's control points, in the order it passes them.
LoopPCs == {"select", "lookup", "read", "get", "eval", "put", "store",
            "enforce", "exited", "crashed"}

\* The main goroutine: serving; in ReloadPolicy; in Stop; in Close.
BuildPCs == {"host", "load", "pool", "poolFails", "giveUp"}
MainPCs == {"serve"} \cup BuildPCs \cup
           {"swap", "clear", "closeOld", "drainOld", "closeOldAgain",
            "cancelled", "waiting", "stopped", "drain", "closeAgain",
            "exited", "crashed"}

TypeOK ==
  /\ queue \in Seq(Events) /\ Len(queue) <= QueueCap
  /\ delivering \in BOOLEAN /\ ctxDone \in BOOLEAN
  /\ cur \in Gens /\ old \in Gens /\ built \in Gens
  /\ runtime \in [Gens -> {"absent", "open", "closed"}]
  /\ free \in [Gens -> SUBSET Slots]
  /\ chanClosed \in [Gens -> BOOLEAN]
  /\ open \subseteq Gens \X Slots
  /\ cache \in [Events -> Decisions \cup {NoDecision}]
  /\ main \in MainPCs
  /\ pc \in LoopPCs /\ ev \in Events /\ gen \in Gens /\ slot \in Slots
  /\ res \in Decisions /\ since \in Gens

\* New: generation 0 is loaded, its pool full, the cache empty; then Start.
New ==
  /\ queue = << >> /\ delivering = TRUE /\ ctxDone = FALSE
  /\ cur = 0 /\ old = 0 /\ built = 0
  /\ runtime = [g \in Gens |-> IF g = 0 THEN "open" ELSE "absent"]
  /\ free = [g \in Gens |-> IF g = 0 THEN Slots ELSE {}]
  /\ chanClosed = [g \in Gens |-> FALSE]
  /\ open = {0} \X Slots
  /\ cache = [e \in Events |-> NoDecision]
  /\ main = "serve"
  /\ pc = "select" /\ ev \in Events /\ gen = 0 /\ slot = 1
  /\ res = Failed /\ since = 0

\* A panic in any goroutine, which nothing recovers: the process is gone.
Crash ==
  /\ main' = "crashed"
  /\ pc' = "crashed" /\ UNCHANGED <<ev, gen, slot, res, since>>
  /\ delivering' = FALSE
-----------------------------------------------------------------------------
(* The event loop. *)

\* The loop changes nothing of the generations, and only a panic touches the
\* other goroutine.
KeepGens == UNCHANGED <<cur, old, built, runtime, chanClosed, ctxDone>>
KeepMain == UNCHANGED <<main, delivering>>
KeepLoop == UNCHANGED <<pc, ev, gen, slot, res, since>>

\* A platform monitor sends an event; it blocks while the channel is full.
Deliver(e) ==
  /\ delivering /\ Len(queue) < QueueCap
  /\ queue' = Append(queue, e)
  /\ KeepGens /\ KeepMain
  /\ KeepLoop /\ UNCHANGED <<free, open, cache>>

\* select: with both branches ready Go picks either, so an event may still be
\* taken after the context is cancelled.  "since" remembers, for the
\* properties, the oldest policy the event may be judged by: the current one,
\* or while ReloadPolicy is between swap and Clear, the one before.
LoopTake ==
  /\ pc = "select" /\ queue # << >>
  /\ pc' = "lookup" /\ ev' = Head(queue)
  /\ since' = IF main = "clear" THEN old ELSE cur
  /\ UNCHANGED <<gen, slot, res>>
  /\ queue' = Tail(queue)
  /\ KeepGens /\ KeepMain
  /\ UNCHANGED <<free, open, cache>>

\* Mutant of LoopExit: break for return leaves the select, not the loop.
LoopBreaksSelect ==
  /\ pc = "select" /\ ctxDone
  /\ UNCHANGED vars

LoopExit ==
  /\ pc = "select" /\ ctxDone
  /\ pc' = "exited"
  /\ UNCHANGED <<ev, gen, slot, res, since>>
  /\ KeepGens /\ KeepMain
  /\ UNCHANGED <<queue, free, open, cache>>

\* e.cache.Get: a hit goes straight to Enforce.
Lookup ==
  /\ pc = "lookup"
  /\ IF cache[ev] = NoDecision
     THEN pc' = "read" /\ UNCHANGED res
     ELSE pc' = "enforce" /\ res' = cache[ev]
  /\ UNCHANGED <<ev, gen, slot, since>>
  /\ KeepGens /\ KeepMain
  /\ UNCHANGED <<queue, free, open, cache>>

\* evaluator := e.evaluator, under evaluatorMu
ReadEvaluator ==
  /\ pc = "read"
  /\ pc' = "get" /\ gen' = cur
  /\ UNCHANGED <<ev, slot, res, since>>
  /\ KeepGens /\ KeepMain
  /\ UNCHANGED <<queue, free, open, cache>>

\* Pool.Get: an instance, or the context's error.  A receive from a drained,
\* closed channel yields a nil policy, which Evaluate dereferences.
PoolGet ==
  /\ pc = "get"
  /\ \/ /\ ctxDone
        /\ pc' = "store" /\ res' = Failed
        /\ UNCHANGED <<ev, gen, slot, since>>
        /\ KeepMain /\ UNCHANGED free
     \/ \E s \in free[gen] :
          /\ pc' = "eval" /\ slot' = s
          /\ UNCHANGED <<ev, gen, res, since>>
          /\ free' = [free EXCEPT ![gen] = @ \ {s}]
          /\ KeepMain
     \/ /\ free[gen] = {} /\ chanClosed[gen]
        /\ Crash /\ UNCHANGED free
  /\ KeepGens /\ UNCHANGED <<queue, open, cache>>

\* policy.Evaluate and GetMatchedRule: the policy's verdict, or an error (a
\* trap, a failed write; always when the instance was closed).
Evaluate ==
  /\ pc = "eval"
  /\ \E r \in {gen, Failed} :
       /\ <<gen, slot>> \notin open => r = Failed
       /\ pc' = "put" /\ res' = r
       /\ UNCHANGED <<ev, gen, slot, since>>
  /\ KeepGens /\ KeepMain
  /\ UNCHANGED <<queue, free, open, cache>>

\* Mutant of PoolPut: Put is not deferred, so an error returns without it.
PoolPutUnlessError ==
  /\ pc = "put"
  /\ pc' = "store"
  /\ UNCHANGED <<ev, gen, slot, res, since>>
  /\ free' = IF res = Failed THEN free
             ELSE [free EXCEPT ![gen] = @ \cup {slot}]
  /\ KeepGens /\ KeepMain
  /\ UNCHANGED <<queue, cache, open>>

\* The deferred Pool.Put: sending on a closed channel panics.
PoolPut ==
  /\ pc = "put"
  /\ IF chanClosed[gen]
     THEN Crash /\ UNCHANGED <<free, open>>
     ELSE /\ pc' = "store"
          /\ UNCHANGED <<ev, gen, slot, res, since>>
          /\ IF Cardinality(free[gen]) < PoolSize
             THEN /\ free' = [free EXCEPT ![gen] = @ \cup {slot}]
                  /\ UNCHANGED open
             ELSE /\ open' = open \ {<<gen, slot>>}
                  /\ UNCHANGED free
          /\ KeepMain
  /\ KeepGens /\ UNCHANGED <<queue, cache>>

\* e.cache.Put: a failed evaluation's denial is cached like any other.
CachePut ==
  /\ pc = "store"
  /\ cache' = [cache EXCEPT ![ev] = res]
  /\ pc' = "enforce"
  /\ UNCHANGED <<ev, gen, slot, res, since>>
  /\ KeepGens /\ KeepMain
  /\ UNCHANGED <<queue, free, open>>

\* Enforce, logging, metrics and Emit; back to select.
Enforce ==
  /\ pc = "enforce"
  /\ pc' = "select"
  /\ UNCHANGED <<ev, gen, slot, res, since>>
  /\ KeepGens /\ KeepMain
  /\ UNCHANGED <<queue, free, open, cache>>

LoopStep ==
  \/ LoopTake \/ LoopExit \/ Lookup \/ ReadEvaluator \/ PoolGet \/ Evaluate
  \/ PoolPut \/ CachePut \/ Enforce
-----------------------------------------------------------------------------
(* The main goroutine: the signal loop and what it calls. *)

KeepServing == UNCHANGED <<queue, delivering, ctxDone, cur, old, cache>>

\* Runtime.Close of the generation under construction, with every instance
\* made in it; ReloadPolicy returns the error.
CloseNewRuntime ==
  /\ runtime' = [runtime EXCEPT ![built] = "closed"]
  /\ open' = open \ ({built} \X Slots)
  /\ main' = "serve"
  /\ KeepLoop /\ KeepServing /\ UNCHANGED <<built, free, chanClosed>>

\* wasm.NewRuntime: the compilation cache cannot be opened and nothing was
\* made, or there is a runtime.
NewRuntime ==
  /\ main = "serve" /\ built < MaxReload
  /\ built' = built + 1
  /\ \/ UNCHANGED <<runtime, main>>
     \/ runtime' = [runtime EXCEPT ![built + 1] = "open"] /\ main' = "host"
  /\ KeepLoop /\ KeepServing /\ UNCHANGED <<free, chanClosed, open>>

\* Host callbacks and WASI, the end of NewRuntime: an error closes the runtime.
HostCallbacks ==
  /\ main = "host"
  /\ \/ CloseNewRuntime
     \/ /\ main' = "load"
        /\ KeepLoop /\ KeepServing
        /\ UNCHANGED <<built, runtime, free, chanClosed, open>>

\* Mutant of LoadPolicy: the error path returns without newRuntime.Close.
LoadPolicyLeaks ==
  /\ main = "load"
  /\ main' \in {"serve", "pool"}
  /\ KeepLoop /\ KeepServing
  /\ UNCHANGED <<built, runtime, free, chanClosed, open>>

\* LoadPolicy or LoadPolicyFromYAML: read, compile.
LoadPolicy ==
  /\ main = "load"
  /\ \/ CloseNewRuntime
     \/ /\ main' = "pool"
        /\ KeepLoop /\ KeepServing
        /\ UNCHANGED <<built, runtime, free, chanClosed, open>>

\* One turn of NewPool's loop; an instance that cannot be set up is closed by
\* instantiate itself.
Instantiate ==
  /\ main = "pool"
  /\ \/ \E s \in Slots \ free[built] :
          /\ free' = [free EXCEPT ![built] = @ \cup {s}]
          /\ open' = open \cup {<<built, s>>}
          /\ main' = IF free'[built] = Slots THEN "swap" ELSE "pool"
     \/ main' = "poolFails" /\ UNCHANGED <<free, open>>
  /\ KeepLoop /\ KeepServing /\ UNCHANGED <<built, runtime, chanClosed>>

\* NewPool's p.Close of the members made so far.
PoolFails ==
  /\ main = "poolFails"
  /\ chanClosed' = [chanClosed EXCEPT ![built] = TRUE]
  /\ free' = [free EXCEPT ![built] = {}]
  /\ open' = open \ ({built} \X free[built])
  /\ main' = "giveUp"
  /\ KeepLoop /\ KeepServing /\ UNCHANGED <<built, runtime>>

GiveUp == main = "giveUp" /\ CloseNewRuntime

\* The swap under evaluatorMu.
ReloadSwaps ==
  /\ main = "swap"
  /\ old' = cur /\ cur' = built
  /\ main' = "clear"
  /\ KeepLoop /\ UNCHANGED <<queue, delivering, ctxDone, built, runtime, free,
                             chanClosed, open, cache>>

\* e.cache.Clear(): the decision cache only; a kernel policy map keeps its
\* rules.
ReloadClears ==
  /\ main = "clear"
  /\ cache' = [e \in Events |-> NoDecision]
  /\ main' = "closeOld"
  /\ KeepLoop /\ UNCHANGED <<queue, delivering, ctxDone, cur, old, built,
                             runtime, free, chanClosed, open>>

\* Pool.Close on generation g, first part: close(p.instances), which panics
\* when the channel is closed already.
CloseChannel(g, next) ==
  /\ IF chanClosed[g]
     THEN Crash /\ UNCHANGED chanClosed
     ELSE /\ chanClosed' = [chanClosed EXCEPT ![g] = TRUE]
          /\ main' = next
          /\ KeepLoop /\ UNCHANGED <<delivering>>
  /\ UNCHANGED <<queue, ctxDone, cur, old, built, runtime, free, open, cache>>

\* Mutant of Drain: the runtime, and so every instance, is closed first.
DrainRuntimeFirst(g, next) ==
  /\ free' = [free EXCEPT ![g] = {}]
  /\ open' = open \ ({g} \X Slots)
  /\ main' = next
  /\ KeepLoop /\ UNCHANGED <<queue, delivering, ctxDone, cur, old, built,
                             runtime, chanClosed, cache>>

\* Pool.Close, second part: what the channel still holds is received, in
\* competition with Pool.Get, and closed.  An instance the loop has borrowed
\* is not in the channel.
Drain(g, next) ==
  /\ \/ \E s \in free[g] :
          /\ free' = [free EXCEPT ![g] = @ \ {s}]
          /\ open' = open \ {<<g, s>>}
          /\ UNCHANGED main
     \/ /\ free[g] = {}
        /\ main' = next
        /\ UNCHANGED <<free, open>>
  /\ KeepLoop /\ UNCHANGED <<queue, delivering, ctxDone, cur, old, built,
                             runtime, chanClosed, cache>>

\* The second Pool.Close of the same pool and, had it returned, Runtime.Close,
\* which closes every instance of the generation.
CloseAgain(g, next) ==
  IF chanClosed[g]
  THEN /\ Crash
       /\ UNCHANGED <<queue, ctxDone, cur, old, built, runtime, free,
                      chanClosed, open, cache>>
  ELSE /\ chanClosed' = [chanClosed EXCEPT ![g] = TRUE]
       /\ free' = [free EXCEPT ![g] = {}]
       /\ open' = open \ ({g} \X Slots)
       /\ runtime' = [runtime EXCEPT ![g] = "closed"]
       /\ main' = next
       /\ KeepLoop /\ UNCHANGED <<queue, delivering, ctxDone, cur, old, built,
                                  cache>>

\* oldEvaluator.Close, then oldPool.Close and oldRuntime.Close
ReloadClosesEvaluator == main = "closeOld" /\ CloseChannel(old, "drainOld")
ReloadDrains == main = "drainOld" /\ Drain(old, "closeOldAgain")
ReloadClosesPool == main = "closeOldAgain" /\ CloseAgain(old, "serve")

\* Stop: cancel; platform.Stop, after which no monitor sends (LinuxMonitors
\* has its steps); wg.Wait for the event loop.
StopCancels ==
  /\ main = "serve"
  /\ ctxDone' = TRUE /\ main' = "cancelled"
  /\ KeepLoop /\ UNCHANGED <<queue, delivering, cur, old, built, runtime,
                             free, chanClosed, open, cache>>

StopPlatform ==
  /\ main = "cancelled"
  /\ delivering' = FALSE /\ main' = "waiting"
  /\ KeepLoop /\ UNCHANGED <<queue, ctxDone, cur, old, built, runtime, free,
                             chanClosed, open, cache>>

StopWaits ==
  /\ main = "waiting" /\ pc = "exited"
  /\ main' = "stopped"
  /\ KeepLoop /\ UNCHANGED <<queue, delivering, ctxDone, cur, old, built,
                             runtime, free, chanClosed, open, cache>>

\* The deferred Close: evaluator.Close, pool.Close, wasmRuntime.Close.
CloseEvaluator == main = "stopped" /\ CloseChannel(cur, "drain")
CloseDrains == main = "drain" /\ Drain(cur, "closeAgain")
ClosePool == main = "closeAgain" /\ CloseAgain(cur, "exited")

MainStep ==
  \/ NewRuntime \/ HostCallbacks \/ LoadPolicy \/ Instantiate
  \/ PoolFails \/ GiveUp \/ ReloadSwaps \/ ReloadClears
  \/ ReloadClosesEvaluator \/ ReloadDrains \/ ReloadClosesPool
  \/ StopCancels \/ StopPlatform \/ StopWaits
  \/ CloseEvaluator \/ CloseDrains \/ ClosePool

\* The process has ended.
Ended == main \in {"crashed", "exited"} /\ UNCHANGED vars

Next ==
  \/ \E e \in Events : Deliver(e)
  \/ LoopStep
  \/ MainStep
  \/ Ended

Spec == New /\ [][Next]_vars

\* Goroutines that can run do run; the operator need not send a signal, nor
\* the platform an event.  Nothing bounds an evaluation (the runtime has no
\* deadline and is not told to close with its context) or platform.Stop (it
\* waits for the monitors, see LinuxMonitors), so neither is fair.
LoopGoesOn ==
  \/ LoopTake \/ LoopExit \/ Lookup \/ ReadEvaluator \/ PoolGet \/ PoolPut
  \/ CachePut \/ Enforce
FairSpec == Spec /\ WF_vars(LoopGoesOn) /\ WF_vars(StopWaits)
-----------------------------------------------------------------------------
\* While a finished pool is open every one of its instances is in the channel
\* or with the event loop, never in both and never lost: Get and the deferred
\* Put of Evaluate balance on every path, errors included.
Borrowed == IF pc \in {"eval", "put"} THEN {<<gen, slot>>}
            ELSE {}
InstancesAccounted ==
  main # "crashed" =>
    \A g \in Gens : /\ runtime[g] = "open" /\ ~chanClosed[g]
                    /\ main \in BuildPCs => g # built
                    =>
      \A s \in Slots : (s \in free[g]) # (<<g, s>> \in Borrowed)

\* The loop never evaluates with an instance that was closed under it, though
\* ReloadPolicy closes the old pool without waiting for the loop: Pool.Close
\* reaches only instances in the channel, and the runtime that holds the
\* borrowed one stays open.
NoUseAfterClose ==
  pc = "eval" =>
    <<gen, slot>> \in open /\ runtime[gen] = "open"

\* A reload that fails leaves no trace, at whichever step it fails and however
\* far the new pool had come: back in the signal loop only the serving
\* generation has a runtime and instances, and it can serve.
FailedReloadReleases ==
  main = "serve" =>
    /\ \A g \in Gens : runtime[g] = "open" <=> g = cur
    /\ open = {cur} \X Slots
    /\ ~chanClosed[cur]

\* Once Stop has cancelled the context the event loop ends, and with it Stop,
\* whatever is still queued and whatever the loop was doing: only a
\* platform.Stop or an evaluation that never returns can hold Stop up.
StopCompletes ==
  \/ ctxDone ~> (main \notin {"cancelled", "waiting"})
  \/ <>[](main = "cancelled")
  \/ <>[](pc = "eval")

\* README.md:92, "SIGHUP to swap policies without restart or downtime": a
\* reload does not end the process.
ReloadSurvives == main = "crashed" => ctxDone

\* docs/PRD.md:325, "Atomic policy swap": an event taken when the new policy
\* was in place and the cache cleared is not judged by the old one.
SwapIsAtomic ==
  pc = "enforce" => res = Failed \/ res >= since
=============================================================================
