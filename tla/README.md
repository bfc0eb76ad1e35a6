# A TLA+ model of warmor

warmor watches process, file and network activity (eBPF tracepoints and LSM
hooks on Linux, ETW on Windows, ESF on macOS), evaluates every event with a
policy compiled to WebAssembly, and allows, logs or denies it. A policy server
distributes policies to many such agents. This directory holds TLA+ modules that
model the parts of it where goroutines, kernel and server meet, TLC
configurations that check them on small instances, and proofs, checked by TLAPS,
that hold for all instances.

To check one model: `tlc -config DecisionCache.cfg DecisionCache`. To check one
set of proofs: `tlapm KernelPolicyProofs.tla`. `PROJECT.json` maps every
definition to the source lines it models.

## The system

An event's way through the Linux daemon, with the module for each part:

```
 task's system call
   | tracepoint (reports)      LSM hook (looks up policy_map, may refuse)   KernelPolicy (KernelEvents)
   v                            v
 ring buffers  -- one monitor goroutine each -->  eventChan                 LinuxPlatform
   v                                                                        (LinuxLoad, LinuxMonitors)
 Enforcer.handleEvent
   1. network filter, sandbox, learning mode                                EventPath (NetFilter)
   2. decision cache                                                        DecisionCache -> DecisionStore
   3. evaluator: borrow a WASM instance from the pool, evaluate, return it  PolicyLifecycle
   4. store the decision, compile it into policy_map, enforce (kill)        KernelPolicy
   5. emit to the streaming pipeline and its sinks                          Pipeline

 SIGHUP: ReloadPolicy builds, swaps, closes;  SIGTERM: Stop, Close          PolicyLifecycle

 policy server: policies, rollouts  <-- poll: assignment, then binary --  agents   PolicyServer
                agents' heartbeats, canary analysis                                ServerBooks
                                                                        (AgentRegistry, Canary)
```

On the other systems the enforcer is the same and the upper half differs:

```
 Windows: eBPF programs (two builds) -- ring buffer -- poller, parser --> eventChan   EBPFLoader (WindowsEvents)
          ETW sessions; Load, Start, Stop, Close of both                            WindowsPlatform
 macOS:   Endpoint Security -- handler, which answers AUTH messages --> eventChan   EndpointSecurity
```

### Inventory

State, operations and the difficult part of each component that is modelled.

| Component | State | Operations | What is hard |
|---|---|---|---|
| decision cache (`internal/cache`) | map of entries with expiry | Get, Put, Clear | expired entries stay in the map; eviction at the limit |
| policy generation (`internal/wasm`, `enforcer.go`) | evaluator pointer, pool channel, instances, runtime | Get, Put, Evaluate, ReloadPolicy, Stop, Close | the loop borrows from a pool that a reload closes |
| two-tier decision (`bpf/`, `policy_map.go`, `enforcer.go`, `actions.go`) | policy map, rings, cache | hooks, handleEvent, syncToPolicyMap, Enforce | each call is reported twice, in either order, through bounded rings and a bounded map, under two hash functions |
| event path (`enforcer.go`, `netfilter.go`, `sandbox.go`) | blocklist, windows, profiles | checks of handleEvent, AddCIDR, RemoveCIDR, CleanupStale, ApplySandbox ... | lists change between two checks of one event; boundaries of windows |
| Linux platform (`platform/linux.go`, `internal/ebpf`) | kernel objects, monitor goroutines, channel | Load, Start, monitors, Stop | any step of Load may be refused; Stop against blocked readers and a full channel |
| record layouts (`bpf/`, `internal/ebpf`, `platform/etw`) | C and Go structs, literal offsets | write, read back, convert addresses and ports | padding; two builds for one parser; byte order |
| Windows platform (`platform/windows.go`, `platform/etw`, `bpf-windows/`) | loaded object, ring buffer, poller, ETW sessions | Load, Start, programs, callback, Stop, Close | freeing what C code polls; a callback inside a poll that Stop waits for; sessions that outlive the process |
| macOS platform (`platform/darwin.go`, `platform/esf`) | ES client, global pointer, channel | Start, handler, answer, Stop | a process waits for the answer while the channel is full or the client stops |
| pipeline (`internal/streaming`) | channel, counters, batch | Emit, loop, ticker, Close | Emit against Close; failing sinks; draining |
| policy server (`internal/policyserver`) | store, rollouts, client versions | policy and rollout administration, two-request poll | changes between the requests, two locks, loss of all memory |
| agent registry, canary analyzer (`internal/policyserver`) | status and last heartbeat; counters and rollout | heartbeat, stale check; Configure, RecordDecision, Evaluate, Reset | late heartbeats; rates without samples; operator against analyzer |

`PROJECT.json` lists all 40 components, with those that are not modelled and
why, and the hazards found in the survey with the property that covers each.

## Modules

**DecisionStore, DecisionCache.** `DecisionStore` is what the cache promises the
event loop: a decision may be recalled until it is `TTL` old, never altered, and
may be forgotten at any time. `DecisionCache` is `cache.go`: entries with
`expiresAt`, `Get` that tests expiry and leaves the entry in place, `Put` with
`evictOldest`, `Clear`; `Tick` is the clock. `ImplementsStore` is the refinement;
an expired entry maps to a forgotten one.

**PolicyLifecycle.** The event loop (`LoopTake`, `Lookup`, `ReadEvaluator`,
`PoolGet`, `Evaluate`, `PoolPut`, `CachePut`, `Enforce`) interleaved with the
main goroutine: ReloadPolicy builds a generation (`NewRuntime`, `HostCallbacks`,
`LoadPolicy`, one `Instantiate` per pool member), each step of which may fail and
then releases what the earlier ones made (`CloseNewRuntime`, `PoolFails`,
`GiveUp`); it goes on with `ReloadSwaps`, `ReloadClears` and three closing steps;
then there are the steps of Stop and of Close. A generation is one runtime, pool
and evaluator. wazero's own Close calls are taken to succeed. Closing a closed
channel is a panic, and a panic ends both goroutines. What a policy computes is abstracted to the generation that
decided, or a failure.

**StructLayout.** Where the fields of a struct lie: aligned as a C compiler
places them, or one after the other as `packed` and Go's `encoding/binary` do.

**KernelEvents.** What the programs of `bpf/` read of a call, the structs they
report it in and the Go structs that read them, the hashes (16 bytes of a name as
signed chars; address and port; port alone), and `ToEvent` of each report. A name
is a model value, with its hook's view of it, its first 16 bytes and its hash as
constant functions; the hash is any function, so collisions are included.
Addresses are octets and ports numbers, because the code converts both and not
always the same way: the tracepoint's IPv4 address is read little-endian and
written big-endian, the hook's port is not converted at all.

**KernelPolicy.** `EnterExecve`, `EnterOpenat` and `EnterConnect` are the
tracepoints, `BprmCheck`, `FileOpen`, `SocketConnect`, `SocketBind`,
`SocketListen`, `PtraceAccess` and `SbMount` the LSM hooks, `HandleTraced` and
`HandleLSM` handleEvent on the head of either ring, with the cache, the
fail-closed denial, `syncToPolicyMap` and `Enforce`. The policy is any function
`Verdict`. Since the monitors keep each ring's order and no other, handling
either head is their merge. The filter of the LSM hooks, `lsmFilter`, is any part
of what `SetLSMCgroupFilter` stores in its order (`LSMFilters`), since Load only
warns when it fails; the tracepoints' `Filter` is complete, since Load fails
otherwise. Memory that a tracepoint leaves unwritten (the port
of a connect that is neither IPv4 nor IPv6) has any value of `StalePorts`.

**WindowsEvents, EBPFLoader, WindowsPlatform.** `WindowsEvents` has the records
of the two builds of the Windows programs (`etw/programs/` packs its structs,
`bpf-windows/` does not) and the loader's one parser, which slices at literal
offsets; reading across a field's border yields `"garbled"`. Times are left out:
the programs write nanoseconds since boot where `windowsTimestampToTime`
(`ebpf_loader.go:858`) expects a Windows file time, so there is no right value. `EBPFLoader` is the
programs, the ring buffer, `pollEvents` with `ringBufferCallback` (one `PollFinds`
per record, and `PollReturns` between any two), and the
enforcer's loop with `EBPFPolicyMap.SetRule`. `WindowsPlatform` adds Load with
its choice of mode, the calls of Start (each may fail), Stop and Close, the ETW
sessions, which belong to the system, and `Again`, a further life of the daemon
after an end at any point.

**EndpointSecurity.** The ES client: `Arrive` and `Deliver` are the framework;
`goEventHandler`, `handleEvent`, `RespondToAuthEvent` and `Answer` are the handler
in the steps between which Stop can run; `Unregister`, `CloseStopChan`, `Delete`
and `Forget` are Client.Stop. ES may refuse an answer, and refuses that to a
message whose type is in `Flagged` (AUTH_OPEN, for which it wants flags); the code
drops the error. `Drains` says whether `es_delete_client` waits for
a handler that is running, as the framework does.

**NetFilter, EventPath.** `NetFilter` is `netfilter.go`, with a network as the
set of its addresses and an address text as canonical or not. `EventPath` is
handleEvent up to the cache, one action per check, because each takes its own
lock; `FilterChanges`, `RegisterProfile`, `ApplySandbox` and `ReleaseSandbox` run
between them. A profile is a set of `Restrictions`: its two flags and its blocked
system calls. `always`, `lost` and `covered` record which reasons to deny held
during the whole handling, which ceased to, and whether there was one at every
moment.

**LinuxLoad, LinuxMonitors, LinuxPlatform.** `LinuxLoad` is `LinuxPlatform.Load`
with both loaders: nine steps of tracepoints, fifteen of LSM programs, the cgroup
filters and the enforce switch, each of which the kernel may refuse.
`LinuxMonitors` is the goroutine per ring buffer, the channel, and
`Enforcer.Stop`. `LinuxPlatform` runs them in sequence: `Start` creates the
monitors that Load made possible.

**Pipeline.** `Emit` in its three steps (check the flag, count, send), the loop
with its ticker, a webhook that batches and a syslog connection that does not,
and `Close` in its four steps, called as `Enforcer.Close` does after the event
loop has ended.

**PolicyServer.** Administrators (policies, rollouts), the server's answer in two
steps (`PollMatches` under the store's lock, `PollResolves` under the rollouts'),
the client's second request (`FetchWASM`), lost requests (`PollFails`) and
restarts of the server, which keeps everything in memory and counts versions from
1 again. `life` numbers the server's lives, and `origin` says from which one an
agent's version is. `Documented` restricts administrators to the workflow of
`docs/canary-rollout.md`: push the version, then create a rollout for it, and
delete nothing; the server may restart there too.

**AgentRegistry, Canary, ServerBooks.** Heartbeats on their way, the stale check
and restarts; the canary analyzer with the rollout it acts on. `ServerBooks`
composes them: the two have a lock each and share no variable, so every
behaviour of both together projects to one behaviour of each, and a property of
one cannot be affected by the other. A behaviour of `ServerBooks` therefore runs
one of them and leaves the other in its initial state, which makes the number of
states a sum and not a product. Rates are compared as exact fractions; a cohort
without samples has the rate NaN, of which no comparison is true. A negative
threshold, which `Configure` (`canary.go:54`) would accept, is outside the model.

**KernelPolicyMC, PolicyServerMC, WindowsMC** give the constant functions and
sets of those modules small values.

Operators whose comment begins "Mutant of" are plausible mistakes in the code.
Each property has one that breaks it; no specification uses them.

## Runs

| Run | States | Shows |
|---|---|---|
| `decision_cache` | 10,610 | capacity, eviction of what expires first, refinement of `DecisionStore` |
| `policy_lifecycle` | 223,986 | no instance lost, shared or used after its close; a reload that fails at any step leaves nothing; Stop ends unless platform.Stop or an evaluation does not |
| `kernel_policy` | 538,463 | kernel refusals and kills rest on denials that were judged; refusals stay within the cgroup filter however much of the hooks' own was stored; records and rules are read as they were written |
| `pipeline` | 62,957 | events accounted for, in order, drained by Close; Emit never sends on the closed channel; Close ends unless a write does not |
| `policy_server` | 198,705 | with deletions, arbitrary targets and restarts no agent goes back to an older version or binary |
| `policy_server_catchup` | 46,278 | documented workflow, two rollouts, lost requests, restarts: versions are honest within a life of the server, and agents catch up unless they hold a version of an earlier one that has not been passed |
| `event_path` | 656,018 | no event slips between the checks while they change; the limiter's promises |
| `server_books` | 160,101 | a status is earned, a stopped agent noticed; rollbacks on evidence, and what was rolled back stays so |
| `linux_platform` | 197,787 | what a successful Load grants; no event skipped before the stop; Stop returns while events come |
| `windows` | 145,826 | the ring buffer is not polled after its release; records counted; events name the process they report, with either build; sessions released; Stop returns although the programs go on |
| `endpoint_security` | 66,760 | an AUTH message is given its answer while the client is registered, and is settled in any case, if only by a refusal |
| `policy_lifecycle_reload` | | *violated*: a successful reload ends the process |

Each module's type invariant (`TypeOK`, `CacheTypeOK`, `BooksTypeOK`,
`PlatformTypeOK`, `WindowsTypeOK`), `LossCounted` of Pipeline and `StopReturns` of EndpointSecurity
hold in the same instances; they are checked by adding them to the module's
configuration, and the runs list only what says more.

Some properties say less than their names may suggest:

- `KernelDenyJustified` asks that a denial was judged for the key the hook looked
  up. That another name shares the key, or that the denial stood in for a failed
  evaluation, it allows.
- `NoSendAfterClose` rests on `Enforcer.Close` closing the pipeline after the event
  loop has ended; `Emit` itself would not prevent the panic.
- `InstancesAccounted` speaks of open pools. What happens to an instance borrowed
  from a pool that was closed is the subject of `NoUseAfterClose`.
- `NeverGoesBack` holds of an agent that is stuck as well. That agents get on is
  `CaughtUp`, which excepts those that hold a version from before a restart that
  the store has not passed (`Overtaken`): the server tells them that nothing
  changed.
- `NoWayPast` excepts a profile lifted under way. If the address is blocked after
  the blocklist was asked and the profile released before the sandbox is, the
  event gets past, although something spoke against it at every moment.
- `LoadGranted` says nothing of the LSM hooks' cgroup filter, whose failure is
  only a warning; what follows from that is in `ScopeRespected`. A task outside
  the filter may then be judged, and killed, on the hooks' reports if not even the
  sentinel was stored.
- `EventTrue` allows an event without a subject, and there is no other on Windows.
- `SessionsReleased` excepts what a crashed daemon left behind: nothing in the code
  could stop it.

### Bounds, and why they are enough

- `decision_cache`: three keys for two places, so eviction has a choice and a
  loser; `TTL` 2 and a clock to 4, so an entry can expire, stay, be evicted or
  replaced, and another can outlive it.
- `policy_lifecycle`: two instances (one borrowed, one in the channel), two
  events (a cache hit and a miss), two reloads (one may fail and one follow), so
  a pool can fail empty and half filled.
- `kernel_policy`: two tasks in two cgroups, one inside the filter; six
  workloads that between them make calls of all seven kinds, with two names that
  share 16 bytes, of which the policy logs one and denies the other for audit,
  and addresses of both families and of neither; small rings and a map of one
  rule, so both overflow. With an empty LSM filter, where the second task's hooks
  report too, `MCSpec` takes the workloads in which each task makes one call only.
- `pipeline`: a buffer of 2, batches of 3 and five events: the buffer
  overflows, a batch fills, and a partial one is left for the ticker and Close.
- `policy_server`: one agent that both policies select, one rollout, three
  binaries: update, deletion and re-creation fit between two requests.
  `policy_server_catchup`: two rollouts of one policy, percentages on both sides
  of the agent's bucket.
- `event_path`: one process, a limit of 2 and a window of one tick, so that a
  burst can straddle two windows and three connections get through; two
  overlapping networks, one of them possibly listed twice; one name whose profile,
  of flags or of blocked calls, may be replaced after use.
- `server_books`: two agents, threshold 2, two heartbeats on their way; the age
  of a heartbeat stops counting beyond the last threshold, so time is unbounded.
  The canary has up to two samples per cohort, minimum 0 or 2, window 0 or 1,
  two thresholds.
- `linux_platform`: all flags, all refused steps; of the running monitors one
  tracepoint monitor and the LSM monitor (the three tracepoint monitors are
  alike and are loaded all or none); a ring and a channel of one place, so each
  fills. Events are numbered up to 2; later ones are alike.

- `windows`: six machines (with and without driver, libbpf API, combined object,
  either build); one process; a ring and a channel of one place, so each
  overflows; counters of one bit for 64, so that they wrap while the programs
  report without end; two lives, so that sessions of the first meet the second.
- `endpoint_security`: two messages and a channel of one place, so that one
  finds it full or finds the handler busy. Three messages (2,144,683 states) were
  checked once, with the same result.

Deadlock is checked except in `linux_platform`, `windows` and
`endpoint_security`, where a failed Load and a stopped platform are final. `PolicyLifecycle` and `Pipeline`
have an explicit final step instead.

### Fairness

- `PolicyLifecycle`: the event loop and the waiting Stop are scheduled (weak). No
  signal and no event is ever required. Neither platform.Stop (`StopPlatform`)
  nor an evaluation need return, so `StopCompletes` names both; `LinuxMonitors`
  looks inside the former, and shows that it does return when events come and
  does not when none do.
- `Pipeline`: both goroutines run, and the event loop ends when asked (strong,
  since it is asked repeatedly between events). `Process` need not end, because
  a syslog write has no deadline (`siem.go:130`); `CloseEnds` allows for it.
- `PolicyServer`: tickers fire (weak); of infinitely many requests one gets
  through (strong). Administrators owe nothing, and nothing makes an agent register
  (again): `CaughtUp` is conditional on the rollouts being over and on the agent
  being registered from some point on.
- `AgentRegistry`: time passes, the ticker fires, a request arrives or is lost.
- `WindowsPlatform`: Stop, the poller and the end of the loop are scheduled
  (weak). A poll returns sooner or later, also when the programs keep the ring
  buffer from being empty (strong): it is called with a timeout
  (`ebpf_loader.go:478`). Were it to return only once it has caught up, Stop would
  need a pause of the programs. The loop owes no event handling.
- `EndpointSecurity`: the framework calls the handler while the client lives, and
  the handler, Stop and the loop's end are scheduled (weak). Nothing is asked of
  the loop that empties the channel.
- `LinuxMonitors`, `LinuxPlatform`: goroutines run (weak); a `select` with
  several ready cases picks each of them sooner or later (strong), as Go's random
  choice does. The kernel owes events only when `Busy`.

## Proofs

| Module | Theorems |
|---|---|
| `PolicyLifecycleProofs` | `PoolAccounted`, `NeverUsedAfterClose`, `FailedReloadLeavesNothing` |
| `LayoutProofs` | `AlignedLayout`, `PackedLayout` |
| `KernelPolicyProofs` | `KernelDenialsJustified`, `KillsJustified`, `FilterRespected`; `StructsAgree`, `NothingMisread`; `CacheSafe`, `CacheEvictsOnlyOldest`, `CacheImplementsStore` |
| `ReportingProofs` | `PipelineAccounts`, `CloseLeavesNothing`, `NeverSendsOnClosed`, `SinksInOrder`; `SilenceIsReal`, `RollbacksHaveEvidence`, `RollbacksHold` |
| `PolicyServerProofs` | `VersionsHonest`, `AgentsNeverGoBack` |
| `EventPathProofs` | `NobodyGetsPast`, `RefusalsHaveEvidence`, `BurstsAreBounded` |
| `WindowsProofs` | `RingIsHeld`, `ReceivedIsAccounted`, `SessionsAreReleased`; `ParsedAs`, `OffsetsRight`; `EventsAreTrue`, `NothingIsPushed` |
| `PlatformProofs` | `LoadGetsWhatItAsks`, `PostureIsTrue`, `EveryRingIsRead`, `NoEventIsSkipped`; `AuthIsAnswered` |

Every safety property, every action property and the refinement that a passing
run checks is stated by a theorem. The theorems hold for every value of the
constants that satisfies the `ASSUME` of the module: positive capacities, and
functions of the right type. The clock and count bounds are constants too, so
the theorems hold for any of them.

*Cache.* The proofs are in `KernelPolicyProofs`, since `KernelPolicy` forgets cached
decisions as this cache does. The inductive invariant `CacheInv` adds to the capacity bound that the
domain is finite, without which `Cardinality` says nothing, and that no entry
expires later than `now + TTL`, which the refinement needs: the age of an entry
is `TTL` minus what is left. Each step of the cache is then matched with one of
the store: `Put` forgets what it evicts, `Tick` forgets what expires.

*Policy generations.* `NoUseAfterClose` is not inductive. `Bookkeeping` adds that
instances in a pool's channel are open and not the borrowed one, so that draining
cannot close what the loop holds, and that no runtime the loop can hold is ever
closed. The last conjunct depends on a fact a reader should know: the second
close of the pool panics before `oldRuntime.Close` is reached (see the first
disagreement below). Without that panic the runtime would be closed under an
instance still borrowed, and the proof, like the run, would fail: a repair of the
double close has to wait for the borrowed instance as well. `Construction` says
that the instances of a generation being built are exactly those in its channel,
so that whichever step fails, its error path finds all of them and no other's.

*Two tiers.* `DenialsJudged` says that every denial at rest, in the policy map or
in the cache, was judged earlier; hooks and handleEvent act on what is at rest
any time later. Each ring holds only reports of tasks its own filter lets by
(`Scoped`), and only the tracepoints' reports are compiled, so every rule is for a
cgroup in their filter (`RulesInScope`): that is why a hook whose own filter is
missing still refuses nobody outside.

*Struct layouts.* `Aligned` (what a C compiler does) and `Packed` (what
`encoding/binary` reads) are recursive functions on the fields. A recursive
definition says nothing before its equation is known to have a solution, and the
library's theorem for this takes an operator, so `LayoutProofs` shows it by hand:
`UpTo` and `FromOne` are induction for a set of numbers, from the well-foundedness
of the order, and `AlignedRecursion` and `PackedRecursion` build a solution up to
each field. From there `AlignedLayout` and `PackedLayout` hold for any struct: each
layout is the only one of its kind, and no two fields share a byte. A concrete
layout is then proved by writing its offsets down and showing them aligned, or
packed. `GapSpeltOut` and `NoGap` compare a C struct with the Go struct that reads
it: the same fields, with the compiler's gap spelt out as a field in Go. The result
`StructsAgree` is about constants; `NothingMisread` is the invariant of the run.

*Pipeline.* `Phases` relates emitter, loop and Close: the channel is closed only
after the emitter has ended, the loop exits only on an empty closed channel, the
sinks are closed only after the loop. `InOrder` speaks of what the sinks have
received; `Stream` extends it to what is still under way. Delivered events, the
batch, the channel and the event in the emitter's hand are each increasing, and
each part lies before the next, so that neither a flush nor a dropped event can
put a later number in front of an earlier one.

*Policy server.* `IInv` adds `PollsAhead` (a fetch under way is for a version
above the agent's, nothing an agent holds is newer than the store's, and all the
store has is of the present life of the server) and, for the documented workflow,
`VersionsKnown` (rollouts, matches, and assignments of this life never name a
version that the store has not reached). `NeverGoesBack` is then an action
property of every step.

*Event path.* `Inv` says that an event beyond the blocklist check was not blocked
all the time, that its profile speaks against it if something did at every moment
and the profile was not lifted (`StillConfined`), and that nothing is decided
before the end.

*Rate limiter.* The limiter keeps one counter and one start time per process,
while both promises are about connections of the last window's length.
`LimiterInv` ties the two, with the ages of the attempts and of what was let
through, newest first: as many attempts as the counter says are no older than the
live window; what was let through before that window opened is at most `Limit`;
without a live window nothing was let through since the last tick. A refusal then
has `Limit` attempts within the window, and every stretch of one window holds less
than two limits of connections. When time passes, what leaves the window is a
suffix of each list; to cut it off, the module proves that a nonempty set of
naturals has a least element (`Least`).

*Registry and canary.* `RegistryInv` is `StatusMeansSilence` with the types:
every status that the registry shows is a statement about the age of the last
heartbeat, which the stale check, heartbeats and restarts all keep. For the
canary the types are enough, together with the fact that counts of denials never
exceed those of decisions; `RatesDiffer` is the arithmetic of the threshold,
multiplied out: a rate that exceeds the other by a non-negative threshold has a
positive numerator. `RollbackHolds` goes action by action: only Evaluate notes a
rollback, in the step that aborts, and only CreateRollout makes a rollout active.

*Linux platform.* `LoadInv` says, for each step at which Load can be, what has
been granted so far and that whoever is refused has undone its own part; from it
follow `LoadGranted` and `PostureMatchesPrograms`. `Begun` joins Load and the
monitors: nothing is read before Start, and until the stop exactly the LSM
monitor without programs is missing. `Linked` is the invariant behind
`NothingSkipped`: for each monitor there is a numbering of the channel that
begins with what the enforcer handled last and goes up by one with each entry of
this monitor; the event in the monitor's hand follows the channel, and the ring
buffer follows the hand. Every action lengthens or shortens one of the three
parts at an end, which the lemmas `RingGrows`, `RingShrinks`, `ChanGrows` and
`ChanShrinks` state for sequences.

*Windows.* `RingInv` relates the main goroutine and the poller: a poller that
polls has a ring buffer, hence an object; both go only when Stop has seen it
done. `CountInv` keeps the counts in range and says that what became of the
records differs from what was received by a whole number of turns of the
counters, which each step changes by -1, 0 or 1. `SessionInv` says that every session in the
system was left over or has a handle, and not both, and that a handle exists only
once the consumer runs, because Start calls it first; so `Consumer.Stop`, which
does nothing for a consumer that does not run, stops them all.

*Windows events.* `OnePlace` says that a byte of a record belongs to one field, so
a read at a literal offset yields the field there, or nothing (`ReadField`).
Record by record and build by build this gives `ParsedAs`: the parser finds the kind
and the process of every operation, and never what the operation was about. A packed
record is shorter than `unsafe.Sizeof` of its Go struct, so the details are not looked
for; in an aligned record they are read at offsets that miss them. `EventInv` carries
this to the channel, together with its consequence, that the policy map stays empty:
`syncToPolicyMap` does nothing for an event without a path or an address. So
`NothingIsPushed` holds for every policy: on Windows the kernel is never told of a
denial.

*macOS.* `IInv` of `PlatformProofs` says that before the client is
unregistered the global pointer, the client and an open stop channel are there,
so that none of the handler's early returns can be taken for an AUTH message, and
that a running handler holds exactly one message.

### Only model-checked

Liveness (`StopCompletes`, `CloseEnds`, `CaughtUp`, `SilenceNoticed`,
`StopReturnsBusy`, `StopReturns`, `AuthSettled`) needs fairness and `ENABLED`, which
TLAPS does not handle.

## Where documents and code disagree

The run `policy_lifecycle_reload` shows one, with TLC's counterexample: README.md:92
promises "SIGHUP to swap policies without restart or downtime". `ReloadPolicy`
closes the old evaluator, which closes the old pool, and then the old pool again;
closing a closed channel panics, so a successful reload ends the daemon
(`enforcer.go:574`, `pool.go:103`).

Others have a configuration in this directory and the property in the module;
each is violated. Three configurations hold several such properties: `tlc -continue`
reports all of them.

| Configuration (module) | Property | The text | The code |
|---|---|---|---|
| `DecisionCacheLRU` (DecisionCache) | `EvictsLeastRecentlyUsed` | docs/architecture.md:161 "LRU cache with TTL" | `evictOldest` goes by `ExpiresAt`, which Get never moves |
| `PolicyLifecycleSwap` (PolicyLifecycle) | `SwapIsAtomic` | docs/PRD.md:325 "Atomic policy swap" | a decision of the old policy may be cached after the swap and the clear |
| `KernelPolicyAudit` (KernelPolicyMC) | `AuditNotEnforced` | docs/SECURITY_POSTURE.md:44 "logged ... but not enforced" | the kernel switch ignores audit mode |
| `KernelPolicyHash` (KernelPolicyMC) | `RuleIsFound` | `policy_map.go:63` "matching the BPF-side implementation" | user space hashes the whole name or the text of an address, the hooks 16 bytes of a name or the bytes of address and port |
| `KernelPolicyMiss` (KernelPolicyMC) | `MissIsCompiled` | docs/architecture.md:483 "On MISS: userspace WASM evaluates → writes result back to policy_map" | events from LSM hooks are not compiled (`enforcer.go:396`) |
| `PolicyServerOther` (PolicyServerMC) | `NotModifiedIsRunning` | `server.go:196` "if agent already has this version, return 304" | version numbers of different policies are compared |
| `PolicyServerAbort` (PolicyServerMC) | `AbortReverts` | docs/canary-rollout.md:86 "Reverts all agents to the baseline policy version" | only the status changes, and clients ignore lower versions |
| `PolicyServerBaseline` (PolicyServerMC) | `BaselineStays` | docs/canary-rollout.md:7, canary and baseline cohorts | agents outside the cohort get the policy's own, new, version |
| `CanaryWindow` (Canary) | `ObservedSinceStart` | docs/canary-rollout.md:93 "since rollout start" | the window starts with the first Configure or RecordDecision |
| `LinuxLoadDocs` (LinuxLoad) | `PostureHonest` | docs/SECURITY_POSTURE.md:47 "so the active mode is unambiguous in logs" | the line goes by the flag, also when SetEnforceMode failed |
| `LinuxLoadDocs` (LinuxLoad) | `RequireRefuses` | docs/SECURITY_POSTURE.md:72 "Fail to start unless LSM enforcement loads" | SkipLSM is looked at first |
| `LinuxLoadDocs` (LinuxLoad) | `LoadNeverPanics` | `lsm_loader.go:403-408` "guard the pointer value" | `Loader.Close` (`loader.go:229`) calls Close on nil objects of monitors not reached |
| `LinuxMonitorsQuiet` (LinuxMonitors) | `StopReturns` | docs/PRD.md:492 "Handle graceful shutdown" | a monitor blocked in a ring buffer's Read sees neither context nor stopChan, and the readers are closed only after Stop (`linux.go:410`) |
| `WindowsDocs` (WindowsMC) | `NoPanic` | `interface.go:23` "Close cleans up resources", after Stop | both close the loader's stopChan, so Close panics when eBPF is loaded (`ebpf_loader.go:805`) |
| `WindowsDocs` (WindowsMC) | `SessionsRead` | `consumer.go:98` "Call Enable*Monitoring() before this." | `WindowsPlatform.Start` enables the sessions afterwards, and no trace of them is opened |
| `WindowsDocs` (WindowsMC) | `DenialPushed` | `warmor_common.h:130` "key = PID" | the key is the event's cgroup id, 0 on Windows; and no record passes the parser with a subject (below), so nothing is pushed |
| `EndpointSecurityDelete` (EndpointSecurity) | `AnswersLiveClient` | `client.go:155` `c.wg.Wait()` | nothing is ever added to `wg`; without the framework's own waiting a handler would answer through a deleted client |
| `EndpointSecurityDelete` (EndpointSecurity) | `NoneRefused` | `client.go:292` "For AUTH events, respond with ALLOW" | ES may refuse the answer, and for AUTH_OPEN, which needs `es_respond_flags_result`, does; the error is dropped (`client.go:294`) |
| `NetFilterRemove` (NetFilter) | `RemoveRemoves` | `netfilter.go:124` "RemoveCIDR removes a CIDR from the blocklist" | texts are compared, so another spelling, or a second entry, stays |
| `EventPathReadOnly` (EventPath) | `SandboxedForReason` | `sandbox.go:19` "restrict to read-only" | every file event counts as a write (`enforcer.go:596`) |

Two more facts came out of the models and have no document to disagree with. The
Windows parser compares a record's length with that of the aligned Go struct, so
records of the packed build are too short for it (796, 540 and 68 bytes against
800, 544 and 72); those of the aligned build are long enough and are read four
bytes off. Either way an event says whose it is and not what it is about, which
`EventTrue` allows and `ParsedAs` proves; the timestamp of an aligned record is
read four bytes early as well (`OffsetsRight`). On macOS the answer to an AUTH message is always ALLOW
(`client.go:292`); what the enforcer decides comes later and can only kill.

## Not modelled

- What a WASM policy or one of the Rust policies computes (any function, in the
  models); the policy compiler; encodings of events for WASM.
- Certificates, tokens, signatures, metrics, logging, generated bindings, test
  programs and command-line clients.
- `bpf/vmlinux.h`: 56,559 generated lines of kernel type declarations, 97% of the
  C in the repository, without behaviour. Of the other 1,662 lines of C, 1,209 are
  mapped to definitions; the rest are includes, declarations of helpers,
  licences and `bridge.c`.
- `platform/esf/bridge.c`: nothing calls it; `client.go` calls the framework
  directly.
- The ETW callback and its record parsers: not reached (`SessionsRead` above).
  The detection of the eBPF driver (a yes or no in `Machines`), the Windows
  sandbox and the service wrapper.
- Process lineage: `RecordExec` is always called with parent 0 (`enforcer.go:283`)
  and `RecordExit` never, so there is no tree to state properties of.
- Drift and escape detection, attack graph, blast radius, dashboard, container
  scoping, temporal policies and patterns: libraries that neither the daemon nor
  the server calls. How they would be called, and from which goroutines, is what
  a model of them would have to know.
- Policy merge, diff, bundles, generation, integrity scan, simulator and learner:
  separate programs that read their input, compute and exit.
- Rotation of the file sink (a sink that may fail, in `Pipeline`) and the container
  bindings of the policy server (a lookup table no decision reads).
- Assumed of the environment: stopping an ETW session succeeds; the Endpoint
  Security framework lets waiting processes go when their client is deleted.
