-------------------------- MODULE KernelPolicyProofs --------------------------
(***************************************************************************)
(* For all tasks, calls, cgroups, policies, hash functions, ring and map   *)
(* sizes: what the kernel refuses and user space kills for rests on a      *)
(* denial user space reached, and what the kernel refuses stays within the *)
(* cgroup filter, whether or not the LSM's own filter could be stored.     *)
(*                                                                         *)
(* Every struct that crosses the boundary to the kernel is read at the     *)
(* bytes it was written to.                                                *)
(*                                                                         *)
(* The cache of those decisions (DecisionCache), for every set of keys and *)
(* results, every capacity and every time to live: it is type correct,     *)
(* never exceeds its capacity, evicts only what expires first, and         *)
(* implements DecisionStore.                                               *)
(***************************************************************************)
EXTENDS KernelPolicy, DecisionCache, LayoutProofs, FiniteSetTheorems

\* What a ring may hold: reports of tasks its writers' filter lets by.
Scoped(filter, lsm) ==
  [task : {t \in Tasks : InScope(filter, Cgroup[t])}, rec : Records,
   lsm : {lsm}, miss : BOOLEAN]
Traces == Scoped(Filter, FALSE)
Hooks == Scoped(lsmFilter, TRUE)
Seen(t) == InScope(Filter, Cgroup[t]) \/ InScope(lsmFilter, Cgroup[t])

\* Every rule is for the cgroup of a task the tracepoints report, because only
\* their reports are compiled.  That is what keeps the hooks from refusing
\* calls of other tasks when their own filter is not there.
RulesInScope ==
  \A k \in DOMAIN rules :
    \E t \in Tasks : k[1] = Cgroup[t] /\ InScope(Filter, Cgroup[t])

\* Every denial at rest, in the policy map or in the cache, was judged: the
\* hooks act on the one, handleEvent on the other, any time later.
DenialsJudged ==
  /\ \A k \in DOMAIN rules : rules[k].act = "deny" =>
       \E j \in denied : UserKey(Cgroup[j[1]], j[2], j[3]) = k
  /\ \A k \in DOMAIN cache : cache[k].act = "deny" =>
       <<k[1], k[2], k[3], cache[k].audit>> \in denied
  /\ \A k \in DOMAIN cache : cache[k].audit \in BOOLEAN

KInv ==
  /\ tpRing \in Seq(Traces) /\ lsmRing \in Seq(Hooks)
  /\ calls \in Workloads /\ lsmFilter \in LSMFilters
  /\ \A t \in Tasks : pc[t] = "hook" => att[t] \in Attempts
  /\ DOMAIN att = Tasks /\ DOMAIN pc = Tasks
  /\ DenialsJudged /\ RulesInScope
  /\ KernelDenyJustified /\ KillJustified
  /\ refused # << >> =>
       refused[1] \in Tasks /\ InScope(Filter, Cgroup[refused[1]])
  /\ killed # << >> => killed[1] \in Tasks /\ Seen(killed[1])

LEMMA KernelInit == Init => KInv
  BY DEF Init, KInv, DenialsJudged, RulesInScope, KernelDenyJustified,
     KillJustified

\* Judging one event of either ring.
LEMMA JudgeStep ==
  ASSUME KInv, NEW e \in Traces \cup Hooks, Judge(e), UNCHANGED given
  PROVE  /\ DenialsJudged' /\ KernelDenyJustified' /\ KillJustified'
         /\ RulesInScope' /\ refused' = refused
         /\ killed' # << >> => killed'[1] \in Tasks /\ Seen(killed'[1])
         /\ \A t \in Tasks : pc'[t] = "hook" => att'[t] \in Attempts
         /\ DOMAIN att' = Tasks /\ DOMAIN pc' = Tasks
<1>e. /\ e.task \in Tasks /\ Seen(e.task)
      /\ ~e.lsm => InScope(Filter, Cgroup[e.task])
  <2>1. CASE e \in Traces
    BY <2>1, Zenon DEF Traces, Scoped, Seen
  <2>2. CASE e \in Hooks
    BY <2>2, Zenon DEF Hooks, Scoped, Seen
  <2>3. QED
    BY <2>1, <2>2, Zenon
<1>k. /\ CacheKey(e)[1] = e.task
      /\ CacheKey(e)[2] = KindOf(e)
      /\ CacheKey(e)[3] = SubjectOf(e)
      /\ CacheKey(e) # << >>
  BY DEF CacheKey
<1>0. ASSUME NEW d, Enforce(e, d)
      PROVE  /\ \A t \in Tasks : pc'[t] = "hook" => att'[t] \in Attempts
             /\ DOMAIN att' = Tasks /\ DOMAIN pc' = Tasks
             /\ killed' = killed \/ (Kills(d) /\ killed' = CacheKey(e))
  BY <1>0, <1>e DEF Enforce, KInv
<1>1. CASE JudgeCached(e)
  <2>d. DEFINE d == cache[CacheKey(e)]
  <2>1. /\ CacheKey(e) \in DOMAIN cache /\ Enforce(e, d)
        /\ UNCHANGED <<rules, cache, denied, refused>>
    BY <1>1 DEF JudgeCached
  <2>2. d.act = "deny" =>
          /\ <<CacheKey(e)[1], CacheKey(e)[2], CacheKey(e)[3], d.audit>>
               \in denied
          /\ d.audit \in BOOLEAN
    BY <2>1, SMTT(30), Z3T(30) DEF KInv, DenialsJudged
  <2>3. DenialsJudged' /\ KernelDenyJustified'
    BY <2>1 DEF KInv, DenialsJudged, KernelDenyJustified
  <2>4. Kills(d) => /\ ~AuditMode
                    /\ <<CacheKey(e)[1], CacheKey(e)[2], CacheKey(e)[3],
                         FALSE>> \in denied
    BY <2>2, Zenon DEF Kills
  <2>5. KillJustified'
    BY <2>1, <2>4, <1>0, Zenon DEF KInv, KillJustified
  <2>6. RulesInScope'
    BY <2>1, ZenonT(60) DEF KInv, RulesInScope
  <2>7. QED
    BY <2>1, <2>3, <2>5, <2>6, <1>0, <1>e, <1>k DEF KInv
<1>2. ASSUME NEW d, JudgeNew(e, d), d.audit \in BOOLEAN
      PROVE  /\ DenialsJudged' /\ KernelDenyJustified' /\ KillJustified'
             /\ RulesInScope' /\ refused' = refused /\ Enforce(e, d)
  <2>j. DEFINE j == <<e.task, KindOf(e), SubjectOf(e),
                      Marked(d).audit>>
  <2>1. /\ Enforce(e, d) /\ refused' = refused /\ denied \subseteq denied'
        /\ d.act = "deny" => j \in denied'
        /\ cache' = Updated(cache, CacheKey(e), Marked(d))
        /\ rules' = IF e.lsm THEN rules ELSE Synced(e, d)
    BY <1>2 DEF JudgeNew
  <2>m. /\ Marked(d).act = d.act /\ Marked(d).audit \in BOOLEAN
        /\ ~AuditMode => Marked(d).audit = d.audit
    BY <1>2 DEF Marked
  <2>2. \A k \in DOMAIN cache' : cache'[k].act = "deny" =>
          <<k[1], k[2], k[3], cache'[k].audit>> \in denied'
    BY <2>1, <2>m, <1>k, Zenon DEF Updated, KInv, DenialsJudged
  <2>a. \A k \in DOMAIN cache' : cache'[k].audit \in BOOLEAN
    BY <2>1, <2>m DEF Updated, KInv, DenialsJudged
  <2>3. \A k \in DOMAIN rules' : rules'[k].act = "deny" =>
          \E i \in denied' : UserKey(Cgroup[i[1]], i[2], i[3]) = k
    <3>k. DEFINE key == UserKey(Cgroup[e.task], KindOf(e),
                                SubjectOf(e))
    <3>1. j[1] = e.task /\ j[2] = KindOf(e) /\ j[3] = SubjectOf(e)
      OBVIOUS
    <3>2. UserKey(Cgroup[j[1]], j[2], j[3]) = key
      BY <3>1
    <3>3. ASSUME NEW k \in DOMAIN rules', rules'[k].act = "deny"
          PROVE  \/ k \in DOMAIN rules /\ rules[k].act = "deny"
                 \/ k = key /\ d.act = "deny"
      BY <2>1, <3>3 DEF Synced, Updated, RuleAction
    <3>4. QED
      BY <3>2, <3>3, <2>1 DEF KInv, DenialsJudged
  <2>4. KernelDenyJustified'
    BY <2>1 DEF KInv, KernelDenyJustified
  <2>5. Kills(d) => ~AuditMode /\ j \in denied'
                    /\ Marked(d).audit = FALSE
    BY <2>1, <2>m, <1>2 DEF Kills
  <2>6. KillJustified'
    BY <2>1, <2>5, <1>0, <1>k, Zenon DEF KInv, KillJustified
  <2>r. RulesInScope'
    <3>1. ASSUME NEW k \in DOMAIN rules'
          PROVE  \/ k \in DOMAIN rules
                 \/ /\ k = UserKey(Cgroup[e.task], KindOf(e), SubjectOf(e))
                    /\ ~e.lsm
      BY <2>1, <3>1 DEF Synced, Updated
    <3>2. UserKey(Cgroup[e.task], KindOf(e), SubjectOf(e))[1] = Cgroup[e.task]
      BY DEF UserKey
    <3>3. QED
      BY <3>1, <3>2, <1>e DEF KInv, RulesInScope
  <2>7. QED
    BY <2>1, <2>2, <2>a, <2>3, <2>4, <2>6, <2>r DEF DenialsJudged
<1>3. Evaluated(e).audit \in BOOLEAN /\ FailClosed.audit \in BOOLEAN
  BY DEF Evaluated, FailClosed
<1>4. ASSUME NEW d \in {Evaluated(e), FailClosed}, JudgeNew(e, d)
      PROVE  /\ DenialsJudged' /\ KernelDenyJustified' /\ KillJustified'
             /\ RulesInScope' /\ refused' = refused /\ Enforce(e, d)
  BY <1>2, <1>3, <1>4
<1>5. CASE \E d \in {Evaluated(e), FailClosed} : JudgeNew(e, d)
  BY <1>0, <1>4, <1>5, <1>e, <1>k DEF KInv
<1>6. QED
  BY <1>1, <1>5 DEF Judge

\* Emitting a report of a task in scope keeps a ring's reports in scope.
LEMMA EmitKeeps ==
  ASSUME NEW R, NEW ring \in Seq(R), NEW e \in R
  PROVE  Emit(ring, e) \in Seq(R)
  BY DEF Emit

\* A tracepoint reports tasks in scope only.
LEMMA TraceKeeps ==
  ASSUME NEW t \in Tasks, NEW r \in Records, Trace(t, r),
         tpRing \in Seq(Traces)
  PROVE  tpRing' \in Seq(Traces)
<1>1. CASE InScope(Filter, Cgroup[t])
  <2>1. Report(t, r, FALSE, FALSE) \in Traces
    BY <1>1 DEF Report, Traces, Scoped
  <2>2. QED
    BY <2>1, <1>1, EmitKeeps, Zenon DEF Trace
<1>2. CASE ~InScope(Filter, Cgroup[t])
  BY <1>2 DEF Trace
<1>3. QED
  BY <1>1, <1>2

\* The end of a hook: what it refuses rests on a rule, and so on a denial.
LEMMA DecideStep ==
  ASSUME KInv, NEW t \in Tasks, pc[t] = "hook",
         InScope(lsmFilter, Cgroup[t]), Decide(t, att[t])
  PROVE  KInv'
<1>d. DEFINE a == att[t]
             hash == HookHash(a)
             val == Lookup(Cgroup[t], hash, a.type)
             rep == Report(t, HookRecord(a), TRUE, val.act = "none")
<1>1. /\ UNCHANGED <<calls, lsmFilter, tpRing, rules, cache, denied, killed>>
      /\ pc' = [pc EXCEPT ![t] = "idle"]
      /\ att' = [att EXCEPT ![t] = NoCall]
      /\ a \in Attempts
  BY SMTT(30), Z3T(30) DEF Decide, Leave, user, given, KInv
<1>2. /\ lsmRing' = lsmRing \/ lsmRing' = Emit(lsmRing, rep)
      /\ \/ refused' = refused
         \/ /\ refused' = <<t, hash, a.type>>
            /\ val.act = "deny" /\ LSMEnforce
  BY Zenon DEF Decide
<1>3. rep \in Hooks
  BY <1>1 DEF Report, Hooks, Scoped, Records
<1>4. lsmRing' \in Seq(Hooks)
  BY <1>2, <1>3, EmitKeeps, Zenon DEF KInv
<1>5. val.act = "deny" =>
        \E j \in denied : UserKey(Cgroup[j[1]], j[2], j[3])
            \in {<<Cgroup[t], hash, a.type>>, <<0, hash, a.type>>}
  BY DEF Lookup, KInv, DenialsJudged
<1>6. KernelDenyJustified'
  <2>1. CASE refused' = refused
    BY <1>1, <2>1, Zenon DEF KInv, KernelDenyJustified
  <2>2. CASE refused' = <<t, hash, a.type>> /\ val.act = "deny" /\ LSMEnforce
    <3>1. refused'[1] = t /\ refused'[2] = hash /\ refused'[3] = a.type
      BY <2>2
    <3> HIDE DEF a, hash, val
    <3>2. QED
      BY <1>1, <1>5, <2>2, <3>1, Zenon DEF KernelDenyJustified
  <2>3. QED
    BY <1>2, <2>1, <2>2, Zenon
<1>7. refused' # << >> => refused'[1] \in Tasks
                          /\ InScope(Filter, Cgroup[refused'[1]])
  <2>1. val.act = "deny" => \/ <<Cgroup[t], hash, a.type>> \in DOMAIN rules
                            \/ <<0, hash, a.type>> \in DOMAIN rules
    BY DEF Lookup
  <2>2. \A u \in Tasks : Cgroup[u] # 0
    BY CgroupAssumption
  <2>3. val.act = "deny" => InScope(Filter, Cgroup[t])
    BY <2>1, <2>2 DEF KInv, RulesInScope
  <2>4. QED
    BY <1>2, <2>3 DEF KInv
<1>8. Hooks' = Hooks /\ Traces' = Traces /\ \A u : Seen(u)' = Seen(u)
  BY <1>1, Zenon DEF Hooks, Traces, Scoped, Seen
<1>9. DenialsJudged' /\ RulesInScope' /\ KillJustified'
  BY <1>1, Zenon DEF KInv, DenialsJudged, RulesInScope, KillJustified
<1>10. QED
  BY <1>1, <1>4, <1>6, <1>7, <1>8, <1>9 DEF KInv

LEMMA KernelStep == KInv /\ [Next]_vars => KInv'
<1> SUFFICES ASSUME KInv, [Next]_vars PROVE KInv'
  OBVIOUS
<1>f. /\ Filter' = Filter
      /\ UNCHANGED given => /\ Hooks' = Hooks /\ Traces' = Traces
                            /\ \A u : Seen(u)' = Seen(u)
                            /\ UNCHANGED <<calls, lsmFilter>>
  BY Zenon DEF Filter, given, Hooks, Traces, Scoped, Seen, InScope
<1>1. ASSUME NEW t \in Tasks, NEW a \in calls,
             \/ EnterExecve(t, a) \/ EnterOpenat(t, a) \/ EnterConnect(t, a)
             \/ EnterUntraced(t, a)
      PROVE  KInv'
  <2>1. /\ UNCHANGED <<lsmRing, rules, cache, denied, refused, killed>>
        /\ UNCHANGED given
        /\ pc' = [pc EXCEPT ![t] = "hook"] /\ att' = [att EXCEPT ![t] = a]
    BY <1>1 DEF EnterExecve, EnterOpenat, EnterConnect, EnterUntraced, Enter,
       user
  <2>2. a \in Attempts
    BY DEF Attempts, KInv
  <2>3. tpRing' = tpRing \/ \E r \in TraceRecords(a) : Trace(t, r)
    BY <1>1 DEF EnterExecve, EnterOpenat, EnterConnect, EnterUntraced,
       TraceRecords
  <2>4. TraceRecords(a) \subseteq Records
    BY <2>2 DEF Records
  <2>5. tpRing' \in Seq(Traces)
    BY <2>3, <2>4, TraceKeeps DEF KInv
  <2>6. /\ \A u \in Tasks : pc'[u] = "hook" => att'[u] \in Attempts
        /\ DOMAIN att' = Tasks /\ DOMAIN pc' = Tasks
    BY <2>1, <2>2 DEF KInv
  <2>7. DenialsJudged' /\ RulesInScope' /\ KernelDenyJustified'
        /\ KillJustified'
    BY <2>1, Zenon DEF KInv, DenialsJudged, RulesInScope, KernelDenyJustified,
       KillJustified
  <2>8. QED
    BY <1>f, <2>1, <2>5, <2>6, <2>7 DEF KInv
<1>k. ASSUME UNCHANGED <<given, tpRing, lsmRing, rules, cache, history>>,
             \A u \in Tasks : pc'[u] = "hook" => att'[u] \in Attempts,
             DOMAIN att' = Tasks, DOMAIN pc' = Tasks
      PROVE  KInv'
  <2>1. DenialsJudged' /\ RulesInScope' /\ KernelDenyJustified'
        /\ KillJustified'
    BY <1>k, Zenon DEF history, KInv, DenialsJudged, RulesInScope,
       KernelDenyJustified, KillJustified
  <2>2. QED
    BY <1>f, <1>k, <2>1 DEF history, KInv
<1>2. ASSUME NEW t \in Tasks, pc[t] = "hook", Pass(t) PROVE KInv'
  BY <1>2, <1>k DEF Pass, Leave, user, history, KInv
<1>3. ASSUME NEW t \in Tasks, pc[t] = "hook", DecideInScope(t) PROVE KInv'
  <2>1. CASE ~InScope(lsmFilter, Cgroup[t])
    BY <1>2, <1>3, <2>1 DEF DecideInScope
  <2>2. CASE InScope(lsmFilter, Cgroup[t])
    BY <1>3, <2>2, DecideStep DEF DecideInScope
  <2>3. QED
    BY <2>1, <2>2
<1>9. ASSUME NEW t \in Tasks,
             \/ BprmCheck(t) \/ FileOpen(t) \/ SocketConnect(t)
             \/ SocketBind(t) \/ SocketListen(t) \/ PtraceAccess(t)
             \/ SbMount(t)
      PROVE  KInv'
  <2>1. pc[t] = "hook" /\ (Pass(t) \/ DecideInScope(t))
    BY <1>9 DEF BprmCheck, FileOpen, SocketConnect, SocketBind, SocketListen,
       PtraceAccess, SbMount, At
  <2>2. QED
    BY <2>1, <1>2, <1>3
<1>10. ASSUME NEW t \in Tasks, Spawn(t) PROVE KInv'
  BY <1>10, <1>k DEF Spawn, given, KInv
<1>j. ASSUME NEW e \in Traces \cup Hooks, Judge(e), UNCHANGED given,
             tpRing' \in Seq(Traces), lsmRing' \in Seq(Hooks)
      PROVE  KInv'
  <2>1. /\ DenialsJudged' /\ KernelDenyJustified' /\ KillJustified'
        /\ RulesInScope' /\ refused' = refused
        /\ killed' # << >> => killed'[1] \in Tasks /\ Seen(killed'[1])
        /\ \A t \in Tasks : pc'[t] = "hook" => att'[t] \in Attempts
        /\ DOMAIN att' = Tasks /\ DOMAIN pc' = Tasks
    BY <1>j, JudgeStep, Zenon
  <2>2. QED
    BY <1>f, <1>j, <2>1 DEF KInv
<1>4. CASE HandleTraced
  <2>1. Head(tpRing) \in Traces /\ tpRing' \in Seq(Traces)
        /\ lsmRing' = lsmRing /\ UNCHANGED given
    BY <1>4 DEF HandleTraced, given, KInv
  <2>2. QED
    BY <1>4, <1>j, <2>1 DEF HandleTraced, KInv
<1>5. CASE HandleLSM
  <2>1. Head(lsmRing) \in Hooks /\ lsmRing' \in Seq(Hooks)
        /\ tpRing' = tpRing /\ UNCHANGED given
    BY <1>5 DEF HandleLSM, given, KInv
  <2>2. QED
    BY <1>5, <1>j, <2>1 DEF HandleLSM, KInv
<1>6. ASSUME NEW k \in DOMAIN cache, CacheForgets(k) PROVE KInv'
  <2>1. /\ UNCHANGED <<given, pc, att, tpRing, lsmRing, rules, history>>
        /\ cache' = Delete(cache, k)
    BY <1>6 DEF CacheForgets, given
  <2>2. DenialsJudged'
    BY <2>1 DEF Delete, history, KInv, DenialsJudged
  <2>3. RulesInScope' /\ KernelDenyJustified' /\ KillJustified'
    BY <2>1, Zenon DEF history, KInv, RulesInScope, KernelDenyJustified,
       KillJustified
  <2>4. QED
    BY <1>f, <2>1, <2>2, <2>3 DEF history, KInv
<1>7. CASE UNCHANGED vars
  BY <1>7, <1>k DEF vars, KInv
<1>8. QED
  BY <1>1, <1>4, <1>5, <1>6, <1>7, <1>9, <1>10 DEF Next

LEMMA KernelAlways == Spec => []KInv
  BY KernelInit, KernelStep, PTL DEF Spec

\* An LSM hook refuses a call only on a denial handleEvent has reached for a
\* subject with the call's hash, in the task's cgroup or globally.
THEOREM KernelDenialsJustified == Spec => []KernelDenyJustified
<1>1. KInv => KernelDenyJustified
  BY DEF KInv
<1>2. QED
  BY KernelAlways, <1>1, PTL

\* Enforce kills a task only after a denial, not for audit, was judged for it.
THEOREM KillsJustified == Spec => []KillJustified
<1>1. KInv => KillJustified
  BY DEF KInv
<1>2. QED
  BY KernelAlways, <1>1, PTL

\* No hook refuses a call of a task outside --cgroup-filter, however much of
\* the LSM's own filter SetCgroupFilter could store; and with its sentinel in
\* place handleEvent kills no such task.
THEOREM FilterRespected == Spec => []ScopeRespected
<1>1. KInv => ScopeRespected
  <2> SUFFICES ASSUME KInv, Scope # {} PROVE ScopeRespected
    BY DEF ScopeRespected
  <2>1. \A t \in Tasks : Cgroup[t] # 0
    BY CgroupAssumption
  <2>2. Filter = {0} \cup Scope /\ lsmFilter \subseteq {0} \cup Scope
    BY DEF Filter, LSMFilters, KInv
  <2>3. \A t \in Tasks : InScope(Filter, Cgroup[t]) => Cgroup[t] \in Scope
    BY <2>1, <2>2 DEF InScope
  <2>4. \A t \in Tasks : Seen(t) /\ 0 \in lsmFilter => Cgroup[t] \in Scope
    BY <2>1, <2>2, <2>3, Zenon DEF InScope, Seen
  <2>5. QED
    BY <2>3, <2>4 DEF KInv, ScopeRespected
<1>2. QED
  BY KernelAlways, <1>1, PTL
-----------------------------------------------------------------------------
(* The structs the kernel writes and Go reads. *)

\* Go struct g, laid out as p, is C struct c, laid out as a, with padding: field
\* i of c is field m[i] of g and at the same place.
SpellsOut(g, p, c, a, m) ==
  /\ m \in [1..Len(c) -> 1..Len(g)] /\ m[Len(c)] = Len(g)
  /\ \A i \in 1..Len(c) : g[m[i]] = c[i] /\ p[m[i]] = a[i]
  /\ \A j \in 1..Len(g) : g[j].name # "pad" => \E i \in 1..Len(c) : m[i] = j

\* A Go struct that spells out the padding of the C struct is read as the C
\* struct was written.
LEMMA PaddingSpeltOut ==
  ASSUME NEW c, IsStruct(c), Len(c) # 0, NEW a, IsAligned(c, a),
         NEW g, IsStruct(g), NEW p, IsPacked(g, p),
         NEW m, SpellsOut(g, p, c, a, m)
  PROVE  ReadAsWritten(c, g)
<1> DEFINE A == Aligned(c)
           P == Packed(g)
<1>1. \A i \in 1..Len(c) : A[i] = a[i]
  BY AlignedIs, Zenon
<1>2. \A j \in 1..Len(g) : P[j] = p[j]
  BY PackedIs, Zenon
<1> HIDE DEF A, P
<1>3. \A i \in 1..Len(c) : m[i] \in 1..Len(g) /\ g[m[i]] = c[i] /\ P[m[i]] = A[i]
  <2> TAKE i \in 1..Len(c)
  <2>1. m[i] \in 1..Len(g)
    BY Zenon DEF SpellsOut
  <2> QED
    BY <1>1, <1>2, <2>1, Zenon DEF SpellsOut
<1>m. \A j \in 1..Len(g) : g[j].name # "pad" => \E i \in 1..Len(c) : m[i] = j
  BY Zenon DEF SpellsOut
<1>4. Places(c, A) = Places(g, P)
  <2>1. PlacedIn(c, A, g, P)
    BY <1>3, Zenon DEF PlacedIn
  <2>2. PlacedIn(g, P, c, A)
    <3> SUFFICES ASSUME NEW j \in 1..Len(g), g[j].name # "pad"
                 PROVE  \E i \in 1..Len(c) :
                          /\ c[i].name = g[j].name
                          /\ c[i].size = g[j].size /\ A[i] = P[j]
      BY Zenon DEF PlacedIn
    <3>1. PICK i \in 1..Len(c) : m[i] = j
      BY <1>m, Zenon
    <3>2. g[j] = c[i] /\ P[j] = A[i]
      BY <1>3, <3>1, Zenon
    <3> QED
      BY <3>2, Zenon
  <2> QED
    BY <2>1, <2>2, SamePlaces
<1>5. Len(c) \in 1..Len(c) /\ Len(g) \in 1..Len(g)
  <2>1. Len(c) \in Nat /\ Len(g) \in Nat
    BY DEF IsStruct
  <2>2. Len(c) \in 1..Len(c)
    BY <2>1
  <2>3. m[Len(c)] \in 1..Len(g) /\ m[Len(c)] = Len(g)
    BY <2>2, Zenon DEF SpellsOut
  <2> QED
    BY <2>2, <2>3, Zenon
<1> DEFINE e == a[Len(c)] + c[Len(c)].size
<1>6. e \in Nat
  <2>1. a[Len(c)] \in Nat /\ c[Len(c)].size \in Nat
    BY <1>5, Zenon DEF IsAligned, IsStruct
  <2> QED
    BY <2>1
<1>7. A[Len(c)] + c[Len(c)].size = e /\ P[Len(g)] + g[Len(g)].size = e
  BY <1>1, <1>3, <1>5, Zenon DEF SpellsOut
<1> HIDE DEF e
<1>8. RoundUp(e, 1) <= RoundUp(e, 8)
  <2>1. RoundUp(e, 1) = e
    BY <1>6 DEF RoundUp
  <2>2. 8 \in Nat \ {0}
    OBVIOUS
  <2> QED
    BY <1>6, <2>1, <2>2, RoundUpBounds, Zenon
<1> QED
  BY <1>4, <1>7, <1>8, Zenon DEF ReadAsWritten, SizeOf, A, P

\* The case of one gap, after field k.
GapAfter(k, g, p, c, a) ==
  /\ k \in 0..(Len(c) - 1) /\ Len(g) = Len(c) + 1 /\ g[k + 1].name = "pad"
  /\ \A i \in 1..Len(c) : IF i <= k THEN g[i] = c[i] /\ p[i] = a[i]
                          ELSE g[i + 1] = c[i] /\ p[i + 1] = a[i]

LEMMA GapSpeltOut ==
  ASSUME NEW c, IsStruct(c), NEW a, IsAligned(c, a),
         NEW g, IsStruct(g), NEW p, IsPacked(g, p),
         NEW k, GapAfter(k, g, p, c, a)
  PROVE  ReadAsWritten(c, g)
<1> DEFINE m == [i \in 1..Len(c) |-> IF i <= k THEN i ELSE i + 1]
<1>1. Len(c) \in Nat /\ k \in 0..(Len(c) - 1) /\ Len(g) = Len(c) + 1
  BY DEF IsStruct, GapAfter
<1>2. m \in [1..Len(c) -> 1..Len(g)] /\ m[Len(c)] = Len(g) /\ Len(c) # 0
  BY <1>1
<1>3. \A i \in 1..Len(c) : g[m[i]] = c[i] /\ p[m[i]] = a[i]
  BY Zenon DEF GapAfter
<1>4. ASSUME NEW j \in 1..Len(g), g[j].name # "pad"
      PROVE  \E i \in 1..Len(c) : m[i] = j
  <2>1. j # k + 1
    BY <1>4, Zenon DEF GapAfter
  <2>2. CASE j <= k
    <3>1. j \in 1..Len(c) /\ m[j] = j
      BY <1>1, <2>2
    <3> QED
      BY <3>1, Zenon
  <2>3. CASE ~(j <= k)
    <3>1. j - 1 \in 1..Len(c) /\ m[j - 1] = j
      BY <1>1, <2>1, <2>3
    <3> QED
      BY <3>1, Zenon
  <2> QED
    BY <2>2, <2>3, Zenon
<1> HIDE DEF m
<1>5. SpellsOut(g, p, c, a, m)
  BY <1>2, <1>3, <1>4, Zenon DEF SpellsOut
<1> QED
  BY <1>2, <1>5, PaddingSpeltOut, Zenon

\* The four reports: Go spells out the gap before the first __u64.
LEMMA ExecveReadAsWritten == ReadAsWritten(execve_event, GoExecve)
<1> DEFINE c == execve_event
           g == GoExecve
           a == <<0, 4, 8, 12, 28, 288, 296>>
           p == <<0, 4, 8, 12, 28, 284, 288, 296>>
<1> USE DEF execve_event, GoExecve, Head5, Stamps, Pad4, Bytes, U32, U64, Field
<1>1. Len(c) = 7 /\ Len(g) = 8 /\ g[6].name = "pad"
  OBVIOUS
<1>2. IsStruct(c)
  BY DEF IsStruct
<1>3. IsAligned(c, a)
  <2>1. a[1] = 0 /\ \A i \in 1..7 : a[i] \in Nat /\ a[i] % c[i].align = 0
    OBVIOUS
  <2>2. \A i \in 2..7 : /\ a[i - 1] + c[i - 1].size <= a[i]
                        /\ a[i] < a[i - 1] + c[i - 1].size + c[i].align
    OBVIOUS
  <2> HIDE DEF c, a
  <2> QED
    BY <1>1, <2>1, <2>2 DEF IsAligned
<1>4. IsStruct(g)
  BY DEF IsStruct
<1>5. IsPacked(g, p)
  BY DEF IsPacked
<1>6. \A i \in 1..7 : IF i <= 5 THEN g[i] = c[i] /\ p[i] = a[i]
                     ELSE g[i + 1] = c[i] /\ p[i + 1] = a[i]
  OBVIOUS
<1> HIDE DEF c, g, a, p, execve_event, GoExecve
<1>7. GapAfter(5, g, p, c, a)
  BY <1>1, <1>6 DEF GapAfter
<1> QED
  BY <1>2, <1>3, <1>4, <1>5, <1>7, GapSpeltOut, Zenon DEF c, g

LEMMA OpenatReadAsWritten == ReadAsWritten(file_event, GoOpenat)
<1> DEFINE c == file_event
           g == GoOpenat
           a == <<0, 4, 8, 12, 28, 284, 288, 296, 304>>
           p == <<0, 4, 8, 12, 28, 284, 288, 292, 296, 304>>
<1> USE DEF file_event, GoOpenat, Head5, Stamps, Pad4, Bytes, U32, U64, Field
<1>1. Len(c) = 9 /\ Len(g) = 10 /\ g[8].name = "pad"
  OBVIOUS
<1>2. IsStruct(c)
  BY DEF IsStruct
<1>3. IsAligned(c, a)
  BY DEF IsAligned
<1>4. IsStruct(g)
  BY DEF IsStruct
<1>5. IsPacked(g, p)
  BY DEF IsPacked
<1>6. \A i \in 1..9 : IF i <= 7 THEN g[i] = c[i] /\ p[i] = a[i]
                     ELSE g[i + 1] = c[i] /\ p[i + 1] = a[i]
  OBVIOUS
<1> HIDE DEF c, g, a, p, file_event, GoOpenat
<1>7. GapAfter(7, g, p, c, a)
  BY <1>1, <1>6 DEF GapAfter
<1> QED
  BY <1>2, <1>3, <1>4, <1>5, <1>7, GapSpeltOut, Zenon DEF c, g

LEMMA ConnectReadAsWritten == ReadAsWritten(network_event, GoConnect)
<1> DEFINE c == network_event
           g == GoConnect
           a == <<0, 4, 8, 12, 28, 30, 32, 36, 56, 64>>
           p == <<0, 4, 8, 12, 28, 30, 32, 36, 52, 56, 64>>
<1> USE DEF network_event, GoConnect, Head5, Stamps, Pad4, Bytes, U16, U32, U64,
           Field
<1>1. Len(c) = 10 /\ Len(g) = 11 /\ g[9].name = "pad"
  OBVIOUS
<1>2. IsStruct(c)
  BY DEF IsStruct
<1>3. IsAligned(c, a)
  BY DEF IsAligned
<1>4. IsStruct(g)
  BY DEF IsStruct
<1>5. IsPacked(g, p)
  BY DEF IsPacked
<1>6. \A i \in 1..10 : IF i <= 8 THEN g[i] = c[i] /\ p[i] = a[i]
                     ELSE g[i + 1] = c[i] /\ p[i + 1] = a[i]
  OBVIOUS
<1> HIDE DEF c, g, a, p, network_event, GoConnect
<1>7. GapAfter(8, g, p, c, a)
  BY <1>1, <1>6 DEF GapAfter
<1> QED
  BY <1>2, <1>3, <1>4, <1>5, <1>7, GapSpeltOut, Zenon DEF c, g

LEMMA LSMReadAsWritten == ReadAsWritten(warmor_event, GoLSM)
<1> DEFINE c == warmor_event
           g == GoLSM
           a == <<0, 4, 8, 12, 28, 288, 296, 304, 305, 306, 308, 312>>
           p == <<0, 4, 8, 12, 28, 284, 288, 296, 304, 305, 306, 308, 312>>
<1> USE DEF warmor_event, GoLSM, Head5, Stamps, Pad4, Bytes, U8, U16, U32, U64,
           Field
<1>1. Len(c) = 12 /\ Len(g) = 13 /\ g[6].name = "pad"
  OBVIOUS
<1>2. IsStruct(c)
  BY DEF IsStruct
<1>3. IsAligned(c, a)
  BY DEF IsAligned
<1>4. IsStruct(g)
  BY DEF IsStruct
<1>5. IsPacked(g, p)
  BY DEF IsPacked
<1>6. \A i \in 1..12 : IF i <= 5 THEN g[i] = c[i] /\ p[i] = a[i]
                     ELSE g[i + 1] = c[i] /\ p[i + 1] = a[i]
  OBVIOUS
<1> HIDE DEF c, g, a, p, warmor_event, GoLSM
<1>7. GapAfter(5, g, p, c, a)
  BY <1>1, <1>6 DEF GapAfter
<1> QED
  BY <1>2, <1>3, <1>4, <1>5, <1>7, GapSpeltOut, Zenon DEF c, g

\* A key and a value of the policy map have no gap.
LEMMA NoGap ==
  ASSUME NEW c, IsStruct(c), Len(c) # 0, NEW a, IsAligned(c, a), IsPacked(c, a)
  PROVE  ReadAsWritten(c, c)
<1> DEFINE m == [i \in 1..Len(c) |-> i]
<1>1. Len(c) \in 1..Len(c)
  BY DEF IsStruct
<1>2. SpellsOut(c, a, c, a, m)
  BY <1>1 DEF SpellsOut
<1> HIDE DEF m
<1> QED
  BY <1>2, PaddingSpeltOut, Zenon

LEMMA KeyReadAsWritten == ReadAsWritten(policy_key, PolicyKey)
<1> DEFINE a == <<0, 8, 12, 13>>
<1>1. /\ IsStruct(policy_key) /\ Len(policy_key) # 0
      /\ IsAligned(policy_key, a) /\ IsPacked(policy_key, a)
  BY DEF policy_key, Bytes, U8, U32, U64, Field, IsStruct, IsAligned, IsPacked
<1> HIDE DEF a
<1> QED
  BY <1>1, NoGap, Zenon DEF policy_key, PolicyKey

LEMMA ValueReadAsWritten == ReadAsWritten(policy_value, PolicyValue)
<1> DEFINE a == <<0, 1, 2, 4>>
<1>1. /\ IsStruct(policy_value) /\ Len(policy_value) # 0
      /\ IsAligned(policy_value, a) /\ IsPacked(policy_value, a)
  BY DEF policy_value, U8, U16, U32, Field, IsStruct, IsAligned, IsPacked
<1> HIDE DEF a
<1> QED
  BY <1>1, NoGap, Zenon DEF policy_value, PolicyValue

\* Every struct that crosses between the kernel's programs and Go, in either
\* direction, is read from the bytes it was written to: the Go structs of
\* internal/ebpf and of the policy map spell out what C pads.
THEOREM StructsAgree == TraceReadAsWritten /\ HookReadAsWritten /\ RuleReadAsWritten
<1>1. TraceReadAsWritten
  BY ExecveReadAsWritten, OpenatReadAsWritten, ConnectReadAsWritten, Zenon
     DEF TraceReadAsWritten, Traced, CStruct, GoStruct
<1>2. HookReadAsWritten
  BY LSMReadAsWritten, Zenon DEF HookReadAsWritten, CStruct, GoStruct
<1>3. RuleReadAsWritten
  BY KeyReadAsWritten, ValueReadAsWritten, Zenon DEF RuleReadAsWritten
<1> QED
  BY <1>1, <1>2, <1>3, Zenon

\* So nothing is misread that is in a ring or in the policy map.
THEOREM NothingMisread == Spec => []LayoutsAgree
<1>1. LayoutsAgree
  BY StructsAgree, Zenon DEF LayoutsAgree
<1> QED
  BY <1>1, PTL

-----------------------------------------------------------------------------
(* The decision cache. *)

\* The inductive invariant.  CapacityBound is about a cardinality, which says
\* something only of a finite set; the bound on the expiry times is what the
\* refinement needs for the age of a live entry to be a natural number.
CacheInv ==
  /\ CacheTypeOK
  /\ IsFiniteSet(DOMAIN entries)
  /\ CapacityBound
  /\ \A k \in DOMAIN entries : entries[k].expiresAt <= now + TTL

\* Evicting one key of a full map, or none of a map with room, and adding one
\* key stays within the capacity.
LEMMA PutWithinCapacity ==
  ASSUME IsFiniteSet(DOMAIN entries), CapacityBound,
         NEW gone \in evictOldest, NEW k
  PROVE  /\ IsFiniteSet((DOMAIN entries \ gone) \cup {k})
         /\ Cardinality((DOMAIN entries \ gone) \cup {k}) <= MaxSize
<1> DEFINE D == DOMAIN entries
<1>1. Cardinality(D) \in Nat /\ MaxSize \in Nat \ {0}
  BY FS_CardinalityType, CacheAssumption
<1>2. CASE Cardinality(D) >= MaxSize
  <2>1. PICK o \in D : gone = {o}
    BY <1>2 DEF evictOldest, Oldest
  <2>2. /\ IsFiniteSet(D \ {o})
        /\ Cardinality(D \ {o}) \in Nat
        /\ Cardinality(D \ {o}) = Cardinality(D) - 1
    BY <2>1, FS_RemoveElement, FS_CardinalityType
  <2>3. /\ IsFiniteSet((D \ {o}) \cup {k})
        /\ Cardinality((D \ {o}) \cup {k}) \in Nat
        /\ Cardinality((D \ {o}) \cup {k}) <= Cardinality(D)
    BY <2>2, <1>1, FS_AddElement, SMTT(30), Z3T(30)
  <2>4. Cardinality((D \ {o}) \cup {k}) <= MaxSize
    BY <2>3, <1>1 DEF CapacityBound
  <2>5. QED
    BY <2>1, <2>3, <2>4, Zenon
<1>3. CASE ~(Cardinality(D) >= MaxSize)
  <2>1. gone = {}
    BY <1>3 DEF evictOldest
  <2>2. /\ IsFiniteSet(D \cup {k})
        /\ Cardinality(D \cup {k}) <= MaxSize
    BY <1>1, <1>3, FS_AddElement
  <2>3. (D \ gone) \cup {k} = D \cup {k}
    BY <2>1
  <2>4. QED
    BY <2>2, <2>3, Zenon
<1>4. QED
  BY <1>2, <1>3

LEMMA CacheInit == NewDecisionCache => CacheInv
<1> SUFFICES ASSUME NewDecisionCache PROVE CacheInv
  OBVIOUS
<1>1. DOMAIN entries = {} /\ DOMAIN lastUse = {}
  BY DEF NewDecisionCache
<1>2. CacheTypeOK
  BY <1>1 DEF NewDecisionCache, CacheTypeOK
<1>3. IsFiniteSet(DOMAIN entries) /\ Cardinality(DOMAIN entries) = 0
  BY <1>1, FS_EmptySet
<1>4. QED
  BY <1>1, <1>2, <1>3, CacheAssumption DEF CacheInv, CapacityBound

LEMMA CacheStep == CacheInv /\ [CacheNext]_cacheVars => CacheInv'
<1> SUFFICES ASSUME CacheInv, [CacheNext]_cacheVars PROVE CacheInv'
  OBVIOUS
<1> USE CacheAssumption
<1>1. ASSUME NEW k \in Keys, Get(k) PROVE CacheInv'
  <2>1. CacheTypeOK'
    BY <1>1 DEF CacheInv, CacheTypeOK, CacheEntry, Get
  <2>2. QED
    BY <1>1, <2>1 DEF CacheInv, CapacityBound, Get
<1>2. ASSUME NEW k \in Keys, NEW r \in Results, Put(k, r) PROVE CacheInv'
  <2> DEFINE e == [result |-> r, expiresAt |-> now + TTL]
  <2>1. PICK gone \in evictOldest :
          /\ entries' = Store(entries, gone, k, e)
          /\ lastUse' = Store(lastUse, gone, k, now)
          /\ reply' = << >>
          /\ now' = now
    BY <1>2 DEF Put
  <2>2. e \in CacheEntry /\ e.expiresAt = now + TTL /\ now \in Nat
    BY DEF CacheEntry, CacheInv, CacheTypeOK
  <2>3. DOMAIN entries' = (DOMAIN entries \ gone) \cup {k}
    BY <2>1 DEF Store
  <2>4. \A x \in DOMAIN entries' :
          entries'[x] \in CacheEntry /\ entries'[x].expiresAt <= now + TTL
    BY <2>1, <2>2 DEF CacheInv, CacheTypeOK, Store, CacheEntry
  <2>5. CacheTypeOK'
    <3>1. entries' \in [DOMAIN entries' -> CacheEntry]
      BY <2>1, <2>3, <2>4, Zenon DEF Store
    <3>2. lastUse' \in [DOMAIN entries' -> Nat]
      BY <2>1, <2>2, <2>3 DEF Store, CacheInv, CacheTypeOK
    <3>3. QED
      BY <2>1, <2>2, <2>3, <3>1, <3>2 DEF CacheTypeOK, CacheInv
  <2>6. IsFiniteSet(DOMAIN entries') /\ CapacityBound'
    BY <2>3, PutWithinCapacity, Zenon DEF CacheInv, CapacityBound
  <2>7. QED
    BY <2>1, <2>4, <2>5, <2>6 DEF CacheInv
<1>3. CASE Clear
  <2>1. DOMAIN entries' = {} /\ DOMAIN lastUse' = {}
    BY <1>3 DEF Clear
  <2>2. CacheTypeOK'
    BY <1>3, <2>1 DEF CacheInv, CacheTypeOK, Clear
  <2>3. IsFiniteSet(DOMAIN entries') /\ Cardinality(DOMAIN entries') = 0
    BY <2>1, FS_EmptySet
  <2>4. QED
    BY <2>1, <2>2, <2>3 DEF CacheInv, CapacityBound
<1>4. CASE Tick
  BY <1>4 DEF CacheInv, CacheTypeOK, CacheEntry, CapacityBound, Tick
<1>5. CASE UNCHANGED cacheVars
  BY <1>5 DEF CacheInv, CacheTypeOK, CapacityBound, cacheVars
<1>6. QED
  BY <1>1, <1>2, <1>3, <1>4, <1>5 DEF CacheNext

\* The cache is type correct and never holds more than MaxSize entries.
THEOREM CacheSafe == CacheSpec => [](CacheTypeOK /\ CapacityBound)
<1>1. CacheInv => CacheTypeOK /\ CapacityBound
  BY DEF CacheInv
<1>2. QED
  BY <1>1, CacheInit, CacheStep, PTL DEF CacheSpec

\* Put evicts only the entry that expires first, and no other step but Clear
\* removes anything.
THEOREM CacheEvictsOnlyOldest == CacheSpec => EvictsOnlyOldest
<1> DEFINE A == \A k \in DOMAIN entries \ DOMAIN entries' :
                  \/ entries' = << >>
                  \/ \A o \in DOMAIN entries \ {k} :
                       /\ o \in DOMAIN entries'
                       /\ entries[k].expiresAt <= entries[o].expiresAt
<1>1. CacheInv /\ [CacheNext]_cacheVars => [A]_cacheVars
  <2> SUFFICES ASSUME CacheInv, [CacheNext]_cacheVars PROVE [A]_cacheVars
    OBVIOUS
  <2>1. ASSUME NEW k \in Keys, NEW r \in Results, Put(k, r) PROVE A
    <3>1. PICK gone \in evictOldest :
            entries' = Store(entries, gone, k,
                             [result |-> r, expiresAt |-> now + TTL])
      BY <2>1 DEF Put
    <3>2. DOMAIN entries' = (DOMAIN entries \ gone) \cup {k}
      BY <3>1 DEF Store
    <3>3. gone = {} \/ \E o \in Oldest : gone = {o}
      BY DEF evictOldest
    <3>4. QED
      BY <3>2, <3>3 DEF Oldest
  <2>2. CASE ~ \E k \in Keys, r \in Results : Put(k, r)
    BY <2>2 DEF CacheNext, Get, Clear, Tick, cacheVars
  <2>3. QED
    BY <2>1, <2>2
<1>2. QED
  BY <1>1, CacheInit, CacheStep, PTL DEF CacheSpec, EvictsOnlyOldest

\* h is a function.
IsMap(h) == h = [x \in DOMAIN h |-> h[x]]

\* h is f without the keys in G and with v for k.
Rebinds(h, f, G, k, v) ==
  /\ IsMap(h)
  /\ DOMAIN h = (DOMAIN f \ G) \cup {k}
  /\ h[k] = v
  /\ \A x \in (DOMAIN f \ G) \ {k} : h[x] = f[x]

\* Such a function is what DecisionStore makes of f.
LEMMA BoundAfterKeep ==
  ASSUME NEW h, NEW f, NEW G, NEW k, NEW v, Rebinds(h, f, G, k, v)
  PROVE  h = Promise!Bind(Promise!Keep(f, G), k, v)
<1> DEFINE g == Promise!Keep(f, G)
           b == Promise!Bind(g, k, v)
<1>1. DOMAIN g = DOMAIN f \ G /\ \A x \in DOMAIN f \ G : g[x] = f[x]
  BY DEF Promise!Keep
<1> HIDE DEF g
<1>2. /\ b = [x \in DOMAIN h |-> b[x]]
      /\ \A x \in DOMAIN h : b[x] = IF x = k THEN v ELSE g[x]
  BY <1>1 DEF Promise!Bind, Rebinds
<1> HIDE DEF b
<1>3. \A x \in DOMAIN h : b[x] = h[x]
  BY <1>1, <1>2 DEF Rebinds
<1>4. b = h
  BY <1>2, <1>3 DEF Rebinds, IsMap
<1> QED
  BY <1>4, Zenon DEF b, g

\* Whatever the cache answers, DecisionStore may answer: no step of the code
\* returns a decision that was replaced, cleared, altered or stored more than
\* TTL ago.  An expired entry is forgotten for the store although the map
\* still holds it; Tick is the step that ages and forgets.
THEOREM CacheImplementsStore == CacheSpec => ImplementsStore
<1>1. NewDecisionCache => Promise!StoreInit
  <2> SUFFICES ASSUME NewDecisionCache PROVE Promise!StoreInit
    OBVIOUS
  <2>1. Live = {}
    BY DEF NewDecisionCache, Live
  <2>2. QED
    BY <2>1 DEF NewDecisionCache, Promise!StoreInit, known, age
<1>2. CacheInv /\ [CacheNext]_cacheVars => [Promise!StoreNext]_(Promise!storeVars)
  <2> SUFFICES ASSUME CacheInv, [CacheNext]_cacheVars
               PROVE  [Promise!StoreNext]_(Promise!storeVars)
    OBVIOUS
  <2> USE CacheAssumption
  <2>1. ASSUME NEW k \in Keys, Get(k) PROVE Promise!StoreNext
    <3>1. Live' = Live /\ known' = known /\ age' = age
      BY <2>1 DEF Get, Live, Expired, known, age
    <3>2. reply' = IF k \in DOMAIN known THEN <<k, known[k]>> ELSE <<k>>
      BY <2>1 DEF Get, Live, Expired, known
    <3>3. Promise!Recall(k)
      BY <3>1, <3>2 DEF Promise!Recall
    <3>4. QED
      BY <3>3 DEF Promise!StoreNext
  <2>2. ASSUME NEW k \in Keys, NEW r \in Results, Put(k, r)
        PROVE  Promise!StoreNext
    <3> DEFINE e == [result |-> r, expiresAt |-> now + TTL]
    <3>1. PICK gone \in evictOldest :
            /\ entries' = Store(entries, gone, k, e)
            /\ reply' = << >>
            /\ now' = now
      BY <2>2 DEF Put
    <3> DEFINE G == gone \cap Live
    <3>2. now \in Nat /\ DOMAIN entries' = (DOMAIN entries \ gone) \cup {k}
      BY <3>1 DEF Store, CacheInv, CacheTypeOK
    <3>3. /\ entries'[k] = e
          /\ \A x \in (DOMAIN entries \ gone) \ {k} : entries'[x] = entries[x]
      BY <3>1 DEF Store
    <3>4. Live' = (Live \ G) \cup {k}
      BY <3>1, <3>2, <3>3 DEF Live, Expired
    <3>5. \A x \in (Live \ G) \ {k} : entries'[x] = entries[x]
      BY <3>3 DEF Live
    <3>6. known' = Promise!Bind(Promise!Keep(known, G), k, r)
      <4>1. /\ IsMap(known')
            /\ DOMAIN known' = Live'
            /\ \A x \in Live' : known'[x] = entries'[x].result
            /\ DOMAIN known = Live
            /\ \A x \in Live : known[x] = entries[x].result
        BY DEF known, IsMap
      <4>2. known'[k] = r
        BY <3>3, <3>4, <4>1
      <4>3. \A x \in (DOMAIN known \ G) \ {k} : known'[x] = known[x]
        BY <3>4, <3>5, <4>1
      <4>4. DOMAIN known' = (DOMAIN known \ G) \cup {k}
        BY <3>4, <4>1
      <4> HIDE DEF G
      <4>5. Rebinds(known', known, G, k, r)
        BY <4>1, <4>2, <4>3, <4>4, Zenon DEF Rebinds
      <4> QED
        BY <4>5, BoundAfterKeep, SMT
    <3>7. age' = Promise!Bind(Promise!Keep(age, G), k, 0)
      <4>1. /\ IsMap(age')
            /\ DOMAIN age' = Live'
            /\ \A x \in Live' : age'[x] = now' + TTL - entries'[x].expiresAt
            /\ DOMAIN age = Live
            /\ \A x \in Live : age[x] = now + TTL - entries[x].expiresAt
        BY DEF age, IsMap
      <4>2. age'[k] = 0
        <5>1. age'[k] = now + TTL - (now + TTL)
          BY <3>1, <3>3, <3>4, <4>1
        <5> QED
          BY <3>2, <5>1
      <4>3. \A x \in (DOMAIN age \ G) \ {k} : age'[x] = age[x]
        BY <3>1, <3>4, <3>5, <4>1
      <4>4. DOMAIN age' = (DOMAIN age \ G) \cup {k}
        BY <3>4, <4>1
      <4> HIDE DEF G
      <4>5. Rebinds(age', age, G, k, 0)
        BY <4>1, <4>2, <4>3, <4>4, Zenon DEF Rebinds
      <4> QED
        BY <4>5, BoundAfterKeep, SMT
    <3>8. G \in SUBSET (DOMAIN known)
      BY DEF known
    <3>9. Promise!Remember(k, r)
      BY <3>1, <3>6, <3>7, <3>8 DEF Promise!Remember
    <3>10. QED
      BY <3>9 DEF Promise!StoreNext
  <2>3. CASE Clear
    <3>1. Live' = {}
      BY <2>3 DEF Clear, Live
    <3>2. /\ known' = Promise!Keep(known, DOMAIN known)
          /\ age' = Promise!Keep(age, DOMAIN known)
      BY <3>1 DEF known, age, Promise!Keep
    <3>3. Promise!Forget
      BY <2>3, <3>2 DEF Clear, Promise!Forget
    <3>4. QED
      BY <3>3 DEF Promise!StoreNext
  <2>4. CASE Tick
    <3> DEFINE G == Live \ Live'
    <3>1. /\ now \in Nat /\ now' = now + 1 /\ entries' = entries
          /\ \A k \in DOMAIN entries :
               entries[k].expiresAt \in Nat /\ entries[k].expiresAt <= now + TTL
      BY <2>4 DEF Tick, CacheInv, CacheTypeOK, CacheEntry
    <3>2. Live' = Live \ G
      BY <3>1 DEF Live, Expired
    <3>3. {k \in DOMAIN known : age[k] >= TTL} \subseteq G
      BY <3>1 DEF known, age, Live, Expired
    <3>4. known' = Promise!Keep(known, G)
      BY <3>1, <3>2 DEF known, Promise!Keep
    <3>5. age' = [k \in DOMAIN known \ G |-> age[k] + 1]
      BY <3>1, <3>2 DEF age, known, Live
    <3>6. G \in SUBSET (DOMAIN known)
      BY DEF known
    <3>7. Promise!Age
      BY <2>4, <3>3, <3>4, <3>5, <3>6 DEF Tick, Promise!Age
    <3>8. QED
      BY <3>7 DEF Promise!StoreNext
  <2>5. CASE UNCHANGED cacheVars
    <3>1. Live' = Live /\ known' = known /\ age' = age /\ reply' = reply
      BY <2>5 DEF cacheVars, Live, Expired, known, age
    <3>2. QED
      BY <3>1 DEF Promise!storeVars
  <2>6. QED
    BY <2>1, <2>2, <2>3, <2>4, <2>5 DEF CacheNext
<1>3. QED
  BY <1>1, <1>2, CacheInit, CacheStep, PTL
     DEF CacheSpec, ImplementsStore, Promise!StoreSpec
=============================================================================
