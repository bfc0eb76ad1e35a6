---------------------------- MODULE KernelPolicy ----------------------------
(***************************************************************************)
(* The two-tier decision path on Linux.  A task's system call passes a     *)
(* tracepoint (bpf/*_monitor.bpf.c), which only reports it, and an LSM     *)
(* hook (bpf/lsm_*.bpf.c), which looks up the policy map and may refuse    *)
(* it.  Both report over ring buffers; the monitors of platform/linux.go   *)
(* merge the two into one channel, and handleEvent (enforcer.go) judges    *)
(* each event, compiles the decision into the policy map and may kill the  *)
(* task.  The merge keeps each ring's order and no other, so Handle takes  *)
(* the head of either ring.                                                *)
(***************************************************************************)
EXTENDS KernelEvents, FiniteSets

CONSTANTS Tasks,      \* processes, by pid
          Cgroup,     \* the cgroup of each task
          Workloads,  \* sets of calls; a behaviour makes those of one of them
          StalePorts, \* what unwritten ring memory may hold
          Verdict,    \* what the policy says of a <<kind, subject>>
          Scope,      \* --cgroup-filter; {} when not given
          RingCap,    \* room in each ring buffer: 256 KB
          MapCap,     \* POLICY_MAP_MAX_ENTRIES
          LSMEnforce, \* --lsm-enforce
          AuditMode   \* --audit

\* A cgroup's id is the number of its inode, never the 0 of global rules.
ASSUME CgroupAssumption == Cgroup \in [Tasks -> Nat \ {0}]

VARIABLES calls,   \* the calls the tasks make in this behaviour
          lsmFilter, \* lsm_cgroup_filter, filled before the hooks report
          pc,      \* per task: "idle", in the system call "hook", or "dead"
          att,     \* per task: the system call it is in, if any
          tpRing,  \* events, file_events and network_events
          lsmRing, \* lsm_events
          rules,   \* policy_map: a partial function from keys to values
          cache,   \* decision cache: a partial function from its keys
          \* For the properties:
          denied,  \* <<task, kind, subject, audit>> judged to be denied
          refused, \* the last <<task, hash, type>> the kernel refused, if any
          killed   \* the last <<task, kind, subject>> killed for, if any

history == <<denied, refused, killed>>
user == <<rules, cache, denied, killed>>
given == <<calls, lsmFilter>>
vars == <<given, pc, att, tpRing, lsmRing, rules, cache, history>>
-----------------------------------------------------------------------------
NoCall == << >>
Attempts == UNION Workloads

\* A report as it travels, and what ToEvent makes of it; "miss" says that the
\* hook found no rule.
Report(t, rec, lsm, miss) ==
  [task |-> t, rec |-> rec, lsm |-> lsm, miss |-> miss]
TraceRecords(a) ==
  CASE a.type = "exec" -> {TraceExecve(a)}
    [] a.type = "file" -> {TraceOpenat(a)}
    [] a.type = "connect" -> {TraceConnect(a, p) : p \in StalePorts}
    [] OTHER -> {}
Records == (UNION {TraceRecords(a) : a \in Attempts})
             \cup {HookRecord(a) : a \in Attempts}
KindOf(e) == Kind(e.rec.type)
SubjectOf(e) == IF e.lsm THEN LSMSubject(e.rec) ELSE TraceSubject(e.rec)

\* A partial function f with d stored under k.
Updated(f, k, d) == [x \in DOMAIN f \cup {k} |-> IF x = k THEN d ELSE f[x]]
Delete(f, k) == [x \in DOMAIN f \ {k} |-> f[x]]

Decisions == [act : {"allow", "deny", "log"}, audit : BOOLEAN]
Reports ==
  [task : Tasks, rec : Records, lsm : BOOLEAN, miss : BOOLEAN]
Judged(k) == k[1] \in Tasks /\ k[2] \in Kinds

\* What the tracepoints' filter maps hold: the sentinel 0 and the cgroups of
\* Scope, or nothing.  Load fails unless all of it was stored.
Filter == IF Scope = {} THEN {} ELSE {0} \cup Scope

\* What lsm_cgroup_filter holds.  The sentinel is stored first; a failure to
\* store it or one of the cgroups is a warning and ends the filling.
LSMFilters ==
  IF Scope = {} THEN {{}} ELSE {{}} \cup {{0} \cup s : s \in SUBSET Scope}

\* should_skip_cgroup, negated, and its copies in the tracepoints.
InScope(filter, cg) == cg \in filter \/ 0 \notin filter

TypeOK ==
  /\ calls \in Workloads /\ lsmFilter \in LSMFilters
  /\ pc \in [Tasks -> {"idle", "hook", "dead"}]
  /\ att \in [Tasks -> calls \cup {NoCall}]
  /\ \A t \in Tasks : pc[t] = "hook" <=> att[t] # NoCall
  /\ tpRing \in Seq(Reports) /\ Len(tpRing) <= RingCap
  /\ lsmRing \in Seq(Reports) /\ Len(lsmRing) <= RingCap
  /\ Cardinality(DOMAIN rules) <= MapCap
  /\ \A k \in DOMAIN rules : rules[k] \in Decisions /\ rules[k].act # "log"
  /\ \A k \in DOMAIN cache : Judged(k) /\ cache[k] \in Decisions
  /\ \A j \in denied : Judged(j) /\ j[4] \in BOOLEAN
  /\ refused # << >> => refused[1] \in Tasks /\ refused[3] \in Types
  /\ killed # << >> => Judged(killed)

Init ==
  /\ calls \in Workloads /\ lsmFilter \in LSMFilters
  /\ pc = [t \in Tasks |-> "idle"] /\ att = [t \in Tasks |-> NoCall]
  /\ tpRing = << >> /\ lsmRing = << >>
  /\ rules = << >> /\ cache = << >>
  /\ denied = {} /\ refused = << >> /\ killed = << >>

\* bpf_ringbuf_reserve fails on a full ring buffer and the event is dropped.
Emit(ring, e) == IF Len(ring) < RingCap THEN Append(ring, e) ELSE ring
-----------------------------------------------------------------------------
(* The kernel. *)

\* A task enters a system call; the tracepoint reports record r.
Enter(t, a) ==
  /\ pc[t] = "idle"
  /\ pc' = [pc EXCEPT ![t] = "hook"] /\ att' = [att EXCEPT ![t] = a]
  /\ UNCHANGED <<given, lsmRing, refused, user>>
Trace(t, r) ==
  tpRing' = IF InScope(Filter, Cgroup[t])
            THEN Emit(tpRing, Report(t, r, FALSE, FALSE)) ELSE tpRing

\* The three tracepoints, and the calls that have none.
EnterExecve(t, a) == a.type = "exec" /\ Enter(t, a) /\ Trace(t, TraceExecve(a))
EnterOpenat(t, a) == a.type = "file" /\ Enter(t, a) /\ Trace(t, TraceOpenat(a))
EnterConnect(t, a) ==
  /\ a.type = "connect" /\ Enter(t, a)
  /\ \E stale \in StalePorts : Trace(t, TraceConnect(a, stale))
EnterUntraced(t, a) ==
  /\ a.type \notin Traced /\ Enter(t, a)
  /\ UNCHANGED tpRing

\* A hook returns: the call proceeds, or fails with EPERM.
Leave(t) ==
  /\ pc' = [pc EXCEPT ![t] = "idle"] /\ att' = [att EXCEPT ![t] = NoCall]
  /\ UNCHANGED <<given, tpRing, user>>
Pass(t) == Leave(t) /\ UNCHANGED <<lsmRing, refused>>

\* The cgroup's rule, else the global one.
Lookup(cg, hash, type) ==
  CASE <<cg, hash, type>> \in DOMAIN rules -> rules[<<cg, hash, type>>]
    [] <<0, hash, type>> \in DOMAIN rules -> rules[<<0, hash, type>>]
    [] OTHER -> [act |-> "none", audit |-> FALSE]

\* The end of every hook: a rule that denies is reported, and refuses the call
\* when lsm_enforce is set; a rule that allows is reported if it says audit; a
\* miss is reported and allowed.  (hit_count, which nothing reads, is left out.)
Decide(t, a) ==
  LET val == Lookup(Cgroup[t], HookHash(a), a.type)
  IN  /\ Leave(t)
      /\ lsmRing' = IF val.act = "allow" /\ ~val.audit THEN lsmRing
                     ELSE Emit(lsmRing, Report(t, HookRecord(a), TRUE,
                                               val.act = "none"))
      /\ refused' = IF val.act = "deny" /\ LSMEnforce
                     THEN <<t, HookHash(a), a.type>> ELSE refused

\* A task is in the system call whose hook this is.
At(t, type) == pc[t] = "hook" /\ att[t].type = type
DecideInScope(t) ==
  IF InScope(lsmFilter, Cgroup[t]) THEN Decide(t, att[t]) ELSE Pass(t)

\* bprm_check_security passes on what an earlier LSM said, and lets a call pass
\* whose file name it cannot read.
BprmCheck(t) == At(t, "exec") /\ (Pass(t) \/ DecideInScope(t))

\* file_open: a file without a name, or with one it cannot read, passes.
FileOpen(t) == At(t, "file") /\ (Pass(t) \/ DecideInScope(t))

\* socket_connect and socket_bind: only IPv4 and IPv6 are looked up.
SocketConnect(t) ==
  /\ At(t, "connect")
  /\ IF Family(att[t].addr) = 0 THEN Pass(t) ELSE DecideInScope(t)
SocketBind(t) ==
  /\ At(t, "bind")
  /\ IF Family(att[t].addr) = 0 THEN Pass(t) ELSE DecideInScope(t)

\* socket_listen: a socket that is not bound has no port to look up.
SocketListen(t) ==
  /\ At(t, "listen")
  /\ IF att[t].port = 0 THEN Pass(t) ELSE DecideInScope(t)

PtraceAccess(t) == At(t, "ptrace") /\ DecideInScope(t)

\* sb_mount: a mount without a file system type, or with one it cannot read,
\* passes.
SbMount(t) == At(t, "mount") /\ (Pass(t) \/ DecideInScope(t))
-----------------------------------------------------------------------------
(* User space: handleEvent on the event of either ring. *)

\* makeKey: kind, pid (and uid) and subject; neither cgroup nor operation.
CacheKey(e) == <<e.task, KindOf(e), SubjectOf(e)>>

\* Evaluate: AUDIT_DENY becomes a denial with the audit flag.
Evaluated(e) ==
  LET v == Verdict[<<KindOf(e), SubjectOf(e)>>]
  IN  IF v = "auditDeny" THEN [act |-> "deny", audit |-> TRUE]
      ELSE [act |-> v, audit |-> FALSE]

\* The denial handleEvent substitutes for an error.
FailClosed == [act |-> "deny", audit |-> FALSE]

\* Mutant of RuleAction: whatever is not allowed is denied.
RuleActionStrict(d) == IF d.act = "allow" THEN "allow" ELSE "deny"

\* The map knows allow and deny; a decision to log is an allow.
RuleAction(d) == IF d.act = "deny" THEN "deny" ELSE "allow"

\* syncToPolicyMap and SetRule: nothing for an event without a subject.  A
\* full map refuses a new key and the error is dropped.
Synced(e, d) ==
  LET key == UserKey(Cgroup[e.task], KindOf(e), SubjectOf(e))
      val == [act |-> RuleAction(d), audit |-> d.audit]
  IN  IF \/ NoPattern(KindOf(e), SubjectOf(e))
         \/ key \notin DOMAIN rules /\ Cardinality(DOMAIN rules) >= MapCap
      THEN rules
      ELSE Updated(rules, key, val)

\* Mutant of Kills: the audit flag of the decision is ignored.
KillsAudited(d) == d.act = "deny" /\ ~AuditMode

\* Enforce: a denial kills the task unless it is for audit only.
Kills(d) == d.act = "deny" /\ ~AuditMode /\ ~d.audit
Enforce(e, d) ==
  IF Kills(d)
  THEN /\ pc' = [pc EXCEPT ![e.task] = "dead"]
       /\ att' = [att EXCEPT ![e.task] = NoCall]
       /\ killed' = CacheKey(e)
  ELSE UNCHANGED <<pc, att, killed>>

\* A cached decision is enforced and goes no further.
JudgeCached(e) ==
  /\ CacheKey(e) \in DOMAIN cache
  /\ Enforce(e, cache[CacheKey(e)])
  /\ UNCHANGED <<rules, cache, denied, refused>>

\* What Enforce makes of the decision it is handed: in audit mode it sets the
\* audit flag of a denial, and so that of the cache, which holds a pointer.
Marked(d) ==
  [act |-> d.act, audit |-> d.audit \/ (AuditMode /\ d.act = "deny")]

\* Mutant of JudgeNew: what a hook reported is compiled as well.
JudgeNewCompilesAll(e, d) ==
  /\ CacheKey(e) \notin DOMAIN cache
  /\ cache' = Updated(cache, CacheKey(e), Marked(d))
  /\ rules' = Synced(e, d)
  /\ Enforce(e, d)
  /\ denied' = IF d.act = "deny"
               THEN denied \cup {<<e.task, KindOf(e), SubjectOf(e),
                                  Marked(d).audit>>}
               ELSE denied
  /\ UNCHANGED refused

\* Otherwise the policy decides, or fails; the decision is cached, compiled
\* into the policy map unless an LSM hook reported the event, and enforced.
JudgeNew(e, d) ==
  /\ CacheKey(e) \notin DOMAIN cache
  /\ cache' = Updated(cache, CacheKey(e), Marked(d))
  /\ rules' = IF e.lsm THEN rules ELSE Synced(e, d)
  /\ Enforce(e, d)
  /\ denied' = IF d.act = "deny"
               THEN denied \cup {<<e.task, KindOf(e), SubjectOf(e),
                                  Marked(d).audit>>}
               ELSE denied
  /\ UNCHANGED refused

\* handleEvent on event e
Judge(e) ==
  \/ JudgeCached(e)
  \/ \E d \in {Evaluated(e), FailClosed} : JudgeNew(e, d)

HandleTraced ==
  /\ tpRing # << >>
  /\ Judge(Head(tpRing))
  /\ tpRing' = Tail(tpRing) /\ UNCHANGED <<given, lsmRing>>

HandleLSM ==
  /\ lsmRing # << >>
  /\ Judge(Head(lsmRing))
  /\ lsmRing' = Tail(lsmRing) /\ UNCHANGED <<given, tpRing>>

\* The cache forgets an entry that expired or was evicted (DecisionCache).
CacheForgets(k) ==
  /\ k \in DOMAIN cache
  /\ cache' = Delete(cache, k)
  /\ UNCHANGED <<given, pc, att, tpRing, lsmRing, rules, history>>

\* The pid is used again.
Spawn(t) ==
  /\ pc[t] = "dead"
  /\ pc' = [pc EXCEPT ![t] = "idle"]
  /\ UNCHANGED <<given, att, tpRing, lsmRing, rules, cache, history>>

Next ==
  \/ \E t \in Tasks, a \in calls :
       \/ EnterExecve(t, a) \/ EnterOpenat(t, a) \/ EnterConnect(t, a)
       \/ EnterUntraced(t, a)
  \/ \E t \in Tasks :
       \/ BprmCheck(t) \/ FileOpen(t) \/ SocketConnect(t) \/ SocketBind(t)
       \/ SocketListen(t) \/ PtraceAccess(t) \/ SbMount(t) \/ Spawn(t)
  \/ HandleTraced \/ HandleLSM
  \/ \E k \in DOMAIN cache : CacheForgets(k)

Spec == Init /\ [][Next]_vars
-----------------------------------------------------------------------------
\* The kernel refuses a call only when asked to enforce, and only on a denial
\* that user space reached, in the task's cgroup or globally, for a subject
\* that hashes as the call's does: neither a lost event, a full map, a cached
\* decision nor the order in which the two reports are judged invents one.
KernelDenyJustified ==
  refused # << >> =>
    /\ LSMEnforce
    /\ \E j \in denied :
         UserKey(Cgroup[j[1]], j[2], j[3])
           \in {<<Cgroup[refused[1]], refused[2], refused[3]>>,
                <<0, refused[2], refused[3]>>}

\* Each report in a ring, and each rule in the policy map, is read as it was
\* written: the Go struct and the C struct have every field at the same bytes.
LayoutsAgree ==
  /\ tpRing # << >> => TraceReadAsWritten
  /\ lsmRing # << >> => HookReadAsWritten
  /\ DOMAIN rules # {} => RuleReadAsWritten

\* User space kills a task only after judging, for this very task, kind and
\* subject, a denial that is not for audit; never in audit mode, however often
\* the decision is served from the cache and whichever report came first.
KillJustified ==
  killed # << >> =>
    ~AuditMode /\ <<killed[1], killed[2], killed[3], FALSE>> \in denied

\* A task outside --cgroup-filter is never refused a call, although storing the
\* LSM's own filter may have failed, which is only a warning (linux.go:116-119):
\* the hooks then run for every task, but find no rule that does not stem from a
\* tracepoint's report, and those are filtered.  Without the sentinel user space
\* judges and may kill it on the hooks' reports; with it, whatever else of the
\* filter is missing, it does not.
ScopeRespected ==
  Scope # {} =>
    /\ refused # << >> => Cgroup[refused[1]] \in Scope
    /\ killed # << >> /\ 0 \in lsmFilter => Cgroup[killed[1]] \in Scope

\* docs/SECURITY_POSTURE.md:44, "Would-be denials are logged (`audit` events)
\* but not enforced": in audit mode nothing is refused.
AuditNotEnforced == AuditMode => refused = << >> /\ killed = << >>

\* docs/architecture.md:483, "On MISS: userspace WASM evaluates -> writes
\* result back to policy_map": judging the report of a miss leaves a rule for
\* the key that was missed.
MissIsCompiled ==
  [][ HandleLSM /\ Head(lsmRing).miss =>
        LET e == Head(lsmRing)
        IN  \A a \in calls : HookRecord(a) = e.rec =>
              <<Cgroup[e.task], HookHash(a), a.type>> \in DOMAIN rules' ]_vars

\* internal/ebpf/policy_map.go:63, "matching the BPF-side implementation": a
\* rule compiled for a call is the one the call's hook finds.
RuleIsFound ==
  [][ HandleTraced /\ rules' # rules =>
        LET e == Head(tpRing)
        IN  \A a \in calls : e.rec \in TraceRecords(a) =>
              <<Cgroup[e.task], HookHash(a), a.type>> \in DOMAIN rules' ]_vars
=============================================================================
