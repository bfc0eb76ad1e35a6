------------------------------ MODULE EventPath ------------------------------
(***************************************************************************)
(* What Enforcer.handleEvent asks before the decision cache: the network   *)
(* filter, the sandbox of the process, and learning mode, in that order    *)
(* (internal/enforcer/enforcer.go, sandbox.go).  One goroutine handles the *)
(* events; the filter and the sandbox are changed by others meanwhile, each *)
(* under its own mutex.  What follows the cache is in PolicyLifecycle.     *)
(***************************************************************************)
EXTENDS Integers, Sequences, FiniteSets

CONSTANTS Pids, Addrs, Nets, Limit, Window, MaxBlocks,
          Names,   \* names of sandbox profiles
          Profiles, \* the profiles, see Restrictions
          NoAddr   \* no remote address, or one that does not parse

\* A profile is the set of what it says of the actions handleEvent asks about:
\* DenyNetwork, ReadOnlyFS, and which of the actions BlockedSyscalls names.
Actions == {"network", "write"}
Restrictions == {"DenyNetwork", "ReadOnlyFS"} \cup Actions

ASSUME EventPathAssumption ==
  /\ Profiles \subseteq SUBSET Restrictions
  /\ NoAddr \notin Addrs /\ Nets \subseteq SUBSET Addrs
  /\ Limit \in Nat /\ Window \in Nat \ {0} /\ MaxBlocks \in Nat \ {0}

VARIABLES
  blocklist, connCounts, attempts, passes,  \* the network filter
  profiles,  \* the registered profiles: name |-> profile
  applied,   \* pid |-> the profile it was put under
  learning,  \* Options.LearningMode
  ev, pc,    \* the event being handled, and how far
  verdict,   \* what handleEvent decided
  \* Histories of the reasons to deny the event while it is handled:
  always,    \* those that held all the while
  lost,      \* those that ceased to hold
  covered    \* there was one at every moment

filter == <<blocklist, connCounts, attempts, passes>>
sandbox == <<profiles, applied>>
handling == <<learning, ev, pc, verdict>>
reasons == <<always, lost, covered>>
vars == <<filter, sandbox, handling, reasons>>

NF == INSTANCE NetFilter

Events ==
  [kind : {"network"}, pid : Pids, addr : Addrs \cup {NoAddr}, writes : {FALSE}]
    \cup [kind : {"file"}, pid : Pids, addr : {NoAddr}, writes : BOOLEAN]
    \cup [kind : {"process"}, pid : Pids, addr : {NoAddr}, writes : {FALSE}]

Verdicts == {"none", "blocked", "limited", "sandboxed", "learned", "policy"}

TypeOK ==
  /\ NF!TypeOK
  /\ DOMAIN profiles \subseteq Names /\ DOMAIN applied \subseteq Pids
  /\ \A n \in DOMAIN profiles : profiles[n] \in Profiles
  /\ \A p \in DOMAIN applied : applied[p] \in Profiles
  /\ learning \in BOOLEAN /\ ev \in Events
  /\ pc \in {"idle", "blocklist", "rate", "sandbox"} /\ verdict \in Verdicts
  /\ always \cup lost \subseteq {"blocked", "sandboxed"} /\ covered \in BOOLEAN

\* Mutant of SandboxAction: file events are not checked.
SandboxActionNetwork(e) == IF e.kind = "network" THEN "network" ELSE "none"

\* eventTypeToSandboxAction: every file event counts as a write.
SandboxAction(e) ==
  IF e.kind = "network" THEN "network" ELSE IF e.kind = "file" THEN "write"
  ELSE "none"

\* CheckViolation: a process event asks about no action.
CheckViolation(pid, action) ==
  /\ pid \in DOMAIN applied
  /\ \/ action = "network" /\ "DenyNetwork" \in applied[pid]
     \/ action = "write" /\ "ReadOnlyFS" \in applied[pid]
     \/ action \in applied[pid] \cap Actions

\* What speaks against the event at this moment.
Confined(e) ==
  /\ e.pid \in DOMAIN applied
  /\ \/ e.kind = "network" /\ applied[e.pid] \cap {"DenyNetwork", "network"} # {}
     \/ /\ e.kind = "file" /\ e.writes
        /\ applied[e.pid] \cap {"ReadOnlyFS", "write"} # {}

Reasons ==
  {r \in {"blocked", "sandboxed"} :
     \/ r = "blocked" /\ ev.kind = "network" /\ NF!IsBlocked(ev.addr)
     \/ r = "sandboxed" /\ Confined(ev)}

Observe ==
  IF pc = "idle" THEN UNCHANGED reasons
  ELSE /\ always' = always \cap Reasons'
       /\ lost' = lost \cup (Reasons \ Reasons')
       /\ covered' = (covered /\ Reasons' # {})

\* New: any configured profiles, nobody sandboxed, and no event yet; ev is then
\* any process event.
Init ==
  /\ NF!Init
  /\ \E S \in SUBSET Names : profiles \in [S -> Profiles]
  /\ applied = [p \in {} |-> 0]
  /\ learning \in BOOLEAN
  /\ ev \in {e \in Events : e.kind = "process"} /\ pc = "idle"
  /\ verdict = "none" /\ always = {} /\ lost = {} /\ covered = FALSE
-----------------------------------------------------------------------------
(* handleEvent *)

Take(e) ==
  /\ pc = "idle" /\ ev' = e /\ verdict' = "none"
  /\ pc' = IF e.kind = "network" THEN "blocklist" ELSE "sandbox"
  /\ UNCHANGED <<filter, sandbox, learning>>
  /\ always' = Reasons' /\ lost' = {} /\ covered' = (Reasons' # {})

Decide(v) == verdict' = v /\ pc' = "idle"

CheckBlocklist ==
  /\ pc = "blocklist"
  /\ IF NF!IsBlocked(ev.addr) THEN Decide("blocked")
     ELSE pc' = "rate" /\ UNCHANGED verdict
  /\ UNCHANGED <<filter, sandbox, learning, ev>> /\ Observe

CheckRate ==
  /\ pc = "rate" /\ NF!CheckRateLimit(ev.pid)
  /\ IF NF!Exceeds(ev.pid) THEN Decide("limited")
     ELSE pc' = "sandbox" /\ UNCHANGED verdict
  /\ UNCHANGED <<sandbox, learning, ev>> /\ Observe

\* The sandbox, then learning mode; the rest of handleEvent follows "policy".
CheckSandbox ==
  /\ pc = "sandbox"
  /\ Decide(IF CheckViolation(ev.pid, SandboxAction(ev)) THEN "sandboxed"
            ELSE IF learning THEN "learned" ELSE "policy")
  /\ UNCHANGED <<filter, sandbox, learning, ev>> /\ Observe
-----------------------------------------------------------------------------
(* The others *)

\* AddCIDR, RemoveCIDR, CleanupStale, and time.
FilterChanges ==
  /\ \/ \E t \in NF!Texts : NF!AddCIDR(t) \/ NF!RemoveCIDR(t)
     \/ NF!CleanupStale \/ NF!Tick
  /\ UNCHANGED <<sandbox, handling>> /\ Observe

RegisterProfile(n, p) ==
  /\ profiles' = [m \in DOMAIN profiles \cup {n} |->
                    IF m = n THEN p ELSE profiles[m]]
  /\ UNCHANGED <<filter, applied, handling>> /\ Observe

ApplySandbox(pid, n) ==
  /\ n \in DOMAIN profiles
  /\ applied' = [q \in DOMAIN applied \cup {pid} |->
                   IF q = pid THEN profiles[n] ELSE applied[q]]
  /\ UNCHANGED <<filter, profiles, handling>> /\ Observe

ReleaseSandbox(pid) ==
  /\ applied' = [q \in DOMAIN applied \ {pid} |-> applied[q]]
  /\ UNCHANGED <<filter, profiles, handling>> /\ Observe

Next ==
  \/ \E e \in Events : Take(e)
  \/ CheckBlocklist \/ CheckRate \/ CheckSandbox
  \/ FilterChanges
  \/ \E n \in Names, p \in Profiles : RegisterProfile(n, p)
  \/ \E pid \in Pids, n \in Names : ApplySandbox(pid, n)
  \/ \E pid \in Pids : ReleaseSandbox(pid)

Spec == Init /\ [][Next]_vars
-----------------------------------------------------------------------------
Decided == pc = "idle" /\ verdict # "none"

\* No way past the filter and the sandbox while others change them, learning
\* mode or not.  An event whose address was blocked all the time it was handled
\* is denied for it.  And an event that something spoke against at every moment
\* is denied, even when what spoke against it first was the blocklist and then
\* the profile: handleEvent asks the profile last, so only a profile that is
\* lifted under way leaves a gap.
NoWayPast ==
  Decided => /\ "blocked" \in always => verdict = "blocked"
             /\ covered /\ "sandboxed" \notin lost =>
                  verdict \in {"blocked", "limited", "sandboxed"}

\* The limiter's promises with handleEvent as its caller (see NetFilter): a
\* process is called over its limit only when it made that many connections
\* within the last window, and a stretch of one window lets less than twice the
\* limit through, because fixed windows may be straddled.
RefusedOnEvidence == NF!RefusedOnEvidence
BurstBound == NF!BurstBound

\* internal/enforcer/sandbox.go:19, "restrict to read-only": opening a file
\* without writing to it is not against the profile.
SandboxedForReason == verdict = "sandboxed" /\ ev.kind = "file" => ev.writes
=============================================================================
