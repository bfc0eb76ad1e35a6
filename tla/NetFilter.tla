------------------------------ MODULE NetFilter ------------------------------
(***************************************************************************)
(* The enforcer's network filter (internal/enforcer/netfilter.go): a list  *)
(* of blocked networks that can be changed while it is used, and a limit   *)
(* on each process's connections per window.  Every operation holds the    *)
(* filter's mutex, so each is one action.                                  *)
(*                                                                         *)
(* A network is the set of its addresses.  A text that names one is        *)
(* canonical when it is what net.IPNet.String prints; "10.1.2.3/8" and a   *)
(* bare "10.1.2.3" are accepted by AddCIDR and are not.                    *)
(***************************************************************************)
EXTENDS Integers, Sequences

CONSTANTS Pids, Addrs,
          Nets,      \* the networks that are named, as sets of addresses
          Limit,     \* rateLimit; 0 or less switches the limiter off
          Window,    \* ticks in a window
          MaxBlocks  \* bound: entries of the blocklist

VARIABLES
  blocklist,  \* the networks, in the order they were added
  connCounts, \* per pid with a window: its count, and the ticks left
  attempts,   \* history: per pid, ages of its latest checked connections
  passes      \* history: per pid, ages of the latest ones let through

vars == <<blocklist, connCounts, attempts, passes>>
history == <<attempts, passes>>

Texts == [net : Nets, canonical : BOOLEAN]

\* A window is over when now.After(resetAt): after its last tick, at -1.
\* Counts above the limit are alike.
ConnWindow == [count : 1..(Limit + 1), left : -1..Window]

\* The histories hold what the properties can ask for and no more.
KeptAttempts == Limit + 1
KeptPasses == 2 * Limit + 1

TypeOK ==
  /\ blocklist \in Seq(Nets) /\ Len(blocklist) <= MaxBlocks
  /\ DOMAIN connCounts \subseteq Pids
  /\ \A p \in DOMAIN connCounts : connCounts[p] \in ConnWindow
  /\ \A p \in Pids : /\ attempts[p] \in Seq(0..Window)
                     /\ passes[p] \in Seq(0..Window)
                     /\ Len(attempts[p]) <= KeptAttempts
                     /\ Len(passes[p]) <= KeptPasses

\* NewNetFilter, with any configured list.
Init ==
  /\ blocklist \in {<< >>} \cup {<<n>> : n \in Nets}
  /\ connCounts = [p \in {} |-> 0]
  /\ attempts = [p \in Pids |-> << >>] /\ passes = [p \in Pids |-> << >>]
-----------------------------------------------------------------------------
IsBlocked(a) == \E i \in DOMAIN blocklist : a \in blocklist[i]

\* The newest age goes in front; older ones beyond n are forgotten.
Note(list, n) == SubSeq(<<0>> \o list, 1, IF Len(list) < n THEN Len(list) + 1 ELSE n)

\* Mutant of Live: a window never ends.
LiveForever(p) == p \in DOMAIN connCounts

Live(p) == p \in DOMAIN connCounts /\ connCounts[p].left >= 0

\* Does CheckRateLimit report that p is over its limit?
Exceeds(p) == Limit > 0 /\ Live(p) /\ connCounts[p].count >= Limit

\* The window of p after one more connection.
Counted(p) ==
  IF Live(p) THEN [connCounts[p] EXCEPT !.count = IF @ <= Limit THEN @ + 1 ELSE @]
  ELSE [count |-> 1, left |-> Window]

CheckRateLimit(p) ==
  /\ connCounts' = IF Limit > 0
                   THEN [q \in DOMAIN connCounts \cup {p} |->
                           IF q = p THEN Counted(p) ELSE connCounts[q]]
                   ELSE connCounts
  /\ attempts' = [attempts EXCEPT ![p] = Note(@, KeptAttempts)]
  /\ passes' = IF Exceeds(p) THEN passes
               ELSE [passes EXCEPT ![p] = Note(@, KeptPasses)]
  /\ UNCHANGED blocklist

AddCIDR(t) ==
  /\ Len(blocklist) < MaxBlocks
  /\ blocklist' = Append(blocklist, t.net)
  /\ UNCHANGED <<connCounts, history>>

Named(t) == {i \in DOMAIN blocklist : t.canonical /\ blocklist[i] = t.net}
First(S) == CHOOSE i \in S : \A j \in S : i <= j

\* The first entry that prints as t goes; none when t is not canonical.
Removed(t) ==
  LET i == First(Named(t)) IN
  IF Named(t) = {} THEN blocklist
  ELSE SubSeq(blocklist, 1, i - 1) \o SubSeq(blocklist, i + 1, Len(blocklist))

RemoveCIDR(t) ==
  /\ blocklist' = Removed(t)
  /\ UNCHANGED <<connCounts, history>>

\* Mutant of CleanupStale: live windows go too.
CleanupStaleAll ==
  /\ connCounts' = [p \in {} |-> 0]
  /\ UNCHANGED <<blocklist, history>>

CleanupStale ==
  /\ connCounts' = [p \in {q \in DOMAIN connCounts : Live(q)} |-> connCounts[p]]
  /\ UNCHANGED <<blocklist, history>>

\* How many of the ages, the newest first, are still in the window a tick later.
StillIn(list) ==
  CHOOSE n \in 0..Len(list) : \A i \in DOMAIN list : list[i] < Window <=> i <= n

Aged(list) == [i \in 1..StillIn(list) |-> list[i] + 1]

Tick ==
  /\ connCounts' = [p \in DOMAIN connCounts |->
                      [connCounts[p] EXCEPT !.left = IF @ >= 0 THEN @ - 1 ELSE @]]
  /\ attempts' = [p \in Pids |-> Aged(attempts[p])]
  /\ passes' = [p \in Pids |-> Aged(passes[p])]
  /\ UNCHANGED blocklist

Next ==
  \/ \E p \in Pids : CheckRateLimit(p)
  \/ \E t \in Texts : AddCIDR(t) \/ RemoveCIDR(t)
  \/ CleanupStale \/ Tick

Spec == Init /\ [][Next]_vars
-----------------------------------------------------------------------------
\* A process is refused only on evidence: when CheckRateLimit says it is over
\* the limit, it made more than Limit connections, this one included, within
\* the last Window (no count survives its window or a cleanup).
RefusedOnEvidence ==
  \A p \in Pids : Exceeds(p) => Len(attempts[p]) >= Limit

\* Windows are fixed, not sliding, so a burst may straddle two of them, and a
\* stretch of Window ticks lets more than the limit through; but never twice the
\* limit, because the connection that opened the first window is older.
BurstBound ==
  Limit > 0 => \A p \in Pids : Len(passes[p]) < 2 * Limit

\* internal/enforcer/netfilter.go:124, "RemoveCIDR removes a CIDR from the
\* blocklist": the network that a text names is not on the list after
\* RemoveCIDR of that text.
RemoveRemoves == \A t \in Texts : \A i \in DOMAIN Removed(t) : Removed(t)[i] # t.net
=============================================================================
