--------------------------- MODULE EventPathProofs ---------------------------
(***************************************************************************)
(* No way past the filter and the sandbox, for any processes, addresses,   *)
(* profiles and limits.  The inductive invariant says what each stage of   *)
(* handleEvent has already excluded: an event past the blocklist was not   *)
(* blocked all the time, and its profile speaks against it if something    *)
(* did at every moment.                                                    *)
(*                                                                         *)
(* The rate limiter refuses on evidence and lets less than two limits      *)
(* through in the length of a window, for any limit and window: LimiterInv *)
(* relates the counter of a live window to the ages of what it counted.    *)
(***************************************************************************)
EXTENDS EventPath, SequenceTheorems, WellFoundedInduction, TLAPS

Handling == pc \in {"blocklist", "rate", "sandbox"}

\* The profile still speaks against the event, unless it was lifted or there was
\* a moment when nothing did.
StillConfined == covered /\ "sandboxed" \notin lost => Confined(ev)

Inv ==
  /\ pc \in {"idle", "blocklist", "rate", "sandbox"}
  /\ Handling => verdict = "none"
  /\ pc \in {"blocklist", "rate"} => ev.kind = "network"
  /\ pc \in {"rate", "sandbox"} => "blocked" \notin always /\ StillConfined
  /\ NoWayPast

LEMMA SandboxedReason ==
  /\ ("sandboxed" \in Reasons) <=> Confined(ev)
  /\ ("sandboxed" \in Reasons') <=> Confined(ev)'
BY DEF Reasons

\* Whatever the step, a profile that spoke against the event still does, unless
\* the history says otherwise.
LEMMA ObserveConfined ==
  ASSUME Observe, pc # "idle", StillConfined
  PROVE  StillConfined'
<1>1. /\ lost' = lost \cup (Reasons \ Reasons')
      /\ covered' = (covered /\ Reasons' # {})
  BY DEF Observe
<1>2. ASSUME covered', "sandboxed" \notin lost' PROVE "sandboxed" \in Reasons'
  <2>1. covered /\ "sandboxed" \notin lost
    BY <1>1, <1>2
  <2>2. "sandboxed" \in Reasons
    BY <2>1, SandboxedReason DEF StillConfined
  <2> QED BY <1>1, <1>2, <2>2
<1> QED BY <1>2, SandboxedReason DEF StillConfined

\* Another goroutine's step, or a stutter of the handling.
LEMMA OthersKeep ==
  ASSUME Inv, UNCHANGED handling, Observe
  PROVE  Inv'
<1>1. UNCHANGED <<pc, ev, verdict>>
  BY DEF handling
<1>2. CASE pc = "idle"
  <2>1. UNCHANGED <<always, lost, covered>>
    BY <1>2 DEF Observe, reasons
  <2> QED BY <1>1, <1>2, <2>1 DEF Inv, Handling, NoWayPast, Decided
<1>3. CASE pc # "idle"
  <2>1. always' = always \cap Reasons'
    BY <1>3 DEF Observe
  <2>2. pc \in {"rate", "sandbox"} => StillConfined'
    BY <1>3, ObserveConfined DEF Inv
  <2> QED BY <1>1, <1>3, <2>1, <2>2 DEF Inv, Handling, NoWayPast, Decided
<1> QED BY <1>2, <1>3

\* An event that nothing blocks at the end of a step was not blocked all the
\* time.
LEMMA ObserveDrops ==
  ASSUME Observe, pc # "idle", NEW r \in {"blocked", "sandboxed"}, r \notin Reasons'
  PROVE  r \notin always'
BY DEF Observe

\* The blocklist is not changed by the stages that leave the filter alone.
LEMMA SameBlocked ==
  ASSUME UNCHANGED filter, UNCHANGED ev
  PROVE  ("blocked" \in Reasons') <=> (ev.kind = "network" /\ NF!IsBlocked(ev.addr))
BY DEF filter, Reasons, NF!IsBlocked

\* With no address to block, only the profile can speak against the event.
LEMMA OnlyProfile ==
  ASSUME covered' => Reasons' # {}, "blocked" \notin Reasons'
  PROVE  StillConfined'
<1>1. Reasons' \subseteq {"blocked", "sandboxed"}
  BY DEF Reasons
<1>2. covered' => "sandboxed" \in Reasons'
  BY <1>1
<1> QED BY <1>2, SandboxedReason DEF StillConfined

LEMMA InitInv == Init => Inv
BY DEF Init, Inv, Handling, NoWayPast, Decided

LEMMA TakeInv ==
  ASSUME Inv, NEW e \in Events, Take(e)
  PROVE  Inv'
<1>1. verdict' = "none" /\ ev' = e /\ always' = Reasons'
      /\ covered' = (Reasons' # {})
  BY DEF Take
<1>2. CASE e.kind = "network"
  <2>1. pc' = "blocklist"
    BY <1>2 DEF Take
  <2> QED BY <1>1, <1>2, <2>1
      DEF Inv, Handling, NoWayPast, Decided
<1>3. CASE e.kind # "network"
  <2>1. pc' = "sandbox"
    BY <1>3 DEF Take
  <2>2. "blocked" \notin Reasons'
    BY <1>1, <1>3 DEF Reasons
  <2>3. StillConfined'
    BY <1>1, <2>2, OnlyProfile
  <2> QED BY <1>1, <2>1, <2>2, <2>3
      DEF Inv, Handling, NoWayPast, Decided
<1> QED BY <1>2, <1>3

LEMMA BlocklistInv ==
  ASSUME Inv, CheckBlocklist
  PROVE  Inv'
<1>1. UNCHANGED filter /\ UNCHANGED ev /\ Observe /\ ev.kind = "network"
      /\ pc # "idle"
  BY DEF CheckBlocklist, Inv
<1>2. ("blocked" \in Reasons') <=> NF!IsBlocked(ev.addr)
  BY <1>1, SameBlocked
<1>3. CASE NF!IsBlocked(ev.addr)
  <2>1. pc' = "idle" /\ verdict' = "blocked"
    BY <1>3 DEF CheckBlocklist, Decide
  <2> QED BY <2>1 DEF Inv, Handling, NoWayPast, Decided
<1>4. CASE ~NF!IsBlocked(ev.addr)
  <2>1. pc' = "rate" /\ verdict' = "none"
    BY <1>4 DEF CheckBlocklist, Inv, Handling
  <2>2. "blocked" \notin Reasons'
    BY <1>2, <1>4
  <2>3. "blocked" \notin always' /\ (covered' => Reasons' # {})
    BY <1>1, <2>2 DEF Observe
  <2>4. StillConfined'
    BY <2>2, <2>3, OnlyProfile
  <2> QED BY <1>1, <2>1, <2>3, <2>4
      DEF Inv, Handling, NoWayPast, Decided
<1> QED BY <1>3, <1>4

LEMMA RateInv ==
  ASSUME Inv, CheckRate
  PROVE  Inv'
<1>1. UNCHANGED ev /\ "blocked" \notin always /\ StillConfined /\ verdict = "none"
      /\ Observe /\ pc # "idle"
  BY DEF CheckRate, Inv, Handling
<1>2. "blocked" \notin always'
  BY <1>1 DEF Observe
<1>3. StillConfined'
  BY <1>1, ObserveConfined
<1>4. \/ pc' = "idle" /\ verdict' = "limited"
      \/ pc' = "sandbox" /\ verdict' = "none"
  BY <1>1 DEF CheckRate, Decide
<1> QED BY <1>2, <1>3, <1>4 DEF Inv, Handling, NoWayPast, Decided

LEMMA SandboxInv ==
  ASSUME Inv, ev \in Events, CheckSandbox
  PROVE  Inv'
<1>1. UNCHANGED sandbox /\ UNCHANGED ev /\ Observe /\ pc' = "idle"
      /\ pc # "idle" /\ "blocked" \notin always /\ StillConfined
  BY DEF CheckSandbox, Inv, Decide
<1>2. "blocked" \notin always'
  BY <1>1 DEF Observe
<1>3. CASE CheckViolation(ev.pid, SandboxAction(ev))
  <2>1. verdict' = "sandboxed"
    BY <1>3 DEF CheckSandbox, Decide
  <2> QED BY <1>1, <1>2, <2>1, SMTT(30), Z3T(30) DEF Inv, Handling, NoWayPast,
             Decided
<1>4. CASE ~CheckViolation(ev.pid, SandboxAction(ev))
  <2>1. ~Confined(ev)
    BY <1>4 DEF CheckViolation, SandboxAction, Confined, Actions
  <2>2. ~(covered' /\ "sandboxed" \notin lost')
    BY <1>1, <2>1 DEF Observe, StillConfined
  <2> QED BY <1>1, <1>2, <2>2 DEF Inv, Handling, NoWayPast, Decided
<1> QED BY <1>3, <1>4

LEMMA NextInv ==
  ASSUME Inv, ev \in Events, [Next]_vars
  PROVE  Inv' /\ (ev \in Events)'
<1>1. CASE UNCHANGED vars
  <2>1. UNCHANGED <<pc, ev, verdict, always, lost, covered, applied>>
    BY <1>1 DEF vars, handling, reasons, sandbox
  <2>2. UNCHANGED StillConfined
    BY <2>1 DEF StillConfined, Confined
  <2> QED BY <2>1, <2>2 DEF Inv, Handling, NoWayPast, Decided
<1>2. CASE \E e \in Events : Take(e)
  BY <1>2, TakeInv DEF Take
<1>3. CASE CheckBlocklist
  BY <1>3, BlocklistInv DEF CheckBlocklist
<1>4. CASE CheckRate
  BY <1>4, RateInv, SMTT(30), Z3T(30) DEF CheckRate
<1>5. CASE CheckSandbox
  BY <1>5, SandboxInv DEF CheckSandbox
<1>6. ASSUME UNCHANGED handling, Observe
      PROVE  Inv' /\ (ev \in Events)'
  <2>1. ev' = ev
    BY <1>6 DEF handling
  <2> QED BY <1>6, <2>1, OthersKeep
<1>7. CASE FilterChanges
  BY <1>6, <1>7 DEF FilterChanges
<1>8. CASE \E n \in Names, p \in Profiles : RegisterProfile(n, p)
  BY <1>6, <1>8 DEF RegisterProfile
<1>9. CASE \E pid \in Pids, n \in Names : ApplySandbox(pid, n)
  BY <1>6, <1>9 DEF ApplySandbox
<1>10. CASE \E pid \in Pids : ReleaseSandbox(pid)
  BY <1>6, <1>10 DEF ReleaseSandbox
<1> QED BY <1>1, <1>2, <1>3, <1>4, <1>5, <1>7, <1>8, <1>9, <1>10, SMTT(30),
           Z3T(30) DEF Next

\* handleEvent denies an event that was blocked all the while, and one that
\* something spoke against at every moment unless its profile was lifted under
\* way, whoever changes the blocklist and the profiles meanwhile.
THEOREM NobodyGetsPast == Spec => []NoWayPast
<1>1. Init => Inv /\ ev \in Events
  BY InitInv DEF Init
<1>2. (Inv /\ ev \in Events) /\ [Next]_vars => (Inv /\ ev \in Events)'
  BY NextInv
<1>3. Inv => NoWayPast
  BY DEF Inv
<1> QED BY <1>1, <1>2, <1>3, PTL DEF Spec
-----------------------------------------------------------------------------
(* The connection limiter, for every limit and window. *)

Ages == 0..Window

\* A history has its newest entry first.
Sorted(list) == \A i, j \in DOMAIN list : i <= j => list[i] <= list[j]

\* How long the window of p has been open, and how many of its connections
\* it has let through.
OpenFor(p) == Window - connCounts[p].left
Through(p) == IF connCounts[p].count < Limit THEN connCounts[p].count ELSE Limit

\* A live window's count is of connections made since it opened.
Attempted(p) ==
  NF!Live(p) =>
    /\ connCounts[p].count <= Len(attempts[p])
    /\ \A i \in 1..connCounts[p].count : attempts[p][i] <= OpenFor(p)

\* The connection that opened a live window is as old as the window; what was
\* let through before it is older, and less than one window's worth, because
\* the opener of the window before is too old to count.  Without a live window
\* nothing is newer than the last tick.
Passed(p) ==
  IF NF!Live(p)
  THEN /\ Through(p) \in DOMAIN passes[p] /\ passes[p][Through(p)] = OpenFor(p)
       /\ Len(passes[p]) < Through(p) + Limit
       /\ \A i \in DOMAIN passes[p] : i > Through(p) => passes[p][i] > OpenFor(p)
  ELSE /\ Len(passes[p]) < Limit
       /\ \A i \in DOMAIN passes[p] : passes[p][i] > 0

LimiterTyped ==
  /\ attempts \in [Pids -> Seq(Ages)] /\ passes \in [Pids -> Seq(Ages)]
  /\ \A p \in DOMAIN connCounts : connCounts[p] \in NF!ConnWindow
  /\ \A p \in Pids : /\ Sorted(attempts[p]) /\ Sorted(passes[p])
                     /\ Len(attempts[p]) <= NF!KeptAttempts
                     /\ Len(passes[p]) <= NF!KeptPasses

LimiterInv ==
  /\ LimiterTyped
  /\ Limit > 0 => \A p \in Pids : Attempted(p) /\ Passed(p)

\* A nonempty set of naturals has a least element.
LEMMA Minimal ==
  ASSUME NEW S, S \subseteq Nat, S # {}, NEW R, IsWellFoundedOn(R, Nat)
  PROVE  \E x \in S : \A y \in S : ~(<<y, x>> \in R)
  BY WFMin, ZenonT(60)

LEMMA LeastIn ==
  ASSUME NEW S, S \subseteq Nat, S # {}, NEW R, IsWellFoundedOn(R, Nat),
         \A x, y \in Nat : x < y => <<x, y>> \in R
  PROVE  \E x \in S : \A y \in S : x <= y
<1>1. PICK x \in S : \A y \in S : ~(<<y, x>> \in R)
  <2>1. \E x \in S : \A y \in S : ~(<<y, x>> \in R)
    BY Minimal, Zenon
  <2>2. QED
    BY <2>1
<1>2. \A y \in S : x <= y
  <2> TAKE y \in S
  <2>1. x \in Nat /\ y \in Nat /\ ~(y < x)
    BY <1>1, Zenon
  <2>2. QED
    BY <2>1
<1>3. QED
  BY <1>2

LEMMA Least ==
  ASSUME NEW S, S \subseteq Nat, S # {}
  PROVE  \E x \in S : \A y \in S : x <= y
<1> DEFINE R == OpToRel(<, Nat)
<1>1. \A x, y \in Nat : x < y => <<x, y>> \in R
  BY DEF OpToRel
<1>2. QED
  BY <1>1, NatLessThanWellFounded, LeastIn

\* The ages of a sorted list that stay within the window are a prefix of it.
LEMMA StillInPrefix ==
  ASSUME NEW list \in Seq(Ages), Sorted(list)
  PROVE  /\ NF!StillIn(list) \in 0..Len(list)
         /\ \A i \in DOMAIN list : list[i] < Window <=> i <= NF!StillIn(list)
<1> DEFINE P(n) == \A i \in DOMAIN list : list[i] < Window <=> i <= n
<1>1. /\ DOMAIN list = 1..Len(list) /\ Len(list) \in Nat /\ Window \in Nat
      /\ \A i \in DOMAIN list : list[i] \in Int
  BY EventPathAssumption DEF Ages
<1>2. \E n \in 0..Len(list) : P(n)
  <2> DEFINE S == {i \in DOMAIN list : ~(list[i] < Window)}
  <2>1. CASE S = {}
    <3>1. P(Len(list))
      <4>1. \A i \in DOMAIN list : list[i] < Window
        BY <2>1, Zenon
      <4>2. \A i \in DOMAIN list : i <= Len(list)
        BY <1>1
      <4>3. QED
        BY <4>1, <4>2, Zenon
    <3>2. Len(list) \in 0..Len(list)
      BY <1>1
    <3> HIDE DEF P
    <3>3. QED
      BY <3>1, <3>2, Zenon
  <2>2. CASE S # {}
    <3>1. S \subseteq Nat
      BY <1>1
    <3> HIDE DEF S
    <3>2. PICK x \in S : \A y \in S : x <= y
      BY <2>2, <3>1, Least, Zenon
    <3> USE DEF S
    <3>3. x \in 1..Len(list) /\ ~(list[x] < Window) /\ x - 1 \in 0..Len(list)
      BY <1>1
    <3>4. ASSUME NEW i \in DOMAIN list PROVE list[i] < Window <=> i <= x - 1
      <4>1. CASE i <= x - 1
        BY <1>1, <3>2, <3>3, <4>1
      <4>2. CASE ~(i <= x - 1)
        <5>1. list[x] <= list[i]
          BY <1>1, <3>3, <4>2 DEF Sorted
        <5>2. QED
          BY <1>1, <3>3, <4>2, <5>1
      <4>3. QED
        BY <4>1, <4>2
    <3>5. P(x - 1) /\ x - 1 \in 0..Len(list)
      BY <3>3, <3>4, Zenon
    <3> HIDE DEF P
    <3>6. QED
      BY <3>5, Zenon
  <2>3. QED
    BY <2>1, <2>2
<1>3. NF!StillIn(list) = CHOOSE n \in 0..Len(list) : P(n)
  BY DEF NF!StillIn
<1> HIDE DEF P
<1>4. NF!StillIn(list) \in 0..Len(list) /\ P(NF!StillIn(list))
  BY <1>2, <1>3
<1>5. QED
  BY <1>4 DEF P

\* A tick on a history: a prefix of it stays, each entry one tick older, and
\* an entry younger than the window stays.
LEMMA AgedPrefix ==
  ASSUME NEW list \in Seq(Ages), Sorted(list)
  PROVE  /\ NF!Aged(list) \in Seq(Ages) /\ Sorted(NF!Aged(list))
         /\ Len(NF!Aged(list)) <= Len(list)
         /\ \A i \in DOMAIN NF!Aged(list) : /\ i \in DOMAIN list
                                            /\ NF!Aged(list)[i] = list[i] + 1
         /\ \A i \in DOMAIN list : list[i] < Window => i <= Len(NF!Aged(list))
<1> DEFINE n == NF!StillIn(list)
           w == [i \in 1..n |-> list[i] + 1]
<1>1. /\ n \in 0..Len(list) /\ \A i \in DOMAIN list : list[i] < Window <=> i <= n
  BY StillInPrefix
<1>2. /\ DOMAIN list = 1..Len(list) /\ Len(list) \in Nat /\ Window \in Nat
      /\ \A i \in DOMAIN list : list[i] \in 0..Window
  BY EventPathAssumption DEF Ages
<1>3. NF!Aged(list) = w
  BY DEF NF!Aged
<1> HIDE DEF n
<1>4. \A i \in 1..n : i \in DOMAIN list /\ list[i] + 1 \in 0..Window
  BY <1>1, <1>2
<1>5. w \in Seq(Ages) /\ Len(w) = n /\ DOMAIN w = 1..n
  BY <1>1, <1>2, <1>4 DEF Ages
<1>6. Sorted(w)
  <2> SUFFICES ASSUME NEW i \in DOMAIN w, NEW j \in DOMAIN w, i <= j
               PROVE  w[i] <= w[j]
    BY DEF Sorted
  <2>1. /\ w[i] = list[i] + 1 /\ w[j] = list[j] + 1
        /\ i \in DOMAIN list /\ j \in DOMAIN list
    BY <1>4, <1>5
  <2>2. list[i] <= list[j]
    BY <2>1 DEF Sorted
  <2>3. QED
    BY <1>2, <2>1, <2>2
<1>7. QED
  BY <1>1, <1>2, <1>3, <1>4, <1>5, <1>6

\* One more entry: it goes in front, and the others move up; the oldest goes
\* when the history is full.
LEMMA Noted ==
  ASSUME NEW list \in Seq(Ages), Sorted(list), NEW n \in Nat \ {0},
         Len(list) <= n
  PROVE  /\ NF!Note(list, n) \in Seq(Ages) /\ Sorted(NF!Note(list, n))
         /\ Len(NF!Note(list, n)) = IF Len(list) < n THEN Len(list) + 1 ELSE n
         /\ NF!Note(list, n)[1] = 0
         /\ \A i \in 2..Len(NF!Note(list, n)) :
              i - 1 \in DOMAIN list /\ NF!Note(list, n)[i] = list[i - 1]
<1> DEFINE w == <<0>> \o list
           k == IF Len(list) < n THEN Len(list) + 1 ELSE n
           s == SubSeq(w, 1, k)
<1>1. /\ w \in Seq(Ages) /\ Len(w) = Len(list) + 1 /\ w[1] = 0
      /\ Len(list) \in Nat /\ DOMAIN list = 1..Len(list)
  BY EventPathAssumption DEF Ages
<1>2. \A i \in 2..(Len(list) + 1) : w[i] = list[i - 1]
  OBVIOUS
<1>3. k \in 1..Len(w)
  BY <1>1
<1>4. NF!Note(list, n) = s
  BY DEF NF!Note
<1> HIDE DEF w, k
<1>5. /\ s \in Seq(Ages) /\ Len(s) = k
      /\ \A i \in 1..k : s[i] = w[i]
  BY <1>1, <1>3, SubSeqProperties
<1>6. s[1] = 0 /\ \A i \in 2..k : i - 1 \in DOMAIN list /\ s[i] = list[i - 1]
  BY <1>1, <1>2, <1>3, <1>5
<1> HIDE DEF s
<1>7. \A i \in DOMAIN list : list[i] >= 0 /\ list[i] \in Int
  BY EventPathAssumption DEF Ages
<1>8. Sorted(s)
  <2> SUFFICES ASSUME NEW i \in DOMAIN s, NEW j \in DOMAIN s, i <= j
               PROVE  s[i] <= s[j]
    BY DEF Sorted
  <2>1. i \in 1..k /\ j \in 1..k
    BY <1>5
  <2>2. CASE i = 1
    <3>1. j = 1 \/ j \in 2..k
      BY <1>1, <1>3, <2>1
    <3>2. s[j] >= 0 /\ s[j] \in Int
      BY <1>6, <1>7, <3>1
    <3>3. QED
      BY <1>6, <2>2, <3>2
  <2>3. CASE i # 1
    <3>1. /\ i - 1 \in DOMAIN list /\ j - 1 \in DOMAIN list
          /\ s[i] = list[i - 1] /\ s[j] = list[j - 1] /\ i - 1 <= j - 1
      BY <1>3, <1>6, <2>1, <2>3
    <3>2. QED
      BY <3>1 DEF Sorted
  <2>4. QED
    BY <2>2, <2>3
<1>9. QED
  BY <1>4, <1>5, <1>6, <1>8 DEF k

LEMMA LimiterStart == Init => LimiterInv
<1> SUFFICES ASSUME Init PROVE LimiterInv
  OBVIOUS
<1>1. << >> \in Seq(Ages) /\ Len(<< >>) = 0 /\ DOMAIN << >> = {}
  OBVIOUS
<1>2. /\ attempts = [p \in Pids |-> << >>] /\ passes = [p \in Pids |-> << >>]
      /\ DOMAIN connCounts = {}
  BY DEF Init, NF!Init
<1>3. \A p \in Pids : ~NF!Live(p)
  BY <1>2 DEF NF!Live
<1>4. LimiterTyped
  BY <1>1, <1>2, EventPathAssumption
     DEF LimiterTyped, Sorted, NF!KeptAttempts, NF!KeptPasses
<1>5. Limit > 0 => \A p \in Pids : Attempted(p) /\ Passed(p)
  BY <1>1, <1>2, <1>3, EventPathAssumption DEF Attempted, Passed
<1>6. QED
  BY <1>4, <1>5 DEF LimiterInv

\* What no window and no history of p changes, keeps the limiter's state of p.
LEMMA LimiterSame ==
  ASSUME NEW p \in Pids, Attempted(p), Passed(p),
         attempts'[p] = attempts[p], passes'[p] = passes[p],
         NF!Live(p)' <=> NF!Live(p),
         NF!Live(p) => connCounts'[p] = connCounts[p]
  PROVE  Attempted(p)' /\ Passed(p)'
<1>1. CASE NF!Live(p)
  BY <1>1 DEF Attempted, Passed, OpenFor, Through
<1>2. CASE ~NF!Live(p)
  BY <1>2 DEF Attempted, Passed
<1>3. QED
  BY <1>1, <1>2

LEMMA LimiterTick ==
  ASSUME LimiterInv, NF!Tick
  PROVE  LimiterInv'
<1> USE EventPathAssumption
<1>1. /\ attempts' = [p \in Pids |-> NF!Aged(attempts[p])]
      /\ passes' = [p \in Pids |-> NF!Aged(passes[p])]
      /\ DOMAIN connCounts' = DOMAIN connCounts
  BY DEF NF!Tick
<1>2. ASSUME NEW p \in DOMAIN connCounts
      PROVE  /\ connCounts[p] \in NF!ConnWindow /\ connCounts'[p] \in NF!ConnWindow
             /\ connCounts'[p].count = connCounts[p].count
             /\ connCounts'[p].left = IF connCounts[p].left >= 0
                                      THEN connCounts[p].left - 1
                                      ELSE connCounts[p].left
  <2>1. connCounts[p] \in [count : 1..(Limit + 1), left : -1..Window]
    BY DEF LimiterInv, LimiterTyped, NF!ConnWindow
  <2>2. connCounts'[p] =
          [connCounts[p] EXCEPT !.left = IF connCounts[p].left >= 0
                                         THEN connCounts[p].left - 1
                                         ELSE connCounts[p].left]
    BY DEF NF!Tick
  <2>3. QED
    BY <2>1, <2>2 DEF NF!ConnWindow
<1>3. ASSUME NEW p \in Pids
      PROVE  /\ attempts[p] \in Seq(Ages) /\ Sorted(attempts[p])
             /\ passes[p] \in Seq(Ages) /\ Sorted(passes[p])
             /\ attempts'[p] = NF!Aged(attempts[p])
             /\ passes'[p] = NF!Aged(passes[p])
  BY <1>1 DEF LimiterInv, LimiterTyped
<1>4. LimiterTyped'
  <2>1. ASSUME NEW p \in Pids
        PROVE  /\ attempts'[p] \in Seq(Ages) /\ Sorted(attempts'[p])
               /\ passes'[p] \in Seq(Ages) /\ Sorted(passes'[p])
               /\ Len(attempts'[p]) <= Len(attempts[p])
               /\ Len(passes'[p]) <= Len(passes[p])
    BY <1>3, AgedPrefix
  <2>2. ASSUME NEW p \in Pids
        PROVE  /\ Len(attempts'[p]) <= NF!KeptAttempts
               /\ Len(passes'[p]) <= NF!KeptPasses
    <3>1. /\ Len(attempts'[p]) \in Nat /\ Len(attempts[p]) \in Nat
          /\ Len(passes'[p]) \in Nat /\ Len(passes[p]) \in Nat
      BY <1>3, <2>1
    <3>2. /\ Len(attempts[p]) <= NF!KeptAttempts
          /\ Len(passes[p]) <= NF!KeptPasses
      BY DEF LimiterInv, LimiterTyped
    <3>3. QED
      BY <2>1, <3>1, <3>2 DEF NF!KeptAttempts, NF!KeptPasses
  <2>3. attempts' \in [Pids -> Seq(Ages)] /\ passes' \in [Pids -> Seq(Ages)]
    BY <1>1, <1>3, <2>1
  <2>4. QED
    BY <1>1, <1>2, <2>1, <2>2, <2>3 DEF LimiterTyped, NF!ConnWindow,
       NF!KeptAttempts, NF!KeptPasses, Ages, Sorted
<1>5. ASSUME NEW p \in Pids, Limit > 0 PROVE Attempted(p)'
  <2> SUFFICES ASSUME NF!Live(p)'
               PROVE  /\ connCounts'[p].count <= Len(attempts'[p])
                      /\ \A i \in 1..connCounts'[p].count :
                           attempts'[p][i] <= OpenFor(p)'
    BY DEF Attempted
  <2>1. /\ p \in DOMAIN connCounts /\ NF!Live(p)
        /\ connCounts'[p].left = connCounts[p].left - 1
        /\ connCounts'[p].count = connCounts[p].count
        /\ connCounts[p].left \in 1..Window
        /\ connCounts[p].count \in 1..(Limit + 1)
    BY <1>1, <1>2 DEF NF!Live, NF!ConnWindow
  <2> DEFINE c == connCounts[p].count
             old == attempts[p]
             new == attempts'[p]
  <2>2. c <= Len(old) /\ \A i \in 1..c : old[i] <= OpenFor(p)
    BY <1>5, <2>1 DEF LimiterInv, Attempted
  <2>3. OpenFor(p) \in 0..(Window - 1) /\ OpenFor(p)' = OpenFor(p) + 1
    BY <2>1 DEF OpenFor
  <2>4. /\ old \in Seq(Ages) /\ new \in Seq(Ages)
        /\ \A i \in DOMAIN new : new[i] = old[i] + 1
        /\ \A i \in DOMAIN old : old[i] < Window => i <= Len(new)
    BY <1>3, AgedPrefix
  <2>5. c \in DOMAIN old /\ old[c] < Window
    <3>1. c \in DOMAIN old /\ c \in 1..c
      BY <2>1, <2>2, <2>4
    <3>2. old[c] <= OpenFor(p) /\ old[c] \in Ages
      BY <2>2, <2>4, <3>1
    <3>3. QED
      BY <2>3, <3>1, <3>2 DEF Ages
  <2>6. c <= Len(new)
    BY <2>4, <2>5
  <2>7. ASSUME NEW i \in 1..c PROVE new[i] <= OpenFor(p)'
    <3>1. i \in DOMAIN new /\ i \in DOMAIN old /\ old[i] <= OpenFor(p)
      BY <2>1, <2>2, <2>4, <2>6
    <3>2. new[i] = old[i] + 1 /\ old[i] \in Ages
      BY <2>4, <3>1
    <3>3. QED
      BY <2>3, <3>1, <3>2 DEF Ages
  <2>8. QED
    BY <2>1, <2>6, <2>7
<1>6. ASSUME NEW p \in Pids, Limit > 0 PROVE Passed(p)'
  <2> DEFINE old == passes[p]
             new == passes'[p]
  <2>1. /\ old \in Seq(Ages) /\ new \in Seq(Ages) /\ Len(new) <= Len(old)
        /\ \A i \in DOMAIN new : i \in DOMAIN old /\ new[i] = old[i] + 1
        /\ \A i \in DOMAIN old : old[i] < Window => i <= Len(new)
    BY <1>3, AgedPrefix
  <2>2. \A i \in DOMAIN old : old[i] \in 0..Window
    BY <2>1 DEF Ages
  <2>3. \A i \in DOMAIN new : new[i] > 0
    BY <2>1, <2>2
  <2>4. /\ Len(old) \in Nat /\ Len(new) \in Nat
        /\ DOMAIN old = 1..Len(old) /\ DOMAIN new = 1..Len(new)
    BY <2>1
  <2>5. Passed(p)
    BY <1>6 DEF LimiterInv
  <2> HIDE DEF old, new
  <2>6. CASE NF!Live(p)'
    <3>1. /\ p \in DOMAIN connCounts /\ NF!Live(p)
          /\ connCounts'[p].left = connCounts[p].left - 1
          /\ connCounts'[p].count = connCounts[p].count
          /\ connCounts[p].left \in 1..Window
          /\ connCounts[p].count \in 1..(Limit + 1)
      BY <1>1, <1>2, <2>6 DEF NF!Live, NF!ConnWindow
    <3>2. /\ OpenFor(p)' = OpenFor(p) + 1 /\ Through(p)' = Through(p)
          /\ OpenFor(p) \in Int /\ Through(p) \in Nat
      BY <3>1 DEF OpenFor, Through
    <3>3. /\ Through(p) \in DOMAIN old /\ old[Through(p)] = OpenFor(p)
          /\ Len(old) < Through(p) + Limit
          /\ \A i \in DOMAIN old : i > Through(p) => old[i] > OpenFor(p)
      BY <2>5, <3>1 DEF Passed, old
    <3>4. /\ Len(new) < Through(p)' + Limit
          /\ \A i \in DOMAIN new : i > Through(p)' => new[i] > OpenFor(p)'
      BY <2>1, <2>2, <2>4, <3>2, <3>3
    <3>5. OpenFor(p) < Window
      BY <3>1 DEF OpenFor
    <3>6. Through(p) \in DOMAIN new
      BY <2>1, <2>4, <3>3, <3>5
    <3>7. new[Through(p)] = OpenFor(p) + 1
      BY <2>1, <3>3, <3>6
    <3>8. QED
      BY <2>6, <3>2, <3>4, <3>6, <3>7 DEF Passed, new
  <2>7. CASE ~NF!Live(p)'
    <3>1. Len(new) < Limit
      <4>1. CASE NF!Live(p)
        <5>1. /\ p \in DOMAIN connCounts /\ connCounts[p].left = 0
              /\ connCounts[p].count \in 1..(Limit + 1)
          BY <1>1, <1>2, <2>7, <4>1 DEF NF!Live, NF!ConnWindow
        <5>2. OpenFor(p) = Window /\ Through(p) \in 1..Limit
          BY <1>6, <5>1 DEF OpenFor, Through
        <5>3. Through(p) \in DOMAIN old /\ old[Through(p)] = Window
          BY <2>5, <4>1, <5>2 DEF Passed, old
        <5>4. Through(p) \notin DOMAIN new
          <6>1. SUFFICES ASSUME Through(p) \in DOMAIN new PROVE FALSE
            OBVIOUS
          <6>2. new[Through(p)] = Window + 1
            BY <2>1, <5>3, <6>1
          <6>3. new[Through(p)] \in 0..Window
            BY <2>1, <6>1 DEF Ages
          <6>4. QED
            BY <6>2, <6>3
        <5>5. QED
          BY <2>4, <5>2, <5>4
      <4>2. CASE ~NF!Live(p)
        <5>1. Len(old) < Limit
          BY <2>5, <4>2 DEF Passed, old
        <5>2. QED
          BY <2>1, <2>4, <5>1
      <4>3. QED
        BY <4>1, <4>2
    <3>2. QED
      BY <2>3, <2>7, <3>1 DEF Passed, new
  <2>8. QED
    BY <2>6, <2>7
<1>7. QED
  BY <1>4, <1>5, <1>6 DEF LimiterInv

LEMMA LimiterCleanup ==
  ASSUME LimiterInv, NF!CleanupStale
  PROVE  LimiterInv'
<1>1. /\ DOMAIN connCounts' = {q \in DOMAIN connCounts : NF!Live(q)}
      /\ \A q \in DOMAIN connCounts' : connCounts'[q] = connCounts[q]
      /\ attempts' = attempts /\ passes' = passes
  BY DEF NF!CleanupStale, NF!history
<1>2. \A p \in Pids : /\ NF!Live(p)' <=> NF!Live(p)
                      /\ NF!Live(p) => connCounts'[p] = connCounts[p]
  BY <1>1 DEF NF!Live
<1>3. Limit > 0 => \A p \in Pids : Attempted(p)' /\ Passed(p)'
  BY <1>1, <1>2, LimiterSame DEF LimiterInv
<1>4. LimiterTyped'
  BY <1>1 DEF LimiterInv, LimiterTyped, NF!ConnWindow, NF!KeptAttempts,
     NF!KeptPasses
<1>5. QED
  BY <1>3, <1>4 DEF LimiterInv

LEMMA LimiterCheck ==
  ASSUME LimiterInv, NEW p \in Pids, NF!CheckRateLimit(p)
  PROVE  LimiterInv'
<1> USE EventPathAssumption
<1> DEFINE oldA == attempts[p]
           newA == attempts'[p]
           oldP == passes[p]
           newP == passes'[p]
<1>1. /\ attempts' = [attempts EXCEPT ![p] = NF!Note(oldA, NF!KeptAttempts)]
      /\ passes' = IF NF!Exceeds(p) THEN passes
                   ELSE [passes EXCEPT ![p] = NF!Note(oldP, NF!KeptPasses)]
  BY DEF NF!CheckRateLimit
<1>2. /\ attempts \in [Pids -> Seq(Ages)] /\ passes \in [Pids -> Seq(Ages)]
      /\ \A q \in Pids : /\ Sorted(attempts[q]) /\ Sorted(passes[q])
                         /\ Len(attempts[q]) <= Limit + 1
                         /\ Len(passes[q]) <= 2 * Limit + 1
  BY DEF LimiterInv, LimiterTyped, NF!KeptAttempts, NF!KeptPasses
<1>3. /\ NF!KeptAttempts = Limit + 1 /\ NF!KeptPasses = 2 * Limit + 1
      /\ Limit + 1 \in Nat \ {0} /\ 2 * Limit + 1 \in Nat \ {0}
  BY DEF NF!KeptAttempts, NF!KeptPasses
<1>4. /\ newA \in Seq(Ages) /\ Sorted(newA)
      /\ Len(newA) = IF Len(oldA) < Limit + 1 THEN Len(oldA) + 1 ELSE Limit + 1
      /\ newA[1] = 0
      /\ \A i \in 2..Len(newA) : i - 1 \in DOMAIN oldA /\ newA[i] = oldA[i - 1]
  <2>1. newA = NF!Note(oldA, Limit + 1)
    BY <1>1, <1>2, <1>3
  <2>2. oldA \in Seq(Ages) /\ Sorted(oldA) /\ Len(oldA) <= Limit + 1
    BY <1>2
  <2> HIDE DEF oldA, newA
  <2>3. QED
    BY <1>3, <2>1, <2>2, Noted
<1>5. \/ NF!Exceeds(p) /\ newP = oldP
      \/ /\ ~NF!Exceeds(p) /\ newP \in Seq(Ages) /\ Sorted(newP)
         /\ Len(newP) = IF Len(oldP) < 2 * Limit + 1 THEN Len(oldP) + 1
                        ELSE 2 * Limit + 1
         /\ newP[1] = 0
         /\ \A i \in 2..Len(newP) :
              i - 1 \in DOMAIN oldP /\ newP[i] = oldP[i - 1]
  <2>1. CASE NF!Exceeds(p)
    BY <1>1, <2>1
  <2>2. CASE ~NF!Exceeds(p)
    <3>1. newP = NF!Note(oldP, 2 * Limit + 1)
      BY <1>1, <1>2, <1>3, <2>2
    <3>2. oldP \in Seq(Ages) /\ Sorted(oldP) /\ Len(oldP) <= 2 * Limit + 1
      BY <1>2
    <3> HIDE DEF oldP, newP
    <3>3. QED
      BY <1>3, <2>2, <3>1, <3>2, Noted
  <2>3. QED
    BY <2>1, <2>2
<1>6. \A q \in Pids : q # p => /\ attempts'[q] = attempts[q]
                               /\ passes'[q] = passes[q]
  BY <1>1, <1>2
<1>7. attempts' \in [Pids -> Seq(Ages)] /\ passes' \in [Pids -> Seq(Ages)]
  <2>1. /\ DOMAIN attempts' = Pids /\ DOMAIN passes' = Pids
        /\ attempts' = [q \in Pids |-> attempts'[q]]
        /\ passes' = [q \in Pids |-> passes'[q]]
    BY <1>1, <1>2, Zenon
  <2>2. ASSUME NEW q \in Pids
        PROVE  attempts'[q] \in Seq(Ages) /\ passes'[q] \in Seq(Ages)
    <3>1. CASE q = p
      BY <1>2, <1>4, <1>5, <3>1
    <3>2. CASE q # p
      BY <1>2, <1>6, <3>2
    <3>3. QED
      BY <3>1, <3>2
  <2>3. QED
    BY <2>1, <2>2
<1>8. ASSUME Limit > 0
      PROVE  /\ DOMAIN connCounts' = DOMAIN connCounts \cup {p}
             /\ connCounts'[p] = NF!Counted(p)
             /\ \A q \in DOMAIN connCounts : q # p => connCounts'[q] = connCounts[q]
  BY <1>8 DEF NF!CheckRateLimit
<1>9. ASSUME NF!Live(p)
      PROVE  /\ connCounts[p].count \in 1..(Limit + 1)
             /\ connCounts[p].left \in 0..Window
             /\ NF!Counted(p).left = connCounts[p].left
             /\ NF!Counted(p).count = IF connCounts[p].count <= Limit
                                      THEN connCounts[p].count + 1
                                      ELSE connCounts[p].count
             /\ NF!Counted(p) \in NF!ConnWindow
  <2>1. /\ p \in DOMAIN connCounts /\ connCounts[p].left >= 0
        /\ connCounts[p] \in [count : 1..(Limit + 1), left : -1..Window]
    BY <1>9 DEF NF!Live, LimiterInv, LimiterTyped, NF!ConnWindow
  <2>2. NF!Counted(p) = [connCounts[p] EXCEPT
                           !.count = IF connCounts[p].count <= Limit
                                     THEN connCounts[p].count + 1
                                     ELSE connCounts[p].count]
    BY <1>9 DEF NF!Counted
  <2>3. QED
    BY <2>1, <2>2 DEF NF!ConnWindow
<1>10. ASSUME ~NF!Live(p)
       PROVE  /\ NF!Counted(p).left = Window /\ NF!Counted(p).count = 1
              /\ NF!Counted(p) \in NF!ConnWindow
  BY <1>10 DEF NF!Counted, NF!ConnWindow
<1>11. LimiterTyped'
  <2>1. \A q \in DOMAIN connCounts' : connCounts'[q] \in NF!ConnWindow
    <3>1. CASE Limit > 0
      BY <1>8, <1>9, <1>10, <3>1 DEF LimiterInv, LimiterTyped
    <3>2. CASE ~(Limit > 0)
      BY <3>2 DEF NF!CheckRateLimit, LimiterInv, LimiterTyped
    <3>3. QED
      BY <3>1, <3>2
  <2>2. ASSUME NEW q \in Pids
        PROVE  /\ Sorted(attempts'[q]) /\ Sorted(passes'[q])
               /\ Len(attempts'[q]) <= Limit + 1
               /\ Len(passes'[q]) <= 2 * Limit + 1
    <3>1. Len(oldA) \in Nat /\ Len(oldP) \in Nat
      BY <1>2
    <3>2. CASE q = p
      BY <1>2, <1>4, <1>5, <3>1, <3>2
    <3>3. CASE q # p
      BY <1>2, <1>6, <3>3
    <3>4. QED
      BY <3>2, <3>3
  <2>3. QED
    BY <1>7, <2>1, <2>2 DEF LimiterTyped, NF!KeptAttempts, NF!KeptPasses,
       NF!ConnWindow, Sorted, Ages
<1>12. ASSUME NEW q \in Pids, q # p, Limit > 0 PROVE Attempted(q)' /\ Passed(q)'
  <2>1. /\ NF!Live(q)' <=> NF!Live(q)
        /\ NF!Live(q) => connCounts'[q] = connCounts[q]
    BY <1>8, <1>12 DEF NF!Live
  <2>2. QED
    BY <1>6, <1>12, <2>1, LimiterSame DEF LimiterInv
<1>13. ASSUME Limit > 0 PROVE NF!Live(p)'
  BY <1>8, <1>9, <1>10, <1>13 DEF NF!Live
<1>14. ASSUME Limit > 0 PROVE Attempted(p)'
  <2> DEFINE c == connCounts'[p].count
  <2>1. oldA \in Seq(Ages) /\ Len(oldA) \in Nat /\ DOMAIN oldA = 1..Len(oldA)
    BY <1>2
  <2>2. CASE NF!Live(p)
    <3>1. /\ connCounts[p].count <= Len(oldA)
          /\ \A i \in 1..connCounts[p].count : oldA[i] <= OpenFor(p)
      BY <1>14, <2>2 DEF LimiterInv, Attempted
    <3>2. /\ OpenFor(p)' = OpenFor(p) /\ OpenFor(p) \in 0..Window
          /\ connCounts[p].count \in 1..(Limit + 1) /\ c \in 1..(Limit + 1)
          /\ c <= connCounts[p].count + 1
      BY <1>8, <1>9, <1>14, <2>2 DEF OpenFor
    <3> HIDE DEF c, oldA, newA
    <3>3. c <= Len(newA)
      BY <1>4, <2>1, <3>1, <3>2
    <3>4. ASSUME NEW i \in 1..c PROVE newA[i] <= OpenFor(p)
      <4>1. i = 1 \/ (i \in 2..Len(newA) /\ i - 1 \in 1..connCounts[p].count)
        <5>1. c \in Int /\ connCounts[p].count \in Int /\ Len(newA) \in Nat
          BY <1>4, <2>1, <3>2
        <5>2. QED
          BY <3>2, <3>3, <5>1
      <4>2. QED
        BY <1>4, <3>1, <3>2, <4>1
    <3>5. QED
      BY <3>2, <3>3, <3>4 DEF Attempted, c, newA
  <2>3. CASE ~NF!Live(p)
    <3>1. OpenFor(p)' = 0 /\ c = 1
      BY <1>8, <1>10, <1>14, <2>3 DEF OpenFor
    <3> HIDE DEF c, oldA, newA
    <3>2. 1 <= Len(newA) /\ newA[1] <= 0
      BY <1>4, <2>1
    <3>3. QED
      BY <3>1, <3>2 DEF Attempted, c, newA
  <2>4. QED
    BY <2>2, <2>3
<1>15. ASSUME Limit > 0 PROVE Passed(p)'
  <2>1. /\ oldP \in Seq(Ages) /\ Len(oldP) \in Nat /\ DOMAIN oldP = 1..Len(oldP)
        /\ \A i \in DOMAIN oldP : oldP[i] \in Int
        /\ newP \in Seq(Ages) /\ Len(newP) \in Nat /\ DOMAIN newP = 1..Len(newP)
    BY <1>2, <1>5 DEF Ages
  <2>2. Passed(p) /\ NF!Live(p)'
    BY <1>13, <1>15 DEF LimiterInv
  <2>3. CASE NF!Live(p)
    <3>1. /\ Through(p) \in DOMAIN oldP /\ oldP[Through(p)] = OpenFor(p)
          /\ Len(oldP) < Through(p) + Limit
          /\ \A i \in DOMAIN oldP : i > Through(p) => oldP[i] > OpenFor(p)
      BY <2>2, <2>3 DEF Passed
    <3>2. OpenFor(p)' = OpenFor(p)
      BY <1>8, <1>9, <1>15, <2>3, SMTT(30), Z3T(30) DEF OpenFor
    <3>3. CASE NF!Exceeds(p)
      <4>1. Through(p) = Limit /\ Through(p)' = Limit
        BY <1>8, <1>9, <1>15, <2>3, <3>3, SMTT(30), Z3T(30) DEF Through, NF!Exceeds
      <4>2. newP = oldP
        BY <1>5, <3>3
      <4>3. QED
        BY <2>2, <3>1, <3>2, <4>1, <4>2, SMTT(30), Z3T(30) DEF Passed
    <3>4. CASE ~NF!Exceeds(p)
      <4>1. /\ Through(p)' = Through(p) + 1 /\ Through(p) \in 0..(Limit - 1)
        BY <1>8, <1>9, <1>15, <2>3, <3>4 DEF Through, NF!Exceeds
      <4> HIDE DEF oldP, newP
      <4>2. Len(newP) = Len(oldP) + 1
        <5>1. Len(oldP) < 2 * Limit + 1
          BY <2>1, <3>1, <4>1
        <5>2. QED
          BY <1>5, <3>4, <5>1
      <4>3. Len(newP) < Through(p)' + Limit
        BY <2>1, <3>1, <4>1, <4>2
      <4>4. ASSUME NEW i \in DOMAIN newP, i > Through(p)'
            PROVE  newP[i] > OpenFor(p)'
        <5>1. i \in 2..Len(newP) /\ i - 1 > Through(p)
          BY <2>1, <4>1, <4>4
        <5>2. i - 1 \in DOMAIN oldP /\ newP[i] = oldP[i - 1]
          BY <1>5, <3>4, <5>1
        <5>3. QED
          BY <3>1, <3>2, <5>1, <5>2
      <4>5. Through(p)' \in 2..Len(newP)
        BY <2>1, <3>1, <4>1, <4>2
      <4>6. newP[Through(p)'] = OpenFor(p)'
        <5>1. newP[Through(p)'] = oldP[Through(p)' - 1]
          BY <1>5, <3>4, <4>5
        <5>2. QED
          BY <3>1, <3>2, <4>1, <5>1
      <4>7. Through(p)' \in DOMAIN newP
        BY <2>1, <4>5
      <4>8. QED
        BY <2>2, <4>3, <4>4, <4>6, <4>7 DEF Passed, newP
    <3>5. QED
      BY <3>3, <3>4
  <2>4. CASE ~NF!Live(p)
    <3>1. /\ OpenFor(p)' = 0 /\ Through(p)' = 1
      BY <1>8, <1>10, <1>15, <2>4 DEF OpenFor, Through
    <3>2. Len(oldP) < Limit /\ \A i \in DOMAIN oldP : oldP[i] > 0
      BY <2>2, <2>4 DEF Passed
    <3>3. ~NF!Exceeds(p)
      BY <2>4 DEF NF!Exceeds
    <3> HIDE DEF oldP, newP
    <3>4. Len(newP) = Len(oldP) + 1
      <4>1. Len(oldP) < 2 * Limit + 1
        BY <2>1, <3>2
      <4>2. QED
        BY <1>5, <3>3, <4>1
    <3>5. ASSUME NEW i \in DOMAIN newP, i > 1 PROVE newP[i] > 0
      <4>1. i \in 2..Len(newP)
        BY <2>1, <3>5
      <4>2. i - 1 \in DOMAIN oldP /\ newP[i] = oldP[i - 1]
        BY <1>5, <3>3, <4>1
      <4>3. QED
        BY <3>2, <4>2
    <3>6. Len(newP) < 1 + Limit /\ 1 \in DOMAIN newP
      BY <2>1, <3>2, <3>4
    <3>7. newP[1] = 0
      BY <1>5, <3>3
    <3>8. QED
      BY <2>2, <3>1, <3>5, <3>6, <3>7 DEF Passed, newP
  <2>5. QED
    BY <2>3, <2>4
<1>16. QED
  BY <1>11, <1>12, <1>14, <1>15 DEF LimiterInv

\* The limiter's state after any step: only the event loop's own check, a
\* cleanup and time change it.
LEMMA LimiterStep ==
  ASSUME LimiterInv, ev \in Events, [Next]_vars
  PROVE  LimiterInv'
<1>1. ASSUME UNCHANGED <<connCounts, attempts, passes>> PROVE LimiterInv'
  BY <1>1 DEF LimiterInv, LimiterTyped, Attempted, Passed, OpenFor, Through,
     NF!Live, NF!ConnWindow, NF!KeptAttempts, NF!KeptPasses
<1>2. CASE UNCHANGED filter
  BY <1>1, <1>2 DEF filter
<1>3. CASE CheckRate
  <2>1. ev.pid \in Pids
    BY Zenon DEF Events
  <2>2. QED
    BY <1>3, <2>1, LimiterCheck DEF CheckRate
<1>4. CASE FilterChanges
  <2>1. CASE \E t \in NF!Texts : NF!AddCIDR(t) \/ NF!RemoveCIDR(t)
    BY <1>1, <2>1 DEF NF!AddCIDR, NF!RemoveCIDR, NF!history
  <2>2. CASE NF!CleanupStale
    BY <2>2, LimiterCleanup
  <2>3. CASE NF!Tick
    BY <2>3, LimiterTick
  <2>4. QED
    BY <1>4, <2>1, <2>2, <2>3 DEF FilterChanges
<1>5. CASE \/ \E e \in Events : Take(e)
           \/ CheckBlocklist \/ CheckSandbox
  BY <1>2, <1>5 DEF Take, CheckBlocklist, CheckSandbox
<1>6. CASE \/ \E n \in Names, p \in Profiles : RegisterProfile(n, p)
           \/ \E pid \in Pids, n \in Names : ApplySandbox(pid, n)
           \/ \E pid \in Pids : ReleaseSandbox(pid)
  BY <1>2, <1>6, Zenon DEF RegisterProfile, ApplySandbox, ReleaseSandbox
<1>7. CASE UNCHANGED vars
  BY <1>2, <1>7 DEF vars
<1>8. QED
  BY <1>3, <1>4, <1>5, <1>6, <1>7 DEF Next

LEMMA LimiterAlways == Spec => []LimiterInv
<1>1. Init => Inv /\ ev \in Events /\ LimiterInv
  BY InitInv, LimiterStart DEF Init
<1>2. (Inv /\ ev \in Events /\ LimiterInv) /\ [Next]_vars
      => (Inv /\ ev \in Events /\ LimiterInv)'
  BY NextInv, LimiterStep
<1>3. QED
  BY <1>1, <1>2, PTL DEF Spec

\* CheckRateLimit refuses a connection only when the process has made Limit of
\* them in the last window, for every limit and window and however its checks
\* interleave with cleanups and the end of windows.
THEOREM RefusalsHaveEvidence == Spec => []RefusedOnEvidence
<1>1. LimiterInv => RefusedOnEvidence
  <2> SUFFICES ASSUME LimiterInv, NEW p \in Pids, NF!Exceeds(p)
               PROVE  Len(attempts[p]) >= Limit
    BY DEF RefusedOnEvidence, NF!RefusedOnEvidence
  <2>1. /\ Limit > 0 /\ NF!Live(p) /\ connCounts[p].count >= Limit
        /\ connCounts[p] \in NF!ConnWindow
    BY DEF NF!Exceeds, NF!Live, LimiterInv, LimiterTyped
  <2>2. connCounts[p].count <= Len(attempts[p])
    BY <2>1 DEF LimiterInv, Attempted
  <2>3. Len(attempts[p]) \in Nat /\ connCounts[p].count \in Nat
    BY <2>1, EventPathAssumption DEF LimiterInv, LimiterTyped, NF!ConnWindow
  <2>4. QED
    BY <2>1, <2>2, <2>3, EventPathAssumption
<1>2. QED
  BY LimiterAlways, <1>1, PTL

\* No stretch of one window lets twice the limit through, where two fixed
\* windows meet included.
THEOREM BurstsAreBounded == Spec => []BurstBound
<1>1. LimiterInv => BurstBound
  <2> SUFFICES ASSUME LimiterInv, Limit > 0, NEW p \in Pids
               PROVE  Len(passes[p]) < 2 * Limit
    BY DEF BurstBound, NF!BurstBound
  <2>1. Passed(p) /\ Len(passes[p]) \in Nat
    BY DEF LimiterInv, LimiterTyped
  <2>2. NF!Live(p) => Through(p) \in Int /\ Through(p) <= Limit
    BY EventPathAssumption
       DEF NF!Live, LimiterInv, LimiterTyped, NF!ConnWindow, Through
  <2>3. QED
    BY <2>1, <2>2, EventPathAssumption DEF Passed
<1>2. QED
  BY LimiterAlways, <1>1, PTL
=============================================================================
