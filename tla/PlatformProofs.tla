--------------------------- MODULE PlatformProofs ---------------------------
(***************************************************************************)
(* The Linux platform, for any number of monitors and every size of ring   *)
(* buffers and channel: what Load was refused never shows as granted, and  *)
(* an event in a ring buffer reaches the enforcer, once and in order.      *)
(*                                                                         *)
(* The macOS platform, for any number of messages and any channel: an AUTH *)
(* message that comes before the stop is answered.                         *)
(***************************************************************************)
EXTENDS LinuxPlatform, EndpointSecurity, TLAPS
-----------------------------------------------------------------------------
(* Load *)

\* What Load has settled by the time it gets to each of its steps.
LoadInv ==
  /\ skip => lsmSteps = 0 /\ ~lsm
  /\ at \in {"trace", "filter"} =>
       /\ lsmSteps = 0 /\ ~lsm /\ ~armed
       /\ \A t \in L!Tracepoints : scope[t] = "all"
  /\ at = "filter" => filter
  /\ at = "lsm" => lsmSteps < L!LSMSteps /\ ~lsm /\ ~armed
  /\ at = "arm" => lsmSteps = L!LSMSteps /\ lsm /\ ~armed
  /\ at = "lsmFilter" => lsm
  /\ at \in {"lsmFilter", "posture", "ok"} =>
       \/ /\ lsm /\ lsmSteps = L!LSMSteps
          /\ armed => enforce
          /\ require => armed = enforce
       \/ ~lsm /\ lsmSteps = 0 /\ ~armed /\ (require => skip)
  /\ at \in {"lsm", "arm", "lsmFilter", "posture", "ok"} =>
       \A t \in L!Tracepoints : scope[t] = IF filter THEN "listed" ELSE "all"
  /\ at = "ok" => posture = IF lsm THEN IF enforce THEN "enforce" ELSE "audit"
                            ELSE "observe"

LEMMA LoadStarts == L!Init => L!TypeOK /\ LoadInv
<1> SUFFICES ASSUME L!Init PROVE L!TypeOK /\ LoadInv
  OBVIOUS
<1>1. L!TypeOK
  <2>1. {enforce, require, skip, filter, lsm, armed} \subseteq BOOLEAN
    BY Zenon DEF L!Init
  <2>2. QED
    BY <2>1 DEF L!Init, L!TypeOK, L!TraceSteps, L!PerMonitor, L!LSMSteps, L!Scopes
<1>2. LoadInv
  BY DEF L!Init, LoadInv
<1>3. QED
  BY <1>1, <1>2

LEMMA LoadStep ==
  ASSUME L!TypeOK, LoadInv, L!Next
  PROVE  L!TypeOK' /\ LoadInv'
<1> USE DEF L!TypeOK, LoadInv, L!TraceSteps, L!PerMonitor, L!LSMSteps, L!Scopes,
            L!config, L!kernel
<1>1. CASE L!TraceStep \/ L!TraceFails
  BY <1>1 DEF L!TraceStep, L!TraceFails
<1>2. CASE L!ResolveFails
  BY <1>2 DEF L!ResolveFails, L!CloseAndFail
<1>3. CASE L!SetCgroupFilter
  BY <1>3 DEF L!SetCgroupFilter
<1>4. ASSUME NEW m \in L!Tracepoints, NEW s \in {"all", "part", "listed"},
             L!SetCgroupFilterFails(m, s)
      PROVE  L!TypeOK' /\ LoadInv'
  BY <1>4 DEF L!SetCgroupFilterFails
<1>5. CASE L!SkipLSM
  BY <1>5 DEF L!SkipLSM
<1>6. CASE L!LSMFails
  BY <1>6 DEF L!LSMFails, L!NoLSM
<1>7. CASE L!LSMStep
  <2>1. /\ at = "lsm" /\ ~skip /\ lsmSteps' = lsmSteps + 1
        /\ UNCHANGED <<enforce, require, skip, filter, traced, scope, armed, lsmScope,
                        posture>>
        /\ \/ lsmSteps' = L!LSMSteps /\ at' = "arm" /\ lsm' = TRUE
           \/ lsmSteps' # L!LSMSteps /\ at' = "lsm" /\ lsm' = lsm
    BY <1>7 DEF L!LSMStep
  <2>2. L!TypeOK'
    <3>1. {enforce, require, skip, filter, lsm, armed}' \subseteq BOOLEAN
      BY <2>1, Zenon
    <3>2. /\ at' \in {"lsm", "arm"} /\ lsmSteps' \in 0..L!LSMSteps
          /\ UNCHANGED <<traced, scope, lsmScope, posture>>
      BY <2>1
    <3>3. QED
      BY <3>1, <3>2
  <2>3. LoadInv'
    BY <2>1
  <2>4. QED
    BY <2>2, <2>3
<1>8. CASE L!SetEnforceMode
  BY <1>8 DEF L!SetEnforceMode
<1>9. CASE L!SetEnforceFails
  <2>1. CASE require
    BY <1>9, <2>1 DEF L!SetEnforceFails, L!CloseAndFail
  <2>2. CASE ~require
    <3>1. /\ at = "arm" /\ at' = IF filter THEN "lsmFilter" ELSE "posture"
          /\ UNCHANGED <<enforce, require, skip, filter, traced, scope, lsmSteps,
                          armed, lsmScope, lsm, posture>>
      BY <1>9, <2>2, Zenon DEF L!SetEnforceFails
    <3>2. L!TypeOK'
      BY <3>1
    <3>3. LoadInv'
      BY <2>2, <3>1
    <3>4. QED
      BY <3>2, <3>3
  <2>3. QED
    BY <2>1, <2>2
<1>10. ASSUME NEW s \in {"all", "part", "listed"}, L!SetLSMFilter(s)
       PROVE  L!TypeOK' /\ LoadInv'
  BY <1>10 DEF L!SetLSMFilter
<1>11. CASE L!LogSecurityPosture
  BY <1>11 DEF L!LogSecurityPosture
<1>12. QED
  BY <1>1, <1>2, <1>3, <1>4, <1>5, <1>6, <1>7, <1>8, <1>9, <1>10, <1>11,
     Zenon DEF L!Next

LEMMA LoadSettled == L!TypeOK /\ LoadInv => LoadGranted /\ PostureMatchesPrograms
  BY DEF LoadInv, L!TypeOK, LoadGranted, PostureMatchesPrograms, L!LoadGranted,
     L!PostureMatchesPrograms, L!LSMSteps
-----------------------------------------------------------------------------
(* The monitors *)

\* A ring buffer holds, in order, the events after number n, up to p.
Holds(r, n, p) ==
  /\ r = << >> => p = n
  /\ r # << >> => r[1] = M!Following(n) /\ r[Len(r)] = p
  /\ \A i \in 1..(Len(r) - 1) : r[i + 1] = M!Following(r[i])

\* The events of m in the channel follow number h; s[i] is the latest of them
\* among the first i entries of the channel, h before the first.
Follows(c, m, h, s) ==
  /\ s[0] = h
  /\ \A i \in 1..Len(c) :
       /\ s[i] = IF c[i][1] = m THEN M!Following(s[i - 1]) ELSE s[i - 1]
       /\ c[i][1] = m => c[i][2] = s[i]

LEMMA FollowingType == \A n \in M!Numbers : M!Following(n) \in M!Numbers
  BY MonitorAssumption DEF M!Numbers, M!Following

LEMMA EmptyHolds == \A n : Holds(<< >>, n, n)
  BY DEF Holds

LEMMA RingGrows ==
  ASSUME NEW r \in Seq(M!Numbers), NEW n \in M!Numbers, NEW p \in M!Numbers,
         Holds(r, n, p)
  PROVE  Holds(Append(r, M!Following(p)), n, M!Following(p))
<1> DEFINE q == M!Following(p)
           t == Append(r, q)
<1>1. q \in M!Numbers
  BY FollowingType
<1> HIDE DEF q
<1>2. /\ t # << >> /\ Len(t) = Len(r) + 1 /\ t[Len(t)] = q
      /\ \A i \in 1..Len(r) : t[i] = r[i]
  BY <1>1
<1> HIDE DEF t
<1>3. t[1] = M!Following(n)
  BY <1>2 DEF Holds, q
<1>4. ASSUME NEW i \in 1..(Len(t) - 1) PROVE t[i + 1] = M!Following(t[i])
  BY <1>2 DEF Holds, q
<1>5. Holds(t, n, q)
  BY <1>2, <1>3, <1>4 DEF Holds
<1>6. QED
  BY <1>5 DEF t, q

LEMMA RingShrinks ==
  ASSUME NEW r \in Seq(M!Numbers), NEW n \in M!Numbers, NEW p \in M!Numbers,
         Holds(r, n, p), r # << >>
  PROVE  Head(r) = M!Following(n) /\ Holds(Tail(r), Head(r), p)
<1>1. /\ Head(r) = r[1] /\ Tail(r) \in Seq(M!Numbers) /\ Len(Tail(r)) = Len(r) - 1
      /\ \A i \in 1..(Len(r) - 1) : Tail(r)[i] = r[i + 1]
      /\ Len(r) \in Nat /\ Len(r) > 0
  OBVIOUS
<1> DEFINE t == Tail(r)
<1> HIDE DEF t
<1>2. t = << >> => p = r[1]
  <2>1. ASSUME t = << >> PROVE Len(r) = 1
    <3>1. Len(t) = 0 /\ Len(t) = Len(r) - 1 /\ Len(r) \in Nat
      BY <1>1, <2>1, Zenon DEF t
    <3>2. QED
      BY <3>1
  <2>2. r[Len(r)] = p
    BY Zenon DEF Holds
  <2>3. QED
    BY <2>1, <2>2, Zenon
<1>3. t # << >> => t[1] = M!Following(r[1]) /\ t[Len(t)] = p
  BY <1>1 DEF Holds, t
<1>4. \A i \in 1..(Len(t) - 1) : t[i + 1] = M!Following(t[i])
  BY <1>1 DEF Holds, t
<1>5. QED
  BY <1>1, <1>2, <1>3, <1>4 DEF Holds, t

Entries == Monitors \X M!Numbers

\* An entry that may come next in the channel when n is the latest of m, and
\* what is the latest of m then.
MayFollow(e, m, n) == e[1] = m => e[2] = M!Following(n)
LatestWith(e, m, n) == IF e[1] = m THEN e[2] ELSE n

LEMMA ChanGrows ==
  ASSUME NEW c \in Seq(Entries), NEW e \in Entries, NEW d, d = Append(c, e),
         NEW m \in Monitors, NEW h \in M!Numbers,
         NEW s \in [0..Len(c) -> M!Numbers],
         Follows(c, m, h, s), MayFollow(e, m, s[Len(c)])
  PROVE  \E t \in [0..Len(d) -> M!Numbers] :
            /\ Follows(d, m, h, t)
            /\ t[Len(d)] = LatestWith(e, m, s[Len(c)])
<1> DEFINE l == Len(c)
           t == [i \in 0..(l + 1) |-> IF i <= l THEN s[i]
                                     ELSE IF e[1] = m THEN e[2] ELSE s[l]]
<1>1. /\ Len(d) = l + 1 /\ d[l + 1] = e /\ l \in Nat
      /\ \A i \in 1..l : d[i] = c[i]
  OBVIOUS
<1>2. e[1] \in Monitors /\ e[2] \in M!Numbers /\ s[l] \in M!Numbers
  BY <1>1 DEF Entries
<1>3. t \in [0..Len(d) -> M!Numbers]
  BY <1>1, <1>2
<1>4. /\ \A i \in 0..l : t[i] = s[i]
      /\ t[l + 1] = IF e[1] = m THEN e[2] ELSE s[l]
  BY <1>1
<1> HIDE DEF l, t
<1>5. t[0] = h
  BY <1>1, <1>4 DEF Follows, l
<1>6. ASSUME NEW i \in 1..Len(d)
      PROVE  /\ t[i] = IF d[i][1] = m THEN M!Following(t[i - 1]) ELSE t[i - 1]
             /\ d[i][1] = m => d[i][2] = t[i]
  <2>1. CASE i \in 1..l
    <3>1. /\ s[i] = IF c[i][1] = m THEN M!Following(s[i - 1]) ELSE s[i - 1]
          /\ c[i][1] = m => c[i][2] = s[i]
      BY <2>1 DEF Follows, l
    <3>2. t[i] = s[i] /\ t[i - 1] = s[i - 1] /\ d[i] = c[i]
      BY <1>1, <1>4, <2>1
    <3>3. QED
      BY <3>1, <3>2
  <2>2. CASE i = l + 1
    <3>1. d[i] = e /\ t[i - 1] = s[l] /\ t[i] = IF e[1] = m THEN e[2] ELSE s[l]
      BY <1>1, <1>4, <2>2
    <3>2. e[1] = m => e[2] = M!Following(s[l])
      BY DEF l, MayFollow
    <3>3. QED
      BY <3>1, <3>2
  <2>3. QED
    BY <1>1, <2>1, <2>2
<1>7. Follows(d, m, h, t)
  BY <1>5, <1>6 DEF Follows
<1>8. t[Len(d)] = IF e[1] = m THEN e[2] ELSE s[l]
  BY <1>1, <1>4
<1>9. QED
  BY <1>3, <1>7, <1>8 DEF l, LatestWith

LEMMA ChanShrinks ==
  ASSUME NEW c \in Seq(Entries), c # << >>, NEW m, NEW h \in M!Numbers,
         NEW s \in [0..Len(c) -> M!Numbers], Follows(c, m, h, s)
  PROVE  \E t \in [0..Len(Tail(c)) -> M!Numbers] :
            /\ Follows(Tail(c), m, IF c[1][1] = m THEN c[1][2] ELSE h, t)
            /\ t[Len(Tail(c))] = s[Len(c)]
<1> DEFINE d == Tail(c)
           l == Len(c)
           t == [i \in 0..(l - 1) |-> s[i + 1]]
<1>1. /\ Len(d) = l - 1 /\ l \in Nat /\ l > 0
      /\ \A i \in 1..(l - 1) : d[i] = c[i + 1]
  OBVIOUS
<1>2. t \in [0..Len(d) -> M!Numbers]
  BY <1>1
<1>3. \A i \in 0..(l - 1) : t[i] = s[i + 1]
  BY <1>1
<1> HIDE DEF d, l, t
<1>4. t[0] = IF c[1][1] = m THEN c[1][2] ELSE h
  <2>1. /\ s[0] = h /\ s[1] = IF c[1][1] = m THEN M!Following(s[0]) ELSE s[0]
        /\ c[1][1] = m => c[1][2] = s[1]
    BY <1>1 DEF Follows, l
  <2>2. t[0] = s[1]
    BY <1>1, <1>3
  <2>3. QED
    BY <2>1, <2>2
<1>5. ASSUME NEW i \in 1..Len(d)
      PROVE  /\ t[i] = IF d[i][1] = m THEN M!Following(t[i - 1]) ELSE t[i - 1]
             /\ d[i][1] = m => d[i][2] = t[i]
  <2>1. i + 1 \in 1..l /\ (i + 1) - 1 = i
    BY <1>1
  <2>2. /\ s[i + 1] = IF c[i + 1][1] = m THEN M!Following(s[i]) ELSE s[i]
        /\ c[i + 1][1] = m => c[i + 1][2] = s[i + 1]
    BY <2>1 DEF Follows, l
  <2>3. t[i] = s[i + 1] /\ t[i - 1] = s[i] /\ d[i] = c[i + 1]
    BY <1>1, <1>3, <2>1
  <2>4. QED
    BY <2>2, <2>3
<1>6. Follows(d, m, IF c[1][1] = m THEN c[1][2] ELSE h, t)
  BY <1>4, <1>5 DEF Follows
<1>7. t[Len(d)] = s[l]
  BY <1>1, <1>3
<1>8. QED
  BY <1>2, <1>6, <1>7 DEF d, l

\* Every event of m is on its way to the enforcer, in order: in the channel,
\* then in the monitor's hand, then in the ring buffer.  A monitor that is done
\* has left the rest behind.
OnTrack(m, s) ==
  /\ Follows(chan, m, handled[m], s)
  /\ mpc[m] = "send" => /\ held[m] = M!Following(s[Len(chan)])
                        /\ Holds(ring[m], held[m], produced[m])
  /\ mpc[m] \in {"check", "read"} => Holds(ring[m], s[Len(chan)], produced[m])

Linked(m) == \E s \in [0..Len(chan) -> M!Numbers] : OnTrack(m, s)

LEMMA OfMonitor ==
  ASSUME M!TypeOK, NEW m \in Monitors, NEW s \in [0..Len(chan) -> M!Numbers]
  PROVE  /\ chan \in Seq(Entries) /\ s[Len(chan)] \in M!Numbers
         /\ handled[m] \in M!Numbers /\ held[m] \in M!Numbers
         /\ ring[m] \in Seq(M!Numbers) /\ produced[m] \in M!Numbers
<1>1. chan \in Seq(Entries)
  BY DEF M!TypeOK, Entries
<1>2. Len(chan) \in 0..Len(chan)
  BY <1>1
<1>3. s[Len(chan)] \in M!Numbers
  BY <1>2
<1>4. QED
  BY <1>1, <1>3, Zenon DEF M!TypeOK

LEMMA OwnParts ==
  ASSUME M!TypeOK
  PROVE  /\ ring = [m \in Monitors |-> ring[m]] /\ held = [m \in Monitors |-> held[m]]
         /\ mpc = [m \in Monitors |-> mpc[m]]
         /\ produced = [m \in Monitors |-> produced[m]]
  BY Zenon DEF M!TypeOK

LEMMA LinkedSame ==
  ASSUME NEW m \in Monitors, Linked(m),
         UNCHANGED <<chan, handled[m], held[m], mpc[m], ring[m], produced[m]>>
  PROVE  Linked(m)'
  BY DEF Linked, OnTrack

\* What the others do to their own part leaves m's as it is.
LEMMA LinkedOther ==
  ASSUME M!TypeOK, NEW m \in Monitors, Linked(m), NEW k \in Monitors, k # m,
         \/ M!KernelEvent(k) \/ M!MonitorChecks(k) \/ M!MonitorReads(k)
         \/ M!MonitorQuits(k)
  PROVE  Linked(m)'
<1>1. UNCHANGED <<chan, handled[m], held[m], mpc[m], ring[m], produced[m]>>
  BY DEF M!TypeOK, M!KernelEvent, M!MonitorChecks, M!MonitorReads, M!MonitorQuits
<1>2. QED
  BY <1>1, LinkedSame, Zenon

LEMMA LinkedEvent ==
  ASSUME M!TypeOK, NEW m \in Monitors, Linked(m), M!KernelEvent(m)
  PROVE  Linked(m)'
<1>1. /\ produced'[m] = M!Following(produced[m])
      /\ ring'[m] = Append(ring[m], M!Following(produced[m]))
      /\ UNCHANGED <<chan, handled, held, mpc>>
  BY OwnParts DEF M!KernelEvent
<1>2. ring[m] \in Seq(M!Numbers) /\ produced[m] \in M!Numbers /\ held[m] \in M!Numbers
  BY Zenon DEF M!TypeOK
<1>3. ASSUME NEW n \in M!Numbers, Holds(ring[m], n, produced[m])
      PROVE  Holds(ring'[m], n, produced'[m])
  BY <1>1, <1>2, <1>3, RingGrows
<1>4. PICK s \in [0..Len(chan) -> M!Numbers] : OnTrack(m, s)
  BY Zenon DEF Linked
<1>5. s[Len(chan)] \in M!Numbers
  BY OfMonitor, Zenon
<1>6. OnTrack(m, s)'
  BY <1>1, <1>2, <1>3, <1>4, <1>5 DEF OnTrack
<1>7. QED
  BY <1>1, <1>6, Zenon DEF Linked

LEMMA LinkedChecks ==
  ASSUME M!TypeOK, NEW m \in Monitors, Linked(m), M!MonitorChecks(m)
  PROVE  Linked(m)'
<1>1. /\ mpc[m] = "check" /\ mpc'[m] \in {"done", "read"}
      /\ UNCHANGED <<chan, handled, held, ring, produced>>
  BY OwnParts DEF M!MonitorChecks
<1>2. QED
  BY <1>1 DEF Linked, OnTrack

LEMMA LinkedReads ==
  ASSUME M!TypeOK, NEW m \in Monitors, Linked(m), M!MonitorReads(m)
  PROVE  Linked(m)'
<1>1. /\ mpc[m] = "read" /\ mpc'[m] = "send" /\ ring[m] # << >>
      /\ held'[m] = Head(ring[m]) /\ ring'[m] = Tail(ring[m])
      /\ UNCHANGED <<chan, handled, produced>>
  BY OwnParts DEF M!MonitorReads
<1>2. ring[m] \in Seq(M!Numbers) /\ produced[m] \in M!Numbers
  BY Zenon DEF M!TypeOK
<1>3. PICK s \in [0..Len(chan) -> M!Numbers] : OnTrack(m, s)
  BY Zenon DEF Linked
<1>4. s[Len(chan)] \in M!Numbers /\ Holds(ring[m], s[Len(chan)], produced[m])
  BY <1>1, <1>3, OfMonitor, Zenon DEF OnTrack
<1>5. /\ held'[m] = M!Following(s[Len(chan)])
      /\ Holds(ring'[m], held'[m], produced[m])
  BY <1>1, <1>2, <1>4, RingShrinks
<1>6. OnTrack(m, s)'
  BY <1>1, <1>3, <1>5 DEF OnTrack
<1>7. QED
  BY <1>1, <1>6, Zenon DEF Linked

LEMMA LinkedSends ==
  ASSUME M!TypeOK, NEW m \in Monitors, Linked(m), NEW k \in Monitors,
         M!MonitorSends(k)
  PROVE  Linked(m)'
<1> DEFINE e == <<k, held[k]>>
<1>1. PICK s \in [0..Len(chan) -> M!Numbers] : OnTrack(m, s)
  BY DEF Linked
<1>2. /\ mpc[k] = "send" /\ mpc' = [mpc EXCEPT ![k] = "check"]
      /\ chan' = Append(chan, e) /\ held' = [held EXCEPT ![k] = 0]
      /\ UNCHANGED <<handled, ring, produced>>
      /\ e \in Entries /\ e[1] = k /\ e[2] = held[k]
  BY DEF M!MonitorSends, M!TypeOK, Entries
<1>3. Follows(chan, m, handled[m], s) /\ MayFollow(e, m, s[Len(chan)])
  BY <1>1, <1>2 DEF OnTrack, MayFollow
<1> HIDE DEF e
<1>4. PICK t \in [0..Len(chan') -> M!Numbers] :
        /\ Follows(chan', m, handled[m], t)
        /\ t[Len(chan')] = LatestWith(e, m, s[Len(chan)])
  <2>1. /\ e \in Entries /\ chan \in Seq(Entries) /\ handled[m] \in M!Numbers
        /\ chan' = Append(chan, e)
    BY <1>2, OfMonitor
  <2>2. QED
    BY <1>3, <2>1, ChanGrows, SMTT(30), Z3T(30)
<1>5. CASE k # m
  <2>1. UNCHANGED <<held[m], mpc[m]>> /\ t[Len(chan')] = s[Len(chan)]
    BY <1>2, <1>4, <1>5 DEF M!TypeOK, LatestWith
  <2>2. QED
    BY <1>1, <1>2, <1>4, <2>1 DEF Linked, OnTrack
<1>6. CASE k = m
  <2>1. mpc'[m] = "check" /\ t[Len(chan')] = held[m]
    BY <1>2, <1>4, <1>6 DEF M!TypeOK, LatestWith
  <2>2. QED
    BY <1>1, <1>2, <1>4, <1>6, <2>1 DEF Linked, OnTrack
<1>7. QED
  BY <1>5, <1>6

LEMMA LinkedQuits ==
  ASSUME M!TypeOK, NEW m \in Monitors, Linked(m), M!MonitorQuits(m)
  PROVE  Linked(m)'
<1>1. mpc'[m] = "done" /\ UNCHANGED <<chan, handled>>
  BY OwnParts DEF M!MonitorQuits
<1>2. QED
  BY <1>1 DEF Linked, OnTrack

LEMMA LinkedTakes ==
  ASSUME M!TypeOK, NEW m \in Monitors, Linked(m), M!LoopTakes
  PROVE  Linked(m)'
<1>1. PICK s \in [0..Len(chan) -> M!Numbers] : OnTrack(m, s)
  BY DEF Linked
<1>2. /\ chan # << >> /\ chan' = Tail(chan)
      /\ handled' = [handled EXCEPT ![Head(chan)[1]] = Head(chan)[2]]
      /\ UNCHANGED <<ring, produced, mpc, held>>
  BY Zenon DEF M!LoopTakes
<1>3. handled'[m] = IF chan[1][1] = m THEN chan[1][2] ELSE handled[m]
  <2>1. chan \in Seq(Entries) /\ handled = [k \in Monitors |-> handled[k]]
    BY Zenon DEF M!TypeOK, Entries
  <2>2. Head(chan) = chan[1]
    BY <1>2, <2>1
  <2>3. QED
    BY <1>2, <2>1, <2>2
<1>4. PICK t \in [0..Len(chan') -> M!Numbers] :
        Follows(chan', m, handled'[m], t) /\ t[Len(chan')] = s[Len(chan)]
  <2>1. /\ chan \in Seq(Entries) /\ chan # << >> /\ handled[m] \in M!Numbers
        /\ Follows(chan, m, handled[m], s)
    BY <1>1, <1>2, OfMonitor DEF OnTrack
  <2>2. \E t \in [0..Len(Tail(chan)) -> M!Numbers] :
          /\ Follows(Tail(chan), m,
                      IF chan[1][1] = m THEN chan[1][2] ELSE handled[m], t)
          /\ t[Len(Tail(chan))] = s[Len(chan)]
    BY <2>1, ChanShrinks
  <2>3. QED
    BY <1>2, <1>3, <2>2
<1>5. OnTrack(m, t)'
  BY <1>1, <1>2, <1>4 DEF OnTrack
<1>6. QED
  BY <1>5, Zenon DEF Linked

LEMMA LinkedStep ==
  ASSUME M!TypeOK, NEW m \in Monitors, Linked(m), M!Next
  PROVE  Linked(m)'
<1>1. ASSUME NEW k \in Monitors, M!KernelEvent(k) PROVE Linked(m)'
  BY <1>1, LinkedEvent, LinkedOther
<1>2. ASSUME NEW k \in Monitors, M!Monitor(k) PROVE Linked(m)'
  BY <1>2, LinkedChecks, LinkedReads, LinkedSends, LinkedQuits, LinkedOther
     DEF M!Monitor
<1>3. CASE M!LoopTakes
  BY <1>3, LinkedTakes, Zenon
<1>4. CASE M!LoopEnds \/ M!StopCancels \/ M!StopCloses \/ M!StopWaits
  BY <1>4, LinkedSame DEF M!LoopEnds, M!StopCancels, M!StopCloses, M!StopWaits
<1>5. QED
  BY <1>1, <1>2, <1>3, <1>4 DEF M!Next

LEMMA MonitorTypes ==
  ASSUME M!TypeOK, M!Next
  PROVE  M!TypeOK'
<1>1. ASSUME NEW m \in Monitors, M!KernelEvent(m) PROVE M!TypeOK'
  <2>1. produced[m] \in M!Numbers /\ M!Following(produced[m]) \in M!Numbers
    BY FollowingType DEF M!TypeOK
  <2>2. /\ produced' = [produced EXCEPT ![m] = M!Following(produced[m])]
        /\ ring' = [ring EXCEPT ![m] = Append(ring[m], M!Following(produced[m]))]
        /\ Len(ring[m]) < RingSize
        /\ UNCHANGED <<mpc, held, chan, handled, loop, stop>>
    BY <1>1 DEF M!KernelEvent, M!TypeOK
  <2>3. /\ Append(ring[m], M!Following(produced[m])) \in Seq(M!Numbers)
        /\ Len(Append(ring[m], M!Following(produced[m]))) <= RingSize
    BY <2>1, <2>2, MonitorAssumption DEF M!TypeOK
  <2>4. QED
    BY <2>1, <2>2, <2>3 DEF M!TypeOK
<1>2. ASSUME NEW m \in Monitors, M!MonitorChecks(m) PROVE M!TypeOK'
  BY <1>2 DEF M!MonitorChecks, M!TypeOK
<1>3. ASSUME NEW m \in Monitors, M!MonitorReads(m) PROVE M!TypeOK'
  <2>1. ring[m] \in Seq(M!Numbers) /\ ring[m] # << >> /\ Len(ring[m]) <= RingSize
    BY <1>3 DEF M!MonitorReads, M!TypeOK
  <2>2. /\ Head(ring[m]) \in M!Numbers /\ Tail(ring[m]) \in Seq(M!Numbers)
        /\ Len(Tail(ring[m])) <= RingSize
    BY <2>1, MonitorAssumption
  <2>3. QED
    BY <1>3, <2>2 DEF M!MonitorReads, M!TypeOK
<1>4. ASSUME NEW m \in Monitors, M!MonitorSends(m) PROVE M!TypeOK'
  <2>1. <<m, held[m]>> \in Monitors \X M!Numbers
    BY DEF M!TypeOK
  <2>2. chan' \in Seq(Monitors \X M!Numbers) /\ Len(chan') <= ChanSize
    BY <1>4, <2>1, MonitorAssumption DEF M!MonitorSends, M!TypeOK
  <2>3. 0 \in M!Numbers
    BY MonitorAssumption DEF M!Numbers
  <2>4. QED
    BY <1>4, <2>2, <2>3 DEF M!MonitorSends, M!TypeOK
<1>5. ASSUME NEW m \in Monitors, M!MonitorQuits(m) PROVE M!TypeOK'
  <2>1. 0 \in M!Numbers
    BY MonitorAssumption DEF M!Numbers
  <2>2. QED
    BY <1>5, <2>1 DEF M!MonitorQuits, M!TypeOK
<1>6. CASE M!LoopTakes
  <2>1. /\ chan \in Seq(Monitors \X M!Numbers) /\ chan # << >>
        /\ Len(chan) <= ChanSize
    BY <1>6 DEF M!LoopTakes, M!TypeOK
  <2>2. Head(chan) \in Monitors \X M!Numbers
    BY <2>1
  <2>3. Head(chan)[1] \in Monitors /\ Head(chan)[2] \in M!Numbers
    BY <2>2
  <2>4. Tail(chan) \in Seq(Monitors \X M!Numbers) /\ Len(Tail(chan)) <= ChanSize
    BY <2>1, MonitorAssumption
  <2>5. QED
    BY <1>6, <2>3, <2>4 DEF M!LoopTakes, M!TypeOK
<1>7. CASE M!LoopEnds \/ M!StopCancels \/ M!StopCloses \/ M!StopWaits
  BY <1>7, Zenon DEF M!LoopEnds, M!StopCancels, M!StopCloses, M!StopWaits,
     M!TypeOK
<1>8. QED
  BY <1>1, <1>2, <1>3, <1>4, <1>5, <1>6, <1>7 DEF M!Next, M!Monitor
-----------------------------------------------------------------------------
(* Load, Start and the monitors together *)

\* Start comes once, after Load; before it nothing is read, and after it, until
\* the stop, exactly the LSM monitor that has no programs is missing.
Begun ==
  /\ ~started => /\ stop = "no" /\ chan = << >>
                 /\ \A m \in Monitors : /\ mpc[m] = "done" /\ ring[m] = << >>
                                        /\ produced[m] = 0 /\ handled[m] = 0
  /\ started => at = "ok"
  /\ started /\ stop = "no" =>
       \A m \in Monitors : mpc[m] = "done" <=> m = LSM /\ ~lsm

PlatformInv ==
  /\ L!TypeOK /\ LoadInv /\ M!TypeOK /\ started \in BOOLEAN /\ Begun
  /\ \A m \in Monitors : Linked(m)

LEMMA PlatformStarts == PlatformInit => PlatformInv
<1> SUFFICES ASSUME PlatformInit PROVE PlatformInv
  OBVIOUS
<1>1. L!TypeOK /\ LoadInv
  BY LoadStarts DEF PlatformInit
<1>2. 0 \in M!Numbers /\ << >> \in Seq(M!Numbers) /\ Len(<< >>) = 0
  <2>1. 0 \in M!Numbers
    BY MonitorAssumption DEF M!Numbers
  <2>2. QED
    BY <2>1
<1>3. M!TypeOK
  <2>1. << >> \in Seq(Monitors \X M!Numbers) /\ 0 <= ChanSize /\ 0 <= RingSize
    BY MonitorAssumption
  <2>2. QED
    BY <1>2, <2>1, Zenon DEF PlatformInit, M!TypeOK
<1>4. started \in BOOLEAN /\ Begun
  BY Zenon DEF PlatformInit, Begun
<1>5. ASSUME NEW m \in Monitors PROVE Linked(m)
  <2> DEFINE s == [i \in 0..Len(chan) |-> 0]
  <2>1. s \in [0..Len(chan) -> M!Numbers] /\ Follows(chan, m, handled[m], s)
    BY <1>2 DEF PlatformInit, Follows
  <2>2. mpc[m] = "done"
    BY DEF PlatformInit
  <2> HIDE DEF s
  <2>3. QED
    BY <2>1, <2>2 DEF Linked, OnTrack
<1>6. QED
  BY <1>1, <1>3, <1>4, <1>5 DEF PlatformInv

LEMMA BegunStep ==
  ASSUME M!TypeOK, M!Next, started, UNCHANGED <<loading, started>>, Begun
  PROVE  Begun'
<1>1. started' /\ at' = at /\ lsm' = lsm
  BY DEF loading
<1>2. ASSUME stop' = "no"
      PROVE  stop = "no" /\ \A m \in Monitors : mpc'[m] = "done" <=> mpc[m] = "done"
  <2>1. ASSUME NEW k \in Monitors, M!KernelEvent(k) \/ M!Monitor(k)
        PROVE  stop = "no" /\ \A m \in Monitors : mpc'[m] = "done" <=> mpc[m] = "done"
    BY <1>2, <2>1 DEF M!TypeOK, M!Monitor, M!KernelEvent, M!MonitorChecks,
       M!MonitorReads, M!MonitorSends, M!MonitorQuits, M!Told
  <2>2. CASE M!LoopTakes \/ M!LoopEnds
    BY <1>2, <2>2, Zenon DEF M!LoopTakes, M!LoopEnds
  <2>3. CASE M!StopCancels \/ M!StopCloses \/ M!StopWaits
    BY <1>2, <2>3 DEF M!StopCancels, M!StopCloses, M!StopWaits
  <2>4. QED
    BY <2>1, <2>2, <2>3 DEF M!Next
<1>3. QED
  BY <1>1, <1>2 DEF Begun

LEMMA LinkedStart ==
  ASSUME Begun, Start, NEW m \in Monitors, Linked(m)
  PROVE  Linked(m)'
<1>1. PICK s \in [0..Len(chan) -> M!Numbers] : Follows(chan, m, handled[m], s)
  BY Zenon DEF Linked, OnTrack
<1>2. chan = << >> /\ ring[m] = << >> /\ produced[m] = 0 /\ handled[m] = 0
  BY Zenon DEF Begun, Start
<1>3. Holds(ring[m], s[Len(chan)], produced[m])
  <2>1. Len(<< >>) = 0
    OBVIOUS
  <2>2. s[0] = 0
    BY <1>1, <1>2, Zenon DEF Follows
  <2>3. QED
    BY <1>2, <2>1, <2>2, EmptyHolds, Zenon
<1>4. /\ mpc'[m] \in {"done", "check"}
      /\ UNCHANGED <<chan, handled, held, ring, produced>>
  BY DEF Start
<1>5. QED
  BY <1>1, <1>3, <1>4, Zenon DEF Linked, OnTrack

LEMMA PlatformStep == PlatformInv /\ [PlatformNext]_platform => PlatformInv'
<1> SUFFICES ASSUME PlatformInv, [PlatformNext]_platform PROVE PlatformInv'
  OBVIOUS
<1>1. L!TypeOK /\ LoadInv /\ M!TypeOK /\ started \in BOOLEAN /\ Begun
  BY DEF PlatformInv
<1>2. ASSUME UNCHANGED loading PROVE L!TypeOK' /\ LoadInv'
  <2>1. L!TypeOK'
    BY <1>1, <1>2 DEF loading, L!TypeOK
  <2>2. LoadInv'
    BY <1>1, <1>2 DEF loading, LoadInv
  <2>3. QED
    BY <2>1, <2>2
<1>3. ASSUME UNCHANGED monitoring
      PROVE  M!TypeOK' /\ \A m \in Monitors : Linked(m)'
  <2>1. M!TypeOK'
    BY <1>1, <1>3, Zenon DEF monitoring, M!TypeOK
  <2>2. ASSUME NEW m \in Monitors PROVE Linked(m)'
    BY <1>3, LinkedSame DEF PlatformInv, monitoring
  <2>3. QED
    BY <2>1, <2>2
<1>4. ASSUME M!Next, started, UNCHANGED <<loading, started>> PROVE PlatformInv'
  <2>1. L!TypeOK' /\ LoadInv'
    BY <1>2, <1>4
  <2>2. M!TypeOK' /\ Begun'
    BY <1>1, <1>4, MonitorTypes, BegunStep
  <2>3. \A m \in Monitors : Linked(m)'
    BY <1>1, <1>4, LinkedStep DEF PlatformInv
  <2>4. QED
    BY <1>1, <1>4, <2>1, <2>2, <2>3 DEF PlatformInv
<1>5. CASE Load
  <2>1. L!Next /\ ~started /\ started' = started /\ UNCHANGED monitoring
    BY <1>5 DEF Load
  <2>2. L!TypeOK' /\ LoadInv'
    BY <1>1, <2>1, LoadStep
  <2>3. started' \in BOOLEAN /\ Begun'
    BY <1>1, <2>1 DEF Begun, monitoring
  <2>4. QED
    BY <1>3, <2>1, <2>2, <2>3 DEF PlatformInv
<1>6. CASE Start
  <2>1. /\ ~started /\ at = "ok" /\ started' = TRUE /\ loop' = TRUE
        /\ mpc' = [m \in Monitors |-> IF m = LSM /\ ~lsm THEN "done" ELSE "check"]
        /\ UNCHANGED <<ring, produced, held, chan, handled, stop, loading>>
    BY <1>6 DEF Start
  <2>2. M!TypeOK'
    BY <1>1, <2>1 DEF M!TypeOK
  <2>3. started' \in BOOLEAN /\ Begun'
    <3>1. started' /\ at' = "ok" /\ lsm' = lsm
      BY <2>1 DEF loading
    <3>2. \A m \in Monitors : mpc'[m] = "done" <=> m = LSM /\ ~lsm
      BY <2>1
    <3>3. QED
      BY <2>1, <3>1, <3>2 DEF Begun
  <2>4. ASSUME NEW m \in Monitors PROVE Linked(m)'
    BY <1>1, <1>6, LinkedStart DEF PlatformInv
  <2>5. QED
    BY <1>2, <2>1, <2>2, <2>3, <2>4 DEF PlatformInv
<1>7. ASSUME NEW m \in Monitors, Submit(m) \/ Rest(M!Monitor(m)) PROVE PlatformInv'
  BY <1>4, <1>7 DEF Submit, Rest, M!Next
<1>8. CASE \/ Rest(M!LoopTakes) \/ Rest(M!LoopEnds)
           \/ Rest(M!StopCancels) \/ Rest(M!StopCloses) \/ Rest(M!StopWaits)
  BY <1>4, <1>8 DEF Rest, M!Next
<1>9. CASE UNCHANGED platform
  <2>1. UNCHANGED <<monitoring, loading, started>>
    BY <1>9 DEF platform
  <2>2. Begun'
    BY <1>1, <2>1 DEF Begun, monitoring, loading
  <2>3. QED
    BY <1>1, <1>2, <1>3, <2>1, <2>2 DEF PlatformInv
<1>10. QED
  BY <1>5, <1>6, <1>7, <1>8, <1>9 DEF PlatformNext

LEMMA PlatformAlways == PlatformSpec => []PlatformInv
  BY PlatformStarts, PlatformStep, PTL DEF PlatformSpec

\* Whichever steps the kernel refuses, a Load that succeeds got what the flags
\* asked for, and still has it while the platform runs and stops.
THEOREM LoadGetsWhatItAsks == PlatformSpec => []LoadGranted
<1>1. PlatformInv => LoadGranted
  BY LoadSettled DEF PlatformInv
<1>2. QED
  BY PlatformAlways, <1>1, PTL

\* The posture line is true to the programs that are attached, and a refused LSM
\* program leaves none of the others behind.
THEOREM PostureIsTrue == PlatformSpec => []PostureMatchesPrograms
<1>1. PlatformInv => PostureMatchesPrograms
  BY LoadSettled DEF PlatformInv
<1>2. QED
  BY PlatformAlways, <1>1, PTL

\* Start gives a monitor to every ring buffer that attached programs fill, and
\* none of them leaves before the stop, for any number of monitors.
THEOREM EveryRingIsRead == PlatformSpec => []RingsRead
<1>1. ASSUME PlatformInv PROVE RingsRead
  <2>1. started => at = "ok" /\ (lsm <=> lsmSteps = L!LSMSteps)
    <3>1. L!TypeOK /\ LoadInv /\ Begun
      BY <1>1, Zenon DEF PlatformInv
    <3>2. QED
      BY <3>1 DEF Begun, LoadInv, L!LSMSteps, L!TypeOK
  <2>2. started /\ ~M!Told =>
          \A m \in Monitors : mpc[m] = "done" <=> m = LSM /\ ~lsm
    BY <1>1, Zenon DEF PlatformInv, Begun, M!Told
  <2>3. QED
    BY <2>1, <2>2, Zenon DEF RingsRead
<1>2. QED
  BY PlatformAlways, <1>1, PTL

\* Every event that a program puts into a ring buffer reaches the enforcer, once
\* and in order, as long as its monitor runs: for every size of the ring buffers
\* and of the channel, any number of monitors and any range of numbers.
THEOREM NoEventIsSkipped == PlatformSpec => NothingSkipped
<1>1. ASSUME PlatformInv, M!LoopTakes
      PROVE  Head(chan)[2] = M!Following(handled[Head(chan)[1]])
  <2>1. chan \in Seq(Entries) /\ chan # << >>
    BY <1>1 DEF PlatformInv, M!TypeOK, Entries, M!LoopTakes
  <2>2. Head(chan) = chan[1] /\ 1 \in 1..Len(chan) /\ chan[1] \in Entries
    BY <2>1
  <2> DEFINE m == chan[1][1]
  <2>3. m \in Monitors
    BY <2>2 DEF Entries
  <2>4. PICK s \in [0..Len(chan) -> M!Numbers] : Follows(chan, m, handled[m], s)
    BY <1>1, <2>3, Zenon DEF PlatformInv, Linked, OnTrack
  <2>5. /\ s[0] = handled[m]
        /\ s[1] = M!Following(s[1 - 1]) /\ chan[1][2] = s[1]
    BY <2>2, <2>4 DEF Follows
  <2>6. QED
    BY <2>2, <2>5
<1>2. PlatformInv =>
        [M!LoopTakes => LET e == Head(chan)
                        IN  e[2] = M!Following(handled[e[1]])]_(M!vars)
  BY <1>1
<1>3. QED
  BY PlatformAlways, <1>2, PTL DEF NothingSkipped, M!NothingSkipped
-----------------------------------------------------------------------------
(* The macOS client *)

Up == pc \in {"starting", "serving", "cancelled"}
States == {"new", "open", "answered", "refused", "left", "gone"}

\* Before Start nothing has arrived.  Until Stop begins the client is there and
\* its stop channel open.  The handler only comes to an answer for AUTH.
IInv ==
  /\ type = [m \in Messages |-> type[m]]
  /\ state \in [Messages -> States]
  /\ queue \in Seq(Messages) /\ hmsg \in Seq(Messages)
  /\ hpc # "idle" => Len(hmsg) = 1
  /\ pc = "new" => \A m \in Messages : state[m] # "left"
  /\ pc = "new" => hpc = "idle"
  /\ pc = "new" => es # "live"
  /\ pc \in {"new", "starting", "serving", "cancelled", "unregistered"} => ~stopChan
  /\ Up => global /\ client
  /\ AuthAnswered

USE DEF Up, States

LEMMA InitInv == Init => IInv
  BY DEF Init, IInv, AuthAnswered

\* The two ways a handler ends that leave a message unanswered: by Returns for
\* a message that is not AUTH, or after Stop has begun.
LEMMA ReturnsInv ==
  ASSUME IInv, hpc # "idle", pc # "new", Returns,
         Up => type[hmsg[1]] \notin Auth
  PROVE  IInv'
<1>1. hmsg[1] \in Messages
  <2>1. hmsg \in Seq(Messages) /\ Len(hmsg) = 1
    BY DEF IInv
  <2> QED
    BY <2>1
<1>2. state' \in [Messages -> States]
  BY <1>1 DEF IInv, Returns
<1>3. AuthAnswered'
  BY <1>1 DEF IInv, Returns, AuthAnswered, main, conn
<1> QED
  BY <1>2, <1>3 DEF IInv, Returns, main, conn

LEMMA NextInv == IInv /\ [Next]_vars => IInv'
<1> SUFFICES ASSUME IInv, [Next]_vars PROVE IInv'
  OBVIOUS
<1> USE DEF main, conn, msgs, handler, enforcer
<1>1. CASE StartClient
  BY <1>1 DEF IInv, StartClient, AuthAnswered
<1>2. CASE Subscribe
  BY <1>2 DEF IInv, Subscribe, AuthAnswered
<1>3. CASE Serve
  BY <1>3 DEF IInv, Serve, AuthAnswered
<1>4. ASSUME NEW m \in Messages, Arrive(m) PROVE IInv'
  <2>1. PICK t \in types : type' = [type EXCEPT ![m] = t]
    BY <1>4, Zenon DEF Arrive
  <2>2. type' = [n \in Messages |-> type'[n]]
    <3>1. type = [n \in Messages |-> type[n]]
      BY Zenon DEF IInv
    <3> QED
      BY <2>1, <3>1
  <2>3. /\ state' \in [Messages -> States]
        /\ queue' \in Seq(Messages)
    BY <1>4 DEF IInv, Arrive
  <2>4. AuthAnswered'
    BY <1>4 DEF IInv, Arrive, AuthAnswered
  <2> QED
    BY <1>4, <2>2, <2>3, <2>4 DEF IInv, Arrive
<1>5. CASE Deliver
  <2>1. queue' \in Seq(Messages) /\ hmsg' \in Seq(Messages) /\ Len(hmsg') = 1
    BY <1>5 DEF IInv, Deliver
  <2> QED
    BY <1>5, <2>1 DEF IInv, Deliver, AuthAnswered
<1>6. CASE goEventHandler
  <2>1. CASE ~global /\ Returns
    BY <1>6, <2>1, ReturnsInv DEF IInv, goEventHandler
  <2>2. CASE hpc' = "send" /\ UNCHANGED <<main, conn, msgs, hmsg>>
    BY <1>6, <2>2 DEF IInv, goEventHandler, AuthAnswered
  <2> QED
    BY <1>6, <2>1, <2>2 DEF goEventHandler
<1>7. CASE handleEvent
  <2>1. hpc = "send" /\ pc # "new"
    BY <1>7 DEF IInv, handleEvent
  <2>2. CASE type[hmsg[1]] = "fork" /\ Returns
    BY <2>1, <2>2, ReturnsInv DEF Auth
  <2>3. CASE stopChan /\ Returns
    BY <2>1, <2>3, ReturnsInv DEF IInv
  <2>4. CASE Sent
    <3>1. CASE type[hmsg[1]] \in Auth
      BY <2>4, <3>1, <2>1 DEF IInv, Sent, AuthAnswered
    <3>2. CASE type[hmsg[1]] \notin Auth
      BY <2>1, <2>4, <3>2, ReturnsInv DEF Sent
    <3> QED
      BY <3>1, <3>2
  <2> QED
    BY <1>7, <2>2, <2>3, <2>4 DEF handleEvent
<1>8. CASE RespondToAuthEvent
  <2>1. CASE ~client /\ Returns
    BY <1>8, <2>1, ReturnsInv DEF IInv, RespondToAuthEvent
  <2>2. CASE hpc' = "call" /\ UNCHANGED <<main, conn, msgs, hmsg>>
    BY <1>8, <2>2 DEF IInv, RespondToAuthEvent, AuthAnswered
  <2> QED
    BY <1>8, <2>1, <2>2 DEF RespondToAuthEvent
<1>9. CASE Answer
  <2>1. state' \in [Messages -> States]
    <3>1. \/ state' = [state EXCEPT ![hmsg[1]] = "answered"]
          \/ state' = [state EXCEPT ![hmsg[1]] = "refused"]
      BY <1>9, Zenon DEF Answer
    <3>2. state \in [Messages -> States]
      BY DEF IInv
    <3> QED
      BY <3>1, <3>2
  <2>2. AuthAnswered'
    BY <1>9 DEF IInv, Answer, AuthAnswered
  <2> QED
    BY <1>9, <2>1, <2>2 DEF IInv, Answer
<1>10. CASE LoopTakes \/ LoopEnds \/ Cancel
  BY <1>10 DEF IInv, LoopTakes, LoopEnds, Cancel, AuthAnswered
<1>11. CASE Unregister \/ CloseStopChan \/ Forget \/ StopWaits \/ Close
  BY <1>11 DEF IInv, Unregister, CloseStopChan, Forget, StopWaits, Close,
               AuthAnswered
<1>12. CASE Delete
  <2>1. /\ state' \in [Messages -> States]
        /\ queue' \in Seq(Messages)
    BY <1>12 DEF IInv, Delete
  <2> QED
    BY <1>12, <2>1 DEF IInv, Delete, AuthAnswered
<1>13. CASE UNCHANGED vars
  BY <1>13 DEF IInv, vars, AuthAnswered
<1> QED
  BY <1>1, <1>2, <1>3, <1>4, <1>5, <1>6, <1>7, <1>8, <1>9, <1>10, <1>11, <1>12,
     <1>13 DEF Next, Handler, Stop

\* Whatever the messages, the room in the channel and the answers ES refuses, no
\* handler of client.go:252 returns from an AUTH message without having given
\* ES its answer before Client.Stop has unregistered the client.
THEOREM AuthIsAnswered == Spec => []AuthAnswered
<1>1. IInv => AuthAnswered
  BY DEF IInv
<1> QED
  BY <1>1, InitInv, NextInv, PTL DEF Spec
=============================================================================
