------------------------------ MODULE LinuxLoad ------------------------------
(***************************************************************************)
(* Loading the Linux platform: LinuxPlatform.Load with the two loaders it  *)
(* calls (internal/platform/linux.go, internal/ebpf/loader.go and          *)
(* lsm_loader.go).  The kernel may refuse any single step, and each        *)
(* refusal has its own way out: an error, a warning, or a fallback.        *)
(***************************************************************************)
EXTENDS Integers, FiniteSets

VARIABLES
  enforce, require, skip, \* --lsm-enforce, --require-lsm, --no-lsm
  filter,    \* --cgroup-filter is given
  at,        \* where Load is; "ok", "error" and "panic" when it has ended
  traced,    \* tracepoint monitors: steps of ebpf.Load done
  scope,     \* per monitor's map: "all", "part" (sentinel, not every id), "listed"
  lsmSteps,  \* steps of LoadLSM done
  lsm,       \* p.lsmLoader is set
  armed,     \* value of the lsm_enforce map
  lsmScope,  \* scope of the LSM programs
  posture    \* what logSecurityPosture printed

config == <<enforce, require, skip, filter>>
kernel == <<traced, scope, lsmSteps, armed, lsmScope>>
vars == <<config, at, kernel, lsm, posture>>

Tracepoints == 1..3      \* execve, openat, connect
PerMonitor == 3          \* objects, tracepoint, ring buffer reader
TraceSteps == 3 * PerMonitor
LSMSteps == 2 * 7 + 1    \* objects and hook of seven programs; the reader

Scopes == {"all", "part", "listed"}

TypeOK ==
  /\ {enforce, require, skip, filter, lsm, armed} \subseteq BOOLEAN
  /\ at \in {"trace", "filter", "lsm", "arm", "lsmFilter", "posture",
             "ok", "error", "panic"}
  /\ traced \in 0..TraceSteps /\ lsmSteps \in 0..LSMSteps
  /\ scope \in [Tracepoints -> Scopes] /\ lsmScope \in Scopes
  /\ posture \in {"none", "enforce", "audit", "observe"}

\* NewLinuxPlatform; maps of programs not loaded yet are empty.
Init ==
  /\ enforce \in BOOLEAN /\ require \in BOOLEAN /\ skip \in BOOLEAN
  /\ filter \in BOOLEAN
  /\ at = "trace" /\ traced = 0 /\ lsmSteps = 0
  /\ scope = [m \in Tracepoints |-> "all"] /\ lsmScope = "all"
  /\ lsm = FALSE /\ armed = FALSE /\ posture = "none"

\* Loader.Close once everything is loaded, and Load returns an error.
CloseAndFail ==
  /\ at' = "error" /\ traced' = 0
  /\ UNCHANGED <<config, scope, lsmSteps, lsm, armed, lsmScope, posture>>
-----------------------------------------------------------------------------
(* ebpf.Load *)

TraceStep ==
  /\ at = "trace" /\ traced < TraceSteps
  /\ traced' = traced + 1
  /\ at' = IF traced' < TraceSteps THEN "trace"
           ELSE IF filter THEN "filter" ELSE "lsm"
  /\ UNCHANGED <<config, scope, lsmSteps, lsm, armed, lsmScope, posture>>

\* Loader.Close closes every objects pointer that is not the nil interface,
\* and the pointer of a monitor not reached yet is nil inside one.
CloseReached == traced >= 2 * PerMonitor

TraceFails ==
  /\ at = "trace"
  /\ at' = IF traced = 0 \/ CloseReached THEN "error" ELSE "panic"
  /\ traced' = 0
  /\ UNCHANGED <<config, scope, lsmSteps, lsm, armed, lsmScope, posture>>
-----------------------------------------------------------------------------
(* The cgroup filter of the monitors *)

ResolveFails == at = "filter" /\ CloseAndFail

SetCgroupFilter ==
  /\ at = "filter" /\ at' = "lsm"
  /\ scope' = [m \in Tracepoints |-> "listed"]
  /\ UNCHANGED <<config, traced, lsmSteps, lsm, armed, lsmScope, posture>>

\* The maps before m are filled; m holds nothing or a part.
SetCgroupFilterFails(m, s) ==
  /\ at = "filter" /\ s \in {"all", "part"}
  /\ scope' = [n \in Tracepoints |-> IF n < m THEN "listed"
                                  ELSE IF n = m THEN s ELSE "all"]
  /\ at' = "error" /\ traced' = 0
  /\ UNCHANGED <<config, lsmSteps, lsm, armed, lsmScope, posture>>
-----------------------------------------------------------------------------
(* The LSM programs *)

SkipLSM ==
  /\ at = "lsm" /\ skip /\ at' = "posture"
  /\ UNCHANGED <<config, kernel, lsm, posture>>

\* LoadLSM returns nil: unsupported, or an error after l.Close.
NoLSM ==
  /\ lsmSteps' = 0
  /\ IF require THEN at' = "error" /\ traced' = 0
     ELSE at' = "posture" /\ UNCHANGED traced
  /\ UNCHANGED <<config, scope, lsm, armed, lsmScope, posture>>

\* Mutant of LSMFails: what was attached is not released.
LSMFailsLeaks ==
  /\ at = "lsm" /\ ~skip /\ lsmSteps < LSMSteps
  /\ IF require THEN at' = "error" /\ traced' = 0
     ELSE at' = "posture" /\ UNCHANGED traced
  /\ UNCHANGED <<config, scope, lsmSteps, lsm, armed, lsmScope, posture>>

LSMFails == at = "lsm" /\ ~skip /\ lsmSteps < LSMSteps /\ NoLSM

LSMStep ==
  /\ at = "lsm" /\ ~skip /\ lsmSteps < LSMSteps
  /\ lsmSteps' = lsmSteps + 1
  /\ IF lsmSteps' = LSMSteps THEN at' = "arm" /\ lsm' = TRUE
     ELSE UNCHANGED <<at, lsm>>
  /\ UNCHANGED <<config, traced, scope, armed, lsmScope, posture>>

SetEnforceMode ==
  /\ at = "arm" /\ armed' = enforce
  /\ at' = IF filter THEN "lsmFilter" ELSE "posture"
  /\ UNCHANGED <<config, traced, scope, lsmSteps, lsm, lsmScope, posture>>

\* Mutant of SetEnforceFails: only a warning, whatever is required.
SetEnforceFailsOpen ==
  /\ at = "arm" /\ at' = IF filter THEN "lsmFilter" ELSE "posture"
  /\ UNCHANGED <<config, kernel, lsm, posture>>

SetEnforceFails ==
  /\ at = "arm"
  /\ \/ require /\ CloseAndFail
     \/ /\ ~require /\ at' = IF filter THEN "lsmFilter" ELSE "posture"
        /\ UNCHANGED <<config, kernel, lsm, posture>>

\* A failure leaves nothing or a part, and is only a warning.
SetLSMFilter(s) ==
  /\ at = "lsmFilter" /\ s \in Scopes
  /\ lsmScope' = s /\ at' = "posture"
  /\ UNCHANGED <<config, traced, scope, lsmSteps, lsm, armed, posture>>

LogSecurityPosture ==
  /\ at = "posture" /\ at' = "ok"
  /\ posture' = IF lsm THEN IF enforce THEN "enforce" ELSE "audit"
                ELSE "observe"
  /\ UNCHANGED <<config, kernel, lsm>>

Next ==
  \/ TraceStep \/ TraceFails
  \/ ResolveFails \/ SetCgroupFilter
  \/ \E m \in Tracepoints, s \in Scopes : SetCgroupFilterFails(m, s)
  \/ SkipLSM \/ LSMFails \/ LSMStep \/ SetEnforceMode \/ SetEnforceFails
  \/ \E s \in Scopes : SetLSMFilter(s)
  \/ LogSecurityPosture

Spec == Init /\ [][Next]_vars
-----------------------------------------------------------------------------
\* A Load that succeeds got what it was asked for, whichever steps the kernel
\* refused on the way: under --require-lsm (linux.go:74-78, unless the programs
\* are skipped) every LSM program is attached and the enforce map is as the
\* flags ask; and with a cgroup filter all three monitors observe the listed
\* cgroups and no others.
LoadGranted ==
  at = "ok" =>
    /\ require /\ ~skip => lsmSteps = LSMSteps /\ armed = enforce
    /\ \A m \in Tracepoints : scope[m] = IF filter THEN "listed" ELSE "all"

\* A refused LSM program leaves none of the earlier ones in the kernel, and the
\* posture line tells which it is: OBSERVE-ONLY exactly when no program is
\* attached, and nothing but ACTIVE when the kernel blocks.
PostureMatchesPrograms ==
  at = "ok" => /\ lsmSteps \in {0, LSMSteps}
               /\ posture = "observe" <=> lsmSteps = 0
               /\ armed => posture = "enforce"

\* docs/SECURITY_POSTURE.md:47, "prints a one-line Security posture summary at
\* startup so the active mode is unambiguous in logs": ACTIVE means armed.
PostureHonest == at = "ok" /\ posture = "enforce" => armed

\* docs/SECURITY_POSTURE.md:72, "Fail to start unless LSM enforcement loads".
RequireRefuses == at = "ok" /\ require => lsm

\* internal/ebpf/lsm_loader.go:403-408 on closing after a partial load, "guard
\* the pointer value": a refused step ends in an error.
LoadNeverPanics == at # "panic"
=============================================================================
