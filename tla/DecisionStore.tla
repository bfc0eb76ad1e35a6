---------------------------- MODULE DecisionStore ----------------------------
(***************************************************************************)
(* What the decision cache promises its only user, the enforcer's event    *)
(* loop, with no word about how it is kept: a decision that was stored     *)
(* under a key may be recalled until it is TTL old, is never altered, is   *)
(* replaced by a later one under the same key, and may be forgotten at any *)
(* time.  DecisionCache implements it.                                     *)
(***************************************************************************)
EXTENDS Naturals

CONSTANTS Keys,       \* cache keys, "{type}:{pid}:{uid}:{hash}" in the code
          Results,    \* decisions (action, reason, audit flag)
          TTL         \* the age after which a decision is no longer recalled

VARIABLES known,      \* the decisions that may still be recalled
          age,        \* how long ago each of them was stored
          recalled    \* the answer of the last lookup, << >> after other steps

storeVars == <<known, age, recalled>>

StoreInit ==
  /\ known = << >>
  /\ age = << >>
  /\ recalled = << >>

\* Only keys outside "gone" keep their decision; nothing else changes.
Keep(f, gone) == [k \in DOMAIN f \ gone |-> f[k]]

\* f with k bound to v.
Bind(f, k, v) == [x \in DOMAIN f \cup {k} |-> IF x = k THEN v ELSE f[x]]

Remember(k, r) ==
  \E gone \in SUBSET (DOMAIN known) :
    /\ known' = Bind(Keep(known, gone), k, r)
    /\ age' = Bind(Keep(age, gone), k, 0)
    /\ recalled' = << >>

Recall(k) ==
  /\ recalled' = IF k \in DOMAIN known THEN <<k, known[k]>> ELSE <<k>>
  /\ UNCHANGED <<known, age>>

Forget ==
  \E gone \in SUBSET (DOMAIN known) :
    /\ known' = Keep(known, gone)
    /\ age' = Keep(age, gone)
    /\ recalled' = << >>

\* Time passes: what is TTL old already must go, anything else may.
Age ==
  \E gone \in SUBSET (DOMAIN known) :
    /\ {k \in DOMAIN known : age[k] >= TTL} \subseteq gone
    /\ known' = Keep(known, gone)
    /\ age' = [k \in DOMAIN known \ gone |-> age[k] + 1]
    /\ recalled' = << >>

StoreNext ==
  \/ \E k \in Keys, r \in Results : Remember(k, r)
  \/ \E k \in Keys : Recall(k)
  \/ Forget
  \/ Age

StoreSpec == StoreInit /\ [][StoreNext]_storeVars
=============================================================================
