---------------------------- MODULE DecisionCache ----------------------------
(***************************************************************************)
(* internal/cache/cache.go: the bounded, time-limited map from event keys  *)
(* to policy decisions that the event loop asks before it evaluates an     *)
(* event.  Every method runs under the cache's RWMutex, so each one is one *)
(* step.  Expired entries stay in the map until they are overwritten,      *)
(* evicted or cleared, and count against its capacity.                     *)
(***************************************************************************)
EXTENDS Naturals, FiniteSets

CONSTANTS Keys,       \* results of makeKey
          Results,    \* decisions
          MaxSize,    \* maxSize: 10000 in the enforcer
          TTL,        \* ttl: five minutes in the enforcer
          MaxTime     \* bound on the clock

ASSUME CacheAssumption ==
  /\ MaxSize \in Nat \ {0}
  /\ TTL \in Nat
  /\ MaxTime \in Nat

VARIABLES entries,    \* entries map[string]*CacheEntry
          now,        \* time.Now()
          reply,      \* the answer of the last Get, << >> after other steps
          lastUse     \* history: when each present key was last stored or hit

cacheVars == <<entries, now, reply, lastUse>>

CacheEntry == [result : Results, expiresAt : Nat]

CacheTypeOK ==
  /\ DOMAIN entries \subseteq Keys
  /\ entries \in [DOMAIN entries -> CacheEntry]
  /\ now \in Nat
  /\ reply \in {<< >>} \cup {<<k>> : k \in Keys} \cup (Keys \X Results)
  /\ lastUse \in [DOMAIN entries -> Nat]

\* Mutant of Expired: the expiry test is missing.
ExpiredNever(k) == FALSE

\* time.Now().After(entry.ExpiresAt)
Expired(k) == now > entries[k].expiresAt

NewDecisionCache ==
  /\ entries = << >>
  /\ now = 0
  /\ reply = << >>
  /\ lastUse = << >>

\* The caller gets a copy of the stored result; a hit marks nothing but the
\* hit counter, so it does not protect the entry from eviction.
Get(k) ==
  LET hit == k \in DOMAIN entries /\ ~Expired(k)
  IN  /\ reply' = IF hit THEN <<k, entries[k].result>> ELSE <<k>>
      /\ lastUse' = IF hit THEN [lastUse EXCEPT ![k] = now] ELSE lastUse
      /\ UNCHANGED <<entries, now>>

\* Mutant of Oldest: Before and After swapped.
Youngest ==
  {k \in DOMAIN entries :
     \A o \in DOMAIN entries : entries[k].expiresAt >= entries[o].expiresAt}

\* The keys evictOldest may delete: those that expire first.  Ties are broken
\* by Go's map iteration order, so any of them may go.
Oldest ==
  {k \in DOMAIN entries :
     \A o \in DOMAIN entries : entries[k].expiresAt <= entries[o].expiresAt}

\* Mutant of evictOldest: > for >= in the capacity test.
evictTooLate ==
  IF Cardinality(DOMAIN entries) > MaxSize THEN {{k} : k \in Oldest} ELSE {{}}

\* What Put deletes before it inserts: nothing below capacity.
evictOldest ==
  IF Cardinality(DOMAIN entries) >= MaxSize THEN {{k} : k \in Oldest} ELSE {{}}

\* f without the keys in gone and with k bound to v.
Store(f, gone, k, v) ==
  [x \in (DOMAIN f \ gone) \cup {k} |-> IF x = k THEN v ELSE f[x]]

\* The capacity test comes before the key is looked at: overwriting a key of
\* a full cache evicts an entry too.
Put(k, r) ==
  \E gone \in evictOldest :
    /\ entries' = Store(entries, gone, k,
                        [result |-> r, expiresAt |-> now + TTL])
    /\ lastUse' = Store(lastUse, gone, k, now)
    /\ reply' = << >>
    /\ UNCHANGED now

Clear ==
  /\ entries' = << >>
  /\ lastUse' = << >>
  /\ reply' = << >>
  /\ UNCHANGED now

Tick ==
  /\ now < MaxTime
  /\ now' = now + 1
  /\ reply' = << >>
  /\ UNCHANGED <<entries, lastUse>>

CacheNext ==
  \/ \E k \in Keys : Get(k)
  \/ \E k \in Keys, r \in Results : Put(k, r)
  \/ Clear
  \/ Tick

CacheSpec == NewDecisionCache /\ [][CacheNext]_cacheVars
-----------------------------------------------------------------------------
\* The capacity promised by NewDecisionCache(10000, ...) is never exceeded,
\* although Put inserts without looking whether its eviction made room.
CapacityBound == Cardinality(DOMAIN entries) <= MaxSize

\* A decision leaves the cache only by Clear or by the eviction of Put, and
\* Put never drops a decision that outlives one it keeps: at most one key
\* goes, and every other key that stays expires no earlier.
EvictsOnlyOldest ==
  [][ \A k \in DOMAIN entries \ DOMAIN entries' :
        \/ entries' = << >>
        \/ \A o \in DOMAIN entries \ {k} :
             /\ o \in DOMAIN entries'
             /\ entries[k].expiresAt <= entries[o].expiresAt ]_cacheVars

\* What the documents say of eviction (docs/architecture.md:161, "LRU cache
\* with TTL"): a key that Put pushes out was used no later than any key that
\* stays.
EvictsLeastRecentlyUsed ==
  [][ \A k \in DOMAIN entries \ DOMAIN entries' :
        \A o \in DOMAIN entries \cap DOMAIN entries' :
          lastUse[k] <= lastUse[o] ]_cacheVars
-----------------------------------------------------------------------------
\* The decisions a lookup can still return, and their age.
Live == {k \in DOMAIN entries : ~Expired(k)}
known == [k \in Live |-> entries[k].result]
age == [k \in Live |-> now + TTL - entries[k].expiresAt]

Promise == INSTANCE DecisionStore WITH recalled <- reply

\* The cache keeps DecisionStore's promise: a hit is the latest decision that
\* was Put under the key, unaltered, since the last Clear and at most TTL ago.
ImplementsStore == Promise!StoreSpec
=============================================================================
