---------------------------- MODULE CloudStore ----------------------------
(***************************************************************************)
(* What CacheBackend (cache/cache.go) promises its callers: for each cloud *)
(* at most one snapshot, published, expired and read in one step each.  A  *)
(* reader gets the families of one published snapshot that belong to the   *)
(* services it asked for, whatever happens to the store while it writes    *)
(* its answer.  InMemoryCache.tla and CacheService.tla implement it.       *)
(***************************************************************************)
CONSTANTS
  Clouds,
  Readers,
  Families,
  Services,
  NoSnapshot,   \* nothing is cached for the cloud
  NoAnswer,     \* the reader has not looked yet
  Failed        \* the reader could not encode what it got

VARIABLES
  published,   \* the snapshot of each cloud: a map from families to services
  stale,       \* the clouds whose snapshot is older than the TTL
  answer       \* what each reader answers

storeVars == <<published, stale, answer>>

Snapshots == UNION {[D -> Services] : D \in SUBSET Families}

\* The families of snapshot m that belong to the services in want.
Select(m, want) ==
  IF m = NoSnapshot THEN {} ELSE {f \in DOMAIN m : m[f] \in want}

Init ==
  /\ published = [c \in Clouds |-> NoSnapshot]
  /\ stale = {}
  /\ answer = [r \in Readers |-> NoAnswer]

\* SetCloudCache: the old snapshot is replaced as a whole and the new one is
\* fresh.
Publish(c, m) ==
  /\ published' = [published EXCEPT ![c] = m]
  /\ stale' = stale \ {c}
  /\ UNCHANGED answer

\* Time passes.
Age(S) ==
  /\ \A c \in S : published[c] # NoSnapshot
  /\ stale' = stale \cup S
  /\ UNCHANGED <<published, answer>>

\* FlushExpiredCloudCaches: only snapshots older than the TTL go.
Expire(S) ==
  /\ S \subseteq stale
  /\ published' = [c \in Clouds |-> IF c \in S THEN NoSnapshot ELSE published[c]]
  /\ stale' = stale \ S
  /\ UNCHANGED answer

\* GetCloudCache and the choice of families in BufferFromCache.
Read(r, c, want) ==
  /\ answer[r] = NoAnswer
  /\ answer' = [answer EXCEPT ![r] = Select(published[c], want)]
  /\ UNCHANGED <<published, stale>>

Fail(r) ==
  /\ answer[r] # NoAnswer
  /\ answer' = [answer EXCEPT ![r] = Failed]
  /\ UNCHANGED <<published, stale>>

Close(r) ==
  /\ answer[r] # NoAnswer
  /\ answer' = [answer EXCEPT ![r] = NoAnswer]
  /\ UNCHANGED <<published, stale>>

Next ==
  \/ \E c \in Clouds, m \in Snapshots : Publish(c, m)
  \/ \E S \in SUBSET Clouds : Age(S) \/ Expire(S)
  \/ \E r \in Readers : Fail(r) \/ Close(r)
  \/ \E r \in Readers, c \in Clouds, want \in SUBSET Services : Read(r, c, want)

Spec == Init /\ [][Next]_storeVars
===========================================================================
