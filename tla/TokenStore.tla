----------------------------- MODULE TokenStore -----------------------------
(***************************************************************************)
(* The token store of the server: src/internal/tokens/store.go, with its   *)
(* configuration (config.go).  It keeps a bucket per user, in memory only; *)
(* the bucket is that of Bucket, with the configured capacity and rate.    *)
(***************************************************************************)
EXTENDS Integers, Sequences

CONSTANTS
    UserIds,   \* user ids that a request may carry
    NoId,      \* the empty user id
    Defaults,  \* DefaultCapacity and DefaultRatePerMin, in tokens per tick
    MaxInt     \* the largest int64

Fields == {"capacity", "rate"}

ASSUME StoreAssumption ==
    /\ NoId \notin UserIds
    /\ Defaults \in [Fields -> Int]
    /\ MaxInt \in Nat

VARIABLES
    config,  \* the configuration of the running process
    heap,    \* its buckets, in the order of their creation
    store    \* for each user, the place of its bucket in heap, or 0

storeVars == <<config, heap, store>>

Bkt == INSTANCE Bucket WITH
    Capacity <- config.capacity, Num <- config.rate, Den <- 1

(* Load: a file that is there but cannot be read or parsed is an error, as *)
(* is an environment variable that is no number; what the environment sets *)
(* wins over the file, and the file over the defaults. *)
IsSource(s) ==
    /\ s.fileOk \in BOOLEAN /\ s.envOk \in BOOLEAN
    /\ DOMAIN s.file \subseteq Fields /\ DOMAIN s.env \subseteq Fields
    /\ \A f \in DOMAIN s.file : s.file[f] \in Int
    /\ \A f \in DOMAIN s.env : s.env[f] \in Int

Merged(s) ==
    [f \in Fields |-> IF f \in DOMAIN s.env THEN s.env[f]
                      ELSE IF f \in DOMAIN s.file THEN s.file[f]
                      ELSE Defaults[f]]
Validated(cfg) == cfg.capacity >= 1 /\ cfg.rate >= 0
Loads(s) == s.fileOk /\ s.envOk /\ Validated(Merged(s))

(* NewStore *)
NewStore(cfg) ==
    /\ config' = cfg
    /\ heap' = <<>>
    /\ store' = [u \in UserIds |-> 0]

(* A mistake: the look-up and the creation are not one critical section. *)
FoundUnlocked(u) == FALSE

Found(u) == store[u] # 0

(* ForUser, under s.mu; at is where the bucket is. *)
Place(u) == IF Found(u) THEN store[u] ELSE Len(heap) + 1

ForUser(u, time) ==
    /\ heap' = IF Found(u) THEN heap ELSE Append(heap, Bkt!NewBucket(time))
    /\ store' = [store EXCEPT ![u] = Place(u)]
    /\ UNCHANGED config

(* The methods of the bucket at this place, under its own lock. *)
Fresh(i, time) == Bkt!Refilled(heap[i], time)

SetBucket(i, b) == heap' = [heap EXCEPT ![i] = b] /\ UNCHANGED <<config, store>>
=============================================================================
