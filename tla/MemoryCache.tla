----------------------------- MODULE MemoryCache -----------------------------
(***************************************************************************)
(* The in-process response cache, app/cache/memory: bounded, evicting the  *)
(* least recently used entry, with a time to live for each entry.  Every   *)
(* operation runs under the cache's lock, so each is one step; delete and  *)
(* clear have no caller in the application and are left out.               *)
(*                                                                         *)
(* The ordered dictionary is a sequence of entries, the least recently     *)
(* used one first.  An expired entry keeps its place until somebody asks   *)
(* for its key or it is evicted.                                           *)
(***************************************************************************)
EXTENDS Integers, Sequences, Functions

CONSTANTS
    MaxEntries,   \* max_entries
    MaxTime       \* bound: how far the clock runs

ASSUME CacheAssumption ==
    /\ MaxEntries \in Nat
    /\ MaxTime \in Nat \ {0}

VARIABLES
    now,      \* time.monotonic()
    store,    \* OrderedDict of key -> (expires_at, value); expires 0 is None
    used      \* history: the store of a cache that never evicts or drops an entry

cacheVars == <<now, store, used>>

CacheInit ==
    /\ now = 1
    /\ store = <<>>
    /\ used = <<>>

Expired(e) == e.expires # 0 /\ now >= e.expires

Held(k) == \E e \in Range(store) : e.key = k

EntryOf(k) == CHOOSE e \in Range(store) : e.key = k

\* A key has one entry.
Without(s, k) ==
    IF \E i \in DOMAIN s : s[i].key = k
    THEN LET i == CHOOSE j \in DOMAIN s : s[j].key = k
         IN SubSeq(s, 1, i - 1) \o SubSeq(s, i + 1, Len(s))
    ELSE s

\* Whether get returns a value.
Hit(k) == Held(k) /\ ~Expired(EntryOf(k))

\* A plausible slip: a hit leaves the entry where it is.
Touched_Not(s, e) == s

Touched(s, e) == Append(Without(s, e.key), e)

Get(k) ==
    /\ store' = IF Hit(k) THEN Touched(store, EntryOf(k)) ELSE Without(store, k)
    /\ used' = IF Hit(k) THEN Append(Without(used, k), EntryOf(k)) ELSE used
    /\ UNCHANGED now

\* The least recently used entries go, expired or not.
Bounded(s) == IF Len(s) > MaxEntries THEN SubSeq(s, Len(s) - MaxEntries + 1, Len(s)) ELSE s

\* The clock was read before the lock was taken, so it may lag.
Put(k, v, clock, ttl) ==
    LET e == [key |-> k, value |-> v, expires |-> IF ttl <= 0 THEN 0 ELSE clock + ttl] IN
    /\ store' = Bounded(Append(Without(store, k), e))
    /\ used' = Append(Without(used, k), e)
    /\ UNCHANGED now

Tick ==
    /\ now < MaxTime
    /\ now' = now + 1
    /\ UNCHANGED <<store, used>>

-----------------------------------------------------------------------------
\* Properties

\* The cache never makes anything up: what it holds, a cache without a bound would hold.
\* And it forgets in the right order: of the MaxEntries keys that were used last, it
\* holds every one that has not expired, whatever was got, stored and dropped in between.
RecentKept ==
    /\ Range(store) \subseteq Range(used)
    /\ \A i \in DOMAIN used :
        i > Len(used) - MaxEntries /\ ~Expired(used[i]) => used[i] \in Range(store)

=============================================================================
