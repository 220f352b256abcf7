--------------------------- MODULE PlatformProofs ----------------------------
(***************************************************************************)
(* Proofs about what runs underneath the learners.  The router: its cache  *)
(* serves fresh answers of the right target and forgets the oldest first,  *)
(* and a call fails only after all its targets, for any profiles, targets, *)
(* orders, threads and cache size.  The boot: what is served is the        *)
(* release and is whole, and one that the checker passes fails a boot only *)
(* by a proviso that is stated, for any content, deploys and crashes.      *)
(***************************************************************************)
EXTENDS ContentBoot, AIRouter, FoldProofs

\* What stands where in two sequences put together.
LEMMA Concatenation ==
    ASSUME NEW X, NEW s \in Seq(X), NEW t \in Seq(X)
    PROVE  /\ s \o t \in Seq(X) /\ Len(s \o t) = Len(s) + Len(t)
           /\ \A i \in 1..Len(s) : (s \o t)[i] = s[i]
           /\ \A i \in 1..Len(t) : (s \o t)[Len(s) + i] = t[i]
OBVIOUS

-----------------------------------------------------------------------------
\* The router: what the cache serves

\* The targets a call can be at; an answer and what it answers.
Position == {Order(p)[n] : p \in Profiles, n \in Nat}
Answering == [of : Profiles \X Requests \X Position, born : Nat]

\* An entry lies under the key of what it answers and lives no longer than its profile
\* allows, counted from when it was stored.
Entry ==
    {e \in [key : Profiles \X Requests \X Position, value : Answering, expires : Nat] :
        /\ e.value.of = e.key
        /\ e.expires = 0 => Ttl[e.key[1]] = 0
        /\ e.expires # 0 => e.expires <= e.value.born + Ttl[e.key[1]]}

Busy == [at : {"probe", "ask", "store", "answered", "failed"}, profile : Profiles,
         request : Requests, next : Nat, failed : SUBSET Position, since : Nat,
         answer : SUBSET Answering]

\* Only calls of cached profiles get to the cache.
FreshInv ==
    /\ now \in Nat
    /\ store \in Seq(Entry)
    /\ call \in [Threads -> Busy \cup {Idle}]
    /\ \A th \in Threads : call[th].at \in {"probe", "store"} =>
        /\ call[th].profile \in Cached
        /\ call[th] \in Busy

\* A slot that is not idle is a call in progress.
LEMMA IdleNotBusy == Idle \notin Busy /\ \A th \in Threads :
    FreshInv /\ call[th].at # "idle" => call[th] \in Busy
BY DEF Idle, Busy, FreshInv

\* Taking an entry out of a sequence leaves a sequence of the others.
LEMMA WithoutEntries ==
    ASSUME NEW S, NEW s \in Seq(S), NEW k PROVE Without(s, k) \in Seq(S)
<1>1. CASE \E i \in DOMAIN s : s[i].key = k
    <2> DEFINE i == CHOOSE j \in DOMAIN s : s[j].key = k
    <2>1. i \in 1..Len(s) BY <1>1
    <2> HIDE DEF i
    <2>2. SubSeq(s, 1, i - 1) \in Seq(S) BY <2>1
    <2>3. SubSeq(s, i + 1, Len(s)) \in Seq(S) BY <2>1
    <2>4. Without(s, k) = SubSeq(s, 1, i - 1) \o SubSeq(s, i + 1, Len(s)) BY <1>1 DEF Without, i
    <2> QED BY <2>2, <2>3, <2>4
<1>2. CASE ~\E i \in DOMAIN s : s[i].key = k
    BY <1>2 DEF Without
<1> QED BY <1>1, <1>2

\* Evicting from a sequence leaves a sequence of the others.
LEMMA BoundedEntries ==
    ASSUME NEW S, NEW s \in Seq(S) PROVE Bounded(s) \in Seq(S)
<1>1. MaxEntries \in Nat BY CacheAssumption
<1>2. CASE Len(s) > MaxEntries
    <2>1. Len(s) - MaxEntries + 1 \in 1..(Len(s) + 1) BY <1>1, <1>2
    <2>2. SubSeq(s, Len(s) - MaxEntries + 1, Len(s)) \in Seq(S) BY <2>1
    <2> QED BY <1>2, <2>2 DEF Bounded
<1>3. CASE ~(Len(s) > MaxEntries)
    BY <1>3 DEF Bounded
<1> QED BY <1>2, <1>3

\* A key that is held has an entry, under that key.
LEMMA HeldEntry ==
    ASSUME store \in Seq(Entry), NEW k, Held(k)
    PROVE  EntryOf(k) \in Entry /\ EntryOf(k).key = k
<1>1. \E e \in Range(store) : e.key = k BY DEF Held
<1>2. EntryOf(k) \in Range(store) /\ EntryOf(k).key = k BY <1>1 DEF EntryOf
<1>3. \A e \in Range(store) : e \in Entry BY DEF Range
<1> QED BY <1>2, <1>3

\* A call in progress looks its request up under the key of what it asks.
LEMMA BusyKey ==
    ASSUME NEW th \in Threads, call[th] \in Busy
    PROVE  /\ Target(th) \in Position
           /\ Key(th) = Asked(th)
           /\ Asked(th) \in Profiles \X Requests \X Position
           /\ Asked(th)[1] = call[th].profile
BY DEF Busy, Target, Key, Asked, Position

\* The empty cache is fresh.
LEMMA FreshInit == Init => FreshInv
BY DEF Init, CacheInit, FreshInv, Idle

\* What a probe finds is of the target it probes for, and within its time to live.
LEMMA HitIsFresh ==
    ASSUME FreshInv, NEW th \in Threads, call[th].at = "probe", Hit(Key(th))
    PROVE  LET a == EntryOf(Key(th)).value IN
           /\ a \in Answering
           /\ a.of = Asked(th)
           /\ Ttl[call[th].profile] = 0 \/ now < a.born + Ttl[call[th].profile]
<1>1. call[th] \in Busy BY DEF FreshInv
<1>2. EntryOf(Key(th)) \in Entry /\ EntryOf(Key(th)).key = Key(th)
    BY HeldEntry DEF Hit, FreshInv
<1>3. ~Expired(EntryOf(Key(th))) BY DEF Hit
<1>4. Ttl[call[th].profile] \in Nat BY <1>1, RouterAssumption DEF Busy
<1> QED BY <1>1, <1>2, <1>3, <1>4, BusyKey DEF Entry, Answering, Expired, FreshInv

\* Every step keeps the cache fresh.
LEMMA FreshStep ==
    FreshInv /\ [Next]_vars => FreshInv'
<1> SUFFICES ASSUME FreshInv, [Next]_vars PROVE FreshInv'
    OBVIOUS
<1> USE IdleNotBusy
<1>1. ASSUME NEW th \in Threads, NEW p \in Profiles, NEW q \in Requests, Start(th, p, q)
      PROVE  FreshInv'
    BY <1>1 DEF Start, FreshInv, Busy, Idle, Entrance, cacheVars
<1>2. ASSUME NEW th \in Threads, Probe(th) PROVE FreshInv'
    <2>1. call[th] \in Busy /\ call[th].at = "probe" BY <1>2 DEF Probe, FreshInv
    <2>2. CASE Hit(Key(th))
        <3>1. EntryOf(Key(th)) \in Entry BY <2>2, HeldEntry DEF Hit, FreshInv
        <3>2. Without(store, EntryOf(Key(th)).key) \in Seq(Entry) BY WithoutEntries DEF FreshInv
        <3>3. store' \in Seq(Entry)
            BY <1>2, <2>2, <3>1, <3>2 DEF Probe, Get, Touched
        <3>4. EntryOf(Key(th)).value \in Answering BY <2>1, <2>2, HitIsFresh
        <3>5. call' = [call EXCEPT ![th].at = "answered",
                                   ![th].answer = {EntryOf(Key(th)).value}]
            BY <1>2, <2>2 DEF Probe
        <3>6. call' \in [Threads -> Busy \cup {Idle}]
            BY <2>1, <3>4, <3>5 DEF FreshInv, Busy
        <3>7. \A u \in Threads : u # th => call'[u] = call[u] BY <3>5 DEF FreshInv
        <3>8. call'[th].at = "answered" BY <2>1, <3>5 DEF FreshInv, Busy
        <3> QED BY <1>2, <3>3, <3>6, <3>7, <3>8 DEF FreshInv, Probe, Get
    <2>3. CASE ~Hit(Key(th))
        <3>1. store' \in Seq(Entry)
            BY <1>2, <2>3, WithoutEntries DEF FreshInv, Probe, Get
        <3>2. call' = [call EXCEPT ![th].at = "ask"] BY <1>2, <2>3 DEF Probe
        <3>3. call' \in [Threads -> Busy \cup {Idle}] BY <2>1, <3>2 DEF FreshInv, Busy
        <3>4. \A u \in Threads : u # th => call'[u] = call[u] BY <3>2 DEF FreshInv
        <3>5. call'[th].at = "ask" BY <2>1, <3>2 DEF FreshInv, Busy
        <3> QED BY <1>2, <3>1, <3>3, <3>4, <3>5 DEF FreshInv, Probe, Get
    <2> QED BY <2>2, <2>3
<1>3. ASSUME NEW th \in Threads, Completes(th) PROVE FreshInv'
    <2>1. call[th] \in Busy BY <1>3 DEF Completes, Busy, FreshInv, Idle
    <2>2. [of |-> Asked(th), born |-> now] \in Answering
        BY <2>1, BusyKey DEF Answering, FreshInv
    <2> QED BY <1>3, <2>1, <2>2 DEF Completes, FreshInv, Busy, cacheVars
<1>4. ASSUME NEW th \in Threads, Raises(th) PROVE FreshInv'
    <2>1. call[th] \in Busy BY <1>4 DEF Raises, Busy, FreshInv, Idle
    <2>2. Target(th) \in Position BY <2>1, BusyKey
    <2>3. Following(th) \in Nat BY <2>1 DEF Following, Busy
    <2> DEFINE to == IF Following(th) > Len(Order(call[th].profile)) THEN "failed"
                     ELSE Entrance(call[th].profile)
    <2>4. to \in {"probe", "ask", "failed"} /\ (to = "probe" => call[th].profile \in Cached)
        BY DEF Entrance
    <2> DEFINE failing == [call EXCEPT ![th].failed = @ \cup {Target(th)}]
               moving == [failing EXCEPT ![th].next = Following(th)]
    <2>5. call' = [moving EXCEPT ![th].at = to] BY <1>4 DEF Raises
    <2> HIDE DEF to
    <2>6. /\ failing \in [Threads -> Busy \cup {Idle}] /\ failing[th] \in Busy
          /\ failing[th].profile = call[th].profile
        BY <2>1, <2>2 DEF FreshInv, Busy
    <2>7. \A u \in Threads : u # th => failing[u] = call[u] BY DEF FreshInv
    <2> HIDE DEF failing
    <2>8. /\ moving \in [Threads -> Busy \cup {Idle}] /\ moving[th] \in Busy
          /\ moving[th].profile = call[th].profile
        BY <2>3, <2>6 DEF Busy
    <2>9. \A u \in Threads : u # th => moving[u] = call[u] BY <2>6, <2>7
    <2> HIDE DEF moving
    <2>10. /\ call' \in [Threads -> Busy \cup {Idle}] /\ call'[th] \in Busy
           /\ call'[th].profile = call[th].profile /\ call'[th].at = to
        BY <2>4, <2>5, <2>8 DEF Busy
    <2>11. \A u \in Threads : u # th => call'[u] = call[u] BY <2>5, <2>8, <2>9
    <2> QED BY <1>4, <2>4, <2>10, <2>11 DEF Raises, FreshInv, cacheVars
<1>5. ASSUME NEW th \in Threads, Store(th) PROVE FreshInv'
    <2>1. call[th] \in Busy /\ call[th].at = "store" BY <1>5 DEF Store, FreshInv
    <2> DEFINE answer == [of |-> Asked(th), born |-> now]
    <2>2. answer \in Answering BY <2>1, BusyKey DEF Answering, FreshInv
    <2>3. PICK clock \in call[th].since..now : Put(Key(th), answer, clock, Ttl[call[th].profile])
        BY <1>5 DEF Store
    <2>4. Ttl[call[th].profile] \in Nat /\ clock \in Nat /\ clock <= now
        BY <2>1, <2>3, RouterAssumption DEF Busy, FreshInv
    <2> DEFINE ttl == Ttl[call[th].profile]
               e == [key |-> Key(th), value |-> answer,
                     expires |-> IF ttl <= 0 THEN 0 ELSE clock + ttl]
    <2>5. e \in Entry BY <2>1, <2>2, <2>4, BusyKey DEF Entry, FreshInv
    <2>6. store' = Bounded(Append(Without(store, Key(th)), e)) BY <2>3 DEF Put
    <2>7. Append(Without(store, Key(th)), e) \in Seq(Entry)
        BY <2>5, WithoutEntries DEF FreshInv
    <2>8. store' \in Seq(Entry) BY <2>6, <2>7, BoundedEntries
    <2>9. call' = [call EXCEPT ![th].at = "answered", ![th].since = 0, ![th].answer = {answer}]
        BY <1>5 DEF Store
    <2>10. now' = now BY <2>3 DEF Put
    <2> QED BY <2>1, <2>2, <2>8, <2>9, <2>10 DEF FreshInv, Busy
<1>6. ASSUME NEW th \in Threads, Return(th) PROVE FreshInv'
    BY <1>6 DEF Return, FreshInv, Idle, cacheVars
<1>7. CASE Tick /\ UNCHANGED call
    BY <1>7 DEF Tick, FreshInv, Busy
<1>8. CASE UNCHANGED vars
    BY <1>8 DEF vars, cacheVars, FreshInv, Busy
<1> QED BY <1>1, <1>2, <1>3, <1>4, <1>5, <1>6, <1>7, <1>8 DEF Next, Advance

\* From a good state every probe that finds an answer finds a fresh one.
LEMMA FreshProbe ==
    FreshInv /\ [Next]_vars =>
        \A th \in Threads : call[th].at = "probe" /\ call'[th].at = "answered" =>
            /\ call[th].profile \in Cached
            /\ \A a \in call'[th].answer :
                /\ a.of = Asked(th)
                /\ Ttl[call[th].profile] = 0 \/ now < a.born + Ttl[call[th].profile]
<1> SUFFICES ASSUME FreshInv, [Next]_vars, NEW th \in Threads,
                    call[th].at = "probe", call'[th].at = "answered"
             PROVE  /\ call[th].profile \in Cached
                    /\ \A a \in call'[th].answer :
                        /\ a.of = Asked(th)
                        /\ Ttl[call[th].profile] = 0 \/ now < a.born + Ttl[call[th].profile]
    OBVIOUS
<1>1. call[th] \in Busy /\ call[th].profile \in Cached BY DEF FreshInv
<1>2. Probe(th)
    <2>1. ASSUME NEW u \in Threads, u # th, Advance(u) PROVE FALSE
        BY <2>1 DEF Advance, Probe, Completes, Raises, Store, Return, FreshInv
    <2>2. ASSUME NEW u \in Threads, NEW p \in Profiles, NEW q \in Requests, Start(u, p, q)
          PROVE  FALSE
        BY <2>2, <1>1, IdleNotBusy DEF Start, FreshInv, Entrance
    <2>3. Advance(th) => Probe(th)
        BY DEF Advance, Completes, Raises, Store, Return
    <2>4. call' # call OBVIOUS
    <2> QED BY <2>1, <2>2, <2>3, <2>4 DEF Next, vars
<1>3. Hit(Key(th)) /\ call'[th].answer = {EntryOf(Key(th)).value}
    BY <1>1, <1>2 DEF Probe, FreshInv, Busy
<1> QED BY <1>1, <1>3, HitIsFresh

\* The cache serves an answer of the very target, profile and request it is probed for,
\* stored less than cache_ttl ago, for any number of threads and entries.
THEOREM CacheServesFresh == Spec => HitsAreFresh
<1>1. FreshInv /\ [Next]_vars => FreshInv' BY FreshStep
<1>2. Spec => []FreshInv BY <1>1, FreshInit, PTL DEF Spec
<1> QED BY <1>2, FreshProbe, PTL DEF Spec, HitsAreFresh

-----------------------------------------------------------------------------
\* Every target is tried before a call fails

\* The order of a profile is a list of its targets, and of all of them.
LEMMA OrderTriesAll ==
    ASSUME NEW p \in Profiles
    PROVE  /\ Order(p) \in Seq(Targets(p)) /\ Len(Order(p)) >= 1
           /\ {Order(p)[i] : i \in 1..Len(Order(p))} = Targets(p)
<1> DEFINE T == Targets(p)
           L == Learned[p]
           A == Unranked(p, 1)
           B == Unranked(p, 2)
<1>1. /\ Static[p] \in Seq(Range(Static[p])) /\ L \in Seq(Range(L))
      /\ Len(Static[p]) \in 1..2
    BY RouterAssumption
<1>2. /\ L \in Seq(T) /\ A \in Seq(T) /\ B \in Seq(T) /\ Len(A) \in 0..1 /\ Len(B) \in 0..1
    BY <1>1 DEF Targets, Unranked, Range
<1>3. Order(p) = L \o A \o B
    BY DEF Order
<1>4. \A t \in T : t \in Range(L) \/ t \in Range(A) \/ t \in Range(B)
    <2>1. ASSUME NEW i \in DOMAIN Static[p] PROVE i = 1 \/ i = 2
        BY <1>1
    <2> QED BY <1>1, <2>1 DEF Targets, Unranked, Range
<1> HIDE DEF T, L, A, B
<1>5. /\ L \o A \o B \in Seq(T) /\ Len(L \o A \o B) = Len(L) + Len(A) + Len(B)
      /\ \A i \in 1..Len(L) : (L \o A \o B)[i] = L[i]
      /\ \A i \in 1..Len(A) : (L \o A \o B)[Len(L) + i] = A[i]
      /\ \A i \in 1..Len(B) : (L \o A \o B)[Len(L) + Len(A) + i] = B[i]
    BY <1>2
<1>6. \A t \in T : \E i \in 1..Len(L \o A \o B) : (L \o A \o B)[i] = t
    <2> SUFFICES ASSUME NEW t \in T PROVE \E i \in 1..Len(L \o A \o B) : (L \o A \o B)[i] = t
        OBVIOUS
    <2>1. CASE t \in Range(L)
        <3>1. PICK i \in 1..Len(L) : L[i] = t BY <1>2, <2>1 DEF Range
        <3> QED BY <1>2, <1>5, <3>1
    <2>2. CASE t \in Range(A)
        <3>1. PICK i \in 1..Len(A) : A[i] = t BY <1>2, <2>2 DEF Range
        <3>2. Len(L) + i \in 1..Len(L \o A \o B) BY <1>2, <1>5, <3>1
        <3> QED BY <1>5, <3>1, <3>2
    <2>3. CASE t \in Range(B)
        <3>1. PICK i \in 1..Len(B) : B[i] = t BY <1>2, <2>3 DEF Range
        <3>2. Len(L) + Len(A) + i \in 1..Len(L \o A \o B) BY <1>2, <1>5, <3>1
        <3> QED BY <1>5, <3>1, <3>2
    <2> QED BY <1>4, <2>1, <2>2, <2>3
<1>7. T # {}
    <2>1. Static[p][1] \in Range(Static[p]) BY <1>1 DEF Range
    <2> QED BY <2>1 DEF T, Targets
<1>8. Len(L \o A \o B) \in Nat /\ \A i \in 1..Len(L \o A \o B) : (L \o A \o B)[i] \in T
    BY <1>5
<1>9. Len(L \o A \o B) >= 1
    BY <1>6, <1>7, <1>8
<1>10. {Order(p)[i] : i \in 1..Len(Order(p))} = T
    BY <1>3, <1>6, <1>8
<1> QED BY <1>3, <1>5, <1>9, <1>10 DEF T

\* A call that has not failed is at a target of its profile.
PlaceInv ==
    \A th \in Threads : call[th].at \notin {"idle", "failed"} =>
        call[th].next \in 1..Len(Order(call[th].profile))

\* Every step keeps the places and the targets that failed before them.
LEMMA TriedStep ==
    ASSUME FreshInv, FreshInv', PlaceInv, FailsOnlyAfterAll, [Next]_vars
    PROVE  PlaceInv' /\ FailsOnlyAfterAll'
<1> USE IdleNotBusy
<1> DEFINE Tried(c) ==
        /\ c.at \notin {"idle", "failed"} => c.next \in 1..Len(Order(c.profile))
        /\ c # Idle =>
            /\ c.at = "failed" => c.failed = Targets(c.profile)
            /\ c.at # "failed" => c.failed = {Order(c.profile)[i] : i \in 1..(c.next - 1)}
<1>a. \A th \in Threads : Tried(call[th])
    BY DEF PlaceInv, FailsOnlyAfterAll
<1>b. SUFFICES \A th \in Threads : Tried(call'[th])
    BY DEF PlaceInv, FailsOnlyAfterAll
<1>0. ASSUME NEW th \in Threads, Tried(call'[th]), \A u \in Threads : u # th => call'[u] = call[u]
      PROVE  \A u \in Threads : Tried(call'[u])
    <2> HIDE DEF Tried
    <2> QED BY <1>0, <1>a
<1>1. ASSUME NEW th \in Threads, NEW p \in Profiles, NEW q \in Requests, Start(th, p, q)
      PROVE  \A u \in Threads : Tried(call'[u])
    <2>1. /\ call'[th].at \in {"probe", "ask"} /\ call'[th].profile = p /\ call'[th].next = 1
          /\ call'[th].failed = {}
          /\ \A u \in Threads : u # th => call'[u] = call[u]
        BY <1>1 DEF Start, Entrance, FreshInv
    <2>2. 1 \in 1..Len(Order(p)) BY OrderTriesAll
    <2>3. {Order(p)[i] : i \in 1..(1 - 1)} = {} OBVIOUS
    <2>4. Tried(call'[th]) BY <2>1, <2>2, <2>3
    <2> HIDE DEF Tried
    <2> QED BY <1>0, <2>1, <2>4
<1>2. ASSUME NEW th \in Threads, call[th] \in Busy, call[th].at # "failed",
             call'[th].at # "failed", call'[th].profile = call[th].profile,
             call'[th].next = call[th].next, call'[th].failed = call[th].failed,
             \A u \in Threads : u # th => call'[u] = call[u]
      PROVE  \A u \in Threads : Tried(call'[u])
    <2>1. /\ call[th].next \in 1..Len(Order(call[th].profile))
          /\ call[th].failed = {Order(call[th].profile)[i] : i \in 1..(call[th].next - 1)}
        BY <1>2, <1>a DEF Busy
    <2>2. Tried(call'[th]) BY <1>2, <2>1
    <2> HIDE DEF Tried
    <2> QED BY <1>0, <1>2, <2>2
<1>3. ASSUME NEW th \in Threads, Probe(th) PROVE \A u \in Threads : Tried(call'[u])
    <2>1. call[th] \in Busy /\ call[th].at = "probe" BY <1>3 DEF Probe, FreshInv
    <2>2. /\ call'[th].at # "failed" /\ call'[th].profile = call[th].profile
          /\ call'[th].next = call[th].next /\ call'[th].failed = call[th].failed
          /\ \A u \in Threads : u # th => call'[u] = call[u]
        BY <1>3, <2>1 DEF Probe, FreshInv, Busy
    <2> HIDE DEF Tried
    <2> QED BY <1>2, <2>1, <2>2
<1>4. ASSUME NEW th \in Threads, Completes(th) PROVE \A u \in Threads : Tried(call'[u])
    <2>1. call[th] \in Busy /\ call[th].at = "ask"
        BY <1>4 DEF Completes, FreshInv, Busy, Idle
    <2>2. /\ call'[th].at # "failed" /\ call'[th].profile = call[th].profile
          /\ call'[th].next = call[th].next /\ call'[th].failed = call[th].failed
          /\ \A u \in Threads : u # th => call'[u] = call[u]
        BY <1>4, <2>1 DEF Completes, FreshInv, Busy
    <2> HIDE DEF Tried
    <2> QED BY <1>2, <2>1, <2>2
<1>5. ASSUME NEW th \in Threads, Store(th) PROVE \A u \in Threads : Tried(call'[u])
    <2>1. call[th] \in Busy /\ call[th].at = "store" BY <1>5 DEF Store, FreshInv
    <2>2. /\ call'[th].at # "failed" /\ call'[th].profile = call[th].profile
          /\ call'[th].next = call[th].next /\ call'[th].failed = call[th].failed
          /\ \A u \in Threads : u # th => call'[u] = call[u]
        BY <1>5, <2>1 DEF Store, FreshInv, Busy
    <2> HIDE DEF Tried
    <2> QED BY <1>2, <2>1, <2>2
<1>6. ASSUME NEW th \in Threads, Raises(th) PROVE \A u \in Threads : Tried(call'[u])
    <2>1. call[th] \in Busy /\ call[th].at = "ask"
        BY <1>6 DEF Raises, FreshInv, Busy, Idle
    <2> PICK p \in Profiles, n \in Nat : p = call[th].profile /\ n = call[th].next
        BY <2>1 DEF Busy
    <2>2. n \in 1..Len(Order(p)) /\ call[th].failed = {Order(p)[i] : i \in 1..(n - 1)}
        BY <2>1, <1>a DEF Busy, Idle
    <2>3. /\ call'[th].profile = p /\ call'[th].next = n + 1
          /\ call'[th].failed = call[th].failed \cup {Order(p)[n]}
          /\ call'[th].at = IF n + 1 > Len(Order(p)) THEN "failed" ELSE Entrance(p)
          /\ \A u \in Threads : u # th => call'[u] = call[u]
        BY <1>6, <2>1 DEF Raises, Following, Target, FreshInv, Busy
    <2>4. Len(Order(p)) \in Nat /\ {Order(p)[i] : i \in 1..Len(Order(p))} = Targets(p)
        BY OrderTriesAll
    <2>5. call'[th].failed = {Order(p)[i] : i \in 1..n}
        BY <2>2, <2>3, <2>4
    <2>6. ASSUME n + 1 > Len(Order(p)) PROVE Tried(call'[th])
        <3>1. n = Len(Order(p)) BY <2>2, <2>4, <2>6
        <3> QED BY <2>3, <2>4, <2>5, <2>6, <3>1
    <2>7. ASSUME ~(n + 1 > Len(Order(p))) PROVE Tried(call'[th])
        <3>1. call'[th].at \in {"probe", "ask"} BY <2>3, <2>7 DEF Entrance
        <3>2. n + 1 \in 1..Len(Order(p)) BY <2>2, <2>4, <2>7
        <3>3. call'[th].failed = {Order(p)[i] : i \in 1..(call'[th].next - 1)}
            <4>1. call'[th].next - 1 = n BY <2>3
            <4> QED BY <2>5, <4>1
        <3> QED BY <2>3, <3>1, <3>2, <3>3
    <2>8. Tried(call'[th]) BY <2>6, <2>7
    <2> HIDE DEF Tried
    <2> QED BY <1>0, <2>3, <2>8
<1>7. ASSUME NEW th \in Threads, Return(th) PROVE \A u \in Threads : Tried(call'[u])
    <2>1. call'[th] = Idle /\ \A u \in Threads : u # th => call'[u] = call[u]
        BY <1>7 DEF Return, FreshInv
    <2>2. Tried(call'[th]) BY <2>1 DEF Idle
    <2> HIDE DEF Tried
    <2> QED BY <1>0, <2>1, <2>2
<1>8. CASE (Tick /\ UNCHANGED call) \/ UNCHANGED vars
    BY <1>8, <1>a DEF vars
<1> QED BY <1>1, <1>3, <1>4, <1>5, <1>6, <1>7, <1>8 DEF Next, Advance

\* A call fails only after every target of its profile, learned or static, has failed,
\* and asks each only after those before it: for any profiles and learned orders.
THEOREM EveryTargetTried == Spec => []FailsOnlyAfterAll
<1>1. Init => PlaceInv /\ FailsOnlyAfterAll
    BY DEF Init, Idle, PlaceInv, FailsOnlyAfterAll
<1>2. FreshInv /\ [Next]_vars => FreshInv' BY FreshStep
<1>3. FreshInv /\ FreshInv' /\ PlaceInv /\ FailsOnlyAfterAll /\ [Next]_vars
        => PlaceInv' /\ FailsOnlyAfterAll'
    BY TriedStep
<1> QED BY <1>1, <1>2, <1>3, FreshInit, PTL DEF Spec

-----------------------------------------------------------------------------
\* Type correctness

DistinctKeys(s) == \A i, j \in DOMAIN s : s[i].key = s[j].key => i = j

\* The entries of one sequence are in the other, in the order of the other.
Follows(s, u) ==
    /\ \A i \in DOMAIN s : \E m \in DOMAIN u : s[i] = u[m]
    /\ \A i, j \in DOMAIN s, m, n \in DOMAIN u : s[i] = u[m] /\ s[j] = u[n] /\ i < j => m < n

\* Without a key a sequence keeps the order of the others, which only move down.
LEMMA WithoutFollows ==
    ASSUME NEW S, NEW s \in Seq(S), NEW k, DistinctKeys(s)
    PROVE  /\ Follows(Without(s, k), s)
           /\ \A i \in DOMAIN Without(s, k) : \E m \in DOMAIN s :
                  i <= m /\ Without(s, k)[i] = s[m] /\ s[m].key # k
           /\ \A m \in DOMAIN s : s[m].key # k =>
                  \E i \in DOMAIN Without(s, k) : Without(s, k)[i] = s[m]
           /\ Len(Without(s, k)) <= Len(s) /\ Len(s) <= Len(Without(s, k)) + 1
           /\ (\E i \in DOMAIN s : s[i].key = k) => Len(Without(s, k)) = Len(s) - 1
<1>1. CASE \E i \in DOMAIN s : s[i].key = k
    <2> DEFINE h == CHOOSE j \in DOMAIN s : s[j].key = k
    <2>1. h \in 1..Len(s) /\ s[h].key = k BY <1>1
    <2>2. Without(s, k) = SubSeq(s, 1, h - 1) \o SubSeq(s, h + 1, Len(s)) BY <1>1 DEF Without
    <2> HIDE DEF h
    <2> DEFINE a == SubSeq(s, 1, h - 1)
               b == SubSeq(s, h + 1, Len(s))
               w == a \o b
    <2>3. /\ a \in Seq(S) /\ Len(a) = h - 1
          /\ \A i \in 1..(h - 1) : a[i] = s[i]
        BY <2>1
    <2>4. /\ b \in Seq(S) /\ Len(b) = Len(s) - h
          /\ \A i \in 1..(Len(s) - h) : b[i] = s[h + i]
        BY <2>1
    <2>10. Without(s, k) = w BY <2>2
    <2> HIDE DEF a, b
    <2>5. /\ w \in Seq(S) /\ Len(w) = Len(s) - 1
          /\ \A i \in 1..(h - 1) : w[i] = s[i]
          /\ \A i \in h..(Len(s) - 1) : w[i] = s[i + 1]
        <3>1. /\ w \in Seq(S) /\ Len(w) = Len(a) + Len(b)
              /\ \A i \in 1..Len(a) : w[i] = a[i]
              /\ \A i \in 1..Len(b) : w[Len(a) + i] = b[i]
            <4>1. a \in Seq(S) /\ b \in Seq(S) BY <2>3, <2>4
            <4> QED BY <4>1, Concatenation
        <3>2. ASSUME NEW i \in h..(Len(s) - 1) PROVE w[i] = s[i + 1]
            <4>1. i - (h - 1) \in 1..Len(b) /\ Len(a) + (i - (h - 1)) = i /\ h + (i - (h - 1)) = i + 1
                BY <2>1, <2>3, <2>4
            <4>2. w[Len(a) + (i - (h - 1))] = b[i - (h - 1)] BY <3>1, <4>1
            <4>3. b[i - (h - 1)] = s[h + (i - (h - 1))] BY <2>4, <4>1
            <4> QED BY <4>1, <4>2, <4>3
        <3> QED BY <2>1, <2>3, <2>4, <3>1, <3>2
    <2> HIDE DEF w
    <2>6. DOMAIN w = 1..(Len(s) - 1) BY <2>5
    <2> DEFINE Old(i) == IF i < h THEN i ELSE i + 1
    <2>7. \A i \in DOMAIN w : Old(i) \in DOMAIN s /\ Old(i) # h /\ i <= Old(i) /\ w[i] = s[Old(i)]
        BY <2>1, <2>5, <2>6
    <2>8. \A i, j \in DOMAIN w : i < j => Old(i) < Old(j)
        BY <2>1, <2>6
    <2>9. ASSUME NEW m \in DOMAIN s, s[m].key # k
          PROVE  \E i \in DOMAIN w : w[i] = s[m]
        <3>1. m # h BY <2>1, <2>9
        <3>2. CASE m < h BY <2>1, <2>5, <2>6, <3>2
        <3>3. CASE m > h
            <4>1. m - 1 \in h..(Len(s) - 1) /\ (m - 1) + 1 = m BY <2>1, <3>3
            <4> QED BY <2>1, <2>5, <2>6, <4>1
        <3> QED BY <2>1, <3>1, <3>2, <3>3
    <2> HIDE DEF Old
    <2>11. \A i \in DOMAIN w : s[Old(i)].key # k
        BY <2>1, <2>7 DEF DistinctKeys
    <2>12. Follows(w, s)
        <3>1. ASSUME NEW i \in DOMAIN w, NEW j \in DOMAIN w, NEW m \in DOMAIN s, NEW n \in DOMAIN s,
                     w[i] = s[m], w[j] = s[n], i < j
              PROVE  m < n
            <4>1. m = Old(i) /\ n = Old(j) BY <2>7, <3>1 DEF DistinctKeys
            <4> QED BY <2>8, <3>1, <4>1
        <3> QED BY <2>7, <3>1 DEF Follows
    <2> QED BY <2>5, <2>7, <2>9, <2>10, <2>11, <2>12
<1>2. CASE ~\E i \in DOMAIN s : s[i].key = k
    <2>1. Without(s, k) = s BY <1>2 DEF Without
    <2>2. Follows(s, s) BY DEF Follows, DistinctKeys
    <2> QED BY <1>2, <2>1, <2>2
<1> QED BY <1>1, <1>2

\* Taking a key out of entries with distinct keys leaves none under it, and one less.
LEMMA WithoutDistinct ==
    ASSUME NEW S, NEW s \in Seq(S), NEW k, DistinctKeys(s)
    PROVE  /\ DistinctKeys(Without(s, k))
           /\ \A i \in DOMAIN Without(s, k) : Without(s, k)[i].key # k
           /\ Len(Without(s, k)) <= Len(s)
           /\ (\E i \in DOMAIN s : s[i].key = k) => Len(Without(s, k)) = Len(s) - 1
<1> DEFINE w == Without(s, k)
<1>1. /\ Follows(w, s)
      /\ \A i \in DOMAIN w : \E m \in DOMAIN s : w[i] = s[m] /\ s[m].key # k
    BY WithoutFollows
<1>2. w \in Seq(S) BY WithoutEntries
<1> HIDE DEF w
<1>3. DistinctKeys(w)
    <2> SUFFICES ASSUME NEW i \in DOMAIN w, NEW j \in DOMAIN w, w[i].key = w[j].key, i < j
                 PROVE  FALSE
        BY <1>2 DEF DistinctKeys
    <2>1. PICK m \in DOMAIN s : w[i] = s[m] BY <1>1
    <2>2. PICK n \in DOMAIN s : w[j] = s[n] BY <1>1
    <2>3. m = n BY <2>1, <2>2 DEF DistinctKeys
    <2>4. m < n BY <1>1, <2>1, <2>2 DEF Follows
    <2> QED BY <2>3, <2>4
<1> QED BY <1>1, <1>3, WithoutFollows DEF w

\* Adding an entry under a key that is not there keeps the keys distinct.
LEMMA AppendDistinct ==
    ASSUME NEW S, NEW s \in Seq(S), NEW e \in S, DistinctKeys(s),
           \A i \in DOMAIN s : s[i].key # e.key
    PROVE  DistinctKeys(Append(s, e)) /\ Len(Append(s, e)) = Len(s) + 1
<1>1. /\ DOMAIN Append(s, e) = 1..(Len(s) + 1) /\ Append(s, e)[Len(s) + 1] = e
      /\ \A i \in 1..Len(s) : Append(s, e)[i] = s[i]
    OBVIOUS
<1> QED BY <1>1 DEF DistinctKeys

\* Evicting keeps the keys distinct, and the cache within its bound.
LEMMA BoundedDistinct ==
    ASSUME NEW S, NEW s \in Seq(S), DistinctKeys(s)
    PROVE  DistinctKeys(Bounded(s)) /\ Len(Bounded(s)) <= MaxEntries
<1>1. MaxEntries \in Nat BY CacheAssumption
<1>2. CASE Len(s) > MaxEntries
    <2> DEFINE b == SubSeq(s, Len(s) - MaxEntries + 1, Len(s))
    <2>1. /\ b \in Seq(S) /\ Len(b) = MaxEntries
          /\ \A i \in 1..MaxEntries : b[i] = s[Len(s) - MaxEntries + i]
        BY <1>1, <1>2
    <2> HIDE DEF b
    <2>2. DOMAIN b = 1..MaxEntries BY <2>1
    <2>3. DistinctKeys(b)
        <3> SUFFICES ASSUME NEW i \in 1..MaxEntries, NEW j \in 1..MaxEntries, b[i].key = b[j].key
                     PROVE  i = j
            BY <2>2 DEF DistinctKeys
        <3>1. /\ Len(s) - MaxEntries + i \in DOMAIN s /\ Len(s) - MaxEntries + j \in DOMAIN s
              /\ s[Len(s) - MaxEntries + i].key = s[Len(s) - MaxEntries + j].key
            BY <1>1, <1>2, <2>1
        <3>2. Len(s) - MaxEntries + i = Len(s) - MaxEntries + j BY <3>1 DEF DistinctKeys
        <3> QED BY <1>1, <3>2
    <2>4. Bounded(s) = b BY <1>2 DEF Bounded, b
    <2> QED BY <1>1, <2>1, <2>3, <2>4
<1>3. CASE ~(Len(s) > MaxEntries)
    BY <1>1, <1>3 DEF Bounded
<1> QED BY <1>2, <1>3

\* The cache holds answers within its bound, and so do the calls.
StoreInv ==
    /\ now \in 1..MaxTime
    /\ store \in Seq({e \in Entry : e.value \in Answer})
    /\ DistinctKeys(store)
    /\ Len(store) <= MaxEntries
    /\ \A th \in Threads : call[th].at # "idle" =>
        call[th].answer = {} \/ \E a \in Answer : call[th].answer = {a}

\* What a call asks now could be answered.
LEMMA AskedAnswer ==
    ASSUME FreshInv, StoreInv, PlaceInv, NEW th \in Threads, call[th].at \in {"ask", "store"}
    PROVE  [of |-> Asked(th), born |-> now] \in Answer
<1>1. call[th] \in Busy BY DEF FreshInv, Idle, Busy
<1>2. call[th].profile \in Profiles /\ call[th].request \in Requests BY <1>1 DEF Busy
<1>3. Target(th) \in Targets(call[th].profile)
    BY <1>2, OrderTriesAll DEF PlaceInv, Target
<1> QED BY <1>2, <1>3 DEF Answer, Asked, StoreInv

\* Every step keeps the cache and the answers.
LEMMA StoreStep ==
    ASSUME FreshInv, FreshInv', PlaceInv, StoreInv, [Next]_vars
    PROVE  StoreInv'
<1> USE IdleNotBusy
<1> DEFINE Kept == {e \in Entry : e.value \in Answer}
           StoreOK(s) == s \in Seq(Kept) /\ DistinctKeys(s) /\ Len(s) <= MaxEntries
           AnswerOK(c) == c.at # "idle" => c.answer = {} \/ \E a \in Answer : c.answer = {a}
<1>a. MaxEntries \in Nat /\ MaxTime \in Nat BY CacheAssumption
<1>b. StoreOK(store) /\ now \in 1..MaxTime /\ \A th \in Threads : AnswerOK(call[th])
    BY DEF StoreInv
<1>c. SUFFICES StoreOK(store') /\ now' \in 1..MaxTime /\ \A th \in Threads : AnswerOK(call'[th])
    BY DEF StoreInv
<1>0. ASSUME NEW th \in Threads, StoreOK(store'), now' = now, AnswerOK(call'[th]),
             \A u \in Threads : u # th => call'[u] = call[u]
      PROVE  StoreOK(store') /\ now' \in 1..MaxTime /\ \A u \in Threads : AnswerOK(call'[u])
    <2> HIDE DEF StoreOK, AnswerOK
    <2> QED BY <1>0, <1>b
<1>1. ASSUME NEW th \in Threads, NEW p \in Profiles, NEW q \in Requests, Start(th, p, q)
      PROVE  StoreOK(store') /\ now' \in 1..MaxTime /\ \A u \in Threads : AnswerOK(call'[u])
    <2>1. /\ call'[th].answer = {} /\ store' = store /\ now' = now
          /\ \A u \in Threads : u # th => call'[u] = call[u]
        BY <1>1 DEF Start, FreshInv, cacheVars
    <2> QED BY <1>0, <1>b, <2>1
<1>2. ASSUME NEW th \in Threads, Probe(th)
      PROVE  StoreOK(store') /\ now' \in 1..MaxTime /\ \A u \in Threads : AnswerOK(call'[u])
    <2>1. call[th] \in Busy /\ call[th].at = "probe" BY <1>2 DEF Probe, FreshInv
    <2>2. now' = now /\ \A u \in Threads : u # th => call'[u] = call[u]
        BY <1>2 DEF Probe, Get, FreshInv
    <2> DEFINE e == EntryOf(Key(th))
    <2>3. ASSUME Hit(Key(th)) PROVE StoreOK(store') /\ AnswerOK(call'[th])
        <3>1. e \in Range(store) /\ e.key = Key(th) BY <2>3 DEF Hit, Held, EntryOf
        <3>2. e \in Kept /\ \E i \in DOMAIN store : store[i] = e
            BY <1>b, <3>1 DEF Range
        <3>3. store' = Append(Without(store, e.key), e)
            BY <1>2, <2>3 DEF Probe, Get, Touched
        <3>4. call'[th].answer = {e.value}
            BY <1>2, <2>1, <2>3 DEF Probe, FreshInv, Busy
        <3> HIDE DEF e, Kept
        <3>5. /\ Without(store, e.key) \in Seq(Kept) /\ DistinctKeys(Without(store, e.key))
              /\ \A i \in DOMAIN Without(store, e.key) : Without(store, e.key)[i].key # e.key
              /\ Len(Without(store, e.key)) = Len(store) - 1
            BY <1>b, <3>2, WithoutEntries, WithoutDistinct
        <3>6. StoreOK(store')
            BY <1>a, <1>b, <3>2, <3>3, <3>5, AppendDistinct
        <3>7. e.value \in Answer BY <3>2 DEF Kept
        <3> QED BY <3>4, <3>6, <3>7
    <2>4. ASSUME ~Hit(Key(th)) PROVE StoreOK(store') /\ AnswerOK(call'[th])
        <3>1. store' = Without(store, Key(th)) /\ call'[th].answer = call[th].answer
            BY <1>2, <2>1, <2>4 DEF Probe, Get, FreshInv, Busy
        <3> HIDE DEF Kept
        <3>2. StoreOK(store')
            BY <1>a, <1>b, <3>1, WithoutEntries, WithoutDistinct
        <3>3. call[th].at # "idle" BY <2>1
        <3> QED BY <1>b, <3>1, <3>2, <3>3
    <2> HIDE DEF StoreOK, AnswerOK
    <2> QED BY <1>0, <2>2, <2>3, <2>4
<1>3. ASSUME NEW th \in Threads, Completes(th)
      PROVE  StoreOK(store') /\ now' \in 1..MaxTime /\ \A u \in Threads : AnswerOK(call'[u])
    <2>1. call[th] \in Busy /\ call[th].at = "ask"
        BY <1>3 DEF Completes, FreshInv, Busy, Idle
    <2>2. [of |-> Asked(th), born |-> now] \in Answer BY <2>1, AskedAnswer
    <2>3. /\ call'[th].answer = call[th].answer
             \/ call'[th].answer = {[of |-> Asked(th), born |-> now]}
          /\ store' = store /\ now' = now
          /\ \A u \in Threads : u # th => call'[u] = call[u]
        BY <1>3, <2>1 DEF Completes, FreshInv, Busy, cacheVars
    <2>4. AnswerOK(call'[th]) BY <1>b, <2>1, <2>2, <2>3
    <2> HIDE DEF StoreOK, AnswerOK
    <2> QED BY <1>0, <1>b, <2>3, <2>4
<1>4. ASSUME NEW th \in Threads, Raises(th)
      PROVE  StoreOK(store') /\ now' \in 1..MaxTime /\ \A u \in Threads : AnswerOK(call'[u])
    <2>1. call[th] \in Busy /\ call[th].at = "ask"
        BY <1>4 DEF Raises, FreshInv, Busy, Idle
    <2>2. /\ call'[th].answer = call[th].answer /\ store' = store /\ now' = now
          /\ \A u \in Threads : u # th => call'[u] = call[u]
        BY <1>4, <2>1 DEF Raises, FreshInv, Busy, cacheVars
    <2>3. AnswerOK(call'[th]) BY <1>b, <2>1, <2>2
    <2> HIDE DEF StoreOK, AnswerOK
    <2> QED BY <1>0, <1>b, <2>2, <2>3
<1>5. ASSUME NEW th \in Threads, Store(th)
      PROVE  StoreOK(store') /\ now' \in 1..MaxTime /\ \A u \in Threads : AnswerOK(call'[u])
    <2>1. call[th] \in Busy /\ call[th].at = "store" BY <1>5 DEF Store, FreshInv
    <2> DEFINE answer == [of |-> Asked(th), born |-> now]
               ttl == Ttl[call[th].profile]
    <2>2. answer \in Answer BY <2>1, AskedAnswer
    <2>3. PICK clock \in call[th].since..now : Put(Key(th), answer, clock, ttl)
        BY <1>5 DEF Store
    <2> DEFINE e == [key |-> Key(th), value |-> answer,
                     expires |-> IF ttl <= 0 THEN 0 ELSE clock + ttl]
    <2>4. e \in Entry
        <3>1. ttl \in Nat /\ clock \in Nat /\ clock <= now
            BY <2>1, <2>3, RouterAssumption DEF Busy, FreshInv
        <3>2. answer \in Answering BY <2>1, BusyKey DEF Answering, FreshInv
        <3> QED BY <2>1, <3>1, <3>2, BusyKey DEF Entry, FreshInv
    <2>5. e \in Kept /\ e.key = Key(th) BY <2>2, <2>4
    <2>6. store' = Bounded(Append(Without(store, Key(th)), e)) /\ now' = now BY <2>3 DEF Put
    <2>7. call'[th].answer = {answer} /\ \A u \in Threads : u # th => call'[u] = call[u]
        BY <1>5, <2>1 DEF Store, FreshInv, Busy
    <2> HIDE DEF e, answer, Kept
    <2>8. /\ Without(store, Key(th)) \in Seq(Kept) /\ DistinctKeys(Without(store, Key(th)))
          /\ \A i \in DOMAIN Without(store, Key(th)) : Without(store, Key(th))[i].key # e.key
        BY <1>b, <2>5, WithoutEntries, WithoutDistinct
    <2>9. /\ Append(Without(store, Key(th)), e) \in Seq(Kept)
          /\ DistinctKeys(Append(Without(store, Key(th)), e))
        BY <2>5, <2>8, AppendDistinct
    <2>10. StoreOK(store') BY <2>6, <2>9, BoundedEntries, BoundedDistinct
    <2>11. AnswerOK(call'[th]) BY <2>2, <2>7
    <2> HIDE DEF StoreOK, AnswerOK
    <2> QED BY <1>0, <2>6, <2>7, <2>10, <2>11
<1>6. ASSUME NEW th \in Threads, Return(th)
      PROVE  StoreOK(store') /\ now' \in 1..MaxTime /\ \A u \in Threads : AnswerOK(call'[u])
    <2>1. /\ call'[th] = Idle /\ store' = store /\ now' = now
          /\ \A u \in Threads : u # th => call'[u] = call[u]
        BY <1>6 DEF Return, FreshInv, cacheVars
    <2>2. AnswerOK(call'[th]) BY <2>1 DEF Idle
    <2> HIDE DEF StoreOK, AnswerOK
    <2> QED BY <1>0, <1>b, <2>1, <2>2
<1>7. CASE Tick /\ UNCHANGED call
    BY <1>7, <1>a, <1>b DEF Tick
<1>8. CASE UNCHANGED vars
    BY <1>8, <1>b DEF vars, cacheVars
<1> QED BY <1>1, <1>2, <1>3, <1>4, <1>5, <1>6, <1>7, <1>8 DEF Next, Advance

\* Every reachable state is well typed: the cache stays within its bound with one entry
\* for a key, and a call waits at a target of its profile.
THEOREM TypeCorrect == Spec => []TypeOK
<1>1. Init => PlaceInv /\ FailsOnlyAfterAll
    BY DEF Init, Idle, PlaceInv, FailsOnlyAfterAll
<1>2. Init => StoreInv
    BY CacheAssumption DEF Init, Idle, CacheInit, StoreInv, DistinctKeys
<1>3. FreshInv /\ [Next]_vars => FreshInv' BY FreshStep
<1>4. /\ FreshInv /\ FreshInv' /\ PlaceInv /\ FailsOnlyAfterAll /\ StoreInv /\ [Next]_vars
      => PlaceInv' /\ FailsOnlyAfterAll' /\ StoreInv'
    BY TriedStep, StoreStep
<1>5. FreshInv /\ PlaceInv /\ StoreInv => TypeOK
    <2> SUFFICES ASSUME FreshInv, PlaceInv, StoreInv PROVE TypeOK
        OBVIOUS
    <2>1. \A e \in Range(store) : e.value \in Answer /\ e.expires \in Nat
        BY DEF StoreInv, Entry, Range
    <2>2. ASSUME NEW th \in Threads, call[th] # Idle
          PROVE  /\ call[th].profile \in Profiles /\ call[th].request \in Requests
                 /\ call[th].at # "failed" => call[th].next \in DOMAIN Order(call[th].profile)
                 /\ call[th].answer = {} \/ \E a \in Answer : call[th].answer = {a}
        <3>1. call[th] \in Busy BY <2>2 DEF FreshInv
        <3>2. call[th].at # "idle" /\ call[th].profile \in Profiles /\ call[th].request \in Requests
            BY <3>1 DEF Busy
        <3>3. DOMAIN Order(call[th].profile) = 1..Len(Order(call[th].profile))
            BY <3>2, OrderTriesAll
        <3> QED BY <3>2, <3>3 DEF PlaceInv, StoreInv
    <2> QED BY <2>1, <2>2 DEF TypeOK, StoreInv, DistinctKeys
<1> QED BY <1>1, <1>2, <1>3, <1>4, <1>5, FreshInit, PTL DEF Spec

-----------------------------------------------------------------------------
\* The router: what the cache keeps

\* What follows something that follows a third follows the third.
LEMMA FollowsOn ==
    ASSUME NEW S, NEW a \in Seq(S), NEW b \in Seq(S), NEW c \in Seq(S),
           Follows(a, b), Follows(b, c)
    PROVE  Follows(a, c)
<1>1. \A i \in DOMAIN a : \E m \in DOMAIN c : a[i] = c[m]
    BY DEF Follows
<1>2. ASSUME NEW i \in DOMAIN a, NEW j \in DOMAIN a, NEW m \in DOMAIN c, NEW n \in DOMAIN c,
             a[i] = c[m], a[j] = c[n], i < j
      PROVE  m < n
    <2>1. PICK p \in DOMAIN b : a[i] = b[p] BY DEF Follows
    <2>2. PICK q \in DOMAIN b : a[j] = b[q] BY DEF Follows
    <2>3. p < q BY <1>2, <2>1, <2>2 DEF Follows
    <2>4. b[p] = c[m] /\ b[q] = c[n] BY <1>2, <2>1, <2>2
    <2> QED BY <2>3, <2>4 DEF Follows
<1> QED BY <1>1, <1>2 DEF Follows

\* Of two that follow a third, the one whose entries the other has follows the other.
LEMMA FollowsBoth ==
    ASSUME NEW S, NEW a \in Seq(S), NEW b \in Seq(S), NEW c \in Seq(S),
           Follows(a, c), Follows(b, c),
           \A i \in DOMAIN a : \E m \in DOMAIN b : a[i] = b[m]
    PROVE  Follows(a, b)
<1>1. ASSUME NEW i \in DOMAIN a, NEW j \in DOMAIN a, NEW m \in DOMAIN b, NEW n \in DOMAIN b,
             a[i] = b[m], a[j] = b[n], i < j
      PROVE  m < n
    <2>1. PICK p \in DOMAIN c : a[i] = c[p] BY DEF Follows
    <2>2. PICK q \in DOMAIN c : a[j] = c[q] BY DEF Follows
    <2>3. p < q BY <1>1, <2>1, <2>2 DEF Follows
    <2>4. b[m] = c[p] /\ b[n] = c[q] BY <1>1, <2>1, <2>2
    <2>5. CASE n < m
        <3>1. q < p BY <2>4, <2>5 DEF Follows
        <3> QED BY <2>3, <3>1
    <2>6. CASE n = m
        <3>1. a[j] = c[p] BY <1>1, <2>1, <2>6
        <3>2. p < p BY <1>1, <2>1, <3>1 DEF Follows
        <3> QED BY <3>2
    <2> QED BY <2>5, <2>6
<1> QED BY <1>1 DEF Follows

\* One entry more at the end of both.
LEMMA AppendFollows ==
    ASSUME NEW S, NEW s \in Seq(S), NEW u \in Seq(S), NEW e \in S, Follows(s, u),
           \A m \in DOMAIN u : u[m].key # e.key
    PROVE  Follows(Append(s, e), Append(u, e))
<1> DEFINE a == Append(s, e)
           b == Append(u, e)
<1>1. /\ DOMAIN a = 1..(Len(s) + 1) /\ a[Len(s) + 1] = e
      /\ \A i \in 1..Len(s) : a[i] = s[i]
    OBVIOUS
<1>2. /\ DOMAIN b = 1..(Len(u) + 1) /\ b[Len(u) + 1] = e
      /\ \A i \in 1..Len(u) : b[i] = u[i]
    OBVIOUS
<1> HIDE DEF a, b
<1>a. DOMAIN s = 1..Len(s) /\ DOMAIN u = 1..Len(u) /\ Len(s) \in Nat /\ Len(u) \in Nat
    OBVIOUS
<1>3. \A i \in DOMAIN a : \E m \in DOMAIN b : a[i] = b[m]
    BY <1>a, <1>1, <1>2 DEF Follows
<1>4. \A i \in DOMAIN s : s[i].key # e.key
    BY DEF Follows
<1>5. ASSUME NEW i \in DOMAIN a, NEW j \in DOMAIN a, NEW m \in DOMAIN b, NEW n \in DOMAIN b,
             a[i] = b[m], a[j] = b[n], i < j
      PROVE  m < n
    <2>1. i \in DOMAIN s /\ a[i] = s[i] BY <1>a, <1>1, <1>5
    <2>2. m \in DOMAIN u /\ b[m] = u[m]
        <3>1. b[m].key # e.key BY <1>4, <1>5, <2>1
        <3> QED BY <1>a, <1>2, <3>1
    <2>3. CASE j = Len(s) + 1
        <3>1. a[j].key = e.key BY <1>1, <2>3
        <3>2. n \notin 1..Len(u) BY <1>a, <1>2, <1>5, <3>1
        <3> QED BY <1>a, <1>2, <2>2, <3>2
    <2>4. CASE j # Len(s) + 1
        <3>1. j \in DOMAIN s /\ a[j] = s[j] BY <1>a, <1>1, <2>4
        <3>2. b[n].key # e.key BY <1>4, <1>5, <3>1
        <3>3. n \in DOMAIN u /\ b[n] = u[n] BY <1>a, <1>2, <3>2
        <3> QED BY <1>5, <2>1, <2>2, <3>1, <3>3 DEF Follows
    <2> QED BY <2>3, <2>4
<1> QED BY <1>3, <1>5 DEF Follows, a, b

\* Evicting keeps the order, and what it evicts is not among the entries used last.
LEMMA BoundedFollows ==
    ASSUME NEW S, NEW s \in Seq(S), NEW u \in Seq(S), Follows(s, u), Len(s) <= MaxEntries + 1
    PROVE  /\ Follows(Bounded(s), u)
           /\ \A i \in DOMAIN s, m \in DOMAIN u : s[i] = u[m] /\ m > Len(u) - MaxEntries =>
                  \E j \in DOMAIN Bounded(s) : Bounded(s)[j] = s[i]
<1>1. MaxEntries \in Nat BY CacheAssumption
<1>2. CASE Len(s) > MaxEntries
    <2>0. Len(s) = MaxEntries + 1 BY <1>1, <1>2
    <2> DEFINE b == SubSeq(s, Len(s) - MaxEntries + 1, Len(s))
    <2>1. /\ b \in Seq(S) /\ Len(b) = MaxEntries
          /\ \A i \in 1..MaxEntries : b[i] = s[i + 1]
        BY <1>1, <2>0
    <2>4. Bounded(s) = b BY <1>2 DEF Bounded, b
    <2> HIDE DEF b
    <2>2. DOMAIN b = 1..MaxEntries /\ DOMAIN s = 1..(MaxEntries + 1) BY <2>0, <2>1
    <2>3. Follows(b, u)
        <3>1. \A i \in DOMAIN b : i + 1 \in DOMAIN s /\ b[i] = s[i + 1] BY <1>1, <2>1, <2>2
        <3>2. \A i, j \in DOMAIN b : i < j => i + 1 < j + 1 BY <1>1, <2>2
        <3> QED BY <3>1, <3>2 DEF Follows
    <2>5. ASSUME NEW i \in DOMAIN s, NEW m \in DOMAIN u, s[i] = u[m], m > Len(u) - MaxEntries
          PROVE  \E j \in DOMAIN b : b[j] = s[i]
        <3>1. CASE i # 1
            <4>1. i - 1 \in 1..MaxEntries /\ (i - 1) + 1 = i BY <1>1, <2>2, <3>1
            <4> QED BY <2>1, <2>2, <4>1
        <3>2. CASE i = 1
            <4> DEFINE S2 == 2..(MaxEntries + 1)
                       T2 == (m + 1)..Len(u)
                       f == [j \in S2 |-> CHOOSE n \in DOMAIN u : s[j] = u[n]]
            <4>0. DOMAIN u = 1..Len(u) /\ Len(u) \in Nat /\ m \in Nat OBVIOUS
            <4>1. \A j \in S2 : j \in DOMAIN s /\ 1 < j BY <1>1, <2>2
            <4>2. \A j \in S2 : f[j] \in DOMAIN u /\ s[j] = u[f[j]]
                BY <4>1 DEF Follows
            <4>3. \A j \in S2 : m < f[j] BY <2>2, <2>5, <3>2, <4>1, <4>2 DEF Follows
            <4>4. f \in [S2 -> T2]
                <5> SUFFICES ASSUME NEW j \in S2 PROVE f[j] \in T2
                    OBVIOUS
                <5> HIDE DEF f, S2
                <5>1. f[j] \in DOMAIN u /\ m < f[j] BY <4>2, <4>3
                <5> QED BY <4>0, <5>1
            <4>5. /\ IsFiniteSet(S2) /\ IsFiniteSet(T2)
                  /\ Cardinality(S2) = MaxEntries
                  /\ Cardinality(T2) = IF m + 1 > Len(u) THEN 0 ELSE Len(u) - m
                <5>1. 2 \in Int /\ MaxEntries + 1 \in Int /\ m + 1 \in Int /\ Len(u) \in Int
                    BY <1>1, <4>0
                <5>2. IsFiniteSet(S2) /\ Cardinality(S2) = MaxEntries
                    <6> DEFINE from == 2
                               to == MaxEntries + 1
                    <6>1. from \in Int /\ to \in Int BY <5>1
                    <6> HIDE DEF from, to
                    <6>2. /\ IsFiniteSet(from..to)
                          /\ Cardinality(from..to) = IF from > to THEN 0 ELSE to - from + 1
                        BY <6>1, FS_Interval
                    <6>3. S2 = from..to BY DEF S2, from, to
                    <6>4. Cardinality(from..to) = MaxEntries BY <1>1, <6>2 DEF from, to
                    <6> QED BY <6>2, <6>3, <6>4
                <5>3. /\ IsFiniteSet(T2)
                      /\ Cardinality(T2) = IF m + 1 > Len(u) THEN 0 ELSE Len(u) - (m + 1) + 1
                    BY <5>1, FS_Interval
                <5> HIDE DEF S2, T2
                <5> QED BY <1>1, <4>0, <5>2, <5>3
            <4>6. Cardinality(T2) < Cardinality(S2)
                <5>1. MaxEntries > 0 BY <1>1, <2>5, <4>0
                <5> QED BY <1>1, <2>5, <4>0, <4>5, <5>1
            <4> HIDE DEF f, S2, T2
            <4>7. PICK x, y \in S2 : x # y /\ f[x] = f[y] BY <4>4, <4>5, <4>6, FS_PigeonHole
            <4>8. x \in Int /\ y \in Int BY DEF S2
            <4>9. x < y \/ y < x BY <4>7, <4>8
            <4>10. f[x] < f[x]
                <5>1. CASE x < y BY <4>1, <4>2, <4>7, <5>1 DEF Follows
                <5>2. CASE y < x BY <4>1, <4>2, <4>7, <5>2 DEF Follows
                <5> QED BY <4>9, <5>1, <5>2
            <4>11. f[x] \in Nat BY <4>0, <4>2, <4>7
            <4> QED BY <4>10, <4>11
        <3> QED BY <3>1, <3>2
    <2> QED BY <2>3, <2>4, <2>5
<1>3. CASE ~(Len(s) > MaxEntries)
    BY <1>1, <1>3 DEF Bounded
<1> QED BY <1>2, <1>3

\* Of the entries used last, the first has those that are not expired.
Recent(s, u) ==
    \A m \in DOMAIN u : m > Len(u) - MaxEntries /\ ~Expired(u[m]) => \E i \in DOMAIN s : s[i] = u[m]

UsedInv ==
    /\ used \in Seq(Entry)
    /\ DistinctKeys(used)
    /\ Follows(store, used)
    /\ Recent(store, used)

\* An entry that goes to the end of both leaves both as they should be.
LEMMA Renewed ==
    ASSUME NEW s \in Seq(Entry), NEW u \in Seq(Entry), NEW e \in Entry, DistinctKeys(s), DistinctKeys(u),
           Follows(s, u), Recent(s, u)
    PROVE  LET a == Append(Without(s, e.key), e)
               b == Append(Without(u, e.key), e)
           IN /\ a \in Seq(Entry) /\ b \in Seq(Entry) /\ DistinctKeys(b)
              /\ Follows(a, b) /\ Recent(a, b)
<1> DEFINE v == Without(s, e.key)
           w == Without(u, e.key)
           a == Append(v, e)
           b == Append(w, e)
<1>a. MaxEntries \in Nat BY CacheAssumption
<1>1. /\ v \in Seq(Entry) /\ w \in Seq(Entry)
      /\ DistinctKeys(w) /\ \A i \in DOMAIN w : w[i].key # e.key
    BY WithoutEntries, WithoutDistinct
<1>2. /\ Follows(v, s)
      /\ \A i \in DOMAIN v : \E m \in DOMAIN s : i <= m /\ v[i] = s[m] /\ s[m].key # e.key
      /\ \A m \in DOMAIN s : s[m].key # e.key => \E i \in DOMAIN v : v[i] = s[m]
    <2> DEFINE k == e.key
    <2> HIDE DEF k
    <2>1. v = Without(s, k) BY DEF k
    <2> HIDE DEF v
    <2> QED BY <2>1, WithoutFollows DEF k
<1>3. /\ Follows(w, u) /\ Len(u) <= Len(w) + 1
      /\ \A i \in DOMAIN w : \E m \in DOMAIN u : i <= m /\ w[i] = u[m] /\ u[m].key # e.key
      /\ \A m \in DOMAIN u : u[m].key # e.key => \E i \in DOMAIN w : w[i] = u[m]
    <2> DEFINE k == e.key
    <2> HIDE DEF k
    <2>1. w = Without(u, k) BY DEF k
    <2> HIDE DEF w
    <2> QED BY <2>1, WithoutFollows DEF k
<1> HIDE DEF v, w
<1>4. Follows(v, w)
    <2>1. Follows(v, u) BY <1>1, <1>2, FollowsOn
    <2>2. \A i \in DOMAIN v : \E m \in DOMAIN w : v[i] = w[m]
        <3> SUFFICES ASSUME NEW i \in DOMAIN v PROVE \E m \in DOMAIN w : v[i] = w[m]
            OBVIOUS
        <3>1. PICK m \in DOMAIN u : v[i] = u[m] BY <2>1 DEF Follows
        <3>2. u[m].key # e.key BY <1>2, <3>1
        <3> QED BY <1>3, <3>1, <3>2
    <2> QED BY <1>1, <1>3, <2>1, <2>2, FollowsBoth
<1>5. Follows(a, b) BY <1>1, <1>4, AppendFollows
<1>6. DistinctKeys(b) BY <1>1, AppendDistinct
<1>7. Recent(a, b)
    <2>1. /\ DOMAIN b = 1..(Len(w) + 1) /\ b[Len(w) + 1] = e /\ Len(b) = Len(w) + 1
          /\ \A i \in 1..Len(w) : b[i] = w[i] /\ i \in DOMAIN w
        BY <1>1
    <2>2. /\ DOMAIN a = 1..(Len(v) + 1) /\ a[Len(v) + 1] = e
          /\ \A i \in DOMAIN v : a[i] = v[i] /\ i \in DOMAIN a
        BY <1>1
    <2> HIDE DEF a, b
    <2>3. SUFFICES ASSUME NEW m \in DOMAIN b, m > Len(b) - MaxEntries, ~Expired(b[m])
                   PROVE  \E i \in DOMAIN a : a[i] = b[m]
        BY DEF Recent
    <2>4. CASE m = Len(w) + 1
        <3>1. Len(v) + 1 \in DOMAIN a BY <1>1, <2>2
        <3> QED BY <2>1, <2>2, <2>4, <3>1
    <2>5. CASE m # Len(w) + 1
        <3>1. m \in 1..Len(w) BY <1>1, <2>1, <2>5
        <3>2. m \in DOMAIN w /\ b[m] = w[m] BY <2>1, <3>1
        <3>3. PICK n \in DOMAIN u : m <= n /\ w[m] = u[n] /\ u[n].key # e.key BY <1>3, <3>2
        <3>4. n > Len(u) - MaxEntries BY <1>a, <1>1, <1>3, <2>1, <2>3, <3>1, <3>3
        <3>5. PICK i \in DOMAIN s : s[i] = u[n] BY <2>3, <3>2, <3>3, <3>4 DEF Recent
        <3>6. PICK j \in DOMAIN v : v[j] = s[i] BY <1>2, <3>3, <3>5
        <3> QED BY <2>2, <3>2, <3>3, <3>5, <3>6
    <2> QED BY <2>4, <2>5
<1> QED BY <1>1, <1>5, <1>6, <1>7 DEF v, w

\* Every step keeps the cache in step with one that never evicts.
LEMMA UsedStep ==
    ASSUME FreshInv, FreshInv', PlaceInv, StoreInv, StoreInv', UsedInv, [Next]_vars
    PROVE  UsedInv'
<1>a. MaxEntries \in Nat BY CacheAssumption
<1>b. /\ store \in Seq(Entry) /\ store' \in Seq(Entry) /\ DistinctKeys(store)
      /\ Len(store) <= MaxEntries /\ now \in Nat
    BY DEF FreshInv, StoreInv
<1>0. CASE UNCHANGED <<store, used>> /\ now' \in Nat /\ now <= now'
    <2>1. \A e \in Entry : ~Expired(e)' => ~Expired(e)
        BY <1>0, <1>b DEF Expired, Entry
    <2>2. \A m \in DOMAIN used : used[m] \in Entry BY DEF UsedInv
    <2>3. Recent(store, used)' BY <1>0, <2>1, <2>2 DEF Recent, UsedInv
    <2> QED BY <1>0, <2>3 DEF UsedInv, DistinctKeys, Follows
<1>1. ASSUME NEW k, Get(k) PROVE UsedInv'
    <2>1. CASE Hit(k)
        <3> DEFINE e == EntryOf(k)
        <3>1. e \in Entry /\ e.key = k BY <1>b, <2>1, HeldEntry DEF Hit
        <3>2. store' = Append(Without(store, e.key), e) /\ used' = Append(Without(used, e.key), e) /\ now' = now
            BY <1>1, <2>1, <3>1 DEF Get, Touched
        <3> HIDE DEF e
        <3>3. /\ used' \in Seq(Entry) /\ DistinctKeys(used') /\ Follows(store', used')
              /\ Recent(store', used')
            BY <1>b, <3>1, <3>2, Renewed DEF UsedInv
        <3>4. Recent(store, used)' BY <3>2, <3>3 DEF Recent, Expired
        <3> QED BY <3>3, <3>4 DEF UsedInv, DistinctKeys, Follows
    <2>2. CASE ~Hit(k)
        <3>1. store' = Without(store, k) /\ used' = used /\ now' = now
            BY <1>1, <2>2 DEF Get
        <3>2. /\ Follows(store', store)
              /\ \A m \in DOMAIN store : store[m].key # k =>
                     \E i \in DOMAIN store' : store'[i] = store[m]
            BY <1>b, <3>1, WithoutFollows
        <3>3. Follows(store', used) BY <1>b, <3>2, FollowsOn DEF UsedInv
        <3>4. Recent(store', used)
            <4> SUFFICES ASSUME NEW m \in DOMAIN used, m > Len(used) - MaxEntries, ~Expired(used[m])
                         PROVE  \E i \in DOMAIN store' : store'[i] = used[m]
                BY DEF Recent
            <4>1. PICK i \in DOMAIN store : store[i] = used[m] BY DEF UsedInv, Recent
            <4>2. store[i].key # k
                <5> SUFFICES ASSUME store[i].key = k PROVE FALSE
                    OBVIOUS
                <5>1. store[i] \in Range(store) BY DEF Range
                <5>2. Held(k) BY <5>1 DEF Held
                <5>3. EntryOf(k) \in Range(store) /\ EntryOf(k).key = k BY <5>2 DEF Held, EntryOf
                <5>4. EntryOf(k) = store[i] BY <1>b, <5>3 DEF Range, DistinctKeys
                <5> QED BY <2>2, <4>1, <5>2, <5>4 DEF Hit
            <4> QED BY <3>2, <4>1, <4>2
        <3>5. Recent(store, used)' BY <3>1, <3>4 DEF Recent, Expired
        <3> QED BY <3>1, <3>3, <3>5 DEF UsedInv, DistinctKeys, Follows
    <2> QED BY <2>1, <2>2
<1>2. ASSUME NEW e \in Entry, now' = now, used' = Append(Without(used, e.key), e),
             store' = Bounded(Append(Without(store, e.key), e))
      PROVE  UsedInv'
    <2> DEFINE a == Append(Without(store, e.key), e)
    <2>1. /\ a \in Seq(Entry) /\ used' \in Seq(Entry) /\ DistinctKeys(used')
          /\ Follows(a, used') /\ Recent(a, used')
        BY <1>b, <1>2, Renewed DEF UsedInv
    <2>2. Len(a) <= MaxEntries + 1
        <3>1. Without(store, e.key) \in Seq(Entry) /\ Len(Without(store, e.key)) <= Len(store)
            BY <1>b, WithoutEntries, WithoutDistinct
        <3> QED BY <1>a, <1>b, <3>1
    <2> HIDE DEF a
    <2>3. store' = Bounded(a) BY <1>2 DEF a
    <2>4. /\ Follows(store', used')
          /\ \A i \in DOMAIN a, m \in DOMAIN used' : a[i] = used'[m] /\ m > Len(used') - MaxEntries =>
                 \E j \in DOMAIN store' : store'[j] = a[i]
        BY <2>1, <2>2, <2>3, BoundedFollows
    <2>5. Recent(store', used')
        <3> SUFFICES ASSUME NEW m \in DOMAIN used', m > Len(used') - MaxEntries, ~Expired(used'[m])
                     PROVE  \E j \in DOMAIN store' : store'[j] = used'[m]
            BY DEF Recent
        <3>1. PICK i \in DOMAIN a : a[i] = used'[m] BY <2>1 DEF Recent
        <3> QED BY <2>4, <3>1
    <2>6. Recent(store, used)' BY <1>2, <2>5 DEF Recent, Expired
    <2> QED BY <2>1, <2>4, <2>6 DEF UsedInv, DistinctKeys, Follows
<1>3. ASSUME NEW th \in Threads, Store(th) PROVE UsedInv'
    <2>1. call[th] \in Busy BY <1>3 DEF Store, FreshInv
    <2> DEFINE answer == [of |-> Asked(th), born |-> now]
               ttl == Ttl[call[th].profile]
    <2>2. PICK clock \in call[th].since..now : Put(Key(th), answer, clock, ttl)
        BY <1>3 DEF Store
    <2> DEFINE e == [key |-> Key(th), value |-> answer,
                     expires |-> IF ttl <= 0 THEN 0 ELSE clock + ttl]
    <2>3. e \in Entry /\ e.key = Key(th)
        <3>1. ttl \in Nat /\ clock \in Nat /\ clock <= now
            BY <2>1, <2>2, RouterAssumption DEF Busy, FreshInv
        <3>2. answer \in Answering BY <2>1, BusyKey DEF Answering, FreshInv
        <3> QED BY <2>1, <3>1, <3>2, BusyKey DEF Entry, FreshInv
    <2>4. /\ store' = Bounded(Append(Without(store, e.key), e)) /\ now' = now
          /\ used' = Append(Without(used, e.key), e)
        BY <2>2, <2>3 DEF Put
    <2> HIDE DEF e
    <2> QED BY <1>2, <2>3, <2>4
<1>4. ASSUME NEW th \in Threads, Advance(th) PROVE UsedInv'
    <2>1. CASE Probe(th) BY <1>1, <2>1 DEF Probe
    <2>2. CASE Completes(th) \/ Raises(th) \/ Return(th)
        BY <1>0, <1>b, <2>2 DEF Completes, Raises, Return, cacheVars
    <2> QED BY <1>3, <1>4, <2>1, <2>2 DEF Advance
<1>5. CASE \E th \in Threads, p \in Profiles, q \in Requests : Start(th, p, q)
    BY <1>0, <1>b, <1>5 DEF Start, cacheVars
<1>6. CASE Tick /\ UNCHANGED call
    BY <1>0, <1>b, <1>6 DEF Tick
<1>7. CASE UNCHANGED vars
    BY <1>0, <1>b, <1>7 DEF vars, cacheVars
<1> QED BY <1>4, <1>5, <1>6, <1>7 DEF Next

\* The cache forgets in the right order, whatever it holds and however calls overlap: of
\* the MaxEntries keys used last it has every one that has not expired.
THEOREM CacheKeepsRecent == Spec => []RecentKept
<1>1. Init => PlaceInv /\ FailsOnlyAfterAll
    BY DEF Init, Idle, PlaceInv, FailsOnlyAfterAll
<1>2. Init => StoreInv /\ UsedInv
    BY CacheAssumption DEF Init, Idle, CacheInit, StoreInv, UsedInv, DistinctKeys, Follows, Recent
<1>3. FreshInv /\ [Next]_vars => FreshInv' BY FreshStep
<1>4. /\ FreshInv /\ FreshInv' /\ PlaceInv /\ FailsOnlyAfterAll /\ StoreInv /\ UsedInv /\ [Next]_vars
      => PlaceInv' /\ FailsOnlyAfterAll' /\ StoreInv' /\ UsedInv'
    BY TriedStep, StoreStep, UsedStep
<1>5. UsedInv => RecentKept
    BY DEF UsedInv, RecentKept, Follows, Recent, Range
<1> QED BY <1>1, <1>2, <1>3, <1>4, <1>5, FreshInit, PTL DEF Spec

-----------------------------------------------------------------------------
\* The boot: its steps

\* The directories of the boot: every level of the script, then the TEF mock.
PlaceSet == Levels \cup {TEF_LEVEL}

KindSet == {"content", "comprehension", "writing", "topics", "exam"}

\* The steps of the boot: each is a place and a kind, and each level has one of each kind.
LEMMA StepsAre ==
    /\ Len(Steps) = 5 * Len(LEVELS) + 1 /\ Len(LEVELS) \in Nat
    /\ \A i \in 1..(5 * Len(LEVELS)) :
           Steps[i] = <<LEVELS[1 + ((i - 1) \div 5)], Kinds[1 + ((i - 1) % 5)]>>
    /\ Steps[5 * Len(LEVELS) + 1] = <<TEF_LEVEL, "exam">>
    /\ \A i \in 1..Len(Steps) : /\ Steps[i][1] \in PlaceSet /\ Steps[i][2] \in KindSet
                                /\ Steps[i][1] \in Levels \/ Steps[i][2] = "exam"
    /\ \A lv \in Levels, kind \in KindSet :
           \E i \in 1..Len(Steps) : Steps[i] = <<lv, kind>>
    /\ \E i \in 1..Len(Steps) : Steps[i] = <<TEF_LEVEL, "exam">>
<1> DEFINE N == Len(LEVELS)
           S == [i \in 1..(5 * N) |-> <<LEVELS[1 + ((i - 1) \div 5)], Kinds[1 + ((i - 1) % 5)]>>]
           T == << <<TEF_LEVEL, "exam">> >>
<1>1. LEVELS \in Seq(Levels) /\ N \in Nat
  BY ContentBootAssumption DEF Levels
<1>2. \A k \in 1..5 : Kinds[k] \in KindSet
  BY DEF Kinds, KindSet
<1>3. \A kind \in KindSet : \E k \in 1..5 : Kinds[k] = kind
  <2>1. /\ Kinds[1] = "content" /\ Kinds[2] = "comprehension" /\ Kinds[3] = "writing"
        /\ Kinds[4] = "topics" /\ Kinds[5] = "exam"
    BY DEF Kinds
  <2> QED BY <2>1 DEF KindSet
<1>4. \A i \in 1..(5 * N) : 1 + ((i - 1) \div 5) \in 1..N /\ 1 + ((i - 1) % 5) \in 1..5
  BY <1>1
<1>5. \A i \in 1..(5 * N) : S[i][1] \in Levels /\ S[i][2] \in KindSet
  <2> SUFFICES ASSUME NEW i \in 1..(5 * N) PROVE S[i][1] \in Levels /\ S[i][2] \in KindSet
    OBVIOUS
  <2>1. S[i] = <<LEVELS[1 + ((i - 1) \div 5)], Kinds[1 + ((i - 1) % 5)]>>
    OBVIOUS
  <2>2. LEVELS[1 + ((i - 1) \div 5)] \in Levels /\ Kinds[1 + ((i - 1) % 5)] \in KindSet
    BY <1>1, <1>2, <1>4
  <2> HIDE DEF S
  <2> QED BY <2>1, <2>2
<1>6. S \in Seq(PlaceSet \X KindSet) /\ Len(S) = 5 * N /\ T \in Seq(PlaceSet \X KindSet) /\ Len(T) = 1
      /\ T[1] = <<TEF_LEVEL, "exam">>
  <2>1. S \in [1..(5 * N) -> PlaceSet \X KindSet] /\ 5 * N \in Nat
    BY <1>1, <1>2, <1>4 DEF PlaceSet
  <2>2. S \in Seq(PlaceSet \X KindSet) /\ Len(S) = 5 * N
    <3> HIDE DEF S
    <3> QED BY <2>1
  <2>3. <<TEF_LEVEL, "exam">> \in PlaceSet \X KindSet
    BY DEF PlaceSet, KindSet
  <2>4. T \in Seq(PlaceSet \X KindSet) /\ Len(T) = 1 /\ T[1] = <<TEF_LEVEL, "exam">>
    BY <2>3
  <2> QED BY <2>2, <2>4
<1>7. Steps = S \o T
  BY DEF Steps
<1> HIDE DEF T
<1>8. /\ Len(S \o T) = 5 * N + 1
      /\ \A i \in 1..(5 * N) : (S \o T)[i] = S[i]
      /\ (S \o T)[5 * N + 1] = <<TEF_LEVEL, "exam">>
  <2> HIDE DEF S, N
  <2>1. /\ Len(S \o T) = Len(S) + Len(T)
        /\ \A i \in 1..Len(S) : (S \o T)[i] = S[i]
        /\ \A i \in 1..Len(T) : (S \o T)[Len(S) + i] = T[i]
    BY <1>6, Concatenation
  <2> QED BY <1>1, <1>6, <2>1
<1>9. ASSUME NEW i \in 1..Len(Steps)
      PROVE  /\ Steps[i][1] \in PlaceSet /\ Steps[i][2] \in KindSet
             /\ Steps[i][1] \in Levels \/ Steps[i][2] = "exam"
  <2>1. CASE i \in 1..(5 * N)
    BY <1>5, <1>7, <1>8, <2>1 DEF PlaceSet
  <2>2. CASE i = 5 * N + 1
    <3>1. Steps[i] = <<TEF_LEVEL, "exam">>
      BY <1>7, <1>8, <2>2
    <3> QED BY <3>1 DEF PlaceSet, KindSet
  <2>3. i \in 1..(5 * N) \/ i = 5 * N + 1
    <3>1. 5 * N \in Nat /\ Len(Steps) = 5 * N + 1
      BY <1>1, <1>7, <1>8
    <3> HIDE DEF N, S
    <3> QED BY <3>1
  <2> QED BY <2>1, <2>2, <2>3
<1>10. ASSUME NEW lv \in Levels, NEW kind \in KindSet
       PROVE  \E i \in 1..Len(Steps) : Steps[i] = <<lv, kind>>
  <2>1. PICK j \in 1..N : LEVELS[j] = lv
    BY <1>1 DEF Levels, Files
  <2>2. PICK k \in 1..5 : Kinds[k] = kind
    BY <1>3
  <2>3. PICK i \in 1..(5 * N) : i = 5 * (j - 1) + k
    BY <1>1
  <2>4. 1 + ((i - 1) \div 5) = j /\ 1 + ((i - 1) % 5) = k
    BY <1>1, <2>3
  <2>5. S[i] = <<lv, kind>>
    BY <2>1, <2>2, <2>4
  <2>6. i \in 1..Len(Steps)
    BY <1>1, <1>7, <1>8
  <2> HIDE DEF S
  <2> QED BY <1>7, <1>8, <2>5, <2>6
<1>11. \E i \in 1..Len(Steps) : Steps[i] = <<TEF_LEVEL, "exam">>
  <2>1. 5 * N + 1 \in 1..Len(Steps)
    BY <1>1, <1>7, <1>8
  <2> HIDE DEF S
  <2> QED BY <1>7, <1>8, <2>1
<1>12. \A i \in 1..(5 * N) : S[i] = <<LEVELS[1 + ((i - 1) \div 5)], Kinds[1 + ((i - 1) % 5)]>>
  OBVIOUS
<1> HIDE DEF S
<1> QED BY <1>1, <1>7, <1>8, <1>9, <1>10, <1>11, <1>12

-----------------------------------------------------------------------------
\* The application serves its release

\* What a step of the boot has replaced: itself and all before it.
Booted(i) == step = 0 \/ i < step \/ (i = step /\ uploads # {})

Place(i) == Steps[i][1]
Kind(i) == Steps[i][2]

\* A table whose rows are labelled with the directory they come from.
Settled(t) == Labelled(Tree[release]) \/ t \notin {"units", "lessons", "vocab"}

\* A table is written by one kind of step.
LEMMA WrittenBy ==
    /\ \A t \in Tables : \E kind \in KindSet : t \in Written(kind)
    /\ \A kind \in KindSet : Written(kind) \subseteq Tables
    /\ \A kind \in KindSet : \A t \in Written(kind) :
           t \in {"units", "lessons", "vocab"} <=> kind = "content"
BY DEF Tables, KindSet, Written

\* The state of the boot that its steps count on.
BootState ==
    /\ release \in Releases
    /\ DOMAIN db = Tables
    /\ step \in 0..Len(Steps)
    /\ step = 0 => uploads = {}

\* What has booted has loaded, and its rows at its level are those of the release.
RowsInv ==
    \A i \in 1..Len(Steps) : Booted(i) =>
        /\ Loads(Tree[release], Place(i), Kind(i))
        /\ \A t \in Written(Kind(i)) : Settled(t) =>
               RowsAt(t, Place(i)) = Rows(Tree[release], Place(i), t)

\* Every clip of a step that is over is in the bucket; of the current step, all but those
\* still to upload.
ClipsInv ==
    /\ \A i \in 1..Len(Steps) : step = 0 \/ i < step =>
           Clips(Tree[release], Place(i), Kind(i)) \subseteq bucket
    /\ uploads # {} =>
           /\ uploads \subseteq Clips(Tree[release], Place(step), Kind(step))
           /\ Clips(Tree[release], Place(step), Kind(step)) \ uploads \subseteq bucket

\* A step that loads files its rows under its place, where the table is settled.
LEMMA LabelIsPlace ==
    ASSUME NEW i \in 1..Len(Steps), Loads(Tree[release], Place(i), Kind(i)),
           NEW t \in Written(Kind(i)), Settled(t)
    PROVE  Label(Tree[release], Place(i), t) = Place(i)
<1>1. Kind(i) \in KindSet /\ (Place(i) \in Levels \/ Kind(i) = "exam")
  BY StepsAre DEF Kind, Place
<1>2. CASE t \in {"units", "lessons", "vocab"}
  <2>1. Kind(i) = "content" /\ Place(i) \in Levels
    BY <1>1, <1>2, WrittenBy
  <2>2. Tree[release][Place(i)].path # NoPath
    BY <2>1 DEF Loads, LoadsContent
  <2> QED BY <1>2, <2>1, <2>2 DEF Settled, Labelled, Label
<1>3. CASE t \notin {"units", "lessons", "vocab"}
  BY <1>3 DEF Label
<1> QED BY <1>2, <1>3

\* Replacing the rows of a level leaves those of the others.
LEMMA ReplacedRows ==
    ASSUME NEW tree, NEW lv, NEW t, Label(tree, lv, t) = lv
    PROVE  /\ {row \in Replaced(tree, lv, t) : row.level = lv} = Rows(tree, lv, t)
           /\ \A other : other # lv =>
                  {row \in Replaced(tree, lv, t) : row.level = other} = RowsAt(t, other)
<1>1. \A row \in Rows(tree, lv, t) : row.level = lv
  BY DEF Rows
<1>2. Spared(t, lv) = {row \in db[t] : row.level # lv}
  BY DEF Spared
<1> QED BY <1>1, <1>2 DEF Replaced, RowsAt

\* In a release, a clip is known by its level and its name.
LEMMA ClipNamed ==
    ASSUME release \in Releases, NEW i \in 1..Len(Steps), NEW j \in 1..Len(Steps),
           NEW c \in Clips(Tree[release], Place(i), Kind(i)),
           NEW d \in Clips(Tree[release], Place(j), Kind(j)),
           c.level = d.level, c.name = d.name
    PROVE  c = d
<1>1. /\ Kind(i) \in {"content", "comprehension"} /\ Kind(j) \in {"content", "comprehension"}
      /\ \E x \in Tree[release][Place(i)].clips :
             c = [level |-> Place(i), name |-> x.name, take |-> x.take]
      /\ \E y \in Tree[release][Place(j)].clips :
             d = [level |-> Place(j), name |-> y.name, take |-> y.take]
  BY DEF Clips
<1>2. PICK x \in Tree[release][Place(i)].clips :
          c = [level |-> Place(i), name |-> x.name, take |-> x.take]
  BY <1>1
<1>3. PICK y \in Tree[release][Place(j)].clips :
          d = [level |-> Place(j), name |-> y.name, take |-> y.take]
  BY <1>1
<1>4. Place(i) = Place(j) /\ Place(i) \in Levels
  BY <1>1, <1>2, <1>3, StepsAre DEF Place, Kind
<1>5. x.name = y.name
  BY <1>2, <1>3
<1>6. x = y
  BY <1>4, <1>5, ContentBootAssumption DEF Levels
<1> QED BY <1>2, <1>3, <1>4, <1>6

\* The boot starts with nothing booted.
LEMMA BootStarts == BootInit => BootState /\ RowsInv /\ ClipsInv
<1> SUFFICES ASSUME BootInit PROVE BootState /\ RowsInv /\ ClipsInv
  OBVIOUS
<1>1. step = 1 /\ uploads = {} /\ Len(Steps) \in Nat /\ Len(Steps) >= 1
  BY StepsAre DEF BootInit
<1>2. \A i \in 1..Len(Steps) : ~Booted(i) /\ ~(step = 0 \/ i < step)
  BY <1>1 DEF Booted
<1> QED BY <1>1, <1>2, ContentBootAssumption DEF BootInit, BootState, RowsInv, ClipsInv

\* A boot that starts over has booted nothing.
LEMMA StartsOver ==
    ASSUME step' = 1, uploads' = {}, release' \in Releases, DOMAIN db' = Tables
    PROVE  BootState' /\ RowsInv' /\ ClipsInv'
<1>1. Len(Steps) \in Nat /\ Len(Steps) >= 1 /\ Steps' = Steps
  BY StepsAre DEF Steps, Kinds, TEF_LEVEL
<1>2. \A i \in 1..Len(Steps) : ~Booted(i)' /\ ~(step' = 0 \/ i < step')
  BY <1>1 DEF Booted
<1> QED BY <1>1, <1>2 DEF BootState, RowsInv, ClipsInv

\* A step that loads replaces its rows and spares the rest.
LEMMA SyncKeeps ==
    ASSUME BootState, RowsInv, ClipsInv, Sync
    PROVE  BootState' /\ RowsInv' /\ ClipsInv'
<1> DEFINE tree == Tree[release]
<1>0. /\ step \in 1..Len(Steps) /\ uploads = {} /\ Len(Steps) \in Nat
      /\ Loads(tree, Place(step), Kind(step))
      /\ db' = [t \in Tables |-> IF t \in Written(Kind(step))
                                  THEN Replaced(tree, Place(step), t) ELSE db[t]]
      /\ uploads' = Clips(tree, Place(step), Kind(step))
      /\ step' = IF uploads' = {} THEN After(step) ELSE step
      /\ release' = release /\ bucket' = bucket
  BY StepsAre DEF Sync, BootState, Booting, Runs, Place, Kind
<1> PICK n \in 1..Len(Steps) : n = step
  BY <1>0
<1>1. step' \in 0..Len(Steps) /\ (step' = 0 => uploads' = {})
  BY <1>0 DEF After
<1>2. \A i \in 1..Len(Steps) : Booted(i)' => i = n \/ Booted(i)
  BY <1>0 DEF Booted, After
<1>3. \A i \in 1..Len(Steps) : step' = 0 \/ i < step' => i < step \/ (i = n /\ uploads' = {})
  BY <1>0 DEF After
<1>4. BootState'
  BY <1>0, <1>1 DEF BootState
<1>5. ClipsInv'
  <2>1. ASSUME NEW i \in 1..Len(Steps), step' = 0 \/ i < step'
        PROVE  Clips(tree, Place(i), Kind(i)) \subseteq bucket
    BY <1>0, <1>3, <2>1 DEF ClipsInv
  <2>2. uploads' # {} => step' = n
    BY <1>0
  <2> QED BY <1>0, <2>1, <2>2 DEF ClipsInv, Place, Kind
<1>6. RowsInv'
  <2> SUFFICES ASSUME NEW i \in 1..Len(Steps), Booted(i)'
               PROVE  /\ Loads(tree, Place(i), Kind(i))
                      /\ \A t \in Written(Kind(i)) : Settled(t) =>
                             RowsAt(t, Place(i))' = Rows(tree, Place(i), t)
    BY <1>0 DEF RowsInv, Settled, Place, Kind
  <2>1. Loads(tree, Place(i), Kind(i))
    BY <1>0, <1>2 DEF RowsInv
  <2> SUFFICES ASSUME NEW t \in Written(Kind(i)), Settled(t)
               PROVE  {row \in db'[t] : row.level = Place(i)} = Rows(tree, Place(i), t)
    BY <2>1 DEF RowsAt, Place
  <2>2. t \in Tables
    BY WrittenBy, StepsAre DEF Kind
  <2>3. CASE t \notin Written(Kind(n))
    <3>1. db'[t] = db[t] /\ i # n
      BY <1>0, <2>2, <2>3
    <3> QED BY <1>2, <3>1 DEF RowsInv, RowsAt
  <2>4. CASE t \in Written(Kind(n))
    <3>1. db'[t] = Replaced(tree, Place(n), t)
      BY <1>0, <2>2, <2>4
    <3>2. Label(tree, Place(n), t) = Place(n)
      BY <1>0, <2>4, LabelIsPlace
    <3>3. /\ {row \in db'[t] : row.level = Place(n)} = Rows(tree, Place(n), t)
          /\ \A other : other # Place(n) =>
                 {row \in db'[t] : row.level = other} = RowsAt(t, other)
      BY <3>1, <3>2, ReplacedRows
    <3>4. CASE Place(i) = Place(n)
      BY <3>3, <3>4
    <3>5. CASE Place(i) # Place(n)
      <4>1. i # n /\ Booted(i)
        BY <1>2, <3>5
      <4> QED BY <3>3, <3>5, <4>1 DEF RowsInv
    <3> QED BY <3>4, <3>5
  <2> QED BY <2>3, <2>4
<1> QED BY <1>4, <1>5, <1>6

\* An upload touches no row, and overwrites a clip only with itself.
LEMMA UploadKeeps ==
    ASSUME BootState, RowsInv, ClipsInv, Upload
    PROVE  BootState' /\ RowsInv' /\ ClipsInv'
<1> DEFINE tree == Tree[release]
<1>0. PICK clip \in uploads :
          /\ bucket' = PutClip(clip) /\ uploads' = uploads \ {clip}
          /\ step' = IF uploads' = {} THEN After(step) ELSE step
          /\ step \in 1..Len(Steps) /\ Len(Steps) \in Nat
          /\ release' = release /\ db' = db
  BY StepsAre DEF Upload, BootState, Booting
<1> PICK n \in 1..Len(Steps) : n = step
  BY <1>0
<1>1. clip \in Clips(tree, Place(n), Kind(n)) /\ uploads # {}
  BY <1>0 DEF ClipsInv
<1>2. ASSUME NEW i \in 1..Len(Steps), NEW c \in Clips(tree, Place(i), Kind(i)), c \in bucket \cup {clip}
      PROVE  c \in bucket'
  <2>1. CASE <<c.level, c.name>> # <<clip.level, clip.name>>
    BY <1>0, <1>2, <2>1 DEF PutClip
  <2>2. CASE <<c.level, c.name>> = <<clip.level, clip.name>>
    <3>1. c = clip
      BY <1>1, <2>2, ClipNamed DEF BootState
    <3> QED BY <1>0, <3>1 DEF PutClip
  <2> QED BY <2>1, <2>2
<1>3. step' \in 0..Len(Steps) /\ (step' = 0 => uploads' = {})
  BY <1>0 DEF After
<1>4. \A i \in 1..Len(Steps) : Booted(i)' => Booted(i)
  BY <1>0, <1>1 DEF Booted, After
<1>5. \A i \in 1..Len(Steps) : step' = 0 \/ i < step' => i < step \/ (i = n /\ uploads' = {})
  BY <1>0 DEF After
<1>6. BootState'
  BY <1>0, <1>3 DEF BootState
<1>7. RowsInv'
  BY <1>0, <1>4 DEF RowsInv, Settled, RowsAt, Place, Kind
<1>8. ClipsInv'
  <2>1. ASSUME NEW i \in 1..Len(Steps), step' = 0 \/ i < step'
        PROVE  Clips(tree, Place(i), Kind(i)) \subseteq bucket'
    <3> SUFFICES ASSUME NEW c \in Clips(tree, Place(i), Kind(i)) PROVE c \in bucket'
      OBVIOUS
    <3>1. CASE i < step
      BY <1>2, <3>1 DEF ClipsInv
    <3>2. CASE i = n /\ uploads' = {}
      <4>1. c \in bucket \cup {clip}
        BY <1>0, <1>1, <3>2 DEF ClipsInv
      <4> QED BY <1>2, <4>1
    <3> QED BY <1>5, <2>1, <3>1, <3>2
  <2>2. ASSUME uploads' # {}
        PROVE  /\ step' = n /\ uploads' \subseteq Clips(tree, Place(n), Kind(n))
               /\ Clips(tree, Place(n), Kind(n)) \ uploads' \subseteq bucket'
    <3>1. \A c \in Clips(tree, Place(n), Kind(n)) \ uploads' : c \in bucket \cup {clip}
      BY <1>0, <1>1 DEF ClipsInv
    <3> QED BY <1>0, <1>1, <1>2, <2>2, <3>1 DEF ClipsInv
  <2> QED BY <1>0, <2>1, <2>2 DEF ClipsInv, Place, Kind
<1> QED BY <1>6, <1>7, <1>8

\* Every step of the boot, a crash and a deploy keep what has booted.
LEMMA BootKeeps ==
    BootState /\ RowsInv /\ ClipsInv /\ [BootNext]_bootVars => BootState' /\ RowsInv' /\ ClipsInv'
<1> SUFFICES ASSUME BootState, RowsInv, ClipsInv, [BootNext]_bootVars
             PROVE  BootState' /\ RowsInv' /\ ClipsInv'
  OBVIOUS
<1>1. CASE Fail \/ Crash
  BY <1>1, StartsOver DEF Fail, Crash, BootState
<1>2. ASSUME NEW r \in Releases, Deploy(r) PROVE BootState' /\ RowsInv' /\ ClipsInv'
  BY <1>2, StartsOver DEF Deploy, BootState
<1>3. CASE UNCHANGED bootVars
  BY <1>3 DEF bootVars, BootState, RowsInv, ClipsInv, Booted, Settled, RowsAt, Place, Kind
<1> QED BY <1>1, <1>2, <1>3, SyncKeeps, UploadKeeps DEF BootNext, BootStep

\* Once the application serves, the rows of every level are those of its release, and its
\* clips are in the bucket: for any content, any deploys before it and any crashes.
THEOREM ReleaseIsServed == BootSpec => []ServesTheRelease
<1>1. BootState /\ RowsInv /\ ClipsInv => ServesTheRelease
  <2> SUFFICES ASSUME BootState, RowsInv, ClipsInv, Serving, Labelled(Tree[release])
               PROVE  /\ \A lv \in Levels : \A t \in Tables :
                             RowsAt(t, lv) = Rows(Tree[release], lv, t)
                      /\ RowsAt("exams", TEF_LEVEL) = Rows(Tree[release], TEF_LEVEL, "exams")
                      /\ \A lv \in Levels : Clips(Tree[release], lv, "content") \subseteq bucket
    BY DEF ServesTheRelease
  <2>1. \A i \in 1..Len(Steps) : Booted(i) /\ step = 0
    BY DEF Booted, Serving
  <2>2. ASSUME NEW lv, NEW kind, \E i \in 1..Len(Steps) : Steps[i] = <<lv, kind>>
        PROVE  /\ \A t \in Written(kind) : RowsAt(t, lv) = Rows(Tree[release], lv, t)
               /\ Clips(Tree[release], lv, kind) \subseteq bucket
    <3>1. PICK i \in 1..Len(Steps) : Place(i) = lv /\ Kind(i) = kind
      BY <2>2 DEF Place, Kind
    <3> QED BY <2>1, <3>1 DEF RowsInv, ClipsInv, Settled
  <2>3. ASSUME NEW lv \in Levels, NEW t \in Tables PROVE RowsAt(t, lv) = Rows(Tree[release], lv, t)
    <3>1. PICK kind \in KindSet : t \in Written(kind)
      BY WrittenBy
    <3> QED BY <2>2, <3>1, StepsAre
  <2>4. RowsAt("exams", TEF_LEVEL) = Rows(Tree[release], TEF_LEVEL, "exams")
    <3>1. "exams" \in Written("exam")
      BY DEF Written
    <3> QED BY <2>2, <3>1, StepsAre
  <2>5. ASSUME NEW lv \in Levels PROVE Clips(Tree[release], lv, "content") \subseteq bucket
    <3>1. "content" \in KindSet
      BY DEF KindSet
    <3> QED BY <2>2, <3>1, StepsAre
  <2> QED BY <2>3, <2>4, <2>5
<1> QED BY <1>1, BootStarts, BootKeeps, PTL DEF BootSpec

-----------------------------------------------------------------------------
\* What a mock that is served asks for is served

\* A mock is filed under a place of the boot.
MocksPlaced == \A row \in db["exams"] : row.level \in PlaceSet

\* Every step keeps the mocks in their places.
LEMMA MocksStep == BootState /\ MocksPlaced /\ [BootNext]_bootVars => MocksPlaced'
<1> SUFFICES ASSUME BootState, MocksPlaced, [BootNext]_bootVars PROVE MocksPlaced'
  OBVIOUS
<1>0. "exams" \in Tables /\ PlaceSet' = PlaceSet
  BY DEF Tables, PlaceSet, Levels, Files, TEF_LEVEL
<1>1. CASE Sync
  <2>1. PICK i \in 1..Len(Steps) : i = step
    BY <1>1, StepsAre DEF Sync, Booting, BootState
  <2>2. Place(i) \in PlaceSet /\ Label(Tree[release], Place(i), "exams") = Place(i)
    BY StepsAre DEF Place, Label
  <2>3. db'["exams"] = IF "exams" \in Written(Kind(i))
                       THEN Replaced(Tree[release], Place(i), "exams") ELSE db["exams"]
    BY <1>0, <1>1, <2>1 DEF Sync, Place, Kind
  <2>4. \A row \in Replaced(Tree[release], Place(i), "exams") : row.level \in PlaceSet
    BY <2>2 DEF Replaced, Spared, Rows, MocksPlaced
  <2> QED BY <1>0, <2>3, <2>4 DEF MocksPlaced
<1>2. ASSUME db' = db PROVE MocksPlaced'
  BY <1>0, <1>2 DEF MocksPlaced
<1> QED BY <1>1, <1>2 DEF BootNext, BootStep, Upload, Fail, Crash, Deploy, bootVars

\* The application never serves a mock with a section it cannot open: for any content
\* whose levels the script knows, any deploys and any crashes.
THEOREM MocksAreWhole == BootSpec => []MocksResolve
<1>1. BootState /\ RowsInv /\ MocksPlaced => MocksResolve
  <2> DEFINE tree == Tree[release]
  <2> SUFFICES ASSUME BootState, RowsInv, MocksPlaced, Serving, ContentLevels(tree) \subseteq Levels,
                      NEW row \in db["exams"], NEW sec \in Files(row.data[2].sections)
               PROVE  /\ \A sid \in sec.sets :
                             \E s \in db["sets"] : s.id = sid /\ s.data[2].skill = sec.skill
                      /\ \A tid \in sec.tasks : \E t \in db["tasks"] : t.id = tid
    BY DEF MocksResolve
  <2>1. ASSUME NEW lv, NEW kind, \E i \in 1..Len(Steps) : Steps[i] = <<lv, kind>>
        PROVE  /\ Loads(tree, lv, kind)
               /\ \A t \in Written(kind) : t \notin {"units", "lessons", "vocab"} =>
                      RowsAt(t, lv) = Rows(tree, lv, t)
    <3>1. PICK i \in 1..Len(Steps) : Place(i) = lv /\ Kind(i) = kind
      BY <2>1 DEF Place, Kind
    <3>2. Booted(i)
      BY DEF Booted, Serving
    <3> QED BY <3>1, <3>2 DEF RowsInv, Settled
  <2> PICK lv \in PlaceSet : lv = row.level
    BY DEF MocksPlaced
  <2>2. \E i \in 1..Len(Steps) : Steps[i] = <<lv, "exam">>
    BY StepsAre DEF PlaceSet, KindSet
  <2>3. LoadsExams(tree, lv) /\ row \in Rows(tree, lv, "exams")
    BY <2>1, <2>2 DEF Written, Loads, RowsAt
  <2>4. PICK n \in DOMAIN tree[lv].exams : row.data[2] = tree[lv].exams[n]
    BY <2>3 DEF Rows, Objects
  <2>5. SectionResolves(tree, lv, sec)
    BY <2>3, <2>4 DEF LoadsExams, Files
  <2>6. SourceLevels(tree, lv) \subseteq Levels
    BY DEF SourceLevels, PlaceSet
  <2>7. ASSUME NEW src \in Levels
        PROVE  RowsAt("sets", src) = Rows(tree, src, "sets") /\ RowsAt("tasks", src) = Rows(tree, src, "tasks")
    <3>1. "comprehension" \in KindSet /\ "writing" \in KindSet
      BY DEF KindSet
    <3> QED BY <2>1, <3>1, StepsAre DEF Written
  <2>8. ASSUME NEW sid \in sec.sets
        PROVE  \E s \in db["sets"] : s.id = sid /\ s.data[2].skill = sec.skill
    <3>0. PICK src \in Levels : \E s \in Files(tree[src].sets) : s.id = sid /\ s.skill = sec.skill
      BY <2>5, <2>6 DEF SectionResolves
    <3>1. PICK s \in Files(tree[src].sets) : s.id = sid /\ s.skill = sec.skill
      BY <3>0
    <3>2. PICK k \in DOMAIN tree[src].sets : tree[src].sets[k] = s
      BY DEF Files
    <3>3. [id |-> s.id, level |-> src, data |-> <<k, s>>] \in Rows(tree, src, "sets")
      BY <3>2 DEF Rows, Objects, Label
    <3>4. [id |-> s.id, level |-> src, data |-> <<k, s>>] \in db["sets"]
      BY <2>7, <3>3 DEF RowsAt
    <3> QED BY <3>1, <3>4
  <2>9. ASSUME NEW tid \in sec.tasks PROVE \E t \in db["tasks"] : t.id = tid
    <3>1. PICK src \in Levels : tid \in Ids(tree[src].tasks)
      BY <2>5, <2>6 DEF SectionResolves
    <3>2. PICK k \in DOMAIN tree[src].tasks : tree[src].tasks[k].id = tid
      BY <3>1 DEF Ids, Files
    <3>3. [id |-> tid, level |-> src, data |-> <<k, tree[src].tasks[k]>>] \in Rows(tree, src, "tasks")
      BY <3>2 DEF Rows, Objects, Label
    <3>4. [id |-> tid, level |-> src, data |-> <<k, tree[src].tasks[k]>>] \in db["tasks"]
      BY <2>7, <3>3 DEF RowsAt
    <3> QED BY <3>4
  <2> QED BY <2>8, <2>9
<1>2. BootInit => MocksPlaced
  BY DEF BootInit, MocksPlaced, Tables
<1> QED BY <1>1, <1>2, MocksStep, BootStarts, BootKeeps, PTL DEF BootSpec

-----------------------------------------------------------------------------
\* The boot: a release the checker passes

\* The places, in the order of the boot, are those of its steps.
LEMMA PlacesAre ==
    /\ DOMAIN Places = 1..(Len(LEVELS) + 1) /\ Places[Len(LEVELS) + 1] = TEF_LEVEL
    /\ \A j \in 1..Len(LEVELS) : Places[j] = LEVELS[j]
    /\ \A lv \in PlaceSet : \E j \in DOMAIN Places : Places[j] = lv
    /\ \A j \in DOMAIN Places : Places[j] \in PlaceSet
<1>1. LEVELS \in Seq(PlaceSet) /\ TEF_LEVEL \in PlaceSet /\ LEVELS \in Seq(Levels)
  BY ContentBootAssumption DEF Levels, PlaceSet
<1>2. /\ DOMAIN Places = 1..(Len(LEVELS) + 1) /\ Places[Len(LEVELS) + 1] = TEF_LEVEL
      /\ \A j \in 1..Len(LEVELS) : Places[j] = LEVELS[j]
  BY <1>1 DEF Places
<1>3. \A lv \in Levels : \E j \in 1..Len(LEVELS) : LEVELS[j] = lv
  BY <1>1 DEF Levels, Files
<1>4. ASSUME NEW j \in DOMAIN Places PROVE Places[j] \in PlaceSet
  BY <1>1, <1>2
<1>5. ASSUME NEW lv \in PlaceSet PROVE \E j \in DOMAIN Places : Places[j] = lv
  <2>1. CASE lv \in Levels
    BY <1>1, <1>2, <1>3, <2>1
  <2>2. CASE lv = TEF_LEVEL
    BY <1>1, <1>2, <2>2
  <2> QED BY <2>1, <2>2 DEF PlaceSet
<1> QED BY <1>2, <1>4, <1>5

\* When a step runs, the steps of its kind are over for every place before its own.
LEMMA StepOrder ==
    ASSUME NEW n \in 1..Len(Steps)
    PROVE  \E i \in DOMAIN Places :
               /\ Places[i] = Steps[n][1]
               /\ \A h \in 1..(i - 1) : \E m \in 1..(n - 1) : Steps[m] = <<Places[h], Steps[n][2]>>
<1> DEFINE N == Len(LEVELS)
           Nth(i) == <<LEVELS[1 + ((i - 1) \div 5)], Kinds[1 + ((i - 1) % 5)]>>
<1>1. LEVELS \in Seq(Levels) /\ N \in Nat /\ Len(LEVELS) = N
  BY ContentBootAssumption DEF Levels
<1>2. /\ Len(Steps) = 5 * N + 1
      /\ \A i \in 1..(5 * N) : Steps[i] = Nth(i)
      /\ Steps[5 * N + 1] = <<TEF_LEVEL, "exam">>
  BY StepsAre
<1>3. \A h \in 1..N, k \in 1..5 : 5 * (h - 1) + k \in 1..(5 * N) /\ Nth(5 * (h - 1) + k) = <<LEVELS[h], Kinds[k]>>
  BY <1>1
<1> HIDE DEF N, Nth
<1>7. n = 5 * N + 1 \/ n \in 1..(5 * N)
  <2>1. Len(Steps) = 5 * N + 1 /\ N \in Nat
    BY <1>1, <1>2
  <2>2. n \in 1..(5 * N + 1)
    BY <2>1
  <2> QED BY <2>1, <2>2
<1>4. CASE n = 5 * N + 1
  <2>1. N + 1 \in DOMAIN Places /\ Places[N + 1] = Steps[n][1] /\ Steps[n][2] = "exam"
    BY <1>1, <1>2, <1>4, PlacesAre
  <2>2. ASSUME NEW h \in 1..N PROVE \E m \in 1..(n - 1) : Steps[m] = <<Places[h], "exam">>
    <3>1. Kinds[5] = "exam" /\ 5 \in 1..5
      BY DEF Kinds
    <3>2. 5 * (h - 1) + 5 \in 1..(5 * N) /\ Steps[5 * (h - 1) + 5] = <<LEVELS[h], "exam">>
      BY <1>2, <1>3, <3>1
    <3> QED BY <1>1, <1>4, <3>2, PlacesAre
  <2>3. (N + 1) - 1 = N
    BY <1>1
  <2> QED BY <2>1, <2>2, <2>3
<1>5. CASE n \in 1..(5 * N)
  <2> DEFINE j == 1 + ((n - 1) \div 5)
             k == 1 + ((n - 1) % 5)
  <2>1. j \in 1..N /\ k \in 1..5 /\ n = 5 * (j - 1) + k
    BY <1>1, <1>5
  <2> HIDE DEF j, k
  <2>2. Steps[n] = <<LEVELS[j], Kinds[k]>>
    BY <1>2, <1>3, <1>5, <2>1
  <2>3. j \in DOMAIN Places /\ Places[j] = Steps[n][1]
    BY <1>1, <2>1, <2>2, PlacesAre
  <2>4. ASSUME NEW h \in 1..(j - 1) PROVE \E m \in 1..(n - 1) : Steps[m] = <<Places[h], Kinds[k]>>
    <3>1. h \in 1..N /\ 5 * (h - 1) + k \in 1..(n - 1)
      BY <1>1, <2>1
    <3>2. Steps[5 * (h - 1) + k] = <<LEVELS[h], Kinds[k]>>
      BY <1>2, <1>3, <2>1, <3>1
    <3> QED BY <1>1, <3>1, <3>2, PlacesAre
  <2>5. Steps[n][2] = Kinds[k]
    BY <2>2
  <2>6. \A h \in 1..(j - 1) : \E m \in 1..(n - 1) : Steps[m] = <<Places[h], Steps[n][2]>>
    BY <2>4, <2>5
  <2> QED BY <2>3, <2>6
<1> QED BY <1>7, <1>4, <1>5

\* A row comes from a release that was deployed, from a place that has its table.
OriginInv ==
    /\ deployed \in Seq(Releases) /\ release \in Files(deployed)
    /\ \A t \in Tables : \A row \in db[t] : \E r \in Files(deployed), lv \in PlaceSet :
           /\ row \in Rows(Tree[r], lv, t)
           /\ lv \in Levels \/ t = "exams"

\* Every step keeps the origin of the rows.
LEMMA OriginStep == BootState /\ OriginInv /\ [BootNext]_bootVars => OriginInv'
<1> SUFFICES ASSUME BootState, OriginInv, [BootNext]_bootVars PROVE OriginInv'
  OBVIOUS
<1>0. Levels' = Levels /\ PlaceSet' = PlaceSet
  BY DEF PlaceSet, Levels, Files, TEF_LEVEL
<1>1. CASE Sync
  <2> PICK n \in 1..Len(Steps) : n = step
    BY <1>1, StepsAre DEF Sync, Booting, BootState
  <2>1. deployed' = deployed /\ release' = release
    BY <1>1 DEF Sync
  <2>2. ASSUME NEW t \in Tables, NEW row \in db'[t]
        PROVE  \E r \in Files(deployed), lv \in PlaceSet :
                   row \in Rows(Tree[r], lv, t) /\ (lv \in Levels \/ t = "exams")
    <3>1. CASE row \in db[t]
      BY <3>1 DEF OriginInv
    <3>2. CASE row \notin db[t]
      <4>1. t \in Written(Kind(n)) /\ row \in Rows(Tree[release], Place(n), t)
        BY <1>1, <3>2 DEF Sync, Replaced, Spared, Place, Kind
      <4>2. Place(n) \in PlaceSet /\ (Place(n) \in Levels \/ Kind(n) = "exam")
        BY StepsAre DEF Place, Kind
      <4>3. Kind(n) = "exam" => t = "exams"
        BY <4>1 DEF Written
      <4> QED BY <4>1, <4>2, <4>3 DEF OriginInv
    <3> QED BY <3>1, <3>2
  <2> QED BY <1>0, <2>1, <2>2 DEF OriginInv
<1>2. ASSUME NEW r \in Releases, Deploy(r) PROVE OriginInv'
  <2>1. /\ deployed' \in Seq(Releases) /\ Files(deployed') = Files(deployed) \cup {r}
    BY <1>2 DEF Deploy, OriginInv, Files
  <2> QED BY <1>0, <1>2, <2>1 DEF Deploy, OriginInv
<1>3. CASE Upload \/ Fail \/ Crash \/ UNCHANGED bootVars
  <2>1. deployed' = deployed /\ release' = release /\ db' = db
    BY <1>3 DEF Upload, Fail, Crash, bootVars
  <2> QED BY <1>0, <2>1 DEF OriginInv
<1> QED BY <1>1, <1>2, <1>3 DEF BootNext, BootStep

\* In a release the checker passes, with keys apart, no id of a table is in two places.
LEMMA IdsApart ==
    ASSUME NEW tree, CheckGlobal(tree), KeysApart(tree), Complete(tree),
           NEW t \in Tables, NEW a \in PlaceSet, NEW b \in PlaceSet, a # b,
           t = "exams" \/ (a \in Levels /\ b \in Levels)
    PROVE  Ids(Objects(tree[a], t)) \cap Ids(Objects(tree[b], t)) = {}
<1>1. CASE t = "exams"
  BY <1>1 DEF KeysApart, Objects, PlaceSet
<1>2. CASE t = "vocab"
  <2>1. a \in ContentLevels(tree) /\ b \in ContentLevels(tree)
    BY <1>2 DEF Complete
  <2> QED BY <1>2, <2>1 DEF CheckGlobal, Objects
<1>3. CASE t \notin {"exams", "vocab"}
  BY <1>3 DEF KeysApart
<1> QED BY <1>1, <1>2, <1>3

\* A release the checker passes loads at every step.
LEMMA CheckedLoads ==
    ASSUME NEW tree, Checked(tree), Complete(tree), NEW n \in 1..Len(Steps)
    PROVE  Loads(tree, Place(n), Kind(n))
<1>1. Kind(n) \in KindSet /\ Place(n) \in PlaceSet /\ (Place(n) \in Levels \/ Kind(n) = "exam")
  BY StepsAre DEF Place, Kind
<1>2. Place(n) \in Levels => Place(n) \in ContentLevels(tree)
  BY DEF Complete
<1>3. CASE Kind(n) = "exam"
  BY <1>1, <1>2, <1>3 DEF Loads, Checked, PlaceSet
<1>4. CASE Kind(n) # "exam"
  <2>1. CheckLevel(tree, Place(n)) /\ LoadsTasks(tree[Place(n)])
    BY <1>1, <1>2, <1>4 DEF Checked
  <2> QED BY <1>1, <1>4, <2>1 DEF Loads, KindSet, CheckLevel
<1> QED BY <1>3, <1>4

\* What a place loads into a table has keys of its own.
LEMMA LoadedKeyed ==
    ASSUME NEW tree, NEW n \in 1..Len(Steps), Loads(tree, Place(n), Kind(n)), KeysApart(tree),
           NEW t \in Written(Kind(n))
    PROVE  Keyed(Objects(tree[Place(n)], t))
<1>1. Kind(n) \in KindSet /\ (Place(n) \in Levels \/ Kind(n) = "exam")
  BY StepsAre DEF Place, Kind
<1>2. CASE Kind(n) = "content"
  BY <1>1, <1>2 DEF Loads, LoadsContent, LoadsVocab, Written, Objects, KeysApart
<1>3. CASE Kind(n) = "comprehension"
  BY <1>3 DEF Loads, LoadsSets, Written, Objects
<1>4. CASE Kind(n) = "writing"
  BY <1>4 DEF Loads, LoadsTasks, Written, Objects
<1>5. CASE Kind(n) = "topics"
  BY <1>5 DEF Loads, LoadsTopics, Written, Objects
<1>6. CASE Kind(n) = "exam"
  BY <1>6 DEF Loads, LoadsExams, Written, Objects
<1> QED BY <1>1, <1>2, <1>3, <1>4, <1>5, <1>6 DEF KindSet

\* A row has an id of the objects it was made from, and their label.
LEMMA RowOrigin ==
    ASSUME NEW tree, NEW lv, NEW t, NEW row \in Rows(tree, lv, t)
    PROVE  row.id \in Ids(Objects(tree[lv], t)) /\ row.level = Label(tree, lv, t)
BY DEF Rows, Ids, Files

\* A release the checker passes boots whatever was deployed before it, for any content, any
\* deploys and any crashes, unless it has one of the four faults nothing checks.
THEOREM CheckedBoots == BootSpec => []CheckedReleaseBoots
<1>1. BootState /\ RowsInv /\ OriginInv => CheckedReleaseBoots
  <2> DEFINE tree == Tree[release]
  <2> SUFFICES ASSUME BootState, RowsInv, OriginInv, Failing, PassesTheChecker,
                      Complete(tree), KeysApart(tree)
               PROVE  MovedDown
    BY DEF CheckedReleaseBoots
  <2>0. Checked(tree) /\ CheckGlobal(tree) /\ Labelled(tree)
    BY DEF PassesTheChecker, Checked
  <2> PICK n \in 1..Len(Steps) : n = step
    BY StepsAre DEF Failing, Booting, BootState
  <2>1. Loads(tree, Place(n), Kind(n))
    BY <2>0, CheckedLoads
  <2>2. PICK t \in Written(Kind(n)) : Clashes(tree, Place(n), t)
    BY <2>1 DEF Failing, Runs, Place, Kind
  <2>3. Place(n) \in PlaceSet /\ Kind(n) \in KindSet /\ (Place(n) \in Levels \/ Kind(n) = "exam")
    BY StepsAre DEF Place, Kind
  <2>4. t \in Tables /\ (Place(n) \in Levels \/ t = "exams")
    BY <2>2, <2>3, WrittenBy DEF Written
  <2>5. Settled(t)
    BY <2>0 DEF Settled
  <2>6. PICK row \in db[t] : row.level # Place(n) /\ row.id \in Ids(Objects(tree[Place(n)], t))
    <3>1. Label(tree, Place(n), t) = Place(n)
      BY <2>1, <2>5, LabelIsPlace
    <3>2. Keyed(Objects(tree[Place(n)], t))
      BY <2>1, LoadedKeyed
    <3> QED BY <2>2, <3>1, <3>2 DEF Clashes, Spared
  <2>7. PICK i \in DOMAIN Places :
            /\ Places[i] = Place(n)
            /\ \A h \in 1..(i - 1) : \E m \in 1..(n - 1) : Steps[m] = <<Places[h], Kind(n)>>
    BY StepOrder DEF Place, Kind
  <2>8. CASE row.level \in {Places[h] : h \in 1..i}
    <3>0. i \in Nat /\ 1..i = (1..(i - 1)) \cup {i}
      BY <2>7, PlacesAre, StepsAre
    <3>1. PICK h \in 1..(i - 1) : Places[h] = row.level
      BY <3>0, <2>6, <2>7, <2>8
    <3>2. PICK m \in 1..(n - 1) : Steps[m] = <<row.level, Kind(n)>>
      BY <2>7, <3>1
    <3>3. m \in 1..Len(Steps) /\ Booted(m) /\ Place(m) = row.level /\ Kind(m) = Kind(n)
      BY <3>2, StepsAre DEF Booted, Place, Kind
    <3>4. row \in Rows(tree, row.level, t)
      BY <2>5, <3>3 DEF RowsInv, RowsAt
    <3>5. row.id \in Ids(Objects(tree[row.level], t))
      BY <3>4, RowOrigin
    <3>6. row.level \in PlaceSet /\ (row.level \in Levels \/ t = "exams")
      <4>1. Place(m) \in PlaceSet /\ (Place(m) \in Levels \/ Kind(m) = "exam")
        BY <3>3, StepsAre DEF Place, Kind
      <4> QED BY <2>2, <3>3, <4>1 DEF Written
    <3> QED BY <2>0, <2>3, <2>4, <2>6, <3>5, <3>6, IdsApart
  <2>9. CASE row.level \notin {Places[h] : h \in 1..i}
    <3>1. PICK r \in Files(deployed), lv \in PlaceSet :
              row \in Rows(Tree[r], lv, t) /\ (lv \in Levels \/ t = "exams")
      BY <2>4, <2>6 DEF OriginInv
    <3>2. row.id \in Ids(Objects(Tree[r][lv], t)) /\ row.level = Label(Tree[r], lv, t)
      BY <3>1, RowOrigin
    <3>3. CASE r = release
      <4>1. Label(tree, lv, t) = lv
        <5>1. CASE t \in {"units", "lessons", "vocab"}
          <6>1. lv \in Levels /\ tree[lv].path # NoPath
            BY <3>1, <5>1 DEF Complete, ContentLevels
          <6> QED BY <2>0, <5>1, <6>1 DEF Labelled, Label
        <5>2. CASE t \notin {"units", "lessons", "vocab"}
          BY <5>2 DEF Label
        <5> QED BY <5>1, <5>2
      <4>2. lv # Place(n) /\ row.id \in Ids(Objects(tree[lv], t))
        BY <2>6, <3>2, <3>3, <4>1
      <4> QED BY <2>0, <2>3, <2>4, <2>6, <3>1, <4>2, IdsApart
    <3>4. CASE r # release
      <4>1. PICK j \in DOMAIN Places : Places[j] = lv
        BY PlacesAre
      <4>2. row.id \in Ids(Objects(Tree[release][Places[i]], t)) \cap Ids(Objects(Tree[r][Places[j]], t))
        BY <2>6, <2>7, <3>2, <4>1
      <4> QED BY <2>4, <2>9, <3>2, <3>4, <4>1, <4>2 DEF MovedDown
    <3> QED BY <3>3, <3>4
  <2> QED BY <2>8, <2>9
<1>2. BootInit => OriginInv
  <2> SUFFICES ASSUME BootInit PROVE OriginInv
    OBVIOUS
  <2>1. deployed \in Seq(Releases) /\ release \in Files(deployed)
    BY ContentBootAssumption DEF BootInit, Files
  <2> QED BY <2>1 DEF BootInit, OriginInv
<1> QED BY <1>1, <1>2, OriginStep, BootStarts, BootKeeps, PTL DEF BootSpec

-----------------------------------------------------------------------------
\* The path of a release the checker passes can be finished

\* The lessons open after each round, up to as many rounds as there are lessons.
Rounds(p, d) ==
    p[0] = {} /\ \A i \in 1..Len(d.lessons) : p[i] = Opens(d, p[i - 1])

\* The lessons that can be reached are those open after the last round.
LEMMA ReachableIs ==
    ASSUME NEW d, d.lessons \in Seq(Files(d.lessons))
    PROVE  \E p \in [0..Len(d.lessons) -> SUBSET InPath(d)] :
               Rounds(p, d) /\ Reachable(d) = p[Len(d.lessons)]
<1> DEFINE n == Len(d.lessons)
           A == SUBSET InPath(d)
           round == [i \in 1..n |-> [met \in A |-> Opens(d, met)]]
           Eq(f) == f = [i \in 0..n |-> IF i = 0 THEN {} ELSE Opens(d, f[i - 1])]
           ft == CHOOSE f : Eq(f)
<1>1. n \in Nat /\ {} \in A
  OBVIOUS
<1>2. \A met \in A : Opens(d, met) \in A
  BY DEF Opens
<1>3. PICK p \in [0..n -> A] : p[0] = {} /\ \A i \in 1..n : p[i] = round[i][p[i - 1]]
  <2>1. StepsWithin(round, 1..n, A)
    BY <1>2 DEF StepsWithin
  <2> HIDE DEF n, A, round
  <2>2. \E p \in [0..n -> A] : IsWalk(p, n, {}, round)
    BY <1>1, <2>1, WalkExists
  <2> QED BY <2>2 DEF IsWalk
<1>4. \A i \in 1..n : p[i] = Opens(d, p[i - 1])
  <2> SUFFICES ASSUME NEW i \in 1..n PROVE p[i] = Opens(d, p[i - 1])
    OBVIOUS
  <2>1. i - 1 \in 0..n
    BY <1>1
  <2>2. p[i - 1] \in A
    BY <1>3, <2>1
  <2> HIDE DEF n, A
  <2> QED BY <1>3, <2>2
<1>5. Eq(p)
  <2>1. \A i \in 0..n : i = 0 \/ i \in 1..n
    BY <1>1
  <2>2. \A i \in 0..n : p[i] = IF i = 0 THEN {} ELSE Opens(d, p[i - 1])
    BY <1>3, <1>4, <2>1
  <2> HIDE DEF n, A
  <2> QED BY <1>3, <2>2
<1>6. Eq(ft)
  <2> HIDE DEF Eq
  <2> QED BY <1>5
<1>7. Reachable(d) = ft[n]
  BY DEF Reachable
<1> HIDE DEF ft
<1>8. ft[0] = {} /\ \A i \in 1..n : ft[i] = Opens(d, ft[i - 1])
  <2>1. 0 \in 0..n /\ \A i \in 1..n : i \in 0..n /\ i # 0
    BY <1>1
  <2> HIDE DEF n
  <2> QED BY <1>6, <2>1
<1>9. \A i \in 0..n : ft[i] = p[i]
  <2> DEFINE H == {i \in Nat : i <= n => ft[i] = p[i]}
  <2>1. 0 \in H
    BY <1>3, <1>8
  <2>2. ASSUME NEW i \in Nat, i \in H PROVE i + 1 \in H
    <3>1. SUFFICES ASSUME i + 1 <= n PROVE ft[i + 1] = p[i + 1]
      OBVIOUS
    <3>2. i + 1 \in 1..n /\ (i + 1) - 1 = i /\ ft[i] = p[i]
      BY <1>1, <2>2, <3>1
    <3> HIDE DEF n
    <3>3. ft[i + 1] = Opens(d, ft[i]) /\ p[i + 1] = Opens(d, p[i])
      BY <1>4, <1>8, <3>2
    <3> QED BY <3>2, <3>3
  <2>3. Nat \subseteq H
    <3> HIDE DEF H
    <3> QED BY <2>1, <2>2, EveryNatural
  <2> QED BY <1>1, <2>3
<1>10. Reachable(d) = p[n]
  BY <1>1, <1>7, <1>9
<1> QED BY <1>3, <1>4, <1>10 DEF Rounds

\* The lessons of a directory are finitely many, and as many as their ids.
LEMMA LessonsFinite ==
    ASSUME NEW d, d.lessons \in Seq(Files(d.lessons)), Keyed(d.lessons),
           InPath(d) \subseteq Ids(d.lessons)
    PROVE  IsFiniteSet(InPath(d)) /\ Cardinality(InPath(d)) <= Len(d.lessons)
<1>1. IsFiniteSet(1..Len(d.lessons)) /\ DOMAIN d.lessons = 1..Len(d.lessons)
  BY FS_Interval
<1>2. IsFiniteSet(Ids(d.lessons))
  <2>1. Ids(d.lessons) = {d.lessons[i].id : i \in 1..Len(d.lessons)}
    BY <1>1 DEF Ids, Files
  <2>2. IsFiniteSet({d.lessons[i].id : i \in 1..Len(d.lessons)})
    <3> DEFINE f == [i \in 1..Len(d.lessons) |-> d.lessons[i].id]
               T == {d.lessons[i].id : i \in 1..Len(d.lessons)}
    <3>1. f \in Surjection(1..Len(d.lessons), T)
      BY DEF Surjection
    <3> HIDE DEF T
    <3>2. IsFiniteSet(T)
      BY <1>1, <3>1, FS_Surjection
    <3> QED BY <3>2 DEF T
  <2> QED BY <2>1, <2>2
<1>3. IsFiniteSet(InPath(d)) /\ Cardinality(InPath(d)) <= Cardinality(Ids(d.lessons))
  BY <1>2, FS_Subset
<1> QED BY <1>3 DEF Keyed

\* After that many rounds another one opens nothing: each opened a lesson, or was the last.
LEMMA RoundsSuffice ==
    ASSUME NEW d, d.lessons \in Seq(Files(d.lessons)), IsFiniteSet(InPath(d)),
           Cardinality(InPath(d)) <= Len(d.lessons)
    PROVE  Reachable(d) \subseteq InPath(d) /\ Opens(d, Reachable(d)) = Reachable(d)
<1> DEFINE n == Len(d.lessons)
<1>1. PICK p \in [0..n -> SUBSET InPath(d)] : Rounds(p, d) /\ Reachable(d) = p[n]
  BY ReachableIs
<1>2. n \in Nat /\ \A i \in 1..n : p[i] = Opens(d, p[i - 1])
  BY <1>1 DEF Rounds
<1>3. \A i \in 0..n : p[i] \subseteq InPath(d) /\ IsFiniteSet(p[i]) /\ Cardinality(p[i]) \in Nat
  BY <1>1, FS_Subset, FS_CardinalityType
<1> DEFINE H == {i \in Nat : i <= n => Opens(d, p[i]) = p[i] \/ Cardinality(p[i]) >= i}
<1>4. 0 \in H
  BY <1>2, <1>3
<1>5. ASSUME NEW i \in Nat, i \in H PROVE i + 1 \in H
  <2>1. SUFFICES ASSUME i + 1 <= n
                 PROVE  Opens(d, p[i + 1]) = p[i + 1] \/ Cardinality(p[i + 1]) >= i + 1
    OBVIOUS
  <2>2. i + 1 \in 1..n /\ i \in 0..n /\ i + 1 \in 0..n /\ (i + 1) - 1 = i
    BY <1>2, <2>1
  <2> HIDE DEF n
  <2>3. p[i + 1] = Opens(d, p[i])
    BY <1>2, <2>2
  <2>4. CASE Opens(d, p[i]) = p[i]
    BY <2>3, <2>4
  <2>5. CASE Opens(d, p[i]) # p[i]
    <3>1. Cardinality(p[i]) >= i
      BY <1>2, <1>5, <2>1, <2>2, <2>5
    <3>2. p[i] \subseteq p[i + 1] /\ p[i] # p[i + 1]
      BY <2>3, <2>5 DEF Opens
    <3>3. Cardinality(p[i]) < Cardinality(p[i + 1])
      BY <1>3, <2>2, <3>2, FS_Subset
    <3> QED BY <1>3, <2>2, <3>1, <3>3
  <2> QED BY <2>4, <2>5
<1>6. Nat \subseteq H
  <2> HIDE DEF H
  <2> QED BY <1>4, <1>5, EveryNatural
<1>7. n \in H /\ n \in 0..n
  BY <1>2, <1>6
<1> HIDE DEF n
<1>8. CASE Cardinality(p[n]) >= n
  <2>1. p[n] = InPath(d)
    <3>1. Cardinality(p[n]) <= Cardinality(InPath(d)) /\ Cardinality(InPath(d)) \in Nat
      BY <1>3, <1>7, FS_Subset, FS_CardinalityType
    <3>2. Cardinality(p[n]) = Cardinality(InPath(d))
      BY <1>2, <1>3, <1>7, <1>8, <3>1 DEF n
    <3> QED BY <1>3, <1>7, <3>2, FS_Subset
  <2>2. Opens(d, p[n]) = p[n]
    BY <2>1 DEF Opens
  <2> QED BY <1>1, <1>3, <1>7, <2>2
<1>9. CASE Opens(d, p[n]) = p[n]
  BY <1>1, <1>3, <1>7, <1>9
<1> QED BY <1>2, <1>7, <1>8, <1>9

\* The lessons and the requirements of the units with an id.
LessonsIn(d, w) == UNION {Files(v.lessons) : v \in {x \in Files(d.path.units) : x.id = w}}
RequiresIn(d, w) == UNION {v.requires : v \in {x \in Files(d.path.units) : x.id = w}}

\* A lesson that is not open is behind a unit that requires what is not done.
LEMMA LockedBehind ==
    ASSUME NEW d, NEW met, InPath(d) \subseteq Ids(d.lessons), NEW l \in InPath(d),
           ~Gate(d)!IsLessonUnlocked(l, met), NEW w, w = Gate(d)!OwningUnit(l)
    PROVE  /\ w \in Ids(d.path.units)
           /\ \E r \in RequiresIn(d, w) :
                  /\ r \notin met
                  /\ r \in Ids(d.path.units) => ~(LessonsIn(d, r) # {} /\ LessonsIn(d, r) \subseteq met)
<1>1. Gate(d)!LevelUnits(1) = Ids(d.path.units)
  BY DEF Gate!LevelUnits
<1>2. Gate(d)!Owners(l) \subseteq Ids(d.path.units)
  BY <1>1 DEF Gate!Owners
<1>3. Gate(d)!Owners(l) # {} /\ Gate(d)!UnitStatus(w, met) = "locked"
  BY DEF Gate!IsLessonUnlocked
<1>4. w \in Gate(d)!Owners(l)
  BY <1>3 DEF Gate!OwningUnit
<1>5. w \in Ids(d.path.units)
  BY <1>2, <1>4
<1>6. ~Gate(d)!UnlockOk(w, met)
  BY <1>3 DEF Gate!UnitStatus
<1>7. \A u \in Ids(d.path.units) :
          u \in Gate(d)!CompleteUnits(1, met) <=> LessonsIn(d, u) # {} /\ LessonsIn(d, u) \subseteq met
  BY <1>1 DEF Gate!CompleteUnits, LessonsIn
<1>8. Gate(d)!UnlockOk(w, met) <=> RequiresIn(d, w) \subseteq Gate(d)!CompleteUnits(1, met) \cup met
  BY <1>5 DEF Gate!UnlockOk, RequiresIn
<1> QED BY <1>5, <1>6, <1>7, <1>8

\* If no round opens a lesson more and one is missing, units wait for one another.
LEMMA MissingDeadlocks ==
    ASSUME NEW d, ReferencesResolve(d), InPath(d) = Ids(d.lessons),
           \A u \in Files(d.path.units) : u.lessons \in Seq(Files(u.lessons)),
           NEW met \in SUBSET InPath(d), Opens(d, met) = met, met # InPath(d)
    PROVE  Deadlocked(d)
<1> DEFINE units == Files(d.path.units)
           Lacks(r) == /\ r \notin met
                       /\ r \in Ids(d.path.units) =>
                              ~(LessonsIn(d, r) # {} /\ LessonsIn(d, r) \subseteq met)
           S == {u \in units : /\ \E l \in InPath(d) \ met : u.id = Gate(d)!OwningUnit(l)
                               /\ \E r \in u.requires : Lacks(r)}
<1>1. ASSUME NEW l \in InPath(d) \ met PROVE \E u \in S : u.id = Gate(d)!OwningUnit(l)
  <2> DEFINE w == Gate(d)!OwningUnit(l)
  <2>1. ~Gate(d)!IsLessonUnlocked(l, met)
    BY DEF Opens
  <2>2. w \in Ids(d.path.units) /\ \E r \in RequiresIn(d, w) : Lacks(r)
    BY <2>1, LockedBehind
  <2> HIDE DEF w, Lacks
  <2>3. PICK r \in RequiresIn(d, w) : Lacks(r)
    BY <2>2
  <2>4. PICK u \in units : u.id = w /\ r \in u.requires
    BY DEF RequiresIn
  <2>5. u \in S
    BY <2>3, <2>4 DEF w
  <2> QED BY <2>4, <2>5 DEF w
<1>2. S # {} /\ S \in SUBSET units
  BY <1>1
<1>3. InPath(d) \ met \subseteq Behind(d, S)
  BY <1>1 DEF Behind
<1>4. ASSUME NEW u \in S, ~\E v \in units : v.id \in u.requires /\ v.lessons = <<>>
      PROVE  \/ u.requires \cap Behind(d, S) # {}
             \/ \E v \in units : v.id \in u.requires /\ Files(v.lessons) \cap Behind(d, S) # {}
  <2>1. PICK r \in u.requires : Lacks(r)
    OBVIOUS
  <2>2. r \in Ids(d.path.units) \/ r \in Ids(d.lessons)
    BY DEF ReferencesResolve
  <2> HIDE DEF S
  <2>3. CASE r \in InPath(d)
    BY <1>3, <2>1, <2>3
  <2>4. CASE r \in Ids(d.path.units)
    <3>1. PICK v \in units : v.id = r
      BY <2>4 DEF Ids
    <3>2. v.lessons # <<>> /\ v.lessons \in Seq(Files(v.lessons))
      BY <1>4, <3>1
    <3>3. Files(v.lessons) # {}
      <4>1. \A T : \A q \in Seq(T) : q # <<>> => 1 \in DOMAIN q
        OBVIOUS
      <4>2. 1 \in DOMAIN v.lessons
        BY <3>2, <4>1
      <4> QED BY <4>2 DEF Files
    <3>4. LessonsIn(d, r) # {}
      <4>1. Files(v.lessons) \subseteq LessonsIn(d, r)
        BY <3>1 DEF LessonsIn
      <4> QED BY <3>3, <4>1
    <3>5. PICK l \in LessonsIn(d, r) : l \notin met
      BY <2>1, <2>4, <3>4
    <3>6. PICK x \in units : x.id = r /\ l \in Files(x.lessons)
      BY <3>5 DEF LessonsIn
    <3>7. l \in InPath(d) \ met
      BY <3>5, <3>6 DEF InPath
    <3> QED BY <1>3, <3>6, <3>7
  <2> QED BY <2>2, <2>3, <2>4
<1> HIDE DEF S
<1> QED BY <1>2, <1>4 DEF Deadlocked

\* Every lesson of a directory that passes the checker can be reached, unless units wait for
\* one another.
LEMMA PathCanBeFinished ==
    ASSUME NEW tree, NEW lv, CheckLevel(tree, lv), ~Deadlocked(tree[lv]),
           tree[lv].lessons \in Seq(Files(tree[lv].lessons)),
           \A u \in Files(tree[lv].path.units) : u.lessons \in Seq(Files(u.lessons))
    PROVE  Reachable(tree[lv]) = Ids(tree[lv].lessons)
<1> DEFINE d == tree[lv]
<1>1. Keyed(d.lessons) /\ ReferencesResolve(d) /\ PathCoversLessons(d)
  BY DEF CheckLevel, LoadsContent
<1>2. InPath(d) = Ids(d.lessons)
  <2>1. InPath(d) \subseteq Ids(d.lessons)
    BY <1>1 DEF ReferencesResolve, InPath
  <2> QED BY <1>1, <2>1 DEF PathCoversLessons
<1> HIDE DEF d
<1>3. d.lessons \in Seq(Files(d.lessons)) /\ ~Deadlocked(d)
      /\ \A u \in Files(d.path.units) : u.lessons \in Seq(Files(u.lessons))
  BY DEF d
<1>4. Reachable(d) \subseteq InPath(d) /\ Opens(d, Reachable(d)) = Reachable(d)
  BY <1>1, <1>2, <1>3, LessonsFinite, RoundsSuffice
<1>5. Reachable(d) = InPath(d)
  BY <1>1, <1>2, <1>3, <1>4, MissingDeadlocks
<1> QED BY <1>2, <1>5 DEF d

\* Once the application serves a release the checker passes, every level has loaded.
LEMMA ServedLoads ==
    ASSUME BootState, RowsInv, Serving, Checked(Tree[release]), NEW lv \in Levels
    PROVE  /\ CheckLevel(Tree[release], lv)
           /\ Tree[release][lv].lessons \in Seq(Files(Tree[release][lv].lessons))
           /\ \A u \in Files(Tree[release][lv].path.units) : u.lessons \in Seq(Files(u.lessons))
<1>1. PICK i \in 1..Len(Steps) : Place(i) = lv /\ Kind(i) = "content"
  <2>1. "content" \in KindSet
    BY DEF KindSet
  <2>2. PICK i \in 1..Len(Steps) : Steps[i] = <<lv, "content">>
    BY <2>1, StepsAre
  <2> QED BY <2>2 DEF Place, Kind
<1>2. Loads(Tree[release], lv, "content")
  BY <1>1 DEF RowsInv, Booted, Serving
<1>3. lv \in ContentLevels(Tree[release])
  BY <1>2 DEF Loads, LoadsContent, ContentLevels
<1> QED BY <1>3, ContentBootAssumption DEF Checked, BootState, Levels

\* When a release that passes the checker is served its path can be finished, unless units
\* wait for one another; each word is introduced by a lesson that shows it, and each can be
\* heard: for any content, any deploys before it and any crashes.
THEOREM CheckedTeaches == BootSpec => []CheckedReleaseTeaches
<1>1. BootState /\ RowsInv /\ ServesTheRelease => CheckedReleaseTeaches
  <2> DEFINE tree == Tree[release]
             Met(lv) == {l \in Files(tree[lv].lessons) : l.id \in Reachable(tree[lv])}
             Known(lv, l) == {g[3] : g \in {h \in KnownGaps \cup ConjugatedOnly :
                                                h[1] = lv /\ h[2] = l.id}}
  <2> SUFFICES ASSUME BootState, RowsInv, ServesTheRelease, Serving, PassesTheChecker,
                      NEW lv \in Levels
               PROVE  /\ Deadlocked(tree[lv]) \/ Met(lv) = Files(tree[lv].lessons)
                      /\ ~Deadlocked(tree[lv]) => \A row \in RowsAt("vocab", lv) :
                             \E l \in Met(lv) : row.id \in Shown(l) \cup Known(lv, l)
                      /\ \A row \in RowsAt("vocab", lv) : \A n \in ClipNames(row.data[2]) :
                             \E c \in bucket : c.level = lv /\ c.name = n
    BY DEF CheckedReleaseTeaches
  <2>1. CheckLevel(tree, lv)
    BY ServedLoads DEF PassesTheChecker
  <2>2. ~Deadlocked(tree[lv]) => Met(lv) = Files(tree[lv].lessons)
    <3>1. ~Deadlocked(tree[lv]) => Reachable(tree[lv]) = Ids(tree[lv].lessons)
      BY <2>1, ServedLoads, PathCanBeFinished DEF PassesTheChecker
    <3> QED BY <3>1 DEF Ids
  <2>3. RowsAt("vocab", lv) = Rows(tree, lv, "vocab") /\ Clips(tree, lv, "content") \subseteq bucket
    BY DEF ServesTheRelease, PassesTheChecker, Tables
  <2>4. ASSUME NEW row \in RowsAt("vocab", lv)
        PROVE  row.data[2] \in Files(tree[lv].vocab) /\ row.id \in Ids(tree[lv].vocab)
    BY <2>3 DEF Rows, Objects, Files, Ids
  <2>5. ASSUME NEW row \in RowsAt("vocab", lv)
        PROVE  \E l \in Files(tree[lv].lessons) : row.id \in Shown(l) \cup Known(lv, l)
    <3>1. PICK l \in Files(tree[lv].lessons) : row.id \in l.newVocab
      BY <2>1, <2>4 DEF CheckLevel, EveryWordIsTaught
    <3>2. CASE row.id \in MissingWords(lv, l)
      <4>1. <<lv, l.id, row.id>> \in KnownGaps
        BY <2>1, <3>2 DEF CheckLevel, NewVocabIsPracticed
      <4>2. row.id \in Known(lv, l)
        BY <4>1
      <4> QED BY <4>2
    <3>3. CASE row.id \in Shown(l)
      BY <3>3
    <3>4. CASE <<lv, l.id, row.id>> \in ConjugatedOnly
      <4>1. row.id \in Known(lv, l)
        BY <3>4
      <4> QED BY <4>1
    <3> QED BY <3>1, <3>2, <3>3, <3>4 DEF MissingWords
  <2>6. ASSUME NEW row \in RowsAt("vocab", lv), NEW n \in ClipNames(row.data[2])
        PROVE  \E c \in bucket : c.level = lv /\ c.name = n
    <3>1. PICK c \in tree[lv].clips : c.name = n
      BY <2>1, <2>4, <2>6 DEF CheckLevel, AudioPresent
    <3>2. [level |-> lv, name |-> c.name, take |-> c.take] \in bucket
      BY <2>3 DEF Clips
    <3> QED BY <3>1, <3>2
  <2> QED BY <2>2, <2>5, <2>6
<1> QED BY <1>1, BootStarts, BootKeeps, ReleaseIsServed, PTL DEF BootSpec

=============================================================================
