------------------------------ MODULE AIRouter ------------------------------
(***************************************************************************)
(* The model router, app/ai/router: a call of a profile goes through the   *)
(* targets its policy orders until one answers, and a profile that opts in *)
(* is served from the response cache.  Calls run in worker threads and     *)
(* interleave at every cache operation and every provider call.            *)
(*                                                                         *)
(* A request stands for the system prompt, the messages and the            *)
(* parameters.  A provider answers or raises as it likes; one that is not  *)
(* registered raises.  An answer is known by the call it answers and the   *)
(* time it was stored.                                                     *)
(***************************************************************************)
EXTENDS MemoryCache

CONSTANTS
    Threads,      \* worker threads
    Profiles,     \* the task profiles of ai_routing.yaml
    Requests,
    Static,       \* the primary of each profile, and its fallback if it has one
    Learned,      \* the learned order of each profile, empty when there is none
    Registered,   \* the targets whose provider is registered
    Cached,       \* the profiles with cache: true
    Ttl           \* their cache_ttl

Distinct(s) == \A i, j \in DOMAIN s : s[i] = s[j] => i = j

ASSUME RouterAssumption ==
    /\ \A p \in Profiles : Distinct(Static[p]) /\ Distinct(Learned[p])
    /\ \A p \in Profiles : Len(Static[p]) \in 1..2
    /\ \A p \in Profiles : Static[p] \in Seq(Range(Static[p])) /\ Learned[p] \in Seq(Range(Learned[p]))
    /\ Cached \subseteq Profiles
    /\ Ttl \in [Profiles -> Nat]

VARIABLE call    \* what each thread is doing

vars == <<cacheVars, call>>

\* A plausible slip: the learned targets replace the static ones.
Order_LearnedOnly(p) == IF Learned[p] = <<>> THEN Static[p] ELSE Learned[p]

\* The static target of a place, if there is one that the learned order did not rank.
Unranked(p, i) ==
    IF i \in DOMAIN Static[p] /\ Static[p][i] \notin Range(Learned[p]) THEN <<Static[p][i]>> ELSE <<>>

\* BanditPolicy.order: the learned order, then the primary and the fallback if it did not
\* rank them.
Order(p) == Learned[p] \o Unranked(p, 1) \o Unranked(p, 2)

Targets(p) == Range(Static[p]) \cup Range(Learned[p])

Idle == [at |-> "idle"]

Init ==
    /\ CacheInit
    /\ call = [th \in Threads |-> Idle]

Target(th) == Order(call[th].profile)[call[th].next]

\* A plausible slip: one entry for a request, whoever answered it.
Key_NoTarget(th) == <<call[th].profile, call[th].request, "any">>

\* The digest of the profile, the target and the whole request.
Key(th) == <<call[th].profile, call[th].request, Target(th)>>

Entrance(p) == IF p \in Cached THEN "probe" ELSE "ask"

Start(th, p, q) ==
    /\ call[th] = Idle
    /\ call' = [call EXCEPT ![th] =
           [at |-> Entrance(p), profile |-> p, request |-> q, next |-> 1,
            failed |-> {}, since |-> 0, answer |-> {}]]
    /\ UNCHANGED cacheVars

Probe(th) ==
    /\ call[th].at = "probe"
    /\ Get(Key(th))
    /\ call' = IF Hit(Key(th))
               THEN [call EXCEPT ![th].at = "answered", ![th].answer = {EntryOf(Key(th)).value}]
               ELSE [call EXCEPT ![th].at = "ask"]

Asked(th) == <<call[th].profile, call[th].request, Target(th)>>

Completes(th) ==
    /\ call[th].at = "ask"
    /\ Target(th) \in Registered
    /\ call' = IF call[th].profile \in Cached
               THEN [call EXCEPT ![th].at = "store", ![th].since = now]
               ELSE [call EXCEPT ![th].at = "answered",
                                 ![th].answer = {[of |-> Asked(th), born |-> now]}]
    /\ UNCHANGED cacheVars

\* A plausible slip: the loop does not move on.
Following_Same(th) == call[th].next

\* The next target is tried.
Following(th) == call[th].next + 1

Raises(th) ==
    /\ call[th].at = "ask"
    /\ call' = [call EXCEPT
           ![th].failed = @ \cup {Target(th)},
           ![th].next = Following(th),
           ![th].at = IF Following(th) > Len(Order(call[th].profile)) THEN "failed"
                      ELSE Entrance(call[th].profile)]
    /\ UNCHANGED cacheVars

\* Only what a provider answered is stored.
Store(th) ==
    /\ call[th].at = "store"
    /\ LET answer == [of |-> Asked(th), born |-> now] IN
        /\ \E clock \in call[th].since..now :
            Put(Key(th), answer, clock, Ttl[call[th].profile])
        /\ call' = [call EXCEPT ![th].at = "answered", ![th].since = 0, ![th].answer = {answer}]

\* The caller gets the answer or AllProvidersFailedError.
Return(th) ==
    /\ call[th].at \in {"answered", "failed"}
    /\ call' = [call EXCEPT ![th] = Idle]
    /\ UNCHANGED cacheVars

Advance(th) == Probe(th) \/ Completes(th) \/ Raises(th) \/ Store(th) \/ Return(th)

Next ==
    \/ Tick /\ UNCHANGED call
    \/ \E th \in Threads :
        \/ \E p \in Profiles, q \in Requests : Start(th, p, q)
        \/ Advance(th)

Spec == Init /\ [][Next]_vars

\* A thread that can take a step takes one: the pool runs every worker, the cache's lock
\* is held for a moment only, and the adapters' clients give up after a time.
FairSpec == Spec /\ \A th \in Threads : WF_vars(Advance(th))

-----------------------------------------------------------------------------
\* Properties

Answer == [of : Profiles \X Requests \X UNION {Targets(p) : p \in Profiles}, born : 1..MaxTime]

\* The cache is within its bound and has one entry for a key, and a call waits at a
\* target of its profile with at most one answer.
TypeOK ==
    /\ now \in 1..MaxTime
    /\ Len(store) <= MaxEntries
    /\ \A i, j \in DOMAIN store : store[i].key = store[j].key => i = j
    /\ \A e \in Range(store) : e.value \in Answer /\ e.expires \in Nat
    /\ \A th \in Threads : call[th] # Idle =>
        /\ call[th].profile \in Profiles /\ call[th].request \in Requests
        /\ call[th].at # "failed" => call[th].next \in DOMAIN Order(call[th].profile)
        /\ call[th].answer = {} \/ \E a \in Answer : call[th].answer = {a}

\* "identical requests to a cache-enabled profile are served from the application cache":
\* what a probe finds is an answer of the very target it probes for, to the very request,
\* that was stored less than the profile's cache_ttl ago, whoever stored it and however
\* the calls overlapped.
HitsAreFresh ==
    [][\A th \in Threads : call[th].at = "probe" /\ call'[th].at = "answered" =>
        /\ call[th].profile \in Cached
        /\ \A a \in call'[th].answer :
            /\ a.of = Asked(th)
            /\ Ttl[call[th].profile] = 0 \/ now < a.born + Ttl[call[th].profile]]_vars

\* "the YAML fallback stays reachable as a safety net for outages": a call fails only
\* when every target of its profile, ranked by an evaluation or not, was tried and
\* failed, and each target was tried only after those before it.
FailsOnlyAfterAll ==
    \A th \in Threads : call[th] # Idle =>
        /\ call[th].at = "failed" => call[th].failed = Targets(call[th].profile)
        /\ call[th].at # "failed" =>
            call[th].failed = {Order(call[th].profile)[i] : i \in 1..(call[th].next - 1)}

\* Every call of the router comes to an end, whatever the providers do: it walks a
\* finite list and never goes back, so a thread is free again and again.
EveryCallEnds == \A th \in Threads : []<>(call[th] = Idle)

=============================================================================
