--------------------------- MODULE MCSpeechSession ---------------------------
(***************************************************************************)
(* A small instance of SpeechSession for TLC, and the debriefs that may    *)
(* close a session.  The two share no state; each moves while the other    *)
(* has not started.                                                        *)
(***************************************************************************)
EXTENDS SpeechSession, VocabReview, TLC

CONSTANT letters

OneSpelling == {letters}

UpTo(n, S) == UNION {[1..k -> S] : k \in 0..n}

\* A course of at most two words, a reply of at most two, articles on the single ones.
FewDebriefs ==
    {[content |-> [i \in DOMAIN frs |-> [id |-> i, fr |-> frs[i]]], already |-> already,
      owned |-> owned, words |-> words, limit |-> limit] :
        frs \in UpTo(2, {w \in Words : ~w.article}),
        already \in {{}, {1}}, owned \in {{}, {<<letters, FALSE, FALSE>>}},
        words \in UpTo(2, {w \in Words : w.article => w.join = "none"}),
        limit \in 1..2}

SessionInit == Init /\ DebriefInit

SessionNext ==
    \/ debrief = NoDebrief /\ Next /\ UNCHANGED debrief
    \/ Init /\ DebriefNext /\ UNCHANGED vars

SessionSpec == SessionInit /\ [][SessionNext]_<<vars, debrief>>

Symmetry == Permutations(Reqs)

=============================================================================
