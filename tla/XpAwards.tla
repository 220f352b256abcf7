------------------------------ MODULE XpAwards ------------------------------
(***************************************************************************)
(* What the experience points promise, apart from how they are stored: an  *)
(* award is paid at most once, and it is paid exactly when it is recorded  *)
(* as paid.  An award is one lesson, one comprehension set, one exam       *)
(* attempt, or one source capped to a bonus a day on one day.              *)
(***************************************************************************)
EXTENDS Naturals

CONSTANTS
    Awards,
    Worth       \* the xp each award is worth

VARIABLES
    paid,       \* the awards paid so far
    xp          \* the learner's total

Init ==
    /\ paid = {}
    /\ xp = 0

Pay(a) ==
    /\ a \notin paid
    /\ paid' = paid \cup {a}
    /\ xp' = xp + Worth[a]

Next == \E a \in Awards : Pay(a)

Spec == Init /\ [][Next]_<<paid, xp>>

=============================================================================
