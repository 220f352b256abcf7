------------------------------ MODULE MCAccounts ------------------------------
(***************************************************************************)
(* What app/users and app/usage keep of a learner, one part at a time:     *)
(* the daily meter of UsageMeter, and the accounts and invites of          *)
(* Accounts.  They share no state; each moves while the other has not      *)
(* started.                                                                *)
(***************************************************************************)
EXTENDS UsageMeter, Accounts, TLC

CONSTANTS once, open

\* An invite for one account that expires, and one without a cap that does not.
MCMaxUses == once :> 1 @@ open :> Unlimited
MCExpiresAt == once :> 1 @@ open :> Never

EveryKind == AllKinds

LearnerInit == Init /\ AuthInit

LearnerNext ==
    \/ AuthInit /\ Next /\ UNCHANGED authVars
    \/ Init /\ AuthNext /\ UNCHANGED vars

LearnerSpec == LearnerInit /\ [][LearnerNext]_<<vars, authVars>>

Symmetry == Permutations(Reqs) \cup Permutations(Slots) \cup Permutations(Addresses)

=============================================================================
