----------------------------- MODULE MCPlatform ------------------------------
(***************************************************************************)
(* What runs underneath the learners, one part at a time: the boot of the  *)
(* container over AuthoredReleases, and the model router.  Its instance    *)
(* has a cached profile an evaluation has ranked, whose learned order      *)
(* leaves its static targets out and names a provider that is not          *)
(* registered, and an unranked one not cached.  The two share no state,    *)
(* and a behaviour is one of one or the other.                             *)
(***************************************************************************)
EXTENDS ContentBoot, AuthoredReleases, AIRouter

MCStatic == [vocab_enrich |-> <<"glm", "haiku">>, examiner_roleplay |-> <<"haiku">>]
MCLearned == [vocab_enrich |-> <<"qwen", "llama">>, examiner_roleplay |-> <<>>]
MCProfiles == DOMAIN MCStatic
MCTtl == [vocab_enrich |-> 2, examiner_roleplay |-> 0]

VARIABLE part    \* the one that moves

-----------------------------------------------------------------------------

PlatformInit == BootInit /\ Init /\ part \in {"boot", "router"}

PlatformNext ==
    /\ UNCHANGED part
    /\ \/ part = "boot" /\ BootNext /\ UNCHANGED vars
       \/ part = "router" /\ Next /\ UNCHANGED bootVars

PlatformSpec ==
    /\ PlatformInit /\ [][PlatformNext]_<<bootVars, vars, part>>
    /\ WF_bootVars(part = "boot" /\ BootStep)
    /\ \A th \in Threads : WF_vars(Advance(th))

-----------------------------------------------------------------------------
\* When it is the boot that moves: once deploys and crashes are over the application
\* serves in the end, or the boot fails over and over (docker-entrypoint.sh: set -e).  No
\* step hangs and none is repeated for ever without an error.
EveryBootEnds == <>[](part = "router" \/ Serving) \/ []<>(part = "boot" /\ Failing)

=============================================================================
