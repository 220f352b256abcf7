---------------------------- MODULE MCContentBoot ----------------------------
(***************************************************************************)
(* The boot of AuthoredReleases, and what the script says of itself.       *)
(***************************************************************************)
EXTENDS ContentBoot, AuthoredReleases

-----------------------------------------------------------------------------
\* "Idempotent - safe to run on every start/redeploy (syncs upsert by id)"
\* (docker-entrypoint.sh:3): a release that passes the checker, with ids no two of its
\* levels share, never fails to boot, whatever was deployed before it.
RedeployIsSafe ==
    /\ Booting /\ uploads = {}
    /\ PassesTheChecker
    /\ KeysApart(Tree[release])
    => Runs(step)

=============================================================================
