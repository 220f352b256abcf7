------------------------------ MODULE Accounts -------------------------------
(***************************************************************************)
(* Signing up with an invite and signing in (app/api/auth.py, app/users,   *)
(* scripts/make_invite.py).                                                *)
(*                                                                         *)
(* A signup reads the invite in autocommit, hashes the password, and then  *)
(* commits the new user and the invite's count in one transaction; the     *)
(* count is the one it read, plus one.  The command line mints and revokes *)
(* invites from a process of its own.                                      *)
(***************************************************************************)
EXTENDS Integers, FiniteSets

CONSTANTS
    Slots,       \* request slots
    Addresses,   \* e-mail addresses, up to blanks and case
    Passwords,
    Invites,     \* tokens the command line may mint
    EnvCodes,    \* INVITE_CODES: static codes, always valid
    MaxUses,     \* the cap of an invite, or Unlimited
    ExpiresAt,   \* the time an invite expires, or Never
    Unlimited, Never, None,
    Ttl,         \* how long a session token is valid
    MaxTime      \* bound: the clock

ASSUME AccountsAssumption ==
    /\ Ttl \in Nat /\ MaxTime \in Nat
    /\ Invites \cap EnvCodes = {}
    /\ Unlimited \notin Nat /\ Never \notin Nat
    /\ MaxUses \in [Invites -> Nat \cup {Unlimited}]
    /\ ExpiresAt \in [Invites -> Nat \cup {Never}]
    /\ None \notin Addresses \cup Passwords \cup Invites

\* What a client types for an address: as stored, or with blanks and capitals.
Spellings == Addresses \X {"plain", "typed"}

VARIABLES
    users,     \* users by e-mail as stored: the password and the code signed up with
    invites,   \* invites by token, None before it is minted
    sessions,  \* session tokens handed out, and the password each was given for
    now,
    signups,   \* what each request slot is doing
    crossed    \* history: invites held by two signups at once

authVars == <<users, invites, sessions, now, signups, crossed>>

User == [password : Passwords, via : Invites \cup EnvCodes]
NoUser == [password |-> None, via |-> None]

Invite == [minted : BOOLEAN, active : BOOLEAN, uses : Nat]
NoInvite == [minted |-> FALSE, active |-> FALSE, uses |-> 0]

\* A session token names the user; "knows" is the password it was given for.
Session == [user : Spellings, exp : Nat, knows : Passwords]

\* "read" is the count of the invite as loaded.
NoSignup == [at |-> "idle", email |-> None, password |-> None, code |-> None, read |-> 0]
Signup == [at : {"hashed"}, email : Spellings, password : Passwords,
           code : Invites \cup EnvCodes, read : Nat]

AuthInit ==
    /\ users = [e \in Spellings |-> NoUser]
    /\ invites = [i \in Invites |-> NoInvite]
    /\ sessions = {}
    /\ now = 0
    /\ signups = [r \in Slots |-> NoSignup]
    /\ crossed = {}

\* NormalizedEmail: stripped and lower-cased; the slip leaves it as typed.
Normalized_AsTyped(e) == e

Normalized(e) == <<e[1], "plain">>

Registered(e) == users[e] # NoUser

\* is_redeemable, and slips that forget the kill switch or count one too far.
Redeemable_Revoked(i) ==
    /\ invites[i].minted
    /\ ExpiresAt[i] # Never => now < ExpiresAt[i]
    /\ MaxUses[i] # Unlimited => invites[i].uses < MaxUses[i]

Redeemable_OneMore(i) ==
    /\ invites[i].minted /\ invites[i].active
    /\ ExpiresAt[i] # Never => now < ExpiresAt[i]
    /\ MaxUses[i] # Unlimited => invites[i].uses <= MaxUses[i]

Redeemable(i) ==
    /\ invites[i].minted /\ invites[i].active
    /\ ExpiresAt[i] # Never => now < ExpiresAt[i]
    /\ MaxUses[i] # Unlimited => invites[i].uses < MaxUses[i]

\* Signups that have loaded an invite and not committed yet.
Holders(i) == {r \in Slots : signups[r].at = "hashed" /\ signups[r].code = i}

Accounts(i) == {e \in Spellings : users[e].via = i}

Token(e, p) == [user |-> e, exp |-> now + Ttl, knows |-> p]

-----------------------------------------------------------------------------
\* The command line

\* create_invite, under a token nobody has seen.
Mint(i) ==
    /\ ~invites[i].minted
    /\ invites' = [invites EXCEPT ![i] = [minted |-> TRUE, active |-> TRUE, uses |-> 0]]
    /\ UNCHANGED <<users, sessions, now, signups, crossed>>

\* _revoke writes the one column it changes.
Revoke(i) ==
    /\ invites[i].minted /\ invites[i].active
    /\ invites' = [invites EXCEPT ![i].active = FALSE]
    /\ UNCHANGED <<users, sessions, now, signups, crossed>>

-----------------------------------------------------------------------------
\* Requests

\* signup up to the commit: a static code is taken as it is, any other one must be
\* redeemable, else 403 and nothing has happened.
StartSignup(r, e, p, c) ==
    /\ signups[r] = NoSignup
    /\ c \in Invites => Redeemable(c)
    /\ signups' = [signups EXCEPT ![r] =
         [at |-> "hashed", email |-> Normalized(e), password |-> p, code |-> c,
          read |-> IF c \in Invites THEN invites[c].uses ELSE 0]]
    /\ crossed' = IF c \in Invites /\ Holders(c) # {} THEN crossed \cup {c} ELSE crossed
    /\ UNCHANGED <<users, invites, sessions, now>>

\* The INSERT of the user and the UPDATE of the invite, in one transaction.  The slip
\* counts a use the e-mail of which turns out to be taken.
Counted(r) == IF signups[r].code \in Invites
              THEN [invites EXCEPT ![signups[r].code].uses = signups[r].read + 1]
              ELSE invites

CommitSignup_Burns(r) ==
    LET e == signups[r].email IN
    /\ signups[r].at = "hashed"
    /\ users' = IF Registered(e) THEN users
                ELSE [users EXCEPT ![e] = [password |-> signups[r].password, via |-> signups[r].code]]
    /\ sessions' = IF Registered(e) THEN sessions ELSE sessions \cup {Token(e, signups[r].password)}
    /\ invites' = Counted(r)
    /\ signups' = [signups EXCEPT ![r] = NoSignup]
    /\ UNCHANGED <<now, crossed>>

CommitSignup(r) ==
    LET e == signups[r].email IN
    /\ signups[r].at = "hashed"
    /\ ~Registered(e)
    /\ users' = [users EXCEPT ![e] = [password |-> signups[r].password, via |-> signups[r].code]]
    /\ sessions' = sessions \cup {Token(e, signups[r].password)}
    /\ invites' = Counted(r)
    /\ signups' = [signups EXCEPT ![r] = NoSignup]
    /\ UNCHANGED <<now, crossed>>

\* IntegrityError: the transaction is rolled back, 409.  A request that dies before its
\* commit leaves as much behind.
Taken(r) ==
    /\ signups[r].at = "hashed"
    /\ signups' = [signups EXCEPT ![r] = NoSignup]
    /\ UNCHANGED <<users, invites, sessions, now, crossed>>

\* login: 401 unless the normalized e-mail has a user with this password.
Login(e, p) ==
    /\ Registered(Normalized(e))
    /\ users[Normalized(e)].password = p
    /\ sessions' = sessions \cup {Token(Normalized(e), p)}
    /\ UNCHANGED <<users, invites, now, signups, crossed>>

\* get_current_user: a token that has not expired, of a user that exists.
Accepts(s) == now < s.exp /\ Registered(s.user)

Tick ==
    /\ now < MaxTime
    /\ now' = now + 1
    /\ UNCHANGED <<users, invites, sessions, signups, crossed>>

AuthNext ==
    \/ \E i \in Invites : Mint(i) \/ Revoke(i)
    \/ \E r \in Slots :
         \/ \E e \in Spellings, p \in Passwords, c \in Invites \cup EnvCodes : StartSignup(r, e, p, c)
         \/ CommitSignup(r)
         \/ Taken(r)
    \/ \E e \in Spellings, p \in Passwords : Login(e, p)
    \/ Tick

AuthSpec == AuthInit /\ [][AuthNext]_authVars

-----------------------------------------------------------------------------
\* Every variable stays in its set.
AuthTypeOK ==
    /\ users \in [Spellings -> User \cup {NoUser}]
    /\ invites \in [Invites -> Invite]
    /\ sessions \subseteq Session
    /\ now \in Nat
    /\ signups \in [Slots -> Signup \cup {NoSignup}]
    /\ crossed \subseteq Invites

\* "so a duplicate-email rollback (below) doesn't burn a use" (auth.py:83): an invite
\* never counts more uses than accounts were made through it, whoever overlaps.
NothingBurnt == \A i \in Invites : invites[i].uses <= Cardinality(Accounts(i))

\* "under ``max_uses``" (users/models.py:27): as long as no two signups held an invite at
\* once, its count is the number of accounts made through it and within its cap; only a
\* static code, or an invite of two signups that overlapped, lets more in.
CapHolds ==
    \A i \in Invites \ crossed :
        /\ invites[i].uses = Cardinality(Accounts(i))
        /\ MaxUses[i] # Unlimited => Cardinality(Accounts(i)) <= MaxUses[i]

\* An account can be made through an invite only by a signup that looked at it while it
\* was active: with none in flight, a revoked invite lets nobody in any more.
RevokedIsShut ==
    [][\A i \in Invites :
         ~invites[i].active /\ Holders(i) = {} => Accounts(i)' = Accounts(i) /\ Holders(i)' = {}]_authVars

\* "otherwise `Bob@x.com` and `bob@x.com` become two accounts and login can't find a
\* differently-cased signup" (auth.py:28): an address has one account, which every
\* spelling of it finds, and whoever holds a session of it knows its password.
OneAccountPerAddress ==
    /\ \A e, f \in Spellings : Registered(e) /\ Registered(f) /\ e[1] = f[1] => e = f
    /\ \A e, f \in Spellings : Registered(e) /\ e[1] = f[1] => Registered(Normalized(f))
    /\ \A s \in sessions : Accepts(s) => users[s.user].password = s.knows

=============================================================================
