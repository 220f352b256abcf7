\* Two requests of every kind in flight, two days, calls of one or two tokens against a
\* budget of two.  Two signups in flight, two addresses, two passwords, an invite for one
\* account that expires, one without a cap that does not, and a static code.
CONSTANTS
    Reqs = {r1, r2}
    Kinds <- EveryKind
    Budget = 2
    MaxTokens = 2
    MaxDay = 2
    MaxSpent = 6
    Addresses = {ann, bob}
    Passwords = {p1, p2}
    Invites = {once, open}
    EnvCodes = {env}
    once = once
    open = open
    MaxUses <- MCMaxUses
    ExpiresAt <- MCExpiresAt
    Unlimited = Unlimited
    Never = Never
    None = None
    Ttl = 1
    MaxTime = 1
    Slots = {s1, s2}
SPECIFICATION LearnerSpec
SYMMETRY Symmetry
INVARIANT ExactWhenSerial
INVARIANT OvershootBounded
INVARIANT NothingBurnt
INVARIANT CapHolds
INVARIANT OneAccountPerAddress
PROPERTY RevokedIsShut
CHECK_DEADLOCK FALSE
