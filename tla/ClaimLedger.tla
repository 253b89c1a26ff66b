---------------------------- MODULE ClaimLedger ----------------------------
(***************************************************************************)
(* What the Claim state of one bonus tier promises its wallets (spec      *)
(* sections 4.3 to 4.5, invariant I4 and property P2), with the server's  *)
(* maps abstracted away: each seed has the head of its address chain,     *)
(* every token is valid until it is spent on exactly one blind signature, *)
(* and a signature is the only thing that lets a wallet move its head or  *)
(* claim a reward, once.  Each operation is a single atomic step here.    *)
(***************************************************************************)
CONSTANTS
    Seeds,      \* the wallets using the tier
    Addresses,  \* the addresses they can derive
    Values      \* tokens and signatures (one space of fresh values)

VARIABLES
    head,       \* seed -> current head of its chain (partial)
    access,     \* seed -> the address its last access anchored (partial)
    anchored,   \* addresses that have carried a token of some chain
    valid,      \* tokens issued and not yet spent
    used,       \* tokens spent on a blind signature
    signed,     \* signatures issued
    spent       \* signatures that have paid for a head move or a claim

vars == <<head, access, anchored, valid, used, signed, spent>>

Init ==
    /\ head = [s \in {} |-> s]
    /\ access = head
    /\ anchored = {}
    /\ valid = {}
    /\ used = {}
    /\ signed = {}
    /\ spent = {}

IsNew(t) == t \in Values \ (valid \cup used)

\* One new valid token is issued.
Issue == \E t \in valid' \ valid : IsNew(t) /\ valid' = valid \cup {t}

\* Extend or update the partial function f with s |-> adr.
Anchored(f, s, adr) == [x \in DOMAIN f \cup {s} |-> IF x = s THEN adr ELSE f[x]]

\* AccessBonusSystem: the presented address becomes the seed's head and
\* its access address, and carries a new valid token.
Anchor(s, adr) ==
    /\ Issue
    /\ head' = Anchored(head, s, adr)
    /\ access' = Anchored(access, s, adr)
    /\ anchored' = anchored \cup {adr}
    /\ UNCHANGED <<used, signed, spent>>

\* GetBlindSignature: a valid token is spent; a signature is issued unless
\* the blinded message was malformed.
Sign(t) ==
    /\ t \in valid
    /\ valid' = valid \ {t}
    /\ used' = used \cup {t}
    /\ \/ signed' = signed
       \/ \E g \in signed' \ signed : g \in Values /\ signed' = signed \cup {g}
    /\ UNCHANGED <<head, access, anchored, spent>>

\* A signature pays for one step: it is spent by it.
Spend(g) == g \in signed \ spent /\ spent' = spent \cup {g}

\* SetAddress: with a signature not spent before, a known seed's head
\* moves to an address
\* no chain has used (I4), which carries a new valid token.
Rotate(s, adr, g) ==
    /\ s \in DOMAIN head
    /\ Spend(g)
    /\ adr \notin anchored
    /\ Issue
    /\ head' = [head EXCEPT ![s] = adr]
    /\ anchored' = anchored \cup {adr}
    /\ UNCHANGED <<access, used, signed>>

\* Participate: with a signature not spent before, a new valid token is issued.
Claim(g) ==
    /\ Spend(g)
    /\ Issue
    /\ UNCHANGED <<head, access, anchored, used, signed>>

\* The test endpoint system/reset: "the only operation that ever
\* deliberately discards state"; the tier starts over with a new key.
Reset == Init'

Next ==
    \/ \E s \in Seeds, adr \in Addresses : Anchor(s, adr)
    \/ \E s \in Seeds, adr \in Addresses, g \in signed : Rotate(s, adr, g)
    \/ \E t \in valid : Sign(t)
    \/ \E g \in signed : Claim(g)
    \/ Reset

Spec == Init /\ [][Next]_vars
=============================================================================
