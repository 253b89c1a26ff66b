----------------------------- MODULE BonusCodes -----------------------------
(***************************************************************************)
(* The bonus-code registry and the tier hierarchy of model/server.go and  *)
(* model/bonusCode.go: Booking issues a booking token of a tier,          *)
(* GetBlindSignature (action Booking) trades it for a signature,           *)
(* GetBookingCode trades a signature for a bonus code, and the            *)
(* verifyCodes step of AccessBonusSystem redeems codes for the tiers they *)
(* unlock.  All of these run under Server.Mux: each is one atomic step.   *)
(*                                                                         *)
(* Time is a day counter `now`; a code records the day it was minted.     *)
(* Booking tokens (GenerateToken) and code ids (randomString) are drawn *)
(* from sets Tokens and Ids of model values;                              *)
(* a code marked used (s.BonusCodes[code] = nil) maps to Nil.             *)
(***************************************************************************)
EXTENDS Naturals, FiniteSets, Sequences, TLC
LOCAL INSTANCE Relation
LOCAL INSTANCE FiniteSetsExt

CONSTANTS
    Tiers,          \* bonus level ids
    Lower,          \* tier -> its LowerLevels, in order
    ValidDuration,  \* tier -> ValidDuration in days
    MinNrCodes,     \* tier -> MinNrCodes
    Tokens,         \* the random strings booking tokens are drawn from
    Ids,            \* the random strings code ids are drawn from
    MaxDay,         \* last day the model reaches
    MaxDup,         \* how often one code id may be listed in an access request
    MaxResets,      \* bound on the Reset calls of a behaviour
    Nil             \* a code marked as used

ASSUME /\ Lower \in [Tiers -> Seq(Tiers)]
       /\ ValidDuration \in [Tiers -> Nat]
       /\ MinNrCodes \in [Tiers -> Nat \ {0}]
       /\ MaxResets \in Nat

VARIABLES
    BookingTokens,  \* tier -> (booking token -> used?): ValidTokens of the Booking variant
    BonusCodes,     \* code id -> [tier, createdAt] or Nil
    now,            \* the current day
    drawn,          \* the random strings drawn so far
    minted,         \* tier -> number of codes GetBookingCode minted for it (history)
    redeemed,       \* the codes that counted in a successful verifyCodes (history)
    accesses,       \* per successful verifyCodes: the first reached tier and how
                    \* many distinct codes counted for it (history)
    resets          \* Reset calls so far

codeVars == <<BookingTokens, BonusCodes, now, drawn, minted, redeemed, accesses, resets>>

Code == [tier: Tiers, createdAt: 0..MaxDay]

\* The signatures issued under tier t's Booking key.  RSA signing is
\* deterministic, so a signature is named by the booking token it was
\* bought with, and the signed tokens are exactly the used ones.
BookingSigs(t) == {tok \in DOMAIN BookingTokens[t] : BookingTokens[t][tok]}

\* len(flight.Bookings) for tier t: Booking adds a booking with every token.
Bookings(t) == Cardinality(DOMAIN BookingTokens[t])

Init ==
    /\ BookingTokens = [t \in Tiers |-> << >>]
    /\ BonusCodes = << >>
    /\ now = 0
    /\ drawn = {}
    /\ minted = [t \in Tiers |-> 0]
    /\ redeemed = {}
    /\ accesses = {}
    /\ resets = 0

(***************************************************************************)
(* Code validity (bonusCode.go).                                           *)
(***************************************************************************)

\* isValidForBonusLevel on day `today` (time.Now()): not after createdAt +
\* ValidDuration days.
IsValidForBonusLevel(c, t, today) == today <= c.createdAt + ValidDuration[t]

\* searchValidBonusLevels: depth-first over LowerLevels with a visited set;
\* every visited tier for which the code has not expired is appended to
\* validList.  acc holds validList and visited.
RECURSIVE SearchValidBonusLevels(_, _, _, _), SearchLowerLevels(_, _, _, _, _),
          SearchLowerLevelsUnvisited(_, _, _, _, _)
SearchValidBonusLevels(c, t, today, acc) ==
    SearchLowerLevels(c, Lower[t], 1, today,
        [valid |-> IF IsValidForBonusLevel(c, t, today) THEN Append(acc.valid, t) ELSE acc.valid,
         visited |-> acc.visited \cup {t}])

\* Mutant: a lower level is searched again although it was visited.
SearchLowerLevelsUnvisited(c, lows, i, today, acc) ==
    IF i > Len(lows) THEN acc
    ELSE SearchLowerLevels(c, lows, i + 1, today, SearchValidBonusLevels(c, lows[i], today, acc))

SearchLowerLevels(c, lows, i, today, acc) ==
    IF i > Len(lows) THEN acc
    ELSE SearchLowerLevels(c, lows, i + 1, today,
             IF lows[i] \in acc.visited THEN acc
             ELSE SearchValidBonusLevels(c, lows[i], today, acc))

\* GetValidBonusLevels on day `today`: nothing unless the code is valid for
\* its own tier.
GetValidBonusLevelsOn(c, today) ==
    IF IsValidForBonusLevel(c, c.tier, today)
       THEN SearchValidBonusLevels(c, c.tier, today, [valid |-> << >>, visited |-> {}]).valid
       ELSE << >>

\* Its value for every code and day, evaluated once (a constant).
ValidLevelsTable == [p \in Code \X (0..MaxDay) |-> GetValidBonusLevelsOn(p[1], p[2])]

GetValidBonusLevels(c) == ValidLevelsTable[<<c, now>>]

\* How often tier t occurs in a list of levels.
Occurrences(levels, t) == Cardinality({i \in DOMAIN levels : levels[i] = t})

(***************************************************************************)
(* verifyCodes.  A request lists code ids; `req` maps each listed id to   *)
(* the number of times it is listed.                                      *)
(***************************************************************************)

\* The listed codes that are known and not yet used.
LiveCodes(req) == {c \in DOMAIN req : c \in DOMAIN BonusCodes /\ BonusCodes[c] # Nil}

\* validLevels[level]: every listing of a live code adds one per time
\* GetValidBonusLevels lists the level for it.
CountFor(req, t) ==
    MapThenSumSet(LAMBDA c : req[c] * Occurrences(GetValidBonusLevels(BonusCodes[c]), t),
                  LiveCodes(req))

\* Mutant: s.Hierarchy sorted the other way, fewest LowerLevels first.
PriorityReversed(t) == Cardinality(Tiers) - Len(Lower[t])

\* s.Hierarchy is sorted by the number of LowerLevels, most first.
Priority(t) == Len(Lower[t])

\* The tiers whose MinNrCodes the request reaches.
Reached(req) == {t \in Tiers : CountFor(req, t) >= MinNrCodes[t]}

\* Mutant: s.Hierarchy walked from the fewest LowerLevels up.
FirstReachedLowestFirst(req) ==
    {t \in Reached(req) : \A u \in Reached(req) : Priority(t) <= Priority(u)}

\* The first reached tier of s.Hierarchy (sort.Slice leaves ties in any order).
FirstReached(req) == {t \in Reached(req) : \A u \in Reached(req) : Priority(u) <= Priority(t)}

\* accessible = append(level.LowerLevels, level).
Accessible(t) == {Lower[t][i] : i \in 1..Len(Lower[t])} \cup {t}

\* The codes that counted for at least one tier.
Counted(req) == {c \in LiveCodes(req) : GetValidBonusLevels(BonusCodes[c]) # << >>}

\* The tiers verifyCodes returns for req: one possible result per first tier.
VerifyCodes(req) == {Accessible(t) : t \in FirstReached(req)}

(***************************************************************************)
(* Actions.                                                                *)
(***************************************************************************)

\* Booking: a fresh booking token of tier t and a booking on the flight.
Booking(t, tok) ==
    /\ tok \notin drawn
    /\ BookingTokens' = [BookingTokens EXCEPT ![t] = (tok :> FALSE) @@ @]
    /\ drawn' = drawn \cup {tok}
    /\ UNCHANGED <<BonusCodes, now, minted, redeemed, accesses, resets>>

\* GetBlindSignature(action Booking): a valid booking token is marked used
\* and the blinded token is signed with the tier's Booking key.
GetBookingSignature(t, tok) ==
    /\ tok \in DOMAIN BookingTokens[t] /\ ~BookingTokens[t][tok]
    /\ BookingTokens' = [BookingTokens EXCEPT ![t][tok] = TRUE]
    /\ UNCHANGED <<BonusCodes, now, drawn, minted, redeemed, accesses, resets>>

\* Mutant: the new code id is not recorded as drawn.
GetBookingCodeNoDraw(t, sig, id) ==
    /\ sig \in BookingSigs(t)
    /\ id \notin drawn
    /\ BonusCodes' = (id :> [tier |-> t, createdAt |-> now]) @@ BonusCodes
    /\ minted' = [minted EXCEPT ![t] = @ + 1]
    /\ UNCHANGED <<BookingTokens, now, drawn, redeemed, accesses, resets>>

\* GetBookingCode: a signature that verifies under the Booking key of tier
\* t buys a new code for t, minted today (GenerateNewBonusCode).
GetBookingCode(t, sig, id) ==
    /\ sig \in BookingSigs(t)
    /\ id \notin drawn
    /\ BonusCodes' = (id :> [tier |-> t, createdAt |-> now]) @@ BonusCodes
    /\ drawn' = drawn \cup {id}
    /\ minted' = [minted EXCEPT ![t] = @ + 1]
    /\ UNCHANGED <<BookingTokens, now, redeemed, accesses, resets>>

\* Mutant: verifyCodes returns before it marks the codes as used.
AccessCodesForKeepCodes(req, t) ==
    /\ t \in FirstReached(req)
    /\ accesses' = accesses \cup
          {[tier |-> t, distinct |-> Cardinality({c \in LiveCodes(req) :
                                       Occurrences(GetValidBonusLevels(BonusCodes[c]), t) > 0})]}
    /\ redeemed' = redeemed \cup Counted(req)
    /\ UNCHANGED <<BookingTokens, BonusCodes, now, drawn, minted, resets>>

\* verifyCodes within AccessBonusSystem, when it settles on tier t of the
\* Hierarchy: every listed code id is set to nil and Accessible(t) returned.
AccessCodesFor(req, t) ==
    /\ t \in FirstReached(req)
    /\ accesses' = accesses \cup
          {[tier |-> t, distinct |-> Cardinality({c \in LiveCodes(req) :
                                       Occurrences(GetValidBonusLevels(BonusCodes[c]), t) > 0})]}
    /\ redeemed' = redeemed \cup Counted(req)
    /\ BonusCodes' = [c \in DOMAIN req |-> Nil] @@ BonusCodes
    /\ UNCHANGED <<BookingTokens, now, drawn, minted, resets>>

AccessCodes(req) == \E t \in FirstReached(req) : AccessCodesFor(req, t)

\* Server.Reset: a NewServer's empty code registry, flights without bookings
\* and tiers with new Booking keys, under which no earlier booking token or
\* signature is valid.  Random strings stay drawn; minted counts the codes
\* of the current flights.
CodesReset ==
    /\ resets < MaxResets
    /\ resets' = resets + 1
    /\ BookingTokens' = [t \in Tiers |-> << >>]
    /\ BonusCodes' = << >>
    /\ minted' = [t \in Tiers |-> 0]
    /\ UNCHANGED <<now, drawn, redeemed, accesses>>

\* A day passes.
Tick ==
    /\ now < MaxDay
    /\ now' = now + 1
    /\ UNCHANGED <<BookingTokens, BonusCodes, drawn, minted, redeemed, accesses, resets>>

\* Requests listing known code ids, each at most MaxDup times.
Requests == UNION {[S -> 1..MaxDup] : S \in SUBSET DOMAIN BonusCodes \ {{}}}

(***************************************************************************)
(* Properties.                                                             *)
(***************************************************************************)

TypeOK ==
    /\ BonusCodes \in [DOMAIN BonusCodes -> Code \cup {Nil}]
    /\ DOMAIN BonusCodes \subseteq drawn /\ drawn \subseteq Tokens \cup Ids
    /\ BookingTokens \in [Tiers -> UNION {[S -> BOOLEAN] : S \in SUBSET drawn}]
    /\ now \in 0..MaxDay
    /\ minted \in [Tiers -> Nat]
    /\ redeemed \subseteq drawn
    /\ resets \in 0..MaxResets

\* The tiers reachable from t through LowerLevels, t included.
Reachable(t) ==
    LET R == [p \in Tiers \X Tiers |-> \E i \in 1..Len(Lower[p[1]]) : Lower[p[1]][i] = p[2]]
        C == ReflexiveTransitiveClosure(R, Tiers)
    IN {u \in Tiers : C[t, u]}

\* The spec's validity: a code counts toward tier t iff t is reachable from
\* its tier and today is within t's valid duration from its creation.
SpecValidTiers(c) == {t \in Reachable(c.tier) : now <= c.createdAt + ValidDuration[t]}

\* The recursive depth-first search of GetValidBonusLevels, for a code the
\* spec still deems valid for its own tier, lists exactly the tiers the
\* spec names (the reachable ones for which it has not expired), each once
\* however many paths of LowerLevels lead to it.
SearchIsReachability ==
    \A c \in DOMAIN BonusCodes :
        LET code == BonusCodes[c]
            found == GetValidBonusLevels(code)
        IN code # Nil /\ code.tier \in SpecValidTiers(code) =>
               \A t \in Tiers : Occurrences(found, t) = IF t \in SpecValidTiers(code) THEN 1 ELSE 0

\* No bonus code counts in two successful AccessBonusSystem calls (spec P4):
\* a code that once counted is never again a live entry of s.BonusCodes,
\* because verifyCodes sets every presented code to nil, and a Reset
\* empties the registry.
CodesRedeemedOnce == \A c \in redeemed \cap DOMAIN BonusCodes : BonusCodes[c] = Nil

\* One more listing of code c in request r.
AddListing(r, c) == IF c \in DOMAIN r THEN [r EXCEPT ![c] = @ + 1] ELSE (c :> 1) @@ r

\* Adding codes to a request never removes a tier from what verifyCodes
\* returns (spec P7), whatever order s.Hierarchy puts equal tiers in.
\* Checked for one added listing at a time, which implies it for any.
VerifyCodesMonotone ==
    \A r \in Requests, c \in DOMAIN BonusCodes :
        (c \notin DOMAIN r \/ r[c] < MaxDup) =>
            \A a1 \in VerifyCodes(r), a2 \in VerifyCodes(AddListing(r, c)) : a1 \subseteq a2

\* Every successful access was paid for with MinNrCodes distinct codes of
\* the tier verifyCodes picked (spec P7: the thresholds are "satisfied by
\* the presented codes"; a code proves one booking).  verifyCodes counts a
\* code id once per time it is listed.
AccessNeedsDistinctCodes == \A a \in accesses : a.distinct >= MinNrCodes[a.tier]

\* A live code counts toward exactly the tiers the spec names: those
\* reachable from its tier for which it has not expired (spec section 3),
\* whether or not it has expired for its own tier.
ValidLevelsPerSpec ==
    \A c \in DOMAIN BonusCodes :
        BonusCodes[c] # Nil =>
            \A t \in Tiers : Occurrences(GetValidBonusLevels(BonusCodes[c]), t) > 0
                                <=> t \in SpecValidTiers(BonusCodes[c])

\* Every bonus code of a tier stands for a booking of that tier: no more
\* codes are minted than bookings were made (the booking token proves "one
\* booking happened at this tier").  GetBookingCode accepts a signature
\* any number of times.
CodesBackedByBookings == \A t \in Tiers : minted[t] <= Bookings(t)
=============================================================================
