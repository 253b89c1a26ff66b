------------------------- MODULE BonusActionVariant -------------------------
(***************************************************************************)
(* The server's per-tier Claim state: one BonusActionVariant of a         *)
(* BonusLevel (model/bonusLevel.go, action ActionParticipate) and the     *)
(* Server methods of model/server.go that read and write it:              *)
(* AccessBonusSystem (its per-tier part), GetBlindSignature, SetAddress,  *)
(* Participate, and the queries CanBeUsedForRecovery, RecoveryTest and    *)
(* GetLastAdrBundle.                                                       *)
(*                                                                         *)
(* Every handler of these runs under the server-wide mutex Server.Mux, so *)
(* each server action below is one atomic step.  (The one exception,     *)
(* CanBeUsedForRecovery called directly by its HTTP handler, is the       *)
(* reason SetAddress is split in two steps below.)                                     *)
(*                                                                         *)
(* Data is abstracted: a Go map is a TLA+ function whose DOMAIN is the    *)
(* set of keys present, and a read of a missing key gives the zero value  *)
(* Empty (""), exactly as Go does.  Tokens, recovery tokens, bonus data    *)
(* and signatures are drawn fresh from one counter (crypt.GenerateToken    *)
(* and crypto/rand never repeat in practice).  An address is the triple    *)
(* <<seed, account, address id>> it is derived from, so the I6 check      *)
(* "address fits the seed" holds for every bundle a client builds.  A     *)
(* blind signature is abstracted to its identity: a signature verifies     *)
(* under the tier's Claim key iff this variant issued it (Signed).        *)
(***************************************************************************)
EXTENDS Naturals, FiniteSets, TLC

CONSTANTS
    Seeds,      \* hex(seed) of the wallets that use the tier
    Accounts,   \* wallet account ids a client may derive addresses under
    MaxFresh,   \* bound on the fresh values GenerateToken / rand may produce
    Empty       \* the zero value "" of a Go string (a model value)

ASSUME MaxFresh \in Nat

VARIABLES
    SeedToAddress,      \* seed -> most recent address of its chain
    SeedToAccountID,    \* seed -> account id of that address
    AddressToToken,     \* address -> token issued there ("" once superseded)
    AddressToRecovery,  \* address -> recovery token issued there (never deleted)
    ValidTokens,        \* token -> used?   (absent = unknown)
    SeedToAccessAdr,    \* seed -> address presented at AccessBonusSystem
    PenultimateAdr,     \* seed -> address before the most recent one
    PkrToAdrUpd,        \* pkr -> address set by the SetAddress that sent it
    PkrToBonusData,     \* pkr -> [token, recoveryToken, bonusData] of a Participate
    Signed,             \* signatures issued under this variant's RSA key
    fresh               \* next unused fresh value

serverVars == <<SeedToAddress, SeedToAccountID, AddressToToken, AddressToRecovery,
                ValidTokens, SeedToAccessAdr, PenultimateAdr, PkrToAdrUpd,
                PkrToBonusData, Signed, fresh>>

Fresh == 1..MaxFresh
Value == Fresh \cup {Empty}

\* The address derived from (seed, account, index): crypt.GetAddressFromSeed.
Address(s, a, i) == <<s, a, i>>

\* The blinded recovery token pkr a client sends: the r of a deterministic
\* ECDSA signature over SHA256(recoveryToken) with a key derived from the
\* seed's account node, so it is a function of (seed, account, token).
Pkr(s, a, r) == <<s, a, r>>

\* Go map read: the zero value for a missing key.
Get(m, k) == IF k \in DOMAIN m THEN m[k] ELSE Empty

\* Go map write m[k] = v.
Put(m, k, v) == (k :> v) @@ m

\* crypt.GenerateToken called n times in a row: n fresh values are left.
CanDraw(n) == fresh + n <= MaxFresh + 1

ServerInit ==
    /\ SeedToAddress = << >>
    /\ SeedToAccountID = << >>
    /\ AddressToToken = << >>
    /\ AddressToRecovery = << >>
    /\ ValidTokens = << >>
    /\ SeedToAccessAdr = << >>
    /\ PenultimateAdr = << >>
    /\ PkrToAdrUpd = << >>
    /\ PkrToBonusData = << >>
    /\ Signed = {}
    /\ fresh = 1

(***************************************************************************)
(* Token bookkeeping (bonusLevel.go).                                      *)
(***************************************************************************)

\* isTokenValid: known and not used.
IsTokenValid(t) == t \in DOMAIN ValidTokens /\ ~ValidTokens[t]

\* markTokenAsUsed: ValidTokens[token] = true.
MarkTokenAsUsed(t) == [ValidTokens EXCEPT ![t] = TRUE]

\* addValidToken of a fresh token: it is never already present.
AddValidToken(t) == Put(ValidTokens, t, FALSE)

(***************************************************************************)
(* AccessBonusSystem, the part done for this tier once verifyCodes has     *)
(* returned it among the accessible levels: a fresh token and recovery     *)
(* token are anchored at the presented address.                           *)
(***************************************************************************)
AccessTier(s, a, i) ==
    LET adr == Address(s, a, i)
        t   == fresh
        r   == fresh + 1
    IN
    /\ CanDraw(2)
    /\ SeedToAddress' = Put(SeedToAddress, s, adr)
    /\ SeedToAccountID' = Put(SeedToAccountID, s, a)
    /\ AddressToToken' = Put(AddressToToken, adr, t)
    /\ ValidTokens' = AddValidToken(t)
    /\ AddressToRecovery' = Put(AddressToRecovery, adr, r)
    /\ SeedToAccessAdr' = Put(SeedToAccessAdr, s, adr)
    /\ fresh' = fresh + 2
    /\ UNCHANGED <<PenultimateAdr, PkrToAdrUpd, PkrToBonusData, Signed>>

(***************************************************************************)
(* GetBlindSignature for action Claim.  The token must be valid; the       *)
(* signature is computed and the token marked used.  rsablind.BlindSign    *)
(* fails on a blinded message out of range (wellFormed = FALSE): the error *)
(* is returned but the token is marked used all the same.                  *)
(***************************************************************************)
GetBlindSignatureOk(token) == IsTokenValid(token) /\ CanDraw(1)

GetBlindSignature(token, wellFormed) ==
    /\ GetBlindSignatureOk(token)
    /\ ValidTokens' = MarkTokenAsUsed(token)
    /\ IF wellFormed
          THEN /\ Signed' = Signed \cup {fresh}
               /\ fresh' = fresh + 1
          ELSE UNCHANGED <<Signed, fresh>>
    /\ UNCHANGED <<SeedToAddress, SeedToAccountID, AddressToToken,
                   AddressToRecovery, SeedToAccessAdr, PenultimateAdr,
                   PkrToAdrUpd, PkrToBonusData>>

\* The signature a successful GetBlindSignature hands back.
NewSignature == fresh

(***************************************************************************)
(* SetAddress for action Claim: the seed must be known, the signature      *)
(* valid and the new address never used in AddressToToken.  It runs in two *)
(* critical sections: refreshMaps under the tier's Mux moves the chain     *)
(* head to the new address; then addValidToken, under MuxValidTokens only, *)
(* makes the fresh token valid, and the pkr is mapped to the new address.  *)
(* Server.Mux is held throughout, so only CanBeUsedForRecovery, which      *)
(* takes the tier's Mux alone, can see the state in between.              *)
(***************************************************************************)
\* The token and recovery token a successful SetAddress or Access returns.
NewToken == fresh
NewRecovery == fresh + 1

\* Mutant: the "address was not used before" check left out.
SetAddressOkReused(sig, s, a, i) ==
    /\ s \in DOMAIN SeedToAddress
    /\ sig \in Signed
    /\ CanDraw(2)

SetAddressOk(sig, s, a, i) ==
    /\ s \in DOMAIN SeedToAddress
    /\ sig \in Signed
    /\ Address(s, a, i) \notin DOMAIN AddressToToken
    /\ CanDraw(2)

\* Mutant: the old head not recorded as the penultimate address.
RefreshMapsNoPenultimate(s, adr, a, t, r) ==
    LET oldAdr == Get(SeedToAddress, s) IN
    /\ AddressToToken' = Put(Put(AddressToToken, oldAdr, Empty), adr, t)
    /\ SeedToAddress' = Put(SeedToAddress, s, adr)
    /\ SeedToAccountID' = Put(SeedToAccountID, s, a)
    /\ UNCHANGED PenultimateAdr
    /\ AddressToRecovery' = Put(AddressToRecovery, adr, r)

\* Mutant: the old head's recovery entry cleaned up.
RefreshMapsDropOldRecovery(s, adr, a, t, r) ==
    LET oldAdr == Get(SeedToAddress, s) IN
    /\ AddressToToken' = Put(Put(AddressToToken, oldAdr, Empty), adr, t)
    /\ SeedToAddress' = Put(SeedToAddress, s, adr)
    /\ SeedToAccountID' = Put(SeedToAccountID, s, a)
    /\ PenultimateAdr' = Put(PenultimateAdr, s, oldAdr)
    /\ AddressToRecovery' = Put([k \in DOMAIN AddressToRecovery \ {oldAdr} |-> AddressToRecovery[k]], adr, r)

\* refreshMaps: the chain head of seed s moves to adr (account a) with
\* token t and recovery token r; the old head loses its token and becomes
\* the penultimate address; its recovery token is kept.
RefreshMaps(s, adr, a, t, r) ==
    LET oldAdr == Get(SeedToAddress, s) IN
    /\ AddressToToken' = Put(Put(AddressToToken, oldAdr, Empty), adr, t)
    /\ SeedToAddress' = Put(SeedToAddress, s, adr)
    /\ SeedToAccountID' = Put(SeedToAccountID, s, a)
    /\ PenultimateAdr' = Put(PenultimateAdr, s, oldAdr)
    /\ AddressToRecovery' = Put(AddressToRecovery, adr, r)

\* SetAddress up to and including refreshMaps.
SetAddressRefresh(sig, s, a, i) ==
    /\ SetAddressOk(sig, s, a, i)
    /\ RefreshMaps(s, Address(s, a, i), a, NewToken, NewRecovery)
    /\ fresh' = fresh + 2
    /\ UNCHANGED <<ValidTokens, SeedToAccessAdr, PkrToAdrUpd, PkrToBonusData, Signed>>

\* The rest of SetAddress: addValidToken(token), PkrToAdrUpd[pkr] = adr.
SetAddressFinish(t, pkr, adr) ==
    /\ ValidTokens' = AddValidToken(t)
    /\ PkrToAdrUpd' = Put(PkrToAdrUpd, pkr, adr)
    /\ UNCHANGED <<SeedToAddress, SeedToAccountID, AddressToToken, AddressToRecovery,
                   SeedToAccessAdr, PenultimateAdr, PkrToBonusData, Signed, fresh>>

(***************************************************************************)
(* Participate: the signature must verify; a fresh token, recovery token   *)
(* and bonus data are issued and recorded under the pkr.                   *)
(***************************************************************************)
ParticipateOk(sig) == sig \in Signed /\ CanDraw(3)

\* The bonus data a successful Participate returns.
NewBonusData == fresh + 2

Participate(sig, pkr) ==
    /\ ParticipateOk(sig)
    /\ ValidTokens' = AddValidToken(fresh)
    /\ PkrToBonusData' = Put(PkrToBonusData, pkr,
                             [token |-> fresh, recovery |-> fresh + 1,
                              data |-> fresh + 2])
    /\ fresh' = fresh + 3
    /\ UNCHANGED <<SeedToAddress, SeedToAccountID, AddressToToken,
                   AddressToRecovery, SeedToAccessAdr, PenultimateAdr,
                   PkrToAdrUpd, Signed>>

(***************************************************************************)
(* The recovery classifier CanBeUsedForRecovery (pure query).              *)
(***************************************************************************)
Status == {"RecoveryTestAfterAccess", "RecoveryTestAfterFirstAdrUpd",
           "RecoveryTestPenultimateAdr", "RecoveryTest", "Failure"}

Answer(st, tok) == [status |-> st, token |-> tok]

CanBeUsedForRecovery(s, adrPresented) ==
    LET adr   == Get(SeedToAddress, s)
        token == Get(AddressToToken, adr)
        pen   == Get(PenultimateAdr, s)
    IN
    IF adr = Empty \/ adr # adrPresented THEN Answer("Failure", Empty)
    ELSE IF ~IsTokenValid(token)
         THEN Answer("RecoveryTest", Get(AddressToRecovery, adr))
    ELSE IF Get(SeedToAccessAdr, s) = adr
         THEN Answer("RecoveryTestAfterAccess", token)
    ELSE IF pen = Empty THEN Answer("Failure", Empty)
    ELSE IF pen = Get(SeedToAccessAdr, s)
         THEN Answer("RecoveryTestAfterFirstAdrUpd", Get(AddressToRecovery, pen))
    ELSE Answer("RecoveryTestPenultimateAdr", Get(AddressToRecovery, pen))

(***************************************************************************)
(* RecoveryTest (pure query): re-runs the classifier and answers with the  *)
(* token, recovery token and bonus data the status calls for.             *)
(***************************************************************************)
Found(tok, rec, data) ==
    [ok |-> TRUE, token |-> tok, recovery |-> rec, data |-> data]
NotFound == [ok |-> FALSE, token |-> Empty, recovery |-> Empty, data |-> Empty]

\* RecoveryTestAfterAccess: the recovery token of the access address.
RecoveryAfterAccess(adr) == Found(Empty, Get(AddressToRecovery, adr), Empty)

\* RecoveryTestAfterFirstAdrUpd: the pkr must have been sent with the
\* SetAddress that set adr; its token and recovery token are returned.
RecoveryAfterFirstAdrUpd(adr, pkr) ==
    IF pkr \in DOMAIN PkrToAdrUpd /\ PkrToAdrUpd[pkr] = adr
       THEN Found(Get(AddressToToken, adr), Get(AddressToRecovery, adr), Empty)
       ELSE NotFound

\* Mutant: the used-token case answering with the token stored at the address.
RecoveryFromPayloadHeadToken(adr, pkr) ==
    IF pkr \in DOMAIN PkrToBonusData
       THEN Found(Get(AddressToToken, adr), PkrToBonusData[pkr].recovery,
                  PkrToBonusData[pkr].data)
       ELSE NotFound

\* RecoveryTest: the pkr must index a Participate; its results are returned.
RecoveryFromPayload(adr, pkr) ==
    IF pkr \in DOMAIN PkrToBonusData
       THEN Found(PkrToBonusData[pkr].token, PkrToBonusData[pkr].recovery,
                  PkrToBonusData[pkr].data)
       ELSE NotFound

\* Mutant: the penultimate case answering with the Participate's token.
RecoveryPenultimatePayloadToken(adr, pkr) == RecoveryFromPayload(adr, pkr)

\* RecoveryTestPenultimateAdr: the pkr must index a Participate; the token
\* of the SetAddress that followed it and that Participate's data are returned.
RecoveryPenultimate(adr, pkr) ==
    IF pkr \in DOMAIN PkrToBonusData
       THEN Found(Get(AddressToToken, adr), Get(AddressToRecovery, adr),
                  PkrToBonusData[pkr].data)
       ELSE NotFound

RecoveryTest(s, adr, pkr) ==
    LET st == CanBeUsedForRecovery(s, adr).status IN
    CASE st = "RecoveryTestAfterAccess"      -> RecoveryAfterAccess(adr)
      [] st = "RecoveryTestAfterFirstAdrUpd" -> RecoveryAfterFirstAdrUpd(adr, pkr)
      [] st = "RecoveryTest"                 -> RecoveryFromPayload(adr, pkr)
      [] st = "RecoveryTestPenultimateAdr"   -> RecoveryPenultimate(adr, pkr)
      [] OTHER                               -> NotFound

\* GetLastAdrBundle (pure query).
GetLastAdrBundle(s) ==
    IF s \in DOMAIN SeedToAddress
       THEN [ok |-> TRUE, adr |-> SeedToAddress[s], account |-> SeedToAccountID[s]]
       ELSE [ok |-> FALSE, adr |-> Empty, account |-> Empty]

=============================================================================
