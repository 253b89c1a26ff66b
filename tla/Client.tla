------------------------------- MODULE Client -------------------------------
(***************************************************************************)
(* The wallet client of model/client.go using one bonus tier of the        *)
(* server, composed with the server's per-tier state (BonusActionVariant).*)
(* Each seed is one client.  A client runs Participate as its four calls  *)
(* (GetBlindSignature, SetAddress, GetBlindSignature, Participate), may   *)
(* first run AccessBonusSystem, may lose its state (Crash) and may run    *)
(* Restore, which asks the server for the last address and scans address  *)
(* ids with CanBeUsedForRecovery and RecoveryTest.                         *)
(*                                                                         *)
(* Every call may also fail on the wire (Lossy): the request is lost, so  *)
(* the server does nothing, or the response is lost, so the server has    *)
(* done the call and the client sees an error.  The client's reaction to *)
(* an error is the code's: the assignments it makes before returning.     *)
(***************************************************************************)
EXTENDS Server, BlindSignLib, Integers

CONSTANTS
    MaxAdrID,   \* maxAdrID: address ids per account before calcNextAddressID rotates
    CrashAt,    \* the client steps (pc values) at which a client may lose its state
    Lossy,      \* whether requests and responses may be lost
    MaxAccess,  \* bound on the AccessBonusSystem calls of a client (each needs new codes)
    AccountZero,\* account id 0, where RestoreFromMnemonic starts
    NewAccountID,\* client id -> the AccountID NewClient draws (rand seeded by the id)
    NewSeed(_)  \* bip39.NewSeed(mnemonic, ""): the wallet seed of a mnemonic

ASSUME MaxAdrID \in Nat \ {0} /\ Lossy \in BOOLEAN /\ MaxAccess \in Nat
ASSUME AccountZero \in Accounts
ASSUME NewAccountID \in [0..MaxClients - 1 -> Accounts]
ASSUME \A id \in 0..MaxClients - 1 : NewSeed(ChooseMnemonic(id)) \in Seeds

VARIABLES
    client,     \* seed -> the state of the library's client with that mnemonic
    latest,     \* seed -> the token and bonus data the server last issued to it
    accepted    \* signature -> the request (operation, pkr) the server accepted it with

vars == <<serverVars, systemVars, client, latest, accepted>>

(* pc: "idle" between operations, "setAdr" holding the address-update     *)
(* signature, "inSetAdr" while the server is between the two critical     *)
(* sections of SetAddress, "sig2" holding the participation token, "part" *)
(* holding the participation signature, "lost" after the state was lost.  *)
Pc == {"idle", "setAdr", "inSetAdr", "sig2", "part", "lost"}

\* c.BonusLevels: empty, or the tier as CopyPublic returned it (its key generation).
NoLevels == -1

ClientState ==
    [id: 0..MaxClients - 1, \* ClientID
     levels: {NoLevels} \cup 0..MaxResets,
     account: Accounts,     \* AccountID (and Keys, RecoveryPK derived from it)
     adrID: 0..MaxAdrID + MaxAccess,\* AddressID
     token: Value,          \* BLevelToTokens[tier]
     recovery: Value,       \* BLevelToRecovery[tier]
     pc: Pc,
     sig: Value,            \* the unblinded signature held between two calls
     partToken: Value,      \* participateToken, local to Participate
     accesses: 0..MaxAccess]\* AccessBonusSystem calls made (model bound only)

NoResult == [ok |-> FALSE, id |-> 0, token |-> Empty, recovery |-> Empty, data |-> Empty]

\* NewClient(id, chooseMnemonic(id), 3): empty maps, AddressID 0.
NewClient(id) ==
    [id |-> id, levels |-> NoLevels, account |-> NewAccountID[id], adrID |-> 0,
     token |-> Empty, recovery |-> Empty, pc |-> "idle", sig |-> Empty,
     partToken |-> Empty, accesses |-> 0]

Init ==
    /\ SystemInit
    /\ client = << >>
    /\ latest = [s \in Seeds |-> [token |-> Empty, data |-> Empty]]
    /\ accepted = << >>

\* calcNextAddressID: the next address id, or a random account and id 0
\* with keys and RecoveryPK derived anew once maxAdrID is reached.
CalcNextAddressID(c) ==
    IF c.adrID + 1 < MaxAdrID
       THEN {[c EXCEPT !.adrID = @ + 1]}
       ELSE {[c EXCEPT !.account = a, !.adrID = 0] : a \in Accounts}

\* A call the server does not perform: it rejected it, or the request was lost.
NotApplied(ok) == (~ok \/ Lossy) /\ UNCHANGED serverVars

SetClient(s, c) == client' = [client EXCEPT ![s] = c]

\* History: the server performed request op carrying signature sig and pkr.
Accept(sig, op, pkr) == accepted' = Put(accepted, sig, [op |-> op, pkr |-> pkr])

(***************************************************************************)
(* AccessBonusSystem with codes the server accepts for the tier.          *)
(* AddressID is incremented whether or not the call succeeds.             *)
(***************************************************************************)
Access(s) ==
    LET c == client[s]
        next == [c EXCEPT !.adrID = @ + 1, !.accesses = @ + 1]
    IN
    /\ c.pc = "idle"
    /\ c.accesses < MaxAccess
    /\ \/ /\ AccessTier(s, c.account, c.adrID)
          /\ latest' = [latest EXCEPT ![s] = [token |-> NewToken, data |-> Empty]]
          /\ UNCHANGED accepted
          /\ \/ SetClient(s, [next EXCEPT !.token = NewToken, !.recovery = NewRecovery])
             \/ Lossy /\ SetClient(s, next)
       \/ /\ Lossy
          /\ SetClient(s, next)
          /\ UNCHANGED serverVars
          /\ UNCHANGED <<latest, accepted>>

\* Participate's reaction to an error of AdrUpdate: BLevelToRecovery is
\* overwritten by the "" AdrUpdate returns, then calcNextAddressID.
AdrUpdateFailed(s) ==
    \E c2 \in CalcNextAddressID([client[s] EXCEPT !.recovery = Empty, !.pc = "idle",
                                                  !.sig = Empty]) :
        SetClient(s, c2)

\* rsablind.Unblind under the public key of c.BonusLevels: the server's
\* signature if that is the current key; under a key of an earlier
\* generation the result verifies under no key of the server, which the
\* empty signature stands for.
Unblind(c) == IF c.levels = CopyPublic THEN NewSignature ELSE Empty

\* Participate step 1: getSignatureForToken(BLevelToTokens[tier]).  The tier must be in
\* c.BonusLevels ("bonus level does not exist" otherwise, with no call).
SignAdrUpdate(s) ==
    LET c == client[s] IN
    /\ c.pc = "idle"
    /\ c.levels # NoLevels
    /\ UNCHANGED <<latest, accepted>>
    /\ \/ /\ GetBlindSignature(c.token, TRUE)
          /\ \/ SetClient(s, [c EXCEPT !.pc = "setAdr", !.sig = Unblind(c)])
             \/ Lossy /\ AdrUpdateFailed(s)
       \/ NotApplied(GetBlindSignatureOk(c.token)) /\ AdrUpdateFailed(s)

\* Participate step 2: SetAddress at AddressID with pkr = blind(BLevelToRecovery);
\* the server's first critical section (up to refreshMaps).
SetAdr(s) ==
    LET c == client[s] IN
    /\ c.pc = "setAdr"
    /\ \/ /\ SetAddressRefresh(c.sig, s, c.account, c.adrID)
          /\ latest' = [latest EXCEPT ![s].token = NewToken]
          /\ UNCHANGED accepted
          /\ SetClient(s, [c EXCEPT !.pc = "inSetAdr"])
       \/ /\ NotApplied(SetAddressOk(c.sig, s, c.account, c.adrID))
          /\ AdrUpdateFailed(s)
          /\ UNCHANGED <<latest, accepted>>

\* Mutant: the client keeps its old recovery token after SetAddress.
SetAdrDoneKeepRecovery(s) ==
    LET c == client[s]
        adr == Address(s, c.account, c.adrID)
        t == AddressToToken[adr]
    IN
    /\ c.pc = "inSetAdr"
    /\ SetAddressFinish(t, Pkr(s, c.account, c.recovery), adr)
    /\ UNCHANGED latest
    /\ Accept(c.sig, "SetAddress", Pkr(s, c.account, c.recovery))
    /\ \/ \E c2 \in CalcNextAddressID([c EXCEPT !.partToken = t,
                                            !.pc = "sig2", !.sig = Empty]) :
              SetClient(s, c2)
       \/ Lossy /\ AdrUpdateFailed(s)

\* The server's second critical section of SetAddress and the response:
\* the client keeps token and recovery token, then calcNextAddressID.
SetAdrDone(s) ==
    LET c == client[s]
        adr == Address(s, c.account, c.adrID)
        t == AddressToToken[adr]
    IN
    /\ c.pc = "inSetAdr"
    /\ SetAddressFinish(t, Pkr(s, c.account, c.recovery), adr)
    /\ UNCHANGED latest
    /\ Accept(c.sig, "SetAddress", Pkr(s, c.account, c.recovery))
    /\ \/ \E c2 \in CalcNextAddressID([c EXCEPT !.partToken = t,
                                            !.recovery = AddressToRecovery[adr],
                                            !.pc = "sig2", !.sig = Empty]) :
              SetClient(s, c2)
       \/ Lossy /\ AdrUpdateFailed(s)

\* Participate step 3: getSignatureForToken(participateToken).
SignParticipation(s) ==
    LET c == client[s]
        failed == SetClient(s, [c EXCEPT !.pc = "idle", !.partToken = Empty])
    IN
    /\ c.pc = "sig2"
    /\ UNCHANGED <<latest, accepted>>
    /\ \/ /\ GetBlindSignature(c.partToken, TRUE)
          /\ \/ SetClient(s, [c EXCEPT !.pc = "part", !.sig = Unblind(c),
                                       !.partToken = Empty])
             \/ Lossy /\ failed
       \/ NotApplied(GetBlindSignatureOk(c.partToken)) /\ failed

\* Participate step 4: Participate with pkr = blind(BLevelToRecovery) under
\* the current RecoveryPK; token and recovery token are overwritten by the
\* result, "" on error.
DoParticipate(s) ==
    LET c == client[s]
        pkr == Pkr(s, c.account, c.recovery)
        failed == SetClient(s, [c EXCEPT !.pc = "idle", !.sig = Empty,
                                         !.token = Empty, !.recovery = Empty])
    IN
    /\ c.pc = "part"
    /\ \/ /\ Participate(c.sig, pkr)
          /\ latest' = [latest EXCEPT ![s] = [token |-> NewToken, data |-> NewBonusData]]
          /\ Accept(c.sig, "Participate", pkr)
          /\ \/ SetClient(s, [c EXCEPT !.pc = "idle", !.sig = Empty,
                                       !.token = NewToken, !.recovery = NewRecovery])
             \/ Lossy /\ failed
       \/ NotApplied(ParticipateOk(c.sig)) /\ failed /\ UNCHANGED <<latest, accepted>>

(***************************************************************************)
(* Restore.                                                                *)
(***************************************************************************)

\* getAdrIDFromString: the id of the address under the client's account
\* keys, maxAdrID when it is none of ids 0 .. maxAdrID-1.
GetAdrIDFromString(adr, acc) ==
    IF adr[2] = acc /\ adr[3] < MaxAdrID THEN adr[3] ELSE MaxAdrID

\* The loop of Restore over RestoreWithAddress from address id `id` on:
\* a Failure status moves on to the next id, a failed RecoveryTest ends
\* the restore with its error, a passed one ends it with the found values.
RECURSIVE RestoreFrom(_, _, _)
RestoreFrom(s, acc, id) ==
    IF id >= MaxAdrID THEN NoResult
    ELSE
    LET adr == Address(s, acc, id)
        st  == CanBeUsedForRecovery(s, adr)
        afterAccess == st.status = "RecoveryTestAfterAccess"
        rt  == RecoveryTest(s, adr, IF afterAccess THEN Empty ELSE Pkr(s, acc, st.token))
    IN
    IF st.status = "Failure" THEN RestoreFrom(s, acc, id + 1)
    ELSE IF ~rt.ok THEN NoResult
    ELSE [ok |-> TRUE, id |-> id,
          token |-> IF afterAccess THEN st.token ELSE rt.token,
          recovery |-> rt.recovery, data |-> rt.data]

\* What Restore finds for the client of seed s in the current server state.
RestoreOutcome(s) ==
    LET b == GetLastAdrBundle(s) IN
    IF b.ok THEN RestoreFrom(s, b.account, GetAdrIDFromString(b.adr, b.account))
            ELSE NoResult

\* Restore: GetLastAdrBdl, take over the server's account id, scan.  On
\* success token, recovery token and AddressID = id + 1 are set.
Restore(s) ==
    LET c == client[s]
        b == GetLastAdrBundle(s)
        o == RestoreOutcome(s)
    IN
    /\ c.pc \in {"idle", "lost"}
    /\ IF ~b.ok THEN UNCHANGED client
       ELSE IF o.ok
       THEN SetClient(s, [c EXCEPT !.account = b.account, !.token = o.token,
                                   !.recovery = o.recovery, !.adrID = o.id + 1,
                                   !.pc = "idle"])
       ELSE SetClient(s, [c EXCEPT !.account = b.account])
    /\ UNCHANGED <<serverVars, latest, accepted>>

\* RestoreFromMnemonic for the one tier, as the C library's Restore calls
\* it: GetSystemInformation fills c.BonusLevels (on an error it returns
\* with nothing changed), then restoreWithAccountIDBounds sets AccountID and
\* AddressID to 0 and runs Restore for each tier of c.BonusLevels; AddressID
\* is the restored one only if Restore succeeded.
RestoreFromMnemonic(s) ==
    LET c == client[s]
        b == GetLastAdrBundle(s)
        o == RestoreOutcome(s)
    IN
    /\ c.pc \in {"idle", "lost"}
    /\ SetClient(s, [
         CASE ~b.ok -> [c EXCEPT !.account = AccountZero, !.adrID = 0]
           [] o.ok  -> [c EXCEPT !.account = b.account, !.token = o.token,
                                 !.recovery = o.recovery, !.adrID = o.id + 1,
                                 !.pc = "idle"]
           [] OTHER -> [c EXCEPT !.account = b.account, !.adrID = 0]
         EXCEPT !.levels = GetSystemInformation])
    /\ UNCHANGED <<serverVars, latest, accepted>>

\* The client loses everything but its mnemonic (and account id), and asks
\* for the system information again (testClientDeleteHistory); that call
\* may fail on the wire, leaving c.BonusLevels empty.
Crash(s) ==
    /\ client[s].pc \in CrashAt
    /\ \E lv \in {GetSystemInformation} \cup (IF Lossy THEN {NoLevels} ELSE {}) :
          SetClient(s, [client[s] EXCEPT !.pc = "lost", !.adrID = 0, !.token = Empty,
                        !.recovery = Empty, !.sig = Empty, !.partToken = Empty,
                        !.levels = lv])
    /\ UNCHANGED <<serverVars, latest, accepted>>

\* GetSystemInfo of the library: Client.GetSystemInformation replaces
\* c.BonusLevels by the tiers the server returns (a failed call changes
\* nothing).  Only between two operations of the client.
GetSystemInfo(s) ==
    /\ client[s].pc \in {"idle", "lost"}
    /\ SetClient(s, [client[s] EXCEPT !.levels = GetSystemInformation])
    /\ UNCHANGED <<serverVars, latest, accepted>>

(***************************************************************************)
(* The library's AddClient and the test endpoint system/reset.             *)
(***************************************************************************)

\* AddClient, under the library's mtx: registerClient.Register() takes the
\* next client id from the server, then NewClient(clientID,
\* chooseMnemonic(clientID), 3) is stored as clients[clientID], replacing
\* the client a Register before the last Reset handed the same id.  A
\* failed Register ends the host (log.Fatal) and is not followed.  The
\* replaced client is taken to be between two operations.
AddClient ==
    LET id == NewClientID
        s  == NewSeed(ChooseMnemonic(id))
    IN
    /\ s \in DOMAIN client => client[s].pc \in {"idle", "lost"}
    /\ Register
    /\ client' = Put(client, s, NewClient(id))
    /\ UNCHANGED <<latest, accepted>>

\* GetReset -> Server.Reset, under Server.Mux: so never while a SetAddress
\* is between its two critical sections.  The clients keep what they hold.
GetReset ==
    /\ \A s \in DOMAIN client : client[s].pc # "inSetAdr"
    /\ Reset
    /\ latest' = [s \in Seeds |-> [token |-> Empty, data |-> Empty]]
    /\ accepted' = << >>
    /\ UNCHANGED client

\* One step of the library client of seed s.
ClientStep(s) ==
        \/ Access(s)
        \/ SignAdrUpdate(s)
        \/ SetAdr(s)
        \/ SetAdrDone(s)
        \/ SignParticipation(s)
        \/ DoParticipate(s)
        \/ Restore(s)
        \/ RestoreFromMnemonic(s)
        \/ Crash(s)
        \/ GetSystemInfo(s)

Next ==
    \/ \E s \in DOMAIN client : ClientStep(s) /\ UNCHANGED systemVars
    \/ AddClient
    \/ GetReset

Spec == Init /\ [][Next]_vars

\* A Participate request the server already performed is delivered again
\* (a duplicate on the wire); its response reaches no client.
Replay(sig) ==
    /\ accepted[sig].op = "Participate"
    /\ Participate(sig, accepted[sig].pkr)
    /\ UNCHANGED <<systemVars, client, latest, accepted>>

\* The system with duplicated Participate requests.
NextDup == Next \/ \E sig \in DOMAIN accepted : Replay(sig)

SpecDup == Init /\ [][NextDup]_vars

(***************************************************************************)
(* Properties.                                                             *)
(***************************************************************************)

TypeOK ==
    /\ DOMAIN client \subseteq Seeds
    /\ client \in [DOMAIN client -> ClientState]
    /\ ClientIDs = [i \in 1..Len(ClientIDs) |-> i - 1]
    /\ latest \in [Seeds -> [token: Value, data: Value]]
    /\ fresh \in 1..MaxFresh + 1
    /\ Signed \subseteq Fresh
    /\ ValidTokens \in [DOMAIN ValidTokens -> BOOLEAN]
    /\ DOMAIN ValidTokens \subseteq Fresh
    /\ DOMAIN accepted \subseteq Signed

\* Whatever Restore finds for a wallet (CanBeUsedForRecovery, then
\* RecoveryTest for the status found, client.go Restore) is the token and
\* the bonus data the server issued to it last: the access token before any
\* address update, the SetAddress token while a participation is pending,
\* the Participate token and data once it is done.
\* RecoveryTest takes Server.Mux, so it never runs inside a SetAddress.
RestoreReturnsLatest ==
    \A s \in DOMAIN client :
        client[s].pc # "inSetAdr" /\ RestoreOutcome(s).ok =>
            /\ RestoreOutcome(s).token = latest[s].token
            /\ RestoreOutcome(s).data = latest[s].data

\* A wallet that has lost its state, once it has access to the tier, gets
\* a token it can go on with from Restore (client.go Restore): "the
\* customer can recover their state from a mnemonic seed if they lose
\* their client", the recovery token "letting the holder prove chain
\* continuity after a crash".
Recoverable ==
    \A s \in DOMAIN client :
        client[s].pc = "lost" /\ s \in DOMAIN SeedToAddress =>
            /\ RestoreOutcome(s).ok
            /\ IsTokenValid(RestoreOutcome(s).token)

\* Between two Participate calls a wallet that has access holds a token the
\* server still accepts, so it can go on claiming: "then repeatedly claim
\* reward payloads".  calcNextAddressID draws the new account at random.
ClaimTokenUsable ==
    \A s \in DOMAIN client :
        client[s].pc = "idle" /\ client[s].token # Empty => IsTokenValid(client[s].token)

\* CanBeUsedForRecovery answers RecoveryTest (the token of the address was
\* used for a participation) only for an address whose token was issued
\* and used: every map mutation of a request is atomic with respect to
\* concurrent readers of the same tier (spec section 5).
RecoveryAnswerForUsedToken ==
    \A s \in Seeds :
        LET adr == Get(SeedToAddress, s) IN
        CanBeUsedForRecovery(s, adr).status = "RecoveryTest" =>
            Get(AddressToToken, adr) \in DOMAIN ValidTokens

\* A pkr the client sends with SetAddress never indexes a Participate's
\* payload, and the other way round (spec invariant I5), whichever calls
\* failed: SetAddress blinds the recovery token the client holds, while
\* Participate blinds the one SetAddress has just returned.  RecoveryTest
\* tells the two cases apart only by which map holds the pkr.
PkrMapsDisjoint == DOMAIN PkrToAdrUpd \cap DOMAIN PkrToBonusData = {}

\* The recovery history is kept (spec invariant I2, property P3): between
\* two Resets no entry of AddressToRecovery is removed, and an entry is
\* superseded only by an AccessBonusSystem that anchors its seed at that
\* very address again (with a valid token); refreshMaps of a SetAddress
\* keeps the old head's entry and writes only the fresh address.  Restore
\* walks these entries back from the head.
RecoveryHistoryKept ==
    [][keyGen' = keyGen =>
         \A adr \in DOMAIN AddressToRecovery :
             /\ adr \in DOMAIN AddressToRecovery'
             /\ AddressToRecovery'[adr] # AddressToRecovery[adr] =>
                    /\ Get(SeedToAccessAdr', adr[1]) = adr
                    /\ (IsTokenValid(Get(AddressToToken, adr)))']_vars

\* chooseMnemonic (main.go) spells every client id up to MaxCheckedID, and
\* every id Register has handed out, as that id in decimal, padded with
\* "air" (digit 0) to 24 words.  So two client ids of AddClient never share
\* a mnemonic, hence never a seed, a chain of the tier or a recovery key;
\* only the same id, handed out again by Register after a Reset, does.
MnemonicIsDecimalID ==
    /\ DecimalUpToMaxCheckedID
    /\ \A i \in DOMAIN ClientIDs : ChooseMnemonic(ClientIDs[i]) = RefMnemonic(ClientIDs[i])

(***************************************************************************)
(* Refinement of the tier's promise (ClaimLedger).  While SetAddress is   *)
(* between its two critical sections the new head carries a token that is *)
(* not yet valid; the ledger's head is then still the old one, which      *)
(* refreshMaps kept as the penultimate address, and the new address is    *)
(* not yet anchored.  So refreshMaps is a ledger stutter and addValidToken *)
(* is the ledger's Rotate.                                                 *)
(***************************************************************************)
InSetAddress(s) == Get(AddressToToken, SeedToAddress[s]) \notin DOMAIN ValidTokens

LedgerHead == [s \in DOMAIN SeedToAddress |->
                  IF InSetAddress(s) THEN Get(PenultimateAdr, s) ELSE SeedToAddress[s]]

Ledger == INSTANCE ClaimLedger WITH
    Addresses <- {Address(s, a, i) : s \in Seeds, a \in Accounts, i \in 0..MaxAdrID + MaxAccess},
    Values <- Fresh,
    head <- LedgerHead,
    access <- SeedToAccessAdr,
    anchored <- DOMAIN AddressToToken \
                    {SeedToAddress[s] : s \in {x \in DOMAIN SeedToAddress : InSetAddress(x)}},
    valid <- {t \in DOMAIN ValidTokens : ~ValidTokens[t]},
    used <- {t \in DOMAIN ValidTokens : ValidTokens[t]},
    signed <- Signed,
    spent <- DOMAIN accepted

\* Every step of the server's Claim state, the two halves of SetAddress and
\* every lost request or response included, is a step of the ledger: a
\* token is spent on one signature at most, a signature moves a head or
\* yields a claim once (Participate and SetAddress only verify it), and a
\* head only ever moves to an unused address.
LedgerRefinement == Ledger!Spec
=============================================================================
