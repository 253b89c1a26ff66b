# TLA+ models of the anonymous bonus system

This directory holds TLA+ models of the Go code in `src/`. They are checked
with TLC. The code implements an anonymous loyalty-reward protocol:

- A customer books, collects bonus codes, and unlocks a tier with
  AccessBonusSystem.
- The customer then claims bonus data again and again through a chain of
  pseudonymous addresses.
- Each claim is unlinkable: it is authorised by a blind RSA signature.
- A client that lost its state can find its place on the chain again from
  the mnemonic (Restore).

## The system's parts and how they interact

| Part | Code | In the models |
|---|---|---|
| Per-tier state: one `BonusActionVariant` per tier and action, holding the maps `SeedToAddress`, `SeedToAccountID`, `AddressToToken`, `AddressToRecovery`, `ValidTokens`, `SeedToAccessAdr`, `PenultimateAdr`, `PkrToAdrUpd` and `PkrToBonusData` | `model/bonusLevel.go` | `BonusActionVariant` |
| Server operations on that state: AccessBonusSystem, GetBlindSignature, SetAddress (with `refreshMaps`), Participate, and the recovery queries CanBeUsedForRecovery, RecoveryTest and GetLastAdrBundle | `model/server.go` | `BonusActionVariant` |
| Wallet client: AccessBonusSystem; Participate (GetBlindSignature → SetAddress → GetBlindSignature → Participate, then `calcNextAddressID`); Restore (GetLastAdrBdl, then a scan of address ids over RestoreWithAddress) | `model/client.go` | `Client` |
| Wallet client: Booking (SendBooking → GetBlindSignature with the Booking key → GetBookingCode) and the code list of AccessBonusSystem | `model/client.go` | `Wallet`, composed with `BonusCodes` |
| Bonus codes and tier hierarchy: Booking, GetBlindSignature with the Booking key, GetBookingCode, `verifyCodes` in AccessBonusSystem, `GetValidBonusLevels`, the Hierarchy order of NewServer, Reset | `model/server.go`, `model/bonusCode.go`, `model/bonusLevel.go` | `BonusCodes` |
| HTTP handlers (gin), the client's REST connection and JSON codec | `blindSignServer/main/handlers`, `model/restConnection.go`, `model/connectionMsg.go` | abstracted to "a call happens, or its request or response is lost" |
| Key derivation, blind signatures, token generation | `crypt/` | abstracted: an address is `<<seed, account, id>>`, a pkr is `<<seed, account, recovery token>>`, a signature verifies iff this tier issued it, tokens are fresh numbers |
| Flights: `AddBooking` | `model/flight.go` | `BonusCodes`, as the number of bookings per tier |
| Server-wide state: `ClientIDs`, Register, GetSystemInformation, Reset (the `system/reset` endpoint) | `model/server.go`, `handlers/hdlSystem.go` | `Server` |
| C library: `chooseMnemonic`, `giveDigits`, AddClient, the Booking and AccessBonusSystem exports | `BlindSignLib/main/main.go` | `BlindSignLib` (pure operators), `Client` (AddClient), `Wallet` (the exports) |
| Statistics, configuration | `model/statistic.go`, `config/` | not modelled: neither changes protocol state |

**Locking.** Every server operation takes the server-wide `Server.Mux`, so
the modelled operations are single atomic steps, with one exception.
The HTTP handler of CanBeUsedForRecovery calls it without `Server.Mux`; it
holds only the per-tier `Mux`. SetAddress takes that per-tier lock for
`refreshMaps` and releases it before `addValidToken`, which takes only
`MuxValidTokens`. The model therefore splits SetAddress into two steps,
`SetAddressRefresh` and `SetAddressFinish`. In the state between them,
CanBeUsedForRecovery can observe the tier.

## Modules

### `BonusActionVariant.tla`: the server's per-tier Claim state

**State.** The VARIABLES are the maps of `BonusActionVariant`. Each Go map
is a TLA+ function whose DOMAIN is the set of present keys.

- `Get` reads a map the way Go does: a missing key gives `Empty`, which is `""`.
- `Put` writes one key.
- Writing `""` leaves the key present. SetAddress's "address already used"
  check depends on exactly this.

Three further things stand for the code's randomness and keys:

- `fresh` is the counter from which `crypt.GenerateToken` and `GetBonusData`
  draw new values. `CanDraw` bounds it by `MaxFresh`.
- `Signed` is the set of signatures issued under the tier's RSA key.
- `TokenToSeed` is left out: it is written and never read.

**Actions.**

- `AccessTier`: the per-tier body of AccessBonusSystem.
- `GetBlindSignature`: marks the token used even when `BlindSign` fails,
  exactly as the code does.
- SetAddress in two steps:
  - `SetAddressRefresh`: the guards of `server.go` 280-320, then
    `RefreshMaps`;
  - `SetAddressFinish`: `addValidToken` and the `PkrToAdrUpd` write.
- `Participate`.

**Pure operators.**

- `CanBeUsedForRecovery`: the five-way classifier.
- `RecoveryTest`: one operator per status, `RecoveryAfterAccess` …
  `RecoveryPenultimate`.
- `GetLastAdrBundle`.

### `Server.tla`: the server-wide state

`Server` EXTENDS `BonusActionVariant` with `ClientIDs` and `keyGen`, the
number of times the tiers' RSA keys were generated anew.

- `Register`: the new id is `len(ClientIDs)`, which is then appended.
- `GetSystemInformation` / `CopyPublic`: what a client learns of a tier;
  of that only the key generation can change.
- `Reset`: the state of `NewServer()`. Every map of the tier is emptied,
  `ClientIDs` too, and `Signed` becomes empty, as no earlier signature
  verifies under the new key. Tokens are random, so `fresh` keeps counting.

### `BlindSignLib.tla`: the C library's mnemonics

`GiveDigits` (RECURSIVE) and `ChooseMnemonic` translate `giveDigits` and
`chooseMnemonic`: the last words of 24 copies of "air" spell the client id
digit by digit. `RefMnemonic` is a reference definition (the id written in
24 decimal digits); the invariant `MnemonicIsDecimalID` of `Client` checks
the two agree for the ids 0..120 and every id Register handed out. So AddClient gives distinct ids distinct mnemonics, and the
same id, handed out again after a Reset, the same one.

### `Client.tla`: the wallet client composed with the server

`Client` EXTENDS `Server` and `BlindSignLib`, so client and server share the
per-tier state. Each seed is one client. `client[s]` holds the client's
state for the tier:

- `account`, the AccountID, from which `Keys[4]` and `RecoveryPK` derive;
- `adrID`, the AddressID;
- `token` and `recovery`, its entries of `BLevelToTokens` and `BLevelToRecovery`;
- the signature held between two calls;
- `pc`, where the client is in Participate;
- `id`, its client id, and `levels`, the key generation of its
  `BonusLevels` copy (`NoLevels` before GetSystemInformation).

`client` is a partial function: a wallet exists once `AddClient` has
created it. `AddClient` is the C library's AddClient: Register, then
`NewClient(id, chooseMnemonic(id), 3)` stored at `clients[id]`, replacing
the wallet an earlier id of the same value left there. `NewClient` seeds
`math/rand` with the id, so its AccountID is a function of the id
(constant `NewAccountID`); the seed is `bip39.NewSeed` of the mnemonic
(constant operator `NewSeed`). `GetSystemInfo` refreshes `levels`;
`GetReset` is the `system/reset` handler. `Unblind` is
`rsablind.Unblind` under the client's copy of the key: after a Reset a
client that did not call GetSystemInformation again gets a signature that
verifies nowhere (`Empty`), and the server has burnt the token.

Participate is five actions: one per server call, and two for SetAddress,
whose critical sections are separate steps:

- `SignAdrUpdate`
- `SetAdr`: the first critical section of SetAddress; pc `inSetAdr`
- `SetAdrDone`: the second critical section and the response
- `SignParticipation`
- `DoParticipate`

**Outcomes of a call.** Each action has the outcomes the code can meet:

- the call succeeds;
- the server rejects it, or the request is lost, and the server state does
  not change;
- the server performs it but the response is lost.

The last two happen only when the constant `Lossy` is TRUE. On an error the
client does what `client.go` does. In particular, Participate's
multi-assignment overwrites `BLevelToRecovery`, `BLevelToTokens` or both
with `""`, and `calcNextAddressID` runs even after a failed address update.

**Crash and Restore.**

- `Crash` is the client losing its state. Like the tests'
  `testClientDeleteHistory`, it keeps only the mnemonic and the account id.
- `RestoreFromMnemonic` is the path the C library's Restore takes:
  `restoreWithAccountIDBounds` sets AccountID and AddressID to 0
  (`AccountZero`) and runs Restore for each tier; with one tier,
  AddressID is the restored one on success and 0 otherwise.
- `Restore` is `client.go` Restore. `RestoreFrom` is its loop over
  RestoreWithAddress, written as a RECURSIVE operator.

**Ghost variables.** `latest[s]` records the token and bonus data the
server issued to seed `s` last. Properties compare what Restore finds
against it. `accepted` maps each signature the server accepted (at
SetAddress's second step, or Participate) to the operation and pkr; it is
the ledger's `spent`.

**Replay.** `SpecDup` adds `Replay(sig)`: a Participate request the server
already accepted is delivered again (a retry after a lost response, or a
proxy). Only the violation run client_replay uses it.

### `ClaimLedger.tla`: what a tier's Claim state promises

An abstract specification written from spec sections 4.3 to 4.5, I4 and
P2, with every map of the server left out. Its state is `head` (seed to the
head of its chain), `anchored` (addresses that have carried a token),
`valid` and `used` tokens, `signed` signatures, `spent` signatures and
`access` (seed to its access address). Its actions are one
atomic step per operation:

- `Anchor` (AccessBonusSystem) moves a head and issues a token;
- `Sign` (GetBlindSignature) spends a valid token, with or without a
  signature;
- `Rotate` (SetAddress) needs a signature and moves a known seed's head to
  an address never anchored, issuing a token;
- `Claim` (Participate) needs a signature and issues a token;
- `Rotate` and `Claim` spend the signature: each pays for one step;
- `Reset` starts over.

`Client.tla` instantiates it as `Ledger` with a refinement mapping:
`valid` and `used` come from `ValidTokens`, `signed` from `Signed`,
`access` from `SeedToAccessAdr` and `spent` from the domain of `accepted`.
While SetAddress is between its two critical sections (`InSetAddress`: the
head's token is not yet in `ValidTokens`), the ledger's head is still the
old one, which refreshMaps kept in `PenultimateAdr`, and the new address
is not yet anchored. So `SetAddressRefresh` is a ledger stutter and
`SetAddressFinish` is `Rotate`. `LedgerRefinement == Ledger!Spec` is a
PROPERTY of the client pass run, and the property client_replay violates.

### `BonusCodes.tla`: the bonus-code registry

**State.**

- `BookingTokens[t]`: the `ValidTokens` map of tier t's Booking variant.
  The signatures issued under the Booking key are the used tokens
  (`BookingSigs`): RSA signing is deterministic, so a signature is named by
  the token it was bought with.
- `BonusCodes`: `Server.BonusCodes`. A code is `[tier, createdAt]`; a code
  set to `nil` by `verifyCodes` is `Nil`.
- `now`: the day. `isValidForBonusLevel` compares `time.Now()` with
  `createdAt + ValidDuration` days; a day counter keeps exactly that order.
- `drawn`: the random strings used so far. Booking tokens
  (`GenerateToken`) are model values from `Tokens`, code ids
  (`randomString`) from `Ids`, so the model can declare symmetry over each.
- `resets`: the Reset calls so far, bounded by `MaxResets`.
- History variables for the properties: `minted` (codes per tier),
  `redeemed` (codes that counted in a successful access) and `accesses`
  (per successful access: the tier picked and how many distinct codes
  counted for it).

**Actions.** `Booking`, `GetBookingSignature`, `GetBookingCode`,
`AccessCodesFor` (the `verifyCodes` part of AccessBonusSystem when it
settles on a tier; its per-tier part is `AccessTier` of
`BonusActionVariant`), `CodesReset` (Server.Reset: an empty registry,
flights without bookings and Booking keys under which no earlier token or
signature is valid) and `Tick`. The registry's actions are composed with
their callers in `Wallet`.

**Pure operators.**

- `GetValidBonusLevels` is the code's recursive depth-first search,
  written as the mutually RECURSIVE operators `SearchValidBonusLevels` and
  `SearchLowerLevels`, on a given day (`GetValidBonusLevelsOn`). It returns
  a sequence, as `validList` is a slice: a tier listed twice would count
  twice. `ValidLevelsTable` holds its value for every code and day; it is
  a constant, so TLC computes it once.
- `CountFor`, `Reached`, `FirstReached` and `VerifyCodes` are `verifyCodes`.
  `FirstReached` takes the reached tiers of highest priority, which is the
  first reached tier of `s.Hierarchy`. When priorities tie, `sort.Slice`
  leaves the order open, so the model allows every tier of the tie.
- A request is a function from listed code ids to how often each is listed
  (1 to `MaxDup`). The order of the list does not change the result.

**Reference definition.** `SpecValidTiers` is the spec's definition of the
tiers a code is valid for. It uses the reflexive transitive closure of
LowerLevels, taken from the community module `Relation`.

### `Wallet.tla`: a wallet's bonus codes among other customers

**State.** `wallet[w]` holds, for wallet w, what `model.Client` keeps of
the code part: the key generation of its `BonusLevels` (`levels`,
`NoLevels` before GetSystemInformation), where a Booking call is (`pc`),
the tier and booking token of that call, whether its signature was
unblinded under the key the server signed with (`sigOk`), the ids of
`c.BonusCodes` (`codes`) and the tiers of `c.BLevelToTokens` (`tiers`).

**Actions.** Client.Booking is three server calls, one step each:
`WalletSendBooking` (the tier must be in `BonusLevels`),
`WalletSign` or `WalletSignFailed` (GetBlindSignature accepts or refuses
the token) and `WalletGetCode` or `WalletGetCodeFailed` (the signature
verifies or not). `WalletGetSystemInfo` refreshes `BonusLevels`;
`WalletAccess` presents every code of `c.BonusCodes` (the list is never
cleared) and adds the tiers `verifyCodes` returns. `Others` is every other
customer: any action of `BonusCodes` on booking tokens, signatures and
codes of their own, a passing day and a Reset. A wallet's tokens and codes
are random strings only it learns, so no one else presents them.

## Runs

| Run | cfg | Expect | Checks |
|---|---|---|---|
| client | `MCClient.cfg` | pass | TypeOK, RestoreReturnsLatest, PkrMapsDisjoint, LedgerRefinement, RecoveryHistoryKept, MnemonicIsDecimalID, with every request and response lossy, a state loss possible at every client step, AddClient, GetSystemInformation and one Reset |
| codes_pass | `MCBonusCodes.cfg` | pass | One wallet among other customers, with days passing and one Reset at any point: WalletTypeOK, SearchIsReachability, CodesRedeemedOnce, VerifyCodesMonotone, WalletAccessCoversReached (an access grants every tier the wallet's codes reach) |
| codes_duplicate | `MCBonusCodesDup.cfg` | violation | AccessNeedsDistinctCodes: one code listed twice unlocks middle |
| codes_expiry | `MCBonusCodesExpiry.cfg` | violation | ValidLevelsPerSpec: a high code one day old counts for no tier |
| codes_replay | `MCBonusCodesReplay.cfg` | violation | CodesBackedByBookings: one booking signature buys many codes |
| client_race | `MCClientRace.cfg` | violation | RecoveryAnswerForUsedToken: CanBeUsedForRecovery between the two critical sections of SetAddress |
| client_revisit | `MCClientRevisit.cfg` | violation | ClaimTokenUsable: calcNextAddressID draws an account already used, and the wallet can claim no more |
| client_rotation | `MCClientRotation.cfg` | violation | Recoverable: after a loss at idle, Restore fails once calcNextAddressID changed the account |
| client_idwindow | `MCClientIdWindow.cfg` | violation | Recoverable: a SetAddress at address id maxAdrID is outside the Restore window |
| client_resume | `MCClientResume.cfg` | violation | Recoverable: Restore between SetAddress and Participate, then a second loss |
| client_lostsig | `MCClientLostSig.cfg` | violation | Recoverable: a loss while the address-update signature is held |
| client_replay | `MCClientReplay.cfg` | violation | LedgerRefinement: a duplicated Participate is accepted twice with one signature |

**What the properties say.**

- **PkrMapsDisjoint.** Spec invariant I5: no pkr is a key of both
  `PkrToAdrUpd` and `PkrToBonusData`. SetAddress blinds the recovery token
  the client holds (after a failed call this is `""`). Participate blinds
  the recovery token SetAddress has just returned. RecoveryTest tells an
  address update from a participation only by the map that holds the pkr.
  The mutant that breaks it is a client that keeps its old recovery token
  after SetAddress.
- **RecoveryHistoryKept.** Spec invariant I2 and property P3, as an
  action property: between two Resets no entry of `AddressToRecovery` is
  removed. An entry is superseded only by an AccessBonusSystem that anchors
  its seed at that very address again, with a valid token. The general
  form ("never superseded") does not hold. AccessBonusSystem does not check
  that the presented address is fresh, and after `calcNextAddressID` has
  drawn an account used before (the client_revisit finding), a later
  access lands on an address already on the chain and replaces its
  recovery token. The mutant that breaks the property is the clean-up the
  spec warns about: `refreshMaps` deleting the old head's entry.
- **LedgerRefinement.** Every step of the server's Claim state is a step
  of `ClaimLedger`. This covers the two halves of SetAddress and every lost
  request or response. So a token pays for one signature at most, only a
  signature moves a head or yields a claim, and a head only moves to an
  address no chain has used. The mutants that break it are a SetAddress
  without the "already used" check (the account rotation of
  calcNextAddressID comes back to an old address) and a refreshMaps that
  does not record the penultimate address. client_replay shows the code
  does not keep it under duplicated requests: Participate verifies a
  signature and never records it, so the same request delivered twice is
  a second claim. The spec's I1 makes tokens single-use and says nothing
  of signatures.
- **MnemonicIsDecimalID.** chooseMnemonic spells every client id up to
  120 in decimal; the mutant collects the digits lowest first.

- **RestoreReturnsLatest.** Whatever Restore finds equals the token and
  bonus data the server issued last since the last Reset: the access token, the token of a
  pending SetAddress, or a Participate's token and data. It holds under
  crashes at any step and under lost responses. The deep part is the
  PenultimateAdr case. There the answer combines the token of the last
  SetAddress with the bonus data of the Participate before it.
- **RecoveryAnswerForUsedToken.** CanBeUsedForRecovery answers
  `RecoveryTest` only for an address whose token was issued and used. The
  spec (section 5) says a request's map mutations are atomic for
  concurrent readers of the same tier. In the code, a reader between
  `refreshMaps` and `addValidToken` sees the new head with a token that is
  not yet valid. It classifies the head as `RecoveryTest` and returns the
  new recovery token. A Restore of the same mnemonic, for example on a
  second device, then sends a pkr of that token to RecoveryTest. Once
  SetAddress has finished, RecoveryTest classifies the address differently,
  finds no entry for that pkr, and the Restore fails.
  RestoreReturnsLatest is stated for states outside that window: RecoveryTest
  takes `Server.Mux`, which SetAddress holds throughout.
- **ClaimTokenUsable.** Between two Participate calls, a wallet that has
  access holds a token the server still accepts. The code breaks this
  without any loss or crash. `calcNextAddressID` draws the new account with
  `rand.Intn(100)` and restarts at address id 0. When the draw repeats an
  earlier account (its first account included), SetAddress refuses the
  address as already used. By then GetBlindSignature has consumed the
  token, so every later Participate fails. With a rotation every 12
  claims, a repeat is more likely than not within about 150 claims.
- **Recoverable.** A client that lost its state gets back a valid token.
  The spec promises this ("recover their state from a mnemonic seed if they
  lose their client"), and the four violation runs show four different ways
  the code breaks it. PROJECT.json lists them as findings:
  1. **Rotation.** Participate computes its pkr with the `RecoveryPK` of
     the account that `calcNextAddressID` has just picked. Restore
     recomputes the pkr with the account of the last SetAddress. The spec
     says a pkr is a function of (recovery token, recovery id, mnemonic)
     only; in the code it also depends on the account.
     `TestClient_RestoreAfter11thParticipation` runs n = 24, 25 and 26,
     which avoids the failing n = 11 and n = 23.
  2. **Id window.** When AddressID becomes maxAdrID, the next address is
     never scanned by Restore.
  3. **Resume.** A Restore in the middle of a cycle resumes from the
     SetAddress token. After a second loss at the same point, Restore fails.
  4. **Lost signature.** The token is used before the signature reaches the
     server. Losing the state in between loses the tier for good.

- **SearchIsReachability.** For a code the spec still deems valid for its
  own tier, the recursive search lists exactly the tiers the spec names,
  each once. The default tiers form a diamond: high reaches low directly
  and through middle. The `visited` map is what keeps low from counting
  twice.
- **CodesRedeemedOnce** (spec P4). A code that counted in a successful
  access is never live again, whatever is presented later.
- **VerifyCodesMonotone** (spec P7). One more listing of a code in a
  request never loses a tier. This is checked for every request over the
  current codes, and for one added listing at a time, which implies it for
  any number.
- **WalletAccessCoversReached** (action property). When an access consumes
  the wallet's codes, the wallet holds tokens for every tier the codes
  reach. `verifyCodes` returns only the first reached tier of
  `s.Hierarchy` with its LowerLevels, so this holds only because the
  Hierarchy puts the tier with most LowerLevels first and the default
  tiers' LowerLevels cover the tiers below.
- Three bonus-code findings:
  1. **Duplicates.** `verifyCodes` counts a code id once for each time it
     is listed. One code listed `MinNrCodes` times unlocks a tier (in the
     code: one middle code listed 3 times).
  2. **Expiry.** `GetValidBonusLevels` returns nothing once the code has
     expired for its own tier. The lower tiers last longer, and the spec
     counts the code for them.
  3. **Replay.** `GetBookingCode` never records a signature as spent, so
     one booking buys any number of codes.

### Bounds

One wallet (`MaxClients = 1`): seeds do not share any map entry, so more
seeds add only interleavings of independent steps. One Reset
(`MaxResets = 1`); after it, a new AddClient gives the same id, so the
same seed, a fresh start. `MCNewSeed` takes the last word of the mnemonic
as the seed: with `MaxClients <= 10` that word is the id's only digit, so
it is as injective as `bip39.NewSeed`. `NewAccountID` is `a2` for id 0
(rand.Intn(100) after rand.Seed(0) is not 0).

| Constant | Why this value |
|---|---|
| `Accounts = {a1, a2}` | `calcNextAddressID`'s random choice can both change and revisit the account. `AccountZero = a1` is account id 0, where RestoreFromMnemonic starts, so accounts are not interchangeable and no symmetry is declared. |
| `MaxAdrID = 2` or `3` (code: 12) | Rotation and the id window happen within a few claims. |
| `MaxFresh = 16` | An access and a claim cycle with losses on the way. |
| `MaxFreshReset = 10` | State constraint `MCResetBound`: after the Reset, behaviours stop once `fresh` passes 10, which leaves an AddClient, an access and a signature under the new key. |
| `MaxAccess = 2` | 1 in the violation runs. Each access needs new bonus codes, so this also bounds AddressID. |

| `BonusCodes`: three tiers of `GetDefaultHBLS` | Durations 0/1/1 days and MinNrCodes 1/2/3 instead of 10/30/50 days and 1/3/5 codes. The orders that matter are kept: high expires first, lower tiers never expire before higher ones, and high needs the fewest codes. |
| `Tokens`, `Ids` = 3 model values each, `MaxDay = 1` | Enough for three codes: three low codes reach low, a wallet can hold a high and a middle code, and a high code can expire while its lower tiers are still valid. Symmetry over each set is sound: they are random strings, and no property names one. |
| `Wallets = {w1}`, `MaxResets = 1` | One wallet against all other customers. The Reset can fall between any two calls of its Booking. The violation runs have no wallet and no Reset. |
| `MaxDup = 1`, `2` in codes_duplicate | A listed id can be repeated, which is what the duplicate finding needs. The pass run leaves repeats to that run. |

The client pass run finishes in about 85 s (582k states). The
codes pass run takes about 60 s (108k states after symmetry).

The codes runs set `CHECK_DEADLOCK FALSE`. The server never stops taking
requests. States without successors are those where all random strings
are drawn, the last day is reached and the Reset is spent, so there is
nothing left to explore.

### Fairness

No run checks a liveness property, so no specification assumes fairness:
`Spec` and `WalletSpec` are `Init /\ [][Next]_vars`. The properties are
invariants, action properties or the safety property LedgerRefinement.
That a Booking call always returns is not checked: it would hold in the
model by fairness of the return steps alone, whatever their guards say.
A paid booking that yields no code after a Reset (client.go:183) is
reached by the model but breaks no stated property.

## Open work

1. GetBlindSignature burns the token when `BlindSign` fails; no stated
   property calls this wrong.
2. CanBeUsedForRecovery and GetLastAdrBundle read `Server.BonusList`
   without `Server.Mux` while Reset replaces it; Reset and those reads are
   atomic in the model. An answer from the old tier is followed by a
   RecoveryTest under `Server.Mux` on the new tier, which fails as it would
   after an atomic Reset, so no outcome is lost.
3. Liveness of Restore after a loss, once the findings are fixed in a
   variant of the model.
4. Restore of several tiers: `restoreWithAccountIDBounds` shares one
   AccountID and AddressID between them; one tier is modelled.

## Not modelled

- Statistics counters and the handlers' `CntReq` counters. Their unlocked
  increments are a data race, but only on counters.
- JSON encoding.
- Flights beyond the number of bookings.
- Configuration.
- The C wrapper beyond AddClient and the Booking and AccessBonusSystem
  exports: each other export calls one client method. A failed Register
  ends the process (`log.Fatal`). The exports read `clients` without the
  mutex AddClient writes it under; Go aborts the process on such a race,
  which is no protocol state.
- The HTTP handlers and the REST connection: each decodes a request, makes
  one call and encodes its answer, and keeps no state of its own.
- Cryptography beyond the abstractions above.
