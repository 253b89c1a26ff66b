------------------------------ MODULE MCClient ------------------------------
(***************************************************************************)
(* Client instantiated for TLC.  One wallet, two account ids so that      *)
(* calcNextAddressID's random account choice can both change and revisit  *)
(* the account, and maxAdrID = 2 so that the rotation happens after the   *)
(* first address update.                                                  *)
(***************************************************************************)
EXTENDS Client

CONSTANTS a1, a2

\* The seed of a mnemonic, named by its last word: one-to-one on the
\* mnemonics of the client ids 0..9 (bip39.NewSeed is taken to be
\* collision free).
MCNewSeed(m) == m[MnemonicLength]

ASSUME MaxClients <= 10

\* The seeds of the mnemonics of the client ids Register can hand out.
MCSeeds == {MCNewSeed(ChooseMnemonic(id)) : id \in 0..MaxClients - 1}

\* NewClient's AccountID: rand.Intn(maxAccountID) after rand.Seed(clientID),
\* taken to differ from account 0.
MCNewAccountID == [id \in 0..MaxClients - 1 |-> a2]
MCAccounts == {a1, a2}

\* Every step but "lost" may be interrupted.
MCCrashAt == {"idle", "setAdr", "sig2", "part"}
\* Only crashes between operations (after a completed call sequence).
MCCrashIdle == {"idle"}
\* Only crashes after SetAddress, before the participation signature.
MCCrashSig2 == {"sig2"}
\* Only crashes while the address-update signature is held.
MCCrashSetAdr == {"setAdr"}
\* No state loss at all.
MCCrashNone == {}
\* Bound on the calls after a Reset: only while fewer than MaxFreshReset
\* fresh values were drawn in all.
CONSTANT MaxFreshReset
MCResetBound == keyGen = 0 \/ fresh <= MaxFreshReset
====
