------------------------------- MODULE Server -------------------------------
(***************************************************************************)
(* The server-wide state of model/server.go around the Claim tier: the    *)
(* list of registered client ids and the generation of the tiers' RSA     *)
(* keys, with the operations Register and Reset and the query             *)
(* GetSystemInformation.  All three run under Server.Mux.                 *)
(*                                                                         *)
(* Reset (the system/reset endpoint, handler GetReset) replaces every     *)
(* tier, the code registry, the flights and the client list by those of a *)
(* NewServer(): the Claim variant starts with empty maps and a new RSA    *)
(* key (rsa.GenerateKey in NewBonusActionVariant), under which no earlier *)
(* signature verifies.  Tokens are random: `fresh` keeps counting.  The    *)
(* statistics counters it zeroes are not modelled.                        *)
(***************************************************************************)
EXTENDS BonusActionVariant, Sequences

CONSTANTS
    MaxResets,  \* bound on the Reset calls of a behaviour
    MaxClients  \* bound on the client ids Register hands out

ASSUME MaxResets \in Nat /\ MaxClients \in Nat \ {0}

VARIABLES
    ClientIDs,  \* Server.ClientIDs
    keyGen      \* how many times the tiers' RSA keys were generated anew

systemVars == <<ClientIDs, keyGen>>

SystemInit ==
    /\ ServerInit
    /\ ClientIDs = << >>
    /\ keyGen = 0

\* Register: the new client id is len(ClientIDs), which is then appended.
NewClientID == Len(ClientIDs)

\* Mutant: clientID taken as len(s.ClientIDs) after the append, so the
\* ids start at one.
RegisterIdAfterAppend ==
    /\ NewClientID < MaxClients
    /\ ClientIDs' = Append(ClientIDs, NewClientID + 1)
    /\ UNCHANGED <<serverVars, keyGen>>

Register ==
    /\ NewClientID < MaxClients
    /\ ClientIDs' = Append(ClientIDs, NewClientID)
    /\ UNCHANGED <<serverVars, keyGen>>

\* bLevel.CopyPublic(): what a client learns of the tier is its id, limits
\* and public keys; of these only the key generation changes.
CopyPublic == keyGen

\* GetSystemInformation: the flights and the CopyPublic of every tier; the
\* "unloaded server" error needs an empty flight or tier list, which the
\* default lists of NewServer never are.
GetSystemInformation == CopyPublic

\* Mutant: s.BonusList = sReset.BonusList left out; the tiers, their maps
\* and keys survive the Reset.
ResetKeepTiers ==
    /\ keyGen < MaxResets
    /\ ClientIDs' = << >>
    /\ UNCHANGED <<serverVars, keyGen>>

\* Server.Reset: the state of NewServer(), with new keys.
Reset ==
    /\ keyGen < MaxResets
    /\ keyGen' = keyGen + 1
    /\ ClientIDs' = << >>
    /\ SeedToAddress' = << >>
    /\ SeedToAccountID' = << >>
    /\ AddressToToken' = << >>
    /\ AddressToRecovery' = << >>
    /\ ValidTokens' = << >>
    /\ SeedToAccessAdr' = << >>
    /\ PenultimateAdr' = << >>
    /\ PkrToAdrUpd' = << >>
    /\ PkrToBonusData' = << >>
    /\ Signed' = {}
    /\ UNCHANGED fresh
=============================================================================
