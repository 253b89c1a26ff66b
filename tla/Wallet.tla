------------------------------- MODULE Wallet -------------------------------
(***************************************************************************)
(* The wallet side of the bonus codes (model/client.go), composed with the *)
(* code registry of BonusCodes.  Client.Booking is three server calls in   *)
(* one goroutine: SendBooking, GetBlindSignature with the tier's Booking   *)
(* key, GetBookingCode; the code is appended to c.BonusCodes.              *)
(* Client.AccessBonusSystem presents every code of c.BonusCodes, each once *)
(* (the list is never cleared).  Between two calls of a wallet, any other  *)
(* request of the server can run.                                          *)
(*                                                                         *)
(* The other customers are the environment: BonusCodes' actions, on their  *)
(* own booking tokens, signatures and codes.  Those of a wallet are random *)
(* strings (GenerateToken, randomString(64)) only the wallet learns.       *)
(***************************************************************************)
EXTENDS BonusCodes, Integers

CONSTANT Wallets

VARIABLE wallet     \* wallet -> its state of the code part of model.Client

vars == <<codeVars, wallet>>

\* BonusLevels not yet filled by GetSystemInformation.
NoLevels == -1

WalletState ==
    [levels: {NoLevels} \cup 0..MaxResets,  \* key generation of c.BonusLevels
     pc: {"idle", "booked", "signed"},      \* where Booking is
     tier: Tiers,                           \* bLevelID of the booking
     tok: Tokens \cup {Nil},                 \* its booking token (Nil: none yet)
     sigOk: BOOLEAN,                        \* its signature unblinded under the signing key
     codes: SUBSET Ids,                     \* the ids of c.BonusCodes
     tiers: SUBSET Tiers]                   \* the tiers of c.BLevelToTokens

WalletInit ==
    /\ Init
    /\ wallet = [w \in Wallets |->
                   [levels |-> NoLevels, pc |-> "idle", tier |-> CHOOSE t \in Tiers : TRUE,
                    tok |-> Nil, sigOk |-> FALSE, codes |-> {}, tiers |-> {}]]

WalletTokens == {wallet[w].tok : w \in Wallets}

WalletCodes == UNION {wallet[w].codes : w \in Wallets}

\* Client.GetSystemInformation: c.BonusLevels holds the tiers' public keys
\* of the current key generation.
WalletGetSystemInfo(w) ==
    /\ wallet[w].pc = "idle"
    /\ wallet' = [wallet EXCEPT ![w].levels = resets]
    /\ UNCHANGED codeVars

\* Client.Booking up to SendBooking: the tier must be in c.BonusLevels;
\* the server answers with a new booking token.
WalletSendBooking(w, t, tok) ==
    /\ wallet[w].pc = "idle"
    /\ wallet[w].levels # NoLevels
    /\ Booking(t, tok)
    /\ wallet' = [wallet EXCEPT ![w].pc = "booked", ![w].tier = t, ![w].tok = tok]

\* GetBlindSignature accepts the booking token: the token is used and the
\* blinded token signed.  The wallet blinded and unblinds with the key of
\* its c.BonusLevels, read at the start of Booking; the signature verifies
\* only if that is the key the server signed with.
WalletSign(w) ==
    /\ wallet[w].pc = "booked"
    /\ GetBookingSignature(wallet[w].tier, wallet[w].tok)
    /\ wallet' = [wallet EXCEPT ![w].pc = "signed", ![w].sigOk = (wallet[w].levels = resets)]

\* GetBlindSignature answers "Token is not valid" (the server was Reset
\* since SendBooking): Booking returns the error.
WalletSignFailed(w) ==
    /\ wallet[w].pc = "booked"
    /\ ~(wallet[w].tok \in DOMAIN BookingTokens[wallet[w].tier]
         /\ ~BookingTokens[wallet[w].tier][wallet[w].tok])
    /\ wallet' = [wallet EXCEPT ![w].pc = "idle"]
    /\ UNCHANGED codeVars

\* GetBookingCode accepts the signature; the new code is appended to
\* c.BonusCodes.
WalletGetCode(w, id) ==
    /\ wallet[w].pc = "signed"
    /\ wallet[w].sigOk
    /\ GetBookingCode(wallet[w].tier, wallet[w].tok, id)
    /\ wallet' = [wallet EXCEPT ![w].pc = "idle", ![w].codes = @ \cup {id}]

\* GetBookingCode rejects the signature (unblinded under a stale key, or
\* made under a key a Reset has replaced): Booking returns the error and
\* the booking token is spent without a code.
WalletGetCodeFailed(w) ==
    /\ wallet[w].pc = "signed"
    /\ ~(wallet[w].sigOk /\ wallet[w].tok \in BookingSigs(wallet[w].tier))
    /\ wallet' = [wallet EXCEPT ![w].pc = "idle"]
    /\ UNCHANGED codeVars

\* The codes Client.AccessBonusSystem sends: every id of c.BonusCodes once.
WalletRequest(w) == [c \in wallet[w].codes |-> 1]

\* Client.AccessBonusSystem with at least one code (an empty list is a
\* missing body element); verifyCodes settles on tier t and the tokens of
\* Accessible(t) are added to c.BLevelToTokens.  When no tier is reached
\* the server changes nothing and the wallet keeps its codes.
WalletAccess(w, t) ==
    /\ wallet[w].pc = "idle"
    /\ wallet[w].codes # {}
    /\ AccessCodesFor(WalletRequest(w), t)
    /\ wallet' = [wallet EXCEPT ![w].tiers = @ \cup Accessible(t)]

\* The steps by which a running Booking call returns.
WalletReturns(w) ==
    \/ WalletSign(w)
    \/ WalletSignFailed(w)
    \/ \E id \in Ids : WalletGetCode(w, id)
    \/ WalletGetCodeFailed(w)

WalletStep(w) ==
    \/ WalletGetSystemInfo(w)
    \/ \E t \in Tiers, tok \in Tokens : WalletSendBooking(w, t, tok)
    \/ WalletReturns(w)
    \/ \E t \in Tiers : WalletAccess(w, t)

\* The other customers: any request of BonusCodes on strings of their own.
Others ==
    /\ \/ \E t \in Tiers, tok \in Tokens : Booking(t, tok)
       \/ \E t \in Tiers : \E tok \in DOMAIN BookingTokens[t] \ WalletTokens :
             GetBookingSignature(t, tok)
       \/ \E t \in Tiers, id \in Ids : \E sig \in BookingSigs(t) \ WalletTokens :
             GetBookingCode(t, sig, id)
       \/ \E req \in Requests : DOMAIN req \cap WalletCodes = {} /\ AccessCodes(req)
       \/ Tick
       \/ CodesReset
    /\ UNCHANGED wallet

WalletNext == (\E w \in Wallets : WalletStep(w)) \/ Others

\* Only safety is checked of the wallet, so no fairness is assumed.
WalletSpec == WalletInit /\ [][WalletNext]_vars

(***************************************************************************)
(* Properties.                                                             *)
(***************************************************************************)

WalletTypeOK ==
    /\ TypeOK
    /\ wallet \in [Wallets -> WalletState]
    /\ WalletCodes \subseteq drawn

\* When an access consumes a wallet's codes, every tier those codes reach
\* (counted as verifyCodes counts them) is among the tiers the wallet then
\* holds tokens for: verifyCodes returns only the first reached tier of
\* s.Hierarchy with its LowerLevels, and with the default tiers these
\* cover every other tier the same codes reach.
WalletAccessCoversReached ==
    [][\A w \in Wallets :
          LET req == WalletRequest(w) IN
          (\E c \in LiveCodes(req) : c \in DOMAIN BonusCodes' /\ BonusCodes'[c] = Nil)
              => Reached(req) \subseteq wallet'[w].tiers]_vars
=============================================================================
