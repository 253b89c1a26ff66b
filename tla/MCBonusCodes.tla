---------------------------- MODULE MCBonusCodes ----------------------------
(***************************************************************************)
(* The three tiers of GetDefaultHBLS (bonusLevel.go): high lists middle   *)
(* and low as lower levels, middle lists low.  Durations and minimum      *)
(* numbers of codes are scaled down with their order kept: high expires   *)
(* first and needs fewest codes, low expires last and needs most.         *)
(***************************************************************************)
EXTENDS Wallet

CONSTANTS low, middle, high, k1, k2, k3, i1, i2, i3, w1

MCTiers == {low, middle, high}
MCLower == (high :> <<middle, low>>) @@ (middle :> <<low>>) @@ (low :> << >>)
\* code: 10, 30 and 50 days
MCValidDuration == (high :> 0) @@ (middle :> 1) @@ (low :> 1)
\* code: 1, 3 and 5 codes
MCMinNrCodes == (high :> 1) @@ (middle :> 2) @@ (low :> 3)
MCTokens == {k1, k2, k3}
MCIds == {i1, i2, i3}
\* Tokens and ids are random strings: permuting either set gives an
\* equivalent state.
MCSymmetry == Permutations(MCTokens) \cup Permutations(MCIds)

=============================================================================
