----------------------------- MODULE BlindSignLib -----------------------------
(***************************************************************************)
(* The pure part of the C library BlindSignLib/main/main.go: the mnemonic  *)
(* a wallet of the library is created with.  AddClient registers at the    *)
(* server and calls NewClient(clientID, chooseMnemonic(clientID), 3), and  *)
(* Restore rebuilds the wallet from chooseMnemonic(clientID) again, so the *)
(* mnemonic, and with it the wallet's seed, is a function of the client id *)
(* alone.  A mnemonic is kept as its sequence of words: strings.Join with  *)
(* " " is injective on it, since no word of wordList contains a blank.     *)
(***************************************************************************)
EXTENDS Naturals, Sequences

CONSTANT MaxCheckedID   \* the client ids 0..MaxCheckedID the reference check covers

ASSUME MaxCheckedID \in Nat

\* wordList; the word of digit d is WordList[d + 1].
WordList == <<"air", "blind", "car", "day", "egg", "faith", "gain", "hat",
              "ice", "joy", "key">>

\* mnemonicLength
MnemonicLength == 24

\* mnemonicDefault, filled by init(): mnemonicLength times wordList[0].
MnemonicDefault == [p \in 1..MnemonicLength |-> WordList[1]]

\* Mutant: the digits collected lowest first.
RECURSIVE GiveDigitsLowFirst(_)
GiveDigitsLowFirst(n) ==
    IF n < 10 THEN <<n>> ELSE <<n % 10>> \o GiveDigitsLowFirst(n \div 10)

\* giveDigits: the decimal digits of strconv.Itoa(n), most significant
\* first, each read back by strconv.Atoi (n >= 0: client ids count from 0).
RECURSIVE GiveDigits(_)
GiveDigits(n) ==
    IF n < 10 THEN <<n>> ELSE Append(GiveDigits(n \div 10), n % 10)

\* chooseMnemonic: a copy of mnemonicDefault whose last len(digits) words
\* are the words of the digits, in order.
ChooseMnemonic(n) ==
    LET digits == GiveDigits(n)
        offset == MnemonicLength - Len(digits)
    IN [p \in 1..MnemonicLength |->
          IF p > offset THEN WordList[digits[p - offset] + 1] ELSE MnemonicDefault[p]]

(***************************************************************************)
(* Reference: the id written with MnemonicLength decimal digits, digit d  *)
(* spelled WordList[d + 1].  Digits of weight 10^10 and more are 0 for    *)
(* every id TLC's integers hold.                                          *)
(***************************************************************************)
RefMnemonic(n) ==
    [p \in 1..MnemonicLength |->
        LET e == MnemonicLength - p IN
        WordList[(IF e < 10 THEN (n \div 10^e) % 10 ELSE 0) + 1]]

\* The ids 0..MaxCheckedID, a constant TLC evaluates once.
DecimalUpToMaxCheckedID ==
    \A n \in 0..MaxCheckedID : ChooseMnemonic(n) = RefMnemonic(n)
=============================================================================
