-------------------------- MODULE MCHangmanServer ---------------------------
(***************************************************************************)
(* HangmanServer for TLC.  Both words repeat a letter, so that one guess   *)
(* uncovers two positions; the longer one is finished in two guesses, in   *)
(* either order.  A letter outside the word is an error.                   *)
(***************************************************************************)
EXTENDS HangmanServer

CONSTANTS A, B, C

OneLetterWord  == {<<A, A>>}
TwoLetterWord  == {<<A, B, A>>}

ClientSymmetry == Permutations(Client) \cup Permutations(Nick)
=============================================================================
