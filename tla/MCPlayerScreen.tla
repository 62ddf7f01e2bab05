--------------------------- MODULE MCPlayerScreen ---------------------------
(***************************************************************************)
(* Words for TLC: one is solved by one letter, the other by two.            *)
(***************************************************************************)
EXTENDS PlayerScreen

CONSTANTS a, b, c

MCLetter == {a, b, c}
MCWords  == { <<a>>, <<b, a>> }
=============================================================================
