---------------------------- MODULE MCLobbyScenes ----------------------------
(***************************************************************************)
(* LobbyScenes for TLC: a word of one letter, so that one guess ends a     *)
(* player's round.                                                         *)
(***************************************************************************)
EXTENDS LobbyScenes

CONSTANT A

OneLetterWord == {<<A>>}

ClientSymmetry == Permutations(Client) \cup Permutations(Player)
=============================================================================
