------------------------------ MODULE GameRules ------------------------------
(***************************************************************************)
(* The game as the player's code sees it through the generated reasoner    *)
(* (external: rbg2cpp writes reasoner.cpp for every game) once             *)
(* MctsTree::complete_turn has played the keeper's turns, and as the game  *)
(* manager sees it.  Positions and moves are opaque values.                *)
(***************************************************************************)
CONSTANTS
  Position,  \* game states in which the keeper has nothing left to play
  InitPos,   \* the position a new game starts in
  Move,      \* everything that may travel as a reasoner::move
  Status,    \* Status[p]: what Tree::get_status answers with p at the root
  Legal,     \* Legal[p]: the moves get_all_moves lists, {} where play ends
  After      \* After[p][m]: apply(m) in p, then complete_turn

GameStatus == {"own_turn", "opponent_turn", "end_game"}

(***************************************************************************)
(* A node with no children is terminal, whether the keeper is to move or a *)
(* player is stuck, and a game that is over before it begins is no game.   *)
(***************************************************************************)
ASSUME GameAssumption ==
  /\ InitPos \in Position
  /\ Status \in [Position -> GameStatus]
  /\ Legal \in [Position -> SUBSET Move]
  /\ After \in [Position -> [Move -> Position]]
  /\ \A p \in Position : Status[p] = "end_game" <=> Legal[p] = {}
  /\ Status[InitPos] # "end_game"

(***************************************************************************)
(* Where the game manager stands after a move: it starts the next game by  *)
(* itself.  play.py drops the "reset" text that announces it, so a player  *)
(* has to notice the end of the game on its own.                           *)
(***************************************************************************)
Settle(p) == IF Status[p] = "end_game" THEN InitPos ELSE p
=============================================================================
