----------------------------- MODULE MCGameReplay -----------------------------
(* GameReplay and the AI for TLC: a board small enough for cycles, one wide
   enough for chains. *)
EXTENDS Ai

Board(houses, opening, quiet) == [houses |-> houses, opening |-> opening, quiet |-> quiet, repeat |-> 3]
MCBoards == {Board(2, 2, 14), Board(3, 2, 5)}
MCPlies == 0 .. 12
=============================================================================
