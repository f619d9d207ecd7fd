------------------------------ MODULE AwaleRules ------------------------------
(***************************************************************************)
(* The rule engine, AwaleRules.sol, on boards of any size.  Houses count   *)
(* from 0; player 0 owns the first half of the pits.  engine/awale.ts      *)
(* mirrors it line for line.                                               *)
(***************************************************************************)
EXTENDS Integers, FiniteSetsExt, Functions

CONSTANT Boards  \* the boards played on: [houses, opening, quiet, repeat]; the code's is [6, 4, 40, 3]

ASSUME BoardsAssumption ==
  \A b \in Boards : {b.houses, b.opening, b.quiet, b.repeat} \subseteq Nat \ {0}

VARIABLE rules   \* the board of this game

HOUSES_PER_SIDE == rules.houses
NO_CAPTURE_LIMIT == rules.quiet
PITS == 2 * HOUSES_PER_SIDE
SEEDS == PITS * rules.opening
DRAW == 2
HouseRange == 0 .. HOUSES_PER_SIDE - 1
Base(player) == player * HOUSES_PER_SIDE
Row(player) == {Base(player) + h : h \in HouseRange}
EmptyBoard == [i \in 0 .. PITS - 1 |-> 0]

InitialState(startTurn) ==
  [pits |-> [i \in 0 .. PITS - 1 |-> rules.opening], stores |-> [p \in 0 .. 1 |-> 0], turn |-> startTurn,
   over |-> FALSE, winner |-> 0, noCaptureCount |-> 0]

RowSum(pits, player) == FoldFunctionOnSet(+, 0, pits, Row(player))

\* The next pit, never the origin.
NextPit(pos, idx) == IF (pos + 1) % PITS = idx THEN (pos + 2) % PITS ELSE (pos + 1) % PITS

\* _sow: the board and the pit of the last seed.
Sow(pits, idx) ==
  LET sown[n \in 0 .. pits[idx]] ==
        IF n = 0 THEN [pits |-> [pits EXCEPT ![idx] = 0], last |-> idx]
        ELSE LET pos == NextPit(sown[n - 1].last, idx) IN
             [pits |-> [sown[n - 1].pits EXCEPT ![pos] = @ + 1], last |-> pos] IN
  sown[pits[idx]]

\* The contiguous opponent houses of two or three seeds that end at the last seed.
Taken(pits, turn, last) ==
  {p \in Row(1 - turn) : p <= last /\ last \in Row(1 - turn) /\ \A j \in p .. last : pits[j] \in {2, 3}}

\* _capture: a capture of the whole row captures nothing.
Capture(pits, turn, last) ==
  LET taken == Taken(pits, turn, last)
      take == FoldFunctionOnSet(+, 0, pits, taken) IN
  IF take = RowSum(pits, 1 - turn) THEN [pits |-> pits, captured |-> 0]
  ELSE [pits |-> [i \in DOMAIN pits |-> IF i \in taken THEN 0 ELSE pits[i]], captured |-> take]

\* legalMovesMask: a player whose opponent has no seeds must feed it.
LegalMoves(s) ==
  {h \in HouseRange :
    LET idx == Base(s.turn) + h IN
    /\ ~s.over /\ s.pits[idx] > 0
    /\ RowSum(s.pits, 1 - s.turn) = 0 => RowSum(Sow(s.pits, idx).pits, 1 - s.turn) > 0}

Leader(stores) == IF stores[0] > stores[1] THEN 0 ELSE IF stores[1] > stores[0] THEN 1 ELSE DRAW

\* _finish, and the board given away before it.
FinishGame(s) == [s EXCEPT !.over = TRUE, !.winner = Leader(s.stores)]
Swept(s, gain) ==
  FinishGame([s EXCEPT !.pits = EmptyBoard, !.stores = [p \in 0 .. 1 |-> @[p] + gain[p]]])
RowsToOwners(s) == Swept(s, [p \in 0 .. 1 |-> RowSum(s.pits, p)])
BoardTo(s, player) == Swept(s, [p \in 0 .. 1 |-> IF p = player THEN RowSum(s.pits, 0) + RowSum(s.pits, 1) ELSE 0])

\* Nobody looks at whether the player to move can.
ResolveUnstarved(s) ==
  IF \E p \in 0 .. 1 : s.stores[p] > SEEDS \div 2 THEN FinishGame(s)
  ELSE IF s.noCaptureCount >= NO_CAPTURE_LIMIT THEN RowsToOwners(s)
  ELSE s

\* _resolve: majority, nothing to move, nothing to feed with, nothing captured for long.
Resolve(s) ==
  IF \E p \in 0 .. 1 : s.stores[p] > SEEDS \div 2 THEN FinishGame(s)
  ELSE IF RowSum(s.pits, s.turn) = 0 THEN BoardTo(s, 1 - s.turn)
  ELSE IF RowSum(s.pits, 1 - s.turn) = 0 /\ LegalMoves(s) = {} THEN BoardTo(s, s.turn)
  ELSE IF s.noCaptureCount >= NO_CAPTURE_LIMIT THEN RowsToOwners(s)
  ELSE s

\* What applyMove requires.
AcceptsMove(s, house) ==
  /\ ~s.over /\ house \in HouseRange
  /\ LET idx == Base(s.turn) + house IN
     /\ s.pits[idx] > 0
     /\ ~(RowSum(s.pits, 1 - s.turn) = 0 /\ RowSum(Sow(s.pits, idx).pits, 1 - s.turn) = 0)

\* noCaptureCount after a move.
QuietPlies(s, captured) == IF captured > 0 THEN 0 ELSE s.noCaptureCount + 1

ApplyMove(s, house) ==
  LET sown == Sow(s.pits, Base(s.turn) + house)
      board == Capture(sown.pits, s.turn, sown.last) IN
  Resolve([pits |-> board.pits, stores |-> [s.stores EXCEPT ![s.turn] = @ + board.captured],
           turn |-> 1 - s.turn, over |-> FALSE, winner |-> 0,
           noCaptureCount |-> QuietPlies(s, board.captured)])

=============================================================================
