---------------------------------- MODULE Ai ----------------------------------
(***************************************************************************)
(* The search of engine/ai.ts: negamax with alpha-beta pruning over the    *)
(* rule engine, which practice plays with and the engine-assistance check  *)
(* ranks moves by; and the daily puzzle of app/src/lib/daily.ts, any       *)
(* position with a capture for the player to move.                         *)
(***************************************************************************)
EXTENDS GameReplay, SequencesExt

CONSTANTS
  SearchDepth,  \* bounds: how deep, and after which plies, the search is compared
  SearchPlies   \* with its definition

WIN == 1000000
Infinity == 2 * WIN

\* legalHouses, in the order of the mask.
LegalHouses(s) == SetToSortSeq(LegalMoves(s), <)

Threats(s, player) == Cardinality({i \in Row(1 - player) : s.pits[i] \in {1, 2}})

Evaluate(s, player) ==
  IF s.over THEN (IF s.winner = DRAW THEN 0 ELSE IF s.winner = player THEN WIN ELSE -WIN)
  ELSE (s.stores[player] - s.stores[1 - player]) * 18
       + RowSum(s.pits, player) - RowSum(s.pits, 1 - player) + 2 * Threats(s, player)

\* The window turned round with one sign forgotten.
TurnedHalf(window) == [alpha |-> -window.beta, beta |-> window.alpha]

\* The window as the other side sees it.
Turned(window) == [alpha |-> -window.beta, beta |-> -window.alpha]

\* negamax: the loop over the houses from the i-th on, with what it has so far.
RECURSIVE Negamax(_, _, _), Scan(_, _, _, _, _, _)
Scan(s, houses, i, depth, best, window) ==
  IF i > Len(houses) THEN best
  ELSE LET v == -Negamax(ApplyMove(s, houses[i]), depth - 1, Turned(window))
           better == IF v > best THEN v ELSE best
           alpha == IF v > window.alpha THEN v ELSE window.alpha IN
       IF alpha >= window.beta THEN better
       ELSE Scan(s, houses, i + 1, depth, better, [window EXCEPT !.alpha = alpha])

Negamax(s, depth, window) ==
  IF s.over \/ depth = 0 \/ LegalMoves(s) = {} THEN Evaluate(s, s.turn)
  ELSE Scan(s, LegalHouses(s), 1, depth, -Infinity, window)

FullWindow == [alpha |-> -Infinity, beta |-> Infinity]
Score(s, h, depth) == -Negamax(ApplyMove(s, h), depth - 1, FullWindow)

\* chooseMove: what it may play when it does not blunder.
BestHouses(s, depth) ==
  {h \in LegalMoves(s) : \A j \in LegalMoves(s) : Score(s, h, depth) >= Score(s, j, depth)}

\* rankMoves: by value, then by house.
RankMoves(s, depth) ==
  SetToSortSeq(LegalMoves(s), LAMBDA a, b :
    Score(s, a, depth) > Score(s, b, depth) \/ (Score(s, a, depth) = Score(s, b, depth) /\ a < b))

-----------------------------------------------------------------------------
(* The daily puzzle.                                                       *)

CaptureGain(s, h) == ApplyMove(s, h).stores[s.turn] - s.stores[s.turn]

\* dailyPuzzle: the best gain so far and the houses that have it; 0 is no puzzle.
DailyPuzzle(s) ==
  LET Better(found, h) ==
        LET g == CaptureGain(s, h) IN
        IF g > found.best THEN [best |-> g, solution |-> <<h>>]
        ELSE IF g = found.best /\ g > 0 THEN [found EXCEPT !.solution = Append(@, h)] ELSE found IN
  FoldLeft(Better, [best |-> 0, solution |-> <<>>], LegalHouses(s))

-----------------------------------------------------------------------------
(* Properties.                                                             *)

\* The best value of a position by the definition of minimax.
RECURSIVE Minimax(_, _)
Minimax(s, depth) ==
  IF s.over \/ depth = 0 THEN Evaluate(s, s.turn)
  ELSE Max({-Minimax(ApplyMove(s, h), depth - 1) : h \in LegalMoves(s)})

\* Pruning changes nothing: what the search calls best is what minimax calls best, and
\* the ranking the engine-assistance check compares with starts with one of them.
SearchExact ==
  (~state.over /\ ply \in SearchPlies) =>
    LET value == Minimax(state, SearchDepth)
        best == BestHouses(state, SearchDepth) IN
    /\ best = {h \in LegalMoves(state) : -Minimax(ApplyMove(state, h), SearchDepth - 1) = value}
    /\ RankMoves(state, SearchDepth)[1] = Min(best)

\* A puzzle has an answer, its answers are the houses no house captures more than, and
\* the page, which compares gains (daily/page.tsx:55), takes exactly those.
PuzzleExact ==
  ~state.over =>
    LET puzzle == DailyPuzzle(state)
        gains == {CaptureGain(state, h) : h \in LegalMoves(state)} IN
    /\ puzzle.best = Max(gains \cup {0})
    /\ puzzle.best > 0 => ToSet(puzzle.solution) = {h \in LegalMoves(state) : CaptureGain(state, h) = puzzle.best}
    /\ puzzle.best = 0 <=> puzzle.solution = <<>>

\* What the game calls the best moves are the best moves.
AnswersExact ==
  /\ SearchExact
  /\ PuzzleExact
=============================================================================
