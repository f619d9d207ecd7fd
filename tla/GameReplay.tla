------------------------------ MODULE GameReplay ------------------------------
(***************************************************************************)
(* One game replayed on both sides: the server's adjudicate (match.ts,     *)
(* engine/awale.ts), which keeps a map of the positions since the last     *)
(* capture, and ReplayVerifier.verify, which keeps an array of their       *)
(* hashes.  Signatures are the subject of MatchEscrow and LiveMatch.       *)
(***************************************************************************)
EXTENDS AwaleRules, Sequences

VARIABLES
  state,      \* the server's game
  seen,       \* adjudicate's map: positions since the last capture, and how often
  chainState,      \* the contract's game
  chainKeys,       \* verify's array of position chainKeys, up to seenLen
  ply         \* moves so far

gvars == <<rules, state, seen, chainState, chainKeys, ply>>

PositionKey(s) == <<s.pits, s.turn>>
Once(s) == [k \in {PositionKey(s)} |-> 1]
CapturedIn(s, t) == t.stores[0] + t.stores[1] > s.stores[0] + s.stores[1]

ReplayInit ==
  /\ rules \in Boards
  /\ \E turn \in 0 .. 1 :
    /\ state = InitialState(turn) /\ chainState = InitialState(turn)
    /\ seen = Once(InitialState(turn)) /\ chainKeys = <<PositionKey(InitialState(turn))>>
    /\ ply = 0

-----------------------------------------------------------------------------
(* The server: submitMove, then adjudicate.                                *)

SeenTimes(s) == IF PositionKey(s) \in DOMAIN seen THEN seen[PositionKey(s)] + 1 ELSE 1
Counted(s) == [k \in DOMAIN seen \cup {PositionKey(s)} |-> IF k = PositionKey(s) THEN SeenTimes(s) ELSE seen[k]]

\* endByCycle: each side takes its row, and the leader wins.
EndByCycle(s) == RowsToOwners(s)

Adjudicate(next) ==
  IF next.over THEN state' = next /\ UNCHANGED seen
  ELSE IF CapturedIn(state, next) THEN state' = next /\ seen' = Once(next)
  ELSE /\ seen' = Counted(next)
       /\ state' = IF SeenTimes(next) >= rules.repeat THEN EndByCycle(next) ELSE next

\* repetitionCount: how often the current position has occurred, 0 once it is over.
RepetitionCount == IF state.over THEN 0 ELSE seen[PositionKey(state)]

-----------------------------------------------------------------------------
(* The contract: one turn of the loop of verify.                           *)

\* The array is searched for earlier occurrences only.
OccurrencesBefore(s) == Cardinality({i \in DOMAIN chainKeys : chainKeys[i] = PositionKey(s)})
Occurrences(s) == 1 + Cardinality({i \in DOMAIN chainKeys : chainKeys[i] = PositionKey(s)})

Verify(next) ==
  IF next.over THEN chainState' = next /\ UNCHANGED chainKeys
  ELSE IF CapturedIn(chainState, next) THEN chainState' = next /\ chainKeys' = <<PositionKey(next)>>
  ELSE /\ chainKeys' = Append(chainKeys, PositionKey(next))
       /\ chainState' = IF Occurrences(next) >= rules.repeat THEN EndByCycle(next) ELSE next

\* A move the server accepts, replayed by the contract.
Move(h) ==
  /\ AcceptsMove(state, h)
  /\ Adjudicate(ApplyMove(state, h))
  /\ IF AcceptsMove(chainState, h) THEN Verify(ApplyMove(chainState, h)) ELSE UNCHANGED <<chainState, chainKeys>>
  /\ ply' = ply + 1 /\ UNCHANGED rules

ReplayNext == \E h \in 0 .. HOUSES_PER_SIDE : Move(h)
ReplaySpec == ReplayInit /\ [][ReplayNext]_gvars

-----------------------------------------------------------------------------
(* Properties.                                                             *)

OnBoard(s) == RowSum(s.pits, 0) + RowSum(s.pits, 1)

\* The variables have their types, and every seed is on the board or in a store.
ReplayTypeOK ==
  \A s \in {state, chainState} :
    /\ s.turn \in 0 .. 1 /\ s.over \in BOOLEAN /\ s.winner \in 0 .. DRAW
    /\ s.noCaptureCount \in 0 .. NO_CAPTURE_LIMIT
    /\ OnBoard(s) + s.stores[0] + s.stores[1] = SEEDS

\* Sowing as the header of AwaleRules.sol tells it: one seed per pit counter-clockwise,
\* never into the origin, so that the d-th pit after it gets a seed in every lap of
\* PITS - 1 that reaches it, and the last seed falls where the count runs out.
SowsEvenly ==
  \A h \in LegalMoves(state) :
    LET idx == Base(state.turn) + h
        n == state.pits[idx]
        sown == Sow(state.pits, idx)
        At(d) == (idx + d) % PITS IN
    /\ sown.pits[idx] = 0
    /\ \A d \in 1 .. PITS - 1 : sown.pits[At(d)] = state.pits[At(d)] + (n + PITS - 1 - d) \div (PITS - 1)
    /\ sown.last = At(1 + ((n - 1) % (PITS - 1)))

\* No capture takes the opponent's last seed (the grand slam, AwaleRules.sol:29-30).
CaptureLeavesSeeds ==
  \A h \in LegalMoves(state) :
    LET sown == Sow(state.pits, Base(state.turn) + h)
        board == Capture(sown.pits, state.turn, sown.last) IN
    board.captured > 0 => RowSum(board.pits, 1 - state.turn) > 0

\* A game that goes on has a move, and applyMove takes exactly the moves the mask
\* offers the clients.
NeverStuck ==
  /\ ~state.over => LegalMoves(state) # {}
  /\ \A h \in 0 .. HOUSES_PER_SIDE : AcceptsMove(state, h) <=> h \in LegalMoves(state)

\* "A fraud proof always agrees with what the server computed" (awale.ts:3-8): move by
\* move, repetitions included, the contract's game is the server's.
EngineAgrees == chainState = state

\* No game outgrows the transcript the verifier takes: two captures are at most
\* NO_CAPTURE_LIMIT plies apart and each takes two seeds.  With the constants of the
\* code that is 1000 plies of 4096.
TranscriptFits == ply <= NO_CAPTURE_LIMIT * ((state.stores[0] + state.stores[1]) \div 2 + 1)

\* Every game keeps its seeds and the rules: sowing and capture do what they say, the
\* player to move has a move, and the game fits the verifier's transcript.
BoardInv ==
  /\ ReplayTypeOK
  /\ SowsEvenly
  /\ CaptureLeavesSeeds
  /\ NeverStuck
  /\ TranscriptFits
=============================================================================
