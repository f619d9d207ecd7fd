-------------------------------- MODULE Bracket --------------------------------
(***************************************************************************)
(* bracket.ts: a single-elimination bracket.  Rounds and matches count     *)
(* from 1; a seat or a winner of NoOne is null.                           *)
(***************************************************************************)
EXTENDS Integers, Sequences, FiniteSetsExt

NoOne == 0
EmptyMatch == [a |-> NoOne, b |-> NoOne, winner |-> NoOne]

\* The next power of two, up to the contract's largest field.
Size(n) == Min({s \in {2, 4, 8, 16, 32, 64} : s >= n})
RoundCount(n) == CHOOSE r \in 1 .. 6 : 2 ^ r = Size(n)

\* The first round: byes for the top seeds, then pairs.
FirstRound(players) ==
  LET n == Len(players)
      byes == Size(n) - n IN
  [i \in 1 .. Size(n) \div 2 |->
    IF i <= byes THEN [a |-> players[i], b |-> NoOne, winner |-> players[i]]
    ELSE [a |-> players[2 * i - byes - 1], b |-> players[2 * i - byes], winner |-> NoOne]]

\* createBracket and growRounds: the later rounds are empty but for the byes.
CreateBracket(players) ==
  LET first == FirstRound(players)
      Later(r) == [i \in 1 .. Size(Len(players)) \div (2 ^ r) |->
        IF r = 2 THEN [a |-> first[2 * i - 1].winner, b |-> first[2 * i].winner, winner |-> NoOne]
        ELSE EmptyMatch] IN
  [r \in 1 .. RoundCount(Len(players)) |-> IF r = 1 THEN first ELSE Later(r)]

\* The winner's seat in the next round.
PlaceWinner(rounds, r, i, w) ==
  IF r = Len(rounds) THEN rounds
  ELSE IF i % 2 = 1 THEN [rounds EXCEPT ![r + 1][(i + 1) \div 2].a = w]
  ELSE [rounds EXCEPT ![r + 1][(i + 1) \div 2].b = w]

Keys(rounds) == UNION {{r} \X DOMAIN rounds[r] : r \in DOMAIN rounds}
At(rounds, k) == rounds[k[1]][k[2]]

\* pendingMatches: both seats filled, no winner.
Pending(rounds) ==
  {k \in Keys(rounds) : LET m == At(rounds, k) IN m.winner = NoOne /\ m.a # NoOne /\ m.b # NoOne}

Seated(rounds, k) == {At(rounds, k).a, At(rounds, k).b}
Other(rounds, k, p) == CHOOSE q \in Seated(rounds, k) : q # p

\* reportResult's guard, and what it does.
Reportable(rounds, k, w) == k \in Keys(rounds) /\ At(rounds, k).winner = NoOne /\ w \in Seated(rounds, k)

Report(rounds, k, w) ==
  PlaceWinner([rounds EXCEPT ![k[1]][k[2]].winner = w], k[1], k[2], w)

Final(rounds) == rounds[Len(rounds)][1]
Complete(rounds) == rounds # <<>> /\ Final(rounds).winner # NoOne

\* The champion and whoever it beat in the final.
FinalStandings(rounds) ==
  LET champ == Final(rounds).winner
      runnerUp == IF Final(rounds).a = champ THEN Final(rounds).b ELSE Final(rounds).a IN
  IF runnerUp = NoOne THEN <<champ>> ELSE <<champ, runnerUp>>

=============================================================================
