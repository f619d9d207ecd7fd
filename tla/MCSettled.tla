------------------------------- MODULE MCSettled -------------------------------
(***************************************************************************)
(* What follows a settlement, for TLC: the settled ledger, which counts it *)
(* once, and the weekly race, which its credit enters.  The race takes a   *)
(* credit as a step of its own, so the two share no state, and each runs   *)
(* while the other is at rest.                                             *)
(***************************************************************************)
EXTENDS SettledLedger, MCWeeklyRace

LedgerAtRest == settledAt = Zero /\ failures.count = 0
RaceAtRest == deploy = Custodial /\ open = 0 /\ ledger.edits = 0

SettledInit == Init /\ RaceInit

SettledNext ==
  \/ RaceAtRest /\ Next /\ UNCHANGED raceVars
  \/ LedgerAtRest /\ RaceNext /\ UNCHANGED vars

\* The race: the tick runs every five minutes, what has started goes on, and a
\* transaction that was sent is mined.  Rollovers and rounds are finitely many.
RaceProgress == LedgerAtRest /\ (RollStep \/ \E w \in Weeks : PublishRound(w))

SettledSpec ==
  /\ SettledInit /\ [][SettledNext]_<<vars, raceVars>>
  /\ LedgerFair /\ WF_raceVars(RaceProgress)
=============================================================================
