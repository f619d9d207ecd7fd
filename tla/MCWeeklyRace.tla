---------------------------- MODULE MCWeeklyRace ----------------------------
(* WeeklyRace for TLC. *)
EXTENDS WeeklyRace

MCPlayers == 1 .. 2
Custodial == [onchain |-> FALSE, verifier |-> TRUE]
Distributor == [onchain |-> TRUE, verifier |-> TRUE]
Custody == {Custodial}
Both == {Custodial, Distributor}
=============================================================================
