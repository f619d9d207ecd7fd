------------------------------- MODULE MCPlayers -------------------------------
(***************************************************************************)
(* Correspondence and Profiles, with the daily page, for TLC.  The app     *)
(* plays correspondence games under the addresses of session keys, which   *)
(* no wallet's profile has, so the two share no state, and each runs while *)
(* the other is idle.                                                      *)
(***************************************************************************)
EXTENDS Correspondence, DailyPage, TLC

CONSTANTS ann, bob

Plays == 3 :> 2 @@ 4 :> 2
Wins == 3 :> 1 @@ 4 :> 1

PlayersInit == Init /\ DailyInit

ProfilesAtRest ==
  begun = 0 /\ day = FirstDay /\ \A p \in Regulars : store[p] = NoProfile /\ device[p] = NoStreak

PlayersNext ==
  \/ ProfilesAtRest /\ Next /\ UNCHANGED <<pvars, dailyVars>>
  \/ match = NoMatch /\ DailyNext /\ UNCHANGED cvars

PlayersSpec ==
  /\ PlayersInit /\ [][PlayersNext]_<<cvars, pvars, dailyVars>>
  /\ WF_cvars(Tick) /\ WF_cvars(Receive) /\ WF_cvars(Finish)
  /\ SF_cvars(Claim(Creator) \/ \E house \in Houses : Play(Creator, house))

\* Requests that undo no other take nothing back: not a move, an end or a seat of a
\* record, and not the quests of a day.
NothingTakenBack ==
  /\ RecordOnlyGrows
  /\ QuestSetStable
=============================================================================
