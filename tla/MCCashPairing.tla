---------------------------- MODULE MCCashPairing ----------------------------
(***************************************************************************)
(* CashPairing and Inbox for TLC: two players who each search once, for    *)
(* stakes 2 and 1, and whose ratings meet only at the backstop; a player   *)
(* who is away.  The two share no state, and each runs while the other is  *)
(* at rest.                                                                *)
(***************************************************************************)
EXTENDS CashPairing, Inbox, TLC

CONSTANTS p1, p2

MCAskOnce == [p \in Players |-> IF p = p1 THEN <<2>> ELSE <<1>>]
MCElo == [p \in Players |-> IF p = p1 THEN 0 ELSE 2]

\* Two challenges to one match.
Challenges == {[id |-> 1, match |-> 1], [id |-> 2, match |-> 1]}

PairingAtRest == Init
InboxAtRest == started = 0 /\ tick = 1

MeetInit == Init /\ InboxInit

MeetNext ==
  \/ InboxAtRest /\ Next /\ UNCHANGED inboxVars
  \/ PairingAtRest /\ InboxNext /\ UNCHANGED vars

\* Time passes and the sweep runs on its interval, as long as anyone searches at all.
MeetSpec ==
  /\ MeetInit /\ [][MeetNext]_<<vars, inboxVars>>
  /\ WF_vars(Tick) /\ WF_vars(Sweep)
=============================================================================
