----------------------------- MODULE StakeCustody -----------------------------
(***************************************************************************)
(* What a stake escrow promises its players, whatever the route to the     *)
(* result: per match, a stake and a rake fixed when the first seat is      *)
(* funded, an equal second stake, and one release that hands out exactly   *)
(* what was put in.  MatchEscrow implements it.                            *)
(***************************************************************************)
EXTENDS Integers

CONSTANTS Ids, Stakes, Rakes, BPS

VARIABLES
  stage,   \* "empty", "half", "full" or "released"
  terms,   \* stake and rake of each match
  out      \* what has been released: to the two seats, and in fees

vars == <<stage, terms, out>>

Nothing == [p0 |-> 0, p1 |-> 0, fee |-> 0]

Init ==
  /\ stage = [id \in Ids |-> "empty"]
  /\ terms = [id \in Ids |-> [stake |-> 0, rakeBps |-> 0]]
  /\ out = [id \in Ids |-> Nothing]

Open(id) ==
  /\ stage[id] = "empty"
  /\ \E s \in Stakes, r \in Rakes :
       terms' = [terms EXCEPT ![id] = [stake |-> s, rakeBps |-> r]]
  /\ stage' = [stage EXCEPT ![id] = "half"]
  /\ UNCHANGED out

Match(id) ==
  /\ stage[id] = "half"
  /\ stage' = [stage EXCEPT ![id] = "full"]
  /\ UNCHANGED <<terms, out>>

Release(id, o) ==
  /\ stage' = [stage EXCEPT ![id] = "released"]
  /\ out' = [out EXCEPT ![id] = o]
  /\ UNCHANGED terms

Return(id) ==
  /\ stage[id] = "half"
  /\ Release(id, [p0 |-> terms[id].stake, p1 |-> 0, fee |-> 0])

\* A draw and a voided match alike.
Refund(id) ==
  /\ stage[id] = "full"
  /\ Release(id, [p0 |-> terms[id].stake, p1 |-> terms[id].stake, fee |-> 0])

Award(id) ==
  /\ stage[id] = "full"
  /\ LET pot == 2 * terms[id].stake
         rake == (pot * terms[id].rakeBps) \div BPS
     IN \/ Release(id, [p0 |-> pot - rake, p1 |-> 0, fee |-> rake])
        \/ Release(id, [p0 |-> 0, p1 |-> pot - rake, fee |-> rake])

Next == \E id \in Ids : Open(id) \/ Match(id) \/ Return(id) \/ Refund(id) \/ Award(id)

Spec == Init /\ [][Next]_vars

=============================================================================
