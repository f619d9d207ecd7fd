--------------------------- MODULE TournamentEscrow ---------------------------
(***************************************************************************)
(* TournamentEscrow.sol, one tournament: entry fees and sponsorships in,   *)
(* prizes or refunds out, the rest to the treasury.  Each tournament       *)
(* spends its own pool only, so another one would share nothing with it.   *)
(***************************************************************************)
EXTENDS Treasury, SequencesExt

CONSTANTS
  Entrants,
  Setups,        \* what the operator may create: [fee, max, cut, join, refund, payout]
  Sponsorships,  \* bound: <<max, amount>>, what a field of that size may be funded with, once, at time 0
  MaxTime        \* bound

ASSUME CupAssumption ==
  /\ Entrants \subseteq Nat \ {0} /\ Sponsorships \subseteq (Nat \ {0}) \X (Nat \ {0}) /\ MaxTime \in Nat
  /\ \A s \in Setups : /\ {s.fee, s.max, s.cut, s.join, s.refund} \subseteq Nat
                       /\ s.payout \in Seq(Nat)

VARIABLES
  now,
  cup,      \* the tournament and its entrants
  funds,    \* the contract's tokens
  spent,    \* history: what each player has paid in and not got back
  podium    \* history: the winners finalize was given

cupVars == <<cup, funds, spent, podium, treasuryVars>>

BPS == 10000
MAX_CUT_BPS == 2000
MIN_PLAYERS == 2

NoCup == [status |-> "none", fee |-> 0, max |-> 0, cut |-> 0, payout |-> <<>>, pool |-> 0,
          sponsored |-> 0, joinDeadline |-> 0, refundDeadline |-> 0, entrants |-> <<>>]

CupInit ==
  /\ now = 0 /\ cup = NoCup /\ funds = 0 /\ podium = <<>>
  /\ spent = [p \in Entrants |-> 0]
  /\ TreasuryInit

Joined == ToSet(cup.entrants)
Count == Len(cup.entrants)

CreateTournament(s) ==
  /\ cup = NoCup /\ now + s.refund < MaxTime
  /\ s.max >= MIN_PLAYERS /\ s.cut <= MAX_CUT_BPS /\ s.refund > s.join
  /\ Len(s.payout) \in 1 .. s.max /\ FoldSeq(+, 0, s.payout) = BPS
  /\ cup' = [NoCup EXCEPT !.status = "open", !.fee = s.fee, !.max = s.max, !.cut = s.cut,
       !.payout = s.payout, !.joinDeadline = now + s.join, !.refundDeadline = now + s.refund]
  /\ UNCHANGED <<now, funds, spent, podium, treasuryVars>>

JoinCup(p) ==
  /\ cup.status = "open" /\ now <= cup.joinDeadline /\ Count < cup.max /\ p \notin Joined
  /\ cup' = [cup EXCEPT !.entrants = Append(@, p), !.pool = @ + cup.fee]
  /\ funds' = funds + cup.fee /\ spent' = [spent EXCEPT ![p] = @ + cup.fee]
  /\ UNCHANGED <<now, podium, treasuryVars>>

Fund(amount) ==
  /\ cup.status = "open" /\ amount > 0
  /\ cup' = [cup EXCEPT !.pool = @ + amount, !.sponsored = @ + amount]
  /\ funds' = funds + amount
  /\ UNCHANGED <<now, spent, podium, treasuryVars>>

\* The requires of finalize, which a simulation of the call meets as well.
CanFinalize(winners) ==
  /\ cup.status = "open" /\ Count >= MIN_PLAYERS
  /\ Len(winners) \in 1 .. Len(cup.payout) /\ Len(winners) <= Count
  /\ ToSet(winners) \subseteq Joined /\ IsInjective(winners)

Distributable == cup.pool - (cup.pool * cup.cut) \div BPS

Prize(i) == (Distributable * cup.payout[i]) \div BPS

\* The prizes in the order of the table; cut, dust and unfilled places go to
\* the treasury.
Finalize(winners) ==
  LET prizes == [i \in DOMAIN winners |-> Prize(i)]
      distributed == FoldSeq(+, 0, prizes) IN
  /\ CanFinalize(winners)
  /\ cup' = [cup EXCEPT !.status = "finalized"]
  /\ spent' = [p \in Entrants |-> spent[p] - FoldSeq(+, 0,
       [i \in DOMAIN winners |-> IF winners[i] = p THEN prizes[i] ELSE 0])]
  /\ Receive(cup.pool - distributed)
  /\ funds' = funds - cup.pool
  /\ podium' = winners
  /\ UNCHANGED now

UnderFilled == now > cup.joinDeadline /\ Count < MIN_PLAYERS
Stale == now > cup.refundDeadline

\* The sponsor's money stays in the pool.
RefundEntrants ==
  /\ cup.status = "open" /\ (UnderFilled \/ Stale)
  /\ cup' = [cup EXCEPT !.status = "cancelled"]
  /\ spent' = [p \in Entrants |-> IF p \in Joined THEN spent[p] - cup.fee ELSE spent[p]]
  /\ funds' = funds - Count * cup.fee
  /\ UNCHANGED <<now, podium, treasuryVars>>

\* refund: anyone, once under-filled or past the refund deadline.
Refund ==
  /\ cup.status = "open" /\ (UnderFilled \/ Stale)
  /\ cup' = [cup EXCEPT !.status = "cancelled"]
  /\ spent' = [p \in Entrants |-> IF p \in Joined THEN spent[p] - cup.fee ELSE spent[p]]
  /\ Receive(cup.sponsored)
  /\ funds' = funds - Count * cup.fee - cup.sponsored
  /\ UNCHANGED <<now, podium>>

CupStep ==
  \/ \E s \in Setups : CreateTournament(s)
  \/ \E s \in Sponsorships : s[1] = cup.max /\ cup.sponsored = 0 /\ now = 0 /\ Fund(s[2])
  \/ Refund

=============================================================================
