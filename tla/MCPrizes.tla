------------------------------- MODULE MCPrizes -------------------------------
(***************************************************************************)
(* The harvest vault and the tournaments for TLC: they share nothing but   *)
(* the treasury, and each runs while the other is at rest.                 *)
(***************************************************************************)
EXTENDS SeasonPage, Tournament

MCSavers == 1 .. 2
\* Whoever deposits alone may have no win.
MCWins == {<<0, 2>>}
MCSchedules == {<<0, 1>>}
MCMoves == {5, -2}

Cup(max, payout) == [fee |-> 10, max |-> max, cut |-> 800, join |-> 0, refund |-> 1, payout |-> payout]
MCEntrants == 1 .. 3
MCSetups == {Cup(3, <<6500, 3500>>), Cup(2, <<10000>>)}
MCSponsorships == {<<2, 7>>}

VaultAtRest == clock = 0 /\ ~seasonsUnlocked /\ yieldFeeBps = 0 /\ Created = {} /\ visits = 0
CupAtRest == now = 0 /\ cup = NoCup /\ away = {}

\* Both modules start the treasury empty and share its variables.
vaultOwn == <<clock, knobs, book, vault, market, offchain, hist>>
cupOwn == <<now, cup, funds, spent, podium, serverVars, mirrors, games, away, faults, lost>>

PrizesInit == SeasonPageInit /\ TournamentInit

\* The vault: time passes, the owner runs the tool once a season is over, its
\* transaction is mined, and depositors claim.
VaultProgress ==
  /\ CupAtRest
  /\ \/ LeavePage
     \/ /\ UNCHANGED pageVars
        /\ \/ ClockTick
           \/ \E s \in Created : Broadcast(s)
           \/ \E f \in finalizing : FinalizeSeason(f)
           \/ ~page.open /\ \E s \in Created, p \in Savers : ClaimPrincipal(s, p)

\* The page is opened on one season without a fee, one deposit of 3 in it or to
\* come; the owner does not change the lock meanwhile, nor the tool publish twice.
PageScope ==
  visits' > 0 => /\ Cardinality(Created') = 1 /\ yieldFeeBps' = 0 /\ Summed(hist'.deposited[1]) \in {0, 3}
                 /\ visits > 0 => seasonsUnlocked' = seasonsUnlocked /\ (file' # file => Due(1))
                 /\ page'.open => clock' <= 2 /\ seasons'[1].end = 1 /\ (page'.soon => seasonsUnlocked')
                 /\ visits > 0 /\ ~page.open => VaultProgress

PrizesNext ==
  \/ CupAtRest /\ SeasonPageNext /\ PageScope /\ UNCHANGED cupOwn
  \/ VaultAtRest /\ TournamentNext /\ UNCHANGED <<vaultOwn, pageVars>>

\* The tournament: time passes, the apps of those who stay keep polling, games
\* end or are claimed, the operator posts results, transactions are mined, and
\* once it is allowed somebody asks for the refund.
TournamentProgress == VaultAtRest /\ CupProgress

\* Each kind of progress happens finitely often, so fairness of a disjunction is
\* fairness of each disjunct.
PrizesSpec ==
  /\ PrizesInit /\ [][PrizesNext]_<<seasonVars, tvars>>
  /\ WF_seasonVars(VaultProgress) /\ WF_tvars(TournamentProgress)
=============================================================================
