----------------------------- MODULE HarvestVault -----------------------------
(***************************************************************************)
(* The no-loss league: HarvestVault.sol and the lending market it supplies,*)
(* the tool that computes the prizes and finalizes a season                *)
(* (scripts/finalize-league.ts with league.ts), and the season page's      *)
(* claims.  One token; seasons of different tokens share nothing.          *)
(***************************************************************************)
EXTENDS Treasury

CONSTANTS
  Savers,
  Amounts,      \* what one deposit puts in
  Fees,         \* yieldFeeBps the owner may set
  Moves,        \* gains and losses of the market position, one at a time
  Wins,         \* cash wins the server's leaderboard may report
  Schedules,    \* <<time to deposit, time to the end>> of a season
  MaxClock, MaxSeasons, MaxDeposits, MaxMoves, MaxRuns  \* bounds

ASSUME VaultAssumption ==
  /\ Amounts \subseteq Nat \ {0} /\ Fees \subseteq 0 .. 3000 /\ Moves \subseteq Int
  /\ Wins \subseteq [Savers -> Nat] /\ Schedules \subseteq Nat \X Nat
  /\ \A s \in Schedules : s[1] < s[2]
  /\ {MaxClock, MaxSeasons, MaxDeposits, MaxMoves, MaxRuns} \subseteq Nat

VARIABLES
  clock,
  seasonsUnlocked, yieldFeeBps,
  seasons,       \* the contract's seasons; their number is nextSeasonId - 1
  active,        \* activeSeasonForToken
  principalOf,
  prizeClaimed,
  vault,         \* the contract's tokens
  market,        \* its position in the lending market
  file,          \* the published prizes-<season>.json, by season
  finalizing,    \* finalize transactions sent and not mined
  hist           \* history: the Deposited events, what was returned, what moved when

knobs == <<seasonsUnlocked, yieldFeeBps>>
book == <<seasons, active, principalOf, prizeClaimed>>
offchain == <<file, finalizing>>
vaultVars == <<clock, knobs, book, vault, market, offchain, hist, treasuryVars>>

Ids == 1 .. MaxSeasons
Nothing == [p \in Savers |-> 0]
Summed(f) == FoldFunction(LAMBDA a, n : a + n, 0, f)
NoSeason == [status |-> "none", deadline |-> 0, end |-> 0, total |-> 0, redeemed |-> 0,
             yieldPot |-> 0, distributed |-> 0, root |-> Nothing]
Created == {s \in Ids : seasons[s].status # "none"}

VaultInit ==
  /\ clock = 0 /\ seasonsUnlocked = FALSE /\ yieldFeeBps = 0
  /\ seasons = [s \in Ids |-> NoSeason] /\ active = 0
  /\ principalOf = [s \in Ids |-> Nothing] /\ prizeClaimed = {}
  /\ vault = 0 /\ market = 0
  /\ file = [s \in Ids |-> Nothing] /\ finalizing = {}
  /\ hist = [deposited |-> [s \in Ids |-> Nothing], returned |-> [s \in Ids |-> Nothing],
             deposits |-> 0, moves |-> 0, runs |-> 0, read |-> {}, stale |-> {}]
  /\ TreasuryInit

-----------------------------------------------------------------------------
(* The owner.                                                              *)

SetSeasonsUnlocked(unlocked) ==
  /\ seasonsUnlocked' = unlocked
  /\ UNCHANGED <<clock, yieldFeeBps, book, vault, market, offchain, hist, treasuryVars>>

SetYieldFee(bps) ==
  /\ bps \in Fees
  /\ yieldFeeBps' = bps
  /\ UNCHANGED <<clock, seasonsUnlocked, book, vault, market, offchain, hist, treasuryVars>>

\* createSeason: one season of the token at a time, since the position in the
\* market is the whole vault's.
CreateSeason(schedule) ==
  LET s == Cardinality(Created) + 1 IN
  /\ s \in Ids /\ clock + schedule[2] < MaxClock /\ seasonsUnlocked /\ active = 0
  /\ seasons' = [seasons EXCEPT ![s] = [NoSeason EXCEPT
       !.status = "open", !.deadline = clock + schedule[1], !.end = clock + schedule[2]]]
  /\ active' = s
  /\ UNCHANGED <<clock, knobs, principalOf, prizeClaimed, vault, market, offchain, hist, treasuryVars>>

-----------------------------------------------------------------------------
(* Deposits and the market.                                                *)

\* deposit: supplied straight to the market.
Deposit(s, p, amount) ==
  /\ hist.deposits < MaxDeposits
  /\ seasonsUnlocked /\ seasons[s].status = "open" /\ clock <= seasons[s].deadline
  /\ principalOf' = [principalOf EXCEPT ![s][p] = @ + amount]
  /\ seasons' = [seasons EXCEPT ![s].total = @ + amount]
  /\ market' = market + amount
  /\ hist' = [hist EXCEPT !.deposits = @ + 1, !.deposited[s][p] = @ + amount]
  /\ UNCHANGED <<clock, knobs, active, prizeClaimed, vault, offchain, treasuryVars>>

\* The market pays interest, or loses part of what it was lent.
MarketMoves(change) ==
  /\ hist.moves < MaxMoves /\ market > 0 /\ market + change >= 0
  /\ market' = market + change
  /\ hist' = [hist EXCEPT !.moves = @ + 1, !.stale = @ \cup hist.read]
  /\ UNCHANGED <<clock, knobs, book, vault, offchain, treasuryVars>>

ClockTick ==
  /\ clock < MaxClock
  /\ clock' = clock + 1
  /\ UNCHANGED <<knobs, book, vault, market, offchain, hist, treasuryVars>>

-----------------------------------------------------------------------------
(* The finalize tool.                                                      *)

\* splitPrizes: by wins, by principal when nobody has a win; the remainder
\* of the rounding goes to the best.
SplitPrizes(wins, principal, pot) ==
  LET weight == IF Summed(wins) > 0 THEN wins ELSE principal
      share == [p \in Savers |-> (pot * weight[p]) \div Summed(weight)]
      who == CHOOSE p \in Savers : /\ principal[p] > 0
               /\ \A q \in Savers : principal[q] > 0 =>
                    \/ wins[p] > wins[q]
                    \/ wins[p] = wins[q] /\ principal[p] >= principal[q] IN
  IF pot = 0 \/ Summed(weight) = 0 THEN Nothing
  ELSE [share EXCEPT ![who] = @ + pot - Summed(share)]

\* The yield as the tool sees it: the vault's position above the principal, or
\* once finalized what the contract says.
EstimatedYield(s) ==
  IF seasons[s].yieldPot > 0 THEN seasons[s].yieldPot
  ELSE IF market > seasons[s].total THEN market - seasons[s].total ELSE 0

Due(s) == seasons[s].status = "open" /\ clock > seasons[s].end

\* One run of the tool, over the Deposited events and the leaderboard's cash wins:
\* it writes the file, and with --broadcast sends the root.
RunTool(s, wins, broadcast) ==
  LET deposited == hist.deposited[s]
      counted == [p \in Savers |-> IF deposited[p] > 0 THEN wins[p] ELSE 0]
      prizes == SplitPrizes(counted, deposited, EstimatedYield(s)) IN
  /\ hist.runs < MaxRuns \/ (broadcast /\ Due(s))
  /\ Summed(deposited) > 0
  /\ file' = [file EXCEPT ![s] = prizes]
  /\ finalizing' = IF broadcast THEN finalizing \cup {[season |-> s, root |-> prizes]} ELSE finalizing
  /\ hist' = [hist EXCEPT !.runs = Min({@ + 1, MaxRuns}), !.read = @ \cup {s},
       !.stale = IF seasons[s].status = "open" THEN @ ELSE @ \cup {s}]
  /\ UNCHANGED <<clock, knobs, book, vault, market, treasuryVars>>

Yield(s) == IF market > seasons[s].total THEN market - seasons[s].total ELSE 0
Fee(s) == (Yield(s) * yieldFeeBps) \div 10000

PotAfterFee(s) == Yield(s) - Fee(s)

\* finalize: everything is withdrawn from the market, the fee comes out of the
\* yield, the rest is the prize pot under the root.
FinalizeSeason(f) ==
  LET s == f.season IN
  /\ f \in finalizing
  /\ finalizing' = finalizing \ {f}
  /\ IF Due(s)
     THEN /\ seasons' = [seasons EXCEPT ![s] = [@ EXCEPT !.status = "finalized",
               !.redeemed = market, !.yieldPot = PotAfterFee(s), !.root = f.root]]
          /\ active' = 0
          /\ vault' = vault + market - Fee(s) /\ market' = 0
          /\ Receive(Fee(s))
          /\ hist' = IF Fee(s) > 0 \/ f.root # file[s] THEN [hist EXCEPT !.stale = @ \cup {s}] ELSE hist
     ELSE UNCHANGED <<seasons, active, vault, market, treasuryVars, hist>>
  /\ UNCHANGED <<clock, knobs, principalOf, prizeClaimed, file>>

-----------------------------------------------------------------------------
(* Claims.                                                                 *)

\* What claimPrincipal would pay: the principal, or its share of what was
\* redeemed after a shortfall.
ClaimablePrincipal(s, p) ==
  IF seasons[s].status = "finalized" /\ seasons[s].redeemed < seasons[s].total
  THEN (principalOf[s][p] * seasons[s].redeemed) \div seasons[s].total
  ELSE principalOf[s][p]

PayBack(s, p, payout) ==
  /\ principalOf' = [principalOf EXCEPT ![s][p] = 0]
  /\ vault' = vault - payout
  /\ hist' = [hist EXCEPT !.returned[s][p] = @ + payout]
  /\ UNCHANGED <<clock, knobs, seasons, active, prizeClaimed, market, offchain, treasuryVars>>

\* Slip: the lock of new seasons also locks the claims.
ClaimPrincipalUnlocked(s, p) ==
  /\ seasonsUnlocked /\ seasons[s].status = "finalized" /\ principalOf[s][p] > 0
  /\ PayBack(s, p, ClaimablePrincipal(s, p))

ClaimPrincipal(s, p) ==
  /\ seasons[s].status = "finalized" /\ principalOf[s][p] > 0
  /\ PayBack(s, p, ClaimablePrincipal(s, p))

\* claimPrize: an amount and its proof verify only against the root they were made for.
ClaimPrize(s, p, amount, root) ==
  /\ seasons[s].status = "finalized" /\ <<s, p>> \notin prizeClaimed
  /\ amount > 0 /\ root = seasons[s].root
  /\ seasons[s].distributed + amount <= seasons[s].yieldPot
  /\ prizeClaimed' = prizeClaimed \cup {<<s, p>>}
  /\ seasons' = [seasons EXCEPT ![s].distributed = @ + amount]
  /\ vault' = vault - amount
  /\ UNCHANGED <<clock, knobs, active, principalOf, market, offchain, hist, treasuryVars>>

\* With what the published file says.
ClaimVaultPrize(s, p) == ClaimPrize(s, p, file[s][p], file[s])

Broadcast(s) == Due(s) /\ finalizing = {} /\ \E wins \in Wins : RunTool(s, wins, TRUE)

VaultAct ==
  \/ \E unlocked \in BOOLEAN \ {seasonsUnlocked} : SetSeasonsUnlocked(unlocked)
  \/ \E bps \in Fees \ {yieldFeeBps} : SetYieldFee(bps)
  \/ \E schedule \in Schedules : CreateSeason(schedule)
  \/ \E s \in Created, p \in Savers : \/ \E amount \in Amounts : Deposit(s, p, amount)
                                      \/ ClaimPrincipal(s, p)
                                      \/ ClaimVaultPrize(s, p)
  \/ \E change \in Moves : MarketMoves(change)
  \/ ClockTick
  \/ \E s \in Created, wins \in Wins, broadcast \in BOOLEAN : RunTool(s, wins, broadcast)
  \/ \E f \in finalizing : FinalizeSeason(f)

VaultNext == VaultAct \/ (Withdraw /\ UNCHANGED <<clock, knobs, book, vault, market, offchain, hist>>)

VaultSpec == VaultInit /\ [][VaultNext]_vaultVars

-----------------------------------------------------------------------------
(* Properties.                                                             *)

\* The variables have their types.
VaultTypeOK ==
  /\ clock \in 0 .. MaxClock /\ seasonsUnlocked \in BOOLEAN /\ yieldFeeBps \in Fees \cup {0}
  /\ active \in 0 .. MaxSeasons /\ vault \in Nat /\ market \in Nat
  /\ treasury \in Nat /\ withdrawn \in Nat
  /\ \A s \in Ids : /\ seasons[s].status \in {"none", "open", "finalized"}
                    /\ seasons[s].distributed \in 0 .. seasons[s].yieldPot
                    /\ principalOf[s] \in [Savers -> Nat] /\ file[s] \in [Savers -> Nat]

\* The position in the market belongs to the one open season, so that finalizing
\* it takes nothing from another.
OnlyActiveOpen ==
  /\ \A s \in Ids : seasons[s].status = "open" <=> s = active
  /\ active = 0 => market = 0

Owing(s) == IF seasons[s].status = "finalized"
            THEN Summed([p \in Savers |-> ClaimablePrincipal(s, p)]) + seasons[s].yieldPot - seasons[s].distributed
            ELSE 0

\* The vault holds what its finalized seasons still have to pay: every principal
\* or share of it, and the whole prize pot, whatever was claimed in which order.
Solvent == vault >= Summed([s \in Ids |-> Owing(s)])

\* Each depositor gets the whole principal back, or after a shortfall the share
\* of it that was recovered, however early or late they claim (finding M-02).
FairShare ==
  \A s \in Ids : seasons[s].status = "finalized" =>
    \A p \in Savers :
      LET put == hist.deposited[s][p] IN
      hist.returned[s][p] + ClaimablePrincipal(s, p) =
        IF seasons[s].redeemed < seasons[s].total
        THEN (put * seasons[s].redeemed) \div seasons[s].total ELSE put

Promised(s) == Summed([p \in Savers |-> IF <<s, p>> \in prizeClaimed THEN 0 ELSE file[s][p]])

\* Every prize the tool published can be claimed, as long as the market stood
\* still since the tool read it, no fee was taken, and the tool ran once.
PrizesPayable ==
  \A s \in Ids \ hist.stale : seasons[s].status = "finalized" =>
    Promised(s) <= seasons[s].yieldPot - seasons[s].distributed

\* The same with a fee, which comes off the yield the tool has split.
PrizesPayableWithFee ==
  hist.runs <= 1 => \A s \in Ids : seasons[s].status = "finalized" =>
    Promised(s) <= seasons[s].yieldPot - seasons[s].distributed

\* Whatever the owner locks, "funds already in a season can always be withdrawn"
\* (HarvestVault.sol:62-65): every deposit is claimed in the end.
PrincipalReturns == []<>(\A s \in Ids : principalOf[s] = Nothing)

\* The vault can pay everything it owes: the position in the market is the one open
\* season's, every principal or fair share and every published prize is covered.
VaultInv ==
  /\ VaultTypeOK
  /\ OnlyActiveOpen
  /\ Solvent
  /\ FairShare
  /\ PrizesPayable
=============================================================================
