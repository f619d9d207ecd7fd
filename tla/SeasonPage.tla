------------------------------ MODULE SeasonPage ------------------------------
(***************************************************************************)
(* The season page of the app (app/league/page.tsx with lib/league.ts) in  *)
(* front of HarvestVault: what it reads, in which order, what it offers,   *)
(* and the transactions its buttons send.                                  *)
(*                                                                         *)
(* The page never polls: it reads when it opens, when the wallet connects  *)
(* and after a transaction of its own.  A read is answered when it is sent *)
(* and applied when the answer arrives.                                    *)
(***************************************************************************)
EXTENDS HarvestVault

CONSTANTS
  Visitor,        \* the saver whose wallet this is
  LeagueSeason,   \* LEAGUE_SEASON, the one season this build shows
  Purse,          \* the tokens in the wallet
  MaxVisits,      \* bound: times the page is opened
  MaxMishaps      \* bound: reads and transactions that fail, answers that are lost

ASSUME VisitorAssumption ==
  /\ Visitor \in Savers /\ LeagueSeason \in Ids
  /\ {Purse, MaxVisits, MaxMishaps} \subseteq Nat

VARIABLES
  page,     \* the component's state
  reads,    \* refreshes under way: what each asked for, and the answer of that moment
  act,      \* the transaction the page waits for
  purse,    \* the wallet: its tokens, and what the vault may take of them
  visits, mishaps

pageVars == <<page, reads, act, purse, visits, mishaps>>
seasonVars == <<vaultVars, pageVars>>

NoPrize == [amount |-> 0, root |-> Nothing]
Idle == [do |-> "none", at |-> "rest", amount |-> 0, root |-> Nothing]
Shut == [open |-> FALSE, soon |-> FALSE, account |-> FALSE, status |-> "none", locked |-> FALSE,
         mine |-> 0, balance |-> 0, prize |-> NoPrize, fetching |-> FALSE, by |-> "nobody", torn |-> FALSE, dropped |-> FALSE]

\* What the node answers to each read of a refresh.
Season == seasons[LeagueSeason].status
Own == [mine |-> ClaimablePrincipal(LeagueSeason, Visitor), balance |-> purse.balance]
Answer(step) == CASE step = "season" -> Season [] step = "lock" -> ~seasonsUnlocked [] step = "own" -> Own

\* Who asked: the opening of the page, the wallet that connects, a button.
Refresh(who) == [who |-> who, step |-> "season", got |-> Season]

SeasonPageInit ==
  /\ VaultInit
  /\ page = Shut /\ reads = {} /\ act = Idle /\ visits = 0 /\ mishaps = 0
  /\ purse = [balance |-> Purse, allowance |-> 0]

-----------------------------------------------------------------------------
(* What the page shows and offers.                                         *)

Locked == page.soon \/ page.locked
HasClaimable == page.mine > 0 \/ page.prize.amount > 0
DepositsOpen == page.status = "open" /\ clock < seasons[LeagueSeason].deadline

\* Slip: the gate looks at the lock alone.
ScreenLocked ==
  IF Locked THEN "soon" ELSE IF ~page.account THEN "connect" ELSE IF page.status = "finalized" THEN "claims"
  ELSE IF DepositsOpen THEN "deposit" ELSE "wait"

Screen ==
  IF Locked /\ ~HasClaimable THEN "soon" ELSE IF ~page.account THEN "connect"
  ELSE IF page.status = "finalized" THEN "claims" ELSE IF Locked THEN "soon"
  ELSE IF DepositsOpen THEN "deposit" ELSE "wait"

Free == page.open /\ act = Idle
OffersPrincipal == Free /\ Screen = "claims" /\ page.mine > 0
OffersPrize == Free /\ Screen = "claims" /\ page.prize.amount > 0

-----------------------------------------------------------------------------
(* Reading.                                                                *)

\* The first refresh runs while the wallet is still connecting.
OpenPage ==
  /\ ~page.open /\ visits < MaxVisits
  /\ \E soon \in BOOLEAN : page' = [Shut EXCEPT !.open = TRUE, !.soon = soon]
  /\ reads' = {Refresh("open")} /\ visits' = visits + 1
  /\ UNCHANGED <<vaultVars, act, purse, mishaps>>

\* A season object or an account that is new fetches the prize file.
Fetches(account, status) == account /\ status = "finalized"

ConnectWallet ==
  /\ page.open /\ ~page.account
  /\ page' = [page EXCEPT !.account = TRUE, !.fetching = @ \/ Fetches(TRUE, page.status)]
  /\ reads' = reads \cup {Refresh("wallet")}
  /\ UNCHANGED <<vaultVars, act, purse, visits, mishaps>>

\* tx's finally, and the line of claimPrize after it, which drops the prize either way.
Released(p, who) == IF who = "prize" THEN [p EXCEPT !.prize = NoPrize, !.dropped = TRUE] ELSE p
Ends(r) == IF r.who = act.do THEN act' = Idle ELSE UNCHANGED act

NextStep == [season |-> "lock", lock |-> "own"]

Applied(r) ==
  CASE r.step = "season" -> [page EXCEPT !.status = r.got, !.by = r.who, !.torn = TRUE,
                                         !.fetching = @ \/ Fetches(page.account, r.got)]
    [] r.step = "lock" -> [page EXCEPT !.locked = r.got]
    [] r.step = "own" -> [page EXCEPT !.mine = r.got.mine, !.balance = r.got.balance, !.torn = page.by # r.who]

\* One await of refresh comes back and the next read is sent.
ApplyRead(r) ==
  /\ r \in reads
  /\ IF r.step = "own" \/ (r.step = "lock" /\ r.who = "open")
     THEN /\ reads' = reads \ {r} /\ Ends(r)
          /\ page' = Released(Applied(r), r.who)
     ELSE /\ page' = Applied(r) /\ UNCHANGED act
          /\ LET next == NextStep[r.step] IN
             reads' = (reads \ {r}) \cup {[r EXCEPT !.step = next, !.got = Answer(next)]}
  /\ UNCHANGED <<vaultVars, purse, visits, mishaps>>

\* A read of the season or of the balances throws; a lock that cannot be read is open.
FailRead(r) ==
  /\ r \in reads /\ mishaps < MaxMishaps /\ mishaps' = mishaps + 1
  /\ IF r.step = "lock" /\ r.who # "open"
     THEN /\ page' = [page EXCEPT !.locked = FALSE] /\ UNCHANGED act
          /\ reads' = (reads \ {r}) \cup {[r EXCEPT !.step = "own", !.got = Own]}
     ELSE /\ reads' = reads \ {r} /\ Ends(r)
          /\ page' = [Released(page, r.who) EXCEPT
               !.torn = TRUE, !.locked = IF r.step = "lock" THEN FALSE ELSE @]
  /\ UNCHANGED <<vaultVars, purse, visits>>

\* The published file of the season, as it is now; no claim of this account is no prize.
FetchPrize ==
  /\ page.fetching
  /\ LET amount == file[LeagueSeason][Visitor] IN
     \/ /\ page' = [page EXCEPT !.fetching = FALSE, !.dropped = FALSE,
              !.prize = IF amount > 0 THEN [amount |-> amount, root |-> file[LeagueSeason]] ELSE NoPrize]
        /\ UNCHANGED mishaps
     \/ /\ mishaps < MaxMishaps /\ mishaps' = mishaps + 1
        /\ page' = [page EXCEPT !.fetching = FALSE, !.prize = NoPrize, !.dropped = TRUE]
  /\ UNCHANGED <<vaultVars, reads, act, purse, visits>>

-----------------------------------------------------------------------------
(* The buttons.                                                            *)

Press(do, at, amount, root) ==
  /\ act' = [do |-> do, at |-> at, amount |-> amount, root |-> root]
  /\ UNCHANGED <<vaultVars, page, reads, purse, visits, mishaps>>

PressDeposit(amount) ==
  /\ Free /\ Screen = "deposit" /\ amount <= page.balance
  /\ Press("deposit", "allowance", amount, Nothing)
PressPrincipal == OffersPrincipal /\ Press("principal", "sent", 0, Nothing)
PressPrize == OffersPrize /\ Press("prize", "sent", page.prize.amount, page.prize.root)

\* deposit: approve only when the allowance falls short, and wait for it.
Approve ==
  /\ act.at = "allowance"
  /\ act' = [act EXCEPT !.at = "sent"]
  /\ purse' = [purse EXCEPT !.allowance = IF @ < act.amount THEN act.amount ELSE @]
  /\ UNCHANGED <<vaultVars, page, reads, visits, mishaps>>

\* The transaction as the vault takes it, or refuses it.
PageDeposit ==
  /\ purse.balance >= act.amount /\ purse.allowance >= act.amount
  /\ Deposit(LeagueSeason, Visitor, act.amount)
  /\ purse' = [balance |-> purse.balance - act.amount, allowance |-> purse.allowance - act.amount]
PagePrincipal ==
  /\ ClaimPrincipal(LeagueSeason, Visitor)
  /\ purse' = [purse EXCEPT !.balance = @ + ClaimablePrincipal(LeagueSeason, Visitor)]
PagePrize ==
  /\ ClaimPrize(LeagueSeason, Visitor, act.amount, act.root)
  /\ purse' = [purse EXCEPT !.balance = @ + act.amount]
Accepted ==
  \/ act.do = "deposit" /\ PageDeposit
  \/ act.do = "principal" /\ PagePrincipal
  \/ act.do = "prize" /\ PagePrize
Unmined == UNCHANGED <<vaultVars, purse>>
Refused == ~ENABLED Accepted /\ Unmined

\* The receipt arrives, whatever it says of the transaction, and the page refreshes.
TransactionMined ==
  /\ act.at = "sent"
  /\ Accepted \/ Refused
  /\ act' = [act EXCEPT !.at = "mined"]
  /\ reads' = reads \cup {Refresh(act.do)'}
  /\ page' = [page EXCEPT !.by = "nobody"]
  /\ UNCHANGED <<visits, mishaps>>

\* The wallet or the node refuses, or the receipt never comes, mined or not.
TransactionFails ==
  /\ act.at \in {"allowance", "sent"} /\ mishaps < MaxMishaps /\ mishaps' = mishaps + 1
  /\ (act.at = "sent" /\ Accepted) \/ Unmined
  /\ act' = Idle
  /\ page' = [Released(page, act.do) EXCEPT !.torn = TRUE, !.by = "nobody"]
  /\ UNCHANGED <<reads, visits>>

\* The tab closes; what was sent may still be mined.
LeavePage ==
  /\ page.open
  /\ (act.at = "sent" /\ Accepted) \/ Unmined
  /\ page' = Shut /\ reads' = {} /\ act' = Idle
  /\ UNCHANGED <<visits, mishaps>>

PageSteps ==
  \/ OpenPage \/ ConnectWallet \/ FetchPrize \/ LeavePage
  \/ \E r \in reads : ApplyRead(r) \/ FailRead(r)
  \/ \E amount \in Amounts : PressDeposit(amount)
  \/ PressPrincipal \/ PressPrize \/ Approve \/ TransactionMined \/ TransactionFails

\* While the page is open its wallet acts through it alone.
Elsewhere ==
  /\ VaultNext /\ UNCHANGED pageVars
  /\ page.open => \A s \in Ids : /\ principalOf'[s][Visitor] = principalOf[s][Visitor]
                                 /\ <<s, Visitor>> \in prizeClaimed' => <<s, Visitor>> \in prizeClaimed

SeasonPageNext == PageSteps \/ Elsewhere

-----------------------------------------------------------------------------
(* Properties.                                                             *)

PageTypeOK ==
  /\ page.status \in {"none", "open", "finalized"}
  /\ page.mine \in Nat /\ page.balance \in Nat /\ page.prize.amount \in Nat
  /\ purse.balance \in Nat /\ purse.allowance \in Nat
  /\ Cardinality(reads) <= 3 /\ act.at \in {"rest", "allowance", "sent", "mined"}

\* Nothing the page waits for is outstanding and none of it failed.
AtEase == page.open /\ page.account /\ reads = {} /\ act = Idle /\ ~page.fetching /\ ~page.torn

\* Of a finalized season the page never shows more than a claim returns, the market
\* lost money or not: the season is read before the claim (refresh).
FigureHonest ==
  AtEase /\ page.status = "finalized" => page.mine = ClaimablePrincipal(LeagueSeason, Visitor)

\* Whoever has money in a finalized season is offered it, whatever is locked, and a
\* prize of the published file as well ("a gate never traps", page.tsx:209).
GateNeverTraps ==
  AtEase /\ page.status = "finalized" =>
    /\ ClaimablePrincipal(LeagueSeason, Visitor) > 0 => OffersPrincipal
    /\ ~page.dropped /\ LeagueSeason \notin hist.stale /\ file[LeagueSeason][Visitor] > 0 /\ <<LeagueSeason, Visitor>> \notin prizeClaimed
       => OffersPrize

\* The vault can pay what it owes, and the page offers it.
SeasonInv ==
  /\ VaultInv
  /\ PageTypeOK
  /\ FigureHonest
  /\ GateNeverTraps
=============================================================================
