# Awalé On-Chain: models and proofs

Two players stake equal sums on a game of Oware. `contracts/src/MatchEscrow.sol`
holds the stakes and settles; `packages/game-server` runs the live game, collects
the players' session-key signatures, keeps the escrow moving and counts what has
been settled; `packages/engine` and `AwaleRules.sol` play the rules; the app lets
people find each other, play, claim and collect. Around that there are weekly
prizes, tournaments, a no-loss savings league, correspondence games and a shop.

The modules here model who gets the money, what is remembered about a game, and
how two players come to sit at the same one. TLC checks them on small instances;
TLAPS proves the safety of twelve of them for every instance.

    tlc -workers 2 -config <run>.cfg <module>      check a run of section 4
    tlapm <Module>_proofs.tla                      check the proofs of section 5

## 1. The system

| Component | State | Operations | Talks to |
|---|---|---|---|
| Match escrow (`MatchEscrow.sol`) | matches, invite hashes, next id, owner settings, token balances | create, join, finalizeStart, cancel, settleSigned, proposeResult, challenge, finalize, voidExpired, setters | tokens, replay verifier; called by players, server, anyone |
| Replay verifier, rule engine (`ReplayVerifier.sol`, `AwaleRules.sol`, `engine/awale.ts`, `ai.ts`) | none | verify, applyMove, adjudicate, search | escrow; live match |
| Live match and hub (`match.ts`, `hub.ts`) | board, moves and signatures, clocks, draw offer; the map of matches | submitMove, resign, offerDraw, acceptDraw, forfeit, snapshot, rehydrate; open, restore, close | snapshot store |
| Sockets (`server.ts`) | rooms, timers, queues, cash pairs, tables, rematch offers | move, resign, draw, watch, result-sig, queue, cash-\*, rematch-\*, disconnect | hub, coordinator |
| Settlement, keeper, anti-cheat (`settlement-coordinator.ts`, `keeper.ts`, `chain.ts`, `listener.ts`, `main.ts`) | pending signatures, tracked, terminal and challenged ids | submit, keeperTick, rescanTick, watchers | hub, escrow |
| Settled ledger (`settled-ledger.ts`, `main.ts`) | counted ids and their cache, cursor, money board | claim, release, watcher, backfill sweep | league |
| Matchmaking, cash pairing (`matchmaking.ts`, `pairing-core.ts`, `cash-pair-store.ts`) | waiting players, pairs under way | enqueue, sweep, pair, abort, recover | sockets, apps, escrow |
| Weekly race and prizes (`weekly-league.ts`, `league-prizes.ts`, `weekly-prizes.ts`, `WeeklyPrizes.sol`) | weeks, pot, carry, pending prizes, rounds | recordGame, rollover, credit, take, restore, publishRound, claim, sweep | ledger, tokens |
| Correspondence (`async-match.ts`, `AsyncMatch.tsx`) | one record per match | create, join, move, resign, claimTimeout | match store, profiles |
| Tournaments (`TournamentEscrow.sol`, `tournament/`) | entrants, pool, bracket, phase | create, join, fund, finalize, refund; register, start, reportResult, walkover | correspondence games |
| Harvest vault (`HarvestVault.sol`, `finalize-league.ts`) | seasons, principal, yield | createSeason, deposit, finalize, claimPrincipal, claimPrize, setters | lending market, treasury |
| Treasury, cosmetics (`Treasury.sol`, `Cosmetics.sol`) | balances; items and owners | receive, withdraw; createItem, setItemPrice, buy, ownerMint | shop page |
| Profiles, quests, retention (`profile/`, `retention.ts`), daily puzzle (`lib/daily.ts`) | one profile per player; the device's own streak | daily solve, games, quests, nudges | most routes |
| Notifications, social (`notifications/`, `social/store.ts`, `InboxCard.tsx`) | inbox, push subscriptions, challenges, friends | notify, subscribe, challenge, dismiss, befriend | most routes, home screen |
| Statistics (`indexer/`, `lib/stats.ts`) | none: a scan of the log | scan by windows, fall back, compute figures | escrow's events |
| Lobby (`lobby-service.ts`, `lib/lobby.ts`, `CrossMatchOffer.tsx`) | cached scan; matches a device knows | list, join, follow the card, cancel | escrow |
| App pages (`LiveMatch.tsx`, `QuickMatch.tsx`, `MatchActions.tsx`, `shop/page.tsx`, `league/page.tsx`, `daily/page.tsx`) | screen, session keys | what the player presses | everything above |

What makes it hard, and what therefore has properties:

* **Calls in any order by anyone.** Every escrow entry point may be called by
  either player, the server or a stranger, while the owner changes settings. Each
  match pays out once, exactly what it took in, on the terms it was joined on.
* **Disputes.** A claim opens a window; the transcript both keys signed decides.
* **Awaits.** Node handlers check, await a signature, a store or a chain read, and
  then act on what may have changed. So do the pages of the app.
* **Restarts.** Snapshots are saved without waiting; timers, queues, tracked ids
  and brackets are in memory.
* **Delivery.** Events get lost, nodes lag, transactions are mined late, reverted
  or never, answers are lost after the work was done.
* **Whole-record saves.** League weeks, profiles, correspondence games, inboxes and
  pending prizes are loaded, changed and saved: two of them at once undo one another.

`PROJECT.json` lists the hazards line by line with the properties that watch them.

## 2. The modules

A module says in its header what it models, and in comments which function an
action is. `vars`-like tuples, an `Init`, one action per operation, a `Next` and a
specification are in each. A field or variable marked "history" is not in the code;
a constant marked "bound" caps what the code does not.

| Module | Extends | Models |
|---|---|---|
| `StakeCustody` | | the promise of the escrow without its routes: a seat is funded, then the other, and one release hands out a refund, a split or a win |
| `MatchEscrow` | | `MatchEscrow.sol`, implements `StakeCustody` |
| `MatchServer` | `MatchEscrow` | coordinator, keeper, rescan and anti-cheat watcher around the escrow |
| `LiveMatch` | | one staked match in the hub, its requests, clock and snapshot |
| `LiveClient` | | the page of a staked match, from either seat |
| `AwaleRules`, `GameReplay`, `Ai` | each the one before | sowing, capture and endings (`awale.ts`); server and contract replaying one game; the search and the daily puzzle |
| `SettledLedger` | | how settled matches are counted |
| `WeeklyRace` | | the week's record, rollover, both payouts, claims |
| `CashPairing` | | staked quick match: queues, pairs, create and join, recovery |
| `QuickMatch` | | free games, their queue, rematches |
| `Lobby` | | open matches and how players find each other in them |
| `Correspondence` | | correspondence games |
| `Profiles`, `DailyPage` | the second the first | streaks, quests, nudges; the daily puzzle's page and the streak on the device |
| `Inbox` | | the inbox and its card, push subscriptions, challenges, friends |
| `Bracket`, `TournamentEscrow`, `Tournament` | `Treasury` | the bracket as a function; the escrow; the service and the apps around both |
| `HarvestVault`, `SeasonPage` | `Treasury`; the vault | the vault, its market, the tool that finalizes; the league page in front of it |
| `Treasury` | | the treasury the others pay |
| `Shop` | | a limited skin: `Cosmetics.sol` and its page |
| `Indexer` | | the scan of the escrow's log and the public figures |

`MC*` modules give constants their values and compose what one run checks together.
The parts of one composition share no state (vault and cups share the treasury they
pay into), so each runs while the others are at rest, which loses no behaviour of any
of them.

### How state and actions correspond to the code

**MatchEscrow.** `matches`, `inviteHash`, `nextMatchId` and `owned` are the
contract's storage, `pool` its token balance. One action is one successful
transaction; a call that reverts is no step. `now` and `height` are the block's
timestamp and number; several transactions may share a block. `paid` and `fees`
are history. The game is `game[id]`: how many moves both session keys have signed,
and whether the replay of all of them has ended. A session key signs one move per
ply, so a transcript is named by its match, first mover and length; a wrong first
mover or another match's transcript is still expressible, and `OtherHash` commits
to no signed transcript. The seven setters are `Administer`. Tokens move exactly
the amount asked.

**MatchServer.** `txs` are submitted transactions: `Mine` executes the escrow's
action if it is enabled then and reverts otherwise, `LoseTx` drops one. `Players`
are direct calls by anyone. The hub is reduced to held, over, winner, and whether
it has every signed move. `Keep` is one tracked match in one `keeperTick`; it does
not submit again what is pending, which is what a second submission amounts to.

**LiveMatch.** `room` is the hub's `Match`, `store` its snapshot, `timer` the entry
of `turnClockTimers`. `Send*` is a handler up to `await recoverAddress`, `Finish*`
the rest; a request whose signature is wrong changes nothing and is left out. The
board is reduced to how a move leaves the game. `Persist` is the fire-and-forget
save, which lands or does not. `hasty` remembers that a client sent a request
before the last was answered. Clocks have no length, so the one-off reconnection
grace, which moves a timer back, is a timer that has not fired yet.

**LiveClient.** `match` is the chain, `lag` the view of a node that may be one change
behind, `page` the screen, `key` what the device keeps, `tx` transactions under way,
`mail` the socket. The other player's page is reduced to what it sends. Approvals,
draw and resign requests, the countdown and the overlay are left out.

**GameReplay.** Server and contract share the operators of `AwaleRules`, which both
sources mirror; their two adjudications stand side by side: a map of positions
cleared at captures, and an array of hashes.

**SettledLedger.** The watcher's `onSettled` calls and the sweep's, a step being what
runs between two awaits; `league` and `board` say how often each match is counted,
`copy` what a call loaded and will save back. `counted` is the id set in the store,
`cache` the one in memory. `failures` counts failing calls and crashes and their
kinds: a property that survives only some kinds says so with `OnlyFailed`, and one
that needs the sweep alone with `SweepAlone`.

**WeeklyRace.** One step is what runs between two awaits of a Redis call; both
deployments (custodial with an identity check, and the distributor contract). The
changes of a winner's prizes that overlapped are remembered in `ledger.raced`, and
the properties of the passing run exclude just those. Two overlapping rollovers do
not happen here, and the server first boots in week 1.

**CashPairing, QuickMatch.** A connection is a socket id, never reused. The server's
messages to it arrive in order or are lost with it. Ratings matter in the first (the
widening windows of the cash pools) and are left out of the second. A session key of
`QuickMatch` is named by the connection and the rematch offer it was made for, which is
all two keys need to be told apart by.

**Lobby.** Equal stakes; a transaction is mined at any time after it is sent; a page
waits for it, gives up, or is closed (`breaks`).

**Correspondence, Profiles.** A request loads a record, derives the next and saves it,
with awaits in between. `clobbered` and `undone` are history: a save has overwritten a
later one. The app plays correspondence under session-key addresses
(`asyncClient.ts:45-51`), so the two share no state.

**Tournament.** The operator posts the results; the app's own report carries no secret
and is refused. Games are reduced to who joined and who won.

**HarvestVault, SeasonPage.** One token; the market gains or loses at any time. The tool
reads the vault, then sends finalize, and both may be apart. The page is the component of
`league/page.tsx`: `reads` are refreshes under way, each with the answer of the moment
one of its steps was asked; `act` is the transaction it waits for. `torn` and `dropped`
remember that refreshes overlapped and that a failed claim took the prize off the page.
The claim of a prize is checked and sent in one step and mined in another.

**DailyPage.** `device` is `awale_daily` of the device's localStorage, `posts` are reports
on their way to the server; the puzzle is chosen when the page opens and the day is read
again when it is solved. `silent` and `late` remember solves nobody reported or reported
on another day.

**Inbox.** Each list is loaded, changed and saved; `overwrote` remembers that a save undid
another, `passedBy` what came beside a card or below the rows it shows.

**Indexer.** Time runs in blocks; the log grows while the scan goes from window to window
and falls back to the recent blocks when the node refuses.

**Shop.** The page's reads come from a node that may be one change behind; the tries
of `sendWithStaleRetry` (8) and the price headroom (20 times) are 2 here.

## 3. Where the models stop

What each leaves out, beyond what section 2 says:

* Signatures are unforgeable and hashes collision-free. A session key that has
  signed two moves at one ply (after a lost save and a crash) is outside the
  transcript abstraction of `MatchEscrow`.
* Chain reorganisations; gas; logging and notifications, unless one is a step whose
  failure matters.
* `MatchServer`: the parking of matches whose expiry reverts with "not a player",
  which the contract no longer does.
* `GameReplay`: real boards have 12 pits of 4 seeds; the runs use boards of 2 and 3
  houses a side. `TranscriptFits` with the code's constants is 1000 plies of
  `MAX_PLIES` = 4096. The blunder rate and the depth per difficulty of the AI are
  not behaviour the properties see.
* `CashPairing`: one stake band; the Redis queue, which `main.ts` does not use.
* `WeeklyRace`: the trophy; all games are between the same two players.
* `Profiles`: ratings, flags and referrals.
* `SeasonPage`: the testnet faucet and the on-ramp link. `Inbox`: texts, links and keys.
  `Indexer`: retention rates.
* `Tournament`: tournaments are retired in `main.ts:461-466` but the code is whole.
* `Shop`: royalties, metadata, the rank gate, and skins passed on.
* Not modelled at all: the VRF first mover, which nothing calls; personhood, ODIS
  and bot statistics (outside services, statistics over moves); EIP-712 encodings; the store adapters,
  whose failures are failures of the calls above; the board, practice, profile and
  leaderboard pages.

## 4. What TLC checks

A property ending in `Inv`, and `HistoryKept`, `CreditsLast`, `MatchesFreed`,
`SeatsMatch`, `NothingTakenBack`, `CupEnds`, `PageMoves`, `AppAnswers`,
`AnswersExact`, is a conjunction of named parts: the module's one type invariant and
the properties its comments state one by one.

| Run | Properties | Bounds |
|---|---|---|
| `escrow_claims` | `EscrowInv`, `CustodyKept` (refines `StakeCustody`), `TermsFrozen`, `InWindowOnlyTruth`, `TrueClaimPrevails` | 1 match, 2 players, 2 keys, stakes 1 and 25 (rake rounds to 0 and to 2), 2 plies, time 4 and deadlines of 2: stakes at 0, a claim at 2, a window of 1 or 2, payment after it; the reveal block's hash ages out after 1 block, which re-arming needs |
| `escrow_release` | `Solvent`, `EveryStakeReleased` | 2 matches on one token, 2 treasuries, no plies |
| `live_play` | `MatchInv`, `TranscriptVerifies`, `HistoryKept`, `EveryGameEnds` | 2 requests under way, 2 plies, 1 crash |
| `server_keeper` | `MatchesFreed` | 1 match, 1 fault, time 4 |
| `server_anticheat` | `FalseClaimNeverPaid` | 1 match, 1 ply, no faults, events and transactions within a block |
| `settled` | `LedgerInv`, `CreditsLast`; `PayoutInv`, `PotConserved`, `WeekCloses` | 2 matches, one of them the watcher's, 2 failures; 3 weeks, both deployments, 1 tap, 1 failure or crash |
| `cash_pairing` | `PairingInv`, `SeatsMatch`, `CompatibleMeet`; `InboxInv` | 2 players, one search each (stakes 2 and 1, ratings that meet at the backstop), 1 blink, 1 unseen receipt, 1 restart; 2 tags, 2 items, 2 challenges to one match, a card of 1 row, 2 handlers at a time of 4, 1 outage |
| `prizes` | `SeasonInv` (with the vault's `VaultInv`), `PrincipalReturns`; `CupInv`, `CupEnds` | 2 seasons, 2 savers, 2 deposits, 1 market move, a fee of 30 %; the page opened once on one season, a purse of 3, 1 mishap; cups of 2 and 3 players, 2 games, 1 fault |
| `players` | `RecordInv`, `EveryGameEnds`; `DailyInv` (with `ProfileInv`); `NothingTakenBack` (of both) | 2 friends at one link, 2 requests, 2 plies, 1 fault; days 3 and 4, 3 operations, 2 at a time, 1 mishap |
| `rules` | `BoardInv`, `EngineAgrees`, `AnswersExact` | every game on a board of 2 houses of 2 seeds with cycles, and of 3 houses with chains of captures; search to depth 3 up to ply 12, and the puzzle of every position |
| `app` | `PageInv`, `PageMoves`; `QuickInv`; `LobbyInv`; `ShopInv`; `IndexerInv`; `AppAnswers` (`QuickMeets`, `LobbyMeets`, `PressAnswered`) | 1 mishap at the page; 2 friends, 3 sockets each, 2 tables, 1 lapse; 2 players, 3 rooms, 2 keys, 1 break; 2 units, 2 presses, 1 edit, 1 slip; 2 matches, blocks 0 to 2 in windows and days of 2 |
| `race_double` | `NeverPaidTwice`, violated | 2 taps, no trouble |

`FiguresExact` and `RecentShort` need a scan of more than one window and a recent window
shorter than the chain, which blocks 0 to 2 give. Two players suffice for a match of two seats, two matches to steal from one another,
two requests for a race, two settlements for two chunks. Cups of three have a bye;
three rooms let two players each follow the other's card. Players and keys are
interchangeable in `escrow_claims`, the only run with a symmetry; it has no liveness.

`MCSettled`, `MCPrizes`, `MCPlayers` and `MCApp` put components side by side that
share no state (the vault and the cups share the treasury only, and one's part of it
stays empty while the other runs): each runs while the others are at rest, so the
reachable states are those of each component in turn. `MCPlayers` has the two-part
`NothingTakenBack`; the fairness of race, vault and cups is there with its reasons.

Every property has a mutant in `PROJECT.json`: a slip of the code (defined next to
the definition it replaces) under which the run fails.

Deadlock is checked in the escrow runs: the owner can always set something. The
others really stop: a finished match with its crashes used up, matches all closed or
counted, everybody gone home.

### Conditions inside properties

A property that holds only while something did not happen says what: `hasty` (live
play), `SweepAlone` and `OnlyFailed` (ledger), `lied` (a result claimed by hand past
the page), `breaks = 0` (the two properties of the card; the third, `GuestKeyed`, has
none), `again` (Join pressed a second time), `clobbered` and `undone` (a save that
overwrote a later one), `ledger.raced` (two changes of one winner's prizes at once),
`faults.astray` and its like (cash pairing), `torn` and `dropped` (the league page),
`late` and `silent` (the daily puzzle), `overwrote` and `passedBy` (the inbox), and in
`QuickMatch` the keys of a player's first offer at a table (a later one may cross the
answer to the first). The excluded
cases are not removed from the models; what goes wrong in them is in the list of
behaviours below (section 6).

### Fairness

* `MatchEscrow`: blocks are produced; `finalize` and `voidExpired` are permissionless,
  and the keeper calls them every minute. The keeper does not void an Open match
  nobody joined; there the fairness stands for its creator.
* `LiveMatch`: a client that shows a match watches it again every few seconds, which
  opens or restores it and arms the clock; time passes; due timers run. No player is
  assumed to move.
* `MatchServer`: blocks, `keeperTick`, `rescanTick`, events that are not lost, and the
  inclusion of the server's transactions. No player is fair.
* `SettledLedger`: started calls go on, the sweep runs every five minutes. Nothing is
  assumed of the watcher.
* `WeeklyRace`: the tick runs, what has started goes on, transactions are mined.
* `CashPairing`: timers and the server's sweep.
* `LiveClient`: the page's effects, its poll, the socket's reconnection and the pressed
  Collect; blocks; nodes catch up. The keeper has no fairness, which is the point of
  `ClaimantPaid`.
* `QuickMatch`: a page handles what it hears; a search that has not ended asks again.
* `Lobby`: the cached scan, mining, and that two players who are shown each other
  follow the card (`PlayThem`). `RoomsMeet` is about players with a key left, since
  the number of keys is a bound of the model.
* `Correspondence`: the tournament clock, answers, requests under way; strong fairness
  for the creator's play or claim, because the bound on requests under way, which is
  the model's, disables it now and then.
* Vault and cups: time passes, the owner runs the tool when a season is over, savers
  claim; players who stay keep polling, the operator posts results, somebody calls the
  refund.
* `Shop`: mining, and the page's own steps.

## 5. What is proved

Each `*_proofs` module extends the modules it is about (`MatchServer_proofs` the escrow
and the server around it, `Contracts_proofs` the replay and the vault, `App_proofs` the
lobby, the shop and the free games) and proves, for all values of the constants that the
module's assumptions admit (any number of players, matches, requests, crashes, keys, ...;
the bounds of the runs are just numbers here):

| Theorem | States | In words |
|---|---|---|
| `MatchServer_proofs.BooksBalance` | `EscrowInv` | well typed; a match pays nothing before it closes, then exactly its deposits, the fee within the cap |
| `TermsAreFrozen` | `TermsFrozen` | no transaction changes the terms of a match under way, a closed match never changes |
| `TrueClaimsPrevail` | `TrueClaimPrevails` | a true, fully bound claim stands until it is paid as claimed |
| `WindowPaysTruth` | `InWindowOnlyTruth` | inside its window a claimed match pays only the outcome of a game both keys signed to its end |
| `CustodyImplemented` | `CustodyKept` | the escrow implements `StakeCustody`, step by step |
| `ServerIsEscrow` | `Spec` of the escrow | whatever server, keeper, watchers, restarts and lost or repeated transactions do, each step on chain is one the escrow allows |
| `ServerKeepsTruth` | the four escrow properties | so the theorems above hold around the server |
| `LiveMatch_proofs.EndingsWarranted` | `MatchInv` | an ending has its cause; the snapshot never runs ahead |
| `TranscriptsVerify` | `TranscriptVerifies` | with clients that wait for answers, what the hub holds verifies move by move |
| `HistoryStands` | `HistoryKept` | nothing is appended to a finished match, nothing rewritten |
| `LiveClient_proofs.PageIsTrue` | `PageInv` | the device keeps the key of its seat; the screen ends as the chain did; a dispute answers a real claim; only the announced winner is paid |
| `SettledLedger_proofs.CountedOnce` | `LedgerInv` | the sweep credits once, never without the stored claim, and the cursor passes over nothing |
| `NothingSkipped` | | all the cursor has passed is in the store, not merely in hand |
| `CreditsStand` | `CreditsStay` | one credit never undoes another (the safety half of `CreditsLast`) |
| `Contracts_proofs.ContractAgrees` | `EngineAgrees` | on every board and in games of any length the contract replays to the server's game |
| `RepetitionsAgree` | | the server's count is the number of places in the contract's array |
| `MarketIsTheOpenSeasons` | `OnlyActiveOpen` | the position that finalize withdraws is one season's |
| `SharesAreFair` | `FairShare` | the order of claims does not decide what a depositor gets |
| `PotsLast` | `NeverOverdrawn` | whatever root the owner publishes, prizes stay within the season's pot |
| `Correspondence_proofs.RecordHolds` | `RecordInv` | a reported result is the engine's or warranted, whatever saves undo; while none undoes another it is reported once and keys open their seats |
| `RecordKept` | `RecordOnlyGrows` | requests that undo no other take back no move, no end, no seat and no clock |
| `App_proofs.LobbyHolds` | `LobbyInv` | a guest keeps the key of the seat; the card neither crosses two players nor leaves a stake behind |
| `ShopHolds` | `ShopInv` | the sale's books balance; what is shown as owned is owned; a refused purchase took nothing; a press buys once, and once more for each answer lost |
| `QuickHolds` | `QuickInv` | two different players sit at a free game, each with the key the server knows for the seat |
| `CashPairing_proofs.PairingHolds` | `PairingInv` | a connection has one place; a pair is in the store with its match; a creator with a stake on the table has an answer coming |
| `SeatsHold` | `SeatsMatch` | nobody stakes more than they asked for; the joiner keeps the key its seat was taken with |

### The inductive invariants, and why they are needed

TLC checks each of them as an invariant on the instances of section 4 as well.

* **Escrow.** `IInv == TypeOK /\ Conserved /\ Fresh`. A release adds to `paid`, so it
  needs to know that nothing had been paid: `Conserved` says so of live matches, and
  `Fresh` (ids from `nextMatchId` on are unused) lets a creation start from nothing.
  `RakeBounds` keeps the rounded-down rake within the pot and its cap. The action
  properties use `IInv` before the step; `WindowPaysTruth` and `TrueClaimsPrevail`
  follow the dispute rules: a challenge with the whole transcript replays to its
  winner, a shorter prefix does not match the commitment, and a game that has ended
  gets no further move. The refinement adds `RakeOffered`: a match's rake is one the
  owner could have set, so that the abstract release allows the fee.
* **Server.** `AllInv == IInv /\ Seated /\ ServerInv`. A server's transaction is an
  escrow step only if what it carries is well formed when it is mined, long after it
  was submitted: a joined match has both keys, a claimed one its first mover
  (`Seated`), and a game over in the hub has an outcome (`Decided`).
* **Live match.** `LiveInv`. `MatchInv` alone is not inductive: a request that
  suspends carries a promise it fulfils later, so `CallsMeant` says that its resignation
  or draw was really given; `StoreWarranted` that a restart finds a warranted ending;
  `InTurn` that a patient client's move is signed for the ply the match is still at.
  The theorems assume `~LoadsFail`: with failing reads `HistoryKept` is false (below).
* **Page.** `PInv`. The heart is `Trails`: a lagging node may show a claim the chain
  has, never one it has not, and an end only once it is the end, so a page may act on
  whichever view it reads. `Rightly` ties claim and money to the announced winner as
  long as no claim was made by hand.
* **Ledger.** Seven parts. `BoardMeant` and `LeagueMeant`: while the sweep is alone its
  loaded copies are current and what is counted is remembered; `CursorMeant`: every
  match of a chunk is to come, in hand or claimed. Parts are conditioned on the kinds of
  failure under which they hold, as the properties are.
* **Replay.** `AgreeInv`: the map's domain is the range of the array since the last
  capture, and each count is the number of places (`CountsAgree`). Nothing about the
  rules themselves is needed, which is why the result holds on every board.
* **Vault.** `Numbered`: seasons are numbered in order with at most the last one open,
  without which `createSeason` could reuse a number; `Accounted`: each account stands
  untouched or has been paid exactly its share, and a finalized season's figures no
  longer move; `Pot`: an open season has no pot.
* **Lobby.** `KeysOK` gives `GuestKeyed` and needs no condition. That the card never
  crosses two players rests on an order, `Downwards`: whoever follows it goes to a room
  older than the own one. `Awaited`, `Owning` and `Leaving` say that a player who does
  not break off has one stake on the way, one room, and cancels the room left. These
  four hold while `breaks = 0`, as the properties do.

* **Correspondence.** `CInv`. A request saves what it derives from the record it read,
  so the invariant speaks of that copy: `Asked` says that it was sound when it was read
  and still accepts the operation, with every winner it may name already warranted. That
  alone gives `ResultWarranted`, even after a save has undone another. The rest is
  conditioned on `~clobbered`: then what a request has read is what is stored, up to the
  clock, so a join that is answered found the seat it was given (`Seating`) and a
  resignation still to be reported is the one ending of the record (`Reporting`).
  `RecordKept` follows from it: a save that undoes nothing saves an extension of what is
  stored.
* **Shop.** `SInv`. A node is never ahead of the chain and a skin is not given up, so a
  card that says "owned" stays right (`ShopTold`). `PressBuysOnce` is a budget,
  `Charged`: bought, on the way or still pressed, together, within presses and slips, an
  approval on its way aside; a lost answer or a wait given up is what puts a second
  purchase on the way for one press. While nothing slips, `Exact` says that at most one
  transaction is out and the page counts what the chain does. (Prices, purse and headroom
  are the small numbers of the module; supply, presses, price changes and slips are any.)
* **Free games.** `QInv`, player by player (`PlayerOK`): the player's page, last
  connection and inbox against tables, offers and requests. Requests and offers of
  earlier connections may lie about anywhere, so it only says what those of the *last*
  one mean (`Asking`, `Offering`); a message that seats the player names a game whose
  seat has the key of the search or of the offer (`Posted`), which holds because an
  answer to an earlier connection is lost with it. The theorem needs a table of two
  players (`QuickAssumption`) and is about the first offer of a player at a table, as
  the property is.

* **Cash pairing.** `IInv` of `CashPairing_proofs`. `CreatorAnswered` speaks of a match
  the app knows of; before that there was a transaction, and before that the message that
  asked for it. `Once` says that a search has at most one of the three and that a player
  who is queued, or joins, has none; `Committed` that whoever has one is the creator of a
  pair, or has the end of it as the last thing in the box, or is offline and owed the news.
  That needs three more: an end is the last message of a connection, which then has no
  place (`EndsLast`); the store is the pairs there are, or after a restart those there were
  (`Persisted`); a player the server lost is nowhere in it (`Present`). All three are per
  player and end where the player is led astray. `Stakes` follows the stake from the pair
  through message and transaction to the match, so that the chain watcher's announcement
  carries the right one whenever the match was made for that pair; `Keys` that a match
  announced once is joined with one key.

Assumptions on constants are in the modules (`ASSUME`, by name) and no stronger than
the code: rates up to their caps, positive stakes, distinct null values, naturals for
bounds. TLC evaluates them in the runs.

### What stays with TLC, and why

* Every liveness property, and what rests on ENABLED: out of the prover's reach.
* Sums over a set of players or matches (`Solvent` of escrow and vault, `PrizesPayable`,
  `MoneyOut`, `PotConserved`, and with them `SeasonInv`): they are folds, and what a fold
  computes needs induction over data. (`SaleBalances` of the shop, once a sum, is written
  out for its two buyers and is proved.)
* What recursive definitions and filters of sequences compute: sowing and captures
  (`BoardInv`), the search and the puzzle (`AnswersExact`, whose references use a
  RECURSIVE operator), the bracket (`CupInv`), the ranking and its split (`PayoutInv`),
  the lists of the inbox (`InboxInv`), the windows of a scan (`IndexerInv`).
* `DailyInv` has no theorem (section 8).

## 6. Where the code and its own words disagree

`race_double` checks what `league-prizes.ts:8-10` says, "a double-tap can't be paid
twice". TLC finds two taps that both pass the in-flight test before either takes its
lock, since the identity check is awaited in between (`main.ts:1732`); both read the
pending prizes, and both are paid.

The models have more behaviours of this kind. The definitions named in parentheses are
in the modules and checked by no run; each is violated.

Games and settlement
* A resignation or draw acceptance in flight when the game ends overwrites the winner,
  against `match.ts:229` (`ResultFinal` of `LiveMatch`).
* A failed read of the snapshot is taken for no snapshot and the empty match overwrites
  it, against `main.ts:1055` (`HistoryKept` with `LoadsFail = TRUE`).
* Two moves of a seat sent before the first is answered are both played, the second for
  the other seat, against `match.ts:10` (`TranscriptVerifies` without `~hasty`).
* `settleSigned` is reported settled and the match dropped at submission, although a
  claim mined first makes it revert; a failed challenge is never tried again
  (`main.ts:1246`); and after an ending that is no move there is no transcript that
  refutes a false claim (`main.ts:1324`). A claim on an unfinished game bound to
  `OtherHash` can be challenged by nobody while the game goes on.
* The ids are loaded twice from a cold cache by watcher and sweep; the second load
  overwrites what the first claimed, and both credit, against `settled-ledger.ts:106-108`
  (`Idempotent`). The watcher moves the sweep's cursor over blocks nobody has read, and
  a released id behind the cursor is not re-processed, against `main.ts:1515-1518`. A
  crash between the stored claim and the credits loses the credit.
* After a false claim is overturned the contract's `proposedWinner` stays, and the page
  shows "lost" to the player it paid (`ShownWinnerIsPaid`; `LiveMatch.tsx:218-226`,
  `663-672`).
* A winner who was away while the claim became possible never claims (`server.ts:484-490`);
  the loser of a clock forfeit can dispute it with a transcript that does not end, and
  the match is refunded at expiry; Cancel goes home at submission though a join may be
  mined first (`LiveMatch.tsx:616-633`).

Finding each other
* `joinOpenMatch` and `onJoin` store a fresh key at every try, so a second press before
  the first is mined loses the seat's key, against `LiveMatch.tsx:564-566`
  (`GuestKeyNeverLost`; `lib/lobby.ts:197-199`, `MatchActions.tsx:520-522`). The same in
  cash pairing, where the joiner can be sent to the match twice (`KeyAlwaysKept`).
* A player who left an older room open can be crossed by the card
  (`CrossMatchOffer.tsx:10-12`), which also ignores the token of the stake. A creator's
  key and the id of the match are stored after the receipt: a closed tab loses the key,
  and an invite-only stake is then in no list (`MatchActions.tsx:495`,
  `app/matches/page.tsx:375-377`).
* Cash pairing: a creator whose connection blinks waits on; an abort while the create is
  in flight refunds nothing by itself; the chain watcher can hand a pair a match its
  creator made for an earlier one; news owed after a restart does not survive a second
  restart. `startCashPairing` says pairing.a is the earlier waiter, `enqueue` returns the
  newcomer as a.
* Rematches: two offers around a blink leave both waiting (`server.ts:833-839`); a second
  press overwrites the key of the first (`LiveMatch.tsx:364-376`); reservations never
  expire (`server.ts:604-612`), and the private pool applies the rating ceiling
  (`server.ts:189`). A connection noticed late can be paired as a ghost
  (`server.ts:525-560`). A player whose first offer still pends on a connection the
  server has not noticed lost, and who asks again on a new one, completes a rematch with
  oneself: `completeRematch` compares sockets, not addresses, against "the two
  STILL-CONNECTED sockets" (`server.ts:178`, `653-664`). `TwoPlayers` leaves such second
  offers out.

Prizes, cups, vault
* A game recorded while the rollover works on the closed week is in no later pot
  (`NothingDropped`; `main.ts:1626` against `1599-1602`). The app is offered the first
  round a wallet has a prize in, collected or not, which hides a later one
  (`OffersUnclaimed`, `main.ts:746-747`). A publication
  whose receipt is not seen is carried as well; `merkleClaims` are lost in a restart; pots
  of weeks the calendar skipped stay behind.
* `finalize-league.ts` splits the gross yield and ignores `yieldFeeBps`
  (`PrizesPayableWithFee`): the last winners' claims revert. A second run of the tool
  overwrites the proofs of the first.
* A payout table of one place makes finalize revert always (`bracket.ts:107-113`,
  `TournamentEscrow.sol:183`), and a failed finalize is not tried again: only the refund
  frees the pool. A lost join mirror or a restart leaves the bracket unfilled; a guest who
  leaves once the host's game exists stalls it (`NoShowLoses`; `service.ts:127-133`).

Profiles and shop
* A visit (`GET /profile`) can undo a concurrent save (`PerfectDaysGrow`; `store.ts:37`,
  `retention.ts:4-6`). A referral's conversion can run twice (`main.ts:407-412`).
* Overlapping requests of a correspondence game can take an end back, rate a game twice
  or lose a move or a seat; the key of a joined seat is stored after the answer.
* A lagging node's refresh after "✓" overwrites the new ownership, and the card offers Buy
  again (`shop/page.tsx:217-218`); a failed purchase does not refresh a stale price.
* The league page: of two overlapping refreshes the season may come from the later and
  the figure beside it from the earlier (`torn`). A failed `claimPrize` takes the prize
  off the page, and once the principal is claimed a locked league shows "Coming soon"
  until a reload, against "a gate never traps" (`league/page.tsx:209`; `dropped`). The
  page does not look at the status of a receipt.
* The daily puzzle: a report that is served after midnight breaks the server's streak or
  lengthens it by a day (`late`); a puzzle solved on a page left open over midnight counts
  for the new day.
* The inbox card shows the first three items and its dismissal marks all as seen
  (`InboxCard.tsx:49`), against "the inbox is the guarantee" (`inbox.ts:6`; `passedBy`).
  Notifications that overlap lose one another's items (`overwrote`).
* The statistics: `MatchCancelled` is not among the events of the indexer
  (`logs.ts:5-48`), so a cancelled match counts as open for good.

## 7. Reading order

`StakeCustody`, `MatchEscrow` and the first half of `MatchServer_proofs`; then
`MatchServer` with its refinement proof, `LiveMatch` and `LiveClient` (the same match from
the server and from the page), `SettledLedger`. The rest are independent of one another.

## 8. What is left

* `DailyPage`: `DailyInv` has no theorem; its streaks are intervals of days, which the provers
  handle, but half of it is about overlapping saves of a whole profile.
* The lists of `Inbox` and the scan of `Indexer` would need what a filter of a sequence
  keeps as lemmas, by induction over the sequence.
* `MatchServer`: the claim made while the game still runs, whose event the watcher
  consumes before the game ends otherwise, is in no property yet.
