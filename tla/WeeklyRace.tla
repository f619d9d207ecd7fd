------------------------------ MODULE WeeklyRace ------------------------------
(***************************************************************************)
(* The weekly race: settled games and seeds fill a week's record           *)
(* (weekly-league.ts), the Monday rollover splits its pot and hands it on  *)
(* (WeeklyLeague.rollover, leagueTick), and the winners collect, from the  *)
(* operator through the prize ledger (league-prizes.ts, leagueClaim) or,   *)
(* where the distributor is deployed, from WeeklyPrizes.sol.               *)
(*                                                                         *)
(* The stores are Redis: between its read and its write every change of a  *)
(* week or of a winner's pending prizes can be overtaken by another one.   *)
(* One step is what runs between two awaits.  All games of the week are    *)
(* between the same two players; amounts are in the token's smallest unit. *)
(***************************************************************************)
EXTENDS Integers, FiniteSetsExt, SequencesExt

CONSTANTS
  Players,      \* the racers, as numbers: the order of their addresses
  Collectors,   \* those of them who tap Collect
  Outcomes,     \* winners the games may have, 0 for a draw
  Deploys,      \* how the server may run
  MaxWeeks,     \* bound: weeks
  MaxGames,     \* bound: changes of the weeks' records
  MaxTaps,      \* bound: taps on Collect
  MaxTrouble,   \* bound: crashes, and calls of store or chain that fail
  PoolShare,    \* what the rake of a decisive game adds to the pot
  Seeds,        \* amounts the operator may set the pot to
  MinGames, PairCap, RefCap, RefPoints, MaxCarry,
  ReclaimWeeks, \* weeks until the owner may sweep a round
  Referees      \* players who came through the other's link

ASSUME RaceAssumption ==
  /\ Players = 1 .. 2 /\ Collectors \cup Referees \subseteq Players /\ Seeds \subseteq Nat
  /\ Outcomes \subseteq Players \cup {0}
  /\ Deploys \subseteq [onchain : BOOLEAN, verifier : BOOLEAN]
  /\ {MaxWeeks, MaxGames, MaxTaps, MaxTrouble, PoolShare, MinGames, PairCap, RefCap,
      RefPoints, MaxCarry, ReclaimWeeks} \subseteq Nat

Weeks == 1 .. MaxWeeks
Taps == 1 .. MaxTaps
Nobody == 0
Draw == 0
Opp(p) == 3 - p

VARIABLES
  deploy,    \* how the server runs: with the distributor, with the identity check
  week,      \* the calendar
  weeks,     \* the league store's weeks
  open,      \* its open week, 0 before the first boot
  referees,  \* referrals not yet converted
  edit,      \* a change of a week between its load and its save
  roll,      \* the rollover under way
  pending,   \* the prize ledger
  claims,    \* requests to collect, one per tap
  inFlight,  \* claimsInFlight
  rounds,    \* WeeklyPrizes' rounds, by week, and those sent and not mined
  taken,     \* its claims
  balance,   \* its tokens
  merkle,    \* rounds whose proofs the server serves
  ledger     \* history: what was raised, credited and paid, what went wrong

calendar == <<deploy, week>>
store == <<weeks, open, referees>>
collect == <<pending, claims, inFlight>>
chain == <<rounds, taken, balance>>
raceVars == <<calendar, store, edit, roll, collect, chain, merkle, ledger>>

NoEntry == [points |-> 0, games |-> 0, wins |-> 0, bonuses |-> 0]
FreshWeek == [pool |-> 0, token |-> FALSE, entries |-> [p \in Players |-> NoEntry]]
NoRoot == [p \in Players |-> 0]
NoRound == [sent |-> NoRoot, root |-> NoRoot, funded |-> 0, claimed |-> 0]
NoEdit == [kind |-> "none", week |-> 0, arg |-> 0, copy |-> FreshWeek]
NoRoll == [at |-> "idle", w |-> FreshWeek, due |-> NoRoot, paid |-> {}, now |-> Nobody,
           read |-> 0, next |-> FreshWeek, receipt |-> "none"]
NoClaim == [at |-> "idle", who |-> Nobody, read |-> 0, prizes |-> 0, tx |-> "none"]

Winners(due) == {p \in Players : due[p] > 0}
Total(due) == FoldFunction(LAMBDA a, n : a + n, 0, due)

RaceInit ==
  /\ deploy \in Deploys
  /\ week = 1
  /\ weeks = [w \in Weeks |-> FreshWeek] /\ open = 0 /\ referees = Referees
  /\ edit = NoEdit /\ roll = NoRoll
  /\ pending = [p \in Players |-> 0] /\ claims = [t \in Taps |-> NoClaim] /\ inFlight = {}
  /\ rounds = [w \in Weeks |-> NoRound] /\ taken = {} /\ balance = 0
  /\ merkle = {}
  /\ ledger = [raised |-> 0, clipped |-> 0, credited |-> NoRoot, paid |-> NoRoot,
               edits |-> 0, trouble |-> 0, raced |-> {}, kinds |-> {}]

\* A call of the store or the chain throws, or the process dies.
Trouble == ledger.trouble < MaxTrouble
Note(l, kind) == [l EXCEPT !.kinds = @ \cup {kind}]
Failed(l) == [l EXCEPT !.trouble = @ + 1]

-----------------------------------------------------------------------------
(* The week's record.                                                      *)

\* Points for a win, within the cap per opponent; every game counts for the bar.
Entry(e, p, winner) ==
  [e EXCEPT !.games = @ + 1, !.wins = IF winner = p THEN @ + 1 ELSE @,
            !.points = IF e.games < PairCap /\ winner = p THEN @ + 3 ELSE @]

RecordGame(w, winner) ==
  [pool |-> IF winner = Draw THEN w.pool ELSE w.pool + PoolShare, token |-> TRUE,
   entries |-> [p \in Players |-> Entry(w.entries[p], p, winner)]]

\* The referrer's bonus, up to the weekly cap.
AddReferralBonus(w, p) ==
  IF w.entries[p].bonuses >= RefCap THEN w
  ELSE [w EXCEPT !.entries[p] = [@ EXCEPT !.bonuses = @ + 1, !.points = @ + RefPoints]]

SetPool(w, amount) == [w EXCEPT !.pool = amount, !.token = TRUE]

Load(kind, w, arg) ==
  /\ edit = NoEdit /\ ledger.edits < MaxGames
  /\ edit' = [kind |-> kind, week |-> w, arg |-> arg, copy |-> weeks[w]]
  /\ ledger' = [ledger EXCEPT !.edits = @ + 1]

\* A settled game is recorded in the week of its block when the sweep brings it,
\* and in today's when the watcher does.
LoadForGame(winner) ==
  /\ \E w \in {week - 1, week} \cap Weeks : Load("game", w, winner)
  /\ UNCHANGED <<calendar, store, roll, collect, chain, merkle>>

\* A decisive game converts its players' referrals; the mark is written first.
LoadForBonus(p) ==
  /\ p \in referees /\ ledger.raised > 0
  /\ referees' = referees \ {p}
  /\ Load("bonus", week, Opp(p))
  /\ UNCHANGED <<calendar, weeks, open, roll, collect, chain, merkle>>

\* The operator sets this week's pot.
LoadForSeed(amount) ==
  /\ Load("seed", week, amount)
  /\ UNCHANGED <<calendar, store, roll, collect, chain, merkle>>

Edited ==
  CASE edit.kind = "game" -> RecordGame(edit.copy, edit.arg)
    [] edit.kind = "bonus" -> AddReferralBonus(edit.copy, edit.arg)
    [] edit.kind = "seed" -> SetPool(edit.copy, edit.arg)

\* A save undoes what was saved since its load; a pot that grows in a closed
\* week is no longer handed on.
Overtaking(w, copy, l) == IF weeks[w] # copy THEN Note(l, "overtaken") ELSE l
Late(w, copy, new, l) ==
  IF new.pool # copy.pool /\ (w < open \/ (roll.at # "idle" /\ w = open)) THEN Note(l, "late") ELSE l

EditSave ==
  /\ edit # NoEdit
  /\ weeks' = [weeks EXCEPT ![edit.week] = Edited]
  /\ ledger' = Late(edit.week, edit.copy, Edited, Overtaking(edit.week, edit.copy,
                 [ledger EXCEPT !.raised = @ + Edited.pool - edit.copy.pool]))
  /\ edit' = NoEdit
  /\ UNCHANGED <<calendar, open, referees, roll, collect, chain, merkle>>

-----------------------------------------------------------------------------
(* The split of the pot.                                                   *)

Ranked(w) == {p \in Players : w.entries[p].games >= MinGames}

\* p finishes before q.
Before(w, p, q) ==
  LET a == w.entries[p] b == w.entries[q] IN
  \/ a.points > b.points
  \/ a.points = b.points /\ a.wins > b.wins
  \/ a.points = b.points /\ a.wins = b.wins /\ a.games < b.games
  \/ a.points = b.points /\ a.wins = b.wins /\ a.games = b.games /\ p < q

Rank(w, p) == 1 + Cardinality({q \in Ranked(w) : Before(w, q, p)})
PodiumBps == <<250, 150, 100>>
DividendBps == 9500

\* computePrizes: the podium's bonus, and the dividend by points for everyone ranked.
ComputePrizes(w) ==
  LET points == FoldFunctionOnSet(LAMBDA e, n : e.points + n, 0, w.entries, Ranked(w))
      dividend == (w.pool * DividendBps) \div 10000 IN
  [p \in Players |->
     IF p \notin Ranked(w) THEN 0
     ELSE (IF Rank(w, p) <= 3 THEN (w.pool * PodiumBps[Rank(w, p)]) \div 10000 ELSE 0)
          + (IF points > 0 THEN (dividend * w.entries[p].points) \div points ELSE 0)]

-----------------------------------------------------------------------------
(* The rollover.                                                           *)

\* The server's first boot is in the first week, and a rollover does not last
\* until the next Monday.  A pot of a week the open one skips is left behind.
NewWeek ==
  /\ week < MaxWeeks /\ open > 0 /\ roll.at = "idle"
  /\ week' = week + 1
  /\ UNCHANGED <<deploy, store, edit, roll, collect, chain, merkle, ledger>>

\* leagueTick on the first boot: adopt the week.
Adopt ==
  /\ open = 0 /\ open' = week
  /\ UNCHANGED <<calendar, weeks, referees, edit, roll, collect, chain, merkle, ledger>>

\* Slip: a week is rolled over only when somebody won a prize.
RollLoadPaying ==
  /\ roll.at = "idle" /\ open \in Weeks \ {week} /\ Winners(ComputePrizes(weeks[open])) # {}
  /\ roll' = [NoRoll EXCEPT !.at = "pay", !.w = weeks[open], !.due = ComputePrizes(weeks[open])]
  /\ UNCHANGED <<calendar, store, edit, collect, chain, merkle, ledger>>

\* leagueTick when the calendar has moved on: the week is loaded and split.
RollLoad ==
  /\ roll.at = "idle" /\ open \in Weeks \ {week}
  /\ LET w == weeks[open] due == ComputePrizes(w) IN
     roll' = [NoRoll EXCEPT !.w = w, !.due = due,
                            !.at = IF w.token /\ Winners(due) # {} THEN "pay" ELSE "carry"]
  /\ UNCHANGED <<calendar, store, edit, collect, chain, merkle, ledger>>

\* leagueCredit: each winner's prize is added to the ledger, the best first.
CreditRead ==
  LET todo == {p \in Winners(roll.due) : roll.now = Nobody \/ Before(roll.w, roll.now, p)} IN
  /\ roll.at = "pay" /\ ~deploy.onchain
  /\ \/ /\ todo = {} /\ roll' = [roll EXCEPT !.at = "carry", !.now = Nobody]
     \/ \E p \in todo :
          /\ \A q \in todo \ {p} : Before(roll.w, p, q)
          /\ roll' = [roll EXCEPT !.at = "credit", !.now = p, !.read = pending[p]]
  /\ UNCHANGED <<calendar, store, edit, collect, chain, merkle, ledger>>

RacedIf(p, read, l) == IF pending[p] # read THEN [l EXCEPT !.raced = @ \cup {p}] ELSE l

\* A credit that cannot be written is left to the carry.
CreditWrite ==
  LET p == roll.now IN
  /\ roll.at = "credit"
  /\ \/ /\ pending' = [pending EXCEPT ![p] = roll.read + roll.due[p]]
        /\ roll' = [roll EXCEPT !.at = "pay", !.paid = @ \cup {p}, !.read = 0]
        /\ ledger' = RacedIf(p, roll.read, [ledger EXCEPT !.credited[p] = @ + roll.due[p]])
     \/ /\ Trouble /\ ledger' = Failed(ledger)
        /\ roll' = [roll EXCEPT !.at = "pay", !.read = 0] /\ UNCHANGED pending
  /\ UNCHANGED <<calendar, store, edit, claims, inFlight, chain, merkle>>

\* leaguePublishMerkle: the pot is approved and the round sent; an error before
\* that leaves the pot to the carry.
SendPublish ==
  /\ roll.at = "pay" /\ deploy.onchain
  /\ \/ /\ rounds' = [rounds EXCEPT ![open].sent = roll.due]
        /\ roll' = [roll EXCEPT !.at = "publish"] /\ UNCHANGED ledger
     \/ /\ Trouble /\ ledger' = Failed(ledger)
        /\ roll' = [roll EXCEPT !.at = "carry"] /\ UNCHANGED rounds
  /\ UNCHANGED <<calendar, store, edit, collect, taken, balance, merkle>>

\* publishRound: a round is sealed once.
PublishRound(w) ==
  LET r == rounds[w] IN
  /\ r.sent # NoRoot
  /\ IF r.root = NoRoot
     THEN /\ rounds' = [rounds EXCEPT ![w] = [NoRound EXCEPT !.root = r.sent, !.funded = Total(r.sent)]]
          /\ balance' = balance + Total(r.sent)
     ELSE rounds' = [rounds EXCEPT ![w].sent = NoRoot] /\ UNCHANGED balance
  /\ roll' = IF roll.at = "publish"
             THEN [roll EXCEPT !.receipt = IF r.root = NoRoot THEN "success" ELSE "reverted"]
             ELSE roll
  /\ UNCHANGED <<calendar, store, edit, collect, taken, merkle, ledger>>

\* The receipt is read: the winners can collect; or the round exists already, or
\* the receipt stays out of sight, and nothing counts as paid.
PublishReceipt ==
  /\ roll.at = "publish"
  /\ \/ /\ roll.receipt = "success"
        /\ roll' = [roll EXCEPT !.at = "carry", !.paid = Winners(roll.due), !.receipt = "none"]
        /\ merkle' = merkle \cup {open} /\ UNCHANGED ledger
     \/ /\ roll.receipt = "reverted"
        /\ roll' = [roll EXCEPT !.at = "carry", !.receipt = "none"] /\ UNCHANGED <<merkle, ledger>>
     \/ /\ Trouble /\ ledger' = Note(Failed(ledger), "unseen")
        /\ roll' = [roll EXCEPT !.at = "carry", !.receipt = "none"] /\ UNCHANGED merkle
  /\ UNCHANGED <<calendar, store, edit, collect, chain>>

\* Slip: the whole pot is carried.
CarryOfAll == roll.w.pool

\* What was not paid goes on, up to the cap.
Unpaid == roll.w.pool - Total([p \in Players |-> IF p \in roll.paid THEN roll.due[p] ELSE 0])
Carry == IF MaxCarry > 0 /\ Unpaid > MaxCarry THEN MaxCarry ELSE Unpaid

LoadNext ==
  /\ roll.at = "carry"
  /\ roll' = IF Carry > 0 \/ roll.w.token
             THEN [NoRoll EXCEPT !.at = "save", !.w = weeks[week],
                     !.next = [weeks[week] EXCEPT !.pool = @ + Carry, !.token = @ \/ roll.w.token]]
             ELSE [NoRoll EXCEPT !.at = "result"]
  /\ ledger' = [ledger EXCEPT !.clipped = @ + Unpaid - Carry]
  /\ UNCHANGED <<calendar, store, edit, collect, chain, merkle>>

SaveNext ==
  /\ roll.at = "save"
  /\ weeks' = [weeks EXCEPT ![week] = roll.next]
  /\ roll' = [NoRoll EXCEPT !.at = "result"]
  /\ ledger' = Overtaking(week, roll.w, ledger)
  /\ UNCHANGED <<calendar, open, referees, edit, collect, chain, merkle>>

\* The result is pushed and the new week opened.
OpenWeek ==
  /\ roll.at = "result"
  /\ open' = week
  /\ roll' = NoRoll
  /\ ledger' = IF \E w \in open + 1 .. week - 1 : weeks[w].pool > 0 THEN Note(ledger, "late") ELSE ledger
  /\ UNCHANGED <<calendar, weeks, referees, edit, collect, chain, merkle>>

-----------------------------------------------------------------------------
(* Collecting from the operator.                                           *)

\* The app shows Collect while prizes wait, and two taps or two tabs may come
\* before it learns that they are gone.
ShowsCollect(p) == pending[p] > 0 \/ \E s \in Taps : claims[s].who = p /\ claims[s].at # "done"

\* leagueClaim up to its first await.
Tap(t, p) ==
  /\ claims[t].at = "idle" /\ ~deploy.onchain /\ ShowsCollect(p)
  /\ \A s \in Taps : s < t => claims[s].at # "idle"
  /\ claims' = [claims EXCEPT ![t] = [NoClaim EXCEPT !.who = p,
       !.at = IF p \in inFlight THEN "done" ELSE IF deploy.verifier THEN "verify" ELSE "take"]]
  /\ inFlight' = IF deploy.verifier /\ p \notin inFlight THEN inFlight ELSE inFlight \cup {p}
  /\ UNCHANGED <<calendar, store, edit, roll, pending, chain, merkle, ledger>>

\* The identity check has passed.
Verified(t) ==
  /\ claims[t].at = "verify"
  /\ inFlight' = inFlight \cup {claims[t].who}
  /\ claims' = [claims EXCEPT ![t].at = "take"]
  /\ UNCHANGED <<calendar, store, edit, roll, pending, chain, merkle, ledger>>

Finally(t) ==
  /\ inFlight' = inFlight \ {claims[t].who}
  /\ claims' = [claims EXCEPT ![t] = [@ EXCEPT !.at = "done", !.read = 0,
                                      !.prizes = IF claims[t].tx = "sent" THEN @ ELSE 0]]

TakeRead(t) ==
  LET p == claims[t].who IN
  /\ claims[t].at = "take"
  /\ IF pending[p] = 0 THEN Finally(t)
     ELSE claims' = [claims EXCEPT ![t].at = "del", ![t].prizes = pending[p]] /\ UNCHANGED inFlight
  /\ UNCHANGED <<calendar, store, edit, roll, pending, chain, merkle, ledger>>

TakeDel(t) ==
  LET p == claims[t].who IN
  /\ claims[t].at = "del"
  /\ pending' = [pending EXCEPT ![p] = 0]
  /\ ledger' = RacedIf(p, claims[t].prizes, ledger)
  /\ claims' = [claims EXCEPT ![t].at = "send"]
  /\ UNCHANGED <<calendar, store, edit, roll, inFlight, chain, merkle>>

\* The transfer is broadcast, or the prizes go back.
SendTransfer(t) ==
  /\ claims[t].at = "send"
  /\ \/ /\ claims' = [claims EXCEPT ![t].at = "receipt", ![t].tx = "sent"] /\ UNCHANGED ledger
     \/ /\ Trouble /\ ledger' = Failed(ledger)
        /\ claims' = [claims EXCEPT ![t].at = "restore"]
  /\ UNCHANGED <<calendar, store, edit, roll, pending, inFlight, chain, merkle>>

Transfer(t) ==
  /\ claims[t].tx = "sent"
  /\ \/ /\ claims' = [claims EXCEPT ![t].tx = "mined"]
        /\ ledger' = [ledger EXCEPT !.paid[claims[t].who] = @ + claims[t].prizes]
     \/ /\ Trouble /\ ledger' = Failed(ledger)
        /\ claims' = [claims EXCEPT ![t].tx = "reverted"]
  /\ UNCHANGED <<calendar, store, edit, roll, pending, inFlight, chain, merkle>>

\* Slip: an unseen receipt restores the debt.
TransferReceiptRestoring(t) ==
  /\ claims[t].at = "receipt"
  /\ \/ claims[t].tx = "mined" /\ Finally(t) /\ UNCHANGED ledger
     \/ /\ claims[t].tx = "reverted" \/ Trouble
        /\ claims' = [claims EXCEPT ![t].at = "restore"] /\ UNCHANGED <<inFlight, ledger>>
  /\ UNCHANGED <<calendar, store, edit, roll, pending, chain, merkle>>

\* Only a definite revert gives the debt back; a receipt that stays out of
\* sight counts as paid.
TransferReceipt(t) ==
  /\ claims[t].at = "receipt"
  /\ \/ claims[t].tx = "mined" /\ Finally(t) /\ UNCHANGED ledger
     \/ /\ Trouble /\ ledger' = Note(Failed(ledger), "unseen") /\ Finally(t)
     \/ /\ claims[t].tx = "reverted"
        /\ claims' = [claims EXCEPT ![t].at = "restore"] /\ UNCHANGED <<inFlight, ledger>>
  /\ UNCHANGED <<calendar, store, edit, roll, pending, chain, merkle>>

RestoreRead(t) ==
  /\ claims[t].at = "restore"
  /\ claims' = [claims EXCEPT ![t].at = "put", ![t].read = pending[claims[t].who]]
  /\ UNCHANGED <<calendar, store, edit, roll, pending, inFlight, chain, merkle, ledger>>

\* restore puts the prizes before what was credited meanwhile.
RestoreWrite(t) ==
  LET p == claims[t].who IN
  /\ claims[t].at = "put"
  /\ pending' = [pending EXCEPT ![p] = claims[t].read + claims[t].prizes]
  /\ ledger' = RacedIf(p, claims[t].read, ledger)
  /\ Finally(t)
  /\ UNCHANGED <<calendar, store, edit, roll, chain, merkle>>

-----------------------------------------------------------------------------
(* Collecting from the contract.                                           *)

\* What GET /weekly-prizes offers a wallet: the first round served that has it.
Offer(p) ==
  LET has == {w \in merkle : rounds[w].root[p] > 0} IN IF has = {} THEN 0 ELSE Min(has)

\* claim, by a winner whose app got the proof while the server had it.
ClaimPrize(w, p) ==
  LET amount == rounds[w].root[p] IN
  /\ amount > 0 /\ <<w, p>> \notin taken
  /\ rounds[w].claimed + amount <= rounds[w].funded
  /\ taken' = taken \cup {<<w, p>>}
  /\ rounds' = [rounds EXCEPT ![w].claimed = @ + amount]
  /\ balance' = balance - amount
  /\ UNCHANGED <<calendar, store, edit, roll, collect, merkle, ledger>>

Leftover(w) == rounds[w].funded - rounds[w].claimed

\* sweep: the owner takes back what nobody claimed in time.
SweepRound(w) ==
  /\ rounds[w].root # NoRoot /\ week > w + ReclaimWeeks /\ Leftover(w) > 0
  /\ rounds' = [rounds EXCEPT ![w].claimed = rounds[w].funded]
  /\ balance' = balance - Leftover(w)
  /\ UNCHANGED <<calendar, store, edit, roll, collect, taken, merkle, ledger>>

\* The process dies: what is in memory is gone, what was sent may still land.
RaceCrash ==
  /\ Trouble /\ (edit # NoEdit \/ roll # NoRoll \/ inFlight \cup merkle # {})
  /\ edit' = NoEdit /\ roll' = NoRoll /\ inFlight' = {} /\ merkle' = {}
  /\ claims' = [t \in Taps |-> IF claims[t].at = "idle" THEN NoClaim
                               ELSE [claims[t] EXCEPT !.at = "done"]]
  /\ ledger' = Note(Failed(ledger), "crash")
  /\ UNCHANGED <<calendar, store, pending, chain>>

RollStep == Adopt \/ RollLoad \/ CreditRead \/ CreditWrite \/ SendPublish
            \/ PublishReceipt \/ LoadNext \/ SaveNext \/ OpenWeek

ClaimStep(t) == Verified(t) \/ TakeRead(t) \/ TakeDel(t) \/ SendTransfer(t) \/ Transfer(t)
                \/ TransferReceipt(t) \/ RestoreRead(t) \/ RestoreWrite(t)

RaceNext ==
  \/ \E winner \in Outcomes : LoadForGame(winner)
  \/ \E p \in Players : LoadForBonus(p)
  \/ \E amount \in Seeds : LoadForSeed(amount)
  \/ EditSave \/ NewWeek \/ RollStep
  \/ \E t \in Taps : ClaimStep(t) \/ \E p \in Collectors : Tap(t, p)
  \/ \E w \in Weeks : \/ PublishRound(w) \/ SweepRound(w)
                      \/ \E p \in Players : ClaimPrize(w, p)
  \/ RaceCrash

RaceSpec == RaceInit /\ [][RaceNext]_raceVars

-----------------------------------------------------------------------------
(* Properties.                                                             *)

\* The variables have their types.
RaceTypeOK ==
  /\ deploy \in Deploys
  /\ week \in Weeks /\ open \in 0 .. week /\ \A w \in Weeks : weeks[w].pool \in Nat
  /\ edit.kind \in {"none", "game", "bonus", "seed"} /\ pending \in [Players -> Nat]
  /\ roll.at \in {"idle", "pay", "credit", "publish", "carry", "save", "result"}
  /\ roll.due \in [Players -> Nat] /\ inFlight \subseteq Players /\ balance \in Nat
  /\ \A t \in Taps : /\ claims[t].prizes \in Nat
                     /\ claims[t].at \in {"idle", "verify", "take", "del", "send", "receipt",
                                          "restore", "put", "done"}
  /\ \A w \in Weeks : rounds[w].claimed \in 0 .. rounds[w].funded

\* Prizes out of the ledger and not yet paid: in a request's hands, or sent.
Held(t) == IF \/ claims[t].at \in {"send", "restore", "put"} \/ claims[t].tx = "sent"
              \/ claims[t].at = "receipt" /\ claims[t].tx = "reverted"
           THEN claims[t].prizes ELSE 0
Owed(p) == pending[p] + ledger.paid[p]
           + FoldFunction(LAMBDA c, n : c + n, 0,
                          [t \in Taps |-> IF claims[t].who = p THEN Held(t) ELSE 0])

\* Unless two changes of a winner's prizes overlap, nobody is paid more than the
\* rollover credited, through refused, reverted and unseen transfers and crashes
\* (leagueClaim's double-pay guard).
PaidOnce == \A p \in Players \ ledger.raced : Owed(p) <= ledger.credited[p]

\* Unless they overlap, the process dies or a receipt stays out of sight, "a
\* credited prize is a debt": it is pending, on its way or paid.
DebtKept ==
  ledger.kinds \cap {"crash", "unseen"} = {} =>
    \A p \in Players \ ledger.raced : Owed(p) = ledger.credited[p]

Pots == FoldFunctionOnSet(LAMBDA w, n : w.pool + n, 0, weeks, {w \in Weeks : w >= open})
Funded == FoldFunction(LAMBDA r, n : r.funded + n, 0, rounds)

\* Between rollovers, what the games and the operator put in is in an open pot,
\* with the winners, or cut off by the carry's cap: no pot is counted twice or
\* left behind, unless a save is overtaken, the process dies, the chain hides a
\* receipt or a pot grows in a week already closed.
PotConserved ==
  (roll.at = "idle" /\ ledger.kinds = {}) =>
    ledger.raised = Pots + Total(ledger.credited) + Funded + ledger.clipped

\* The same while a pot may grow in a closed week: rollover carries "everything
\* unpaid into the new week so no funds are ever dropped" (weekly-league.ts:329).
NothingDropped ==
  (roll.at = "idle" /\ ledger.kinds \subseteq {"late"}) =>
    ledger.raised = Pots + Total(ledger.credited) + Funded + ledger.clipped

\* The distributor holds what its rounds still have to pay, and a round that was
\* not swept pays every winner who has not collected, whatever the others do.
WinnersCanCollect ==
  /\ balance = FoldFunction(LAMBDA r, n : r.funded - r.claimed + n, 0, rounds)
  /\ \A w \in Weeks : Leftover(w) \in
       {0, Total([p \in Players |-> IF <<w, p>> \in taken THEN 0 ELSE rounds[w].root[p]])}

\* A better rank never earns less, and the prizes stay within the pot, whatever
\* games, draws, bonuses and seeds made the week.
RankPays ==
  \A w \in Weeks : LET due == ComputePrizes(weeks[w]) IN
    /\ Total(due) <= weeks[w].pool
    /\ \A p, q \in Ranked(weeks[w]) : Before(weeks[w], p, q) => due[p] >= due[q]

\* Once the server has adopted a week, the open week catches up with the calendar,
\* whatever fails on the way.
WeekCloses == []<>(open \in {0, week})

\* "A double-tap can't be paid twice" (league-prizes.ts:8-10), with no overlap
\* left out.
NeverPaidTwice == \A p \in Players : ledger.paid[p] <= ledger.credited[p]

\* The app is offered "an unclaimed prize" (main.ts:746) while there is one.
OffersUnclaimed ==
  \A p \in Players :
    (\E w \in merkle : rounds[w].root[p] > 0 /\ <<w, p>> \notin taken) => <<Offer(p), p>> \notin taken

\* Winners get what the rollover credited them, once, and can get it: pending, in a
\* transfer, or from a round the distributor can pay in full; the better rank never
\* less.
PayoutInv ==
  /\ RaceTypeOK
  /\ PaidOnce
  /\ DebtKept
  /\ WinnersCanCollect
  /\ RankPays
=============================================================================
