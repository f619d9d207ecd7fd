--------------------------- MODULE Contracts_proofs ---------------------------
(***************************************************************************)
(* Two contracts, on every board and for any number of players.            *)
(*                                                                         *)
(* The replay verifier agrees with the server's game, for games of any     *)
(* length.                                                                 *)
(*                                                                         *)
(* The harvest vault, for any number of seasons, savers, deposits, fees,   *)
(* runs of the tool and moves of the market: the position in the market is *)
(* the open season's alone, a depositor gets the share that is fair        *)
(* whenever it is claimed, and a prize pot is never overdrawn.  Sums over  *)
(* savers are left to TLC: the prover has no induction for them.           *)
(***************************************************************************)
EXTENDS GameReplay, HarvestVault, FiniteSetTheorems, TLAPS

-----------------------------------------------------------------------------
(* The replay verifier.                                                    *)

Places(k) == {i \in DOMAIN chainKeys : chainKeys[i] = k}

\* The server's map counts what the contract's array lists.
CountsAgree ==
  /\ chainKeys \in Seq(Range(chainKeys))
  /\ DOMAIN seen = Range(chainKeys)
  /\ \A k \in DOMAIN seen : seen[k] = Cardinality(Places(k))

\* A game that goes on has its position in the map.
Current == "over" \in DOMAIN state /\ (~state.over => PositionKey(state) \in DOMAIN seen)

AgreeInv == EngineAgrees /\ CountsAgree /\ Current

LEMMA CycleEnds ==
  ASSUME NEW s, "over" \in DOMAIN s
  PROVE  "over" \in DOMAIN EndByCycle(s) /\ EndByCycle(s).over
BY DEF EndByCycle, RowsToOwners, Swept, FinishGame

LEMMA ApplyShape ==
  ASSUME NEW s, NEW h
  PROVE  "over" \in DOMAIN ApplyMove(s, h)
<1> SUFFICES ASSUME NEW r, "over" \in DOMAIN r PROVE "over" \in DOMAIN Resolve(r)
  BY DEF ApplyMove
<1> QED BY DEF Resolve, FinishGame, BoardTo, RowsToOwners, Swept

\* A single entry.
LEMMA OnceCounted ==
  ASSUME NEW s, seen' = Once(s), chainKeys' = <<PositionKey(s)>>
  PROVE  CountsAgree'
<1> DEFINE k == PositionKey(s)
<1>1. chainKeys' = <<k>> /\ seen' = [j \in {k} |-> 1]
  BY DEF Once
<1> HIDE DEF k
<1>2. DOMAIN chainKeys' = {1} /\ chainKeys'[1] = k
  BY <1>1
<1>3. Range(chainKeys)' = {k}
  BY <1>2 DEF Range
<1>4. chainKeys' \in Seq({k})
  BY <1>1
<1>5. Places(k)' = {1}
  BY <1>2 DEF Places
<1>6. Cardinality({1}) = 1
  BY FS_Singleton
<1>7. DOMAIN seen' = {k} /\ seen'[k] = 1
  BY <1>1
<1>8. \A j \in {k} : Places(j)' = {1}
  BY <1>5
<1> QED BY <1>3, <1>4, <1>6, <1>7, <1>8 DEF CountsAgree

\* One entry more.
LEMMA CountedOnceMore ==
  ASSUME CountsAgree, NEW s, seen' = Counted(s), chainKeys' = Append(chainKeys, PositionKey(s))
  PROVE  CountsAgree' /\ SeenTimes(s) = Occurrences(s)
<1> DEFINE n == Len(chainKeys)
<1>0. PICK k : k = PositionKey(s)
  OBVIOUS
<1>1. /\ chainKeys \in Seq(Range(chainKeys)) /\ chainKeys' = Append(chainKeys, k)
      /\ seen' = [j \in DOMAIN seen \cup {k} |-> IF j = k THEN SeenTimes(s) ELSE seen[j]]
      /\ SeenTimes(s) = IF k \in DOMAIN seen THEN seen[k] + 1 ELSE 1
      /\ Occurrences(s) = 1 + Cardinality(Places(k))
  BY <1>0 DEF CountsAgree, Counted, SeenTimes, Occurrences, Places
<1>2. DOMAIN chainKeys = 1 .. n /\ n \in Nat
  BY <1>1
<1>3. /\ DOMAIN chainKeys' = 1 .. n + 1
      /\ chainKeys'[n + 1] = k /\ \A i \in 1 .. n : chainKeys'[i] = chainKeys[i]
  <2> DEFINE S == Range(chainKeys) \cup {k}
  <2>1. chainKeys \in Seq(S) /\ k \in S
    BY <1>1
  <2> HIDE DEF S
  <2> QED BY <1>1, <1>2, <2>1
<1>4. Range(chainKeys)' = Range(chainKeys) \cup {k}
  BY <1>2, <1>3 DEF Range
<1>5. chainKeys' \in Seq(Range(chainKeys)')
  BY <1>1, <1>4
<1>6. \A j : Places(j) \subseteq 1 .. n /\ IsFiniteSet(Places(j)) /\ Cardinality(Places(j)) \in Nat
  <2> TAKE j
  <2>1. Places(j) \subseteq 1 .. n
    BY <1>2 DEF Places
  <2>2. IsFiniteSet(1 .. n)
    BY <1>2, FS_Interval
  <2> QED BY <2>1, <2>2, FS_Subset, FS_CardinalityType
<1>7. Places(k)' = Places(k) \cup {n + 1} /\ n + 1 \notin Places(k)
  BY <1>2, <1>3 DEF Places
<1>8. Cardinality(Places(k) \cup {n + 1}) = Cardinality(Places(k)) + 1
  BY <1>6, <1>7, FS_AddElement
<1>9. \A j \in Range(chainKeys) \ {k} : Places(j)' = Places(j)
  BY <1>2, <1>3 DEF Places
<1>10. k \notin Range(chainKeys) => Places(k) = {}
  BY DEF Places, Range
<1>11. SeenTimes(s) = Occurrences(s)
  <2>1. CASE k \in DOMAIN seen
    <3>1. seen[k] = Cardinality(Places(k))
      BY <2>1 DEF CountsAgree
    <3> QED BY <1>1, <1>6, <2>1, <3>1
  <2>2. CASE k \notin DOMAIN seen
    <3>1. Cardinality(Places(k)) = 0
      BY <1>10, <2>2, FS_EmptySet DEF CountsAgree
    <3> QED BY <1>1, <2>2, <3>1
  <2> QED BY <2>1, <2>2
<1>12. DOMAIN seen' = Range(chainKeys)'
  BY <1>1, <1>4 DEF CountsAgree
<1>13. \A j \in DOMAIN seen' : seen'[j] = Cardinality(Places(j)')
  <2> TAKE j \in DOMAIN seen'
  <2>1. CASE j = k
    <3>1. seen'[k] = 1 + Cardinality(Places(k))
      BY <1>1, <1>11
    <3>2. Cardinality(Places(k)') = Cardinality(Places(k)) + 1
      BY <1>7, <1>8
    <3>3. Cardinality(Places(k)) \in Nat
      BY <1>6
    <3>4. seen'[k] = Cardinality(Places(k)')
      BY <3>1, <3>2, <3>3
    <3> QED BY <2>1, <3>4
  <2>2. CASE j # k
    <3>1. j \in DOMAIN seen /\ seen'[j] = seen[j]
      BY <1>1, <2>2
    <3> QED BY <1>9, <2>2, <3>1 DEF CountsAgree
  <2> QED BY <2>1, <2>2
<1> QED BY <1>5, <1>11, <1>12, <1>13 DEF CountsAgree

LEMMA ReplayInitAgrees == ReplayInit => AgreeInv
<1> SUFFICES ASSUME ReplayInit PROVE AgreeInv
  OBVIOUS
<1>1. PICK turn \in 0 .. 1 :
        /\ state = InitialState(turn) /\ chainState = InitialState(turn)
        /\ seen = Once(InitialState(turn)) /\ chainKeys = <<PositionKey(InitialState(turn))>>
  BY DEF ReplayInit
<1> DEFINE k == PositionKey(InitialState(turn))
<1>2. seen = [j \in {k} |-> 1] /\ chainKeys = <<k>>
  BY <1>1 DEF Once
<1> HIDE DEF k
<1>3. DOMAIN chainKeys = {1} /\ chainKeys[1] = k
  BY <1>2
<1>4. Range(chainKeys) = {k} /\ chainKeys \in Seq({k})
  BY <1>2, <1>3 DEF Range
<1>5. \A j \in {k} : Places(j) = {1}
  BY <1>3 DEF Places
<1>6. Cardinality({1}) = 1
  BY FS_Singleton
<1>7. Current
  BY <1>1 DEF Current, Once, InitialState
<1> QED BY <1>1, <1>2, <1>4, <1>5, <1>6, <1>7 DEF AgreeInv, EngineAgrees, CountsAgree

LEMMA MoveAgrees ==
  ASSUME AgreeInv, NEW h, Move(h)
  PROVE  AgreeInv'
<1> DEFINE next == ApplyMove(state, h)
<1>1. chainState = state /\ CountsAgree
  BY DEF AgreeInv, EngineAgrees
<1>2. Adjudicate(next) /\ Verify(next) /\ rules' = rules
  BY <1>1 DEF Move
<1>0. "over" \in DOMAIN next
  BY ApplyShape
<1> HIDE DEF next
<1>3. CASE next.over
  <2>1. UNCHANGED <<seen, chainKeys>> /\ state' = next /\ chainState' = next
    BY <1>2, <1>3 DEF Adjudicate, Verify
  <2>2. Current'
    BY <1>0, <1>3, <2>1 DEF Current
  <2> QED BY <1>1, <2>1, <2>2 DEF AgreeInv, EngineAgrees, CountsAgree, Places, Range
<1>4. CASE ~next.over /\ CapturedIn(state, next)
  <2>1. /\ state' = next /\ chainState' = next
        /\ seen' = Once(next) /\ chainKeys' = <<PositionKey(next)>>
    BY <1>1, <1>2, <1>4 DEF Adjudicate, Verify
  <2>2. Current'
    BY <1>0, <2>1 DEF Current, Once
  <2> QED BY <2>1, <2>2, OnceCounted DEF AgreeInv, EngineAgrees
<1>5. CASE ~next.over /\ ~CapturedIn(state, next)
  <2>1. /\ seen' = Counted(next) /\ chainKeys' = Append(chainKeys, PositionKey(next))
        /\ state' = IF SeenTimes(next) >= rules.repeat THEN EndByCycle(next) ELSE next
        /\ chainState' = IF Occurrences(next) >= rules.repeat THEN EndByCycle(next) ELSE next
    BY <1>1, <1>2, <1>5 DEF Adjudicate, Verify
  <2>2. CountsAgree' /\ SeenTimes(next) = Occurrences(next)
    BY <1>1, <2>1, CountedOnceMore
  <2>3. Current'
    BY <1>0, <2>1, CycleEnds DEF Current, Counted
  <2> QED BY <2>1, <2>2, <2>3 DEF AgreeInv, EngineAgrees
<1> QED BY <1>3, <1>4, <1>5

LEMMA ReplayInvariance == ReplaySpec => []AgreeInv
<1>1. AgreeInv /\ [ReplayNext]_gvars => AgreeInv'
  <2> SUFFICES ASSUME AgreeInv, [ReplayNext]_gvars PROVE AgreeInv'
    OBVIOUS
  <2>1. CASE UNCHANGED gvars
    BY <2>1 DEF gvars, AgreeInv, EngineAgrees, CountsAgree, Current, Places, Range
  <2> QED BY <2>1, MoveAgrees DEF ReplayNext
<1> QED BY <1>1, ReplayInitAgrees, PTL DEF ReplaySpec

\* Move by move, repetitions and captures included, the contract's game is the server's,
\* whatever the board, the repetitions it allows and the length of the game (awale.ts:3-8).
THEOREM ContractAgrees == ReplaySpec => []EngineAgrees
<1>1. AgreeInv => EngineAgrees
  BY DEF AgreeInv
<1> QED BY <1>1, ReplayInvariance, PTL

\* The number of repetitions the server shows is how often the position stands in the
\* contract's array, and 0 once the game is over (match.ts, repetitionCount).
THEOREM RepetitionsAgree ==
  ReplaySpec => [](RepetitionCount = IF state.over THEN 0 ELSE OccurrencesBefore(state))
<1>1. AgreeInv => RepetitionCount = IF state.over THEN 0 ELSE OccurrencesBefore(state)
  BY DEF AgreeInv, CountsAgree, Current, RepetitionCount, OccurrencesBefore, Places
<1> QED BY <1>1, ReplayInvariance, PTL

-----------------------------------------------------------------------------
(* The harvest vault.                                                      *)

Fields == {"status", "deadline", "end", "total", "redeemed", "yieldPot", "distributed", "root"}
Histories == {"deposited", "returned", "deposits", "moves", "runs", "read", "stale"}

\* A season's numbers, but for its prizes, which the tool splits off chain.
Season(q) ==
  /\ DOMAIN q = Fields
  /\ q.status \in {"none", "open", "finalized"}
  /\ q.deadline \in Nat /\ q.end \in Nat /\ q.total \in Nat /\ q.redeemed \in Nat

\* A pot is paid out of after finalizing only, and never beyond what it holds.
Pot(q) ==
  /\ q.distributed <= q.yieldPot
  /\ q.status # "finalized" => q.distributed = 0 /\ q.yieldPot = 0

Tallied ==
  /\ clock \in Nat /\ market \in Nat /\ yieldFeeBps \in 0 .. 3000
  /\ DOMAIN seasons = Ids /\ DOMAIN hist = Histories
  /\ principalOf \in [Ids -> [Savers -> Nat]]
  /\ hist.deposited \in [Ids -> [Savers -> Nat]]
  /\ hist.returned \in [Ids -> [Savers -> Nat]]
  /\ \A f \in finalizing : f.season \in Ids

Shaped == \A s \in Ids : Season(seasons[s]) /\ Pot(seasons[s])

\* Seasons are numbered as they are created, one open at a time.
NumberedTo(k) == \A s \in Ids : seasons[s].status = "none" <=> s > k
Numbered == active \in 0 .. MaxSeasons /\ \E k \in 0 .. MaxSeasons : NumberedTo(k)

\* The share of a deposit that a season gives back.
Share(q, put) ==
  IF q.redeemed < q.total THEN (put * q.redeemed) \div q.total ELSE put

\* The book holds what was deposited, until the share of it was returned.
Kept(s, p) == principalOf[s][p] = hist.deposited[s][p] /\ hist.returned[s][p] = 0
Returned(s, p) ==
  /\ seasons[s].status = "finalized" /\ principalOf[s][p] = 0
  /\ hist.returned[s][p] = Share(seasons[s], hist.deposited[s][p])

Accounted == \A s \in Ids, p \in Savers : Kept(s, p) \/ Returned(s, p)

IInv == Tallied /\ Shaped /\ Numbered /\ OnlyActiveOpen /\ Accounted

\* No season pays out more in prizes than its pot.
NeverOverdrawn == \A s \in Ids : seasons[s].distributed <= seasons[s].yieldPot

-----------------------------------------------------------------------------
(* Lemmas.                                                                 *)

\* What the assumption on the constants says of the numbers used here.
LEMMA Bounds ==
  /\ MaxSeasons \in Nat /\ Amounts \subseteq Nat /\ Fees \subseteq 0 .. 3000
  /\ \A s \in Schedules : s[1] \in Nat /\ s[2] \in Nat
  BY VaultAssumption

\* The next season's number is the first that is free.
LEMMA NextIsFree ==
  ASSUME Numbered, NEW s, s = Cardinality(Created) + 1, s \in Ids
  PROVE  /\ seasons[s].status = "none"
         /\ \A r \in Ids : seasons[r].status = "none" /\ r # s <=> r > s
<1>0. MaxSeasons \in Nat
  BY Bounds
<1>1. PICK k \in 0 .. MaxSeasons : \A r \in Ids : seasons[r].status = "none" <=> r > k
  BY DEF Numbered, NumberedTo
<1>2. Created = 1 .. k
  BY <1>0, <1>1 DEF Created, Ids
<1>3. Cardinality(1 .. k) = k
  BY FS_Interval
<1> QED
  BY <1>0, <1>1, <1>2, <1>3 DEF Ids

\* A fee of at most 30 % leaves a pot.
LEMMA PotIsLeft ==
  ASSUME NEW s, Yield(s) \in Nat, yieldFeeBps \in 0 .. 3000
  PROVE  PotAfterFee(s) \in Nat
<1> DEFINE y == Yield(s)
           z == y * yieldFeeBps
<1>1. y \in Nat /\ PotAfterFee(s) = y - (z \div 10000)
  BY DEF PotAfterFee, Fee
<1>2. z \in Nat /\ z <= y * 3000
  <2> HIDE DEF y
  <2> QED
    BY <1>1
<1> HIDE DEF y, z
<1>3. z \div 10000 \in Nat /\ z \div 10000 <= y
  BY <1>1, <1>2
<1> QED
  BY <1>1, <1>3

\* A share is a number, and nothing for nothing.
LEMMA ShareIsNat ==
  ASSUME NEW q, q.redeemed \in Nat, q.total \in Nat, NEW put \in Nat
  PROVE  Share(q, put) \in Nat /\ Share(q, 0) = 0
<1> DEFINE b == q.redeemed
           c == q.total
<1>1. b \in Nat /\ c \in Nat
  OBVIOUS
<1>2. /\ Share(q, put) = IF b < c THEN (put * b) \div c ELSE put
      /\ Share(q, 0) = IF b < c THEN (0 * b) \div c ELSE 0
  BY DEF Share
<1> HIDE DEF b, c
<1>3. put * b \in Nat /\ 0 * b = 0
  BY <1>1
<1>4. ASSUME b < c
      PROVE  (put * b) \div c \in Nat /\ (0 * b) \div c = 0
  BY <1>1, <1>3, <1>4
<1> QED
  BY <1>2, <1>4

\* A step that writes one season which is there, and keeps it there.
LEMMA EditKeeps ==
  ASSUME IInv, NEW s \in Ids, \A r \in Ids \ {s} : seasons'[r] = seasons[r],
         Season(seasons'[s]), Pot(seasons'[s]),
         seasons'[s].status # "none", seasons[s].status # "none", active' \in 0 .. MaxSeasons
  PROVE  Shaped' /\ Numbered'
<1>1. Shaped'
  <2> SUFFICES ASSUME NEW r \in Ids PROVE Season(seasons'[r]) /\ Pot(seasons'[r])
    BY DEF Shaped, Season, Pot, Ids
  <2> QED
    BY DEF IInv, Shaped
<1>2. Numbered'
  <2>1. PICK k \in 0 .. MaxSeasons : NumberedTo(k)
    BY DEF IInv, Numbered
  <2>2. ASSUME NEW r \in Ids PROVE seasons'[r].status = "none" <=> r > k
    BY <2>1 DEF NumberedTo
  <2>3. NumberedTo(k)'
    BY <2>2 DEF NumberedTo, Ids
  <2> QED
    BY <2>3 DEF Numbered
<1> QED
  BY <1>1, <1>2

-----------------------------------------------------------------------------
(* The steps.                                                              *)

LEMMA InitHolds == VaultInit => IInv
<1> SUFFICES ASSUME VaultInit PROVE IInv
  OBVIOUS
<1>1. Tallied
  BY DEF VaultInit, Tallied, Nothing, Histories, Ids
<1>2. Shaped
  BY DEF VaultInit, Shaped, Season, Pot, NoSeason, Fields
<1>3. Numbered
  <2>1. NumberedTo(0)
    BY DEF VaultInit, NumberedTo, NoSeason, Ids
  <2> QED
    BY <2>1, Bounds DEF VaultInit, Numbered
<1>4. OnlyActiveOpen
  BY DEF VaultInit, NoSeason, Ids, OnlyActiveOpen
<1>5. Accounted
  BY DEF VaultInit, Nothing, Ids, Accounted, Kept
<1> QED
  BY <1>1, <1>2, <1>3, <1>4, <1>5 DEF IInv

\* Steps that leave the book alone: the owner's, the clock's, the market's, the tool's.
LEMMA QuietKeeps ==
  ASSUME IInv, UNCHANGED <<seasons, active, principalOf>>,
         clock' \in Nat, yieldFeeBps' \in 0 .. 3000,
         market' \in Nat, active = 0 => market' = 0,
         DOMAIN hist' = Histories, hist'.deposited = hist.deposited, hist'.returned = hist.returned,
         \A f \in finalizing' : f.season \in Ids
  PROVE  IInv'
<1>1. Tallied'
  BY DEF IInv, Tallied, Ids
<1>2. Shaped' /\ OnlyActiveOpen'
  BY DEF IInv, Shaped, OnlyActiveOpen, Ids
<1>3. Numbered'
  BY DEF IInv, Numbered, NumberedTo, Ids
<1>4. Accounted'
  BY DEF IInv, Accounted, Kept, Returned, Ids
<1> QED
  BY <1>1, <1>2, <1>3, <1>4 DEF IInv

LEMMA CreateKeeps ==
  ASSUME IInv, NEW schedule \in Schedules, CreateSeason(schedule)
  PROVE  IInv'
<1> DEFINE s == Cardinality(Created) + 1
           new == [NoSeason EXCEPT !.status = "open", !.deadline = clock + schedule[1],
                                   !.end = clock + schedule[2]]
<1>1. s \in Ids /\ active = 0 /\ active' = s /\ seasons' = [seasons EXCEPT ![s] = new]
      /\ UNCHANGED <<clock, yieldFeeBps, principalOf, market, finalizing, hist>>
  BY DEF CreateSeason, knobs, book, offchain
<1>2. /\ seasons[s].status = "none"
      /\ \A r \in Ids : seasons[r].status = "none" /\ r # s <=> r > s
  BY <1>1, NextIsFree DEF IInv
<1>3. new.status = "open" /\ Season(new) /\ Pot(new)
  BY Bounds DEF IInv, Tallied, NoSeason, Fields, Season, Pot
<1> HIDE DEF s, new
<1>4. seasons'[s] = new /\ DOMAIN seasons' = Ids /\ \A r \in Ids \ {s} : seasons'[r] = seasons[r]
  BY <1>1 DEF IInv, Tallied
<1>5. Tallied'
  BY <1>1, <1>4 DEF IInv, Tallied, Ids
<1>6. Shaped'
  <2> SUFFICES ASSUME NEW r \in Ids PROVE Season(seasons'[r]) /\ Pot(seasons'[r])
    BY DEF Shaped, Season, Pot, Ids
  <2> QED
    BY <1>3, <1>4 DEF IInv, Shaped
<1>7. Numbered'
  <2>1. s \in 0 .. MaxSeasons /\ active' \in 0 .. MaxSeasons
    BY <1>1, Bounds DEF Ids
  <2>2. ASSUME NEW r \in Ids PROVE seasons'[r].status = "none" <=> r > s
    <3>1. CASE r = s
      BY <1>1, <1>3, <1>4, <3>1 DEF Ids
    <3>2. CASE r # s
      BY <1>2, <1>4, <3>2
    <3> QED
      BY <3>1, <3>2
  <2>3. \A k \in {s} : NumberedTo(k)'
    BY <2>2 DEF NumberedTo, Ids
  <2> QED
    BY <2>1, <2>3 DEF Numbered
<1>8. OnlyActiveOpen'
  <2>1. ASSUME NEW r \in Ids PROVE seasons'[r].status = "open" <=> r = active'
    <3>1. CASE r = s
      BY <1>1, <1>3, <1>4, <3>1
    <3>2. CASE r # s
      BY <1>1, <1>4, <3>2 DEF IInv, OnlyActiveOpen, Ids
    <3> QED
      BY <3>1, <3>2
  <2>2. active' # 0
    BY <1>1 DEF Ids
  <2> QED
    BY <2>1, <2>2 DEF OnlyActiveOpen, Ids
<1>9. Accounted'
  <2> SUFFICES ASSUME NEW r \in Ids, NEW p \in Savers PROVE (Kept(r, p) \/ Returned(r, p))'
    BY DEF Accounted, Ids
  <2>1. Kept(r, p) \/ Returned(r, p)
    BY DEF IInv, Accounted
  <2>2. CASE Kept(r, p)
    BY <2>2, <1>1 DEF Kept
  <2>3. CASE Returned(r, p)
    BY <2>3, <1>1, <1>2, <1>4 DEF Returned
  <2> QED
    BY <2>1, <2>2, <2>3
<1> QED
  BY <1>5, <1>6, <1>7, <1>8, <1>9 DEF IInv

LEMMA DepositKeeps ==
  ASSUME IInv, NEW s \in Ids, NEW p \in Savers, NEW amount \in Amounts, Deposit(s, p, amount)
  PROVE  IInv'
<1> DEFINE q == [seasons[s] EXCEPT !.total = @ + amount]
<1>1. /\ seasons[s].status = "open" /\ seasons' = [seasons EXCEPT ![s] = q]
      /\ market' = market + amount
      /\ principalOf' = [principalOf EXCEPT ![s][p] = @ + amount]
      /\ hist' = [hist EXCEPT !.deposits = @ + 1, !.deposited[s][p] = @ + amount]
      /\ UNCHANGED <<clock, yieldFeeBps, active, finalizing>>
  BY DEF Deposit, knobs, offchain
<1>2. amount \in Nat
  BY Bounds
<1>3. Season(q) /\ Pot(q) /\ q.status = "open"
  BY <1>1, <1>2 DEF IInv, Shaped, Season, Pot, Fields
<1> HIDE DEF q
<1>4. /\ Shaped' /\ Numbered' /\ DOMAIN seasons' = Ids /\ seasons'[s] = q
      /\ \A r \in Ids \ {s} : seasons'[r] = seasons[r]
  <2>1. active' \in 0 .. MaxSeasons
    BY <1>1 DEF IInv, Numbered
  <2>2. seasons[s].status # "none" /\ q.status # "none"
    BY <1>1, <1>3
  <2>3. /\ DOMAIN seasons' = Ids /\ seasons'[s] = q
        /\ \A r \in Ids \ {s} : seasons'[r] = seasons[r]
    BY <1>1, <1>3 DEF IInv, Tallied
  <2> QED
    BY <1>1, <1>3, <2>1, <2>2, <2>3, EditKeeps, Zenon
<1>5. /\ DOMAIN hist' = Histories /\ hist'.returned = hist.returned
      /\ hist'.deposited = [hist.deposited EXCEPT ![s][p] = @ + amount]
  BY <1>1 DEF IInv, Tallied, Histories
<1>6. Tallied'
  <2>1. principalOf' \in [Ids -> [Savers -> Nat]] /\ hist'.deposited \in [Ids -> [Savers -> Nat]]
    BY <1>1, <1>2, <1>5 DEF IInv, Tallied
  <2>2. market' \in Nat
    BY <1>1, <1>2 DEF IInv, Tallied
  <2> QED
    BY <2>1, <2>2, <1>1, <1>4, <1>5 DEF IInv, Tallied, Ids
<1>7. OnlyActiveOpen'
  <2>1. active # 0
    BY <1>1 DEF IInv, OnlyActiveOpen, Ids
  <2> QED
    BY <2>1, <1>1, <1>3, <1>4 DEF IInv, OnlyActiveOpen, Ids
<1>8. Accounted'
  <2> SUFFICES ASSUME NEW r \in Ids, NEW x \in Savers PROVE (Kept(r, x) \/ Returned(r, x))'
    BY DEF Accounted, Ids
  <2>1. Kept(r, x) \/ Returned(r, x)
    BY DEF IInv, Accounted
  <2>2. CASE r = s /\ x = p
    <3>1. Kept(s, p)
      BY <2>1, <2>2, <1>1 DEF Returned
    <3>2. Kept(s, p)'
      BY <3>1, <1>1, <1>2, <1>5 DEF Kept, IInv, Tallied
    <3> QED
      BY <2>2, <3>2
  <2>3. CASE ~(r = s /\ x = p)
    <3>1. principalOf'[r][x] = principalOf[r][x] /\ hist'.deposited[r][x] = hist.deposited[r][x]
      BY <2>3, <1>1, <1>5 DEF IInv, Tallied
    <3>2. CASE r = s
      <4>1. Kept(r, x)
        BY <2>1, <3>2, <1>1 DEF Returned
      <4> QED
        BY <4>1, <3>1, <1>5 DEF Kept
    <3>3. CASE r # s
      BY <2>1, <3>1, <3>3, <1>4, <1>5 DEF Kept, Returned
    <3> QED
      BY <3>2, <3>3
  <2> QED
    BY <2>2, <2>3
<1> QED
  BY <1>4, <1>6, <1>7, <1>8 DEF IInv

LEMMA FinalizeKeeps ==
  ASSUME IInv, NEW f \in finalizing, FinalizeSeason(f)
  PROVE  IInv'
<1> DEFINE s == f.season
           q == [seasons[s] EXCEPT !.status = "finalized", !.redeemed = market,
                                   !.yieldPot = PotAfterFee(s), !.root = f.root]
<1>1. /\ s \in Ids /\ finalizing' = finalizing \ {f}
      /\ UNCHANGED <<clock, yieldFeeBps, principalOf>>
  BY DEF FinalizeSeason, knobs, IInv, Tallied
<1>2. DOMAIN hist' = Histories /\ hist'.deposited = hist.deposited /\ hist'.returned = hist.returned
  BY DEF FinalizeSeason, IInv, Tallied, Histories
<1>3. CASE ~Due(s)
  <2>1. UNCHANGED <<seasons, active, market>>
    BY <1>3 DEF FinalizeSeason
  <2> QED
    BY <2>1, <1>1, <1>2, QuietKeeps DEF IInv, Tallied, OnlyActiveOpen
<1>4. CASE Due(s)
  <2>1. /\ seasons[s].status = "open" /\ active' = 0 /\ market' = 0
        /\ seasons' = [seasons EXCEPT ![s] = q]
    BY <1>4 DEF FinalizeSeason, Due
  <2>2. PotAfterFee(s) \in Nat
    <3>1. Yield(s) \in Nat
      BY <1>1 DEF Yield, IInv, Tallied, Shaped, Season
    <3>2. yieldFeeBps \in 0 .. 3000
      BY DEF IInv, Tallied
    <3> QED
      BY <3>1, <3>2, PotIsLeft
  <2>3. Season(q) /\ Pot(q) /\ q.status = "finalized"
    <3>1. Season(seasons[s]) /\ Pot(seasons[s]) /\ market \in Nat
      BY <1>1 DEF IInv, Tallied, Shaped
    <3> HIDE DEF s
    <3>2. Season(q) /\ q.status = "finalized"
      BY <3>1 DEF Season, Fields
    <3>3. q.distributed = 0 /\ q.yieldPot = PotAfterFee(s)
      BY <3>1, <2>1 DEF Season, Pot, Fields
    <3>4. Pot(q)
      BY <3>2, <3>3, <2>2 DEF Pot
    <3> QED
      BY <3>2, <3>4
  <2> HIDE DEF q, s
  <2>4. /\ Shaped' /\ Numbered' /\ DOMAIN seasons' = Ids /\ seasons'[s] = q
        /\ \A r \in Ids \ {s} : seasons'[r] = seasons[r]
    <3>1. active' \in 0 .. MaxSeasons
      BY <2>1, Bounds
    <3>2. seasons[s].status # "none" /\ q.status # "none"
      BY <2>1, <2>3
    <3>3. /\ DOMAIN seasons' = Ids /\ seasons'[s] = q
          /\ \A r \in Ids \ {s} : seasons'[r] = seasons[r]
      BY <2>1, <2>3, <1>1 DEF IInv, Tallied
    <3> QED
      BY <2>1, <2>3, <1>1, <3>1, <3>2, <3>3, EditKeeps, Zenon
  <2>5. Tallied'
    BY <2>1, <2>4, <1>1, <1>2 DEF IInv, Tallied, Ids
  <2>6. OnlyActiveOpen'
    <3>1. ASSUME NEW r \in Ids PROVE seasons'[r].status # "open" /\ r # 0
      <4>1. s = active
        BY <2>1, <1>1 DEF IInv, OnlyActiveOpen
      <4>2. CASE r = s
        BY <2>3, <2>4, <4>2 DEF Ids
      <4>3. CASE r # s
        BY <2>4, <4>1, <4>3 DEF IInv, OnlyActiveOpen, Ids
      <4> QED
        BY <4>2, <4>3
    <3> QED
      BY <2>1, <3>1 DEF OnlyActiveOpen, Ids
  <2>7. Accounted'
    <3> SUFFICES ASSUME NEW r \in Ids, NEW x \in Savers PROVE (Kept(r, x) \/ Returned(r, x))'
      BY DEF Accounted, Ids
    <3>1. Kept(r, x) \/ Returned(r, x)
      BY DEF IInv, Accounted
    <3>2. CASE Kept(r, x)
      BY <3>2, <1>1, <1>2 DEF Kept
    <3>3. CASE Returned(r, x)
      <4>1. r # s
        BY <3>3, <2>1 DEF Returned
      <4> QED
        BY <4>1, <3>3, <2>4, <1>1, <1>2 DEF Returned
    <3> QED
      BY <3>1, <3>2, <3>3
  <2> QED
    BY <2>4, <2>5, <2>6, <2>7 DEF IInv
<1> QED
  BY <1>3, <1>4

LEMMA ClaimPrincipalKeeps ==
  ASSUME IInv, NEW s \in Ids, NEW p \in Savers, ClaimPrincipal(s, p)
  PROVE  IInv'
<1> DEFINE payout == ClaimablePrincipal(s, p)
<1>1. /\ seasons[s].status = "finalized" /\ principalOf[s][p] > 0
      /\ principalOf' = [principalOf EXCEPT ![s][p] = 0]
      /\ hist' = [hist EXCEPT !.returned[s][p] = @ + payout]
      /\ UNCHANGED <<clock, yieldFeeBps, seasons, active, market, finalizing>>
  BY DEF ClaimPrincipal, PayBack, knobs, offchain
<1>2. Kept(s, p)
  BY <1>1 DEF IInv, Accounted, Returned
<1>3. payout = Share(seasons[s], hist.deposited[s][p])
  BY <1>1, <1>2 DEF ClaimablePrincipal, Share, Kept
<1>4. payout \in Nat
  <2>1. /\ hist.deposited[s][p] \in Nat
        /\ seasons[s].redeemed \in Nat /\ seasons[s].total \in Nat
    BY DEF IInv, Tallied, Shaped, Season
  <2> QED
    BY <1>3, <2>1, ShareIsNat
<1> HIDE DEF payout
<1>5. /\ DOMAIN hist' = Histories /\ hist'.deposited = hist.deposited
      /\ hist'.returned = [hist.returned EXCEPT ![s][p] = @ + payout]
  BY <1>1 DEF IInv, Tallied, Histories
<1>6. Tallied'
  <2>1. principalOf' \in [Ids -> [Savers -> Nat]] /\ hist'.returned \in [Ids -> [Savers -> Nat]]
    BY <1>1, <1>4, <1>5 DEF IInv, Tallied
  <2> QED
    BY <2>1, <1>1, <1>5 DEF IInv, Tallied, Ids
<1>7. Shaped' /\ OnlyActiveOpen'
  BY <1>1 DEF IInv, Shaped, OnlyActiveOpen, Ids
<1>8. Numbered'
  BY <1>1 DEF IInv, Numbered, NumberedTo, Ids
<1>9. Accounted'
  <2> SUFFICES ASSUME NEW r \in Ids, NEW x \in Savers PROVE (Kept(r, x) \/ Returned(r, x))'
    BY DEF Accounted, Ids
  <2>1. CASE r = s /\ x = p
    <3>1. principalOf'[s][p] = 0 /\ hist'.returned[s][p] = payout
      BY <1>1, <1>2, <1>4, <1>5 DEF IInv, Tallied, Kept
    <3>2. Returned(s, p)'
      BY <3>1, <1>1, <1>3, <1>5 DEF Returned
    <3> QED
      BY <2>1, <3>2
  <2>2. CASE ~(r = s /\ x = p)
    <3>1. principalOf'[r][x] = principalOf[r][x] /\ hist'.returned[r][x] = hist.returned[r][x]
      BY <2>2, <1>1, <1>5 DEF IInv, Tallied
    <3>2. Kept(r, x) \/ Returned(r, x)
      BY DEF IInv, Accounted
    <3> QED
      BY <3>1, <3>2, <1>1, <1>5 DEF Kept, Returned
  <2> QED
    BY <2>1, <2>2
<1> QED
  BY <1>6, <1>7, <1>8, <1>9 DEF IInv

LEMMA ClaimPrizeKeeps ==
  ASSUME IInv, NEW s \in Ids, NEW p \in Savers, ClaimVaultPrize(s, p)
  PROVE  IInv'
<1> DEFINE q == [seasons[s] EXCEPT !.distributed = @ + file[s][p]]
<1>1. /\ seasons[s].status = "finalized" /\ seasons' = [seasons EXCEPT ![s] = q]
      /\ seasons[s].distributed + file[s][p] <= seasons[s].yieldPot
      /\ UNCHANGED <<clock, yieldFeeBps, active, principalOf, market, finalizing, hist>>
  BY DEF ClaimVaultPrize, ClaimPrize, knobs, offchain
<1>2. /\ Season(q) /\ Pot(q) /\ q.status = "finalized"
      /\ q.redeemed = seasons[s].redeemed /\ q.total = seasons[s].total
  BY <1>1 DEF IInv, Shaped, Season, Pot, Fields
<1> HIDE DEF q
<1>3. /\ Shaped' /\ Numbered' /\ DOMAIN seasons' = Ids /\ seasons'[s] = q
      /\ \A r \in Ids \ {s} : seasons'[r] = seasons[r]
  <2>1. active' \in 0 .. MaxSeasons
    BY <1>1 DEF IInv, Numbered
  <2>2. seasons[s].status # "none" /\ q.status # "none"
    BY <1>1, <1>2
  <2>3. /\ DOMAIN seasons' = Ids /\ seasons'[s] = q
        /\ \A r \in Ids \ {s} : seasons'[r] = seasons[r]
    BY <1>1, <1>2 DEF IInv, Tallied
  <2> QED
    BY <1>1, <1>2, <2>1, <2>2, <2>3, EditKeeps, Zenon
<1>4. Tallied'
  BY <1>1, <1>3 DEF IInv, Tallied, Ids
<1>5. /\ \A r \in Ids : seasons'[r].status = seasons[r].status
      /\ \A r \in Ids, n \in Nat : Share(seasons'[r], n) = Share(seasons[r], n)
  BY <1>1, <1>2, <1>3 DEF Share
<1>6. OnlyActiveOpen'
  BY <1>1, <1>5 DEF IInv, OnlyActiveOpen, Ids
<1>7. Accounted'
  <2> SUFFICES ASSUME NEW r \in Ids, NEW x \in Savers PROVE (Kept(r, x) \/ Returned(r, x))'
    BY DEF Accounted, Ids
  <2>1. Kept(r, x) \/ Returned(r, x)
    BY DEF IInv, Accounted
  <2>2. CASE Kept(r, x)
    BY <2>2, <1>1 DEF Kept
  <2>3. CASE Returned(r, x)
    <3>1. hist.deposited[r][x] \in Nat
      BY DEF IInv, Tallied
    <3> QED
      BY <2>3, <3>1, <1>1, <1>5, Zenon DEF Returned
  <2> QED
    BY <2>1, <2>2, <2>3
<1> QED
  BY <1>3, <1>4, <1>6, <1>7 DEF IInv

LEMMA StepKeeps == IInv /\ [VaultNext]_vaultVars => IInv'
<1> SUFFICES ASSUME IInv, [VaultNext]_vaultVars PROVE IInv'
  OBVIOUS
<1>1. /\ clock \in Nat /\ yieldFeeBps \in 0 .. 3000 /\ market \in Nat
      /\ active = 0 => market = 0
      /\ DOMAIN hist = Histories /\ \A f \in finalizing : f.season \in Ids
      /\ Created \subseteq Ids
  BY DEF IInv, Tallied, OnlyActiveOpen, Created
<1>2. ASSUME NEW unlocked, SetSeasonsUnlocked(unlocked) PROVE IInv'
  BY <1>1, <1>2, QuietKeeps DEF SetSeasonsUnlocked, book, offchain
<1>3. ASSUME NEW bps, SetYieldFee(bps) PROVE IInv'
  BY <1>1, <1>3, Bounds, QuietKeeps DEF SetYieldFee, book, offchain
<1>4. ASSUME NEW schedule \in Schedules, CreateSeason(schedule) PROVE IInv'
  BY <1>4, CreateKeeps
<1>5. ASSUME NEW s \in Created, NEW p \in Savers
      PROVE  /\ \A amount \in Amounts : Deposit(s, p, amount) => IInv'
             /\ ClaimPrincipal(s, p) => IInv'
             /\ ClaimVaultPrize(s, p) => IInv'
  BY <1>1, <1>5, DepositKeeps, ClaimPrincipalKeeps, ClaimPrizeKeeps
<1>6. ASSUME NEW change \in Moves, MarketMoves(change) PROVE IInv'
  <2>1. market' \in Nat /\ market > 0
    BY <1>1, <1>6, VaultAssumption DEF MarketMoves
  <2>2. active # 0
    BY <1>1, <2>1
  <2>3. DOMAIN hist' = Histories /\ hist'.deposited = hist.deposited /\ hist'.returned = hist.returned
    BY <1>1, <1>6 DEF MarketMoves, Histories
  <2> QED
    BY <1>1, <1>6, <2>1, <2>2, <2>3, QuietKeeps DEF MarketMoves, knobs, book, offchain
<1>7. ASSUME ClockTick PROVE IInv'
  BY <1>1, <1>7, QuietKeeps DEF ClockTick, knobs, book, offchain
<1>8. ASSUME NEW s \in Created, NEW wins \in Wins, NEW broadcast \in BOOLEAN,
             RunTool(s, wins, broadcast)
      PROVE  IInv'
  <2>1. DOMAIN hist' = Histories /\ hist'.deposited = hist.deposited /\ hist'.returned = hist.returned
    BY <1>1, <1>8 DEF RunTool, Histories
  <2>2. \A f \in finalizing' : f.season \in Ids
    BY <1>1, <1>8 DEF RunTool
  <2>3. UNCHANGED <<clock, yieldFeeBps, seasons, active, principalOf, market>>
    BY <1>8 DEF RunTool, knobs, book
  <2> QED
    BY <1>1, <2>1, <2>2, <2>3, QuietKeeps
<1>9. ASSUME NEW f \in finalizing, FinalizeSeason(f) PROVE IInv'
  BY <1>9, FinalizeKeeps
<1>10. ASSUME UNCHANGED <<clock, knobs, book, market, offchain, hist>> PROVE IInv'
  BY <1>1, <1>10, QuietKeeps DEF knobs, book, offchain
<1> QED
  BY <1>2, <1>3, <1>4, <1>5, <1>6, <1>7, <1>8, <1>9, <1>10
     DEF VaultNext, VaultAct, vaultVars, knobs, book, offchain

\* A share and a pot follow from the invariant.
LEMMA InvSays == IInv => FairShare /\ NeverOverdrawn
<1> SUFFICES ASSUME IInv PROVE FairShare /\ NeverOverdrawn
  OBVIOUS
<1>1. NeverOverdrawn
  BY DEF IInv, Shaped, Pot, NeverOverdrawn
<1>2. FairShare
  <2> SUFFICES ASSUME NEW s \in Ids, seasons[s].status = "finalized", NEW p \in Savers
               PROVE  hist.returned[s][p] + ClaimablePrincipal(s, p)
                        = Share(seasons[s], hist.deposited[s][p])
    BY Zenon DEF FairShare, Share
  <2>1. ClaimablePrincipal(s, p) = Share(seasons[s], principalOf[s][p])
    BY DEF ClaimablePrincipal, Share
  <2>2. /\ hist.deposited[s][p] \in Nat /\ hist.returned[s][p] \in Nat
        /\ seasons[s].redeemed \in Nat /\ seasons[s].total \in Nat
    BY DEF IInv, Tallied, Shaped, Season
  <2>3. /\ Share(seasons[s], hist.deposited[s][p]) \in Nat
        /\ Share(seasons[s], 0) = 0
    BY <2>2, ShareIsNat
  <2>4. Kept(s, p) \/ Returned(s, p)
    BY DEF IInv, Accounted
  <2> QED
    BY <2>1, <2>2, <2>3, <2>4 DEF Kept, Returned
<1> QED
  BY <1>1, <1>2

-----------------------------------------------------------------------------
(* The theorems.                                                           *)

\* The invariant holds always.
THEOREM Invariance == VaultSpec => []IInv
<1> QED
  BY InitHolds, StepKeeps, PTL DEF VaultSpec

\* The position in the market is the one open season's: finalize, which withdraws
\* all of it (HarvestVault.sol), takes nothing that another season put in.
THEOREM MarketIsTheOpenSeasons == VaultSpec => []OnlyActiveOpen
<1>1. IInv => OnlyActiveOpen
  BY DEF IInv
<1> QED
  BY <1>1, Invariance, PTL

\* Whoever claims first or last, and after any gain or loss, a depositor's claims
\* come to the same share of what was put in: claimPrincipal is fair.
THEOREM SharesAreFair == VaultSpec => []FairShare
<1> QED
  BY InvSays, Invariance, PTL

\* claimPrize never pays more of a season's yield than finalize set aside.
THEOREM PotsLast == VaultSpec => []NeverOverdrawn
<1> QED
  BY InvSays, Invariance, PTL

=============================================================================
