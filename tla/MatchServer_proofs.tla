--------------------------- MODULE MatchServer_proofs ---------------------------
(***************************************************************************)
(* What MatchEscrow keeps for any number of matches, players, stakes,      *)
(* rakes, windows and blocks, and that it keeps it around the server too:  *)
(* every step of the server, of its lost, late and repeated transactions   *)
(* and of its restarts is a step of the escrow or leaves the escrow alone. *)
(***************************************************************************)
EXTENDS MatchServer, TLAPS

-----------------------------------------------------------------------------
(* The escrow.                                                             *)

\* Integer division of the rake loses at most a unit and never exceeds the cap.
LEMMA RakeBounds ==
  ASSUME NEW m \in Match
  PROVE  /\ Pot(m) \in Nat
         /\ Rake(m) \in Nat
         /\ Rake(m) * BPS <= MaxRakeBps * Pot(m)
         /\ Rake(m) <= Pot(m)
<1> DEFINE p == Pot(m)  r == m.rakeBps
<1>1. m.stake \in Nat /\ r \in Nat /\ r <= MaxRakeBps /\ MaxRakeBps \in Nat
      /\ MaxRakeBps <= BPS /\ BPS \in Nat /\ BPS > 0
  BY MoneyAssumption DEF Match
<1>2. p \in Nat
  BY <1>1 DEF Pot
<1> HIDE DEF p, r
<1>3. p * r \in Nat /\ p * r <= p * MaxRakeBps /\ p * MaxRakeBps <= p * BPS
  BY <1>1, <1>2
<1> DEFINE n == p * r
<1>4. n \in Nat
  BY <1>3
<1> HIDE DEF n
<1>5. n \div BPS \in Nat /\ (n \div BPS) * BPS <= n
  BY <1>1, <1>4
<1>6. (n \div BPS) * BPS <= MaxRakeBps * p
  BY <1>1, <1>2, <1>3, <1>4, <1>5 DEF n
<1>7. n \div BPS <= p
  <2>1. (n \div BPS) * BPS <= p * BPS
    BY <1>1, <1>2, <1>3, <1>4, <1>5 DEF n
  <2> DEFINE q == n \div BPS
  <2>2. q \in Nat /\ q * BPS <= p * BPS
    BY <2>1, <1>5
  <2> HIDE DEF q
  <2>3. q <= p
    BY <2>2, <1>1, <1>2
  <2> QED BY <2>3 DEF q
<1>8. Rake(m) = n \div BPS
  BY DEF Rake, n, p, r
<1> QED BY <1>2, <1>5, <1>6, <1>7, <1>8 DEF p

\* Adding to one account keeps a table of balances a table of balances.
LEMMA CreditType ==
  ASSUME NEW S, NEW f \in [S -> Nat], NEW a, NEW n \in Nat
  PROVE  [f EXCEPT ![a] = @ + n] \in [S -> Nat]
<1>1. a \in S => f[a] + n \in Nat
  OBVIOUS
<1> QED BY <1>1

\* Ids not handed out yet are unused: what lets a creation start from nothing.
Fresh == \A id \in Ids : id >= nextMatchId => matches[id].status = "None"

IInv == TypeOK /\ Conserved /\ Fresh

\* A live match closed with a disbursement of its deposits keeps the invariant.
LEMMA ReleaseKeeps ==
  ASSUME IInv, NEW id \in Ids, NEW st \in Closed,
         NEW d0 \in Nat, NEW d1 \in Nat, NEW fee \in Nat,
         matches[id].status \in Live,
         matches' = [matches EXCEPT ![id].status = st],
         Disburse(id, d0, d1, fee),
         d0 + d1 + fee = IF st = "Cancelled" THEN matches[id].stake
                                             ELSE 2 * matches[id].stake,
         st # "Resolved" => fee = 0,
         fee * BPS <= MaxRakeBps * Pot(matches[id]),
         UNCHANGED <<inviteHash, nextMatchId, owned, game, chain>>
  PROVE  IInv'
<1> DEFINE m == matches[id]  tok == m.token
           n == [m EXCEPT !.status = st]
           q == [p0 |-> paid[id].p0 + d0, p1 |-> paid[id].p1 + d1,
                 fee |-> paid[id].fee + fee]
<1>1. m \in Match /\ n \in Match /\ matches' = [matches EXCEPT ![id] = n]
  <2>1. m \in Match
    BY DEF IInv, TypeOK
  <2>2. n \in Match
    BY <2>1 DEF Match, Closed, Statuses
  <2> QED BY <2>1, <2>2
<1>2. matches' \in [Ids -> Match]
  BY <1>1 DEF IInv, TypeOK
<1>3. paid[id] \in Ledger /\ q \in Ledger /\ paid' = [paid EXCEPT ![id] = q]
  BY DEF IInv, TypeOK, Disburse, Ledger
<1>4. paid' \in [Ids -> Ledger]
  BY <1>3 DEF IInv, TypeOK
<1>5. pool' \in [Tokens -> Nat]
  <2> DEFINE d == d0 + d1 + fee
  <2>1. d \in Nat /\ pool[tok] >= d /\ pool' = [pool EXCEPT ![tok] = @ - d]
    BY DEF Disburse
  <2> HIDE DEF d
  <2>2. pool \in [Tokens -> Nat]
    BY DEF IInv, TypeOK
  <2>3. tok \in Tokens => pool[tok] - d \in Nat
    BY <2>1, <2>2
  <2> QED BY <2>1, <2>2, <2>3
<1>6. fees' \in [Treasuries -> [Tokens -> Nat]]
  <2> DEFINE tr == owned.treasury
           g == [fees[tr] EXCEPT ![tok] = @ + fee]
  <2>1. fees' = [fees EXCEPT ![tr] = g]
    BY DEF Disburse
  <2>2. fees \in [Treasuries -> [Tokens -> Nat]]
    BY DEF IInv, TypeOK
  <2> HIDE DEF tr, tok
  <2>3. g \in [Tokens -> Nat]
    <3>1. fees[tr] \in [Tokens -> Nat]
      BY <2>2 DEF tr, IInv, TypeOK, Owned
    <3> QED BY <3>1, CreditType
  <2> HIDE DEF g
  <2> QED BY <2>1, <2>2, <2>3
<1>7. ConservedAt(n, q)
  <2>1. ConservedAt(m, paid[id])
    BY DEF IInv, Conserved
  <2>2. paid[id].p0 = 0 /\ paid[id].p1 = 0 /\ paid[id].fee = 0
    BY <1>3, <2>1 DEF ConservedAt, Live, Closed, Ledger
  <2>3. q.p0 = d0 /\ q.p1 = d1 /\ q.fee = fee
    BY <2>2
  <2>4. n.status = st /\ n.stake = m.stake
    BY <1>1 DEF Match
  <2>5. d0 + d1 + fee = Deposits(n)
    BY <2>4 DEF Deposits, Closed
  <2>6. Pot(n) = Pot(m)
    BY <2>4 DEF Pot
  <2> HIDE DEF m, n, q
  <2> QED BY <2>3, <2>4, <2>5, <2>6 DEF ConservedAt, m
<1>8. Conserved'
  <2>1. \A x \in Ids \ {id} : matches'[x] = matches[x] /\ paid'[x] = paid[x]
    BY <1>1, <1>3 DEF IInv, TypeOK
  <2>2. matches'[id] = n /\ paid'[id] = q
    BY <1>1, <1>3 DEF IInv, TypeOK
  <2> SUFFICES ASSUME NEW x \in Ids
               PROVE  ConservedAt(matches'[x], paid'[x])
    BY DEF Conserved, ConservedAt, Deposits, Pot
  <2> QED BY <1>7, <2>1, <2>2 DEF IInv, Conserved
<1>9. Fresh'
  BY <1>1 DEF IInv, Fresh, TypeOK, Live, chain
<1> QED BY <1>2, <1>4, <1>5, <1>6, <1>8, <1>9 DEF IInv, TypeOK, chain

\* The three ways a match is closed, each from ReleaseKeeps.
LEMMA PayoutKeeps ==
  ASSUME IInv, NEW id \in Ids, NEW w \in Winners,
         matches[id].status \in {"Active", "Proposed"},
         Payout(id, w),
         UNCHANGED <<inviteHash, nextMatchId, owned, game, chain>>
  PROVE  IInv'
<1> DEFINE m == matches[id]
           d0 == Share(m, w, 0)  d1 == Share(m, w, 1)  fee == Fee(m, w)
<1>1. m \in Match
  BY DEF IInv, TypeOK
<1>2. m.stake \in Nat
  BY <1>1 DEF Match
<1>3. Pot(m) = 2 * m.stake /\ Rake(m) \in Nat /\ Rake(m) <= Pot(m)
      /\ Rake(m) * BPS <= MaxRakeBps * Pot(m)
  BY <1>1, RakeBounds DEF Pot
<1>4. 0 <= MaxRakeBps * Pot(m)
  BY <1>2, <1>3, MoneyAssumption
<1>5. /\ d0 \in Nat /\ d1 \in Nat /\ fee \in Nat
      /\ d0 + d1 + fee = 2 * m.stake
      /\ fee * BPS <= MaxRakeBps * Pot(m)
  <2> DEFINE s == m.stake  r == Rake(m)  pt == Pot(m)
  <2>1. s \in Nat /\ pt = 2 * s /\ r \in Nat /\ r <= pt
        /\ r * BPS <= MaxRakeBps * pt /\ 0 <= MaxRakeBps * pt
    BY <1>2, <1>3, <1>4
  <2>2. CASE w = DRAW
    <3>1. d0 = s /\ d1 = s /\ fee = 0
      BY <2>2 DEF Share, Fee
    <3>2. 0 * BPS = 0
      BY MoneyAssumption
    <3> HIDE DEF s, r, pt, d0, d1, fee
    <3> QED BY <2>1, <3>1, <3>2 DEF s, pt
  <2>3. CASE w = 0
    <3>1. d0 = pt - r /\ d1 = 0 /\ fee = r
      BY <2>3 DEF Share, Fee, DRAW
    <3> HIDE DEF s, r, pt, d0, d1, fee
    <3> QED BY <2>1, <3>1 DEF s, pt
  <2>4. CASE w = 1
    <3>1. d0 = 0 /\ d1 = pt - r /\ fee = r
      BY <2>4 DEF Share, Fee, DRAW
    <3> HIDE DEF s, r, pt, d0, d1, fee
    <3> QED BY <2>1, <3>1 DEF s, pt
  <2> QED BY <2>2, <2>3, <2>4 DEF Winners
<1>6. /\ matches' = [matches EXCEPT ![id].status = "Resolved"]
      /\ Disburse(id, d0, d1, fee)
  BY DEF Payout
<1> HIDE DEF d0, d1, fee
<1> QED BY <1>5, <1>6, ReleaseKeeps DEF Closed, Live

LEMMA VoidKeeps ==
  ASSUME IInv, NEW id \in Ids,
         matches[id].status \in {"Active", "Proposed"},
         Void(id),
         UNCHANGED <<inviteHash, nextMatchId, owned, game, chain>>
  PROVE  IInv'
<1> DEFINE s == matches[id].stake
<1>1. s \in Nat /\ Pot(matches[id]) = 2 * s
  BY DEF IInv, TypeOK, Match, Pot
<1>2. 0 * BPS <= MaxRakeBps * Pot(matches[id]) /\ s + s + 0 = 2 * s
  BY <1>1, MoneyAssumption
<1>3. /\ matches' = [matches EXCEPT ![id].status = "Voided"]
      /\ Disburse(id, s, s, 0)
  BY DEF Void
<1> QED BY <1>1, <1>2, <1>3, ReleaseKeeps DEF Closed, Live

LEMMA RefundKeeps ==
  ASSUME IInv, NEW id \in Ids,
         matches[id].status = "Open",
         RefundCreator(id),
         UNCHANGED <<inviteHash, nextMatchId, owned, game, chain>>
  PROVE  IInv'
<1> DEFINE s == matches[id].stake
<1>1. s \in Nat /\ Pot(matches[id]) = 2 * s
  BY DEF IInv, TypeOK, Match, Pot
<1>2. 0 * BPS <= MaxRakeBps * Pot(matches[id]) /\ s + 0 + 0 = s
  BY <1>1, MoneyAssumption
<1>3. /\ matches' = [matches EXCEPT ![id].status = "Cancelled"]
      /\ Disburse(id, s, 0, 0)
  BY DEF RefundCreator
<1> QED BY <1>1, <1>2, <1>3, ReleaseKeeps DEF Closed, Live

\* A match that is not closed may be rewritten while it stays unclosed.
LEMMA EditKeeps ==
  ASSUME IInv, NEW id \in Ids, NEW n \in Match,
         matches' = [matches EXCEPT ![id] = n],
         matches[id].status \notin Closed, n.status \notin Closed,
         UNCHANGED paid
  PROVE  matches' \in [Ids -> Match] /\ Conserved'
<1>1. matches' \in [Ids -> Match]
  BY DEF IInv, TypeOK
<1>2. ConservedAt(n, paid[id])
  <2>1. ConservedAt(matches[id], paid[id]) /\ paid[id] \in Ledger
    BY DEF IInv, Conserved, TypeOK
  <2>2. paid[id].p0 + paid[id].p1 + paid[id].fee = 0 /\ paid[id].fee = 0
    BY <2>1 DEF ConservedAt, Ledger
  <2>3. Pot(n) \in Nat /\ 0 * BPS = 0
    BY MoneyAssumption DEF Match, Pot
  <2>4. 0 <= MaxRakeBps * Pot(n)
    BY <2>3, MoneyAssumption
  <2> QED BY <2>2, <2>3, <2>4 DEF ConservedAt
<1>3. \A x \in Ids : ConservedAt(matches'[x], paid[x])
  BY <1>2 DEF IInv, TypeOK, Conserved
<1> QED BY <1>1, <1>3 DEF Conserved, ConservedAt, Deposits, Pot

LEMMA InitIInv == Init => IInv
<1> SUFFICES ASSUME Init PROVE IInv
  OBVIOUS
<1>1. Empty \in Match
  BY MoneyAssumption DEF Empty, Match, Statuses, Winners, DRAW, Commitments
<1>2. TypeOK
  <2>1. owned \in Owned
    BY MoneyAssumption DEF Init, Owned
  <2> QED BY <1>1, <2>1 DEF Init, TypeOK, Ledger, Winners, Playing
<1>3. Conserved
  <2>1. Pot(Empty) = 0 /\ Empty.status = "None"
    BY DEF Pot, Empty
  <2>2. ConservedAt(Empty, [p0 |-> 0, p1 |-> 0, fee |-> 0])
    BY <2>1, MoneyAssumption DEF ConservedAt, Closed
  <2> QED BY <2>2 DEF Init, Conserved
<1>4. Fresh
  BY DEF Init, Fresh, Empty
<1> QED BY <1>2, <1>3, <1>4 DEF IInv

\* The records _create and _join write.
Opened(m, tok, s, u, k, r, d) ==
  [m EXCEPT !.token = tok, !.stake = s, !.player0 = u, !.session0 = k,
            !.status = "Open", !.rakeBps = r, !.activeDeadline = d]
Joined(m, u, k, d, w, b) ==
  [m EXCEPT !.player1 = u, !.session1 = k, !.status = "Active",
            !.activeDeadline = d, !.challengeWindow = w,
            !.startTurn = UNSET, !.revealBlock = b]

LEMMA OpenedType ==
  ASSUME NEW m \in Match, NEW tok \in Tokens, NEW s \in Nat, NEW u \in Users,
         NEW k \in Keys, NEW r \in 0 .. MaxRakeBps, NEW d \in Nat
  PROVE  /\ Opened(m, tok, s, u, k, r, d) \in Match
         /\ Opened(m, tok, s, u, k, r, d).status = "Open"
BY DEF Opened, Match, Statuses

LEMMA JoinedType ==
  ASSUME NEW m \in Match, NEW u \in Users, NEW k \in Keys,
         NEW d \in Nat, NEW w \in Nat, NEW b \in Nat
  PROVE  /\ Joined(m, u, k, d, w, b) \in Match
         /\ Joined(m, u, k, d, w, b).status = "Active"
BY DEF Joined, Match, Statuses

LEMMA CreateKeeps ==
  ASSUME IInv, NEW u \in Users, NEW tok \in Tokens, NEW s \in Stakes,
         NEW k \in Keys, NEW c \in Codes \cup {NoCode}, Create(u, tok, s, k, c)
  PROVE  IInv'
<1> DEFINE id == nextMatchId
           n == Opened(matches[id], tok, s, u, k, owned.rakeBps, now + owned.openTtl)
<1>1. id \in Ids /\ matches' = [matches EXCEPT ![id] = n]
  BY DEF Create, Opened
<1>2. s \in Nat /\ owned \in Owned /\ now \in Nat /\ matches[id] \in Match
  BY <1>1, MoneyAssumption DEF IInv, TypeOK
<1>3. n \in Match /\ n.status = "Open"
  <2>1. owned.rakeBps \in 0 .. MaxRakeBps /\ now + owned.openTtl \in Nat
    BY <1>2 DEF Owned
  <2> QED BY <1>2, <2>1, OpenedType
<1>4. matches[id].status = "None"
  BY <1>1 DEF IInv, Fresh, Ids
<1>5. UNCHANGED paid /\ fees' = fees /\ pool' = [pool EXCEPT ![tok] = @ + s]
  BY DEF Create, Deposit
<1>6. matches' \in [Ids -> Match] /\ Conserved'
  <2> HIDE DEF id, n
  <2> QED BY <1>1, <1>3, <1>4, <1>5, EditKeeps DEF Closed
<1>7. pool' \in [Tokens -> Nat]
  BY <1>2, <1>5, CreditType DEF IInv, TypeOK
<1>8. Fresh'
  <2>1. nextMatchId' = nextMatchId + 1 /\ nextMatchId \in Nat
    BY DEF Create, IInv, TypeOK
  <2> HIDE DEF n
  <2> QED BY <1>1, <2>1 DEF IInv, Fresh, TypeOK, Ids
<1>9. inviteHash' \in [Ids -> Codes \cup {NoCode}] /\ nextMatchId' \in Nat
  BY DEF Create, IInv, TypeOK
<1> QED BY <1>5, <1>6, <1>7, <1>8, <1>9 DEF Create, chain, IInv, TypeOK

LEMMA JoinKeeps ==
  ASSUME IInv, NEW u \in Users, NEW id \in Ids, NEW k \in Keys,
         NEW c \in Codes \cup {NoCode}, Join(u, id, k, c)
  PROVE  IInv'
<1> DEFINE m == matches[id]
           n == Joined(m, u, k, now + owned.matchTtl, owned.challengeWindow, height + 1)
<1>1. matches' = [matches EXCEPT ![id] = n] /\ m.status = "Open"
  BY DEF Join, Joined
<1>2. m \in Match /\ owned \in Owned /\ now \in Nat /\ height \in Nat
  BY DEF IInv, TypeOK
<1>3. n \in Match /\ n.status = "Active"
  <2>1. /\ now + owned.matchTtl \in Nat /\ owned.challengeWindow \in Nat
        /\ height + 1 \in Nat
    BY <1>2 DEF Owned
  <2> QED BY <1>2, <2>1, JoinedType
<1>4. UNCHANGED paid /\ fees' = fees /\ pool' = [pool EXCEPT ![m.token] = @ + m.stake]
  BY DEF Join, Deposit
<1>5. matches' \in [Ids -> Match] /\ Conserved'
  <2> HIDE DEF n
  <2> QED BY <1>1, <1>3, <1>4, EditKeeps DEF Closed
<1>6. pool' \in [Tokens -> Nat]
  <2>1. m.stake \in Nat
    BY <1>2 DEF Match
  <2> HIDE DEF m
  <2> QED BY <2>1, <1>4, CreditType DEF IInv, TypeOK
<1>7. Fresh'
  <2>1. nextMatchId' = nextMatchId
    BY DEF Join
  <2> HIDE DEF n
  <2> QED BY <1>1, <2>1 DEF IInv, Fresh, TypeOK
<1> QED BY <1>4, <1>5, <1>6, <1>7 DEF Join, chain, IInv, TypeOK

LEMMA FinalizeStartKeeps ==
  ASSUME IInv, NEW id \in Ids, FinalizeStart(id)
  PROVE  IInv'
<1> DEFINE m == matches[id]
<1>1. m \in Match /\ m.status = "Active" /\ height \in Nat
  BY DEF IInv, TypeOK, FinalizeStart
<1>2. PICK n \in Match : matches' = [matches EXCEPT ![id] = n] /\ n.status = "Active"
  <2>1. CASE matches' = [matches EXCEPT ![id].revealBlock = height + 1]
    <3> DEFINE n == [m EXCEPT !.revealBlock = height + 1]
    <3>1. n \in Match /\ n.status = "Active"
      BY <1>1 DEF Match
    <3>2. matches' = [matches EXCEPT ![id] = n]
      BY <2>1
    <3> QED BY <3>1, <3>2
  <2>2. ASSUME NEW start \in {0, 1}, matches' = [matches EXCEPT ![id].startTurn = start]
        PROVE  \E n \in Match : matches' = [matches EXCEPT ![id] = n] /\ n.status = "Active"
    <3> DEFINE n == [m EXCEPT !.startTurn = start]
    <3>1. n \in Match /\ n.status = "Active"
      BY <1>1 DEF Match
    <3>2. matches' = [matches EXCEPT ![id] = n]
      BY <2>2
    <3> QED BY <3>1, <3>2
  <2> QED BY <2>1, <2>2 DEF FinalizeStart
<1>3. matches' \in [Ids -> Match] /\ Conserved'
  BY <1>1, <1>2, EditKeeps DEF FinalizeStart, money, Closed
<1>4. Fresh'
  BY <1>1, <1>2 DEF FinalizeStart, IInv, Fresh, TypeOK
<1> QED BY <1>3, <1>4 DEF FinalizeStart, money, chain, IInv, TypeOK

\* The record proposeResult writes.
Claimed(m, w, c, d) ==
  [m EXCEPT !.proposedWinner = w, !.transcriptCommitment = c,
            !.status = "Proposed", !.challengeDeadline = d]

LEMMA ClaimedType ==
  ASSUME NEW m \in Match, NEW w \in Winners, NEW c \in Commitments, NEW d \in Nat
  PROVE  Claimed(m, w, c, d) \in Match /\ Claimed(m, w, c, d).status = "Proposed"
BY DEF Claimed, Match, Statuses

LEMMA ProposeKeeps ==
  ASSUME IInv, NEW u \in Users, NEW id \in Ids, NEW w \in Winners,
         NEW c \in Commitments, ProposeResult(u, id, w, c)
  PROVE  IInv'
<1> DEFINE m == matches[id]  n == Claimed(m, w, c, now + m.challengeWindow)
<1>1. m \in Match /\ m.status = "Active" /\ now \in Nat
  BY DEF IInv, TypeOK, ProposeResult
<1>2. n \in Match /\ n.status = "Proposed"
  <2>1. now + m.challengeWindow \in Nat
    BY <1>1 DEF Match
  <2> QED BY <1>1, <2>1, ClaimedType
<1>3. matches' = [matches EXCEPT ![id] = n]
  BY DEF ProposeResult, Claimed
<1> HIDE DEF n
<1>4. matches' \in [Ids -> Match] /\ Conserved'
  BY <1>1, <1>2, <1>3, EditKeeps DEF ProposeResult, money, Closed
<1>5. Fresh'
  BY <1>1, <1>3 DEF ProposeResult, IInv, Fresh, TypeOK
<1> QED BY <1>4, <1>5 DEF ProposeResult, money, chain, IInv, TypeOK

LEMMA ChallengeKeeps ==
  ASSUME IInv, NEW u \in Users, NEW id \in Ids, NEW t \in Transcript,
         Challenge(u, id, t)
  PROVE  IInv'
<1>1. matches[id].status = "Proposed" /\ t.matchId = id
  BY DEF Challenge, Challengeable
<1>2. CASE Replay(t) # Playing /\ Payout(id, Replay(t))
  <2>1. Replay(t) \in Winners
    BY <1>1, <1>2 DEF Replay, IInv, TypeOK
  <2> QED BY <1>1, <1>2, <2>1, PayoutKeeps DEF Challenge
<1>3. CASE Void(id)
  BY <1>1, <1>3, VoidKeeps DEF Challenge
<1> QED BY <1>2, <1>3 DEF Challenge

LEMMA SettleKeeps ==
  ASSUME IInv, Settle
  PROVE  IInv'
<1>1. ASSUME NEW u \in Users, NEW id \in Ids, CancelMatch(u, id)
      PROVE  IInv'
  BY <1>1, RefundKeeps DEF CancelMatch
<1>2. ASSUME NEW id \in Ids, NEW w \in Winners, NEW k0 \in Keys, NEW k1 \in Keys,
             SettleSigned(id, w, k0, k1)
      PROVE  IInv'
  BY <1>2, PayoutKeeps DEF SettleSigned
<1>3. ASSUME NEW id \in Ids, Finalize(id)
      PROVE  IInv'
  <2>1. matches[id].proposedWinner \in Winners
    BY DEF IInv, TypeOK, Match
  <2> QED BY <1>3, <2>1, PayoutKeeps DEF Finalize
<1>4. ASSUME NEW id \in Ids, VoidExpired(id)
      PROVE  IInv'
  BY <1>4, VoidKeeps, RefundKeeps DEF VoidExpired
<1> QED BY <1>1, <1>2, <1>3, <1>4, FinalizeStartKeeps, ProposeKeeps, ChallengeKeeps
       DEF Settle

LEMMA OwnerStepKeeps ==
  ASSUME IInv, OwnerStep
  PROVE  IInv'
<1>1. owned' \in Owned
  <2>1. owned \in Owned
    BY DEF IInv, TypeOK
  <2> QED BY <2>1, MoneyAssumption
         DEF OwnerStep, Administer, SetRake, SetMinStake, SetChallengeWindow,
             SetTreasury, SetMatchTtl, SetOpenTtl, SetTokenAllowed, Owned
<1>2. UNCHANGED <<matches, inviteHash, nextMatchId, money, game, chain>>
  BY DEF OwnerStep, Administer, SetRake, SetMinStake, SetChallengeWindow,
         SetTreasury, SetMatchTtl, SetOpenTtl, SetTokenAllowed
<1> QED BY <1>1, <1>2 DEF IInv, TypeOK, Conserved, ConservedAt, Deposits, Pot,
                          Fresh, money, chain

LEMMA OffChainKeeps ==
  ASSUME IInv, (\E id \in Ids : PlayMove(id)) \/ NextBlock \/ UNCHANGED vars
  PROVE  IInv'
<1>1. UNCHANGED <<matches, inviteHash, nextMatchId, owned, money>>
  BY DEF PlayMove, NextBlock, vars
<1>2. game' \in [Ids -> [ply : Nat, winner : Winners \cup {Playing}]]
  BY DEF PlayMove, NextBlock, vars, IInv, TypeOK
<1>3. now' \in Nat /\ height' \in Nat
  BY BoundsAssumption DEF PlayMove, NextBlock, vars, chain, IInv, TypeOK
<1> QED BY <1>1, <1>2, <1>3 DEF IInv, TypeOK, Conserved, ConservedAt, Deposits, Pot,
                                Fresh, money

LEMMA StepIInv == IInv /\ [Next]_vars => IInv'
<1> SUFFICES ASSUME IInv, [Next]_vars PROVE IInv'
  OBVIOUS
<1>1. CASE Fund
  BY <1>1, CreateKeeps, JoinKeeps DEF Fund
<1>2. CASE Settle
  BY <1>2, SettleKeeps
<1>3. CASE OwnerStep
  BY <1>3, OwnerStepKeeps
<1>4. CASE (\E id \in Ids : PlayMove(id)) \/ NextBlock \/ UNCHANGED vars
  BY <1>4, OffChainKeeps
<1> QED BY <1>1, <1>2, <1>3, <1>4 DEF Next

\* Every reachable state of the escrow is well typed and conserves each match's
\* money, whatever the owner sets and however many matches there are.
THEOREM Invariance == Spec => []IInv
BY InitIInv, StepIInv, PTL DEF Spec

\* The storage and the balances always have the types of the code, and each match
\* releases exactly its deposits, once, with a fee under the cap (_payout, _void and
\* the refunds of MatchEscrow.sol:255-439).
THEOREM BooksBalance == Spec => []EscrowInv
BY Invariance, PTL DEF IInv, EscrowInv

-----------------------------------------------------------------------------
(* Action properties *)

\* Every step rewrites at most one match, in one of six ways; only a release
\* of a live match touches the ledger.
Edit(m, n) ==
  \/ m.status = "None"
  \/ /\ m.status = "Open" /\ Terms(n) = Terms(m)
  \/ /\ m.status = "Active" /\ m.startTurn = UNSET
     /\ Terms(n) = Terms(m) /\ JoinTerms(n) = JoinTerms(m)
  \/ /\ m.status \in {"Active", "Proposed"} /\ n.startTurn = m.startTurn
     /\ Terms(n) = Terms(m) /\ JoinTerms(n) = JoinTerms(m)

LEMMA EditFrozen ==
  ASSUME IInv, NEW id \in Ids, NEW n,
         matches' = [matches EXCEPT ![id] = n], Edit(matches[id], n),
         \A x \in Ids \ {id} : paid'[x] = paid[x]
  PROVE  FrozenStep
<1>1. \A x \in Ids \ {id} : matches'[x] = matches[x]
  BY DEF IInv, TypeOK
<1>2. matches'[id] = n
  BY DEF IInv, TypeOK
<1> SUFFICES ASSUME NEW x \in Ids
             PROVE  LET a == matches[x]  b == matches'[x]
                    IN /\ a.status # "None" => Terms(b) = Terms(a)
                       /\ a.status \notin {"None", "Open"} =>
                            /\ JoinTerms(b) = JoinTerms(a)
                            /\ a.startTurn # UNSET => b.startTurn = a.startTurn
                       /\ a.status \in Closed => b = a /\ paid'[x] = paid[x]
  BY DEF FrozenStep
<1>3. CASE x = id
  BY <1>2, <1>3 DEF Edit, Closed
<1>4. CASE x # id
  BY <1>1, <1>4
<1> QED BY <1>3, <1>4

LEMMA ReleaseFrozen ==
  ASSUME IInv, NEW id \in Ids, NEW st, matches[id].status \in Live,
         matches' = [matches EXCEPT ![id].status = st],
         NEW d0, NEW d1, NEW fee, Disburse(id, d0, d1, fee)
  PROVE  FrozenStep
<1> DEFINE m == matches[id]  n == [m EXCEPT !.status = st]
<1>1. m \in Match /\ matches' = [matches EXCEPT ![id] = n]
  BY DEF IInv, TypeOK
<1>2. Terms(n) = Terms(m) /\ JoinTerms(n) = JoinTerms(m) /\ n.startTurn = m.startTurn
  BY <1>1 DEF Match, Terms, JoinTerms
<1>3. \A x \in Ids \ {id} : paid'[x] = paid[x]
  BY DEF Disburse, IInv, TypeOK
<1>4. Edit(m, n)
  BY <1>2 DEF Edit, Live
<1> HIDE DEF n
<1> QED BY <1>1, <1>3, <1>4, EditFrozen

LEMMA StepFrozen == IInv /\ [Next]_vars => [FrozenStep]_vars
<1> SUFFICES ASSUME IInv, Next PROVE FrozenStep
  BY DEF FrozenStep, vars, money
<1>1. ASSUME NEW u \in Users, NEW tok \in Tokens, NEW s \in Stakes,
             NEW k \in Keys, NEW c \in Codes \cup {NoCode}, Create(u, tok, s, k, c)
      PROVE  FrozenStep
  <2> DEFINE id == nextMatchId
             n == Opened(matches[id], tok, s, u, k, owned.rakeBps, now + owned.openTtl)
  <2>1. id \in Ids /\ matches' = [matches EXCEPT ![id] = n] /\ paid' = paid
    BY <1>1 DEF Create, Opened, Deposit
  <2>2. Edit(matches[id], n)
    BY <2>1 DEF Edit, IInv, Fresh, Ids
  <2> HIDE DEF id, n
  <2> QED BY <2>1, <2>2, EditFrozen
<1>2. ASSUME NEW u \in Users, NEW id \in Ids, NEW k \in Keys,
             NEW c \in Codes \cup {NoCode}, Join(u, id, k, c)
      PROVE  FrozenStep
  <2> DEFINE m == matches[id]
             n == Joined(m, u, k, now + owned.matchTtl, owned.challengeWindow, height + 1)
  <2>1. matches' = [matches EXCEPT ![id] = n] /\ paid' = paid /\ m.status = "Open"
    BY <1>2 DEF Join, Joined, Deposit
  <2>2. Terms(n) = Terms(m)
    BY DEF IInv, TypeOK, Match, Joined, Terms
  <2>3. Edit(m, n)
    BY <2>1, <2>2 DEF Edit
  <2> HIDE DEF n
  <2> QED BY <2>1, <2>3, EditFrozen
<1>3. ASSUME NEW id \in Ids, FinalizeStart(id)
      PROVE  FrozenStep
  <2> DEFINE m == matches[id]
  <2>1. m \in Match /\ m.status = "Active" /\ m.startTurn = UNSET /\ paid' = paid
    BY <1>3 DEF FinalizeStart, money, IInv, TypeOK
  <2>2. PICK n : matches' = [matches EXCEPT ![id] = n] /\ Terms(n) = Terms(m)
                 /\ JoinTerms(n) = JoinTerms(m)
    <3>1. CASE matches' = [matches EXCEPT ![id].revealBlock = height + 1]
      <4> DEFINE n == [m EXCEPT !.revealBlock = height + 1]
      <4>1. Terms(n) = Terms(m) /\ JoinTerms(n) = JoinTerms(m)
        BY <2>1 DEF Match, Terms, JoinTerms
      <4> QED BY <3>1, <4>1
    <3>2. ASSUME NEW start \in {0, 1}, matches' = [matches EXCEPT ![id].startTurn = start]
          PROVE  \E n : matches' = [matches EXCEPT ![id] = n] /\ Terms(n) = Terms(m)
                        /\ JoinTerms(n) = JoinTerms(m)
      <4> DEFINE n == [m EXCEPT !.startTurn = start]
      <4>1. Terms(n) = Terms(m) /\ JoinTerms(n) = JoinTerms(m)
        BY <2>1 DEF Match, Terms, JoinTerms
      <4> QED BY <3>2, <4>1
    <3> QED BY <1>3, <3>1, <3>2 DEF FinalizeStart
  <2> QED BY <2>1, <2>2, EditFrozen DEF Edit
<1>4. ASSUME NEW u \in Users, NEW id \in Ids, NEW w \in Winners,
             NEW c \in Commitments, ProposeResult(u, id, w, c)
      PROVE  FrozenStep
  <2> DEFINE m == matches[id]  n == Claimed(m, w, c, now + m.challengeWindow)
  <2>1. matches' = [matches EXCEPT ![id] = n] /\ paid' = paid /\ m.status = "Active"
    BY <1>4 DEF ProposeResult, Claimed, money
  <2>2. Terms(n) = Terms(m) /\ JoinTerms(n) = JoinTerms(m) /\ n.startTurn = m.startTurn
    BY DEF IInv, TypeOK, Match, Claimed, Terms, JoinTerms
  <2>3. Edit(m, n)
    BY <2>1, <2>2 DEF Edit
  <2> HIDE DEF n
  <2> QED BY <2>1, <2>3, EditFrozen
<1>5. ASSUME NEW id \in Ids, NEW w, Payout(id, w), matches[id].status \in Live
      PROVE  FrozenStep
  BY <1>5, ReleaseFrozen DEF Payout
<1>6. ASSUME NEW id \in Ids, Void(id) \/ RefundCreator(id), matches[id].status \in Live
      PROVE  FrozenStep
  BY <1>6, ReleaseFrozen DEF Void, RefundCreator
<1>7. CASE Settle
  BY <1>3, <1>4, <1>5, <1>6, <1>7
     DEF Settle, CancelMatch, SettleSigned, Challenge, Challengeable, Finalize,
         VoidExpired, Live
<1>8. CASE OwnerStep \/ (\E id \in Ids : PlayMove(id)) \/ NextBlock
  <2>1. matches' = matches /\ paid' = paid
    BY <1>8 DEF OwnerStep, Administer, SetRake, SetMinStake, SetChallengeWindow,
                SetTreasury, SetMatchTtl, SetOpenTtl, SetTokenAllowed,
                PlayMove, NextBlock, money
  <2> QED BY <2>1 DEF FrozenStep
<1>9. CASE Fund
  BY <1>1, <1>2, <1>9 DEF Fund
<1> QED BY <1>7, <1>8, <1>9 DEF Next

\* No owner setting and no transaction changes the terms of a funded match, and
\* a closed match is final (MatchEscrow.sol:41-57; audit M-02).
THEOREM TermsAreFrozen == Spec => TermsFrozen
<1>1. Spec => [][FrozenStep]_vars
  BY Invariance, StepFrozen, PTL DEF Spec
<1> QED BY <1>1 DEF TermsFrozen


\* A payout resolves its own match at the split of its outcome, and touches no other.
LEMMA PayoutSplits ==
  ASSUME IInv, NEW id \in Ids, NEW w \in Winners,
         matches[id].status \in Live, Payout(id, w)
  PROVE  /\ matches'[id].status = "Resolved"
         /\ paid'[id] = Split(matches[id], w)
         /\ \A x \in Ids \ {id} : matches'[x] = matches[x]
<1> DEFINE m == matches[id]
           d0 == Share(m, w, 0)  d1 == Share(m, w, 1)  fee == Fee(m, w)
<1>1. m \in Match /\ paid[id] \in Ledger /\ ConservedAt(m, paid[id])
  BY DEF IInv, TypeOK, Conserved
<1>2. paid[id] = [p0 |-> 0, p1 |-> 0, fee |-> 0]
  BY <1>1 DEF ConservedAt, Live, Closed, Ledger
<1>3. d0 \in Nat /\ d1 \in Nat /\ fee \in Nat
  <2>1. m.stake \in Nat /\ Pot(m) \in Nat /\ Rake(m) \in Nat /\ Rake(m) <= Pot(m)
    BY <1>1, RakeBounds DEF Match
  <2>2. Pot(m) - Rake(m) \in Nat
    BY <2>1
  <2> QED BY <2>1, <2>2 DEF Share, Fee
<1>4. paid' = [paid EXCEPT ![id] = [p0 |-> paid[id].p0 + d0, p1 |-> paid[id].p1 + d1,
                                    fee |-> paid[id].fee + fee]]
  BY DEF Payout, Disburse
<1>5. paid'[id] = [p0 |-> d0, p1 |-> d1, fee |-> fee]
  <2> HIDE DEF d0, d1, fee
  <2> QED BY <1>2, <1>3, <1>4 DEF IInv, TypeOK
<1>6. matches'[id].status = "Resolved" /\ \A x \in Ids \ {id} : matches'[x] = matches[x]
  BY <1>1 DEF Payout, IInv, TypeOK, Match
<1> QED BY <1>5, <1>6 DEF Split

LEMMA StepPrevails == IInv /\ [Next]_vars => [PrevailStep]_vars
<1> SUFFICES ASSUME IInv, Next, NEW id \in Ids, TrueClaim(id)
             PROVE  \/ TrueClaim(id)'
                    \/ /\ matches'[id].status = "Resolved"
                       /\ paid'[id] = Split(matches[id], matches[id].proposedWinner)
  BY DEF PrevailStep
<1> DEFINE m == matches[id]
<1>1. /\ m.status = "Proposed" /\ game[id].winner # Playing
      /\ m.proposedWinner = game[id].winner
      /\ m.transcriptCommitment = <<id, m.startTurn, game[id].ply>>
      /\ m \in Match /\ m.proposedWinner \in Winners
  BY DEF TrueClaim, IInv, TypeOK, Match
<1>2. ASSUME matches'[id] = m, game'[id] = game[id]
      PROVE  TrueClaim(id)'
  BY <1>1, <1>2 DEF TrueClaim
<1>3. CASE \E u \in Users, t \in Transcript : Challenge(u, id, t)
  <2> PICK u \in Users, t \in Transcript : Challenge(u, id, t)
    BY <1>3
  <2>1. t.matchId = id
    BY DEF Challenge, Challengeable
  <2>2. ~ MayVoid(u, id, t)
    <3> SUFFICES ASSUME MayVoid(u, id, t) PROVE FALSE
      OBVIOUS
    <3>1. t.len = game[id].ply
      BY <1>1 DEF MayVoid, Hash
    <3>2. Replay(t) = game[id].winner
      BY <2>1, <3>1 DEF Replay
    <3> QED BY <1>1, <3>2 DEF MayVoid
  <2>3. Replay(t) # Playing /\ Payout(id, Replay(t))
    BY <2>2 DEF Challenge
  <2>4. Replay(t) = m.proposedWinner
    BY <1>1, <2>1, <2>3 DEF Replay
  <2> QED BY <1>1, <2>3, <2>4, PayoutSplits DEF Live
<1>4. CASE Finalize(id)
  BY <1>1, <1>4, PayoutSplits DEF Finalize, Live
<1>5. ASSUME NEW x \in Ids, NEW w, Payout(x, w) \/ Void(x) \/ RefundCreator(x), x # id,
             game' = game
      PROVE  TrueClaim(id)'
  <2>1. matches'[id] = m
    BY <1>5 DEF Payout, Void, RefundCreator, IInv, TypeOK
  <2> QED BY <1>2, <1>5, <2>1
<1>6. CASE Settle
  <2>1. ASSUME NEW u \in Users, NEW x \in Ids, CancelMatch(u, x)
        PROVE  TrueClaim(id)'
    BY <1>1, <1>5, <2>1 DEF CancelMatch
  <2>2. ASSUME NEW x \in Ids, NEW w \in Winners, NEW k0 \in Keys, NEW k1 \in Keys,
               SettleSigned(x, w, k0, k1)
        PROVE  TrueClaim(id)'
    BY <1>1, <1>5, <2>2 DEF SettleSigned
  <2>3. ASSUME NEW u \in Users, NEW x \in Ids, NEW w \in Winners, NEW c \in Commitments,
               ProposeResult(u, x, w, c)
        PROVE  TrueClaim(id)'
    BY <1>1, <1>2, <2>3 DEF ProposeResult, IInv, TypeOK
  <2>4. ASSUME NEW u \in Users, NEW x \in Ids, NEW t \in Transcript, Challenge(u, x, t),
               x # id
        PROVE  TrueClaim(id)'
    BY <1>5, <2>4 DEF Challenge
  <2>5. ASSUME NEW x \in Ids, FinalizeStart(x)
        PROVE  TrueClaim(id)'
    BY <1>1, <1>2, <2>5 DEF FinalizeStart, IInv, TypeOK
  <2>6. ASSUME NEW x \in Ids, Finalize(x), x # id
        PROVE  TrueClaim(id)'
    BY <1>5, <2>6 DEF Finalize
  <2>7. ASSUME NEW x \in Ids, VoidExpired(x)
        PROVE  TrueClaim(id)'
    BY <1>1, <1>5, <2>7 DEF VoidExpired
  <2> QED BY <1>3, <1>4, <1>6, <2>1, <2>2, <2>3, <2>4, <2>5, <2>6, <2>7 DEF Settle
<1>7. CASE Fund
  <2>1. ASSUME NEW u \in Users, NEW tok \in Tokens, NEW s \in Stakes,
               NEW k \in Keys, NEW c \in Codes \cup {NoCode}, Create(u, tok, s, k, c)
        PROVE  TrueClaim(id)'
    <3>1. id # nextMatchId
      BY <1>1 DEF IInv, Fresh, TypeOK, Ids
    <3> QED BY <1>2, <2>1, <3>1 DEF Create, IInv, TypeOK
  <2>2. ASSUME NEW u \in Users, NEW x \in Ids, NEW k \in Keys,
               NEW c \in Codes \cup {NoCode}, Join(u, x, k, c)
        PROVE  TrueClaim(id)'
    BY <1>1, <1>2, <2>2 DEF Join, IInv, TypeOK
  <2> QED BY <1>7, <2>1, <2>2 DEF Fund
<1>8. CASE OwnerStep \/ NextBlock
  BY <1>2, <1>8 DEF OwnerStep, Administer, SetRake, SetMinStake, SetChallengeWindow,
                    SetTreasury, SetMatchTtl, SetOpenTtl, SetTokenAllowed, NextBlock
<1>9. CASE \E x \in Ids : PlayMove(x)
  BY <1>1, <1>2, <1>9 DEF PlayMove, IInv, TypeOK
<1> QED BY <1>6, <1>7, <1>8, <1>9 DEF Next

\* A player who claims the outcome of a finished game and commits to all of its
\* moves is paid that outcome or still waiting for it, whatever anyone submits
\* (challenge and finalize, MatchEscrow.sol:320-370; audits H-02 and M1).
THEOREM TrueClaimsPrevail == Spec => TrueClaimPrevails
<1>1. Spec => [][PrevailStep]_vars
  BY Invariance, StepPrevails, PTL DEF Spec
<1> QED BY <1>1 DEF TrueClaimPrevails

-----------------------------------------------------------------------------
(* Claims in their window *)

LEMMA StepTruth == IInv /\ [Next]_vars => [TruthStep]_vars
<1> SUFFICES ASSUME IInv, Next, NEW id \in Ids, matches[id].status = "Proposed",
                    matches'[id].status = "Resolved", now <= matches[id].challengeDeadline
             PROVE  /\ game[id].winner # Playing
                    /\ paid'[id] = Split(matches[id], game[id].winner)
  BY DEF TruthStep
<1>1. ASSUME matches'[id].status = matches[id].status PROVE FALSE
  BY <1>1
<1>2. ASSUME NEW x \in Ids, NEW w, x # id, Payout(x, w) \/ Void(x) \/ RefundCreator(x) PROVE FALSE
  <2>1. matches'[id] = matches[id]
    BY <1>2 DEF Payout, Void, RefundCreator, IInv, TypeOK
  <2> QED BY <2>1
<1>3. ASSUME Void(id) \/ RefundCreator(id) PROVE FALSE
  <2>1. matches'[id].status \in {"Voided", "Cancelled"}
    BY <1>3 DEF Void, RefundCreator, IInv, TypeOK, Match
  <2> QED BY <2>1
<1>4. ASSUME NEW x \in Ids, NEW n, matches' = [matches EXCEPT ![x] = n],
             x # id \/ n.status # "Resolved"
      PROVE  FALSE
  BY <1>4 DEF IInv, TypeOK
<1>5. ASSUME NEW u \in Users, NEW x \in Ids, NEW t \in Transcript, Challenge(u, x, t)
      PROVE  /\ game[id].winner # Playing
             /\ paid'[id] = Split(matches[id], game[id].winner)
  <2>1. x = id /\ t.matchId = id /\ Replay(t) # Playing /\ Payout(id, Replay(t))
    BY <1>2, <1>3, <1>5 DEF Challenge, Challengeable
  <2>2. Replay(t) = game[id].winner /\ game[id].winner \in Winners
    BY <2>1 DEF Replay, IInv, TypeOK
  <2> QED BY <2>1, <2>2, PayoutSplits DEF Live
<1>6. CASE Settle
  <2>1. ASSUME NEW x \in Ids, NEW w \in Winners, NEW k0 \in Keys, NEW k1 \in Keys,
               SettleSigned(x, w, k0, k1)
        PROVE  FALSE
    BY <1>2, <2>1 DEF SettleSigned
  <2>2. ASSUME NEW u \in Users, NEW x \in Ids, NEW w \in Winners, NEW c \in Commitments,
               ProposeResult(u, x, w, c)
        PROVE  FALSE
    <3> DEFINE m == matches[x]  n == Claimed(m, w, c, now + m.challengeWindow)
    <3>1. matches' = [matches EXCEPT ![x] = n] /\ x # id
      BY <2>2 DEF ProposeResult, Claimed
    <3> HIDE DEF n
    <3> QED BY <1>4, <3>1
  <2>3. ASSUME NEW x \in Ids, FinalizeStart(x) PROVE FALSE
    <3>1. x # id
      BY <2>3 DEF FinalizeStart
    <3> QED BY <1>1, <2>3, <3>1 DEF FinalizeStart, IInv, TypeOK
  <2>4. ASSUME NEW x \in Ids, Finalize(x) PROVE FALSE
    BY <1>2, <2>4 DEF Finalize, IInv, TypeOK, Match
  <2>5. ASSUME NEW u \in Users, NEW x \in Ids, CancelMatch(u, x) \/ VoidExpired(x) PROVE FALSE
    BY <1>2, <1>3, <2>5 DEF CancelMatch, VoidExpired
  <2>6. ASSUME NEW x \in Ids, VoidExpired(x) PROVE FALSE
    BY <1>2, <1>3, <2>6 DEF VoidExpired
  <2> QED BY <1>5, <1>6, <2>1, <2>2, <2>3, <2>4, <2>5, <2>6 DEF Settle
<1>7. CASE Fund
  <2>1. ASSUME NEW u \in Users, NEW tok \in Tokens, NEW s \in Stakes,
               NEW k \in Keys, NEW c \in Codes \cup {NoCode}, Create(u, tok, s, k, c)
        PROVE  FALSE
    <3>1. id # nextMatchId
      BY DEF IInv, Fresh, TypeOK, Ids
    <3> QED BY <1>1, <2>1, <3>1 DEF Create, IInv, TypeOK
  <2>2. ASSUME NEW u \in Users, NEW x \in Ids, NEW k \in Keys,
               NEW c \in Codes \cup {NoCode}, Join(u, x, k, c)
        PROVE  FALSE
    <3>1. x # id
      BY <2>2 DEF Join
    <3> QED BY <1>1, <2>2, <3>1 DEF Join, IInv, TypeOK
  <2> QED BY <1>7, <2>1, <2>2 DEF Fund
<1>8. CASE OwnerStep \/ NextBlock \/ (\E x \in Ids : PlayMove(x))
  BY <1>1, <1>8 DEF OwnerStep, Administer, SetRake, SetMinStake, SetChallengeWindow,
                    SetTreasury, SetMatchTtl, SetOpenTtl, SetTokenAllowed, NextBlock, PlayMove
<1> QED BY <1>6, <1>7, <1>8 DEF Next

\* Within the challenge window a claimed match is paid for nothing but the outcome of
\* a game both session keys signed to its end (challenge, MatchEscrow.sol:320-361).
THEOREM WindowPaysTruth == Spec => InWindowOnlyTruth
<1>1. Spec => [][TruthStep]_vars
  BY Invariance, StepTruth, PTL DEF Spec
<1> QED BY <1>1 DEF InWindowOnlyTruth

-----------------------------------------------------------------------------
(* The escrow implements StakeCustody *)

StageOf(m) ==
  CASE m.status = "None" -> "empty"
    [] m.status = "Open" -> "half"
    [] m.status \in {"Active", "Proposed"} -> "full"
    [] OTHER -> "released"
TermsOf(m) == [stake |-> m.stake, rakeBps |-> m.rakeBps]

stageBar == [id \in Ids |-> StageOf(matches[id])]
termsBar == [id \in Ids |-> TermsOf(matches[id])]

\* The rake the owner has set is one of the offered.
RakeOffered == owned.rakeBps \in Rakes

LEMMA RakeStaysOffered == Spec => []RakeOffered
<1>1. Init => RakeOffered
  BY DEF Init, RakeOffered
<1>2. IInv /\ RakeOffered /\ [Next]_vars => RakeOffered'
  <2> SUFFICES ASSUME IInv, RakeOffered, [Next]_vars PROVE RakeOffered'
    OBVIOUS
  <2>1. CASE OwnerStep
    <3>1. owned \in Owned
      BY DEF IInv, TypeOK
    <3> QED BY <2>1, <3>1 DEF RakeOffered, Owned, OwnerStep, Administer, SetRake, SetMinStake,
              SetChallengeWindow, SetTreasury, SetMatchTtl, SetOpenTtl, SetTokenAllowed
  <2>2. CASE UNCHANGED owned
    BY <2>2 DEF RakeOffered
  <2>3. OwnerStep \/ UNCHANGED owned
    BY DEF Next, Fund, Settle, Create, Join, CancelMatch, SettleSigned, ProposeResult, Challenge,
           FinalizeStart, Finalize, VoidExpired, PlayMove, NextBlock, vars
  <2> QED BY <2>1, <2>2, <2>3
<1> QED BY <1>1, <1>2, Invariance, PTL DEF Spec

\* A step that gives one match a new record, and what it leaves of the others.
LEMMA OneStage ==
  ASSUME IInv, NEW id \in Ids, NEW n, matches' = [matches EXCEPT ![id] = n]
  PROVE  /\ stageBar' = [stageBar EXCEPT ![id] = StageOf(n)]
         /\ termsBar' = [termsBar EXCEPT ![id] = TermsOf(n)]
BY DEF stageBar, termsBar, IInv, TypeOK

\* StakeCustody's actions in the escrow's terms.
LEMMA CustodyOpen ==
  ASSUME NEW id \in Ids, NEW s \in Stakes, NEW r \in Rakes,
         stageBar[id] = "empty",
         termsBar' = [termsBar EXCEPT ![id] = [stake |-> s, rakeBps |-> r]],
         stageBar' = [stageBar EXCEPT ![id] = "half"], paid' = paid
  PROVE  Custody!Next
<1>1. Custody!Open(id)
  BY DEF Custody!Open, stageBar, termsBar, StageOf, TermsOf
<1> QED BY <1>1 DEF Custody!Next

LEMMA CustodyMatch ==
  ASSUME NEW id \in Ids, stageBar[id] = "half",
         stageBar' = [stageBar EXCEPT ![id] = "full"], termsBar' = termsBar, paid' = paid
  PROVE  Custody!Next
<1>1. Custody!Match(id)
  BY DEF Custody!Match, stageBar, termsBar, StageOf, TermsOf
<1> QED BY <1>1 DEF Custody!Next

LEMMA CustodyRelease ==
  ASSUME NEW id \in Ids, NEW o,
         \/ /\ stageBar[id] = "half"
            /\ o = [p0 |-> matches[id].stake, p1 |-> 0, fee |-> 0]
         \/ /\ stageBar[id] = "full"
            /\ \/ o = [p0 |-> matches[id].stake, p1 |-> matches[id].stake, fee |-> 0]
               \/ o = [p0 |-> Pot(matches[id]) - Rake(matches[id]), p1 |-> 0, fee |-> Rake(matches[id])]
               \/ o = [p0 |-> 0, p1 |-> Pot(matches[id]) - Rake(matches[id]), fee |-> Rake(matches[id])],
         stageBar' = [stageBar EXCEPT ![id] = "released"], termsBar' = termsBar,
         paid' = [paid EXCEPT ![id] = o]
  PROVE  Custody!Next
<1>1. Custody!Release(id, o)
  BY DEF Custody!Release, stageBar, termsBar, StageOf, TermsOf
<1>2. termsBar[id].stake = matches[id].stake /\ termsBar[id].rakeBps = matches[id].rakeBps
  BY DEF termsBar, TermsOf
<1>3. Custody!Return(id) \/ Custody!Refund(id) \/ Custody!Award(id)
  <2>1. CASE /\ stageBar[id] = "half"
             /\ o = [p0 |-> matches[id].stake, p1 |-> 0, fee |-> 0]
    <3>1. Custody!Release(id, [p0 |-> termsBar[id].stake, p1 |-> 0, fee |-> 0])
      BY <1>2, <2>1 DEF Custody!Release, stageBar, termsBar, StageOf, TermsOf
    <3>2. Custody!Return(id)
      BY <2>1, <3>1 DEF Custody!Return, stageBar, termsBar, StageOf, TermsOf
    <3> QED BY <3>2
  <2>2. CASE /\ stageBar[id] = "full"
             /\ o = [p0 |-> matches[id].stake, p1 |-> matches[id].stake, fee |-> 0]
    <3>1. Custody!Release(id, [p0 |-> termsBar[id].stake, p1 |-> termsBar[id].stake, fee |-> 0])
      BY <1>2, <2>2 DEF Custody!Release, stageBar, termsBar, StageOf, TermsOf
    <3>2. Custody!Refund(id)
      BY <2>2, <3>1 DEF Custody!Refund, stageBar, termsBar, StageOf, TermsOf
    <3> QED BY <3>2
  <2>3. ASSUME stageBar[id] = "full", NEW pot, NEW rake,
               pot = 2 * termsBar[id].stake, rake = (pot * termsBar[id].rakeBps) \div BPS,
               \/ o = [p0 |-> pot - rake, p1 |-> 0, fee |-> rake]
               \/ o = [p0 |-> 0, p1 |-> pot - rake, fee |-> rake]
        PROVE  Custody!Award(id)
    <3> DEFINE p == 2 * termsBar[id].stake
               r == (p * termsBar[id].rakeBps) \div BPS
    <3>1. pot = p /\ rake = r
      BY <2>3
    <3> HIDE DEF p, r
    <3>2. \/ Custody!Release(id, [p0 |-> p - r, p1 |-> 0, fee |-> r])
          \/ Custody!Release(id, [p0 |-> 0, p1 |-> p - r, fee |-> r])
      BY <2>3, <3>1 DEF Custody!Release, stageBar, termsBar, StageOf, TermsOf
    <3> USE DEF p, r
    <3> QED BY <2>3, <3>2 DEF Custody!Award, stageBar, termsBar, StageOf, TermsOf
  <2>4. Pot(matches[id]) = 2 * termsBar[id].stake
        /\ Rake(matches[id]) = (Pot(matches[id]) * termsBar[id].rakeBps) \div BPS
    BY <1>2 DEF Pot, Rake
  <2> QED BY <2>1, <2>2, <2>3, <2>4
<1> QED BY <1>3 DEF Custody!Next

\* A release of a live match, as StakeCustody's.
LEMMA ReleaseRefines ==
  ASSUME IInv, NEW id \in Ids, NEW st \in Closed,
         NEW d0 \in Nat, NEW d1 \in Nat, NEW fee \in Nat,
         matches' = [matches EXCEPT ![id].status = st],
         Disburse(id, d0, d1, fee),
         \/ matches[id].status = "Open" /\ d0 = matches[id].stake /\ d1 = 0 /\ fee = 0
         \/ /\ matches[id].status \in {"Active", "Proposed"}
            /\ \/ d0 = matches[id].stake /\ d1 = matches[id].stake /\ fee = 0
               \/ d0 = Pot(matches[id]) - Rake(matches[id]) /\ d1 = 0 /\ fee = Rake(matches[id])
               \/ d0 = 0 /\ d1 = Pot(matches[id]) - Rake(matches[id]) /\ fee = Rake(matches[id])
  PROVE  Custody!Next
<1> DEFINE m == matches[id]  n == [m EXCEPT !.status = st]
           o == [p0 |-> d0, p1 |-> d1, fee |-> fee]
<1>1. m \in Match /\ matches' = [matches EXCEPT ![id] = n]
  BY DEF IInv, TypeOK
<1>2. n.status = st /\ n.stake = m.stake /\ n.rakeBps = m.rakeBps
  BY <1>1 DEF Match
<1>3. StageOf(n) = "released" /\ TermsOf(n) = TermsOf(m)
  BY <1>2 DEF StageOf, TermsOf, Closed
<1>4. stageBar' = [stageBar EXCEPT ![id] = "released"] /\ termsBar' = termsBar
  <2>1. /\ stageBar' = [stageBar EXCEPT ![id] = StageOf(n)]
        /\ termsBar' = [termsBar EXCEPT ![id] = TermsOf(n)]
    BY <1>1, OneStage
  <2>2. termsBar[id] = TermsOf(m) /\ DOMAIN termsBar = Ids
    BY DEF termsBar
  <2>3. [termsBar EXCEPT ![id] = TermsOf(n)] = termsBar
    BY <1>3, <2>2 DEF termsBar
  <2> QED BY <1>3, <2>1, <2>3
<1>5. paid' = [paid EXCEPT ![id] = o]
  <2>1. paid[id] \in Ledger /\ ConservedAt(m, paid[id])
    BY DEF IInv, TypeOK, Conserved
  <2>2. paid[id].p0 = 0 /\ paid[id].p1 = 0 /\ paid[id].fee = 0
    BY <2>1 DEF ConservedAt, Closed, Ledger
  <2>3. paid' = [paid EXCEPT ![id] = [p0 |-> paid[id].p0 + d0, p1 |-> paid[id].p1 + d1,
                                      fee |-> paid[id].fee + fee]]
    BY DEF Disburse
  <2>4. /\ paid[id].p0 + d0 = d0 /\ paid[id].p1 + d1 = d1 /\ paid[id].fee + fee = fee
    BY <2>2
  <2> HIDE DEF m, n
  <2> QED BY <2>3, <2>4
<1>6. stageBar[id] = StageOf(m)
  BY DEF stageBar
<1>7. \/ m.status = "Open" /\ stageBar[id] = "half"
      \/ m.status \in {"Active", "Proposed"} /\ stageBar[id] = "full"
  BY <1>6 DEF StageOf
<1> QED BY <1>4, <1>5, <1>7, CustodyRelease

\* A step that rewrites a match within its stage.
LEMMA EditStutters ==
  ASSUME IInv, NEW id \in Ids, NEW n, matches' = [matches EXCEPT ![id] = n], paid' = paid,
         StageOf(n) = StageOf(matches[id]), TermsOf(n) = TermsOf(matches[id])
  PROVE  UNCHANGED Custody!vars
<1>1. stageBar' = stageBar /\ termsBar' = termsBar
  <2>1. /\ stageBar' = [stageBar EXCEPT ![id] = StageOf(matches[id])]
        /\ termsBar' = [termsBar EXCEPT ![id] = TermsOf(matches[id])]
    <3>1. /\ stageBar' = [stageBar EXCEPT ![id] = StageOf(n)]
          /\ termsBar' = [termsBar EXCEPT ![id] = TermsOf(n)]
      BY OneStage
    <3> QED BY <3>1
  <2> QED BY <2>1 DEF stageBar, termsBar
<1> QED BY <1>1 DEF Custody!vars, stageBar, termsBar, StageOf, TermsOf

LEMMA PayoutRefines ==
  ASSUME IInv, NEW id \in Ids, NEW w \in Winners,
         matches[id].status \in {"Active", "Proposed"}, Payout(id, w)
  PROVE  Custody!Next
<1> DEFINE m == matches[id]
           d0 == Share(m, w, 0)  d1 == Share(m, w, 1)  fee == Fee(m, w)
<1>1. m \in Match /\ m.stake \in Nat /\ Pot(m) - Rake(m) \in Nat /\ Rake(m) \in Nat
  <2>1. m \in Match
    BY DEF IInv, TypeOK
  <2>2. Pot(m) \in Nat /\ Rake(m) \in Nat /\ Rake(m) <= Pot(m)
    BY <2>1, RakeBounds
  <2>3. Pot(m) - Rake(m) \in Nat
    BY <2>2
  <2> QED BY <2>1, <2>2, <2>3 DEF Match
<1>2. \/ d0 = m.stake /\ d1 = m.stake /\ fee = 0
      \/ d0 = Pot(m) - Rake(m) /\ d1 = 0 /\ fee = Rake(m)
      \/ d0 = 0 /\ d1 = Pot(m) - Rake(m) /\ fee = Rake(m)
  BY DEF Share, Fee, Winners, DRAW
<1>3. d0 \in Nat /\ d1 \in Nat /\ fee \in Nat
  BY <1>1, <1>2
<1>4. matches' = [matches EXCEPT ![id].status = "Resolved"] /\ Disburse(id, d0, d1, fee)
  BY DEF Payout
<1> HIDE DEF d0, d1, fee
<1>5. "Resolved" \in Closed
  BY DEF Closed
<1> QED BY <1>2, <1>3, <1>4, <1>5, ReleaseRefines

LEMMA RefundRefines ==
  ASSUME IInv, NEW id \in Ids,
         \/ matches[id].status \in {"Active", "Proposed"} /\ Void(id)
         \/ matches[id].status = "Open" /\ RefundCreator(id)
  PROVE  Custody!Next
<1>1. matches[id].stake \in Nat /\ 0 \in Nat /\ "Voided" \in Closed /\ "Cancelled" \in Closed
  BY DEF IInv, TypeOK, Match, Closed
<1>2. CASE matches[id].status \in {"Active", "Proposed"} /\ Void(id)
  BY <1>1, <1>2, ReleaseRefines DEF Void
<1>3. CASE matches[id].status = "Open" /\ RefundCreator(id)
  BY <1>1, <1>3, ReleaseRefines DEF RefundCreator
<1> QED BY <1>2, <1>3

LEMMA CreateRefines ==
  ASSUME IInv, RakeOffered, NEW u \in Users, NEW tok \in Tokens, NEW s \in Stakes,
         NEW k \in Keys, NEW c \in Codes \cup {NoCode}, Create(u, tok, s, k, c)
  PROVE  Custody!Next
<1> DEFINE id == nextMatchId
           n == Opened(matches[id], tok, s, u, k, owned.rakeBps, now + owned.openTtl)
<1>1. id \in Ids /\ matches' = [matches EXCEPT ![id] = n] /\ paid' = paid
  BY DEF Create, Opened, Deposit
<1>2. matches[id] \in Match /\ matches[id].status = "None"
  <2>1. matches[id] \in Match
    BY <1>1 DEF IInv, TypeOK
  <2>2. matches[id].status = "None"
    BY <1>1 DEF IInv, Fresh, Ids
  <2> QED BY <2>1, <2>2
<1>3. n.status = "Open" /\ n.stake = s /\ n.rakeBps = owned.rakeBps
  BY <1>2 DEF Opened, Match
<1>4. /\ stageBar[id] = "empty" /\ StageOf(n) = "half"
      /\ TermsOf(n) = [stake |-> s, rakeBps |-> owned.rakeBps]
  BY <1>1, <1>2, <1>3 DEF stageBar, StageOf, TermsOf
<1> HIDE DEF n, id
<1>5. /\ stageBar' = [stageBar EXCEPT ![id] = "half"]
      /\ termsBar' = [termsBar EXCEPT ![id] = [stake |-> s, rakeBps |-> owned.rakeBps]]
  BY <1>1, <1>4, OneStage
<1>6. owned.rakeBps \in Rakes
  BY DEF RakeOffered
<1> QED BY <1>1, <1>4, <1>5, <1>6, CustodyOpen

LEMMA JoinRefines ==
  ASSUME IInv, NEW u \in Users, NEW id \in Ids, NEW k \in Keys,
         NEW c \in Codes \cup {NoCode}, Join(u, id, k, c)
  PROVE  Custody!Next
<1> DEFINE m == matches[id]
           n == Joined(m, u, k, now + owned.matchTtl, owned.challengeWindow, height + 1)
<1>1. matches' = [matches EXCEPT ![id] = n] /\ m.status = "Open" /\ paid' = paid /\ m \in Match
  BY DEF Join, Joined, Deposit, IInv, TypeOK
<1>2. n.status = "Active" /\ n.stake = m.stake /\ n.rakeBps = m.rakeBps
  BY <1>1 DEF Joined, Match
<1>3. stageBar[id] = "half" /\ StageOf(n) = "full" /\ TermsOf(n) = TermsOf(m)
  BY <1>1, <1>2 DEF stageBar, StageOf, TermsOf
<1> HIDE DEF n
<1>4. stageBar' = [stageBar EXCEPT ![id] = "full"] /\ termsBar' = termsBar
  <2>1. /\ stageBar' = [stageBar EXCEPT ![id] = StageOf(n)]
        /\ termsBar' = [termsBar EXCEPT ![id] = TermsOf(n)]
    BY <1>1, OneStage
  <2>2. [termsBar EXCEPT ![id] = TermsOf(n)] = termsBar
    BY <1>3 DEF termsBar
  <2> QED BY <1>3, <2>1, <2>2
<1> QED BY <1>1, <1>3, <1>4, CustodyMatch

LEMMA EditRefines ==
  ASSUME IInv, NEW id \in Ids,
         \/ FinalizeStart(id)
         \/ \E u \in Users, w \in Winners, c \in Commitments : ProposeResult(u, id, w, c)
  PROVE  UNCHANGED Custody!vars
<1> DEFINE m == matches[id]
<1>1. m \in Match /\ m.status = "Active" /\ paid' = paid
  BY DEF IInv, TypeOK, FinalizeStart, ProposeResult, money
<1>2. ASSUME NEW n, matches' = [matches EXCEPT ![id] = n], n.stake = m.stake, n.rakeBps = m.rakeBps,
             n.status \in {"Active", "Proposed"}
      PROVE  UNCHANGED Custody!vars
  <2>1. StageOf(n) = StageOf(m) /\ TermsOf(n) = TermsOf(m)
    BY <1>1, <1>2 DEF StageOf, TermsOf
  <2> QED BY <1>1, <1>2, <2>1, EditStutters
<1>3. ASSUME matches' = [matches EXCEPT ![id].revealBlock = height + 1]
      PROVE  UNCHANGED Custody!vars
  <2> DEFINE n == [m EXCEPT !.revealBlock = height + 1]
  <2>1. matches' = [matches EXCEPT ![id] = n]
    BY <1>3
  <2>2. n.stake = m.stake /\ n.rakeBps = m.rakeBps /\ n.status = "Active"
    BY <1>1 DEF Match
  <2> HIDE DEF n
  <2> QED BY <1>2, <2>1, <2>2
<1>4. ASSUME NEW start, matches' = [matches EXCEPT ![id].startTurn = start]
      PROVE  UNCHANGED Custody!vars
  <2> DEFINE n == [m EXCEPT !.startTurn = start]
  <2>1. matches' = [matches EXCEPT ![id] = n]
    BY <1>4
  <2>2. n.stake = m.stake /\ n.rakeBps = m.rakeBps /\ n.status = "Active"
    BY <1>1 DEF Match
  <2> HIDE DEF n
  <2> QED BY <1>2, <2>1, <2>2
<1>5. ASSUME NEW u \in Users, NEW w \in Winners, NEW c \in Commitments, ProposeResult(u, id, w, c)
      PROVE  UNCHANGED Custody!vars
  <2> DEFINE n == Claimed(m, w, c, now + m.challengeWindow)
  <2>1. matches' = [matches EXCEPT ![id] = n]
    BY <1>5 DEF ProposeResult, Claimed
  <2>2. n.stake = m.stake /\ n.rakeBps = m.rakeBps /\ n.status = "Proposed"
    BY <1>1 DEF Match, Claimed
  <2> HIDE DEF n
  <2> QED BY <1>2, <2>1, <2>2
<1> QED BY <1>3, <1>4, <1>5 DEF FinalizeStart

LEMMA StepRefines == IInv /\ RakeOffered /\ [Next]_vars => [Custody!Next]_(Custody!vars)
<1> SUFFICES ASSUME IInv, RakeOffered, [Next]_vars PROVE Custody!Next \/ UNCHANGED Custody!vars
  OBVIOUS
<1>1. CASE Fund
  BY <1>1, CreateRefines, JoinRefines DEF Fund
<1>2. CASE Settle
  <2>1. ASSUME NEW u \in Users, NEW id \in Ids, CancelMatch(u, id) \/ VoidExpired(id)
        PROVE  Custody!Next
    BY <2>1, RefundRefines DEF CancelMatch, VoidExpired
  <2>2. ASSUME NEW id \in Ids, VoidExpired(id)
        PROVE  Custody!Next
    BY <2>2, RefundRefines DEF VoidExpired
  <2>3. ASSUME NEW id \in Ids, NEW w \in Winners, NEW k0 \in Keys, NEW k1 \in Keys,
               SettleSigned(id, w, k0, k1)
        PROVE  Custody!Next
    BY <2>3, PayoutRefines DEF SettleSigned
  <2>4. ASSUME NEW u \in Users, NEW id \in Ids, NEW t \in Transcript, Challenge(u, id, t)
        PROVE  Custody!Next
    <3>1. matches[id].status = "Proposed" /\ t.matchId = id
      BY <2>4 DEF Challenge, Challengeable
    <3>2. Replay(t) # Playing => Replay(t) \in Winners
      BY <3>1 DEF Replay, IInv, TypeOK
    <3> QED BY <2>4, <3>1, <3>2, PayoutRefines, RefundRefines DEF Challenge
  <2>5. ASSUME NEW id \in Ids, Finalize(id)
        PROVE  Custody!Next
    <3>1. matches[id].proposedWinner \in Winners
      BY DEF IInv, TypeOK, Match
    <3> QED BY <2>5, <3>1, PayoutRefines DEF Finalize
  <2> QED BY <1>2, <2>1, <2>2, <2>3, <2>4, <2>5, EditRefines DEF Settle
<1>3. CASE UNCHANGED <<matches, paid>>
  BY <1>3 DEF Custody!vars
<1>4. OwnerStep \/ (\E id \in Ids : PlayMove(id)) \/ NextBlock \/ UNCHANGED vars
        => UNCHANGED <<matches, paid>>
  BY DEF OwnerStep, Administer, SetRake, SetMinStake, SetChallengeWindow, SetTreasury, SetMatchTtl,
         SetOpenTtl, SetTokenAllowed, PlayMove, NextBlock, money, vars
<1> QED BY <1>1, <1>2, <1>3, <1>4 DEF Next

LEMMA InitRefines == Init => Custody!Init
<1> SUFFICES ASSUME Init PROVE Custody!Init
  OBVIOUS
<1>1. \A id \in Ids : matches[id] = Empty /\ Empty.status = "None" /\ Empty.stake = 0 /\ Empty.rakeBps = 0
  BY DEF Init, Empty
<1> QED BY <1>1 DEF Init, Custody!Init, Custody!Nothing

\* The escrow implements StakeCustody: a match is funded seat by seat, held, and
\* released once, as a refund, a split or a win at the rake of its creation.
THEOREM CustodyImplemented == Spec => CustodyKept
<1>1. Spec => Custody!Init /\ [][Custody!Next]_(Custody!vars)
  BY InitRefines, StepRefines, Invariance, RakeStaysOffered, PTL DEF Spec
<1> QED BY <1>1 DEF CustodyKept, Custody!Spec

-----------------------------------------------------------------------------
(* The server.                                                             *)

\* A funded match has its creator's seat and key, a joined one its opponent's
\* key, a claimed one its first mover.
SeatedAt(m) ==
  /\ m.status # "None" => m.player0 \in Users /\ m.session0 \in Keys
  /\ m.status \in {"Active", "Proposed"} => m.session1 \in Keys
  /\ m.status = "Proposed" => m.startTurn # UNSET

Seated == \A id \in Ids : SeatedAt(matches[id])

\* A game that is over in the hub has an outcome to settle.
Decided == \A id \in Ids : hub[id].over => hub[id].winner \in Winners

\* Ids and transcripts stay within their bounds.
Numbered ==
  /\ nextMatchId <= MaxMatches + 1
  /\ \A id \in Ids : game[id].ply <= MaxPly

ServerInv == ServerTypeOK /\ Decided /\ Numbered

-----------------------------------------------------------------------------
(* Seats *)

\* One match rewritten by a record that has its seats.
LEMMA RewriteSeated ==
  ASSUME IInv, Seated, NEW id \in Ids, NEW n, SeatedAt(n),
         matches' = [matches EXCEPT ![id] = n]
  PROVE  Seated'
<1>1. matches'[id] = n /\ \A x \in Ids \ {id} : matches'[x] = matches[x]
  BY DEF IInv, TypeOK
<1> SUFFICES ASSUME NEW x \in Ids PROVE SeatedAt(matches'[x])
  BY DEF Seated, SeatedAt
<1>2. CASE x = id
  BY <1>1, <1>2
<1>3. CASE x # id
  BY <1>1, <1>3 DEF Seated
<1> QED BY <1>2, <1>3

LEMMA ClosingSeated ==
  ASSUME IInv, Seated, NEW id \in Ids, NEW st \in Closed,
         matches[id].status \in Live,
         matches' = [matches EXCEPT ![id].status = st]
  PROVE  Seated'
<1> DEFINE m == matches[id]  n == [m EXCEPT !.status = st]
<1>1. m \in Match /\ SeatedAt(m) /\ matches' = [matches EXCEPT ![id] = n]
  BY DEF IInv, TypeOK, Seated
<1>2. n.status = st /\ n.player0 = m.player0 /\ n.session0 = m.session0
  BY <1>1 DEF Match
<1>3. SeatedAt(n)
  BY <1>1, <1>2 DEF SeatedAt, Live, Closed
<1> HIDE DEF n
<1> QED BY <1>1, <1>3, RewriteSeated

\* A step that keeps the seats of a joined match and does not rewind it.
LEMMA JoinedSeated ==
  ASSUME IInv, Seated, NEW id \in Ids, NEW n, matches[id].status = "Active",
         matches' = [matches EXCEPT ![id] = n],
         Terms(n) = Terms(matches[id]), JoinTerms(n) = JoinTerms(matches[id]),
         n.status = "Proposed" => n.startTurn # UNSET
  PROVE  Seated'
<1>1. SeatedAt(matches[id])
  BY DEF Seated
<1>2. SeatedAt(n)
  BY <1>1 DEF SeatedAt, Terms, JoinTerms
<1> QED BY <1>2, RewriteSeated

LEMMA CreateSeated ==
  ASSUME IInv, Seated, NEW u \in Users, NEW tok, NEW s, NEW k \in Keys, NEW c,
         Create(u, tok, s, k, c)
  PROVE  Seated'
<1> DEFINE id == nextMatchId
           n == Opened(matches[id], tok, s, u, k, owned.rakeBps, now + owned.openTtl)
<1>1. id \in Ids /\ matches' = [matches EXCEPT ![id] = n]
  BY DEF Create, Opened
<1>2. n.player0 = u /\ n.session0 = k /\ n.status = "Open"
  BY <1>1 DEF IInv, TypeOK, Match, Opened
<1>3. SeatedAt(n)
  BY <1>2 DEF SeatedAt
<1> HIDE DEF id, n
<1> QED BY <1>1, <1>3, RewriteSeated

LEMMA JoinSeated ==
  ASSUME IInv, Seated, NEW u, NEW id \in Ids, NEW k \in Keys, NEW c,
         Join(u, id, k, c)
  PROVE  Seated'
<1> DEFINE m == matches[id]
           n == Joined(m, u, k, now + owned.matchTtl, owned.challengeWindow, height + 1)
<1>1. matches' = [matches EXCEPT ![id] = n] /\ m.status = "Open" /\ SeatedAt(m)
  BY DEF Join, Joined, Seated
<1>2. /\ n.player0 = m.player0 /\ n.session0 = m.session0 /\ n.session1 = k
      /\ n.status = "Active"
  BY DEF IInv, TypeOK, Match, Joined
<1>3. SeatedAt(n)
  BY <1>1, <1>2 DEF SeatedAt
<1> HIDE DEF n
<1> QED BY <1>1, <1>3, RewriteSeated

LEMMA FinalizeStartSeated ==
  ASSUME IInv, Seated, NEW id \in Ids, FinalizeStart(id)
  PROVE  Seated'
<1> DEFINE m == matches[id]
<1>1. m \in Match /\ m.status = "Active"
  BY DEF FinalizeStart, IInv, TypeOK
<1>2. CASE matches' = [matches EXCEPT ![id].revealBlock = height + 1]
  <2> DEFINE n == [m EXCEPT !.revealBlock = height + 1]
  <2>1. /\ Terms(n) = Terms(m) /\ JoinTerms(n) = JoinTerms(m)
        /\ n.status = "Active"
    BY <1>1 DEF Match, Terms, JoinTerms
  <2>2. matches' = [matches EXCEPT ![id] = n]
    BY <1>2
  <2> HIDE DEF n
  <2> QED BY <1>1, <2>1, <2>2, JoinedSeated
<1>3. ASSUME NEW start \in {0, 1}, matches' = [matches EXCEPT ![id].startTurn = start]
      PROVE  Seated'
  <2> DEFINE n == [m EXCEPT !.startTurn = start]
  <2>1. /\ Terms(n) = Terms(m) /\ JoinTerms(n) = JoinTerms(m)
        /\ n.status = "Active"
    BY <1>1 DEF Match, Terms, JoinTerms
  <2>2. matches' = [matches EXCEPT ![id] = n]
    BY <1>3
  <2> HIDE DEF n
  <2> QED BY <1>1, <2>1, <2>2, JoinedSeated
<1> QED BY <1>2, <1>3 DEF FinalizeStart

LEMMA ProposeSeated ==
  ASSUME IInv, Seated, NEW u, NEW id \in Ids, NEW w, NEW c, ProposeResult(u, id, w, c)
  PROVE  Seated'
<1> DEFINE m == matches[id]  n == Claimed(m, w, c, now + m.challengeWindow)
<1>1. /\ matches' = [matches EXCEPT ![id] = n]
      /\ m.status = "Active" /\ m.startTurn # UNSET
  BY DEF ProposeResult, Claimed
<1>2. /\ Terms(n) = Terms(m) /\ JoinTerms(n) = JoinTerms(m)
      /\ n.startTurn = m.startTurn
  BY DEF IInv, TypeOK, Match, Claimed, Terms, JoinTerms
<1> HIDE DEF n
<1> QED BY <1>1, <1>2, JoinedSeated

LEMMA StepSeated == IInv /\ Seated /\ [Next]_vars => Seated'
<1> SUFFICES ASSUME IInv, Seated, [Next]_vars PROVE Seated'
  OBVIOUS
<1>1. CASE matches' = matches
  BY <1>1 DEF Seated, SeatedAt
<1>2. ASSUME NEW id \in Ids, matches[id].status \in Live,
             \/ \E w : Payout(id, w)
             \/ Void(id)
             \/ RefundCreator(id)
      PROVE  Seated'
  BY <1>2, ClosingSeated DEF Payout, Void, RefundCreator, Closed
<1>3. CASE Fund
  BY <1>3, CreateSeated, JoinSeated DEF Fund
<1>4. CASE Settle
  BY <1>2, <1>4, FinalizeStartSeated, ProposeSeated
     DEF Settle, CancelMatch, SettleSigned, Challenge, Challengeable, Finalize,
         VoidExpired, Live
<1>5. CASE OwnerStep \/ (\E id \in Ids : PlayMove(id)) \/ NextBlock \/ UNCHANGED vars
  BY <1>1, <1>5 DEF OwnerStep, Administer, SetRake, SetMinStake, SetChallengeWindow,
                    SetTreasury, SetMatchTtl, SetOpenTtl, SetTokenAllowed,
                    PlayMove, NextBlock, vars
<1> QED BY <1>3, <1>4, <1>5 DEF Next

-----------------------------------------------------------------------------
(* Every step of the server is a step of the escrow *)

\* The operator holds no seat, so its challenge goes through only where that
\* of the creator would.
LEMMA OperatorChallenge ==
  ASSUME IInv, Seated, NEW id \in Ids, NEW t \in Transcript, Challenge(Operator, id, t)
  PROVE  \E u \in Users : Challenge(u, id, t)
<1> DEFINE u == matches[id].player0
<1>1. u \in Users
  BY DEF Seated, SeatedAt, Challenge, Challengeable
<1>2. MayVoid(Operator, id, t) => MayVoid(u, id, t)
  BY DEF MayVoid, IsPlayer
<1>3. Challenge(u, id, t)
  BY <1>2 DEF Challenge
<1> QED BY <1>1, <1>3

\* A mined transaction is a call anyone could have made.
LEMMA CallRefines ==
  ASSUME IInv, Seated, NEW tx \in Txs, Call(tx)
  PROVE  Next
<1>1. CASE tx \in Plain
  <2>1. tx.id \in Ids /\ tx.do \in {"finalizeStart", "finalize", "voidExpired"}
    BY <1>1 DEF Plain
  <2>2. FinalizeStart(tx.id) \/ Finalize(tx.id) \/ VoidExpired(tx.id)
    BY <2>1 DEF Call
  <2> QED BY <2>1, <2>2 DEF Next, Settle
<1>2. CASE tx \in Settling
  <2>1. tx.id \in Ids /\ tx.w \in Winners /\ tx.do = "settleSigned"
    BY <1>2 DEF Settling
  <2> DEFINE k0 == matches[tx.id].session0  k1 == matches[tx.id].session1
  <2>2. SettleSigned(tx.id, tx.w, k0, k1)
    BY <2>1 DEF Call
  <2>3. k0 \in Keys /\ k1 \in Keys
    BY <2>1, <2>2 DEF SettleSigned, Seated, SeatedAt
  <2> QED BY <2>1, <2>2, <2>3 DEF Next, Settle
<1>3. CASE tx \in Disputing
  <2>1. tx.id \in Ids /\ tx.t \in Transcript /\ tx.do = "challenge"
    BY <1>3 DEF Disputing
  <2>2. Challenge(Operator, tx.id, tx.t)
    BY <2>1 DEF Call
  <2>3. PICK u \in Users : Challenge(u, tx.id, tx.t)
    BY <2>1, <2>2, OperatorChallenge
  <2> QED BY <2>1, <2>3 DEF Next, Settle
<1> QED BY <1>1, <1>2, <1>3 DEF Txs

LEMMA PlayersRefine ==
  ASSUME Players
  PROVE  Next
<1>1. ASSUME NEW u \in Users, NEW tok \in Tokens, NEW s \in Stakes,
             Create(u, tok, s, SessionOf[u], NoCode)
      PROVE  Next
  BY <1>1, ServerAssumption DEF Next, Fund
<1>2. ASSUME NEW u \in Users, NEW id \in Ids, Join(u, id, SessionOf[u], NoCode)
      PROVE  Next
  BY <1>2, ServerAssumption DEF Next, Fund
<1>3. ASSUME NEW tok \in Tokens, SetTokenAllowed(tok, TRUE)
      PROVE  Next
  BY <1>3 DEF Next, OwnerStep
<1> QED BY <1>1, <1>2, <1>3 DEF Players, Next, Settle

LEMMA StepIsEscrowStep ==
  IInv /\ Seated /\ ServerTypeOK /\ [ServerNext]_allvars => [Next]_vars
<1> SUFFICES ASSUME IInv, Seated, ServerTypeOK, ServerNext
             PROVE  Next \/ UNCHANGED vars
  BY DEF allvars
<1>1. CASE Players
  BY <1>1, PlayersRefine
<1>2. ASSUME NEW u \in Users, NEW id \in Ids, NEW w \in Winners, NEW c \in Commitments,
             Propose(u, id, w, c)
      PROVE  Next
  BY <1>2 DEF Propose, Next, Settle
<1>3. CASE Block
  BY <1>3 DEF Block, Next
<1>4. ASSUME NEW id \in Ids, HubPlay(id)
      PROVE  Next
  BY <1>4 DEF HubPlay, Next
<1>5. ASSUME NEW id \in Ids,
             \/ HubOpen(id) \/ HubEnds(id)
             \/ \E seat \in {0, 1} : CollectSig(id, seat) \/ SettleSigs(id, seat)
             \/ Keep(id) \/ Prune(id) \/ OnMatchJoined(id) \/ OnResultProposed(id)
      PROVE  UNCHANGED vars
  BY <1>5 DEF HubOpen, HubEnds, CollectSig, SettleSigs, Keep, Prune,
              OnMatchJoined, OnResultProposed
<1>6. ASSUME NEW tx \in txs, Mine(tx)
      PROVE  Next \/ UNCHANGED vars
  <2>1. tx \in Txs
    BY DEF ServerTypeOK
  <2>2. CASE Call(tx)
    BY <2>1, <2>2, CallRefines
  <2> QED BY <1>6, <2>2 DEF Mine
<1>7. CASE RescanTick \/ Restart \/ \E tx \in txs : LoseTx(tx)
  BY <1>7 DEF RescanTick, Restart, LoseTx
<1> QED BY <1>1, <1>2, <1>3, <1>4, <1>5, <1>6, <1>7 DEF ServerNext

-----------------------------------------------------------------------------
(* The server's own types *)

LEMMA TxTypes ==
  /\ \A do \in {"finalizeStart", "finalize", "voidExpired"}, id \in Ids :
       [do |-> do, id |-> id] \in Txs
  /\ \A id \in Ids, w \in Winners : [do |-> "settleSigned", id |-> id, w |-> w] \in Txs
  /\ \A id \in Ids, t \in Transcript : [do |-> "challenge", id |-> id, t |-> t] \in Txs
BY DEF Txs, Plain, Settling, Disputing

\* A hub entry replaced by one that is well-formed.
LEMMA HubRewrite ==
  ASSUME ServerInv, NEW id \in Ids, NEW e \in Entry, e.over => e.winner \in Winners,
         hub' = [hub EXCEPT ![id] = e]
  PROVE  hub' \in [Ids -> Entry] /\ Decided'
<1>1. hub \in [Ids -> Entry] /\ Decided
  BY DEF ServerInv, ServerTypeOK
<1> QED BY <1>1 DEF Decided

LEMMA HubStepKeeps ==
  ASSUME IInv, IInv', ServerInv, NEW id \in Ids,
         HubOpen(id) \/ HubPlay(id) \/ HubEnds(id)
  PROVE  ServerTypeOK' /\ Decided'
<1>1. hub[id] \in Entry
  BY DEF ServerInv, ServerTypeOK
<1>2. CASE HubOpen(id)
  <2> DEFINE e == [held |-> TRUE, over |-> FALSE, winner |-> Playing,
                   whole |-> game[id].ply = 0]
  <2>1. e \in Entry /\ ~e.over
    BY DEF Entry
  <2>2. hub' = [hub EXCEPT ![id] = e]
    BY <1>2 DEF HubOpen
  <2> HIDE DEF e
  <2>3. hub' \in [Ids -> Entry] /\ Decided'
    BY <2>1, <2>2, HubRewrite
  <2> QED BY <1>2, <2>3 DEF HubOpen, ServerInv, ServerTypeOK, anticheat
<1>3. CASE HubPlay(id)
  <2> DEFINE w == game'[id].winner
             e == [hub[id] EXCEPT !.winner = w, !.over = w # Playing]
  <2>1. w \in Winners \cup {Playing}
    BY DEF IInv, TypeOK
  <2>2. hub' = [hub EXCEPT ![id] = e]
    BY <1>3 DEF HubPlay, ServerInv, ServerTypeOK
  <2> HIDE DEF w
  <2>3. e \in Entry /\ (e.over => e.winner \in Winners)
    BY <1>1, <2>1 DEF Entry
  <2> HIDE DEF e
  <2>4. hub' \in [Ids -> Entry] /\ Decided'
    BY <2>2, <2>3, HubRewrite
  <2> QED BY <1>3, <2>4 DEF HubPlay, ServerInv, ServerTypeOK, keeper, anticheat
<1>4. CASE HubEnds(id)
  <2>1. PICK w \in Winners :
          hub' = [hub EXCEPT ![id].over = TRUE, ![id].winner = w]
    BY <1>4 DEF HubEnds
  <2> DEFINE e == [hub[id] EXCEPT !.over = TRUE, !.winner = w]
  <2>2. hub' = [hub EXCEPT ![id] = e]
    BY <2>1 DEF ServerInv, ServerTypeOK
  <2>3. e \in Entry /\ e.winner \in Winners
    BY <1>1 DEF Entry
  <2> HIDE DEF e
  <2>4. hub' \in [Ids -> Entry] /\ Decided'
    BY <2>2, <2>3, HubRewrite
  <2> QED BY <1>4, <2>4 DEF HubEnds, ServerInv, ServerTypeOK, keeper, anticheat
<1> QED BY <1>2, <1>3, <1>4

LEMMA CoordinatorKeeps ==
  ASSUME ServerInv, NEW id \in Ids, NEW seat \in {0, 1},
         CollectSig(id, seat) \/ SettleSigs(id, seat)
  PROVE  ServerTypeOK' /\ Decided'
<1>1. CASE CollectSig(id, seat)
  BY <1>1 DEF CollectSig, ServerInv, ServerTypeOK, Decided, keeper, anticheat
<1>2. CASE SettleSigs(id, seat)
  <2>1. hub' \in [Ids -> Entry] /\ Decided'
    <3>1. NotHeld \in Entry /\ ~NotHeld.over
      BY DEF NotHeld, Entry
    <3>2. CASE hub' = hub
      BY <3>2 DEF ServerInv, ServerTypeOK, Decided
    <3>3. CASE hub' = [hub EXCEPT ![id] = NotHeld]
      BY <3>1, <3>3, HubRewrite
    <3> QED BY <1>2, <3>2, <3>3 DEF SettleSigs
  <2>2. sigs' \in [Ids -> SUBSET {0, 1}]
    BY <1>2 DEF SettleSigs, ServerInv, ServerTypeOK
  <2>3. txs' \subseteq Txs
    <3>1. hub[id].over => hub[id].winner \in Winners
      BY DEF ServerInv, Decided
    <3> QED BY <1>2, <3>1, TxTypes DEF SettleSigs, ServerInv, ServerTypeOK
  <2>4. faults' \in 0 .. MaxFaults
    BY <1>2, ServerAssumption DEF SettleSigs, ServerInv, ServerTypeOK, Fault, NoFault
  <2> QED BY <1>2, <2>1, <2>2, <2>3, <2>4
          DEF SettleSigs, ServerInv, ServerTypeOK, keeper, anticheat
<1> QED BY <1>1, <1>2

LEMMA KeeperKeeps ==
  ASSUME ServerInv, NEW id \in Ids, Keep(id) \/ Prune(id) \/ OnMatchJoined(id)
  PROVE  ServerTypeOK' /\ Decided'
<1>1. hub' = hub /\ Decided'
  BY DEF Keep, Prune, OnMatchJoined, ServerInv, Decided
<1>2. tracked' \subseteq Ids /\ knownTerminal' \subseteq Ids
  BY DEF Keep, Prune, OnMatchJoined, keeper, ServerInv, ServerTypeOK
<1>3. txs' \subseteq Txs
  <2>1. Due(id) \subseteq {"finalizeStart", "finalize", "voidExpired"}
    BY DEF Due
  <2>2. txs' = txs \/ \E do \in {"finalizeStart", "finalize", "voidExpired"} :
                       txs' = txs \cup {[do |-> do, id |-> id]}
    BY <2>1 DEF Keep, Prune, OnMatchJoined
  <2>3. txs \subseteq Txs
    BY DEF ServerInv, ServerTypeOK
  <2> QED BY <2>2, <2>3, TxTypes
<1> QED BY <1>1, <1>2, <1>3 DEF Keep, Prune, OnMatchJoined, anticheat,
                                ServerInv, ServerTypeOK

\* rescanTick only finds ids the contract has given out.
LEMMA RescanKeeps ==
  ASSUME IInv, ServerInv, RescanTick
  PROVE  ServerTypeOK' /\ Decided'
<1>1. nextMatchId \in Nat /\ MaxMatches \in Nat
  BY BoundsAssumption DEF IInv, TypeOK
<1>2. 1 .. nextMatchId - 1 \subseteq Ids
  BY <1>1 DEF ServerInv, Numbered, Ids
<1> QED BY <1>2 DEF RescanTick, IdsToRescan, anticheat, ServerInv, ServerTypeOK, Decided

LEMMA WatcherKeeps ==
  ASSUME IInv, Seated, ServerInv, NEW id \in Ids, OnResultProposed(id)
  PROVE  ServerTypeOK' /\ Decided'
<1>1. hub' = hub /\ Decided' /\ UNCHANGED <<sigs, tracked, knownTerminal>>
  BY DEF OnResultProposed, keeper, ServerInv, Decided
<1>2. proposed' \subseteq Ids
  BY DEF OnResultProposed, ServerInv, ServerTypeOK
<1>3. challenged' \in [Ids -> {"no", "sent", "failed"}]
  BY DEF OnResultProposed, ServerInv, ServerTypeOK
<1>4. txs' \subseteq Txs
  <2>1. Refutes(id) => HubTranscript(id) \in Transcript
    <3> SUFFICES ASSUME Refutes(id) PROVE HubTranscript(id) \in Transcript
      OBVIOUS
    <3>1. matches[id].startTurn \in {0, 1, UNSET}
      BY DEF IInv, TypeOK, Match
    <3>2. matches[id].startTurn # UNSET
      BY DEF Refutes, Challengeable, Seated, SeatedAt
    <3>3. game[id].ply \in 1 .. MaxPly
      BY BoundsAssumption DEF Refutes, IInv, TypeOK, ServerInv, Numbered
    <3> QED BY <3>1, <3>2, <3>3 DEF HubTranscript, Transcript, UNSET
  <2> QED BY <2>1, TxTypes DEF OnResultProposed, ServerInv, ServerTypeOK
<1>5. faults' \in 0 .. MaxFaults
  BY ServerAssumption DEF OnResultProposed, ServerInv, ServerTypeOK, Fault, NoFault
<1> QED BY <1>1, <1>2, <1>3, <1>4, <1>5 DEF ServerInv, ServerTypeOK

LEMMA TxStepKeeps ==
  ASSUME ServerInv, NEW tx \in txs, Mine(tx) \/ LoseTx(tx)
  PROVE  ServerTypeOK' /\ Decided'
<1>1. UNCHANGED <<hub, sigs, tracked, knownTerminal, proposed, challenged>>
  BY DEF Mine, LoseTx, keeper, anticheat
<1>2. txs' \subseteq Txs /\ faults' \in 0 .. MaxFaults
  BY ServerAssumption DEF Mine, LoseTx, Fault, ServerInv, ServerTypeOK
<1> QED BY <1>1, <1>2 DEF ServerInv, ServerTypeOK, Decided

LEMMA RestartKeeps ==
  ASSUME ServerInv, Restart
  PROVE  ServerTypeOK' /\ Decided'
BY ServerAssumption DEF Restart, Fault, ServerInv, ServerTypeOK, Decided

\* The server leaves alone what only the players and the chain do.
LEMMA OutsideKeeps ==
  ASSUME ServerInv, \/ UNCHANGED server
                    \/ \E u \in Users, id \in Ids, w \in Winners, c \in Commitments :
                         Propose(u, id, w, c)
  PROVE  ServerTypeOK' /\ Decided'
BY DEF server, Propose, keeper, anticheat, ServerInv, ServerTypeOK, Decided

LEMMA StepNumbered == IInv /\ Numbered /\ [Next]_vars => Numbered'
<1> SUFFICES ASSUME IInv, Numbered, [Next]_vars PROVE Numbered'
  OBVIOUS
<1>1. ASSUME NEW u \in Users, NEW tok \in Tokens, NEW s \in Stakes, NEW k \in Keys,
             NEW c \in Codes \cup {NoCode}, Create(u, tok, s, k, c)
      PROVE  Numbered'
  BY <1>1, BoundsAssumption DEF Create, Numbered, Ids
<1>2. CASE nextMatchId' = nextMatchId /\ game' = game
  BY <1>2 DEF Numbered
<1>3. ASSUME NEW id \in Ids, PlayMove(id)
      PROVE  Numbered'
  <2>1. game[id].ply \in Nat /\ game[id].ply < MaxPly /\ MaxPly \in Nat
    BY <1>3, BoundsAssumption DEF PlayMove, IInv, TypeOK
  <2>2. PICK w : game' = [game EXCEPT ![id] = [ply |-> @.ply + 1, winner |-> w]]
    BY <1>3 DEF PlayMove
  <2>3. game'[id].ply = game[id].ply + 1 /\ \A x \in Ids \ {id} : game'[x] = game[x]
    BY <2>2 DEF IInv, TypeOK
  <2>4. nextMatchId' = nextMatchId
    BY <1>3 DEF PlayMove
  <2> QED BY <2>1, <2>3, <2>4 DEF Numbered
<1>4. CASE Fund
  BY <1>1, <1>2, <1>4 DEF Fund, Join
<1> QED
  BY <1>2, <1>3, <1>4 DEF Next, Settle, CancelMatch, SettleSigned, ProposeResult,
     Challenge, FinalizeStart, Finalize, VoidExpired, OwnerStep, Administer, SetRake,
     SetMinStake, SetChallengeWindow, SetTreasury, SetMatchTtl, SetOpenTtl,
     SetTokenAllowed, NextBlock, vars

-----------------------------------------------------------------------------
(* Results *)

AllInv == IInv /\ Seated /\ ServerInv

LEMMA InitAllInv == ServerInit => AllInv
<1> SUFFICES ASSUME ServerInit PROVE AllInv
  OBVIOUS
<1>1. IInv
  BY InitIInv DEF ServerInit
<1>2. Seated
  BY DEF ServerInit, Init, Empty, Seated, SeatedAt
<1>3. Numbered
  BY BoundsAssumption DEF ServerInit, Init, Numbered
<1>4. NotHeld \in Entry /\ ~NotHeld.over
  BY DEF NotHeld, Entry
<1>5. ServerTypeOK /\ Decided
  BY <1>4, ServerAssumption DEF ServerInit, ServerTypeOK, Decided
<1> QED BY <1>1, <1>2, <1>3, <1>5 DEF AllInv, ServerInv

LEMMA StepAllInv == AllInv /\ [ServerNext]_allvars => AllInv'
<1> SUFFICES ASSUME AllInv, [ServerNext]_allvars PROVE AllInv'
  OBVIOUS
<1>1. [Next]_vars
  BY StepIsEscrowStep DEF AllInv, ServerInv
<1>2. IInv' /\ Seated' /\ Numbered'
  BY <1>1, StepIInv, StepSeated, StepNumbered DEF AllInv, ServerInv
<1>3. ServerTypeOK' /\ Decided'
  <2>1. CASE UNCHANGED allvars
    BY <2>1, OutsideKeeps DEF allvars, AllInv
  <2>2. ASSUME NEW id \in Ids, HubOpen(id) \/ HubPlay(id) \/ HubEnds(id)
        PROVE  ServerTypeOK' /\ Decided'
    BY <1>2, <2>2, HubStepKeeps DEF AllInv
  <2>3. ASSUME NEW id \in Ids, NEW seat \in {0, 1},
               CollectSig(id, seat) \/ SettleSigs(id, seat)
        PROVE  ServerTypeOK' /\ Decided'
    BY <2>3, CoordinatorKeeps DEF AllInv
  <2>4. ASSUME NEW id \in Ids,
               Keep(id) \/ Prune(id) \/ OnMatchJoined(id)
        PROVE  ServerTypeOK' /\ Decided'
    BY <2>4, KeeperKeeps DEF AllInv
  <2>5. CASE RescanTick
    BY <2>5, RescanKeeps DEF AllInv
  <2>6. ASSUME NEW id \in Ids, OnResultProposed(id)
        PROVE  ServerTypeOK' /\ Decided'
    BY <2>6, WatcherKeeps DEF AllInv
  <2>7. CASE Players \/ Block
             \/ \E u \in Users, id \in Ids, w \in Winners, c \in Commitments :
                  Propose(u, id, w, c)
    BY <2>7, OutsideKeeps DEF Players, Block, AllInv
  <2>8. CASE Restart \/ \E tx \in txs : Mine(tx) \/ LoseTx(tx)
    BY <2>8, RestartKeeps, TxStepKeeps DEF AllInv
  <2> QED BY <2>1, <2>2, <2>3, <2>4, <2>5, <2>6, <2>7, <2>8 DEF ServerNext
<1> QED BY <1>2, <1>3 DEF AllInv, ServerInv

THEOREM ServerInvariance == ServerSpec => []AllInv
<1>1. AllInv /\ [ServerNext]_allvars => AllInv'
  BY StepAllInv
<1> QED BY <1>1, InitAllInv, PTL DEF ServerSpec

\* The server, its keeper, its watchers and its restarts add no behaviour to
\* the escrow: whatever they submit, lose or repeat, the chain sees what
\* MatchEscrow allows (keeper.ts, settlement-coordinator.ts, main.ts:1216-1335).
THEOREM ServerIsEscrow == ServerSpec => Spec
<1>1. AllInv /\ [ServerNext]_allvars => [Next]_vars
  BY StepIsEscrowStep DEF AllInv, ServerInv
<1>2. ServerInit => Init
  BY DEF ServerInit
<1> QED BY <1>1, <1>2, ServerInvariance, PTL DEF ServerSpec, Spec

\* So around the server too a claim pays nobody but the winner of the signed
\* game while it can be challenged, true claims prevail, and terms stay frozen
\* (MatchEscrow.sol:320-399).
THEOREM ServerKeepsTruth ==
  ServerSpec => InWindowOnlyTruth /\ TrueClaimPrevails /\ TermsFrozen /\ CustodyKept
BY ServerIsEscrow, WindowPaysTruth, TrueClaimsPrevail, TermsAreFrozen, CustodyImplemented

=================================================================================
