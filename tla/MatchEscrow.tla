------------------------------ MODULE MatchEscrow ------------------------------
(***************************************************************************)
(* The stake escrow of contracts/src/MatchEscrow.sol: custody of two equal *)
(* stakes per match and the paths that release them (cancel, mutual        *)
(* signature, optimistic claim with a challenge window, expiry), together  *)
(* with the owner's setters and the part of ReplayVerifier.verify that     *)
(* settlement depends on.                                                  *)
(*                                                                         *)
(* One action is one successful transaction; a reverting call is no step.  *)
(* Any number of transactions may run in one block; NextBlock mines one.   *)
(*                                                                         *)
(* The game itself is reduced to what settlement can see of it: game[id]   *)
(* is the transcript both session keys have signed so far, its length and  *)
(* whether the replay of all of it has ended, and for whom.  A transcript  *)
(* is named by its match, its first mover and its length, since a session  *)
(* key signs one move per ply; Hash names its hash, and OtherHash stands   *)
(* for every 32-byte value that is the hash of no signed transcript.       *)
(***************************************************************************)
EXTENDS Integers, FiniteSetsExt

CONSTANTS
  MaxMatches,      \* bound: matches ever created
  MaxTime,         \* bound: last block timestamp
  LastFunding,     \* bound: last timestamp at which a stake is deposited
  MaxPly,          \* bound: longest transcript
  BlockGaps,       \* seconds between two consecutive blocks
  Users,           \* addresses of players
  Keys,            \* addresses of session keys
  Treasuries,      \* addresses the owner may route the rake to
  Tokens,          \* ERC-20 tokens
  Codes,           \* secrets of invite links
  Stakes,          \* per-player stakes offered
  Rakes,           \* values the owner gives rakeBps, all passed the cap check
  MinStakes,       \* values the owner gives minStake
  Windows,         \* values the owner gives challengeWindow
  Ttls,            \* values the owner gives matchTtl and openTtl
  HashWindow,      \* blocks for which blockhash() answers (256)
  BPS,             \* basis points in one (10000)
  MaxRakeBps,      \* cap on the rake (2000)
  Nobody, NoToken, \* the zero address, as a player or key and as a token
  NoCode,          \* the zero inviteHash
  NoHash,          \* the zero commitment
  OtherHash        \* a commitment that no signed transcript hashes to

Ids == 1 .. MaxMatches
DRAW == 2
Winners == {0, 1, DRAW}
Playing == 3                    \* game[id].winner while the game is live
UNSET == 255                    \* START_UNSET

Commitments == Ids \X {0, 1} \X (1 .. MaxPly) \cup {NoHash, OtherHash}

ASSUME BoundsAssumption ==
  /\ MaxMatches \in Nat /\ MaxTime \in Nat /\ LastFunding \in Nat
  /\ MaxPly \in Nat /\ HashWindow \in Nat
  /\ BlockGaps \subseteq Nat

ASSUME MoneyAssumption ==
  /\ BPS \in Nat \ {0}
  /\ MaxRakeBps \in 0 .. BPS
  /\ Rakes \subseteq 0 .. MaxRakeBps
  /\ Stakes \subseteq Nat \ {0}
  /\ MinStakes \subseteq Nat
  /\ Windows \subseteq Nat
  /\ Ttls \subseteq Nat

ASSUME NamesAssumption ==
  /\ Nobody \notin Users \cup Keys
  /\ NoToken \notin Tokens
  /\ NoCode \notin Codes
  /\ {NoHash, OtherHash} \cap (Ids \X {0, 1} \X (1 .. MaxPly)) = {}
  /\ NoHash # OtherHash

VARIABLES
  matches,      \* mapping(uint256 => Match)
  inviteHash,   \* mapping(uint256 => bytes32), the code itself for its hash
  nextMatchId,
  owned,        \* the values the owner sets
  pool,         \* token balances of the escrow
  paid,         \* history: what each match has paid to its seats and in fees
  fees,         \* what each treasury has received
  game,         \* the transcript both session keys have signed
  now, height   \* block.timestamp, block.number

money == <<pool, paid, fees>>
chain == <<now, height>>
vars == <<matches, inviteHash, nextMatchId, owned, money, game, chain>>

Statuses ==
  {"None", "Open", "Active", "Proposed", "Resolved", "Cancelled", "Voided"}
Live == {"Open", "Active", "Proposed"}
Closed == {"Resolved", "Cancelled", "Voided"}

Match == [
  token : Tokens \cup {NoToken},
  stake : Nat,
  player0 : Users \cup {Nobody},  player1 : Users \cup {Nobody},
  session0 : Keys \cup {Nobody},  session1 : Keys \cup {Nobody},
  status : Statuses,
  startTurn : {0, 1, UNSET},
  proposedWinner : Winners,
  rakeBps : 0 .. MaxRakeBps,
  challengeDeadline : Nat, activeDeadline : Nat,
  revealBlock : Nat, challengeWindow : Nat,
  transcriptCommitment : Commitments ]

Empty == [
  token |-> NoToken, stake |-> 0,
  player0 |-> Nobody, player1 |-> Nobody,
  session0 |-> Nobody, session1 |-> Nobody,
  status |-> "None", startTurn |-> 0, proposedWinner |-> 0, rakeBps |-> 0,
  challengeDeadline |-> 0, activeDeadline |-> 0,
  revealBlock |-> 0, challengeWindow |-> 0,
  transcriptCommitment |-> NoHash ]

Owned == [
  rakeBps : 0 .. MaxRakeBps, minStake : Nat,
  challengeWindow : Nat, matchTtl : Nat, openTtl : Nat,
  treasury : Treasuries, allowed : SUBSET Tokens ]

Ledger == [p0 : Nat, p1 : Nat, fee : Nat]

TypeOK ==
  /\ matches \in [Ids -> Match]
  /\ inviteHash \in [Ids -> Codes \cup {NoCode}]
  /\ nextMatchId \in Nat
  /\ owned \in Owned
  /\ pool \in [Tokens -> Nat]
  /\ paid \in [Ids -> Ledger]
  /\ fees \in [Treasuries -> [Tokens -> Nat]]
  /\ game \in [Ids -> [ply : Nat, winner : Winners \cup {Playing}]]
  /\ now \in Nat /\ height \in Nat

\* The constructor: no token is allowed yet, openTtl starts as matchTtl.
Init ==
  /\ matches = [id \in Ids |-> Empty]
  /\ inviteHash = [id \in Ids |-> NoCode]
  /\ nextMatchId = 1
  /\ \E r \in Rakes, w \in Windows, ttl \in Ttls, t \in Treasuries :
       owned = [rakeBps |-> r, minStake |-> 0, challengeWindow |-> w,
                matchTtl |-> ttl, openTtl |-> ttl,
                treasury |-> t, allowed |-> {}]
  /\ pool = [t \in Tokens |-> 0]
  /\ paid = [id \in Ids |-> [p0 |-> 0, p1 |-> 0, fee |-> 0]]
  /\ fees = [t \in Treasuries |-> [tok \in Tokens |-> 0]]
  /\ game = [id \in Ids |-> [ply |-> 0, winner |-> Playing]]
  /\ now = 0 /\ height = 0

-----------------------------------------------------------------------------
(* Money *)

Pot(m) == 2 * m.stake

RakeLive(m) == (Pot(m) * owned.rakeBps) \div BPS    \* slip: the rake of today
RakeNoDiv(m) == Pot(m) * m.rakeBps                  \* slip: "/ BPS" forgotten
Rake(m) == (Pot(m) * m.rakeBps) \div BPS

\* What _payout sends for outcome w: to a seat, and to the treasury.
Share(m, w, seat) ==
  IF w = DRAW THEN m.stake ELSE IF w = seat THEN Pot(m) - Rake(m) ELSE 0
Fee(m, w) == IF w = DRAW THEN 0 ELSE Rake(m)

\* safeTransferFrom(player, escrow, amount).
Deposit(tok, amount) ==
  /\ pool' = [pool EXCEPT ![tok] = @ + amount]
  /\ UNCHANGED <<paid, fees>>

\* The safeTransfers of one transaction on match id; they revert as a whole
\* when the escrow's balance does not cover them.
Disburse(id, d0, d1, fee) ==
  LET tok == matches[id].token IN
  /\ pool[tok] >= d0 + d1 + fee
  /\ pool' = [pool EXCEPT ![tok] = @ - (d0 + d1 + fee)]
  /\ paid' = [paid EXCEPT ![id] =
                [p0 |-> @.p0 + d0, p1 |-> @.p1 + d1, fee |-> @.fee + fee]]
  /\ fees' = [fees EXCEPT ![owned.treasury][tok] = @ + fee]

Payout(id, w) ==
  LET m == matches[id] IN
  /\ matches' = [matches EXCEPT ![id].status = "Resolved"]
  /\ Disburse(id, Share(m, w, 0), Share(m, w, 1), Fee(m, w))

Void(id) ==
  /\ matches' = [matches EXCEPT ![id].status = "Voided"]
  /\ Disburse(id, matches[id].stake, matches[id].stake, 0)

RefundCreator(id) ==
  /\ matches' = [matches EXCEPT ![id].status = "Cancelled"]
  /\ Disburse(id, matches[id].stake, 0, 0)

-----------------------------------------------------------------------------
(* Transcripts *)

Transcript == [matchId : Ids, startTurn : {0, 1}, len : 1 .. MaxPly]

Hash(t) == <<t.matchId, t.startTurn, t.len>>

\* verify(t) does not revert: every move of t is signed by the key in turn.
Verifies(t) == t.len <= game[t.matchId].ply

\* The winner verify(t) returns, Playing when the replay has not ended.
Replay(t) ==
  IF t.len = game[t.matchId].ply THEN game[t.matchId].winner ELSE Playing

IsPlayer(u, m) == u \in {m.player0, m.player1}

-----------------------------------------------------------------------------
(* Funding *)

\* _create, shared by createMatch (code = NoCode) and createMatchWithInvite.
Create(u, tok, stake, key, code) ==
  /\ nextMatchId \in Ids /\ now <= LastFunding
  /\ tok \in owned.allowed
  /\ stake >= owned.minStake
  /\ matches' = [matches EXCEPT ![nextMatchId] =
       [@ EXCEPT !.token = tok, !.stake = stake,
                 !.player0 = u, !.session0 = key, !.status = "Open",
                 !.rakeBps = owned.rakeBps,
                 !.activeDeadline = now + owned.openTtl]]
  /\ inviteHash' = [inviteHash EXCEPT ![nextMatchId] = code]
  /\ nextMatchId' = nextMatchId + 1
  /\ Deposit(tok, stake)
  /\ UNCHANGED <<owned, game, chain>>

\* Slip: the joiner's seat re-reads the rake.
JoinReprices(u, id, key, code) ==
  LET m == matches[id] IN
  /\ now <= LastFunding
  /\ code = inviteHash[id]
  /\ m.status = "Open" /\ u # m.player0 /\ key # m.session0
  /\ matches' = [matches EXCEPT ![id] =
       [@ EXCEPT !.player1 = u, !.session1 = key, !.status = "Active",
                 !.rakeBps = owned.rakeBps,
                 !.activeDeadline = now + owned.matchTtl,
                 !.challengeWindow = owned.challengeWindow,
                 !.startTurn = UNSET, !.revealBlock = height + 1]]
  /\ Deposit(m.token, m.stake)
  /\ UNCHANGED <<inviteHash, nextMatchId, owned, game, chain>>

\* _join, shared by joinMatch (code = NoCode) and joinMatchWithCode.
Join(u, id, key, code) ==
  LET m == matches[id] IN
  /\ now <= LastFunding
  /\ code = inviteHash[id]
  /\ m.status = "Open"
  /\ u # m.player0
  /\ key # m.session0
  /\ matches' = [matches EXCEPT ![id] =
       [@ EXCEPT !.player1 = u, !.session1 = key, !.status = "Active",
                 !.activeDeadline = now + owned.matchTtl,
                 !.challengeWindow = owned.challengeWindow,
                 !.startTurn = UNSET,
                 !.revealBlock = height + 1]]
  /\ Deposit(m.token, m.stake)
  /\ UNCHANGED <<inviteHash, nextMatchId, owned, game, chain>>

\* finalizeStart: the reveal block's hash decides, or a fresh block is named
\* when that hash has aged out.
FinalizeStart(id) ==
  LET m == matches[id] IN
  /\ m.status = "Active"
  /\ m.startTurn = UNSET
  /\ height > m.revealBlock
  /\ \/ /\ height - m.revealBlock > HashWindow
        /\ matches' = [matches EXCEPT ![id].revealBlock = height + 1]
     \/ /\ height - m.revealBlock <= HashWindow
        /\ \E start \in {0, 1} :
             matches' = [matches EXCEPT ![id].startTurn = start]
  /\ UNCHANGED <<inviteHash, nextMatchId, owned, money, game, chain>>

CancelMatch(u, id) ==
  /\ matches[id].status = "Open"
  /\ u = matches[id].player0
  /\ RefundCreator(id)
  /\ UNCHANGED <<inviteHash, nextMatchId, owned, game, chain>>

-----------------------------------------------------------------------------
(* Settlement *)

\* k0 and k1 are the keys recovered from the two result signatures.
SettleSigned(id, w, k0, k1) ==
  /\ matches[id].status = "Active"
  /\ k0 = matches[id].session0
  /\ k1 = matches[id].session1
  /\ Payout(id, w)
  /\ UNCHANGED <<inviteHash, nextMatchId, owned, game, chain>>

ProposeResult(u, id, w, commitment) ==
  LET m == matches[id] IN
  /\ m.status = "Active"
  /\ now <= m.activeDeadline
  /\ IsPlayer(u, m)
  /\ commitment # NoHash
  /\ m.startTurn # UNSET
  /\ matches' = [matches EXCEPT ![id] =
       [@ EXCEPT !.proposedWinner = w, !.transcriptCommitment = commitment,
                 !.status = "Proposed",
                 !.challengeDeadline = now + m.challengeWindow]]
  /\ UNCHANGED <<inviteHash, nextMatchId, owned, money, game, chain>>

\* The requires of challenge that both of its outcomes share.
Challengeable(id, t) ==
  LET m == matches[id] IN
  /\ m.status = "Proposed"
  /\ now <= m.challengeDeadline
  /\ t.matchId = id
  /\ t.startTurn = m.startTurn
  /\ Verifies(t)

\* Slip: any signed prefix voids.
MayVoidAnyPrefix(u, id, t) ==
  Replay(t) = Playing /\ IsPlayer(u, matches[id])

\* The void path's own: a player, and the transcript committed to.
MayVoid(u, id, t) ==
  /\ Replay(t) = Playing
  /\ IsPlayer(u, matches[id])
  /\ Hash(t) = matches[id].transcriptCommitment

\* Slip: a finished transcript confirms the claim instead of overriding it.
ChallengeConfirms(u, id, t) ==
  /\ Challengeable(id, t)
  /\ \/ Replay(t) # Playing /\ Payout(id, matches[id].proposedWinner)
     \/ MayVoid(u, id, t) /\ Void(id)
  /\ UNCHANGED <<inviteHash, nextMatchId, owned, game, chain>>

Challenge(u, id, t) ==
  /\ Challengeable(id, t)
  /\ \/ Replay(t) # Playing /\ Payout(id, Replay(t))
     \/ MayVoid(u, id, t) /\ Void(id)
  /\ UNCHANGED <<inviteHash, nextMatchId, owned, game, chain>>

Finalize(id) ==
  LET m == matches[id] IN
  /\ m.status = "Proposed"
  /\ now > m.challengeDeadline
  /\ Payout(id, m.proposedWinner)
  /\ UNCHANGED <<inviteHash, nextMatchId, owned, game, chain>>

\* Slip: an expired match is voided whether or not anyone joined it.
VoidExpiredBoth(id) ==
  LET m == matches[id] IN
  /\ m.activeDeadline # 0 /\ now > m.activeDeadline
  /\ m.status \in {"Open", "Active"} /\ Void(id)
  /\ UNCHANGED <<inviteHash, nextMatchId, owned, game, chain>>

\* Slip: only joined matches expire.
VoidExpiredActive(id) ==
  LET m == matches[id] IN
  /\ m.activeDeadline # 0 /\ now > m.activeDeadline
  /\ m.status = "Active" /\ Void(id)
  /\ UNCHANGED <<inviteHash, nextMatchId, owned, game, chain>>

VoidExpired(id) ==
  LET m == matches[id] IN
  /\ m.activeDeadline # 0 /\ now > m.activeDeadline
  /\ \/ m.status = "Open" /\ RefundCreator(id)
     \/ m.status = "Active" /\ Void(id)
  /\ UNCHANGED <<inviteHash, nextMatchId, owned, game, chain>>

-----------------------------------------------------------------------------
(* Owner *)

Administer(new) ==
  /\ owned' = new
  /\ UNCHANGED <<matches, inviteHash, nextMatchId, money, game, chain>>

SetRake(r) == Administer([owned EXCEPT !.rakeBps = r])
SetMinStake(s) == Administer([owned EXCEPT !.minStake = s])
SetChallengeWindow(w) == Administer([owned EXCEPT !.challengeWindow = w])
SetTreasury(t) == Administer([owned EXCEPT !.treasury = t])
SetMatchTtl(ttl) == Administer([owned EXCEPT !.matchTtl = ttl])
SetOpenTtl(ttl) == Administer([owned EXCEPT !.openTtl = ttl])
SetTokenAllowed(tok, allowed) ==
  Administer([owned EXCEPT !.allowed = IF allowed THEN @ \cup {tok} ELSE @ \ {tok}])

-----------------------------------------------------------------------------
(* The players' game and the chain *)

\* Off-chain, the key in turn signs one more move; the replay may end on it.
PlayMove(id) ==
  /\ matches[id].status \in {"Active", "Proposed"}
  /\ matches[id].startTurn # UNSET
  /\ game[id].winner = Playing
  /\ game[id].ply < MaxPly
  /\ \E w \in Winners \cup {Playing} :
       game' = [game EXCEPT ![id] = [ply |-> @.ply + 1, winner |-> w]]
  /\ UNCHANGED <<matches, inviteHash, nextMatchId, owned, money, chain>>

NextBlock ==
  /\ \E gap \in BlockGaps : now + gap <= MaxTime /\ now' = now + gap
  /\ height' = height + 1
  /\ UNCHANGED <<matches, inviteHash, nextMatchId, owned, money, game>>

-----------------------------------------------------------------------------

Fund ==
  \/ \E u \in Users, tok \in Tokens, s \in Stakes, k \in Keys, c \in Codes \cup {NoCode} :
       Create(u, tok, s, k, c)
  \/ \E u \in Users, id \in Ids, k \in Keys, c \in Codes \cup {NoCode} :
       Join(u, id, k, c)

Settle ==
  \/ \E u \in Users, id \in Ids : CancelMatch(u, id)
  \/ \E id \in Ids, w \in Winners, k0, k1 \in Keys : SettleSigned(id, w, k0, k1)
  \/ \E u \in Users, id \in Ids, w \in Winners, c \in Commitments :
       ProposeResult(u, id, w, c)
  \/ \E u \in Users, id \in Ids, t \in Transcript : Challenge(u, id, t)
  \/ \E id \in Ids : FinalizeStart(id) \/ Finalize(id) \/ VoidExpired(id)

OwnerStep ==
  \/ \E r \in Rakes : SetRake(r)
  \/ \E s \in MinStakes : SetMinStake(s)
  \/ \E w \in Windows : SetChallengeWindow(w)
  \/ \E t \in Treasuries : SetTreasury(t)
  \/ \E ttl \in Ttls : SetMatchTtl(ttl) \/ SetOpenTtl(ttl)
  \/ \E tok \in Tokens, allowed \in BOOLEAN : SetTokenAllowed(tok, allowed)

Next ==
  \/ Fund
  \/ Settle
  \/ OwnerStep
  \/ \E id \in Ids : PlayMove(id)
  \/ NextBlock

Spec == Init /\ [][Next]_vars

\* finalize and voidExpired are permissionless and the server's keeper calls
\* them every minute on every match it finds on chain; blocks keep coming.
FairSpec ==
  /\ Spec
  /\ WF_vars(NextBlock)
  /\ \A id \in Ids : WF_vars(Finalize(id)) /\ WF_vars(VoidExpired(id))

-----------------------------------------------------------------------------
(* Properties *)

Deposits(m) ==
  CASE m.status = "None" -> 0
    [] m.status \in {"Open", "Cancelled"} -> m.stake
    [] OTHER -> 2 * m.stake

\* What the escrow still has to release for match id.
Owed(id) == IF matches[id].status \in Live THEN Deposits(matches[id]) ELSE 0

\* One pool per token backs all matches: at all times the escrow holds exactly
\* what its unreleased matches deposited, so no match's release can be paid
\* out of another's stakes, and the treasuries hold exactly the rakes taken
\* (the transfers of MatchEscrow.sol:167-439).
Solvent ==
  \A tok \in Tokens :
    LET ids == {id \in Ids : matches[id].token = tok}
    IN /\ pool[tok] = MapThenSumSet(Owed, ids)
       /\ MapThenSumSet(LAMBDA t : fees[t][tok], Treasuries)
            = MapThenSumSet(LAMBDA id : paid[id].fee, ids)

ConservedAt(m, p) ==
  /\ m.status \in Closed => p.p0 + p.p1 + p.fee = Deposits(m)
  /\ m.status \notin Closed => p.p0 + p.p1 + p.fee = 0
  /\ m.status # "Resolved" => p.fee = 0
  /\ p.fee * BPS <= MaxRakeBps * Pot(m)

\* Nothing has been released for a match before it closes; at its close
\* exactly its deposits are, with a fee of at most the cap, and none at all
\* on a refund (_payout and _void, MatchEscrow.sol:403-439; audit M-02).
Conserved == \A id \in Ids : ConservedAt(matches[id], paid[id])

Terms(m) == <<m.token, m.stake, m.player0, m.session0, m.rakeBps>>
JoinTerms(m) == <<m.player1, m.session1, m.challengeWindow>>

FrozenStep ==
  \A id \in Ids :
    LET m == matches[id]  n == matches'[id]
    IN /\ m.status # "None" => Terms(n) = Terms(m)
       /\ m.status \notin {"None", "Open"} =>
            /\ JoinTerms(n) = JoinTerms(m)
            /\ m.startTurn # UNSET => n.startTurn = m.startTurn
       /\ m.status \in Closed => n = m /\ paid'[id] = paid[id]

\* Whatever the owner sets and whoever calls, the terms a player staked on
\* never change under him: token, stake, seat and rake from creation, opponent
\* and challenge window from the join, the first mover once fixed; and a closed
\* match never changes nor pays again (MatchEscrow.sol:41-57, audit M-02).
TermsFrozen == [][FrozenStep]_vars

\* The releases of match id for outcome w.
Split(m, w) == [p0 |-> Share(m, w, 0), p1 |-> Share(m, w, 1), fee |-> Fee(m, w)]

TruthStep ==
  \A id \in Ids :
    /\ matches[id].status = "Proposed"
    /\ matches'[id].status = "Resolved"
    /\ now <= matches[id].challengeDeadline
    => /\ game[id].winner # Playing
       /\ paid'[id] = Split(matches[id], game[id].winner)

\* While the challenge window is open a claim pays nobody: only the outcome of
\* a game both keys signed to its end is paid, whatever was claimed and
\* whoever submits it (challenge, MatchEscrow.sol:320-361).
InWindowOnlyTruth == [][TruthStep]_vars

\* A claim of the outcome the signed game ended with, bound to all of its moves.
TrueClaim(id) ==
  LET m == matches[id] IN
  /\ m.status = "Proposed"
  /\ game[id].winner # Playing
  /\ m.proposedWinner = game[id].winner
  /\ m.transcriptCommitment = <<id, m.startTurn, game[id].ply>>

PrevailStep ==
  \A id \in Ids : TrueClaim(id) =>
    \/ TrueClaim(id)'
    \/ /\ matches'[id].status = "Resolved"
       /\ paid'[id] = Split(matches[id], matches[id].proposedWinner)

\* A true claim stands until it is paid as claimed: no challenge, expiry or
\* later move reduces it to a refund or turns it around (audit H-02, M1).
TrueClaimPrevails == [][PrevailStep]_vars

\* Every stake that goes in comes out: no silent opponent, lost key, wrong
\* claim or owner setting locks it (voidExpired, finalize: MatchEscrow.sol:364-399).
EveryStakeReleased ==
  \A id \in Ids : matches[id].status \in Live ~> matches[id].status \in Closed

\* What the escrow promises, in the terms of StakeCustody.
Custody == INSTANCE StakeCustody WITH
  stage <- [id \in Ids |->
              CASE matches[id].status = "None" -> "empty"
                [] matches[id].status = "Open" -> "half"
                [] matches[id].status \in {"Active", "Proposed"} -> "full"
                [] OTHER -> "released"],
  terms <- [id \in Ids |-> [stake |-> matches[id].stake, rakeBps |-> matches[id].rakeBps]],
  out <- paid

\* The escrow implements StakeCustody: a match is funded seat by seat, held,
\* and released once, as a refund, a split or a win at the rake of its creation.
CustodyKept == Custody!Spec

\* The books balance: the variables have their types, and each match has released
\* nothing before its close and exactly its deposits at it.
EscrowInv ==
  /\ TypeOK
  /\ Conserved
=============================================================================
