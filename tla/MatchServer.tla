------------------------------ MODULE MatchServer ------------------------------
(***************************************************************************)
(* The game server around the escrow of MatchEscrow: the hub's view of a   *)
(* match, the coordinator that submits settleSigned                        *)
(* (settlement-coordinator.ts), the keeper (keeper.ts, keeperTick and      *)
(* rescanTick of main.ts) and the anti-cheat watcher (main.ts).            *)
(*                                                                         *)
(* Everything the server does on chain is a transaction in txs: submitted  *)
(* on what the server read, executed later on whatever the escrow then is, *)
(* or reverted.  The players, and anyone else, call the escrow directly.   *)
(*                                                                         *)
(* Of a live match the hub keeps here whether it is over, for whom, and    *)
(* whether its transcript is all that both keys have signed (LiveMatch has *)
(* the rest); a restart rebuilds that from the snapshots.                  *)
(***************************************************************************)
EXTENDS MatchEscrow

CONSTANTS
  Operator,    \* the address that signs the server's transactions
  SessionOf,   \* the session key each player brings
  MaxFaults,   \* bound: restarts, lost transactions, lost events, RPC errors
  Prompt       \* whether events are delivered and transactions mined by the next block

ASSUME ServerAssumption ==
  /\ Operator \notin Users
  /\ SessionOf \in [Users -> Keys]
  /\ MaxFaults \in Nat
  /\ Prompt \in BOOLEAN

VARIABLES
  hub,            \* the hub's Match, by id
  sigs,           \* SettlementCoordinator.pending: the seats that have signed
  tracked,        \* ids the keeper watches
  knownTerminal,  \* ids it no longer does
  proposed,       \* ResultProposed events not yet delivered
  challenged,     \* what became of the anti-cheat challenge of each match
  txs,            \* submitted transactions
  faults

keeper == <<tracked, knownTerminal>>
anticheat == <<proposed, challenged>>
server == <<hub, sigs, keeper, anticheat, txs, faults>>
allvars == <<vars, server>>

Entry == [held : BOOLEAN, over : BOOLEAN, winner : Winners \cup {Playing}, whole : BOOLEAN]
NotHeld == [held |-> FALSE, over |-> FALSE, winner |-> Playing, whole |-> FALSE]

Plain == [do : {"finalizeStart", "finalize", "voidExpired"}, id : Ids]
Settling == [do : {"settleSigned"}, id : Ids, w : Winners]
Disputing == [do : {"challenge"}, id : Ids, t : Transcript]
Txs == Plain \cup Settling \cup Disputing

ServerTypeOK ==
  /\ hub \in [Ids -> Entry]
  /\ sigs \in [Ids -> SUBSET {0, 1}]
  /\ tracked \subseteq Ids /\ knownTerminal \subseteq Ids /\ proposed \subseteq Ids
  /\ challenged \in [Ids -> {"no", "sent", "failed"}]
  /\ txs \subseteq Txs
  /\ faults \in 0 .. MaxFaults

ServerInit ==
  /\ Init
  /\ hub = [id \in Ids |-> NotHeld]
  /\ sigs = [id \in Ids |-> {}]
  /\ tracked = {} /\ knownTerminal = {} /\ proposed = {}
  /\ challenged = [id \in Ids |-> "no"]
  /\ txs = {} /\ faults = 0

Fault == faults < MaxFaults /\ faults' = faults + 1
NoFault == UNCHANGED faults

-----------------------------------------------------------------------------
(* The game *)

\* openFromChain or StartFinalized: a board at ply 0.
HubOpen(id) ==
  /\ ~hub[id].held
  /\ matches[id].status = "Active" /\ matches[id].startTurn # UNSET
  /\ hub' = [hub EXCEPT ![id] =
       [held |-> TRUE, over |-> FALSE, winner |-> Playing, whole |-> game[id].ply = 0]]
  /\ tracked' = tracked \cup {id}
  /\ UNCHANGED <<vars, sigs, knownTerminal, anticheat, txs, faults>>

HubPlay(id) ==
  /\ hub[id].held /\ hub[id].whole /\ ~hub[id].over
  /\ PlayMove(id)
  /\ hub' = [hub EXCEPT ![id].winner = game'[id].winner,
                        ![id].over = game'[id].winner # Playing]
  /\ UNCHANGED <<sigs, keeper, anticheat, txs, faults>>

\* A resignation, an agreed draw or a forfeit: over without a last move.
HubEnds(id) ==
  /\ hub[id].held /\ ~hub[id].over
  /\ \E w \in Winners :
       hub' = [hub EXCEPT ![id].over = TRUE, ![id].winner = w]
  /\ UNCHANGED <<vars, sigs, keeper, anticheat, txs, faults>>

-----------------------------------------------------------------------------
(* SettlementCoordinator.submit *)

\* The first of the two result signatures, or a repeated one.
CollectSig(id, seat) ==
  /\ hub[id].held /\ hub[id].over
  /\ sigs[id] \cup {seat} # {0, 1}
  /\ sigs' = [sigs EXCEPT ![id] = @ \cup {seat}]
  /\ UNCHANGED <<vars, hub, keeper, anticheat, txs, faults>>

\* With both, settleSigned is submitted and the match closed, without waiting
\* for a receipt; an error of the submission leaves the signatures pending.
SettleSigs(id, seat) ==
  /\ hub[id].held /\ hub[id].over
  /\ sigs[id] \cup {seat} = {0, 1}
  /\ \/ /\ matches[id].status = "Active"
        /\ txs' = txs \cup {[do |-> "settleSigned", id |-> id, w |-> hub[id].winner]}
        /\ sigs' = [sigs EXCEPT ![id] = {}]
        /\ hub' = [hub EXCEPT ![id] = NotHeld]
        /\ NoFault
     \/ /\ (matches[id].status # "Active" /\ NoFault) \/ Fault
        /\ sigs' = [sigs EXCEPT ![id] = {0, 1}]
        /\ UNCHANGED <<hub, txs>>
  /\ UNCHANGED <<vars, keeper, anticheat>>

-----------------------------------------------------------------------------
(* Keeper *)

\* The hub knows another ending than the one claimed.
Contradicts(id) ==
  hub[id].held /\ hub[id].over /\ hub[id].winner # matches[id].proposedWinner

\* keeperActions: what is due for match id, as at most one action.
Due(id) ==
  LET m == matches[id] IN
  CASE m.status = "Proposed" /\ now > m.challengeDeadline -> {"finalize"}
    [] m.status = "Active" /\ m.startTurn = UNSET
         /\ m.revealBlock # 0 /\ height > m.revealBlock -> {"finalizeStart"}
    [] m.status = "Active" /\ m.activeDeadline > 0 /\ now > m.activeDeadline ->
         {"voidExpired"}
    [] OTHER -> {}

\* Slip: a claim the hub cannot confirm is left alone.
KeepConfirmed(id) ==
  /\ id \in tracked
  /\ \E do \in Due(id) :
       /\ do = "finalize" => hub[id].held /\ ~Contradicts(id)
       /\ [do |-> do, id |-> id] \notin txs
       /\ txs' = txs \cup {[do |-> do, id |-> id]}
  /\ UNCHANGED <<vars, hub, sigs, keeper, anticheat, faults>>

\* keeperTick for one tracked match: submit what is due, unless that is to
\* finalize a claim the hub contradicts.
Keep(id) ==
  /\ id \in tracked
  /\ \E do \in Due(id) :
       /\ do = "finalize" => ~Contradicts(id)
       /\ [do |-> do, id |-> id] \notin txs
       /\ txs' = txs \cup {[do |-> do, id |-> id]}
  /\ UNCHANGED <<vars, hub, sigs, keeper, anticheat, faults>>

\* keeperTick for a tracked match that has closed.
Prune(id) ==
  /\ id \in tracked /\ matches[id].status \in Closed
  /\ tracked' = tracked \ {id}
  /\ knownTerminal' = knownTerminal \cup {id}
  /\ UNCHANGED <<vars, hub, sigs, anticheat, txs, faults>>

IdsToRescan == (1 .. nextMatchId - 1) \ (tracked \cup knownTerminal)

RescanTick ==
  /\ tracked' = tracked \cup IdsToRescan
  /\ UNCHANGED <<vars, hub, sigs, knownTerminal, anticheat, txs, faults>>

\* The MatchJoined watcher, whenever the event arrives, if it does.
OnMatchJoined(id) ==
  /\ matches[id].status = "Active" /\ matches[id].startTurn = UNSET
  /\ tracked' = tracked \cup {id}
  /\ txs' = txs \cup {[do |-> "finalizeStart", id |-> id]}
  /\ UNCHANGED <<vars, hub, sigs, knownTerminal, anticheat, faults>>

-----------------------------------------------------------------------------
(* Anti-cheat watcher *)

\* hub.transcript(id).
HubTranscript(id) ==
  [matchId |-> id, startTurn |-> matches[id].startTurn, len |-> game[id].ply]

\* The gas estimate of challenge(transcript) succeeds: the operator is no
\* player, so only a transcript whose replay has ended goes through.
Refutes(id) ==
  /\ hub[id].whole /\ game[id].ply > 0
  /\ Challengeable(id, HubTranscript(id))
  /\ Replay(HubTranscript(id)) # Playing

\* Slip: the watcher refutes the claims the hub agrees with.
OnResultProposedInverted(id) ==
  /\ id \in proposed /\ proposed' = proposed \ {id}
  /\ \/ /\ ~Contradicts(id) /\ Refutes(id)
        /\ txs' = txs \cup {[do |-> "challenge", id |-> id, t |-> HubTranscript(id)]}
     \/ UNCHANGED txs
  /\ UNCHANGED <<vars, hub, sigs, keeper, challenged, faults>>

\* The ResultProposed event of match id arrives, or is lost.
OnResultProposed(id) ==
  /\ id \in proposed
  /\ proposed' = proposed \ {id}
  /\ LET acts == Contradicts(id) /\ challenged[id] # "sent"
     IN \/ /\ ~acts /\ NoFault
           /\ UNCHANGED <<challenged, txs>>
        \/ /\ Fault
           /\ UNCHANGED <<challenged, txs>>
        \/ /\ acts /\ Refutes(id) /\ NoFault
           /\ challenged' = [challenged EXCEPT ![id] = "sent"]
           /\ txs' = txs \cup {[do |-> "challenge", id |-> id, t |-> HubTranscript(id)]}
        \/ /\ acts
           /\ (~Refutes(id) /\ NoFault) \/ Fault
           /\ challenged' = [challenged EXCEPT ![id] = "failed"]
           /\ UNCHANGED txs
  /\ UNCHANGED <<vars, hub, sigs, keeper>>

-----------------------------------------------------------------------------
(* Transactions, restarts, and everyone else *)

\* The call that tx makes.
Call(tx) ==
  CASE tx.do = "finalizeStart" -> FinalizeStart(tx.id)
    [] tx.do = "finalize" -> Finalize(tx.id)
    [] tx.do = "voidExpired" -> VoidExpired(tx.id)
    [] tx.do = "settleSigned" ->
         SettleSigned(tx.id, tx.w, matches[tx.id].session0, matches[tx.id].session1)
    [] tx.do = "challenge" -> Challenge(Operator, tx.id, tx.t)

Mine(tx) ==
  /\ tx \in txs
  /\ txs' = txs \ {tx}
  /\ \/ Call(tx)
     \/ ~ENABLED Call(tx) /\ UNCHANGED vars
  /\ UNCHANGED <<hub, sigs, keeper, anticheat, faults>>

LoseTx(tx) ==
  /\ tx \in txs
  /\ txs' = txs \ {tx}
  /\ Fault
  /\ UNCHANGED <<vars, hub, sigs, keeper, anticheat>>

\* The hub comes back from the snapshots, what the keeper tracks with it; the
\* rest was in memory, and events of the downtime are gone.
Restart ==
  /\ Fault
  /\ sigs' = [id \in Ids |-> {}]
  /\ tracked' = {id \in Ids : hub[id].held}
  /\ knownTerminal' = {} /\ proposed' = {}
  /\ challenged' = [id \in Ids |-> "no"]
  /\ UNCHANGED <<vars, hub, txs>>

Propose(u, id, w, commitment) ==
  /\ ProposeResult(u, id, w, commitment)
  /\ proposed' = proposed \cup {id}
  /\ UNCHANGED <<hub, sigs, keeper, challenged, txs, faults>>

\* Calls made without the server.
Players ==
  /\ \/ \E u \in Users, tok \in Tokens, s \in Stakes :
          Create(u, tok, s, SessionOf[u], NoCode)
     \/ \E u \in Users, id \in Ids : Join(u, id, SessionOf[u], NoCode) \/ CancelMatch(u, id)
     \/ \E u \in Users, id \in Ids, t \in Transcript : Challenge(u, id, t)
     \/ \E id \in Ids : FinalizeStart(id) \/ Finalize(id) \/ VoidExpired(id)
     \/ \E tok \in Tokens : SetTokenAllowed(tok, TRUE)
  /\ UNCHANGED server

Block ==
  /\ Prompt => proposed = {} /\ txs = {}
  /\ NextBlock
  /\ UNCHANGED server

ServerNext ==
  \/ Players
  \/ \E u \in Users, id \in Ids, w \in Winners, c \in Commitments : Propose(u, id, w, c)
  \/ Block
  \/ \E id \in Ids :
       \/ HubOpen(id) \/ HubPlay(id) \/ HubEnds(id)
       \/ \E seat \in {0, 1} : CollectSig(id, seat) \/ SettleSigs(id, seat)
       \/ Keep(id) \/ Prune(id) \/ OnMatchJoined(id)
       \/ OnResultProposed(id)
  \/ RescanTick
  \/ \E tx \in txs : Mine(tx) \/ LoseTx(tx)
  \/ Restart

ServerSpec == ServerInit /\ [][ServerNext]_allvars

MineAny(do, id) == \E tx \in txs : tx.do = do /\ tx.id = id /\ Mine(tx)

\* The server's own timers and watchers, and the chain; no player is fair.
ServerFairSpec ==
  /\ ServerSpec
  /\ WF_allvars(Block) /\ WF_allvars(RescanTick)
  /\ \A id \in Ids :
       /\ WF_allvars(Keep(id)) /\ WF_allvars(OnResultProposed(id))
       /\ \A do \in {"finalizeStart", "finalize", "voidExpired", "challenge"} :
            WF_allvars(MineAny(do, id))

-----------------------------------------------------------------------------
(* Properties *)

\* No joined match stays locked for want of its players: whoever vanishes and
\* whatever the server loses in a restart, the keeper gets the match out of
\* Active (keeper.ts:62-79, "the #17..#46 stuck-stake bug").
JoinedMatchFreed ==
  \A id \in Ids : matches[id].status = "Active" ~> matches[id].status # "Active"

\* A claim nobody contests is paid by the keeper; the only claims it leaves
\* alone are those the hub contradicts (main.ts:1318-1335).
ClaimFreed ==
  \A id \in Ids :
    matches[id].status = "Proposed"
      ~> matches[id].status \in Closed \/ Contradicts(id)

\* While events and challenges get through, a claim made against the ending of
\* a finished game is never paid: it is overturned, or at worst a player turns
\* it into a refund (main.ts:1216-1255, audit H-03).
FalseClaimNeverPaid ==
  \A id \in Ids :
    id \in proposed /\ Contradicts(id) /\ Refutes(id)
      ~> \/ matches[id].status = "Voided"
         \/ paid[id] = Split(matches[id], game[id].winner)

\* The keeper leaves no joined match and no uncontested claim behind.
MatchesFreed ==
  /\ JoinedMatchFreed
  /\ ClaimFreed
=============================================================================
