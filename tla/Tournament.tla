------------------------------ MODULE Tournament ------------------------------
(***************************************************************************)
(* A sit-and-go from its creation to its payout: TournamentEscrow, the     *)
(* server's TournamentService and its routes (tournament/service.ts,       *)
(* main.ts), the apps of the players (TournamentCoordinator.tsx,           *)
(* lib/tournaments.ts) and the correspondence game behind each pairing,    *)
(* reduced to who has joined it and who won.                               *)
(*                                                                         *)
(* The app's own report of a result carries no operator secret and is      *)
(* refused, so results arrive as the operator posts them.                  *)
(***************************************************************************)
EXTENDS TournamentEscrow, Bracket

CONSTANTS
  MaxPairings,   \* bound: correspondence games created
  MaxFaults   \* bound: players who leave, requests lost, calls that fail, restarts

VARIABLES
  server,     \* the entry of the TournamentService, in memory
  hook,       \* the finalize hook: idle or the standings it is sending
  sending,    \* finalize transactions sent and not mined
  mirrors,    \* joins confirmed on the chain that the app has yet to tell the server
  games,      \* correspondence games
  away,       \* players who have left for good
  faults,
  lost        \* history: the pairings each player has lost

serverVars == <<server, hook, sending>>
tvars == <<now, cupVars, serverVars, mirrors, games, away, faults, lost>>

Unknown == [phase |-> "unknown", entrants |-> <<>>, rounds |-> <<>>, games |-> <<>>, since |-> <<>>]
Lobby == [Unknown EXCEPT !.phase = "lobby"]
Running == server.phase = "running"

TournamentInit ==
  /\ CupInit
  /\ server = Unknown /\ hook = <<>> /\ sending = {} /\ mirrors = {} /\ games = <<>> /\ away = {}
  /\ faults = 0
  /\ lost = [p \in Entrants |-> {}]

Keep == UNCHANGED <<mirrors, games, away, faults, lost>>

\* The service's maps are functions on the pairings they hold.
Get(f, k, default) == IF k \in DOMAIN f THEN f[k] ELSE default
Put(f, k, v) == [j \in DOMAIN f \cup {k} |-> IF j = k THEN v ELSE f[j]]

\* stampNewPendings: pairings that just became playable start waiting.
Stamped(s) ==
  [s EXCEPT !.since = [k \in DOMAIN s.since \cup Pending(s.rounds) |-> Get(s.since, k, 0)]]

-----------------------------------------------------------------------------
(* The lobby.                                                              *)

\* syncTournaments, on a request of the lobby: register what is open.
Sync ==
  /\ cup.status = "open" /\ server.phase = "unknown"
  /\ server' = Lobby
  /\ UNCHANGED <<now, cupVars, hook, sending>> /\ Keep

Enter(p) ==
  /\ server.phase = "lobby" /\ p \notin away
  /\ JoinCup(p)
  /\ mirrors' = mirrors \cup {p}
  /\ UNCHANGED <<serverVars, games, away, faults, lost>>

Start(s) ==
  Stamped([s EXCEPT !.phase = "running", !.rounds = CreateBracket(s.entrants)])

\* POST /tournaments/join: the bracket starts when the field is full.
MirrorJoin(p) ==
  LET s == [server EXCEPT !.entrants = Append(@, p)] IN
  /\ p \in mirrors
  /\ mirrors' = mirrors \ {p}
  /\ IF server.phase = "lobby" /\ p \notin ToSet(server.entrants) /\ Len(server.entrants) < cup.max
     THEN server' = IF Len(s.entrants) = cup.max THEN Start(s) ELSE s
     ELSE UNCHANGED server
  /\ UNCHANGED <<now, cupVars, hook, sending, games, away, faults, lost>>

\* The request never arrives; the app does not retry it.
LoseMirror(p) ==
  /\ p \in mirrors /\ faults < MaxFaults
  /\ mirrors' = mirrors \ {p} /\ faults' = faults + 1
  /\ UNCHANGED <<now, cupVars, serverVars, games, away, lost>>

-----------------------------------------------------------------------------
(* The bracket.                                                            *)

Host(k) == Min(Seated(server.rounds, k))
Guest(k) == Max(Seated(server.rounds, k))
Attached(k) == Get(server.games, k, NoOne)

\* assignment: the pending pairing of the player.  The apps' steps range over the
\* pending pairings.
Assigned(p, k) == p \in Seated(server.rounds, k)

\* The host's app: no game yet, so it creates one; a tick that overtakes the last
\* one's unanswered post counts as a fault.
Overtakes(k) == \E g \in DOMAIN games : games[g].pair = k /\ games[g].post = "sending"

HostCreates(p, k) ==
  /\ Assigned(p, k) /\ p = Host(k) /\ p \notin away /\ Attached(k) = NoOne
  /\ Len(games) < MaxPairings
  /\ Overtakes(k) => faults < MaxFaults
  /\ faults' = IF Overtakes(k) THEN faults + 1 ELSE faults
  /\ games' = Append(games, [pair |-> k, host |-> p, guest |-> NoOne, winner |-> NoOne,
                             post |-> "sending", idle |-> 0])
  /\ UNCHANGED <<now, cupVars, serverVars, mirrors, away, lost>>

\* POST /tournaments/game-created: attachGame, then setTurnClock.
GameCreated(g) ==
  /\ games[g].post = "sending"
  /\ IF server.rounds # <<>>
     THEN /\ server' = [server EXCEPT !.games = Put(@, games[g].pair, g)]
          /\ games' = [games EXCEPT ![g] = [@ EXCEPT !.post = "done", !.idle = 0]]
     ELSE games' = [games EXCEPT ![g].post = "done"] /\ UNCHANGED server
  /\ UNCHANGED <<now, cupVars, hook, sending, mirrors, away, faults, lost>>

LoseGameCreated(g) ==
  /\ games[g].post = "sending" /\ faults < MaxFaults
  /\ games' = [games EXCEPT ![g].post = "done"] /\ faults' = faults + 1
  /\ UNCHANGED <<now, cupVars, serverVars, mirrors, away, lost>>

\* The guest's app joins the game the server names.
GuestJoins(p, k) ==
  LET g == Attached(k) IN
  /\ Assigned(p, k) /\ p = Guest(k) /\ p \notin away /\ g # NoOne /\ games[g].guest = NoOne
  /\ games' = [games EXCEPT ![g] = [@ EXCEPT !.guest = p, !.idle = 0]]
  /\ UNCHANGED <<now, cupVars, serverVars, mirrors, away, faults, lost>>

Open(g) == games[g].guest = NoOne
\* Games the bracket has replaced or no longer waits for change nothing, and are
\* left as they stand.
Awaited(g) == games[g].pair \in Pending(server.rounds) /\ Attached(games[g].pair) = g
Over(g) == games[g].winner # NoOne
Sides(g) == {games[g].host, games[g].guest}

\* The two play it out; a draw advances the host.
PlayOut(g, w) ==
  /\ Awaited(g) /\ ~Open(g) /\ ~Over(g) /\ w \in Sides(g) /\ Sides(g) \cap away = {}
  /\ games' = [games EXCEPT ![g] = [@ EXCEPT !.winner = w, !.idle = 0]]
  /\ UNCHANGED <<now, cupVars, serverVars, mirrors, away, faults, lost>>

\* claimTimeout: the other has not moved for the turn clock, and both have joined.
ClaimTimeout(g, p) ==
  /\ Awaited(g) /\ ~Open(g) /\ ~Over(g) /\ p \in Sides(g) \ away /\ Sides(g) \cap away # {}
  /\ games[g].idle = 1
  /\ games' = [games EXCEPT ![g] = [@ EXCEPT !.winner = p, !.idle = 0]]
  /\ UNCHANGED <<now, cupVars, serverVars, mirrors, away, faults, lost>>

\* reportResult; a complete bracket calls the hook.
ReportResult(k, w) ==
  LET rounds == Report(server.rounds, k, w)
      loser == Other(server.rounds, k, w) IN
  /\ Running /\ Reportable(server.rounds, k, w)
  /\ server' = IF Complete(rounds) THEN [server EXCEPT !.rounds = rounds, !.phase = "settling"]
               ELSE Stamped([server EXCEPT !.rounds = rounds])
  /\ hook' = IF Complete(rounds) THEN FinalStandings(rounds) ELSE hook
  /\ lost' = [lost EXCEPT ![loser] = @ \cup {k}]
  /\ UNCHANGED <<now, cupVars, sending, mirrors, games, away, faults>>

\* POST /tournaments/result: the operator posts how the attached game ended.
OperatorReports(k) ==
  LET g == Attached(k) IN
  g # NoOne /\ Over(g) /\ ReportResult(k, games[g].winner)

\* The walkover is the wrong seat's.
ClaimWalkoverByHost(p, k) ==
  /\ Assigned(p, k) /\ p = Host(k) /\ p \notin away
  /\ Attached(k) = NoOne /\ server.since[k] = 1
  /\ ReportResult(k, p)

\* claimWalkover: the host had its time and has no game to show.
ClaimWalkover(p, k) ==
  /\ Assigned(p, k) /\ p = Guest(k) /\ p \notin away
  /\ Attached(k) = NoOne /\ server.since[k] = 1
  /\ ReportResult(k, p)

-----------------------------------------------------------------------------
(* The payout.                                                             *)

\* The hook simulates and sends; once sent the bracket is done.
HookSends ==
  /\ hook # <<>> /\ CanFinalize(hook)
  /\ sending' = sending \cup {hook} /\ hook' = <<>>
  /\ server' = [server EXCEPT !.phase = "done"]
  /\ UNCHANGED <<now, cupVars>> /\ Keep

\* The simulation reverts or the call fails; the bracket stays settling.
HookFails ==
  /\ hook # <<>> /\ (~CanFinalize(hook) \/ faults < MaxFaults)
  /\ hook' = <<>>
  /\ faults' = IF CanFinalize(hook) THEN faults + 1 ELSE faults
  /\ UNCHANGED <<now, cupVars, server, sending, mirrors, games, away, lost>>

MineFinalize(winners) ==
  /\ winners \in sending
  /\ sending' = sending \ {winners}
  /\ Finalize(winners) \/ (~CanFinalize(winners) /\ UNCHANGED <<now, cupVars>>)
  /\ UNCHANGED <<server, hook>> /\ Keep

-----------------------------------------------------------------------------
(* Time, departures and restarts.                                          *)

\* Time; a walkover's grace and a turn clock last one tick.
Tick ==
  /\ now' = Min({now + 1, MaxTime})
  /\ server' = [server EXCEPT !.since = [k \in DOMAIN @ |-> 1]]
  /\ games' = [g \in DOMAIN games |-> IF Awaited(g) /\ ~Over(g) THEN [games[g] EXCEPT !.idle = 1] ELSE games[g]]
  /\ UNCHANGED <<cupVars, hook, sending, mirrors, away, faults, lost>>

Leave(p) ==
  /\ p \notin away /\ faults < MaxFaults
  /\ away' = away \cup {p} /\ faults' = faults + 1
  /\ UNCHANGED <<now, cupVars, serverVars, mirrors, games, lost>>

Restart ==
  /\ server.phase # "unknown" /\ faults < MaxFaults
  /\ server' = Unknown /\ hook' = <<>>
  /\ faults' = faults + 1
  /\ UNCHANGED <<now, cupVars, sending, mirrors, games, away, lost>>

TournamentNext ==
  \/ CupStep /\ UNCHANGED <<serverVars, mirrors, games, away, faults, lost>>
  \/ Sync \/ Tick \/ Restart \/ HookSends \/ HookFails
  \/ \E p \in Entrants : Enter(p) \/ MirrorJoin(p) \/ LoseMirror(p) \/ Leave(p)
  \/ \E p \in Entrants, k \in Pending(server.rounds) : HostCreates(p, k) \/ GuestJoins(p, k) \/ ClaimWalkover(p, k)
  \/ \E g \in DOMAIN games : GameCreated(g) \/ LoseGameCreated(g)
  \/ \E g \in DOMAIN games, p \in Entrants : PlayOut(g, p) \/ ClaimTimeout(g, p)
  \/ \E k \in Pending(server.rounds) : OperatorReports(k)
  \/ \E winners \in sending : MineFinalize(winners)

TournamentSpec == TournamentInit /\ [][TournamentNext]_tvars

-----------------------------------------------------------------------------
(* Progress and properties.                                                *)

AppStep == \E p \in Entrants, k \in Pending(server.rounds) : HostCreates(p, k) \/ GuestJoins(p, k) \/ ClaimWalkover(p, k)
GameStep == \E g \in DOMAIN games : GameCreated(g) \/ \E p \in Entrants : PlayOut(g, p) \/ ClaimTimeout(g, p)
ServerStep == HookSends \/ HookFails \/ \E k \in Pending(server.rounds) : OperatorReports(k)
ChainStep == \/ \E winners \in sending : MineFinalize(winners)
             \/ Refund /\ UNCHANGED <<serverVars, mirrors, games, away, faults, lost>>

CupProgress == Tick \/ AppStep \/ GameStep \/ ServerStep \/ ChainStep

\* The variables have their types.
TournamentTypeOK ==
  /\ now \in 0 .. MaxTime /\ funds \in Nat /\ treasury \in Nat
  /\ cup.status \in {"none", "open", "finalized", "cancelled"} /\ cup.pool \in Nat
  /\ server.phase \in {"unknown", "lobby", "running", "settling", "done"}
  /\ \A k \in DOMAIN server.since : server.since[k] \in 0 .. 1
  /\ away \subseteq Entrants /\ mirrors \subseteq Entrants

\* While the tournament is open the contract holds its pool, which is the fees of
\* the players the server seats and of the others who joined; once it is over the
\* contract holds nothing, and after a cancellation no entrant is out of pocket and
\* the sponsor's money is the treasury's (TournamentEscrow.sol:219-246).
MoneyOut ==
  CASE cup.status = "open" -> /\ funds = Count * cup.fee + cup.sponsored
                              /\ ToSet(server.entrants) \subseteq Joined
    [] cup.status = "cancelled" -> /\ funds = 0 /\ treasury + withdrawn = cup.sponsored
                                   /\ \A p \in Entrants : spent[p] = 0
    [] OTHER -> funds = 0

\* The payout never takes from the protocol's cut: entrants together get at most
\* the pool without it, each place its share of the table.
CutKept ==
  cup.status = "finalized" =>
    /\ treasury + withdrawn >= (cup.pool * cup.cut) \div BPS
    /\ \A i \in DOMAIN podium : cup.fee - spent[podium[i]] = Prize(i)

\* NoOne is in two undecided games, and nobody who has lost is in one.
InOneGame ==
  \A k \in Pending(server.rounds) : \A p \in Seated(server.rounds, k) :
    /\ lost[p] = {}
    /\ \A j \in Pending(server.rounds) \ {k} : p \notin Seated(server.rounds, j)

\* The first prize is the champion's, who lost no game; the second is of one who
\* lost the final only; and everybody else lost exactly one game on the way.
PodiumWon ==
  cup.status = "finalized" =>
    /\ lost[podium[1]] = {}
    /\ \A p \in Joined \ {podium[1]} : Cardinality(lost[p]) = 1
    /\ Len(podium) = 2 => \A k \in lost[podium[2]] : \A p \in Joined : \A j \in lost[p] : j[1] <= k[1]

\* "Funds can never be trapped by an absent operator" (TournamentEscrow.sol:219-222):
\* whoever leaves, whatever request is lost and even if the server forgets the
\* bracket, every tournament is paid out or refunded.
StakesComeBack == []<>(cup.status # "open")

WaitsForGuest ==
  \E k \in Pending(server.rounds) : /\ Guest(k) \in away /\ Attached(k) # NoOne /\ Open(Attached(k))
WaitsForNobody == \E k \in Pending(server.rounds) : Seated(server.rounds, k) \subseteq away

\* A running bracket gets to its end, or waits for a guest who never joined the
\* host's game or for two players who both left.
BracketMoves == []<>(~Running \/ WaitsForGuest \/ WaitsForNobody)

\* No single player who leaves holds up the others (service.ts:127-133).
NoShowLoses == []<>(~Running \/ WaitsForNobody)

\* The bracket decides who is paid and the contract pays it once: nobody sits in two
\* games, the podium is who won, the cut stays whole, and the rest goes out or back.
CupInv ==
  /\ TournamentTypeOK
  /\ MoneyOut
  /\ CutKept
  /\ InOneGame
  /\ PodiumWon

\* The money always comes back, and a bracket whose players stay moves on.
CupEnds ==
  /\ StakesComeBack
  /\ BracketMoves
=============================================================================
