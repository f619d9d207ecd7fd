----------------------------- MODULE Correspondence -----------------------------
(***************************************************************************)
(* A correspondence game: the server's AsyncMatchService and its routes    *)
(* (async-match.ts, main.ts), the match store, and the pages that open,    *)
(* join, play, claim and leave it (AsyncMatch.tsx, lib/asyncClient.ts).    *)
(*                                                                         *)
(* A request loads the record, derives the next one and saves it, with     *)
(* awaits in between: requests overlap, are lost, or lose their answer.    *)
(* The engine is reduced to whether a sequence of houses has ended.        *)
(***************************************************************************)
EXTENDS Integers, FiniteSets, Sequences, SequencesExt

CONSTANTS
  Creator,
  Friends,    \* who open the invite link
  MaxRequests,\* bound: requests under way at a time
  MaxPly,     \* bound: the ply at which a game is drawn
  MaxFaults,  \* bound: lost requests and answers, restarts, notifications that fail
  Nobody,
  NoMatch

ASSUME BoundsAssumption ==
  /\ MaxPly \in Nat \ {0} /\ MaxFaults \in Nat
  /\ Creator \notin Friends /\ Nobody \notin {Creator} \cup Friends

VARIABLES
  match,      \* the stored record
  requests,   \* the requests under way
  visited,    \* the friends who have opened the invite link
  held,       \* the devices that have persisted the session key they play with
  clockSet,   \* whether the tournament has set the move clock
  faults,
  reports,    \* history: the results handed to the profiles, with the moves behind them
  warranted,  \* history: the winners a resignation or a lapsed clock has entitled
  clobbered   \* history: whether a save has undone another

pages == <<visited, held>>
told == <<reports, warranted>>
cvars == <<match, requests, pages, clockSet, faults, told, clobbered>>

Devices == {Creator} \cup Friends
Houses == {"sow", "take"}
NoSeat == 2
Draw == 2
None == 3

-----------------------------------------------------------------------------
(* The record, and the match rehydrated from it.                           *)

\* A capture past the first exchange wins the game.
Finished(moves) == Len(moves) >= MaxPly \/ (Len(moves) > 1 /\ Last(moves) = "take")
Turn(m) == Len(m.moves) % 2
Outcome(moves) == IF Last(moves) = "take" THEN (Len(moves) - 1) % 2 ELSE Draw
Over(m) == m.winner # None
IsOpen(m) == m.keys[2] = Nobody
Role(m, d) == IF m.keys[1] = d THEN 0 ELSE IF m.keys[2] = d THEN 1 ELSE NoSeat

\* A session key is named after the device that made it.
NewMatch ==
  [keys |-> <<Creator, Nobody>>, moves |-> <<>>, winner |-> None, lapsed |-> FALSE, short |-> FALSE]

Init ==
  /\ match = NoMatch
  /\ requests = {}
  /\ visited = {} /\ held = {}
  /\ clockSet = FALSE /\ faults = 0 /\ reports = <<>> /\ warranted = {} /\ clobbered = FALSE

-----------------------------------------------------------------------------
(* The pages.                                                              *)

Create ==
  /\ match = NoMatch
  /\ match' = NewMatch /\ held' = {Creator}
  /\ UNCHANGED <<requests, visited, clockSet, faults, told, clobbered>>

\* Once a save has undone another, requests come one at a time (bound).
Send(op, d, house) ==
  LET q == [stage |-> "sent", op |-> op, device |-> d, house |-> house, seat |-> Role(match, d),
            ply |-> Len(match.moves), base |-> NoMatch] IN
  /\ match # NoMatch /\ q \notin requests
  /\ Cardinality(requests) < (IF clobbered THEN 1 ELSE MaxRequests)
  /\ requests' = requests \cup {q}
  /\ UNCHANGED <<match, held, faults, reports, clobbered>>

\* The page of a device without a key joins an open match with a fresh one.
Visit(d) ==
  /\ match # NoMatch /\ d \notin visited /\ IsOpen(match)
  /\ Send("join", d, "none")
  /\ visited' = visited \cup {d} /\ UNCHANGED <<clockSet, warranted>>

\* A page whose key has no seat has nothing to send that the service accepts.
Seated(d) == match # NoMatch /\ ~IsOpen(match) /\ ~Over(match) /\ d \in held /\ Role(match, d) # NoSeat

\* The board is not locked while a move is under way.
Play(d, house) ==
  /\ Seated(d) /\ Turn(match) = Role(match, d)
  /\ Send("move", d, house) /\ UNCHANGED <<visited, clockSet, warranted>>

Claim(d) ==
  /\ Seated(d) /\ Turn(match) # Role(match, d) /\ match.lapsed
  /\ Send("claim", d, "none") /\ UNCHANGED <<visited, clockSet, warranted>>

Leave(d) ==
  /\ Seated(d)
  /\ Send("resign", d, "none")
  /\ warranted' = warranted \cup {1 - Role(match, d)}
  /\ UNCHANGED <<visited, clockSet>>

\* POST /tournaments/game-created puts the match on the short leash.
AttachToTournament ==
  /\ ~clockSet /\ Send("clock", Creator, "none")
  /\ clockSet' = TRUE /\ UNCHANGED <<visited, warranted>>

-----------------------------------------------------------------------------
(* The service: load and derive, save, and what comes after.               *)

\* submitMove and resign check the signature over the ply against the seat's key.
Signed(q, m) == q.ply = Len(m.moves) /\ q.device = m.keys[q.seat + 1]

\* Slip: a claim does not ask whether the game is over.
AcceptsLateClaim(q, m) ==
  CASE q.op = "join" -> IsOpen(m)
    [] q.op = "move" -> ~Over(m) /\ Turn(m) = q.seat /\ Signed(q, m)
    [] q.op = "resign" -> ~IsOpen(m) /\ ~Over(m) /\ Signed(q, m)
    [] OTHER -> TRUE

\* Slip: the claim is the player's to move.
AcceptsOwnClaim(q, m) ==
  CASE q.op = "join" -> IsOpen(m)
    [] q.op = "move" -> ~Over(m) /\ Turn(m) = q.seat /\ Signed(q, m)
    [] q.op = "claim" -> ~Over(m) /\ Turn(m) = q.seat /\ m.lapsed
    [] OTHER -> FALSE

\* What the service asks of the record before each operation.
Accepts(q, m) ==
  CASE q.op = "join" -> IsOpen(m)
    [] q.op = "move" -> ~Over(m) /\ Turn(m) = q.seat /\ Signed(q, m)
    [] q.op = "resign" -> ~IsOpen(m) /\ ~Over(m) /\ Signed(q, m)
    [] q.op = "claim" -> ~IsOpen(m) /\ ~Over(m) /\ Turn(m) # q.seat /\ m.lapsed
    [] OTHER -> TRUE

\* Slip: a move takes the game back off its short clock.
MovedOffLeash(m, house) ==
  LET moves == Append(m.moves, house) IN
  [m EXCEPT !.moves = moves, !.winner = IF Finished(moves) THEN Outcome(moves) ELSE None, !.short = FALSE]

Moved(m, house) ==
  LET moves == Append(m.moves, house) IN
  [m EXCEPT !.moves = moves, !.winner = IF Finished(moves) THEN Outcome(moves) ELSE None]

Forfeit(m, loser) == [m EXCEPT !.winner = 1 - loser]

Derived(q, m) ==
  CASE q.op = "join" -> [m EXCEPT !.keys[2] = q.device]
    [] q.op = "move" -> Moved(m, q.house)
    [] q.op = "resign" -> Forfeit(m, q.seat)
    [] q.op = "claim" -> Forfeit(m, Turn(m))
    [] OTHER -> [m EXCEPT !.short = TRUE]

Becomes(q, stage, base) == requests' = (requests \ {q}) \cup {[q EXCEPT !.stage = stage, !.base = base]}
Done(q) == requests' = requests \ {q}

Load(q) ==
  /\ q.stage = "sent"
  /\ IF Accepts(q, match) THEN Becomes(q, "loaded", match) ELSE Done(q)
  /\ UNCHANGED <<match, pages, clockSet, faults, told, clobbered>>

\* Every save stamps updatedAt, which starts the clock afresh.
Fresh(m) == [m EXCEPT !.lapsed = FALSE]

Result(winner, moves) == [winner |-> winner, moves |-> moves]

\* A walkover or a last move is reported at once, a resignation after the opponent
\* has been notified, and a join answers with the record as it then stands.
Save(q) ==
  LET rec == Derived(q, q.base) IN
  /\ q.stage = "loaded"
  /\ match' = Fresh(rec)
  /\ clobbered' = (clobbered \/ Fresh(match) # Fresh(q.base))
  /\ IF q.op \in {"join", "resign"} THEN Becomes(q, "saved", q.base) ELSE Done(q)
  /\ reports' = IF q.op \in {"move", "claim"} /\ Over(rec) THEN Append(reports, Result(rec.winner, rec.moves)) ELSE reports
  /\ UNCHANGED <<pages, clockSet, faults, warranted>>

Notified(q) ==
  /\ q.stage = "saved" /\ q.op = "resign"
  /\ reports' = Append(reports, Result(1 - q.seat, q.base.moves))
  /\ Done(q)
  /\ UNCHANGED <<match, pages, clockSet, faults, warranted, clobbered>>

\* The page persists its key only now; a page that has been closed never does.
Joined(q) ==
  /\ q.stage = "saved" /\ q.op = "join"
  /\ Done(q) /\ held' = held \cup {q.device}
  /\ UNCHANGED <<match, visited, clockSet, faults, told, clobbered>>

-----------------------------------------------------------------------------
(* Failures, and time.                                                     *)

\* A request or a join's answer is lost, the page that joins is closed, or notifying
\* the opponent throws.
LoseRequest(q) ==
  /\ q.stage \in {"sent", "saved"} /\ faults < MaxFaults
  /\ Done(q) /\ faults' = faults + 1
  /\ UNCHANGED <<match, pages, clockSet, told, clobbered>>

Restart ==
  /\ faults < MaxFaults /\ requests # {}
  /\ requests' = {} /\ faults' = faults + 1
  /\ UNCHANGED <<match, pages, clockSet, told, clobbered>>

\* The clock of the player to move runs out: a day, or the tournament's minutes.
Tick ==
  /\ match # NoMatch /\ ~match.lapsed
  /\ match' = [match EXCEPT !.lapsed = TRUE]
  /\ warranted' = IF IsOpen(match) THEN warranted ELSE warranted \cup {1 - Turn(match)}
  /\ UNCHANGED <<requests, pages, clockSet, faults, reports, clobbered>>

Receive == \E q \in requests : Load(q)
Finish == \E q \in requests : Save(q) \/ Notified(q) \/ Joined(q)

Next ==
  \/ Create \/ AttachToTournament \/ Receive \/ Finish \/ Restart \/ Tick
  \/ \E q \in requests : LoseRequest(q)
  \/ \E d \in Friends : Visit(d)
  \/ \E d \in Devices : Claim(d) \/ Leave(d) \/ \E house \in Houses : Play(d, house)

Spec == Init /\ [][Next]_cvars

\* The server answers, time goes by, and the creator comes back to move or to claim;
\* strongly, for the bound on requests is the model's and not the server's.
FairSpec ==
  /\ Spec /\ WF_cvars(Tick) /\ WF_cvars(Receive) /\ WF_cvars(Finish)
  /\ SF_cvars(Claim(Creator) \/ \E house \in Houses : Play(Creator, house))

-----------------------------------------------------------------------------
(* Properties.                                                             *)

Keys == {Nobody} \cup Devices
Moves == BoundedSeq(Houses, MaxPly)
Matches ==
  [keys : Keys \X Keys, moves : Moves, winner : 0 .. 3, lapsed : BOOLEAN, short : BOOLEAN]

ASSUME NoMatchAssumption == NoMatch \notin Matches

\* The record is one the service can rehydrate: the stored outcome of a finished
\* sequence of moves is the engine's, and nobody has moved in an open match.
TypeOK ==
  /\ match \in Matches \cup {NoMatch}
  /\ held \subseteq Devices /\ visited \subseteq Friends
  /\ match # NoMatch =>
       /\ match.moves # <<>> /\ Finished(match.moves) => match.winner = Outcome(match.moves)
       /\ IsOpen(match) /\ ~clobbered => match.moves = <<>>

\* Whatever overlaps, is lost, retried or undone, a result that reaches the ratings is
\* the engine's, or goes to the opponent of a player who chose to leave or who let his
\* clock run out in a game that had been joined (resign, claimTimeout, reportResult).
ResultWarranted ==
  \A i \in DOMAIN reports :
    LET moves == reports[i].moves IN
    IF moves # <<>> /\ Finished(moves) THEN reports[i].winner = Outcome(moves)
    ELSE reports[i].winner \in warranted

\* Requests that do not undo one another report a game once, and exactly when it
\* ends, a resignation whose notification failed aside.
ReportedOnce ==
  ~clobbered =>
    /\ Len(reports) <= 1
    /\ reports # <<>> => Over(match) /\ match.winner = reports[1].winner /\ match.moves = reports[1].moves
    /\ match # NoMatch /\ Over(match) /\ reports = <<>> =>
         faults > 0 \/ \E q \in requests : q.stage = "saved"

\* Requests that do not undo one another only add: moves are never taken back, an end
\* stays, and a seat once taken keeps its key.
RecordOnlyGrows ==
  [][match # NoMatch /\ ~clobbered' =>
       /\ IsPrefix(match.moves, match'.moves)
       /\ Over(match) => match'.winner = match.winner /\ match'.moves = match.moves
       /\ ~IsOpen(match) => match'.keys = match.keys
       /\ match.short => match'.short]_cvars

\* As long as no save undoes another, a key is persisted only for a seat it opens, and
\* a taken seat's key is persisted or its page still waits for the answer, unless the
\* answer was lost (AsyncMatch joins first and persists after).
SeatHeld ==
  ~clobbered =>
    /\ held \subseteq (IF match = NoMatch THEN {} ELSE ToSet(match.keys))
    /\ match # NoMatch /\ faults = 0 =>
         \A key \in ToSet(match.keys) \ {Nobody} :
           key \in held \/ \E q \in requests : q.stage = "saved" /\ q.device = key

\* However the friend behaves, and whatever is lost or undone, the creator can bring
\* a game that somebody joined to its end.
EveryGameEnds == []<>(match = NoMatch \/ IsOpen(match) \/ Over(match))

\* What overlapping requests leave behind is a game somebody played: its results are
\* warranted, reported once, and its seats have their keys.
RecordInv ==
  /\ TypeOK
  /\ ResultWarranted
  /\ ReportedOnce
  /\ SeatHeld
=============================================================================
