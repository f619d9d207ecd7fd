--------------------------- MODULE Correspondence_proofs ---------------------------
(***************************************************************************)
(* What the record of a correspondence game keeps, for any number of       *)
(* requests under way, moves, devices and failures.                        *)
(*                                                                         *)
(* Two saves that read the same record undo one another.  Until that has   *)
(* happened the record fits every request that has read it, and tells who  *)
(* sits where and what has been reported; what it was when a request read  *)
(* it stays enough for the results to be warranted afterwards.             *)
(***************************************************************************)
EXTENDS Correspondence, SequenceTheorems, TLAPS

Ops == {"join", "move", "claim", "resign", "clock"}
Reqs == [stage : {"sent", "loaded", "saved"}, op : Ops, device : Devices, house : Houses \cup {"none"},
         seat : 0 .. 2, ply : Nat, base : Matches \cup {NoMatch}]
Results == [winner : 0 .. 3, moves : Moves]
Ended(moves) == moves # <<>> /\ Finished(moves)

\* A record as the service keeps it, and whom its clock entitles.
Shape(m) ==
  /\ m \in Matches
  /\ m.keys[1] = Creator /\ m.keys[2] \in {Nobody} \cup Friends
  /\ Ended(m.moves) => m.winner = Outcome(m.moves)
Entitled(m, winners) == m.lapsed /\ ~IsOpen(m) => 1 - Turn(m) \in winners
Sound(m, winners) == Shape(m) /\ Entitled(m, winners)

Parts ==
  /\ match = NoMatch \/ Sound(match, warranted)
  /\ held \subseteq Devices /\ visited \subseteq Friends
  /\ faults \in Nat /\ clobbered \in BOOLEAN
  /\ reports \in Seq(Results)
  /\ match = NoMatch => requests = {} /\ held = {} /\ reports = <<>>

\* A request whose fields fit its operation.
Proper(q) ==
  /\ q \in Reqs
  /\ q.op = "join" => q.device \in Friends
  /\ q.op = "move" => q.house \in Houses
  /\ q.op \in {"move", "claim", "resign"} => q.seat \in {0, 1}

\* What it is about to do was asked for, and fits the record it has read.
Asked(q, winners) ==
  /\ Proper(q)
  /\ q.op = "resign" => 1 - q.seat \in winners
  /\ q.stage = "saved" => q.op \in {"join", "resign"}
  /\ q.stage # "sent" => Sound(q.base, winners) /\ Accepts(q, q.base)

AskedFor == \A q \in requests : Asked(q, warranted)

Warranted(x, winners) ==
  IF Ended(x.moves) THEN x.winner = Outcome(x.moves) ELSE x.winner \in winners
ReportsOK == \A i \in DOMAIN reports : Warranted(reports[i], warranted)

Resigned(Q) == {q \in Q : q.stage = "saved" /\ q.op = "resign"}
Joins(Q) == {q \in Q : q.stage = "saved" /\ q.op = "join"}

\* As long as no save has undone another, the record m tells who sits where ...
Seating(m, Q, keyed, fault) ==
  /\ m # NoMatch =>
       /\ IsOpen(m) => m.moves = <<>> /\ ~Over(m)
       /\ Creator \in keyed /\ keyed \subseteq {m.keys[1], m.keys[2]}
       /\ m.keys[2] # Nobody /\ fault = 0 =>
            m.keys[2] \in keyed \/ \E q \in Joins(Q) : q.device = m.keys[2]
  /\ \A q \in Joins(Q) : m.keys[2] = q.device
  /\ \A q \in Q : q.op \in {"move", "claim", "resign"} => ~IsOpen(m)

\* ... and what has been reported or is about to be.
Reporting(m, Q, list, fault) ==
  /\ m # NoMatch /\ Over(m) /\ list = <<>> /\ fault = 0 => Resigned(Q) # {}
  /\ \A q \in Resigned(Q) :
       list = <<>> /\ Over(m) /\ m.winner = 1 - q.seat /\ m.moves = q.base.moves
  /\ \A q, r \in Resigned(Q) : q = r
  /\ Len(list) <= 1
  /\ list # <<>> => Over(m) /\ m.winner = list[1].winner /\ m.moves = list[1].moves

InOrder == Seating(match, requests, held, faults) /\ Reporting(match, requests, reports, faults)

CInv == Parts /\ AskedFor /\ ReportsOK /\ (~clobbered => InOrder)

-----------------------------------------------------------------------------
(* The record.                                                             *)

LEMMA Bounds == /\ MaxPly \in Nat \ {0} /\ MaxFaults \in Nat /\ Creator \notin Friends
                /\ Nobody # Creator /\ Nobody \notin Friends /\ NoMatch \notin Matches
BY BoundsAssumption, NoMatchAssumption

LEMMA RecordIs ==
  ASSUME NEW m \in Matches
  PROVE  /\ m.keys = <<m.keys[1], m.keys[2]>> /\ m.keys[1] \in Keys /\ m.keys[2] \in Keys
         /\ m.moves \in Moves /\ m.winner \in 0 .. 3 /\ m.lapsed \in BOOLEAN /\ m.short \in BOOLEAN
         /\ ToSet(m.keys) = {m.keys[1], m.keys[2]}
<1>1. m.keys \in Keys \X Keys
  BY DEF Matches
<1>2. PICK a \in Keys, b \in Keys : m.keys = <<a, b>>
  BY <1>1
<1>3. DOMAIN m.keys = {1, 2}
  BY <1>2
<1>4. ToSet(m.keys) = {m.keys[1], m.keys[2]}
  BY <1>3 DEF ToSet
<1>5. m.keys = <<m.keys[1], m.keys[2]>> /\ m.keys[1] \in Keys /\ m.keys[2] \in Keys
  BY <1>2
<1> QED
  BY <1>4, <1>5 DEF Matches

LEMMA MovesAre ==
  ASSUME NEW s \in Moves
  PROVE  s \in Seq(Houses) /\ Len(s) \in Nat /\ Len(s) <= MaxPly /\ (s = <<>> <=> Len(s) = 0)
<1>1. PICK n \in 0 .. MaxPly : s \in [1 .. n -> Houses]
  BY DEF Moves, BoundedSeq, SeqOf
<1>2. n \in Nat /\ n <= MaxPly /\ s \in Seq(Houses)
  BY <1>1, Bounds
<1>3. Len(s) = n
  BY <1>1, <1>2
<1> QED
  BY <1>2, <1>3, EmptySeq

LEMMA OneMore ==
  ASSUME NEW s \in Moves, Len(s) < MaxPly, NEW h \in Houses
  PROVE  /\ Append(s, h) \in Moves /\ Append(s, h) # <<>> /\ Len(Append(s, h)) = Len(s) + 1
         /\ IsPrefix(s, Append(s, h))
<1>1. s \in Seq(Houses) /\ Len(s) \in Nat
  BY MovesAre
<1>2. /\ Append(s, h) \in Seq(Houses) /\ Append(s, h) # <<>> /\ Len(Append(s, h)) = Len(s) + 1
      /\ Append(s, h) = s \o <<h>>
  BY <1>1, AppendProperties, AppendIsConcat
<1>3. Append(s, h) \in [1 .. Len(s) + 1 -> Houses] /\ Len(s) + 1 \in 0 .. MaxPly
  <2>1. \A t \in Seq(Houses) : t \in [1 .. Len(t) -> Houses]
    OBVIOUS
  <2>2. Append(s, h) \in [1 .. Len(Append(s, h)) -> Houses]
    BY <1>2, <2>1
  <2>3. Append(s, h) \in [1 .. Len(s) + 1 -> Houses]
    BY <1>2, <2>2
  <2>4. Len(s) + 1 \in 0 .. MaxPly
    BY <1>1, Bounds
  <2> QED
    BY <2>3, <2>4
<1>4. Append(s, h) \in Moves
  BY <1>3 DEF Moves, BoundedSeq, SeqOf
<1>5. SubSeq(s, 1, Len(s)) = SubSeq(Append(s, h), 1, Len(s))
  <2>1. <<h>> \in Seq(Houses)
    OBVIOUS
  <2>2. Len(s) \in (1 - 1) .. Len(s) /\ 1 \in 1 .. Len(s) + 1
    BY <1>1
  <2> QED
    BY <1>1, <1>2, <2>1, <2>2, SubSeqOfConcat1
<1> QED
  BY <1>1, <1>2, <1>4, <1>5 DEF IsPrefix

LEMMA SamePrefix == ASSUME NEW s \in Moves PROVE IsPrefix(s, s)
BY MovesAre DEF IsPrefix

LEMMA Winners ==
  /\ \A s \in Moves : s # <<>> => Outcome(s) \in 0 .. 2
  /\ \A m \in Matches : Turn(m) \in {0, 1} /\ 1 - Turn(m) \in {0, 1}
<1>1. ASSUME NEW s \in Moves, s # <<>> PROVE Outcome(s) \in 0 .. 2
  <2>1. Len(s) - 1 \in Nat
    BY <1>1, MovesAre
  <2> QED
    BY <2>1 DEF Outcome, Draw
<1>2. ASSUME NEW m \in Matches PROVE Turn(m) \in {0, 1} /\ 1 - Turn(m) \in {0, 1}
  <2>1. Len(m.moves) \in Nat
    BY RecordIs, MovesAre
  <2>2. \A n \in Nat : n % 2 \in {0, 1}
    OBVIOUS
  <2>3. Turn(m) \in {0, 1}
    BY <2>1, <2>2 DEF Turn
  <2> QED
    BY <2>3
<1> QED
  BY <1>1, <1>2

\* There is room for a move, and nothing has ended the moves so far.
LEMMA Playing ==
  ASSUME NEW m, Shape(m), ~Over(m)
  PROVE  Len(m.moves) < MaxPly /\ ~Ended(m.moves)
<1>1. m \in Matches /\ m.moves \in Moves /\ m.winner = 3
  BY RecordIs DEF Shape, Over, None
<1>2. ~Ended(m.moves)
  BY <1>1, Winners DEF Shape, Ended
<1>3. Len(m.moves) \in Nat
  BY <1>1, MovesAre
<1> QED
  BY <1>1, <1>2, <1>3, MovesAre, Bounds DEF Ended, Finished

-----------------------------------------------------------------------------
(* What a request makes of the record.                                     *)

After(q, m) == Fresh(Derived(q, m))

LEMMA JoinIs ==
  ASSUME NEW q, Proper(q), NEW m, Shape(m), Accepts(q, m), q.op = "join"
  PROVE  LET r == After(q, m) IN
         /\ Shape(r) /\ r.lapsed = FALSE /\ IsOpen(m) /\ r.keys[2] = q.device
         /\ r.moves = m.moves /\ r.winner = m.winner /\ r.short = m.short
<1>0. PICK r : r = After(q, m)
  OBVIOUS
<1>1. m \in Matches /\ q.device \in Friends /\ q.device \in Keys
  BY DEF Shape, Proper, Keys, Devices
<1>2. Derived(q, m) = [m EXCEPT !.keys[2] = q.device]
  BY DEF Derived
<1>3. PICK a, b : m.keys = <<a, b>> /\ a \in Keys /\ b \in Keys /\ a = m.keys[1]
  BY <1>1, RecordIs
<1>4. [m.keys EXCEPT ![2] = q.device] = <<a, q.device>> /\ <<a, q.device>> \in Keys \X Keys
  BY <1>1, <1>3
<1>5. PICK k : k = <<a, q.device>>
  OBVIOUS
<1>6. r = [[m EXCEPT !.keys = k] EXCEPT !.lapsed = FALSE]
  BY <1>0, <1>2, <1>4, <1>5 DEF After, Fresh
<1>7. k \in Keys \X Keys /\ k[1] = a /\ k[2] = q.device
  BY <1>4, <1>5
<1>8. /\ r \in Matches /\ r.keys = k /\ r.moves = m.moves /\ r.winner = m.winner
      /\ r.short = m.short /\ r.lapsed = FALSE
  BY <1>1, <1>6, <1>7 DEF Matches
<1> QED
  BY <1>0, <1>1, <1>3, <1>7, <1>8 DEF Shape, Accepts

LEMMA MoveIs ==
  ASSUME NEW q, Proper(q), NEW m, Shape(m), Accepts(q, m), q.op = "move"
  PROVE  LET r == After(q, m) IN
         /\ Shape(r) /\ r.lapsed = FALSE /\ ~Over(m) /\ r.keys = m.keys /\ r.short = m.short
         /\ IsPrefix(m.moves, r.moves) /\ (Over(r) => Ended(r.moves))
         /\ Derived(q, m).winner = r.winner /\ Derived(q, m).moves = r.moves
<1>0. PICK r : r = After(q, m)
  OBVIOUS
<1>1. m \in Matches /\ q.house \in Houses /\ ~Over(m)
  BY DEF Shape, Proper, Accepts
<1>2. PICK s : s = Append(m.moves, q.house)
  OBVIOUS
<1>3. s \in Moves /\ s # <<>> /\ IsPrefix(m.moves, s)
  BY <1>1, <1>2, Playing, RecordIs, OneMore
<1>4. PICK w : w = IF Finished(s) THEN Outcome(s) ELSE None
  OBVIOUS
<1>5. w \in 0 .. 3 /\ (Ended(s) => w = Outcome(s)) /\ (w # None => Ended(s))
  <2>1. Outcome(s) \in 0 .. 2
    BY <1>3, Winners
  <2> QED
    BY <1>3, <1>4, <2>1 DEF None, Ended
<1>6. Derived(q, m) = [m EXCEPT !.moves = s, !.winner = w]
  BY <1>2, <1>4 DEF Derived, Moved
<1>7. r = [[m EXCEPT !.moves = s, !.winner = w] EXCEPT !.lapsed = FALSE]
  BY <1>0, <1>6 DEF After, Fresh
<1>8. /\ r \in Matches /\ r.keys = m.keys /\ r.moves = s /\ r.winner = w
      /\ r.short = m.short /\ r.lapsed = FALSE
  BY <1>1, <1>3, <1>5, <1>7 DEF Matches
<1>9. Derived(q, m).winner = w /\ Derived(q, m).moves = s
  BY <1>1, <1>6 DEF Matches
<1> QED
  BY <1>0, <1>1, <1>3, <1>5, <1>8, <1>9 DEF Shape, Over

\* A game is given up, or taken from a player out of time.
LEMMA EndIs ==
  ASSUME NEW q, Proper(q), NEW m, Shape(m), Accepts(q, m), q.op \in {"claim", "resign"}
  PROVE  LET r == After(q, m) IN
         /\ Shape(r) /\ r.lapsed = FALSE /\ ~Over(m) /\ ~IsOpen(m) /\ r.keys = m.keys
         /\ r.moves = m.moves /\ r.short = m.short /\ ~Ended(m.moves) /\ Over(r)
         /\ Derived(q, m).winner = r.winner /\ Derived(q, m).moves = r.moves
         /\ q.op = "resign" => r.winner = 1 - q.seat
         /\ q.op = "claim" => r.winner = 1 - Turn(m) /\ m.lapsed
<1>0. PICK r : r = After(q, m)
  OBVIOUS
<1>1. m \in Matches /\ q.seat \in {0, 1} /\ ~Over(m) /\ ~IsOpen(m) /\ (q.op = "claim" => m.lapsed)
  BY DEF Shape, Proper, Accepts
<1>2. PICK w : w = IF q.op = "resign" THEN 1 - q.seat ELSE 1 - Turn(m)
  OBVIOUS
<1>3. w \in {0, 1}
  BY <1>1, <1>2, Winners
<1>4. Derived(q, m) = [m EXCEPT !.winner = w]
  BY <1>2 DEF Derived, Forfeit
<1>5. r = [[m EXCEPT !.winner = w] EXCEPT !.lapsed = FALSE]
  BY <1>0, <1>4 DEF After, Fresh
<1>6. /\ r \in Matches /\ r.keys = m.keys /\ r.moves = m.moves /\ r.winner = w
      /\ r.short = m.short /\ r.lapsed = FALSE
  <2>1. w \in 0 .. 3
    BY <1>3
  <2> QED
    BY <1>1, <1>5, <2>1 DEF Matches
<1>7. Derived(q, m).winner = w /\ Derived(q, m).moves = m.moves
  BY <1>1, <1>4 DEF Matches
<1>8. ~Ended(m.moves)
  BY <1>1, Playing
<1> QED
  BY <1>0, <1>1, <1>2, <1>3, <1>6, <1>7, <1>8 DEF Shape, Over, None

\* A tournament's clock leaves the game alone.
LEMMA ClockIs ==
  ASSUME NEW q, Proper(q), NEW m, Shape(m), Accepts(q, m), q.op = "clock"
  PROVE  /\ Shape(After(q, m)) /\ After(q, m).lapsed = FALSE /\ After(q, m).keys = m.keys
         /\ After(q, m).moves = m.moves /\ After(q, m).winner = m.winner
<1>0. PICK r : r = After(q, m)
  OBVIOUS
<1>1. r = [[m EXCEPT !.short = TRUE] EXCEPT !.lapsed = FALSE] /\ m \in Matches
  BY <1>0 DEF After, Derived, Fresh, Shape
<1>2. /\ r \in Matches /\ r.keys = m.keys /\ r.moves = m.moves /\ r.winner = m.winner
      /\ r.lapsed = FALSE
  BY <1>1 DEF Matches
<1> QED
  BY <1>0, <1>2 DEF Shape

LEMMA ClockShort ==
  ASSUME NEW q, NEW m, Shape(m), q.op = "clock"
  PROVE  After(q, m).short
<1>1. After(q, m) = [[m EXCEPT !.short = TRUE] EXCEPT !.lapsed = FALSE] /\ m \in Matches
  BY DEF After, Derived, Fresh, Shape
<1> QED
  BY <1>1 DEF Matches

\* A record with its clock afresh is the same game.
LEMMA SameGame ==
  ASSUME NEW m \in Matches, NEW b \in Matches, Fresh(m) = Fresh(b)
  PROVE  m.keys = b.keys /\ m.moves = b.moves /\ m.winner = b.winner /\ m.short = b.short
<1>1. \A x \in Matches : /\ Fresh(x).keys = x.keys /\ Fresh(x).moves = x.moves
                         /\ Fresh(x).winner = x.winner /\ Fresh(x).short = x.short
  BY DEF Fresh, Matches
<1> QED
  BY <1>1

-----------------------------------------------------------------------------
(* The requests.                                                           *)

LEMMA MoreWinners ==
  ASSUME NEW v, NEW w, v \subseteq w
  PROVE  /\ \A m : Sound(m, v) => Sound(m, w)
         /\ \A q : Asked(q, v) => Asked(q, w)
         /\ \A x : Warranted(x, v) => Warranted(x, w)
BY DEF Sound, Entitled, Asked, Warranted

LEMMA Types ==
  ASSUME CInv
  PROVE  /\ match = NoMatch \/ Sound(match, warranted)
         /\ match # NoMatch => match \in Matches /\ Shape(match)
         /\ \A q \in requests : Asked(q, warranted) /\ Proper(q) /\ match # NoMatch
         /\ reports \in Seq(Results) /\ Len(reports) \in Nat
BY DEF CInv, Parts, AskedFor, Asked, Sound, Shape

Restaged(q, stage, base) == [q EXCEPT !.stage = stage, !.base = base]

LEMMA RequestIs ==
  ASSUME NEW q, Proper(q), NEW st \in {"sent", "loaded", "saved"}, NEW b \in Matches \cup {NoMatch},
         NEW n, n = Restaged(q, st, b)
  PROVE  /\ Proper(n) /\ n.stage = st /\ n.base = b /\ n.op = q.op /\ n.seat = q.seat /\ n.device = q.device
         /\ \A m : Accepts(q, m) => Accepts(n, m)
<1>1. q \in Reqs
  BY DEF Proper
<1>2. /\ n \in Reqs /\ n.stage = st /\ n.base = b /\ n.op = q.op /\ n.seat = q.seat
      /\ n.device = q.device /\ n.house = q.house /\ n.ply = q.ply
  BY <1>1 DEF Reqs, Restaged
<1>3. Proper(n)
  BY <1>2 DEF Proper
<1>4. \A m : Accepts(q, m) => Accepts(n, m)
  BY <1>2 DEF Accepts, Signed
<1> QED
  BY <1>2, <1>3, <1>4

\* Requests come, are read or are turned away: nothing that is saved changes.
LEMMA QuietKeeps ==
  ASSUME CInv, UNCHANGED <<match, held, reports, faults, clobbered>>, match # NoMatch,
         warranted \subseteq warranted', visited' \subseteq Friends,
         AskedFor', Resigned(requests') = Resigned(requests), Joins(requests') = Joins(requests),
         ~clobbered => \A q \in requests' : q.op \in {"move", "claim", "resign"} => ~IsOpen(match)
  PROVE  CInv'
<1>1. Parts'
  BY MoreWinners DEF CInv, Parts
<1>2. ReportsOK'
  BY MoreWinners DEF CInv, ReportsOK
<1>3. ~clobbered' => InOrder'
  <2> SUFFICES ASSUME ~clobbered PROVE InOrder'
    OBVIOUS
  <2>1. Seating(match, requests, held, faults) /\ Reporting(match, requests, reports, faults)
    BY DEF CInv, InOrder
  <2>2. Seating(match, requests', held, faults)
    BY <2>1 DEF Seating
  <2>3. Reporting(match, requests', reports, faults)
    BY <2>1 DEF Reporting
  <2> QED
    BY <2>2, <2>3 DEF InOrder
<1> QED
  BY <1>1, <1>2, <1>3 DEF CInv

LEMMA SendKeeps ==
  ASSUME CInv, NEW op \in Ops, NEW d \in Devices, NEW house \in Houses \cup {"none"}, Send(op, d, house),
         op = "join" => d \in Friends, op = "move" => house \in Houses,
         op \in {"move", "claim", "resign"} => Seated(d),
         warranted \subseteq warranted', op = "resign" => 1 - Role(match, d) \in warranted',
         visited' \subseteq Friends
  PROVE  CInv'
<1>1. PICK q : /\ q = [stage |-> "sent", op |-> op, device |-> d, house |-> house, seat |-> Role(match, d),
                       ply |-> Len(match.moves), base |-> NoMatch]
               /\ match # NoMatch /\ requests' = requests \cup {q}
               /\ UNCHANGED <<match, held, faults, reports, clobbered>>
  BY DEF Send
<1>2. Len(match.moves) \in Nat
  BY <1>1, Types, RecordIs, MovesAre
<1>3. Role(match, d) \in 0 .. 2 /\ (Role(match, d) # 2 => Role(match, d) \in {0, 1})
  BY DEF Role, NoSeat
<1>4. q \in Reqs
  BY <1>1, <1>2, <1>3 DEF Reqs
<1>5. /\ q.op = op /\ q.seat = Role(match, d) /\ q.device = d /\ q.house = house /\ q.stage = "sent"
  BY <1>1
<1>6. op \in {"move", "claim", "resign"} => Role(match, d) \in {0, 1} /\ ~IsOpen(match)
  BY <1>3 DEF Seated, NoSeat
<1>7. Asked(q, warranted')
  BY <1>4, <1>5, <1>6 DEF Asked, Proper
<1>8. AskedFor'
  BY <1>1, <1>7, Types, MoreWinners DEF AskedFor
<1>9. Resigned(requests') = Resigned(requests) /\ Joins(requests') = Joins(requests)
  BY <1>1, <1>5 DEF Resigned, Joins
<1>10. ~clobbered => \A r \in requests' : r.op \in {"move", "claim", "resign"} => ~IsOpen(match)
  BY <1>1, <1>5, <1>6 DEF CInv, InOrder, Seating
<1> QED
  BY <1>1, <1>8, <1>9, <1>10, QuietKeeps

LEMMA PagesKeep ==
  ASSUME CInv, \/ \E d \in Friends : Visit(d)
               \/ \E d \in Devices : Claim(d) \/ Leave(d) \/ \E house \in Houses : Play(d, house)
               \/ AttachToTournament
  PROVE  CInv'
<1>0. visited \subseteq Friends /\ Creator \in Devices /\ Friends \subseteq Devices
  BY DEF CInv, Parts, Devices
<1>1. ASSUME NEW d \in Friends, Visit(d) PROVE CInv'
  <2>1. Send("join", d, "none") /\ visited' = visited \cup {d} /\ warranted' = warranted
    BY <1>1 DEF Visit
  <2>2. "join" \in Ops /\ "none" \in Houses \cup {"none"} /\ d \in Devices /\ visited' \subseteq Friends
    BY <1>0, <1>1, <2>1 DEF Ops
  <2> QED
    BY <1>1, <2>1, <2>2, SendKeeps
<1>2. ASSUME NEW d \in Devices, NEW house \in Houses, Play(d, house) PROVE CInv'
  <2>1. Send("move", d, house) /\ UNCHANGED <<visited, warranted>> /\ Seated(d) /\ "move" \in Ops
    BY <1>2 DEF Play, Ops
  <2> QED
    BY <1>0, <1>2, <2>1, SendKeeps
<1>3. ASSUME NEW d \in Devices, Claim(d) PROVE CInv'
  <2>1. Send("claim", d, "none") /\ UNCHANGED <<visited, warranted>> /\ Seated(d) /\ "claim" \in Ops
    BY <1>3 DEF Claim, Ops
  <2>2. "none" \in Houses \cup {"none"}
    OBVIOUS
  <2> QED
    BY <1>0, <1>3, <2>1, <2>2, SendKeeps
<1>4. ASSUME NEW d \in Devices, Leave(d) PROVE CInv'
  <2>1. /\ Send("resign", d, "none") /\ UNCHANGED visited /\ Seated(d) /\ "resign" \in Ops
        /\ warranted' = warranted \cup {1 - Role(match, d)}
    BY <1>4 DEF Leave, Ops
  <2>2. "none" \in Houses \cup {"none"}
    OBVIOUS
  <2> QED
    BY <1>0, <1>4, <2>1, <2>2, SendKeeps
<1>5. ASSUME AttachToTournament PROVE CInv'
  <2>1. Send("clock", Creator, "none") /\ UNCHANGED <<visited, warranted>> /\ "clock" \in Ops
    BY <1>5 DEF AttachToTournament, Ops
  <2>2. "none" \in Houses \cup {"none"}
    OBVIOUS
  <2> QED
    BY <1>0, <2>1, <2>2, SendKeeps
<1> QED
  BY <1>1, <1>2, <1>3, <1>4, <1>5

LEMMA LoadKeeps == ASSUME CInv, NEW q \in requests, Load(q) PROVE CInv'
<1>1. /\ q.stage = "sent" /\ match # NoMatch /\ Proper(q) /\ Asked(q, warranted)
      /\ UNCHANGED <<match, held, reports, faults, clobbered, visited, warranted>>
  BY Types DEF Load, pages, told
<1>2. visited' \subseteq Friends
  BY <1>1 DEF CInv, Parts
<1>3. CASE Accepts(q, match)
  <2>1. PICK n : n = Restaged(q, "loaded", match)
    OBVIOUS
  <2>2. requests' = (requests \ {q}) \cup {n}
    BY <1>3, <2>1 DEF Load, Becomes, Restaged
  <2>0. match \in Matches \cup {NoMatch} /\ "loaded" \in {"sent", "loaded", "saved"}
    BY <1>1, Types
  <2>3. /\ Proper(n) /\ n.stage = "loaded" /\ n.base = match /\ n.op = q.op /\ n.seat = q.seat
        /\ Accepts(n, match)
    BY <1>1, <1>3, <2>0, <2>1, RequestIs
  <2>4. Asked(n, warranted')
    BY <1>1, <2>3, Types DEF Asked
  <2>5. AskedFor'
    BY <1>1, <2>2, <2>4, Types DEF AskedFor
  <2>6. Resigned(requests') = Resigned(requests) /\ Joins(requests') = Joins(requests)
    BY <1>1, <2>2, <2>3 DEF Resigned, Joins
  <2>7. ~clobbered => \A r \in requests' : r.op \in {"move", "claim", "resign"} => ~IsOpen(match)
    BY <2>2, <2>3 DEF CInv, InOrder, Seating
  <2> QED
    BY <1>1, <1>2, <2>5, <2>6, <2>7, QuietKeeps
<1>4. CASE ~Accepts(q, match)
  <2>1. requests' = requests \ {q}
    BY <1>4 DEF Load, Done
  <2>2. AskedFor' /\ Resigned(requests') = Resigned(requests) /\ Joins(requests') = Joins(requests)
    BY <1>1, <2>1, Types DEF AskedFor, Resigned, Joins
  <2>3. ~clobbered => \A r \in requests' : r.op \in {"move", "claim", "resign"} => ~IsOpen(match)
    BY <2>1 DEF CInv, InOrder, Seating
  <2> QED
    BY <1>1, <1>2, <2>2, <2>3, QuietKeeps
<1> QED
  BY <1>3, <1>4

\* A request is gone, or all of them: somebody may wait for an answer for ever.
LEMMA GoneKeeps ==
  ASSUME CInv, requests' \subseteq requests, requests # {}, faults' = faults + 1,
         UNCHANGED <<match, held, visited, reports, warranted, clobbered>>
  PROVE  CInv'
<1>1. match # NoMatch /\ faults \in Nat /\ faults' \in Nat /\ faults' # 0
  BY Types DEF CInv, Parts
<1>2. Parts'
  BY <1>1 DEF CInv, Parts
<1>3. AskedFor' /\ ReportsOK'
  BY DEF CInv, AskedFor, ReportsOK
<1>4. ~clobbered' => InOrder'
  <2> SUFFICES ASSUME ~clobbered PROVE InOrder'
    OBVIOUS
  <2>1. Seating(match, requests, held, faults) /\ Reporting(match, requests, reports, faults)
    BY DEF CInv, InOrder
  <2>2. Joins(requests') \subseteq Joins(requests) /\ Resigned(requests') \subseteq Resigned(requests)
    BY DEF Joins, Resigned
  <2>3. Seating(match, requests', held, faults')
    BY <1>1, <2>1, <2>2 DEF Seating
  <2>4. Reporting(match, requests', reports, faults')
    BY <1>1, <2>1, <2>2 DEF Reporting
  <2> QED
    BY <2>3, <2>4 DEF InOrder
<1> QED
  BY <1>2, <1>3, <1>4 DEF CInv

LEMMA JoinedKeeps == ASSUME CInv, NEW q \in requests, Joined(q) PROVE CInv'
<1>1. /\ q \in Joins(requests) /\ requests' = requests \ {q} /\ held' = held \cup {q.device}
      /\ UNCHANGED <<match, visited, faults, reports, warranted, clobbered>>
  BY DEF Joined, Joins, Done, told
<1>2. match # NoMatch /\ q.device \in Devices
  BY Types DEF Proper, Reqs
<1>3. Parts'
  BY <1>1, <1>2 DEF CInv, Parts
<1>4. AskedFor' /\ ReportsOK'
  BY <1>1 DEF CInv, AskedFor, ReportsOK
<1>5. ~clobbered' => InOrder'
  <2> SUFFICES ASSUME ~clobbered PROVE InOrder'
    BY <1>1
  <2>1. Seating(match, requests, held, faults) /\ Reporting(match, requests, reports, faults)
    BY DEF CInv, InOrder
  <2>2. Joins(requests') = Joins(requests) \ {q} /\ Resigned(requests') = Resigned(requests)
    BY <1>1 DEF Joins, Resigned
  <2>3. Seating(match, requests', held', faults)
    BY <1>1, <2>1, <2>2 DEF Seating
  <2>4. Reporting(match, requests', reports, faults)
    BY <1>1, <2>1, <2>2 DEF Reporting
  <2> QED
    BY <1>1, <2>3, <2>4 DEF InOrder
<1> QED
  BY <1>3, <1>4, <1>5 DEF CInv

\* A result is one of the match, and is reported after the others.
LEMMA ReportIs ==
  ASSUME CInv, NEW w \in 0 .. 3, NEW s \in Moves, Warranted(Result(w, s), warranted)
  PROVE  LET list == Append(reports, Result(w, s)) IN
         /\ list \in Seq(Results) /\ list # <<>> /\ Len(list) = Len(reports) + 1
         /\ \A i \in DOMAIN list : ReportsOK => Warranted(list[i], warranted)
         /\ reports = <<>> => list[1].winner = w /\ list[1].moves = s
<1>1. Result(w, s) \in Results /\ Result(w, s).winner = w /\ Result(w, s).moves = s
  BY DEF Result, Results
<1>2. PICK x : x = Result(w, s)
  OBVIOUS
<1>3. reports \in Seq(Results)
  BY Types
<1>4. /\ Append(reports, x) \in Seq(Results) /\ Append(reports, x) # <<>>
      /\ Len(Append(reports, x)) = Len(reports) + 1
      /\ \A i \in 1 .. Len(reports) : Append(reports, x)[i] = reports[i]
      /\ Append(reports, x)[Len(reports) + 1] = x
  BY <1>1, <1>2, <1>3, AppendProperties
<1>5. ASSUME NEW i \in DOMAIN Append(reports, x), ReportsOK PROVE Warranted(Append(reports, x)[i], warranted)
  <2>1. i \in 1 .. Len(reports) \/ i = Len(reports) + 1
    BY <1>3, <1>4
  <2> QED
    BY <1>2, <1>3, <1>4, <1>5, <2>1 DEF ReportsOK
<1>6. reports = <<>> => Append(reports, x)[1] = x
  BY <1>4
<1> QED
  BY <1>1, <1>2, <1>4, <1>5, <1>6

LEMMA NotifiedKeeps == ASSUME CInv, NEW q \in requests, Notified(q) PROVE CInv'
<1>1. /\ q \in Resigned(requests) /\ requests' = requests \ {q}
      /\ reports' = Append(reports, Result(1 - q.seat, q.base.moves))
      /\ UNCHANGED <<match, held, visited, faults, warranted, clobbered>>
  BY DEF Notified, Resigned, Done, pages
<1>2. /\ match # NoMatch /\ Shape(q.base) /\ Accepts(q, q.base) /\ q.op = "resign" /\ q.stage = "saved"
      /\ q.seat \in {0, 1} /\ 1 - q.seat \in warranted
  BY <1>1, Types DEF Asked, Sound, Proper, Resigned
<1>3. ~Over(q.base) /\ q.base.moves \in Moves /\ 1 - q.seat \in 0 .. 3
  BY <1>2, RecordIs DEF Accepts, Shape
<1>4. ~Ended(q.base.moves)
  BY <1>2, <1>3, Playing
<1>5. PICK w, s : w = 1 - q.seat /\ s = q.base.moves
  OBVIOUS
<1>6. Warranted(Result(w, s), warranted)
  BY <1>2, <1>4, <1>5 DEF Warranted, Result
<1>7. /\ reports' \in Seq(Results) /\ reports' # <<>> /\ Len(reports') = Len(reports) + 1
      /\ \A i \in DOMAIN reports' : ReportsOK => Warranted(reports'[i], warranted)
      /\ reports = <<>> => reports'[1].winner = w /\ reports'[1].moves = s
  BY <1>1, <1>3, <1>5, <1>6, ReportIs
<1>8. Parts'
  BY <1>1, <1>2, <1>7 DEF CInv, Parts
<1>9. AskedFor' /\ ReportsOK'
  BY <1>1, <1>7 DEF CInv, AskedFor, ReportsOK
<1>10. ~clobbered' => InOrder'
  <2> SUFFICES ASSUME ~clobbered PROVE InOrder'
    BY <1>1
  <2>1. Seating(match, requests, held, faults) /\ Reporting(match, requests, reports, faults)
    BY DEF CInv, InOrder
  <2>2. Joins(requests') = Joins(requests) /\ Resigned(requests') = Resigned(requests) \ {q}
    BY <1>1 DEF Joins, Resigned
  <2>3. Seating(match, requests', held, faults)
    BY <1>1, <2>1, <2>2 DEF Seating
  <2>4. reports = <<>> /\ Over(match) /\ match.winner = w /\ match.moves = s
    BY <1>1, <1>5, <2>1 DEF Reporting
  <2>5. Len(reports') <= 1
    BY <1>7, <2>4
  <2>6. Resigned(requests') = {}
    BY <1>1, <2>1, <2>2 DEF Reporting
  <2>7. Reporting(match, requests', reports', faults)
    BY <1>7, <2>4, <2>5, <2>6 DEF Reporting
  <2> QED
    BY <1>1, <2>3, <2>7 DEF InOrder
<1> QED
  BY <1>8, <1>9, <1>10 DEF CInv

LEMMA CreateKeeps == ASSUME CInv, Create PROVE CInv'
<1>1. /\ match' = NewMatch /\ held' = {Creator} /\ requests = {} /\ reports = <<>>
      /\ UNCHANGED <<requests, visited, faults, reports, warranted, clobbered>>
  BY DEF Create, told, CInv, Parts
<1>2. PICK n : n = NewMatch
  OBVIOUS
<1>3. <<>> \in Moves
  <2>1. 0 \in 0 .. MaxPly /\ <<>> \in [1 .. 0 -> Houses]
    BY Bounds
  <2> QED
    BY <2>1 DEF Moves, BoundedSeq, SeqOf
<1>4. /\ n \in Matches /\ n.keys = <<Creator, Nobody>> /\ n.moves = <<>> /\ n.winner = None
      /\ n.lapsed = FALSE
  BY <1>2, <1>3 DEF NewMatch, Matches, Keys, Devices, None
<1>5. n.keys[1] = Creator /\ n.keys[2] = Nobody /\ ~Over(n)
  BY <1>4 DEF Over
<1>6. Sound(n, warranted) /\ n # NoMatch
  BY <1>4, <1>5, Bounds DEF Sound, Shape, Entitled, Ended
<1>7. Parts'
  BY <1>1, <1>2, <1>6 DEF CInv, Parts, Devices
<1>8. AskedFor' /\ ReportsOK'
  BY <1>1 DEF CInv, AskedFor, ReportsOK
<1>9. Seating(n, {}, {Creator}, faults) /\ Reporting(n, {}, <<>>, faults)
  BY <1>4, <1>5 DEF Seating, Reporting, Joins, Resigned
<1> QED
  BY <1>1, <1>2, <1>7, <1>8, <1>9 DEF CInv, InOrder

LEMMA TickKeeps == ASSUME CInv, Tick PROVE CInv'
<1>1. /\ match # NoMatch /\ match' = [match EXCEPT !.lapsed = TRUE]
      /\ warranted' = (IF IsOpen(match) THEN warranted ELSE warranted \cup {1 - Turn(match)})
      /\ UNCHANGED <<requests, held, visited, faults, reports, clobbered>>
  BY DEF Tick, pages
<1>2. PICK n : n = match'
  OBVIOUS
<1>3. /\ n \in Matches /\ n.keys = match.keys /\ n.moves = match.moves /\ n.winner = match.winner
  BY <1>1, <1>2, Types DEF Matches
<1>4. Sound(n, warranted') /\ n # NoMatch /\ warranted \subseteq warranted'
  BY <1>1, <1>3, Types, Bounds DEF Sound, Shape, Entitled, IsOpen, Turn
<1>5. Parts' /\ AskedFor' /\ ReportsOK'
  BY <1>1, <1>2, <1>4, MoreWinners DEF CInv, Parts, AskedFor, ReportsOK
<1>6. ~clobbered' => InOrder'
  <2> SUFFICES ASSUME ~clobbered PROVE InOrder'
    BY <1>1
  <2>1. Seating(match, requests, held, faults) /\ Reporting(match, requests, reports, faults)
    BY DEF CInv, InOrder
  <2>2. Seating(n, requests, held, faults)
    BY <1>1, <1>3, <2>1 DEF Seating, IsOpen, Over
  <2>3. Reporting(n, requests, reports, faults)
    BY <1>1, <1>3, <2>1 DEF Reporting, Over
  <2> QED
    BY <1>1, <1>2, <2>2, <2>3 DEF InOrder
<1> QED
  BY <1>5, <1>6 DEF CInv

-----------------------------------------------------------------------------
(* The saves.                                                              *)

\* What every save starts from: the record r it writes, and the base b it read.
LEMMA SaveIs ==
  ASSUME CInv, NEW q \in requests, Save(q), NEW b, b = q.base, NEW r, r = After(q, b)
  PROVE  /\ q.stage = "loaded" /\ match' = r /\ match # NoMatch /\ match \in Matches /\ Shape(match)
         /\ UNCHANGED <<held, visited, faults, warranted>>
         /\ Sound(b, warranted) /\ Shape(b) /\ Accepts(q, b) /\ Proper(q)
         /\ ~clobbered' => /\ ~clobbered /\ match.keys = b.keys /\ match.moves = b.moves
                           /\ match.winner = b.winner /\ match.short = b.short
<1>1. /\ q.stage = "loaded" /\ match' = r /\ clobbered' = (clobbered \/ Fresh(match) # Fresh(b))
      /\ UNCHANGED <<held, visited, faults, warranted>>
  BY DEF Save, pages, After
<1>2. match # NoMatch /\ match \in Matches /\ Shape(match) /\ Asked(q, warranted) /\ Proper(q)
  BY Types
<1>3. Sound(b, warranted) /\ Shape(b) /\ Accepts(q, b)
  BY <1>1, <1>2 DEF Asked, Sound
<1>4. b \in Matches
  BY <1>3 DEF Shape
<1> QED
  BY <1>1, <1>2, <1>3, <1>4, SameGame

LEMMA SavedParts ==
  ASSUME CInv, NEW r, Shape(r), r.lapsed = FALSE, match' = r, clobbered' \in BOOLEAN,
         UNCHANGED <<held, visited, faults, warranted>>, reports' \in Seq(Results),
         \A i \in DOMAIN reports' : Warranted(reports'[i], warranted),
         \A n \in requests' : Asked(n, warranted)
  PROVE  Parts' /\ AskedFor' /\ ReportsOK'
<1>1. Sound(r, warranted) /\ r # NoMatch
  BY Bounds DEF Sound, Entitled, Shape
<1> QED
  BY <1>1 DEF CInv, Parts, AskedFor, ReportsOK

LEMMA SavedIs ==
  ASSUME CInv, NEW q \in requests, Save(q), q.op \in {"join", "resign"},
         NEW n, n = Restaged(q, "saved", q.base)
  PROVE  /\ requests' = (requests \ {q}) \cup {n} /\ Asked(n, warranted) /\ reports' = reports
         /\ n.stage = "saved" /\ n.op = q.op /\ n.device = q.device /\ n.seat = q.seat /\ n.base = q.base
<1>1. requests' = (requests \ {q}) \cup {n} /\ reports' = reports
  BY DEF Save, Becomes, Restaged
<1>2. PICK b : b = q.base
  OBVIOUS
<1>3. /\ Sound(b, warranted) /\ Accepts(q, b) /\ Proper(q) /\ b \in Matches \cup {NoMatch}
      /\ Asked(q, warranted)
  BY <1>2, SaveIs, Types DEF Shape
<1>4. "saved" \in {"sent", "loaded", "saved"}
  OBVIOUS
<1>5. /\ Proper(n) /\ n.stage = "saved" /\ n.base = b /\ n.op = q.op /\ n.seat = q.seat
      /\ n.device = q.device /\ Accepts(n, b)
  BY <1>2, <1>3, <1>4, RequestIs
<1> QED
  BY <1>1, <1>2, <1>3, <1>5 DEF Asked

LEMMA JoinKeeps == ASSUME CInv, NEW q \in requests, Save(q), q.op = "join" PROVE CInv'
<1>1. PICK b, r, n : b = q.base /\ r = After(q, b) /\ n = Restaged(q, "saved", q.base)
  OBVIOUS
<1>2. /\ q.stage = "loaded" /\ match' = r /\ match # NoMatch /\ Shape(match)
      /\ UNCHANGED <<held, visited, faults, warranted>> /\ Shape(b) /\ Accepts(q, b) /\ Proper(q)
      /\ ~clobbered' => ~clobbered /\ match.keys = b.keys /\ match.moves = b.moves /\ match.winner = b.winner
  BY <1>1, SaveIs
<1>3. /\ Shape(r) /\ r.lapsed = FALSE /\ IsOpen(b) /\ r.keys[2] = q.device
      /\ r.moves = b.moves /\ r.winner = b.winner
  <2>1. r = After(q, b) /\ Shape(b) /\ Accepts(q, b) /\ Proper(q)
    BY <1>1, <1>2
  <2> QED
    BY <2>1, JoinIs
<1>4. /\ requests' = (requests \ {q}) \cup {n} /\ Asked(n, warranted) /\ reports' = reports
      /\ n.stage = "saved" /\ n.op = "join" /\ n.device = q.device
  BY <1>1, SavedIs
<1>5. \A x \in requests' : Asked(x, warranted)
  BY <1>4, Types
<1>6. reports' \in Seq(Results) /\ \A i \in DOMAIN reports' : Warranted(reports'[i], warranted)
  BY <1>4, Types DEF CInv, ReportsOK
<1>7. clobbered' \in BOOLEAN
  BY DEF Save
<1>8. ~clobbered' => InOrder'
  <2> SUFFICES ASSUME ~clobbered' PROVE InOrder'
    OBVIOUS
  <2>1. Seating(match, requests, held, faults) /\ Reporting(match, requests, reports, faults)
    BY <1>2 DEF CInv, InOrder
  <2>2. IsOpen(match) /\ match.moves = <<>> /\ ~Over(match) /\ match.keys[2] = Nobody
    BY <1>2, <1>3, <2>1 DEF IsOpen, Seating
  <2>3. q.device \in Friends /\ q.device # Nobody /\ ~IsOpen(r) /\ ~Over(r)
    BY <1>2, <1>3, <2>2, Bounds DEF Proper, IsOpen, Over
  <2>4. Joins(requests) = {} /\ Resigned(requests) = {} /\ reports = <<>>
    <3>1. \A x \in Joins(requests) : FALSE
      <4> SUFFICES ASSUME NEW x \in Joins(requests) PROVE FALSE
        OBVIOUS
      <4>1. x.device = Nobody /\ x \in requests /\ x.op = "join"
        BY <2>1, <2>2 DEF Seating, Joins
      <4> QED
        BY <4>1, Types, Bounds DEF Proper
    <3> QED
      BY <2>1, <2>2, <3>1 DEF Reporting
  <2>5. Joins(requests') = {n} /\ Resigned(requests') = {}
    <3>1. \A x : x \in Joins(requests') <=> x = n
      BY <1>2, <1>4, <2>4 DEF Joins
    <3>2. \A x : x \notin Resigned(requests')
      BY <1>4, <2>4 DEF Resigned
    <3> QED
      BY <3>1, <3>2
  <2>6. held \subseteq Devices /\ Creator \in held /\ held \subseteq {match.keys[1], Nobody} /\ match.keys[1] = Creator
        /\ r.keys[1] = Creator
    BY <1>2, <1>3, <2>1, <2>2 DEF CInv, Parts, Shape, Seating
  <2>7. held \subseteq {Creator}
    BY <2>6, Bounds DEF Devices
  <2>8. Seating(r, requests', held, faults)
    BY <1>3, <1>4, <2>3, <2>5, <2>6, <2>7 DEF Seating
  <2>9. Reporting(r, requests', reports, faults)
    BY <2>1, <2>3, <2>4, <2>5 DEF Reporting
  <2> QED
    BY <1>2, <1>4, <2>8, <2>9 DEF InOrder
<1>9. Parts' /\ AskedFor' /\ ReportsOK'
  BY <1>2, <1>3, <1>5, <1>6, <1>7, SavedParts
<1> QED
  BY <1>8, <1>9 DEF CInv

\* What changes the game finds it under way, with nothing to tell yet.
LEMMA UnderWay ==
  ASSUME Seating(match, requests, held, faults), Reporting(match, requests, reports, faults),
         NEW b, match.winner = b.winner, ~Over(b)
  PROVE  ~Over(match) /\ Resigned(requests) = {} /\ reports = <<>>
BY DEF Over, Reporting

\* The seats of a record with the same keys, in a game that has been joined.
LEMMA SeatsKeep ==
  ASSUME Seating(match, requests, held, faults), NEW Q, NEW r, match # NoMatch, r.keys = match.keys,
         Joins(Q) = Joins(requests), ~IsOpen(match)
  PROVE  Seating(r, Q, held, faults)
BY DEF Seating, IsOpen

LEMMA MoveKeeps == ASSUME CInv, NEW q \in requests, Save(q), q.op = "move" PROVE CInv'
<1>1. PICK b, r : b = q.base /\ r = After(q, b)
  OBVIOUS
<1>2. /\ q.stage = "loaded" /\ match' = r /\ match # NoMatch
      /\ UNCHANGED <<held, visited, faults, warranted>> /\ Shape(b) /\ Accepts(q, b) /\ Proper(q)
      /\ ~clobbered' => ~clobbered /\ match.keys = b.keys /\ match.moves = b.moves /\ match.winner = b.winner
  BY <1>1, SaveIs
<1>3. /\ Shape(r) /\ r.lapsed = FALSE /\ ~Over(b) /\ r.keys = b.keys /\ (Over(r) => Ended(r.moves))
      /\ Derived(q, b).winner = r.winner /\ Derived(q, b).moves = r.moves
  <2>1. r = After(q, b) /\ Shape(b) /\ Accepts(q, b) /\ Proper(q)
    BY <1>1, <1>2
  <2> QED
    BY <2>1, MoveIs
<1>4. /\ requests' = requests \ {q}
      /\ reports' = IF Over(r) THEN Append(reports, Result(r.winner, r.moves)) ELSE reports
  BY <1>1, <1>3 DEF Save, Done, Over
<1>5. \A x \in requests' : Asked(x, warranted)
  BY <1>4, Types
<1>6. PICK w, s : w = r.winner /\ s = r.moves
  OBVIOUS
<1>7. w \in 0 .. 3 /\ s \in Moves /\ (Over(r) => Warranted(Result(w, s), warranted))
  BY <1>3, <1>6, RecordIs DEF Shape, Warranted, Result
<1>8. /\ reports' \in Seq(Results) /\ \A i \in DOMAIN reports' : Warranted(reports'[i], warranted)
      /\ Over(r) => /\ reports' # <<>> /\ Len(reports') = Len(reports) + 1
                    /\ reports = <<>> => reports'[1].winner = w /\ reports'[1].moves = s
  <2>1. ReportsOK /\ reports \in Seq(Results)
    BY Types DEF CInv
  <2>2. CASE Over(r)
    BY <1>4, <1>6, <1>7, <2>1, <2>2, ReportIs
  <2>3. CASE ~Over(r)
    BY <1>4, <2>1, <2>3 DEF ReportsOK
  <2> QED
    BY <2>2, <2>3
<1>9. clobbered' \in BOOLEAN
  BY DEF Save
<1>10. ~clobbered' => InOrder'
  <2> SUFFICES ASSUME ~clobbered' PROVE InOrder'
    OBVIOUS
  <2>1. Seating(match, requests, held, faults) /\ Reporting(match, requests, reports, faults)
    BY <1>2 DEF CInv, InOrder
  <2>2. ~Over(match) /\ Resigned(requests) = {} /\ reports = <<>>
    BY <1>2, <1>3, <2>1, UnderWay
  <2>3. ~IsOpen(match) /\ r.keys = match.keys
    BY <1>2, <1>3, <2>1 DEF Seating
  <2>4. Joins(requests') = Joins(requests) /\ Resigned(requests') = {}
    BY <1>2, <1>4, <2>2 DEF Joins, Resigned
  <2>5. Seating(r, requests', held, faults)
    BY <1>2, <2>1, <2>3, <2>4, SeatsKeep
  <2>6. Reporting(r, requests', reports', faults)
    <3>1. CASE Over(r)
      <4>1. Len(reports') <= 1
        <5>1. Len(reports) = 0 /\ Len(reports') = Len(reports) + 1
          BY <1>8, <2>2, <3>1
        <5> QED
          BY <5>1
      <4> QED
        BY <1>6, <1>8, <2>2, <2>4, <3>1, <4>1 DEF Reporting
    <3>2. CASE ~Over(r)
      BY <1>4, <2>1, <2>2, <2>4, <3>2 DEF Reporting
    <3> QED
      BY <3>1, <3>2
  <2> QED
    BY <1>2, <2>5, <2>6 DEF InOrder
<1>11. Parts' /\ AskedFor' /\ ReportsOK'
  BY <1>2, <1>3, <1>5, <1>8, <1>9, SavedParts
<1> QED
  BY <1>10, <1>11 DEF CInv

LEMMA ClaimKeeps == ASSUME CInv, NEW q \in requests, Save(q), q.op = "claim" PROVE CInv'
<1>1. PICK b, r : b = q.base /\ r = After(q, b)
  OBVIOUS
<1>2. /\ q.stage = "loaded" /\ match' = r /\ match # NoMatch
      /\ UNCHANGED <<held, visited, faults, warranted>>
      /\ Shape(b) /\ Entitled(b, warranted) /\ Accepts(q, b) /\ Proper(q)
      /\ ~clobbered' => ~clobbered /\ match.keys = b.keys /\ match.moves = b.moves /\ match.winner = b.winner
  BY <1>1, SaveIs DEF Sound
<1>3. /\ Shape(r) /\ r.lapsed = FALSE /\ ~Over(b) /\ ~IsOpen(b) /\ r.keys = b.keys /\ Over(r)
      /\ r.moves = b.moves /\ ~Ended(b.moves) /\ r.winner = 1 - Turn(b) /\ b.lapsed
      /\ Derived(q, b).winner = r.winner /\ Derived(q, b).moves = r.moves
  <2>1. r = After(q, b) /\ Shape(b) /\ Accepts(q, b) /\ Proper(q) /\ q.op \in {"claim", "resign"}
    BY <1>1, <1>2
  <2> QED
    BY <2>1, EndIs
<1>4. requests' = requests \ {q} /\ reports' = Append(reports, Result(r.winner, r.moves))
  BY <1>1, <1>3 DEF Save, Done, Over
<1>5. \A x \in requests' : Asked(x, warranted)
  BY <1>4, Types
<1>6. PICK w, s : w = r.winner /\ s = r.moves
  OBVIOUS
<1>7. w \in 0 .. 3 /\ s \in Moves /\ Warranted(Result(w, s), warranted)
  BY <1>2, <1>3, <1>6, RecordIs DEF Shape, Warranted, Result, Entitled
<1>8. /\ reports' \in Seq(Results) /\ \A i \in DOMAIN reports' : Warranted(reports'[i], warranted)
      /\ reports' # <<>> /\ Len(reports') = Len(reports) + 1
      /\ reports = <<>> => reports'[1].winner = w /\ reports'[1].moves = s
  <2>1. ReportsOK
    BY DEF CInv
  <2> QED
    BY <1>4, <1>6, <1>7, <2>1, ReportIs
<1>9. clobbered' \in BOOLEAN
  BY DEF Save
<1>10. ~clobbered' => InOrder'
  <2> SUFFICES ASSUME ~clobbered' PROVE InOrder'
    OBVIOUS
  <2>1. Seating(match, requests, held, faults) /\ Reporting(match, requests, reports, faults)
    BY <1>2 DEF CInv, InOrder
  <2>2. ~Over(match) /\ Resigned(requests) = {} /\ reports = <<>>
    BY <1>2, <1>3, <2>1, UnderWay
  <2>3. ~IsOpen(match) /\ r.keys = match.keys
    BY <1>2, <1>3, <2>1 DEF Seating
  <2>4. Joins(requests') = Joins(requests) /\ Resigned(requests') = {}
    BY <1>2, <1>4, <2>2 DEF Joins, Resigned
  <2>5. Seating(r, requests', held, faults)
    BY <1>2, <2>1, <2>3, <2>4, SeatsKeep
  <2>6. Len(reports) = 0 /\ Len(reports') = Len(reports) + 1
    BY <1>8, <2>2
  <2>7. Len(reports') <= 1
    BY <2>6
  <2>8. Reporting(r, requests', reports', faults)
    BY <1>3, <1>6, <1>8, <2>2, <2>4, <2>7 DEF Reporting
  <2> QED
    BY <1>2, <2>5, <2>8 DEF InOrder
<1>11. Parts' /\ AskedFor' /\ ReportsOK'
  BY <1>2, <1>3, <1>5, <1>8, <1>9, SavedParts
<1> QED
  BY <1>10, <1>11 DEF CInv

LEMMA ResignKeeps == ASSUME CInv, NEW q \in requests, Save(q), q.op = "resign" PROVE CInv'
<1>1. PICK b, r, n : b = q.base /\ r = After(q, b) /\ n = Restaged(q, "saved", q.base)
  OBVIOUS
<1>2. /\ q.stage = "loaded" /\ match' = r /\ match # NoMatch
      /\ UNCHANGED <<held, visited, faults, warranted>> /\ Shape(b) /\ Accepts(q, b) /\ Proper(q)
      /\ ~clobbered' => ~clobbered /\ match.keys = b.keys /\ match.moves = b.moves /\ match.winner = b.winner
  BY <1>1, SaveIs
<1>3. /\ Shape(r) /\ r.lapsed = FALSE /\ ~Over(b) /\ ~IsOpen(b) /\ r.keys = b.keys /\ Over(r)
      /\ r.moves = b.moves /\ r.winner = 1 - q.seat
  <2>1. r = After(q, b) /\ Shape(b) /\ Accepts(q, b) /\ Proper(q) /\ q.op \in {"claim", "resign"}
    BY <1>1, <1>2
  <2> QED
    BY <2>1, EndIs
<1>4. /\ requests' = (requests \ {q}) \cup {n} /\ Asked(n, warranted) /\ reports' = reports
      /\ n.stage = "saved" /\ n.op = "resign" /\ n.seat = q.seat /\ n.base = b
  BY <1>1, SavedIs
<1>5. \A x \in requests' : Asked(x, warranted)
  BY <1>4, Types
<1>6. reports' \in Seq(Results) /\ \A i \in DOMAIN reports' : Warranted(reports'[i], warranted)
  BY <1>4, Types DEF CInv, ReportsOK
<1>7. clobbered' \in BOOLEAN
  BY DEF Save
<1>8. ~clobbered' => InOrder'
  <2> SUFFICES ASSUME ~clobbered' PROVE InOrder'
    OBVIOUS
  <2>1. Seating(match, requests, held, faults) /\ Reporting(match, requests, reports, faults)
    BY <1>2 DEF CInv, InOrder
  <2>2. ~Over(match) /\ Resigned(requests) = {} /\ reports = <<>>
    BY <1>2, <1>3, <2>1, UnderWay
  <2>3. ~IsOpen(match) /\ r.keys = match.keys
    BY <1>2, <1>3, <2>1 DEF Seating
  <2>4. Joins(requests') = Joins(requests)
    BY <1>2, <1>4 DEF Joins
  <2>5. Resigned(requests') = {n}
    <3>1. \A x : x \in Resigned(requests') <=> x = n
      BY <1>4, <2>2 DEF Resigned
    <3> QED
      BY <3>1
  <2>6. Seating(r, requests', held, faults)
    BY <1>2, <2>1, <2>3, <2>4, SeatsKeep
  <2>7. Reporting(r, requests', reports, faults)
    BY <1>3, <1>4, <2>1, <2>2, <2>5 DEF Reporting
  <2> QED
    BY <1>2, <1>4, <2>6, <2>7 DEF InOrder
<1>9. Parts' /\ AskedFor' /\ ReportsOK'
  BY <1>2, <1>3, <1>5, <1>6, <1>7, SavedParts
<1> QED
  BY <1>8, <1>9 DEF CInv

LEMMA ClockKeeps == ASSUME CInv, NEW q \in requests, Save(q), q.op = "clock" PROVE CInv'
<1>1. PICK b, r : b = q.base /\ r = After(q, b)
  OBVIOUS
<1>2. /\ q.stage = "loaded" /\ match' = r /\ match # NoMatch
      /\ UNCHANGED <<held, visited, faults, warranted>> /\ Shape(b) /\ Accepts(q, b) /\ Proper(q)
      /\ ~clobbered' => ~clobbered /\ match.keys = b.keys /\ match.moves = b.moves /\ match.winner = b.winner
  BY <1>1, SaveIs
<1>3. /\ Shape(r) /\ r.lapsed = FALSE /\ r.keys = b.keys /\ r.moves = b.moves /\ r.winner = b.winner
  <2>1. r = After(q, b) /\ Shape(b) /\ Accepts(q, b) /\ Proper(q) /\ q.op = "clock"
    BY <1>1, <1>2
  <2> QED
    BY <2>1, ClockIs
<1>4. requests' = requests \ {q} /\ reports' = reports
  BY DEF Save, Done
<1>5. \A x \in requests' : Asked(x, warranted)
  BY <1>4, Types
<1>6. reports' \in Seq(Results) /\ \A i \in DOMAIN reports' : Warranted(reports'[i], warranted)
  BY <1>4, Types DEF CInv, ReportsOK
<1>7. clobbered' \in BOOLEAN
  BY DEF Save
<1>8. ~clobbered' => InOrder'
  <2> SUFFICES ASSUME ~clobbered' PROVE InOrder'
    OBVIOUS
  <2>1. Seating(match, requests, held, faults) /\ Reporting(match, requests, reports, faults)
    BY <1>2 DEF CInv, InOrder
  <2>2. r.keys = match.keys /\ r.moves = match.moves /\ r.winner = match.winner
    BY <1>2, <1>3
  <2>3. Joins(requests') = Joins(requests) /\ Resigned(requests') = Resigned(requests)
    BY <1>2, <1>4 DEF Joins, Resigned
  <2>4. Seating(r, requests', held, faults)
    BY <1>2, <1>4, <2>1, <2>2, <2>3 DEF Seating, IsOpen, Over
  <2>5. Reporting(r, requests', reports, faults)
    BY <1>2, <2>1, <2>2, <2>3 DEF Reporting, Over
  <2> QED
    BY <1>2, <1>4, <2>4, <2>5 DEF InOrder
<1>9. Parts' /\ AskedFor' /\ ReportsOK'
  BY <1>2, <1>3, <1>5, <1>6, <1>7, SavedParts
<1> QED
  BY <1>8, <1>9 DEF CInv

-----------------------------------------------------------------------------
(* The theorems.                                                           *)

LEMMA InitHolds == Init => CInv
<1> SUFFICES ASSUME Init PROVE CInv
  OBVIOUS
<1>1. /\ match = NoMatch /\ requests = {} /\ visited = {} /\ held = {} /\ faults = 0 /\ reports = <<>>
      /\ warranted = {} /\ clobbered = FALSE
  BY DEF Init
<1>2. reports \in Seq(Results) /\ DOMAIN reports = {}
  BY <1>1
<1>4. Parts /\ AskedFor /\ ReportsOK
  BY <1>1, <1>2 DEF Parts, AskedFor, ReportsOK
<1>3. Seating(match, {}, {}, 0) /\ Reporting(match, {}, <<>>, 0)
  BY <1>1 DEF Seating, Reporting, Joins, Resigned
<1> QED
  BY <1>1, <1>3, <1>4 DEF CInv, InOrder

LEMMA StepKeeps == CInv /\ [Next]_cvars => CInv'
<1> SUFFICES ASSUME CInv, [Next]_cvars PROVE CInv'
  OBVIOUS
<1>1. ASSUME NEW q \in requests, Save(q) PROVE CInv'
  <2>1. q.op \in Ops
    BY Types DEF Proper, Reqs
  <2> QED
    BY <1>1, <2>1, JoinKeeps, MoveKeeps, ClaimKeeps, ResignKeeps, ClockKeeps DEF Ops
<1>2. ASSUME NEW q \in requests, LoseRequest(q) PROVE CInv'
  <2>1. /\ requests' \subseteq requests /\ requests # {} /\ faults' = faults + 1
        /\ UNCHANGED <<match, held, visited, reports, warranted, clobbered>>
    BY <1>2 DEF LoseRequest, Done, pages, told
  <2> QED
    BY <2>1, GoneKeeps
<1>3. ASSUME Restart PROVE CInv'
  <2>1. /\ requests' \subseteq requests /\ requests # {} /\ faults' = faults + 1
        /\ UNCHANGED <<match, held, visited, reports, warranted, clobbered>>
    BY <1>3 DEF Restart, pages, told
  <2> QED
    BY <2>1, GoneKeeps
<1>4. ASSUME UNCHANGED cvars PROVE CInv'
  BY <1>4 DEF cvars, pages, told, CInv, Parts, AskedFor, ReportsOK, InOrder
<1> QED
  BY <1>1, <1>2, <1>3, <1>4, CreateKeeps, PagesKeep, LoadKeeps, NotifiedKeeps, JoinedKeeps, TickKeeps
     DEF Next, Receive, Finish

LEMMA InvSays == CInv => RecordInv
<1> SUFFICES ASSUME CInv PROVE RecordInv
  OBVIOUS
<1>1. TypeOK
  <2>1. match \in Matches \cup {NoMatch} /\ held \subseteq Devices /\ visited \subseteq Friends
    BY Types DEF CInv, Parts
  <2>2. ASSUME match # NoMatch, match.moves # <<>>, Finished(match.moves)
        PROVE  match.winner = Outcome(match.moves)
    BY <2>2, Types DEF Shape, Ended
  <2>3. ASSUME match # NoMatch, IsOpen(match), ~clobbered PROVE match.moves = <<>>
    BY <2>3 DEF CInv, InOrder, Seating
  <2> QED
    BY <2>1, <2>2, <2>3 DEF TypeOK
<1>2. ResultWarranted
  BY DEF CInv, ReportsOK, Warranted, Ended, ResultWarranted
<1>3. ReportedOnce
  <2> SUFFICES ASSUME ~clobbered
               PROVE  /\ Len(reports) <= 1
                      /\ reports # <<>> => Over(match) /\ match.winner = reports[1].winner
                                           /\ match.moves = reports[1].moves
                      /\ match # NoMatch /\ Over(match) /\ reports = <<>> =>
                           faults > 0 \/ \E q \in requests : q.stage = "saved"
    BY DEF ReportedOnce
  <2>1. Reporting(match, requests, reports, faults)
    BY DEF CInv, InOrder
  <2>2. faults \in Nat /\ (Resigned(requests) # {} => \E q \in requests : q.stage = "saved")
    BY DEF CInv, Parts, Resigned
  <2> QED
    BY <2>1, <2>2 DEF Reporting
<1>4. SeatHeld
  <2> SUFFICES ASSUME ~clobbered
               PROVE  /\ held \subseteq (IF match = NoMatch THEN {} ELSE ToSet(match.keys))
                      /\ match # NoMatch /\ faults = 0 =>
                           \A key \in ToSet(match.keys) \ {Nobody} :
                             key \in held \/ \E q \in requests : q.stage = "saved" /\ q.device = key
    BY DEF SeatHeld
  <2>1. Seating(match, requests, held, faults)
    BY DEF CInv, InOrder
  <2>2. match = NoMatch => held = {}
    BY DEF CInv, Parts
  <2>3. match # NoMatch => ToSet(match.keys) = {match.keys[1], match.keys[2]} /\ match.keys[1] = Creator
    BY Types, RecordIs DEF Shape
  <2> QED
    BY <2>1, <2>2, <2>3 DEF Seating, Joins
<1> QED
  BY <1>1, <1>2, <1>3, <1>4 DEF RecordInv

\* However requests for one game overlap, are lost, retried or undone, the record is a
\* game that was played: its results are warranted, reported once while no save undoes
\* another, and a taken seat has its key (async-match.ts).
THEOREM RecordHolds == Spec => []RecordInv
<1>1. Spec => []CInv
  BY InitHolds, StepKeeps, PTL DEF Spec
<1> QED
  BY <1>1, InvSays, PTL

\* What a step makes of a record when no save undoes another.
Grows ==
  match # NoMatch /\ ~clobbered' =>
    /\ IsPrefix(match.moves, match'.moves)
    /\ Over(match) => match'.winner = match.winner /\ match'.moves = match.moves
    /\ ~IsOpen(match) => match'.keys = match.keys
    /\ match.short => match'.short

LEMMA StepGrows == CInv /\ [Next]_cvars => Grows
<1> SUFFICES ASSUME CInv, [Next]_cvars, match # NoMatch, ~clobbered'
             PROVE  /\ IsPrefix(match.moves, match'.moves)
                    /\ Over(match) => match'.winner = match.winner /\ match'.moves = match.moves
                    /\ ~IsOpen(match) => match'.keys = match.keys
                    /\ match.short => match'.short
  BY DEF Grows
<1>0. match \in Matches /\ match.moves \in Moves /\ IsPrefix(match.moves, match.moves)
  BY Types, RecordIs, SamePrefix
<1>1. CASE \E q \in requests : Save(q)
  <2>1. PICK q \in requests : Save(q)
    BY <1>1
  <2>2. PICK b, r : b = q.base /\ r = After(q, b)
    OBVIOUS
  <2>3. /\ match' = r /\ Shape(b) /\ Accepts(q, b) /\ Proper(q)
        /\ match.keys = b.keys /\ match.moves = b.moves /\ match.winner = b.winner /\ match.short = b.short
    BY <2>1, <2>2, SaveIs
  <2>4. r = After(q, b) /\ Shape(b) /\ Accepts(q, b) /\ Proper(q)
    BY <2>2, <2>3
  <2>5. CASE q.op = "join"
    <3>1. IsOpen(b) /\ r.moves = b.moves /\ r.winner = b.winner /\ r.short = b.short
      BY <2>4, <2>5, JoinIs
    <3> QED
      BY <1>0, <2>3, <3>1 DEF IsOpen
  <2>6. CASE q.op = "move"
    <3>1. ~Over(b) /\ r.keys = b.keys /\ r.short = b.short /\ IsPrefix(b.moves, r.moves)
      BY <2>4, <2>6, MoveIs
    <3> QED
      BY <2>3, <3>1 DEF Over
  <2>7. CASE q.op \in {"claim", "resign"}
    <3>1. ~Over(b) /\ r.keys = b.keys /\ r.short = b.short /\ r.moves = b.moves
      BY <2>4, <2>7, EndIs
    <3> QED
      BY <1>0, <2>3, <3>1 DEF Over
  <2>8. CASE q.op = "clock"
    <3>1. r.keys = b.keys /\ r.moves = b.moves /\ r.winner = b.winner
      BY <2>4, <2>8, ClockIs
    <3>2. r.short
      BY <2>4, <2>8, ClockShort
    <3> QED
      BY <1>0, <2>3, <3>1, <3>2
  <2> QED
    BY <2>3, <2>5, <2>6, <2>7, <2>8 DEF Proper, Reqs, Ops
<1>2. CASE Tick
  <2>1. match' = [match EXCEPT !.lapsed = TRUE]
    BY <1>2 DEF Tick
  <2>2. /\ match'.keys = match.keys /\ match'.moves = match.moves /\ match'.winner = match.winner
        /\ match'.short = match.short
    BY <1>0, <2>1 DEF Matches
  <2> QED
    BY <1>0, <2>2
<1>3. CASE match' = match
  BY <1>0, <1>3
<1> QED
  BY <1>1, <1>2, <1>3 DEF Next, Create, AttachToTournament, Receive, Load, Finish, Notified, Joined, Restart,
     LoseRequest, Visit, Claim, Leave, Play, Send, cvars

\* Requests that undo no other only add to a record: no move is taken back, an end
\* stays, a seat keeps its key and a tournament its clock.
THEOREM RecordKept == Spec => RecordOnlyGrows
<1>1. Spec => []CInv
  BY InitHolds, StepKeeps, PTL DEF Spec
<1>2. CInv /\ [Next]_cvars => [match # NoMatch /\ ~clobbered' =>
         /\ IsPrefix(match.moves, match'.moves)
         /\ Over(match) => match'.winner = match.winner /\ match'.moves = match.moves
         /\ ~IsOpen(match) => match'.keys = match.keys
         /\ match.short => match'.short]_cvars
  BY StepGrows DEF Grows
<1> QED
  BY <1>1, <1>2, PTL DEF Spec, RecordOnlyGrows
=============================================================================
