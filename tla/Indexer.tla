-------------------------------- MODULE Indexer --------------------------------
(***************************************************************************)
(* The public statistics: a scan of the escrow's log, window by window,    *)
(* that falls back to the recent blocks when the node refuses, and the     *)
(* figures made of what it found (indexer/src/logs.ts and stats.ts,        *)
(* app/src/lib/stats.ts).                                                  *)
(*                                                                         *)
(* Time runs in blocks.  All stakes are in one token; the events and their *)
(* order are those of MatchEscrow.  Retention is left out.                 *)
(***************************************************************************)
EXTENDS Integers, FiniteSets, SequencesExt

CONSTANTS
  MatchIds,  \* ids, in the order of their creation
  MaxSpan,   \* MAX_LOG_SPAN (50,000)
  Recent,    \* blocks of the second scan (9,000)
  DayBlocks, \* DAY
  Stake, Rake,
  LastBlock  \* bound

ASSUME IndexerAssumption ==
  /\ {MaxSpan, Recent, DayBlocks, Stake, LastBlock} \subseteq Nat \ {0} /\ Rake \in Nat
  /\ MatchIds \subseteq Nat

VARIABLES
  height,  \* the latest block
  log,     \* the escrow's events
  phase,   \* what has become of each match
  scan     \* the indexer: what is left to read and what it has

indexVars == <<height, log, phase, scan>>

\* on: "no", "all" blocks, the "recent" ones, or "empty" for no figures.
NoScan == [on |-> "no", from |-> 0, next |-> 0, to |-> 0, found |-> <<>>]

IndexerInit ==
  /\ height = 0 /\ log = <<>> /\ scan = NoScan
  /\ phase = [m \in MatchIds |-> "none"]

-----------------------------------------------------------------------------
(* The escrow.                                                             *)

\* An event is in the block being made.
Event(type, m) == [type |-> type, match |-> m, block |-> height + 1]

Emit(m, now, types) ==
  /\ phase' = [phase EXCEPT ![m] = now]
  /\ log' = log \o [i \in DOMAIN types |-> Event(types[i], m)]
  /\ UNCHANGED <<height, scan>>

MatchCreated(m) == phase[m] = "none" /\ Emit(m, "open", <<"created">>)
MatchJoined(m) == phase[m] = "open" /\ Emit(m, "joined", <<"joined">>)
MatchCancelled(m) == phase[m] = "open" /\ Emit(m, "cancelled", <<"cancelled">>)
MatchVoided(m) == phase[m] = "joined" /\ Emit(m, "voided", <<"voided">>)

\* _settle logs the fee before the result; a draw has none.
MatchSettled(m) == phase[m] = "joined" /\ Emit(m, "won", <<"fee", "settled">>)
MatchDrawn(m) == phase[m] = "joined" /\ Emit(m, "drawn", <<"settled">>)

MineBlock == height < LastBlock /\ height' = height + 1 /\ UNCHANGED <<log, phase, scan>>

-----------------------------------------------------------------------------
(* The scan.                                                               *)

\* chunkRanges, one window at a time.
WindowEnd(start, to) == IF start + MaxSpan - 1 > to THEN to ELSE start + MaxSpan - 1

\* Slip: the last block of a window is the first of the next.
Sharing(end) == end

Beyond(end) == end + 1

Found(events, from, to) == SelectSeq(events, LAMBDA e : from <= e.block /\ e.block <= to)

\* What escrowEventsAbi names and normalise knows: not MatchCancelled.
Known(events) == SelectSeq(events, LAMBDA e : e.type # "cancelled")

\* getStats, when the page is rendered anew: up to the block of that moment.
StartScan ==
  /\ scan.on = "no"
  /\ scan' = [on |-> "all", from |-> 0, next |-> 0, to |-> height, found |-> <<>>]
  /\ UNCHANGED <<height, log, phase>>

Scanning == scan.on \in {"all", "recent"} /\ scan.next <= scan.to

ReadWindow ==
  LET end == WindowEnd(scan.next, scan.to) IN
  /\ Scanning
  /\ scan' = [scan EXCEPT !.next = Beyond(end), !.found = @ \o Known(Found(log, scan.next, end))]
  /\ UNCHANGED <<height, log, phase>>

\* The node refuses a window: once more over the recent blocks, then nothing.
WindowRefused ==
  LET from == IF scan.to > Recent THEN scan.to - Recent ELSE 0 IN
  /\ Scanning
  /\ scan' = IF scan.on = "all" THEN [scan EXCEPT !.on = "recent", !.from = from, !.next = from, !.found = <<>>]
             ELSE [NoScan EXCEPT !.on = "empty"]
  /\ UNCHANGED <<height, log, phase>>

IndexerNext ==
  \/ \E m \in MatchIds :
       MatchCreated(m) \/ MatchJoined(m) \/ MatchCancelled(m) \/ MatchVoided(m) \/ MatchSettled(m) \/ MatchDrawn(m)
  \/ MineBlock \/ StartScan \/ ReadWindow \/ WindowRefused

-----------------------------------------------------------------------------
(* computeStats.                                                           *)

CountOf(events, type) == Len(SelectSeq(events, LAMBDA e : e.type = type))

\* The settled matches whose stake is known by then.
Priced(events) ==
  {i \in DOMAIN events : events[i].type = "settled" /\ \E k \in 1 .. i - 1 :
     events[k].type = "created" /\ events[k].match = events[i].match}

\* Who was there, and on what day: creators and joiners, all of them different players.
Touches(events) ==
  {[player |-> <<e.match, e.type>>, day |-> e.block \div DayBlocks] :
     e \in {e \in ToSet(events) : e.type \in {"created", "joined"}}}

ActivePlayers(events, days) == {t.player : t \in {t \in Touches(events) : t.day \in days}}

\* A day counts when its start is late enough.
ComputeStats(events, now) ==
  LET Since(cut) == {d \in 0 .. now \div DayBlocks : d * DayBlocks >= now - cut * DayBlocks}
      open == CountOf(events, "created") - CountOf(events, "settled") - CountOf(events, "voided") IN
  [created |-> CountOf(events, "created"), settled |-> CountOf(events, "settled"),
   voided |-> CountOf(events, "voided"), open |-> IF open > 0 THEN open ELSE 0,
   players |-> Cardinality({t.player : t \in Touches(events)}),
   dau |-> Cardinality(ActivePlayers(events, Since(1))), mau |-> Cardinality(ActivePlayers(events, Since(30))),
   volume |-> 2 * Stake * Cardinality(Priced(events)), revenue |-> Rake * CountOf(events, "fee")]

-----------------------------------------------------------------------------
(* Properties.                                                             *)

Scanned == scan.on \in {"all", "recent"} /\ scan.next > scan.to
Figures == ComputeStats(scan.found, scan.to)
Ended(ends) == Cardinality({m \in MatchIds : phase[m] \in ends})

IndexerTypeOK ==
  /\ phase \in [MatchIds -> {"none", "open", "joined", "cancelled", "voided", "won", "drawn"}]
  /\ scan.on \in {"no", "all", "recent", "empty"}
  /\ scan.next \in 0 .. scan.to + 1 /\ scan.to \in 0 .. height

\* The windows miss nothing, repeat nothing and keep the order, while the chain goes on
\* (chunkRanges, fetchEscrowEvents).
ScanExact == scan.on \in {"all", "recent"} => scan.found = Known(Found(log, scan.from, scan.next - 1))

\* The figures of a whole scan are those of the escrow, a cancelled match, whose event
\* the indexer does not name, counting as open for good.
FiguresExact ==
  Scanned /\ scan.on = "all" /\ (\A i \in DOMAIN log : log[i].block <= scan.to) =>
    /\ Figures.created = Cardinality(MatchIds) - Ended({"none"})
    /\ Figures.settled = Ended({"won", "drawn"}) /\ Figures.voided = Ended({"voided"})
    /\ Figures.open = Ended({"open", "joined", "cancelled"})
    /\ Figures.volume = 2 * Stake * Ended({"won", "drawn"})
    /\ Figures.revenue = Rake * Ended({"won"})
    /\ Figures.dau <= Figures.mau /\ Figures.mau <= Figures.players

\* A scan of the recent blocks may miss, but overstates nothing, open matches included.
RecentShort ==
  Scanned /\ scan.on = "recent" =>
    LET whole == ComputeStats(Known(Found(log, 0, scan.to)), scan.to) IN
    \A f \in DOMAIN whole : Figures[f] <= whole[f]

\* Who was active today is counted today, and nobody of the day before, but at its end.
TodayCounted ==
  Scanned /\ scan.on = "all" =>
    LET today == scan.to \div DayBlocks IN
    Figures.dau = Cardinality(ActivePlayers(scan.found, IF scan.to % DayBlocks = 0 THEN {today - 1, today} ELSE {today}))

\* The public figures are those of the log.
IndexerInv ==
  /\ IndexerTypeOK
  /\ ScanExact
  /\ FiguresExact
  /\ RecentShort
  /\ TodayCounted
=============================================================================
