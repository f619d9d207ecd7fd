----------------------------- MODULE SettledLedger -----------------------------
(***************************************************************************)
(* How settled matches are counted: the MatchSettled watcher and the       *)
(* backfill sweep of main.ts, both calling onSettled, behind the dedup     *)
(* gate of settled-ledger.ts.                                              *)
(*                                                                         *)
(* The two credits that need a read-modify-write of the store, the weekly  *)
(* league's (WeeklyLeague.recordGame) and the money board's (recordSettle),*)
(* are reduced to how often each match has been counted in each.  Matches  *)
(* are decisive (a draw skips the board) and settle within the sweep's     *)
(* lookback.  One step is what runs between two awaits.                    *)
(***************************************************************************)
EXTENDS Integers, FiniteSetsExt

CONSTANTS
  Matches,    \* matches that settle
  MaxFaults,  \* bound: failures and crashes
  Watched,    \* bound: the matches whose events the live watcher may deliver
  Step,       \* BACKFILL_STEP, blocks per getLogs
  Sweep,      \* the backfill sweep, as the one who runs onSettled
  Nothing

ASSUME LedgerAssumption ==
  /\ Watched \subseteq Matches
  /\ MaxFaults \in Nat /\ Step \in Nat \ {0}
  /\ Sweep \notin Matches
  /\ \A ids \in SUBSET Matches : ids # Nothing

\* A watcher event is handled by a call of its own, the sweep's one by one.
Callers == Matches \cup {Sweep}

VARIABLES
  height,     \* the latest mined block that settles a match
  settledAt,  \* the block a match settles in, 0 before
  seen,       \* events delivered to the watcher
  counted,    \* the ledger's ids in the store
  cache,      \* and in memory, Nothing until first used
  lastBlock,  \* the cursor in the store
  league, board,
  run,        \* onSettled in progress, by caller
  sweep,      \* backfillSettled in progress
  failures    \* how many failures and crashes there were, and of which kinds

chainvars == <<height, settledAt, seen>>
credits == <<league, board>>
vars == <<chainvars, counted, cache, lastBlock, credits, run, sweep, failures>>

Stages == {"idle", "ids", "add", "read", "loadLeague", "saveLeague", "loadBoard",
           "saveBoard", "release", "done"}
Idle == [at |-> "idle", match |-> Nothing, ids |-> {}, copy |-> Nothing]
NoSweep == [on |-> FALSE, from |-> 0, latest |-> 0, to |-> 0, todo |-> {}]

TypeOK ==
  /\ height \in Nat /\ settledAt \in [Matches -> 0 .. height + 1]
  /\ seen \subseteq Matches /\ counted \subseteq Matches
  /\ cache \in {Nothing} \cup SUBSET Matches
  /\ lastBlock \in 0 .. height
  /\ \A m \in Matches : league[m] \in Nat /\ board[m] \in Nat
  /\ run \in [Callers -> [at : Stages, match : Matches \cup {Nothing},
                          ids : SUBSET Matches,
                          copy : [Matches -> Nat] \cup {Nothing}]]
  /\ sweep \in [on : BOOLEAN, from : Nat, latest : Nat, to : Nat, todo : SUBSET Matches]
  /\ failures \in [count : 0 .. MaxFaults, kinds : SUBSET {"logs", "read", "write", "crash"}]

Zero == [m \in Matches |-> 0]

Init ==
  /\ height = 0 /\ settledAt = Zero /\ seen = {}
  /\ counted = {} /\ cache = Nothing /\ lastBlock = 0
  /\ league = Zero /\ board = Zero
  /\ run = [c \in Callers |-> Idle]
  /\ sweep = NoSweep
  /\ failures = [count |-> 0, kinds |-> {}]

\* A call of the chain or the store fails, or the process dies.
Fails(kind) ==
  /\ failures.count < MaxFaults
  /\ failures' = [count |-> failures.count + 1, kinds |-> failures.kinds \cup {kind}]

\* A match settles in the block being built.
Settle(m) ==
  /\ settledAt[m] = 0
  /\ settledAt' = [settledAt EXCEPT ![m] = height + 1]
  /\ UNCHANGED <<height, seen, counted, cache, lastBlock, credits, run, sweep, failures>>

NewBlock ==
  /\ \E m \in Matches : settledAt[m] = height + 1
  /\ height' = height + 1
  /\ UNCHANGED <<settledAt, seen, counted, cache, lastBlock, credits, run, sweep, failures>>

-----------------------------------------------------------------------------
(* onSettled and the ledger *)

Goto(c, stage) == run' = [run EXCEPT ![c].at = stage]

\* Slip: an id already in the set is claimed again.
ClaimInAgain(c, m, ids) ==
  /\ cache' = ids \cup {m}
  /\ run' = [run EXCEPT ![c] = [Idle EXCEPT !.at = "add", !.match = m]]

\* claim: the synchronous part, once ids() has answered with set ids.
ClaimIn(c, m, ids) ==
  /\ cache' = ids \cup {m}
  /\ run' = [run EXCEPT ![c] =
       [Idle EXCEPT !.at = IF m \in ids THEN "done" ELSE "add", !.match = m]]

\* onSettled(m) up to its first await: ids() answers, or starts to load.
Enter(c, m) ==
  \/ cache # Nothing /\ ClaimIn(c, m, cache)
  \/ /\ cache = Nothing
     /\ run' = [run EXCEPT ![c] = [Idle EXCEPT !.at = "ids", !.match = m, !.ids = counted]]
     /\ UNCHANGED cache

\* ids() has loaded: what it loaded becomes the cache.
IdsLoaded(c) ==
  /\ run[c].at = "ids"
  /\ ClaimIn(c, run[c].match, run[c].ids)
  /\ UNCHANGED <<chainvars, counted, lastBlock, credits, sweep, failures>>

\* The claim is stored before anything is credited.
AddCounted(c) ==
  /\ run[c].at = "add"
  /\ counted' = counted \cup {run[c].match}
  /\ Goto(c, "read")
  /\ UNCHANGED <<chainvars, cache, lastBlock, credits, sweep, failures>>

\* addCounted throws, outside onSettled's try: no release, and its caller, the
\* watcher's or the sweep, gives up.  The id stays in the cache.
AddFails(c) ==
  /\ run[c].at = "add"
  /\ run' = [run EXCEPT ![c] = Idle]
  /\ sweep' = IF c = Sweep THEN NoSweep ELSE sweep
  /\ Fails("write")
  /\ UNCHANGED <<chainvars, counted, cache, lastBlock, credits>>

\* getMatch, with its retries used up or not.
ReadMatch(c) ==
  /\ run[c].at = "read"
  /\ \/ Goto(c, "loadLeague") /\ UNCHANGED failures
     \/ Goto(c, "release") /\ Fails("read")
  /\ UNCHANGED <<chainvars, counted, cache, lastBlock, credits, sweep>>

LoadLeague(c) ==
  /\ run[c].at = "loadLeague"
  /\ run' = [run EXCEPT ![c].at = "saveLeague", ![c].copy = league]
  /\ UNCHANGED <<chainvars, counted, cache, lastBlock, credits, sweep, failures>>

SaveLeague(c) ==
  /\ run[c].at = "saveLeague"
  /\ league' = [run[c].copy EXCEPT ![run[c].match] = @ + 1]
  /\ Goto(c, "loadBoard")
  /\ UNCHANGED <<chainvars, counted, cache, lastBlock, board, sweep, failures>>

LoadBoard(c) ==
  /\ run[c].at = "loadBoard"
  /\ run' = [run EXCEPT ![c].at = "saveBoard", ![c].copy = board]
  /\ UNCHANGED <<chainvars, counted, cache, lastBlock, credits, sweep, failures>>

SaveBoard(c) ==
  /\ run[c].at = "saveBoard"
  /\ board' = [run[c].copy EXCEPT ![run[c].match] = @ + 1]
  /\ Goto(c, "done")
  /\ UNCHANGED <<chainvars, counted, cache, lastBlock, league, sweep, failures>>

\* A store operation of the two credits throws: the id is to be released.
WriteFails(c) ==
  /\ run[c].at \in {"loadLeague", "saveLeague", "loadBoard", "saveBoard"}
  /\ Goto(c, "release")
  /\ Fails("write")
  /\ UNCHANGED <<chainvars, counted, cache, lastBlock, credits, sweep>>

\* release; an error of removeCounted is swallowed.
Release(c) ==
  /\ run[c].at = "release"
  /\ cache' = cache \ {run[c].match}
  /\ \/ counted' = counted \ {run[c].match} /\ UNCHANGED failures
     \/ Fails("write") /\ UNCHANGED counted
  /\ Goto(c, "done")
  /\ UNCHANGED <<chainvars, lastBlock, credits, sweep>>

-----------------------------------------------------------------------------
(* The watcher and the sweep *)

\* onLogs: every event of the batch starts its own onSettled.
WatchLog(m) ==
  /\ m \in Watched
  /\ settledAt[m] \in 1 .. height /\ m \notin seen
  /\ seen' = seen \cup {m}
  /\ Enter(m, m)
  /\ UNCHANGED <<height, settledAt, counted, lastBlock, credits, sweep, failures>>

\* onSettled has resolved: the cursor takes the event's block.  The events of
\* a block come in one batch, so by now each of them has been started.
WatchDone(m) ==
  /\ run[m].at = "done"
  /\ \A d \in Matches : settledAt[d] = settledAt[m] => d \in seen
  /\ lastBlock' = settledAt[m]
  /\ run' = [run EXCEPT ![m] = Idle]
  /\ UNCHANGED <<chainvars, counted, cache, credits, sweep, failures>>

SweepStart ==
  /\ ~sweep.on
  /\ lastBlock < height
  /\ sweep' = [NoSweep EXCEPT !.on = TRUE, !.from = lastBlock + 1, !.latest = height]
  /\ UNCHANGED <<chainvars, counted, cache, lastBlock, credits, run, failures>>

ChunkEnd == Min({sweep.from + Step - 1, sweep.latest})

\* Slip: the chunk starts one block late.
ChunkShort == sweep.from + 1 .. ChunkEnd

Chunk == sweep.from .. ChunkEnd

\* getLogs of the next chunk; an error ends the sweep.
SweepChunk ==
  /\ sweep.on /\ sweep.to < sweep.from
  /\ \/ /\ sweep' = [sweep EXCEPT !.to = ChunkEnd,
                                !.todo = {m \in Matches : settledAt[m] \in Chunk}]
        /\ UNCHANGED failures
     \/ sweep' = NoSweep /\ Fails("logs")
  /\ UNCHANGED <<chainvars, counted, cache, lastBlock, credits, run>>

\* The next event of the chunk, after getBlock; an error ends the sweep.
SweepNext ==
  /\ sweep.on /\ run[Sweep].at = "idle"
  /\ \/ /\ \E m \in sweep.todo :
             /\ Enter(Sweep, m)
             /\ sweep' = [sweep EXCEPT !.todo = @ \ {m}]
        /\ UNCHANGED failures
     \/ /\ sweep.todo # {}
        /\ sweep' = NoSweep /\ Fails("logs")
        /\ UNCHANGED <<run, cache>>
  /\ UNCHANGED <<chainvars, counted, lastBlock, credits>>

SweepSettled ==
  /\ run[Sweep].at = "done"
  /\ run' = [run EXCEPT ![Sweep] = Idle]
  /\ UNCHANGED <<chainvars, counted, cache, lastBlock, credits, sweep, failures>>

\* The chunk is through: the cursor moves, and on to the next chunk.
SweepAdvance ==
  /\ sweep.on /\ sweep.to >= sweep.from
  /\ sweep.todo = {} /\ run[Sweep].at = "idle"
  /\ lastBlock' = sweep.to
  /\ sweep' = IF sweep.to = sweep.latest THEN NoSweep
              ELSE [sweep EXCEPT !.from = sweep.to + 1]
  /\ UNCHANGED <<chainvars, counted, cache, credits, run, failures>>

Crash ==
  /\ Fails("crash")
  /\ cache' = Nothing
  /\ run' = [c \in Callers |-> Idle]
  /\ sweep' = NoSweep
  /\ UNCHANGED <<chainvars, counted, lastBlock, credits>>

OnSettled(c) ==
  \/ IdsLoaded(c) \/ AddCounted(c) \/ AddFails(c) \/ ReadMatch(c)
  \/ LoadLeague(c) \/ SaveLeague(c) \/ LoadBoard(c) \/ SaveBoard(c)
  \/ WriteFails(c) \/ Release(c)

SweepStep ==
  SweepStart \/ SweepChunk \/ SweepNext \/ SweepSettled \/ SweepAdvance

Next ==
  \/ \E m \in Matches : Settle(m) \/ WatchLog(m) \/ WatchDone(m)
  \/ NewBlock
  \/ \E c \in Callers : OnSettled(c)
  \/ SweepStep
  \/ Crash

Spec == Init /\ [][Next]_vars

\* What has started goes on, and the sweep runs every five minutes; the
\* watcher promises nothing ("the poller is the guarantee").
LedgerFair ==
  /\ WF_vars(NewBlock) /\ WF_vars(SweepStep)
  /\ \A c \in Callers : WF_vars(OnSettled(c))
  /\ \A m \in Matches : WF_vars(WatchDone(m))

FairSpec == Spec /\ LedgerFair

-----------------------------------------------------------------------------
(* Properties *)

OnlyFailed(kinds) == failures.kinds \subseteq kinds
SweepAlone == seen = {}    \* the watcher has delivered nothing so far

Credited(m) == league[m] = 1 /\ board[m] = 1

\* settled-ledger.ts:5-7 and 121-123: as long as no write of the store fails,
\* the sweep credits a settlement at most once, crashes, released ids and
\* repeated sweeps included.
CreditedOnce ==
  SweepAlone /\ OnlyFailed({"logs", "read", "crash"})
    => \A m \in Matches : league[m] <= 1 /\ board[m] <= 1

\* settled-ledger.ts:106-108: claim "makes the whole MatchSettled pipeline
\* idempotent across watcher + backfill + restarts".
Idempotent ==
  failures.kinds = {} => \A m \in Matches : league[m] <= 1 /\ board[m] <= 1

\* onSettled's order of writes (main.ts:1529, 1547): whatever the sweep runs
\* into, failing writes and their retries included, the money board, written
\* last, counts a match at most once.
BoardOnce == SweepAlone => \A m \in Matches : board[m] <= 1

\* settled-ledger.ts:124-130: what has been credited in either place is claimed
\* in the store, so that no restart can credit it again, watcher and sweep
\* overlapping or not; ids are only released after a failed read or write.
CreditNeedsClaim ==
  OnlyFailed({"logs", "crash"}) =>
    \A m \in Matches : league[m] > 0 \/ board[m] > 0 => m \in counted

\* main.ts:1606-1611, 1629, 1634-1637: the sweep resumes after the cursor, so a
\* settlement the cursor has passed must have been claimed, or be in hand, or
\* be in the range a sweep under way has yet to read.
CursorTrailsClaims ==
  SweepAlone /\ OnlyFailed({"logs", "crash"}) =>
    \A m \in Matches : settledAt[m] \in 1 .. lastBlock =>
      \/ m \in counted
      \/ \E c \in Callers : run[c].match = m
      \/ sweep.on /\ settledAt[m] \in sweep.from .. sweep.latest

\* main.ts:1634-1637: while nothing but getLogs fails, the sweep alone gets
\* every settlement credited in the end.
EveryCredited ==
  \A m \in Matches :
    settledAt[m] # 0 ~> Credited(m) \/ ~OnlyFailed({"logs"}) \/ ~SweepAlone

\* main.ts:1491-1495: a credit that the sweep has given stays: crediting one
\* match does not undo the credit of another.
CreditsStay ==
  [][seen' = {} => \A m \in Matches : league'[m] >= league[m] /\ board'[m] >= board[m]]_vars

\* A settlement is credited at most once in either place, never without its claim in
\* the store, and the cursor never passes one that nobody holds.
LedgerInv ==
  /\ TypeOK
  /\ CreditedOnce
  /\ BoardOnce
  /\ CreditNeedsClaim
  /\ CursorTrailsClaims

\* Every settlement is credited in the end, and what the sweep credited stays.
CreditsLast ==
  /\ EveryCredited
  /\ CreditsStay
=============================================================================
