------------------------- MODULE SettledLedger_proofs -------------------------
(***************************************************************************)
(* What the ledger keeps for any number of matches, failures and crashes,  *)
(* any step of the sweep, and any interleaving of watcher and sweep.       *)
(***************************************************************************)
EXTENDS SettledLedger, TLAPS

\* Stages in which a call holds a claim, and in which it has stored it.
Claimed == {"add", "read", "loadLeague", "saveLeague", "loadBoard", "saveBoard", "release"}
Stored == Claimed \ {"add", "release"}
Saving == {"saveLeague", "saveBoard"}

\* A call handles a settled match, a watcher's call the one it was made for; it
\* works on the cache it found or loaded, and saves a copy it has loaded.
CallsMeant ==
  /\ league \in [Matches -> Nat] /\ board \in [Matches -> Nat]
  /\ \A m \in seen : settledAt[m] \in 1 .. height
  /\ \A c \in Callers :
       /\ run[c].at # "idle" => run[c].match \in Matches
       /\ run[c].at # "idle" /\ c \in Matches => run[c].match = c /\ c \in seen
       /\ run[c].at \notin {"idle", "ids"} => cache # Nothing
       /\ run[c].at \in Saving => run[c].copy \in [Matches -> Nat]

\* The sweep reads blocks that are mined, and calls onSettled inside a chunk only.
SweepMeant ==
  /\ sweep.on => 1 <= sweep.from /\ sweep.from <= sweep.latest
                 /\ sweep.to <= sweep.latest /\ sweep.latest <= height
  /\ ~sweep.on \/ sweep.to < sweep.from => sweep.todo = {} /\ run[Sweep].at = "idle"

\* The match is in the store's ids, and in whatever claim will look at.
Remembered(m) ==
  /\ m \in counted
  /\ cache # Nothing => m \in cache
  /\ run[Sweep].at = "ids" => m \in run[Sweep].ids

\* The sweep alone: its copies are current, a claim in hand is remembered from
\* its storing on, and the money board is written for a match not yet on it.
BoardMeant ==
  SweepAlone =>
    /\ run[Sweep].at = "saveLeague" => run[Sweep].copy = league
    /\ run[Sweep].at = "saveBoard" => run[Sweep].copy = board
    /\ run[Sweep].at \in Claimed \ {"release"} => run[Sweep].match \in cache
    /\ run[Sweep].at \in Stored => run[Sweep].match \in counted
    /\ run[Sweep].at \in Claimed => board[run[Sweep].match] = 0
    /\ \A m \in Matches : board[m] <= 1 /\ (board[m] > 0 => Remembered(m))
    /\ sweep.on => sweep.from = lastBlock + 1

\* The same of the league, which a failing write may leave counted and released.
LeagueMeant ==
  SweepAlone /\ OnlyFailed({"logs", "read", "crash"}) =>
    /\ run[Sweep].at \in Claimed \ {"loadBoard", "saveBoard"} => league[run[Sweep].match] = 0
    /\ \A m \in Matches : league[m] <= 1 /\ (league[m] > 0 => Remembered(m))

\* Without a failed read or write nothing is released, and what is or will be
\* saved counts claimed matches only.
ClaimsMeant ==
  OnlyFailed({"logs", "crash"}) =>
    /\ \A m \in Matches : league[m] > 0 \/ board[m] > 0 => m \in counted
    /\ \A c \in Callers :
         /\ run[c].at # "release"
         /\ run[c].at \in Stored => run[c].match \in counted
         /\ run[c].at \in Saving => \A m \in Matches : run[c].copy[m] > 0 => m \in counted

\* What the ids in memory say is also in the store, but for the claim being
\* stored; the chunk's matches are to come, in hand or claimed; and all the
\* cursor has passed is claimed.
CursorMeant ==
  SweepAlone /\ OnlyFailed({"logs", "crash"}) =>
    /\ run[Sweep].at = "ids" => run[Sweep].ids \subseteq counted
    /\ cache # Nothing =>
         \A m \in cache : m \in counted \/ (run[Sweep].at = "add" /\ run[Sweep].match = m)
    /\ run[Sweep].at = "done" => run[Sweep].match \in counted
    /\ sweep.on => \A m \in Matches : settledAt[m] \in sweep.from .. sweep.to =>
         m \in sweep.todo \/ m \in counted \/ (run[Sweep].at # "idle" /\ run[Sweep].match = m)
    /\ \A m \in Matches : settledAt[m] \in 1 .. lastBlock => m \in counted

IInv ==
  TypeOK /\ CallsMeant /\ SweepMeant /\ BoardMeant /\ LeagueMeant /\ ClaimsMeant /\ CursorMeant

-----------------------------------------------------------------------------
(* What the invariant gives *)

LEMMA InvEnough == IInv => LedgerInv
<1> SUFFICES ASSUME IInv PROVE LedgerInv
  OBVIOUS
<1> USE DEF IInv
<1>1. CreditedOnce
  BY DEF CreditedOnce, LeagueMeant, BoardMeant
<1>2. BoardOnce
  BY DEF BoardOnce, BoardMeant
<1>3. CreditNeedsClaim
  BY DEF CreditNeedsClaim, ClaimsMeant
<1>4. CursorTrailsClaims
  BY DEF CursorTrailsClaims, CursorMeant
<1> QED BY <1>1, <1>2, <1>3, <1>4 DEF LedgerInv

-----------------------------------------------------------------------------
(* Calls in progress *)

Run == [at : Stages, match : Matches \cup {Nothing}, ids : SUBSET Matches,
        copy : [Matches -> Nat] \cup {Nothing}]

\* A call moved to another stage.
LEMMA GotoRun ==
  ASSUME run \in [Callers -> Run], NEW c \in Callers, NEW s \in Stages, Goto(c, s)
  PROVE  /\ run' \in [Callers -> Run]
         /\ \A d \in Callers : d # c => run'[d] = run[d]
         /\ run'[c].at = s /\ run'[c].match = run[c].match /\ run'[c].ids = run[c].ids
         /\ run'[c].copy = run[c].copy
BY DEF Goto, Run

\* A call that loads a copy of what it is to change.
LEMMA CopyRun ==
  ASSUME run \in [Callers -> Run], NEW c \in Callers, NEW s \in Stages, NEW f \in [Matches -> Nat],
         run' = [run EXCEPT ![c].at = s, ![c].copy = f]
  PROVE  /\ run' \in [Callers -> Run]
         /\ \A d \in Callers : d # c => run'[d] = run[d]
         /\ run'[c].at = s /\ run'[c].match = run[c].match /\ run'[c].copy = f
BY DEF Run

\* A call replaced by another, or by none.
LEMMA PutRun ==
  ASSUME run \in [Callers -> Run], NEW c \in Callers, NEW r \in Run,
         run' = [run EXCEPT ![c] = r]
  PROVE  /\ run' \in [Callers -> Run]
         /\ \A d \in Callers : run'[d] = IF d = c THEN r ELSE run[d]
OBVIOUS

LEMMA IdleType ==
  /\ Idle \in Run /\ Idle.at = "idle"
  /\ \A s \in Stages, m \in Matches :
       LET r == [Idle EXCEPT !.at = s, !.match = m]
       IN  r \in Run /\ r.at = s /\ r.match = m
BY DEF Idle, Run, Stages

LEMMA SweepType ==
  /\ NoSweep \in [on : BOOLEAN, from : Nat, latest : Nat, to : Nat, todo : SUBSET Matches]
  /\ NoSweep.on = FALSE /\ NoSweep.to = 0 /\ NoSweep.from = 0 /\ NoSweep.todo = {}
BY DEF NoSweep

\* A failure is remembered by its kind.
LEMMA FailsType ==
  ASSUME TypeOK, NEW kind \in {"logs", "read", "write", "crash"}, Fails(kind)
  PROVE  /\ failures' \in [count : 0 .. MaxFaults, kinds : SUBSET {"logs", "read", "write", "crash"}]
         /\ failures'.kinds = failures.kinds \cup {kind}
BY LedgerAssumption DEF TypeOK, Fails

-----------------------------------------------------------------------------
(* The initial states *)

LEMMA InitInv == Init => IInv
<1> SUFFICES ASSUME Init PROVE IInv
  OBVIOUS
<1>1. Zero \in [Matches -> Nat] /\ \A m \in Matches : Zero[m] = 0
  BY DEF Zero
<1>2. run \in [Callers -> Run] /\ \A c \in Callers : run[c].at = "idle"
  BY IdleType DEF Init
<1>3. Sweep \in Callers
  BY DEF Callers
<1>4. TypeOK
  <2>1. settledAt \in [Matches -> 0 .. height + 1]
    BY DEF Init, Zero
  <2>2. failures \in [count : 0 .. MaxFaults, kinds : SUBSET {"logs", "read", "write", "crash"}]
    BY LedgerAssumption DEF Init
  <2>3. run \in [Callers -> [at : Stages, match : Matches \cup {Nothing}, ids : SUBSET Matches,
                             copy : [Matches -> Nat] \cup {Nothing}]]
    BY <1>2 DEF Run
  <2>4. lastBlock \in 0 .. height /\ height \in Nat
    BY DEF Init
  <2>5. sweep \in [on : BOOLEAN, from : Nat, latest : Nat, to : Nat, todo : SUBSET Matches]
    BY SweepType DEF Init
  <2>6. cache \in {Nothing} \cup SUBSET Matches /\ seen \subseteq Matches /\ counted \subseteq Matches
    BY DEF Init
  <2>7. \A m \in Matches : league[m] \in Nat /\ board[m] \in Nat
    BY <1>1 DEF Init
  <2> QED BY <2>1, <2>2, <2>3, <2>4, <2>5, <2>6, <2>7 DEF TypeOK
<1>5. CallsMeant
  BY <1>1, <1>2 DEF Init, CallsMeant, Saving
<1>6. SweepMeant
  BY <1>2, <1>3, SweepType DEF Init, SweepMeant
<1>7. BoardMeant /\ LeagueMeant
  BY <1>1, <1>2, <1>3, SweepType DEF Init, BoardMeant, LeagueMeant, Claimed, Stored
<1>8. ClaimsMeant
  BY <1>1, <1>2 DEF Init, ClaimsMeant, Stored, Claimed, Saving
<1>9. CursorMeant
  BY <1>1, <1>2, <1>3, SweepType DEF Init, CursorMeant
<1> QED BY <1>4, <1>5, <1>6, <1>7, <1>8, <1>9 DEF IInv

-----------------------------------------------------------------------------
(* The chain *)

LEMMA SettleKeeps ==
  ASSUME IInv, NEW m \in Matches, Settle(m) \/ NewBlock
  PROVE  IInv'
<1> USE DEF IInv
<1>1. /\ settledAt' \in [Matches -> 0 .. height' + 1] /\ height' \in Nat /\ height' >= height
      /\ \A d \in Matches : settledAt'[d] # settledAt[d] => settledAt'[d] = height + 1
  BY DEF Settle, NewBlock, TypeOK
<1>2. UNCHANGED <<seen, counted, cache, lastBlock, credits, run, sweep, failures>>
  BY DEF Settle, NewBlock
<1>3. TypeOK'
  BY <1>1, <1>2 DEF TypeOK, credits
<1>4. CallsMeant'
  <2>1. \A d \in seen : settledAt'[d] \in 1 .. height'
    BY <1>1 DEF CallsMeant, TypeOK, Settle, NewBlock
  <2> QED BY <1>2, <2>1 DEF CallsMeant, credits
<1>5. SweepMeant'
  BY <1>1, <1>2 DEF SweepMeant, TypeOK
<1>6. BoardMeant' /\ LeagueMeant' /\ ClaimsMeant'
  BY <1>2 DEF BoardMeant, LeagueMeant, ClaimsMeant, Remembered, SweepAlone, OnlyFailed, credits
<1>7. CursorMeant'
  <2>1. sweep.on => sweep.to <= height /\ sweep.from \in Nat /\ sweep.to \in Nat
    BY DEF SweepMeant, TypeOK
  <2>2. lastBlock <= height /\ lastBlock \in Nat /\ height \in Nat
    BY DEF TypeOK
  <2>3. \A d \in Matches : settledAt'[d] \in 1 .. lastBlock => settledAt[d] \in 1 .. lastBlock
    BY <1>1, <2>2 DEF TypeOK
  <2>4. sweep.on => \A d \in Matches : settledAt'[d] \in sweep.from .. sweep.to
                                        => settledAt[d] \in sweep.from .. sweep.to
    BY <1>1, <2>1, <2>2 DEF TypeOK
  <2> QED BY <1>2, <2>3, <2>4 DEF CursorMeant, SweepAlone, OnlyFailed
<1> QED BY <1>3, <1>4, <1>5, <1>6, <1>7

-----------------------------------------------------------------------------
(* onSettled *)

\* A call that claims match m against the ids it has before it.
LEMMA ClaimKeeps ==
  ASSUME IInv, NEW c \in Callers, NEW m \in Matches, NEW ids \in SUBSET Matches,
         ClaimIn(c, m, ids),
         c \in Matches => m = c /\ m \in seen',
         \/ cache # Nothing /\ ids = cache /\ run[c].at = "idle"
         \/ run[c].at = "ids" /\ run[c].match = m /\ ids = run[c].ids,
         \/ seen' = seen
         \/ c = m /\ seen' = seen \cup {m} /\ settledAt[m] \in 1 .. height,
         \/ sweep' = sweep /\ (c = Sweep => run[c].at = "ids")
         \/ /\ c = Sweep /\ sweep.on /\ m \in sweep.todo
            /\ sweep' = [sweep EXCEPT !.todo = @ \ {m}],
         UNCHANGED <<height, settledAt, counted, lastBlock, credits, failures>>
  PROVE  IInv'
<1> USE DEF IInv
<1> DEFINE r == [Idle EXCEPT !.at = IF m \in ids THEN "done" ELSE "add", !.match = m]
<1>1. /\ r \in Run /\ r.match = m
      /\ r.at = IF m \in ids THEN "done" ELSE "add"
  <2> DEFINE s == IF m \in ids THEN "done" ELSE "add"
  <2>1. s \in Stages
    BY DEF Stages
  <2> HIDE DEF s
  <2>2. LET q == [Idle EXCEPT !.at = s, !.match = m] IN q \in Run /\ q.at = s /\ q.match = m
    BY <2>1, IdleType
  <2> QED BY <2>2 DEF s
<1> HIDE DEF r
<1>2. run \in [Callers -> Run] /\ run' = [run EXCEPT ![c] = r] /\ cache' = ids \cup {m}
  BY DEF TypeOK, ClaimIn, Run, r
<1>3. /\ run' \in [Callers -> Run]
      /\ \A d \in Callers : run'[d] = IF d = c THEN r ELSE run[d]
  BY <1>1, <1>2, PutRun
<1>4. cache' \in SUBSET Matches /\ cache' # Nothing
  BY <1>2, LedgerAssumption
<1>5. Sweep \in Callers /\ Sweep \notin Matches /\ m \in Callers
  BY LedgerAssumption DEF Callers
<1>6. /\ sweep' \in [on : BOOLEAN, from : Nat, latest : Nat, to : Nat, todo : SUBSET Matches]
      /\ sweep'.on = sweep.on /\ sweep'.from = sweep.from /\ sweep'.latest = sweep.latest
      /\ sweep'.to = sweep.to
      /\ sweep'.todo \subseteq sweep.todo
      /\ \A d \in Matches : d \in sweep.todo => d \in sweep'.todo \/ (d = m /\ c = Sweep)
  BY DEF TypeOK
<1>7. TypeOK'
  <2>1. seen' \subseteq Matches
    BY DEF TypeOK
  <2> QED BY <1>3, <1>4, <1>6, <2>1 DEF TypeOK, Run, credits
<1>8. CallsMeant'
  <2>1. league' = league /\ board' = board
    BY DEF credits
  <2>2. \A d \in seen' : settledAt[d] \in 1 .. height
    BY DEF CallsMeant
  <2>3. r.at \notin Saving /\ r.at # "idle"
    BY <1>1 DEF Saving
  <2> QED BY <1>1, <1>3, <1>4, <2>1, <2>2, <2>3 DEF CallsMeant
<1>9. SweepMeant'
  <2>1. c = Sweep => sweep.on /\ ~(sweep.to < sweep.from)
    BY DEF SweepMeant
  <2> QED BY <1>3, <1>5, <1>6, <2>1 DEF SweepMeant
<1>10. SweepAlone' => SweepAlone /\ c = Sweep
  BY DEF SweepAlone, Callers
<1>11. ASSUME SweepAlone'
       PROVE  \A d \in Matches : Remembered(d) => d \in ids
  BY <1>10, <1>11 DEF Remembered
<1>12. ASSUME SweepAlone'
       PROVE  \A d \in Matches : Remembered(d) => Remembered(d)'
  <2>1. run'[Sweep].at # "ids"
    BY <1>1, <1>3, <1>5, <1>10, <1>12
  <2> QED BY <1>2, <1>11, <1>12, <2>1 DEF Remembered
<1>13. BoardMeant'
  <2> SUFFICES ASSUME SweepAlone' PROVE BoardMeant'
    BY DEF BoardMeant
  <2>1. c = Sweep /\ SweepAlone /\ run'[Sweep] = r
    BY <1>3, <1>5, <1>10
  <2>2. r.at = "add" => board[m] = 0
    BY <1>1, <1>11, <2>1 DEF BoardMeant, CallsMeant
  <2>3. r.at \notin Stored /\ r.at \notin {"saveLeague", "saveBoard"} /\ (r.at \in Claimed => r.at = "add")
    BY <1>1 DEF Stored, Claimed
  <2> QED BY <1>1, <1>2, <1>6, <1>12, <2>1, <2>2, <2>3 DEF BoardMeant, credits
<1>14. LeagueMeant'
  <2> SUFFICES ASSUME SweepAlone', OnlyFailed({"logs", "read", "crash"})' PROVE LeagueMeant'
    BY DEF LeagueMeant
  <2>1. c = Sweep /\ SweepAlone /\ run'[Sweep] = r /\ OnlyFailed({"logs", "read", "crash"})
    BY <1>3, <1>5, <1>10 DEF OnlyFailed
  <2>2. r.at = "add" => league[m] = 0
    BY <1>1, <1>11, <2>1 DEF LeagueMeant, CallsMeant
  <2>3. r.at \in Claimed => r.at = "add"
    BY <1>1 DEF Claimed
  <2> QED BY <1>1, <1>12, <2>1, <2>2, <2>3 DEF LeagueMeant, credits
<1>15. ClaimsMeant'
  <2>1. r.at \notin Stored /\ r.at \notin Saving /\ r.at # "release"
    BY <1>1 DEF Stored, Claimed, Saving
  <2> QED BY <1>3, <2>1 DEF ClaimsMeant, OnlyFailed, credits
<1>16. CursorMeant'
  <2> SUFFICES ASSUME SweepAlone', OnlyFailed({"logs", "crash"})' PROVE CursorMeant'
    BY DEF CursorMeant
  <2>1. c = Sweep /\ SweepAlone /\ run'[Sweep] = r /\ OnlyFailed({"logs", "crash"})
    BY <1>3, <1>5, <1>10 DEF OnlyFailed
  <2>2. ids \subseteq counted
    BY <2>1 DEF CursorMeant
  <2> QED BY <1>1, <1>2, <1>6, <2>1, <2>2 DEF CursorMeant
<1> QED BY <1>7, <1>8, <1>9, <1>13, <1>14, <1>15, <1>16

\* A call that finds no cache and starts to load the ids.
LEMMA LoadKeeps ==
  ASSUME IInv, NEW c \in Callers, NEW m \in Matches,
         run[c].at = "idle", cache = Nothing, cache' = Nothing,
         run' = [run EXCEPT ![c] = [Idle EXCEPT !.at = "ids", !.match = m, !.ids = counted]],
         c \in Matches => m = c /\ m \in seen',
         \/ seen' = seen
         \/ c = m /\ seen' = seen \cup {m} /\ settledAt[m] \in 1 .. height,
         \/ sweep' = sweep /\ c # Sweep
         \/ /\ c = Sweep /\ sweep.on /\ m \in sweep.todo
            /\ sweep' = [sweep EXCEPT !.todo = @ \ {m}],
         UNCHANGED <<height, settledAt, counted, lastBlock, credits, failures>>
  PROVE  IInv'
<1> USE DEF IInv
<1> DEFINE r == [Idle EXCEPT !.at = "ids", !.match = m, !.ids = counted]
<1>1. /\ r \in Run /\ r.match = m /\ r.at = "ids" /\ r.ids = counted
  <2>1. counted \in SUBSET Matches /\ "ids" \in Stages
    BY DEF Stages, TypeOK
  <2> QED BY <2>1 DEF Idle, Run
<1> HIDE DEF r
<1>2. run \in [Callers -> Run] /\ run' = [run EXCEPT ![c] = r]
  BY DEF TypeOK, Run, r
<1>3. /\ run' \in [Callers -> Run]
      /\ \A d \in Callers : run'[d] = IF d = c THEN r ELSE run[d]
  BY <1>1, <1>2, PutRun
<1>5. Sweep \in Callers /\ Sweep \notin Matches /\ m \in Callers
  BY LedgerAssumption DEF Callers
<1>6. /\ sweep' \in [on : BOOLEAN, from : Nat, latest : Nat, to : Nat, todo : SUBSET Matches]
      /\ sweep'.on = sweep.on /\ sweep'.from = sweep.from /\ sweep'.latest = sweep.latest
      /\ sweep'.to = sweep.to
      /\ sweep'.todo \subseteq sweep.todo
      /\ \A d \in Matches : d \in sweep.todo => d \in sweep'.todo \/ (d = m /\ c = Sweep)
  BY DEF TypeOK
<1>7. TypeOK'
  <2>1. seen' \subseteq Matches
    BY DEF TypeOK
  <2> QED BY <1>3, <1>6, <2>1 DEF TypeOK, Run, credits
<1>8. CallsMeant'
  <2>1. league' = league /\ board' = board
    BY DEF credits
  <2>2. \A d \in seen' : settledAt[d] \in 1 .. height
    BY DEF CallsMeant
  <2>3. r.at \notin Saving
    BY <1>1 DEF Saving
  <2> QED BY <1>1, <1>3, <2>1, <2>2, <2>3 DEF CallsMeant
<1>9. SweepMeant'
  <2>1. c = Sweep => sweep.on /\ ~(sweep.to < sweep.from)
    BY DEF SweepMeant
  <2> QED BY <1>3, <1>5, <1>6, <2>1 DEF SweepMeant
<1>10. SweepAlone' => SweepAlone /\ c = Sweep
  BY DEF SweepAlone, Callers
<1>11. ASSUME SweepAlone'
       PROVE  /\ run'[Sweep] = r
              /\ \A d \in Matches : Remembered(d) => Remembered(d)'
  BY <1>1, <1>3, <1>5, <1>10, <1>11 DEF Remembered
<1>12. r.at \notin Claimed /\ r.at \notin Stored /\ r.at \notin Saving
  BY <1>1 DEF Claimed, Stored, Saving
<1>13. BoardMeant' /\ LeagueMeant'
  BY <1>1, <1>6, <1>10, <1>11, <1>12 DEF BoardMeant, LeagueMeant, OnlyFailed, credits
<1>14. ClaimsMeant'
  BY <1>1, <1>3, <1>12 DEF ClaimsMeant, OnlyFailed, credits
<1>15. CursorMeant'
  <2> SUFFICES ASSUME SweepAlone', OnlyFailed({"logs", "crash"})' PROVE CursorMeant'
    BY DEF CursorMeant
  <2> QED BY <1>1, <1>5, <1>6, <1>10, <1>11 DEF CursorMeant, OnlyFailed
<1> QED BY <1>7, <1>8, <1>9, <1>13, <1>14, <1>15

LEMMA IdsLoadedKeeps ==
  ASSUME IInv, NEW c \in Callers, IdsLoaded(c)
  PROVE  IInv'
<1>1. /\ run[c].at = "ids" /\ ClaimIn(c, run[c].match, run[c].ids)
      /\ UNCHANGED <<chainvars, counted, lastBlock, credits, sweep, failures>>
  BY DEF IdsLoaded
<1>2. run[c].match \in Matches /\ run[c].ids \in SUBSET Matches
  BY <1>1 DEF IInv, CallsMeant, TypeOK
<1>3. c \in Matches => run[c].match = c /\ run[c].match \in seen'
  BY <1>1 DEF IInv, CallsMeant, chainvars
<1> QED BY <1>1, <1>2, <1>3, ClaimKeeps DEF chainvars

LEMMA WatchLogKeeps ==
  ASSUME IInv, NEW m \in Matches, WatchLog(m)
  PROVE  IInv'
<1>1. /\ settledAt[m] \in 1 .. height /\ m \notin seen /\ seen' = seen \cup {m} /\ Enter(m, m)
      /\ UNCHANGED <<height, settledAt, counted, lastBlock, credits, sweep, failures>>
  BY DEF WatchLog
<1>2. m \in Callers /\ m # Sweep
  BY LedgerAssumption DEF Callers
<1>3. run[m].at = "idle"
  BY <1>1, <1>2 DEF IInv, CallsMeant
<1>4. CASE cache # Nothing /\ ClaimIn(m, m, cache)
  <2>1. cache \in SUBSET Matches
    BY <1>4 DEF IInv, TypeOK
  <2> QED BY <1>1, <1>2, <1>3, <1>4, <2>1, ClaimKeeps
<1>5. CASE /\ cache = Nothing /\ UNCHANGED cache
           /\ run' = [run EXCEPT ![m] = [Idle EXCEPT !.at = "ids", !.match = m, !.ids = counted]]
  BY <1>1, <1>2, <1>3, <1>5, LoadKeeps
<1> QED BY <1>1, <1>4, <1>5 DEF Enter

\* A sweep that gives up while no call of its own is under way.
LEMMA GiveUpKeeps ==
  ASSUME IInv, run[Sweep].at = "idle", sweep' = NoSweep, Fails("logs"),
         UNCHANGED <<chainvars, counted, cache, lastBlock, credits, run>>
  PROVE  IInv'
<1> USE DEF IInv
<1>1. failures' \in [count : 0 .. MaxFaults, kinds : SUBSET {"logs", "read", "write", "crash"}]
      /\ failures'.kinds = failures.kinds \cup {"logs"}
  BY FailsType
<1>2. \A kinds \in {{"logs", "read", "crash"}, {"logs", "crash"}} : OnlyFailed(kinds)' => OnlyFailed(kinds)
  BY <1>1 DEF OnlyFailed
<1>3. TypeOK'
  BY <1>1, SweepType DEF TypeOK, chainvars, credits
<1>4. CallsMeant' /\ SweepMeant'
  BY SweepType DEF CallsMeant, SweepMeant, chainvars, credits
<1>5. BoardMeant' /\ LeagueMeant' /\ ClaimsMeant'
  BY <1>2, SweepType DEF BoardMeant, LeagueMeant, ClaimsMeant, SweepAlone, Remembered, chainvars, credits
<1>6. CursorMeant'
  BY <1>2, SweepType DEF CursorMeant, SweepAlone, chainvars
<1> QED BY <1>3, <1>4, <1>5, <1>6

LEMMA SweepNextKeeps ==
  ASSUME IInv, SweepNext
  PROVE  IInv'
<1>1. /\ sweep.on /\ run[Sweep].at = "idle"
      /\ UNCHANGED <<chainvars, counted, lastBlock, credits>>
  BY DEF SweepNext
<1>2. Sweep \in Callers /\ Sweep \notin Matches
  BY LedgerAssumption DEF Callers
<1>3. CASE /\ \E m \in sweep.todo : /\ Enter(Sweep, m)
                                    /\ sweep' = [sweep EXCEPT !.todo = @ \ {m}]
           /\ UNCHANGED failures
  <2>1. PICK m \in sweep.todo : Enter(Sweep, m) /\ sweep' = [sweep EXCEPT !.todo = @ \ {m}]
    BY <1>3
  <2>2. m \in Matches
    BY DEF IInv, TypeOK
  <2>3. CASE cache # Nothing /\ ClaimIn(Sweep, m, cache)
    <3>1. cache \in SUBSET Matches
      BY <2>3 DEF IInv, TypeOK
    <3> QED BY <1>1, <1>2, <1>3, <2>1, <2>2, <2>3, <3>1, ClaimKeeps DEF chainvars
  <2>4. CASE /\ cache = Nothing /\ UNCHANGED cache
             /\ run' = [run EXCEPT ![Sweep] = [Idle EXCEPT !.at = "ids", !.match = m, !.ids = counted]]
    BY <1>1, <1>2, <1>3, <2>1, <2>2, <2>4, LoadKeeps DEF chainvars
  <2> QED BY <2>1, <2>3, <2>4 DEF Enter
<1>4. CASE sweep' = NoSweep /\ Fails("logs") /\ UNCHANGED <<run, cache>>
  BY <1>1, <1>4, GiveUpKeeps DEF chainvars
<1> QED BY <1>3, <1>4 DEF SweepNext

\* The next stage of a call: the cases in which neither credits nor memory change.
LEMMA StageKeeps ==
  ASSUME IInv, NEW c \in Callers, NEW s \in Stages, s \notin {"idle", "ids", "add"},
         run[c].at \in Claimed,
         run' \in [Callers -> Run],
         \A d \in Callers : d # c => run'[d] = run[d],
         run'[c].at = s, run'[c].match = run[c].match,
         s = "saveLeague" => run'[c].copy = league,
         s = "saveBoard" => run'[c].copy = board,
         s \in Stored => run[c].at \in Stored \/ run[c].match \in counted',
         run[c].at # "release",
         run[c].at \in {"loadBoard", "saveBoard"} => s \in {"loadBoard", "saveBoard"} \/ ~OnlyFailed({"logs", "read", "crash"})',
         s = "release" => ~OnlyFailed({"logs", "crash"})',
         s # "done",
         counted' = counted \/ (run[c].at = "add" /\ counted' = counted \cup {run[c].match}),
         run[c].at = "add" => counted' = counted \cup {run[c].match},
         failures' = failures \/ \E kind \in {"read", "write"} : Fails(kind),
         UNCHANGED <<chainvars, cache, lastBlock, credits, sweep>>
  PROVE  IInv'
<1> USE DEF IInv
<1>1. /\ run[c].at \notin {"idle", "ids"} /\ run[c].match \in Matches /\ cache # Nothing
      /\ s \notin {"idle", "ids"}
  BY DEF CallsMeant, Claimed
<1>2. /\ failures' \in [count : 0 .. MaxFaults, kinds : SUBSET {"logs", "read", "write", "crash"}]
      /\ failures.kinds \subseteq failures'.kinds
  <2>1. CASE failures' = failures
    BY <2>1 DEF TypeOK
  <2>2. CASE \E kind \in {"read", "write"} : Fails(kind)
    BY <2>2, FailsType
  <2> QED BY <2>1, <2>2
<1>3. \A kinds \in {{"logs", "read", "crash"}, {"logs", "crash"}} : OnlyFailed(kinds)' => OnlyFailed(kinds)
  BY <1>2 DEF OnlyFailed
<1>4. Sweep \in Callers /\ Sweep \notin Matches /\ counted \subseteq counted' /\ counted' \subseteq Matches
  BY <1>1, LedgerAssumption DEF Callers, TypeOK
<1>5. TypeOK'
  BY <1>2, <1>4 DEF TypeOK, Run, chainvars, credits
<1>6. CallsMeant'
  <2>1. \A d \in Callers : /\ run'[d].at \in {"idle", "ids"} <=> run[d].at \in {"idle", "ids"}
                           /\ run'[d].at = "idle" <=> run[d].at = "idle"
                           /\ run'[d].match = run[d].match
    BY <1>1
  <2>2. league \in [Matches -> Nat] /\ board \in [Matches -> Nat]
    BY DEF CallsMeant
  <2>3. \A d \in Callers : run'[d].at \in Saving => run'[d].copy \in [Matches -> Nat]
    BY <2>2 DEF CallsMeant, Saving
  <2> QED BY <2>1, <2>2, <2>3 DEF CallsMeant, chainvars, credits
<1>7. SweepMeant'
  BY <1>1, <1>4 DEF SweepMeant, chainvars
<1>8. ASSUME SweepAlone'
      PROVE  SweepAlone /\ c = Sweep /\ \A m \in Matches : Remembered(m) => Remembered(m)'
  <2>1. SweepAlone
    BY <1>8 DEF SweepAlone, chainvars
  <2>2. c = Sweep
    BY <1>1, <2>1 DEF SweepAlone, CallsMeant, Callers
  <2> QED BY <1>1, <1>4, <2>1, <2>2 DEF Remembered
<1>9. s \in Stored \cup {"release"} /\ s \in Claimed
  BY DEF Stored, Stages, Claimed
<1>10. BoardMeant'
  BY <1>4, <1>8, <1>9 DEF BoardMeant, credits, chainvars, Claimed
<1>11. LeagueMeant'
  <2> SUFFICES ASSUME SweepAlone', OnlyFailed({"logs", "read", "crash"})' PROVE LeagueMeant'
    BY DEF LeagueMeant
  <2>1. /\ c = Sweep /\ SweepAlone /\ OnlyFailed({"logs", "read", "crash"})
        /\ \A m \in Matches : Remembered(m) => Remembered(m)'
    BY <1>3, <1>8
  <2>2. s \notin {"loadBoard", "saveBoard"} => league[run[Sweep].match] = 0
    BY <2>1 DEF LeagueMeant
  <2> QED BY <2>1, <2>2 DEF LeagueMeant, credits
<1>12. ClaimsMeant'
  <2> SUFFICES ASSUME OnlyFailed({"logs", "crash"})' PROVE ClaimsMeant'
    BY DEF ClaimsMeant
  <2>1. OnlyFailed({"logs", "crash"}) /\ s # "release"
    BY <1>3
  <2>2. \A m \in Matches : league[m] > 0 \/ board[m] > 0 => m \in counted'
    BY <1>4, <2>1 DEF ClaimsMeant
  <2>3. run'[c].at \in Saving => \A m \in Matches : run'[c].copy[m] > 0 => m \in counted'
    BY <2>2 DEF Saving
  <2> QED BY <1>4, <2>1, <2>2, <2>3 DEF ClaimsMeant, credits
<1>13. CursorMeant'
  <2> SUFFICES ASSUME SweepAlone', OnlyFailed({"logs", "crash"})' PROVE CursorMeant'
    BY DEF CursorMeant
  <2>1. c = Sweep /\ SweepAlone /\ OnlyFailed({"logs", "crash"})
    BY <1>3, <1>8
  <2> QED BY <1>1, <1>4, <2>1 DEF CursorMeant, chainvars
<1> QED BY <1>5, <1>6, <1>7, <1>10, <1>11, <1>12, <1>13

\* The steps of onSettled that move a claim on towards its credits, or back.
LEMMA WorkKeeps ==
  ASSUME IInv, NEW c \in Callers,
         AddCounted(c) \/ ReadMatch(c) \/ LoadLeague(c) \/ LoadBoard(c) \/ WriteFails(c)
  PROVE  IInv'
<1>1. run \in [Callers -> Run] /\ TypeOK /\ league \in [Matches -> Nat] /\ board \in [Matches -> Nat]
  BY DEF IInv, TypeOK, Run, CallsMeant
<1>2. {"read", "loadLeague", "saveLeague", "loadBoard", "saveBoard", "release"} \subseteq Stages
  BY DEF Stages
<1>3. CASE AddCounted(c)
  <2>1. run[c].at = "add" /\ Goto(c, "read") /\ counted' = counted \cup {run[c].match}
    BY <1>3 DEF AddCounted
  <2>2. /\ run' \in [Callers -> Run] /\ run'[c].at = "read" /\ run'[c].match = run[c].match
        /\ \A d \in Callers : d # c => run'[d] = run[d]
    BY <1>1, <1>2, <2>1, GotoRun DEF Goto
  <2> QED BY <1>2, <1>3, <2>1, <2>2, StageKeeps DEF AddCounted, Claimed, Stored
<1>4. CASE ReadMatch(c) /\ Goto(c, "loadLeague") /\ UNCHANGED failures
  <2>1. run[c].at = "read"
    BY <1>4 DEF ReadMatch
  <2>2. /\ run' \in [Callers -> Run] /\ run'[c].at = "loadLeague" /\ run'[c].match = run[c].match
        /\ \A d \in Callers : d # c => run'[d] = run[d]
    BY <1>1, <1>2, <1>4, GotoRun
  <2> QED BY <1>2, <1>4, <2>1, <2>2, StageKeeps DEF ReadMatch, Claimed, Stored
<1>5. ASSUME NEW kind \in {"read", "write"}, Goto(c, "release"), Fails(kind),
             run[c].at \in {"read", "loadLeague", "saveLeague", "loadBoard", "saveBoard"},
             kind = "read" => run[c].at = "read",
             UNCHANGED <<chainvars, counted, cache, lastBlock, credits, sweep>>
      PROVE  IInv'
  <2>1. /\ run' \in [Callers -> Run] /\ run'[c].at = "release" /\ run'[c].match = run[c].match
        /\ \A d \in Callers : d # c => run'[d] = run[d]
    BY <1>1, <1>2, <1>5, GotoRun
  <2>2. failures'.kinds = failures.kinds \cup {kind}
    BY <1>1, <1>5, FailsType
  <2>3. ~OnlyFailed({"logs", "crash"})' /\ (kind = "write" => ~OnlyFailed({"logs", "read", "crash"})')
    BY <2>2 DEF OnlyFailed
  <2> QED BY <1>2, <1>5, <2>1, <2>3, StageKeeps DEF Claimed, Stored
<1>6. CASE ReadMatch(c) /\ Goto(c, "release") /\ Fails("read")
  BY <1>5, <1>6 DEF ReadMatch
<1>7. CASE WriteFails(c)
  BY <1>5, <1>7 DEF WriteFails
<1>8. CASE LoadLeague(c)
  <2>1. run[c].at = "loadLeague"
    BY <1>8 DEF LoadLeague
  <2>2. /\ run' \in [Callers -> Run] /\ run'[c].at = "saveLeague" /\ run'[c].match = run[c].match
        /\ run'[c].copy = league /\ \A d \in Callers : d # c => run'[d] = run[d]
    BY <1>1, <1>2, <1>8, CopyRun DEF LoadLeague
  <2> QED BY <1>2, <1>8, <2>1, <2>2, StageKeeps DEF LoadLeague, Claimed, Stored
<1>9. CASE LoadBoard(c)
  <2>1. run[c].at = "loadBoard"
    BY <1>9 DEF LoadBoard
  <2>2. /\ run' \in [Callers -> Run] /\ run'[c].at = "saveBoard" /\ run'[c].match = run[c].match
        /\ run'[c].copy = board /\ \A d \in Callers : d # c => run'[d] = run[d]
    BY <1>1, <1>2, <1>9, CopyRun DEF LoadBoard
  <2> QED BY <1>2, <1>9, <2>1, <2>2, StageKeeps DEF LoadBoard, Claimed, Stored
<1> QED BY <1>3, <1>4, <1>6, <1>7, <1>8, <1>9 DEF ReadMatch

\* The league's copy is saved with one more game for the match.
LEMMA SaveLeagueKeeps ==
  ASSUME IInv, NEW c \in Callers, SaveLeague(c)
  PROVE  IInv'
<1> USE DEF IInv
<1>1. /\ run[c].at = "saveLeague" /\ Goto(c, "loadBoard")
      /\ league' = [run[c].copy EXCEPT ![run[c].match] = @ + 1]
      /\ UNCHANGED <<chainvars, counted, cache, lastBlock, board, sweep, failures>>
  BY DEF SaveLeague
<1>2. run \in [Callers -> Run] /\ "loadBoard" \in Stages
  BY DEF TypeOK, Run, Stages
<1>3. /\ run' \in [Callers -> Run] /\ run'[c].at = "loadBoard" /\ run'[c].match = run[c].match
      /\ \A d \in Callers : d # c => run'[d] = run[d]
  BY <1>1, <1>2, GotoRun
<1>4. /\ run[c].match \in Matches /\ cache # Nothing /\ run[c].copy \in [Matches -> Nat]
  BY <1>1 DEF CallsMeant, Saving
<1>5. /\ league' \in [Matches -> Nat] /\ league'[run[c].match] = run[c].copy[run[c].match] + 1
      /\ \A m \in Matches : m # run[c].match => league'[m] = run[c].copy[m]
  BY <1>1, <1>4
<1>6. Sweep \in Callers /\ Sweep \notin Matches
  BY LedgerAssumption DEF Callers
<1>7. TypeOK'
  BY <1>1, <1>3, <1>5 DEF TypeOK, Run, chainvars
<1>8. CallsMeant'
  BY <1>1, <1>3, <1>4, <1>5 DEF CallsMeant, Saving, chainvars
<1>9. SweepMeant'
  BY <1>1, <1>3, <1>6 DEF SweepMeant, chainvars
<1>10. ASSUME SweepAlone'
       PROVE  /\ SweepAlone /\ c = Sweep /\ \A m \in Matches : Remembered(m) => Remembered(m)'
              /\ Remembered(run[c].match)'
  <2>1. SweepAlone
    BY <1>1, <1>10 DEF SweepAlone, chainvars
  <2>2. c = Sweep
    BY <1>1, <2>1 DEF SweepAlone, CallsMeant, Callers
  <2>3. run[c].match \in cache /\ run[c].match \in counted
    BY <1>1, <2>1, <2>2 DEF BoardMeant, Claimed, Stored
  <2> QED BY <1>1, <1>3, <2>1, <2>2, <2>3 DEF Remembered
<1>11. BoardMeant'
  BY <1>1, <1>3, <1>10 DEF BoardMeant, Claimed, Stored, chainvars
<1>12. LeagueMeant'
  <2> SUFFICES ASSUME SweepAlone', OnlyFailed({"logs", "read", "crash"})' PROVE LeagueMeant'
    BY DEF LeagueMeant
  <2>1. c = Sweep /\ SweepAlone /\ OnlyFailed({"logs", "read", "crash"})
    BY <1>1, <1>10 DEF OnlyFailed
  <2>2. run[c].copy = league /\ league[run[c].match] = 0
    BY <1>1, <2>1 DEF BoardMeant, LeagueMeant, Claimed
  <2>3. \A m \in Matches : league'[m] <= 1 /\ (league'[m] > 0 => Remembered(m)')
    <3> TAKE m \in Matches
    <3>1. CASE m = run[c].match
      BY <1>3, <1>5, <1>10, <2>2, <3>1
    <3>2. CASE m # run[c].match
      <4>1. league'[m] = league[m] /\ league[m] <= 1 /\ (league[m] > 0 => Remembered(m))
        BY <1>5, <2>1, <2>2, <3>2 DEF LeagueMeant
      <4>2. Remembered(m) => Remembered(m)'
        BY <1>10
      <4> QED BY <4>1, <4>2
    <3> QED BY <3>1, <3>2
  <2> QED BY <1>3, <2>1, <2>3 DEF LeagueMeant
<1>13. ClaimsMeant'
  <2> SUFFICES ASSUME OnlyFailed({"logs", "crash"})' PROVE ClaimsMeant'
    BY DEF ClaimsMeant
  <2>1. OnlyFailed({"logs", "crash"})
    BY <1>1 DEF OnlyFailed
  <2>2. run[c].match \in counted
    BY <1>1, <2>1 DEF ClaimsMeant, Stored, Claimed
  <2>3. \A m \in Matches : league'[m] > 0 => m \in counted
    <3> TAKE m \in Matches
    <3>1. CASE m = run[c].match
      BY <2>2, <3>1
    <3>2. CASE m # run[c].match
      BY <1>1, <1>5, <2>1, <3>2 DEF ClaimsMeant, Saving
    <3> QED BY <3>1, <3>2
  <2> QED BY <1>1, <1>3, <2>1, <2>2, <2>3 DEF ClaimsMeant, Saving
<1>14. CursorMeant'
  BY <1>1, <1>3, <1>10 DEF CursorMeant, OnlyFailed, chainvars
<1> QED BY <1>7, <1>8, <1>9, <1>11, <1>12, <1>13, <1>14

\* The board's copy is saved with one more settlement for the match.
LEMMA SaveBoardKeeps ==
  ASSUME IInv, NEW c \in Callers, SaveBoard(c)
  PROVE  IInv'
<1> USE DEF IInv
<1>1. /\ run[c].at = "saveBoard" /\ Goto(c, "done")
      /\ board' = [run[c].copy EXCEPT ![run[c].match] = @ + 1]
      /\ UNCHANGED <<chainvars, counted, cache, lastBlock, league, sweep, failures>>
  BY DEF SaveBoard
<1>2. run \in [Callers -> Run] /\ "done" \in Stages
  BY DEF TypeOK, Run, Stages
<1>3. /\ run' \in [Callers -> Run] /\ run'[c].at = "done" /\ run'[c].match = run[c].match
      /\ \A d \in Callers : d # c => run'[d] = run[d]
  BY <1>1, <1>2, GotoRun
<1>4. /\ run[c].match \in Matches /\ cache # Nothing /\ run[c].copy \in [Matches -> Nat]
  BY <1>1 DEF CallsMeant, Saving
<1>5. /\ board' \in [Matches -> Nat] /\ board'[run[c].match] = run[c].copy[run[c].match] + 1
      /\ \A m \in Matches : m # run[c].match => board'[m] = run[c].copy[m]
  BY <1>1, <1>4
<1>6. Sweep \in Callers /\ Sweep \notin Matches
  BY LedgerAssumption DEF Callers
<1>7. TypeOK'
  BY <1>1, <1>3, <1>5 DEF TypeOK, Run, chainvars
<1>8. CallsMeant'
  BY <1>1, <1>3, <1>4, <1>5 DEF CallsMeant, Saving, chainvars
<1>9. SweepMeant'
  BY <1>1, <1>3, <1>6 DEF SweepMeant, chainvars
<1>10. ASSUME SweepAlone'
       PROVE  /\ SweepAlone /\ c = Sweep /\ \A m \in Matches : Remembered(m) => Remembered(m)'
              /\ Remembered(run[c].match)'
  <2>1. SweepAlone
    BY <1>1, <1>10 DEF SweepAlone, chainvars
  <2>2. c = Sweep
    BY <1>1, <2>1 DEF SweepAlone, CallsMeant, Callers
  <2>3. run[c].match \in cache /\ run[c].match \in counted
    BY <1>1, <2>1, <2>2 DEF BoardMeant, Claimed, Stored
  <2> QED BY <1>1, <1>3, <2>1, <2>2, <2>3 DEF Remembered
<1>11. BoardMeant'
  <2> SUFFICES ASSUME SweepAlone' PROVE BoardMeant'
    BY DEF BoardMeant
  <2>1. c = Sweep /\ SweepAlone
    BY <1>10
  <2>2. run[c].copy = board /\ board[run[c].match] = 0
    BY <1>1, <2>1 DEF BoardMeant, Claimed
  <2>3. \A m \in Matches : board'[m] <= 1 /\ (board'[m] > 0 => Remembered(m)')
    <3> TAKE m \in Matches
    <3>1. CASE m = run[c].match
      BY <1>3, <1>5, <1>10, <2>2, <3>1
    <3>2. CASE m # run[c].match
      <4>1. board'[m] = board[m] /\ board[m] <= 1 /\ (board[m] > 0 => Remembered(m))
        BY <1>5, <2>1, <2>2, <3>2 DEF BoardMeant
      <4>2. Remembered(m) => Remembered(m)'
        BY <1>10
      <4> QED BY <4>1, <4>2
    <3> QED BY <3>1, <3>2
  <2> QED BY <1>1, <1>3, <2>1, <2>3 DEF BoardMeant, Claimed, Stored
<1>12. LeagueMeant'
  BY <1>1, <1>3, <1>10 DEF LeagueMeant, OnlyFailed, Claimed
<1>13. ClaimsMeant'
  <2> SUFFICES ASSUME OnlyFailed({"logs", "crash"})' PROVE ClaimsMeant'
    BY DEF ClaimsMeant
  <2>1. OnlyFailed({"logs", "crash"})
    BY <1>1 DEF OnlyFailed
  <2>2. run[c].match \in counted
    BY <1>1, <2>1 DEF ClaimsMeant, Stored, Claimed
  <2>3. \A m \in Matches : board'[m] > 0 => m \in counted
    <3> TAKE m \in Matches
    <3>1. CASE m = run[c].match
      BY <2>2, <3>1
    <3>2. CASE m # run[c].match
      BY <1>1, <1>5, <2>1, <3>2 DEF ClaimsMeant, Saving
    <3> QED BY <3>1, <3>2
  <2> QED BY <1>1, <1>3, <2>1, <2>2, <2>3 DEF ClaimsMeant, Saving, Stored, Claimed
<1>14. CursorMeant'
  <2> SUFFICES ASSUME SweepAlone', OnlyFailed({"logs", "crash"})' PROVE CursorMeant'
    BY DEF CursorMeant
  <2>1. c = Sweep /\ SweepAlone /\ OnlyFailed({"logs", "crash"})
    BY <1>1, <1>10 DEF OnlyFailed
  <2>2. run[Sweep].match \in counted
    BY <1>1, <2>1 DEF BoardMeant, Stored, Claimed
  <2> QED BY <1>1, <1>3, <2>1, <2>2 DEF CursorMeant, chainvars
<1> QED BY <1>7, <1>8, <1>9, <1>11, <1>12, <1>13, <1>14

\* A claim that could not be stored is given up, and so is the sweep that made it.
LEMMA AddFailsKeeps ==
  ASSUME IInv, NEW c \in Callers, AddFails(c)
  PROVE  IInv'
<1> USE DEF IInv
<1>1. /\ run[c].at = "add" /\ run' = [run EXCEPT ![c] = Idle] /\ Fails("write")
      /\ sweep' = IF c = Sweep THEN NoSweep ELSE sweep
      /\ UNCHANGED <<chainvars, counted, cache, lastBlock, credits>>
  BY DEF AddFails
<1>2. /\ run' \in [Callers -> Run]
      /\ \A d \in Callers : run'[d] = IF d = c THEN Idle ELSE run[d]
  BY <1>1, PutRun, IdleType DEF TypeOK, Run
<1>3. /\ failures' \in [count : 0 .. MaxFaults, kinds : SUBSET {"logs", "read", "write", "crash"}]
      /\ failures'.kinds = failures.kinds \cup {"write"}
  BY <1>1, FailsType
<1>4. Sweep \in Callers /\ Sweep \notin Matches
  BY LedgerAssumption DEF Callers
<1>5. TypeOK'
  BY <1>1, <1>2, <1>3, SweepType DEF TypeOK, Run, chainvars, credits
<1>6. CallsMeant'
  BY <1>1, <1>2, IdleType DEF CallsMeant, Saving, chainvars, credits
<1>7. SweepMeant'
  BY <1>1, <1>2, <1>4, SweepType, IdleType DEF SweepMeant, chainvars
<1>8. ~OnlyFailed({"logs", "read", "crash"})' /\ ~OnlyFailed({"logs", "crash"})'
  BY <1>3 DEF OnlyFailed
<1>9. BoardMeant'
  <2> SUFFICES ASSUME SweepAlone' PROVE BoardMeant'
    BY DEF BoardMeant
  <2>1. SweepAlone
    BY <1>1 DEF SweepAlone, chainvars
  <2>2. c = Sweep
    BY <1>1, <2>1 DEF SweepAlone, CallsMeant, Callers
  <2>3. \A m \in Matches : Remembered(m) => Remembered(m)'
    BY <1>1, <1>2, <1>4, <2>2, IdleType DEF Remembered
  <2>4. run'[Sweep].at = "idle" /\ ~sweep'.on
    BY <1>1, <1>2, <1>4, <2>2, IdleType, SweepType
  <2> QED BY <1>1, <2>1, <2>3, <2>4 DEF BoardMeant, Claimed, Stored, credits
<1> QED BY <1>5, <1>6, <1>7, <1>8, <1>9 DEF LeagueMeant, ClaimsMeant, CursorMeant

LEMMA ReleaseKeeps ==
  ASSUME IInv, NEW c \in Callers, Release(c)
  PROVE  IInv'
<1> USE DEF IInv
<1>1. /\ run[c].at = "release" /\ Goto(c, "done") /\ cache' = cache \ {run[c].match}
      /\ \/ counted' = counted \ {run[c].match} /\ UNCHANGED failures
         \/ Fails("write") /\ UNCHANGED counted
      /\ UNCHANGED <<chainvars, lastBlock, credits, sweep>>
  BY DEF Release
<1>2. run \in [Callers -> Run] /\ "done" \in Stages
  BY DEF TypeOK, Run, Stages
<1>3. /\ run' \in [Callers -> Run] /\ run'[c].at = "done" /\ run'[c].match = run[c].match
      /\ \A d \in Callers : d # c => run'[d] = run[d]
  BY <1>1, <1>2, GotoRun
<1>4. /\ failures' \in [count : 0 .. MaxFaults, kinds : SUBSET {"logs", "read", "write", "crash"}]
      /\ failures.kinds \subseteq failures'.kinds
      /\ counted' # counted \ {run[c].match} => failures'.kinds = failures.kinds \cup {"write"}
  <2>1. CASE counted' = counted \ {run[c].match} /\ UNCHANGED failures
    BY <2>1 DEF TypeOK
  <2>2. CASE Fails("write") /\ UNCHANGED counted
    BY <2>2, FailsType
  <2> QED BY <1>1, <2>1, <2>2
<1>5. /\ run[c].match \in Matches /\ cache \in SUBSET Matches
      /\ cache' \in SUBSET Matches /\ cache' # Nothing /\ counted' \subseteq Matches
  <2>1. cache # Nothing /\ run[c].match \in Matches
    BY <1>1 DEF CallsMeant
  <2> QED BY <1>1, <2>1, LedgerAssumption DEF TypeOK
<1>6. Sweep \in Callers /\ Sweep \notin Matches
  BY LedgerAssumption DEF Callers
<1>7. TypeOK'
  BY <1>1, <1>3, <1>4, <1>5 DEF TypeOK, Run, chainvars, credits
<1>8. CallsMeant'
  BY <1>1, <1>3, <1>5 DEF CallsMeant, Saving, chainvars, credits
<1>9. SweepMeant'
  BY <1>1, <1>3, <1>6 DEF SweepMeant, chainvars
<1>10. ~OnlyFailed({"logs", "crash"})'
  BY <1>1, <1>4 DEF ClaimsMeant, OnlyFailed
<1>11. ASSUME SweepAlone'
       PROVE  /\ SweepAlone /\ c = Sweep
              /\ \A m \in Matches : Remembered(m) /\ m # run[c].match => Remembered(m)'
  <2>1. SweepAlone
    BY <1>1, <1>11 DEF SweepAlone, chainvars
  <2>2. c = Sweep
    BY <1>1, <2>1 DEF SweepAlone, CallsMeant, Callers
  <2>3. run'[Sweep].at = "done"
    BY <1>3, <2>2
  <2>4. \A m \in Matches : m \in counted /\ m # run[c].match => m \in counted'
    BY <1>1
  <2>5. \A m \in Matches : Remembered(m) /\ m # run[c].match => m \in cache'
    <3>1. cache # Nothing
      BY <1>1 DEF CallsMeant
    <3> QED BY <1>1, <3>1 DEF Remembered
  <2>6. \A m \in Matches : Remembered(m) /\ m # run[c].match => Remembered(m)'
    BY <2>3, <2>4, <2>5 DEF Remembered
  <2> QED BY <2>1, <2>2, <2>6
<1>12. BoardMeant'
  <2> SUFFICES ASSUME SweepAlone' PROVE BoardMeant'
    BY DEF BoardMeant
  <2>1. board[run[c].match] = 0
    BY <1>1, <1>11 DEF BoardMeant, Claimed
  <2>2. \A m \in Matches : board[m] <= 1 /\ (board[m] > 0 => Remembered(m)')
    BY <1>11, <2>1 DEF BoardMeant
  <2> QED BY <1>1, <1>3, <1>11, <2>2 DEF BoardMeant, Claimed, Stored, credits
<1>13. LeagueMeant'
  <2> SUFFICES ASSUME SweepAlone', OnlyFailed({"logs", "read", "crash"})' PROVE LeagueMeant'
    BY DEF LeagueMeant
  <2>1. OnlyFailed({"logs", "read", "crash"})
    BY <1>4 DEF OnlyFailed
  <2>2. league[run[c].match] = 0
    BY <1>1, <1>11, <2>1 DEF LeagueMeant, Claimed
  <2>3. \A m \in Matches : league[m] <= 1 /\ (league[m] > 0 => Remembered(m)')
    BY <1>11, <2>1, <2>2 DEF LeagueMeant
  <2> QED BY <1>1, <1>3, <1>11, <2>3 DEF LeagueMeant, Claimed, credits
<1> QED BY <1>7, <1>8, <1>9, <1>10, <1>12, <1>13 DEF ClaimsMeant, CursorMeant

\* A call that is through is forgotten, the watcher's one with its block noted.
LEMMA DoneKeeps ==
  ASSUME IInv, NEW c \in Callers, run[c].at = "done", run' = [run EXCEPT ![c] = Idle],
         \/ c = Sweep /\ lastBlock' = lastBlock
         \/ c \in Matches /\ lastBlock' = settledAt[c],
         UNCHANGED <<chainvars, counted, cache, credits, sweep, failures>>
  PROVE  IInv'
<1> USE DEF IInv
<1>1. /\ run' \in [Callers -> Run]
      /\ \A d \in Callers : run'[d] = IF d = c THEN Idle ELSE run[d]
  BY PutRun, IdleType DEF TypeOK, Run
<1>2. Sweep \in Callers /\ Sweep \notin Matches
  BY LedgerAssumption DEF Callers
<1>3. lastBlock' \in 0 .. height
  BY <1>2 DEF CallsMeant, TypeOK
<1>4. TypeOK'
  BY <1>1, <1>3 DEF TypeOK, Run, chainvars, credits
<1>5. CallsMeant'
  BY <1>1, IdleType DEF CallsMeant, Saving, chainvars, credits
<1>6. SweepMeant'
  BY <1>1, <1>2, IdleType DEF SweepMeant, chainvars
<1>7. ASSUME SweepAlone'
      PROVE  /\ SweepAlone /\ c = Sweep /\ lastBlock' = lastBlock /\ run'[Sweep] = Idle
             /\ \A m \in Matches : Remembered(m) => Remembered(m)'
  <2>1. SweepAlone
    BY <1>7 DEF SweepAlone, chainvars
  <2>2. c = Sweep
    BY <2>1 DEF SweepAlone, CallsMeant, Callers
  <2> QED BY <1>1, <1>2, <2>1, <2>2, IdleType DEF Remembered
<1>8. BoardMeant' /\ LeagueMeant'
  BY <1>7, IdleType DEF BoardMeant, LeagueMeant, OnlyFailed, Claimed, Stored, credits
<1>9. ClaimsMeant'
  <2> SUFFICES ASSUME OnlyFailed({"logs", "crash"})' PROVE ClaimsMeant'
    BY DEF ClaimsMeant
  <2>1. OnlyFailed({"logs", "crash"})
    BY DEF OnlyFailed
  <2>2. Idle.at \notin Saving /\ Idle.at \notin Stored /\ Idle.at # "release"
    BY IdleType DEF Saving, Stored, Claimed
  <2> QED BY <1>1, <2>1, <2>2 DEF ClaimsMeant, credits
<1>10. CursorMeant'
  <2> SUFFICES ASSUME SweepAlone', OnlyFailed({"logs", "crash"})' PROVE CursorMeant'
    BY DEF CursorMeant
  <2>1. /\ OnlyFailed({"logs", "crash"}) /\ SweepAlone /\ c = Sweep /\ lastBlock' = lastBlock
        /\ run'[Sweep].at = "idle"
    BY <1>7, IdleType DEF OnlyFailed
  <2>2. run[Sweep].match \in counted
    BY <2>1 DEF CursorMeant
  <2> QED BY <2>1, <2>2 DEF CursorMeant, chainvars
<1> QED BY <1>4, <1>5, <1>6, <1>8, <1>9, <1>10

-----------------------------------------------------------------------------
(* The sweep and the crash *)

LEMMA LesserOf ==
  ASSUME NEW a \in Int, NEW b \in Int
  PROVE  Min({a, b}) = IF a <= b THEN a ELSE b
<1> DEFINE n == IF a <= b THEN a ELSE b
<1>1. n \in {a, b} /\ \A x \in {a, b} : n <= x
  OBVIOUS
<1>2. \A m \in {a, b} : (\A x \in {a, b} : m <= x) => m = n
  OBVIOUS
<1> HIDE DEF n
<1>3. (CHOOSE m \in {a, b} : \A x \in {a, b} : m =< x) = n
  BY <1>1, <1>2
<1> QED BY <1>3 DEF Min, n

LEMMA SweepStartKeeps ==
  ASSUME IInv, SweepStart
  PROVE  IInv'
<1> USE DEF IInv
<1>1. /\ ~sweep.on /\ lastBlock < height
      /\ sweep' = [NoSweep EXCEPT !.on = TRUE, !.from = lastBlock + 1, !.latest = height]
      /\ UNCHANGED <<chainvars, counted, cache, lastBlock, credits, run, failures>>
  BY DEF SweepStart
<1>2. lastBlock \in Nat /\ height \in Nat
  BY DEF TypeOK
<1>3. /\ sweep' \in [on : BOOLEAN, from : Nat, latest : Nat, to : Nat, todo : SUBSET Matches]
      /\ sweep'.on = TRUE /\ sweep'.from = lastBlock + 1 /\ sweep'.latest = height
      /\ sweep'.to = 0 /\ sweep'.todo = {}
  <2>1. sweep' = [on |-> TRUE, from |-> lastBlock + 1, latest |-> height, to |-> 0, todo |-> {}]
    BY <1>1 DEF NoSweep
  <2> QED BY <1>2, <2>1
<1>4. TypeOK'
  BY <1>1, <1>3 DEF TypeOK, chainvars, credits
<1>5. CallsMeant'
  BY <1>1 DEF CallsMeant, chainvars, credits
<1>6. SweepMeant'
  BY <1>1, <1>2, <1>3 DEF SweepMeant, chainvars
<1>7. BoardMeant' /\ LeagueMeant' /\ ClaimsMeant'
  BY <1>1, <1>3 DEF BoardMeant, LeagueMeant, ClaimsMeant, SweepAlone, OnlyFailed, Remembered, chainvars, credits
<1>8. CursorMeant'
  <2>1. \A n : n \notin sweep'.from .. sweep'.to
    BY <1>2, <1>3
  <2> QED BY <1>1, <2>1 DEF CursorMeant, SweepAlone, OnlyFailed, chainvars
<1> QED BY <1>4, <1>5, <1>6, <1>7, <1>8

LEMMA SweepChunkKeeps ==
  ASSUME IInv, SweepChunk
  PROVE  IInv'
<1> USE DEF IInv
<1>1. /\ sweep.on /\ sweep.to < sweep.from
      /\ UNCHANGED <<chainvars, counted, cache, lastBlock, credits, run>>
  BY DEF SweepChunk
<1>2. run[Sweep].at = "idle"
  BY <1>1 DEF SweepMeant
<1>3. CASE sweep' = NoSweep /\ Fails("logs")
  BY <1>1, <1>2, <1>3, GiveUpKeeps
<1>4. CASE /\ sweep' = [sweep EXCEPT !.to = ChunkEnd,
                                     !.todo = {m \in Matches : settledAt[m] \in Chunk}]
           /\ UNCHANGED failures
  <2>1. /\ sweep.from \in Nat /\ sweep.latest \in Nat /\ Step \in Nat \ {0}
        /\ 1 <= sweep.from /\ sweep.from <= sweep.latest
    BY <1>1, LedgerAssumption DEF TypeOK, SweepMeant
  <2>2. ChunkEnd \in Nat /\ sweep.from <= ChunkEnd /\ ChunkEnd <= sweep.latest
    BY <2>1, LesserOf DEF ChunkEnd
  <2>3. /\ sweep' \in [on : BOOLEAN, from : Nat, latest : Nat, to : Nat, todo : SUBSET Matches]
        /\ sweep'.on = TRUE /\ sweep'.from = sweep.from /\ sweep'.latest = sweep.latest
        /\ sweep'.to = ChunkEnd /\ sweep'.todo = {m \in Matches : settledAt[m] \in sweep.from .. ChunkEnd}
    BY <1>1, <1>4, <2>2 DEF TypeOK, Chunk
  <2>4. TypeOK'
    BY <1>1, <1>4, <2>3 DEF TypeOK, chainvars, credits
  <2>5. CallsMeant'
    BY <1>1 DEF CallsMeant, chainvars, credits
  <2>6. SweepMeant'
    BY <1>1, <2>1, <2>2, <2>3 DEF SweepMeant, chainvars
  <2>7. BoardMeant' /\ LeagueMeant' /\ ClaimsMeant'
    BY <1>1, <1>4, <2>3 DEF BoardMeant, LeagueMeant, ClaimsMeant, SweepAlone, OnlyFailed, Remembered, chainvars, credits
  <2>8. CursorMeant'
    BY <1>1, <1>4, <2>3 DEF CursorMeant, SweepAlone, OnlyFailed, chainvars
  <2> QED BY <2>4, <2>5, <2>6, <2>7, <2>8
<1> QED BY <1>3, <1>4 DEF SweepChunk

LEMMA SweepAdvanceKeeps ==
  ASSUME IInv, SweepAdvance
  PROVE  IInv'
<1> USE DEF IInv
<1>1. /\ sweep.on /\ sweep.to >= sweep.from /\ sweep.todo = {} /\ run[Sweep].at = "idle"
      /\ lastBlock' = sweep.to
      /\ sweep' = IF sweep.to = sweep.latest THEN NoSweep ELSE [sweep EXCEPT !.from = sweep.to + 1]
      /\ UNCHANGED <<chainvars, counted, cache, credits, run, failures>>
  BY DEF SweepAdvance
<1>2. /\ sweep.from \in Nat /\ sweep.latest \in Nat /\ sweep.to \in Nat /\ height \in Nat
      /\ 1 <= sweep.from /\ sweep.to <= sweep.latest /\ sweep.latest <= height
  BY <1>1 DEF TypeOK, SweepMeant
<1>3. /\ sweep' \in [on : BOOLEAN, from : Nat, latest : Nat, to : Nat, todo : SUBSET Matches]
      /\ sweep'.todo = {}
      /\ sweep'.on => /\ sweep'.from = sweep.to + 1 /\ sweep'.to = sweep.to
                      /\ sweep'.latest = sweep.latest /\ sweep.to # sweep.latest
  <2>1. CASE sweep.to = sweep.latest
    BY <1>1, <2>1, SweepType
  <2>2. CASE sweep.to # sweep.latest
    BY <1>1, <1>2, <2>2 DEF TypeOK
  <2> QED BY <2>1, <2>2
<1>4. TypeOK'
  BY <1>1, <1>2, <1>3 DEF TypeOK, chainvars, credits
<1>5. CallsMeant'
  BY <1>1 DEF CallsMeant, chainvars, credits
<1>6. SweepMeant'
  BY <1>1, <1>2, <1>3 DEF SweepMeant, chainvars
<1>7. BoardMeant' /\ LeagueMeant' /\ ClaimsMeant'
  BY <1>1, <1>3 DEF BoardMeant, LeagueMeant, ClaimsMeant, SweepAlone, OnlyFailed, Remembered, chainvars, credits
<1>8. CursorMeant'
  <2> SUFFICES ASSUME SweepAlone', OnlyFailed({"logs", "crash"})' PROVE CursorMeant'
    BY DEF CursorMeant
  <2>1. SweepAlone /\ OnlyFailed({"logs", "crash"})
    BY <1>1 DEF SweepAlone, OnlyFailed, chainvars
  <2>2. \A m \in Matches : settledAt[m] \in 1 .. lastBlock' => m \in counted
    <3> SUFFICES ASSUME NEW m \in Matches, settledAt[m] \in 1 .. sweep.to
                 PROVE  m \in counted
      BY <1>1
    <3>1. sweep.from = lastBlock + 1 /\ lastBlock \in Nat
      BY <1>1, <2>1 DEF BoardMeant, TypeOK
    <3>2. CASE settledAt[m] \in 1 .. lastBlock
      BY <2>1, <3>2 DEF CursorMeant
    <3>3. CASE settledAt[m] \in sweep.from .. sweep.to
      BY <1>1, <2>1, <3>3 DEF CursorMeant
    <3> QED BY <1>2, <3>1, <3>2, <3>3
  <2>3. sweep'.on => \A n : n \notin sweep'.from .. sweep'.to
    BY <1>2, <1>3
  <2> QED BY <1>1, <2>1, <2>2, <2>3 DEF CursorMeant, chainvars
<1> QED BY <1>4, <1>5, <1>6, <1>7, <1>8

\* A restart forgets the memory and the calls; the store's ids are what is left.
LEMMA CrashKeeps ==
  ASSUME IInv, Crash
  PROVE  IInv'
<1> USE DEF IInv
<1>1. /\ Fails("crash") /\ cache' = Nothing /\ run' = [c \in Callers |-> Idle] /\ sweep' = NoSweep
      /\ UNCHANGED <<chainvars, counted, lastBlock, credits>>
  BY DEF Crash
<1>2. run' \in [Callers -> Run] /\ \A c \in Callers : run'[c] = Idle
  BY <1>1, IdleType
<1>3. /\ failures' \in [count : 0 .. MaxFaults, kinds : SUBSET {"logs", "read", "write", "crash"}]
      /\ failures'.kinds = failures.kinds \cup {"crash"}
  BY <1>1, FailsType
<1>4. Sweep \in Callers
  BY DEF Callers
<1>5. \A kinds \in {{"logs", "read", "crash"}, {"logs", "crash"}} : OnlyFailed(kinds)' => OnlyFailed(kinds)
  BY <1>3 DEF OnlyFailed
<1>6. TypeOK'
  BY <1>1, <1>2, <1>3, SweepType DEF TypeOK, Run, chainvars, credits
<1>7. CallsMeant'
  BY <1>1, <1>2, IdleType DEF CallsMeant, Saving, chainvars, credits
<1>8. SweepMeant'
  BY <1>1, <1>2, <1>4, SweepType, IdleType DEF SweepMeant
<1>9. run'[Sweep].at = "idle" /\ ~sweep'.on /\ \A m \in Matches : Remembered(m) => Remembered(m)'
  BY <1>1, <1>2, <1>4, SweepType, IdleType DEF Remembered
<1>10. BoardMeant' /\ LeagueMeant'
  BY <1>1, <1>5, <1>9 DEF BoardMeant, LeagueMeant, SweepAlone, Claimed, Stored, chainvars, credits
<1>11. ClaimsMeant'
  <2>1. Idle.at \notin Saving /\ Idle.at \notin Stored /\ Idle.at # "release"
    BY IdleType DEF Saving, Stored, Claimed
  <2> QED BY <1>1, <1>2, <1>5, <2>1 DEF ClaimsMeant, credits
<1>12. CursorMeant'
  BY <1>1, <1>5, <1>9 DEF CursorMeant, SweepAlone, chainvars
<1> QED BY <1>6, <1>7, <1>8, <1>10, <1>11, <1>12

-----------------------------------------------------------------------------
(* Results *)

LEMMA StepKeeps == IInv /\ [Next]_vars => IInv'
<1> SUFFICES ASSUME IInv, [Next]_vars PROVE IInv'
  OBVIOUS
<1>1. ASSUME NEW m \in Matches, Settle(m) \/ WatchLog(m) PROVE IInv'
  BY <1>1, SettleKeeps, WatchLogKeeps
<1>2. ASSUME NEW m \in Matches, WatchDone(m) PROVE IInv'
  <2>1. m \in Callers
    BY DEF Callers
  <2> QED BY <1>2, <2>1, DoneKeeps DEF WatchDone
<1>3. CASE NewBlock
  <2>1. PICK m \in Matches : settledAt[m] = height + 1
    BY <1>3 DEF NewBlock
  <2> QED BY <1>3, <2>1, SettleKeeps
<1>4. ASSUME NEW c \in Callers, OnSettled(c) PROVE IInv'
  BY <1>4, IdsLoadedKeeps, WorkKeeps, AddFailsKeeps, SaveLeagueKeeps, SaveBoardKeeps, ReleaseKeeps
     DEF OnSettled
<1>5. CASE SweepStep
  <2>1. CASE SweepSettled
    <3>1. Sweep \in Callers
      BY DEF Callers
    <3> QED BY <2>1, <3>1, DoneKeeps DEF SweepSettled
  <2> QED BY <1>5, <2>1, SweepStartKeeps, SweepChunkKeeps, SweepNextKeeps, SweepAdvanceKeeps
          DEF SweepStep
<1>6. CASE Crash
  BY <1>6, CrashKeeps
<1>7. CASE UNCHANGED vars
  BY <1>7 DEF vars, chainvars, credits, IInv, TypeOK, CallsMeant, SweepMeant, BoardMeant, LeagueMeant,
              ClaimsMeant, CursorMeant, Remembered, SweepAlone, OnlyFailed
<1> QED BY <1>1, <1>2, <1>3, <1>4, <1>5, <1>6, <1>7 DEF Next

LEMMA Invariance == Spec => []IInv
BY InitInv, StepKeeps, PTL DEF Spec

\* A settlement is credited at most once in either place, never without its claim in
\* the store, and the cursor never passes one that nobody holds (settled-ledger.ts:5-7,
\* 106-130; main.ts:1606-1637).
THEOREM CountedOnce == Spec => []LedgerInv
BY Invariance, InvEnough, PTL

\* The cursor never passes a settlement that is not in the store's ids already, as
\* long as the sweep works alone and only getLogs fails or the process dies
\* (main.ts:1629, 1634-1637).
THEOREM NothingSkipped ==
  Spec => [](SweepAlone /\ OnlyFailed({"logs", "crash"}) =>
               \A m \in Matches : settledAt[m] \in 1 .. lastBlock => m \in counted)
<1>1. IInv => (SweepAlone /\ OnlyFailed({"logs", "crash"}) =>
                 \A m \in Matches : settledAt[m] \in 1 .. lastBlock => m \in counted)
  BY DEF IInv, CursorMeant
<1> QED BY <1>1, Invariance, PTL

\* A credit the sweep has given stays: a step that credits one match takes nothing
\* from another (main.ts:1491-1495).
THEOREM CreditsStand == Spec => CreditsStay
<1>1. ASSUME IInv, [Next]_vars, seen' = {}
      PROVE  \A m \in Matches : league'[m] >= league[m] /\ board'[m] >= board[m]
  <2>1. league \in [Matches -> Nat] /\ board \in [Matches -> Nat]
    BY <1>1 DEF IInv, CallsMeant
  <2>2. ASSUME NEW c \in Callers, SaveLeague(c) \/ SaveBoard(c)
        PROVE  \A m \in Matches : league'[m] >= league[m] /\ board'[m] >= board[m]
    <3>1. seen = {} /\ run[c].at \in Saving
      BY <1>1, <2>2 DEF SaveLeague, SaveBoard, chainvars, Saving
    <3>2. c = Sweep /\ run[c].match \in Matches
      BY <1>1, <3>1 DEF IInv, CallsMeant, Callers, Saving
    <3>3. CASE SaveLeague(c)
      <4>1. league' = [league EXCEPT ![run[c].match] = @ + 1] /\ board' = board
        BY <1>1, <3>1, <3>2, <3>3 DEF SaveLeague, IInv, BoardMeant, SweepAlone
      <4> QED BY <2>1, <3>2, <4>1
    <3>4. CASE SaveBoard(c)
      <4>1. board' = [board EXCEPT ![run[c].match] = @ + 1] /\ league' = league
        BY <1>1, <3>1, <3>2, <3>4 DEF SaveBoard, IInv, BoardMeant, SweepAlone
      <4> QED BY <2>1, <3>2, <4>1
    <3> QED BY <2>2, <3>3, <3>4
  <2>3. CASE UNCHANGED credits
    BY <2>1, <2>3 DEF credits
  <2>4. (\E c \in Callers : SaveLeague(c) \/ SaveBoard(c)) \/ UNCHANGED credits
    BY <1>1 DEF Next, Settle, WatchLog, WatchDone, NewBlock, OnSettled, IdsLoaded, AddCounted,
                AddFails, ReadMatch, LoadLeague, LoadBoard, WriteFails, Release, SweepStep, SweepStart,
                SweepChunk, SweepNext, SweepSettled, SweepAdvance, Crash, vars
  <2> QED BY <2>2, <2>3, <2>4
<1>2. IInv /\ [Next]_vars =>
        [seen' = {} => \A m \in Matches : league'[m] >= league[m] /\ board'[m] >= board[m]]_vars
  BY <1>1
<1> QED BY <1>2, Invariance, PTL DEF Spec, CreditsStay
=============================================================================
