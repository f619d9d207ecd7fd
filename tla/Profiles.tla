-------------------------------- MODULE Profiles --------------------------------
(***************************************************************************)
(* Player profiles on the server: the daily streak, the daily quests, the  *)
(* counts of games and the nudges (profile/store.ts, profile/quests.ts,    *)
(* retention.ts and the routes of main.ts that use them).                  *)
(*                                                                         *)
(* Every operation loads a whole profile, derives the next one and saves   *)
(* it, with an await before the save; two of them on one profile may       *)
(* overlap.  Time runs in days.  Ratings, flags and the time a player was  *)
(* last seen are left out.                                                 *)
(***************************************************************************)
EXTENDS Integers, FiniteSets, Sequences, SequencesExt

CONSTANTS
  Players,
  Regulars,    \* bound: the players who do more than be somebody's opponent
  Jobs,        \* bound: operations under way at a time, the sweep's included
  FirstDay,    \* days are numbered; the first of the run
  LastDay,     \* bound
  PlayTarget,  \* questsFor: games to play, by day
  WinTarget,   \* questsFor: games to win, by day
  MaxBegun,    \* bound: operations, sweeps and daily pages begun
  MaxMishaps,  \* bound: restarts and notifications that fail
  NoPlayer,
  NoProfile,
  Free

ASSUME DaysAssumption ==
  /\ FirstDay \in Nat /\ LastDay \in Nat /\ 2 <= FirstDay /\ FirstDay <= LastDay
  /\ PlayTarget \in [FirstDay .. LastDay -> {2, 3}]
  /\ WinTarget \in [FirstDay .. LastDay -> {1, 2}]

VARIABLES
  day,
  store,      \* the profile store
  job,        \* what each operation under way has still to save
  sweep,      \* the retention sweep
  solved,     \* history: the days each player solved the puzzle on, here or on the device
  games,      \* history: the games of each player, <<day, won>> in order
  practised,  \* history: the days of each player's practice games, in order
  nudged,     \* history: the nudges sent, <<kind, player, day>>
  nagged,     \* history: nudges sent again
  undone,  \* history: players a save of whose profile undid another
  begun, mishaps

history == <<solved, games, practised>>
pvars == <<day, store, job, sweep, history, nudged, nagged, undone, begun, mishaps>>

Days == FirstDay .. LastDay
Never == 0                  \* the empty day key

EmptyProgress(d) ==
  [day |-> d, play |-> 0, win |-> 0, practice |-> 0, solved |-> FALSE, rewarded |-> FALSE]

FreshProfile ==
  [streak |-> 0, lastDaily |-> Never, played |-> 0, won |-> 0, quests |-> EmptyProgress(Never),
   perfect |-> 0, streakNudge |-> Never, turnNudge |-> Never]

-----------------------------------------------------------------------------
(* The streak and the quests, from profile to profile.                     *)

\* Idempotent within a day.
ApplyDailySolve(p) ==
  IF p.lastDaily = day THEN p
  ELSE [p EXCEPT !.streak = IF p.lastDaily = day - 1 THEN @ + 1 ELSE 1, !.lastDaily = day]

\* A device's own streak is adopted while it lives and the server has no history.
MigrateLocalStreak(p, local) ==
  IF p.lastDaily = Never /\ local.last \in {day - 1, day} /\ local.count > 0
  THEN [p EXCEPT !.streak = local.count, !.lastDaily = local.last]
  ELSE p

CurrentProgress(p) ==
  LET base == IF p.quests.day = day THEN p.quests ELSE EmptyProgress(day) IN
  [base EXCEPT !.solved = @ \/ p.lastDaily = day]

IsBeginner(p, q) == p.played - q.play <= 0

\* questsFor and questStates: whether every quest of the day is done.
AllDone(q, beginner) ==
  /\ q.solved
  /\ IF beginner THEN q.practice >= 1 /\ q.play >= 1
     ELSE q.play >= PlayTarget[q.day] /\ q.win >= WinTarget[q.day]

\* A perfect day is counted once.
Settle(p, q) ==
  IF AllDone(q, IsBeginner(p, q)) /\ ~q.rewarded
  THEN [p EXCEPT !.quests = [q EXCEPT !.rewarded = TRUE], !.perfect = @ + 1]
  ELSE [p EXCEPT !.quests = q]

RecordQuestGame(p, won) ==
  LET q == CurrentProgress(p) IN
  Settle(p, [q EXCEPT !.play = @ + 1, !.win = IF won THEN @ + 1 ELSE @])

RecordQuestDaily(p) == Settle(p, [CurrentProgress(p) EXCEPT !.solved = TRUE])
RecordQuestPractice(p) == Settle(p, [CurrentProgress(p) EXCEPT !.practice = @ + 1])

ApplyGameResult(p, won) ==
  [p EXCEPT !.played = @ + 1, !.won = IF won THEN @ + 1 ELSE @]

-----------------------------------------------------------------------------
(* The operations: load and derive, then save.                             *)

\* A newcomer, or a player of old who has won a game today.
Regular ==
  [FreshProfile EXCEPT !.played = 2, !.won = 2,
                       !.quests = [EmptyProgress(FirstDay) EXCEPT !.play = 1, !.win = 1]]

ProfilesInit ==
  /\ day = FirstDay
  /\ \E old \in SUBSET Regulars : store = [p \in Players |-> IF p \in old THEN Regular ELSE NoProfile]
  /\ games = [p \in Players |-> IF store[p] = NoProfile THEN <<>> ELSE <<<<Never, TRUE>>, <<day, TRUE>>>>]
  /\ job = [j \in Jobs |-> Free]
  /\ sweep = [left |-> {}, day |-> Never, at |-> NoPlayer, kind |-> "none", told |-> FALSE, base |-> NoProfile]
  /\ solved = [p \in Players |-> {}] /\ practised = [p \in Players |-> <<>>]
  /\ nudged = {} /\ nagged = {} /\ undone = {}
  /\ begun = 0 /\ mishaps = 0

Loaded(p) == IF store[p] = NoProfile THEN FreshProfile ELSE store[p]

\* liveStreak: a day missed is a streak lost.
LiveStreak(p) == IF p.lastDaily \in {day - 1, day} THEN p.streak ELSE 0

\* A save: the profile, the one it was derived from, and the streak the answer tells.
Write(p, rec) == [player |-> p, base |-> store[p], rec |-> rec, tells |-> "nothing"]
Telling(kind, write) == [write EXCEPT !.tells = kind]

Busy == {j \in Jobs : job[j] # Free}
UnderWay == Cardinality(Busy) + (IF sweep.at = NoPlayer THEN 0 ELSE 1)

TakeUp(j, writes) ==
  /\ job[j] = Free /\ UnderWay < Cardinality(Jobs)
  /\ job' = [job EXCEPT ![j] = writes]
  /\ UNCHANGED <<day, store, sweep, nudged, nagged, undone, mishaps>>

Begin(j, writes) == begun < MaxBegun /\ begun' = begun + 1 /\ TakeUp(j, writes)

\* Saving over a profile that has changed since it was loaded undoes the change.
Put(p, base, rec) ==
  /\ store' = [store EXCEPT ![p] = rec]
  /\ undone' = IF store[p] = base THEN undone ELSE undone \cup {p}

SaveProfile(j) ==
  /\ job[j] # Free
  /\ LET w == Head(job[j]) IN Put(w.player, w.base, w.rec)
  /\ job' = [job EXCEPT ![j] = IF Len(@) = 1 THEN Free ELSE Tail(@)]
  /\ UNCHANGED <<day, sweep, history, nudged, nagged, mishaps, begun>>

\* GET /profile, which saves the time of the visit, and the flag of the engine check.
\* Alone it changes nothing the model tells apart, so it comes with another operation.
ViewProfile(j, p) ==
  /\ UnderWay > 0
  /\ Begin(j, <<Write(p, Loaded(p))>>) /\ UNCHANGED history

\* POST /profile/practice-played.
PracticePlayed(j, p) ==
  /\ Begin(j, <<Write(p, RecordQuestPractice(Loaded(p)))>>)
  /\ practised' = [practised EXCEPT ![p] = Append(@, day)]
  /\ UNCHANGED <<solved, games>>

\* POST /profile/daily-solved, with the streak the device holds; the answer is the streak.
DailySolved(j, p, local, tells) ==
  LET q == MigrateLocalStreak(Loaded(p), local) IN
  /\ TakeUp(j, <<Telling(tells, Write(p, RecordQuestDaily(ApplyDailySolve(q))))>>)
  /\ solved' = [solved EXCEPT ![p] =
       @ \cup {day} \cup (IF q # Loaded(p) THEN local.last - local.count + 1 .. local.last ELSE {})]
  /\ UNCHANGED <<games, practised, begun>>

\* recordGameResult: both profiles are loaded together and saved one after the other.
RecordGameResult(j, p, q, winner) ==
  LET Result(x) == RecordQuestGame(ApplyGameResult(Loaded(x), x = winner), x = winner) IN
  /\ p # q
  /\ Begin(j, <<Write(p, Result(p)), Write(q, Result(q))>>)
  /\ games' = [x \in Players |-> IF x \in {p, q} THEN Append(games[x], <<day, x = winner>>) ELSE games[x]]
  /\ UNCHANGED <<solved, practised>>

-----------------------------------------------------------------------------
(* The retention sweep: player by player, with the day it started on.      *)

StreakNudgeDue(p, evening) ==
  /\ evening    \* STREAK_NUDGE_FROM_HOUR
  /\ p.lastDaily = sweep.day - 1 /\ p.streak >= 1 /\ p.streakNudge # sweep.day

TurnNudgeDue(p, stale) == p.turnNudge # sweep.day /\ stale

SweepStarts ==
  /\ sweep.left = {} /\ sweep.at = NoPlayer /\ begun < MaxBegun /\ begun' = begun + 1
  /\ \E p \in Regulars : store[p] # NoProfile
  /\ sweep' = [sweep EXCEPT !.left = {p \in Regulars : store[p] # NoProfile}, !.day = day]
  /\ UNCHANGED <<day, store, job, history, nudged, nagged, undone, mishaps>>

\* The hour, and the matches that wait on the player: either answer.
SweepReads(p) ==
  /\ sweep.at = NoPlayer /\ p \in sweep.left /\ UnderWay < Cardinality(Jobs)
  /\ \E evening, stale \in BOOLEAN :
       LET kind == IF StreakNudgeDue(store[p], evening) THEN "streak"
                   ELSE IF TurnNudgeDue(store[p], stale) THEN "turn" ELSE "none" IN
       sweep' = [sweep EXCEPT !.left = @ \ {p}, !.kind = kind, !.base = store[p], !.told = FALSE,
                              !.at = IF kind = "none" THEN NoPlayer ELSE p]
  /\ UNCHANGED <<day, store, job, history, nudged, nagged, undone, mishaps, begun>>

SweepNotifies ==
  LET n == <<sweep.kind, sweep.at, sweep.day>> IN
  /\ sweep.at # NoPlayer /\ ~sweep.told
  /\ sweep' = [sweep EXCEPT !.told = TRUE]
  /\ nudged' = nudged \cup {n}
  /\ nagged' = IF n \in nudged THEN nagged \cup {n} ELSE nagged
  /\ UNCHANGED <<day, store, job, history, undone, mishaps, begun>>

Stamped(p) ==
  IF sweep.kind = "streak" THEN [p EXCEPT !.streakNudge = sweep.day] ELSE [p EXCEPT !.turnNudge = sweep.day]

SweepSaves ==
  /\ sweep.at # NoPlayer /\ sweep.told
  /\ Put(sweep.at, sweep.base, Stamped(sweep.base))
  /\ sweep' = [sweep EXCEPT !.at = NoPlayer]
  /\ UNCHANGED <<day, job, history, nudged, nagged, mishaps, begun>>

\* A notification or a save that throws: the sweep goes on to the next player.
SweepFails ==
  /\ sweep.at # NoPlayer /\ mishaps < MaxMishaps
  /\ sweep' = [sweep EXCEPT !.at = NoPlayer] /\ mishaps' = mishaps + 1
  /\ UNCHANGED <<day, store, job, history, nudged, nagged, undone, begun>>

-----------------------------------------------------------------------------
\* A restart: what was under way is never saved.
Redeploy ==
  /\ mishaps < MaxMishaps
  /\ job' = [j \in Jobs |-> Free] /\ sweep' = [sweep EXCEPT !.left = {}, !.at = NoPlayer]
  /\ job' # job \/ sweep' # sweep
  /\ mishaps' = mishaps + 1
  /\ UNCHANGED <<day, store, history, nudged, nagged, undone, begun>>

Midnight ==
  /\ day < LastDay
  /\ day' = day + 1
  /\ UNCHANGED <<store, job, sweep, history, nudged, nagged, undone, mishaps, begun>>

\* But for the saves of profiles and the reports of the daily page, which answers.
OtherNext ==
  \/ \E j \in Jobs, p \in Regulars :
       \/ ViewProfile(j, p) \/ PracticePlayed(j, p)
       \/ \E q \in Players, winner \in Players : RecordGameResult(j, p, q, winner)
  \/ SweepStarts \/ SweepNotifies \/ SweepSaves \/ SweepFails
  \/ \E p \in Players : SweepReads(p)
  \/ Redeploy \/ Midnight

-----------------------------------------------------------------------------
(* Properties.                                                             *)

Profile ==
  [streak : Nat, lastDaily : 0 .. LastDay, played : Nat, won : Nat,
   quests : [day : {Never} \cup Days, play : Nat, win : Nat, practice : Nat,
             solved : BOOLEAN, rewarded : BOOLEAN],
   perfect : Nat, streakNudge : {Never} \cup Days, turnNudge : {Never} \cup Days]

\* The store holds profiles, and a counter never passes what its players did.
ProfilesTypeOK ==
  /\ store \in [Players -> Profile \cup {NoProfile}]
  /\ \A j \in Jobs : job[j] = Free \/ Len(job[j]) \in {1, 2}
  /\ sweep.at = NoPlayer \/ sweep.base \in Profile
  /\ \A p \in Players : store[p] # NoProfile =>
       store[p].won <= store[p].played /\ store[p].played <= Len(games[p])

On(d, events) == Len(SelectSeq(events, LAMBDA e : e[1] = d))
Won(d, events) == Len(SelectSeq(events, LAMBDA e : e = <<d, TRUE>>))

\* What a player did on a day that any set of quests asks for.
Perfect(p, d) ==
  /\ d \in solved[p]
  /\ \/ On(d, games[p]) >= PlayTarget[d] /\ Won(d, games[p]) >= WinTarget[d]
     \/ On(d, games[p]) >= 1 /\ d \in ToSet(practised[p])

\* However operations overlap, repeat, straddle midnight or are cut short, a streak
\* is made of consecutive days on which the puzzle was solved (applyDailySolve,
\* migrateLocalStreak).
StreakEarned ==
  \A p \in Players : store[p] # NoProfile =>
    LET s == store[p] IN s.lastDaily - s.streak + 1 .. s.lastDaily \subseteq solved[p]

\* However operations overlap, a day is counted as perfect once, and only if its
\* quests were all done on that very day (settle, currentProgress).
PerfectEarned ==
  \A p \in Players : store[p] # NoProfile =>
    store[p].perfect <= Cardinality({d \in Days : Perfect(p, d)})

\* A player none of whose saves undid another, and for whom nothing is under way,
\* has every game counted and the streak of the last run of solved days: operations
\* of one player lose nothing as long as they do not overlap.
Settled(p) == p \notin undone /\ mishaps = 0 /\ \A j \in Jobs :
  job[j] = Free \/ \A i \in DOMAIN job[j] : job[j][i].player # p

NothingForgotten ==
  \A p \in Players : Settled(p) /\ store[p] # NoProfile =>
    LET s == store[p] IN
    /\ s.played = Len(games[p]) /\ s.won = Len(SelectSeq(games[p], LAMBDA e : e[2]))
    /\ solved[p] # {} => s.lastDaily \in solved[p] /\ \A d \in solved[p] : d <= s.lastDaily
    /\ s.lastDaily # Never => s.lastDaily - s.streak \notin solved[p]

\* The same nudge is not sent twice in a day to a player none of whose saves undid
\* another, unless the server failed between the notification and the save (the
\* sweep stamps the profile).
NudgedOnce == mishaps = 0 => \A n \in nagged : n[2] \in undone

\* The set of quests a player sees does not change within a day, saves that undo
\* another and games that straddle midnight aside (isBeginner).
QuestSetStable ==
  [][\A p \in Players :
       /\ day' = day /\ p \notin undone' /\ store[p] # NoProfile
       /\ store'[p].quests.day = day
       => IsBeginner(store'[p], CurrentProgress(store'[p])) = IsBeginner(store[p], CurrentProgress(store[p]))]_pvars

\* profile/store.ts: the count of perfect days "only ever grows".
PerfectDaysGrow ==
  [][\A p \in Players : store[p] # NoProfile => store'[p].perfect >= store[p].perfect]_pvars

\* What a profile counts happened: its games, its days, its perfect days and its nudges.
ProfileInv ==
  /\ ProfilesTypeOK
  /\ StreakEarned
  /\ PerfectEarned
  /\ NothingForgotten
  /\ NudgedOnce
=============================================================================
