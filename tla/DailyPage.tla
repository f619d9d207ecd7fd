------------------------------- MODULE DailyPage -------------------------------
(***************************************************************************)
(* The daily puzzle on a player's device (lib/daily.ts, daily/page.tsx,    *)
(* lib/profile.ts): a streak of its own in localStorage, the page, and its *)
(* two requests to the profiles of the server.                             *)
(*                                                                         *)
(* The puzzle is chosen when the page opens; the day is read again when it *)
(* is solved.  What the best move is, is PuzzleExact of Ai.                *)
(***************************************************************************)
EXTENDS Profiles

CONSTANT Closed  \* no page

VARIABLES
  device,   \* awale_daily, by player
  page,     \* the page, by player
  posts,    \* POST /profile/daily-solved on the way, with the device's streak
  did,      \* history: the days each player solved a puzzle on
  silent,   \* history: players the server has known and not been told of a solve
  late      \* history: players a report of whose was served on another day

dailyVars == <<device, page, posts, did, silent, late>>

NoStreak == [count |-> 0, last |-> Never]

\* The device may have a streak of its own.
DailyInit ==
  /\ ProfilesInit
  /\ device \in [Regulars -> {NoStreak} \cup [count : {2}, last : {day - 1}]]
  /\ did = [p \in Regulars |-> device[p].last - device[p].count + 1 .. device[p].last]
  /\ page = [p \in Regulars |-> Closed] /\ posts = {}
  /\ silent = {} /\ late = {}

-----------------------------------------------------------------------------
(* lib/daily.ts.                                                           *)

StreakCount(s) == IF s.last \in {day - 1, day} THEN s.count ELSE 0
SolvedToday(s) == s.last = day

\* Slip: a streak that was missed goes on.
RecordUnbroken(s) == IF s.last = day THEN s ELSE [count |-> s.count + 1, last |-> day]

RecordSolved(s) ==
  IF s.last = day THEN s ELSE [count |-> IF s.last = day - 1 THEN s.count + 1 ELSE 1, last |-> day]

-----------------------------------------------------------------------------
(* The page.                                                               *)

\* The report of a page that is left is not called back, but nobody waits for the answer.
OpenDaily(p) ==
  /\ begun < MaxBegun /\ begun' = begun + 1
  /\ page' = [page EXCEPT ![p] =
       [done |-> SolvedToday(device[p]), streak |-> StreakCount(device[p]), account |-> FALSE]]
  /\ posts' = {IF post.player = p THEN [post EXCEPT !.tells = "nothing"] ELSE post : post \in posts}
  /\ job' = [j \in Jobs |-> IF job[j] = Free \/ Head(job[j]).player # p THEN job[j]
                            ELSE <<Telling("nothing", Head(job[j]))>> \o Tail(job[j])]
  /\ UNCHANGED <<day, store, sweep, history, nudged, nagged, undone, mishaps, device, did, silent, late>>

\* connect, then getProfile.
KnowsWallet(j, p) ==
  /\ page[p] # Closed /\ ~page[p].account
  /\ page' = [page EXCEPT ![p].account = TRUE]
  /\ TakeUp(j, <<Telling("profile", Write(p, Loaded(p)))>>)
  /\ UNCHANGED <<history, begun, device, posts, did, silent, late>>

\* onPlay, with the best house: without a wallet the server is told nothing.
SolvePuzzle(p) ==
  LET local == RecordSolved(device[p]) IN
  /\ page[p] # Closed /\ ~page[p].done
  /\ device' = [device EXCEPT ![p] = local]
  /\ did' = [did EXCEPT ![p] = @ \cup {day}]
  /\ page' = [page EXCEPT ![p].done = TRUE, ![p].streak = local.count]
  /\ posts' = IF page[p].account THEN posts \cup {[player |-> p, local |-> local, tells |-> "solve"]} ELSE posts
  /\ silent' = IF page[p].account \/ solved[p] = {} THEN silent ELSE silent \cup {p}
  /\ UNCHANGED <<pvars, late>>

Reported(j, post) ==
  /\ posts' = posts \ {post}
  /\ DailySolved(j, post.player, post.local, post.tells)
  /\ late' = IF post.local.last = day THEN late ELSE late \cup {post.player}
  /\ UNCHANGED <<device, page, did, silent>>

\* A handler answers once it has saved, and the page takes the answer: the profile's
\* streak when it is longer than what it shows, a report's in any case.
SaveAndAnswer(j) ==
  LET w == Head(job[j])
      streak == LiveStreak(w.rec) IN
  /\ SaveProfile(j)
  /\ page' = IF w.tells = "nothing" THEN page
             ELSE [page EXCEPT ![w.player].streak =
                     IF w.tells = "profile" /\ @ > streak THEN @ ELSE streak]
  /\ UNCHANGED <<device, posts, did, silent, late>>

\* A request that never arrives; the page ignores it.
ReportLost(post) ==
  /\ posts' = posts \ {post}
  /\ mishaps < MaxMishaps /\ mishaps' = mishaps + 1
  /\ silent' = silent \cup {post.player}
  /\ UNCHANGED <<day, store, job, sweep, history, nudged, nagged, undone, begun, device, page, did, late>>

DailyNext ==
  \/ OtherNext /\ UNCHANGED dailyVars
  \/ \E j \in Jobs : SaveAndAnswer(j) \/ \E p \in Regulars : KnowsWallet(j, p)
  \/ \E p \in Regulars : OpenDaily(p) \/ SolvePuzzle(p)
  \/ \E post \in posts : ReportLost(post) \/ \E j \in Jobs : Reported(j, post)

-----------------------------------------------------------------------------
(* Properties.                                                             *)

DailyTypeOK ==
  \A p \in Regulars :
    /\ device[p] \in [count : Nat, last : 0 .. day]
    /\ page[p] = Closed \/ page[p] \in [done : BOOLEAN, streak : Nat, account : BOOLEAN]

Run(last, count) == last - count + 1 .. last

\* The device's streak is made of consecutive days on which its player solved a
\* puzzle, pages left open over midnight included (recordSolved).
DeviceEarned == \A p \in Regulars : Run(device[p].last, device[p].count) \subseteq did[p]

\* The server credits no day the player did not solve on, nor the day after unless a
\* report was late (applyDailySolve, migrateLocalStreak).
ServerEarned ==
  \A p \in Regulars : store[p] # NoProfile /\ p \notin late =>
    Run(store[p].lastDaily, store[p].streak) \subseteq did[p]

\* No page shows a streak that was not lived, by this device or, when a report was
\* late, by the count of the server.
ShownEarned ==
  \A p \in Regulars : page[p] # Closed /\ p \notin late =>
    page[p].streak = 0 \/ \E d \in did[p] : Run(d, page[p].streak) \subseteq did[p]

\* "Server is the source of truth" (daily/page.tsx:64): a player all of whose solves
\* since the first have been reported, on their day, finds on the server what the
\* device says, once nothing is under way.
SourceOfTruth ==
  \A p \in Regulars :
    /\ store[p] # NoProfile /\ solved[p] # {} /\ Settled(p)
    /\ p \notin silent \cup late /\ \A post \in posts : post.player # p
    => store[p].lastDaily = device[p].last /\ store[p].streak = device[p].count

\* Profiles and devices count what happened.
DailyInv ==
  /\ ProfileInv
  /\ DailyTypeOK
  /\ DeviceEarned
  /\ ServerEarned
  /\ ShownEarned
  /\ SourceOfTruth
=============================================================================
