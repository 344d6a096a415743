-------------------------------- MODULE Story --------------------------------
(***************************************************************************)
(* The story episodes of one player: listing, reading and completing them  *)
(* (internal/usecase/story/service.go over                                 *)
(* internal/repository/postgres/story_repo.go), and the lock that guards   *)
(* them (internal/domain/scenario.go). A request puts its picture of the   *)
(* player together from four reads at four moments, two of them calls to   *)
(* account; other requests complete episodes, account raises the level and *)
(* hands out factions, and operators publish and withdraw episodes in      *)
(* between.                                                                *)
(*                                                                         *)
(* Taken from outside the code: a player's level never falls and a faction *)
(* once owned stays owned (account), and what an episode requires does not *)
(* change while the server runs (master data).                             *)
(***************************************************************************)
EXTENDS Naturals

CONSTANTS
    Requests,          \* requests that can be in progress at a time
    Episodes,          \* rows of scenario_episodes
    Unknown,           \* an episode id no row has
    MaxLevel,          \* bound: the highest level account hands out
    Factions,
    RequiredLevel,     \* per episode: required_level,
    RequiredFactions,  \*   episode_required_factions,
    RequiredEpisodes,  \*   required_episodes
    Scripted           \* episodes whose script is in the store

ASSUME EpisodesAssumption ==
    /\ Unknown \notin Episodes
    /\ MaxLevel \in Nat
    /\ RequiredLevel \in [Episodes -> Nat]
    /\ RequiredFactions \in [Episodes -> SUBSET Factions]
    /\ RequiredEpisodes \in [Episodes -> SUBSET Episodes]
    /\ Scripted \subseteq Episodes

VARIABLES
    active,      \* episodes with is_active
    completed,   \* player_story_progress
    level,       \* account: players.level
    owned,       \* account: the player's factions
    req,         \* what each request is doing, and the picture it has so far
    toldDone     \* completions answered 200 and received

vars == <<active, completed, level, owned, req, toldDone>>

Levels == 0 .. MaxLevel
Ops == {"list", "script", "complete"}
Steps == {"idle", "list_active", "find", "player", "factions", "progress", "read",
          "mark", "done"}
Outcomes == {"none", "ok", "episode_not_found", "episode_locked",
             "script_not_found", "internal"}

(* What an episode lacks for a player at level l with factions o who has     *)
(* completed the episodes c: LockReasons. No reason means unlocked.          *)
LockReasons(e, l, o, c) ==
    (IF l < RequiredLevel[e] THEN {[type |-> "level"]} ELSE {})
    \union {[type |-> "faction", faction |-> f] : f \in RequiredFactions[e] \ o}
    \union {[type |-> "episode", episode |-> p] : p \in RequiredEpisodes[e] \ c}

Unlocked(e, l, o, c) == LockReasons(e, l, o, c) = {}

UnlockedNow(e) == Unlocked(e, level, owned, completed)

Idle == [op |-> "list", episode |-> Unknown, step |-> "idle", outcome |-> "none",
         episodes |-> {}, level |-> 0, owned |-> {}, progress |-> {},
         wasOpen |-> {}, wasDone |-> {}, offered |-> FALSE, failed |-> FALSE]

Init ==
    /\ active \in SUBSET Episodes
    /\ completed = {}
    /\ level = 0
    /\ owned = {}
    /\ req = [r \in Requests |-> Idle]
    /\ toldDone = {}

-----------------------------------------------------------------------------
(* Requests *)

Goto(r, step) == req' = [req EXCEPT ![r].step = step]
Answer(r, outcome) == req' = [req EXCEPT ![r].step = "done", ![r].outcome = outcome]

(* A query or a call to account returned an error: it did not get through,   *)
(* or the other side is in trouble. "failed" notes it for the properties.    *)
Fail(r) ==
    req' = [req EXCEPT ![r] = [Idle EXCEPT !.op = req[r].op, !.step = "done",
                                           !.outcome = "internal", !.failed = TRUE]]

(* A request arrives. For the properties it notes what is unlocked at that   *)
(* moment, which completions the client has been told of, and whether its    *)
(* own episode is published (as long as it stays so: Withdraw).              *)
Arrive(r) ==
    /\ req[r].step = "idle"
    /\ \E op \in Ops, e \in Episodes \union {Unknown} :
        /\ op = "list" => e = Unknown
        /\ req' = [req EXCEPT ![r] =
              [Idle EXCEPT !.op = op, !.episode = e,
                           !.step = IF op = "list" THEN "list_active" ELSE "find",
                           !.wasOpen = {x \in Episodes : UnlockedNow(x)},
                           !.wasDone = toldDone,
                           !.offered = e \in active]]
    /\ UNCHANGED <<active, completed, level, owned, toldDone>>

(* ListActiveEpisodes: the rows with is_active. *)
ListActiveEpisodes(r) ==
    /\ req[r].step = "list_active"
    /\ \/ req' = [req EXCEPT ![r].step = "player", ![r].episodes = active]
       \/ Fail(r)
    /\ UNCHANGED <<active, completed, level, owned, toldDone>>

(* FindEpisodeByID: an episode that is not active does not exist. *)
FindEpisode(r) ==
    /\ req[r].step = "find"
    /\ \/ req[r].episode \in active /\ Goto(r, "player")
       \/ req[r].episode \notin active /\ Answer(r, "episode_not_found")
       \/ Fail(r)
    /\ UNCHANGED <<active, completed, level, owned, toldDone>>

(* loadUnlockContext: GetPlayerProgress asks account twice, for the player   *)
(* and for the factions; an account that does not know the player is an      *)
(* error like any other.                                                     *)
ReadPlayer(r) ==
    /\ req[r].step = "player"
    /\ \/ req' = [req EXCEPT ![r].step = "factions", ![r].level = level]
       \/ Fail(r)
    /\ UNCHANGED <<active, completed, level, owned, toldDone>>

ReadFactions(r) ==
    /\ req[r].step = "factions"
    /\ \/ req' = [req EXCEPT ![r].step = "progress", ![r].owned = owned]
       \/ Fail(r)
    /\ UNCHANGED <<active, completed, level, owned, toldDone>>

(* Mutant of ReadProgress: CompleteEpisode does not ask for the lock. *)
ReadProgressUnguarded(r) ==
    /\ req[r].step = "progress"
    /\ req' = [req EXCEPT ![r].progress = completed,
                          ![r].step = IF req[r].op = "complete" THEN "mark" ELSE "done"]
    /\ UNCHANGED <<active, completed, level, owned, toldDone>>

(* GetCompletedEpisodeIDs is the last read. Then the list is built, or the   *)
(* lock is decided.                                                          *)
ReadProgress(r) ==
    /\ req[r].step = "progress"
    /\ \/ /\ LET q == req[r]
                 locked == q.op # "list" /\ ~Unlocked(q.episode, q.level, q.owned, completed)
             IN  req' = [req EXCEPT
                     ![r].progress = completed,
                     ![r].step = IF locked \/ q.op = "list" THEN "done"
                                 ELSE IF q.op = "script" THEN "read" ELSE "mark",
                     ![r].outcome = IF locked THEN "episode_locked"
                                    ELSE IF q.op = "list" THEN "ok" ELSE "none"]
       \/ Fail(r)
    /\ UNCHANGED <<active, completed, level, owned, toldDone>>

ReadScript(r) ==
    /\ req[r].step = "read"
    /\ \/ Answer(r, IF req[r].episode \in Scripted THEN "ok" ELSE "script_not_found")
       \/ Fail(r)
    /\ UNCHANGED <<active, completed, level, owned, toldDone>>

(* Mutant of MarkComplete: the error of the INSERT is dropped. *)
MarkCompleteUnchecked(r) ==
    /\ req[r].step = "mark"
    /\ completed' \in {completed, completed \union {req[r].episode}}
    /\ Answer(r, "ok")
    /\ UNCHANGED <<active, level, owned, toldDone>>

(* Mutant of MarkComplete: the INSERT is without its ON CONFLICT. *)
MarkCompleteOnce(r) ==
    /\ req[r].step = "mark"
    /\ \/ /\ req[r].episode \in completed
          /\ UNCHANGED completed /\ Answer(r, "internal")
       \/ /\ req[r].episode \notin completed
          /\ completed' = completed \union {req[r].episode}
          /\ Answer(r, "ok") \/ Fail(r)
       \/ UNCHANGED completed /\ Fail(r)
    /\ UNCHANGED <<active, level, owned, toldDone>>

(* MarkComplete: INSERT ... ON CONFLICT DO NOTHING, so a row that is there   *)
(* already is no error. The statement takes effect and is answered, takes    *)
(* effect with the answer lost, or fails.                                    *)
MarkComplete(r) ==
    /\ req[r].step = "mark"
    /\ \/ completed' = completed \union {req[r].episode} /\ Answer(r, "ok")
       \/ completed' = completed \union {req[r].episode} /\ Fail(r)
       \/ UNCHANGED completed /\ Fail(r)
    /\ UNCHANGED <<active, level, owned, toldDone>>

Receive(r) ==
    /\ req[r].step = "done"
    /\ toldDone' = IF req[r].op = "complete" /\ req[r].outcome = "ok"
                   THEN toldDone \union {req[r].episode} ELSE toldDone
    /\ req' = [req EXCEPT ![r] = Idle]
    /\ UNCHANGED <<active, completed, level, owned>>

-----------------------------------------------------------------------------
(* Mutant of ShownUnlocked: the list decides without the earlier episodes. *)
ShownUnlockedEarly(q) ==
    {e \in q.episodes : Unlocked(e, q.level, q.owned, Episodes)}

(* What the list shows of an episode: BuildEpisodeWithStatus. *)
ShownUnlocked(q) ==
    {e \in q.episodes : Unlocked(e, q.level, q.owned, q.progress)}

(* Mutant of ShownCompleted: every unlocked episode counts as completed. *)
ShownCompletedEarly(q) == ShownUnlocked(q)

ShownCompleted(q) == q.episodes \cap q.progress

-----------------------------------------------------------------------------
(* The rest of the world *)

(* The server dies with the requests in progress. *)
Crash ==
    /\ \E r \in Requests : req[r].step # "idle"
    /\ req' = [r \in Requests |-> Idle]
    /\ UNCHANGED <<active, completed, level, owned, toldDone>>

LevelUp ==
    /\ level < MaxLevel
    /\ level' = level + 1
    /\ UNCHANGED <<active, completed, owned, req, toldDone>>

GainFaction(f) ==
    /\ f \notin owned
    /\ owned' = owned \union {f}
    /\ UNCHANGED <<active, completed, level, req, toldDone>>

Publish(e) ==
    /\ active' = active \union {e}
    /\ UNCHANGED <<completed, level, owned, req, toldDone>>

Withdraw(e) ==
    /\ active' = active \ {e}
    /\ req' = [r \in Requests |->
                  [req[r] EXCEPT !.offered = @ /\ req[r].episode # e]]
    /\ UNCHANGED <<completed, level, owned, toldDone>>

Next ==
    \/ \E r \in Requests :
        \/ Arrive(r)
        \/ ListActiveEpisodes(r) \/ FindEpisode(r)
        \/ ReadPlayer(r) \/ ReadFactions(r) \/ ReadProgress(r)
        \/ ReadScript(r) \/ MarkComplete(r)
        \/ Receive(r)
    \/ Crash
    \/ LevelUp
    \/ \E f \in Factions : GainFaction(f)
    \/ \E e \in Episodes : Publish(e) \/ Withdraw(e)

Spec == Init /\ [][Next]_vars

-----------------------------------------------------------------------------
(* Properties *)

RequestRecords ==
    [op : Ops, episode : Episodes \union {Unknown}, step : Steps,
     outcome : Outcomes, episodes : SUBSET Episodes, level : Levels,
     owned : SUBSET Factions, progress : SUBSET Episodes,
     wasOpen : SUBSET Episodes, wasDone : SUBSET Episodes,
     offered : BOOLEAN, failed : BOOLEAN]

(* Every variable has its type, and no client was told of a completion that  *)
(* is not recorded.                                                          *)
TypeOK ==
    /\ active \subseteq Episodes
    /\ completed \subseteq Episodes
    /\ level \in Levels
    /\ owned \subseteq Factions
    /\ toldDone \subseteq completed
    /\ req \in [Requests -> RequestRecords]

(* Nobody completes an episode he may not play: although the lock was        *)
(* decided on reads of different moments, the player does have the level,    *)
(* the factions and the earlier episodes of all he has completed.            *)
CompletionsAreEarned == \A e \in completed : UnlockedNow(e)

ShowsList(q) == q.step = "done" /\ q.op = "list" /\ q.outcome = "ok"

Listed == {r \in Requests : ShowsList(req[r])}

(* The list and the lock agree with the world and so with each other: an     *)
(* episode shown unlocked is unlocked, one shown locked was locked when the  *)
(* request arrived, and a request is refused only when the lock was closed   *)
(* on its arrival: what was once open is never refused.                      *)
LocksAreTrue ==
    /\ \A r \in Listed :
        /\ \A e \in ShownUnlocked(req[r]) : UnlockedNow(e)
        /\ req[r].episodes \cap req[r].wasOpen \subseteq ShownUnlocked(req[r])
    /\ \A r \in Requests :
        req[r].outcome = "episode_locked" => req[r].episode \notin req[r].wasOpen

(* A client that was told of a completion sees it in every later list, and   *)
(* the list shows none that did not happen.                                  *)
CompletionsAreShown ==
    \A r \in Listed :
        /\ req[r].episodes \cap req[r].wasDone \subseteq ShownCompleted(req[r])
        /\ ShownCompleted(req[r]) \subseteq completed

(* Completing may be repeated (story_repo.go 118): a request to complete an  *)
(* episode that was open when it came, and published for as long as it took, *)
(* is answered 200 unless something failed. That the episode is completed    *)
(* already, by a request whose answer was lost, by one that died, or by one  *)
(* running at the same time, makes no difference.                            *)
CompletionIsRepeatable ==
    \A r \in Requests :
        LET q == req[r] IN
        q.op = "complete" /\ q.step = "done" /\ ~q.failed =>
            \/ q.outcome = "ok"
            \/ ~q.offered
            \/ q.episode \notin q.wasOpen

-----------------------------------------------------------------------------
(* Why they hold. A request's picture is never ahead of the world, because   *)
(* the world only grows; from the moment it has read a part, that part is    *)
(* not behind the arrival either.                                            *)
StepFitsOperation(q) ==
    /\ q.step = "list_active" => q.op = "list"
    /\ q.step = "read" => q.op = "script"
    /\ q.step = "mark" => q.op = "complete"
    /\ q.step \in {"player", "factions", "progress", "read", "mark"} /\ q.op # "list"
          => q.episode \in Episodes

PictureIsPast(q) ==
    /\ q.level <= level
    /\ q.owned \subseteq owned
    /\ q.progress \subseteq completed

MarkIsEarned(q) ==
    q.step = "mark" => Unlocked(q.episode, q.level, q.owned, q.progress)

OpenStaysOpen(q) ==
    \A x \in q.wasOpen :
        /\ UnlockedNow(x)
        /\ q.step \in {"factions", "progress"} => RequiredLevel[x] <= q.level
        /\ q.step = "progress" => RequiredFactions[x] \subseteq q.owned
        /\ ShowsList(q) => Unlocked(x, q.level, q.owned, q.progress)
        /\ q.outcome = "episode_locked" => q.episode # x

DoneStaysDone(q) ==
    /\ q.wasDone \subseteq toldDone
    /\ ShowsList(q) => q.wasDone \subseteq q.progress
    /\ q.op = "complete" /\ q.outcome = "ok" => q.episode \in completed

RequestInv(q) ==
    /\ StepFitsOperation(q)
    /\ PictureIsPast(q)
    /\ MarkIsEarned(q)
    /\ OpenStaysOpen(q)
    /\ DoneStaysDone(q)

(* An answer other than 200 to a completion has its reason: the episode was  *)
(* not published, something failed, or the lock.                             *)
AnswerHasReason(q) ==
    /\ q.step = "find" /\ q.offered => q.episode \in active
    /\ q.outcome = "episode_not_found" => ~q.offered
    /\ q.outcome = "internal" => q.failed
    /\ q.op = "complete" /\ q.step = "done" =>
          q.outcome \in {"ok", "episode_not_found", "episode_locked", "internal"}

ReasonInv == \A r \in Requests : AnswerHasReason(req[r])

StoryInv == CompletionsAreEarned /\ \A r \in Requests : RequestInv(req[r])
=============================================================================
