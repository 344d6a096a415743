----------------------------- MODULE StoryProofs -----------------------------
(***************************************************************************)
(* Proofs about Story, for any episodes with any requirements, any number  *)
(* of concurrent requests and any levels and factions.                     *)
(***************************************************************************)
EXTENDS Story, TLAPS

USE EpisodesAssumption

(* No lock reason means that all three kinds of requirement are met.         *)
LEMMA UnlockedMeans ==
    ASSUME NEW e \in Episodes, NEW l \in Levels, NEW o, NEW c
    PROVE  Unlocked(e, l, o, c) <=>
              /\ RequiredLevel[e] <= l
              /\ RequiredFactions[e] \subseteq o
              /\ RequiredEpisodes[e] \subseteq c
<1> DEFINE L == IF l < RequiredLevel[e] THEN {[type |-> "level"]} ELSE {}
           F == {[type |-> "faction", faction |-> f] : f \in RequiredFactions[e] \ o}
           E == {[type |-> "episode", episode |-> p] : p \in RequiredEpisodes[e] \ c}
<1>1. Unlocked(e, l, o, c) <=> L = {} /\ F = {} /\ E = {}
  <2>1. LockReasons(e, l, o, c) = L \union F \union E
    BY DEF LockReasons
  <2> HIDE DEF L, F, E
  <2>2. QED
    BY <2>1 DEF Unlocked
<1>2. L = {} <=> RequiredLevel[e] <= l
  <2>1. L = {} <=> ~(l < RequiredLevel[e])
    <3>1. [type |-> "level"] \in {[type |-> "level"]}
      OBVIOUS
    <3>2. QED
      BY <3>1, Zenon
  <2>2. ~(l < RequiredLevel[e]) <=> RequiredLevel[e] <= l
    <3>1. l \in Nat /\ RequiredLevel[e] \in Nat
      BY DEF Levels
    <3>2. QED
      BY <3>1, SMT
  <2> HIDE DEF L
  <2>3. QED
    BY <2>1, <2>2
<1>3. F = {} <=> RequiredFactions[e] \subseteq o
  <2>1. ASSUME F = {}, NEW f \in RequiredFactions[e], f \notin o PROVE FALSE
    <3>1. f \in RequiredFactions[e] \ o
      BY <2>1
    <3>2. [type |-> "faction", faction |-> f] \in F
      BY <3>1, Zenon
    <3>3. QED
      BY <2>1, <3>2, Zenon
  <2>2. ASSUME RequiredFactions[e] \subseteq o, NEW y \in F PROVE FALSE
    <3>1. PICK f \in RequiredFactions[e] \ o : y = [type |-> "faction", faction |-> f]
      BY Zenon
    <3>2. QED
      BY <2>2
  <2> HIDE DEF F
  <2>3. QED
    BY <2>1, <2>2
<1>4. E = {} <=> RequiredEpisodes[e] \subseteq c
  <2>1. ASSUME E = {}, NEW p \in RequiredEpisodes[e], p \notin c PROVE FALSE
    <3>1. p \in RequiredEpisodes[e] \ c
      BY <2>1
    <3>2. [type |-> "episode", episode |-> p] \in E
      BY <3>1, Zenon
    <3>3. QED
      BY <2>1, <3>2, Zenon
  <2>2. ASSUME RequiredEpisodes[e] \subseteq c, NEW y \in E PROVE FALSE
    <3>1. PICK p \in RequiredEpisodes[e] \ c : y = [type |-> "episode", episode |-> p]
      BY Zenon
    <3>2. QED
      BY <2>2
  <2> HIDE DEF E
  <2>3. QED
    BY <2>1, <2>2
<1> HIDE DEF L, F, E
<1>5. QED
  BY <1>1, <1>2, <1>3, <1>4

(* What is unlocked stays unlocked for a player who has more.                *)
LEMMA UnlockedGrows ==
    ASSUME NEW e \in Episodes, NEW l \in Levels, NEW k \in Levels, l <= k,
           NEW o, NEW p, o \subseteq p, NEW c, NEW d, c \subseteq d,
           Unlocked(e, l, o, c)
    PROVE  Unlocked(e, k, p, d)
<1>1. RequiredLevel[e] <= l /\ RequiredFactions[e] \subseteq o /\ RequiredEpisodes[e] \subseteq c
  BY UnlockedMeans
<1>2. RequiredLevel[e] <= k
  BY <1>1, SMT DEF Levels
<1>3. QED
  BY <1>1, <1>2, UnlockedMeans

-----------------------------------------------------------------------------
(* The world only grows: level, factions and completions. *)
Grows ==
    /\ level <= level'
    /\ owned \subseteq owned'
    /\ completed \subseteq completed'
    /\ toldDone \subseteq toldDone'

LEMMA WorldGrows == TypeOK /\ [Next]_vars => Grows
<1> SUFFICES ASSUME TypeOK, [Next]_vars PROVE Grows
  OBVIOUS
<1> USE DEF Grows, TypeOK
<1>1. ASSUME UNCHANGED <<completed, level, owned, toldDone>> PROVE Grows
  BY <1>1, SMT DEF Levels
<1>2. ASSUME NEW r \in Requests,
             Arrive(r) \/ ListActiveEpisodes(r) \/ FindEpisode(r) \/ ReadPlayer(r)
               \/ ReadFactions(r) \/ ReadProgress(r) \/ ReadScript(r)
      PROVE  Grows
  BY <1>1, <1>2, Zenon DEF Arrive, ListActiveEpisodes, FindEpisode, ReadPlayer, ReadFactions,
              ReadProgress, ReadScript
<1>3. ASSUME NEW r \in Requests, MarkComplete(r) PROVE Grows
  BY <1>3, SMT DEF MarkComplete, Levels
<1>4. ASSUME NEW r \in Requests, Receive(r) PROVE Grows
  BY <1>4, SMT DEF Receive, Levels
<1>5. CASE Crash
  BY <1>1, <1>5 DEF Crash
<1>6. CASE LevelUp
  BY <1>6, SMT DEF LevelUp, Levels
<1>7. ASSUME NEW f \in Factions, GainFaction(f) PROVE Grows
  BY <1>7, SMT DEF GainFaction, Levels
<1>8. ASSUME NEW e \in Episodes, Publish(e) \/ Withdraw(e) PROVE Grows
  BY <1>1, <1>8 DEF Publish, Withdraw
<1>9. CASE UNCHANGED vars
  BY <1>1, <1>9 DEF vars
<1>10. QED
  BY <1>2, <1>3, <1>4, <1>5, <1>6, <1>7, <1>8, <1>9 DEF Next

(* What a request relies on stays true while the world grows. *)
LEMMA RequestInvKept ==
    ASSUME TypeOK, TypeOK', Grows, NEW q \in RequestRecords, RequestInv(q)
    PROVE  RequestInv(q)'
<1> USE DEF RequestInv, Grows
<1>0. /\ level \in Levels /\ level' \in Levels /\ q.level \in Levels
      /\ q.wasOpen \subseteq Episodes
  BY DEF TypeOK, RequestRecords
<1>1. StepFitsOperation(q)'
  BY DEF StepFitsOperation
<1>2. PictureIsPast(q)'
  <2>1. q.level <= level'
    BY <1>0, SMT DEF PictureIsPast, Levels
  <2>2. QED
    BY <2>1 DEF PictureIsPast
<1>3. MarkIsEarned(q)'
  BY DEF MarkIsEarned, Unlocked, LockReasons
<1>4. OpenStaysOpen(q)'
  <2>1. ASSUME NEW x \in q.wasOpen PROVE UnlockedNow(x)'
    <3>1. x \in Episodes /\ Unlocked(x, level, owned, completed)
      BY <1>0 DEF OpenStaysOpen, UnlockedNow
    <3>2. Unlocked(x, level', owned', completed')
      BY <1>0, <3>1, UnlockedGrows
    <3>3. QED
      BY <3>2 DEF UnlockedNow, Unlocked, LockReasons
  <2>2. QED
    BY <2>1 DEF OpenStaysOpen, ShowsList, Unlocked, LockReasons
<1>5. DoneStaysDone(q)'
  BY DEF DoneStaysDone, ShowsList
<1>6. QED
  BY <1>1, <1>2, <1>3, <1>4, <1>5

-----------------------------------------------------------------------------
LEMMA MembershipIsBoolean ==
    ASSUME NEW e, NEW S
    PROVE  \E b \in BOOLEAN : b = (e \in S)
<1> DEFINE m == e \in S
<1>1. m \in BOOLEAN
  BY SMT
<1> HIDE DEF m
<1>2. \E b \in BOOLEAN : b = m
  BY <1>1, Zenon
<1>3. QED
  BY <1>2 DEF m

(* Type correctness, step by step. That toldDone stays within completed is   *)
(* the one part that needs StoryInv: an answer 200 is received only for a    *)
(* completion that is recorded.                                              *)
LEMMA IdleIsRecord == Idle \in RequestRecords
BY DEF Idle, RequestRecords, Ops, Steps, Outcomes, Levels

LEMMA FailIsRecord ==
    ASSUME TypeOK, NEW r \in Requests, Fail(r)
    PROVE  req' \in [Requests -> RequestRecords]
BY IdleIsRecord DEF Fail, TypeOK, RequestRecords, Ops, Steps, Outcomes

LEMMA TypeInit == Init => TypeOK
BY IdleIsRecord DEF Init, TypeOK, Levels

LEMMA TypeStep == TypeOK /\ StoryInv /\ [Next]_vars => TypeOK'
<1> SUFFICES ASSUME TypeOK, StoryInv, [Next]_vars PROVE TypeOK'
  OBVIOUS
<1> USE DEF TypeOK
<1>1. ASSUME NEW r \in Requests, Arrive(r) PROVE TypeOK'
  <2>1. PICK op \in Ops, e \in Episodes \union {Unknown} :
          req' = [req EXCEPT ![r] =
              [Idle EXCEPT !.op = op, !.episode = e,
                           !.step = IF op = "list" THEN "list_active" ELSE "find",
                           !.wasOpen = {x \in Episodes : UnlockedNow(x)},
                           !.wasDone = toldDone,
                           !.offered = e \in active]]
    BY <1>1 DEF Arrive
  <2>2. req' \in [Requests -> RequestRecords]
    <3>1. PICK offered \in BOOLEAN : offered = (e \in active)
      BY MembershipIsBoolean, Zenon
    <3>2. QED
      BY <2>1, <3>1, IdleIsRecord DEF RequestRecords, Steps
  <2>3. QED
    BY <1>1, <2>2 DEF Arrive
<1>2. ASSUME NEW r \in Requests, ListActiveEpisodes(r) PROVE TypeOK'
  <2>1. req' \in [Requests -> RequestRecords]
    BY <1>2, FailIsRecord, SMTT(30) DEF ListActiveEpisodes, RequestRecords, Steps
  <2>2. QED
    BY <1>2, <2>1 DEF ListActiveEpisodes
<1>3. ASSUME NEW r \in Requests, FindEpisode(r) PROVE TypeOK'
  <2>1. req' \in [Requests -> RequestRecords]
    BY <1>3, FailIsRecord, SMTT(30) DEF FindEpisode, Goto, Answer, RequestRecords, Steps, Outcomes
  <2>2. QED
    BY <1>3, <2>1 DEF FindEpisode
<1>4. ASSUME NEW r \in Requests, ReadPlayer(r) PROVE TypeOK'
  <2>1. req' \in [Requests -> RequestRecords]
    BY <1>4, FailIsRecord, SMTT(30) DEF ReadPlayer, RequestRecords, Steps
  <2>2. QED
    BY <1>4, <2>1 DEF ReadPlayer
<1>5. ASSUME NEW r \in Requests, ReadFactions(r) PROVE TypeOK'
  <2>1. req' \in [Requests -> RequestRecords]
    BY <1>5, FailIsRecord, SMTT(30) DEF ReadFactions, RequestRecords, Steps
  <2>2. QED
    BY <1>5, <2>1 DEF ReadFactions
<1>6. ASSUME NEW r \in Requests, ReadProgress(r) PROVE TypeOK'
  <2>1. req' \in [Requests -> RequestRecords]
    BY <1>6, FailIsRecord, SMTT(30) DEF ReadProgress, RequestRecords, Steps, Outcomes
  <2>2. QED
    BY <1>6, <2>1 DEF ReadProgress
<1>7. ASSUME NEW r \in Requests, ReadScript(r) PROVE TypeOK'
  <2>1. req' \in [Requests -> RequestRecords]
    BY <1>7, FailIsRecord, SMTT(30) DEF ReadScript, Answer, RequestRecords, Steps, Outcomes
  <2>2. QED
    BY <1>7, <2>1 DEF ReadScript
<1>8. ASSUME NEW r \in Requests, MarkComplete(r) PROVE TypeOK'
  <2>1. req' \in [Requests -> RequestRecords]
    BY <1>8, FailIsRecord, SMTT(30) DEF MarkComplete, Answer, RequestRecords, Steps, Outcomes
  <2>2. req[r].episode \in Episodes
    <3>1. req[r].step = "mark" /\ StepFitsOperation(req[r])
      BY <1>8 DEF MarkComplete, StoryInv, RequestInv
    <3>2. QED
      BY <3>1 DEF StepFitsOperation
  <2>3. QED
    BY <1>8, <2>1, <2>2 DEF MarkComplete
<1>9. ASSUME NEW r \in Requests, Receive(r) PROVE TypeOK'
  <2>1. req' \in [Requests -> RequestRecords]
    BY <1>9, IdleIsRecord DEF Receive
  <2>2. req[r].op = "complete" /\ req[r].outcome = "ok" => req[r].episode \in completed
    BY DEF StoryInv, RequestInv, DoneStaysDone
  <2>3. QED
    BY <1>9, <2>1, <2>2 DEF Receive
<1>10. CASE Crash
  BY <1>10, IdleIsRecord DEF Crash
<1>11. CASE LevelUp
  <2>1. level' \in Levels
    BY <1>11, SMT DEF LevelUp, Levels
  <2>2. QED
    BY <1>11, <2>1 DEF LevelUp
<1>12. ASSUME NEW f \in Factions, GainFaction(f) PROVE TypeOK'
  BY <1>12 DEF GainFaction
<1>13. ASSUME NEW e \in Episodes, Publish(e) PROVE TypeOK'
  BY <1>13 DEF Publish
<1>14. ASSUME NEW e \in Episodes, Withdraw(e) PROVE TypeOK'
  <2>1. req' \in [Requests -> RequestRecords]
    <3>1. ASSUME NEW r \in Requests
          PROVE  [req[r] EXCEPT !.offered = req[r].offered /\ req[r].episode # e]
                    \in RequestRecords
      <4>1. PICK offered \in BOOLEAN : offered = (req[r].offered /\ req[r].episode # e)
        OBVIOUS
      <4>2. [req[r] EXCEPT !.offered = offered] \in RequestRecords
        BY DEF RequestRecords
      <4>3. QED
        BY <4>1, <4>2
    <3>2. QED
      BY <1>14, <3>1 DEF Withdraw
  <2>2. QED
    BY <1>14, <2>1 DEF Withdraw
<1>15. CASE UNCHANGED vars
  BY <1>15 DEF vars
<1>16. QED
  BY <1>1, <1>2, <1>3, <1>4, <1>5, <1>6, <1>7, <1>8, <1>9, <1>10, <1>11, <1>12, <1>13,
     <1>14, <1>15 DEF Next

-----------------------------------------------------------------------------
(* The invariant. A step of one request leaves the others what they rely on; *)
(* so it is enough to look at what the step makes of its own record.         *)
LEMMA OneRequest ==
    ASSUME TypeOK, TypeOK', StoryInv, Grows, NEW r \in Requests,
           NEW q \in RequestRecords, req' = [req EXCEPT ![r] = q], RequestInv(q)'
    PROVE  \A s \in Requests : RequestInv(req[s])'
<1> SUFFICES ASSUME NEW s \in Requests PROVE RequestInv(req[s])'
  OBVIOUS
<1>1. PICK p \in RequestRecords : p = req'[s]
  BY DEF TypeOK
<1>2. RequestInv(p)'
  <2>1. CASE s = r
    <3>1. p = q
      BY <1>1, <2>1 DEF TypeOK
    <3>2. QED
      BY <3>1
  <2>2. CASE s # r
    <3>1. p = req[s]
      BY <1>1, <2>2 DEF TypeOK
    <3>2. RequestInv(p)
      BY <3>1 DEF StoryInv
    <3>3. QED
      BY <3>2, RequestInvKept
  <2>3. QED
    BY <2>1, <2>2
<1>3. QED
  BY <1>1, <1>2 DEF RequestInv, StepFitsOperation, PictureIsPast, MarkIsEarned,
     OpenStaysOpen, DoneStaysDone, ShowsList, UnlockedNow, Unlocked, LockReasons

(* A step that changes no request. *)
LEMMA NoRequest ==
    ASSUME TypeOK, TypeOK', StoryInv, Grows, req' = req
    PROVE  \A s \in Requests : RequestInv(req[s])'
<1> SUFFICES ASSUME NEW s \in Requests PROVE RequestInv(req[s])'
  OBVIOUS
<1>1. PICK p \in RequestRecords : p = req[s]
  BY DEF TypeOK
<1>2. RequestInv(p)'
  <2>1. RequestInv(p)
    BY <1>1 DEF StoryInv
  <2>2. QED
    BY <2>1, RequestInvKept
<1>3. QED
  BY <1>1, <1>2 DEF RequestInv, StepFitsOperation, PictureIsPast, MarkIsEarned,
     OpenStaysOpen, DoneStaysDone, ShowsList, UnlockedNow, Unlocked, LockReasons

(* A withdrawal, which only notes that an episode is not offered any more.   *)
LEMMA OfferEnds ==
    ASSUME TypeOK, TypeOK', StoryInv, Grows, NEW e \in Episodes, Withdraw(e)
    PROVE  \A s \in Requests : RequestInv(req[s])'
<1> SUFFICES ASSUME NEW s \in Requests PROVE RequestInv(req[s])'
  OBVIOUS
<1>1. PICK p \in RequestRecords : p = req[s]
  BY DEF TypeOK
<1>2. RequestInv(p)'
  <2>1. RequestInv(p)
    BY <1>1 DEF StoryInv
  <2>2. QED
    BY <2>1, RequestInvKept
<1>3. PICK offered : req'[s] = [p EXCEPT !.offered = offered]
  BY <1>1 DEF Withdraw
<1>4. /\ req'[s].op = p.op /\ req'[s].episode = p.episode /\ req'[s].step = p.step
      /\ req'[s].outcome = p.outcome /\ req'[s].level = p.level /\ req'[s].owned = p.owned
      /\ req'[s].progress = p.progress /\ req'[s].wasOpen = p.wasOpen
      /\ req'[s].wasDone = p.wasDone
  BY <1>3 DEF RequestRecords
<1>5. QED
  BY <1>2, <1>4 DEF RequestInv, StepFitsOperation, PictureIsPast, MarkIsEarned,
     OpenStaysOpen, DoneStaysDone, ShowsList, UnlockedNow, Unlocked, LockReasons

(* A request without a picture relies on nothing. *)
LEMMA BlankRelies ==
    ASSUME TypeOK', NEW q \in RequestRecords,
           q.step \in {"idle", "done"}, q.outcome \in {"none", "internal"},
           q.level = 0, q.owned = {}, q.progress = {}, q.wasOpen = {}, q.wasDone = {}
    PROVE  RequestInv(q)'
<1>1. 0 <= level'
  BY SMT DEF TypeOK, Levels
<1>2. QED
  BY <1>1 DEF RequestInv, StepFitsOperation, PictureIsPast, MarkIsEarned,
     OpenStaysOpen, DoneStaysDone, ShowsList

LEMMA FailKeeps ==
    ASSUME TypeOK, TypeOK', StoryInv, Grows, NEW r \in Requests, Fail(r)
    PROVE  \A s \in Requests : RequestInv(req[s])'
<1>1. PICK q \in RequestRecords :
        q = [Idle EXCEPT !.op = req[r].op, !.step = "done", !.outcome = "internal",
                      !.failed = TRUE]
  BY IdleIsRecord DEF TypeOK, RequestRecords, Steps, Outcomes
<1>2. RequestInv(q)'
  BY <1>1, BlankRelies DEF Idle
<1>3. QED
  BY <1>1, <1>2, OneRequest DEF Fail

LEMMA StoryInit == Init => StoryInv
<1> SUFFICES ASSUME Init PROVE StoryInv
  OBVIOUS
<1>1. 0 <= level
  BY SMT DEF Init
<1>2. QED
  BY <1>1 DEF Init, StoryInv, CompletionsAreEarned, RequestInv, StepFitsOperation,
     PictureIsPast, MarkIsEarned, OpenStaysOpen, DoneStaysDone, ShowsList, Idle

-----------------------------------------------------------------------------
(* What each step of a request makes of its record. *)
LEMMA RequestStep ==
    ASSUME TypeOK, TypeOK', StoryInv, Grows, NEW r \in Requests,
           \/ Arrive(r) \/ ListActiveEpisodes(r) \/ FindEpisode(r) \/ ReadPlayer(r)
           \/ ReadFactions(r) \/ ReadProgress(r) \/ ReadScript(r) \/ MarkComplete(r)
           \/ Receive(r)
    PROVE  \A s \in Requests : RequestInv(req[s])'
<1>1. PICK p \in RequestRecords : p = req[r]
  BY DEF TypeOK
<1>2. RequestInv(p) /\ RequestInv(p)'
  <2>1. RequestInv(p)
    BY <1>1 DEF StoryInv
  <2>2. QED
    BY <2>1, RequestInvKept
<1>3. PICK q \in RequestRecords : q = req'[r]
  BY DEF TypeOK
<1>4. ASSUME RequestInv(q)', req' = [req EXCEPT ![r] = q]
      PROVE  \A s \in Requests : RequestInv(req[s])'
  BY <1>4, OneRequest
<1>5. CASE Arrive(r)
  <2>1. PICK op \in Ops, e \in Episodes \union {Unknown} :
          /\ op = "list" => e = Unknown
          /\ req' = [req EXCEPT ![r] =
              [Idle EXCEPT !.op = op, !.episode = e,
                           !.step = IF op = "list" THEN "list_active" ELSE "find",
                           !.wasOpen = {x \in Episodes : UnlockedNow(x)},
                           !.wasDone = toldDone,
                           !.offered = e \in active]]
    BY <1>5 DEF Arrive
  <2>2. /\ q.op = op /\ q.step = IF op = "list" THEN "list_active" ELSE "find"
        /\ q.outcome = "none" /\ q.level = 0 /\ q.owned = {} /\ q.progress = {}
        /\ q.wasOpen = {x \in Episodes : UnlockedNow(x)} /\ q.wasDone = toldDone
    BY <1>3, <2>1 DEF TypeOK, Idle
  <2>3. req' = [req EXCEPT ![r] = q]
    BY <1>3, <2>1 DEF TypeOK
  <2>4. 0 <= level'
    BY SMT DEF TypeOK, Levels
  <2>5. UNCHANGED <<level, owned, completed, toldDone>>
    BY <1>5 DEF Arrive
  <2>6. RequestInv(q)'
    BY <2>2, <2>4, <2>5 DEF RequestInv, StepFitsOperation, PictureIsPast, MarkIsEarned,
       OpenStaysOpen, DoneStaysDone, ShowsList, UnlockedNow, Unlocked, LockReasons
  <2>7. QED
    BY <1>4, <2>3, <2>6
<1>6. CASE Receive(r)
  <2>1. req' = [req EXCEPT ![r] = q] /\ q = Idle
    BY <1>3, <1>6 DEF Receive, TypeOK
  <2>2. RequestInv(q)'
    BY <2>1, BlankRelies DEF Idle
  <2>3. QED
    BY <1>4, <2>1, <2>2
<1>7. CASE ListActiveEpisodes(r)
  <2>1. CASE req' = [req EXCEPT ![r].step = "player", ![r].episodes = active]
    <3>1. req' = [req EXCEPT ![r] = q] /\ q = [p EXCEPT !.step = "player", !.episodes = active]
      BY <1>1, <1>3, <2>1 DEF TypeOK
    <3>2. p.step = "list_active" /\ p.op = "list"
      BY <1>1, <1>2, <1>7 DEF ListActiveEpisodes, RequestInv, StepFitsOperation
    <3>3. RequestInv(q)'
      BY <1>2, <3>1, <3>2 DEF RequestRecords, RequestInv, StepFitsOperation, PictureIsPast,
         MarkIsEarned, OpenStaysOpen, DoneStaysDone, ShowsList, UnlockedNow, Unlocked, LockReasons
    <3>4. QED
      BY <1>4, <3>1, <3>3
  <2>2. CASE Fail(r)
    BY <2>2, FailKeeps
  <2>3. QED
    BY <1>7, <2>1, <2>2 DEF ListActiveEpisodes
<1>8. CASE FindEpisode(r)
  <2>1. CASE req[r].episode \in active /\ Goto(r, "player")
    <3>1. req' = [req EXCEPT ![r] = q] /\ q = [p EXCEPT !.step = "player"]
      BY <1>1, <1>3, <2>1 DEF Goto, TypeOK
    <3>2. p.step = "find" /\ p.episode \in Episodes
      BY <1>1, <1>8, <2>1 DEF FindEpisode, TypeOK
    <3>3. RequestInv(q)'
      BY <1>2, <3>1, <3>2 DEF RequestRecords, RequestInv, StepFitsOperation, PictureIsPast,
         MarkIsEarned, OpenStaysOpen, DoneStaysDone, ShowsList, UnlockedNow, Unlocked, LockReasons
    <3>4. QED
      BY <1>4, <3>1, <3>3
  <2>2. CASE Answer(r, "episode_not_found")
    <3>1. /\ req' = [req EXCEPT ![r] = q]
          /\ q = [p EXCEPT !.step = "done", !.outcome = "episode_not_found"]
      BY <1>1, <1>3, <2>2 DEF Answer, TypeOK
    <3>2. RequestInv(q)'
      BY <1>2, <3>1 DEF RequestRecords, RequestInv, StepFitsOperation, PictureIsPast,
         MarkIsEarned, OpenStaysOpen, DoneStaysDone, ShowsList, UnlockedNow, Unlocked, LockReasons
    <3>3. QED
      BY <1>4, <3>1, <3>2
  <2>3. CASE Fail(r)
    BY <2>3, FailKeeps
  <2>4. QED
    BY <1>8, <2>1, <2>2, <2>3 DEF FindEpisode
<1>9. CASE ReadPlayer(r)
  <2>1. CASE req' = [req EXCEPT ![r].step = "factions", ![r].level = level]
    <3>1. /\ req' = [req EXCEPT ![r] = q]
          /\ q = [p EXCEPT !.step = "factions", !.level = level]
      BY <1>1, <1>3, <2>1 DEF TypeOK
    <3>2. p.step = "player" /\ UNCHANGED <<level, owned, completed, toldDone>>
      BY <1>1, <1>9 DEF ReadPlayer
    <3>3. level <= level /\ p.wasOpen \subseteq Episodes /\ level \in Levels
      BY SMT DEF TypeOK, Levels, RequestRecords
    <3>4. \A x \in p.wasOpen : RequiredLevel[x] <= level
      BY <1>2, <3>3, UnlockedMeans DEF RequestInv, OpenStaysOpen, UnlockedNow
    <3>5. RequestInv(q)'
      BY <1>2, <3>1, <3>2, <3>3, <3>4 DEF RequestRecords, RequestInv, StepFitsOperation, PictureIsPast,
         MarkIsEarned, OpenStaysOpen, DoneStaysDone, ShowsList, UnlockedNow, Unlocked, LockReasons
    <3>6. QED
      BY <1>4, <3>1, <3>5
  <2>2. CASE Fail(r)
    BY <2>2, FailKeeps
  <2>3. QED
    BY <1>9, <2>1, <2>2 DEF ReadPlayer
<1>10. CASE ReadFactions(r)
  <2>1. CASE req' = [req EXCEPT ![r].step = "progress", ![r].owned = owned]
    <3>1. /\ req' = [req EXCEPT ![r] = q]
          /\ q = [p EXCEPT !.step = "progress", !.owned = owned]
      BY <1>1, <1>3, <2>1 DEF TypeOK
    <3>2. p.step = "factions" /\ UNCHANGED <<level, owned, completed, toldDone>>
      BY <1>1, <1>10 DEF ReadFactions
    <3>3. p.wasOpen \subseteq Episodes /\ level \in Levels
      BY DEF TypeOK, RequestRecords
    <3>4. \A x \in p.wasOpen : RequiredFactions[x] \subseteq owned
      BY <1>2, <3>3, UnlockedMeans DEF RequestInv, OpenStaysOpen, UnlockedNow
    <3>5. RequestInv(q)'
      BY <1>2, <3>1, <3>2, <3>4 DEF RequestRecords, RequestInv, StepFitsOperation, PictureIsPast,
         MarkIsEarned, OpenStaysOpen, DoneStaysDone, ShowsList, UnlockedNow, Unlocked, LockReasons
    <3>6. QED
      BY <1>4, <3>1, <3>5
  <2>2. CASE Fail(r)
    BY <2>2, FailKeeps
  <2>3. QED
    BY <1>10, <2>1, <2>2 DEF ReadFactions
<1>11. CASE ReadProgress(r)
  <2> DEFINE locked == p.op # "list" /\ ~Unlocked(p.episode, p.level, p.owned, completed)
  <2>1. CASE ~Fail(r)
    <3>1. /\ req' = [req EXCEPT ![r] = q]
          /\ q = [p EXCEPT
                     !.progress = completed,
                     !.step = IF locked \/ p.op = "list" THEN "done"
                              ELSE IF p.op = "script" THEN "read" ELSE "mark",
                     !.outcome = IF locked THEN "episode_locked"
                                 ELSE IF p.op = "list" THEN "ok" ELSE "none"]
      BY <1>1, <1>3, <1>11, <2>1 DEF ReadProgress, TypeOK
    <3>2. p.step = "progress" /\ UNCHANGED <<level, owned, completed, toldDone>>
      BY <1>1, <1>11 DEF ReadProgress
    <3>3. /\ p.wasOpen \subseteq Episodes /\ level \in Levels /\ p.level \in Levels
          /\ toldDone \subseteq completed /\ p.op \in {"list", "script", "complete"}
      BY DEF TypeOK, RequestRecords, Ops
    <3>4. \A x \in p.wasOpen : Unlocked(x, p.level, p.owned, completed)
      BY <1>2, <3>2, <3>3, UnlockedMeans DEF RequestInv, OpenStaysOpen, UnlockedNow
    <3> DEFINE isLocked == locked
    <3>5. isLocked => p.op # "list" /\ \A x \in p.wasOpen : x # p.episode
      BY <3>4
    <3>6. ~isLocked /\ p.op # "list" => Unlocked(p.episode, p.level, p.owned, completed)
      OBVIOUS
    <3>7. /\ q.op = p.op /\ q.episode = p.episode /\ q.level = p.level /\ q.owned = p.owned
          /\ q.wasOpen = p.wasOpen /\ q.wasDone = p.wasDone /\ q.progress = completed
          /\ q.step = IF isLocked \/ p.op = "list" THEN "done"
                      ELSE IF p.op = "script" THEN "read" ELSE "mark"
          /\ q.outcome = IF isLocked THEN "episode_locked"
                         ELSE IF p.op = "list" THEN "ok" ELSE "none"
      BY <3>1 DEF RequestRecords
    <3> HIDE DEF locked, isLocked
    <3>8. StepFitsOperation(q)'
      BY <1>2, <3>2, <3>3, <3>5, <3>7 DEF RequestInv, StepFitsOperation
    <3>9. PictureIsPast(q)'
      BY <1>2, <3>2, <3>7 DEF RequestInv, PictureIsPast
    <3>10. MarkIsEarned(q)'
      BY <3>2, <3>6, <3>7 DEF MarkIsEarned
    <3>11. OpenStaysOpen(q)'
      BY <1>2, <3>2, <3>3, <3>4, <3>5, <3>7
         DEF RequestInv, OpenStaysOpen, ShowsList, UnlockedNow, Unlocked, LockReasons
    <3>12. DoneStaysDone(q)'
      BY <1>2, <3>2, <3>3, <3>5, <3>7 DEF RequestInv, DoneStaysDone, ShowsList
    <3>13. QED
      BY <1>4, <3>1, <3>8, <3>9, <3>10, <3>11, <3>12 DEF RequestInv
  <2>2. CASE Fail(r)
    BY <2>2, FailKeeps
  <2>3. QED
    BY <2>1, <2>2
<1>12. CASE ReadScript(r)
  <2>1. CASE ~Fail(r)
    <3>1. PICK o \in {"ok", "script_not_found"} : Answer(r, o)
      BY <1>12, <2>1 DEF ReadScript
    <3>2. req' = [req EXCEPT ![r] = q] /\ q = [p EXCEPT !.step = "done", !.outcome = o]
      BY <1>1, <1>3, <3>1 DEF Answer, TypeOK
    <3>3. p.op = "script"
      BY <1>1, <1>2, <1>12 DEF ReadScript, RequestInv, StepFitsOperation
    <3>4. RequestInv(q)'
      BY <1>2, <3>2, <3>3 DEF RequestRecords, RequestInv, StepFitsOperation, PictureIsPast,
         MarkIsEarned, OpenStaysOpen, DoneStaysDone, ShowsList, UnlockedNow, Unlocked, LockReasons
    <3>5. QED
      BY <1>4, <3>2, <3>4
  <2>2. CASE Fail(r)
    BY <2>2, FailKeeps
  <2>3. QED
    BY <2>1, <2>2
<1>13. CASE MarkComplete(r)
  <2>1. CASE ~Fail(r)
    <3>1. Answer(r, "ok") /\ completed' = completed \union {req[r].episode}
      BY <1>13, <2>1 DEF MarkComplete
    <3>2. req' = [req EXCEPT ![r] = q] /\ q = [p EXCEPT !.step = "done", !.outcome = "ok"]
      BY <1>1, <1>3, <3>1 DEF Answer, TypeOK
    <3>3. p.op = "complete" /\ p.episode \in completed'
      BY <1>1, <1>2, <1>13, <3>1 DEF MarkComplete, RequestInv, StepFitsOperation
    <3>4. RequestInv(q)'
      BY <1>2, <3>2, <3>3 DEF RequestRecords, RequestInv, StepFitsOperation, PictureIsPast,
         MarkIsEarned, OpenStaysOpen, DoneStaysDone, ShowsList, UnlockedNow, Unlocked, LockReasons
    <3>5. QED
      BY <1>4, <3>2, <3>4
  <2>2. CASE Fail(r)
    BY <2>2, FailKeeps
  <2>3. QED
    BY <2>1, <2>2
<1>14. QED
  BY <1>5, <1>6, <1>7, <1>8, <1>9, <1>10, <1>11, <1>12, <1>13

(* An episode is completed only by MarkComplete, whose lock was decided on a *)
(* picture the world has not fallen behind.                                  *)
LEMMA EarnedStep ==
    ASSUME TypeOK, TypeOK', StoryInv, Grows, [Next]_vars
    PROVE  CompletionsAreEarned'
<1>0. level \in Levels /\ level' \in Levels /\ completed \subseteq Episodes
  BY DEF TypeOK
<1>1. \/ completed' = completed
      \/ \E r \in Requests : MarkComplete(r) /\ completed' \subseteq completed \union {req[r].episode}
  BY DEF Next, vars, Arrive, ListActiveEpisodes, FindEpisode, ReadPlayer, ReadFactions,
     ReadProgress, ReadScript, MarkComplete, Receive, Crash, LevelUp, GainFaction, Publish, Withdraw
<1>2. ASSUME NEW e \in completed PROVE Unlocked(e, level', owned', completed')
  <2>1. e \in Episodes /\ Unlocked(e, level, owned, completed)
    BY <1>0, <1>2 DEF StoryInv, CompletionsAreEarned, UnlockedNow
  <2>2. QED
    BY <1>0, <2>1, UnlockedGrows DEF Grows
<1>3. ASSUME NEW e \in completed', e \notin completed
      PROVE  Unlocked(e, level', owned', completed')
  <2>1. PICK r \in Requests : MarkComplete(r) /\ e = req[r].episode
    BY <1>1, <1>3
  <2>2. /\ req[r] \in RequestRecords /\ RequestInv(req[r]) /\ req[r].step = "mark"
        /\ completed \subseteq completed' /\ level <= level' /\ owned \subseteq owned'
    BY <2>1 DEF MarkComplete, StoryInv, TypeOK, Grows
  <2>3. e \in Episodes /\ Unlocked(e, req[r].level, req[r].owned, req[r].progress)
    BY <2>1, <2>2 DEF RequestInv, StepFitsOperation, MarkIsEarned
  <2>4. /\ req[r].level \in Levels /\ req[r].level <= level
        /\ req[r].owned \subseteq owned' /\ req[r].progress \subseteq completed'
    BY <2>2 DEF RequestRecords, RequestInv, PictureIsPast
  <2>5. req[r].level <= level'
    BY <1>0, <2>2, <2>4, SMT DEF Levels
  <2>6. QED
    BY <1>0, <2>3, <2>4, <2>5, UnlockedGrows
<1>4. QED
  BY <1>2, <1>3 DEF CompletionsAreEarned, UnlockedNow, Unlocked, LockReasons

LEMMA StoryStep == TypeOK /\ StoryInv /\ [Next]_vars => TypeOK' /\ StoryInv'
<1> SUFFICES ASSUME TypeOK, StoryInv, [Next]_vars PROVE TypeOK' /\ StoryInv'
  OBVIOUS
<1>1. TypeOK' /\ Grows
  BY TypeStep, WorldGrows
<1>2. CompletionsAreEarned'
  BY <1>1, EarnedStep
<1>3. \A s \in Requests : RequestInv(req[s])'
  <2>1. ASSUME NEW r \in Requests,
               \/ Arrive(r) \/ ListActiveEpisodes(r) \/ FindEpisode(r) \/ ReadPlayer(r)
               \/ ReadFactions(r) \/ ReadProgress(r) \/ ReadScript(r) \/ MarkComplete(r)
               \/ Receive(r)
        PROVE  \A s \in Requests : RequestInv(req[s])'
    BY <1>1, <2>1, RequestStep
  <2>2. CASE Crash
    <3>1. SUFFICES ASSUME NEW s \in Requests PROVE RequestInv(req[s])'
      OBVIOUS
    <3>2. PICK q \in RequestRecords : q = Idle
      BY IdleIsRecord
    <3>3. RequestInv(q)'
      BY <1>1, <3>2, BlankRelies DEF Idle
    <3>4. q = req'[s]
      BY <2>2, <3>2 DEF Crash
    <3>5. QED
      BY <3>3, <3>4 DEF RequestInv, StepFitsOperation, PictureIsPast, MarkIsEarned,
         OpenStaysOpen, DoneStaysDone, ShowsList, UnlockedNow, Unlocked, LockReasons
  <2>3. CASE req' = req
    BY <1>1, <2>3, NoRequest
  <2>4. ASSUME NEW e \in Episodes, Withdraw(e)
        PROVE  \A s \in Requests : RequestInv(req[s])'
    BY <1>1, <2>4, OfferEnds
  <2>5. QED
    BY <2>1, <2>2, <2>3, <2>4 DEF Next, vars, LevelUp, GainFaction, Publish
<1>4. QED
  BY <1>1, <1>2, <1>3 DEF StoryInv

(* Every reachable state is well typed, and nobody was told of a completion  *)
(* that is not recorded (CompleteEpisode answers after its INSERT).          *)
THEOREM TypeCorrect == Spec => []TypeOK
<1>1. Init => TypeOK /\ StoryInv
  BY TypeInit, StoryInit
<1>2. QED
  BY <1>1, StoryStep, PTL DEF Spec

(* Nobody completes an episode he may not play (CompleteEpisode: the lock is *)
(* decided on four reads and used for the INSERT later).                     *)
THEOREM CompletionsEarned == Spec => []CompletionsAreEarned
<1>1. Init => TypeOK /\ StoryInv
  BY TypeInit, StoryInit
<1>2. StoryInv => CompletionsAreEarned
  BY DEF StoryInv
<1>3. QED
  BY <1>1, <1>2, StoryStep, PTL DEF Spec

LEMMA LocksFollow == TypeOK /\ StoryInv => LocksAreTrue
<1> SUFFICES ASSUME TypeOK, StoryInv PROVE LocksAreTrue
  OBVIOUS
<1>1. ASSUME NEW r \in Listed, NEW e \in ShownUnlocked(req[r]) PROVE UnlockedNow(e)
  <2>1. /\ e \in Episodes /\ Unlocked(e, req[r].level, req[r].owned, req[r].progress)
        /\ req[r].level \in Levels /\ level \in Levels /\ PictureIsPast(req[r])
    BY <1>1 DEF Listed, ShownUnlocked, TypeOK, RequestRecords, StoryInv, RequestInv
  <2>2. QED
    BY <2>1, UnlockedGrows DEF PictureIsPast, UnlockedNow
<1>2. ASSUME NEW r \in Listed
      PROVE  req[r].episodes \cap req[r].wasOpen \subseteq ShownUnlocked(req[r])
  <2>1. ShowsList(req[r]) /\ OpenStaysOpen(req[r])
    BY <1>2 DEF Listed, StoryInv, RequestInv
  <2>2. QED
    BY <2>1 DEF OpenStaysOpen, ShownUnlocked
<1>3. ASSUME NEW r \in Requests, req[r].outcome = "episode_locked"
      PROVE  req[r].episode \notin req[r].wasOpen
  BY <1>3 DEF StoryInv, RequestInv, OpenStaysOpen
<1>4. QED
  BY <1>1, <1>2, <1>3 DEF LocksAreTrue

(* Lists and refusals agree with the world (ListEpisodes and validateUnlock  *)
(* build on the same loadUnlockContext).                                     *)
THEOREM LocksTrue == Spec => []LocksAreTrue
<1>1. Init => TypeOK /\ StoryInv
  BY TypeInit, StoryInit
<1>2. QED
  BY <1>1, LocksFollow, StoryStep, PTL DEF Spec

LEMMA ShownFollows == TypeOK /\ StoryInv => CompletionsAreShown
<1> SUFFICES ASSUME TypeOK, StoryInv, NEW r \in Listed
             PROVE  /\ req[r].episodes \cap req[r].wasDone \subseteq ShownCompleted(req[r])
                    /\ ShownCompleted(req[r]) \subseteq completed
  BY DEF CompletionsAreShown
<1>1. ShowsList(req[r]) /\ DoneStaysDone(req[r]) /\ PictureIsPast(req[r])
  BY DEF Listed, StoryInv, RequestInv
<1>2. QED
  BY <1>1 DEF DoneStaysDone, PictureIsPast, ShownCompleted

(* A completion the client was told of is in every later list.               *)
THEOREM CompletionsShown == Spec => []CompletionsAreShown
<1>1. Init => TypeOK /\ StoryInv
  BY TypeInit, StoryInit
<1>2. QED
  BY <1>1, ShownFollows, StoryStep, PTL DEF Spec

-----------------------------------------------------------------------------
(* Completing may be repeated. *)
LEMMA FailHasReason ==
    ASSUME TypeOK, ReasonInv, NEW r \in Requests, Fail(r), UNCHANGED active
    PROVE  ReasonInv'
<1>1. req'[r] = [Idle EXCEPT !.op = req[r].op, !.step = "done", !.outcome = "internal",
                             !.failed = TRUE]
  BY DEF Fail, TypeOK
<1>2. AnswerHasReason(req[r])'
  BY <1>1 DEF AnswerHasReason, Idle
<1>3. \A s \in Requests \ {r} : req'[s] = req[s]
  BY DEF Fail, TypeOK
<1>4. QED
  BY <1>2, <1>3 DEF ReasonInv, AnswerHasReason

LEMMA ReasonStep ==
    ASSUME TypeOK, StoryInv, ReasonInv, [Next]_vars
    PROVE  ReasonInv'
<1> USE DEF TypeOK
<1>1. ASSUME NEW r \in Requests, Fail(r), UNCHANGED active PROVE ReasonInv'
  BY <1>1, FailHasReason
<1>2. ASSUME NEW r \in Requests, NEW q,
             req' = [req EXCEPT ![r] = q], AnswerHasReason(q)', UNCHANGED active
      PROVE  ReasonInv'
  <2>1. req'[r] = q /\ \A s \in Requests \ {r} : req'[s] = req[s]
    BY <1>2
  <2>2. QED
    BY <1>2, <2>1 DEF ReasonInv, AnswerHasReason
<1>3. ASSUME NEW r \in Requests, Arrive(r) PROVE ReasonInv'
  <2>1. PICK q \in RequestRecords : req' = [req EXCEPT ![r] = q]
          /\ q.outcome = "none" /\ q.step # "done" /\ (q.offered => q.episode \in active)
    <3>1. PICK op \in Ops, e \in Episodes \union {Unknown} :
            req' = [req EXCEPT ![r] =
              [Idle EXCEPT !.op = op, !.episode = e,
                           !.step = IF op = "list" THEN "list_active" ELSE "find",
                           !.wasOpen = {x \in Episodes : UnlockedNow(x)},
                           !.wasDone = toldDone,
                           !.offered = e \in active]]
      BY <1>3 DEF Arrive
    <3>2. PICK offered \in BOOLEAN : offered = (e \in active)
      BY MembershipIsBoolean, Zenon
    <3>3. PICK q \in RequestRecords :
            q = [Idle EXCEPT !.op = op, !.episode = e,
                             !.step = IF op = "list" THEN "list_active" ELSE "find",
                             !.wasOpen = {x \in Episodes : UnlockedNow(x)},
                             !.wasDone = toldDone,
                             !.offered = offered]
      BY IdleIsRecord DEF RequestRecords, Steps
    <3>4. /\ q.outcome = "none" /\ q.step # "done"
          /\ q.offered = offered /\ q.episode = e
      BY <3>3 DEF Idle
    <3>5. req' = [req EXCEPT ![r] = q]
      BY <3>1, <3>2, <3>3
    <3>6. QED
      BY <3>2, <3>4, <3>5
  <2>2. UNCHANGED active
    BY <1>3 DEF Arrive
  <2>3. AnswerHasReason(q)'
    BY <2>1, <2>2 DEF AnswerHasReason
  <2>4. QED
    BY <1>2, <2>1, <2>2, <2>3
<1>4. ASSUME NEW r \in Requests, ListActiveEpisodes(r) \/ ReadPlayer(r) \/ ReadFactions(r)
      PROVE  ReasonInv'
  <2>1. CASE Fail(r)
    BY <1>1, <1>4, <2>1 DEF ListActiveEpisodes, ReadPlayer, ReadFactions
  <2>2. CASE ~Fail(r)
    <3>1. /\ UNCHANGED active /\ req'[r].step \in {"player", "factions", "progress"}
          /\ \A s \in Requests \ {r} : req'[s] = req[s]
          /\ req'[r].outcome = req[r].outcome /\ req'[r].failed = req[r].failed
          /\ req'[r].offered = req[r].offered
      BY <1>4, <2>2 DEF ListActiveEpisodes, ReadPlayer, ReadFactions, RequestRecords
    <3>2. QED
      BY <3>1 DEF ReasonInv, AnswerHasReason
  <2>3. QED
    BY <2>1, <2>2
<1>5. ASSUME NEW r \in Requests, FindEpisode(r) PROVE ReasonInv'
  <2>1. CASE Fail(r)
    BY <1>1, <1>5, <2>1 DEF FindEpisode
  <2>2. CASE Goto(r, "player") \/ (req[r].episode \notin active /\ Answer(r, "episode_not_found"))
    <3>1. /\ UNCHANGED active
          /\ \A s \in Requests \ {r} : req'[s] = req[s]
          /\ req'[r].offered = req[r].offered /\ req'[r].failed = req[r].failed
          /\ \/ req'[r].step = "player" /\ req'[r].outcome = req[r].outcome
             \/ /\ req'[r].step = "done" /\ req'[r].outcome = "episode_not_found"
                /\ ~req[r].offered
      BY <1>5, <2>2 DEF FindEpisode, Goto, Answer, RequestRecords, ReasonInv, AnswerHasReason
    <3>2. QED
      BY <3>1 DEF ReasonInv, AnswerHasReason
  <2>3. QED
    BY <1>5, <2>1, <2>2 DEF FindEpisode
<1>6. ASSUME NEW r \in Requests, ReadProgress(r) \/ ReadScript(r) \/ MarkComplete(r)
      PROVE  ReasonInv'
  <2>1. CASE Fail(r)
    BY <1>1, <1>6, <2>1 DEF ReadProgress, ReadScript, MarkComplete
  <2>2. CASE ~Fail(r)
    <3>1. StepFitsOperation(req[r])
      BY DEF StoryInv, RequestInv
    <3>2. /\ UNCHANGED active
          /\ \A s \in Requests \ {r} : req'[s] = req[s]
          /\ req'[r].op = req[r].op
          /\ req'[r].step \in {"read", "mark", "done"}
          /\ req'[r].outcome \in {"none", "ok", "episode_locked", "script_not_found"}
          /\ req'[r].op = "complete" /\ req'[r].step = "done" =>
                req'[r].outcome \in {"ok", "episode_locked"}
      <4>1. CASE ReadProgress(r)
        BY <2>2, <4>1 DEF ReadProgress, RequestRecords
      <4>2. CASE ReadScript(r)
        BY <2>2, <3>1, <4>2 DEF ReadScript, Answer, StepFitsOperation, RequestRecords
      <4>3. CASE MarkComplete(r)
        BY <2>2, <4>3 DEF MarkComplete, Answer, RequestRecords
      <4>4. QED
        BY <1>6, <4>1, <4>2, <4>3
    <3>3. QED
      BY <3>2 DEF ReasonInv, AnswerHasReason
  <2>3. QED
    BY <2>1, <2>2
<1>7. ASSUME UNCHANGED active,
             \A s \in Requests : req'[s] = req[s] \/ req'[s] = Idle
      PROVE  ReasonInv'
  BY <1>7 DEF ReasonInv, AnswerHasReason, Idle
<1>8. ASSUME NEW r \in Requests, Receive(r) PROVE ReasonInv'
  BY <1>7, <1>8 DEF Receive
<1>9. CASE Crash
  BY <1>7, <1>9 DEF Crash
<1>10. CASE LevelUp \/ (\E f \in Factions : GainFaction(f)) \/ UNCHANGED vars
  BY <1>7, <1>10 DEF LevelUp, GainFaction, vars
<1>11. ASSUME NEW e \in Episodes, Publish(e) PROVE ReasonInv'
  BY <1>11 DEF Publish, ReasonInv, AnswerHasReason
<1>12. ASSUME NEW e \in Episodes, Withdraw(e) PROVE ReasonInv'
  <2>1. ASSUME NEW s \in Requests PROVE AnswerHasReason(req[s])'
    <3>1. /\ req'[s] = [req[s] EXCEPT !.offered = req[s].offered /\ req[s].episode # e]
          /\ req[s] \in RequestRecords /\ active' = active \ {e}
      BY <1>12 DEF Withdraw
    <3>2. /\ req'[s].op = req[s].op /\ req'[s].episode = req[s].episode
          /\ req'[s].step = req[s].step /\ req'[s].outcome = req[s].outcome
          /\ req'[s].failed = req[s].failed
          /\ req'[s].offered => req[s].offered /\ req[s].episode # e
      BY <3>1 DEF RequestRecords
    <3>3. QED
      BY <3>1, <3>2 DEF ReasonInv, AnswerHasReason
  <2>2. QED
    BY <2>1 DEF ReasonInv
<1>13. QED
  BY <1>3, <1>4, <1>5, <1>6, <1>8, <1>9, <1>10, <1>11, <1>12 DEF Next

(* A completion asked for again, or by two requests at once, is answered 200 *)
(* unless something failed or the episode was withdrawn meanwhile            *)
(* (MarkComplete, ON CONFLICT DO NOTHING, and the lock on the way to it).    *)
THEOREM CompletionRepeatable == Spec => []CompletionIsRepeatable
<1>1. Init => TypeOK /\ StoryInv /\ ReasonInv
  <2>1. Init => ReasonInv
    <3>1. Idle.step = "idle" /\ Idle.outcome = "none"
      BY DEF Idle
    <3>2. AnswerHasReason(Idle)
      BY <3>1 DEF AnswerHasReason
    <3>3. QED
      BY <3>2 DEF Init, ReasonInv
  <2>2. QED
    BY <2>1, TypeInit, StoryInit
<1>2. TypeOK /\ StoryInv /\ ReasonInv /\ [Next]_vars => TypeOK' /\ StoryInv' /\ ReasonInv'
  BY StoryStep, ReasonStep
<1>3. StoryInv /\ ReasonInv => CompletionIsRepeatable
  BY DEF StoryInv, RequestInv, OpenStaysOpen, ReasonInv, AnswerHasReason, CompletionIsRepeatable
<1>4. QED
  BY <1>1, <1>2, <1>3, PTL DEF Spec
=============================================================================
