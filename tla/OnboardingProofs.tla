-------------------------- MODULE OnboardingProofs --------------------------
(***************************************************************************)
(* Safety of Onboarding for any number of requests and any names, factions *)
(* and languages, from one invariant.                                      *)
(***************************************************************************)
EXTENDS Onboarding, FiniteSetTheorems, TLAPS

Busy(q) == q.step \notin {"idle", "done"}
Selected(f) == \E s \in delivered : s.kind = "faction_set" /\ s.value = f

(* Requests have numbers of their own, which their events and answers bear. *)
NumberInv ==
    /\ \A r \in Requests : req[r].step # "idle" => req[r].id \in 1 .. calls
    /\ \A r, s \in Requests :
          r # s /\ req[r].step # "idle" /\ req[s].step # "idle" => req[r].id # req[s].id
    /\ \A e \in outbox : e.id <= calls

(* What a request is doing is something its operation does.                 *)
StepInv(q) ==
    /\ q.step = "read_script" => q.op = "script"
    /\ q.step = "validate" => q.op = "name"
    /\ q.step \in {"read_player", "insert", "commit"} => q.op = "complete"
    /\ q.step = "publish" => q.op \in {"name", "faction"}
    /\ q.op = "name" => q.arg \in Names
    /\ q.op = "faction" => q.arg \in Factions
    /\ q.op = "faction" /\ q.step = "publish" => q.arg \in SelectableFactions

OutcomesOf == [op \in Ops |-> Api!Outcomes(Handler(op))]

(* e is the event of q: EventOf, part by part.                              *)
IsEvent(e, q) ==
    /\ e.id = q.id
    /\ q.op = "name" => e.kind = "name_set" /\ e.value = q.arg
    /\ q.op = "faction" => e.kind = "faction_set" /\ e.value = q.arg
    /\ q.op = "complete" => e.kind = "player_onboarded" /\ e.value = q.faction

(* A request at work has no event yet; an answer says whether it has.       *)
EventInv(q) ==
    /\ Busy(q) => \A e \in outbox : e.id # q.id
    /\ q.step = "done" =>
        /\ q.outcome \in OutcomesOf[q.op]
        /\ q.op # "script" /\ q.outcome = "ok" => \E e \in outbox : IsEvent(e, q)
        /\ q.op # "script" /\ q.outcome \notin {"ok", "internal"} =>
              \A e \in outbox : e.id # q.id

(* A faction that is on its way to the announcement was selected.           *)
FactionInv ==
    /\ faction # None => Selected(faction)
    /\ \A r \in Requests : req[r].step \in {"insert", "commit"} =>
          req[r].faction # None /\ Selected(req[r].faction)
    /\ \A e \in outbox : e.kind = "faction_set" => e.value \in SelectableFactions

(* The key of the row is held only as long as there is none; what has been  *)
(* announced once is not announced again, and every completion a client was *)
(* told of is the one that was announced.                                   *)
AnnounceInv ==
    /\ inserting # None => ~onboarded
    /\ ~onboarded => Announcements = {}
    /\ onboarded => \E a \in Announcements : Announcements = {a}
    /\ \A i \in completions : \E a \in Announcements : a.id = i

OnboardingInv ==
    /\ TypeOK
    /\ NumberInv
    /\ \A r \in Requests : StepInv(req[r]) /\ EventInv(req[r])
    /\ FactionInv
    /\ AnnounceInv
    /\ AckedIsDurable
    /\ AnnouncedWasSelected

-----------------------------------------------------------------------------
(* Requests and their events *)

RequestRecords ==
    [op : Ops, arg : Names \union Factions \union Langs \union {None},
     id : 0 .. MaxCalls, step : Steps, outcome : Outcomes \union {None},
     faction : SelectableFactions \union {None},
     chosen : SelectableFactions \union {None}]

(* The event a request commits.                                             *)
LEMMA EventShape ==
    ASSUME NEW q \in RequestRecords
    PROVE  /\ q.op = "name" =>
                EventOf(q) = [id |-> q.id, kind |-> "name_set", value |-> q.arg]
           /\ q.op = "faction" =>
                EventOf(q) = [id |-> q.id, kind |-> "faction_set", value |-> q.arg]
           /\ q.op = "complete" =>
                EventOf(q) = [id |-> q.id, kind |-> "player_onboarded", value |-> q.faction]
BY DEF EventOf

LEMMA EventTyped ==
    ASSUME NEW q \in RequestRecords, q.id # 0, q.op # "script",
           q.op = "name" => q.arg \in Names,
           q.op = "faction" => q.arg \in Factions,
           q.op = "complete" => q.faction # None
    PROVE  EventOf(q) \in Events /\ IsEvent(EventOf(q), q)
<1>1. q.id \in 1 .. MaxCalls
    BY OnboardingAssumption DEF RequestRecords
<1>2. q.op \in {"name", "faction", "complete"}
    BY DEF RequestRecords, Ops
<1>3. q.faction \in Factions \union {None}
    BY OnboardingAssumption DEF RequestRecords
<1> QED
    BY <1>1, <1>2, <1>3, EventShape DEF Events, Kinds, IsEvent

LEMMA IdleShape == Idle \in RequestRecords
BY OnboardingAssumption DEF Idle, RequestRecords, Ops, Steps, Outcomes

(* The outcomes the handlers know of.                                       *)
LEMMA HandlerOutcomes ==
    /\ \A op \in Ops : {"ok", "internal"} \subseteq OutcomesOf[op]
    /\ "script_not_found" \in OutcomesOf["script"]
    /\ {"invalid_name", "player_not_found"} \subseteq OutcomesOf["name"]
    /\ "invalid_faction" \in OutcomesOf["faction"]
    /\ {"player_not_found", "faction_not_selected", "already_onboarded"}
          \subseteq OutcomesOf["complete"]
BY DEF Ops, OutcomesOf, Handler, Api!Outcomes

-----------------------------------------------------------------------------
(* The invariant *)

LEMMA OnboardingInit == Init => OnboardingInv
<1> SUFFICES ASSUME Init PROVE OnboardingInv
    OBVIOUS
<1> USE OnboardingAssumption DEF Init
<1>1. TypeOK
    <2>1. req \in [Requests -> RequestRecords]
        BY IdleShape
    <2>2. \A r \in Requests : req[r].step # "commit" /\ inserting # r
        BY DEF Idle
    <2>3. /\ onboarded \in BOOLEAN /\ registered \in BOOLEAN
          /\ outbox \subseteq Events /\ delivered \subseteq outbox
          /\ acked \subseteq Events /\ completions \subseteq 1 .. MaxCalls
        OBVIOUS
    <2>4. /\ inserting = None /\ faction = None /\ chosen = None
          /\ calls \in 0 .. MaxCalls
        OBVIOUS
    <2> QED
        BY <2>1, <2>2, <2>3, <2>4 DEF TypeOK, RequestRecords
<1>2. NumberInv /\ \A r \in Requests : StepInv(req[r]) /\ EventInv(req[r])
    BY DEF Idle, NumberInv, StepInv, EventInv, Busy
<1>3. FactionInv /\ AnnounceInv /\ AckedIsDurable /\ AnnouncedWasSelected
    BY DEF Idle, FactionInv, AnnounceInv, AckedIsDurable, AnnouncedWasSelected,
           Announcements
<1> QED
    BY <1>1, <1>2, <1>3 DEF OnboardingInv

(* A step of a request that commits nothing.                                *)
LEMMA QuietStep ==
    ASSUME OnboardingInv, NEW r \in Requests, NEW q \in RequestRecords,
           req' = [req EXCEPT ![r] = q],
           UNCHANGED <<onboarded, outbox, account, calls, client>>,
           inserting' \in Requests \union {None},
           \A s \in Requests : req'[s].step = "commit" <=> inserting' = s,
           inserting' # None => ~onboarded,
           req[r].step # "idle", q.id = req[r].id,
           StepInv(q), EventInv(q),
           q.step \in {"insert", "commit"} => q.faction # None /\ Selected(q.faction)
    PROVE  OnboardingInv'
<1> USE DEF OnboardingInv, account, client
<1>1. TypeOK'
    BY DEF TypeOK, RequestRecords
<1>2. \A s \in Requests : req'[s] = IF s = r THEN q ELSE req[s]
    BY DEF TypeOK
<1>3. NumberInv'
    BY <1>2 DEF NumberInv
<1>4. \A s \in Requests : StepInv(req[s])' /\ EventInv(req[s])'
    <2> TAKE s \in Requests
    <2>1. CASE s = r
        BY <1>2, <2>1 DEF StepInv, EventInv, Busy, IsEvent
    <2>2. CASE s # r
        BY <1>2, <2>2 DEF StepInv, EventInv, Busy, IsEvent
    <2> QED
        BY <2>1, <2>2
<1>5. FactionInv'
    BY <1>2 DEF FactionInv, Selected
<1>6. AnnounceInv' /\ AckedIsDurable' /\ AnnouncedWasSelected'
    BY DEF AnnounceInv, Announcements, AckedIsDurable, AnnouncedWasSelected
<1> QED
    BY <1>1, <1>3, <1>4, <1>5, <1>6

(* A step that commits the event of a request, all but the announcement.    *)
LEMMA CommitStep ==
    ASSUME OnboardingInv, NEW r \in Requests, NEW outcome \in {"ok", "internal"},
           Busy(req[r]), req[r].op # "script",
           req[r].op = "complete" => req[r].faction # None,
           req[r].op = "faction" => req[r].arg \in SelectableFactions,
           Answer(r, outcome),
           outbox' = outbox \union {EventOf(req[r])},
           UNCHANGED <<registered, faction, delivered, calls, client>>,
           onboarded' \in BOOLEAN,
           inserting' \in Requests \union {None},
           \A s \in Requests : req'[s].step = "commit" <=> inserting' = s
    PROVE  /\ TypeOK' /\ NumberInv' /\ FactionInv' /\ AckedIsDurable'
           /\ \A s \in Requests : StepInv(req[s])' /\ EventInv(req[s])'
           /\ EventOf(req[r]) \in Events /\ IsEvent(EventOf(req[r]), req[r])
<1> DEFINE e == EventOf(req[r])
           q == [req[r] EXCEPT !.step = "done", !.outcome = outcome]
<1> USE DEF OnboardingInv, client
<1>1. /\ req \in [Requests -> RequestRecords] /\ req[r] \in RequestRecords
      /\ StepInv(req[r]) /\ EventInv(req[r])
    BY DEF TypeOK, RequestRecords
<1>2. req[r].id \in 1 .. calls /\ req[r].step # "idle"
    BY DEF NumberInv, Busy
<1>3. e \in Events /\ IsEvent(e, req[r])
    BY <1>1, <1>2, EventTyped DEF StepInv
<1>4. /\ q \in RequestRecords
      /\ q.id = req[r].id /\ q.op = req[r].op /\ q.arg = req[r].arg
      /\ q.faction = req[r].faction /\ q.step = "done" /\ q.outcome = outcome
    BY <1>1 DEF RequestRecords, Steps, Outcomes
<1>5. \A s \in Requests : req'[s] = IF s = r THEN q ELSE req[s]
    BY <1>1 DEF Answer
<1>6. req' \in [Requests -> RequestRecords]
    BY <1>1, <1>4, <1>5 DEF Answer
<1> HIDE DEF e, q
<1>7. outbox' = outbox \union {e}
    BY DEF e
<1>8. TypeOK'
    BY <1>3, <1>6, <1>7 DEF TypeOK, RequestRecords
<1>9. NumberInv'
    BY <1>2, <1>3, <1>4, <1>5, <1>7 DEF NumberInv, IsEvent, TypeOK
<1>10. \A s \in Requests : StepInv(req[s])' /\ EventInv(req[s])'
    <2> TAKE s \in Requests
    <2>1. CASE s = r
        <3>1. q.outcome \in OutcomesOf[q.op]
            BY <1>1, <1>4, HandlerOutcomes DEF RequestRecords
        <3>2. IsEvent(e, q)
            BY <1>3, <1>4 DEF IsEvent
        <3>3. q.op = "name" => q.arg \in Names
            BY <1>1, <1>4 DEF StepInv
        <3>4. q.op = "faction" => q.arg \in Factions
            BY <1>1, <1>4 DEF StepInv
        <3> QED
            BY <1>4, <1>5, <1>7, <2>1, <3>1, <3>2, <3>3, <3>4
                DEF StepInv, EventInv, Busy, IsEvent
    <2>2. CASE s # r
        <3>1. req'[s] = req[s] /\ StepInv(req[s]) /\ EventInv(req[s])
            BY <1>5, <2>2
        <3>2. req[s].step # "idle" => e.id # req[s].id
            BY <1>2, <1>3, <2>2 DEF NumberInv, IsEvent
        <3> QED
            BY <1>7, <3>1, <3>2 DEF StepInv, EventInv, Busy, IsEvent
    <2> QED
        BY <2>1, <2>2
<1>11. FactionInv'
    <2>1. e.kind = "faction_set" => e.value \in SelectableFactions
        <3>1. req[r].op \in {"name", "faction", "complete"}
            BY <1>1 DEF RequestRecords, Ops
        <3> QED
            BY <1>3, <3>1 DEF IsEvent
    <2> QED
        BY <1>4, <1>5, <1>7, <2>1 DEF FactionInv, Selected
<1>12. AckedIsDurable'
    BY <1>7 DEF AckedIsDurable
<1> QED
    BY <1>3, <1>8, <1>9, <1>10, <1>11, <1>12 DEF e

-----------------------------------------------------------------------------
(* The steps *)

(* An answer without an event: the service refuses, or it does not know.    *)
LEMMA RefusalStep ==
    ASSUME OnboardingInv, NEW r \in Requests, NEW outcome,
           Busy(req[r]), req[r].step # "commit",
           outcome \in Outcomes, outcome \in OutcomesOf[req[r].op],
           req[r].op = "script" \/ outcome # "ok",
           Answer(r, outcome),
           UNCHANGED <<onboarded, inserting, outbox, account, calls, client>>
    PROVE  OnboardingInv'
<1> DEFINE q == [req[r] EXCEPT !.step = "done", !.outcome = outcome]
<1> USE DEF OnboardingInv
<1>1. /\ req \in [Requests -> RequestRecords] /\ req[r] \in RequestRecords
      /\ StepInv(req[r]) /\ EventInv(req[r])
    BY DEF TypeOK, RequestRecords
<1>2. /\ q \in RequestRecords
      /\ q.id = req[r].id /\ q.op = req[r].op /\ q.arg = req[r].arg
      /\ q.step = "done" /\ q.outcome = outcome
    BY <1>1 DEF RequestRecords, Steps
<1>3. req' = [req EXCEPT ![r] = q]
    BY DEF Answer
<1> HIDE DEF q
<1>4. StepInv(q) /\ EventInv(q)
    BY <1>1, <1>2 DEF StepInv, EventInv, Busy
<1>5. \A s \in Requests : req'[s].step = "commit" <=> inserting' = s
    BY <1>1, <1>2, <1>3 DEF TypeOK
<1>6. inserting' \in Requests \union {None} /\ (inserting' # None => ~onboarded)
    BY DEF TypeOK, AnnounceInv
<1>7. req[r].step # "idle" /\ q.step \notin {"insert", "commit"}
    BY <1>2 DEF Busy
<1> QED
    BY <1>2, <1>3, <1>4, <1>5, <1>6, <1>7, QuietStep

(* A request that has just arrived.                                         *)
LEMMA ArrivalShape ==
    ASSUME NEW op \in Ops, NEW arg \in Names \union Factions \union Langs \union {None},
           NEW id \in 0 .. MaxCalls, NEW step \in Steps,
           NEW outcome \in Outcomes \union {None},
           NEW told \in SelectableFactions \union {None}
    PROVE  [Idle EXCEPT !.op = op, !.arg = arg, !.id = id, !.step = step,
                        !.outcome = outcome, !.chosen = told] \in RequestRecords
<1> DEFINE named == [Idle EXCEPT !.op = op, !.arg = arg]
           at == [named EXCEPT !.id = id, !.step = step]
           sent == [at EXCEPT !.outcome = outcome, !.chosen = told]
<1>1. named \in RequestRecords
    BY IdleShape DEF RequestRecords
<1>2. at \in RequestRecords
    <2> HIDE DEF named
    <2> QED
        BY <1>1 DEF RequestRecords
<1>3. sent \in RequestRecords
    <2> HIDE DEF at
    <2> QED
        BY <1>2 DEF RequestRecords
<1> QED
    BY <1>3, Zenon

LEMMA ArriveStep ==
    ASSUME OnboardingInv, NEW r \in Requests, Arrive(r)
    PROVE  OnboardingInv'
<1> USE OnboardingAssumption DEF OnboardingInv, db, account, client
<1>16. PICK op \in Ops : \E arg \in Arguments(op) :
        req' = [req EXCEPT ![r] =
            [Idle EXCEPT !.op = op, !.arg = arg, !.id = calls + 1,
                         !.step = FirstStep(op, arg),
                         !.outcome = IF FirstStep(op, arg) = "done"
                                     THEN "invalid_faction" ELSE None,
                         !.chosen = chosen]]
    BY DEF Arrive
<1>1. PICK arg \in Arguments(op) :
        req' = [req EXCEPT ![r] =
            [Idle EXCEPT !.op = op, !.arg = arg, !.id = calls + 1,
                         !.step = FirstStep(op, arg),
                         !.outcome = IF FirstStep(op, arg) = "done"
                                     THEN "invalid_faction" ELSE None,
                         !.chosen = chosen]]
    BY <1>16
<1> DEFINE q == [Idle EXCEPT !.op = op, !.arg = arg, !.id = calls + 1,
                         !.step = FirstStep(op, arg),
                         !.outcome = IF FirstStep(op, arg) = "done"
                                     THEN "invalid_faction" ELSE None,
                         !.chosen = chosen]
<1>2. /\ op = "script" => FirstStep(op, arg) = "read_script" /\ arg \in Langs
      /\ op = "name" => FirstStep(op, arg) = "validate" /\ arg \in Names
      /\ op = "faction" => arg \in Factions /\
            FirstStep(op, arg) = IF arg \in SelectableFactions THEN "publish" ELSE "done"
      /\ op = "complete" => FirstStep(op, arg) = "read_player" /\ arg = None
    BY DEF FirstStep, Arguments
<1>3. /\ calls \in Nat /\ calls < MaxCalls /\ calls' = calls + 1
      /\ req[r].step = "idle"
      /\ UNCHANGED <<onboarded, inserting, outbox, registered, faction, delivered,
                     acked, chosen, completions>>
    BY DEF Arrive, TypeOK
<1>4. /\ q.op = op /\ q.arg = arg /\ q.id = calls + 1 /\ q.step = FirstStep(op, arg)
      /\ q.outcome = IF FirstStep(op, arg) = "done" THEN "invalid_faction" ELSE None
      /\ q.chosen = chosen /\ q.faction = None
    BY DEF Idle
<1>5. req \in [Requests -> RequestRecords] /\ req' = [req EXCEPT ![r] = q]
    BY <1>1 DEF TypeOK, RequestRecords
<1>6. /\ q.step \in {"read_script", "validate", "publish", "read_player", "done"}
      /\ q.step = "done" <=> (op = "faction" /\ arg \notin SelectableFactions)
    BY <1>2, <1>4 DEF Ops
<1>7. q \in RequestRecords
    <2>1. arg \in Names \union Factions \union Langs \union {None}
        BY <1>2 DEF Ops
    <2>2. calls + 1 \in 0 .. MaxCalls
        BY <1>3
    <2>3. FirstStep(op, arg) \in Steps
        BY <1>4, <1>6 DEF Steps
    <2>4. (IF FirstStep(op, arg) = "done" THEN "invalid_faction" ELSE None)
            \in Outcomes \union {None}
        BY DEF Outcomes
    <2>5. chosen \in SelectableFactions \union {None}
        BY DEF TypeOK
    <2> QED
        BY ONLY <2>1, <2>2, <2>3, <2>4, <2>5, ArrivalShape, ZenonT(60) DEF q
<1> HIDE DEF q
<1>8. \A s \in Requests : req'[s] = IF s = r THEN q ELSE req[s]
    BY <1>5
<1>9. req' \in [Requests -> RequestRecords]
    BY <1>5, <1>7
<1>10. TypeOK'
    <2>1. \A s \in Requests : req'[s].step = "commit" <=> inserting' = s
        BY <1>3, <1>6, <1>8 DEF TypeOK
    <2> QED
        BY <1>3, <1>9, <2>1 DEF TypeOK, RequestRecords
<1>11. \A e \in outbox : e.id # calls + 1 /\ e.id \in Nat
    BY <1>3 DEF NumberInv, TypeOK, Events
<1>12. NumberInv'
    BY <1>3, <1>4, <1>8, <1>11 DEF NumberInv
<1>13. \A s \in Requests : StepInv(req[s])' /\ EventInv(req[s])'
    <2> TAKE s \in Requests
    <2>1. CASE s = r
        <3>1. StepInv(q)
            BY <1>2, <1>4, <1>6 DEF StepInv, Ops
        <3>2. EventInv(q)
            BY <1>4, <1>6, <1>11, HandlerOutcomes DEF EventInv, Busy
        <3> QED
            BY <1>3, <1>8, <2>1, <3>1, <3>2 DEF StepInv, EventInv, Busy, IsEvent
    <2>2. CASE s # r
        BY <1>3, <1>8, <2>2 DEF StepInv, EventInv, Busy, IsEvent
    <2> QED
        BY <2>1, <2>2
<1>14. FactionInv'
    BY <1>3, <1>6, <1>8 DEF FactionInv, Selected
<1>15. AnnounceInv' /\ AckedIsDurable' /\ AnnouncedWasSelected'
    BY <1>3 DEF AnnounceInv, Announcements, AckedIsDurable, AnnouncedWasSelected
<1> QED
    BY <1>10, <1>12, <1>13, <1>14, <1>15

LEMMA ReadScriptStep ==
    ASSUME OnboardingInv, NEW r \in Requests, ReadScript(r)
    PROVE  OnboardingInv'
<1>1. PICK outcome \in {"ok", "script_not_found", "internal"} : Answer(r, outcome)
    BY DEF ReadScript
<1>2. req[r].op = "script" /\ Busy(req[r]) /\ req[r].step # "commit"
    BY DEF ReadScript, OnboardingInv, StepInv, Busy
<1>3. outcome \in Outcomes /\ outcome \in OutcomesOf[req[r].op]
    BY <1>2, HandlerOutcomes DEF Outcomes, Ops
<1> QED
    BY <1>1, <1>2, <1>3, RefusalStep DEF ReadScript, db

(* A request goes on to its next call, and leaves the row's key alone.      *)
LEMMA ProceedStep ==
    ASSUME OnboardingInv, NEW r \in Requests, NEW q \in RequestRecords,
           req' = [req EXCEPT ![r] = q],
           UNCHANGED <<db, account, calls, client>>,
           Busy(req[r]), Busy(q), req[r].step # "commit", q.step # "commit",
           q.id = req[r].id, StepInv(q),
           q.step = "insert" => q.faction # None /\ Selected(q.faction)
    PROVE  OnboardingInv'
<1>1. EventInv(q)
    BY DEF OnboardingInv, EventInv, Busy
<1>2. inserting' \in Requests \union {None} /\ (inserting' # None => ~onboarded)
    BY DEF OnboardingInv, TypeOK, AnnounceInv, db
<1>3. \A s \in Requests : req'[s].step = "commit" <=> inserting' = s
    BY DEF OnboardingInv, TypeOK, db
<1>4. req[r].step # "idle"
    BY DEF Busy
<1> QED
    BY <1>1, <1>2, <1>3, <1>4, QuietStep DEF db

LEMMA ValidateNameStep ==
    ASSUME OnboardingInv, NEW r \in Requests, ValidateName(r)
    PROVE  OnboardingInv'
<1>1. /\ req[r].op = "name" /\ Busy(req[r]) /\ req[r].step = "validate"
      /\ UNCHANGED <<db, account, calls, client>>
    BY DEF ValidateName, OnboardingInv, StepInv, Busy
<1>2. CASE Goto(r, "publish")
    <2> DEFINE q == [req[r] EXCEPT !.step = "publish"]
    <2>1. req[r] \in RequestRecords /\ req' = [req EXCEPT ![r] = q]
        BY <1>2 DEF Goto, OnboardingInv, TypeOK, RequestRecords
    <2>2. /\ q \in RequestRecords /\ q.step = "publish"
          /\ q.id = req[r].id /\ q.op = "name" /\ q.arg = req[r].arg
        BY <1>1, <2>1 DEF RequestRecords, Steps
    <2> HIDE DEF q
    <2>3. StepInv(q) /\ Busy(q)
        BY <1>1, <2>2 DEF OnboardingInv, StepInv, Busy
    <2> QED
        BY <1>1, <2>1, <2>2, <2>3, ProceedStep
<1>3. CASE \E outcome \in {"invalid_name", "player_not_found", "internal"} :
            Answer(r, outcome)
    <2>1. PICK outcome \in {"invalid_name", "player_not_found", "internal"} :
            Answer(r, outcome)
        BY <1>3
    <2>2. outcome \in Outcomes /\ outcome \in OutcomesOf[req[r].op] /\ outcome # "ok"
        BY <1>1, HandlerOutcomes DEF Outcomes, Ops
    <2> QED
        BY <1>1, <2>1, <2>2, RefusalStep DEF db
<1> QED
    BY <1>2, <1>3 DEF ValidateName

LEMMA PublishEventsStep ==
    ASSUME OnboardingInv, NEW r \in Requests, PublishEvents(r)
    PROVE  OnboardingInv'
<1>1. /\ req[r].op \in {"name", "faction"} /\ Busy(req[r]) /\ req[r].step = "publish"
      /\ req[r].op = "faction" => req[r].arg \in SelectableFactions
      /\ UNCHANGED <<onboarded, inserting, registered, faction, calls, client>>
    BY DEF PublishEvents, OnboardingInv, StepInv, Busy
<1>2. CASE /\ Delivery!Enqueue(EventOf(req[r]))
           /\ \E outcome \in {"ok", "internal"} : Answer(r, outcome)
    <2>1. PICK outcome \in {"ok", "internal"} : Answer(r, outcome)
        BY <1>2
    <2>2. outbox' = outbox \union {EventOf(req[r])} /\ UNCHANGED delivered
        BY <1>2 DEF Delivery!Enqueue
    <2>3. onboarded' \in BOOLEAN /\ inserting' \in Requests \union {None}
        BY <1>1 DEF OnboardingInv, TypeOK
    <2>4. \A s \in Requests : req'[s].step = "commit" <=> inserting' = s
        BY <1>1, <2>1 DEF Answer, OnboardingInv, TypeOK
    <2>5. /\ TypeOK' /\ NumberInv' /\ FactionInv' /\ AckedIsDurable'
          /\ \A s \in Requests : StepInv(req[s])' /\ EventInv(req[s])'
          /\ IsEvent(EventOf(req[r]), req[r])
        BY <1>1, <2>1, <2>2, <2>3, <2>4, CommitStep
    <2>6. EventOf(req[r]).kind # "player_onboarded"
        BY <1>1, <2>5 DEF IsEvent
    <2>7. Announcements' = Announcements
        BY <2>2, <2>6 DEF Announcements
    <2>8. AnnounceInv' /\ AnnouncedWasSelected'
        BY <1>1, <2>2, <2>7 DEF OnboardingInv, AnnounceInv, AnnouncedWasSelected, client
    <2> QED
        BY <2>5, <2>8 DEF OnboardingInv
<1>3. CASE UNCHANGED <<outbox, delivered>> /\ Answer(r, "internal")
    <2>1. "internal" \in Outcomes /\ "internal" \in OutcomesOf[req[r].op]
        BY <1>1, HandlerOutcomes DEF Outcomes, Ops
    <2> QED
        BY <1>1, <1>3, <2>1, RefusalStep DEF account
<1> QED
    BY <1>2, <1>3 DEF PublishEvents

LEMMA GetOnboardingPlayerStep ==
    ASSUME OnboardingInv, NEW r \in Requests, GetOnboardingPlayer(r)
    PROVE  OnboardingInv'
<1>1. /\ req[r].op = "complete" /\ Busy(req[r]) /\ req[r].step = "read_player"
      /\ UNCHANGED <<db, account, calls, client>>
    BY DEF GetOnboardingPlayer, OnboardingInv, StepInv, Busy
<1>2. CASE /\ faction # None
           /\ req' = [req EXCEPT ![r].step = "insert", ![r].faction = faction]
    <2> DEFINE q == [req[r] EXCEPT !.step = "insert", !.faction = faction]
    <2>1. req[r] \in RequestRecords /\ req' = [req EXCEPT ![r] = q]
        BY <1>2 DEF OnboardingInv, TypeOK, RequestRecords
    <2>2. /\ q \in RequestRecords /\ q.step = "insert" /\ q.faction = faction
          /\ q.id = req[r].id /\ q.op = "complete"
        BY <1>1, <2>1 DEF RequestRecords, Steps, OnboardingInv, TypeOK
    <2> HIDE DEF q
    <2>3. StepInv(q) /\ Busy(q)
        BY <2>2 DEF StepInv, Busy
    <2>4. q.faction # None /\ Selected(q.faction)
        BY <1>2, <2>2 DEF OnboardingInv, FactionInv
    <2> QED
        BY <1>1, <2>1, <2>2, <2>3, <2>4, ProceedStep
<1>3. CASE \E outcome \in {"player_not_found", "faction_not_selected", "internal"} :
            Answer(r, outcome)
    <2>1. PICK outcome \in {"player_not_found", "faction_not_selected", "internal"} :
            Answer(r, outcome)
        BY <1>3
    <2>2. outcome \in Outcomes /\ outcome \in OutcomesOf[req[r].op] /\ outcome # "ok"
        BY <1>1, HandlerOutcomes DEF Outcomes, Ops
    <2> QED
        BY <1>1, <2>1, <2>2, RefusalStep DEF db
<1> QED
    BY <1>2, <1>3 DEF GetOnboardingPlayer

LEMMA InsertOnboardingStep ==
    ASSUME OnboardingInv, NEW r \in Requests, InsertOnboarding(r)
    PROVE  OnboardingInv'
<1>1. /\ req[r].op = "complete" /\ Busy(req[r]) /\ req[r].step = "insert"
      /\ inserting = None
      /\ UNCHANGED <<onboarded, outbox, account, calls, client>>
    BY DEF InsertOnboarding, OnboardingInv, StepInv, Busy
<1>2. CASE ~onboarded /\ inserting' = r /\ Goto(r, "commit")
    <2> DEFINE q == [req[r] EXCEPT !.step = "commit"]
    <2>1. req[r] \in RequestRecords /\ req' = [req EXCEPT ![r] = q]
        BY <1>2 DEF Goto, OnboardingInv, TypeOK, RequestRecords
    <2>2. /\ q \in RequestRecords /\ q.step = "commit" /\ q.faction = req[r].faction
          /\ q.id = req[r].id /\ q.op = "complete"
        BY <1>1, <2>1 DEF RequestRecords, Steps
    <2> HIDE DEF q
    <2>3. StepInv(q) /\ EventInv(q)
        BY <1>1, <2>2 DEF OnboardingInv, StepInv, EventInv, Busy
    <2>4. q.faction # None /\ Selected(q.faction)
        BY <1>1, <2>2 DEF OnboardingInv, FactionInv
    <2>5. \A s \in Requests : req'[s].step = "commit" <=> inserting' = s
        <3>1. \A s \in Requests : req'[s] = IF s = r THEN q ELSE req[s]
            BY <2>1 DEF OnboardingInv, TypeOK
        <3>2. \A s \in Requests : req[s].step # "commit"
            BY <1>1, OnboardingAssumption DEF OnboardingInv, TypeOK
        <3> QED
            BY <1>2, <2>2, <3>1, <3>2
    <2>6. req[r].step # "idle"
        BY <1>1
    <2> QED
        BY <1>1, <1>2, <2>1, <2>2, <2>3, <2>4, <2>5, <2>6, QuietStep
<1>3. CASE /\ inserting' = None
           /\ \E outcome \in {"already_onboarded", "internal"} : Answer(r, outcome)
    <2>1. PICK outcome \in {"already_onboarded", "internal"} : Answer(r, outcome)
        BY <1>3
    <2>2. outcome \in Outcomes /\ outcome \in OutcomesOf[req[r].op] /\ outcome # "ok"
        BY <1>1, HandlerOutcomes DEF Outcomes, Ops
    <2> QED
        BY <1>1, <1>3, <2>1, <2>2, RefusalStep
<1> QED
    BY <1>2, <1>3 DEF InsertOnboarding

LEMMA CommitOnboardingStep ==
    ASSUME OnboardingInv, NEW r \in Requests, CommitOnboarding(r)
    PROVE  OnboardingInv'
<1>1. /\ req[r].op = "complete" /\ Busy(req[r]) /\ req[r].step = "commit"
      /\ inserting' = None /\ inserting = r /\ inserting # None
      /\ UNCHANGED <<registered, faction, calls, client>>
    BY OnboardingAssumption
        DEF CommitOnboarding, OnboardingInv, TypeOK, StepInv, Busy
<1>2. ~onboarded /\ Announcements = {} /\ completions = {}
    BY <1>1 DEF OnboardingInv, AnnounceInv
<1>3. req[r].faction # None /\ Selected(req[r].faction)
    BY <1>1 DEF OnboardingInv, FactionInv
<1>4. ASSUME \E outcome \in {"ok", "internal"} : Answer(r, outcome)
      PROVE  \A s \in Requests : req'[s].step = "commit" <=> inserting' = s
    <2>1. \A s \in Requests : req'[s].step = IF s = r THEN "done" ELSE req[s].step
        BY <1>4 DEF Answer, OnboardingInv, TypeOK
    <2> QED
        BY <1>1, <2>1, OnboardingAssumption DEF OnboardingInv, TypeOK
<1>5. CASE /\ onboarded' = TRUE
           /\ Delivery!Enqueue(EventOf(req[r]))
           /\ \E outcome \in {"ok", "internal"} : Answer(r, outcome)
    <2>1. PICK outcome \in {"ok", "internal"} : Answer(r, outcome)
        BY <1>5
    <2>2. outbox' = outbox \union {EventOf(req[r])} /\ UNCHANGED delivered
        BY <1>5 DEF Delivery!Enqueue
    <2>3. onboarded' \in BOOLEAN /\ inserting' \in Requests \union {None}
        BY <1>1, <1>5
    <2>4. \A s \in Requests : req'[s].step = "commit" <=> inserting' = s
        BY <1>4, <1>5
    <2>5. /\ TypeOK' /\ NumberInv' /\ FactionInv' /\ AckedIsDurable'
          /\ \A s \in Requests : StepInv(req[s])' /\ EventInv(req[s])'
          /\ IsEvent(EventOf(req[r]), req[r])
        BY <1>1, <1>3, <2>1, <2>2, <2>3, <2>4, CommitStep
    <2>6. /\ EventOf(req[r]).kind = "player_onboarded"
          /\ EventOf(req[r]).value = req[r].faction
        BY <1>1, <2>5 DEF IsEvent
    <2>7. Announcements' = {EventOf(req[r])}
        BY <1>2, <2>2, <2>6 DEF Announcements
    <2>8. AnnounceInv'
        BY <1>1, <1>2, <1>5, <2>7 DEF AnnounceInv, client
    <2>9. AnnouncedWasSelected'
        BY <1>3, <2>2, <2>6, <2>7 DEF AnnouncedWasSelected, Selected
    <2> QED
        BY <2>5, <2>8, <2>9 DEF OnboardingInv
<1>6. CASE UNCHANGED <<onboarded, outbox, delivered>> /\ Answer(r, "internal")
    <2> DEFINE q == [req[r] EXCEPT !.step = "done", !.outcome = "internal"]
    <2>1. req[r] \in RequestRecords /\ req' = [req EXCEPT ![r] = q]
        BY <1>6 DEF Answer, OnboardingInv, TypeOK, RequestRecords
    <2>2. /\ q \in RequestRecords /\ q.step = "done" /\ q.outcome = "internal"
          /\ q.id = req[r].id /\ q.op = "complete"
        BY <1>1, <2>1 DEF RequestRecords, Steps, Outcomes
    <2> HIDE DEF q
    <2>3. StepInv(q) /\ EventInv(q)
        BY <2>2, HandlerOutcomes DEF StepInv, EventInv, Busy, Ops
    <2>4. \A s \in Requests : req'[s].step = "commit" <=> inserting' = s
        BY <1>4, <1>6
    <2>5. /\ UNCHANGED <<onboarded, outbox, account, calls, client>>
          /\ req[r].step # "idle"
        BY <1>1, <1>6 DEF account
    <2> QED
        BY <1>1, <2>1, <2>2, <2>3, <2>4, <2>5, QuietStep
<1> QED
    BY <1>5, <1>6 DEF CommitOnboarding

LEMMA ReceiveStep ==
    ASSUME OnboardingInv, NEW r \in Requests, Receive(r)
    PROVE  OnboardingInv'
<1> USE DEF OnboardingInv
<1>1. /\ req[r] \in RequestRecords /\ req[r].step = "done"
      /\ UNCHANGED <<onboarded, inserting, outbox, registered, faction, delivered, calls>>
      /\ StepInv(req[r]) /\ EventInv(req[r])
    BY DEF Receive, TypeOK, RequestRecords, db, account
<1>2. /\ req' \in [Requests -> RequestRecords]
      /\ \A s \in Requests : req'[s] = IF s = r THEN Idle ELSE req[s]
    BY IdleShape DEF Receive, TypeOK, RequestRecords
<1>3. Idle.step = "idle" /\ Idle.op = "script"
    BY DEF Idle
<1>4. ASSUME req[r].op # "script", req[r].outcome = "ok"
      PROVE  EventOf(req[r]) \in outbox
    <2>1. PICK e \in outbox : IsEvent(e, req[r])
        BY <1>1, <1>4 DEF EventInv
    <2>2. e = EventOf(req[r])
        <3>1. e = [id |-> e.id, kind |-> e.kind, value |-> e.value]
            BY <2>1 DEF TypeOK, Events
        <3>2. req[r].op \in {"name", "faction", "complete"}
            BY <1>1, <1>4 DEF RequestRecords, Ops
        <3> QED
            BY <1>1, <2>1, <3>1, <3>2, EventShape DEF IsEvent
    <2> QED
        BY <2>1, <2>2
<1>5. acked' \subseteq outbox
    BY <1>4 DEF Receive, AckedIsDurable
<1>6. chosen' \in SelectableFactions \union {None}
    <2>1. ASSUME req[r].op = "faction", req[r].outcome = "ok"
          PROVE  req[r].arg \in SelectableFactions
        <3>1. PICK e \in outbox : IsEvent(e, req[r])
            BY <1>1, <2>1 DEF EventInv
        <3> QED
            BY <2>1, <3>1 DEF IsEvent, FactionInv
    <2> QED
        BY <2>1 DEF Receive, TypeOK
<1>7. \A i \in completions' : \E a \in Announcements : a.id = i
    <2>1. ASSUME req[r].op = "complete", req[r].outcome = "ok"
          PROVE  \E a \in Announcements : a.id = req[r].id
        BY <1>1, <2>1 DEF EventInv, IsEvent, Announcements
    <2> QED
        BY <2>1 DEF Receive, AnnounceInv
<1>8. completions' \subseteq 1 .. MaxCalls
    BY <1>7 DEF Announcements, TypeOK, Events
<1>9. TypeOK'
    <2>1. \A s \in Requests : req'[s].step = "commit" <=> inserting' = s
        BY <1>1, <1>2, <1>3 DEF TypeOK
    <2> QED
        BY <1>1, <1>2, <1>5, <1>6, <1>8, <2>1 DEF TypeOK, RequestRecords
<1>10. NumberInv'
    BY <1>1, <1>2, <1>3 DEF NumberInv
<1>11. \A s \in Requests : StepInv(req[s])' /\ EventInv(req[s])'
    <2> TAKE s \in Requests
    <2>1. CASE s = r
        BY <1>2, <1>3, <2>1 DEF StepInv, EventInv, Busy
    <2>2. CASE s # r
        BY <1>1, <1>2, <2>2 DEF StepInv, EventInv, Busy, IsEvent
    <2> QED
        BY <2>1, <2>2
<1>12. FactionInv'
    BY <1>1, <1>2, <1>3 DEF FactionInv, Selected
<1>13. AnnounceInv' /\ AckedIsDurable' /\ AnnouncedWasSelected'
    BY <1>1, <1>5, <1>7 DEF AnnounceInv, Announcements, AckedIsDurable,
                            AnnouncedWasSelected
<1> QED
    BY <1>9, <1>10, <1>11, <1>12, <1>13

LEMMA CrashStep ==
    ASSUME OnboardingInv, Crash
    PROVE  OnboardingInv'
<1> USE DEF OnboardingInv
<1>1. /\ inserting' = None
      /\ UNCHANGED <<onboarded, outbox, registered, faction, delivered, calls,
                     acked, chosen, completions>>
    BY DEF Crash, account, client
<1>2. /\ req' \in [Requests -> RequestRecords]
      /\ \A s \in Requests : req'[s] = Idle
    BY IdleShape DEF Crash
<1>3. Idle.step = "idle" /\ Idle.op = "script"
    BY DEF Idle
<1>4. TypeOK'
    <2>1. \A s \in Requests : req'[s].step = "commit" <=> inserting' = s
        BY <1>1, <1>2, <1>3, OnboardingAssumption
    <2> QED
        BY <1>1, <1>2, <2>1 DEF TypeOK, RequestRecords
<1>5. NumberInv' /\ \A s \in Requests : StepInv(req[s])' /\ EventInv(req[s])'
    BY <1>1, <1>2, <1>3 DEF NumberInv, StepInv, EventInv, Busy
<1>6. FactionInv'
    BY <1>1, <1>2, <1>3 DEF FactionInv, Selected
<1>7. AnnounceInv' /\ AckedIsDurable' /\ AnnouncedWasSelected'
    BY <1>1 DEF AnnounceInv, Announcements, AckedIsDurable, AnnouncedWasSelected
<1> QED
    BY <1>4, <1>5, <1>6, <1>7

(* A step of account, which leaves scenario alone and forgets nothing.      *)
LEMMA AccountStep ==
    ASSUME OnboardingInv, UNCHANGED <<db, req, calls, client>>,
           registered' \in BOOLEAN, faction' \in SelectableFactions \union {None},
           delivered \subseteq delivered', delivered' \subseteq outbox,
           faction' # None => Selected(faction)'
    PROVE  OnboardingInv'
<1> USE DEF OnboardingInv, db, client
<1>1. TypeOK' /\ NumberInv'
    BY DEF TypeOK, NumberInv
<1>2. \A s \in Requests : StepInv(req[s])' /\ EventInv(req[s])'
    BY DEF StepInv, EventInv, Busy, IsEvent
<1>3. FactionInv'
    BY DEF FactionInv, Selected
<1>4. AnnounceInv' /\ AckedIsDurable' /\ AnnouncedWasSelected'
    BY DEF AnnounceInv, Announcements, AckedIsDurable, AnnouncedWasSelected
<1> QED
    BY <1>1, <1>2, <1>3, <1>4

LEMMA OnboardingStep == OnboardingInv /\ [Next]_vars => OnboardingInv'
<1> SUFFICES ASSUME OnboardingInv, [Next]_vars PROVE OnboardingInv'
    OBVIOUS
<1>1. ASSUME NEW r \in Requests,
             \/ Arrive(r) \/ ReadScript(r) \/ ValidateName(r) \/ PublishEvents(r)
             \/ GetOnboardingPlayer(r) \/ InsertOnboarding(r) \/ CommitOnboarding(r)
             \/ Receive(r)
      PROVE  OnboardingInv'
    BY <1>1, ArriveStep, ReadScriptStep, ValidateNameStep, PublishEventsStep,
       GetOnboardingPlayerStep, InsertOnboardingStep, CommitOnboardingStep, ReceiveStep
<1>2. CASE Crash
    BY <1>2, CrashStep
<1>3. CASE Register
    <2>1. faction \in SelectableFactions \union {None} /\ delivered \subseteq outbox
        BY DEF OnboardingInv, TypeOK
    <2>2. faction' # None => Selected(faction)'
        BY <1>3 DEF Register, OnboardingInv, FactionInv, Selected
    <2> QED
        BY <1>3, <2>1, <2>2, AccountStep DEF Register
<1>4. ASSUME NEW e \in outbox, Consume(e) PROVE OnboardingInv'
    <2>1. /\ delivered' = delivered \union {e}
          /\ UNCHANGED <<db, registered, req, calls, client>>
          /\ faction' = IF e.kind = "faction_set" THEN e.value ELSE faction
        BY <1>4 DEF Consume, Delivery!Deliver, db
    <2>2. /\ delivered \subseteq outbox /\ registered \in BOOLEAN
          /\ faction' \in SelectableFactions \union {None}
        BY <2>1 DEF OnboardingInv, TypeOK, FactionInv
    <2>3. faction' # None => Selected(faction)'
        BY <2>1 DEF OnboardingInv, FactionInv, Selected
    <2> QED
        BY <2>1, <2>2, <2>3, AccountStep
<1>5. CASE UNCHANGED vars
    <2>1. faction' # None => Selected(faction)'
        BY <1>5 DEF OnboardingInv, FactionInv, Selected, vars, account
    <2>2. /\ UNCHANGED <<db, req, calls, client, registered, faction, delivered>>
          /\ registered' \in BOOLEAN /\ faction' \in SelectableFactions \union {None}
          /\ delivered' \subseteq outbox
        BY <1>5 DEF OnboardingInv, TypeOK, vars, account
    <2> QED
        BY <2>1, <2>2, AccountStep
<1> QED
    BY <1>1, <1>2, <1>3, <1>4, <1>5 DEF Next

LEMMA OnboardingInvariant == Spec => []OnboardingInv
<1>1. QED
    BY OnboardingInit, OnboardingStep, PTL DEF Spec

-----------------------------------------------------------------------------
(* Theorems *)

(* Type correctness of the onboarding, and of the lock it has: the key of   *)
(* the player's row is held by exactly the request about to commit it.      *)
THEOREM TypeCorrect == Spec => []TypeOK
<1>1. OnboardingInv => TypeOK
    BY DEF OnboardingInv
<1> QED
    BY <1>1, OnboardingInvariant, PTL

(* However many requests complete the onboarding at once, fail or die, the  *)
(* row and the player_onboarded event are committed together, and once.     *)
THEOREM OnboardedAnnouncedOnce == Spec => []OnboardedIsAnnouncedOnce
<1>1. OnboardingInv => OnboardedIsAnnouncedOnce
    BY FS_Singleton DEF OnboardingInv, AnnounceInv, OnboardedIsAnnouncedOnce
<1> QED
    BY <1>1, OnboardingInvariant, PTL

(* At most one request for completion is answered with 200, because its     *)
(* number is the one of the announcement.                                   *)
THEOREM CompletesOnce == Spec => []OneCompletion
<1>1. OnboardingInv => OneCompletion
    <2> SUFFICES ASSUME OnboardingInv PROVE OneCompletion
        OBVIOUS
    <2> DEFINE told == completions \union {req[r].id : r \in Answered("complete", 200)}
    <2>1. \A i \in told : \E a \in Announcements : a.id = i
        <3>1. \A i \in completions : \E a \in Announcements : a.id = i
            BY DEF OnboardingInv, AnnounceInv
        <3>2. ASSUME NEW r \in Answered("complete", 200)
              PROVE  \E a \in Announcements : a.id = req[r].id
            <4>1. r \in Requests /\ req[r].step = "done" /\ req[r].op = "complete"
                  /\ Api!Status("completeOnboarding", req[r].outcome) = 200
                BY DEF Answered, Status, Handler
            <4>2. req[r].outcome = "ok"
                BY <4>1 DEF Api!Status, Api!Onboarding, Api!ResolveOnboardingErrorStatus
            <4>3. PICK e \in outbox : IsEvent(e, req[r])
                BY <4>1, <4>2 DEF OnboardingInv, EventInv
            <4> QED
                BY <4>1, <4>3 DEF IsEvent, Announcements
        <3> QED
            BY <3>1, <3>2
    <2>2. \A a, b \in Announcements : a = b
        BY DEF OnboardingInv, AnnounceInv
    <2>3. told = {} \/ \E i \in told : told = {i}
        BY <2>1, <2>2
    <2> HIDE DEF told
    <2>4. Cardinality(told) \in {0, 1}
        BY <2>3, FS_EmptySet, FS_Singleton
    <2>5. Cardinality(told) <= 1
        BY <2>4
    <2> QED
        BY <2>5 DEF OneCompletion, told
<1> QED
    BY <1>1, OnboardingInvariant, PTL

(* What was acknowledged with 204 is in the outbox, whatever has crashed    *)
(* since.                                                                   *)
THEOREM AckedDurable == Spec => []AckedIsDurable
<1>1. OnboardingInv => AckedIsDurable
    BY DEF OnboardingInv
<1> QED
    BY <1>1, OnboardingInvariant, PTL

(* The faction of the announcement is one the player selected and account   *)
(* was told of, in whatever order the events arrived.                       *)
THEOREM SelectedAnnounced == Spec => []AnnouncedWasSelected
<1>1. OnboardingInv => AnnouncedWasSelected
    BY DEF OnboardingInv
<1> QED
    BY <1>1, OnboardingInvariant, PTL

(* A refusal has left no event, a success has left its own, and only an     *)
(* internal error leaves the client in the dark.                            *)
THEOREM AnswersTrue == Spec => []AnswersAreTrue
<1>1. OnboardingInv => AnswersAreTrue
    <2> SUFFICES ASSUME OnboardingInv, NEW r \in Requests,
                        req[r].step = "done", req[r].op # "script"
                 PROVE  /\ req[r].outcome \in Api!Outcomes(Handler(req[r].op))
                        /\ (EventOf(req[r]) \in outbox)
                              \in Api!Done(Handler(req[r].op), req[r].outcome)
        BY DEF AnswersAreTrue
    <2>1. /\ req[r] \in RequestRecords /\ EventInv(req[r])
          /\ req[r].op \in {"name", "faction", "complete"}
        BY DEF OnboardingInv, TypeOK, RequestRecords, Ops
    <2>2. EventOf(req[r]).id = req[r].id
        BY DEF EventOf
    <2>3. req[r].outcome \in Api!Outcomes(Handler(req[r].op))
        BY <2>1 DEF EventInv, OutcomesOf, Ops
    <2>4. CASE req[r].outcome = "ok"
        <3>1. PICK e \in outbox : IsEvent(e, req[r])
            BY <2>1, <2>4 DEF EventInv
        <3>2. e = [id |-> e.id, kind |-> e.kind, value |-> e.value]
            BY <3>1 DEF OnboardingInv, TypeOK, Events
        <3>3. e = EventOf(req[r])
            BY <2>1, <3>1, <3>2, EventShape DEF IsEvent
        <3> QED
            BY <2>3, <2>4, <3>1, <3>3 DEF Api!Done
    <2>5. CASE req[r].outcome = "internal"
        <3>1. Handler(req[r].op) \in Api!Changing
            BY <2>1 DEF Handler, Api!Changing, Api!Silent
        <3>2. (EventOf(req[r]) \in outbox) \in BOOLEAN
            OBVIOUS
        <3> QED
            BY <2>3, <2>5, <3>1, <3>2 DEF Api!Done
    <2>6. CASE req[r].outcome \notin {"ok", "internal"}
        <3>1. EventOf(req[r]) \notin outbox
            BY <2>1, <2>2, <2>6 DEF EventInv
        <3>2. req[r].outcome # "ok" /\ req[r].outcome # "internal"
            BY <2>6
        <3>3. Api!Done(Handler(req[r].op), req[r].outcome) = {FALSE}
            BY <3>2 DEF Api!Done
        <3>4. (EventOf(req[r]) \in outbox) = FALSE
            BY <3>1
        <3> QED
            BY <2>3, <3>3, <3>4
    <2> QED
        BY <2>4, <2>5, <2>6
<1> QED
    BY <1>1, OnboardingInvariant, PTL

(* The event a transaction is about to insert is not in the outbox yet. *)
EventsAreNew ==
    \A r \in Requests : req[r].step \in {"publish", "commit"} =>
        EventOf(req[r]) \notin outbox

(* Every transaction brings an event of its own, with concurrent, retried   *)
(* and crashed requests of one player too: that an event is enqueued once   *)
(* costs no request its commit (uuid.New, service.go 136-188).              *)
THEOREM TransactionsBringNewEvents == Spec => []EventsAreNew
<1>1. ASSUME OnboardingInv PROVE EventsAreNew
    <2> SUFFICES ASSUME NEW r \in Requests, req[r].step \in {"publish", "commit"}
                 PROVE  EventOf(req[r]) \notin outbox
        BY DEF EventsAreNew
    <2>1. /\ Busy(req[r]) /\ StepInv(req[r]) /\ EventInv(req[r])
          /\ req[r] \in RequestRecords
        BY <1>1 DEF OnboardingInv, TypeOK, Busy, RequestRecords
    <2>2. EventOf(req[r]).id = req[r].id
        BY DEF EventOf
    <2> QED
        BY <2>1, <2>2 DEF EventInv
<1> QED
    BY <1>1, OnboardingInvariant, PTL

(* The onboarding keeps to what Outbox promises its writers: all it does to *)
(* the outbox is to enqueue an event that was not there, and all account    *)
(* learns it learns by a delivery of what is committed; a refused, failed,  *)
(* crashed or answered request leaves both alone (onboarding_repo.go 30-83).*)
THEOREM OnboardingFitsTheOutbox == Spec => Delivery!Spec
<1>1. Init => Delivery!Init
    BY DEF Init, Delivery!Init
<1>2. ASSUME OnboardingInv, OnboardingInv', [Next]_vars
      PROVE  [Delivery!Next]_(Delivery!vars)
    <2>1. ASSUME NEW e, Delivery!Enqueue(e) PROVE Delivery!Next
        <3>1. e \in Events
            BY <1>2, <2>1 DEF Delivery!Enqueue, OnboardingInv, TypeOK
        <3> QED
            BY <2>1, <3>1 DEF Delivery!Next
    <2>2. ASSUME NEW r \in Requests, PublishEvents(r) \/ CommitOnboarding(r)
          PROVE  [Delivery!Next]_(Delivery!vars)
        <3>1. CASE Delivery!Enqueue(EventOf(req[r]))
            BY <2>1, <3>1
        <3>2. CASE UNCHANGED <<outbox, delivered>>
            BY <3>2 DEF Delivery!vars
        <3> QED
            BY <2>2, <3>1, <3>2 DEF PublishEvents, CommitOnboarding
    <2>3. ASSUME NEW r \in Requests,
                 \/ Arrive(r) \/ ReadScript(r) \/ ValidateName(r)
                 \/ GetOnboardingPlayer(r) \/ InsertOnboarding(r) \/ Receive(r)
          PROVE  UNCHANGED <<outbox, delivered>>
        BY <2>3 DEF Arrive, ReadScript, ValidateName, GetOnboardingPlayer,
                    InsertOnboarding, Receive, db, account
    <2>4. CASE Crash \/ Register \/ UNCHANGED vars
        BY <2>4 DEF Crash, Register, vars, db, account, Delivery!vars
    <2>5. ASSUME NEW e \in outbox, Consume(e) PROVE Delivery!Next
        <3>1. e \in Events
            BY <1>2 DEF OnboardingInv, TypeOK
        <3> QED
            BY <2>5, <3>1 DEF Consume, Delivery!Next
    <2> QED
        BY <1>2, <2>2, <2>3, <2>4, <2>5 DEF Next, Delivery!vars
<1> QED
    BY <1>1, <1>2, OnboardingInvariant, PTL DEF Spec, Delivery!Spec
=============================================================================
