-------------------------------- MODULE Alerts --------------------------------
(***************************************************************************)
(* Alert rules: the table (internal/store/store.go), the API that changes  *)
(* it and the collector that evaluates it (internal/app/server.go), and    *)
(* the page that lists rules, adds and removes them (web/src/main.tsx).    *)
(* What the collector knows of a rule is in memory, under the rule's id:   *)
(* it outlives the rule, but not the process.                              *)
(***************************************************************************)
EXTENDS Naturals, FiniteSets, FiniteSetsExt, Functions

CONSTANTS
    Duration,      \* seconds a rule can ask for, in steps of the collector
    Repeat,
    MaxTime,       \* bound: steps of the collector
    MaxRules,      \* bound: rules created
    MaxChanges,    \* bound: changes of rules, removals
    MaxStops       \* bound: stops of the panel

ASSUME AlertAssumption ==
    /\ Duration \subseteq Nat /\ Repeat \subseteq Nat \ {0}
    /\ MaxTime \in Nat /\ MaxRules \in Nat /\ MaxChanges \in Nat /\ MaxStops \in Nat

VARIABLES
    now,         \* the clock
    rules,       \* alert_rules, by id; "serial" tells a rule from all others
    created,     \* rules inserted
    alertStates, \* in memory, by id
    told,        \* by id: what was said of the rule by this process: last
    spell,       \* by id: times of the samples since one did not fire
    listed,      \* the page's rules, each with its id and serial
    answer,      \* an answer to the page's load, "none" or the rules
    removing,    \* the rules of removals under way
    changes, stops

panel == <<rules, created, alertStates>>
history == <<told, spell>>
page == <<listed, answer, removing>>
bounds == <<changes, stops>>
vars == <<now, panel, history, page, bounds>>

Id == 1 .. MaxRules
Rule == [serial : Id, duration : Duration, repeat : Repeat, enabled : BOOLEAN]

(* since = 0 and sent = 0 are the zero times.                              *)
Zero == [since |-> 0, sent |-> 0, active |-> FALSE]
Untold == [kind |-> "none", at |-> 0]

Row(id) == [id |-> id, serial |-> rules[id].serial]
Rows == {Row(id) : id \in DOMAIN rules}

Init ==
    /\ now = 0 /\ created = 0
    /\ rules = << >> /\ alertStates = << >> /\ told = << >> /\ spell = << >>
    /\ listed = {} /\ answer = [got |-> FALSE, rows |-> {}] /\ removing = {}
    /\ changes = 0 /\ stops = 0

Set(f, x, y) == [z \in DOMAIN f \cup {x} |-> IF z = x THEN y ELSE f[z]]
Change == changes < MaxChanges /\ changes' = changes + 1 /\ UNCHANGED stops

-----------------------------------------------------------------------------
(* The table.                                                              *)

(* Mutant: the id of a removed rule is used again.                         *)
NewIdReused(n) == CHOOSE id \in Id : id \notin DOMAIN rules

(* Mutant: ids from 0, which asks SaveAlertRule for another rule.          *)
NewIdFromZero(n) == n

(* AUTOINCREMENT.                                                          *)
NewId(n) == n + 1

(* SaveAlertRule with id 0.                                                *)
Insert(duration, repeat, enabled) ==
    LET id == NewId(created) IN
    /\ created < MaxRules /\ created' = created + 1
    /\ rules' = Set(rules, id, [serial |-> created', duration |-> duration,
                                repeat |-> repeat, enabled |-> enabled])
    /\ told' = Set(told, id, Untold) /\ spell' = Set(spell, id, {})
    /\ UNCHANGED <<now, alertStates, page, bounds>>

(* SaveAlertRule with an id; the page never does.                          *)
Update(id, duration, repeat, enabled) ==
    /\ rules' = [rules EXCEPT ![id].duration = duration, ![id].repeat = repeat,
                              ![id].enabled = enabled]
    /\ rules' # rules /\ Change
    /\ UNCHANGED <<now, created, alertStates, history, page>>

-----------------------------------------------------------------------------
(* The collector: evaluateAlerts for one rule, firing or not, at time t.   *)

StateOf(id) == IF id \in DOMAIN alertStates THEN alertStates[id] ELSE Zero

(* Mutant: a sample that does not fire ends the alert, not the spell.      *)
EvaluatedLoosely(rule, st, firing, t) ==
    LET since == IF st.since = 0 THEN t ELSE st.since
        due == /\ t - since >= rule.duration
               /\ ~st.active \/ t - st.sent >= rule.repeat
    IN IF ~firing THEN [st |-> [st EXCEPT !.active = FALSE],
                        says |-> IF st.active THEN "recovery" ELSE "none"]
       ELSE IF due THEN [st |-> [since |-> since, sent |-> t, active |-> TRUE],
                         says |-> "alert"]
       ELSE [st |-> [st EXCEPT !.since = since], says |-> "none"]

Evaluated(rule, st, firing, t) ==
    LET since == IF st.since = 0 THEN t ELSE st.since
        due == /\ t - since >= rule.duration
               /\ ~st.active \/ t - st.sent >= rule.repeat
    IN IF ~firing THEN [st |-> Zero, says |-> IF st.active THEN "recovery" ELSE "none"]
       ELSE IF due THEN [st |-> [since |-> since, sent |-> t, active |-> TRUE],
                         says |-> "alert"]
       ELSE [st |-> [st EXCEPT !.since = since], says |-> "none"]

(* A sample and its evaluation against the rules of this moment.           *)
Collect(hot) ==
    LET t == now + 1
        on == {id \in DOMAIN rules : rules[id].enabled}
        next == [id \in on |-> Evaluated(rules[id], StateOf(id), id \in hot, t)]
    IN
    /\ now < MaxTime /\ now' = t /\ hot \subseteq on
    /\ alertStates' = [id \in DOMAIN alertStates \cup on |->
                         IF id \in on THEN next[id].st ELSE alertStates[id]]
    /\ told' = [id \in DOMAIN told |->
                  IF id \in on /\ next[id].says # "none"
                  THEN [kind |-> next[id].says, at |-> t] ELSE told[id]]
    /\ spell' = [id \in DOMAIN spell |->
                   IF id \in hot THEN spell[id] \cup {t}
                   ELSE IF id \in on THEN {} ELSE spell[id]]
    /\ UNCHANGED <<rules, created, page, bounds>>

(* The agent does not answer, or the table is not read.                    *)
CollectFails ==
    /\ now < MaxTime /\ now' = now + 1
    /\ UNCHANGED <<panel, history, page, bounds>>

Restart ==
    /\ stops < MaxStops /\ stops' = stops + 1
    /\ alertStates' = << >>
    /\ told' = [id \in DOMAIN rules |-> Untold] /\ spell' = [id \in DOMAIN rules |-> {}]
    /\ UNCHANGED <<now, rules, created, page, changes>>

-----------------------------------------------------------------------------
(* The page.                                                               *)

Load ==
    /\ ~answer.got /\ answer' = [got |-> TRUE, rows |-> Rows]
    /\ UNCHANGED <<now, panel, history, listed, removing, bounds>>

(* Failures are ignored: the rows stay.                                    *)
LoadEnds ==
    /\ answer.got /\ answer' = [got |-> FALSE, rows |-> {}]
    /\ listed' \in {listed, answer.rows}
    /\ UNCHANGED <<now, panel, history, removing, bounds>>

remove(row) ==
    /\ Change /\ removing' = removing \cup {row}
    /\ UNCHANGED <<now, panel, history, listed, answer>>

(* DeleteAlertRule; no row is no error.                                    *)
Delete(row) ==
    /\ removing' = removing \ {row}
    /\ rules' = Restrict(rules, DOMAIN rules \ {row.id})
    /\ told' = Restrict(told, DOMAIN rules') /\ spell' = Restrict(spell, DOMAIN rules')
    /\ UNCHANGED <<now, created, alertStates, listed, answer, bounds>>

RemoveFails(row) ==
    /\ removing' = removing \ {row}
    /\ UNCHANGED <<now, panel, history, listed, answer, bounds>>

-----------------------------------------------------------------------------

Next ==
    \/ \E d \in Duration, r \in Repeat, e \in BOOLEAN :
          \/ Insert(d, r, e)
          \/ \E id \in DOMAIN rules : Update(id, d, r, e)
    \/ \E hot \in SUBSET DOMAIN rules : Collect(hot)
    \/ CollectFails \/ Restart
    \/ Load \/ LoadEnds
    \/ \E row \in listed : remove(row)
    \/ \E row \in removing : Delete(row) \/ RemoveFails(row)

Spec == Init /\ [][Next]_vars

-----------------------------------------------------------------------------

RowSet == [id : Id, serial : Id]

TypeOK ==
    /\ now \in 0 .. MaxTime /\ created \in 0 .. MaxRules
    /\ DOMAIN rules \subseteq Id /\ \A id \in DOMAIN rules : rules[id] \in Rule
    /\ DOMAIN alertStates \subseteq Id
    /\ \A id \in DOMAIN alertStates :
          alertStates[id] \in [since : 0 .. now, sent : 0 .. now, active : BOOLEAN]
    /\ DOMAIN told = DOMAIN rules /\ DOMAIN spell = DOMAIN rules
    /\ \A id \in DOMAIN rules :
          /\ told[id] \in [kind : {"none", "alert", "recovery"}, at : 0 .. now]
          /\ spell[id] \subseteq 1 .. now
    /\ listed \subseteq RowSet /\ removing \subseteq RowSet
    /\ answer \in [got : BOOLEAN, rows : SUBSET RowSet]
    /\ changes \in 0 .. MaxChanges /\ stops \in 0 .. MaxStops

Says(id, kind) == told'[id] = [kind |-> kind, at |-> now']

(* The rule's spell has lasted for as long as it asks for, and the alert   *)
(* before in the same spell, if there was one, is old enough.              *)
AlertDue(id) ==
    /\ now' \in spell'[id] /\ now' - Min(spell'[id]) >= rules[id].duration
    /\ told[id].kind = "alert" => now' - told[id].at >= rules[id].repeat

(* The spell that the last alert was of has ended.                         *)
RecoveryDue(id) == told[id].kind = "alert" /\ spell'[id] = {}

(* What is said of a rule, and when, follows from the samples this process *)
(* has evaluated that very rule on, and what it has said of it: nothing    *)
(* else is said, and nothing is left out, whatever rules were edited,      *)
(* paused, removed or added in between.  A pause does not end a spell; a   *)
(* restart forgets it, with the recovery owed; and silence_seconds, the    *)
(* silence period of README.md:21, is stored and plays no part.            *)
NotificationsFollowSpells ==
    [][\A id \in DOMAIN told \cap DOMAIN told' :
          rules'[id].serial = rules[id].serial /\ now' # now =>
             /\ Says(id, "alert") <=> AlertDue(id)
             /\ Says(id, "recovery") <=> RecoveryDue(id)
             /\ told'[id] # told[id] => Says(id, "alert") \/ Says(id, "recovery")]_vars

(* The page removes the rule of the row, however old its list: an id is    *)
(* never given to another rule.                                            *)
RemovesTheRule ==
    [][\A id \in DOMAIN rules :
          id \notin DOMAIN rules' => Row(id) \in removing]_vars
=============================================================================
