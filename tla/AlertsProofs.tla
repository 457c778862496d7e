----------------------------- MODULE AlertsProofs -----------------------------
(***************************************************************************)
(* Theorems about Alerts: types; that the page removes the rule of the     *)
(* row it shows; and that what is said of a rule follows from its samples. *)
(***************************************************************************)
EXTENDS Alerts, TLAPS

USE DEF panel, history, page, bounds, vars, Change, Set, Id

-----------------------------------------------------------------------------
(* Ids.                                                                    *)

(* An id is its rule's serial number, in the table and in every row that   *)
(* the page holds or is about to get.                                      *)
RowOf(n) == [id |-> n, serial |-> n]
RowsOK ==
    \A row \in listed \cup removing \cup answer.rows : row \in RowSet /\ row = RowOf(row.id)
RulesOK ==
    /\ created \in 0 .. MaxRules
    /\ DOMAIN rules \subseteq 1 .. created
    /\ \A id \in DOMAIN rules : rules[id] \in Rule /\ rules[id].serial = id
IdsOK ==
    /\ RulesOK /\ RowsOK
    /\ listed \in SUBSET RowSet /\ removing \in SUBSET RowSet
    /\ answer \in [got : BOOLEAN, rows : SUBSET RowSet]

LEMMA IdsInit == Init => IdsOK
BY AlertAssumption DEF Init, IdsOK, RulesOK, RowsOK, RowSet

LEMMA RowIsRowOf ==
    ASSUME IdsOK, NEW id \in DOMAIN rules
    PROVE  Row(id) = RowOf(id) /\ Row(id) \in RowSet
BY AlertAssumption DEF IdsOK, RulesOK, Row, RowOf, RowSet

LEMMA IdsStep == IdsOK /\ [Next]_vars => IdsOK'
<1> SUFFICES ASSUME IdsOK, [Next]_vars PROVE IdsOK'
  OBVIOUS
<1> USE DEF IdsOK
<1>1. ASSUME NEW d \in Duration, NEW r \in Repeat, NEW e \in BOOLEAN, Insert(d, r, e)
      PROVE  IdsOK'
  <2>1. RulesOK'
    BY <1>1, AlertAssumption DEF Insert, RulesOK, NewId, Rule
  <2>2. RowsOK'
    BY <1>1 DEF Insert, RowsOK
  <2> QED BY <2>1, <2>2, <1>1 DEF Insert
<1>2. ASSUME NEW d \in Duration, NEW r \in Repeat, NEW e \in BOOLEAN,
             NEW id \in DOMAIN rules, Update(id, d, r, e)
      PROVE  IdsOK'
  <2>1. RulesOK'
    BY <1>2, AlertAssumption DEF Update, RulesOK, Rule
  <2>2. RowsOK'
    BY <1>2 DEF Update, RowsOK
  <2> QED BY <2>1, <2>2, <1>2 DEF Update
<1>3. ASSUME NEW hot \in SUBSET DOMAIN rules, Collect(hot) PROVE IdsOK'
  BY <1>3 DEF Collect, RulesOK, RowsOK
<1>4. CASE CollectFails \/ Restart
  BY <1>4 DEF CollectFails, Restart, RulesOK, RowsOK
<1>5. CASE Load
  <2>1. \A row \in Rows : row \in RowSet /\ row = RowOf(row.id)
    BY RowIsRowOf DEF Rows, RowOf
  <2> QED BY <2>1, <1>5 DEF Load, RulesOK, RowsOK
<1>6. CASE LoadEnds
  BY <1>6 DEF LoadEnds, RulesOK, RowsOK
<1>7. ASSUME NEW row \in listed, remove(row) PROVE IdsOK'
  BY <1>7 DEF remove, RulesOK, RowsOK
<1>8. ASSUME NEW row \in removing, Delete(row) PROVE IdsOK'
  <2>1. RulesOK'
    BY <1>8 DEF Delete, RulesOK, Restrict
  <2> QED BY <2>1, <1>8 DEF Delete, RowsOK
<1>9. ASSUME NEW row \in removing, RemoveFails(row) PROVE IdsOK'
  BY <1>9 DEF RemoveFails, RulesOK, RowsOK
<1>10. CASE UNCHANGED vars
  BY <1>10 DEF RulesOK, RowsOK
<1> QED
  BY <1>1, <1>2, <1>3, <1>4, <1>5, <1>6, <1>7, <1>8, <1>9, <1>10 DEF Next

(* A rule is only ever removed by a removal of its own row.                *)
LEMMA RemovalStep ==
    ASSUME IdsOK, [Next]_vars, NEW id \in DOMAIN rules, id \notin DOMAIN rules'
    PROVE  Row(id) \in removing
<1>0. ASSUME NEW d \in Duration, NEW r \in Repeat, NEW e \in BOOLEAN,
             Insert(d, r, e) \/ \E i \in DOMAIN rules : Update(i, d, r, e)
      PROVE  DOMAIN rules \subseteq DOMAIN rules'
  BY <1>0 DEF Insert, Update
<1>1. PICK row \in removing : Delete(row)
  <2>1. CASE \E hot \in SUBSET DOMAIN rules : Collect(hot)
    BY <2>1 DEF Collect
  <2>2. CASE Load \/ LoadEnds \/ CollectFails \/ Restart \/ UNCHANGED vars
    BY <2>2 DEF Load, LoadEnds, CollectFails, Restart
  <2>3. CASE (\E row \in listed : remove(row)) \/ (\E row \in removing : RemoveFails(row))
    BY <2>3 DEF remove, RemoveFails
  <2> QED BY <1>0, <2>1, <2>2, <2>3 DEF Next
<1>2. row.id = id
  BY <1>1 DEF Delete, Restrict
<1>3. row = RowOf(id)
  BY <1>2 DEF IdsOK, RowsOK
<1> QED BY <1>3, RowIsRowOf

(* The page removes the rule of the row it shows, however old its list:    *)
(* SaveAlertRule never gives an id to another rule.                        *)
THEOREM RemovalCorrect == Spec => RemovesTheRule
<1>1. IdsOK /\ [Next]_vars =>
         [\A id \in DOMAIN rules : id \notin DOMAIN rules' => Row(id) \in removing]_vars
  BY RemovalStep
<1> QED BY <1>1, IdsInit, IdsStep, PTL DEF Spec, RemovesTheRule

-----------------------------------------------------------------------------
(* What the collector knows.                                               *)

StateSet == [since : 0 .. now, sent : 0 .. now, active : BOOLEAN]
ToldSet == [kind : {"none", "alert", "recovery"}, at : 0 .. now]

StatesOK ==
    /\ now \in 0 .. MaxTime
    /\ DOMAIN alertStates \subseteq 1 .. created
    /\ \A id \in DOMAIN alertStates : alertStates[id] \in StateSet
HistoryOK ==
    /\ DOMAIN told = DOMAIN rules /\ DOMAIN spell = DOMAIN rules
    /\ \A id \in DOMAIN rules : told[id] \in ToldSet /\ spell[id] \in SUBSET (1 .. now)
KnownOK == StatesOK /\ HistoryOK

(* The state of a rule begins with its spell, and is active exactly when   *)
(* the last thing said was an alert, at the time that it keeps.            *)
Tracks(id) ==
    /\ StateOf(id).since = 0 => spell[id] = {} /\ ~StateOf(id).active
    /\ StateOf(id).since # 0 =>
          StateOf(id).since \in spell[id] /\ \A y \in spell[id] : StateOf(id).since <= y
    /\ StateOf(id).active <=> told[id].kind = "alert"
    /\ StateOf(id).active => told[id].at = StateOf(id).sent
TrackOK == \A id \in DOMAIN rules : Tracks(id)

Inv == IdsOK /\ KnownOK /\ TrackOK

LEMMA StateType ==
    ASSUME KnownOK, NEW id \in DOMAIN rules
    PROVE  StateOf(id) \in StateSet
BY AlertAssumption DEF KnownOK, StatesOK, StateOf, StateSet, Zero

LEMMA TypeInit == Init => Inv
BY IdsInit, AlertAssumption DEF Init, Inv, KnownOK, StatesOK, HistoryOK, TrackOK

(* One rule through one sample.                                            *)
LEMMA CollectOne ==
    ASSUME Inv, NEW hot \in SUBSET DOMAIN rules, Collect(hot), NEW id \in DOMAIN rules,
           NEW e, e = Evaluated(rules[id], StateOf(id), id \in hot, now + 1)
    PROVE  /\ rules[id].enabled =>
                 /\ StateOf(id)' = e.st
                 /\ told'[id] = IF e.says = "none" THEN told[id]
                                ELSE [kind |-> e.says, at |-> now + 1]
                 /\ spell'[id] = IF id \in hot THEN spell[id] \cup {now + 1} ELSE {}
           /\ ~rules[id].enabled =>
                 /\ StateOf(id)' = StateOf(id) /\ told'[id] = told[id] /\ spell'[id] = spell[id]
<1>1. rules' = rules /\ id \in DOMAIN told /\ id \in DOMAIN spell
  BY DEF Collect, Inv, KnownOK, HistoryOK
<1>2. CASE rules[id].enabled
  BY <1>1, <1>2 DEF Collect, StateOf
<1>3. CASE ~rules[id].enabled
  BY <1>1, <1>3 DEF Collect, StateOf
<1> QED BY <1>2, <1>3

LEMMA MinIs ==
    ASSUME NEW S \in SUBSET Nat, NEW m \in S, \A y \in S : m <= y
    PROVE  Min(S) = m
<1>1. Min(S) \in S /\ \A y \in S : Min(S) <= y
  BY Zenon DEF Min
<1>2. Min(S) \in Nat /\ m \in Nat /\ Min(S) <= m /\ m <= Min(S)
  BY <1>1
<1> QED BY <1>2

(* What is said is what is due, for one rule.                              *)
Due(id) ==
    /\ Says(id, "alert") <=> AlertDue(id)
    /\ Says(id, "recovery") <=> RecoveryDue(id)
    /\ told'[id] # told[id] => Says(id, "alert") \/ Says(id, "recovery")

(* What was said before is not said now.                                   *)
LEMMA SaidBefore ==
    ASSUME Inv, NEW id \in DOMAIN rules, now' = now + 1, NEW kind
    PROVE  told[id] # [kind |-> kind, at |-> now']
<1>1. told[id] \in ToldSet /\ now \in Nat
  BY DEF Inv, KnownOK, HistoryOK, StatesOK
<1>2. told[id].at <= now /\ told[id].at \in Nat
  BY <1>1 DEF ToldSet
<1>3. [kind |-> kind, at |-> now'].at = now + 1
  OBVIOUS
<1> QED BY <1>1, <1>2, <1>3

(* Without a sample nothing is due.                                        *)
LEMMA QuietDue ==
    ASSUME Inv, NEW id \in DOMAIN rules, now' = now + 1,
           told'[id] = told[id], spell'[id] = spell[id]
    PROVE  Due(id)
<1>1. now \in Nat /\ spell[id] \in SUBSET (1 .. now) /\ Tracks(id)
  BY DEF Inv, KnownOK, HistoryOK, StatesOK, TrackOK
<1>2. now' \notin spell'[id]
  BY <1>1
<1>3. told[id].kind = "alert" => spell[id] # {}
  BY <1>1 DEF Tracks
<1>4. ~Says(id, "alert") /\ ~Says(id, "recovery")
  BY SaidBefore DEF Says
<1> QED BY <1>2, <1>3, <1>4 DEF Due, AlertDue, RecoveryDue

(* A sample leaves the rule tracked and says what is due.                  *)
LEMMA CollectKeeps ==
    ASSUME Inv, NEW hot \in SUBSET DOMAIN rules, Collect(hot), NEW id \in DOMAIN rules
    PROVE  /\ StateOf(id)' \in StateSet' /\ told'[id] \in ToldSet'
           /\ spell'[id] \in SUBSET (1 .. now')
           /\ Tracks(id)' /\ Due(id)
<1>1. /\ now \in Nat /\ now' = now + 1
      /\ rules[id] \in Rule /\ rules[id].duration \in Nat /\ rules[id].repeat \in Nat
      /\ rules[id].enabled \in BOOLEAN
      /\ StateOf(id) \in StateSet /\ told[id] \in ToldSet /\ spell[id] \in SUBSET (1 .. now)
      /\ Tracks(id)
  <2>1. now \in Nat /\ now' = now + 1
    BY AlertAssumption DEF Collect, Inv, KnownOK, StatesOK
  <2>2. rules[id] \in Rule
    BY DEF Inv, IdsOK, RulesOK
  <2>3. rules[id].duration \in Nat /\ rules[id].repeat \in Nat /\ rules[id].enabled \in BOOLEAN
    BY <2>2, AlertAssumption DEF Rule
  <2>4. StateOf(id) \in StateSet
    BY StateType DEF Inv
  <2>5. told[id] \in ToldSet /\ spell[id] \in SUBSET (1 .. now)
    BY DEF Inv, KnownOK, HistoryOK
  <2>6. Tracks(id)
    BY DEF Inv, TrackOK
  <2> QED BY <2>1, <2>2, <2>3, <2>4, <2>5, <2>6
<1>2. PICK st : st = StateOf(id)
  OBVIOUS
<1>11. PICK t \in Nat \ {0} : t = now + 1 /\ now' = t
  BY <1>1
<1>12. PICK duration \in Nat, repeat \in Nat :
          duration = rules[id].duration /\ repeat = rules[id].repeat
  BY <1>1
<1>13. PICK e : e = Evaluated(rules[id], StateOf(id), id \in hot, now + 1)
  OBVIOUS
<1>3. e = Evaluated(rules[id], st, id \in hot, t)
  BY <1>2, <1>11, <1>13
<1>4. PICK since \in 1 .. t : since = IF st.since = 0 THEN t ELSE st.since
  BY <1>1, <1>2, <1>11 DEF StateSet
<1>5. /\ st.since \in 0 .. now /\ st.sent \in 0 .. now /\ st.active \in BOOLEAN
      /\ st.since \in 0 .. t /\ st.sent \in 0 .. t
  BY <1>1, <1>2, <1>11 DEF StateSet
<1>6. (st.active <=> told[id].kind = "alert") /\ (st.active => told[id].at = st.sent)
  BY <1>1, <1>2 DEF Tracks
<1>7. rules[id].enabled =>
         /\ StateOf(id)' = e.st
         /\ told'[id] = IF e.says = "none" THEN told[id] ELSE [kind |-> e.says, at |-> t]
         /\ spell'[id] = IF id \in hot THEN spell[id] \cup {t} ELSE {}
  BY CollectOne, <1>13, <1>11
<1>8. CASE ~rules[id].enabled
  <2>1. StateOf(id)' = StateOf(id) /\ told'[id] = told[id] /\ spell'[id] = spell[id]
    BY <1>8, <1>13, CollectOne
  <2>2. Tracks(id)'
    BY <2>1, <1>1 DEF Tracks
  <2>3. StateOf(id)' \in StateSet' /\ told'[id] \in ToldSet' /\ spell'[id] \in SUBSET (1 .. now')
    BY <2>1, <1>1 DEF StateSet, ToldSet
  <2> QED BY <1>1, <2>1, <2>2, <2>3, QuietDue
<1>9. CASE rules[id].enabled /\ id \notin hot
  <2>1. /\ StateOf(id)' = Zero /\ spell'[id] = {}
        /\ told'[id] = IF st.active THEN [kind |-> "recovery", at |-> t] ELSE told[id]
    <3>1. e = [st |-> Zero, says |-> IF st.active THEN "recovery" ELSE "none"]
      BY <1>9, <1>3 DEF Evaluated
    <3>2. e.st = Zero /\ e.says = IF st.active THEN "recovery" ELSE "none"
      BY <3>1
    <3> QED BY <3>2, <1>7, <1>9
  <2>2. st.active <=> told[id].kind = "alert"
    BY <1>6
  <2>3. told'[id].kind # "alert"
    BY <2>1, <2>2
  <2>4. Tracks(id)'
    BY <2>1, <2>3 DEF Tracks, Zero
  <2>5. Due(id)
    <3>1. told'[id].kind = "alert" => told'[id] = told[id]
      BY <2>1
    <3>2. ~Says(id, "alert")
      BY <2>3 DEF Says
    <3>3. now' \notin spell'[id] /\ spell'[id] = {}
      BY <2>1
    <3>4. CASE st.active
      <4>1. Says(id, "recovery") /\ told[id].kind = "alert"
        BY <2>1, <2>2, <3>4, <1>11 DEF Says
      <4> QED BY <3>2, <3>3, <4>1 DEF Due, AlertDue, RecoveryDue
    <3>5. CASE ~st.active
      <4>1. told'[id] = told[id] /\ told[id].kind # "alert"
        BY <2>1, <2>2, <3>5
      <4>2. ~Says(id, "recovery")
        BY <1>1, <4>1, SaidBefore DEF Says
      <4> QED BY <3>2, <3>3, <4>1, <4>2 DEF Due, AlertDue, RecoveryDue
    <3> QED BY <3>4, <3>5, <1>5
  <2>6. told'[id] \in ToldSet'
    BY <2>1, <1>1, <1>11 DEF ToldSet
  <2> QED BY <2>1, <2>4, <2>5, <2>6, <1>1 DEF StateSet, Zero
<1>10. CASE rules[id].enabled /\ id \in hot
  <2>1. /\ StateOf(id)' = e.st /\ spell'[id] = spell[id] \cup {t}
        /\ told'[id] = IF e.says = "none" THEN told[id] ELSE [kind |-> e.says, at |-> t]
    BY <1>7, <1>10
  <2>2. since \in spell'[id] /\ \A y \in spell'[id] : since <= y
    <3>1. CASE st.since = 0
      BY <3>1, <2>1, <1>1, <1>2, <1>4 DEF Tracks
    <3>2. CASE st.since # 0
      BY <3>2, <2>1, <1>1, <1>2, <1>4, <1>5 DEF Tracks
    <3> QED BY <3>1, <3>2
  <2>3. spell'[id] \in SUBSET (1 .. now')
    BY <2>1, <1>1, <1>11
  <2>4. Min(spell'[id]) = since
    <3>1. spell'[id] \in SUBSET Nat
      BY <2>3, <1>1
    <3> QED BY <3>1, <2>2, MinIs, Zenon
  <2>5. since # 0
    OBVIOUS
  <2>6. CASE /\ t - since >= duration
             /\ ~st.active \/ t - st.sent >= repeat
    <3>1. e = [st |-> [since |-> since, sent |-> t, active |-> TRUE], says |-> "alert"]
      BY <2>6, <1>10, <1>3, <1>4, <1>12 DEF Evaluated
    <3>2. e.says = "alert" /\ e.st = [since |-> since, sent |-> t, active |-> TRUE]
      BY <3>1
    <3>3. /\ StateOf(id)' = [since |-> since, sent |-> t, active |-> TRUE]
          /\ told'[id] = [kind |-> "alert", at |-> t]
      BY <3>2, <2>1
    <3>4. told'[id].kind = "alert" /\ told'[id].at = t
      BY <3>3
    <3>5. /\ StateOf(id)'.since = since /\ StateOf(id)'.sent = t
          /\ StateOf(id)'.active = TRUE
      BY <3>3
    <3>6. Tracks(id)'
      BY <3>4, <3>5, <2>2, <2>5 DEF Tracks
    <3>7. Due(id)
      <4>1. now' - Min(spell'[id]) >= rules[id].duration
        BY <2>4, <2>6, <1>11, <1>12
      <4>2. told[id].kind = "alert" => now' - told[id].at >= rules[id].repeat
        BY <2>6, <1>6, <1>11, <1>12
      <4>3. Says(id, "alert") /\ ~Says(id, "recovery")
        BY <3>3, <3>4, <1>11 DEF Says
      <4>4. now' \in spell'[id]
        BY <2>1, <1>11
      <4> QED BY <4>1, <4>2, <4>3, <4>4 DEF Due, AlertDue, RecoveryDue
    <3>8. told'[id] \in ToldSet' /\ StateOf(id)' \in StateSet'
      BY <3>3, <1>11, <1>5 DEF ToldSet, StateSet
    <3> QED BY <3>6, <3>7, <3>8, <2>3
  <2>7. CASE ~(/\ t - since >= duration
               /\ ~st.active \/ t - st.sent >= repeat)
    <3>1. e = [st |-> [st EXCEPT !.since = since], says |-> "none"]
      BY <2>7, <1>10, <1>3, <1>4, <1>12 DEF Evaluated
    <3>2. [st EXCEPT !.since = since] = [since |-> since, sent |-> st.sent, active |-> st.active]
      BY <1>1, <1>2 DEF StateSet
    <3>3. e.says = "none" /\ e.st = [since |-> since, sent |-> st.sent, active |-> st.active]
      BY <3>1, <3>2
    <3>4. /\ StateOf(id)' = [since |-> since, sent |-> st.sent, active |-> st.active]
          /\ told'[id] = told[id]
      BY <3>3, <2>1
    <3>5. /\ StateOf(id)'.since = since /\ StateOf(id)'.sent = st.sent
          /\ StateOf(id)'.active = st.active
      BY <3>4
    <3>6. Tracks(id)'
      BY <3>4, <3>5, <2>2, <2>5, <1>6 DEF Tracks
    <3>7. told'[id] \in ToldSet' /\ StateOf(id)' \in StateSet'
      BY <3>4, <1>1, <1>5, <1>11 DEF ToldSet, StateSet
    <3>8. Due(id)
      <4>1. ~AlertDue(id)
        <5>1. CASE ~(t - since >= duration)
          BY <5>1, <2>4, <1>11, <1>12 DEF AlertDue
        <5>2. CASE st.active /\ ~(t - st.sent >= repeat)
          BY <5>2, <1>6, <1>11, <1>12 DEF AlertDue
        <5> QED BY <5>1, <5>2, <2>7, <1>5
      <4>2. ~Says(id, "alert") /\ ~Says(id, "recovery")
        BY <1>1, <3>4, SaidBefore DEF Says
      <4>3. spell'[id] # {}
        BY <2>1
      <4> QED BY <3>4, <4>1, <4>2, <4>3 DEF Due, RecoveryDue
    <3> QED BY <3>4, <3>6, <3>7, <3>8, <2>3
  <2> QED BY <2>6, <2>7
<1> QED BY <1>1, <1>8, <1>9, <1>10

(* A step of the rest leaves what is known of a rule.                      *)
Keeps(id) == StateOf(id)' = StateOf(id) /\ told'[id] = told[id] /\ spell'[id] = spell[id]

LEMMA TracksKept ==
    ASSUME NEW id, Tracks(id), Keeps(id)
    PROVE  Tracks(id)'
BY DEF Tracks, Keeps

LEMMA InsertKeeps ==
    ASSUME Inv, NEW d \in Duration, NEW r \in Repeat, NEW b \in BOOLEAN, Insert(d, r, b)
    PROVE  (KnownOK /\ TrackOK)'
<1>1. PICK new \in Nat : new = created + 1
  BY AlertAssumption DEF Inv, IdsOK, RulesOK
<1>2. /\ new \notin DOMAIN rules /\ new \notin DOMAIN alertStates
      /\ DOMAIN rules' = DOMAIN rules \cup {new} /\ created' = new
      /\ alertStates' = alertStates /\ now' = now
      /\ told' = Set(told, new, Untold) /\ spell' = Set(spell, new, {})
  BY <1>1, AlertAssumption DEF Inv, IdsOK, RulesOK, KnownOK, StatesOK, Insert, NewId
<1>3. StatesOK'
  BY <1>1, <1>2, AlertAssumption DEF Inv, KnownOK, StatesOK, IdsOK, RulesOK, StateSet
<1>4. /\ told'[new] = Untold /\ spell'[new] = {} /\ StateOf(new)' = Zero
      /\ \A id \in DOMAIN rules : Keeps(id)
  BY <1>2 DEF Inv, KnownOK, HistoryOK, StateOf, Keeps
<1>5. HistoryOK'
  <2>1. DOMAIN told' = DOMAIN rules' /\ DOMAIN spell' = DOMAIN rules'
    BY <1>2 DEF Inv, KnownOK, HistoryOK
  <2>2. Untold \in ToldSet'
    BY <1>2, AlertAssumption DEF Inv, KnownOK, StatesOK, ToldSet, Untold
  <2>3. \A id \in DOMAIN rules : told'[id] \in ToldSet' /\ spell'[id] \in SUBSET (1 .. now')
    BY <1>2, <1>4 DEF Inv, KnownOK, HistoryOK, ToldSet, Keeps
  <2> QED BY <2>1, <2>2, <2>3, <1>2, <1>4 DEF HistoryOK
<1>6. TrackOK'
  <2>1. Tracks(new)'
    BY <1>4 DEF Tracks, Zero, Untold
  <2>2. \A id \in DOMAIN rules : Tracks(id)'
    BY <1>4, TracksKept DEF Inv, TrackOK
  <2> QED BY <1>2, <2>1, <2>2 DEF TrackOK
<1> QED BY <1>3, <1>5, <1>6 DEF KnownOK

LEMMA KnownStep == Inv /\ [Next]_vars => (KnownOK /\ TrackOK)'
<1> SUFFICES ASSUME Inv, [Next]_vars PROVE (KnownOK /\ TrackOK)'
  OBVIOUS
<1>1. ASSUME NEW d \in Duration, NEW r \in Repeat, NEW e \in BOOLEAN, Insert(d, r, e)
      PROVE  (KnownOK /\ TrackOK)'
  BY <1>1, InsertKeeps
<1>2. ASSUME DOMAIN rules' \subseteq DOMAIN rules, created' = created, now' = now,
             alertStates' = alertStates,
             DOMAIN told' = DOMAIN rules', DOMAIN spell' = DOMAIN rules',
             \A id \in DOMAIN rules' : told'[id] = told[id] /\ spell'[id] = spell[id]
      PROVE  (KnownOK /\ TrackOK)'
  <2>1. \A id \in DOMAIN rules' : Keeps(id) /\ Tracks(id)
    BY <1>2 DEF Inv, TrackOK, Keeps, StateOf
  <2>2. TrackOK'
    BY <2>1, TracksKept DEF TrackOK
  <2>3. KnownOK'
    BY <1>2 DEF Inv, KnownOK, StatesOK, HistoryOK, StateSet, ToldSet
  <2> QED BY <2>2, <2>3
<1>3. ASSUME NEW d \in Duration, NEW r \in Repeat, NEW e \in BOOLEAN,
             NEW id \in DOMAIN rules, Update(id, d, r, e)
      PROVE  (KnownOK /\ TrackOK)'
  BY <1>2, <1>3 DEF Update, Inv, KnownOK, HistoryOK
<1>4. ASSUME NEW hot \in SUBSET DOMAIN rules, Collect(hot) PROVE (KnownOK /\ TrackOK)'
  <2>1. /\ rules' = rules /\ created' = created /\ now' = now + 1 /\ now < MaxTime
        /\ now \in 0 .. MaxTime /\ now' \in 0 .. MaxTime
    BY <1>4, AlertAssumption DEF Collect, Inv, KnownOK, StatesOK
  <2>2. \A id \in DOMAIN rules : /\ StateOf(id)' \in StateSet' /\ told'[id] \in ToldSet'
                                /\ spell'[id] \in SUBSET (1 .. now') /\ Tracks(id)'
    BY <1>4, CollectKeeps
  <2>3. DOMAIN told' = DOMAIN rules' /\ DOMAIN spell' = DOMAIN rules'
    BY <1>4 DEF Collect, Inv, KnownOK, HistoryOK
  <2>4. DOMAIN alertStates' = DOMAIN alertStates \cup {id \in DOMAIN rules : rules[id].enabled}
    BY <1>4 DEF Collect
  <2>5. \A id \in DOMAIN alertStates' : alertStates'[id] \in StateSet'
    <3>1. ASSUME NEW id \in DOMAIN alertStates', id \in DOMAIN rules
          PROVE  alertStates'[id] \in StateSet'
      BY <3>1, <2>2 DEF StateOf
    <3>2. ASSUME NEW id \in DOMAIN alertStates', id \notin DOMAIN rules
          PROVE  alertStates'[id] \in StateSet'
      <4>1. alertStates'[id] = alertStates[id] /\ alertStates[id] \in StateSet
        BY <3>2, <2>4, <1>4 DEF Collect, Inv, KnownOK, StatesOK
      <4> QED BY <4>1, <2>1 DEF StateSet
    <3> QED BY <3>1, <3>2
  <2>6. DOMAIN alertStates' \subseteq 1 .. created'
    BY <2>1, <2>4 DEF Inv, KnownOK, StatesOK, IdsOK, RulesOK
  <2> QED BY <2>1, <2>2, <2>3, <2>5, <2>6 DEF KnownOK, StatesOK, HistoryOK, TrackOK
<1>5. CASE CollectFails
  <2>1. /\ rules' = rules /\ created' = created /\ alertStates' = alertStates
        /\ told' = told /\ spell' = spell
        /\ now' = now + 1 /\ now \in 0 .. MaxTime /\ now' \in 0 .. MaxTime
    BY <1>5, AlertAssumption DEF CollectFails, Inv, KnownOK, StatesOK
  <2>2. KnownOK'
    BY <2>1 DEF Inv, KnownOK, StatesOK, HistoryOK, StateSet, ToldSet
  <2>3. TrackOK'
    BY <2>1, TracksKept DEF Inv, TrackOK, Keeps, StateOf
  <2> QED BY <2>2, <2>3
<1>6. CASE Restart
  <2>1. /\ rules' = rules /\ created' = created /\ alertStates' = << >> /\ now' = now
        /\ told' = [id \in DOMAIN rules |-> Untold] /\ spell' = [id \in DOMAIN rules |-> {}]
        /\ now \in 0 .. MaxTime
    BY <1>6 DEF Restart, Inv, KnownOK, StatesOK
  <2>2. DOMAIN alertStates' = {}
    BY <2>1
  <2>3. \A id \in DOMAIN rules : StateOf(id)' = Zero /\ told'[id] = Untold /\ spell'[id] = {}
    BY <2>1, <2>2 DEF StateOf
  <2>4. TrackOK'
    BY <2>1, <2>3 DEF TrackOK, Tracks, Zero, Untold
  <2>5. Untold \in ToldSet'
    BY <2>1, AlertAssumption DEF ToldSet, Untold
  <2>6. KnownOK'
    BY <2>1, <2>2, <2>3, <2>5 DEF KnownOK, StatesOK, HistoryOK
  <2> QED BY <2>4, <2>6
<1>7. CASE Load \/ LoadEnds \/ (\E row \in listed : remove(row))
             \/ (\E row \in removing : RemoveFails(row)) \/ UNCHANGED vars
  BY <1>2, <1>7 DEF Load, LoadEnds, remove, RemoveFails, Inv, KnownOK, HistoryOK
<1>8. ASSUME NEW row \in removing, Delete(row) PROVE (KnownOK /\ TrackOK)'
  <2>1. /\ DOMAIN rules' \subseteq DOMAIN rules
        /\ created' = created /\ now' = now /\ alertStates' = alertStates
    BY <1>8 DEF Delete, Restrict
  <2>2. /\ told' = [id \in DOMAIN rules' |-> told[id]]
        /\ spell' = [id \in DOMAIN rules' |-> spell[id]]
    BY <1>8, <2>1 DEF Delete, Restrict, Inv, KnownOK, HistoryOK
  <2> QED BY <1>2, <2>1, <2>2
<1> QED BY <1>1, <1>3, <1>4, <1>5, <1>6, <1>7, <1>8 DEF Next

LEMMA Inductive == Inv /\ [Next]_vars => Inv'
BY IdsStep, KnownStep DEF Inv

(* The clock moves with a sample only.                                     *)
LEMMA DueStep ==
    ASSUME Inv, [Next]_vars, NEW id \in DOMAIN told \cap DOMAIN told', now' # now
    PROVE  Due(id)
<1>1. id \in DOMAIN rules
  BY DEF Inv, KnownOK, HistoryOK
<1>2. CASE \E hot \in SUBSET DOMAIN rules : Collect(hot)
  BY <1>1, <1>2, CollectKeeps
<1>3. CASE CollectFails
  BY <1>1, <1>3, QuietDue DEF CollectFails
<1>4. CASE UNCHANGED vars
  BY <1>4
<1> QED
  BY <1>2, <1>3, <1>4 DEF Next, Insert, Update, Restart, Load, LoadEnds, remove, Delete,
     RemoveFails

(* What the collector says of a rule, and when, follows from its spell and *)
(* what was said: the rule's state tracks both, whatever the user changes, *)
(* pauses, removes and adds meanwhile, since a new rule never finds the    *)
(* state of an old one.                                                    *)
THEOREM NotificationsCorrect == Spec => NotificationsFollowSpells
<1>1. Inv /\ [Next]_vars =>
         [\A id \in DOMAIN told \cap DOMAIN told' :
             rules'[id].serial = rules[id].serial /\ now' # now =>
                /\ Says(id, "alert") <=> AlertDue(id)
                /\ Says(id, "recovery") <=> RecoveryDue(id)
                /\ told'[id] # told[id] => Says(id, "alert") \/ Says(id, "recovery")]_vars
  BY DueStep DEF Due
<1> QED BY <1>1, TypeInit, Inductive, PTL DEF Spec, NotificationsFollowSpells

-----------------------------------------------------------------------------
(* Types.                                                                  *)

BoundsOK == changes \in 0 .. MaxChanges /\ stops \in 0 .. MaxStops

LEMMA BoundsStep == BoundsOK /\ [Next]_vars => BoundsOK'
<1> SUFFICES ASSUME BoundsOK, [Next]_vars PROVE BoundsOK'
  OBVIOUS
<1>1. \/ UNCHANGED bounds
      \/ changes < MaxChanges /\ changes' = changes + 1 /\ UNCHANGED stops
      \/ stops < MaxStops /\ stops' = stops + 1 /\ UNCHANGED changes
  BY DEF Next, Insert, Update, Collect, CollectFails, Restart, Load, LoadEnds, remove,
         Delete, RemoveFails
<1> QED BY <1>1, AlertAssumption DEF BoundsOK

LEMMA InvType == Inv /\ BoundsOK => TypeOK
<1> SUFFICES ASSUME Inv, BoundsOK PROVE TypeOK
  OBVIOUS
<1>1. created \in 0 .. MaxRules /\ 1 .. created \subseteq Id
  BY AlertAssumption DEF Inv, IdsOK, RulesOK
<1>2. DOMAIN rules \subseteq Id /\ \A id \in DOMAIN rules : rules[id] \in Rule
  BY <1>1 DEF Inv, IdsOK, RulesOK
<1>3. /\ now \in 0 .. MaxTime /\ DOMAIN alertStates \subseteq Id
      /\ \A id \in DOMAIN alertStates :
            alertStates[id] \in [since : 0 .. now, sent : 0 .. now, active : BOOLEAN]
  BY <1>1 DEF Inv, KnownOK, StatesOK, StateSet
<1>4. /\ DOMAIN told = DOMAIN rules /\ DOMAIN spell = DOMAIN rules
      /\ \A id \in DOMAIN rules :
            /\ told[id] \in [kind : {"none", "alert", "recovery"}, at : 0 .. now]
            /\ spell[id] \subseteq 1 .. now
  BY DEF Inv, KnownOK, HistoryOK, ToldSet
<1>5. /\ listed \subseteq RowSet /\ removing \subseteq RowSet
      /\ answer \in [got : BOOLEAN, rows : SUBSET RowSet]
  BY DEF Inv, IdsOK
<1> QED BY <1>1, <1>2, <1>3, <1>4, <1>5 DEF TypeOK, BoundsOK

(* Every variable keeps its type: what is known of a rule covers exactly   *)
(* the rules there are, and no time lies ahead of the clock.               *)
THEOREM TypeCorrect == Spec => []TypeOK
<1>1. Init => BoundsOK
  BY AlertAssumption DEF Init, BoundsOK
<1> QED BY <1>1, TypeInit, Inductive, BoundsStep, InvType, PTL DEF Spec
=============================================================================
