------------------------- MODULE AccountSessionProofs -------------------------
(***************************************************************************)
(* Theorems about AccountSession: a secret that logins ask a code of was   *)
(* shown; reset-admin leaves no session of an old password; a shell sends  *)
(* the csrf of the browser's cookie; types; and the profile of a tab is    *)
(* the account's.  All of them rest on what a step can do to a request     *)
(* under way, Fate.                                                        *)
(***************************************************************************)
EXTENDS AccountSession, TLAPS

USE DEF server, settings, rest, page, marks, vars, Open, Click, Over

-----------------------------------------------------------------------------
(* Requests are records.                                                   *)

Fields == {"phase", "token", "csrf", "me", "arg", "got", "old", "off"}
Shape(r) == r = [f \in Fields |-> r[f]] /\ r.off \in BOOLEAN /\ r.old \in BOOLEAN
Shaped == call = [c \in Call |-> call[c]] /\ \A c \in Call : Shape(call[c])

(* What can happen to a request in a step; an edit is made when it is      *)
(* handled, and the profiles of other tabs, and those under way, are old.  *)
Made(c) ==
    /\ c[2] \in Edits /\ me' = me
    /\ call[c].phase = "admitted" /\ call'[c].phase = "done"
    /\ \A d \in Call : d # c => call'[d].phase = call[d].phase
    /\ \A d \in Call : Open(d) /\ (d[1] = c[1] => d[2] \notin Edits) => call'[d].old
    /\ \A u \in Tab : stale'[u] <=> stale[u] \/ u # c[1]
    /\ \/ /\ c[2] = "change" /\ entry' = entry /\ call'[c].arg = call[c].arg
          /\ account' = [account EXCEPT !.who = call[c].arg, !.must = FALSE, !.word = @ + 1]
       \/ /\ c[2] = "entry" /\ account' = account /\ call'[c].arg = call[c].arg
          /\ entry' = call[c].arg
       \/ /\ c[2] = "enable" /\ entry' = entry /\ call[c].arg = pending
          /\ account' = [account EXCEPT !.totp = pending]
Kept(c) ==
    /\ call'[c].phase = call[c].phase /\ call'[c].token = call[c].token
    /\ call'[c].arg = call[c].arg /\ call'[c].got = call[c].got
    /\ ~call'[c].off => ~call[c].off /\ (c[2] = "me" /\ Open(c) => cookie' = cookie)
    /\ call[c].old /\ Open(c) => call'[c].old
    /\ c[2] # "setup" => call'[c].me = call[c].me
Ended(c) ==
    \/ call'[c].phase = "idle" /\ (c[2] \in Edits => EditArrives(c) \/ EditFails(c))
    \/ /\ call'[c].phase = "failed" /\ call[c].phase \in {"sent", "admitted", "done"}
       /\ c[2] \in Edits /\ call[c].phase = "done" => call'[c].off
Sent(c) ==
    /\ call[c].phase = "idle" /\ call'[c].phase = "sent"
    /\ call'[c].token = cookie /\ cookie' = cookie /\ call'[c].me = me[c[1]]
    /\ c[2] = "change" => call'[c].arg \in Who
    /\ c[2] = "entry" => call'[c].arg \in Entry
    /\ c[2] = "enable" => call'[c].arg = secret[c[1]] /\ secret[c[1]] # None
    /\ c[2] \in Edits => me[c[1]] # None
    /\ UNCHANGED <<me, csrf, turned, secret>>
Admitted(c) ==
    /\ call[c].phase = "sent" /\ call'[c].phase = "admitted"
    /\ call'[c].token = call[c].token /\ call'[c].arg = call[c].arg
    /\ call'[c].got = account /\ call'[c].off = call[c].off /\ call'[c].me = call[c].me
    /\ UNCHANGED <<server, rest, cookie, page, marks>>
Done(c) ==
    /\ call[c].phase = "admitted" /\ call'[c].phase = "done"
    /\ call'[c].token = call[c].token /\ call'[c].off = call[c].off
    /\ call[c].old => call'[c].old
    /\ call'[c].me = call[c].me
    /\ c[2] = "me" => call'[c].arg = call[c].token
    /\ c[2] = "login" => call'[c].arg \in Token
    /\ c[2] = "setup" => call'[c].arg \in Secret
    /\ c[2] \in {"me", "login"} => call'[c].got = Payload(call[c].got)
    /\ c[2] \in Edits => Made(c)
    /\ cookie' = cookie
Fate(c) == Kept(c) \/ Ended(c) \/ Sent(c) \/ Admitted(c) \/ Done(c)

LEMMA Pair ==
    ASSUME NEW t \in Tab, NEW k \in Kind
    PROVE  <<t, k>> \in Call /\ <<t, k>>[1] = t /\ <<t, k>>[2] = k
BY DEF Call

LEMMA SendFx ==
    ASSUME Shaped, NEW t \in Tab, NEW k \in Kind, NEW a, Send(t, k, a),
           k = "change" => a \in Who, k = "entry" => a \in Entry,
           k = "enable" => a = secret[t] /\ secret[t] # None,
           k \in Edits => me[t] # None,
           UNCHANGED <<me, csrf, turned, secret>>
    PROVE  Shaped' /\ \A d \in Call : Fate(d)
<1>1. PICK c \in Call : c = <<t, k>> /\ c[1] = t /\ c[2] = k
  BY Pair
<1>2. /\ call[c] = Idle /\ cookie' = cookie
      /\ call' = [call EXCEPT ![c] =
           [Idle EXCEPT !.phase = "sent", !.token = cookie, !.csrf = csrf[t],
                        !.me = me[t], !.arg = a]]
  BY <1>1 DEF Send
<1>3. PICK r : r = [Idle EXCEPT !.phase = "sent", !.token = cookie, !.csrf = csrf[t],
                                !.me = me[t], !.arg = a]
  OBVIOUS
<1>4. Shape(r) /\ r.phase = "sent" /\ r.token = cookie /\ r.arg = a /\ r.me = me[t]
  BY <1>3 DEF Shape, Fields, Idle
<1>5. call' = [call EXCEPT ![c] = r]
  BY <1>2, <1>3
<1>6. Shaped' /\ call'[c] = r /\ \A d \in Call : d # c => call'[d] = call[d]
  BY <1>4, <1>5 DEF Shaped
<1>7. Sent(c)
  BY <1>1, <1>2, <1>4, <1>6 DEF Sent, Idle
<1>8. \A d \in Call : d # c => Kept(d)
  BY <1>2, <1>6 DEF Kept
<1> QED BY <1>6, <1>7, <1>8 DEF Fate

LEMMA OneCall ==
    ASSUME Shaped, NEW c \in Call, NEW r, Shape(r), call' = [call EXCEPT ![c] = r]
    PROVE  Shaped' /\ call'[c] = r /\ \A d \in Call : d # c => call'[d] = call[d]
BY DEF Shaped

(* The end of a request, or of the interest in its answer.                 *)
LEMMA OverFx ==
    ASSUME Shaped, NEW c \in Call, Over(c), cookie' = cookie,
           c[2] \in Edits => EditArrives(c) \/ EditFails(c)
    PROVE  Shaped' /\ \A d \in Call : Fate(d)
<1>1. Shape(Idle) /\ Idle.phase = "idle"
  BY DEF Shape, Fields, Idle
<1>2. Shaped' /\ call'[c] = Idle /\ \A d \in Call : d # c => call'[d] = call[d]
  BY <1>1 DEF Shaped
<1> QED BY <1>1, <1>2 DEF Fate, Ended, Kept

LEMMA LeaveFx ==
    ASSUME Shaped, NEW t \in Tab, LeaveSettings(t)
    PROVE  Shaped' /\ \A d \in Call : Fate(d)
<1>0. "setup" \in Kind
  BY DEF Kind
<1>1. PICK c \in Call : c = <<t, "setup">> /\ c[2] = "setup"
  <2>1. <<t, "setup">> \in Call /\ <<t, "setup">>[2] = "setup"
    BY <1>0, Pair
  <2> QED BY <2>1
<1>2. /\ call' = [call EXCEPT ![c].me = None] /\ cookie' = cookie
  BY <1>1 DEF LeaveSettings
<1>3. PICK r : r = [call[c] EXCEPT !.me = None]
  OBVIOUS
<1>4. /\ Shape(r) /\ r.phase = call[c].phase /\ r.token = call[c].token /\ r.arg = call[c].arg
      /\ r.got = call[c].got /\ r.off = call[c].off /\ r.old = call[c].old
  BY <1>3 DEF Shaped, Shape, Fields
<1>5. call' = [call EXCEPT ![c] = r]
  BY <1>2, <1>3
<1>6. Shaped' /\ call'[c] = r /\ \A d \in Call : d # c => call'[d] = call[d]
  BY <1>4, <1>5, OneCall
<1> QED BY <1>1, <1>2, <1>4, <1>6 DEF Fate, Kept

LEMMA FailedIs ==
    ASSUME NEW o \in BOOLEAN
    PROVE  Shape(Failed(o)) /\ Failed(o).phase = "failed" /\ Failed(o).off = o
BY DEF Failed, Idle, Shape, Fields

LEMMA AdmitFx ==
    ASSUME Shaped, NEW c \in Call, Admit(c)
    PROVE  Shaped' /\ \A d \in Call : Fate(d)
<1>1. call[c].phase = "sent" /\ UNCHANGED <<server, rest, cookie, page, marks>>
  BY DEF Admit
<1>2. CASE call' = [call EXCEPT ![c].phase = "admitted", ![c].got = account]
  <2>1. PICK r : r = [call[c] EXCEPT !.phase = "admitted", !.got = account]
    OBVIOUS
  <2>2. /\ Shape(r) /\ r.phase = "admitted" /\ r.token = call[c].token /\ r.arg = call[c].arg
        /\ r.got = account /\ r.off = call[c].off /\ r.me = call[c].me
    BY <2>1 DEF Shaped, Shape, Fields
  <2>3. call' = [call EXCEPT ![c] = r]
    BY <1>2, <2>1
  <2>4. Shaped' /\ call'[c] = r /\ \A d \in Call : d # c => call'[d] = call[d]
    BY <2>2, <2>3, OneCall
  <2> QED BY <1>1, <2>2, <2>4 DEF Fate, Kept, Admitted
<1>3. CASE call' = [call EXCEPT ![c] = Failed(FALSE)]
  <2>1. PICK r : r = Failed(FALSE)
    OBVIOUS
  <2>2. Shape(r) /\ r.phase = "failed"
    BY <2>1, FailedIs
  <2>3. call' = [call EXCEPT ![c] = r]
    BY <1>3, <2>1
  <2>4. Shaped' /\ call'[c] = r /\ \A d \in Call : d # c => call'[d] = call[d]
    BY <2>2, <2>3, OneCall
  <2> QED BY <1>1, <2>2, <2>4 DEF Fate, Kept, Ended
<1> QED BY <1>2, <1>3 DEF Admit

LEMMA LoseFx ==
    ASSUME Shaped, NEW c \in Call, Lose(c)
    PROVE  Shaped' /\ \A d \in Call : Fate(d)
<1>1. call[c].phase \in {"sent", "done"} /\ cookie' = cookie
  BY DEF Lose
<1>2. PICK off \in BOOLEAN : off = (c[2] \in Edits /\ call[c].phase = "done")
  OBVIOUS
<1>3. call' = [call EXCEPT ![c] = Failed(off)]
  BY <1>2 DEF Lose
<1>4. PICK r : r = Failed(off)
  OBVIOUS
<1>5. Shape(r) /\ r.phase = "failed" /\ r.off = off
  BY <1>4, FailedIs
<1>6. call' = [call EXCEPT ![c] = r]
  BY <1>3, <1>4
<1>7. Shaped' /\ call'[c] = r /\ \A d \in Call : d # c => call'[d] = call[d]
  BY <1>5, <1>6, OneCall
<1> QED BY <1>1, <1>2, <1>5, <1>7 DEF Fate, Kept, Ended

(* An answer is put down, and marks other requests as old, no more.        *)
Told(c, d) == call[d].old \/ (c[2] \in Edits /\ Open(d) /\ (d[1] = c[1] => d[2] \notin Edits))

LEMMA AnswerIs ==
    ASSUME Shaped, NEW c \in Call, NEW a, NEW g, Answer(c, a, g)
    PROVE  /\ Shaped'
           /\ call'[c].phase = "done" /\ call'[c].arg = a /\ call'[c].got = g
           /\ \A d \in Call :
                 /\ call'[d].token = call[d].token /\ call'[d].off = call[d].off
                 /\ call'[d].me = call[d].me
                 /\ call'[d].old <=> Told(c, d)
                 /\ d # c => /\ call'[d].phase = call[d].phase
                             /\ call'[d].arg = call[d].arg /\ call'[d].got = call[d].got
<1>1. ASSUME NEW d \in Call
      PROVE  /\ Shape(call'[d])
             /\ call'[d].phase = IF d = c THEN "done" ELSE call[d].phase
             /\ call'[d].token = call[d].token /\ call'[d].off = call[d].off
             /\ call'[d].me = call[d].me
             /\ call'[d].old <=> Told(c, d)
             /\ call'[d].arg = IF d = c THEN a ELSE call[d].arg
             /\ call'[d].got = IF d = c THEN g ELSE call[d].got
  <2>1. PICK r : r = call[d]
    OBVIOUS
  <2>2. Shape(r)
    BY <2>1 DEF Shaped
  <2>3. PICK v \in BOOLEAN : v = Told(c, d)
    BY <2>1, <2>2 DEF Shape, Told
  <2>4. v = (r.old \/ (c[2] \in Edits /\ Open(d) /\ (d[1] = c[1] => d[2] \notin Edits)))
    BY <2>1, <2>3 DEF Told
  <2>5. CASE d = c
    <3>1. call'[d] = [r EXCEPT !.phase = "done", !.arg = a, !.got = g, !.old = v]
      BY <2>1, <2>4, <2>5, Zenon DEF Answer
    <3> QED BY <2>1, <2>2, <2>3, <2>5, <3>1 DEF Shape, Fields
  <2>6. CASE d # c
    <3>1. call'[d] = [r EXCEPT !.phase = r.phase, !.arg = r.arg, !.got = r.got, !.old = v]
      BY <2>1, <2>4, <2>6, Zenon DEF Answer
    <3> QED BY <2>1, <2>2, <2>3, <2>6, <3>1 DEF Shape, Fields
  <2> QED BY <2>5, <2>6
<1>2. call' = [d \in Call |-> call'[d]]
  BY DEF Answer
<1> QED BY <1>1, <1>2 DEF Shaped

(* What the handlers answer.                                               *)
Answered(c) ==
    \E a, g :
       /\ Answer(c, a, g)
       /\ c[2] = "me" => a = call[c].token
       /\ c[2] = "login" => a \in Token
       /\ c[2] = "setup" => a \in Secret
       /\ c[2] \in {"me", "login"} => g = Payload(call[c].got)
       /\ c[2] \in {"change", "entry"} => a = call[c].arg

(* A request that is not carried out, or whose effect is the agent's own:  *)
(* the account, the sessions and what anpanel-web has in memory stay.      *)
Denied(c) ==
    /\ call' = [call EXCEPT ![c] = Failed(FALSE)]
    /\ UNCHANGED <<account, entry, pending, live, born, stale>>

LEMMA HandlerIs ==
    ASSUME NEW c \in Call, Handle(c)
    PROVE  Answered(c) \/ Denied(c)
<1>1. CASE \E k \in Token : LoginHandled(c, k)
  BY <1>1 DEF LoginHandled, Answered
<1>2. CASE \E x \in Secret : SetupHandled(c, x)
  BY <1>2 DEF SetupHandled, Answered
<1>3. CASE MeHandled(c) \/ LogoutHandled(c)
  BY <1>3 DEF MeHandled, LogoutHandled, Answered
<1>4. CASE ChangeHandled(c) \/ EntryHandled(c) \/ EnableHandled(c)
  BY <1>4 DEF ChangeHandled, EntryHandled, EnableHandled, Refuse, Denied, Answered
<1> QED BY <1>1, <1>2, <1>3, <1>4 DEF Handle

(* What an edit does.                                                      *)
Edit(c) ==
    /\ Outdate(c[1])
    /\ \/ /\ c[2] = "change" /\ entry' = entry
          /\ account' = [account EXCEPT !.who = call[c].arg, !.must = FALSE, !.word = @ + 1]
       \/ /\ c[2] = "entry" /\ account' = account
          /\ entry' = call[c].arg
       \/ /\ c[2] = "enable" /\ entry' = entry /\ call[c].arg = pending
          /\ account' = [account EXCEPT !.totp = pending]

LEMMA EditIs ==
    ASSUME NEW c \in Call, Handle(c)
    PROVE  /\ c[2] \in Edits => Edit(c) \/ Denied(c)
           /\ c[2] \notin Edits => UNCHANGED <<account, entry, stale>>
           /\ me' = me /\ call[c].phase = "admitted" /\ cookie' = cookie
<1>1. CASE ChangeHandled(c)
  BY <1>1 DEF Handle, ChangeHandled, Refuse, Denied, Edit, Edits
<1>2. CASE EntryHandled(c)
  BY <1>2 DEF Handle, EntryHandled, Refuse, Denied, Edit, Edits
<1>3. CASE EnableHandled(c)
  BY <1>3 DEF Handle, EnableHandled, Refuse, Denied, Edit, Edits
<1>4. CASE \/ \E k \in Token : LoginHandled(c, k)
           \/ \E x \in Secret : SetupHandled(c, x)
           \/ MeHandled(c) \/ LogoutHandled(c)
  BY <1>4 DEF Handle, LoginHandled, SetupHandled, MeHandled, LogoutHandled, Edits
<1> QED BY <1>1, <1>2, <1>3, <1>4 DEF Handle

LEMMA DeniedFx ==
    ASSUME Shaped, NEW c \in Call, Denied(c), call[c].phase = "admitted", cookie' = cookie
    PROVE  Shaped' /\ \A d \in Call : Fate(d)
<1>1. Shape(Failed(FALSE)) /\ Failed(FALSE).phase = "failed"
  BY FailedIs
<1>2. /\ Shaped' /\ \A d \in Call : d # c => call'[d] = call[d]
      /\ call'[c].phase = "failed"
  BY <1>1, OneCall DEF Denied
<1> QED BY <1>2 DEF Fate, Kept, Ended

LEMMA HandleFx ==
    ASSUME Shaped, NEW c \in Call, Handle(c)
    PROVE  Shaped' /\ \A d \in Call : Fate(d)
<1>1. CASE Denied(c)
  BY <1>1, EditIs, DeniedFx
<1>2. CASE Answered(c) /\ ~Denied(c)
  <2>1. PICK a, g :
          /\ Answer(c, a, g)
          /\ c[2] = "me" => a = call[c].token
          /\ c[2] = "login" => a \in Token
          /\ c[2] = "setup" => a \in Secret
          /\ c[2] \in {"me", "login"} => g = Payload(call[c].got)
          /\ c[2] \in {"change", "entry"} => a = call[c].arg
    BY <1>2 DEF Answered
  <2>2. /\ Shaped'
        /\ call'[c].phase = "done" /\ call'[c].arg = a /\ call'[c].got = g
        /\ \A d \in Call :
              /\ call'[d].token = call[d].token /\ call'[d].off = call[d].off
              /\ call'[d].me = call[d].me
              /\ call'[d].old <=> Told(c, d)
              /\ d # c => /\ call'[d].phase = call[d].phase
                          /\ call'[d].arg = call[d].arg /\ call'[d].got = call[d].got
    BY <2>1, AnswerIs
  <2>3. c[2] \in Edits => Made(c)
    <3>1. c[2] \in Edits => Edit(c)
      BY <1>2, EditIs
    <3>2. Outdate(c[1]) => \A u \in Tab : stale'[u] <=> stale[u] \/ u # c[1]
      BY DEF Outdate
    <3>3. me' = me /\ call[c].phase = "admitted"
      BY EditIs
    <3> QED BY <2>1, <2>2, <3>1, <3>2, <3>3 DEF Made, Edit, Told
  <2>4. Done(c)
    BY <2>1, <2>2, <2>3, EditIs DEF Done, Told
  <2>5. \A d \in Call : d # c => Kept(d)
    BY <2>2, EditIs DEF Kept, Told
  <2> QED BY <2>2, <2>4, <2>5 DEF Fate
<1> QED BY <1>1, <1>2, HandlerIs

LEMMA CookieFx ==
    ASSUME Shaped, NEW t \in Tab, NEW k, SetCookie(t, k)
    PROVE  Shaped' /\ \A d \in Call : Fate(d)
<1>1. PICK gone \in SUBSET Call :
         /\ \A c \in gone : c[2] \notin Edits
         /\ call' = [c \in Call |->
              IF c \in gone THEN Idle
              ELSE [call[c] EXCEPT !.off = @ \/ (c[2] = "me" /\ Open(c))]]
  <2>1. PICK gone \in SUBSET Call : \A c \in Call : c \in gone <=>
           c[1] = t /\ call[c].phase = "done" /\ c[2] = (IF k = None THEN "logout" ELSE "login")
    <3>1. {c \in Call : c[1] = t /\ call[c].phase = "done"
                        /\ c[2] = (IF k = None THEN "logout" ELSE "login")} \in SUBSET Call
      OBVIOUS
    <3> QED BY <3>1
  <2>2. \A c \in gone : c[2] \notin Edits
    BY <2>1 DEF Edits
  <2>3. call' = [c \in Call |->
         IF c \in gone THEN Idle
         ELSE [call[c] EXCEPT !.off = @ \/ (c[2] = "me" /\ Open(c))]]
    BY <2>1 DEF SetCookie
  <2> QED BY <2>2, <2>3
<1>2. Shape(Idle) /\ Idle.phase = "idle"
  BY DEF Shape, Fields, Idle
<1>3. Shaped'
  BY <1>1, <1>2 DEF Shaped, Shape, Fields
<1>4. \A c \in gone : Ended(c)
  BY <1>1, <1>2 DEF Ended
<1>5. \A c \in Call : c \notin gone =>
         /\ call'[c].phase = call[c].phase /\ call'[c].token = call[c].token
         /\ call'[c].arg = call[c].arg /\ call'[c].got = call[c].got
         /\ call'[c].off = (call[c].off \/ (c[2] = "me" /\ Open(c)))
         /\ call'[c].old = call[c].old /\ call'[c].me = call[c].me
  BY <1>1 DEF Shaped, Shape, Fields
<1>6. \A c \in Call : c \notin gone => Kept(c)
  BY <1>5 DEF Kept
<1> QED BY <1>3, <1>4, <1>6 DEF Fate

LEMMA ResetFx ==
    ASSUME Shaped, ResetRow
    PROVE  Shaped' /\ \A d \in Call : Fate(d)
<1>1. call' = [c \in Call |-> [call[c] EXCEPT !.old = Open(c)]] /\ cookie' = cookie
  BY DEF ResetRow
<1>2. Shaped'
  BY <1>1 DEF Shaped, Shape, Fields
<1>3. ASSUME NEW c \in Call
      PROVE  /\ call'[c].phase = call[c].phase /\ call'[c].token = call[c].token
             /\ call'[c].arg = call[c].arg /\ call'[c].got = call[c].got
             /\ call'[c].off = call[c].off /\ call'[c].me = call[c].me
             /\ Open(c) => call'[c].old
  <2>1. PICK r, o : r = call[c] /\ o = Open(c)
    OBVIOUS
  <2>2. call'[c] = [r EXCEPT !.old = o]
    BY <1>1, <2>1
  <2>3. r = [f \in Fields |-> r[f]]
    BY <2>1 DEF Shaped, Shape
  <2>4. /\ call'[c].phase = r.phase /\ call'[c].token = r.token /\ call'[c].arg = r.arg
        /\ call'[c].got = r.got /\ call'[c].off = r.off /\ call'[c].me = r.me
        /\ call'[c].old = o
    BY <2>2, <2>3 DEF Fields
  <2> QED BY <2>1, <2>4
<1> QED BY <1>1, <1>2, <1>3 DEF Fate, Kept

LEMMA StillFx ==
    ASSUME Shaped, UNCHANGED <<call, cookie>>
    PROVE  Shaped' /\ \A d \in Call : Fate(d)
BY DEF Shaped, Fate, Kept

(* Every step leaves every request one of its fates.                       *)
LEMMA StepFx ==
    ASSUME Shaped, [Next]_vars
    PROVE  Shaped' /\ \A d \in Call : Fate(d)
<1>1. ASSUME NEW t \in Tab, OpenTab(t) PROVE Shaped' /\ \A d \in Call : Fate(d)
  BY <1>1, SendFx DEF OpenTab, Kind, Edits, Send
<1>2. ASSUME NEW t \in Tab, SubmitLogin(t) PROVE Shaped' /\ \A d \in Call : Fate(d)
  BY <1>2, SendFx DEF SubmitLogin, Kind, Edits, Send
<1>3. ASSUME NEW t \in Tab, Logout(t) PROVE Shaped' /\ \A d \in Call : Fate(d)
  BY <1>3, SendFx DEF Logout, Kind, Edits, Send
<1>4. ASSUME NEW t \in Tab, NEW who \in Who, SaveFirstLogin(t, who)
      PROVE  Shaped' /\ \A d \in Call : Fate(d)
  BY <1>4, SendFx DEF SaveFirstLogin, Kind, Edits, Send
<1>5. ASSUME NEW t \in Tab, NEW e \in Entry, SaveFirstEntry(t, e) \/ SaveEntry(t, e)
      PROVE  Shaped' /\ \A d \in Call : Fate(d)
  BY <1>5, SendFx DEF SaveFirstEntry, SaveEntry, Clear, Kind, Edits, Send
<1>6. ASSUME NEW t \in Tab, SetupTOTP(t) PROVE Shaped' /\ \A d \in Call : Fate(d)
  BY <1>6, SendFx DEF SetupTOTP, Kind, Edits, Send
<1>7. ASSUME NEW t \in Tab, EnableTOTP(t) PROVE Shaped' /\ \A d \in Call : Fate(d)
  BY <1>7, SendFx DEF EnableTOTP, Clear, Kind, Edits, Send
<1>8. ASSUME NEW t \in Tab, LeaveSettings(t) PROVE Shaped' /\ \A d \in Call : Fate(d)
  BY <1>8, LeaveFx
<1>9. ASSUME NEW t \in Tab, LoginArrives(t) \/ LogoutArrives(t)
      PROVE  Shaped' /\ \A d \in Call : Fate(d)
  BY <1>9, CookieFx DEF LoginArrives, LogoutArrives
<1>10. ASSUME NEW t \in Tab, LoginFails(t) \/ MeArrives(t) \/ MeFails(t) \/ LogoutFails(t)
                             \/ SetupArrives(t) \/ SetupFails(t)
       PROVE  Shaped' /\ \A d \in Call : Fate(d)
  <2>1. /\ cookie' = cookie
        /\ \/ Over(<<t, "login">>) \/ Over(<<t, "me">>) \/ Over(<<t, "logout">>)
           \/ Over(<<t, "setup">>)
    BY <1>10 DEF LoginFails, MeArrives, MeFails, LogoutFails, SetupArrives, SetupFails
  <2>2. ASSUME NEW k \in Kind \ Edits, Over(<<t, k>>)
        PROVE  Shaped' /\ \A d \in Call : Fate(d)
    <3>1. PICK c \in Call : c = <<t, k>> /\ c[2] = k
      BY Pair
    <3> QED BY <2>1, <2>2, <3>1, OverFx
  <2>3. {"login", "me", "logout", "setup"} \subseteq Kind \ Edits
    BY DEF Kind, Edits
  <2> QED BY <2>1, <2>2, <2>3
<1>11. ASSUME NEW c \in Call, EditArrives(c) \/ EditFails(c)
       PROVE  Shaped' /\ \A d \in Call : Fate(d)
  BY <1>11, OverFx DEF EditArrives, EditFails
<1>12. ASSUME NEW c \in Call, Admit(c) \/ Handle(c) \/ Lose(c)
       PROVE  Shaped' /\ \A d \in Call : Fate(d)
  BY <1>12, AdmitFx, HandleFx, LoseFx
<1>13. ASSUME NEW k \in Token, Expire(k) PROVE Shaped' /\ \A d \in Call : Fate(d)
  BY <1>13, StillFx DEF Expire
<1>14. CASE ResetRow
  BY <1>14, ResetFx
<1>15. CASE ResetSessions \/ UNCHANGED vars \/ \E e \in Entry : SavedUnheard(e)
  BY <1>15, StillFx DEF ResetSessions, SavedUnheard
<1> QED
  BY <1>1, <1>2, <1>3, <1>4, <1>5, <1>6, <1>7, <1>8, <1>9, <1>10, <1>11, <1>12, <1>13, <1>14,
     <1>15 DEF Next

LEMMA ShapedInit == Init => Shaped
<1>1. Shape(Idle)
  BY DEF Shape, Fields, Idle
<1> QED BY <1>1 DEF Init, Shaped

-----------------------------------------------------------------------------
(* Secrets.                                                                *)

AccountFields == {"who", "must", "totp", "word"}
Framed ==
    /\ account = [f \in AccountFields |-> account[f]]
    /\ secret = [t \in Tab |-> secret[t]]
SeenOK ==
    /\ SecretWasShown
    /\ \A t \in Tab : secret[t] # None => secret[t] \in seen
    /\ \A c \in Call : c[2] = "enable" /\ call[c].phase \in {"sent", "admitted"} =>
                          call[c].arg \in seen
SecretInv == Shaped /\ Framed /\ SeenOK

LEMMA SecretInit == Init => SecretInv
<1> SUFFICES ASSUME Init PROVE SecretInv
  OBVIOUS
<1>1. Shaped
  BY ShapedInit
<1>2. Framed
  BY DEF Init, Framed, AccountFields
<1>3. SeenOK
  BY DEF Init, SeenOK, SecretWasShown, Idle
<1> QED BY <1>1, <1>2, <1>3 DEF SecretInv

(* Where the secret of the account, and those on screens, can come from.   *)
LEMMA SecretFx ==
    ASSUME SecretInv, [Next]_vars
    PROVE  /\ Framed' /\ seen \subseteq seen'
           /\ account'.totp # None => account'.totp \in seen
           /\ \A t \in Tab : secret'[t] # None => secret'[t] \in seen'
<1> USE DEF SecretInv, Framed, SeenOK, SecretWasShown, AccountFields
<1>1. CASE UNCHANGED <<account, secret, seen>>
  BY <1>1
<1>2. ASSUME NEW c \in Call, Handle(c)
      PROVE  /\ Framed' /\ seen' = seen /\ secret' = secret
             /\ account'.totp # None => account'.totp \in seen
  <2>1. seen' = seen /\ secret' = secret /\ call[c].phase = "admitted"
    BY <1>2 DEF Handle
  <2>2. CASE ChangeHandled(c)
    BY <2>1, <2>2 DEF ChangeHandled, Refuse
  <2>3. CASE EnableHandled(c)
    BY <2>1, <2>3 DEF EnableHandled, Refuse
  <2>4. CASE UNCHANGED account
    BY <2>1, <2>4
  <2> QED BY <2>2, <2>3, <2>4, <1>2 DEF Handle, LoginHandled, SetupHandled, MeHandled,
             LogoutHandled, EntryHandled, Refuse
<1>3. CASE ResetRow
  BY <1>3 DEF ResetRow
<1>4. ASSUME NEW t \in Tab, LeaveSettings(t) \/ LogoutArrives(t) \/ LogoutFails(t)
      PROVE  /\ secret' = [secret EXCEPT ![t] = None] /\ UNCHANGED <<account, seen>>
  BY <1>4 DEF LeaveSettings, LogoutArrives, LogoutFails, ShellGoes
<1>5. ASSUME NEW c \in Call, EditArrives(c)
      PROVE  /\ secret' = secret \/ secret' = [secret EXCEPT ![c[1]] = None]
             /\ UNCHANGED <<account, seen>>
  BY <1>5 DEF EditArrives
<1>6. ASSUME NEW t \in Tab, SetupArrives(t)
      PROVE  /\ UNCHANGED account
             /\ \/ UNCHANGED <<secret, seen>>
                \/ \E s : secret' = [secret EXCEPT ![t] = s] /\ seen' = seen \cup {s}
  BY <1>6 DEF SetupArrives
<1>7. \A c \in Call : c[1] \in Tab
  BY DEF Call
<1>8. CASE \E t \in Tab : \E s : /\ secret' = [secret EXCEPT ![t] = s] /\ UNCHANGED account
                                 /\ (s = None /\ seen' = seen) \/ seen' = seen \cup {s}
  BY <1>8
<1> QED
  BY <1>1, <1>2, <1>3, <1>4, <1>5, <1>6, <1>7, <1>8, ZenonT(30)
     DEF Next, OpenTab, SubmitLogin, Logout, SaveFirstLogin, SaveFirstEntry, SaveEntry,
         SetupTOTP, EnableTOTP, Send, LoginArrives, LoginFails, MeArrives, MeFails, SetupFails,
         Admit, Lose, EditFails, Expire, ResetSessions, SavedUnheard

LEMMA SecretStep == SecretInv /\ [Next]_vars => SecretInv'
<1> SUFFICES ASSUME SecretInv, [Next]_vars PROVE SecretInv'
  OBVIOUS
<1>1. Shaped' /\ \A c \in Call : Fate(c)
  BY StepFx DEF SecretInv
<1>2. /\ Framed' /\ seen \subseteq seen'
      /\ account'.totp # None => account'.totp \in seen
      /\ \A t \in Tab : secret'[t] # None => secret'[t] \in seen'
  BY SecretFx
<1>3. ASSUME NEW c \in Call, c[2] = "enable", call'[c].phase \in {"sent", "admitted"}
      PROVE  call'[c].arg \in seen'
  <2>1. c[1] \in Tab
    BY DEF Call
  <2>2. CASE Kept(c) \/ Admitted(c)
    BY <1>2, <1>3, <2>2 DEF Kept, Admitted, SecretInv, SeenOK
  <2>3. CASE Sent(c)
    BY <1>2, <1>3, <2>1, <2>3 DEF Sent, SecretInv, SeenOK
  <2> QED BY <1>1, <1>3, <2>2, <2>3 DEF Fate, Ended, Done
<1> QED BY <1>1, <1>2, <1>3 DEF SecretInv, SeenOK, SecretWasShown

(* The administrator is not locked out by two-factor authentication: the   *)
(* secret that logins ask a code of was on a screen, since totpEnable      *)
(* takes the pending secret only against a code of that very secret.       *)
THEOREM SecretCorrect == Spec => []SecretWasShown
BY SecretInit, SecretStep, PTL DEF Spec, SecretInv, SeenOK

-----------------------------------------------------------------------------
(* Sessions and resets.                                                    *)

(* A login that is about to make a session of a password older than the    *)
(* last reset is one of those that the reset found under way.              *)
Numbered ==
    /\ account = [f \in AccountFields |-> account[f]]
    /\ account.word \in Nat /\ since \in Nat /\ since <= account.word
    /\ reset \in {"before", "between"}
    /\ live \subseteq Token /\ born = [k \in Token |-> born[k]]
LoginsOK ==
    \A c \in Call : c[2] = "login" /\ call[c].phase = "admitted" =>
       /\ call[c].got.word \in Nat
       /\ reset = "before" => call[c].got.word >= since \/ c \in astride
SessionsOK ==
    \A k \in live : born[k] \in Nat /\ (reset = "before" => born[k] >= since \/ k \in late)
RevokeInv == Shaped /\ Numbered /\ LoginsOK /\ SessionsOK

LEMMA RevokeInit == Init => RevokeInv
<1> SUFFICES ASSUME Init PROVE RevokeInv
  OBVIOUS
<1>1. Shaped
  BY ShapedInit
<1>2. Numbered
  BY DEF Init, Numbered, AccountFields
<1>3. LoginsOK /\ SessionsOK
  BY DEF Init, LoginsOK, SessionsOK, Idle
<1> QED BY <1>1, <1>2, <1>3 DEF RevokeInv

(* What a handler does to the account and the sessions.                    *)
AccountEdited ==
    \/ account' = account
    \/ \E w, m : account' = [account EXCEPT !.who = w, !.must = m, !.word = @ + 1]
    \/ \E x : account' = [account EXCEPT !.totp = x]
Opened(c, k) ==
    /\ c[2] = "login" /\ call[c].phase = "admitted" /\ k \in Token \ live
    /\ UNCHANGED <<account, since, reset>>
    /\ live' = live \cup {k} /\ born' = [born EXCEPT ![k] = call[c].got.word]
    /\ astride' = astride \ {c} /\ call'[c].phase # "admitted"
    /\ late' = IF c \in astride THEN late \cup {k} ELSE late
Handled(c) ==
    /\ call[c].phase = "admitted" /\ call'[c].phase # "admitted"
    /\ UNCHANGED <<since, reset, born>>
    /\ AccountEdited
    /\ live' \subseteq live /\ astride' = astride \ {c} /\ late' = late

LEMMA HandleIs ==
    ASSUME Shaped, Numbered, NEW c \in Call, Handle(c)
    PROVE  (\E k \in Token : Opened(c, k)) \/ Handled(c)
<1>1. call[c].phase = "admitted" /\ astride' = astride \ {c} /\ UNCHANGED <<since, reset>>
  BY DEF Handle
<1>2. call'[c].phase # "admitted"
  <2>1. CASE \E a, g : Answer(c, a, g)
    <3>1. PICK a, g : Answer(c, a, g)
      BY <2>1
    <3>2. call'[c] = [call[c] EXCEPT !.phase = "done", !.arg = a, !.got = g,
                         !.old = @ \/ (c[2] \in Edits /\ Open(c) /\ c[1] # c[1])]
      BY <3>1, Zenon DEF Answer
    <3>3. PICK r, v : r = call[c] /\ v = (r.old \/ (c[2] \in Edits /\ Open(c) /\ c[1] # c[1]))
      OBVIOUS
    <3>4. Shape(r) /\ call'[c] = [r EXCEPT !.phase = "done", !.arg = a, !.got = g, !.old = v]
      BY <3>2, <3>3, Zenon DEF Shaped
    <3>5. call'[c].phase = "done"
      BY <3>4 DEF Shape, Fields
    <3> QED BY <3>5
  <2>2. CASE Denied(c)
    BY <2>2, FailedIs, OneCall DEF Denied
  <2> QED BY <2>1, <2>2, HandlerIs DEF Answered
<1>3. CASE \E k \in Token : LoginHandled(c, k)
  <2>1. PICK k \in Token : LoginHandled(c, k)
    BY <1>3
  <2>2. live' \ live = {k}
    BY <2>1 DEF LoginHandled
  <2> QED BY <1>1, <1>2, <2>1, <2>2 DEF LoginHandled, Opened, Handle
<1>4. CASE \/ \E s \in Secret : SetupHandled(c, s)
           \/ MeHandled(c) \/ LogoutHandled(c) \/ ChangeHandled(c)
           \/ EntryHandled(c) \/ EnableHandled(c)
  <2>1. live' \subseteq live /\ UNCHANGED born
    BY <1>4 DEF SetupHandled, MeHandled, LogoutHandled, ChangeHandled, EntryHandled, EnableHandled,
       Refuse
  <2>2. late' = late
    <3>1. live' \ live = {}
      BY <2>1
    <3> QED BY <3>1 DEF Handle
  <2>3. AccountEdited
    <3>1. CASE ChangeHandled(c)
      BY <3>1, Zenon DEF ChangeHandled, Refuse, AccountEdited
    <3>2. CASE EnableHandled(c)
      BY <3>2, Zenon DEF EnableHandled, Refuse, AccountEdited
    <3> QED BY <1>4, <3>1, <3>2 DEF SetupHandled, MeHandled, LogoutHandled, EntryHandled, Refuse,
       AccountEdited
  <2> QED BY <1>1, <1>2, <2>1, <2>2, <2>3 DEF Handled
<1> QED BY <1>3, <1>4 DEF Handle

(* Changes keep the numbering of passwords.                                *)
LEMMA AccountKept ==
    ASSUME Numbered, AccountEdited
    PROVE  /\ account' = [f \in AccountFields |-> account'[f]]
           /\ account'.word \in Nat /\ account'.word >= account.word
<1>1. CASE account' = account
  BY <1>1 DEF Numbered
<1>2. ASSUME NEW w, NEW m, account' = [account EXCEPT !.who = w, !.must = m, !.word = @ + 1]
      PROVE  /\ account' = [f \in AccountFields |-> account'[f]]
             /\ account'.word \in Nat /\ account'.word >= account.word
  <2>1. PICK n \in Nat : n = account.word + 1 /\ n >= account.word
    <3>1. account.word \in Nat
      BY DEF Numbered
    <3> QED BY <3>1
  <2>2. account' = [account EXCEPT !.who = w, !.must = m, !.word = n]
    BY <1>2, <2>1, Zenon
  <2>3. account' = [f \in AccountFields |-> account'[f]] /\ account'.word = n
    BY <2>2 DEF Numbered, AccountFields
  <2> QED BY <2>1, <2>3
<1>3. ASSUME NEW w, account' = [account EXCEPT !.totp = w]
      PROVE  /\ account' = [f \in AccountFields |-> account'[f]]
             /\ account'.word \in Nat /\ account'.word >= account.word
  <2>1. account' = [f \in AccountFields |-> account'[f]] /\ account'.word = account.word
    BY <1>3 DEF Numbered, AccountFields
  <2>2. account.word \in Nat
    BY DEF Numbered
  <2> QED BY <2>1, <2>2
<1> QED BY <1>1, <1>2, <1>3 DEF AccountEdited

(* A login is admitted with the password of that moment.                   *)
LEMMA LoginsKept ==
    ASSUME RevokeInv, \A c \in Call : Fate(c), Numbered', reset' = reset, since' = since,
           \A c \in astride : c \in astride' \/ call'[c].phase # "admitted"
    PROVE  LoginsOK'
<1>1. ASSUME NEW c \in Call, c[2] = "login", call'[c].phase = "admitted"
      PROVE  /\ call'[c].got.word \in Nat
             /\ reset' = "before" => call'[c].got.word >= since' \/ c \in astride'
  <2>1. CASE Kept(c)
    BY <2>1, <1>1 DEF Kept, RevokeInv, LoginsOK
  <2>2. CASE Admitted(c)
    BY <2>2 DEF Admitted, RevokeInv, Numbered
  <2> QED BY <1>1, <2>1, <2>2 DEF Fate, Ended, Sent, Done
<1> QED BY <1>1 DEF LoginsOK

LEMMA RevokeStep == RevokeInv /\ [Next]_vars => RevokeInv'
<1> SUFFICES ASSUME RevokeInv, [Next]_vars PROVE RevokeInv'
  OBVIOUS
<1>1. Shaped /\ Shaped' /\ \A c \in Call : Fate(c)
  BY StepFx DEF RevokeInv
<1>2. Numbered /\ LoginsOK /\ SessionsOK
  BY DEF RevokeInv
<1>3. CASE UNCHANGED <<account, since, reset, astride, late, born, live>>
  <2>1. Numbered' /\ SessionsOK'
    BY <1>2, <1>3 DEF Numbered, SessionsOK
  <2> QED BY <1>1, <1>3, <2>1, LoginsKept DEF RevokeInv
<1>4. ASSUME NEW c \in Call, NEW k \in Token, Opened(c, k)
      PROVE  RevokeInv'
  <2>1. Numbered'
    BY <1>2, <1>4 DEF Numbered, Opened
  <2>2. born'[k] = call[c].got.word
    BY <1>2, <1>4 DEF Numbered, Opened
  <2>3. /\ born'[k] \in Nat
        /\ reset' = "before" => born'[k] >= since' \/ k \in late'
    BY <1>2, <1>4, <2>2 DEF LoginsOK, Opened
  <2>4. \A x \in live : born'[x] = born[x] /\ (x \in late => x \in late')
    BY <1>2, <1>4 DEF Numbered, Opened
  <2>5. SessionsOK'
    BY <1>2, <1>4, <2>3, <2>4 DEF SessionsOK, Opened
  <2>6. LoginsOK'
    BY <1>1, <1>4, <2>1, LoginsKept DEF Opened
  <2> QED BY <1>1, <2>1, <2>5, <2>6 DEF RevokeInv
<1>5. ASSUME NEW c \in Call, Handled(c) PROVE RevokeInv'
  <2>1. /\ account' = [f \in AccountFields |-> account'[f]]
        /\ account'.word \in Nat /\ account'.word >= account.word
    BY <1>2, <1>5, AccountKept DEF Handled
  <2>2. since' <= account'.word
    <3>1. since \in Nat /\ account.word \in Nat /\ since <= account.word /\ since' = since
      BY <1>2, <1>5 DEF Numbered, Handled
    <3> QED BY <2>1, <3>1
  <2>3. Numbered'
    BY <1>2, <1>5, <2>1, <2>2 DEF Numbered, Handled
  <2>4. SessionsOK'
    BY <1>2, <1>5 DEF SessionsOK, Handled
  <2>5. LoginsOK'
    BY <1>1, <1>5, <2>3, LoginsKept DEF Handled
  <2> QED BY <1>1, <2>3, <2>4, <2>5 DEF RevokeInv
<1>6. ASSUME NEW k \in Token, Expire(k) PROVE RevokeInv'
  <2>1. Numbered' /\ SessionsOK'
    BY <1>2, <1>6 DEF Numbered, SessionsOK, Expire
  <2> QED BY <1>1, <1>6, <2>1, LoginsKept DEF RevokeInv, Expire
<1>7. CASE ResetRow
  <2>1. PICK n \in Nat : n = account.word + 1
    <3>1. account.word \in Nat
      BY <1>2 DEF Numbered
    <3> QED BY <3>1
  <2>2. /\ account' = [who |-> Admin, must |-> TRUE, totp |-> None, word |-> n]
        /\ since' = n /\ reset' = "between" /\ UNCHANGED <<live, born, astride, late>>
    BY <1>7, <2>1 DEF ResetRow
  <2>3. Numbered'
    BY <1>2, <2>2 DEF Numbered, AccountFields
  <2>4. SessionsOK'
    BY <1>2, <2>2 DEF SessionsOK
  <2>5. ASSUME NEW c \in Call, c[2] = "login", call'[c].phase = "admitted"
        PROVE  call'[c].got.word \in Nat
    <3>1. CASE Kept(c)
      BY <3>1, <2>5, <1>2 DEF Kept, LoginsOK
    <3>2. CASE Admitted(c)
      BY <3>2, <1>2 DEF Admitted, Numbered
    <3> QED BY <1>1, <2>5, <3>1, <3>2 DEF Fate, Ended, Sent, Done
  <2>6. LoginsOK'
    BY <2>2, <2>5 DEF LoginsOK
  <2> QED BY <1>1, <2>3, <2>4, <2>6 DEF RevokeInv
<1>8. CASE ResetSessions
  <2>1. /\ live' = {} /\ UNCHANGED <<account, born, since, call>> /\ reset' = "before"
        /\ astride' = astride \cup {c \in Call : c[2] = "login" /\ call[c].phase = "admitted"}
    BY <1>8 DEF ResetSessions
  <2>2. Numbered' /\ SessionsOK'
    BY <1>2, <2>1 DEF Numbered, SessionsOK
  <2>3. LoginsOK'
    BY <1>2, <2>1 DEF LoginsOK
  <2> QED BY <1>1, <2>2, <2>3 DEF RevokeInv
<1>9. ASSUME NEW c \in Call, Handle(c) PROVE RevokeInv'
  BY <1>1, <1>2, <1>4, <1>5, <1>9, HandleIs
<1> QED
  BY <1>3, <1>6, <1>7, <1>8, <1>9, ZenonT(30)
     DEF Next, OpenTab, SubmitLogin, Logout, SaveFirstLogin, SaveFirstEntry, SaveEntry,
         SetupTOTP, EnableTOTP, LeaveSettings, Send, LoginArrives, LoginFails, MeArrives,
         MeFails, LogoutArrives, LogoutFails, ShellGoes, EditArrives, EditFails, SetupArrives,
         SetupFails, Admit, Lose, SavedUnheard

(* When reset-admin is through, no session of an older password is left,   *)
(* except of a login that had read the account before: ResetAdmin deletes  *)
(* the sessions after the row is changed, so a login that reads the row    *)
(* later has the new password.                                             *)
THEOREM ResetCorrect == Spec => []ResetRevokes
<1>1. RevokeInv => ResetRevokes
  BY DEF RevokeInv, SessionsOK, ResetRevokes
<1> QED BY <1>1, RevokeInit, RevokeStep, PTL DEF Spec

-----------------------------------------------------------------------------
(* The cookie and the csrf.                                                *)

(* The shell may also come back with the answer to an edit, and the        *)
(* profile with the answer to App's first question.                        *)
TabsFramed ==
    /\ me = [t \in Tab |-> me[t]] /\ csrf = [t \in Tab |-> csrf[t]]
    /\ turned \in [Tab -> BOOLEAN]
HasShell(t) ==
    me[t] # None \/ \E c \in Call : c[1] = t /\ c[2] \in Edits /\ call[c].phase # "idle"
MatchedOK == \A t \in Tab : HasShell(t) /\ ~turned[t] => csrf[t] = cookie
AskedOK ==
    \A c \in Call : c[2] = "me" /\ call[c].phase \in {"sent", "admitted", "done"} /\ ~call[c].off =>
       call[c].token = cookie /\ (call[c].phase = "done" => call[c].arg = cookie)
CookieInv == Shaped /\ TabsFramed /\ MatchedOK /\ AskedOK

LEMMA CookieInit == Init => CookieInv
<1> SUFFICES ASSUME Init PROVE CookieInv
  OBVIOUS
<1>1. Shaped
  BY ShapedInit
<1>2. TabsFramed
  BY DEF Init, TabsFramed
<1>3. \A c \in Call : call[c].phase = "idle"
  BY DEF Init, Idle
<1>4. MatchedOK /\ AskedOK
  BY <1>3 DEF Init, MatchedOK, HasShell, AskedOK
<1> QED BY <1>1, <1>2, <1>4 DEF CookieInv

LEMMA AskedStep ==
    ASSUME AskedOK, \A c \in Call : Fate(c)
    PROVE  AskedOK'
<1>1. ASSUME NEW c \in Call, c[2] = "me", call'[c].phase \in {"sent", "admitted", "done"},
             ~call'[c].off
      PROVE  call'[c].token = cookie' /\ (call'[c].phase = "done" => call'[c].arg = cookie')
  <2>1. CASE Kept(c)
    BY <1>1, <2>1 DEF Kept, AskedOK
  <2>2. CASE Sent(c)
    BY <1>1, <2>2 DEF Sent
  <2>3. CASE Admitted(c)
    BY <1>1, <2>3 DEF Admitted, AskedOK
  <2>4. CASE Done(c)
    BY <1>1, <2>4 DEF Done, AskedOK
  <2> QED BY <1>1, <2>1, <2>2, <2>3, <2>4 DEF Fate, Ended
<1> QED BY <1>1 DEF AskedOK

(* A step gives a shell only to a tab that had one, or logs it in, or      *)
(* answers its first question.                                             *)
LEMMA ShellKept ==
    ASSUME NEW t \in Tab, \A c \in Call : Fate(c),
           me'[t] # None => HasShell(t), HasShell(t)'
    PROVE  HasShell(t)
<1>1. CASE me'[t] # None
  BY <1>1
<1>2. CASE \E c \in Call : c[1] = t /\ c[2] \in Edits /\ call'[c].phase # "idle"
  <2>1. PICK c \in Call : c[1] = t /\ c[2] \in Edits /\ call'[c].phase # "idle"
    BY <1>2
  <2>2. CASE Sent(c)
    BY <2>1, <2>2 DEF Sent, HasShell
  <2>3. CASE ~Sent(c)
    <3>1. call[c].phase # "idle"
      BY <2>1, <2>3 DEF Fate, Kept, Ended, Admitted, Done
    <3> QED BY <2>1, <3>1 DEF HasShell
  <2> QED BY <2>2, <2>3
<1> QED BY <1>1, <1>2 DEF HasShell

LEMMA MatchedStep ==
    ASSUME CookieInv, [Next]_vars
    PROVE  TabsFramed' /\ MatchedOK'
<1>1. TabsFramed /\ MatchedOK /\ AskedOK /\ \A c \in Call : Fate(c)
  BY StepFx DEF CookieInv
<1>2. CASE UNCHANGED <<me, csrf, turned, cookie>>
  <2>1. TabsFramed'
    BY <1>1, <1>2 DEF TabsFramed
  <2>2. ASSUME NEW t \in Tab, HasShell(t)' PROVE HasShell(t)
    BY <1>1, <1>2, <2>2, ShellKept DEF HasShell
  <2> QED BY <1>1, <1>2, <2>1, <2>2 DEF MatchedOK
<1>3. ASSUME NEW t \in Tab, UNCHANGED <<csrf, turned, cookie>>, me' = [me EXCEPT ![t] = None]
      PROVE  TabsFramed' /\ MatchedOK'
  <2>1. TabsFramed' /\ \A u \in Tab : me'[u] # None => me[u] # None
    BY <1>1, <1>3 DEF TabsFramed
  <2>2. ASSUME NEW u \in Tab, HasShell(u)' PROVE HasShell(u)
    BY <1>1, <2>1, <2>2, ShellKept DEF HasShell
  <2> QED BY <1>1, <1>3, <2>1, <2>2 DEF MatchedOK
<1>4. ASSUME NEW t \in Tab, LoginArrives(t) PROVE TabsFramed' /\ MatchedOK'
  <2>1. PICK k, p : k = call[<<t, "login">>].arg /\ p = call[<<t, "login">>].got
    OBVIOUS
  <2>2. SetCookie(t, k) /\ csrf' = [csrf EXCEPT ![t] = k] /\ me' = [me EXCEPT ![t] = p]
    BY <1>4, <2>1, Zenon DEF LoginArrives
  <2>3. cookie' = k /\ turned' = [u \in Tab |-> IF u = t THEN k = None ELSE TRUE]
    BY <2>2, Zenon DEF SetCookie
  <2>4. TabsFramed' /\ csrf'[t] = cookie' /\ \A u \in Tab : u # t => turned'[u]
    BY <1>1, <2>2, <2>3 DEF TabsFramed
  <2> QED BY <2>4 DEF MatchedOK
<1>5. ASSUME NEW t \in Tab, MeArrives(t) PROVE TabsFramed' /\ MatchedOK'
  <2>0. <<t, "me">> \in Call /\ <<t, "me">>[2] = "me"
    BY Pair DEF Kind
  <2>1. PICK c \in Call : c = <<t, "me">> /\ c[2] = "me"
    BY <2>0
  <2>2. PICK k, off : k = call[c].arg /\ off = call[c].off /\ off \in BOOLEAN
    BY DEF CookieInv, Shaped, Shape
  <2>3. PICK p : p = call[c].got
    OBVIOUS
  <2>4. /\ call[c].phase = "done" /\ cookie' = cookie
        /\ csrf' = [csrf EXCEPT ![t] = k] /\ turned' = [turned EXCEPT ![t] = off]
        /\ me' = [me EXCEPT ![t] = p]
    BY <1>5, <2>1, <2>2, <2>3 DEF MeArrives
  <2>5. ~off => k = cookie
    BY <1>1, <2>1, <2>2, <2>4 DEF AskedOK
  <2>7. /\ TabsFramed' /\ csrf'[t] = k /\ turned'[t] = off
        /\ \A u \in Tab : u # t => me'[u] = me[u] /\ csrf'[u] = csrf[u] /\ turned'[u] = turned[u]
    BY <1>1, <2>2, <2>4 DEF TabsFramed
  <2>6. ASSUME NEW u \in Tab, u # t, HasShell(u)' PROVE HasShell(u)
    BY <1>1, <2>6, <2>7, ShellKept DEF HasShell
  <2> QED BY <1>1, <2>4, <2>5, <2>6, <2>7 DEF MatchedOK
<1>6. ASSUME NEW t \in Tab, LogoutArrives(t) PROVE TabsFramed' /\ MatchedOK'
  <2>1. /\ csrf' = csrf /\ turned' = [u \in Tab |-> IF u = t THEN None = None ELSE TRUE]
        /\ me' = [me EXCEPT ![t] = None]
    BY <1>6 DEF LogoutArrives, SetCookie, ShellGoes
  <2>2. TabsFramed' /\ \A u \in Tab : turned'[u]
    BY <1>1, <2>1 DEF TabsFramed
  <2> QED BY <2>2 DEF MatchedOK
<1>7. ASSUME NEW c \in Call, EditArrives(c) PROVE TabsFramed' /\ MatchedOK'
  <2>1. PICK t \in Tab : t = c[1]
    BY DEF Call
  <2>2. /\ UNCHANGED <<csrf, turned, cookie>> /\ \E p : me' = [me EXCEPT ![t] = p]
        /\ c[2] \in Edits /\ call[c].phase = "done"
    BY <1>7, <2>1 DEF EditArrives
  <2>3. HasShell(t)
    BY <2>1, <2>2 DEF HasShell
  <2>4. TabsFramed' /\ \A u \in Tab : u # t => me'[u] = me[u]
    BY <1>1, <2>2 DEF TabsFramed
  <2>5. ASSUME NEW u \in Tab, HasShell(u)' PROVE HasShell(u)
    BY <1>1, <2>3, <2>4, <2>5, ShellKept DEF HasShell
  <2> QED BY <1>1, <2>2, <2>4, <2>5 DEF MatchedOK
<1>8. ASSUME NEW t \in Tab, MeFails(t) \/ LogoutFails(t) PROVE TabsFramed' /\ MatchedOK'
  BY <1>3, <1>8 DEF MeFails, LogoutFails, ShellGoes
<1> QED
  BY <1>2, <1>4, <1>5, <1>6, <1>7, <1>8, ZenonT(30)
     DEF Next, OpenTab, SubmitLogin, Logout, SaveFirstLogin, SaveFirstEntry, SaveEntry,
         SetupTOTP, EnableTOTP, LeaveSettings, Send, LoginFails, SetupArrives, SetupFails,
         Admit, Handle, Lose, EditFails, Expire, ResetRow, ResetSessions,
         SavedUnheard

LEMMA CookieStep == CookieInv /\ [Next]_vars => CookieInv'
BY StepFx, AskedStep, MatchedStep DEF CookieInv

(* A shell sends the csrf that belongs to the cookie the browser adds,     *)
(* whatever answers are lost or come late, unless another tab changed the  *)
(* cookie or the shell came back after a logout.                           *)
THEOREM CsrfCorrect == Spec => []CsrfIsTheCookies
<1>1. CookieInv => CsrfIsTheCookies
  BY DEF CookieInv, MatchedOK, HasShell, CsrfIsTheCookies
<1> QED BY <1>1, CookieInit, CookieStep, PTL DEF Spec

-----------------------------------------------------------------------------
(* Types.  What a request carries depends on its kind and on how far it is:*)
(* what is copied from its answer into the page, and from its arguments    *)
(* into the account, has the type of the place it goes to.                 *)

UnderWay(c) == call[c].phase \in {"sent", "admitted", "done"}
Typed(c) ==
    LET r == call[c] IN
    /\ r.phase \in Phase
    /\ UnderWay(c) => r.token \in Token \cup {None}
    /\ UnderWay(c) /\ c[2] \in Edits => r.me \in Profile /\ r.me # None
    /\ UnderWay(c) /\ c[2] = "change" => r.arg \in Who
    /\ UnderWay(c) /\ c[2] = "entry" => r.arg \in Entry
    /\ r.phase = "done" /\ c[2] = "setup" => r.arg \in Secret
    /\ r.phase = "done" /\ c[2] = "login" => r.arg \in Token
    /\ r.phase = "done" /\ c[2] = "me" => r.arg \in Token \cup {None}
    /\ r.phase = "admitted" => r.got \in Account
    /\ r.phase = "done" /\ c[2] \in {"login", "me"} => r.got \in Profile
TypedCalls == \A c \in Call : Typed(c)
Counted == reset = "between" => resets < MaxResets
TypeInv == Shaped /\ TypeOK /\ TypedCalls /\ Counted

LEMMA TypeInit == Init => TypeInv
<1> SUFFICES ASSUME Init PROVE TypeInv
  OBVIOUS
<1>1. Shaped
  BY ShapedInit
<1>2. TypeOK
  <2>1. account \in Account
    BY AccountAssumption DEF Init, Account
  <2>2. \A c \in Call : call[c].phase \in Phase
    BY DEF Init, Phase, Idle
  <2>3. born \in [Token -> 0 .. MaxChanges \cup {None}] /\ since \in 0 .. MaxChanges
    BY AccountAssumption DEF Init
  <2>4. saved \in Entry \cup {None} /\ missed \in BOOLEAN /\ adrift \subseteq Entry
    BY DEF Init
  <2> QED BY <2>1, <2>2, <2>3, <2>4, AccountAssumption DEF Init, TypeOK
<1>3. TypedCalls
  BY DEF Init, TypedCalls, Typed, UnderWay, Phase, Idle
<1>4. Counted
  BY DEF Init, Counted
<1> QED BY <1>1, <1>2, <1>3, <1>4 DEF TypeInv

(* A payload is a profile.                                                 *)
LEMMA PayloadType ==
    ASSUME TypeOK, NEW u \in Account
    PROVE  Payload(u) \in Profile
BY DEF TypeOK, Payload, Account, Profile

LEMMA TypedStep ==
    ASSUME TypeInv, [Next]_vars
    PROVE  TypedCalls'
<1>1. /\ \A c \in Call : Fate(c)
      /\ TypeOK /\ TypedCalls
  BY StepFx DEF TypeInv
<1>2. ASSUME NEW c \in Call PROVE Typed(c)'
  <2>0. Typed(c) /\ c[1] \in Tab
    BY <1>1 DEF TypedCalls, Call
  <2>1. CASE Kept(c)
    BY <2>0, <2>1 DEF Kept, Typed, UnderWay, Edits
  <2>2. CASE Ended(c)
    BY <2>2 DEF Ended, Typed, UnderWay, Phase
  <2>3. CASE Sent(c)
    BY <1>1, <2>0, <2>3 DEF Sent, Typed, UnderWay, Phase, TypeOK
  <2>4. CASE Admitted(c)
    BY <1>1, <2>0, <2>4 DEF Admitted, Typed, UnderWay, Phase, TypeOK
  <2>5. CASE Done(c)
    <3>1. call[c].got \in Account
      BY <2>0, <2>5 DEF Done, Typed
    <3>2. Payload(call[c].got) \in Profile
      BY <1>1, <3>1, PayloadType
    <3> QED BY <2>0, <2>5, <3>2 DEF Done, Made, Typed, UnderWay, Phase, Edits
  <2> QED BY <1>1, <2>1, <2>2, <2>3, <2>4, <2>5 DEF Fate
<1> QED BY <1>2 DEF TypedCalls

LEMMA HandleTypes ==
    ASSUME TypeInv, TypedCalls', NEW c \in Call, Handle(c)
    PROVE  TypeOK'
<1>1. /\ call[c].phase = "admitted" /\ UNCHANGED <<rest, cookie, page, seen, turned>>
      /\ astride' = astride \ {c} /\ late' \subseteq late \cup (live' \ live)
  BY DEF Handle
<1>2. call[c].got \in Account /\ (c[2] = "change" => call[c].arg \in Who)
      /\ (c[2] = "entry" => call[c].arg \in Entry)
  BY <1>1 DEF TypeInv, TypedCalls, Typed, UnderWay
<1>3. stale' \in [Tab -> BOOLEAN]
  <2>1. Outdate(c[1]) => stale' \in [Tab -> BOOLEAN]
    BY DEF TypeInv, TypeOK, Outdate
  <2>2. stale' = stale => stale' \in [Tab -> BOOLEAN]
    BY DEF TypeInv, TypeOK
  <2> QED BY <2>1, <2>2 DEF Handle, LoginHandled, SetupHandled, MeHandled, LogoutHandled,
             ChangeHandled, EntryHandled, EnableHandled, Refuse
<1>4. /\ account' \in Account /\ entry' \in Entry \cup {None} /\ pending' \in Secret \cup {None}
      /\ live' \subseteq Token /\ born' \in [Token -> 0 .. MaxChanges \cup {None}]
      /\ saved' \in Entry \cup {None} /\ missed' \in BOOLEAN /\ adrift' \subseteq Entry
  <2>0. /\ account \in Account /\ entry \in Entry \cup {None} /\ pending \in Secret \cup {None}
        /\ live \subseteq Token /\ born \in [Token -> 0 .. MaxChanges \cup {None}]
        /\ saved \in Entry \cup {None} /\ missed \in BOOLEAN /\ adrift \subseteq Entry
    BY DEF TypeInv, TypeOK
  <2>1. CASE \E k \in Token : LoginHandled(c, k)
    BY <1>2, <2>0, <2>1 DEF LoginHandled, Account
  <2>2. CASE \E x \in Secret : SetupHandled(c, x)
    BY <2>0, <2>2 DEF SetupHandled
  <2>3. CASE MeHandled(c) \/ LogoutHandled(c)
    BY <2>0, <2>3 DEF MeHandled, LogoutHandled
  <2>4. CASE ChangeHandled(c)
    <3>1. CASE account.word < MaxChanges
      <4>1. PICK n \in 0 .. MaxChanges : n = account.word + 1
        BY <2>0, <3>1, AccountAssumption DEF Account
      <4>2. account' = [account EXCEPT !.who = call[c].arg, !.must = FALSE, !.word = n]
        BY <2>4, <3>1, <4>1, Zenon DEF ChangeHandled
      <4>3. account' \in Account
        BY <1>2, <2>0, <2>4, <4>2 DEF ChangeHandled, Account
      <4> QED BY <2>0, <2>4, <3>1, <4>3 DEF ChangeHandled
    <3> QED BY <2>0, <2>4, <3>1 DEF ChangeHandled, Refuse
  <2>5. CASE EntryHandled(c)
    BY <1>2, <2>0, <2>5 DEF EntryHandled, Refuse
  <2>6. CASE EnableHandled(c)
    <3>1. account' = [account EXCEPT !.totp = pending] => account' \in Account
      BY <2>0 DEF Account
    <3> QED BY <2>0, <2>6, <3>1 DEF EnableHandled, Refuse
  <2> QED BY <2>1, <2>2, <2>3, <2>4, <2>5, <2>6 DEF Handle
<1>5. \A d \in Call : call'[d].phase \in Phase
  BY DEF TypedCalls, Typed
<1> QED BY <1>1, <1>3, <1>4, <1>5 DEF TypeInv, TypeOK

(* Requests start with a click, or with the tab.                           *)
LEMMA SendTypes ==
    ASSUME TypeOK, TypedCalls', UNCHANGED <<server, cookie, marks>>,
           Click \/ (tab' \in [Tab -> {"closed", "loading", "open"}] /\ UNCHANGED <<csrf, me, secret, rest>>)
    PROVE  TypeOK'
<1>1. \A d \in Call : call'[d].phase \in Phase
  BY DEF TypedCalls, Typed
<1> QED BY <1>1, AccountAssumption DEF TypeOK

(* Answers bring into a tab what its places hold.                          *)
LEMMA ArrivalTypes ==
    ASSUME TypeInv, TypedCalls', UNCHANGED <<server, rest, astride, late>>,
           cookie' \in Token \cup {None}, tab' \in [Tab -> {"closed", "loading", "open"}],
           csrf' \in [Tab -> Token \cup {None}], me' \in [Tab -> Profile \cup {None}],
           secret' \in [Tab -> Secret \cup {None}], seen' \subseteq Secret,
           stale' \in [Tab -> BOOLEAN], turned' \in [Tab -> BOOLEAN]
    PROVE  TypeOK'
<1>1. \A d \in Call : call'[d].phase \in Phase
  BY DEF TypedCalls, Typed
<1> QED BY <1>1 DEF TypeInv, TypeOK

LEMMA EditedType ==
    ASSUME NEW c \in Call, Typed(c), UnderWay(c), c[2] \in Edits
    PROVE  Edited(c, call[c].me) \in Profile
<1>1. PICK p \in Profile : p = call[c].me
  BY DEF Typed
<1>2. CASE c[2] = "change"
  <2>1. PICK a \in Who : a = call[c].arg
    BY <1>2 DEF Typed
  <2>2. [p EXCEPT !.who = a, !.must = FALSE] \in Profile
    BY DEF Profile
  <2> QED BY <1>1, <1>2, <2>1, <2>2 DEF Edited
<1>3. CASE c[2] = "entry"
  <2>1. PICK a \in Entry : a = call[c].arg
    BY <1>3 DEF Typed
  <2>2. [p EXCEPT !.entry = a] \in Profile
    BY DEF Profile
  <2> QED BY <1>1, <1>3, <2>1, <2>2 DEF Edited
<1>4. CASE c[2] = "enable"
  <2>1. [p EXCEPT !.totp = TRUE] \in Profile
    BY DEF Profile
  <2> QED BY <1>1, <1>4, <2>1 DEF Edited
<1> QED BY <1>2, <1>3, <1>4 DEF Edits

LEMMA TabTypes ==
    ASSUME TypeInv, TypedCalls', NEW t \in Tab,
           \/ LoginArrives(t) \/ LoginFails(t) \/ MeArrives(t) \/ MeFails(t)
           \/ LogoutArrives(t) \/ LogoutFails(t) \/ SetupArrives(t) \/ SetupFails(t)
           \/ LeaveSettings(t)
    PROVE  TypeOK'
<1>0. /\ cookie \in Token \cup {None} /\ tab \in [Tab -> {"closed", "loading", "open"}]
      /\ csrf \in [Tab -> Token \cup {None}] /\ me \in [Tab -> Profile \cup {None}]
      /\ secret \in [Tab -> Secret \cup {None}] /\ seen \subseteq Secret
      /\ stale \in [Tab -> BOOLEAN] /\ turned \in [Tab -> BOOLEAN]
  BY DEF TypeInv, TypeOK
<1>1. ASSUME NEW k \in Kind
      PROVE  Typed(<<t, k>>) /\ Shape(call[<<t, k>>]) /\ <<t, k>>[2] = k
  BY Pair DEF TypeInv, TypedCalls, Shaped
<1>2. {"login", "me", "logout", "setup"} \subseteq Kind
  BY DEF Kind
<1>3. ASSUME NEW k \in Token \cup {None}, SetCookie(t, k)
      PROVE  cookie' \in Token \cup {None} /\ turned' \in [Tab -> BOOLEAN]
  BY <1>3 DEF SetCookie
<1>4. CASE LoginArrives(t)
  <2>1. PICK k \in Token, p \in Profile, o \in BOOLEAN :
           /\ k = call[<<t, "login">>].arg /\ p = call[<<t, "login">>].got
           /\ o = call[<<t, "login">>].old
    <3>1. call[<<t, "login">>].phase = "done" /\ "login" \in Kind
      BY <1>2, <1>4 DEF LoginArrives
    <3>2. /\ call[<<t, "login">>].arg \in Token /\ call[<<t, "login">>].got \in Profile
          /\ call[<<t, "login">>].old \in BOOLEAN
      BY <1>1, <3>1 DEF Typed, Shape
    <3> QED BY <3>2
  <2>2. /\ SetCookie(t, k) /\ csrf' = [csrf EXCEPT ![t] = k] /\ me' = [me EXCEPT ![t] = p]
        /\ stale' = [stale EXCEPT ![t] = o] /\ UNCHANGED <<server, rest, tab, secret, seen, astride, late>>
    BY <1>4, <2>1, Zenon DEF LoginArrives
  <2>3. cookie' \in Token \cup {None} /\ turned' \in [Tab -> BOOLEAN]
    BY <1>3, <2>2
  <2>4. /\ csrf' \in [Tab -> Token \cup {None}] /\ me' \in [Tab -> Profile \cup {None}]
        /\ stale' \in [Tab -> BOOLEAN]
    BY <1>0, <2>2
  <2> QED BY <1>0, <2>2, <2>3, <2>4, ArrivalTypes
<1>5. CASE MeArrives(t)
  <2>1. PICK k \in Token \cup {None}, p \in Profile, o \in BOOLEAN, f \in BOOLEAN :
           /\ k = call[<<t, "me">>].arg /\ p = call[<<t, "me">>].got
           /\ o = call[<<t, "me">>].old /\ f = call[<<t, "me">>].off
    <3>1. call[<<t, "me">>].phase = "done" /\ "me" \in Kind
      BY <1>2, <1>5 DEF MeArrives
    <3>2. /\ call[<<t, "me">>].arg \in Token \cup {None} /\ call[<<t, "me">>].got \in Profile
          /\ call[<<t, "me">>].old \in BOOLEAN /\ call[<<t, "me">>].off \in BOOLEAN
      BY <1>1, <3>1 DEF Typed, Shape
    <3> QED BY <3>2
  <2>2. /\ tab' = [tab EXCEPT ![t] = "open"]
        /\ csrf' = [csrf EXCEPT ![t] = k] /\ me' = [me EXCEPT ![t] = p]
        /\ stale' = [stale EXCEPT ![t] = o] /\ turned' = [turned EXCEPT ![t] = f]
        /\ UNCHANGED <<server, rest, cookie, secret, seen, astride, late>>
    BY <1>5, <2>1, Zenon DEF MeArrives
  <2>3. /\ tab' \in [Tab -> {"closed", "loading", "open"}]
        /\ csrf' \in [Tab -> Token \cup {None}] /\ me' \in [Tab -> Profile \cup {None}]
        /\ stale' \in [Tab -> BOOLEAN] /\ turned' \in [Tab -> BOOLEAN]
    BY <1>0, <2>2
  <2> QED BY <1>0, <2>2, <2>3, ArrivalTypes
<1>6. CASE MeFails(t)
  <2>1. /\ tab' \in [Tab -> {"closed", "loading", "open"}] /\ me' \in [Tab -> Profile \cup {None}]
        /\ UNCHANGED <<server, rest, cookie, csrf, secret, marks>>
    BY <1>0, <1>6 DEF MeFails
  <2> QED BY <1>0, <2>1, ArrivalTypes
<1>7. CASE LogoutArrives(t)
  <2>1. SetCookie(t, None) /\ ShellGoes(t)
    BY <1>7 DEF LogoutArrives
  <2>2. cookie' \in Token \cup {None} /\ turned' \in [Tab -> BOOLEAN]
    BY <1>3, <2>1
  <2>3. /\ me' \in [Tab -> Profile \cup {None}] /\ secret' \in [Tab -> Secret \cup {None}]
        /\ UNCHANGED <<server, rest, tab, csrf, seen, astride, late, stale>>
    BY <1>0, <2>1 DEF ShellGoes
  <2> QED BY <1>0, <2>2, <2>3, ArrivalTypes
<1>8. CASE LogoutFails(t)
  <2>1. /\ me' \in [Tab -> Profile \cup {None}] /\ secret' \in [Tab -> Secret \cup {None}]
        /\ UNCHANGED <<server, rest, tab, csrf, seen, astride, late, stale, cookie, turned>>
    BY <1>0, <1>8 DEF LogoutFails, ShellGoes
  <2> QED BY <1>0, <2>1, ArrivalTypes
<1>9. CASE SetupArrives(t)
  <2>1. PICK x \in Secret : x = call[<<t, "setup">>].arg
    <3>1. call[<<t, "setup">>].phase = "done" /\ "setup" \in Kind
      BY <1>2, <1>9 DEF SetupArrives
    <3> QED BY <1>1, <3>1 DEF Typed
  <2>2. /\ UNCHANGED <<server, rest, cookie, tab, csrf, me, astride, late, stale, turned>>
        /\ UNCHANGED <<secret, seen>> \/ (secret' = [secret EXCEPT ![t] = x] /\ seen' = seen \cup {x})
    BY <1>9, <2>1, Zenon DEF SetupArrives
  <2>3. secret' \in [Tab -> Secret \cup {None}] /\ seen' \subseteq Secret
    BY <1>0, <2>2
  <2> QED BY <1>0, <2>2, <2>3, ArrivalTypes
<1>10. CASE LeaveSettings(t)
  <2>1. /\ secret' \in [Tab -> Secret \cup {None}]
        /\ UNCHANGED <<server, rest, cookie, tab, csrf, me, marks>>
    BY <1>0, <1>10 DEF LeaveSettings
  <2> QED BY <1>0, <2>1, ArrivalTypes
<1>11. CASE LoginFails(t) \/ SetupFails(t)
  <2>1. UNCHANGED <<server, rest, cookie, page, marks>>
    BY <1>11 DEF LoginFails, SetupFails
  <2> QED BY <1>0, <2>1, ArrivalTypes
<1> QED BY <1>4, <1>5, <1>6, <1>7, <1>8, <1>9, <1>10, <1>11

LEMMA EditTypes ==
    ASSUME TypeInv, TypedCalls', NEW c \in Call, EditArrives(c) \/ EditFails(c)
    PROVE  TypeOK'
<1>0. /\ cookie \in Token \cup {None} /\ tab \in [Tab -> {"closed", "loading", "open"}]
      /\ csrf \in [Tab -> Token \cup {None}] /\ me \in [Tab -> Profile \cup {None}]
      /\ secret \in [Tab -> Secret \cup {None}] /\ seen \subseteq Secret
      /\ stale \in [Tab -> BOOLEAN] /\ turned \in [Tab -> BOOLEAN]
  BY DEF TypeInv, TypeOK
<1>1. Typed(c) /\ Shape(call[c])
  BY DEF TypeInv, TypedCalls, Shaped
<1>2. PICK t \in Tab : t = c[1]
  BY DEF Call
<1>3. CASE EditArrives(c)
  <2>1. PICK p \in Profile : p = Edited(c, call[c].me)
    <3>1. UnderWay(c) /\ c[2] \in Edits
      BY <1>3 DEF EditArrives, UnderWay
    <3> QED BY <1>1, <3>1, EditedType
  <2>2. PICK o \in BOOLEAN : o = (stale[t] \/ me[c[1]] # call[c].me \/ call[c].old)
    OBVIOUS
  <2>3. /\ me' = [me EXCEPT ![t] = p] /\ stale' = [stale EXCEPT ![t] = o]
        /\ secret' = secret \/ secret' = [secret EXCEPT ![t] = None]
        /\ UNCHANGED <<server, rest, cookie, tab, csrf, seen, astride, late, turned>>
    BY <1>2, <1>3, <2>1, <2>2, Zenon DEF EditArrives
  <2>4. /\ me' \in [Tab -> Profile \cup {None}] /\ stale' \in [Tab -> BOOLEAN]
        /\ secret' \in [Tab -> Secret \cup {None}]
    BY <1>0, <2>3
  <2> QED BY <1>0, <2>3, <2>4, ArrivalTypes
<1>4. CASE EditFails(c)
  <2>1. PICK o \in BOOLEAN : o = (stale[t] \/ call[c].off)
    OBVIOUS
  <2>2. /\ stale' = [stale EXCEPT ![t] = o]
        /\ UNCHANGED <<server, rest, cookie, page, seen, astride, late, turned>>
    BY <1>2, <1>4, <2>1, Zenon DEF EditFails
  <2>3. stale' \in [Tab -> BOOLEAN]
    BY <1>0, <2>2
  <2> QED BY <1>0, <2>2, <2>3, ArrivalTypes
<1> QED BY <1>3, <1>4

LEMMA TypeStep == TypeInv /\ [Next]_vars => TypeInv'
<1> SUFFICES ASSUME TypeInv, [Next]_vars PROVE TypeInv'
  OBVIOUS
<1>1. Shaped' /\ TypedCalls' /\ TypeOK /\ Counted
  BY StepFx, TypedStep DEF TypeInv
<1>2. \A d \in Call : call'[d].phase \in Phase
  BY <1>1 DEF TypedCalls, Typed
<1>3. ASSUME NEW t \in Tab, OpenTab(t) PROVE TypeOK'
  <2>1. tab' \in [Tab -> {"closed", "loading", "open"}]
    BY <1>1, <1>3 DEF OpenTab, TypeOK
  <2> QED BY <1>1, <1>3, <2>1, SendTypes DEF OpenTab, Send
<1>4. ASSUME NEW t \in Tab,
             \/ SubmitLogin(t) \/ Logout(t) \/ SetupTOTP(t) \/ EnableTOTP(t)
             \/ \E who \in Who : SaveFirstLogin(t, who)
             \/ \E e \in Entry : SaveFirstEntry(t, e) \/ SaveEntry(t, e)
      PROVE  TypeOK'
  <2>1. Click /\ UNCHANGED <<server, cookie, marks>>
    BY <1>4 DEF SubmitLogin, Logout, SaveFirstLogin, SaveFirstEntry, SaveEntry, SetupTOTP,
       EnableTOTP, Send
  <2> QED BY <1>1, <2>1, SendTypes
<1>5. ASSUME NEW c \in Call, Admit(c) \/ Lose(c) PROVE TypeOK'
  <2>1. UNCHANGED <<server, rest, cookie, page, marks>>
    BY <1>5 DEF Admit, Lose
  <2> QED BY <1>1, <1>2, <2>1 DEF TypeOK
<1>6. ASSUME NEW k \in Token, Expire(k) PROVE TypeOK'
  BY <1>1, <1>2, <1>6 DEF TypeOK, Expire
<1>14. ASSUME NEW e \in Entry, SavedUnheard(e) PROVE TypeOK'
  BY <1>1, <1>2, <1>14 DEF TypeOK, SavedUnheard
<1>7. ASSUME ResetRow PROVE TypeOK'
  <2>1. PICK n \in 0 .. MaxChanges : n = account.word + 1
    BY <1>1, <1>7, AccountAssumption DEF ResetRow, TypeOK, Account
  <2>2. account' = [who |-> Admin, must |-> TRUE, totp |-> None, word |-> n] /\ since' = n
    BY <1>7, <2>1 DEF ResetRow
  <2>3. account' \in Account
    BY <2>2, AccountAssumption DEF Account
  <2>4. /\ reset' = "between" /\ stale' = [t \in Tab |-> TRUE]
        /\ UNCHANGED <<settings, pending, live, born, clicks, resets, cookie, page, seen, astride,
                      late, turned>>
    BY <1>7 DEF ResetRow
  <2> QED BY <1>1, <1>2, <2>2, <2>3, <2>4 DEF TypeOK
<1>8. ASSUME ResetSessions PROVE TypeOK'
  <2>1. resets' \in 0 .. MaxResets
    BY <1>1, <1>8, AccountAssumption DEF TypeOK, Counted, ResetSessions
  <2> QED BY <1>1, <1>2, <1>8, <2>1 DEF TypeOK, ResetSessions
<1>9. ASSUME UNCHANGED vars PROVE TypeOK'
  BY <1>1, <1>2, <1>9 DEF TypeOK
<1>10. ASSUME NEW c \in Call, Handle(c) \/ EditArrives(c) \/ EditFails(c) PROVE TypeOK'
  BY <1>1, <1>10, HandleTypes, EditTypes
<1>11. ASSUME NEW t \in Tab,
              \/ LoginArrives(t) \/ LoginFails(t) \/ MeArrives(t) \/ MeFails(t)
              \/ LogoutArrives(t) \/ LogoutFails(t) \/ SetupArrives(t) \/ SetupFails(t)
              \/ LeaveSettings(t)
       PROVE  TypeOK'
  BY <1>1, <1>11, TabTypes
<1>12. TypeOK'
  BY <1>3, <1>4, <1>5, <1>6, <1>7, <1>8, <1>9, <1>10, <1>11, <1>14 DEF Next
<1>13. Counted'
  <2>1. ResetRow => Counted'
    BY DEF ResetRow, Counted
  <2>2. ResetSessions => Counted'
    BY DEF ResetSessions, Counted
  <2>3. UNCHANGED <<reset, resets>> => Counted'
    BY <1>1 DEF Counted
  <2>4. ASSUME NEW t \in Tab,
               \/ OpenTab(t) \/ SubmitLogin(t) \/ Logout(t) \/ SetupTOTP(t) \/ EnableTOTP(t)
               \/ \E who \in Who : SaveFirstLogin(t, who)
               \/ \E e \in Entry : SaveFirstEntry(t, e) \/ SaveEntry(t, e)
        PROVE  UNCHANGED <<reset, resets>>
    BY <2>4 DEF OpenTab, SubmitLogin, Logout, SaveFirstLogin, SaveFirstEntry, SaveEntry,
       SetupTOTP, EnableTOTP
  <2>5. ASSUME NEW t \in Tab,
               \/ LoginArrives(t) \/ LoginFails(t) \/ MeArrives(t) \/ MeFails(t)
               \/ LogoutArrives(t) \/ LogoutFails(t) \/ SetupArrives(t) \/ SetupFails(t)
               \/ LeaveSettings(t)
        PROVE  UNCHANGED <<reset, resets>>
    BY <2>5 DEF LoginArrives, LoginFails, MeArrives, MeFails, LogoutArrives, LogoutFails,
       ShellGoes, SetupArrives, SetupFails, LeaveSettings
  <2>6. ASSUME NEW c \in Call,
               Admit(c) \/ Handle(c) \/ Lose(c) \/ EditArrives(c) \/ EditFails(c)
        PROVE  UNCHANGED <<reset, resets>>
    BY <2>6 DEF Admit, Handle, Lose, EditArrives, EditFails
  <2>7. ASSUME \/ \E e \in Entry : SavedUnheard(e)
               \/ \E k \in Token : Expire(k)
        PROVE  UNCHANGED <<reset, resets>>
    BY <2>7 DEF SavedUnheard, Expire
  <2> QED BY <2>1, <2>2, <2>3, <2>4, <2>5, <2>6, <2>7 DEF Next
<1> QED BY <1>1, <1>12, <1>13 DEF TypeInv

(* The account, the settings, the sessions, the page and the requests have *)
(* their types: what a handler reads early and writes late, and what a     *)
(* dialog patches into a profile it captured, is of the right kind.        *)
THEOREM TypeCorrect == Spec => []TypeOK
BY TypeInit, TypeStep, PTL DEF Spec, TypeInv

-----------------------------------------------------------------------------
(* Profiles.  A profile under way in the answer to a question or a login   *)
(* is the account's, unless it is marked old.  An edit that was made and   *)
(* whose answer is under way is still what the server has, unless it is    *)
(* marked old.  A tab's profile is the account's but for the fields of     *)
(* such edits, unless one of them is Unsure: it is old, or its answer was  *)
(* lost.                                                                   *)

TakenOK ==
    \A c \in Call : c[2] \in {"login", "me"} /\ ~call[c].old =>
       /\ call[c].phase = "admitted" => call[c].got = account
       /\ call[c].phase = "done" => call[c].got = Payload(account)
MadeOK ==
    /\ \A c \in Call : call[c].phase = "done" /\ ~call[c].old =>
          /\ c[2] = "change" => account.who = call[c].arg /\ ~account.must
          /\ c[2] = "entry" => entry = call[c].arg
          /\ c[2] = "enable" => account.totp # None
    /\ \A c \in Call : c[2] = "enable" /\ call[c].phase \in {"sent", "admitted"} =>
          call[c].arg # None
Unsure(c) ==
    \/ call[c].phase = "done" /\ call[c].old
    \/ call[c].phase = "failed" /\ call[c].off
Fresh(t) ==
    /\ call[<<t, "change">>].phase # "done" =>
          me[t].who = account.who /\ me[t].must = account.must
    /\ call[<<t, "entry">>].phase # "done" => me[t].entry = entry
    /\ call[<<t, "enable">>].phase # "done" => me[t].totp = (account.totp # None)
Sure(t) == me[t] # None /\ ~stale[t] /\ \A c \in Call : c[1] = t /\ c[2] \in Edits => ~Unsure(c)
FreshOK == \A t \in Tab : Sure(t) => Fresh(t)
ProfileInv == TypeInv /\ TakenOK /\ MadeOK /\ FreshOK

LEMMA ProfileInit == Init => ProfileInv
<1> SUFFICES ASSUME Init PROVE ProfileInv
  OBVIOUS
<1>1. TypeInv
  BY TypeInit
<1>2. \A c \in Call : call[c].phase = "idle"
  BY DEF Init, Idle
<1>3. TakenOK /\ MadeOK
  BY <1>2 DEF TakenOK, MadeOK
<1>4. FreshOK
  BY DEF Init, FreshOK, Sure
<1> QED BY <1>1, <1>3, <1>4 DEF ProfileInv

(* Nothing but an edit and a reset changes the account or the settings,    *)
(* and both mark every answer under way that they outdate.                 *)
Steady == UNCHANGED <<account, entry, me, stale>>
Arrived(t, k) ==
    /\ call[<<t, k>>].phase = "done" /\ k \in {"login", "me"}
    /\ me' = [me EXCEPT ![t] = call[<<t, k>>].got]
    /\ stale' = [stale EXCEPT ![t] = call[<<t, k>>].old] /\ UNCHANGED <<account, entry>>
Left(t) == me' = [me EXCEPT ![t] = None] /\ UNCHANGED <<account, entry, stale>>
EditOver(c) == EditArrives(c) \/ EditFails(c)

LEMMA StepIs ==
    ASSUME Shaped, [Next]_vars
    PROVE  \/ Steady \/ ResetRow
           \/ \E c \in Call : Made(c) \/ EditOver(c)
           \/ \E t \in Tab : Left(t) \/ \E k \in {"login", "me"} : Arrived(t, k)
<1>1. ASSUME NEW c \in Call, Handle(c) PROVE Steady \/ Made(c)
  <2>1. Shaped' /\ Fate(c)
    BY <1>1, StepFx DEF Next
  <2>2. CASE Answered(c) /\ c[2] \in Edits
    <3>1. call'[c].phase = "done" /\ call[c].phase = "admitted"
      BY <1>1, <2>2, AnswerIs, EditIs DEF Answered
    <3> QED BY <2>1, <2>2, <3>1 DEF Fate, Kept, Ended, Sent, Admitted, Done
  <2>3. CASE Denied(c) \/ c[2] \notin Edits
    <3>1. me' = me
      BY <1>1, EditIs
    <3>2. UNCHANGED <<account, entry, stale>>
      BY <1>1, <2>3, EditIs DEF Denied
    <3> QED BY <3>1, <3>2 DEF Steady
  <2> QED BY <1>1, <2>2, <2>3, HandlerIs
<1>2. ASSUME NEW t \in Tab, LoginArrives(t) PROVE Arrived(t, "login")
  BY <1>2 DEF LoginArrives, Arrived
<1>3. ASSUME NEW t \in Tab, MeArrives(t) PROVE Arrived(t, "me")
  BY <1>3 DEF MeArrives, Arrived
<1>4. ASSUME NEW t \in Tab, MeFails(t) \/ LogoutArrives(t) \/ LogoutFails(t) PROVE Left(t)
  BY <1>4 DEF MeFails, LogoutArrives, LogoutFails, ShellGoes, Left
<1>5. ASSUME NEW t \in Tab,
             \/ OpenTab(t) \/ SubmitLogin(t) \/ Logout(t) \/ SetupTOTP(t) \/ EnableTOTP(t)
             \/ \E who \in Who : SaveFirstLogin(t, who)
             \/ \E e \in Entry : SaveFirstEntry(t, e) \/ SaveEntry(t, e)
             \/ LeaveSettings(t) \/ LoginFails(t) \/ SetupArrives(t) \/ SetupFails(t)
      PROVE  Steady
  BY <1>5 DEF Steady, OpenTab, SubmitLogin, Logout, SaveFirstLogin, SaveFirstEntry, SaveEntry,
     SetupTOTP, EnableTOTP, LeaveSettings, Send, LoginFails, SetupArrives, SetupFails
<1>6. ASSUME NEW c \in Call, Admit(c) \/ Lose(c) PROVE Steady
  BY <1>6 DEF Steady, Admit, Lose
<1>7. ASSUME NEW k \in Token, Expire(k) PROVE Steady
  BY <1>7 DEF Steady, Expire
<1>8. ResetSessions \/ UNCHANGED vars \/ (\E e \in Entry : SavedUnheard(e)) => Steady
  BY DEF Steady, ResetSessions, SavedUnheard
<1> QED
  BY <1>1, <1>2, <1>3, <1>4, <1>5, <1>6, <1>7, <1>8 DEF EditOver, Next

(* What was told of the account is told of it still, or marked.            *)
LEMMA Outdated ==
    ASSUME Shaped, [Next]_vars
    PROVE  \/ UNCHANGED <<account, entry>>
           \/ \A d \in Call : Open(d) => call'[d].old
           \/ \E c \in Call : Made(c)
<1>1. ResetRow => \A d \in Call : Open(d) => call'[d].old
  BY ZenonT(30) DEF ResetRow, Shaped, Shape, Fields
<1> QED BY <1>1, StepIs DEF Steady, Left, Arrived, EditOver, EditArrives, EditFails

LEMMA TakenStep ==
    ASSUME ProfileInv, [Next]_vars
    PROVE  TakenOK'
<1>1. /\ \A c \in Call : Fate(c)
      /\ TakenOK /\ Shaped /\ Shaped'
  BY StepFx DEF ProfileInv, TypeInv
<1>2. ASSUME NEW c \in Call, c[2] \in {"login", "me"}, ~call'[c].old,
             call'[c].phase \in {"admitted", "done"}
      PROVE  /\ call'[c].phase = "admitted" => call'[c].got = account'
             /\ call'[c].phase = "done" => call'[c].got = Payload(account)'
  <2>1. Open(c) /\ (Kept(c) \/ Admitted(c) \/ Done(c))
    BY <1>1, <1>2 DEF Fate, Kept, Ended, Sent, Admitted, Done
  <2>2. ~call[c].old \/ Admitted(c)
    BY <1>2, <2>1 DEF Kept, Done
  <2>3. UNCHANGED <<account, entry>>
    <3>1. ASSUME NEW d \in Call, Made(d) PROVE call'[c].old
      BY <1>2, <2>1, <3>1 DEF Made, Edits
    <3> QED BY <1>1, <1>2, <2>1, <3>1, Outdated
  <2>4. Payload(account)' = Payload(account)
    BY <2>3 DEF Payload
  <2>5. CASE Admitted(c)
    BY <2>3, <2>5 DEF Admitted
  <2>6. CASE Kept(c) /\ ~call[c].old
    BY <1>1, <1>2, <2>3, <2>4, <2>6 DEF Kept, TakenOK
  <2>7. CASE Done(c) /\ ~call[c].old
    <3>1. call[c].got = account
      BY <1>1, <1>2, <2>7 DEF Done, TakenOK
    <3>2. call'[c].phase = "done" /\ call'[c].got = Payload(call[c].got)
      BY <1>2, <2>7 DEF Done
    <3> QED BY <2>4, <3>1, <3>2
  <2> QED BY <2>1, <2>2, <2>5, <2>6, <2>7
<1> QED BY <1>2 DEF TakenOK

(* An edit leaves the fields of the other edits alone.                     *)
LEMMA MadeFields ==
    ASSUME TypeOK, NEW c \in Call, Made(c)
    PROVE  /\ c[2] # "change" => account'.who = account.who /\ account'.must = account.must
           /\ c[2] # "entry" => entry' = entry
           /\ c[2] # "enable" => account'.totp = account.totp
           /\ c[2] = "change" => /\ account'.who = call[c].arg /\ ~account'.must
                                 /\ call'[c].arg = call[c].arg
           /\ c[2] = "entry" => entry' = call[c].arg /\ call'[c].arg = call[c].arg
           /\ c[2] = "enable" => account'.totp = call[c].arg
<1>1. PICK n : n = account.word + 1
  OBVIOUS
<1>2. account \in Account
  BY DEF TypeOK
<1>3. CASE c[2] = "change"
  <2>1. /\ entry' = entry /\ call'[c].arg = call[c].arg
        /\ account' = [account EXCEPT !.who = call[c].arg, !.must = FALSE, !.word = n]
    BY <1>1, <1>3, Zenon DEF Made
  <2> QED BY <1>2, <1>3, <2>1 DEF Account
<1>4. CASE c[2] = "entry"
  BY <1>4 DEF Made
<1>5. CASE c[2] = "enable"
  <2>1. entry' = entry /\ call[c].arg = pending /\ account' = [account EXCEPT !.totp = pending]
    BY <1>5 DEF Made
  <2> QED BY <1>2, <1>5, <2>1 DEF Account
<1> QED BY <1>3, <1>4, <1>5 DEF Made, Edits

LEMMA MadeStep ==
    ASSUME ProfileInv, [Next]_vars
    PROVE  MadeOK'
<1>1. /\ \A c \in Call : Fate(c)
      /\ MadeOK /\ Shaped /\ Shaped' /\ TypeOK
  BY StepFx DEF ProfileInv, TypeInv
<1>2. ASSUME NEW c \in Call, call'[c].phase = "done", ~call'[c].old, c[2] \in Edits
      PROVE  /\ c[2] = "change" => account'.who = call'[c].arg /\ ~account'.must
             /\ c[2] = "entry" => entry' = call'[c].arg
             /\ c[2] = "enable" => account'.totp # None
  <2>1. CASE Done(c)
    <3>1. Made(c) /\ (c[2] = "enable" => call[c].arg # None)
      BY <1>1, <1>2, <2>1 DEF Done, MadeOK
    <3> QED BY <1>1, <3>1, MadeFields
  <2>2. CASE Kept(c)
    <3>1. Open(c) /\ call[c].phase = "done" /\ ~call[c].old /\ call'[c].arg = call[c].arg
      BY <1>2, <2>2 DEF Kept
    <3>2. /\ c[2] = "change" => account.who = call[c].arg /\ ~account.must
          /\ c[2] = "entry" => entry = call[c].arg
          /\ c[2] = "enable" => account.totp # None
      BY <1>1, <3>1 DEF MadeOK
    <3>3. ASSUME NEW d \in Call, Made(d) PROVE d[2] # c[2]
      <4>1. d[1] = c[1] /\ d # c
        BY <1>2, <3>1, <3>3 DEF Made
      <4> QED BY <4>1 DEF Call
    <3>4. CASE \E d \in Call : Made(d)
      <4>1. PICK d \in Call : Made(d) /\ d[2] # c[2]
        BY <3>3, <3>4
      <4> QED BY <1>1, <3>1, <3>2, <4>1, MadeFields
    <3>5. CASE UNCHANGED <<account, entry>>
      BY <3>1, <3>2, <3>5
    <3> QED BY <1>1, <1>2, <3>1, <3>4, <3>5, Outdated
  <2> QED BY <1>1, <1>2, <2>1, <2>2 DEF Fate, Ended, Sent, Admitted
<1>3. ASSUME NEW c \in Call, c[2] = "enable", call'[c].phase \in {"sent", "admitted"}
      PROVE  call'[c].arg # None
  BY <1>1, <1>3 DEF Fate, Kept, Ended, Sent, Admitted, Done, MadeOK
<1> QED BY <1>2, <1>3 DEF MadeOK, Edits

(* Of a tab's edits, one that is unsure stays so until it is over, and one *)
(* that was made stays made, or becomes unsure.                            *)
LEMMA UnsureKept ==
    ASSUME Shaped, NEW c \in Call, Fate(c), c[2] \in Edits, ~EditOver(c)
    PROVE  /\ Unsure(c) => Unsure(c)'
           /\ call[c].phase = "done" => call'[c].phase = "done" \/ Unsure(c)'
BY DEF Fate, Kept, Ended, Sent, Admitted, Done, Unsure, EditOver

(* A tab that the step leaves alone.                                       *)
LEMMA FreshKept ==
    ASSUME ProfileInv, \A c \in Call : Fate(c), NEW t \in Tab,
           me'[t] = me[t], stale'[t] <=> stale[t], UNCHANGED <<account, entry>>,
           \A c \in Call : c[1] = t => ~EditOver(c),
           Sure(t)'
    PROVE  Fresh(t)'
<1>1. Shaped /\ FreshOK
  BY DEF ProfileInv, TypeInv
<1>2. ASSUME NEW k \in Edits PROVE <<t, k>> \in Call /\ <<t, k>>[1] = t /\ <<t, k>>[2] = k
  <2>1. k \in Kind
    BY DEF Kind, Edits
  <2> QED BY <2>1, Pair
<1>3. ASSUME NEW c \in Call, c[1] = t, c[2] \in Edits
      PROVE  ~Unsure(c) /\ (call'[c].phase # "done" => call[c].phase # "done")
  BY <1>1, <1>3, UnsureKept DEF Sure
<1>4. Sure(t)
  BY <1>3 DEF Sure
<1>5. Fresh(t)
  BY <1>1, <1>4 DEF FreshOK
<1>6. \A k \in Edits : call'[<<t, k>>].phase # "done" => call[<<t, k>>].phase # "done"
  BY <1>2, <1>3
<1> QED BY <1>5, <1>6 DEF Fresh, Edits

(* The profile of an answer.                                               *)
LEMMA FreshArrives ==
    ASSUME ProfileInv, NEW t \in Tab, NEW k \in {"login", "me"}, Arrived(t, k), Sure(t)'
    PROVE  Fresh(t)'
<1>1. k \in Kind
  BY DEF Kind
<1>2. PICK c \in Call : c = <<t, k>> /\ c[2] = k
  <2>1. <<t, k>> \in Call /\ <<t, k>>[2] = k
    BY <1>1, Pair
  <2> QED BY <2>1
<1>3. PICK r : r = call[c] /\ r.old \in BOOLEAN
  BY DEF ProfileInv, TypeInv, Shaped, Shape
<1>4. /\ me' = [me EXCEPT ![t] = r.got] /\ stale' = [stale EXCEPT ![t] = r.old]
      /\ r.phase = "done" /\ UNCHANGED <<account, entry>>
  BY <1>2, <1>3 DEF Arrived
<1>5. me'[t] = r.got /\ stale'[t] = r.old
  BY <1>4 DEF ProfileInv, TypeInv, TypeOK
<1>6. ~r.old
  BY <1>5 DEF Sure
<1>7. r.got = Payload(account)
  BY <1>2, <1>3, <1>4, <1>6 DEF ProfileInv, TakenOK
<1> QED BY <1>4, <1>5, <1>7 DEF Fresh, Payload

(* An edit of the tab itself.                                              *)
LEMMA FreshMade ==
    ASSUME ProfileInv, [Next]_vars, NEW c \in Call, Made(c), Sure(c[1])'
    PROVE  Fresh(c[1])'
<1>1. /\ \A d \in Call : Fate(d)
      /\ Shaped /\ TypeOK /\ FreshOK
  BY StepFx DEF ProfileInv, TypeInv
<1>2. PICK t \in Tab, k \in Edits : t = c[1] /\ k = c[2] /\ c = <<t, k>>
  BY DEF Made, Call
<1>3. me' = me /\ (stale'[t] <=> stale[t]) /\ call'[c].phase = "done"
  BY <1>2 DEF Made
<1>4. ASSUME NEW d \in Call, d[1] = t, d[2] \in Edits
      PROVE  ~Unsure(d) /\ (d # c => call'[d].phase = call[d].phase)
  <2>1. ~EditOver(d) \/ d = c
    BY <1>1, <1>4 DEF Made, EditOver, EditArrives, EditFails, Over, Shaped, Shape, Fields, Idle
  <2>2. CASE d = c
    BY <2>2 DEF Made, Unsure
  <2> QED BY <1>1, <1>2, <1>4, <2>1, <2>2, UnsureKept DEF Sure, Made
<1>5. Fresh(t)
  BY <1>1, <1>2, <1>3, <1>4 DEF FreshOK, Sure
<1>6. ASSUME NEW j \in Edits, j # k PROVE call'[<<t, j>>].phase = call[<<t, j>>].phase
  <2>1. j \in Kind
    BY DEF Kind, Edits
  <2> QED BY <1>2, <1>4, <1>6, <2>1, Pair
<1>7. call'[<<t, k>>].phase = "done"
  BY <1>2, <1>3
<1> QED BY <1>1, <1>2, <1>3, <1>5, <1>6, <1>7, MadeFields DEF Fresh, Edits

(* The answer to an edit patches the profile that the form was sent with.  *)
LEMMA FreshEdited ==
    ASSUME ProfileInv, [Next]_vars, NEW c \in Call, EditOver(c), Sure(c[1])'
    PROVE  Fresh(c[1])'
<1>1. /\ \A d \in Call : Fate(d)
      /\ Shaped /\ TypeOK /\ FreshOK /\ TypedCalls /\ MadeOK
  BY StepFx DEF ProfileInv, TypeInv
<1>2. PICK t \in Tab, k \in Edits : t = c[1] /\ k = c[2] /\ c = <<t, k>>
  BY DEF EditOver, EditArrives, EditFails, Call
<1>3. /\ Over(c) /\ UNCHANGED <<account, entry>>
      /\ \A d \in Call : d # c => call'[d] = call[d]
      /\ call'[c] = Idle
  BY <1>1 DEF EditOver, EditArrives, EditFails, Shaped
<1>4. ASSUME NEW d \in Call, d # c, d[1] = t, d[2] \in Edits
      PROVE  ~Unsure(d)
  BY <1>2, <1>3, <1>4 DEF Sure, Unsure
<1>5. ASSUME NEW j \in Edits, j # k PROVE call'[<<t, j>>].phase = call[<<t, j>>].phase
  <2>1. j \in Kind
    BY DEF Kind, Edits
  <2> QED BY <1>2, <1>3, <1>5, <2>1, Pair
<1>6. CASE EditArrives(c)
  <2>1. PICK o \in BOOLEAN : o = (stale[t] \/ me[t] # call[c].me \/ call[c].old)
    OBVIOUS
  <2>2. PICK p \in Profile : p = Edited(c, call[c].me)
    BY <1>1, <1>2, <1>6, EditedType DEF TypedCalls, EditArrives, UnderWay
  <2>3. /\ me' = [me EXCEPT ![t] = p] /\ stale' = [stale EXCEPT ![t] = o]
        /\ call[c].phase = "done"
    BY <1>2, <1>6, <2>1, <2>2, Zenon DEF EditArrives
  <2>4. me'[t] = p /\ stale'[t] = o
    BY <1>1, <2>3 DEF TypeOK
  <2>5. ~stale[t] /\ me[t] = call[c].me /\ ~call[c].old
    BY <1>2, <2>1, <2>4 DEF Sure
  <2>6. ~Unsure(c)
    BY <2>3, <2>5 DEF Unsure
  <2>7. me[t] \in Profile /\ me[t] # None
    BY <1>1, <1>2, <2>3, <2>5 DEF TypedCalls, Typed, UnderWay
  <2>9. Fresh(t)
    BY <1>1, <1>2, <1>4, <2>5, <2>6, <2>7 DEF FreshOK, Sure
  <2>10. /\ c[2] = "change" => account.who = call[c].arg /\ ~account.must
         /\ c[2] = "entry" => entry = call[c].arg
         /\ c[2] = "enable" => account.totp # None
    BY <1>1, <2>3, <2>5 DEF MadeOK
  <2>11. PICK m, a : m \in Profile /\ m = me[t] /\ a = call[c].arg /\ p = Edited(c, m)
    BY <2>2, <2>5, <2>7
  <2>12. /\ k = "change" => p.who = a /\ p.must = FALSE /\ p.entry = m.entry /\ p.totp = m.totp
         /\ k = "entry" => p.entry = a /\ p.who = m.who /\ p.must = m.must /\ p.totp = m.totp
         /\ k = "enable" => p.totp = TRUE /\ p.who = m.who /\ p.must = m.must /\ p.entry = m.entry
    <3>1. k = "change" => p = [m EXCEPT !.who = a, !.must = FALSE]
      BY <1>2, <2>11 DEF Edited
    <3>2. k = "entry" => p = [m EXCEPT !.entry = a]
      BY <1>2, <2>11 DEF Edited
    <3>3. k = "enable" => p = [m EXCEPT !.totp = TRUE]
      BY <1>2, <2>11 DEF Edited
    <3> QED BY <3>1, <3>2, <3>3 DEF Profile
  <2>13. account.must \in BOOLEAN
    BY <1>1 DEF TypeOK, Account
  <2>14. \A j \in Edits : j # k => call'[<<t, j>>].phase = call[<<t, j>>].phase
    BY <1>5
  <2>15. UNCHANGED <<account, entry>>
    BY <1>3
  <2>16. CASE k = "change"
    <3>1. Fresh(t) /\ p.who = a /\ p.must = FALSE /\ p.entry = m.entry /\ p.totp = m.totp
      BY <2>9, <2>12, <2>16
    <3>2. account.who = a /\ ~account.must
      BY <1>2, <2>10, <2>11, <2>16
    <3> QED BY <1>2, <2>4, <2>11, <2>13, <2>14, <2>15, <2>16, <3>1, <3>2 DEF Fresh, Edits
  <2>17. CASE k = "entry"
    <3>1. Fresh(t) /\ p.entry = entry /\ p.who = m.who /\ p.must = m.must /\ p.totp = m.totp
      BY <1>2, <2>9, <2>10, <2>11, <2>12, <2>17
    <3> QED BY <1>2, <2>4, <2>11, <2>14, <2>15, <2>17, <3>1 DEF Fresh, Edits
  <2>18. CASE k = "enable"
    <3>1. /\ Fresh(t) /\ p.totp = (account.totp # None)
          /\ p.who = m.who /\ p.must = m.must /\ p.entry = m.entry
      BY <1>2, <2>9, <2>10, <2>12, <2>18
    <3> QED BY <1>2, <2>4, <2>11, <2>14, <2>15, <2>18, <3>1 DEF Fresh, Edits
  <2> QED BY <2>16, <2>17, <2>18 DEF Edits
<1>7. CASE EditFails(c)
  <2>1. PICK o \in BOOLEAN : o = (stale[t] \/ call[c].off)
    OBVIOUS
  <2>2. stale' = [stale EXCEPT ![t] = o] /\ me' = me /\ call[c].phase = "failed"
    BY <1>2, <1>7, <2>1, Zenon DEF EditFails
  <2>3. stale'[t] = o
    BY <1>1, <2>2 DEF TypeOK
  <2>4. ~stale[t] /\ ~Unsure(c)
    BY <1>2, <2>1, <2>2, <2>3 DEF Sure, Unsure
  <2>5. Fresh(t)
    BY <1>1, <1>2, <1>4, <2>2, <2>4 DEF FreshOK, Sure
  <2> QED BY <1>2, <1>3, <1>5, <2>2, <2>5 DEF Fresh, Edits
<1> QED BY <1>6, <1>7 DEF EditOver

LEMMA FreshStep ==
    ASSUME ProfileInv, [Next]_vars
    PROVE  FreshOK'
<1>1. /\ \A c \in Call : Fate(c)
      /\ Shaped /\ TypeOK
  BY StepFx DEF ProfileInv, TypeInv
<1>2. ASSUME NEW t \in Tab, Sure(t)' PROVE Fresh(t)'
  <2>0. me'[t] # None /\ ~stale'[t]
    BY <1>2 DEF Sure
  <2>1. CASE \E c \in Call : c[1] = t /\ EditOver(c)
    BY <1>2, <2>1, FreshEdited
  <2>2. CASE \E c \in Call : Made(c)
    <3>1. PICK c \in Call : Made(c)
      BY <2>2
    <3>2. c[1] = t
      BY <2>0, <3>1 DEF Made
    <3> QED BY <1>2, <3>1, <3>2, FreshMade
  <2>3. CASE \E k \in {"login", "me"} : Arrived(t, k)
    BY <1>2, <2>3, FreshArrives
  <2>4. ~Left(t) /\ ~ResetRow
    BY <1>1, <2>0 DEF Left, ResetRow, TypeOK
  <2>5. ASSUME me'[t] = me[t], stale'[t] <=> stale[t], UNCHANGED <<account, entry>>,
               \A c \in Call : c[1] = t => ~EditOver(c)
        PROVE  Fresh(t)'
    BY <1>1, <1>2, <2>5, FreshKept
  <2>6. Steady => me'[t] = me[t] /\ (stale'[t] <=> stale[t]) /\ UNCHANGED <<account, entry>>
    BY DEF Steady
  <2>7. ASSUME NEW u \in Tab, u # t, Left(u) \/ \E k \in {"login", "me"} : Arrived(u, k)
        PROVE  me'[t] = me[t] /\ (stale'[t] <=> stale[t]) /\ UNCHANGED <<account, entry>>
    BY <1>1, <2>7 DEF Left, Arrived, TypeOK
  <2>8. ASSUME NEW c \in Call, c[1] # t, EditOver(c)
        PROVE  me'[t] = me[t] /\ (stale'[t] <=> stale[t]) /\ UNCHANGED <<account, entry>>
    <3>1. PICK u \in Tab : u = c[1] /\ u # t
      BY <2>8 DEF Call
    <3>2. \E p, o : /\ me' = me \/ me' = [me EXCEPT ![u] = p]
                    /\ stale' = [stale EXCEPT ![u] = o] /\ UNCHANGED <<account, entry>>
      BY <2>8, <3>1, Zenon DEF EditOver, EditArrives, EditFails
    <3> QED BY <1>1, <3>1, <3>2 DEF TypeOK
  <2> QED BY <1>1, <2>1, <2>2, <2>3, <2>4, <2>5, <2>6, <2>7, <2>8, StepIs
<1> QED BY <1>2 DEF FreshOK

(* The path in the memory of anpanel-web is the one in config.json, unless *)
(* the agent saved one of which anpanel-web heard an error only.           *)
Heard == missed \/ saved = entry

LEMMA HeardStep == Heard /\ [Next]_vars => Heard'
<1>1. UNCHANGED settings => (Heard => Heard')
  BY DEF Heard
<1>2. ASSUME NEW c \in Call, Handle(c), Heard PROVE Heard'
  <2>1. UNCHANGED settings \/ EntryHandled(c)
    BY <1>2, Zenon DEF Handle, LoginHandled, SetupHandled, MeHandled, LogoutHandled,
       ChangeHandled, EnableHandled, Refuse
  <2>2. EntryHandled(c) => entry' = saved' \/ UNCHANGED <<entry, saved, missed>>
    BY Zenon DEF EntryHandled, Refuse
  <2>3. EntryHandled(c) => Heard'
    BY <1>2, <2>2 DEF Heard
  <2> QED BY <1>1, <1>2, <2>1, <2>3
<1>3. \A e \in Entry : SavedUnheard(e) => Heard'
  BY DEF SavedUnheard, Heard
<1> QED
  BY <1>1, <1>2, <1>3, ZenonT(30)
     DEF Next, OpenTab, SubmitLogin, Logout, SaveFirstLogin, SaveFirstEntry, SaveEntry,
         SetupTOTP, EnableTOTP, LeaveSettings, Send, LoginArrives, LoginFails, MeArrives,
         MeFails, LogoutArrives, LogoutFails, ShellGoes, EditArrives, EditFails, SetupArrives,
         SetupFails, Admit, Lose, Expire, ResetRow, ResetSessions

(* When nothing of a tab is under way its profile is the account's and the *)
(* settings', although edits patch a copy captured when their form was     *)
(* sent: their answers carry what was changed, no other field is touched   *)
(* meanwhile, and the exceptions are those that are named.                 *)
THEOREM ProfileCorrect == Spec => []ProfileIsCurrent
<1>1. ProfileInv /\ Heard => ProfileIsCurrent
  <2> SUFFICES ASSUME ProfileInv, Heard, NEW t \in Tab, me[t] # None, ~stale[t],
                      \A k \in Kind : call[<<t, k>>] = Idle
               PROVE  me[t] = Payload(account) /\ (missed \/ me[t].entry = saved)
    BY DEF ProfileIsCurrent
  <2>1. Idle.phase = "idle"
    BY DEF Idle
  <2>2. ASSUME NEW c \in Call, c[1] = t PROVE ~Unsure(c)
    <3>1. PICK k \in Kind : c = <<t, k>>
      BY <2>2 DEF Call
    <3>2. call[c].phase = "idle"
      BY <2>1, <3>1
    <3> QED BY <3>2 DEF Unsure
  <2>3. Fresh(t)
    BY <2>2 DEF ProfileInv, FreshOK, Sure
  <2>4. Edits \subseteq Kind
    BY DEF Edits, Kind
  <2>5. /\ me[t].who = account.who /\ me[t].must = account.must
        /\ me[t].entry = entry /\ me[t].totp = (account.totp # None)
    BY <2>1, <2>3, <2>4 DEF Fresh, Edits
  <2>6. me[t] \in Profile
    BY DEF ProfileInv, TypeInv, TypeOK
  <2> QED BY <2>5, <2>6 DEF Profile, Payload, Heard
<1>2. ProfileInv /\ [Next]_vars => ProfileInv'
  BY TypeStep, TakenStep, MadeStep, FreshStep DEF ProfileInv
<1>3. Init => Heard
  BY DEF Init, Heard
<1> QED BY <1>1, <1>2, <1>3, ProfileInit, HeardStep, PTL DEF Spec
=============================================================================
