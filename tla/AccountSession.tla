--------------------------- MODULE AccountSession ---------------------------
(***************************************************************************)
(* The administrator's account from the page to the database: App, Login,  *)
(* Shell, FirstLogin, ForceEntrySetup, EntrySecurityBlock and              *)
(* SecurityBlock (web/src/main.tsx) with the module variable csrf of       *)
(* api.ts, one copy of each per tab and one cookie for all tabs; the       *)
(* handlers behind them (internal/app/server.go, entry.go), each admitted  *)
(* by withSession with a snapshot of the account and carried out later;    *)
(* and reset-admin on the command line, which changes the account and then *)
(* deletes the sessions in two statements of its own.                      *)
(* A password is told from others by the number of the change that set it. *)
(***************************************************************************)
EXTENDS Naturals, FiniteSets

CONSTANTS
    Tab, Token, Secret, Who, Entry,
    None,
    Admin,        \* the name a reset gives
    MaxChanges,   \* bound: changes and resets of the password
    MaxResets,    \* bound: resets
    MaxClicks     \* bound: requests of the user

ASSUME AccountAssumption ==
    /\ None \notin Token \cup Secret \cup Who \cup Entry
    /\ Admin \in Who
    /\ MaxChanges \in Nat /\ MaxResets \in Nat /\ MaxClicks \in Nat

VARIABLES
    account,     \* the row of users
    entry,       \* the entry path in the memory of anpanel-web
    saved,       \* the one in config.json
    missed,      \* the agent saved a path and anpanel-web answered an error
    adrift,      \* the paths of such answers, not saved yet
    pending,     \* the setting pending_totp
    live,        \* the rows of sessions
    born,        \* the password a session was opened with
    reset,       \* reset-admin: before its statements, or between them
    cookie,
    tab,         \* closed, loading or open
    csrf,        \* the module variable of api.ts
    me,          \* the profile App holds
    secret,      \* the secret SecurityBlock shows
    call,        \* the requests under way
    clicks, resets,
    seen,        \* secrets that were shown
    since,       \* the password of the last reset
    astride,     \* logins under way when a reset deletes the sessions
    late,        \* the sessions of these
    stale,       \* the profile of a tab may be old, for one of the reasons below
    turned       \* the cookie was changed by another tab, or by a logout

settings == <<entry, saved, missed, adrift>>
server == <<account, settings, pending, live, born>>
rest == <<clicks, resets, reset, since>>
page == <<tab, csrf, me, secret>>
marks == <<seen, astride, late, stale, turned>>
vars == <<server, rest, cookie, page, call, marks>>

Account == [who : Who, must : BOOLEAN, totp : Secret \cup {None}, word : 0 .. MaxChanges]
Profile == [who : Who, must : BOOLEAN, totp : BOOLEAN, entry : Entry \cup {None}]
Kind == {"me", "login", "logout", "change", "entry", "setup", "enable"}
Edits == {"change", "entry", "enable"}
Call == Tab \X Kind
Phase == {"idle", "sent", "admitted", "done", "failed"}

Idle == [phase |-> "idle", token |-> None, csrf |-> None, me |-> None, arg |-> None,
         got |-> None, old |-> FALSE, off |-> FALSE]

Open(c) == call[c].phase # "idle"

(* Of a request that failed it matters only if it may have been done.      *)
Failed(done) == [Idle EXCEPT !.phase = "failed", !.off = done]

(* Mutant: the payload carries the secret itself.                          *)
PayloadWithSecret(user) == [who |-> user.who, must |-> user.must,
                            totp |-> user.totp, entry |-> entry]

(* mePayload: what a handler tells of an account it has read.              *)
Payload(user) == [who |-> user.who, must |-> user.must,
                  totp |-> user.totp # None, entry |-> entry]

Init ==
    /\ account \in {[who |-> Admin, must |-> m, totp |-> None, word |-> 0] : m \in BOOLEAN}
    /\ entry \in Entry \cup {None} /\ pending = None
    /\ account.must => entry = None
    /\ saved = entry /\ missed = FALSE /\ adrift = {}
    /\ live = {} /\ born = [k \in Token |-> None]
    /\ reset = "before" /\ since = 0 /\ resets = 0 /\ clicks = 0
    /\ cookie = None
    /\ tab = [t \in Tab |-> "closed"]
    /\ csrf = [t \in Tab |-> None] /\ me = [t \in Tab |-> None]
    /\ secret = [t \in Tab |-> None]
    /\ call = [c \in Call |-> Idle]
    /\ seen = {} /\ astride = {} /\ late = {}
    /\ stale = [t \in Tab |-> FALSE] /\ turned = [t \in Tab |-> FALSE]

-----------------------------------------------------------------------------
(* Requests of a tab.  A handler keeps the profile it was rendered with,   *)
(* the browser adds the cookie, and api the csrf.                          *)

Send(t, kind, arg) ==
    /\ call[<<t, kind>>] = Idle
    /\ call' = [call EXCEPT ![<<t, kind>>] =
         [Idle EXCEPT !.phase = "sent", !.token = cookie, !.csrf = csrf[t],
                      !.me = me[t], !.arg = arg]]
    /\ UNCHANGED <<server, cookie, marks>>

Click ==
    /\ clicks < MaxClicks /\ clicks' = clicks + 1
    /\ UNCHANGED <<page, resets, reset, since>>

OpenTab(t) ==
    /\ tab[t] = "closed" /\ tab' = [tab EXCEPT ![t] = "loading"]
    /\ Send(t, "me", None)
    /\ UNCHANGED <<csrf, me, secret, rest>>

SubmitLogin(t) ==
    /\ tab[t] = "open" /\ me[t] = None
    /\ Click /\ Send(t, "login", account.word)

(* The shell without one of its two dialogs over it.                       *)
Clear(t) == me[t] # None /\ ~me[t].must /\ me[t].entry # None

Logout(t) == Clear(t) /\ Click /\ Send(t, "logout", None)

SaveFirstLogin(t, who) ==
    /\ me[t] # None /\ me[t].must
    /\ Click /\ Send(t, "change", who)

(* ForceEntrySetup.                                                        *)
SaveFirstEntry(t, e) ==
    /\ me[t] # None /\ ~me[t].must /\ me[t].entry = None
    /\ Click /\ Send(t, "entry", e)

(* EntrySecurityBlock among the settings.                                  *)
SaveEntry(t, e) == Clear(t) /\ Click /\ Send(t, "entry", e)

SetupTOTP(t) ==
    /\ Clear(t) /\ ~me[t].totp /\ secret[t] = None
    /\ Click /\ Send(t, "setup", None)

(* The code is computed from the secret on the screen.                     *)
EnableTOTP(t) ==
    /\ Clear(t) /\ secret[t] # None
    /\ Click /\ Send(t, "enable", secret[t])

(* Leaving the settings drops the secret; the answer of a setup under way  *)
(* finds no component.                                                     *)
LeaveSettings(t) ==
    /\ secret[t] # None \/ call[<<t, "setup">>].me # None
    /\ secret' = [secret EXCEPT ![t] = None]
    /\ call' = [call EXCEPT ![<<t, "setup">>].me = None]
    /\ UNCHANGED <<server, rest, cookie, tab, csrf, me, marks>>

-----------------------------------------------------------------------------
(* The server.                                                             *)

(* withSession.  The session row is joined with the account as it is now.  *)
(* Neither the profile nor a logout asks for the csrf.                     *)
Authorised(c) ==
    LET r == call[c] IN
    /\ r.token \in live
    /\ c[2] \notin {"me", "logout"} => r.csrf = r.token
    /\ c[2] = "entry" => ~account.must

(* The user types the password of the moment of sending, and has the code  *)
(* of every secret that was shown.                                         *)
Authenticated(c) ==
    /\ call[c].arg = account.word
    /\ account.totp = None \/ account.totp \in seen

Admit(c) ==
    /\ call[c].phase = "sent"
    /\ call' = IF IF c[2] = "login" THEN Authenticated(c) ELSE Authorised(c)
               THEN [call EXCEPT ![c].phase = "admitted", ![c].got = account]
               ELSE [call EXCEPT ![c] = Failed(FALSE)]
    /\ UNCHANGED <<server, rest, cookie, page, marks>>

(* The profile of every tab but t, also the one an answer under way will   *)
(* bring, is no longer the account's; nor is one a login of t will bring.  *)
Outdate(t) == stale' = [u \in Tab |-> stale[u] \/ u # t]

Answer(c, arg, profile) ==
    call' = [d \in Call |->
       [call[d] EXCEPT !.phase = IF d = c THEN "done" ELSE @,
                       !.arg = IF d = c THEN arg ELSE @,
                       !.got = IF d = c THEN profile ELSE @,
                       !.old = @ \/ (c[2] \in Edits /\ Open(d)
                                         /\ (d[1] = c[1] => d[2] \notin Edits))]]

Refuse(c) == call' = [call EXCEPT ![c] = Failed(FALSE)] /\ UNCHANGED <<server, stale>>

(* The session is made for the account that was read before.               *)
LoginHandled(c, k) ==
    /\ c[2] = "login" /\ k \notin live /\ born[k] = None
    /\ live' = live \cup {k} /\ born' = [born EXCEPT ![k] = call[c].got.word]
    /\ Answer(c, k, Payload(call[c].got))
    /\ UNCHANGED <<account, settings, pending, stale>>

MeHandled(c) ==
    /\ c[2] = "me"
    /\ Answer(c, call[c].token, Payload(call[c].got))
    /\ UNCHANGED <<server, stale>>

LogoutHandled(c) ==
    /\ c[2] = "logout"
    /\ live' = live \ {call[c].token}
    /\ Answer(c, None, None)
    /\ UNCHANGED <<account, settings, pending, born, stale>>

ChangeHandled(c) ==
    /\ c[2] = "change"
    /\ IF account.word < MaxChanges
       THEN /\ account' = [account EXCEPT !.who = call[c].arg, !.must = FALSE, !.word = @ + 1]
            /\ Answer(c, call[c].arg, None) /\ Outdate(c[1])
            /\ UNCHANGED <<settings, pending, live, born>>
       ELSE Refuse(c)

(* The agent saves the path, and anpanel-web takes it over.  An error      *)
(* does not mean that it was not saved, or will not be: the call may have  *)
(* timed out, or the file could not be read again.                         *)
EntryHandled(c) ==
    /\ c[2] = "entry"
    /\ \/ /\ entry' = call[c].arg /\ saved' = call[c].arg
          /\ missed' = FALSE
          /\ Answer(c, call[c].arg, None) /\ Outdate(c[1])
          /\ UNCHANGED <<account, adrift, pending, live, born>>
       \/ Refuse(c)
       \/ /\ adrift' = adrift \cup {call[c].arg}
          /\ call' = [call EXCEPT ![c] = Failed(FALSE)]
          /\ UNCHANGED <<account, entry, saved, missed, pending, live, born, stale>>

(* The agent ends what was answered with an error.                         *)
SavedUnheard(e) ==
    /\ e \in adrift /\ adrift' = adrift \ {e}
    /\ saved' = e /\ missed' = TRUE
    /\ UNCHANGED <<account, entry, pending, live, born, rest, cookie, page, call, marks>>

(* Every setup makes a secret of its own.                                  *)
SetupHandled(c, s) ==
    /\ c[2] = "setup"
    /\ s \notin seen /\ s # pending /\ s # account.totp
    /\ \A d \in Call : call[d].arg # s
    /\ pending' = s
    /\ Answer(c, s, None)
    /\ UNCHANGED <<account, settings, live, born, stale>>

(* Mutant: the code is taken for granted.                                  *)
EnableUnverified(c) ==
    /\ c[2] = "enable"
    /\ account' = [account EXCEPT !.totp = pending]
    /\ Answer(c, None, None) /\ Outdate(c[1])
    /\ UNCHANGED <<settings, pending, live, born>>

(* The code of one secret is not a code of another.                        *)
EnableHandled(c) ==
    /\ c[2] = "enable"
    /\ IF call[c].arg = pending
       THEN /\ account' = [account EXCEPT !.totp = pending]
            /\ Answer(c, None, None) /\ Outdate(c[1])
            /\ UNCHANGED <<settings, pending, live, born>>
       ELSE Refuse(c)

Handle(c) ==
    /\ call[c].phase = "admitted"
    /\ \/ \E k \in Token : LoginHandled(c, k)
       \/ \E s \in Secret : SetupHandled(c, s)
       \/ MeHandled(c) \/ LogoutHandled(c) \/ ChangeHandled(c)
       \/ EntryHandled(c) \/ EnableHandled(c)
    /\ astride' = astride \ {c}
    /\ late' = IF c \in astride THEN late \cup (live' \ live) ELSE late
    /\ UNCHANGED <<rest, cookie, page, seen, turned>>

(* The row counts no more.  The browser's cookie ends with it, which is    *)
(* the same to the server; it stays in the model.                          *)
Expire(k) ==
    /\ k \in live /\ live' = live \ {k}
    /\ UNCHANGED <<account, settings, pending, born, rest, cookie, page, call, marks>>

(* The two statements of ResetAdmin.                                       *)
ResetRow ==
    /\ reset = "before" /\ reset' = "between"
    /\ resets < MaxResets /\ account.word < MaxChanges
    /\ account' = [who |-> Admin, must |-> TRUE, totp |-> None, word |-> account.word + 1]
    /\ since' = account'.word
    /\ stale' = [t \in Tab |-> TRUE]
    /\ call' = [c \in Call |-> [call[c] EXCEPT !.old = Open(c)]]
    /\ UNCHANGED <<settings, pending, live, born, clicks, resets, cookie, page, seen, astride, late, turned>>

(* Mutant: the second statement is not run.                                *)
ResetKeepsSessions ==
    /\ reset = "between" /\ reset' = "before" /\ resets' = resets + 1
    /\ UNCHANGED <<server, clicks, since, cookie, page, call, marks>>

ResetSessions ==
    /\ reset = "between" /\ reset' = "before" /\ resets' = resets + 1
    /\ live' = {}
    /\ astride' = astride \cup {c \in Call : c[2] = "login" /\ call[c].phase = "admitted"}
    /\ UNCHANGED <<account, settings, pending, born, clicks, since, cookie, page, call, seen, late,
                   stale, turned>>

-----------------------------------------------------------------------------
(* Answers, or the lack of one, reach the tab.                             *)

(* A request or its answer is lost.  What an edit did is unknown then.     *)
Lose(c) ==
    /\ call[c].phase \in {"sent", "done"}
    /\ call' = [call EXCEPT ![c] = Failed(c[2] \in Edits /\ call[c].phase = "done")]
    /\ UNCHANGED <<server, rest, cookie, page, marks>>

Over(c) == call' = [call EXCEPT ![c] = Idle]

(* The cookie changes for the other tabs too, and for the profiles they    *)
(* are about to get.                                                       *)
SetCookie(t, k) ==
    /\ cookie' = k
    /\ turned' = [u \in Tab |-> IF u = t THEN k = None ELSE TRUE]
    /\ call' = [c \in Call |->
         IF c[1] = t /\ call[c].phase = "done" /\ c[2] = (IF k = None THEN "logout" ELSE "login")
         THEN Idle
         ELSE [call[c] EXCEPT !.off = @ \/ (c[2] = "me" /\ Open(c))]]

(* Mutant: the login does not hand its csrf to api.ts.                     *)
LoginSansCsrf(t) ==
    LET r == call[<<t, "login">>] IN
    /\ r.phase = "done" /\ SetCookie(t, r.arg)
    /\ me' = [me EXCEPT ![t] = r.got] /\ stale' = [stale EXCEPT ![t] = r.old]
    /\ UNCHANGED <<server, rest, tab, csrf, secret, seen, astride, late>>

LoginArrives(t) ==
    LET r == call[<<t, "login">>] IN
    /\ r.phase = "done" /\ SetCookie(t, r.arg)
    /\ csrf' = [csrf EXCEPT ![t] = r.arg] /\ me' = [me EXCEPT ![t] = r.got]
    /\ stale' = [stale EXCEPT ![t] = r.old]
    /\ UNCHANGED <<server, rest, tab, secret, seen, astride, late>>

LoginFails(t) ==
    /\ call[<<t, "login">>].phase = "failed" /\ Over(<<t, "login">>)
    /\ UNCHANGED <<server, rest, cookie, page, marks>>

MeArrives(t) ==
    LET r == call[<<t, "me">>] IN
    /\ r.phase = "done" /\ Over(<<t, "me">>)
    /\ tab' = [tab EXCEPT ![t] = "open"]
    /\ csrf' = [csrf EXCEPT ![t] = r.arg] /\ me' = [me EXCEPT ![t] = r.got]
    /\ stale' = [stale EXCEPT ![t] = r.old] /\ turned' = [turned EXCEPT ![t] = r.off]
    /\ UNCHANGED <<server, rest, cookie, secret, seen, astride, late>>

MeFails(t) ==
    /\ call[<<t, "me">>].phase = "failed" /\ Over(<<t, "me">>)
    /\ tab' = [tab EXCEPT ![t] = "open"] /\ me' = [me EXCEPT ![t] = None]
    /\ UNCHANGED <<server, rest, cookie, csrf, secret, marks>>

(* The shell goes, whether the logout succeeded or not.                    *)
ShellGoes(t) ==
    /\ me' = [me EXCEPT ![t] = None] /\ secret' = [secret EXCEPT ![t] = None]
    /\ UNCHANGED <<server, rest, tab, csrf, seen, astride, late, stale>>

LogoutArrives(t) ==
    /\ call[<<t, "logout">>].phase = "done"
    /\ SetCookie(t, None) /\ ShellGoes(t)

LogoutFails(t) ==
    /\ call[<<t, "logout">>].phase = "failed" /\ Over(<<t, "logout">>)
    /\ ShellGoes(t)
    /\ UNCHANGED <<cookie, turned>>

(* Mutant: the dialog of the first login does not clear its flag.          *)
EditedKeepsMust(c, profile) ==
    IF c[2] = "change" THEN [profile EXCEPT !.who = call[c].arg]
    ELSE IF c[2] = "entry" THEN [profile EXCEPT !.entry = call[c].arg]
    ELSE [profile EXCEPT !.totp = TRUE]

Edited(c, profile) ==
    IF c[2] = "change" THEN [profile EXCEPT !.who = call[c].arg, !.must = FALSE]
    ELSE IF c[2] = "entry" THEN [profile EXCEPT !.entry = call[c].arg]
    ELSE [profile EXCEPT !.totp = TRUE]

(* setMe({...me, ...}) starts from the profile of when the form was sent,  *)
(* and brings the shell back when the user has logged out since.           *)
EditArrives(c) ==
    /\ c[2] \in Edits /\ call[c].phase = "done" /\ Over(c)
    /\ me' = [me EXCEPT ![c[1]] = Edited(c, call[c].me)]
    /\ secret' = IF c[2] = "enable" THEN [secret EXCEPT ![c[1]] = None] ELSE secret
    /\ stale' = [stale EXCEPT ![c[1]] = @ \/ me[c[1]] # call[c].me \/ call[c].old]
    /\ UNCHANGED <<server, rest, cookie, tab, csrf, seen, astride, late, turned>>

EditFails(c) ==
    /\ c[2] \in Edits /\ call[c].phase = "failed" /\ Over(c)
    /\ stale' = [stale EXCEPT ![c[1]] = @ \/ call[c].off]
    /\ UNCHANGED <<server, rest, cookie, page, seen, astride, late, turned>>

SetupArrives(t) ==
    LET r == call[<<t, "setup">>] IN
    /\ r.phase = "done" /\ Over(<<t, "setup">>)
    /\ IF r.me = None \/ me[t] = None THEN UNCHANGED <<secret, seen>>
       ELSE secret' = [secret EXCEPT ![t] = r.arg] /\ seen' = seen \cup {r.arg}
    /\ UNCHANGED <<server, rest, cookie, tab, csrf, me, astride, late, stale, turned>>

SetupFails(t) ==
    /\ call[<<t, "setup">>].phase = "failed" /\ Over(<<t, "setup">>)
    /\ UNCHANGED <<server, rest, cookie, page, marks>>

-----------------------------------------------------------------------------

Next ==
    \/ \E t \in Tab :
          \/ OpenTab(t) \/ SubmitLogin(t) \/ Logout(t)
          \/ \E who \in Who : SaveFirstLogin(t, who)
          \/ \E e \in Entry : SaveFirstEntry(t, e) \/ SaveEntry(t, e)
          \/ SetupTOTP(t) \/ EnableTOTP(t) \/ LeaveSettings(t)
          \/ LoginArrives(t) \/ LoginFails(t) \/ MeArrives(t) \/ MeFails(t)
          \/ LogoutArrives(t) \/ LogoutFails(t) \/ SetupArrives(t) \/ SetupFails(t)
    \/ \E c \in Call : Admit(c) \/ Handle(c) \/ Lose(c) \/ EditArrives(c) \/ EditFails(c)
    \/ \E e \in Entry : SavedUnheard(e)
    \/ \E k \in Token : Expire(k)
    \/ ResetRow \/ ResetSessions

Spec == Init /\ [][Next]_vars

-----------------------------------------------------------------------------

TypeOK ==
    /\ account \in Account /\ entry \in Entry \cup {None} /\ pending \in Secret \cup {None}
    /\ saved \in Entry \cup {None} /\ missed \in BOOLEAN /\ adrift \subseteq Entry
    /\ live \subseteq Token /\ born \in [Token -> 0 .. MaxChanges \cup {None}]
    /\ reset \in {"before", "between"} /\ since \in 0 .. MaxChanges
    /\ resets \in 0 .. MaxResets /\ clicks \in 0 .. MaxClicks
    /\ cookie \in Token \cup {None}
    /\ tab \in [Tab -> {"closed", "loading", "open"}]
    /\ csrf \in [Tab -> Token \cup {None}] /\ me \in [Tab -> Profile \cup {None}]
    /\ secret \in [Tab -> Secret \cup {None}]
    /\ seen \subseteq Secret /\ late \subseteq Token /\ astride \subseteq Call
    /\ stale \in [Tab -> BOOLEAN] /\ turned \in [Tab -> BOOLEAN]
    /\ \A c \in Call : call[c].phase \in Phase

(* When nothing of a tab is under way, its profile is the account's and    *)
(* the settings', though every edit patches a copy that was captured when  *)
(* the form was sent - unless another tab or a reset changed it, an edit   *)
(* overlapped another one or a login, or the answer to one was lost        *)
(* (stale).  Its entry path is the saved one, unless saving it was         *)
(* answered with an error and took place all the same (missed).            *)
ProfileIsCurrent ==
    \A t \in Tab :
       me[t] # None /\ ~stale[t] /\ (\A k \in Kind : call[<<t, k>>] = Idle)
          => /\ me[t] = Payload(account)
             /\ missed \/ me[t].entry = saved

(* A shell sends the csrf of the session whose cookie the browser adds, so *)
(* its changes are not refused while that session lives, unless the cookie *)
(* was changed by another tab or the shell came back after a logout.       *)
CsrfIsTheCookies ==
    \A t \in Tab : me[t] # None /\ ~turned[t] => csrf[t] = cookie

(* A secret that a login asks a code of was on a screen, whatever setups   *)
(* of two tabs overlap and whatever answers are lost: the administrator is *)
(* not locked out.                                                         *)
SecretWasShown == account.totp # None => account.totp \in seen

(* After reset-admin no session of an old password is left, although the   *)
(* row changes first, except of a login that was under way meanwhile.      *)
ResetRevokes ==
    reset = "before" => \A k \in live : born[k] >= since \/ k \in late
=============================================================================
