---------------------------- MODULE PanelSettings ----------------------------
(***************************************************************************)
(* What the panel's settings promise, with neither processes nor files:    *)
(* every setting is changed in one step by the operation it belongs to, no *)
(* operation touches a setting of another, and direct access is closed     *)
(* only while the web server proxies the panel over https.  PanelAccess    *)
(* implements this module as long as its operations do not overlap.        *)
(***************************************************************************)
CONSTANTS
    Entry,      \* secret entry paths, each with its decoy
    Channel     \* update channels

VARIABLES
    settings,   \* config.json
    served      \* how the web server proxies the panel

Init ==
    /\ settings \in [listen : {"public", "local"}, entry : Entry, channel : Channel]
    /\ served \in {"absent", "http", "https"}

SetEntry(e) == settings' = [settings EXCEPT !.entry = e] /\ UNCHANGED served

SetChannel(c) == settings' = [settings EXCEPT !.channel = c] /\ UNCHANGED served

OpenAccess == settings' = [settings EXCEPT !.listen = "public"] /\ UNCHANGED served

CloseAccess ==
    /\ served = "https"
    /\ settings' = [settings EXCEPT !.listen = "local"]
    /\ UNCHANGED served

Serve(v) == served' = v /\ UNCHANGED settings

Next ==
    \/ \E e \in Entry : SetEntry(e)
    \/ \E c \in Channel : SetChannel(c)
    \/ OpenAccess \/ CloseAccess
    \/ \E v \in {"absent", "http", "https"} : Serve(v)

Spec == Init /\ [][Next]_<<settings, served>>
=============================================================================
