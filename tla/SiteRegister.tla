---------------------------- MODULE SiteRegister ----------------------------
(***************************************************************************)
(* What changing web server configuration promises, one register per       *)
(* configuration path: a change is asked for, and either takes the place   *)
(* of the content in the one step in which it is answered with success, or *)
(* leaves it alone.  A change can also go wrong half way: then nothing is  *)
(* known of its path until the next change that succeeds.  WebConfig       *)
(* implements it as long as a path has one change in flight.               *)
(***************************************************************************)
CONSTANTS
    Job,       \* changes
    Path,
    Text,      \* contents; Gone is the missing file
    Bad,       \* contents the web server rejects
    Gone,
    Blank,
    Unknown

VARIABLES
    conf,      \* what each path holds
    ask,       \* per job, the change asked for
    answer     \* per job

Request ==
    [kind : {"apply", "create"}, path : Path, text : Text \ {Gone, Blank}]
        \cup [kind : {"delete"}, path : Path, text : {Gone}]
NoRequest == [kind |-> "none", path |-> Unknown, text |-> Gone]

Init ==
    /\ conf \in [Path -> Text \ (Bad \cup {Blank})]
    /\ ask = [j \in Job |-> NoRequest]
    /\ answer = [j \in Job |-> "none"]

Pending(j) == ask[j] # NoRequest /\ answer[j] = "none"

(* The file a change is made to has to be there, or not to be there.       *)
Fits(r) ==
    \/ conf[r.path] = Unknown
    \/ r.kind = "create" /\ conf[r.path] = Gone
    \/ r.kind = "delete" /\ conf[r.path] # Gone
    \/ r.kind = "apply"

Ask(j) ==
    /\ ask[j] = NoRequest
    /\ \E r \in Request :
        /\ \A k \in Job : Pending(k) => ask[k].path # r.path
        /\ ask' = [ask EXCEPT ![j] = r]
    /\ UNCHANGED <<conf, answer>>

Apply(j) ==
    /\ Pending(j)
    /\ Fits(ask[j]) /\ ask[j].text \notin Bad
    /\ conf' = [conf EXCEPT ![ask[j].path] = ask[j].text]
    /\ answer' = [answer EXCEPT ![j] = "ok"]
    /\ UNCHANGED ask

Refuse(j) ==
    /\ Pending(j)
    /\ \E r \in {"failed", "rolledback"} : answer' = [answer EXCEPT ![j] = r]
    /\ UNCHANGED <<conf, ask>>

(* The previous content could not be put back, whatever is answered.       *)
Spoil(j) ==
    /\ Pending(j)
    /\ conf' = [conf EXCEPT ![ask[j].path] = Unknown]
    /\ answer' \in {answer, [answer EXCEPT ![j] = "rolledback"]}
    /\ UNCHANGED ask

(* The agent stops: no pending change is answered, and some are half done. *)
Stop(spoiled) ==
    /\ \A j \in spoiled : Pending(j)
    /\ conf' = [p \in Path |->
                  IF \E j \in spoiled : ask[j].path = p THEN Unknown ELSE conf[p]]
    /\ answer' = [j \in Job |-> IF Pending(j) THEN "lost" ELSE answer[j]]
    /\ UNCHANGED ask

Next ==
    \/ \E j \in Job : Ask(j) \/ Apply(j) \/ Refuse(j) \/ Spoil(j)
    \/ \E spoiled \in SUBSET Job : Stop(spoiled)

Spec == Init /\ [][Next]_<<conf, ask, answer>>
=============================================================================
