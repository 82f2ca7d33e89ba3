---------------------------- MODULE StageRecord ----------------------------
(***************************************************************************)
(* What the rest of the controller relies on when it asks for a stage's    *)
(* objects to be recorded: the record never names an object that nobody    *)
(* asked to record; a write that succeeded left nothing out, unless it     *)
(* trusted an outdated copy; and a write that began with an up-to-date     *)
(* cache stored exactly what it was asked to.                              *)
(***************************************************************************)
CONSTANT Refs

VARIABLES
    record,     \* the objects the stored record names
    goal,       \* the objects the caller wants it to name
    state,      \* "idle", "writing", or how the last write ended: "ok" or "failed"
    fresh,      \* the cache was up to date when the write began
    current     \* the write has left no piece alone because of an outdated copy

vars == <<record, goal, state, fresh, current>>

Init == record \subseteq Refs /\ goal = {} /\ state = "idle" /\ fresh = FALSE /\ current = TRUE

\* The caller hands over the objects of the stage.
Begin ==
    /\ state # "writing" /\ state' = "writing"
    /\ goal' \in SUBSET Refs /\ fresh' \in BOOLEAN /\ current' = TRUE
    /\ UNCHANGED record

\* The write is not atomic: in between, entries of the old record and of the
\* new one come and go, but no others.
Progress ==
    /\ state = "writing"
    /\ record' \subseteq record \cup goal
    /\ current' \in {current, FALSE} /\ (fresh => current')
    /\ UNCHANGED <<goal, state, fresh>>

\* Success.
Finish ==
    /\ state = "writing"
    /\ current => goal \subseteq record
    /\ fresh => record = goal
    /\ state' = "ok"
    /\ UNCHANGED <<record, goal, fresh, current>>

\* An error, or the end of the process.
Abort ==
    /\ state = "writing"
    /\ state' = "failed"
    /\ UNCHANGED <<record, goal, fresh, current>>

Next == Begin \/ Progress \/ Finish \/ Abort
Spec == Init /\ [][Next]_vars
=============================================================================
