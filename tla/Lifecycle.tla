------------------------------- MODULE Lifecycle -------------------------------
(* LifecycleTracker of crates/tailscale-vita/src/lifecycle.rs, as operators on *)
(* a record.  The instants of the tracker are abstracted to whether a map      *)
(* event and a DERP rx were ever seen; whether the later of the two is at most *)
(* DEGRADED_AFTER old ("fresh") is an input of tick.                           *)
EXTENDS Naturals

CONSTANT OFFLINE_RECONNECT_THRESHOLD

ASSUME ThresholdAssumption == OFFLINE_RECONNECT_THRESHOLD \in Nat \ {0}

FatalStates == {"AuthFailed", "SecurityFailed"}

OnlineState ==
    {"Connecting", "Online", "Degraded", "Offline", "NeedsLogin", "Stopped"} \cup FatalStates

\* consecutive_control_reconnects is only ever compared with the threshold, so the
\* counter saturates there.
Tracker ==
    [state : OnlineState, have_map : BOOLEAN, have_derp : BOOLEAN,
     reconnects : 0 .. OFFLINE_RECONNECT_THRESHOLD]

New == [state |-> "Connecting", have_map |-> FALSE, have_derp |-> FALSE,
        reconnects |-> 0]

MarkFatal(t, kind) == [t EXCEPT !.state = kind]

SetNeedsLogin(t) == [t EXCEPT !.state = "NeedsLogin"]

ClearNeedsLogin(t) == IF t.state = "NeedsLogin" THEN [t EXCEPT !.state = "Connecting"] ELSE t

SetStopped(t) == [t EXCEPT !.state = "Stopped"]

ClearStopped(t) == IF t.state = "Stopped" THEN [t EXCEPT !.state = "Connecting"] ELSE t

RecordMapEvent(t) == [t EXCEPT !.have_map = TRUE, !.reconnects = 0]

RecordDerpRx(t) == [t EXCEPT !.have_derp = TRUE]

RecordControlReconnect(t) ==
    IF t.reconnects < OFFLINE_RECONNECT_THRESHOLD
    THEN [t EXCEPT !.reconnects = @ + 1] ELSE t

\* consecutive_derp_reconnects: record_derp_reconnect is called by tests alone.
DerpReconnects == 0

\* Fatal states and Stopped are left alone; the rest follows the signals.
ComputeNextState(t, fresh) ==
    IF t.state \in FatalStates \cup {"Stopped"} THEN t.state
    ELSE IF t.reconnects >= OFFLINE_RECONNECT_THRESHOLD
              \/ DerpReconnects >= OFFLINE_RECONNECT_THRESHOLD
    THEN "Offline"
    ELSE IF ~(t.have_map /\ t.have_derp) THEN "Connecting"
    ELSE IF fresh THEN "Online" ELSE "Degraded"

Tick(t, fresh) == [t EXCEPT !.state = ComputeNextState(t, fresh)]
===============================================================================
