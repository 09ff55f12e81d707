----------------------------- MODULE TaskService -----------------------------
(***************************************************************************)
(* What the users of the generic task queue may rely on                    *)
(* (crates/warp_core/src/sync_queue.rs): a submitted task is pending until *)
(* it is started, tasks run one at a time, and each ends once, answered or *)
(* cancelled.  TaskQueue implements it.                                    *)
(***************************************************************************)
CONSTANT Tasks

VARIABLES
    state,      \* how far each task is
    doomed,     \* the running task, once cancel_all has aborted it
    closed      \* the executor has dropped the processor

serviceVars == <<state, doomed, closed>>

States == {"new", "pending", "running", "answered", "cancelled"}
In(s) == {t \in Tasks : state[t] = s}
Moved(T, s) == [t \in Tasks |-> IF t \in T THEN s ELSE state[t]]

Init ==
    /\ state = [t \in Tasks |-> "new"]
    /\ doomed = {}
    /\ closed = FALSE

Submit(t) ==
    /\ state[t] = "new"
    /\ state' = Moved({t}, "pending")
    /\ UNCHANGED <<doomed, closed>>

\* A task that is submitted too late is given back.
Refuse(t) ==
    /\ closed /\ state[t] = "pending"
    /\ state' = Moved({t}, "cancelled")
    /\ UNCHANGED <<doomed, closed>>

Start(t) ==
    /\ ~closed /\ state[t] = "pending" /\ In("running") = {}
    /\ state' = Moved({t}, "running")
    /\ UNCHANGED <<doomed, closed>>

\* A task that is about to end may do so although it is doomed.
Answer(t) ==
    /\ state[t] = "running"
    /\ state' = Moved({t}, "answered")
    /\ doomed' = doomed \ {t}
    /\ UNCHANGED closed

Abort(t) ==
    /\ state[t] = "running"
    /\ doomed' = doomed \cup {t}
    /\ UNCHANGED <<state, closed>>

\* A running task is cancelled only on demand.
Yield(t) ==
    /\ state[t] = "running" /\ t \in doomed
    /\ state' = Moved({t}, "cancelled")
    /\ doomed' = doomed \ {t}
    /\ UNCHANGED closed

\* cancel_all catches all the pending tasks in one step.
CancelPending ==
    /\ state' = Moved(In("pending"), "cancelled")
    /\ UNCHANGED <<doomed, closed>>

\* The running task goes with the processor; pending ones stay pending.
Close ==
    /\ ~closed
    /\ state' = Moved(In("running"), "cancelled")
    /\ doomed' = {}
    /\ closed' = TRUE

Next ==
    \/ CancelPending \/ Close
    \/ \E t \in Tasks :
        \/ Submit(t) \/ Refuse(t) \/ Start(t)
        \/ Answer(t) \/ Abort(t) \/ Yield(t)

Spec == Init /\ [][Next]_serviceVars
==============================================================================
