------------------------------ MODULE TaskQueue ------------------------------
(***************************************************************************)
(* The generic queue that runs tasks one after another on the background   *)
(* executor (crates/warp_core/src/sync_queue.rs), used for the embeddings  *)
(* of a codebase and for the diffs of changed files.                       *)
(*                                                                         *)
(* Callers, cancellers and the processor are threads.  Each lock is held   *)
(* for one statement, so an action is what a thread does between two       *)
(* accesses to what the others see: task_map, the channel of task ids,     *)
(* active_task_handle and the flag inside an AbortHandle.                  *)
(***************************************************************************)
EXTENDS Naturals, Sequences

CONSTANTS
    Tasks,          \* the tasks that may be enqueued
    NoTask,         \* None in active_task_handle
    Cancellers,     \* threads that call cancel_all
    Subscribers,    \* receivers of a streaming queue
    Capacity,       \* broadcast buffer: DEFAULT_BUFFER_SIZE
    MaxRpm,         \* max_requests_per_minute, 0 for no rate limit
    MaxRetries,     \* remaining_retries of the RetryOption
    MayStop         \* whether the executor may drop the processor

ASSUME TasksAssumption == NoTask \notin Tasks
ASSUME NumbersAssumption ==
    /\ Capacity \in Nat \ {0} /\ MaxRpm \in Nat /\ MaxRetries \in Nat
    /\ MayStop \in BOOLEAN

VARIABLES
    task_map,       \* the tasks in the map
    channel,        \* the ids that were sent and not yet received
    caller,         \* where the enqueue of each task is
    outcome,        \* what became of each task: its oneshot or broadcast
    handle,         \* active_task_handle
    aborted,        \* the tasks whose abort flag is set
    canceller,      \* where each cancel_all is
    pc,             \* where the processor is
    current,        \* the task it has taken from the map
    polling,        \* whether it is inside a poll of the Abortable
    tries,          \* attempts of the current task
    result,         \* what the Abortable resolved to
    tokens,         \* whole tokens of the rate limiter
    inbox,          \* the broadcast results each listener has not read
    ahead,          \* the tasks enqueued before each task (observer)
    seen,           \* what each cancel_all found unresolved (observer)
    revoked         \* what a finished cancel_all should have caught (observer)

procVars == <<pc, current, polling, tries, result>>
observers == <<ahead, seen, revoked>>
vars == <<task_map, channel, caller, outcome, handle, aborted, canceller,
          procVars, tokens, inbox, observers>>

Waiting == {"token", "run", "backoff"}     \* where the Abortable can suspend
Inside == Waiting \cup {"start"}
Open == {t \in Tasks : outcome[t] = "open"}
Resolved(T, o) == [t \in Tasks |-> IF t \in T THEN o ELSE outcome[t]]
\* A queue broadcasts its results to listeners, or has none (per-task mode).
Listeners == DOMAIN inbox
Streaming == Listeners # {}

Init ==
    /\ task_map = {} /\ channel = <<>>
    /\ caller = [t \in Tasks |-> "new"]
    /\ outcome = [t \in Tasks |-> "new"]
    /\ handle = NoTask /\ aborted = {}
    /\ canceller = [c \in Cancellers |-> "idle"]
    /\ pc = "idle" /\ current = NoTask /\ polling = FALSE
    /\ tries = 0 /\ result = "none"
    /\ tokens = MaxRpm
    /\ \E mode \in {{}, Subscribers} : inbox = [s \in mode |-> <<>>]
    /\ ahead = [t \in Tasks |-> {}]
    /\ seen = [c \in Cancellers |-> {}]
    /\ revoked = {}

-----------------------------------------------------------------------------
(* enqueue and enqueue_with_result: the map first, then the channel.  The   *)
(* clone of the sender that try_send uses has a slot of its own, so it      *)
(* fails only when the receiver is gone.                                    *)

\* Mutant: the id is sent before the task is in the map.
InsertAfterSend(t) ==
    /\ \/ /\ caller[t] = "new"
          /\ channel' = Append(channel, t)
          /\ caller' = [caller EXCEPT ![t] = "inserted"]
          /\ outcome' = Resolved({t}, "open")
          /\ UNCHANGED task_map
       \/ /\ caller[t] = "inserted"
          /\ task_map' = task_map \cup {t}
          /\ caller' = [caller EXCEPT ![t] = "returned"]
          /\ UNCHANGED <<channel, outcome>>
    /\ UNCHANGED <<handle, aborted, canceller, procVars, tokens, inbox,
                   observers>>

Insert(t) ==
    /\ caller[t] = "new"
    /\ task_map' = task_map \cup {t}
    /\ caller' = [caller EXCEPT ![t] = "inserted"]
    /\ outcome' = Resolved({t}, "open")
    /\ ahead' = [ahead EXCEPT ![t] = {u \in Tasks : caller[u] = "returned"}]
    /\ UNCHANGED <<channel, handle, aborted, canceller, procVars, tokens,
                   inbox, seen, revoked>>

Send(t) ==
    /\ caller[t] = "inserted"
    /\ caller' = [caller EXCEPT ![t] = "returned"]
    /\ \/ /\ pc # "stopped"
          /\ channel' = Append(channel, t)
          /\ UNCHANGED <<task_map, outcome>>
       \/ /\ pc = "stopped"
          /\ task_map' = task_map \ {t}
          /\ outcome' = Resolved(task_map \cap {t}, "cancelled")
          /\ UNCHANGED channel
    /\ UNCHANGED <<handle, aborted, canceller, procVars, tokens, inbox,
                   observers>>

(* cancel_all: abort the active task, then drop the pending ones. *)

CancelActive(c) ==
    /\ canceller[c] = "idle"
    /\ canceller' = [canceller EXCEPT ![c] = "clearing"]
    /\ aborted' = aborted \cup ({handle} \ {NoTask})
    /\ handle' = NoTask
    /\ seen' = [seen EXCEPT ![c] = Open]
    /\ UNCHANGED <<task_map, channel, caller, outcome, procVars, tokens, inbox,
                   ahead, revoked>>

\* Mutant: only tasks whose ids have been sent are dropped.
CancelSent(c) ==
    /\ canceller[c] = "clearing"
    /\ canceller' = [canceller EXCEPT ![c] = "idle"]
    /\ task_map' = {t \in task_map : caller[t] = "inserted"}
    /\ outcome' = Resolved(task_map \ task_map', "cancelled")
    /\ revoked' = revoked \cup seen[c]
    /\ seen' = [seen EXCEPT ![c] = {}]
    /\ UNCHANGED <<channel, caller, handle, aborted, procVars, tokens, inbox,
                   ahead>>

CancelPending(c) ==
    /\ canceller[c] = "clearing"
    /\ canceller' = [canceller EXCEPT ![c] = "idle"]
    /\ task_map' = {}
    /\ outcome' = Resolved(task_map, "cancelled")
    /\ revoked' = revoked \cup seen[c]
    /\ seen' = [seen EXCEPT ![c] = {}]
    /\ UNCHANGED <<channel, caller, handle, aborted, procVars, tokens, inbox,
                   ahead>>

-----------------------------------------------------------------------------
(* process_queue *)

\* Mutant: the task is looked up and stays in the map.
ReceiveKeeps ==
    /\ pc = "idle" /\ channel # <<>>
    /\ channel' = Tail(channel)
    /\ \/ /\ Head(channel) \in task_map
          /\ current' = Head(channel)
          /\ pc' = "taken"
       \/ /\ Head(channel) \notin task_map
          /\ UNCHANGED <<current, pc>>
    /\ UNCHANGED <<task_map, caller, outcome, handle, aborted, canceller,
                   polling, tries, result, tokens, inbox, observers>>

\* A missing task was cancelled, the loop continues.
Receive ==
    /\ pc = "idle" /\ channel # <<>>
    /\ channel' = Tail(channel)
    /\ \/ /\ Head(channel) \in task_map
          /\ task_map' = task_map \ {Head(channel)}
          /\ current' = Head(channel)
          /\ pc' = "taken"
       \/ /\ Head(channel) \notin task_map
          /\ UNCHANGED <<task_map, current, pc>>
    /\ UNCHANGED <<caller, outcome, handle, aborted, canceller, polling, tries,
                   result, tokens, inbox, observers>>

StoreHandle ==
    /\ pc = "taken"
    /\ handle' = current
    /\ pc' = IF MaxRpm = 0 THEN "start" ELSE "token"
    /\ tries' = 0
    /\ UNCHANGED <<task_map, channel, caller, outcome, aborted, canceller,
                   current, polling, result, tokens, inbox, observers>>

Finish(r) ==
    /\ pc' = "done" /\ result' = r /\ polling' = FALSE

\* Abortable looks at the flag before it polls the task ...
Poll ==
    /\ pc \in Inside /\ ~polling
    /\ \/ current \in aborted /\ Finish("aborted")
       \/ current \notin aborted /\ polling' = TRUE /\ UNCHANGED <<pc, result>>
    /\ UNCHANGED <<task_map, channel, caller, outcome, handle, aborted,
                   canceller, current, tries, tokens, inbox, observers>>

\* ... and after the task has returned Pending.
Suspend ==
    /\ pc \in Waiting /\ polling
    /\ \/ current \in aborted /\ Finish("aborted")
       \/ current \notin aborted /\ polling' = FALSE /\ UNCHANGED <<pc, result>>
    /\ UNCHANGED <<task_map, channel, caller, outcome, handle, aborted,
                   canceller, current, tries, tokens, inbox, observers>>

\* Mutant: a task does not wait until a whole token has been earned.
TakeTokenEarly ==
    /\ pc = "token" /\ polling
    /\ tokens' = tokens - 1
    /\ pc' = "start"
    /\ UNCHANGED <<task_map, channel, caller, outcome, handle, aborted,
                   canceller, current, polling, tries, result, inbox, observers>>

\* wait_for_token: a task takes one token, however often it is retried.
TakeToken ==
    /\ pc = "token" /\ polling /\ tokens >= 1
    /\ tokens' = tokens - 1
    /\ pc' = "start"
    /\ UNCHANGED <<task_map, channel, caller, outcome, handle, aborted,
                   canceller, current, polling, tries, result, inbox, observers>>

\* The call of task.run().
StartAttempt ==
    /\ pc = "start" /\ polling
    /\ pc' = "run"
    /\ tries' = tries + 1
    /\ UNCHANGED <<task_map, channel, caller, outcome, handle, aborted,
                   canceller, current, polling, result, tokens, inbox, observers>>

AttemptSucceeds ==
    /\ pc = "run" /\ polling
    /\ Finish("ok")
    /\ UNCHANGED <<task_map, channel, caller, outcome, handle, aborted,
                   canceller, current, tries, tokens, inbox, observers>>

\* Mutant: a task that is to be retried goes to the end of the queue.
AttemptFailsRequeues(transient) ==
    /\ pc = "run" /\ polling
    /\ \/ (~transient \/ tries > MaxRetries) /\ Finish("error")
          /\ UNCHANGED <<task_map, channel, current, handle>>
       \/ /\ transient /\ tries <= MaxRetries
          /\ task_map' = task_map \cup {current}
          /\ channel' = Append(channel, current)
          /\ current' = NoTask /\ handle' = NoTask
          /\ pc' = "idle" /\ polling' = FALSE
          /\ UNCHANGED result
    /\ UNCHANGED <<caller, outcome, aborted, canceller, tries, tokens, inbox,
                   observers>>

AttemptFails(transient) ==
    /\ pc = "run" /\ polling
    /\ \/ (~transient \/ tries > MaxRetries) /\ Finish("error")
       \/ /\ transient /\ tries <= MaxRetries
          /\ pc' = "backoff"
          /\ UNCHANGED <<polling, result>>
    /\ UNCHANGED <<task_map, channel, caller, outcome, handle, aborted,
                   canceller, current, tries, tokens, inbox, observers>>

\* Mutant: the attempts are counted anew after every pause.
EndBackoffForgets ==
    /\ pc = "backoff" /\ polling
    /\ pc' = "start" /\ tries' = 0
    /\ UNCHANGED <<task_map, channel, caller, outcome, handle, aborted,
                   canceller, current, polling, result, tokens, inbox,
                   observers>>

EndBackoff ==
    /\ pc = "backoff" /\ polling
    /\ pc' = "start"
    /\ UNCHANGED <<task_map, channel, caller, outcome, handle, aborted,
                   canceller, current, polling, tries, result, tokens, inbox,
                   observers>>

\* Mutant: the handle of a finished task stays.
KeepHandle ==
    /\ pc = "done"
    /\ pc' = "deliver"
    /\ UNCHANGED <<task_map, channel, caller, outcome, handle, aborted,
                   canceller, current, polling, tries, result, tokens, inbox,
                   observers>>

ClearHandle ==
    /\ pc = "done"
    /\ handle' = NoTask
    /\ pc' = "deliver"
    /\ UNCHANGED <<task_map, channel, caller, outcome, aborted, canceller,
                   current, polling, tries, result, tokens, inbox, observers>>

\* async_broadcast refuses a message when nobody listens or when the slowest
\* listener is Capacity behind; the result is then only logged.
Deliverable == Streaming /\ \A s \in Listeners : Len(inbox[s]) < Capacity

Deliver ==
    /\ pc = "deliver"
    /\ LET sent == Streaming /\ result # "aborted" IN
       /\ outcome' = Resolved({current},
              IF result = "aborted" THEN "cancelled"
              ELSE IF sent /\ ~Deliverable THEN "lost" ELSE result)
       /\ inbox' = IF sent /\ Deliverable
                   THEN [s \in Listeners |-> Append(inbox[s], current)]
                   ELSE inbox
    /\ pc' = "idle" /\ current' = NoTask /\ tries' = 0 /\ result' = "none"
    /\ UNCHANGED <<task_map, channel, caller, handle, aborted, canceller,
                   polling, tokens, observers>>

-----------------------------------------------------------------------------
(* The environment. *)

\* Time passes: wait_for_token adds what has been earned since the last call.
Refill ==
    /\ tokens < MaxRpm
    /\ tokens' = tokens + 1
    /\ UNCHANGED <<task_map, channel, caller, outcome, handle, aborted,
                   canceller, procVars, inbox, observers>>

Read(s) ==
    /\ inbox[s] # <<>>
    /\ inbox' = [inbox EXCEPT ![s] = Tail(@)]
    /\ UNCHANGED <<task_map, channel, caller, outcome, handle, aborted,
                   canceller, procVars, tokens, observers>>

\* The future of process_queue is dropped where it is suspended, or unwinds
\* because a task panicked; its receiver and the task it holds go with it.
Stop ==
    /\ MayStop
    /\ \/ pc = "idle"
       \/ pc \in Waiting /\ ~polling
       \/ pc \in {"start", "run"} /\ polling
    /\ pc' = "stopped" /\ polling' = FALSE /\ current' = NoTask /\ tries' = 0
    /\ outcome' = Resolved(Tasks \cap {current}, "cancelled")
    /\ channel' = <<>>
    /\ UNCHANGED <<task_map, caller, handle, aborted, canceller, result,
                   tokens, inbox, observers>>

Next ==
    \/ \E t \in Tasks : Insert(t) \/ Send(t)
    \/ \E c \in Cancellers : CancelActive(c) \/ CancelPending(c)
    \/ Receive \/ StoreHandle \/ Poll \/ Suspend
    \/ TakeToken \/ StartAttempt \/ AttemptSucceeds
    \/ \E transient \in BOOLEAN : AttemptFails(transient)
    \/ EndBackoff \/ ClearHandle \/ Deliver
    \/ Refill \/ Stop
    \/ \E s \in Listeners : Read(s)

Spec == Init /\ [][Next]_vars

\* The thread pool runs the processor whenever it can go on, a caller and a
\* canceller that have begun go on, time passes, and attempts and timers end:
\* between two polls of a suspended task each of them may have become ready.
Fairness ==
    /\ WF_vars(Receive) /\ WF_vars(StoreHandle) /\ WF_vars(Poll)
    /\ WF_vars(Suspend) /\ WF_vars(StartAttempt) /\ WF_vars(ClearHandle)
    /\ WF_vars(Deliver) /\ WF_vars(Refill)
    /\ SF_vars(TakeToken) /\ SF_vars(EndBackoff)
    /\ SF_vars(AttemptSucceeds \/ AttemptFails(TRUE) \/ AttemptFails(FALSE))
    /\ \A t \in Tasks : WF_vars(Send(t))
    /\ \A c \in Cancellers : WF_vars(CancelPending(c))

FairSpec == Spec /\ Fairness

-----------------------------------------------------------------------------
(* Properties *)

TypeOK ==
    /\ task_map \subseteq Tasks
    /\ channel \in Seq(Tasks)
    /\ caller \in [Tasks -> {"new", "inserted", "returned"}]
    /\ outcome \in [Tasks -> {"new", "open", "ok", "error", "cancelled", "lost"}]
    /\ handle \in Tasks \cup {NoTask}
    /\ aborted \subseteq Tasks
    /\ canceller \in [Cancellers -> {"idle", "clearing"}]
    /\ pc \in {"idle", "taken", "done", "deliver", "stopped"} \cup Inside
    /\ current \in Tasks \cup {NoTask}
    /\ polling \in BOOLEAN
    /\ tries \in 0..(MaxRetries + 1)
    /\ result \in {"none", "ok", "error", "aborted"}
    /\ tokens \in 0..MaxRpm
    /\ Listeners \in {{}, Subscribers} /\ inbox \in [Listeners -> Seq(Tasks)]
    /\ ahead \in [Tasks -> SUBSET Tasks]
    /\ seen \in [Cancellers -> SUBSET Tasks]
    /\ revoked \subseteq Tasks

\* A task whose result is still awaited is in the map or with the processor,
\* and as long as the processor lives one in the map has its id in the channel
\* or a caller that is about to send it: no receiver waits for nothing, and
\* has_queued_task finds nothing that will never run.
NoTaskIsStranded ==
    /\ Open = task_map \cup (Tasks \cap {current})
    /\ \A t \in task_map :
        \/ pc = "stopped"
        \/ caller[t] = "inserted"
        \/ \E i \in DOMAIN channel : channel[i] = t

\* cancel_all never aborts a task other than the one that is running: the
\* handle it finds is the one of the task the processor holds.
HandleIsCurrent ==
    handle # NoTask /\ pc # "stopped" =>
        handle = current /\ pc \in Inside \cup {"done"}

\* cancel_all: "Cancel all pending and in-flight tasks".  When it has returned,
\* one of the tasks it should have caught may go on: the one the processor held
\* between the map and the abort handle.
AtMostOneSurvivor == revoked \cap Open \subseteq {current}

\* Tasks end in the order in which they were enqueued: when one is taken, those
\* whose enqueue had returned before its own began have been resolved, retried
\* attempts included.
FirstInFirstOut ==
    [][\A t \in Tasks : current # t /\ current' = t =>
           ahead[t] \cap Open \subseteq {t}]_vars

\* Every receiver of enqueue_with_result resolves, and every task of a streaming
\* queue ends, unless the processor stops.
EveryTaskEnds ==
    \A t \in Tasks : outcome[t] = "open" ~> outcome[t] # "open" \/ pc = "stopped"

\* TaskQueue implements TaskService.
Phase(t) ==
    IF t \in task_map THEN "pending"
    ELSE IF t = current THEN "running"
    ELSE IF outcome[t] \in {"ok", "error", "lost"} THEN "answered"
    ELSE IF outcome[t] = "cancelled" THEN "cancelled" ELSE "new"
Service ==
    INSTANCE TaskService WITH
        state <- [t \in Tasks |-> Phase(t)],
        doomed <- aborted \cap {current},
        closed <- pc = "stopped"
Implements == Service!Spec
==============================================================================
