---------------------------- MODULE ObjectPoller -----------------------------
(***************************************************************************)
(* The loop of UpdateManager that polls the server for changed cloud       *)
(* objects (app/src/server/cloud_objects/update_manager.rs), with the      *)
(* futures it spawns, the network status, logins and logouts that start    *)
(* and stop it, and what its answers tell the sync queue and those who     *)
(* wait for the initial load.                                              *)
(*                                                                         *)
(* Handlers run on the main thread, one at a time, and are one action      *)
(* each.  A future runs in the background until it resolves; its callback  *)
(* is a handler that runs some time later.                                 *)
(***************************************************************************)
EXTENDS Naturals

CONSTANTS
    MaxFutures,     \* futures outstanding at a time (bound)
    MaxRetries,     \* max retry count of the RetryOption
    MaxLogins,      \* logins ever (bound)
    MaxFlips,       \* changes of the network status (bound)
    MaxFailures,    \* requests of a logged-in user that fail (bound)
    MaxRefreshes,   \* out-of-band refreshes (bound)
    MaxEvents       \* all of these together (bound)

ASSUME BoundsAssumption ==
    /\ MaxFutures \in Nat /\ MaxRetries \in Nat /\ MaxLogins \in Nat
    /\ MaxFlips \in Nat /\ MaxFailures \in Nat /\ MaxRefreshes \in Nat
    /\ MaxEvents \in Nat

VARIABLES
    \* UpdateManager
    should_poll,    \* should_poll_for_updated_objects
    in_flight,      \* in_flight_request_abort_handle: a future or None
    next_poll,      \* next_poll_abort_handle: a future or None
    futures,        \* the futures that are outstanding
    loaded,         \* has_initial_load
    \* what it reads and drives
    online,         \* NetworkStatus
    user,           \* the login whose credentials are in use, or NoUser
    refreshing,     \* the login that refresh_user is fetching at startup
    dequeueing,     \* should_dequeue of SyncQueue
    \* observers
    fetched,        \* on_user_fetched has run since the user logged in
    missed,         \* abort_existing_poll has missed a future of the loop
    spent           \* what the bounds allowed and has been used

pollerVars == <<should_poll, in_flight, next_poll, futures>>
vars == <<pollerVars, loaded, online, user, refreshing, dequeueing, fetched,
          missed, spent>>

FutureIds == 1..MaxFutures
None == 0
NoUser == 0
Users == 1..MaxLogins

(* A future of the loop (poll) or of an out-of-band refresh: a request with   *)
(* the retries it has left, the pause before a retry, or the pause before the *)
(* next poll.  Its state says whether it has resolved, and how.               *)
Future == [kind : {"none", "request", "backoff", "timer"}, poll : BOOLEAN,
           left : 0..MaxRetries, owner : Users \cup {NoUser},
           state : {"running", "ok", "error"}]
NoFuture == [kind |-> "none", poll |-> FALSE, left |-> 0, owner |-> NoUser,
             state |-> "running"]
Request(poll, left, u) ==
    [kind |-> "request", poll |-> poll, left |-> left, owner |-> u,
     state |-> "running"]
Backoff(poll, left) ==
    [kind |-> "backoff", poll |-> poll, left |-> left, owner |-> NoUser,
     state |-> "running"]
NextPoll ==
    [kind |-> "timer", poll |-> TRUE, left |-> 0, owner |-> NoUser,
     state |-> "running"]

Loops == {f \in FutureIds : futures[f].poll}

\* Identities are given out anew only when no handle remembers them.
Fresh(fs, f) ==
    /\ fs[f] = NoFuture /\ f \notin {in_flight, next_poll}
    /\ \A g \in FutureIds : g < f => fs[g] # NoFuture \/ g \in {in_flight, next_poll}
Without(f) == [futures EXCEPT ![f] = NoFuture]

Spend(what) ==
    /\ spent.logins + spent.flips + spent.failures + spent.refreshes < MaxEvents
    /\ spent' = [spent EXCEPT ![what] = @ + 1]

-----------------------------------------------------------------------------
(* The poller *)

\* Aborting has no effect on a future that has resolved.
Surviving(fs) ==
    [f \in FutureIds |->
        IF f \in {in_flight, next_poll} /\ fs[f].state = "running"
        THEN NoFuture ELSE fs[f]]
Missed(fs) == \E f \in FutureIds : Surviving(fs)[f].poll

\* stop_polling_for_updated_objects
Stop ==
    /\ should_poll' = FALSE
    /\ futures' = Surviving(futures)
    /\ in_flight' = None /\ next_poll' = None
    /\ missed' = (missed \/ Missed(futures))

\* Mutant: the flag stays set when nobody is logged in.
PollForgets(fs, should, u) ==
    /\ next_poll' = None
    /\ missed' = (missed \/ Missed(fs))
    /\ should_poll' = should
    /\ \/ /\ ~should \/ u = NoUser
          /\ futures' = Surviving(fs) /\ in_flight' = None
       \/ /\ should /\ u # NoUser
          /\ \E f \in FutureIds :
              /\ Fresh(fs, f)
              /\ futures' = [Surviving(fs) EXCEPT ![f] = Request(TRUE, MaxRetries, u)]
              /\ in_flight' = f

\* Mutant: the loop goes on although it has been stopped.
PollUnchecked(fs, should, u) ==
    /\ next_poll' = None
    /\ missed' = (missed \/ Missed(fs))
    /\ should_poll' = (should /\ u # NoUser)
    /\ \/ u = NoUser /\ futures' = Surviving(fs) /\ in_flight' = None
       \/ /\ u # NoUser
          /\ \E f \in FutureIds :
              /\ Fresh(fs, f)
              /\ futures' = [Surviving(fs) EXCEPT ![f] = Request(TRUE, MaxRetries, u)]
              /\ in_flight' = f

\* poll_for_updated_objects, for the user u
Poll(fs, should, u) ==
    /\ next_poll' = None
    /\ missed' = (missed \/ Missed(fs))
    /\ should_poll' = (should /\ u # NoUser)
    /\ \/ /\ ~should \/ u = NoUser
          /\ futures' = Surviving(fs) /\ in_flight' = None
       \/ /\ should /\ u # NoUser
          /\ \E f \in FutureIds :
              /\ Fresh(fs, f)
              /\ futures' = [Surviving(fs) EXCEPT ![f] = Request(TRUE, MaxRetries, u)]
              /\ in_flight' = f

\* start_polling_for_updated_objects, for the user u and a network that is up
Start(fs, u, up) ==
    \/ /\ ~should_poll /\ up
       /\ Poll(fs, TRUE, u)
    \/ /\ should_poll \/ ~up
       /\ futures' = fs
       /\ UNCHANGED <<should_poll, in_flight, next_poll, missed>>

\* The callback of a request that will not be retried: the next poll.
Continue(f) ==
    \/ /\ futures[f].poll
       /\ \E g \in FutureIds :
           /\ Fresh(Without(f), g)
           /\ futures' = [Without(f) EXCEPT ![g] = NextPoll]
           /\ next_poll' = g
    \/ /\ ~futures[f].poll
       /\ futures' = Without(f)
       /\ UNCHANGED next_poll

\* on_changed_objects_fetched
RequestSucceeded(f) ==
    /\ futures[f].kind = "request" /\ futures[f].state = "ok"
    /\ dequeueing' = TRUE
    /\ loaded' = TRUE
    /\ Continue(f)
    /\ UNCHANGED <<should_poll, in_flight, online, user, refreshing, fetched,
                   missed, spent>>

\* Mutant: the loop ends with a request whose retries are exhausted.
RequestFailedEnds(f) ==
    /\ futures[f].kind = "request" /\ futures[f].state = "error"
    /\ \/ /\ futures[f].left > 0
          /\ \E g \in FutureIds :
              /\ Fresh(Without(f), g)
              /\ futures' = [Without(f) EXCEPT ![g] =
                                 Backoff(futures[f].poll, futures[f].left)]
       \/ /\ futures[f].left = 0
          /\ futures' = Without(f)
    /\ UNCHANGED <<should_poll, in_flight, next_poll, loaded, online, user,
                   refreshing, dequeueing, fetched, missed, spent>>

\* Mutant: every failure schedules a poll, one that is retried as well.
RequestFailedDoubles(f) ==
    /\ futures[f].kind = "request" /\ futures[f].state = "error"
    /\ \/ /\ futures[f].left > 0
          /\ \E g, h \in FutureIds :
              /\ Fresh(Without(f), g)
              /\ Fresh([Without(f) EXCEPT ![g] = NextPoll], h)
              /\ futures' = [Without(f) EXCEPT ![g] = NextPoll, ![h] =
                                 Backoff(futures[f].poll, futures[f].left)]
              /\ next_poll' = g
       \/ futures[f].left = 0 /\ Continue(f)
    /\ UNCHANGED <<should_poll, in_flight, loaded, online, user, refreshing,
                   dequeueing, fetched, missed, spent>>

\* Mutant: a request is retried although it has no retries left.
RequestFailedOnceMore(f) ==
    /\ futures[f].kind = "request" /\ futures[f].state = "error"
    /\ \E g \in FutureIds :
        /\ Fresh(Without(f), g)
        /\ futures' = [Without(f) EXCEPT ![g] =
                           Backoff(futures[f].poll, futures[f].left)]
    /\ UNCHANGED <<should_poll, in_flight, next_poll, loaded, online, user,
                   refreshing, dequeueing, fetched, missed, spent>>

\* The pause before a retry has no handle that anyone keeps.
RequestFailed(f) ==
    /\ futures[f].kind = "request" /\ futures[f].state = "error"
    /\ \/ /\ futures[f].left > 0
          /\ \E g \in FutureIds :
              /\ Fresh(Without(f), g)
              /\ futures' = [Without(f) EXCEPT ![g] =
                                 Backoff(futures[f].poll, futures[f].left)]
          /\ UNCHANGED next_poll
       \/ futures[f].left = 0 /\ Continue(f)
    /\ UNCHANGED <<should_poll, in_flight, loaded, online, user, refreshing,
                   dequeueing, fetched, missed, spent>>

\* Nor has the request that follows it.
Retry(f) ==
    /\ futures[f].kind = "backoff" /\ futures[f].state = "ok"
    /\ \E g \in FutureIds :
        /\ Fresh(Without(f), g)
        /\ futures' = [Without(f) EXCEPT ![g] =
                           Request(futures[f].poll, futures[f].left - 1, user)]
    /\ UNCHANGED <<should_poll, in_flight, next_poll, loaded, online, user,
                   refreshing, dequeueing, fetched, missed, spent>>

PollAgain(f) ==
    /\ futures[f].kind = "timer" /\ futures[f].state = "ok"
    /\ Poll(Without(f), should_poll, user)
    /\ UNCHANGED <<loaded, online, user, refreshing, dequeueing, fetched, spent>>

RefreshUpdatedObjects ==
    /\ spent.refreshes < MaxRefreshes /\ Spend("refreshes")
    /\ \E f \in FutureIds :
        /\ Fresh(futures, f)
        /\ futures' = [futures EXCEPT ![f] = Request(FALSE, MaxRetries, user)]
    /\ UNCHANGED <<should_poll, in_flight, next_poll, loaded, online, user,
                   refreshing, dequeueing, fetched, missed>>

\* A team link: refresh, then start.
InitiateDataPollers ==
    /\ spent.refreshes < MaxRefreshes /\ Spend("refreshes")
    /\ \E f \in FutureIds :
        /\ Fresh(futures, f)
        /\ Start([futures EXCEPT ![f] = Request(FALSE, MaxRetries, user)],
                 user, online)
    /\ UNCHANGED <<loaded, online, user, refreshing, dequeueing, fetched>>

-----------------------------------------------------------------------------
(* The network status, logins and logouts *)

\* Mutant: coming back online waits for the next login.
GoOnlineWaits ==
    /\ ~online /\ online' = TRUE
    /\ UNCHANGED <<pollerVars, loaded, user, refreshing, dequeueing, fetched,
                   missed, spent>>

GoOnline ==
    /\ ~online /\ online' = TRUE
    /\ Start(futures, user, TRUE)
    /\ UNCHANGED <<loaded, user, refreshing, dequeueing, fetched, spent>>

GoOffline ==
    /\ online /\ online' = FALSE
    /\ spent.flips < MaxFlips /\ Spend("flips")
    /\ Stop
    /\ dequeueing' = FALSE
    /\ UNCHANGED <<loaded, user, refreshing, fetched>>

\* on_user_fetched after a login or signup; an anonymous user need not have
\* logged out before.
LogIn ==
    /\ spent.logins < MaxLogins /\ Spend("logins")
    /\ user' = spent.logins + 1
    /\ fetched' = TRUE
    /\ loaded' = FALSE
    /\ Start(futures, user', online)
    /\ UNCHANGED <<online, refreshing, dequeueing>>

\* on_user_fetched after the refresh_user of the startup, or its failure.
UserRefreshed ==
    /\ refreshing # NoUser /\ refreshing' = NoUser
    /\ \/ /\ user' = refreshing
          /\ fetched' = TRUE
          /\ Start(futures, refreshing, online)
       \/ UNCHANGED <<pollerVars, user, fetched, missed>>
    /\ UNCHANGED <<loaded, online, dequeueing, spent>>

\* SyncQueue::clear leaves should_dequeue as it is.
LogOut ==
    /\ user # NoUser /\ user' = NoUser
    /\ fetched' = FALSE
    /\ Stop
    /\ UNCHANGED <<loaded, online, refreshing, dequeueing, spent>>

\* authorize_device drops the credentials and begins a new login.
AuthorizeDevice ==
    /\ user # NoUser /\ user' = NoUser
    /\ fetched' = FALSE
    /\ UNCHANGED <<pollerVars, loaded, online, refreshing, dequeueing,
                   missed, spent>>

-----------------------------------------------------------------------------
(* Background threads and the server: a request without credentials fails. *)

Resolved(f, how) ==
    /\ futures[f].state = "running"
    /\ futures' = [futures EXCEPT ![f].state = how]
    /\ UNCHANGED <<should_poll, in_flight, next_poll, loaded, online, user,
                   refreshing, dequeueing, fetched, missed>>

Elapse(f) ==
    futures[f].kind \in {"backoff", "timer"} /\ Resolved(f, "ok") /\ UNCHANGED spent
Answer(f) ==
    /\ futures[f].kind = "request" /\ UNCHANGED spent
    /\ Resolved(f, IF futures[f].owner = NoUser THEN "error" ELSE "ok")
Fail(f) ==
    /\ futures[f].kind = "request" /\ futures[f].owner # NoUser
    /\ spent.failures < MaxFailures /\ Spend("failures")
    /\ Resolved(f, "error")

Init ==
    /\ should_poll = FALSE /\ in_flight = None /\ next_poll = None
    /\ futures = [f \in FutureIds |-> NoFuture]
    /\ loaded = FALSE /\ online = TRUE
    /\ user \in {NoUser} \cup (Users \cap {1})
    /\ refreshing = user
    /\ dequeueing = FALSE
    /\ fetched = FALSE /\ missed = FALSE
    /\ spent = [logins |-> user, flips |-> 0, failures |-> 0, refreshes |-> 0]

Next ==
    \/ \E f \in FutureIds :
        \/ RequestSucceeded(f) \/ RequestFailed(f) \/ Retry(f) \/ PollAgain(f)
        \/ Elapse(f) \/ Answer(f) \/ Fail(f)
    \/ RefreshUpdatedObjects \/ InitiateDataPollers
    \/ GoOnline \/ GoOffline
    \/ LogIn \/ UserRefreshed \/ LogOut \/ AuthorizeDevice

Spec == Init /\ [][Next]_vars

\* The executors run what is ready, timers elapse, the server answers.
Fairness ==
    \A f \in FutureIds :
        /\ WF_vars(RequestSucceeded(f)) /\ WF_vars(RequestFailed(f))
        /\ WF_vars(Retry(f)) /\ WF_vars(PollAgain(f))
        /\ WF_vars(Elapse(f)) /\ WF_vars(Answer(f))

FairSpec == Spec /\ Fairness

-----------------------------------------------------------------------------
(* Properties *)

TypeOK ==
    /\ should_poll \in BOOLEAN /\ loaded \in BOOLEAN /\ online \in BOOLEAN
    /\ dequeueing \in BOOLEAN /\ fetched \in BOOLEAN /\ missed \in BOOLEAN
    /\ in_flight \in FutureIds \cup {None}
    /\ next_poll \in FutureIds \cup {None}
    /\ futures \in [FutureIds -> Future]
    /\ \A f \in FutureIds : futures[f].kind = "backoff" => futures[f].left > 0
    /\ user \in Users \cup {NoUser}
    /\ refreshing \in Users \cup {NoUser}
    /\ spent \in [logins : 0..MaxLogins, flips : 0..MaxFlips,
                  failures : 0..MaxFailures, refreshes : 0..MaxRefreshes]

\* start_polling_for_updated_objects does nothing when the flag is set, so the
\* flag must never outlive the loop: nothing would poll until the next logout.
FlagMeansLoop == should_poll => Loops # {}

\* While the app is online and its user known, it polls.
PollsWhileOnline == online /\ user # NoUser /\ fetched => should_poll

\* Loops multiply only when abort_existing_poll misses one: until then there is
\* at most one, and abort_existing_poll has its handle, but for the pauses and
\* requests of retries.
OneLoopUnlessMissed ==
    ~missed => \A f \in Loops :
        /\ \A g \in Loops : f = g
        /\ futures[f].kind = "timer" => next_poll = f
        /\ futures[f].kind = "request" /\ futures[f].left = MaxRetries =>
               in_flight = f

\* The sync queue is told to dequeue again and again while the app is online
\* and its user known, whatever happened before.
PolledAgainAndAgain ==
    <>[](online /\ user # NoUser /\ fetched) =>
        []<><<\E f \in FutureIds : RequestSucceeded(f)>>_vars

\* The wait for the initial load, which a login begins anew, comes to an end
\* once the app stays online and its user known.
InitialLoadCompletes ==
    <>[](online /\ user # NoUser /\ fetched) => <>[]loaded

\* A poller that is stopped for good comes to rest.
StoppedLoopsEnd == <>[]~should_poll => <>[](Loops = {})
==============================================================================
