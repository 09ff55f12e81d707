------------------------- MODULE ObjectPollerProofs --------------------------
(***************************************************************************)
(* The poller runs whenever it should, its flag never outlives its loop,   *)
(* and there is one loop until an abort misses it: for all bounds and any  *)
(* number of retries.                                                      *)
(***************************************************************************)
EXTENDS ObjectPoller, TLAPS

USE BoundsAssumption

\* The conjuncts of the invariant as predicates of what a handler leaves.
FuturesOK(fs) ==
    /\ fs \in [FutureIds -> Future]
    /\ \A f \in FutureIds : fs[f].kind = "backoff" => fs[f].left > 0
HandlesOK(inf, nxt) ==
    inf \in FutureIds \cup {None} /\ nxt \in FutureIds \cup {None}
HasLoop(fs) == \E f \in FutureIds : fs[f].poll
OneLoop(fs, inf, nxt) ==
    \A f \in FutureIds : fs[f].poll =>
        /\ \A g \in FutureIds : fs[g].poll => f = g
        /\ fs[f].kind = "timer" => nxt = f
        /\ fs[f].kind = "request" /\ fs[f].left = MaxRetries => inf = f

PollerOK ==
    /\ should_poll \in BOOLEAN /\ missed \in BOOLEAN
    /\ FuturesOK(futures) /\ HandlesOK(in_flight, next_poll)
    /\ should_poll => HasLoop(futures)
    /\ ~missed => OneLoop(futures, in_flight, next_poll)

RestOK ==
    /\ loaded \in BOOLEAN /\ online \in BOOLEAN
    /\ dequeueing \in BOOLEAN /\ fetched \in BOOLEAN
    /\ user \in Users \cup {NoUser} /\ refreshing \in Users \cup {NoUser}
    /\ spent \in [logins : 0..MaxLogins, flips : 0..MaxFlips,
                  failures : 0..MaxFailures, refreshes : 0..MaxRefreshes]

Inv == PollerOK /\ RestOK /\ PollsWhileOnline

\* The invariant is what the runs check, arranged for the proof.
LEMMA InvMeans ==
    Inv <=> TypeOK /\ FlagMeansLoop /\ OneLoopUnlessMissed /\ PollsWhileOnline
BY DEF Inv, PollerOK, RestOK, FuturesOK, HandlesOK, HasLoop, OneLoop, TypeOK,
       FlagMeansLoop, OneLoopUnlessMissed, Loops

LEMMA KindsOfFutures ==
    /\ NoFuture \in Future /\ NoFuture.kind = "none" /\ ~NoFuture.poll
    /\ NextPoll \in Future /\ NextPoll.kind = "timer" /\ NextPoll.poll
    /\ \A poll \in BOOLEAN, left \in 0..MaxRetries, u \in Users \cup {NoUser} :
        /\ Request(poll, left, u) \in Future /\ Backoff(poll, left) \in Future
        /\ Request(poll, left, u).kind = "request"
        /\ Request(poll, left, u).poll = poll
        /\ Request(poll, left, u).left = left
        /\ Backoff(poll, left).kind = "backoff" /\ Backoff(poll, left).poll = poll
        /\ Backoff(poll, left).left = left
BY DEF NoFuture, NextPoll, Request, Backoff, Future, NoUser

\* What abort_existing_poll leaves.
LEMMA SurvivingFutures ==
    ASSUME NEW fs, FuturesOK(fs)
    PROVE  /\ FuturesOK(Surviving(fs))
           /\ Missed(fs) \in BOOLEAN
           /\ ~Missed(fs) => \A f \in FutureIds : ~Surviving(fs)[f].poll
BY KindsOfFutures DEF FuturesOK, Surviving, Missed

\* poll_for_updated_objects starts the only loop it knows of.
LEMMA PollLeaves ==
    ASSUME NEW fs, FuturesOK(fs), missed \in BOOLEAN,
           NEW should \in BOOLEAN, NEW u \in Users \cup {NoUser},
           Poll(fs, should, u)
    PROVE  PollerOK' /\ should_poll' = (should /\ u # NoUser)
<1>1. should_poll' = (should /\ u # NoUser) /\ missed' = (missed \/ Missed(fs))
      /\ next_poll' = None
  BY DEF Poll
<1>2. should_poll' \in BOOLEAN /\ missed' \in BOOLEAN
  BY <1>1, SurvivingFutures
<1>3. ~missed' => \A f \in FutureIds : ~Surviving(fs)[f].poll
  BY <1>1, SurvivingFutures
<1>4. FuturesOK(Surviving(fs))
  BY SurvivingFutures
<1>5. CASE ~should \/ u = NoUser
  <2>1. futures' = Surviving(fs) /\ in_flight' = None
    BY <1>5 DEF Poll
  <2> QED
    BY <1>1, <1>2, <1>3, <1>4, <1>5, <2>1
    DEF PollerOK, HandlesOK, HasLoop, OneLoop
<1>6. CASE should /\ u # NoUser
  <2>1. PICK f \in FutureIds :
            /\ futures' = [Surviving(fs) EXCEPT ![f] = Request(TRUE, MaxRetries, u)]
            /\ in_flight' = f
    BY <1>6 DEF Poll
  <2>2. Request(TRUE, MaxRetries, u) \in Future
        /\ Request(TRUE, MaxRetries, u).kind = "request"
        /\ Request(TRUE, MaxRetries, u).poll
    <3>1. MaxRetries \in 0..MaxRetries
      OBVIOUS
    <3> QED
      BY <3>1 DEF Request, Future
  <2>3. futures'[f] = Request(TRUE, MaxRetries, u)
        /\ \A g \in FutureIds \ {f} : futures'[g] = Surviving(fs)[g]
    BY <1>4, <2>1 DEF FuturesOK
  <2>4. FuturesOK(futures')
    BY <1>4, <2>1, <2>2, <2>3 DEF FuturesOK
  <2>5. HasLoop(futures')
    BY <2>2, <2>3 DEF HasLoop
  <2>6. ~missed' => OneLoop(futures', in_flight', next_poll')
    BY <1>3, <2>1, <2>2, <2>3 DEF OneLoop
  <2> QED
    BY <1>1, <1>2, <2>1, <2>4, <2>5, <2>6 DEF PollerOK, HandlesOK
<1> QED
  BY <1>1, <1>5, <1>6

\* start_polling_for_updated_objects, on a state in which futures were spawned
\* that are not the loop's.
LEMMA StartLeaves ==
    ASSUME NEW fs, FuturesOK(fs), PollerOK,
           \A f \in FutureIds : (fs[f].poll <=> futures[f].poll) /\
               (futures[f].poll => fs[f] = futures[f]),
           NEW u \in Users \cup {NoUser}, NEW up \in BOOLEAN, Start(fs, u, up)
    PROVE  /\ PollerOK'
           /\ should_poll => should_poll'
           /\ up /\ u # NoUser => should_poll'
<1>1. CASE ~should_poll /\ up /\ Poll(fs, TRUE, u)
  BY <1>1, PollLeaves DEF PollerOK
<1>2. CASE /\ should_poll \/ ~up
           /\ futures' = fs
           /\ UNCHANGED <<should_poll, in_flight, next_poll, missed>>
  <2>1. HasLoop(futures) => HasLoop(fs)
    BY DEF HasLoop
  <2>2. OneLoop(futures, in_flight, next_poll) => OneLoop(fs, in_flight, next_poll)
    BY DEF OneLoop
  <2> QED
    BY <1>2, <2>1, <2>2 DEF PollerOK
<1> QED
  BY <1>1, <1>2 DEF Start

LEMMA StopLeaves ==
    ASSUME PollerOK, Stop
    PROVE  PollerOK'
<1>1. FuturesOK(Surviving(futures)) /\ Missed(futures) \in BOOLEAN
      /\ (~Missed(futures) => \A f \in FutureIds : ~Surviving(futures)[f].poll)
  BY SurvivingFutures DEF PollerOK
<1> QED
  BY <1>1 DEF PollerOK, Stop, HandlesOK, OneLoop

\* A callback that replaces its future by another one of the same loop, held
\* by the handle where it has one.
LEMMA Replaced ==
    ASSUME PollerOK, NEW f \in FutureIds, NEW g \in FutureIds, NEW new \in Future,
           Fresh(Without(f), g), new.kind # "none", new.poll = futures[f].poll,
           new.kind = "backoff" => new.left > 0, new.kind = "timer" => new.poll,
           futures' = [Without(f) EXCEPT ![g] = new],
           next_poll' = IF new.kind = "timer" THEN g ELSE next_poll,
           ~(new.kind = "request" /\ new.left = MaxRetries),
           UNCHANGED <<should_poll, in_flight, missed>>
    PROVE  PollerOK'
<1>1. \A h \in FutureIds : futures'[h] = IF h = g THEN new
                                         ELSE IF h = f THEN NoFuture ELSE futures[h]
  BY DEF PollerOK, FuturesOK, Without
<1>2. futures' \in [FutureIds -> Future]
  BY KindsOfFutures DEF PollerOK, FuturesOK, Without
<1>3. FuturesOK(futures')
  BY <1>1, <1>2, KindsOfFutures DEF PollerOK, FuturesOK
<1>4. g # f => futures[g] = NoFuture
  BY DEF Fresh, Without, PollerOK, FuturesOK
<1>5. \A h \in FutureIds : futures'[h].poll <=>
          \/ h = g /\ futures[f].poll
          \/ h # g /\ h # f /\ futures[h].poll
  BY <1>1, KindsOfFutures
<1>6. HasLoop(futures) => HasLoop(futures')
  BY <1>4, <1>5, KindsOfFutures DEF HasLoop
<1>7. ASSUME OneLoop(futures, in_flight, next_poll)
      PROVE  OneLoop(futures', in_flight', next_poll')
  BY <1>1, <1>4, <1>5, <1>7, KindsOfFutures DEF OneLoop
<1>8. HandlesOK(in_flight', next_poll')
  BY DEF PollerOK, HandlesOK
<1> QED
  BY <1>3, <1>6, <1>7, <1>8 DEF PollerOK

\* The callback of an out-of-band refresh that goes no further.
LEMMA Dropped ==
    ASSUME PollerOK, NEW f \in FutureIds, ~futures[f].poll,
           futures' = Without(f),
           UNCHANGED <<should_poll, in_flight, next_poll, missed>>
    PROVE  PollerOK'
<1>1. \A h \in FutureIds : futures'[h] = IF h = f THEN NoFuture ELSE futures[h]
  BY DEF PollerOK, FuturesOK, Without
<1>2. FuturesOK(futures')
  BY <1>1, KindsOfFutures DEF PollerOK, FuturesOK, Without
<1>3. \A h \in FutureIds : (futures'[h].poll <=> futures[h].poll)
      /\ (futures[h].poll => futures'[h] = futures[h])
  BY <1>1, KindsOfFutures
<1>4. HasLoop(futures) => HasLoop(futures')
  BY <1>3 DEF HasLoop
<1>5. OneLoop(futures, in_flight, next_poll) => OneLoop(futures', in_flight', next_poll')
  BY <1>3 DEF OneLoop
<1> QED
  BY <1>2, <1>4, <1>5 DEF PollerOK, HandlesOK

\* An out-of-band refresh is not of the loop.
LEMMA Refreshed ==
    ASSUME PollerOK, NEW f \in FutureIds, Fresh(futures, f),
           NEW u \in Users \cup {NoUser}
    PROVE  LET fs == [futures EXCEPT ![f] = Request(FALSE, MaxRetries, u)]
           IN  /\ FuturesOK(fs)
               /\ \A g \in FutureIds : (fs[g].poll <=> futures[g].poll)
                      /\ (futures[g].poll => fs[g] = futures[g])
<1> DEFINE fs == [futures EXCEPT ![f] = Request(FALSE, MaxRetries, u)]
<1>1. MaxRetries \in 0..MaxRetries
  OBVIOUS
<1>2. Request(FALSE, MaxRetries, u) \in Future
      /\ Request(FALSE, MaxRetries, u).kind = "request"
      /\ ~Request(FALSE, MaxRetries, u).poll
  BY <1>1 DEF Request, Future
<1>3. \A g \in FutureIds : fs[g] = IF g = f THEN Request(FALSE, MaxRetries, u)
                                    ELSE futures[g]
  BY DEF PollerOK, FuturesOK
<1>4. fs \in [FutureIds -> Future]
  BY <1>2 DEF PollerOK, FuturesOK
<1>5. ~futures[f].poll
  BY KindsOfFutures DEF Fresh
<1> HIDE DEF fs
<1>6. FuturesOK(fs)
  BY <1>2, <1>3, <1>4 DEF PollerOK, FuturesOK
<1>7. \A g \in FutureIds : (fs[g].poll <=> futures[g].poll)
          /\ (futures[g].poll => fs[g] = futures[g])
  BY <1>2, <1>3, <1>5
<1> QED
  BY <1>6, <1>7 DEF fs

LEMMA Spending ==
    ASSUME RestOK,
           \/ Spend("refreshes") /\ spent.refreshes < MaxRefreshes
           \/ Spend("flips") /\ spent.flips < MaxFlips
           \/ Spend("failures") /\ spent.failures < MaxFailures
           \/ Spend("logins") /\ spent.logins < MaxLogins
    PROVE  spent' \in [logins : 0..MaxLogins, flips : 0..MaxFlips,
                       failures : 0..MaxFailures, refreshes : 0..MaxRefreshes]
BY DEF RestOK, Spend

-----------------------------------------------------------------------------
LEMMA ContinueLeaves ==
    ASSUME PollerOK, NEW f \in FutureIds, Continue(f),
           UNCHANGED <<should_poll, in_flight, missed>>
    PROVE  PollerOK'
<1>1. CASE futures[f].poll
  <2>1. PICK g \in FutureIds :
            /\ Fresh(Without(f), g)
            /\ futures' = [Without(f) EXCEPT ![g] = NextPoll]
            /\ next_poll' = g
    BY <1>1 DEF Continue
  <2> QED
    BY <1>1, <2>1, KindsOfFutures, Replaced
<1>2. CASE ~futures[f].poll
  BY <1>2, Dropped DEF Continue
<1> QED
  BY <1>1, <1>2

LEMMA RequestSucceededInv ==
    ASSUME Inv, NEW f \in FutureIds, RequestSucceeded(f)
    PROVE  Inv'
<1>1. PollerOK'
  BY ContinueLeaves DEF Inv, RequestSucceeded
<1>2. RestOK'
  BY DEF Inv, PollerOK, FuturesOK, Future, RestOK, RequestSucceeded
<1> QED
  BY <1>1, <1>2 DEF Inv, PollsWhileOnline, RequestSucceeded

LEMMA RequestFailedInv ==
    ASSUME Inv, NEW f \in FutureIds, RequestFailed(f)
    PROVE  Inv'
<1>1. PollerOK'
  <2>1. CASE futures[f].left > 0 /\ UNCHANGED next_poll
             /\ \E g \in FutureIds :
                  /\ Fresh(Without(f), g)
                  /\ futures' = [Without(f) EXCEPT ![g] =
                                     Backoff(futures[f].poll, futures[f].left)]
    <3>1. PICK g \in FutureIds :
              /\ Fresh(Without(f), g)
              /\ futures' = [Without(f) EXCEPT ![g] =
                                 Backoff(futures[f].poll, futures[f].left)]
      BY <2>1
    <3>2. futures[f].poll \in BOOLEAN /\ futures[f].left \in 0..MaxRetries
      BY DEF Inv, PollerOK, FuturesOK, Future
    <3>3. UNCHANGED <<should_poll, in_flight, missed>>
      BY DEF RequestFailed
    <3>4. NoUser \in Users \cup {NoUser}
      OBVIOUS
    <3>5. LET new == Backoff(futures[f].poll, futures[f].left)
          IN  new \in Future /\ new.kind = "backoff" /\ new.poll = futures[f].poll
              /\ new.left > 0
      BY <2>1, <3>2, <3>4, KindsOfFutures
    <3> QED
      BY <2>1, <3>1, <3>3, <3>5, Replaced DEF Inv
  <2>2. CASE futures[f].left = 0 /\ Continue(f)
    BY <2>2, ContinueLeaves DEF Inv, RequestFailed
  <2> QED
    BY <2>1, <2>2 DEF RequestFailed
<1> QED
  BY <1>1 DEF Inv, RestOK, PollsWhileOnline, RequestFailed

LEMMA RetryInv ==
    ASSUME Inv, NEW f \in FutureIds, Retry(f)
    PROVE  Inv'
<1>1. PICK g \in FutureIds :
          /\ Fresh(Without(f), g)
          /\ futures' = [Without(f) EXCEPT ![g] =
                             Request(futures[f].poll, futures[f].left - 1, user)]
  BY DEF Retry
<1>2. futures[f].poll \in BOOLEAN /\ futures[f].left - 1 \in 0..MaxRetries
      /\ futures[f].left - 1 # MaxRetries
  BY DEF Inv, PollerOK, FuturesOK, Future, Retry
<1>3. UNCHANGED <<should_poll, in_flight, next_poll, missed>>
  BY DEF Retry
<1>4. user \in Users \cup {NoUser}
  BY DEF Inv, RestOK
<1>5. LET new == Request(futures[f].poll, futures[f].left - 1, user)
      IN  new \in Future /\ new.kind = "request" /\ new.poll = futures[f].poll
          /\ new.left # MaxRetries
  BY <1>2, <1>4, KindsOfFutures
<1>6. PollerOK'
  BY <1>1, <1>3, <1>5, Replaced DEF Inv
<1> QED
  BY <1>6 DEF Inv, RestOK, PollsWhileOnline, Retry

LEMMA PollAgainInv ==
    ASSUME Inv, NEW f \in FutureIds, PollAgain(f)
    PROVE  Inv'
<1>1. FuturesOK(Without(f))
  BY KindsOfFutures DEF Inv, PollerOK, FuturesOK, Without
<1>2. Poll(Without(f), should_poll, user) /\ user \in Users \cup {NoUser}
      /\ should_poll \in BOOLEAN /\ missed \in BOOLEAN
  BY DEF Inv, PollerOK, RestOK, PollAgain
<1>3. PollerOK' /\ should_poll' = (should_poll /\ user # NoUser)
  BY <1>1, <1>2, PollLeaves
<1> QED
  BY <1>3 DEF Inv, RestOK, PollsWhileOnline, PollAgain

LEMMA RefreshInv ==
    ASSUME Inv, RefreshUpdatedObjects
    PROVE  Inv'
<1>1. PICK f \in FutureIds :
          /\ Fresh(futures, f)
          /\ futures' = [futures EXCEPT ![f] = Request(FALSE, MaxRetries, user)]
  BY DEF RefreshUpdatedObjects
<1>2. user \in Users \cup {NoUser}
  BY DEF Inv, RestOK
<1>3. FuturesOK(futures') /\ \A g \in FutureIds :
          (futures'[g].poll <=> futures[g].poll) /\ (futures[g].poll => futures'[g] = futures[g])
  BY <1>1, <1>2, Refreshed DEF Inv
<1>4. PollerOK'
  BY <1>3 DEF Inv, PollerOK, HandlesOK, HasLoop, OneLoop, RefreshUpdatedObjects
<1>5. RestOK'
  BY Spending DEF Inv, RestOK, RefreshUpdatedObjects
<1> QED
  BY <1>4, <1>5 DEF Inv, PollsWhileOnline, RefreshUpdatedObjects

LEMMA InitiateInv ==
    ASSUME Inv, InitiateDataPollers
    PROVE  Inv'
<1>1. PICK f \in FutureIds :
          /\ Fresh(futures, f)
          /\ Start([futures EXCEPT ![f] = Request(FALSE, MaxRetries, user)],
                   user, online)
  BY DEF InitiateDataPollers
<1>2. user \in Users \cup {NoUser} /\ online \in BOOLEAN
  BY DEF Inv, RestOK
<1>3. PollerOK' /\ (should_poll => should_poll')
  BY <1>1, <1>2, Refreshed, StartLeaves DEF Inv
<1>4. RestOK'
  BY Spending DEF Inv, RestOK, InitiateDataPollers
<1> QED
  BY <1>3, <1>4 DEF Inv, PollsWhileOnline, InitiateDataPollers

LEMMA GoOnlineInv ==
    ASSUME Inv, GoOnline
    PROVE  Inv'
<1>1. FuturesOK(futures) /\ user \in Users \cup {NoUser}
  BY DEF Inv, PollerOK, RestOK
<1>2. PollerOK' /\ (user # NoUser => should_poll')
  BY <1>1, StartLeaves DEF Inv, GoOnline
<1> QED
  BY <1>2 DEF Inv, RestOK, PollsWhileOnline, GoOnline

LEMMA GoOfflineInv ==
    ASSUME Inv, GoOffline
    PROVE  Inv'
<1>1. PollerOK'
  BY StopLeaves DEF Inv, GoOffline
<1>2. RestOK'
  BY Spending DEF Inv, RestOK, GoOffline
<1> QED
  BY <1>1, <1>2 DEF Inv, PollsWhileOnline, GoOffline

LEMMA LogInInv ==
    ASSUME Inv, LogIn
    PROVE  Inv'
<1>1. spent.logins + 1 \in Users
  BY DEF Inv, RestOK, LogIn, Users
<1>2. FuturesOK(futures) /\ user' \in Users \cup {NoUser} /\ online \in BOOLEAN
  BY <1>1 DEF Inv, PollerOK, RestOK, LogIn
<1>3. user' # NoUser
  BY <1>1 DEF LogIn, Users, NoUser
<1>4. PollerOK' /\ (online => should_poll')
  BY <1>2, <1>3, StartLeaves DEF Inv, LogIn
<1>5. RestOK'
  BY <1>2, Spending DEF Inv, RestOK, LogIn
<1> QED
  BY <1>4, <1>5 DEF Inv, PollsWhileOnline, LogIn

LEMMA UserRefreshedInv ==
    ASSUME Inv, UserRefreshed
    PROVE  Inv'
<1>1. FuturesOK(futures) /\ refreshing \in Users \cup {NoUser}
      /\ online \in BOOLEAN
  BY DEF Inv, PollerOK, RestOK
<1>2. CASE user' = refreshing /\ fetched' = TRUE
           /\ Start(futures, refreshing, online)
  <2>1. PollerOK' /\ (online => should_poll')
    BY <1>1, <1>2, StartLeaves DEF Inv, UserRefreshed
  <2> QED
    BY <1>1, <1>2, <2>1 DEF Inv, RestOK, PollsWhileOnline, UserRefreshed
<1>3. CASE UNCHANGED <<pollerVars, user, fetched, missed>>
  BY <1>3 DEF Inv, PollerOK, RestOK, PollsWhileOnline, UserRefreshed, pollerVars
<1> QED
  BY <1>2, <1>3 DEF UserRefreshed

LEMMA LogOutInv ==
    ASSUME Inv, LogOut
    PROVE  Inv'
<1>1. PollerOK'
  BY StopLeaves DEF Inv, LogOut
<1> QED
  BY <1>1 DEF Inv, RestOK, PollsWhileOnline, LogOut

LEMMA AuthorizeDeviceInv ==
    ASSUME Inv, AuthorizeDevice
    PROVE  Inv'
BY DEF Inv, PollerOK, RestOK, PollsWhileOnline, AuthorizeDevice, pollerVars

\* A future that resolves stays what it was.
LEMMA ResolvedLeaves ==
    ASSUME PollerOK, NEW f \in FutureIds, NEW how \in {"ok", "error"},
           Resolved(f, how)
    PROVE  PollerOK'
<1>1. futures' = [futures EXCEPT ![f].state = how]
      /\ UNCHANGED <<should_poll, in_flight, next_poll, missed>>
  BY DEF Resolved
<1>2. \A g \in FutureIds :
          futures'[g].poll = futures[g].poll /\ futures'[g].kind = futures[g].kind
          /\ futures'[g].left = futures[g].left
  BY <1>1 DEF PollerOK, FuturesOK, Future
<1>3. futures' \in [FutureIds -> Future]
  BY <1>1 DEF PollerOK, FuturesOK, Future
<1>4. FuturesOK(futures')
  BY <1>2, <1>3 DEF PollerOK, FuturesOK
<1> QED
  BY <1>1, <1>2, <1>4 DEF PollerOK, HandlesOK, HasLoop, OneLoop

LEMMA EnvironmentInv ==
    ASSUME Inv, NEW f \in FutureIds, Elapse(f) \/ Answer(f) \/ Fail(f)
    PROVE  Inv'
<1>1. PICK how \in {"ok", "error"} : Resolved(f, how)
  BY DEF Elapse, Answer, Fail
<1>2. PollerOK'
  BY <1>1, ResolvedLeaves DEF Inv
<1>3. spent' \in [logins : 0..MaxLogins, flips : 0..MaxFlips,
                  failures : 0..MaxFailures, refreshes : 0..MaxRefreshes]
  BY Spending DEF Inv, RestOK, Elapse, Answer, Fail
<1> QED
  BY <1>1, <1>2, <1>3 DEF Inv, RestOK, PollsWhileOnline, Resolved

-----------------------------------------------------------------------------
LEMMA InitInv == Init => Inv
<1> SUFFICES ASSUME Init PROVE Inv
  OBVIOUS
<1>1. PollerOK
  BY KindsOfFutures
  DEF Init, PollerOK, FuturesOK, HandlesOK, OneLoop
<1>2. user \in Users \cup {NoUser} /\ user \in 0..MaxLogins
  BY DEF Init, Users, NoUser
<1>3. 0 \in 0..MaxFlips /\ 0 \in 0..MaxFailures /\ 0 \in 0..MaxRefreshes
  OBVIOUS
<1>4. spent \in [logins : 0..MaxLogins, flips : 0..MaxFlips,
                 failures : 0..MaxFailures, refreshes : 0..MaxRefreshes]
  BY <1>2, <1>3 DEF Init
<1>5. RestOK
  BY <1>2, <1>4 DEF Init, RestOK
<1> QED
  BY <1>1, <1>5 DEF Init, Inv, PollsWhileOnline

LEMMA NextInv == Inv /\ [Next]_vars => Inv'
<1> SUFFICES ASSUME Inv, [Next]_vars PROVE Inv'
  OBVIOUS
<1>1. ASSUME NEW f \in FutureIds, RequestSucceeded(f) PROVE Inv'
  BY <1>1, RequestSucceededInv
<1>2. ASSUME NEW f \in FutureIds, RequestFailed(f) PROVE Inv'
  BY <1>2, RequestFailedInv
<1>3. ASSUME NEW f \in FutureIds, Retry(f) PROVE Inv'
  BY <1>3, RetryInv
<1>4. ASSUME NEW f \in FutureIds, PollAgain(f) PROVE Inv'
  BY <1>4, PollAgainInv
<1>5. ASSUME NEW f \in FutureIds, Elapse(f) \/ Answer(f) \/ Fail(f) PROVE Inv'
  BY <1>5, EnvironmentInv
<1>6. CASE RefreshUpdatedObjects \/ InitiateDataPollers
  BY <1>6, RefreshInv, InitiateInv
<1>7. CASE GoOnline \/ GoOffline
  BY <1>7, GoOnlineInv, GoOfflineInv
<1>8. CASE LogIn \/ UserRefreshed \/ LogOut \/ AuthorizeDevice
  BY <1>8, LogInInv, UserRefreshedInv, LogOutInv, AuthorizeDeviceInv
<1>9. CASE UNCHANGED vars
  BY <1>9 DEF Inv, PollerOK, RestOK, PollsWhileOnline, vars, pollerVars
<1> QED
  BY <1>1, <1>2, <1>3, <1>4, <1>5, <1>6, <1>7, <1>8, <1>9 DEF Next

LEMMA Invariance == Spec => []Inv
<1> QED
  BY InitInv, NextInv, PTL DEF Spec

\* The flag never outlives the loop, so a start that finds it set is right to
\* do nothing (poll_for_updated_objects and its callbacks).
THEOREM FlagHasLoop == Spec => []FlagMeansLoop
<1>1. Inv => FlagMeansLoop
  BY InvMeans
<1> QED
  BY <1>1, Invariance, PTL

\* While the app is online and its user known, it polls (the handlers of the
\* network status, of logins and of logouts).
THEOREM OnlinePolls == Spec => []PollsWhileOnline
<1>1. Inv => PollsWhileOnline
  BY DEF Inv
<1> QED
  BY <1>1, Invariance, PTL

\* Until abort_existing_poll misses a future there is one loop, and it has its
\* handle outside retries.
THEOREM LoopsDoNotMultiply == Spec => []OneLoopUnlessMissed
<1>1. Inv => OneLoopUnlessMissed
  BY InvMeans
<1> QED
  BY <1>1, Invariance, PTL

\* Every variable has its type, and no pause before a retry is without a retry
\* left (spawn_with_retry_on_error_when).
THEOREM PollerTypes == Spec => []TypeOK
<1>1. Inv => TypeOK
  BY InvMeans
<1> QED
  BY <1>1, Invariance, PTL
==============================================================================
