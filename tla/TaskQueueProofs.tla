--------------------------- MODULE TaskQueueProofs ---------------------------
(***************************************************************************)
(* TaskQueue keeps its invariants and implements TaskService, for every    *)
(* number of tasks, cancellers and subscribers and every bound.            *)
(***************************************************************************)
EXTENDS TaskQueue, TLAPS

USE DEF Listeners

USE DEF Waiting, Inside, procVars, observers

\* The processor holds a task exactly while it works on it.
Holding ==
    /\ current = NoTask <=> pc \in {"idle", "stopped"}
    /\ polling => pc \in Inside
    /\ pc \in {"done", "deliver"} => result # "none"
    /\ pc \in {"done", "deliver"} /\ result = "aborted" => current \in aborted
    /\ pc = "token" => tries = 0
    /\ pc \in {"start", "backoff"} => tries <= MaxRetries

\* An unresolved task is in the map or held, never both.
Owned ==
    /\ Open = task_map \cup (Tasks \cap {current})
    /\ current \notin task_map

\* What has been aborted, or may be, was enqueued and taken from the map.
Touched == aborted \cup ({handle} \ {NoTask})
Taken == \A t \in Touched : t \notin task_map /\ caller[t] # "new"

\* A task that has not been enqueued is not open nor known to a canceller.
Fresh ==
    \A t \in Tasks : caller[t] = "new" =>
        /\ outcome[t] = "new"
        /\ t \notin revoked
        /\ \A c \in Cancellers : t \notin seen[c]

Inv ==
    /\ TypeOK /\ Holding /\ Owned /\ HandleIsCurrent /\ Taken /\ Fresh
    /\ AtMostOneSurvivor

LEMMA InitInv == Init => Inv
<1> SUFFICES ASSUME Init PROVE Inv
    OBVIOUS
<1> USE TasksAssumption, NumbersAssumption DEF Init
<1>1. TypeOK
    <2>1. /\ channel \in Seq(Tasks)
          /\ Listeners \in {{}, Subscribers} /\ inbox \in [Listeners -> Seq(Tasks)]
          /\ ahead \in [Tasks -> SUBSET Tasks]
          /\ seen \in [Cancellers -> SUBSET Tasks]
        OBVIOUS
    <2>2. 0 \in 0..(MaxRetries + 1) /\ MaxRpm \in 0..MaxRpm
        OBVIOUS
    <2> QED
        BY <2>1, <2>2 DEF TypeOK
<1>2. Holding
    BY DEF Holding
<1>3. Owned
    BY DEF Owned, Open
<1>4. HandleIsCurrent /\ Taken /\ Fresh
    BY DEF HandleIsCurrent, Taken, Touched, Fresh
<1>5. AtMostOneSurvivor
    BY DEF AtMostOneSurvivor
<1> QED
    BY <1>1, <1>2, <1>3, <1>4, <1>5 DEF Inv

\* Resolving tasks keeps the type of outcome and closes what was open.
LEMMA ResolvedOpen ==
    ASSUME TypeOK, NEW T \in SUBSET Tasks,
           NEW o \in {"ok", "error", "cancelled", "lost"},
           outcome' = Resolved(T, o)
    PROVE  /\ outcome' \in [Tasks -> {"new", "open", "ok", "error", "cancelled", "lost"}]
           /\ Open' = Open \ T
    BY DEF TypeOK, Resolved, Open

LEMMA InsertInv == ASSUME Inv, NEW t \in Tasks, Insert(t) PROVE Inv'
<1> USE TasksAssumption, NumbersAssumption DEF Inv, Insert
<1>1. /\ outcome' \in [Tasks -> {"new", "open", "ok", "error", "cancelled", "lost"}]
      /\ Open' = Open \cup {t}
    BY DEF TypeOK, Resolved, Open
<1>2. TypeOK'
    BY <1>1 DEF TypeOK
<1>3. Holding' /\ HandleIsCurrent'
    BY DEF Holding, HandleIsCurrent
<1>4. t # current /\ t \notin task_map
    BY DEF Fresh, Owned, Open, TypeOK
<1>5. Owned'
    BY <1>1, <1>4 DEF Owned, TypeOK
<1>6. Taken'
    BY DEF Taken, Touched, TypeOK
<1>7. Fresh'
    BY DEF Fresh, TypeOK, Resolved
<1>8. AtMostOneSurvivor'
    BY <1>1 DEF AtMostOneSurvivor, Fresh
<1> QED
    BY <1>2, <1>3, <1>5, <1>6, <1>7, <1>8

LEMMA SendInv == ASSUME Inv, NEW t \in Tasks, Send(t) PROVE Inv'
<1> USE TasksAssumption, NumbersAssumption DEF Inv, Send
<1>1. CASE pc # "stopped"
    <2>1. TypeOK'
        <3>1. channel' \in Seq(Tasks)
            <4>1. channel' = Append(channel, t)
                BY <1>1
            <4>2. channel \in Seq(Tasks) => Append(channel, t) \in Seq(Tasks)
                BY ONLY t \in Tasks
            <4> QED
                BY <4>1, <4>2 DEF TypeOK
        <3>2. caller' \in [Tasks -> {"new", "inserted", "returned"}]
            BY DEF TypeOK
        <3> QED
            BY <1>1, <3>1, <3>2 DEF TypeOK
    <2>2. Holding' /\ HandleIsCurrent' /\ Owned' /\ AtMostOneSurvivor'
        BY <1>1 DEF Holding, HandleIsCurrent, Owned, AtMostOneSurvivor, Open
    <2>3. Taken' /\ Fresh'
        BY <1>1 DEF Taken, Touched, Fresh, TypeOK
    <2> QED
        BY <2>1, <2>2, <2>3
<1>2. CASE pc = "stopped"
    <2>1. /\ outcome' \in [Tasks -> {"new", "open", "ok", "error", "cancelled", "lost"}]
          /\ Open' = Open \ (task_map \cap {t})
        BY <1>2, ResolvedOpen DEF TypeOK
    <2>2. TypeOK'
        BY <1>2, <2>1 DEF TypeOK
    <2>3. Holding' /\ HandleIsCurrent'
        BY <1>2 DEF Holding, HandleIsCurrent
    <2>4. Owned'
        BY <1>2, <2>1 DEF Owned, TypeOK
    <2>5. Taken'
        BY <1>2 DEF Taken, Touched, TypeOK
    <2>6. Fresh'
        BY <1>2 DEF Fresh, TypeOK, Resolved, Owned, Open
    <2>7. AtMostOneSurvivor'
        BY <1>2, <2>1 DEF AtMostOneSurvivor
    <2> QED
        BY <2>2, <2>3, <2>4, <2>5, <2>6, <2>7
<1> QED
    BY <1>1, <1>2

LEMMA CancelActiveInv ==
    ASSUME Inv, NEW c \in Cancellers, CancelActive(c) PROVE Inv'
<1> USE TasksAssumption, NumbersAssumption DEF Inv, CancelActive
<1>1. TypeOK'
    BY DEF TypeOK, Open
<1>2. Holding' /\ HandleIsCurrent' /\ Owned' /\ AtMostOneSurvivor'
    BY DEF Holding, HandleIsCurrent, Owned, AtMostOneSurvivor, Open
<1>3. Taken'
    BY DEF Taken, Touched
<1>4. Fresh'
    BY DEF Fresh, TypeOK, Open
<1> QED
    BY <1>1, <1>2, <1>3, <1>4

LEMMA CancelPendingInv ==
    ASSUME Inv, NEW c \in Cancellers, CancelPending(c) PROVE Inv'
<1> USE TasksAssumption, NumbersAssumption DEF Inv, CancelPending
<1>1. /\ outcome' \in [Tasks -> {"new", "open", "ok", "error", "cancelled", "lost"}]
      /\ Open' = Open \ task_map
    BY ResolvedOpen DEF TypeOK
<1>2. TypeOK'
    BY <1>1 DEF TypeOK
<1>3. Holding' /\ HandleIsCurrent'
    BY DEF Holding, HandleIsCurrent
<1>4. Owned' /\ AtMostOneSurvivor'
    BY <1>1 DEF Owned, AtMostOneSurvivor, TypeOK
<1>5. Taken'
    BY DEF Taken, Touched
<1>6. Fresh'
    BY DEF Fresh, TypeOK, Resolved, Owned, Open
<1> QED
    BY <1>2, <1>3, <1>4, <1>5, <1>6

LEMMA ReceiveInv == ASSUME Inv, Receive PROVE Inv'
<1> USE TasksAssumption, NumbersAssumption DEF Inv, Receive
<1>1. Head(channel) \in Tasks /\ Tail(channel) \in Seq(Tasks)
    BY DEF TypeOK
<1>2. current = NoTask
    BY DEF Holding
<1>3. CASE Head(channel) \in task_map
    <2>1. TypeOK'
        BY <1>1, <1>3 DEF TypeOK
    <2>2. Holding' /\ HandleIsCurrent'
        BY <1>1, <1>3 DEF Holding, HandleIsCurrent
    <2>3. Owned' /\ Taken' /\ Fresh'
        BY <1>1, <1>2, <1>3 DEF Owned, Taken, Touched, Fresh, Open, TypeOK
    <2>4. AtMostOneSurvivor'
        BY <1>2, <1>3 DEF AtMostOneSurvivor, Open
    <2> QED
        BY <2>1, <2>2, <2>3, <2>4
<1>4. CASE Head(channel) \notin task_map
    BY <1>1, <1>4 DEF TypeOK, Holding, HandleIsCurrent, Owned, Taken, Touched,
       Fresh, AtMostOneSurvivor, Open
<1> QED
    BY <1>3, <1>4

\* What the steps between StoreHandle and ClearHandle leave alone is enough for
\* every conjunct but the types and Holding.
LEMMA InsideInv ==
    ASSUME Inv, TypeOK', Holding', HandleIsCurrent',
           UNCHANGED <<task_map, caller, outcome, handle, aborted, current,
                       seen, revoked>>
    PROVE  Inv'
<1> USE DEF Inv
<1>1. Open' = Open
    BY DEF Open
<1>2. Owned' /\ AtMostOneSurvivor'
    BY <1>1 DEF Owned, AtMostOneSurvivor
<1>3. Taken' /\ Fresh'
    BY DEF Taken, Touched, Fresh
<1> QED
    BY <1>2, <1>3

LEMMA StoreHandleInv == ASSUME Inv, StoreHandle PROVE Inv'
<1> USE TasksAssumption, NumbersAssumption DEF Inv, StoreHandle
<1>1. current \in Tasks /\ current \notin task_map /\ caller[current] # "new"
    BY DEF TypeOK, Holding, Owned, Fresh, Open
<1>2. TypeOK'
    BY <1>1 DEF TypeOK
<1>3. Holding' /\ HandleIsCurrent'
    BY <1>1 DEF Holding, HandleIsCurrent
<1>4. Owned' /\ AtMostOneSurvivor' /\ Fresh'
    BY DEF Owned, AtMostOneSurvivor, Open, Fresh
<1>5. Taken'
    BY <1>1 DEF Taken, Touched
<1> QED
    BY <1>2, <1>3, <1>4, <1>5

LEMMA PollInv == ASSUME Inv, Poll \/ Suspend PROVE Inv'
<1> USE TasksAssumption, NumbersAssumption DEF Inv, Poll, Suspend, Finish
<1>1. TypeOK'
    BY DEF TypeOK
<1>2. Holding' /\ HandleIsCurrent'
    BY DEF Holding, HandleIsCurrent
<1> QED
    BY <1>1, <1>2, InsideInv

LEMMA AttemptInv ==
    ASSUME Inv,
           \/ TakeToken \/ StartAttempt \/ AttemptSucceeds \/ EndBackoff
           \/ \E transient \in BOOLEAN : AttemptFails(transient)
    PROVE  Inv'
<1> USE TasksAssumption, NumbersAssumption DEF Inv
<1>1. CASE TakeToken
    <2>1. TypeOK'
        BY <1>1 DEF TakeToken, TypeOK
    <2>2. Holding' /\ HandleIsCurrent'
        BY <1>1 DEF TakeToken, TypeOK, Holding, HandleIsCurrent
    <2> QED
        BY <1>1, <2>1, <2>2, InsideInv DEF TakeToken
<1>2. CASE StartAttempt
    <2>1. TypeOK'
        BY <1>2 DEF StartAttempt, TypeOK, Holding
    <2>2. Holding' /\ HandleIsCurrent'
        BY <1>2 DEF StartAttempt, Holding, HandleIsCurrent
    <2> QED
        BY <1>2, <2>1, <2>2, InsideInv DEF StartAttempt
<1>3. CASE AttemptSucceeds
    <2>1. TypeOK'
        BY <1>3 DEF AttemptSucceeds, Finish, TypeOK
    <2>2. Holding' /\ HandleIsCurrent'
        BY <1>3 DEF AttemptSucceeds, Finish, Holding, HandleIsCurrent
    <2> QED
        BY <1>3, <2>1, <2>2, InsideInv DEF AttemptSucceeds
<1>4. CASE EndBackoff
    <2>1. TypeOK'
        BY <1>4 DEF EndBackoff, TypeOK
    <2>2. Holding' /\ HandleIsCurrent'
        BY <1>4 DEF EndBackoff, Holding, HandleIsCurrent
    <2> QED
        BY <1>4, <2>1, <2>2, InsideInv DEF EndBackoff
<1>5. ASSUME NEW transient \in BOOLEAN, AttemptFails(transient) PROVE Inv'
    <2>1. TypeOK'
        BY <1>5 DEF AttemptFails, Finish, TypeOK
    <2>2. Holding' /\ HandleIsCurrent'
        BY <1>5 DEF AttemptFails, Finish, Holding, HandleIsCurrent
    <2> QED
        BY <1>5, <2>1, <2>2, InsideInv DEF AttemptFails
<1> QED
    BY <1>1, <1>2, <1>3, <1>4, <1>5

LEMMA ClearHandleInv == ASSUME Inv, ClearHandle PROVE Inv'
<1> USE TasksAssumption DEF Inv, ClearHandle
<1>1. TypeOK'
    BY DEF TypeOK
<1>2. Holding' /\ HandleIsCurrent' /\ Taken'
    BY DEF Holding, HandleIsCurrent, Taken, Touched
<1>3. Owned' /\ AtMostOneSurvivor' /\ Fresh'
    BY DEF Owned, AtMostOneSurvivor, Open, Fresh
<1> QED
    BY <1>1, <1>2, <1>3

\* What becomes of a task the processor has finished.
Final ==
    IF result = "aborted" THEN "cancelled"
    ELSE IF Streaming /\ ~Deliverable THEN "lost" ELSE result

LEMMA DeliverOutcome ==
    ASSUME Inv, Deliver
    PROVE  /\ current \in Tasks /\ handle = NoTask
           /\ outcome' = Resolved({current}, Final)
           /\ Final \in {"ok", "error", "lost", "cancelled"}
           /\ Final = "cancelled" <=> result = "aborted"
<1> USE TasksAssumption DEF Inv, Deliver
<1>1. current \in Tasks /\ handle = NoTask
    BY DEF TypeOK, Holding, HandleIsCurrent
<1>2. outcome' = Resolved({current}, Final)
    BY DEF Final
<1>3. result \in {"ok", "error", "aborted"}
    BY DEF TypeOK, Holding
<1> QED
    BY <1>1, <1>2, <1>3 DEF Final

LEMMA DeliverInv == ASSUME Inv, Deliver PROVE Inv'
<1> USE TasksAssumption, NumbersAssumption DEF Inv
<1>1. /\ outcome' \in [Tasks -> {"new", "open", "ok", "error", "cancelled", "lost"}]
      /\ Open' = Open \ {current}
    BY DeliverOutcome, ResolvedOpen
<1>2. Listeners' = Listeners /\ inbox' \in [Listeners -> Seq(Tasks)]
    <2>1. current \in Tasks
        BY DeliverOutcome
    <2>2. \A s \in Listeners : Append(inbox[s], current) \in Seq(Tasks)
        BY <2>1 DEF TypeOK
    <2> QED
        BY <2>2 DEF Deliver, TypeOK
<1>3. TypeOK'
    <2>1. /\ pc' = "idle" /\ current' = NoTask /\ result' = "none"
          /\ tries' = 0 /\ 0 \in 0..(MaxRetries + 1)
          /\ UNCHANGED <<task_map, channel, caller, handle, aborted, canceller,
                         polling, tokens, ahead, seen, revoked>>
        BY DEF Deliver
    <2> QED
        BY <1>1, <1>2, <2>1 DEF TypeOK
<1>4. Holding' /\ HandleIsCurrent' /\ Taken'
    BY DeliverOutcome DEF Deliver, Holding, HandleIsCurrent, Taken, Touched
<1>5. Owned' /\ AtMostOneSurvivor'
    BY <1>1, DeliverOutcome DEF Deliver, Owned, AtMostOneSurvivor, TypeOK
<1>6. Fresh'
    <2>1. caller[current] # "new"
        BY DeliverOutcome DEF Fresh, Owned, Open
    <2> QED
        BY <2>1, DeliverOutcome DEF Deliver, Fresh, Resolved
<1> QED
    BY <1>3, <1>4, <1>5, <1>6

LEMMA StopInv == ASSUME Inv, Stop PROVE Inv'
<1> USE TasksAssumption, NumbersAssumption DEF Inv, Stop
<1>1. /\ outcome' \in [Tasks -> {"new", "open", "ok", "error", "cancelled", "lost"}]
      /\ Open' = Open \ (Tasks \cap {current})
    BY ResolvedOpen
<1>2. TypeOK'
    <2>1. channel' \in Seq(Tasks) /\ tries' \in 0..(MaxRetries + 1)
        OBVIOUS
    <2>2. pc' = "stopped" /\ polling' \in BOOLEAN /\ current' = NoTask
        OBVIOUS
    <2>3. UNCHANGED <<task_map, caller, handle, aborted, canceller, result,
                      tokens, inbox, ahead, seen, revoked>>
        OBVIOUS
    <2> HIDE DEF Stop
    <2> QED
        BY <1>1, <2>1, <2>2, <2>3 DEF TypeOK
<1>3. Holding' /\ HandleIsCurrent' /\ Taken'
    BY DEF Holding, HandleIsCurrent, Taken, Touched
<1>4. Owned' /\ AtMostOneSurvivor'
    BY <1>1 DEF Owned, AtMostOneSurvivor, TypeOK
<1>5. Fresh'
    BY DEF Fresh, Resolved, Owned, Open
<1> QED
    BY <1>2, <1>3, <1>4, <1>5

LEMMA NextInv == ASSUME Inv, [Next]_vars PROVE Inv'
<1>1. CASE UNCHANGED vars
    <2> USE <1>1 DEF Inv, vars
    <2>1. Open' = Open
        BY DEF Open
    <2>2. TypeOK' /\ Holding' /\ HandleIsCurrent'
        BY DEF TypeOK, Holding, HandleIsCurrent
    <2>3. Owned' /\ Taken' /\ Fresh' /\ AtMostOneSurvivor'
        BY <2>1 DEF Owned, Taken, Touched, Fresh, AtMostOneSurvivor
    <2> QED
        BY <2>2, <2>3
<1>2. CASE Refill
    <2>1. tokens' \in 0..MaxRpm
        BY <1>2, NumbersAssumption DEF Inv, Refill, TypeOK
    <2>2. TypeOK'
        BY <1>2, <2>1 DEF Inv, Refill, TypeOK
    <2>3. Holding' /\ HandleIsCurrent'
        BY <1>2 DEF Inv, Refill, Holding, HandleIsCurrent
    <2> QED
        BY <1>2, <2>2, <2>3, InsideInv DEF Refill
<1>3. ASSUME NEW s \in Listeners, Read(s) PROVE Inv'
    <2>1. Tail(inbox[s]) \in Seq(Tasks)
        BY <1>3 DEF Inv, Read, TypeOK
    <2>2. TypeOK' /\ Holding' /\ HandleIsCurrent'
        BY <1>3, <2>1 DEF Inv, Read, TypeOK, Holding, HandleIsCurrent
    <2> QED
        BY <1>3, <2>2, InsideInv DEF Read
<1> QED
    BY <1>1, <1>2, <1>3, InsertInv, SendInv, CancelActiveInv, CancelPendingInv,
       ReceiveInv, StoreHandleInv, PollInv, AttemptInv, ClearHandleInv,
       DeliverInv, StopInv DEF Next

LEMMA Invariance == Spec => []Inv
<1>1. Init => Inv
    BY InitInv
<1>2. Inv /\ [Next]_vars => Inv'
    BY NextInv
<1> QED
    BY <1>1, <1>2, PTL DEF Spec

\* When cancel_all has returned, at most the task the processor holds goes on,
\* however many tasks, callers and cancellers there are.
THEOREM OneSurvivor == Spec => []AtMostOneSurvivor
<1>1. Inv => AtMostOneSurvivor
    BY DEF Inv
<1> QED
    BY <1>1, Invariance, PTL

\* cancel_all aborts no task other than the one the processor holds.
THEOREM HandleCurrent == Spec => []HandleIsCurrent
<1>1. Inv => HandleIsCurrent
    BY DEF Inv
<1> QED
    BY <1>1, Invariance, PTL

\* Every variable has its type in every behaviour.
THEOREM QueueTypes == Spec => []TypeOK
<1>1. Inv => TypeOK
    BY DEF Inv
<1> QED
    BY <1>1, Invariance, PTL

-----------------------------------------------------------------------------
(* The channel: what is in it, and in which order.                          *)

\* An id is sent once, and the receiver finds what was enqueued before it first.
SentOnce ==
    /\ \A i \in DOMAIN channel : caller[channel[i]] = "returned"
    /\ \A i, j \in DOMAIN channel : channel[i] = channel[j] => i = j
InOrder ==
    /\ \A t \in Tasks : \A u \in ahead[t] : caller[u] = "returned" /\ u # t
    /\ \A i, j \in DOMAIN channel : channel[j] \in ahead[channel[i]] => j < i
NoneLost ==
    pc # "stopped" => \A t \in task_map :
        caller[t] = "inserted" \/ \E i \in DOMAIN channel : channel[i] = t
ChannelInv == SentOnce /\ InOrder /\ NoneLost

\* What leaves the channel, the callers and the map alone keeps the invariant.
LEMMA ChannelUntouched ==
    ASSUME ChannelInv, UNCHANGED <<channel, caller, ahead, task_map>>,
           pc' # "stopped" => pc # "stopped"
    PROVE  ChannelInv'
BY DEF ChannelInv, SentOnce, InOrder, NoneLost

LEMMA InsertChannel ==
    ASSUME Inv, ChannelInv, NEW t \in Tasks, Insert(t) PROVE ChannelInv'
<1> USE DEF Insert, ChannelInv
<1>1. /\ caller' \in [Tasks -> {"new", "inserted", "returned"}]
      /\ caller'[t] = "inserted" /\ \A u \in Tasks \ {t} : caller'[u] = caller[u]
      /\ ahead'[t] = {u \in Tasks : caller[u] = "returned"}
      /\ \A u \in Tasks \ {t} : ahead'[u] = ahead[u]
      /\ \A u \in Tasks : ahead[u] \subseteq Tasks
    BY DEF Inv, TypeOK
<1>2. \A i \in DOMAIN channel : channel[i] \in Tasks \ {t}
    BY DEF Inv, TypeOK, SentOnce
<1>3. SentOnce'
    BY <1>1, <1>2 DEF SentOnce
<1>4. InOrder'
    <2>1. \A v \in Tasks : \A u \in ahead'[v] : caller'[u] = "returned" /\ u # v
        BY <1>1 DEF InOrder
    <2>2. \A i, j \in DOMAIN channel' : channel'[j] \in ahead'[channel'[i]] => j < i
        BY <1>1, <1>2 DEF InOrder
    <2> QED
        BY <2>1, <2>2 DEF InOrder
<1>5. NoneLost'
    BY <1>1 DEF NoneLost, Inv, TypeOK
<1> QED
    BY <1>3, <1>4, <1>5

LEMMA SendChannel ==
    ASSUME Inv, ChannelInv, NEW t \in Tasks, Send(t) PROVE ChannelInv'
<1> USE DEF ChannelInv
<1>1. /\ caller[t] = "inserted" /\ caller'[t] = "returned"
      /\ \A u \in Tasks \ {t} : caller'[u] = caller[u]
      /\ ahead' = ahead /\ pc' = pc
    BY DEF Send, Inv, TypeOK
<1>2. \A i \in DOMAIN channel : channel[i] \in Tasks \ {t}
    BY <1>1 DEF Inv, TypeOK, SentOnce
<1>3. \A u \in Tasks : t \notin ahead[u] /\ ahead[u] \subseteq Tasks
    BY <1>1 DEF Inv, TypeOK, InOrder
<1>4. CASE pc = "stopped"
    <2>1. channel' = channel
        BY <1>4 DEF Send
    <2>2. SentOnce'
        BY <1>1, <1>2, <2>1 DEF SentOnce
    <2>3. InOrder'
        BY <1>1, <1>2, <1>3, <2>1 DEF InOrder
    <2> QED
        BY <1>1, <1>4, <2>2, <2>3 DEF NoneLost
<1>5. CASE pc # "stopped"
    <2>1. channel' = Append(channel, t) /\ task_map' = task_map
        BY <1>5 DEF Send
    <2>2. /\ Len(channel') = Len(channel) + 1
          /\ channel'[Len(channel) + 1] = t
          /\ \A i \in DOMAIN channel : channel'[i] = channel[i]
          /\ DOMAIN channel = 1..Len(channel)
          /\ DOMAIN channel' = 1..(Len(channel) + 1)
          /\ Len(channel) \in Nat
        BY <2>1 DEF Inv, TypeOK
    <2>3. SentOnce'
        BY <1>1, <1>2, <2>2 DEF SentOnce
    <2>4. InOrder'
        <3>1. \A v \in Tasks : \A u \in ahead'[v] : caller'[u] = "returned" /\ u # v
            BY <1>1, <1>3 DEF InOrder
        <3>2. ASSUME NEW i \in DOMAIN channel', NEW j \in DOMAIN channel',
                     channel'[j] \in ahead'[channel'[i]]
              PROVE  j < i
            <4>1. channel'[i] \in Tasks
                BY <1>2, <2>2
            <4>2. j # Len(channel) + 1
                BY <1>1, <1>3, <2>2, <3>2, <4>1
            <4>3. j \in DOMAIN channel
                BY <2>2, <4>2
            <4>4. CASE i \in DOMAIN channel
                BY <1>1, <2>2, <3>2, <4>3, <4>4 DEF InOrder
            <4>5. CASE i = Len(channel) + 1
                BY <2>2, <4>3, <4>5
            <4> QED
                BY <2>2, <4>4, <4>5
        <3> QED
            BY <3>1, <3>2 DEF InOrder
    <2>5. NoneLost'
        <3>1. ASSUME NEW u \in task_map
              PROVE  caller'[u] = "inserted" \/ \E i \in DOMAIN channel' : channel'[i] = u
            <4>1. CASE u = t
                BY <2>2, <4>1
            <4>2. CASE u # t
                BY <1>1, <1>5, <2>2, <4>2 DEF NoneLost, Inv, TypeOK
            <4> QED
                BY <4>1, <4>2
        <3> QED
            BY <2>1, <3>1 DEF NoneLost
    <2> QED
        BY <2>3, <2>4, <2>5
<1> QED
    BY <1>4, <1>5

LEMMA ReceiveChannel == ASSUME Inv, ChannelInv, Receive PROVE ChannelInv'
<1> USE DEF ChannelInv
<1>1. /\ Len(channel) \in Nat \ {0} /\ DOMAIN channel = 1..Len(channel)
      /\ channel' = Tail(channel) /\ Head(channel) = channel[1]
      /\ UNCHANGED <<caller, ahead>> /\ pc # "stopped" /\ pc' # "stopped"
    BY DEF Receive, Inv, TypeOK
<1>2. /\ DOMAIN channel' = 1..(Len(channel) - 1)
      /\ \A i \in DOMAIN channel' : channel'[i] = channel[i + 1]
    BY <1>1 DEF Inv, TypeOK
<1>3. \A i \in DOMAIN channel' : i + 1 \in DOMAIN channel
    BY <1>1, <1>2
<1>4. SentOnce'
    BY <1>1, <1>2, <1>3 DEF SentOnce
<1>5. InOrder'
    BY <1>1, <1>2, <1>3 DEF InOrder
<1>6. NoneLost'
    <2>1. ASSUME NEW u \in task_map'
          PROVE  caller'[u] = "inserted" \/ \E i \in DOMAIN channel' : channel'[i] = u
        <3>1. u \in task_map /\ u # channel[1]
            BY <1>1 DEF Receive
        <3>2. CASE caller[u] = "inserted"
            BY <1>1, <3>2
        <3>3. ASSUME NEW i \in DOMAIN channel, channel[i] = u
              PROVE  \E k \in DOMAIN channel' : channel'[k] = u
            <4>1. i - 1 \in DOMAIN channel' /\ (i - 1) + 1 = i
                BY <1>1, <1>2, <3>1, <3>3
            <4> QED
                BY <1>2, <3>3, <4>1
        <3> QED
            BY <1>1, <3>1, <3>2, <3>3 DEF NoneLost
    <2> QED
        BY <2>1 DEF NoneLost
<1> QED
    BY <1>4, <1>5, <1>6

LEMMA StopChannel == ASSUME Inv, ChannelInv, Stop PROVE ChannelInv'
<1>1. channel' = <<>> /\ DOMAIN channel' = {} /\ pc' = "stopped"
      /\ UNCHANGED <<caller, ahead>>
    BY DEF Stop
<1> QED
    BY <1>1 DEF ChannelInv, SentOnce, InOrder, NoneLost

LEMMA CancelChannel ==
    ASSUME Inv, ChannelInv, NEW c \in Cancellers, CancelPending(c)
    PROVE  ChannelInv'
BY DEF CancelPending, ChannelInv, SentOnce, InOrder, NoneLost

LEMMA NextChannel == ASSUME Inv, ChannelInv, [Next]_vars PROVE ChannelInv'
<1>1. CASE UNCHANGED vars
    BY <1>1, ChannelUntouched DEF vars
<1>2. CASE StoreHandle \/ Poll \/ Suspend \/ TakeToken \/ StartAttempt
           \/ AttemptSucceeds \/ EndBackoff \/ ClearHandle
    BY <1>2, ChannelUntouched DEF StoreHandle, Poll, Suspend, TakeToken,
       StartAttempt, AttemptSucceeds, EndBackoff, ClearHandle, Finish
<1>3. ASSUME NEW transient \in BOOLEAN, AttemptFails(transient) PROVE ChannelInv'
    BY <1>3, ChannelUntouched DEF AttemptFails, Finish
<1>4. CASE Refill \/ Deliver \/ \E s \in Listeners : Read(s)
    BY <1>4, ChannelUntouched DEF Refill, Deliver, Read
<1>5. ASSUME NEW c \in Cancellers, CancelActive(c) PROVE ChannelInv'
    BY <1>5, ChannelUntouched DEF CancelActive
<1> QED
    BY <1>1, <1>2, <1>3, <1>4, <1>5, InsertChannel, SendChannel, CancelChannel,
       ReceiveChannel, StopChannel DEF Next

LEMMA ChannelInvariance == Spec => [](Inv /\ ChannelInv)
<1>1. Init => ChannelInv
    BY DEF Init, ChannelInv, SentOnce, InOrder, NoneLost
<1>2. Inv /\ ChannelInv /\ [Next]_vars => ChannelInv'
    BY NextChannel
<1> QED
    BY <1>1, <1>2, Invariance, PTL DEF Spec

\* A task whose result is still awaited is in the map or held, and one in the
\* map will be found: its id is in the channel or about to be sent.
THEOREM NoneStranded == Spec => []NoTaskIsStranded
<1>1. Inv /\ ChannelInv => NoTaskIsStranded
    BY DEF Inv, Owned, ChannelInv, NoneLost, NoTaskIsStranded
<1> QED
    BY <1>1, ChannelInvariance, PTL

\* Tasks end in the order in which they were enqueued, retries included.
THEOREM FirstEnqueuedFirst == Spec => FirstInFirstOut
<1> DEFINE Taking == \A t \in Tasks : current # t /\ current' = t =>
                         ahead[t] \cap Open \subseteq {t}
<1>1. ASSUME Inv, ChannelInv, [Next]_vars PROVE Taking
    <2> SUFFICES ASSUME NEW t \in Tasks, current # t, current' = t
                 PROVE  ahead[t] \cap Open \subseteq {t}
        OBVIOUS
    <2>1. Receive
        <3>1. CASE UNCHANGED vars
            BY <3>1 DEF vars
        <3>2. ~Deliver /\ ~Stop
            BY TasksAssumption DEF Deliver, Stop
        <3>3. current' # current
            OBVIOUS
        <3>4. \A u \in Tasks : ~Insert(u) /\ ~Send(u)
            BY <3>3 DEF Insert, Send
        <3>5. \A c \in Cancellers : ~CancelActive(c) /\ ~CancelPending(c)
            BY <3>3 DEF CancelActive, CancelPending
        <3>6. ~(StoreHandle \/ Poll \/ Suspend \/ TakeToken \/ StartAttempt
                \/ AttemptSucceeds \/ EndBackoff \/ ClearHandle)
            BY <3>3 DEF StoreHandle, Poll, Suspend, TakeToken, StartAttempt,
               AttemptSucceeds, EndBackoff, ClearHandle
        <3>7. ~Refill /\ (\A b \in BOOLEAN : ~AttemptFails(b))
              /\ (\A s \in Listeners : ~Read(s))
            BY <3>3 DEF Refill, AttemptFails, Read
        <3> QED
            BY <1>1, <3>1, <3>2, <3>4, <3>5, <3>6, <3>7 DEF Next
    <2>2. /\ current = NoTask /\ pc = "idle" /\ channel[1] = t
          /\ 1 \in DOMAIN channel
        BY <1>1, <2>1 DEF Inv, TypeOK, Holding, Receive
    <2>3. Open = task_map
        BY <1>1, <2>2, TasksAssumption DEF Inv, Owned
    <2>4. ASSUME NEW u \in ahead[t], u \in task_map PROVE FALSE
        <3>1. caller[u] = "returned"
            BY <1>1 DEF ChannelInv, InOrder
        <3>2. PICK j \in DOMAIN channel : channel[j] = u
            BY <1>1, <2>2, <2>4, <3>1 DEF ChannelInv, NoneLost
        <3>3. j < 1
            BY <1>1, <2>2, <3>2 DEF ChannelInv, InOrder
        <3> QED
            BY <1>1, <3>2, <3>3 DEF Inv, TypeOK
    <2> QED
        BY <2>3, <2>4
<1>2. Inv /\ ChannelInv /\ [Next]_vars => [Taking]_vars
    BY <1>1
<1> QED
    BY <1>2, ChannelInvariance, PTL DEF Spec, FirstInFirstOut

-----------------------------------------------------------------------------
(* The refinement. *)

\* The mapping, as long as each task is in one place.
LEMMA Phases ==
    ASSUME Inv, NEW t \in Tasks
    PROVE  /\ Phase(t) = "pending" <=> t \in task_map
           /\ Phase(t) = "running" <=> t = current
           /\ Phase(t) = "new" <=> outcome[t] = "new"
           /\ outcome[t] \in {"ok", "error", "lost"} => Phase(t) = "answered"
           /\ outcome[t] = "cancelled" => Phase(t) = "cancelled"
    BY DEF Inv, TypeOK, Owned, Open, Phase

LEMMA InitSimulated == Init => Service!Init
<1> SUFFICES ASSUME Init PROVE Service!Init
    OBVIOUS
<1>1. \A t \in Tasks : Phase(t) = "new"
    BY TasksAssumption DEF Init, Phase
<1> QED
    BY <1>1 DEF Init, Service!Init

\* A step that moves no task, aborts nothing and stops nothing is a stutter.
LEMMA Stutter ==
    ASSUME UNCHANGED <<task_map, current, outcome>>,
           aborted' \cap {current} = aborted \cap {current},
           pc' = "stopped" <=> pc = "stopped"
    PROVE  UNCHANGED Service!serviceVars
<1>1. \A t \in Tasks : Phase(t)' = Phase(t)
    BY DEF Phase
<1>2. (aborted \cap {current})' = aborted \cap {current}
    OBVIOUS
<1>3. (pc = "stopped")' = (pc = "stopped")
    OBVIOUS
<1> QED
    BY <1>1, <1>2, <1>3 DEF Service!serviceVars

LEMMA InsertSimulated ==
    ASSUME Inv, NEW t \in Tasks, Insert(t) PROVE Service!Submit(t)
<1>1. Phase(t) = "new" /\ t \notin task_map /\ t # current
    BY DEF Inv, Insert, Fresh, TypeOK, Owned, Open, Phase
<1>2. \A u \in Tasks : Phase(u)' = IF u \in {t} THEN "pending" ELSE Phase(u)
    BY <1>1 DEF Inv, TypeOK, Insert, Resolved, Phase
<1>3. UNCHANGED <<aborted, current, pc>>
    BY DEF Insert
<1> QED
    BY <1>1, <1>2, <1>3 DEF Service!Submit, Service!Moved

LEMMA SendSimulated ==
    ASSUME Inv, NEW t \in Tasks, Send(t)
    PROVE  Service!Refuse(t) \/ UNCHANGED Service!serviceVars
<1>1. CASE pc = "stopped" /\ t \in task_map
    <2>1. Phase(t) = "pending" /\ t # current
        BY <1>1, Phases DEF Inv, Owned
    <2>2. \A u \in Tasks : Phase(u)' = IF u \in {t} THEN "cancelled" ELSE Phase(u)
        BY <1>1, <2>1 DEF Inv, TypeOK, Send, Resolved, Phase
    <2>3. UNCHANGED <<aborted, current, pc>>
        BY DEF Send
    <2> QED
        BY <1>1, <2>1, <2>2, <2>3 DEF Service!Refuse, Service!Moved
<1>2. CASE ~(pc = "stopped" /\ t \in task_map)
    <2>1. UNCHANGED <<task_map, current, aborted, pc>>
        BY <1>2 DEF Send
    <2>2. outcome' = outcome
        BY <1>2 DEF Send, Resolved, Inv, TypeOK
    <2> QED
        BY <2>1, <2>2, Stutter
<1> QED
    BY <1>1, <1>2

LEMMA CancelActiveSimulated ==
    ASSUME Inv, NEW c \in Cancellers, CancelActive(c)
    PROVE  \/ \E t \in Tasks : Service!Abort(t)
           \/ UNCHANGED Service!serviceVars
<1>1. UNCHANGED <<task_map, current, outcome, pc>>
    BY DEF CancelActive
<1>2. CASE handle # NoTask /\ pc # "stopped"
    <2>1. handle = current /\ current \in Tasks
        BY <1>2 DEF Inv, TypeOK, HandleIsCurrent
    <2>2. (aborted \cap {current})' = (aborted \cap {current}) \cup {current}
        BY <1>1, <1>2, <2>1 DEF CancelActive
    <2>3. Phase(current) = "running"
        BY <2>1, Phases
    <2>4. \A t \in Tasks : Phase(t)' = Phase(t)
        BY <1>1 DEF Phase
    <2>5. Service!Abort(current)
        BY <1>1, <2>1, <2>2, <2>3, <2>4 DEF Service!Abort
    <2> QED
        BY <2>1, <2>5
<1>3. CASE handle = NoTask
    BY <1>1, <1>3, Stutter DEF CancelActive
<1>4. CASE pc = "stopped"
    <2>1. current = NoTask /\ NoTask \notin aborted
        BY <1>4, TasksAssumption DEF Inv, TypeOK, Holding
    <2>2. aborted' \cap {current} = aborted \cap {current}
        BY <2>1 DEF CancelActive
    <2> QED
        BY <1>1, <2>2, Stutter
<1> QED
    BY <1>2, <1>3, <1>4

LEMMA CancelPendingSimulated ==
    ASSUME Inv, NEW c \in Cancellers, CancelPending(c)
    PROVE  Service!CancelPending
<1>1. \A t \in Tasks :
          Phase(t)' = IF t \in task_map THEN "cancelled" ELSE Phase(t)
    BY DEF Inv, Owned, TypeOK, CancelPending, Resolved, Phase
<1>2. \A t \in Tasks : t \in task_map <=> Phase(t) = "pending"
    BY Phases
<1>3. UNCHANGED <<aborted, current, pc>>
    BY DEF CancelPending
<1> QED
    BY <1>1, <1>2, <1>3 DEF Service!CancelPending, Service!Moved, Service!In

LEMMA ReceiveSimulated ==
    ASSUME Inv, Receive
    PROVE  \/ \E t \in Tasks : Service!Start(t)
           \/ UNCHANGED Service!serviceVars
<1> DEFINE t == Head(channel)
<1>1. t \in Tasks /\ current = NoTask
    BY DEF Inv, TypeOK, Holding, Receive
<1>2. CASE t \in task_map
    <2>1. Phase(t) = "pending"
        BY <1>1, <1>2, Phases
    <2>2. \A u \in Tasks : Phase(u) # "running"
        BY <1>1, TasksAssumption, Phases
    <2>3. \A u \in Tasks : Phase(u)' = IF u \in {t} THEN "running" ELSE Phase(u)
        BY <1>1, <1>2, TasksAssumption DEF Receive, Phase
    <2>4. aborted' \cap {current'} = aborted \cap {current}
        BY <1>1, <1>2, TasksAssumption DEF Inv, TypeOK, Taken, Touched, Receive
    <2>5. pc # "stopped" /\ pc' # "stopped"
        BY <1>2 DEF Receive
    <2> HIDE DEF t
    <2>6. Service!Start(t)
        BY <1>1, <2>1, <2>2, <2>3, <2>4, <2>5
           DEF Service!Start, Service!Moved, Service!In
    <2> QED
        BY <1>1, <2>6
<1>3. CASE t \notin task_map
    BY <1>3, Stutter DEF Receive
<1> QED
    BY <1>2, <1>3

LEMMA DeliverSimulated ==
    ASSUME Inv, Deliver
    PROVE  \E t \in Tasks : Service!Answer(t) \/ Service!Yield(t)
<1>1. current \in Tasks /\ Phase(current) = "running" /\ current \notin task_map
    BY DeliverOutcome, Phases DEF Inv, Owned
<1>2. /\ current' = NoTask /\ UNCHANGED <<task_map, aborted>>
      /\ pc # "stopped" /\ pc' # "stopped"
    BY DEF Deliver
<1>3. (aborted \cap {current})' = (aborted \cap {current}) \ {current}
    BY <1>2, TasksAssumption DEF Inv, TypeOK
<1>4. CASE result = "aborted"
    <2>1. outcome' = Resolved({current}, "cancelled")
        BY <1>4, DeliverOutcome
    <2>2. \A u \in Tasks :
              Phase(u)' = IF u \in {current} THEN "cancelled" ELSE Phase(u)
        BY <1>1, <1>2, <2>1, TasksAssumption DEF Resolved, Phase
    <2>3. current \in aborted
        BY <1>4 DEF Inv, Holding, Deliver
    <2>4. Service!Yield(current)
        BY <1>1, <1>2, <1>3, <2>2, <2>3 DEF Service!Yield, Service!Moved
    <2> QED
        BY <1>1, <2>4
<1>5. CASE result # "aborted"
    <2>1. outcome' = Resolved({current}, Final) /\ Final \in {"ok", "error", "lost"}
        BY <1>5, DeliverOutcome
    <2>2. \A u \in Tasks :
              Phase(u)' = IF u \in {current} THEN "answered" ELSE Phase(u)
        BY <1>1, <1>2, <2>1, TasksAssumption DEF Resolved, Phase
    <2>3. Service!Answer(current)
        BY <1>1, <1>2, <1>3, <2>2 DEF Service!Answer, Service!Moved
    <2> QED
        BY <1>1, <2>3
<1> QED
    BY <1>4, <1>5

LEMMA StopSimulated == ASSUME Inv, Stop PROVE Service!Close
<1>1. /\ current' = NoTask /\ UNCHANGED <<task_map, aborted>>
      /\ pc # "stopped" /\ pc' = "stopped"
    BY DEF Stop
<1>2. (aborted \cap {current})' = {}
    BY <1>1, TasksAssumption DEF Inv, TypeOK
<1>3. \A u \in Tasks : Phase(u)' = IF u = current THEN "cancelled" ELSE Phase(u)
    BY <1>1, TasksAssumption DEF Inv, Owned, Stop, Resolved, Phase
<1>4. \A u \in Tasks : u = current <=> Phase(u) = "running"
    BY Phases
<1> QED
    BY <1>1, <1>2, <1>3, <1>4 DEF Service!Close, Service!Moved, Service!In

LEMMA StepSimulated ==
    ASSUME Inv, [Next]_vars PROVE [Service!Next]_(Service!serviceVars)
<1>1. CASE UNCHANGED vars
    BY <1>1, Stutter DEF vars
<1>2. CASE StoreHandle \/ Poll \/ Suspend \/ TakeToken \/ StartAttempt
           \/ AttemptSucceeds \/ EndBackoff \/ ClearHandle
    BY <1>2, Stutter DEF StoreHandle, Poll, Suspend, TakeToken, StartAttempt,
       AttemptSucceeds, EndBackoff, ClearHandle, Finish
<1>3. ASSUME NEW transient \in BOOLEAN, AttemptFails(transient)
      PROVE  UNCHANGED Service!serviceVars
    BY <1>3, Stutter DEF AttemptFails, Finish
<1>4. CASE Refill \/ \E s \in Listeners : Read(s)
    BY <1>4, Stutter DEF Refill, Read
<1> QED
    BY <1>1, <1>2, <1>3, <1>4, InsertSimulated, SendSimulated,
       CancelActiveSimulated, CancelPendingSimulated, ReceiveSimulated,
       DeliverSimulated, StopSimulated DEF Next, Service!Next

\* Every behaviour of the queue, with its threads, locks, retries and races, is
\* one of TaskService: one task runs at a time, a task ends once, a running task
\* is cancelled only when cancel_all aborted it, and cancel_all catches all that
\* is pending in one step.
THEOREM ImplementsService == Spec => Implements
<1>1. Init => Service!Init
    BY InitSimulated
<1>2. Inv /\ [Next]_vars => [Service!Next]_(Service!serviceVars)
    BY StepSimulated
<1> QED
    BY <1>1, <1>2, Invariance, PTL DEF Spec, Implements, Service!Spec
==============================================================================
