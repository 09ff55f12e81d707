--------------------------- MODULE SyncQueueProofs ---------------------------
(* Proofs about SyncQueue, for every set of objects and every bound. *)
EXTENDS SyncQueue, TLAPS

-----------------------------------------------------------------------------
(* What the operators on a queue change, and what they leave alone. *)

\* Tell only adds events.
LEMMA TellFields ==
    ASSUME NEW s, IsQueue(s), NEW N
    PROVE  LET t == Tell(s, N) IN
           /\ IsQueue(t)
           /\ t.queue = s.queue /\ t.deps = s.deps /\ t.waiting = s.waiting
           /\ t.mapped = s.mapped /\ t.dequeueing = s.dequeueing
           /\ t.net = s.net /\ t.told = s.told \cup N
           /\ t.again = s.again \cup Repeats(s, N)
           /\ t.orphaned = s.orphaned /\ t.stalled = s.stalled
  BY DEF Tell, IsQueue, Fields

\* Remove drops items from the queue, with their dependencies.
LEMMA RemoveFields ==
    ASSUME NEW s, IsQueue(s), NEW X
    PROVE  LET t == Remove(s, X) IN
           /\ IsQueue(t)
           /\ t.queue = Without(s.queue, X) /\ t.deps = Without(s.deps, X)
           /\ t.waiting = s.waiting /\ t.mapped = s.mapped
           /\ t.dequeueing = s.dequeueing /\ t.net = s.net /\ t.told = s.told
           /\ t.again = s.again /\ t.orphaned = s.orphaned /\ t.stalled = s.stalled
  BY DEF Remove, IsQueue, Fields

\* Unwait drops items from the sets of items that wait for an answer.
LEMMA UnwaitFields ==
    ASSUME NEW s, IsQueue(s), NEW X
    PROVE  LET t == Unwait(s, X) IN
           /\ IsQueue(t)
           /\ t.waiting = [id \in Ids |-> s.waiting[id] \ X]
           /\ t.queue = s.queue /\ t.deps = s.deps /\ t.mapped = s.mapped
           /\ t.dequeueing = s.dequeueing /\ t.net = s.net /\ t.told = s.told
           /\ t.again = s.again /\ t.orphaned = s.orphaned /\ t.stalled = s.stalled
  BY DEF Unwait, IsQueue, Fields

\* Satisfy drops an item from every set of dependencies.
LEMMA SatisfyFields ==
    ASSUME NEW s, IsQueue(s), NEW q
    PROVE  LET t == Satisfy(s, q) IN
           /\ IsQueue(t)
           /\ t.deps = [r \in DOMAIN s.deps |-> s.deps[r] \ {q}]
           /\ t.waiting = [id \in Ids |-> s.waiting[id] \ {q}]
           /\ t.queue = s.queue /\ t.mapped = s.mapped
           /\ t.dequeueing = s.dequeueing /\ t.net = s.net /\ t.told = s.told
           /\ t.again = s.again /\ t.orphaned = s.orphaned /\ t.stalled = s.stalled
  <1> DEFINE u == Unwait(s, {q})
  <1>1. /\ IsQueue(u)
        /\ u.waiting = [id \in Ids |-> s.waiting[id] \ {q}]
        /\ u.queue = s.queue /\ u.deps = s.deps /\ u.mapped = s.mapped
        /\ u.dequeueing = s.dequeueing /\ u.net = s.net /\ u.told = s.told
        /\ u.again = s.again /\ u.orphaned = s.orphaned /\ u.stalled = s.stalled
    BY UnwaitFields
  <1> HIDE DEF u
  <1> DEFINE d == [r \in DOMAIN u.deps |-> u.deps[r] \ {q}]
  <1>2. Satisfy(s, q) = [u EXCEPT !.deps = d]
    BY DEF Satisfy, u
  <1> HIDE DEF d
  <1>3. LET t == [u EXCEPT !.deps = d] IN
        /\ IsQueue(t) /\ t.deps = d
        /\ t.waiting = u.waiting /\ t.queue = u.queue /\ t.mapped = u.mapped
        /\ t.dequeueing = u.dequeueing /\ t.net = u.net /\ t.told = u.told
        /\ t.again = u.again /\ t.orphaned = u.orphaned /\ t.stalled = u.stalled
    BY <1>1 DEF IsQueue, Fields
  <1> QED
    BY <1>1, <1>2, <1>3 DEF d

\* The events of a failure that reaches the dependents of the failed items.
LossNotices(s, failed) ==
    UNION {Notify(q, s.queue[q], FailureOf(s.queue[q])) : q \in Dependents(s, failed)}

LEMMA FailFields ==
    ASSUME NEW s, IsQueue(s), NEW failed
    PROVE  LET t == Fail(s, failed) IN
           /\ IsQueue(t)
           /\ t.queue = Without(s.queue, Dependents(s, failed))
           /\ t.deps = Without(s.deps, Dependents(s, failed))
           /\ t.waiting = [id \in Ids |-> s.waiting[id] \ failed]
           /\ t.told = s.told \cup LossNotices(s, failed)
           /\ t.mapped = s.mapped /\ t.dequeueing = s.dequeueing
           /\ t.net = s.net /\ t.orphaned = s.orphaned /\ t.stalled = s.stalled
  <1> DEFINE r == Remove(s, Dependents(s, failed))
             u == Unwait(r, failed)
  <1>1. IsQueue(r) /\ IsQueue(u)
    BY RemoveFields, UnwaitFields
  <1>2. Fail(s, failed) = Tell(u, LossNotices(s, failed))
    BY DEF Fail, LossNotices
  <1> QED
    BY <1>1, <1>2, RemoveFields, UnwaitFields, TellFields

RevisedQueue(s, objs, revs) ==
    [q \in DOMAIN s.queue |-> Revise(s, s.queue[q], objs, revs)]

\* NewRevision changes nothing but revisions in the queue.
LEMMA NewRevisionFields ==
    ASSUME NEW s, IsQueue(s), NEW objs, NEW revs
    PROVE  LET t == NewRevision(s, objs, revs) IN
           /\ IsQueue(t) /\ DOMAIN t.queue = DOMAIN s.queue
           /\ t.queue = RevisedQueue(s, objs, revs)
           /\ t.deps = s.deps /\ t.waiting = s.waiting /\ t.mapped = s.mapped
           /\ t.dequeueing = s.dequeueing /\ t.net = s.net /\ t.told = s.told
           /\ t.again = s.again /\ t.orphaned = s.orphaned /\ t.stalled = s.stalled
  <1> DEFINE f == RevisedQueue(s, objs, revs)
  <1>1. NewRevision(s, objs, revs) = [s EXCEPT !.queue = f]
    BY DEF NewRevision, RevisedQueue
  <1> HIDE DEF f
  <1>2. LET t == [s EXCEPT !.queue = f] IN
        /\ IsQueue(t) /\ t.queue = f
        /\ t.deps = s.deps /\ t.waiting = s.waiting /\ t.mapped = s.mapped
        /\ t.dequeueing = s.dequeueing /\ t.net = s.net /\ t.told = s.told
        /\ t.again = s.again /\ t.orphaned = s.orphaned /\ t.stalled = s.stalled
    BY DEF IsQueue, Fields
  <1>3. DOMAIN f = DOMAIN s.queue
    BY DEF f, RevisedQueue
  <1> QED
    BY <1>1, <1>2, <1>3 DEF f

ResolvedQueue(s, q, objs) ==
    [r \in DOMAIN s.queue |->
        IF q \in s.deps[r] THEN Resolve(s.queue[r], objs) ELSE s.queue[r]]

\* ReplaceReferences changes nothing but references in the queue.
LEMMA ReplaceReferencesFields ==
    ASSUME NEW s, IsQueue(s), NEW q, NEW objs
    PROVE  LET t == ReplaceReferences(s, q, objs) IN
           /\ IsQueue(t) /\ DOMAIN t.queue = DOMAIN s.queue
           /\ t.queue = ResolvedQueue(s, q, objs)
           /\ t.deps = s.deps /\ t.waiting = s.waiting /\ t.mapped = s.mapped
           /\ t.dequeueing = s.dequeueing /\ t.net = s.net /\ t.told = s.told
           /\ t.again = s.again /\ t.orphaned = s.orphaned /\ t.stalled = s.stalled
  <1> DEFINE f == ResolvedQueue(s, q, objs)
  <1>1. ReplaceReferences(s, q, objs) = [s EXCEPT !.queue = f]
    BY DEF ReplaceReferences, ResolvedQueue
  <1> HIDE DEF f
  <1>2. LET t == [s EXCEPT !.queue = f] IN
        /\ IsQueue(t) /\ t.queue = f
        /\ t.deps = s.deps /\ t.waiting = s.waiting /\ t.mapped = s.mapped
        /\ t.dequeueing = s.dequeueing /\ t.net = s.net /\ t.told = s.told
        /\ t.again = s.again /\ t.orphaned = s.orphaned /\ t.stalled = s.stalled
    BY DEF IsQueue, Fields
  <1>3. DOMAIN f = DOMAIN s.queue
    BY DEF f, ResolvedQueue
  <1> QED
    BY <1>1, <1>2, <1>3 DEF f

\* The first step of Dequeue: items leave the queue, and the updates among them
\* that have no server id fail.
Unsendable(s, n) == {q \in Skipped(s, n) : s.queue[q].op = "update"}
Entered(s, n) == Sent(s, n) \cup {q \in Skipped(s, n) : s.queue[q].op \in Creations}
WaitingAfter(s, n) ==
    [id \in Ids |-> (s.waiting[id] \ Unsendable(s, n)) \cup
        {q \in Entered(s, n) : id \in WaitsUnder(s.queue[q])}]
NetAfter(s, n) ==
    [q \in DOMAIN s.net \cup Sent(s, n) |->
        IF q \in Sent(s, n)
        THEN [item |-> s.queue[q], tries |-> 0, reply |-> NoReply]
        ELSE s.net[q]]
Emptied(s, n) == Remove(s, Sent(s, n) \cup Skipped(s, n))
Dequeued(s, n) ==
    Tell(Fail(Emptied(s, n), Unsendable(s, n)),
         UNION {Notify(q, s.queue[q], "updateFailed") : q \in Unsendable(s, n)})

LEMMA DequeueFields ==
    ASSUME NEW s, IsQueue(s), s.dequeueing = TRUE, NEW n
    PROVE  LET t == Dequeue(s, n)
               u == Emptied(s, n)
               lost == Dependents(u, Unsendable(s, n))
           IN
           /\ IsQueue(t) /\ IsQueue(u)
           /\ u.queue = Without(s.queue, Sent(s, n) \cup Skipped(s, n))
           /\ u.deps = Without(s.deps, Sent(s, n) \cup Skipped(s, n))
           /\ t.queue = Without(u.queue, lost)
           /\ t.deps = Without(u.deps, lost)
           /\ t.waiting = WaitingAfter(s, n) /\ t.net = NetAfter(s, n)
           /\ t.told = s.told \cup LossNotices(u, Unsendable(s, n)) \cup
                UNION {Notify(q, s.queue[q], "updateFailed") : q \in Unsendable(s, n)}
           /\ t.mapped = s.mapped /\ t.dequeueing = s.dequeueing
           /\ t.orphaned = s.orphaned /\ t.stalled = FALSE
           /\ t.again = Dequeued(s, n).again
  <1> DEFINE u == Emptied(s, n)
             v == Fail(u, Unsendable(s, n))
             d == Dequeued(s, n)
             lost == Dependents(u, Unsendable(s, n))
             notices == UNION {Notify(q, s.queue[q], "updateFailed") : q \in Unsendable(s, n)}
             w == [id \in Ids |-> d.waiting[id] \cup
                    {q \in Entered(s, n) : id \in WaitsUnder(s.queue[q])}]
             m == [q \in DOMAIN d.net \cup Sent(s, n) |->
                    IF q \in Sent(s, n)
                    THEN [item |-> s.queue[q], tries |-> 0, reply |-> NoReply]
                    ELSE d.net[q]]
  <1>1. /\ IsQueue(u)
        /\ u.queue = Without(s.queue, Sent(s, n) \cup Skipped(s, n))
        /\ u.deps = Without(s.deps, Sent(s, n) \cup Skipped(s, n))
        /\ u.waiting = s.waiting /\ u.mapped = s.mapped
        /\ u.dequeueing = s.dequeueing /\ u.net = s.net /\ u.told = s.told
        /\ u.orphaned = s.orphaned
    BY RemoveFields DEF Emptied
  <1>2. /\ IsQueue(v)
        /\ v.queue = Without(u.queue, lost) /\ v.deps = Without(u.deps, lost)
        /\ v.waiting = [id \in Ids |-> u.waiting[id] \ Unsendable(s, n)]
        /\ v.told = u.told \cup LossNotices(u, Unsendable(s, n))
        /\ v.mapped = u.mapped /\ v.dequeueing = u.dequeueing
        /\ v.net = u.net /\ v.orphaned = u.orphaned
    BY <1>1, FailFields
  <1>3. d = Tell(v, notices)
    BY DEF Dequeued
  <1>4. /\ IsQueue(d)
        /\ d.queue = v.queue /\ d.deps = v.deps /\ d.waiting = v.waiting
        /\ d.mapped = v.mapped /\ d.dequeueing = v.dequeueing
        /\ d.net = v.net /\ d.told = v.told \cup notices /\ d.orphaned = v.orphaned
    BY <1>2, <1>3, TellFields
  <1>5. Dequeue(s, n) = [d EXCEPT !.stalled = FALSE, !.waiting = w, !.net = m]
    BY DEF Dequeue, Dequeued, Emptied, Unsendable, Entered
  <1> HIDE DEF u, v, d, w, m, lost, notices
  <1>6. LET t == [d EXCEPT !.stalled = FALSE, !.waiting = w, !.net = m] IN
        /\ IsQueue(t) /\ t.stalled = FALSE /\ t.waiting = w /\ t.net = m
        /\ t.queue = d.queue /\ t.deps = d.deps /\ t.mapped = d.mapped
        /\ t.dequeueing = d.dequeueing /\ t.told = d.told /\ t.again = d.again
        /\ t.orphaned = d.orphaned
    BY <1>4 DEF IsQueue, Fields
  <1>7. w = WaitingAfter(s, n)
    BY <1>1, <1>2, <1>4 DEF w, WaitingAfter
  <1>8. m = NetAfter(s, n)
    BY <1>1, <1>2, <1>4 DEF m, NetAfter
  <1> QED
    BY <1>1, <1>2, <1>4, <1>5, <1>6, <1>7, <1>8 DEF u, lost, notices, d

\* A stopped queue sends nothing.
LEMMA DequeueStopped ==
    ASSUME NEW s, ~s.dequeueing, NEW n
    PROVE  Dequeue(s, n) = s
  BY DEF Dequeue

Stored(s, item) == [item EXCEPT !.refs = Unresolved(s, item)]
ToldAfter(s, q, item) ==
    IF Dangling(s, item)
    THEN (s.told \cup Notify(q, item, "createFailed"))
            \cup Notify(q, item, FailureOf(item))
    ELSE s.told

LEMMA EnqueueFields ==
    ASSUME NEW s, IsQueue(s), NEW q, NEW item
    PROVE  LET t == Enqueue(s, q, item) IN
           /\ IsQueue(t)
           /\ t.queue = With(s.queue, q, Stored(s, item))
           /\ DOMAIN t.queue = DOMAIN s.queue \cup {q}
           /\ t.deps = With(s.deps, q, Dependencies(s, q, item))
           /\ t.waiting = s.waiting /\ t.mapped = s.mapped
           /\ t.dequeueing = s.dequeueing /\ t.net = s.net
           /\ t.told = ToldAfter(s, q, item)
           /\ t.stalled = s.stalled
  <1> DEFINE a == Tell(s, Notify(q, item, "createFailed"))
             b == Tell(a, Notify(q, item, FailureOf(item)))
             c == IF Dangling(s, item) THEN b ELSE s
             f == With(s.queue, q, Stored(s, item))
             g == With(s.deps, q, Dependencies(s, q, item))
             h == IF Dangling(s, item) THEN s.orphaned \cup {q} ELSE s.orphaned
  <1>1. /\ IsQueue(a) /\ a.queue = s.queue /\ a.deps = s.deps
        /\ a.waiting = s.waiting /\ a.mapped = s.mapped
        /\ a.dequeueing = s.dequeueing /\ a.net = s.net
        /\ a.told = s.told \cup Notify(q, item, "createFailed")
        /\ a.orphaned = s.orphaned /\ a.stalled = s.stalled
    BY TellFields
  <1>2. /\ IsQueue(b) /\ b.queue = s.queue /\ b.deps = s.deps
        /\ b.waiting = s.waiting /\ b.mapped = s.mapped
        /\ b.dequeueing = s.dequeueing /\ b.net = s.net
        /\ b.told = a.told \cup Notify(q, item, FailureOf(item))
        /\ b.orphaned = s.orphaned /\ b.stalled = s.stalled
    BY <1>1, TellFields
  <1>3. /\ IsQueue(c) /\ c.queue = s.queue /\ c.deps = s.deps
        /\ c.waiting = s.waiting /\ c.mapped = s.mapped
        /\ c.dequeueing = s.dequeueing /\ c.net = s.net
        /\ c.told = (IF Dangling(s, item) THEN b.told ELSE s.told)
        /\ c.orphaned = s.orphaned /\ c.stalled = s.stalled
    BY <1>2
  <1>4. Enqueue(s, q, item) = [c EXCEPT !.queue = f, !.deps = g, !.orphaned = h]
    BY <1>3 DEF Enqueue, Stored
  <1> HIDE DEF a, b, c, f, g, h
  <1>5. LET t == [c EXCEPT !.queue = f, !.deps = g, !.orphaned = h] IN
        /\ IsQueue(t) /\ t.queue = f /\ t.deps = g /\ t.orphaned = h
        /\ t.waiting = c.waiting /\ t.mapped = c.mapped
        /\ t.dequeueing = c.dequeueing /\ t.net = c.net /\ t.told = c.told
        /\ t.stalled = c.stalled
    BY <1>3 DEF IsQueue, Fields
  <1>6. DOMAIN f = DOMAIN s.queue \cup {q}
    BY DEF f, With
  <1> QED
    BY <1>1, <1>2, <1>3, <1>4, <1>5, <1>6 DEF f, g, h, ToldAfter

-----------------------------------------------------------------------------
(* Every operator keeps the type of a queue. *)

LEMMA WithoutType ==
    ASSUME NEW f, NEW D, NEW R, Partial(f, D, R), NEW X
    PROVE  Partial(Without(f, X), D, R) /\ DOMAIN Without(f, X) = DOMAIN f \ X
  BY DEF Partial, Without

LEMMA ObjIds ==
    ASSUME NEW item \in Items
    PROVE  ObjectsOf(item) \subseteq Objects
  BY DEF Items, ObjectsOf, Obj, Ids

LEMMA NotifyType ==
    ASSUME NEW q \in QueueIds, NEW item \in Items, NEW event \in Events
    PROVE  Notify(q, item, event) \subseteq Notices
  BY ObjIds DEF Notify, Notices

LEMMA FailureType ==
    ASSUME NEW item \in Items
    PROVE  FailureOf(item) \in Events
  BY DEF FailureOf, Events

LEMMA TellType ==
    ASSUME NEW s, QueueType(s), NEW N, N \subseteq Notices
    PROVE  QueueType(Tell(s, N))
  <1>1. Repeats(s, N) \subseteq QueueIds
    BY DEF Repeats, Notices
  <1> QED
    BY <1>1, TellFields DEF QueueType

LEMMA RemoveType ==
    ASSUME NEW s, QueueType(s), NEW X
    PROVE  QueueType(Remove(s, X))
  <1> DEFINE t == Remove(s, X)
  <1>1. /\ IsQueue(t) /\ t.queue = Without(s.queue, X) /\ t.deps = Without(s.deps, X)
        /\ t.waiting = s.waiting /\ t.mapped = s.mapped
        /\ t.dequeueing = s.dequeueing /\ t.net = s.net /\ t.told = s.told
        /\ t.again = s.again /\ t.orphaned = s.orphaned /\ t.stalled = s.stalled
    BY RemoveFields DEF QueueType
  <1> HIDE DEF t
  <1>2. Partial(t.queue, QueueIds, Items) /\ DOMAIN t.queue = DOMAIN s.queue \ X
    <2>1. Partial(s.queue, QueueIds, Items)
      BY DEF QueueType
    <2> QED
      BY <1>1, <2>1, WithoutType
  <1>3. t.deps \in [DOMAIN t.queue -> SUBSET QueueIds]
    <2>1. s.deps \in [DOMAIN s.queue -> SUBSET QueueIds]
      BY DEF QueueType
    <2> QED
      BY <1>1, <1>2, <2>1 DEF Without
  <1>4. QueueType(t)
    BY <1>1, <1>2, <1>3 DEF QueueType
  <1> QED
    BY <1>4 DEF t

LEMMA UnwaitType ==
    ASSUME NEW s, QueueType(s), NEW X
    PROVE  QueueType(Unwait(s, X))
  <1> DEFINE t == Unwait(s, X)
  <1>1. /\ IsQueue(t) /\ t.waiting = [id \in Ids |-> s.waiting[id] \ X]
        /\ t.queue = s.queue /\ t.deps = s.deps /\ t.mapped = s.mapped
        /\ t.dequeueing = s.dequeueing /\ t.net = s.net /\ t.told = s.told
        /\ t.again = s.again /\ t.orphaned = s.orphaned /\ t.stalled = s.stalled
    BY UnwaitFields DEF QueueType
  <1> HIDE DEF t
  <1>2. t.waiting \in [Ids -> SUBSET QueueIds]
    BY <1>1 DEF QueueType
  <1>3. QueueType(t)
    BY <1>1, <1>2 DEF QueueType
  <1> QED
    BY <1>3 DEF t

LEMMA SatisfyType ==
    ASSUME NEW s, QueueType(s), NEW q
    PROVE  QueueType(Satisfy(s, q))
  <1> DEFINE t == Satisfy(s, q)
  <1>1. /\ IsQueue(t) /\ t.waiting = [id \in Ids |-> s.waiting[id] \ {q}]
        /\ t.deps = [r \in DOMAIN s.deps |-> s.deps[r] \ {q}]
        /\ t.queue = s.queue /\ t.mapped = s.mapped
        /\ t.dequeueing = s.dequeueing /\ t.net = s.net /\ t.told = s.told
        /\ t.again = s.again /\ t.orphaned = s.orphaned /\ t.stalled = s.stalled
    BY SatisfyFields DEF QueueType
  <1> HIDE DEF t
  <1>2. t.deps \in [DOMAIN s.queue -> SUBSET QueueIds]
    BY <1>1 DEF QueueType
  <1>3. t.waiting \in [Ids -> SUBSET QueueIds]
    BY <1>1 DEF QueueType
  <1>4. QueueType(t)
    BY <1>1, <1>2, <1>3 DEF QueueType
  <1> QED
    BY <1>4 DEF t

LEMMA LossNoticesType ==
    ASSUME NEW s, QueueType(s), NEW failed
    PROVE  LossNotices(s, failed) \subseteq Notices
  <1>1. ASSUME NEW q \in Dependents(s, failed)
        PROVE  Notify(q, s.queue[q], FailureOf(s.queue[q])) \subseteq Notices
    <2>1. q \in QueueIds /\ s.queue[q] \in Items
      BY <1>1 DEF Dependents, QueueType, Partial
    <2> QED
      BY <2>1, FailureType, NotifyType
  <1> QED
    BY <1>1 DEF LossNotices

LEMMA FailType ==
    ASSUME NEW s, QueueType(s), NEW failed
    PROVE  QueueType(Fail(s, failed))
  <1>1. QueueType(Unwait(Remove(s, Dependents(s, failed)), failed))
    BY RemoveType, UnwaitType
  <1>2. Fail(s, failed) = Tell(Unwait(Remove(s, Dependents(s, failed)), failed),
                               LossNotices(s, failed))
    BY DEF Fail, LossNotices
  <1> QED
    BY <1>1, <1>2, LossNoticesType, TellType

LEMMA ReviseType ==
    ASSUME NEW s, NEW item \in Items, NEW objs, NEW revs \in [Objects -> Nat]
    PROVE  Revise(s, item, objs, revs) \in Items
  <1> DEFINE R == Revised(s, item, objs)
             id == CHOOSE i \in R : TRUE
  <1>1. CASE R = {}
    BY <1>1 DEF Revise
  <1>2. CASE R # {}
    <2>1. id \in item.ids
      BY <1>2 DEF Revised
    <2>2. Revise(s, item, objs, revs) = [item EXCEPT !.rev = revs[Obj(id)]]
      BY <1>2 DEF Revise
    <2> HIDE DEF id
    <2>3. revs[Obj(id)] \in Nat
      BY <2>1 DEF Items, Ids, Obj
    <2> QED
      BY <2>2, <2>3 DEF Items
  <1> QED
    BY <1>1, <1>2

LEMMA NewRevisionType ==
    ASSUME NEW s, QueueType(s), NEW objs, NEW revs \in [Objects -> Nat]
    PROVE  QueueType(NewRevision(s, objs, revs))
  <1> DEFINE t == NewRevision(s, objs, revs)
  <1>1. /\ IsQueue(t)
        /\ t.queue = RevisedQueue(s, objs, revs)
        /\ t.deps = s.deps /\ t.waiting = s.waiting /\ t.mapped = s.mapped
        /\ t.dequeueing = s.dequeueing /\ t.net = s.net /\ t.told = s.told
        /\ t.again = s.again /\ t.orphaned = s.orphaned /\ t.stalled = s.stalled
    BY NewRevisionFields DEF QueueType
  <1> HIDE DEF t
  <1>2. ASSUME NEW q \in DOMAIN s.queue
        PROVE  t.queue[q] \in Items
    <2>1. s.queue[q] \in Items
      BY <1>2 DEF QueueType, Partial
    <2> QED
      BY <1>1, <1>2, <2>1, ReviseType DEF RevisedQueue
  <1>3. Partial(t.queue, QueueIds, Items) /\ DOMAIN t.queue = DOMAIN s.queue
    BY <1>1, <1>2 DEF QueueType, Partial, RevisedQueue
  <1>4. QueueType(t)
    BY <1>1, <1>3 DEF QueueType
  <1> QED
    BY <1>4 DEF t

LEMMA ResolveType ==
    ASSUME NEW item \in Items, NEW objs
    PROVE  Resolve(item, objs) \in Items
  BY DEF Resolve, Items

LEMMA ReplaceReferencesType ==
    ASSUME NEW s, QueueType(s), NEW q, NEW objs
    PROVE  QueueType(ReplaceReferences(s, q, objs))
  <1> DEFINE t == ReplaceReferences(s, q, objs)
  <1>1. /\ IsQueue(t)
        /\ t.queue = ResolvedQueue(s, q, objs)
        /\ t.deps = s.deps /\ t.waiting = s.waiting /\ t.mapped = s.mapped
        /\ t.dequeueing = s.dequeueing /\ t.net = s.net /\ t.told = s.told
        /\ t.again = s.again /\ t.orphaned = s.orphaned /\ t.stalled = s.stalled
    BY ReplaceReferencesFields DEF QueueType
  <1> HIDE DEF t
  <1>2. ASSUME NEW r \in DOMAIN s.queue
        PROVE  t.queue[r] \in Items
    <2>1. s.queue[r] \in Items
      BY <1>2 DEF QueueType, Partial
    <2> QED
      BY <1>1, <1>2, <2>1, ResolveType DEF ResolvedQueue
  <1>3. Partial(t.queue, QueueIds, Items) /\ DOMAIN t.queue = DOMAIN s.queue
    BY <1>1, <1>2 DEF QueueType, Partial, ResolvedQueue
  <1>4. QueueType(t)
    BY <1>1, <1>3 DEF QueueType
  <1> QED
    BY <1>4 DEF t

LEMMA DequeueType ==
    ASSUME NEW s, QueueType(s), NEW n
    PROVE  QueueType(Dequeue(s, n))
  <1>1. CASE ~s.dequeueing
    BY <1>1, DequeueStopped
  <1>2. CASE s.dequeueing
    <2> DEFINE t == Dequeue(s, n)
               d == Dequeued(s, n)
               notices == UNION {Notify(q, s.queue[q], "updateFailed") : q \in Unsendable(s, n)}
    <2>0. s.dequeueing = TRUE /\ IsQueue(s)
      BY <1>2 DEF QueueType
    <2>9. t.waiting = WaitingAfter(s, n) /\ t.net = NetAfter(s, n)
      BY <2>0, DequeueFields
    <2>1. notices \subseteq Notices
      <3>1. ASSUME NEW q \in Unsendable(s, n)
            PROVE  Notify(q, s.queue[q], "updateFailed") \subseteq Notices
        <4>1. q \in QueueIds /\ s.queue[q] \in Items
          BY <3>1 DEF Unsendable, Skipped, Ready, QueueType, Partial
        <4> QED
          BY <4>1, NotifyType DEF Events
      <3> QED
        BY <3>1
    <2>2. QueueType(d)
      BY <2>1, RemoveType, FailType, TellType DEF Dequeued, Emptied
    <2>3. /\ IsQueue(t) /\ t.queue = d.queue /\ t.deps = d.deps
          /\ t.mapped = d.mapped /\ t.dequeueing = d.dequeueing
          /\ t.told = d.told /\ t.again = d.again /\ t.orphaned = d.orphaned
          /\ t.stalled = FALSE
      <3> DEFINE w == [id \in Ids |-> d.waiting[id] \cup
                        {q \in Entered(s, n) : id \in WaitsUnder(s.queue[q])}]
                 m == [q \in DOMAIN d.net \cup Sent(s, n) |->
                        IF q \in Sent(s, n)
                        THEN [item |-> s.queue[q], tries |-> 0, reply |-> NoReply]
                        ELSE d.net[q]]
      <3>1. t = [d EXCEPT !.stalled = FALSE, !.waiting = w, !.net = m]
        BY <2>0 DEF Dequeue, Dequeued, Emptied, Unsendable, Entered
      <3>2. IsQueue(d)
        BY <2>2 DEF QueueType
      <3> HIDE DEF w, m, d, t
      <3> QED
        BY <3>1, <3>2 DEF IsQueue, Fields
    <2>4. Sent(s, n) \subseteq DOMAIN s.queue /\ Entered(s, n) \subseteq DOMAIN s.queue
      BY DEF Sent, Sendable, Skipped, Entered, Ready
    <2>5. t.waiting \in [Ids -> SUBSET QueueIds]
      <3> HIDE DEF t
      <3> QED
        BY <2>4, <2>9 DEF QueueType, Partial, WaitingAfter
    <2>6. Partial(t.net, QueueIds, Futures)
      <3>2. NoReply \in [answer : Answers, revs : [Objects -> Nat]]
        BY DEF NoReply, Answers
      <3>3. ASSUME NEW q \in Sent(s, n)
            PROVE  [item |-> s.queue[q], tries |-> 0, reply |-> NoReply] \in Futures
        BY <2>4, <3>2, <3>3 DEF Futures, QueueType, Partial
      <3>4. ASSUME NEW q \in DOMAIN s.net
            PROVE  s.net[q] \in Futures /\ q \in QueueIds
        BY <3>4 DEF QueueType, Partial
      <3>5. DOMAIN s.queue \subseteq QueueIds
        BY DEF QueueType, Partial
      <3> HIDE DEF t
      <3> QED
        BY <2>4, <2>9, <3>3, <3>4, <3>5 DEF Partial, NetAfter
    <2> HIDE DEF t, d
    <2> QED
      BY <2>2, <2>3, <2>5, <2>6 DEF QueueType, t
  <1> QED
    BY <1>1, <1>2

LEMMA WithType ==
    ASSUME NEW f, NEW D, NEW R, Partial(f, D, R), NEW k \in D, NEW v \in R
    PROVE  Partial(With(f, k, v), D, R) /\ DOMAIN With(f, k, v) = DOMAIN f \cup {k}
  BY DEF Partial, With

LEMMA ItemsWithIdType ==
    ASSUME NEW s, QueueType(s), NEW id \in Ids
    PROVE  ItemsWithId(s, id) \subseteq QueueIds
  BY DEF ItemsWithId, QueueType, Partial

LEMMA DependenciesType ==
    ASSUME NEW s, QueueType(s), NEW q, NEW item \in Items
    PROVE  Dependencies(s, q, item) \subseteq QueueIds
  <1>1. ASSUME NEW id \in item.ids
        PROVE  UpdateDependencies(s, id) \subseteq QueueIds
    <2>1. id \in Ids /\ OtherId(id) \in Ids
      BY <1>1 DEF Items, OtherId, Ids
    <2> QED
      BY <2>1, ItemsWithIdType DEF UpdateDependencies
  <1>2. ASSUME NEW o \in Unresolved(s, item)
        PROVE  Creators(s, o) \subseteq QueueIds
    <2>1. <<"client", o>> \in Ids
      BY <1>2 DEF Unresolved, Items, Ids
    <2> QED
      BY <2>1, ItemsWithIdType DEF Creators
  <1> QED
    BY <1>1, <1>2 DEF Dependencies

LEMMA EnqueueType ==
    ASSUME NEW s, QueueType(s), NEW q \in QueueIds, NEW item \in Items
    PROVE  QueueType(Enqueue(s, q, item))
  <1> DEFINE t == Enqueue(s, q, item)
             a == Tell(s, Notify(q, item, "createFailed"))
             b == Tell(a, Notify(q, item, FailureOf(item)))
             c == IF Dangling(s, item) THEN b ELSE s
             f == With(s.queue, q, Stored(s, item))
             g == With(s.deps, q, Dependencies(s, q, item))
             h == IF Dangling(s, item) THEN s.orphaned \cup {q} ELSE s.orphaned
  <1>1. QueueType(c)
    <2>1. QueueType(a)
      BY NotifyType, TellType DEF Events
    <2>2. QueueType(b)
      BY <2>1, NotifyType, FailureType, TellType
    <2> QED
      BY <2>2
  <1>2. /\ c.queue = s.queue /\ c.deps = s.deps /\ c.orphaned = s.orphaned
        /\ IsQueue(c) /\ IsQueue(s)
    <2>1. IsQueue(s) /\ IsQueue(a) /\ IsQueue(b)
      BY TellFields DEF QueueType
    <2> QED
      BY <2>1, <1>1, TellFields DEF QueueType
  <1>3. t = [c EXCEPT !.queue = f, !.deps = g, !.orphaned = h]
    BY <1>2 DEF Enqueue, Stored
  <1>4. Stored(s, item) \in Items
    BY DEF Items, Unresolved, Stored
  <1>5. Partial(f, QueueIds, Items) /\ DOMAIN f = DOMAIN s.queue \cup {q}
    <2>1. Partial(s.queue, QueueIds, Items)
      BY DEF QueueType
    <2> QED
      BY <2>1, <1>4, WithType
  <1>6. g \in [DOMAIN s.queue \cup {q} -> SUBSET QueueIds]
    <2>1. Dependencies(s, q, item) \subseteq QueueIds
      BY DependenciesType
    <2>2. s.deps \in [DOMAIN s.queue -> SUBSET QueueIds]
      BY DEF QueueType
    <2> QED
      BY <2>1, <2>2 DEF With
  <1>7. h \subseteq QueueIds
    BY DEF QueueType
  <1> HIDE DEF a, b, c, f, g, h, t
  <1>8. /\ IsQueue(t) /\ t.queue = f /\ t.deps = g /\ t.orphaned = h
        /\ t.waiting = c.waiting /\ t.mapped = c.mapped
        /\ t.dequeueing = c.dequeueing /\ t.net = c.net /\ t.told = c.told
        /\ t.again = c.again /\ t.stalled = c.stalled
    BY <1>2, <1>3 DEF IsQueue, Fields
  <1>9. QueueType(t)
    BY <1>1, <1>5, <1>6, <1>7, <1>8 DEF QueueType
  <1> QED
    BY <1>9 DEF t

-----------------------------------------------------------------------------
(* A queue whose ids are below a bound, each either queued or in flight. *)

Sound(s, b) ==
    /\ QueueType(s)
    /\ DOMAIN s.queue \cap DOMAIN s.net = {}
    /\ \A q \in DOMAIN s.queue \cup DOMAIN s.net : q < b

LEMMA TellSound ==
    ASSUME NEW s, NEW b, Sound(s, b), NEW N, N \subseteq Notices
    PROVE  Sound(Tell(s, N), b)
  <1> DEFINE t == Tell(s, N)
  <1>1. QueueType(s) /\ IsQueue(s)
    BY DEF Sound, QueueType
  <1>2. QueueType(t) /\ t.queue = s.queue /\ t.net = s.net
    BY <1>1, TellType, TellFields
  <1> HIDE DEF t
  <1>3. Sound(t, b)
    BY <1>2 DEF Sound
  <1> QED
    BY <1>3 DEF t

LEMMA FailSound ==
    ASSUME NEW s, NEW b, Sound(s, b), NEW failed
    PROVE  Sound(Fail(s, failed), b)
  <1> DEFINE t == Fail(s, failed)
  <1>1. /\ t.queue = Without(s.queue, Dependents(s, failed)) /\ t.net = s.net
        /\ QueueType(t)
    <2>1. QueueType(s) /\ IsQueue(s)
      BY DEF Sound, QueueType
    <2>2. QueueType(t)
      BY <2>1, FailType
    <2>3. t.queue = Without(s.queue, Dependents(s, failed)) /\ t.net = s.net
      BY FailFields, ZenonT(60) DEF Sound, QueueType
    <2> QED
      BY <2>2, <2>3
  <1> HIDE DEF t
  <1>2. Sound(t, b)
    BY <1>1 DEF Sound, Without
  <1> QED
    BY <1>2 DEF t

LEMMA SatisfySound ==
    ASSUME NEW s, NEW b, Sound(s, b), NEW q
    PROVE  Sound(Satisfy(s, q), b)
  BY SatisfyType, SatisfyFields DEF Sound, QueueType

LEMMA NewRevisionSound ==
    ASSUME NEW s, NEW b, Sound(s, b), NEW objs, NEW revs \in [Objects -> Nat]
    PROVE  Sound(NewRevision(s, objs, revs), b)
  <1> DEFINE t == NewRevision(s, objs, revs)
  <1>1. DOMAIN t.queue = DOMAIN s.queue /\ t.net = s.net /\ QueueType(t)
    <2>1. QueueType(s) /\ IsQueue(s)
      BY DEF Sound, QueueType
    <2>2. QueueType(t)
      BY <2>1, NewRevisionType
    <2>3. DOMAIN t.queue = DOMAIN s.queue /\ t.net = s.net
      BY <2>1, NewRevisionFields
    <2> QED
      BY <2>2, <2>3
  <1> HIDE DEF t
  <1>2. Sound(t, b)
    BY <1>1 DEF Sound
  <1> QED
    BY <1>2 DEF t

LEMMA ReplaceReferencesSound ==
    ASSUME NEW s, NEW b, Sound(s, b), NEW q, NEW objs
    PROVE  Sound(ReplaceReferences(s, q, objs), b)
  <1> DEFINE t == ReplaceReferences(s, q, objs)
  <1>1. DOMAIN t.queue = DOMAIN s.queue /\ t.net = s.net /\ QueueType(t)
    <2>1. QueueType(s) /\ IsQueue(s)
      BY DEF Sound, QueueType
    <2>2. QueueType(t)
      BY <2>1, ReplaceReferencesType
    <2>3. DOMAIN t.queue = DOMAIN s.queue /\ t.net = s.net
      BY <2>1, ReplaceReferencesFields
    <2> QED
      BY <2>2, <2>3
  <1> HIDE DEF t
  <1>2. Sound(t, b)
    BY <1>1 DEF Sound
  <1> QED
    BY <1>2 DEF t

LEMMA DequeueSound ==
    ASSUME NEW s, NEW b, Sound(s, b), NEW n
    PROVE  Sound(Dequeue(s, n), b)
  <1> DEFINE t == Dequeue(s, n)
  <1>1. CASE ~s.dequeueing
    BY <1>1, DequeueStopped
  <1>2. CASE s.dequeueing
    <2> DEFINE lost == Dependents(Emptied(s, n), Unsendable(s, n))
    <2>1. s.dequeueing = TRUE /\ IsQueue(s)
      BY <1>2 DEF Sound, QueueType
    <2>2. /\ t.queue = Without(Without(s.queue, Sent(s, n) \cup Skipped(s, n)), lost)
          /\ t.net = NetAfter(s, n)
      BY <2>1, DequeueFields, ZenonT(30)
    <2>3. QueueType(t)
      BY DequeueType DEF Sound
    <2>4. Sent(s, n) \subseteq DOMAIN s.queue
      BY DEF Sent, Sendable, Ready
    <2> HIDE DEF t, lost
    <2>5. DOMAIN t.queue \subseteq DOMAIN s.queue \ Sent(s, n)
      BY <2>2 DEF Without
    <2>6. DOMAIN t.net = DOMAIN s.net \cup Sent(s, n)
      BY <2>2 DEF NetAfter
    <2>7. Sound(t, b)
      BY <2>3, <2>4, <2>5, <2>6 DEF Sound
    <2> QED
      BY <2>7 DEF t
  <1> QED
    BY <1>1, <1>2

LEMMA EnqueueSound ==
    ASSUME NEW s, NEW b \in QueueIds, Sound(s, b), NEW item \in Items
    PROVE  Sound(Enqueue(s, b, item), b + 1)
  <1> DEFINE t == Enqueue(s, b, item)
  <1>1. /\ DOMAIN t.queue = DOMAIN s.queue \cup {b} /\ t.net = s.net
        /\ QueueType(t)
    <2>1. QueueType(s) /\ IsQueue(s)
      BY DEF Sound, QueueType
    <2>2. QueueType(t)
      BY <2>1, EnqueueType
    <2>3. DOMAIN t.queue = DOMAIN s.queue \cup {b} /\ t.net = s.net
      BY <2>1, EnqueueFields
    <2> QED
      BY <2>2, <2>3
  <1>2. DOMAIN s.queue \cup DOMAIN s.net \subseteq Nat /\ b \in Nat
    BY BoundsAssumption DEF Sound, QueueType, Partial, QueueIds
  <1> HIDE DEF t
  <1>3. Sound(t, b + 1)
    BY <1>1, <1>2 DEF Sound
  <1> QED
    BY <1>3 DEF t

-----------------------------------------------------------------------------
(* Type correctness. *)

TypeInv ==
    /\ Sound(sq, next)
    /\ server \in [Objects -> Nat] /\ known \in [Objects -> Nat]
    /\ next \in 1..(MaxItems + 1)
    /\ made \in [Objects -> SUBSET QueueIds]
    /\ excused \subseteq Objects
    /\ fence \in 1..(MaxItems + 1) /\ clears \in Nat /\ losses \in Nat

LEMMA TypeInvImplies == TypeInv => TypeOK
  BY DEF TypeInv, TypeOK, Sound

\* What a future in flight is.
LEMMA FutureType ==
    ASSUME TypeInv, NEW q \in DOMAIN sq.net
    PROVE  /\ q \in QueueIds /\ sq.net[q] \in Futures
           /\ sq.net[q].item \in Items /\ sq.net[q].tries \in Nat
           /\ sq.net[q].reply.answer \in Answers
           /\ sq.net[q].reply.revs \in [Objects -> Nat]
           /\ ObjectsOf(sq.net[q].item) \subseteq Objects
  <1>1. q \in QueueIds /\ sq.net[q] \in Futures
    BY DEF TypeInv, Sound, QueueType, Partial
  <1> QED
    BY <1>1, ObjIds DEF Futures

LEMMA TakenFields ==
    ASSUME IsQueue(sq), NEW q
    PROVE  LET t == Taken(q) IN
           /\ IsQueue(t) /\ t.net = Without(sq.net, {q})
           /\ t.queue = sq.queue /\ t.deps = sq.deps /\ t.waiting = sq.waiting
           /\ t.mapped = sq.mapped /\ t.dequeueing = sq.dequeueing
           /\ t.told = sq.told /\ t.again = sq.again /\ t.orphaned = sq.orphaned
           /\ t.stalled = sq.stalled
  <1> DEFINE m == Without(sq.net, {q})
  <1>1. Taken(q) = [sq EXCEPT !.net = m]
    BY DEF Taken
  <1> HIDE DEF m
  <1>2. LET t == [sq EXCEPT !.net = m] IN
        /\ IsQueue(t) /\ t.net = m
        /\ t.queue = sq.queue /\ t.deps = sq.deps /\ t.waiting = sq.waiting
        /\ t.mapped = sq.mapped /\ t.dequeueing = sq.dequeueing
        /\ t.told = sq.told /\ t.again = sq.again /\ t.orphaned = sq.orphaned
        /\ t.stalled = sq.stalled
    BY DEF IsQueue, Fields
  <1> QED
    BY <1>1, <1>2 DEF m

LEMMA TakenSound ==
    ASSUME TypeInv, NEW q
    PROVE  Sound(Taken(q), next)
  <1> DEFINE t == Taken(q)
  <1>1. QueueType(sq) /\ IsQueue(sq) /\ Sound(sq, next)
    BY DEF TypeInv, Sound, QueueType
  <1>2. /\ IsQueue(t) /\ t.net = Without(sq.net, {q})
        /\ t.queue = sq.queue /\ t.deps = sq.deps /\ t.waiting = sq.waiting
        /\ t.mapped = sq.mapped /\ t.dequeueing = sq.dequeueing
        /\ t.told = sq.told /\ t.again = sq.again /\ t.orphaned = sq.orphaned
        /\ t.stalled = sq.stalled
    BY <1>1, TakenFields
  <1>3. Partial(t.net, QueueIds, Futures) /\ DOMAIN t.net = DOMAIN sq.net \ {q}
    BY <1>1, <1>2, WithoutType DEF QueueType
  <1> HIDE DEF t
  <1>4. QueueType(t)
    BY <1>1, <1>2, <1>3 DEF QueueType
  <1>5. Sound(t, next)
    BY <1>1, <1>2, <1>3, <1>4 DEF Sound
  <1> QED
    BY <1>5 DEF t

\* A future gets an answer, or is tried again.
WithFuture(q, future) == [sq EXCEPT !.net = [@ EXCEPT ![q] = future]]

LEMMA WithFutureFields ==
    ASSUME IsQueue(sq), NEW q, NEW future
    PROVE  LET t == WithFuture(q, future) IN
           /\ IsQueue(t) /\ t.net = [sq.net EXCEPT ![q] = future]
           /\ t.queue = sq.queue /\ t.deps = sq.deps /\ t.waiting = sq.waiting
           /\ t.mapped = sq.mapped /\ t.dequeueing = sq.dequeueing
           /\ t.told = sq.told /\ t.again = sq.again /\ t.orphaned = sq.orphaned
           /\ t.stalled = sq.stalled
  <1> DEFINE m == [sq.net EXCEPT ![q] = future]
  <1>1. WithFuture(q, future) = [sq EXCEPT !.net = m]
    BY DEF WithFuture
  <1> HIDE DEF m
  <1>2. LET t == [sq EXCEPT !.net = m] IN
        /\ IsQueue(t) /\ t.net = m
        /\ t.queue = sq.queue /\ t.deps = sq.deps /\ t.waiting = sq.waiting
        /\ t.mapped = sq.mapped /\ t.dequeueing = sq.dequeueing
        /\ t.told = sq.told /\ t.again = sq.again /\ t.orphaned = sq.orphaned
        /\ t.stalled = sq.stalled
    BY DEF IsQueue, Fields
  <1> QED
    BY <1>1, <1>2 DEF m

LEMMA WithFutureSound ==
    ASSUME TypeInv, NEW q \in DOMAIN sq.net, NEW future \in Futures
    PROVE  Sound(WithFuture(q, future), next)
  <1> DEFINE t == WithFuture(q, future)
  <1>1. QueueType(sq) /\ IsQueue(sq) /\ Sound(sq, next)
    BY DEF TypeInv, Sound, QueueType
  <1>2. /\ IsQueue(t) /\ t.net = [sq.net EXCEPT ![q] = future]
        /\ t.queue = sq.queue /\ t.deps = sq.deps /\ t.waiting = sq.waiting
        /\ t.mapped = sq.mapped /\ t.dequeueing = sq.dequeueing
        /\ t.told = sq.told /\ t.again = sq.again /\ t.orphaned = sq.orphaned
        /\ t.stalled = sq.stalled
    BY <1>1, WithFutureFields
  <1> HIDE DEF t
  <1>3. Partial(t.net, QueueIds, Futures) /\ DOMAIN t.net = DOMAIN sq.net
    BY <1>1, <1>2 DEF QueueType, Partial
  <1>4. QueueType(t)
    BY <1>1, <1>2, <1>3 DEF QueueType
  <1>5. Sound(t, next)
    BY <1>1, <1>2, <1>3, <1>4 DEF Sound
  <1> QED
    BY <1>5 DEF t

\* What UpdateManager enqueues is an item.
LEMMA EnqueuedItem ==
    /\ \A o \in Objects :
        /\ IdOf(o) \in Ids /\ <<"client", o>> \in Ids
        /\ References(o) \subseteq Objects
        /\ TypeInv => (IF o \in Folders THEN 0 ELSE known[o]) \in Nat
    /\ \A objs \in SUBSET Objects : InFolder(objs) \subseteq Ids
  <1>1. \A p \in Objects : IdOf(p) \in Ids
    BY DEF IdOf, Ids
  <1>2. \A o \in Objects : References(o) \subseteq Objects
    BY ObjectsAssumption DEF References
  <1>3. \A objs \in SUBSET Objects : InFolder(objs) \subseteq Ids
    BY <1>1, ObjectsAssumption DEF InFolder
  <1> QED
    BY <1>1, <1>2, <1>3 DEF Ids, TypeInv

LEMMA EnqueueItemType ==
    ASSUME TypeInv, NEW item \in Items, EnqueueItem(item)
    PROVE  TypeInv'
  <1>1. next \in QueueIds /\ next + 1 \in 1..(MaxItems + 1)
    BY BoundsAssumption DEF EnqueueItem, TypeInv, QueueIds
  <1>2. Sound(Enqueue(sq, next, item), next + 1)
    BY <1>1, EnqueueSound DEF TypeInv
  <1>3. Sound(sq', next')
    BY <1>2, DequeueSound DEF EnqueueItem
  <1>4. made' \in [Objects -> SUBSET QueueIds]
    BY <1>1 DEF EnqueueItem, TypeInv
  <1> QED
    BY <1>1, <1>3, <1>4 DEF EnqueueItem, TypeInv

LEMMA EnqueuesType ==
    ASSUME TypeInv, Enqueues
    PROVE  TypeInv'
  <1>1. ASSUME NEW o \in Objects, NEW refs \in SUBSET References(o), CreateObject(o, refs)
        PROVE  TypeInv'
    BY <1>1, EnqueuedItem, EnqueueItemType DEF CreateObject, Items
  <1>2. ASSUME NEW objs \in SUBSET Preferences, BulkCreate(objs)
        PROVE  TypeInv'
    <2>2. objs \subseteq Objects /\ {"client"} \X objs \subseteq Ids
      BY ObjectsAssumption DEF Ids
    <2>3. InFolder(objs) \subseteq Ids
      BY <2>2, EnqueuedItem
    <2> QED
      BY <1>2, <2>2, <2>3, EnqueueItemType DEF BulkCreate, Items
  <1>3. ASSUME NEW o \in Objects, NEW refs \in SUBSET References(o), UpdateObject(o, refs)
        PROVE  TypeInv'
    BY <1>3, EnqueuedItem, EnqueueItemType DEF UpdateObject, Items
  <1>4. ASSUME NEW o \in Reported, RecordObjectAction(o)
        PROVE  TypeInv'
    <2>1. o \in Objects
      BY ObjectsAssumption
    <2>2. IdOf(o) \in Ids
      BY <2>1 DEF IdOf, Ids
    <2> QED
      BY <1>4, <2>2, EnqueueItemType DEF RecordObjectAction, Items
  <1> QED
    BY <1>1, <1>2, <1>3, <1>4 DEF Enqueues

LEMMA ControlType ==
    ASSUME TypeInv, StopDequeueing \/ StartDequeueing \/ Clear
    PROVE  TypeInv'
  <1>1. IsQueue(sq) /\ QueueType(sq) /\ Sound(sq, next)
    BY DEF TypeInv, Sound, QueueType
  <1>2. ASSUME NEW on \in BOOLEAN
        PROVE  Sound([sq EXCEPT !.dequeueing = on], next)
    <2> DEFINE t == [sq EXCEPT !.dequeueing = on]
    <2>1. /\ IsQueue(t) /\ t.dequeueing = on /\ t.net = sq.net
          /\ t.queue = sq.queue /\ t.deps = sq.deps /\ t.waiting = sq.waiting
          /\ t.mapped = sq.mapped /\ t.told = sq.told /\ t.again = sq.again
          /\ t.orphaned = sq.orphaned /\ t.stalled = sq.stalled
      BY <1>1 DEF IsQueue, Fields
    <2> HIDE DEF t
    <2>2. Sound(t, next)
      BY <1>1, <2>1 DEF Sound, QueueType
    <2> QED
      BY <2>2 DEF t
  <1>3. CASE StopDequeueing
    BY <1>2, <1>3 DEF StopDequeueing, TypeInv
  <1>4. CASE StartDequeueing
    BY <1>2, <1>4, DequeueSound DEF StartDequeueing, TypeInv
  <1>5. CASE Clear
    <2> DEFINE f == Without(sq.queue, DOMAIN sq.queue)
               g == Without(sq.deps, DOMAIN sq.deps)
               w == [id \in Ids |-> {}]
    <2>1. sq' = [sq EXCEPT !.queue = f, !.deps = g, !.waiting = w, !.mapped = {}]
      BY <1>5 DEF Clear
    <2>2. DOMAIN f = {} /\ DOMAIN g = {} /\ Partial(f, QueueIds, Items)
      BY <1>1, WithoutType DEF Without, QueueType
    <2>3. g \in [DOMAIN f -> SUBSET QueueIds] /\ w \in [Ids -> SUBSET QueueIds]
      BY <2>2 DEF Without
    <2> HIDE DEF f, g, w
    <2>4. /\ IsQueue(sq') /\ sq'.queue = f /\ sq'.deps = g /\ sq'.waiting = w
          /\ sq'.mapped = {} /\ sq'.dequeueing = sq.dequeueing
          /\ sq'.net = sq.net /\ sq'.told = sq.told /\ sq'.again = sq.again
          /\ sq'.orphaned = sq.orphaned /\ sq'.stalled = sq.stalled
      BY <1>1, <2>1 DEF IsQueue, Fields
    <2>5. QueueType(sq')
      BY <1>1, <2>2, <2>3, <2>4 DEF QueueType
    <2>6. Sound(sq', next)
      BY <1>1, <2>2, <2>4, <2>5 DEF Sound
    <2>7. \A q \in DOMAIN sq.net : ObjectsOf(sq.net[q].item) \subseteq Objects
      BY FutureType
    <2>8. excused' \subseteq Objects
      BY <1>5, <2>7 DEF Clear, TypeInv
    <2> QED
      BY <1>5, <2>6, <2>8 DEF Clear, TypeInv
  <1> QED
    BY <1>3, <1>4, <1>5

LEMMA ReplyType ==
    ASSUME TypeInv, NEW q \in DOMAIN sq.net, NEW answer \in Answers,
           NEW revisions \in [Objects -> Nat], Reply(q, answer, revisions)
    PROVE  TypeInv'
  <1> DEFINE reply == [answer |-> answer, revs |-> [o \in Objects |->
                IF o \in ObjectsOf(sq.net[q].item) THEN revisions[o] ELSE 0]]
             future == [sq.net[q] EXCEPT !.reply = reply]
  <1>1. reply \in [answer : Answers, revs : [Objects -> Nat]]
    OBVIOUS
  <1>2. sq' = WithFuture(q, future)
    BY DEF Reply, WithFuture
  <1> HIDE DEF reply
  <1>3. future \in Futures
    BY <1>1, FutureType DEF Futures
  <1>4. Sound(sq', next)
    BY <1>2, <1>3, WithFutureSound
  <1> QED
    BY <1>4 DEF Reply, TypeInv

LEMMA ServerType ==
    ASSUME TypeInv, NEW q \in QueueIds, ServerHandles(q)
    PROVE  TypeInv'
  <1> USE DEF Pending
  <1>1. CASE ServerCreates(q)
    BY <1>1, ReplyType DEF ServerCreates, Answers, TypeInv
  <1>2. ASSUME NEW answer \in Denials, ServerRefuses(q, answer)
        PROVE  TypeInv'
    <2>1. answer \in Answers
      BY BoundsAssumption DEF Answers
    <2> QED
      BY <1>2, <2>1, ReplyType DEF ServerRefuses, TypeInv
  <1>3. CASE ServerUpdates(q)
    BY <1>3, ReplyType DEF ServerUpdates, Answers, TypeInv
  <1>4. CASE ServerRecords(q)
    BY <1>4, ReplyType DEF ServerRecords, Answers, TypeInv
  <1> QED
    BY <1>1, <1>2, <1>3, <1>4 DEF ServerHandles

LEMMA OtherClientsType ==
    ASSUME TypeInv, NEW o \in Objects, OtherClientUpdates(o) \/ LearnRevision(o)
    PROVE  TypeInv'
  BY DEF TypeInv, OtherClientUpdates, LearnRevision

LEMMA LearnType ==
    ASSUME TypeInv, NEW objs, NEW revs \in [Objects -> Nat], Learn(objs, revs)
    PROVE  known' \in [Objects -> Nat]
  BY DEF TypeInv, Learn

\* The events about an item in flight.
LEMMA NoticesOfFuture ==
    ASSUME TypeInv, NEW q \in DOMAIN sq.net, NEW event \in Events
    PROVE  Notify(q, sq.net[q].item, event) \subseteq Notices
  BY FutureType, NotifyType

LEMMA CreationSucceedsType ==
    ASSUME TypeInv, NEW q \in QueueIds, CreationSucceeds(q)
    PROVE  TypeInv'
  <1> DEFINE item == sq.net[q].item
             objs == ObjectsOf(item)
             revs == sq.net[q].reply.revs
             replaced == IF item.op = "create"
                         THEN ReplaceReferences(Taken(q), q, objs) ELSE Taken(q)
             named == [replaced EXCEPT !.mapped = @ \cup objs]
             done == Satisfy(named, q)
             told == Tell(NewRevision(done, objs, revs), Notify(q, item, "created"))
  <1>1. q \in DOMAIN sq.net /\ objs \subseteq Objects /\ revs \in [Objects -> Nat]
    BY FutureType DEF CreationSucceeds, Answered
  <1>2. Sound(replaced, next)
    BY TakenSound, ReplaceReferencesSound
  <1>3. Sound(named, next)
    <2> HIDE DEF replaced, objs
    <2>1. /\ IsQueue(named) /\ named.mapped = replaced.mapped \cup objs
          /\ named.queue = replaced.queue /\ named.deps = replaced.deps
          /\ named.waiting = replaced.waiting /\ named.net = replaced.net
          /\ named.dequeueing = replaced.dequeueing /\ named.told = replaced.told
          /\ named.again = replaced.again /\ named.orphaned = replaced.orphaned
          /\ named.stalled = replaced.stalled
      BY <1>2 DEF IsQueue, Fields, Sound, QueueType
    <2> HIDE DEF named
    <2> QED
      BY <1>1, <1>2, <2>1 DEF Sound, QueueType
  <1>4. Sound(told, next)
    <2>1. Notify(q, item, "created") \subseteq Notices
      BY <1>1, NoticesOfFuture DEF Events
    <2>2. Sound(done, next)
      BY <1>3, SatisfySound
    <2> HIDE DEF done, objs, revs, item
    <2> QED
      BY <1>1, <2>1, <2>2, NewRevisionSound, TellSound
  <1>5. sq' = Dequeue(told, Cardinality(objs)) /\ Learn(objs, revs)
    BY DEF CreationSucceeds
  <1> HIDE DEF told, objs, revs
  <1>6. Sound(sq', next)
    BY <1>4, <1>5, DequeueSound
  <1>7. known' \in [Objects -> Nat]
    BY <1>1, <1>5, LearnType
  <1> QED
    BY <1>6, <1>7 DEF CreationSucceeds, TypeInv

LEMMA CreationFailsType ==
    ASSUME TypeInv, NEW q \in QueueIds, CreationDenied(q) \/ CreationConflicts(q)
    PROVE  TypeInv'
  <1> DEFINE item == sq.net[q].item
  <1>1. q \in DOMAIN sq.net
    BY DEF CreationDenied, CreationConflicts, Answered
  <1>2. /\ Notify(q, item, "denied") \subseteq Notices
        /\ Notify(q, item, "createFailed") \subseteq Notices
    BY <1>1, NoticesOfFuture DEF Events
  <1>3. Sound(Taken(q), next)
    BY TakenSound
  <1>4. Sound(Satisfy(Taken(q), q), next) /\ Sound(Fail(Taken(q), {q}), next)
    BY <1>3, SatisfySound, FailSound
  <1>5. Sound(sq', next)
    BY <1>2, <1>4, TellSound, DequeueSound DEF CreationDenied, CreationConflicts
  <1> QED
    BY <1>5 DEF CreationDenied, CreationConflicts, TypeInv

LEMMA UpdateAnsweredType ==
    ASSUME TypeInv, NEW q \in QueueIds,
           UpdateSucceeds(q) \/ UpdateRejected(q) \/ ActionRecorded(q)
    PROVE  TypeInv'
  <1> DEFINE item == sq.net[q].item
             objs == ObjectsOf(item)
             revs == sq.net[q].reply.revs
  <1>1. q \in DOMAIN sq.net /\ objs \subseteq Objects /\ revs \in [Objects -> Nat]
    BY FutureType DEF UpdateSucceeds, UpdateRejected, ActionRecorded, Answered
  <1>2. /\ Notify(q, item, "updated") \subseteq Notices
        /\ Notify(q, item, "rejected") \subseteq Notices
        /\ Notify(q, item, "recorded") \subseteq Notices
    BY <1>1, NoticesOfFuture DEF Events
  <1>3. Sound(Taken(q), next) /\ Sound(Satisfy(Taken(q), q), next)
    BY TakenSound, SatisfySound
  <1>4. CASE UpdateSucceeds(q)
    <2>1. Sound(NewRevision(Satisfy(Taken(q), q), objs, revs), next)
      BY <1>1, <1>3, NewRevisionSound
    <2>2. Sound(sq', next)
      BY <1>2, <1>4, <2>1, TellSound, DequeueSound DEF UpdateSucceeds
    <2>3. known' \in [Objects -> Nat]
      BY <1>1, <1>4, LearnType DEF UpdateSucceeds
    <2> QED
      BY <1>4, <2>2, <2>3 DEF UpdateSucceeds, TypeInv
  <1>5. CASE UpdateRejected(q)
    <2>1. Sound(sq', next)
      BY <1>2, <1>3, <1>5, TellSound, SatisfySound, DequeueSound DEF UpdateRejected
    <2>2. known' \in [Objects -> Nat]
      BY <1>1, <1>5, LearnType DEF UpdateRejected, TypeInv
    <2> QED
      BY <1>5, <2>1, <2>2 DEF UpdateRejected, TypeInv
  <1>6. CASE ActionRecorded(q)
    <2>1. Sound(sq', next)
      BY <1>2, <1>3, <1>6, TellSound, DequeueSound DEF ActionRecorded
    <2> QED
      BY <1>6, <2>1 DEF ActionRecorded, TypeInv
  <1> QED
    BY <1>4, <1>5, <1>6

LEMMA AttemptType ==
    ASSUME TypeInv, NEW q, AttemptLost(q)
    PROVE  q \in DOMAIN sq.net /\ losses' \in Nat /\ excused' \subseteq Objects
  BY FutureType DEF AttemptLost, TypeInv

LEMMA RetryType ==
    ASSUME TypeInv, NEW q \in QueueIds, RetryRequest(q)
    PROVE  TypeInv'
  <1> DEFINE future == [sq.net[q] EXCEPT !.tries = @ + 1, !.reply = NoReply]
  <1>1. q \in DOMAIN sq.net /\ losses' \in Nat /\ excused' \subseteq Objects
    BY AttemptType DEF RetryRequest
  <1>2. NoReply \in [answer : Answers, revs : [Objects -> Nat]]
    BY DEF NoReply, Answers
  <1>3. future \in Futures
    <2> DEFINE f == sq.net[q]
    <2>1. /\ f \in [item : Items, tries : Nat,
                    reply : [answer : Answers, revs : [Objects -> Nat]]]
          /\ f.tries + 1 \in Nat
      BY <1>1, FutureType DEF Futures
    <2>2. future = [f EXCEPT !.tries = f.tries + 1, !.reply = NoReply]
      OBVIOUS
    <2> HIDE DEF f, future
    <2> QED
      BY <1>2, <2>1, <2>2 DEF Futures
  <1>4. sq' = WithFuture(q, future)
    BY <1>1, FutureType DEF RetryRequest, WithFuture, TypeInv, Sound, QueueType, Partial
  <1>5. Sound(sq', next)
    BY <1>1, <1>3, <1>4, WithFutureSound
  <1> QED
    BY <1>1, <1>5 DEF RetryRequest, AttemptLost, TypeInv

LEMMA RequestFailedType ==
    ASSUME TypeInv, NEW q \in QueueIds, NEW persistent \in BOOLEAN,
           RequestFailed(q, persistent)
    PROVE  TypeInv'
  <1> DEFINE item == sq.net[q].item
             failed == Tell(Fail(Taken(q), {q}), Notify(q, item, FailureOf(item)))
  <1>1. q \in DOMAIN sq.net /\ losses' \in Nat /\ excused' \subseteq Objects
    BY AttemptType DEF RequestFailed
  <1>2. Notify(q, item, FailureOf(item)) \subseteq Notices
    BY <1>1, FutureType, FailureType, NotifyType
  <1>3. Sound(failed, next)
    BY <1>2, TakenSound, FailSound, TellSound
  <1>4. Sound([failed EXCEPT !.stalled = TRUE], next)
    <2> DEFINE t == [failed EXCEPT !.stalled = TRUE]
    <2> HIDE DEF failed
    <2>1. /\ IsQueue(t) /\ t.stalled = TRUE /\ t.mapped = failed.mapped
          /\ t.queue = failed.queue /\ t.deps = failed.deps
          /\ t.waiting = failed.waiting /\ t.net = failed.net
          /\ t.dequeueing = failed.dequeueing /\ t.told = failed.told
          /\ t.again = failed.again /\ t.orphaned = failed.orphaned
      BY <1>3 DEF IsQueue, Fields, Sound, QueueType
    <2> HIDE DEF t
    <2>2. Sound(t, next)
      BY <1>3, <2>1 DEF Sound, QueueType
    <2> QED
      BY <2>2 DEF t
  <1>5. sq' = IF persistent THEN [failed EXCEPT !.stalled = TRUE] ELSE Dequeue(failed, 1)
    BY DEF RequestFailed
  <1> HIDE DEF failed
  <1>6. Sound(sq', next)
    BY <1>3, <1>4, <1>5, DequeueSound
  <1> QED
    BY <1>1, <1>6 DEF RequestFailed, AttemptLost, TypeInv

LEMMA NextType ==
    ASSUME TypeInv, [Next]_vars
    PROVE  TypeInv'
  <1>1. CASE UNCHANGED vars
    BY <1>1 DEF vars, TypeInv, Sound, QueueType, IsQueue
  <1>2. CASE Enqueues
    BY <1>2, EnqueuesType
  <1>3. CASE StopDequeueing \/ StartDequeueing \/ Clear
    BY <1>3, ControlType
  <1>4. ASSUME NEW o \in Objects, OtherClientUpdates(o) \/ LearnRevision(o)
        PROVE  TypeInv'
    BY <1>4, OtherClientsType
  <1>5. ASSUME NEW q \in QueueIds, ServerHandles(q)
        PROVE  TypeInv'
    BY <1>5, ServerType
  <1>6. ASSUME NEW q \in QueueIds, HandleResponse(q)
        PROVE  TypeInv'
    BY <1>6, CreationSucceedsType, CreationFailsType, UpdateAnsweredType DEF HandleResponse
  <1>7. ASSUME NEW q \in QueueIds, RetryRequest(q)
        PROVE  TypeInv'
    BY <1>7, RetryType
  <1>8. ASSUME NEW q \in QueueIds, NEW persistent \in BOOLEAN, RequestFailed(q, persistent)
        PROVE  TypeInv'
    BY <1>8, RequestFailedType
  <1> QED
    BY <1>1, <1>2, <1>3, <1>4, <1>5, <1>6, <1>7, <1>8 DEF Next

LEMMA StartItemType ==
    ASSUME NEW o \in Objects, NEW op \in {"create", "update", "action"},
           NEW linked \in BOOLEAN, NEW created
    PROVE  StartItem(o, op, linked, created) \in Items
  <1> DEFINE item == StartItem(o, op, linked, created)
  <1>1. /\ item.ids \subseteq Ids /\ item.folders \subseteq Ids /\ item.rev \in Nat
        /\ item.refs \subseteq Objects /\ item.op = op
        /\ item = [op |-> item.op, ids |-> item.ids, folders |-> item.folders,
                   rev |-> item.rev, refs |-> item.refs]
    BY ObjectsAssumption DEF StartItem, Ids
  <1> HIDE DEF item
  <1>2. item \in Items
    BY <1>1 DEF Items
  <1> QED
    BY <1>2 DEF item

LEMMA StartQueueType ==
    ASSUME NEW n \in Nat, NEW m \in Nat, n + m <= MaxStart,
           NEW edits \in [1..n -> Objects], NEW reports \in [1..m -> Reported],
           NEW linked \in BOOLEAN
    PROVE  /\ Partial(StartQueue(edits, reports, linked), QueueIds, Items)
           /\ DOMAIN StartQueue(edits, reports, linked) = 1..(n + m)
  <1> DEFINE items == StartQueue(edits, reports, linked)
             created == {edits[i] : i \in 1..n} \ Existing
  <1>1. Len(edits) = n /\ Len(reports) = m
    <2>1. edits \in Seq(Objects) /\ reports \in Seq(Reported)
      OBVIOUS
    <2> QED
      BY <2>1
  <1>2. items = [q \in 1..(n + m) |->
            IF q <= n
            THEN StartItem(edits[q], IF edits[q] \in Existing THEN "update" ELSE "create",
                           linked, created)
            ELSE StartItem(reports[q - n], "action", FALSE, {})]
    BY <1>1 DEF StartQueue
  <1> HIDE DEF items
  <1>3. ASSUME NEW q \in 1..(n + m)
        PROVE  items[q] \in Items
    <2>1. CASE q <= n
      <3>1. edits[q] \in Objects
        BY <2>1
      <3> HIDE DEF created
      <3> QED
        BY <1>2, <2>1, <3>1, StartItemType
    <2>2. CASE ~(q <= n)
      <3>1. q - n \in 1..m
        BY <2>2
      <3>2. reports[q - n] \in Objects
        BY <3>1, ObjectsAssumption
      <3> HIDE DEF created
      <3>3. items[q] = StartItem(reports[q - n], "action", FALSE, {})
        BY <1>2, <2>2
      <3> QED
        BY <3>2, <3>3, StartItemType
    <2> QED
      BY <2>1, <2>2
  <1>4. 1..(n + m) \subseteq QueueIds
    BY BoundsAssumption DEF QueueIds
  <1>5. DOMAIN items = 1..(n + m) /\ Partial(items, QueueIds, Items)
    BY <1>2, <1>3, <1>4 DEF Partial
  <1> QED
    BY <1>5 DEF items

LEMMA NewQueueSound ==
    ASSUME NEW items, Partial(items, QueueIds, Items), NEW b,
           \A q \in DOMAIN items : q < b
    PROVE  Sound(NewQueue(items), b)
  <1> DEFINE e == Empty(items)
             d == [q \in DOMAIN items |-> Dependencies(e, q, items[q])]
             t == NewQueue(items)
  <1>1. /\ IsQueue(e) /\ e.queue = items /\ e.deps = [q \in DOMAIN items |-> {}]
        /\ e.waiting = [id \in Ids |-> {}] /\ e.mapped = {} /\ e.dequeueing = FALSE
        /\ e.net = [q \in {} |-> NoReply] /\ e.told = {} /\ e.again = {}
        /\ e.orphaned = {} /\ e.stalled = FALSE
    BY DEF Empty, IsQueue, Fields
  <1> HIDE DEF e
  <1>2. Partial(e.net, QueueIds, Futures) /\ DOMAIN e.net = {}
    BY <1>1 DEF Partial
  <1>3. QueueType(e)
    BY <1>1, <1>2 DEF QueueType
  <1>4. d \in [DOMAIN items -> SUBSET QueueIds]
    <2>1. \A q \in DOMAIN items : items[q] \in Items
      BY DEF Partial
    <2> QED
      BY <1>3, <2>1, DependenciesType
  <1>5. t = [e EXCEPT !.deps = d]
    BY DEF NewQueue, e
  <1> HIDE DEF d, t
  <1>6. /\ IsQueue(t) /\ t.deps = d /\ t.queue = e.queue /\ t.waiting = e.waiting
        /\ t.mapped = e.mapped /\ t.dequeueing = e.dequeueing /\ t.net = e.net
        /\ t.told = e.told /\ t.again = e.again /\ t.orphaned = e.orphaned
        /\ t.stalled = e.stalled
    BY <1>1, <1>5 DEF IsQueue, Fields
  <1>7. QueueType(t)
    BY <1>1, <1>3, <1>4, <1>6 DEF QueueType
  <1>8. Sound(t, b)
    BY <1>1, <1>2, <1>6, <1>7 DEF Sound
  <1> QED
    BY <1>8 DEF t

LEMMA InitType ==
    ASSUME Init
    PROVE  TypeInv
  <1>a. PICK n \in 0..MaxStart : \E m \in 0..(MaxStart - n) :
            \E edits \in StartRows(n), reports \in [1..m -> Reported], linked \in BOOLEAN :
                /\ sq = NewQueue(StartQueue(edits, reports, linked))
                /\ next = n + m + 1
                /\ made = [o \in Objects |->
                            {i \in 1..n : edits[i] = o /\ o \notin Existing}]
    BY DEF Init
  <1>b. PICK m \in 0..(MaxStart - n) :
            \E edits \in StartRows(n), reports \in [1..m -> Reported], linked \in BOOLEAN :
                /\ sq = NewQueue(StartQueue(edits, reports, linked))
                /\ next = n + m + 1
                /\ made = [o \in Objects |->
                            {i \in 1..n : edits[i] = o /\ o \notin Existing}]
    BY <1>a
  <1>1. PICK edits \in StartRows(n), reports \in [1..m -> Reported], linked \in BOOLEAN :
            /\ sq = NewQueue(StartQueue(edits, reports, linked))
            /\ next = n + m + 1
            /\ made = [o \in Objects |-> {i \in 1..n : edits[i] = o /\ o \notin Existing}]
    BY <1>b
  <1>2. n \in Nat /\ m \in Nat /\ n + m <= MaxStart /\ n + m <= MaxItems
    BY BoundsAssumption
  <1>3. edits \in [1..n -> Objects]
    BY DEF StartRows
  <1>4. /\ Partial(StartQueue(edits, reports, linked), QueueIds, Items)
        /\ DOMAIN StartQueue(edits, reports, linked) = 1..(n + m)
    BY <1>2, <1>3, StartQueueType
  <1>5. Sound(sq, next)
    <2>1. \A q \in DOMAIN StartQueue(edits, reports, linked) : q < next
      BY <1>1, <1>2, <1>4
    <2> QED
      BY <1>1, <1>4, <2>1, NewQueueSound
  <1>6. next \in 1..(MaxItems + 1) /\ 1 \in 1..(MaxItems + 1)
    BY <1>1, <1>2, BoundsAssumption
  <1>7. made \in [Objects -> SUBSET QueueIds]
    BY <1>1, <1>2, BoundsAssumption DEF QueueIds
  <1> QED
    BY <1>5, <1>6, <1>7 DEF Init, TypeInv

LEMMA TypeInvariance == Spec => []TypeInv
  BY InitType, NextType, PTL DEF Spec

\* Every variable has its type, in every behaviour, whatever the objects, the
\* rows found in SQLite and the bounds.  (TypeOK is not inductive by itself:
\* that a new item is not in flight already follows from ids below next.)
THEOREM TypeCorrect == Spec => []TypeOK
  BY TypeInvariance, TypeInvImplies, PTL

=============================================================================
