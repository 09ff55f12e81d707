------------------------ MODULE SyncQueueSafetyProofs ------------------------
(***************************************************************************)
(* The items of SyncQueue are created by one request at a time, wait for   *)
(* each other in no cycle, are answered once, and are never left behind,   *)
(* the client does not conflict with itself, and what is sent names by its *)
(* ClientId only what was denied or unknown: for every set of objects,     *)
(* every queue found in SQLite and every bound.                            *)
(*                                                                         *)
(* A handler takes a request, settles it (what waited for it is released   *)
(* or fails) and dequeues.  Enqueueing apart, none of this adds an item or *)
(* a dependency: the queue recedes.                                        *)
(***************************************************************************)
EXTENDS SyncQueueSerialProofs, FiniteSetTheorems, WellFoundedInduction

-----------------------------------------------------------------------------
(* A queue that recedes. *)

Live(s) == DOMAIN s.queue \cup DOMAIN s.net
Heard(s, q) == \E n \in s.told : n.item = q
Kin(x, y) ==
    y.op = x.op /\ y.ids = x.ids /\ y.folders = x.folders /\ y.refs \subseteq x.refs

Recedes(s, t) ==
    /\ DOMAIN t.queue \subseteq DOMAIN s.queue
    /\ Live(t) \subseteq Live(s)
    /\ \A q \in Live(t) : Kin(ItemOf(s, q), ItemOf(t, q))
    /\ \A q \in DOMAIN t.queue : t.deps[q] \subseteq s.deps[q]
    /\ s.told \subseteq t.told /\ t.orphaned = s.orphaned

LEMMA RecedesFurther ==
    ASSUME NEW s, NEW t, NEW u, Recedes(s, t), Recedes(t, u)
    PROVE  Recedes(s, u)
  <1>1. \A q \in Live(u) : Kin(ItemOf(s, q), ItemOf(u, q))
    BY DEF Recedes, Kin
  <1> QED
    BY <1>1 DEF Recedes

\* The same items with the same dependencies.
LEMMA StillRecedes ==
    ASSUME NEW s, NEW t, t.queue = s.queue, t.net = s.net, t.deps = s.deps,
           t.told = s.told, t.orphaned = s.orphaned
    PROVE  Recedes(s, t) /\ Live(t) = Live(s)
  <1>1. \A q : ItemOf(t, q) = ItemOf(s, q)
    BY DEF ItemOf
  <1>2. Live(t) = Live(s)
    BY DEF Live
  <1> QED
    BY <1>1, <1>2 DEF Recedes, Kin

\* An item is answered once: what has been told of is neither queued nor sent.
Once(s) ==
    /\ \A q \in Live(s) : Heard(s, q) => q \in s.orphaned
    /\ s.again \subseteq s.orphaned

LEMMA OnceKept ==
    ASSUME NEW s, Once(s), NEW t, Live(t) \subseteq Live(s),
           t.told = s.told, t.again = s.again, t.orphaned = s.orphaned
    PROVE  Once(t)
  BY DEF Once, Heard

LEMMA TellOnce ==
    ASSUME NEW s, IsQueue(s), Once(s), NEW N,
           \A n \in N : n.item \in Live(s) \/ Heard(s, n.item) => n.item \in s.orphaned
    PROVE  Once(Tell(s, N))
  <1> DEFINE t == Tell(s, N)
  <1>1. /\ t.queue = s.queue /\ t.net = s.net /\ t.told = s.told \cup N
        /\ t.again = s.again \cup Repeats(s, N) /\ t.orphaned = s.orphaned
    BY TellFields
  <1>2. Repeats(s, N) \subseteq s.orphaned
    BY DEF Repeats, Heard
  <1> HIDE DEF t
  <1>3. Live(t) = Live(s)
    BY <1>1 DEF Live
  <1>4. \A q \in Live(t) : Heard(t, q) => q \in t.orphaned
    BY <1>1, <1>3 DEF Once, Heard
  <1>5. Once(t)
    BY <1>1, <1>2, <1>4 DEF Once
  <1> QED
    BY <1>5 DEF t

LEMMA TellRecedes ==
    ASSUME NEW s, IsQueue(s), NEW N
    PROVE  Recedes(s, Tell(s, N)) /\ Live(Tell(s, N)) = Live(s)
  <1> DEFINE t == Tell(s, N)
  <1>1. /\ t.queue = s.queue /\ t.net = s.net /\ t.told = s.told \cup N
        /\ t.deps = s.deps /\ t.orphaned = s.orphaned
    BY TellFields
  <1> HIDE DEF t
  <1>2. \A q : ItemOf(t, q) = ItemOf(s, q)
    BY <1>1 DEF ItemOf
  <1>3. Recedes(s, t) /\ Live(t) = Live(s)
    BY <1>1, <1>2 DEF Recedes, Kin, Live
  <1> QED
    BY <1>3 DEF t

-----------------------------------------------------------------------------
(* What a failure takes with it. *)

\* What depends on a lost item is lost.
LEMMA DependentsClosed ==
    ASSUME NEW s, NEW failed, NEW r \in DOMAIN s.queue, r \notin Dependents(s, failed)
    PROVE  s.deps[r] \cap (failed \cup Dependents(s, failed)) = {}
  <1>1. PICK X \in SUBSET DOMAIN s.queue :
            /\ \A p \in DOMAIN s.queue : s.deps[p] \cap (failed \cup X) # {} => p \in X
            /\ r \notin X
    BY DEF Dependents
  <1>2. Dependents(s, failed) \subseteq X
    BY <1>1 DEF Dependents
  <1> QED
    BY <1>1, <1>2

\* The events about an item: one for each of its objects, and so at least one.
LEMMA NotifyMeans ==
    ASSUME NEW q, NEW item, NEW event
    PROVE  /\ \A n \in Notify(q, item, event) :
                n.item = q /\ n.event = event /\ n.obj \in ObjectsOf(item)
           /\ item.ids # {} => \E n \in Notify(q, item, event) : n.item = q
  <1>1. \A n \in Notify(q, item, event) :
            n.item = q /\ n.event = event /\ n.obj \in ObjectsOf(item)
    BY DEF Notify
  <1>2. ASSUME NEW id \in item.ids
        PROVE  \E n \in Notify(q, item, event) : n.item = q
    <2> DEFINE n == [item |-> q, obj |-> Obj(id), event |-> event]
    <2>1. Obj(id) \in ObjectsOf(item)
      BY DEF ObjectsOf
    <2>2. n \in Notify(q, item, event)
      BY <2>1 DEF Notify
    <2> QED
      BY <2>2
  <1> QED
    BY <1>1, <1>2

LEMMA FailureIsNoRejection ==
    ASSUME NEW item
    PROVE  FailureOf(item) \notin {"rejected", "denied"}
  BY DEF FailureOf

LEMMA FailView ==
    ASSUME NEW s, NEW b, Sound(s, b), NEW failed
    PROVE  LET t == Fail(s, failed)
               lost == Dependents(s, failed)
           IN
           /\ lost \subseteq DOMAIN s.queue /\ DOMAIN t.queue = DOMAIN s.queue \ lost
           /\ \A r \in DOMAIN t.queue :
                /\ t.queue[r] = s.queue[r] /\ t.deps[r] = s.deps[r]
                /\ s.deps[r] \cap (failed \cup lost) = {}
           /\ \A r \in lost : s.queue[r].ids # {} => Heard(t, r)
           /\ \A n \in t.told \ s.told : n.item \in lost /\ n.event # "rejected"
           /\ Recedes(s, t)
           /\ Once(s) => Once(t)
           /\ \A q : q \notin lost /\ Heard(t, q) => Heard(s, q)
  <1> DEFINE lost == Dependents(s, failed)
             N == LossNotices(s, failed)
             u == Unwait(Remove(s, lost), failed)
             t == Fail(s, failed)
  <1>0. IsQueue(s)
    BY DEF Sound, QueueType
  <1>1. DOMAIN s.deps = DOMAIN s.queue /\ DOMAIN s.queue \cap DOMAIN s.net = {}
    BY DEF Sound, QueueType
  <1>2. /\ IsQueue(t) /\ t.told = s.told \cup N
        /\ t.queue = Without(s.queue, lost) /\ t.deps = Without(s.deps, lost)
        /\ t.waiting = [id \in Ids |-> s.waiting[id] \ failed]
        /\ t.net = s.net /\ t.orphaned = s.orphaned
    BY <1>0, FailFields
  <1>3. /\ IsQueue(u) /\ u.queue = Without(s.queue, lost) /\ u.net = s.net
        /\ u.told = s.told /\ u.again = s.again /\ u.orphaned = s.orphaned
    <2> DEFINE r == Remove(s, lost)
    <2>1. /\ IsQueue(r) /\ r.queue = Without(s.queue, lost) /\ r.net = s.net
          /\ r.told = s.told /\ r.again = s.again /\ r.orphaned = s.orphaned
      BY <1>0, RemoveFields
    <2> HIDE DEF r
    <2>2. LET v == Unwait(r, failed) IN
          /\ IsQueue(v) /\ v.queue = r.queue /\ v.net = r.net
          /\ v.waiting = [id \in Ids |-> r.waiting[id] \ failed]
          /\ v.told = r.told /\ v.again = r.again /\ v.orphaned = r.orphaned
      BY <2>1, UnwaitFields
    <2>3. u = Unwait(r, failed)
      BY DEF r
    <2> HIDE DEF u
    <2> QED
      BY <2>1, <2>2, <2>3
  <1>4. t = Tell(u, N)
    BY DEF Fail, LossNotices
  <1>5. /\ \A n \in N : n.item \in lost /\ n.event # "rejected"
        /\ \A r \in lost : s.queue[r].ids # {} => \E n \in N : n.item = r
    <2>1. \A r \in lost : \A n \in Notify(r, s.queue[r], FailureOf(s.queue[r])) :
            n.item = r /\ n.event # "rejected"
      BY NotifyMeans, FailureIsNoRejection
    <2>2. ASSUME NEW r \in lost, s.queue[r].ids # {}
          PROVE  \E n \in Notify(r, s.queue[r], FailureOf(s.queue[r])) : n.item = r
      BY <2>2, NotifyMeans
    <2> QED
      BY <2>1, <2>2 DEF LossNotices
  <1>6. lost \subseteq DOMAIN s.queue
    BY DEF Dependents
  <1>7. \A r \in DOMAIN s.queue \ lost : s.deps[r] \cap (failed \cup lost) = {}
    BY DependentsClosed
  <1> HIDE DEF t, lost, N, u
  <1>8. /\ DOMAIN t.queue = DOMAIN s.queue \ lost
        /\ \A r \in DOMAIN t.queue : t.queue[r] = s.queue[r] /\ t.deps[r] = s.deps[r]
    BY <1>1, <1>2 DEF Without
  <1>9. Live(t) = Live(s) \ lost /\ Live(u) = Live(s) \ lost
    BY <1>1, <1>2, <1>3, <1>6 DEF Live, Without
  <1>10. Recedes(s, t)
    <2>1. \A q \in Live(t) : ItemOf(t, q) = ItemOf(s, q)
      BY <1>2, <1>6, <1>8, <1>9 DEF ItemOf
    <2> QED
      BY <1>2, <1>8, <1>9, <2>1 DEF Recedes, Kin
  <1>11. Once(s) => Once(t)
    <2> SUFFICES ASSUME Once(s) PROVE Once(t)
      OBVIOUS
    <2>1. Once(u)
      BY <1>3, <1>9, OnceKept
    <2>2. \A n \in N : n.item \in Live(u) \/ Heard(u, n.item) => n.item \in u.orphaned
      BY <1>3, <1>5, <1>6, <1>9 DEF Once, Heard, Live
    <2> QED
      BY <1>3, <1>4, <2>1, <2>2, TellOnce
  <1> QED
    BY <1>2, <1>5, <1>6, <1>7, <1>8, <1>10, <1>11 DEF Heard, t, lost

-----------------------------------------------------------------------------
(* What a dequeue takes. *)

LEMMA LeastItem ==
    ASSUME NEW S \in SUBSET Nat, S # {}
    PROVE  \E q \in S : \A r \in S : ~(r < q)
  <1> DEFINE R == OpToRel(<, Nat)
  <1>1. IsWellFoundedOn(R, Nat)
    BY NatLessThanWellFounded
  <1>2. \A x, y \in Nat : x < y => <<x, y>> \in R
    BY DEF OpToRel
  <1> HIDE DEF R
  <1>3. PICK q \in S : \A r \in S : ~(<<r, q>> \in R)
    BY <1>1, WFMin
  <1> QED
    BY <1>2, <1>3

\* One dequeue takes an item that can be sent, or every ready item is skipped.
LEMMA SomethingTaken ==
    ASSUME NEW s, QueueType(s), NEW n \in Nat, n >= 1
    PROVE  Sent(s, n) # {} \/ Skipped(s, n) = Ready(s)
  <1>1. CASE Sendable(s) = {}
    <2>1. \A q : {r \in Sendable(s) : r < q} = {}
      BY <1>1
    <2> QED
      BY <1>1, <2>1, FS_EmptySet DEF Skipped
  <1>2. CASE Sendable(s) # {}
    <2>1. Sendable(s) \subseteq Nat
      BY BoundsAssumption DEF QueueType, Partial, QueueIds, Sendable, Ready
    <2>2. PICK q \in Sendable(s) : \A r \in Sendable(s) : ~(r < q)
      BY <1>2, <2>1, LeastItem
    <2>3. {r \in Sendable(s) : r < q} = {}
      BY <2>2
    <2>4. q \in Sent(s, n)
      BY <2>2, <2>3, FS_EmptySet DEF Sent
    <2> QED
      BY <2>4
  <1> QED
    BY <1>1, <1>2

\* Dequeue sends ready items, drops or fails the ones it skips, and fails what
\* depends on a failed one.
Dequeues(s, n, t) ==
    LET sent == Sent(s, n)
        gone == DOMAIN s.queue \ DOMAIN t.queue
    IN
    /\ sent \subseteq Ready(s) /\ sent \subseteq gone
    /\ Skipped(s, n) \subseteq gone
    /\ DOMAIN t.net = DOMAIN s.net \cup sent
    /\ \A q \in sent : t.net[q] = [item |-> s.queue[q], tries |-> 0, reply |-> NoReply]
    /\ \A q \in DOMAIN s.net : t.net[q] = s.net[q]
    /\ \A r \in DOMAIN t.queue :
         /\ r \in DOMAIN s.queue /\ t.queue[r] = s.queue[r] /\ t.deps[r] = s.deps[r]
         /\ \A q \in s.deps[r] \cap gone : q \in sent \/ q \in Skipped(s, n)
         /\ \A q \in s.deps[r] \cap Skipped(s, n) : s.queue[q].op # "update"
    /\ \A q \in gone :
         \/ q \in sent
         \/ s.queue[q].ids # {} => Heard(t, q)
         \/ q \in Skipped(s, n) /\ s.queue[q].op # "update"
    /\ \A e \in t.told \ s.told :
         /\ e.item \in gone \ sent
         /\ e.event \in {"createFailed", "updateFailed", "recordFailed"}
         /\ e.item \in Skipped(s, n) => s.queue[e.item].op = "update"
    /\ t.waiting = WaitingAfter(s, n) /\ t.mapped = s.mapped
    /\ t.dequeueing = TRUE /\ t.stalled = FALSE
    /\ Recedes(s, t)
    /\ Once(s) => Once(t)

LEMMA DequeueView ==
    ASSUME NEW s, NEW b, Sound(s, b), s.dequeueing = TRUE, NEW n
    PROVE  Dequeues(s, n, Dequeue(s, n))
  <1> DEFINE t == Dequeue(s, n)
             sent == Sent(s, n)
             skipped == Skipped(s, n)
             noId == Unsendable(s, n)
             u == Emptied(s, n)
             v == Fail(u, noId)
             lost == Dependents(u, noId)
             N == UNION {Notify(q, s.queue[q], "updateFailed") : q \in noId}
             gone == DOMAIN s.queue \ DOMAIN t.queue
  <1>0. IsQueue(s)
    BY DEF Sound, QueueType
  <1>1. DOMAIN s.deps = DOMAIN s.queue /\ DOMAIN s.queue \cap DOMAIN s.net = {}
    BY DEF Sound, QueueType
  <1>2. /\ u.queue = Without(s.queue, sent \cup skipped)
        /\ u.deps = Without(s.deps, sent \cup skipped)
        /\ u.net = s.net /\ u.told = s.told /\ u.again = s.again
        /\ u.orphaned = s.orphaned /\ QueueType(u)
    BY <1>0, RemoveFields, RemoveType DEF Emptied, Sound
  <1>3. /\ t.queue = Without(u.queue, lost) /\ t.deps = Without(u.deps, lost)
        /\ t.waiting = WaitingAfter(s, n) /\ t.net = NetAfter(s, n)
        /\ t.told = s.told \cup LossNotices(u, noId) \cup N
        /\ t.mapped = s.mapped /\ t.dequeueing = s.dequeueing
        /\ t.orphaned = s.orphaned /\ t.stalled = FALSE
        /\ t.again = Dequeued(s, n).again
    BY <1>0, DequeueFields, ZenonT(60)
  <1>4. Dequeued(s, n) = Tell(v, N)
    BY DEF Dequeued
  <1>5. sent \subseteq Ready(s) /\ skipped \subseteq Ready(s) /\ noId \subseteq skipped
    BY DEF Sent, Skipped, Sendable, Unsendable
  <1>6. Ready(s) \subseteq DOMAIN s.queue
    BY DEF Ready
  <1>7. \A e \in N : e.item \in noId /\ e.event = "updateFailed"
    BY NotifyMeans
  <1>8. \A q \in noId : s.queue[q].ids # {} => \E e \in N : e.item = q
    BY NotifyMeans
  <1>9. \A q \in skipped : s.queue[q].op = "update" <=> q \in noId
    BY DEF Unsendable
  <1>10. Sound(u, b)
    <2> HIDE DEF u, sent, skipped
    <2> QED
      BY <1>1, <1>2 DEF Sound, Without
  <1>11. /\ lost \subseteq DOMAIN u.queue /\ DOMAIN v.queue = DOMAIN u.queue \ lost
         /\ \A r \in DOMAIN v.queue :
                v.deps[r] = u.deps[r] /\ u.deps[r] \cap (noId \cup lost) = {}
         /\ \A r \in lost : u.queue[r].ids # {} => Heard(v, r)
         /\ \A e \in v.told \ u.told : e.item \in lost
         /\ \A q : q \notin lost /\ Heard(v, q) => Heard(u, q)
         /\ Once(u) => Once(v)
    <2> HIDE DEF u, noId
    <2> QED
      BY <1>10, FailView
  <1>12. /\ IsQueue(v) /\ v.told = s.told \cup LossNotices(u, noId)
         /\ v.waiting = [id \in Ids |-> u.waiting[id] \ noId]
         /\ v.net = u.net /\ v.orphaned = u.orphaned
    <2>1. IsQueue(u)
      BY <1>2 DEF QueueType
    <2> HIDE DEF u, noId
    <2> QED
      BY <1>2, <2>1, FailFields
  <1>13. \A e \in LossNotices(u, noId) :
            e.item \in lost /\ e.event \in {"createFailed", "updateFailed", "recordFailed"}
    BY NotifyMeans DEF LossNotices, FailureOf
  <1>14. Tell(v, N).again = v.again \cup Repeats(v, N)
    <2> HIDE DEF v, N
    <2> QED
      BY <1>12, TellFields
  <1> HIDE DEF t, sent, skipped, noId, u, v, lost, N
  <1>15. DOMAIN u.queue = DOMAIN s.queue \ (sent \cup skipped)
    BY <1>2 DEF Without
  <1>16. DOMAIN t.queue = DOMAIN u.queue \ lost
    BY <1>3 DEF Without
  <1>17. gone = sent \cup skipped \cup lost
    BY <1>5, <1>6, <1>11, <1>15, <1>16
  <1>18. \A r \in DOMAIN t.queue :
            /\ r \in DOMAIN s.queue /\ t.queue[r] = s.queue[r] /\ t.deps[r] = s.deps[r]
            /\ s.deps[r] \cap (noId \cup lost) = {}
    <2> TAKE r \in DOMAIN t.queue
    <2>1. r \in DOMAIN v.queue /\ r \in DOMAIN u.queue /\ r \in DOMAIN s.queue
      BY <1>11, <1>15, <1>16
    <2>2. t.queue[r] = u.queue[r] /\ t.deps[r] = u.deps[r]
      BY <1>2, <1>3, <1>10, <1>16, <2>1 DEF Without, Sound, QueueType
    <2>3. u.queue[r] = s.queue[r] /\ u.deps[r] = s.deps[r]
      BY <1>1, <1>2, <1>15, <2>1 DEF Without
    <2> QED
      BY <1>11, <2>1, <2>2, <2>3
  <1>19. /\ DOMAIN t.net = DOMAIN s.net \cup sent
         /\ \A q \in sent : t.net[q] = [item |-> s.queue[q], tries |-> 0, reply |-> NoReply]
         /\ \A q \in DOMAIN s.net : t.net[q] = s.net[q]
    BY <1>1, <1>3, <1>5, <1>6 DEF NetAfter, sent
  <1> HIDE DEF gone
  <1>20. \A q \in lost : s.queue[q].ids # {} => Heard(t, q)
    <2> TAKE q \in lost
    <2>1. u.queue[q] = s.queue[q]
      BY <1>2, <1>11, <1>15 DEF Without
    <2>2. v.told \subseteq t.told
      BY <1>3, <1>12
    <2> QED
      BY <1>11, <2>1, <2>2 DEF Heard
  <1>21. \A q \in noId : s.queue[q].ids # {} => Heard(t, q)
    BY <1>3, <1>8 DEF Heard
  <1>22. \A e \in t.told \ s.told :
            /\ e.item \in gone \ sent
            /\ e.event \in {"createFailed", "updateFailed", "recordFailed"}
            /\ e.item \in skipped => s.queue[e.item].op = "update"
    <2>1. sent \cap skipped = {}
      BY DEF sent, skipped, Sent, Skipped
    <2> QED
      BY <1>3, <1>5, <1>7, <1>9, <1>11, <1>13, <1>15, <1>17, <2>1
  <1>23. Live(t) \subseteq Live(s)
    BY <1>5, <1>6, <1>18, <1>19 DEF Live
  <1>24. Recedes(s, t)
    <2>1. ASSUME NEW q \in Live(t) PROVE ItemOf(t, q) = ItemOf(s, q)
      <3>1. CASE q \in DOMAIN t.queue
        BY <1>18, <3>1 DEF ItemOf
      <3>2. CASE q \in sent
        <4>1. q \in DOMAIN s.queue /\ q \notin DOMAIN t.queue
          BY <1>17, <3>2 DEF gone
        <4>2. t.net[q] = [item |-> s.queue[q], tries |-> 0, reply |-> NoReply]
          BY <1>19, <3>2
        <4>3. t.net[q].item = s.queue[q]
          BY <4>2
        <4> QED
          BY <4>1, <4>3 DEF ItemOf
      <3>3. CASE q \in DOMAIN s.net
        BY <1>1, <1>18, <1>19, <3>3 DEF ItemOf
      <3> QED
        BY <1>19, <3>1, <3>2, <3>3 DEF Live
    <2> QED
      BY <1>3, <1>18, <1>23, <2>1 DEF Recedes, Kin
  <1>25. Once(s) => Once(t)
    <2> SUFFICES ASSUME Once(s) PROVE Once(t)
      OBVIOUS
    <2>1. Once(u)
      BY <1>2, <1>15, OnceKept DEF Live
    <2>2. \A e \in N : e.item \in s.orphaned \/ ~Heard(v, e.item)
      <3> TAKE e \in N
      <3>1. e.item \in noId /\ e.item \in DOMAIN s.queue /\ e.item \notin lost
        BY <1>5, <1>6, <1>7, <1>11, <1>15
      <3>2. Heard(v, e.item) => Heard(s, e.item)
        BY <1>2, <1>11, <3>1 DEF Heard
      <3> QED
        BY <3>1, <3>2 DEF Once, Live
    <2>3. Repeats(v, N) \subseteq s.orphaned
      BY <2>2 DEF Repeats, Heard
    <2>4. t.again \subseteq s.orphaned
      BY <1>2, <1>3, <1>4, <1>11, <1>12, <1>14, <2>1, <2>3 DEF Once
    <2>5. \A q \in Live(t) : Heard(t, q) => Heard(s, q)
      BY <1>1, <1>5, <1>6, <1>17, <1>19, <1>22 DEF Live, Heard, gone
    <2> QED
      BY <1>3, <1>23, <2>4, <2>5 DEF Once
  <1>26. \A r \in DOMAIN t.queue :
            /\ \A q \in s.deps[r] \cap gone : q \in sent \/ q \in skipped
            /\ \A q \in s.deps[r] \cap skipped : s.queue[q].op # "update"
    BY <1>9, <1>17, <1>18
  <1>27. \A q \in gone :
            \/ q \in sent
            \/ s.queue[q].ids # {} => Heard(t, q)
            \/ q \in skipped /\ s.queue[q].op # "update"
    BY <1>9, <1>17, <1>20, <1>21
  <1>28. sent \subseteq gone /\ skipped \subseteq gone
    BY <1>17
  <1> QED
    BY <1>3, <1>5, <1>18, <1>19, <1>22, <1>24, <1>25, <1>26, <1>27, <1>28
       DEF t, sent, skipped, gone, Dequeues

-----------------------------------------------------------------------------
(* A request is settled: what the callbacks do before they dequeue. *)

Failures == {"createFailed", "updateFailed", "recordFailed"}

Settles(t, q) ==
    /\ Sound(t, next)
    /\ DOMAIN t.net = DOMAIN sq.net \ {q}
    /\ \A r \in DOMAIN t.net : t.net[r] = sq.net[r]
    /\ t.dequeueing = sq.dequeueing
    /\ t.waiting = [id \in Ids |-> sq.waiting[id] \ {q}]
    /\ \A r \in DOMAIN t.queue :
        /\ r \in DOMAIN sq.queue /\ t.deps[r] = sq.deps[r] \ {q}
        /\ sq.deps[r] \cap (DOMAIN sq.queue \ DOMAIN t.queue) = {}
    /\ \A r \in DOMAIN sq.queue \ DOMAIN t.queue : sq.queue[r].ids # {} => Heard(t, r)
    /\ \A e \in t.told \ sq.told :
        \/ e.item = q
        \/ e.item \in DOMAIN sq.queue \ DOMAIN t.queue /\ e.event \in Failures
    /\ Recedes(sq, t)
    /\ Once(sq) => Once(t)

\* What waited for the request is released.
LEMMA ReleaseSettles ==
    ASSUME Sound(sq, next), NEW q \in DOMAIN sq.net,
           NEW t, Sound(t, next), NEW N, \A e \in N : e.item = q,
           DOMAIN t.queue = DOMAIN sq.queue,
           \A r \in DOMAIN sq.queue : Kin(sq.queue[r], t.queue[r]),
           t.deps = [r \in DOMAIN sq.deps |-> sq.deps[r] \ {q}],
           t.waiting = [id \in Ids |-> sq.waiting[id] \ {q}],
           t.net = Without(sq.net, {q}), t.dequeueing = sq.dequeueing,
           t.told = sq.told \cup N, t.again = sq.again \cup Repeats(sq, N),
           t.orphaned = sq.orphaned
    PROVE  Settles(t, q)
  <1>1. DOMAIN sq.deps = DOMAIN sq.queue /\ DOMAIN sq.queue \cap DOMAIN sq.net = {}
    BY DEF Sound, QueueType
  <1>2. /\ DOMAIN t.net = DOMAIN sq.net \ {q}
        /\ \A r \in DOMAIN t.net : t.net[r] = sq.net[r]
    BY DEF Without
  <1>3. \A r \in DOMAIN t.queue : t.deps[r] = sq.deps[r] \ {q}
    BY <1>1
  <1>4. Live(t) = Live(sq) \ {q}
    BY <1>1, <1>2 DEF Live
  <1>5. Recedes(sq, t)
    <2>1. ASSUME NEW r \in Live(t) PROVE Kin(ItemOf(sq, r), ItemOf(t, r))
      <3>1. CASE r \in DOMAIN t.queue
        BY <3>1 DEF ItemOf
      <3>2. CASE r \notin DOMAIN t.queue
        BY <1>2, <2>1, <3>2 DEF ItemOf, Live, Kin
      <3> QED
        BY <3>1, <3>2
    <2> QED
      BY <1>3, <1>4, <2>1 DEF Recedes
  <1>6. Once(sq) => Once(t)
    <2> SUFFICES ASSUME Once(sq) PROVE Once(t)
      OBVIOUS
    <2>1. Repeats(sq, N) \subseteq sq.orphaned
      BY DEF Repeats, Once, Heard, Live
    <2>2. \A r \in Live(t) : Heard(t, r) => Heard(sq, r)
      BY <1>4 DEF Heard
    <2> QED
      BY <1>4, <2>1, <2>2 DEF Once
  <1> QED
    BY <1>2, <1>3, <1>5, <1>6 DEF Settles

\* What waited for the request fails with it.
LEMMA FailureSettles ==
    ASSUME Sound(sq, next), TypeInv, NEW q \in DOMAIN sq.net, NEW event \in Events
    PROVE  LET t == Tell(Fail(Taken(q), {q}), Notify(q, sq.net[q].item, event)) IN
           /\ Settles(t, q) /\ t.mapped = sq.mapped
           /\ Notify(q, sq.net[q].item, event) \subseteq t.told
           /\ \A r \in DOMAIN t.queue : q \notin sq.deps[r]
  <1> DEFINE s == Taken(q)
             X == {q}
             f == Fail(s, X)
             N == Notify(q, sq.net[q].item, event)
             t == Tell(f, N)
             lost == Dependents(s, X)
  <1>1. IsQueue(sq) /\ DOMAIN sq.deps = DOMAIN sq.queue /\ DOMAIN sq.queue \cap DOMAIN sq.net = {}
    BY DEF Sound, QueueType
  <1>2. /\ s.net = Without(sq.net, {q})
        /\ s.queue = sq.queue /\ s.deps = sq.deps /\ s.waiting = sq.waiting
        /\ s.dequeueing = sq.dequeueing /\ s.told = sq.told /\ s.again = sq.again
        /\ s.orphaned = sq.orphaned /\ s.mapped = sq.mapped
    BY <1>1, TakenFields
  <1>3. Sound(s, next) /\ IsQueue(s)
    BY TakenSound, SoundQueue
  <1>4. N \subseteq Notices /\ \A e \in N : e.item = q
    BY NoticesOfFuture, NotifyMeans
  <1> HIDE DEF s, N, X
  <1>5. /\ IsQueue(f) /\ f.told = s.told \cup LossNotices(s, X)
        /\ f.waiting = [id \in Ids |-> s.waiting[id] \ X]
        /\ f.net = s.net /\ f.dequeueing = s.dequeueing
        /\ f.orphaned = s.orphaned /\ f.mapped = s.mapped
    BY <1>3, FailFields
  <1>6. /\ lost \subseteq DOMAIN s.queue /\ DOMAIN f.queue = DOMAIN s.queue \ lost
        /\ \A r \in DOMAIN f.queue :
                /\ f.queue[r] = s.queue[r] /\ f.deps[r] = s.deps[r]
                /\ s.deps[r] \cap (X \cup lost) = {}
        /\ \A r \in lost : s.queue[r].ids # {} => Heard(f, r)
        /\ Recedes(s, f)
        /\ Once(s) => Once(f)
        /\ \A r : r \notin lost /\ Heard(f, r) => Heard(s, r)
    BY <1>3, FailView
  <1>7. \A e \in LossNotices(s, X) : e.item \in lost /\ e.event \in Failures
    BY NotifyMeans DEF LossNotices, FailureOf, Failures
  <1>8. Sound(f, next) /\ Sound(t, next)
    BY <1>3, <1>4, FailSound, TellSound
  <1> HIDE DEF f, lost
  <1>9. /\ t.queue = f.queue /\ t.deps = f.deps /\ t.waiting = f.waiting
        /\ t.net = f.net /\ t.dequeueing = f.dequeueing /\ t.told = f.told \cup N
        /\ t.orphaned = f.orphaned /\ t.mapped = f.mapped
    BY <1>5, TellFields
  <1>10. Recedes(f, t)
    BY <1>5, TellRecedes
  <1>11. Live(s) = Live(sq) \ {q}
    BY <1>1, <1>2 DEF Live, Without
  <1>12. Recedes(sq, s)
    <2>1. \A r \in Live(s) : ItemOf(s, r) = ItemOf(sq, r)
      BY <1>1, <1>2 DEF ItemOf, Without, Live
    <2> QED
      BY <1>2, <1>11, <2>1 DEF Recedes, Kin
  <1>13. Recedes(sq, t)
    BY <1>6, <1>10, <1>12, RecedesFurther
  <1>14. Once(sq) => Once(t)
    <2> SUFFICES ASSUME Once(sq) PROVE Once(t)
      OBVIOUS
    <2>1. Once(s)
      BY <1>2, <1>11, OnceKept
    <2>2. q \notin lost /\ q \notin Live(f)
      BY <1>1, <1>2, <1>5, <1>6, <1>11 DEF Live
    <2>3. Heard(f, q) => q \in f.orphaned
      BY <1>2, <1>5, <1>6, <2>2 DEF Once, Heard, Live
    <2> QED
      BY <1>4, <1>5, <1>6, <2>1, <2>2, <2>3, TellOnce
  <1> HIDE DEF t
  <1>15. /\ DOMAIN t.net = DOMAIN sq.net \ {q}
         /\ \A r \in DOMAIN t.net : t.net[r] = sq.net[r]
    BY <1>2, <1>5, <1>9 DEF Without
  <1> USE DEF X
  <1>16. \A r \in DOMAIN t.queue :
            /\ r \in DOMAIN sq.queue /\ t.deps[r] = sq.deps[r] \ {q}
            /\ sq.deps[r] \cap (DOMAIN sq.queue \ DOMAIN t.queue) = {}
    BY <1>2, <1>6, <1>9
  <1>17. /\ \A r \in DOMAIN sq.queue \ DOMAIN t.queue : sq.queue[r].ids # {} => Heard(t, r)
         /\ \A e \in t.told \ sq.told :
                \/ e.item = q
                \/ e.item \in DOMAIN sq.queue \ DOMAIN t.queue /\ e.event \in Failures
    <2>1. DOMAIN sq.queue \ DOMAIN t.queue = lost
      BY <1>2, <1>6, <1>9
    <2>2. t.told = sq.told \cup LossNotices(s, X) \cup N
      BY <1>2, <1>5, <1>9
    <2>3. \A r \in lost : Heard(f, r) => Heard(t, r)
      BY <1>9 DEF Heard
    <2> QED
      BY <1>2, <1>4, <1>6, <1>7, <2>1, <2>2, <2>3
  <1>18. t.dequeueing = sq.dequeueing /\ t.waiting = [id \in Ids |-> sq.waiting[id] \ {q}]
    BY <1>2, <1>5, <1>9
  <1>19. Settles(t, q)
    BY <1>8, <1>13, <1>14, <1>15, <1>16, <1>17, <1>18 DEF Settles
  <1>20. /\ t.mapped = sq.mapped /\ N \subseteq t.told
         /\ \A r \in DOMAIN t.queue : q \notin sq.deps[r]
    BY <1>2, <1>5, <1>6, <1>9
  <1> QED
    BY <1>19, <1>20 DEF t, f, s, N

Released(q) == Satisfy(Taken(q), q)
ToldOf(q, event) == Notify(q, sq.net[q].item, event)

LEMMA ReleasedFields ==
    ASSUME TypeInv, NEW q \in DOMAIN sq.net
    PROVE  LET t == Released(q) IN
           /\ Sound(t, next) /\ IsQueue(t)
           /\ t.deps = [r \in DOMAIN sq.deps |-> sq.deps[r] \ {q}]
           /\ t.waiting = [id \in Ids |-> sq.waiting[id] \ {q}]
           /\ t.net = Without(sq.net, {q})
           /\ t.queue = sq.queue /\ t.mapped = sq.mapped
           /\ t.dequeueing = sq.dequeueing /\ t.told = sq.told
           /\ t.again = sq.again /\ t.orphaned = sq.orphaned
  <1> DEFINE s == Taken(q)
             t == Satisfy(s, q)
  <1>1. IsQueue(sq)
    BY SoundQueue DEF TypeInv
  <1>2. /\ IsQueue(s) /\ s.net = Without(sq.net, {q})
        /\ s.queue = sq.queue /\ s.deps = sq.deps /\ s.waiting = sq.waiting
        /\ s.mapped = sq.mapped /\ s.dequeueing = sq.dequeueing
        /\ s.told = sq.told /\ s.again = sq.again /\ s.orphaned = sq.orphaned
    BY <1>1, TakenFields
  <1>3. Sound(s, next)
    BY TakenSound
  <1> HIDE DEF s
  <1>4. /\ IsQueue(t)
        /\ t.deps = [r \in DOMAIN s.deps |-> s.deps[r] \ {q}]
        /\ t.waiting = [id \in Ids |-> s.waiting[id] \ {q}]
        /\ t.queue = s.queue /\ t.mapped = s.mapped
        /\ t.dequeueing = s.dequeueing /\ t.net = s.net /\ t.told = s.told
        /\ t.again = s.again /\ t.orphaned = s.orphaned
    BY <1>2, SatisfyFields
  <1>5. Sound(t, next)
    BY <1>3, SatisfySound
  <1>6. Released(q) = t
    BY DEF Released, s
  <1> HIDE DEF t
  <1> QED
    BY <1>2, <1>4, <1>5, <1>6

\* A denied creation, a recorded action.
LEMMA ReleasedSettles ==
    ASSUME TypeInv, NEW q \in DOMAIN sq.net, NEW event \in Events
    PROVE  LET t == Tell(Released(q), ToldOf(q, event)) IN
           /\ Settles(t, q) /\ t.queue = sq.queue /\ t.mapped = sq.mapped
           /\ t.told = sq.told \cup ToldOf(q, event)
  <1> DEFINE s == Released(q)
             N == ToldOf(q, event)
             t == Tell(s, N)
  <1>1. /\ Sound(s, next) /\ IsQueue(s)
        /\ s.deps = [r \in DOMAIN sq.deps |-> sq.deps[r] \ {q}]
        /\ s.waiting = [id \in Ids |-> sq.waiting[id] \ {q}]
        /\ s.net = Without(sq.net, {q})
        /\ s.queue = sq.queue /\ s.mapped = sq.mapped
        /\ s.dequeueing = sq.dequeueing /\ s.told = sq.told
        /\ s.again = sq.again /\ s.orphaned = sq.orphaned
    BY ReleasedFields
  <1>2. N \subseteq Notices /\ \A e \in N : e.item = q
    BY NoticesOfFuture, NotifyMeans DEF ToldOf
  <1>3. Repeats(s, N) = Repeats(sq, N)
    BY <1>1 DEF Repeats
  <1> HIDE DEF s, N
  <1>4. /\ t.queue = s.queue /\ t.deps = s.deps /\ t.waiting = s.waiting
        /\ t.mapped = s.mapped /\ t.dequeueing = s.dequeueing
        /\ t.net = s.net /\ t.told = s.told \cup N
        /\ t.again = s.again \cup Repeats(s, N) /\ t.orphaned = s.orphaned
    BY <1>1, TellFields
  <1>5. Sound(t, next)
    BY <1>1, <1>2, TellSound
  <1> HIDE DEF t
  <1>6. \A r \in DOMAIN sq.queue : Kin(sq.queue[r], t.queue[r])
    BY <1>1, <1>4 DEF Kin
  <1>7. /\ DOMAIN t.queue = DOMAIN sq.queue
        /\ t.deps = [r \in DOMAIN sq.deps |-> sq.deps[r] \ {q}]
        /\ t.waiting = [id \in Ids |-> sq.waiting[id] \ {q}]
        /\ t.net = Without(sq.net, {q}) /\ t.dequeueing = sq.dequeueing
        /\ t.told = sq.told \cup N /\ t.again = sq.again \cup Repeats(sq, N)
        /\ t.orphaned = sq.orphaned
    BY <1>1, <1>3, <1>4
  <1>8. Settles(t, q)
    BY <1>2, <1>5, <1>6, <1>7, ReleaseSettles DEF TypeInv
  <1> QED
    BY <1>1, <1>4, <1>8 DEF t, s, N

\* A new revision, and resolved references, leave an item the item it is.
LEMMA ReviseKin ==
    ASSUME NEW s, NEW item \in Items, NEW objs, NEW revs
    PROVE  Kin(item, Revise(s, item, objs, revs))
  BY DEF Revise, Items, Kin

LEMMA ResolveKin ==
    ASSUME NEW item \in Items, NEW objs
    PROVE  Kin(item, Resolve(item, objs))
  BY DEF Resolve, Items, Kin

ItsObjects(q) == ObjectsOf(sq.net[q].item)
ItsRevisions(q) == sq.net[q].reply.revs

LEMMA UpdatedSettles ==
    ASSUME TypeInv, NEW q \in DOMAIN sq.net, NEW event \in Events
    PROVE  LET t == Tell(NewRevision(Released(q), ItsObjects(q), ItsRevisions(q)),
                         ToldOf(q, event))
           IN
           /\ Settles(t, q) /\ t.mapped = sq.mapped
           /\ t.queue = RevisedQueue(Released(q), ItsObjects(q), ItsRevisions(q))
           /\ t.told = sq.told \cup ToldOf(q, event)
  <1> DEFINE s == Released(q)
             objs == ItsObjects(q)
             revs == ItsRevisions(q)
             r == NewRevision(s, objs, revs)
             N == ToldOf(q, event)
             t == Tell(r, N)
  <1>0. revs \in [Objects -> Nat]
    BY FutureType DEF ItsRevisions
  <1>1. /\ Sound(s, next) /\ IsQueue(s)
        /\ s.deps = [p \in DOMAIN sq.deps |-> sq.deps[p] \ {q}]
        /\ s.waiting = [id \in Ids |-> sq.waiting[id] \ {q}]
        /\ s.net = Without(sq.net, {q})
        /\ s.queue = sq.queue /\ s.mapped = sq.mapped
        /\ s.dequeueing = sq.dequeueing /\ s.told = sq.told
        /\ s.again = sq.again /\ s.orphaned = sq.orphaned
    BY ReleasedFields
  <1>2. N \subseteq Notices /\ \A e \in N : e.item = q
    BY NoticesOfFuture, NotifyMeans DEF ToldOf
  <1> HIDE DEF s, N, objs, revs
  <1>3. /\ IsQueue(r) /\ DOMAIN r.queue = DOMAIN s.queue
        /\ r.queue = RevisedQueue(s, objs, revs)
        /\ r.deps = s.deps /\ r.waiting = s.waiting /\ r.mapped = s.mapped
        /\ r.dequeueing = s.dequeueing /\ r.net = s.net /\ r.told = s.told
        /\ r.again = s.again /\ r.orphaned = s.orphaned
    BY <1>1, NewRevisionFields
  <1>4. Sound(r, next)
    BY <1>0, <1>1, NewRevisionSound
  <1> HIDE DEF r
  <1>5. /\ t.queue = r.queue /\ t.deps = r.deps /\ t.waiting = r.waiting
        /\ t.mapped = r.mapped /\ t.dequeueing = r.dequeueing
        /\ t.net = r.net /\ t.told = r.told \cup N
        /\ t.again = r.again \cup Repeats(r, N) /\ t.orphaned = r.orphaned
    BY <1>3, TellFields
  <1>6. Sound(t, next)
    BY <1>2, <1>4, TellSound
  <1>7. Repeats(r, N) = Repeats(sq, N)
    BY <1>1, <1>3 DEF Repeats
  <1>8. \A p \in DOMAIN sq.queue : Kin(sq.queue[p], r.queue[p])
    BY <1>1, <1>3, ReviseKin, SoundQueue DEF RevisedQueue, TypeInv
  <1> HIDE DEF t
  <1>9. Settles(t, q)
    <2>1. /\ DOMAIN t.queue = DOMAIN sq.queue
          /\ \A p \in DOMAIN sq.queue : Kin(sq.queue[p], t.queue[p])
      BY <1>1, <1>3, <1>5, <1>8
    <2>2. /\ t.deps = [p \in DOMAIN sq.deps |-> sq.deps[p] \ {q}]
          /\ t.waiting = [id \in Ids |-> sq.waiting[id] \ {q}]
          /\ t.net = Without(sq.net, {q}) /\ t.dequeueing = sq.dequeueing
          /\ t.told = sq.told \cup N /\ t.again = sq.again \cup Repeats(sq, N)
          /\ t.orphaned = sq.orphaned
      BY <1>1, <1>3, <1>5, <1>7
    <2>3. Sound(sq, next)
      BY DEF TypeInv
    <2> QED
      BY <1>2, <1>6, <2>1, <2>2, <2>3, ReleaseSettles
  <1>10. /\ Settles(t, q) /\ t.mapped = sq.mapped
         /\ t.queue = RevisedQueue(s, objs, revs) /\ t.told = sq.told \cup N
    BY <1>1, <1>3, <1>5, <1>9
  <1> QED
    BY <1>10 DEF t, r, s, N, objs, revs

LEMMA RejectedSettles ==
    ASSUME TypeInv, NEW q \in DOMAIN sq.net, NEW event \in Events
    PROVE  LET t == Satisfy(Tell(Taken(q), ToldOf(q, event)), q) IN
           /\ Settles(t, q) /\ t.queue = sq.queue /\ t.mapped = sq.mapped
           /\ t.told = sq.told \cup ToldOf(q, event)
  <1> DEFINE s == Taken(q)
             N == ToldOf(q, event)
             r == Tell(s, N)
             t == Satisfy(r, q)
  <1>0. IsQueue(sq)
    BY SoundQueue DEF TypeInv
  <1>1. /\ IsQueue(s) /\ s.net = Without(sq.net, {q})
        /\ s.queue = sq.queue /\ s.deps = sq.deps /\ s.waiting = sq.waiting
        /\ s.mapped = sq.mapped /\ s.dequeueing = sq.dequeueing
        /\ s.told = sq.told /\ s.again = sq.again /\ s.orphaned = sq.orphaned
    BY <1>0, TakenFields
  <1>2. N \subseteq Notices /\ \A e \in N : e.item = q
    BY NoticesOfFuture, NotifyMeans DEF ToldOf
  <1>3. Sound(s, next)
    BY TakenSound
  <1> HIDE DEF s, N
  <1>4. /\ IsQueue(r) /\ r.queue = s.queue /\ r.deps = s.deps
        /\ r.waiting = s.waiting /\ r.mapped = s.mapped
        /\ r.dequeueing = s.dequeueing /\ r.net = s.net
        /\ r.told = s.told \cup N /\ r.again = s.again \cup Repeats(s, N)
        /\ r.orphaned = s.orphaned
    BY <1>1, TellFields
  <1>5. Sound(r, next)
    BY <1>2, <1>3, TellSound
  <1> HIDE DEF r
  <1>6. /\ t.deps = [p \in DOMAIN r.deps |-> r.deps[p] \ {q}]
        /\ t.waiting = [id \in Ids |-> r.waiting[id] \ {q}]
        /\ t.queue = r.queue /\ t.mapped = r.mapped
        /\ t.dequeueing = r.dequeueing /\ t.net = r.net /\ t.told = r.told
        /\ t.again = r.again /\ t.orphaned = r.orphaned
    BY <1>4, SatisfyFields
  <1>7. Sound(t, next)
    BY <1>5, SatisfySound
  <1>8. Repeats(s, N) = Repeats(sq, N)
    BY <1>1 DEF Repeats
  <1> HIDE DEF t
  <1>9. Settles(t, q)
    <2>1. /\ DOMAIN t.queue = DOMAIN sq.queue
          /\ \A p \in DOMAIN sq.queue : Kin(sq.queue[p], t.queue[p])
      BY <1>1, <1>4, <1>6 DEF Kin
    <2>2. /\ t.deps = [p \in DOMAIN sq.deps |-> sq.deps[p] \ {q}]
          /\ t.waiting = [id \in Ids |-> sq.waiting[id] \ {q}]
          /\ t.net = Without(sq.net, {q}) /\ t.dequeueing = sq.dequeueing
          /\ t.told = sq.told \cup N /\ t.again = sq.again \cup Repeats(sq, N)
          /\ t.orphaned = sq.orphaned
      BY <1>1, <1>4, <1>6, <1>8
    <2>3. Sound(sq, next)
      BY DEF TypeInv
    <2> QED
      BY <1>2, <1>7, <2>1, <2>2, <2>3, ReleaseSettles
  <1>10. /\ Settles(t, q) /\ t.queue = sq.queue /\ t.mapped = sq.mapped
         /\ t.told = sq.told \cup N
    BY <1>1, <1>4, <1>6, <1>9
  <1> QED
    BY <1>10 DEF t, r, s, N

Replaced(q) ==
    IF sq.net[q].item.op = "create"
    THEN ReplaceReferences(Taken(q), q, ItsObjects(q)) ELSE Taken(q)
Mapped(q) == [Replaced(q) EXCEPT !.mapped = @ \cup ItsObjects(q)]
Answer(q) == NewRevision(Satisfy(Mapped(q), q), ItsObjects(q), ItsRevisions(q))

LEMMA ReplacedFields ==
    ASSUME TypeInv, NEW q \in DOMAIN sq.net
    PROVE  LET t == Replaced(q) IN
           /\ Sound(t, next) /\ IsQueue(t)
           /\ DOMAIN t.queue = DOMAIN sq.queue
           /\ \A r \in DOMAIN sq.queue :
                \/ t.queue[r] = sq.queue[r]
                \/ t.queue[r] = Resolve(sq.queue[r], ItsObjects(q))
           /\ sq.net[q].item.op = "create" => \A r \in DOMAIN sq.queue :
                q \in sq.deps[r] => t.queue[r] = Resolve(sq.queue[r], ItsObjects(q))
           /\ t.net = Without(sq.net, {q})
           /\ t.deps = sq.deps /\ t.waiting = sq.waiting /\ t.mapped = sq.mapped
           /\ t.dequeueing = sq.dequeueing /\ t.told = sq.told
           /\ t.again = sq.again /\ t.orphaned = sq.orphaned
  <1> DEFINE s == Taken(q)
             objs == ItsObjects(q)
             r == ReplaceReferences(s, q, objs)
  <1>0. IsQueue(sq)
    BY SoundQueue DEF TypeInv
  <1>1. /\ IsQueue(s) /\ s.net = Without(sq.net, {q})
        /\ s.queue = sq.queue /\ s.deps = sq.deps /\ s.waiting = sq.waiting
        /\ s.mapped = sq.mapped /\ s.dequeueing = sq.dequeueing
        /\ s.told = sq.told /\ s.again = sq.again /\ s.orphaned = sq.orphaned
    BY <1>0, TakenFields
  <1>2. Sound(s, next)
    BY TakenSound
  <1>3. \/ Replaced(q) = r
        \/ Replaced(q) = s /\ sq.net[q].item.op # "create"
    BY DEF Replaced
  <1> HIDE DEF s, objs
  <1>4. /\ IsQueue(r) /\ DOMAIN r.queue = DOMAIN s.queue
        /\ r.queue = ResolvedQueue(s, q, objs)
        /\ r.deps = s.deps /\ r.waiting = s.waiting /\ r.mapped = s.mapped
        /\ r.dequeueing = s.dequeueing /\ r.net = s.net /\ r.told = s.told
        /\ r.again = s.again /\ r.orphaned = s.orphaned
    BY <1>1, ReplaceReferencesFields
  <1>5. Sound(r, next)
    BY <1>2, ReplaceReferencesSound
  <1> HIDE DEF r
  <1>6. \A p \in DOMAIN sq.queue :
            r.queue[p] = IF q \in sq.deps[p] THEN Resolve(sq.queue[p], objs) ELSE sq.queue[p]
    BY <1>1, <1>4 DEF ResolvedQueue
  <1> USE DEF objs
  <1>7. CASE Replaced(q) = s /\ sq.net[q].item.op # "create"
    BY <1>1, <1>2, <1>7
  <1>8. CASE Replaced(q) = r
    BY <1>1, <1>4, <1>5, <1>6, <1>8
  <1> QED
    BY <1>3, <1>7, <1>8

LEMMA AnswerFields ==
    ASSUME TypeInv, NEW q \in DOMAIN sq.net
    PROVE  LET t == Answer(q)
               d == Satisfy(Mapped(q), q)
           IN
           /\ Sound(t, next) /\ IsQueue(t)
           /\ DOMAIN t.queue = DOMAIN sq.queue
           /\ \A r \in DOMAIN sq.queue :
                \/ t.queue[r] = Revise(d, sq.queue[r], ItsObjects(q), ItsRevisions(q))
                \/ t.queue[r] = Revise(d, Resolve(sq.queue[r], ItsObjects(q)),
                                       ItsObjects(q), ItsRevisions(q))
           /\ sq.net[q].item.op = "create" => \A r \in DOMAIN sq.queue :
                q \in sq.deps[r] =>
                    t.queue[r] = Revise(d, Resolve(sq.queue[r], ItsObjects(q)),
                                        ItsObjects(q), ItsRevisions(q))
           /\ d.mapped = sq.mapped \cup ItsObjects(q)
           /\ t.deps = [r \in DOMAIN sq.deps |-> sq.deps[r] \ {q}]
           /\ t.waiting = [id \in Ids |-> sq.waiting[id] \ {q}]
           /\ t.net = Without(sq.net, {q})
           /\ t.mapped = sq.mapped \cup ItsObjects(q)
           /\ t.dequeueing = sq.dequeueing /\ t.told = sq.told
           /\ t.again = sq.again /\ t.orphaned = sq.orphaned
  <1> DEFINE r == Replaced(q)
             m == Mapped(q)
             d == Satisfy(m, q)
             objs == ItsObjects(q)
             revs == ItsRevisions(q)
             t == NewRevision(d, objs, revs)
  <1>1. objs \subseteq Objects /\ revs \in [Objects -> Nat]
    BY FutureType DEF ItsObjects, ItsRevisions
  <1>2. /\ Sound(r, next) /\ IsQueue(r)
        /\ DOMAIN r.queue = DOMAIN sq.queue
        /\ \A p \in DOMAIN sq.queue :
                r.queue[p] = sq.queue[p] \/ r.queue[p] = Resolve(sq.queue[p], objs)
        /\ sq.net[q].item.op = "create" => \A p \in DOMAIN sq.queue :
                q \in sq.deps[p] => r.queue[p] = Resolve(sq.queue[p], objs)
        /\ r.net = Without(sq.net, {q})
        /\ r.deps = sq.deps /\ r.waiting = sq.waiting /\ r.mapped = sq.mapped
        /\ r.dequeueing = sq.dequeueing /\ r.told = sq.told
        /\ r.again = sq.again /\ r.orphaned = sq.orphaned
    BY ReplacedFields
  <1>3. m = [r EXCEPT !.mapped = @ \cup objs]
    BY DEF Mapped
  <1>4. Answer(q) = t
    BY DEF Answer
  <1> HIDE DEF objs, revs, r, m
  <1>5. /\ IsQueue(m) /\ m.mapped = r.mapped \cup objs
        /\ m.queue = r.queue /\ m.deps = r.deps
        /\ m.waiting = r.waiting /\ m.net = r.net
        /\ m.dequeueing = r.dequeueing /\ m.told = r.told
        /\ m.again = r.again /\ m.orphaned = r.orphaned
        /\ m.stalled = r.stalled
    BY <1>2, <1>3 DEF IsQueue, Fields
  <1>6. Sound(m, next)
    BY <1>1, <1>2, <1>5 DEF Sound, QueueType
  <1>7. /\ IsQueue(d)
        /\ d.deps = [p \in DOMAIN m.deps |-> m.deps[p] \ {q}]
        /\ d.waiting = [id \in Ids |-> m.waiting[id] \ {q}]
        /\ d.queue = m.queue /\ d.mapped = m.mapped
        /\ d.dequeueing = m.dequeueing /\ d.net = m.net /\ d.told = m.told
        /\ d.again = m.again /\ d.orphaned = m.orphaned
    BY <1>5, SatisfyFields
  <1>8. Sound(d, next)
    BY <1>6, SatisfySound
  <1> HIDE DEF d
  <1>9. /\ IsQueue(t) /\ DOMAIN t.queue = DOMAIN d.queue
        /\ t.queue = RevisedQueue(d, objs, revs)
        /\ t.deps = d.deps /\ t.waiting = d.waiting /\ t.mapped = d.mapped
        /\ t.dequeueing = d.dequeueing /\ t.net = d.net /\ t.told = d.told
        /\ t.again = d.again /\ t.orphaned = d.orphaned
    BY <1>7, NewRevisionFields
  <1>10. Sound(t, next)
    BY <1>1, <1>8, NewRevisionSound
  <1> HIDE DEF t
  <1>11. \A p \in DOMAIN sq.queue :
            \/ t.queue[p] = Revise(d, sq.queue[p], objs, revs)
            \/ t.queue[p] = Revise(d, Resolve(sq.queue[p], objs), objs, revs)
    BY <1>2, <1>5, <1>7, <1>9 DEF RevisedQueue
  <1>12. sq.net[q].item.op = "create" => \A p \in DOMAIN sq.queue :
            q \in sq.deps[p] =>
                t.queue[p] = Revise(d, Resolve(sq.queue[p], objs), objs, revs)
    BY <1>2, <1>5, <1>7, <1>9 DEF RevisedQueue
  <1>13. /\ DOMAIN t.queue = DOMAIN sq.queue /\ d.mapped = sq.mapped \cup objs
         /\ t.deps = [p \in DOMAIN sq.deps |-> sq.deps[p] \ {q}]
         /\ t.waiting = [id \in Ids |-> sq.waiting[id] \ {q}]
         /\ t.net = Without(sq.net, {q}) /\ t.mapped = sq.mapped \cup objs
         /\ t.dequeueing = sq.dequeueing /\ t.told = sq.told
         /\ t.again = sq.again /\ t.orphaned = sq.orphaned
    BY <1>2, <1>5, <1>7, <1>9
  <1>14. d = Satisfy(Mapped(q), q)
    BY DEF d, m
  <1> QED
    BY <1>4, <1>9, <1>10, <1>11, <1>12, <1>13, <1>14 DEF objs, revs

LEMMA CreatedSettles ==
    ASSUME TypeInv, NEW q \in DOMAIN sq.net, NEW event \in Events
    PROVE  LET t == Tell(Answer(q), ToldOf(q, event)) IN
           /\ Settles(t, q) /\ t.queue = Answer(q).queue
           /\ t.mapped = sq.mapped \cup ItsObjects(q)
           /\ t.told = sq.told \cup ToldOf(q, event)
  <1> DEFINE r == Answer(q)
             objs == ItsObjects(q)
             N == ToldOf(q, event)
             t == Tell(r, N)
  <1>1. /\ Sound(r, next) /\ IsQueue(r) /\ DOMAIN r.queue = DOMAIN sq.queue
        /\ r.deps = [p \in DOMAIN sq.deps |-> sq.deps[p] \ {q}]
        /\ r.waiting = [id \in Ids |-> sq.waiting[id] \ {q}]
        /\ r.net = Without(sq.net, {q}) /\ r.mapped = sq.mapped \cup objs
        /\ r.dequeueing = sq.dequeueing /\ r.told = sq.told
        /\ r.again = sq.again /\ r.orphaned = sq.orphaned
    BY AnswerFields
  <1>2. \A p \in DOMAIN sq.queue : Kin(sq.queue[p], r.queue[p])
    <2> TAKE p \in DOMAIN sq.queue
    <2> DEFINE d == Satisfy(Mapped(q), q)
               revs == ItsRevisions(q)
    <2>1. \/ r.queue[p] = Revise(d, sq.queue[p], objs, revs)
          \/ r.queue[p] = Revise(d, Resolve(sq.queue[p], objs), objs, revs)
      BY AnswerFields
    <2>2. sq.queue[p] \in Items /\ Resolve(sq.queue[p], objs) \in Items
      BY SoundQueue, ResolveType DEF TypeInv
    <2> HIDE DEF d, revs, r, objs
    <2>3. /\ Kin(sq.queue[p], Resolve(sq.queue[p], objs))
          /\ Kin(sq.queue[p], Revise(d, sq.queue[p], objs, revs))
          /\ Kin(Resolve(sq.queue[p], objs),
                 Revise(d, Resolve(sq.queue[p], objs), objs, revs))
      BY <2>2, ReviseKin, ResolveKin
    <2> QED
      BY <2>1, <2>3 DEF Kin
  <1>3. N \subseteq Notices /\ \A e \in N : e.item = q
    BY NoticesOfFuture, NotifyMeans DEF ToldOf
  <1> HIDE DEF r, N, objs
  <1>4. /\ t.queue = r.queue /\ t.deps = r.deps /\ t.waiting = r.waiting
        /\ t.mapped = r.mapped /\ t.dequeueing = r.dequeueing
        /\ t.net = r.net /\ t.told = r.told \cup N
        /\ t.again = r.again \cup Repeats(r, N) /\ t.orphaned = r.orphaned
    BY <1>1, TellFields
  <1>5. Sound(t, next)
    BY <1>1, <1>3, TellSound
  <1>6. Repeats(r, N) = Repeats(sq, N)
    BY <1>1 DEF Repeats
  <1> HIDE DEF t
  <1>7. Settles(t, q)
    <2>1. /\ DOMAIN t.queue = DOMAIN sq.queue
          /\ \A p \in DOMAIN sq.queue : Kin(sq.queue[p], t.queue[p])
      BY <1>1, <1>2, <1>4
    <2>2. /\ t.deps = [p \in DOMAIN sq.deps |-> sq.deps[p] \ {q}]
          /\ t.waiting = [id \in Ids |-> sq.waiting[id] \ {q}]
          /\ t.net = Without(sq.net, {q}) /\ t.dequeueing = sq.dequeueing
          /\ t.told = sq.told \cup N /\ t.again = sq.again \cup Repeats(sq, N)
          /\ t.orphaned = sq.orphaned
      BY <1>1, <1>4, <1>6
    <2>3. Sound(sq, next)
      BY DEF TypeInv
    <2> QED
      BY <1>3, <1>5, <2>1, <2>2, <2>3, ReleaseSettles
  <1>8. /\ Settles(t, q) /\ t.queue = r.queue
        /\ t.mapped = sq.mapped \cup objs /\ t.told = sq.told \cup N
    BY <1>1, <1>4, <1>7
  <1> QED
    BY <1>8 DEF t, r, N, objs

-----------------------------------------------------------------------------
(* The steps of the queue: a quiet one, an enqueue, the start, a logout, and the
   callback of a request, which settles it and dequeues. *)

Quiet ==
    /\ sq'.queue = sq.queue /\ sq'.deps = sq.deps /\ sq'.waiting = sq.waiting
    /\ sq'.mapped = sq.mapped /\ sq'.told = sq.told /\ sq'.again = sq.again
    /\ sq'.orphaned = sq.orphaned /\ sq'.stalled = sq.stalled
    /\ sq'.dequeueing => sq.dequeueing
    /\ DOMAIN sq'.net = DOMAIN sq.net
    /\ \A q \in DOMAIN sq.net : sq'.net[q].item = sq.net[q].item

Begun == [sq EXCEPT !.dequeueing = TRUE]

Settled(q) ==
    \E t : /\ Settles(t, q)
           /\ \/ \E n \in Nat : /\ sq.net[q].item.ids # {} => n >= 1
                                /\ sq' = Dequeue(t, n)
              \/ sq' = t /\ t.stalled = TRUE

LEMMA BegunFields ==
    ASSUME TypeInv
    PROVE  LET t == Begun IN
           /\ Sound(t, next) /\ IsQueue(t)
           /\ t.dequeueing = TRUE /\ t.net = sq.net
           /\ t.queue = sq.queue /\ t.deps = sq.deps /\ t.waiting = sq.waiting
           /\ t.mapped = sq.mapped /\ t.told = sq.told /\ t.again = sq.again
           /\ t.orphaned = sq.orphaned
  <1>1. IsQueue(sq) /\ Sound(sq, next)
    BY SoundQueue DEF TypeInv
  <1> DEFINE t == Begun
  <1>2. /\ IsQueue(t) /\ t.dequeueing = TRUE /\ t.net = sq.net
        /\ t.queue = sq.queue /\ t.deps = sq.deps /\ t.waiting = sq.waiting
        /\ t.mapped = sq.mapped /\ t.told = sq.told /\ t.again = sq.again
        /\ t.orphaned = sq.orphaned /\ t.stalled = sq.stalled
    BY <1>1 DEF Begun, IsQueue, Fields
  <1> HIDE DEF t
  <1>3. Sound(t, next)
    BY <1>1, <1>2 DEF Sound, QueueType
  <1> QED
    BY <1>2, <1>3 DEF t

LEMMA FutureIsQuiet ==
    ASSUME TypeInv, NEW q \in DOMAIN sq.net, NEW future, future.item = sq.net[q].item,
           sq' = WithFuture(q, future)
    PROVE  Quiet
  <1>1. IsQueue(sq)
    BY SoundQueue DEF TypeInv
  <1>2. /\ sq'.net = [sq.net EXCEPT ![q] = future]
        /\ sq'.queue = sq.queue /\ sq'.deps = sq.deps /\ sq'.waiting = sq.waiting
        /\ sq'.mapped = sq.mapped /\ sq'.dequeueing = sq.dequeueing
        /\ sq'.told = sq.told /\ sq'.again = sq.again /\ sq'.orphaned = sq.orphaned
        /\ sq'.stalled = sq.stalled
    BY <1>1, WithFutureFields
  <1> QED
    BY <1>2 DEF Quiet

LEMMA ReplyIsQuiet ==
    ASSUME TypeInv, NEW q \in DOMAIN sq.net, NEW answer, NEW revisions,
           Reply(q, answer, revisions)
    PROVE  Quiet
  <1> DEFINE reply == [answer |-> answer, revs |-> [o \in Objects |->
                IF o \in ObjectsOf(sq.net[q].item) THEN revisions[o] ELSE 0]]
             future == [sq.net[q] EXCEPT !.reply = reply]
  <1>1. sq' = WithFuture(q, future)
    BY DEF Reply, WithFuture
  <1> HIDE DEF reply
  <1>2. future.item = sq.net[q].item
    BY FutureType DEF Futures
  <1> HIDE DEF future
  <1> QED
    BY <1>1, <1>2, FutureIsQuiet

LEMMA RetryIsQuiet ==
    ASSUME TypeInv, NEW q \in QueueIds, RetryRequest(q)
    PROVE  Quiet
  <1> DEFINE future == [sq.net[q] EXCEPT !.tries = @ + 1, !.reply = NoReply]
  <1>1. q \in DOMAIN sq.net
    BY DEF RetryRequest, AttemptLost
  <1>2. sq' = WithFuture(q, future)
    BY <1>1, FutureType
       DEF RetryRequest, WithFuture, TypeInv, Sound, QueueType, Partial
  <1>3. future.item = sq.net[q].item
    BY <1>1, FutureType DEF Futures
  <1> HIDE DEF future
  <1> QED
    BY <1>1, <1>2, <1>3, FutureIsQuiet

LEMMA StopIsQuiet ==
    ASSUME TypeInv, StopDequeueing
    PROVE  Quiet
  <1>1. IsQueue(sq)
    BY SoundQueue DEF TypeInv
  <1>2. sq' = [sq EXCEPT !.dequeueing = FALSE]
    BY DEF StopDequeueing
  <1> QED
    BY <1>1, <1>2 DEF Quiet, IsQueue, Fields

LEMMA ResponseSettles ==
    ASSUME TypeInv, NEW q \in QueueIds, HandleResponse(q)
    PROVE  q \in DOMAIN sq.net /\ Settled(q)
  <1>1. q \in DOMAIN sq.net
    BY DEF HandleResponse, CreationSucceeds, CreationDenied, CreationConflicts,
           UpdateSucceeds, UpdateRejected, ActionRecorded, Answered
  <1>2. CASE CreationSucceeds(q)
    <2> DEFINE t == Tell(Answer(q), ToldOf(q, "created"))
               n == Cardinality(ItsObjects(q))
    <2>1. sq' = Dequeue(t, n)
      BY <1>2 DEF CreationSucceeds, Answer, Mapped, Replaced, ToldOf, ItsObjects, ItsRevisions
    <2>2. Settles(t, q)
      BY <1>1, CreatedSettles DEF Events
    <2>3. IsFiniteSet(ItsObjects(q))
      BY <1>1, FutureType, ObjectsAssumption, FS_Subset DEF ItsObjects
    <2>4. n \in Nat /\ (n = 0 <=> ItsObjects(q) = {})
      BY <2>3, FS_CardinalityType, FS_EmptySet
    <2>5. sq.net[q].item.ids # {} => ItsObjects(q) # {}
      BY DEF ItsObjects, ObjectsOf
    <2> HIDE DEF t, n
    <2>6. sq.net[q].item.ids # {} => n >= 1
      BY <2>4, <2>5
    <2> QED
      BY <1>1, <2>1, <2>2, <2>4, <2>6 DEF Settled
  <1>3. ASSUME NEW t, Settles(t, q), sq' = Dequeue(t, 1)
        PROVE  Settled(q)
    BY <1>3 DEF Settled
  <1>4. CASE CreationDenied(q)
    <2>1. Settles(Tell(Released(q), ToldOf(q, "denied")), q)
      BY <1>1, ReleasedSettles DEF Events
    <2> QED
      BY <1>1, <1>3, <1>4, <2>1 DEF CreationDenied, Released, ToldOf
  <1>5. CASE CreationConflicts(q)
    <2>1. Settles(Tell(Fail(Taken(q), {q}), Notify(q, sq.net[q].item, "createFailed")), q)
      BY <1>1, FailureSettles DEF Events, TypeInv
    <2> QED
      BY <1>1, <1>3, <1>5, <2>1 DEF CreationConflicts
  <1>6. CASE UpdateSucceeds(q)
    <2> DEFINE t == Tell(NewRevision(Released(q), ItsObjects(q), ItsRevisions(q)),
                         ToldOf(q, "updated"))
    <2>1. Settles(t, q)
      BY <1>1, UpdatedSettles DEF Events
    <2>2. sq' = Dequeue(t, 1)
      BY <1>6 DEF UpdateSucceeds, Released, ToldOf, ItsObjects, ItsRevisions
    <2> QED
      BY <1>1, <1>3, <2>1, <2>2
  <1>7. CASE UpdateRejected(q)
    <2> DEFINE t == Satisfy(Tell(Taken(q), ToldOf(q, "rejected")), q)
    <2>1. Settles(t, q)
      BY <1>1, RejectedSettles DEF Events
    <2>2. sq' = Dequeue(t, 1)
      BY <1>7 DEF UpdateRejected, ToldOf
    <2> QED
      BY <1>1, <1>3, <2>1, <2>2
  <1>8. CASE ActionRecorded(q)
    <2>1. Settles(Tell(Released(q), ToldOf(q, "recorded")), q)
      BY <1>1, ReleasedSettles DEF Events
    <2> QED
      BY <1>1, <1>3, <1>8, <2>1 DEF ActionRecorded, Released, ToldOf
  <1> QED
    BY <1>1, <1>2, <1>4, <1>5, <1>6, <1>7, <1>8 DEF HandleResponse

LEMMA RequestFailedSettles ==
    ASSUME TypeInv, NEW q \in QueueIds, NEW persistent \in BOOLEAN,
           RequestFailed(q, persistent)
    PROVE  q \in DOMAIN sq.net /\ Settled(q)
  <1> DEFINE item == sq.net[q].item
             t == Tell(Fail(Taken(q), {q}), Notify(q, item, FailureOf(item)))
             u == [t EXCEPT !.stalled = TRUE]
  <1>1. q \in DOMAIN sq.net
    BY DEF RequestFailed, AttemptLost
  <1>2. FailureOf(item) \in Events
    BY <1>1, FutureType, FailureType
  <1>3. Settles(t, q)
    BY <1>1, <1>2, FailureSettles DEF TypeInv
  <1>4. sq' = IF persistent THEN u ELSE Dequeue(t, 1)
    BY DEF RequestFailed
  <1> HIDE DEF t
  <1>5. CASE ~persistent
    BY <1>1, <1>3, <1>4, <1>5 DEF Settled
  <1>6. CASE persistent
    <2>1. /\ IsQueue(u) /\ u.stalled = TRUE /\ u.mapped = t.mapped
          /\ u.queue = t.queue /\ u.deps = t.deps /\ u.waiting = t.waiting
          /\ u.net = t.net /\ u.dequeueing = t.dequeueing /\ u.told = t.told
          /\ u.again = t.again /\ u.orphaned = t.orphaned
      <3>1. IsQueue(t)
        BY <1>3, SoundQueue DEF Settles
      <3> QED
        BY <3>1 DEF IsQueue, Fields
    <2>2. sq' = u
      BY <1>4, <1>6
    <2> HIDE DEF u
    <2>3. Sound(u, next)
      BY <1>3, <2>1 DEF Settles, Sound, QueueType
    <2>4. \A r : ItemOf(u, r) = ItemOf(t, r) /\ (Heard(u, r) <=> Heard(t, r))
      BY <2>1 DEF ItemOf, Heard
    <2>5. Live(u) = Live(t)
      BY <2>1 DEF Live
    <2>6. Recedes(sq, u)
      BY <1>3, <2>1, <2>4, <2>5 DEF Settles, Recedes
    <2>7. Once(sq) => Once(u)
      BY <1>3, <2>1, <2>4, <2>5 DEF Settles, Once
    <2>8. Settles(u, q)
      BY <1>3, <2>1, <2>3, <2>4, <2>6, <2>7 DEF Settles
    <2> QED
      BY <1>1, <2>1, <2>2, <2>8 DEF Settled
  <1> QED
    BY <1>5, <1>6

LEMMA StepsAndAnswers ==
    ASSUME TypeInv, [Next]_vars
    PROVE  \/ Enqueues
           \/ Clear
           \/ \E q \in QueueIds :
                HandleResponse(q) \/ \E persistent \in BOOLEAN : RequestFailed(q, persistent)
           \/ /\ UNCHANGED <<next, made, fence, clears>>
              /\ Quiet \/ sq' = Dequeue(Begun, 1)
  <1>1. CASE UNCHANGED vars
    BY <1>1 DEF vars, Quiet
  <1>2. CASE StopDequeueing
    BY <1>2, StopIsQuiet DEF StopDequeueing
  <1>3. CASE StartDequeueing
    BY <1>3 DEF StartDequeueing, Begun
  <1>4. ASSUME NEW o \in Objects, OtherClientUpdates(o) \/ LearnRevision(o)
        PROVE  Quiet /\ UNCHANGED <<next, made, fence, clears>>
    BY <1>4 DEF OtherClientUpdates, LearnRevision, Quiet
  <1>5. ASSUME NEW q \in QueueIds, ServerHandles(q)
        PROVE  Quiet /\ UNCHANGED <<next, made, fence, clears>>
    <2>1. PICK answer, revisions : q \in DOMAIN sq.net /\ Reply(q, answer, revisions)
      BY <1>5 DEF ServerHandles, ServerCreates, ServerRefuses, ServerUpdates,
                  ServerRecords, Pending
    <2> QED
      BY <2>1, ReplyIsQuiet DEF Reply
  <1>6. ASSUME NEW q \in QueueIds, RetryRequest(q)
        PROVE  Quiet /\ UNCHANGED <<next, made, fence, clears>>
    BY <1>6, RetryIsQuiet DEF RetryRequest, AttemptLost
  <1> QED
    BY <1>1, <1>2, <1>3, <1>4, <1>5, <1>6 DEF Next

LEMMA AnswersChangeNoIds ==
    ASSUME NEW q, HandleResponse(q) \/ \E persistent \in BOOLEAN : RequestFailed(q, persistent)
    PROVE  UNCHANGED <<next, made, fence, clears>>
  BY DEF HandleResponse, CreationSucceeds, CreationDenied, CreationConflicts,
         UpdateSucceeds, UpdateRejected, ActionRecorded, RequestFailed, AttemptLost

LEMMA StepsOfTheQueue ==
    ASSUME TypeInv, [Next]_vars
    PROVE  \/ Enqueues
           \/ Clear
           \/ /\ UNCHANGED <<next, made, fence, clears>>
              /\ \/ Quiet
                 \/ sq' = Dequeue(Begun, 1)
                 \/ \E q \in DOMAIN sq.net : Settled(q)
  <1>1. ASSUME NEW q \in QueueIds,
               HandleResponse(q) \/ \E persistent \in BOOLEAN : RequestFailed(q, persistent)
        PROVE  /\ q \in DOMAIN sq.net /\ Settled(q)
               /\ UNCHANGED <<next, made, fence, clears>>
    BY <1>1, ResponseSettles, RequestFailedSettles, AnswersChangeNoIds
  <1> QED
    BY <1>1, StepsAndAnswers

-----------------------------------------------------------------------------
(* What keeps the queue in order: s is a queue and b the next item id. *)

Acyclic(s) ==
    \A S \in SUBSET DOMAIN s.queue : S # {} => \E q \in S : s.deps[q] \cap S = {}

Healthy(s, b) ==
    /\ \A q \in Live(s) : ItemOf(s, q).ids # {}
    /\ Once(s) /\ \A e \in s.told : e.item < b
    /\ \A r \in DOMAIN s.queue : \A q \in s.deps[r] : q < b
    /\ \A id \in Ids : \A q \in s.waiting[id] : q < b
    /\ Acyclic(s)

LEMMA RecedesAcyclic ==
    ASSUME NEW s, NEW t, Recedes(s, t), Acyclic(s)
    PROVE  Acyclic(t)
  BY DEF Recedes, Acyclic

LEMMA RecedesHealthy ==
    ASSUME NEW s, NEW b, Healthy(s, b), NEW t, Recedes(s, t), Once(t),
           \A e \in t.told \ s.told : e.item < b,
           \A id \in Ids : \A q \in t.waiting[id] : q < b
    PROVE  Healthy(t, b)
  <1>1. \A q \in Live(t) : ItemOf(t, q).ids # {}
    BY DEF Healthy, Recedes, Kin
  <1>2. \A r \in DOMAIN t.queue : \A q \in t.deps[r] : q < b
    BY DEF Healthy, Recedes
  <1>3. Acyclic(t)
    BY RecedesAcyclic DEF Healthy
  <1> QED
    BY <1>1, <1>2, <1>3 DEF Healthy

LEMMA DequeueHealthy ==
    ASSUME NEW s, NEW b, Sound(s, b), Healthy(s, b), NEW n
    PROVE  Healthy(Dequeue(s, n), b)
  <1> DEFINE t == Dequeue(s, n)
  <1>1. CASE ~s.dequeueing
    BY <1>1, DequeueStopped
  <1>2. CASE s.dequeueing
    <2>1. s.dequeueing = TRUE
      BY <1>2 DEF Sound, QueueType
    <2>a. Dequeues(s, n, t)
      BY <2>1, DequeueView
    <2> HIDE DEF t
    <2>2. /\ \A e \in t.told \ s.told : e.item \in DOMAIN s.queue
          /\ t.waiting = WaitingAfter(s, n)
          /\ Recedes(s, t) /\ (Once(s) => Once(t))
      BY <2>a DEF Dequeues
    <2>3. Entered(s, n) \subseteq DOMAIN s.queue
      BY DEF Entered, Sent, Skipped, Sendable, Ready
    <2>4. \A id \in Ids : \A q \in t.waiting[id] : q < b
      BY <2>2, <2>3 DEF WaitingAfter, Healthy, Sound
    <2>5. Healthy(t, b)
      BY <2>2, <2>4, RecedesHealthy DEF Healthy, Sound
    <2> QED
      BY <2>5 DEF t
  <1> QED
    BY <1>1, <1>2

LEMMA SettlesHealthy ==
    ASSUME TypeInv, Healthy(sq, next), NEW q \in DOMAIN sq.net, NEW t, Settles(t, q)
    PROVE  Healthy(t, next)
  <1>1. \A e \in t.told \ sq.told : e.item < next
    BY DEF Settles, TypeInv, Sound
  <1>2. \A id \in Ids : \A r \in t.waiting[id] : r < next
    BY DEF Settles, Healthy
  <1>3. Recedes(sq, t) /\ Once(t)
    BY DEF Settles, Healthy
  <1> QED
    BY <1>1, <1>2, <1>3, RecedesHealthy

\* A new item gets a fresh id; it is answered at once if a reference dangles.
LEMMA EnqueueView ==
    ASSUME NEW s, NEW b \in Nat, Sound(s, b), NEW item \in Items
    PROVE  LET t == Enqueue(s, b, item) IN
           /\ t.queue = With(s.queue, b, Stored(s, item))
           /\ t.deps = With(s.deps, b, Dependencies(s, b, item))
           /\ t.waiting = s.waiting /\ t.mapped = s.mapped
           /\ t.dequeueing = s.dequeueing /\ t.net = s.net
           /\ DOMAIN t.queue = DOMAIN s.queue \cup {b} /\ t.queue[b] = Stored(s, item)
           /\ \A q \in DOMAIN s.queue : t.queue[q] = s.queue[q] /\ t.deps[q] = s.deps[q]
           /\ t.deps[b] = Dependencies(s, b, item)
           /\ Live(t) = Live(s) \cup {b}
           /\ \A q \in Live(s) : ItemOf(t, q) = ItemOf(s, q)
           /\ ItemOf(t, b) = Stored(s, item)
           /\ s.told \subseteq t.told
           /\ \A e \in t.told \ s.told : e.item = b /\ e.event \in Failures
           /\ s.orphaned \subseteq t.orphaned /\ t.orphaned \subseteq s.orphaned \cup {b}
           /\ Dangling(s, item) => b \in t.orphaned
           /\ ~Dangling(s, item) => t.orphaned = s.orphaned
           /\ Once(s) /\ (\A e \in s.told : e.item < b) => Once(t)
  <1> DEFINE N == Notify(b, item, "createFailed")
             M == Notify(b, item, FailureOf(item))
             u == Tell(s, N)
             v == Tell(u, M)
             w == IF Dangling(s, item) THEN v ELSE s
             f == With(s.queue, b, Stored(s, item))
             g == With(s.deps, b, Dependencies(s, b, item))
             h == IF Dangling(s, item) THEN s.orphaned \cup {b} ELSE s.orphaned
             t == Enqueue(s, b, item)
  <1>0. IsQueue(s)
    BY SoundQueue
  <1>1. b \notin Live(s) /\ DOMAIN s.deps = DOMAIN s.queue
    BY DEF Sound, QueueType, Live
  <1>2. /\ IsQueue(u) /\ u.told = s.told \cup N /\ u.again = s.again \cup Repeats(s, N)
        /\ u.queue = s.queue /\ u.deps = s.deps /\ u.waiting = s.waiting
        /\ u.mapped = s.mapped /\ u.dequeueing = s.dequeueing /\ u.net = s.net
        /\ u.orphaned = s.orphaned
    BY <1>0, TellFields
  <1> HIDE DEF u
  <1>3. /\ IsQueue(v) /\ v.told = u.told \cup M /\ v.again = u.again \cup Repeats(u, M)
        /\ v.queue = u.queue /\ v.deps = u.deps /\ v.waiting = u.waiting
        /\ v.mapped = u.mapped /\ v.dequeueing = u.dequeueing /\ v.net = u.net
        /\ v.orphaned = u.orphaned
    BY <1>2, TellFields
  <1> HIDE DEF v
  <1>4. /\ IsQueue(w) /\ w.queue = s.queue /\ w.deps = s.deps
        /\ w.waiting = s.waiting /\ w.mapped = s.mapped
        /\ w.dequeueing = s.dequeueing /\ w.net = s.net /\ w.orphaned = s.orphaned
    BY <1>0, <1>2, <1>3
  <1>5. t = [w EXCEPT !.queue = f, !.deps = g, !.orphaned = h]
    BY <1>4 DEF Enqueue, Stored, w, v, u
  <1>6. \A e \in N \cup M : e.item = b /\ e.event \in Failures
    BY NotifyMeans DEF FailureOf, Failures
  <1>7. Repeats(s, N) \subseteq {b} /\ Repeats(u, M) \subseteq {b}
    BY <1>6 DEF Repeats
  <1>8. /\ w.told = (IF Dangling(s, item) THEN s.told \cup N \cup M ELSE s.told)
        /\ w.again \subseteq (IF Dangling(s, item) THEN s.again \cup {b} ELSE s.again)
    BY <1>2, <1>3, <1>7
  <1> HIDE DEF N, M, w, f, g, h, t
  <1>9. /\ t.queue = f /\ t.deps = g /\ t.orphaned = h
        /\ t.waiting = w.waiting /\ t.mapped = w.mapped
        /\ t.dequeueing = w.dequeueing /\ t.net = w.net
        /\ t.told = w.told /\ t.again = w.again
    BY <1>4, <1>5 DEF IsQueue, Fields
  <1>10. /\ DOMAIN t.queue = DOMAIN s.queue \cup {b} /\ t.queue[b] = Stored(s, item)
         /\ \A q \in DOMAIN s.queue : t.queue[q] = s.queue[q]
    BY <1>1, <1>9 DEF f, With, Live
  <1>11. /\ t.deps[b] = Dependencies(s, b, item)
         /\ \A q \in DOMAIN s.queue : t.deps[q] = s.deps[q]
    BY <1>1, <1>9 DEF g, With, Live
  <1>12. Live(t) = Live(s) \cup {b}
    BY <1>4, <1>9, <1>10 DEF Live
  <1>13. ItemOf(t, b) = Stored(s, item)
    BY <1>10 DEF ItemOf
  <1>14. ASSUME NEW q \in Live(s) PROVE ItemOf(t, q) = ItemOf(s, q)
    BY <1>1, <1>4, <1>9, <1>10 DEF ItemOf
  <1>15. /\ s.told \subseteq t.told
         /\ \A e \in t.told \ s.told : e.item = b /\ e.event \in Failures
    BY <1>6, <1>8, <1>9
  <1>16. /\ s.orphaned \subseteq t.orphaned /\ t.orphaned \subseteq s.orphaned \cup {b}
         /\ Dangling(s, item) => b \in t.orphaned
         /\ ~Dangling(s, item) => t.orphaned = s.orphaned
    BY <1>9 DEF h
  <1>17. Once(s) /\ (\A e \in s.told : e.item < b) => Once(t)
    <2> SUFFICES ASSUME Once(s), \A e \in s.told : e.item < b PROVE Once(t)
      OBVIOUS
    <2>1. t.again \subseteq t.orphaned
      BY <1>8, <1>9 DEF h, Once
    <2>2. \A q \in Live(s) : Heard(t, q) => q \in t.orphaned
      BY <1>1, <1>15, <1>16 DEF Heard, Once
    <2>3. Heard(t, b) => Dangling(s, item)
      BY <1>8, <1>9 DEF Heard
    <2> QED
      BY <1>12, <1>16, <2>1, <2>2, <2>3 DEF Once
  <1>18. /\ t.queue = f /\ t.deps = g
         /\ t.waiting = s.waiting /\ t.mapped = s.mapped
         /\ t.dequeueing = s.dequeueing /\ t.net = s.net
    BY <1>4, <1>9
  <1> QED
    BY <1>10, <1>11, <1>12, <1>13, <1>14, <1>15, <1>16, <1>17, <1>18 DEF t, f, g

\* What a new item depends on is queued, or waits for its answer.
LEMMA DependenciesMeans ==
    ASSUME NEW s, QueueType(s), NEW item \in Items, NEW b, NEW q \in Dependencies(s, b, item)
    PROVE  /\ q # b
           /\ \/ q \in DOMAIN s.queue /\ s.queue[q].op # "action"
              \/ \E id \in Ids : q \in s.waiting[id]
  <1>1. \A id \in Ids : \A p \in ItemsWithId(s, id) :
            \/ p \in DOMAIN s.queue /\ s.queue[p].op # "action"
            \/ \E i \in Ids : p \in s.waiting[i]
    BY DEF ItemsWithId
  <1>2. \A id \in Ids : OtherId(id) \in Ids
    BY DEF Ids, OtherId, Obj
  <1>3. item.ids \subseteq Ids /\ \A o \in item.refs : <<"client", o>> \in Ids
    BY DEF Items, Ids
  <1>4. q # b
    BY DEF Dependencies
  <1>5. \/ \E id \in item.ids : q \in UpdateDependencies(s, id)
        \/ \E o \in Unresolved(s, item) : q \in Creators(s, o)
    BY DEF Dependencies
  <1>6. CASE \E id \in item.ids : q \in UpdateDependencies(s, id)
    BY <1>1, <1>2, <1>3, <1>4, <1>6 DEF UpdateDependencies
  <1>7. CASE \E o \in Unresolved(s, item) : q \in Creators(s, o)
    BY <1>1, <1>3, <1>4, <1>7 DEF Unresolved, Creators
  <1> QED
    BY <1>5, <1>6, <1>7

LEMMA EnqueueHealthy ==
    ASSUME NEW s, NEW b \in Nat, Sound(s, b), Healthy(s, b),
           NEW item \in Items, item.ids # {}
    PROVE  Healthy(Enqueue(s, b, item), b + 1)
  <1> DEFINE t == Enqueue(s, b, item)
  <1>1. /\ t.waiting = s.waiting
        /\ DOMAIN t.queue = DOMAIN s.queue \cup {b}
        /\ \A q \in DOMAIN s.queue : t.deps[q] = s.deps[q]
        /\ t.deps[b] = Dependencies(s, b, item)
        /\ Live(t) = Live(s) \cup {b}
        /\ \A q \in Live(s) : ItemOf(t, q) = ItemOf(s, q)
        /\ ItemOf(t, b) = Stored(s, item)
        /\ \A e \in t.told \ s.told : e.item = b
        /\ Once(s) /\ (\A e \in s.told : e.item < b) => Once(t)
    BY EnqueueView
  <1>2. QueueType(s)
    BY DEF Sound
  <1>3. \A q \in Dependencies(s, b, item) : q < b
    BY <1>2, DependenciesMeans DEF Healthy, Sound
  <1>4. Stored(s, item).ids = item.ids
    BY DEF Stored, Items
  <1> HIDE DEF t
  <1>5. /\ \A q \in DOMAIN s.queue : q \in Nat
        /\ \A id \in Ids : \A q \in s.waiting[id] : q \in Nat
        /\ \A e \in s.told : e.item \in Nat
        /\ \A q \in DOMAIN s.queue : \A r \in s.deps[q] : r \in Nat
    BY <1>2, BoundsAssumption DEF QueueType, Partial, QueueIds, Notices
  <1>6. /\ \A q \in Live(t) : ItemOf(t, q).ids # {}
        /\ \A e \in t.told : e.item < b + 1
        /\ \A id \in Ids : \A q \in t.waiting[id] : q < b + 1
        /\ Once(t)
    BY <1>1, <1>4, <1>5 DEF Healthy
  <1>7. \A r \in DOMAIN t.queue : \A q \in t.deps[r] : q < b + 1 /\ q # b
    <2>1. \A r \in DOMAIN s.queue : \A q \in s.deps[r] : q < b + 1 /\ q # b
      BY <1>5 DEF Healthy
    <2>2. \A q \in Dependencies(s, b, item) : q < b + 1 /\ q # b
      <3>1. Dependencies(s, b, item) \subseteq Nat
        BY <1>2, <1>5, DependenciesMeans
      <3> QED
        BY <1>3, <3>1
    <2> QED
      BY <1>1, <2>1, <2>2
  <1>8. Acyclic(t)
    <2> SUFFICES ASSUME NEW S \in SUBSET DOMAIN t.queue, S # {}
                 PROVE  \E q \in S : t.deps[q] \cap S = {}
      BY DEF Acyclic
    <2>1. CASE S = {b}
      BY <1>1, <1>7, <2>1
    <2>2. CASE S # {b}
      <3>1. S \ {b} \subseteq DOMAIN s.queue /\ S \ {b} # {}
        BY <1>1, <2>2
      <3>2. PICK q \in S \ {b} : s.deps[q] \cap (S \ {b}) = {}
        BY <3>1 DEF Healthy, Acyclic
      <3> QED
        BY <1>1, <1>7, <3>1, <3>2
    <2> QED
      BY <2>1, <2>2
  <1>9. Healthy(t, b + 1)
    BY <1>6, <1>7, <1>8 DEF Healthy
  <1> QED
    BY <1>9 DEF t

-----------------------------------------------------------------------------
(* What UpdateManager orders. *)

Ordered(item) ==
    /\ item \in Items /\ item.refs \subseteq Referable
    /\ \A o \in ObjectsOf(item) \cap Referable : item.refs = {} /\ item.op # "bulk"
    /\ \/ /\ item.op \in Creations /\ item.rev = 0
          /\ \E objs \in SUBSET Objects :
                /\ objs # {} /\ item.ids = {"client"} \X objs
                /\ item.folders = InFolder(objs)
                /\ \A o \in objs : Creatable(o)
       \/ /\ item.op \in {"update", "action"} /\ item.folders = {}
          /\ \E o \in Objects :
                /\ Local(o) /\ item.ids = {IdOf(o)}
                /\ item.op = "update" =>
                        item.rev = IF o \in Folders THEN 0 ELSE known[o]

LEMMA EnqueuesOrder ==
    ASSUME TypeInv, Enqueues
    PROVE  \E item : Ordered(item) /\ EnqueueItem(item)
  <1>0. \A o \in Objects : /\ References(o) \subseteq Referable
                           /\ o \in Referable => References(o) = {}
    BY ObjectsAssumption DEF References
  <1>1. ASSUME NEW o \in Objects, NEW refs \in SUBSET References(o), CreateObject(o, refs)
        PROVE  \E item : Ordered(item) /\ EnqueueItem(item)
    <2> DEFINE item == [op |-> "create", ids |-> {<<"client", o>>},
                        folders |-> InFolder({o}), rev |-> 0, refs |-> refs]
    <2>1. item \in Items
      BY EnqueuedItem DEF Items
    <2>2. {<<"client", o>>} = {"client"} \X {o} /\ {o} \in SUBSET Objects /\ {o} # {}
      OBVIOUS
    <2>3. item.refs \subseteq Referable /\ \A p \in ObjectsOf(item) \cap Referable :
                item.refs = {} /\ item.op # "bulk"
      BY <1>0, <1>1 DEF ObjectsOf, Obj
    <2>4. Ordered(item)
      BY <1>1, <2>1, <2>2, <2>3 DEF Ordered, CreateObject, Creations
    <2> QED
      BY <1>1, <2>4 DEF CreateObject
  <1>2. ASSUME NEW objs \in SUBSET Preferences, BulkCreate(objs)
        PROVE  \E item : Ordered(item) /\ EnqueueItem(item)
    <2> DEFINE item == [op |-> "bulk", ids |-> {"client"} \X objs,
                        folders |-> InFolder(objs), rev |-> 0, refs |-> {}]
    <2>1. objs \in SUBSET Objects /\ {"client"} \X objs \subseteq Ids
      BY ObjectsAssumption DEF Ids
    <2>2. item \in Items
      BY <2>1, EnqueuedItem DEF Items
    <2>3. ObjectsOf(item) \cap Referable = {}
      BY <1>2, ObjectsAssumption DEF ObjectsOf, Obj
    <2>4. Ordered(item)
      BY <1>2, <2>1, <2>2, <2>3 DEF Ordered, BulkCreate, Creations
    <2> QED
      BY <1>2, <2>4 DEF BulkCreate
  <1>3. ASSUME NEW o \in Objects, NEW refs \in SUBSET References(o), UpdateObject(o, refs)
        PROVE  \E item : Ordered(item) /\ EnqueueItem(item)
    <2> DEFINE item == [op |-> "update", ids |-> {IdOf(o)}, folders |-> {},
                        rev |-> IF o \in Folders THEN 0 ELSE known[o], refs |-> refs]
    <2>1. item \in Items
      BY EnqueuedItem DEF Items
    <2>2. item.refs \subseteq Referable /\ \A p \in ObjectsOf(item) \cap Referable :
                item.refs = {} /\ item.op # "bulk"
      BY <1>0, <1>3 DEF ObjectsOf, Obj, IdOf
    <2>3. Ordered(item)
      BY <1>3, <2>1, <2>2 DEF Ordered, UpdateObject
    <2> QED
      BY <1>3, <2>3 DEF UpdateObject
  <1>4. ASSUME NEW o \in Reported, RecordObjectAction(o)
        PROVE  \E item : Ordered(item) /\ EnqueueItem(item)
    <2> DEFINE item == [op |-> "action", ids |-> {IdOf(o)}, folders |-> {},
                        rev |-> 0, refs |-> {}]
    <2>1. o \in Objects
      BY ObjectsAssumption
    <2>2. item \in Items
      BY <2>1, EnqueuedItem DEF Items
    <2>3. Ordered(item)
      BY <1>4, <2>1, <2>2 DEF Ordered, RecordObjectAction
    <2> QED
      BY <1>4, <2>3 DEF RecordObjectAction
  <1> QED
    BY <1>1, <1>2, <1>3, <1>4 DEF Enqueues

LEMMA OrderedHasIds ==
    ASSUME NEW item, Ordered(item)
    PROVE  item.ids # {}
  <1>1. \A objs : objs # {} => {"client"} \X objs # {}
    <2> SUFFICES ASSUME NEW objs, NEW o \in objs PROVE {"client"} \X objs # {}
      OBVIOUS
    <2>1. <<"client", o>> \in {"client"} \X objs
      OBVIOUS
    <2> QED
      BY <2>1
  <1> QED
    BY <1>1 DEF Ordered

-----------------------------------------------------------------------------
(* Creations. *)

Single(s, b, m) ==
    /\ \A o \in Objects : \A q \in m[o] : q < b
    /\ \A o \in Objects : \A q, r \in (m[o] \cap Live(s)) \ s.orphaned : q = r
    /\ \A q \in Live(s) : \A p \in Objects :
            q \in m[p] => \A o \in ObjectsOf(ItemOf(s, q)) : q \in m[o]

LEMMA RecedesSingle ==
    ASSUME NEW s, NEW b, NEW m, Single(s, b, m), NEW t, Recedes(s, t)
    PROVE  Single(t, b, m)
  <1>1. \A q \in Live(t) : q \in Live(s) /\ ObjectsOf(ItemOf(t, q)) = ObjectsOf(ItemOf(s, q))
    BY DEF Recedes, Kin, ObjectsOf
  <1>2. t.orphaned = s.orphaned
    BY DEF Recedes
  <1> QED
    BY <1>1, <1>2 DEF Single

\* A creation is ordered again only when the earlier ones have been answered.
LEMMA EnqueueSingle ==
    ASSUME TypeInv, Healthy(sq, next), Single(sq, next, made), NEW item,
           Ordered(item), EnqueueItem(item)
    PROVE  Single(Enqueue(sq, next, item), next + 1, made')
  <1> DEFINE t == Enqueue(sq, next, item)
  <1>1. next \in Nat /\ Sound(sq, next) /\ item \in Items
    BY BoundsAssumption DEF TypeInv, Ordered
  <1>2. /\ Live(t) = Live(sq) \cup {next}
        /\ \A q \in Live(sq) : ItemOf(t, q) = ItemOf(sq, q)
        /\ ItemOf(t, next) = Stored(sq, item)
        /\ sq.orphaned \subseteq t.orphaned
    BY <1>1, EnqueueView
  <1>3. next \notin Live(sq)
    BY <1>1 DEF Sound, Live
  <1>4. ObjectsOf(Stored(sq, item)) = ObjectsOf(item)
    <2>1. Stored(sq, item).ids = item.ids
      BY <1>1 DEF Stored, Items
    <2> QED
      BY <2>1 DEF ObjectsOf
  <1>5. \A o \in Objects : made'[o] =
            IF item.op \in Creations /\ o \in ObjectsOf(item) THEN made[o] \cup {next} ELSE made[o]
    BY DEF EnqueueItem
  <1>6. \A o \in Objects : \A q \in made[o] : q \in Nat /\ q < next
    BY <1>1, BoundsAssumption DEF TypeInv, QueueIds, Single
  <1>7. ASSUME NEW o \in Objects, item.op \in Creations, o \in ObjectsOf(item),
               NEW q \in made[o], q \in Live(sq)
        PROVE  q \in sq.orphaned
    <2>1. PICK objs \in SUBSET Objects :
              item.ids = {"client"} \X objs /\ \A p \in objs : Creatable(p)
      BY <1>7 DEF Ordered, Creations
    <2>2. o \in objs
      BY <1>7, <2>1 DEF ObjectsOf, Obj
    <2>3. Heard(sq, q)
      BY <1>7, <2>1, <2>2 DEF Creatable, Heard
    <2> QED
      BY <1>7, <2>3 DEF Healthy, Once
  <1> HIDE DEF t
  <1>8. ASSUME NEW o \in Objects, NEW q \in made'[o]
        PROVE  q < next + 1
    <2>1. q \in made[o] \/ q = next
      BY <1>5
    <2>2. next < next + 1 /\ \A r \in Nat : r < next => r < next + 1
      BY <1>1
    <2> QED
      BY <1>6, <2>1, <2>2
  <1>9. ASSUME NEW o \in Objects, NEW q \in (made'[o] \cap Live(t)) \ t.orphaned,
               NEW r \in (made'[o] \cap Live(t)) \ t.orphaned
        PROVE  q = r
    <2>1. CASE item.op \in Creations /\ o \in ObjectsOf(item)
      BY <1>2, <1>5, <1>7, <1>9, <2>1
    <2>2. CASE ~(item.op \in Creations /\ o \in ObjectsOf(item))
      <3>1. q \in made[o] /\ r \in made[o]
        BY <1>5, <2>2
      <3>2. q \in Live(sq) /\ r \in Live(sq)
        BY <1>1, <1>2, <1>6, <3>1
      <3> QED
        BY <1>2, <3>1, <3>2 DEF Single
    <2> QED
      BY <2>1, <2>2
  <1>10. ASSUME NEW q \in Live(t), NEW p \in Objects, q \in made'[p],
                NEW o \in ObjectsOf(ItemOf(t, q))
         PROVE  q \in made'[o]
    <2>0. ObjectsOf(item) \subseteq Objects
      BY <1>1, ObjIds
    <2>1. CASE q = next
      <3>1. item.op \in Creations
        <4>1. next \notin made[p]
          BY <1>1, <1>6
        <4> QED
          BY <1>5, <1>10, <2>1, <4>1
      <3>2. o \in ObjectsOf(item)
        BY <1>2, <1>4, <1>10, <2>1
      <3> QED
        BY <1>5, <2>0, <2>1, <3>1, <3>2
    <2>2. CASE q # next
      <3>1. q \in Live(sq) /\ q \in made[p] /\ o \in ObjectsOf(ItemOf(sq, q))
        BY <1>2, <1>5, <1>10, <2>2
      <3>2. q \in made[o]
        BY <3>1 DEF Single
      <3>3. o \in Objects
        <4>1. ItemOf(sq, q) \in Items
          BY <1>1, <3>1, FutureType, SoundQueue DEF ItemOf, Live
        <4> QED
          BY <3>1, <4>1, ObjIds
      <3> QED
        BY <1>5, <3>2, <3>3
    <2> QED
      BY <2>1, <2>2
  <1>11. Single(t, next + 1, made')
    BY <1>8, <1>9, <1>10 DEF Single
  <1> QED
    BY <1>11 DEF t

-----------------------------------------------------------------------------
(* Nothing is left behind. *)

Pursued(s) ==
    s.dequeueing /\ ~s.stalled /\ Ready(s) # {} => DOMAIN s.net # {}

LEMMA DequeuePursues ==
    ASSUME NEW s, NEW b, Sound(s, b), NEW n \in Nat, n >= 1
    PROVE  Pursued(Dequeue(s, n))
  <1> DEFINE t == Dequeue(s, n)
  <1>0. QueueType(s)
    BY DEF Sound
  <1>1. CASE ~s.dequeueing
    BY <1>1, DequeueStopped DEF Pursued
  <1>2. CASE s.dequeueing
    <2>1. s.dequeueing = TRUE
      BY <1>0, <1>2 DEF QueueType
    <2>2. Dequeues(s, n, t)
      BY <2>1, DequeueView
    <2> HIDE DEF t
    <2>3. Sent(s, n) # {} => DOMAIN t.net # {}
      BY <2>2 DEF Dequeues
    <2>4. Ready(t) \subseteq Ready(s) \ Skipped(s, n)
      BY <2>2 DEF Dequeues, Ready
    <2>5. Pursued(t)
      BY <1>0, <2>3, <2>4, SomethingTaken DEF Pursued
    <2> QED
      BY <2>5 DEF t
  <1> QED
    BY <1>1, <1>2

-----------------------------------------------------------------------------
(* Startup. *)

FoldersExist == \A o \in Objects : FolderOf[o] \in Existing \cup {NoObject}

\* The items found in SQLite: n edits, one for each row, then m actions.
StartsWith(items, n, m, edits) ==
    /\ DOMAIN items = 1..(n + m)
    /\ \A q \in 1..n :
        /\ items[q].op = IF edits[q] \in Existing THEN "update" ELSE "create"
        /\ items[q].ids = {<<IF edits[q] \in Existing THEN "server" ELSE "client", edits[q]>>}
        /\ edits[q] \notin Workflows => items[q].refs = {}
        /\ items[q].refs \subseteq Referable \cap ({edits[i] : i \in 1..n} \ Existing)
        /\ items[q].rev = IF edits[q] \in Existing \ Folders THEN 1 ELSE 0
        /\ FoldersExist => \A id \in items[q].folders : id[1] = "server"
    /\ \A q \in (1..(n + m)) \ (1..n) :
        items[q].op = "action" /\ items[q].ids # {} /\ items[q].refs = {}

LEMMA StartItems ==
    ASSUME NEW n \in Nat, NEW m \in Nat, n + m <= MaxStart,
           NEW edits \in StartRows(n), NEW reports \in [1..m -> Reported],
           NEW linked \in BOOLEAN
    PROVE  /\ StartsWith(StartQueue(edits, reports, linked), n, m, edits)
           /\ Partial(StartQueue(edits, reports, linked), QueueIds, Items)
  <1> DEFINE items == StartQueue(edits, reports, linked)
             created == {edits[i] : i \in 1..n} \ Existing
  <1>1. edits \in [1..n -> Objects]
    BY DEF StartRows
  <1>2. Len(edits) = n /\ Len(reports) = m
    <2>1. edits \in Seq(Objects) /\ reports \in Seq(Reported)
      BY <1>1
    <2> QED
      BY <1>1, <2>1
  <1>3. items = [q \in 1..(n + m) |->
            IF q <= n
            THEN StartItem(edits[q], IF edits[q] \in Existing THEN "update" ELSE "create",
                           linked, created)
            ELSE StartItem(reports[q - n], "action", FALSE, {})]
    BY <1>2 DEF StartQueue
  <1>4. Partial(items, QueueIds, Items) /\ DOMAIN items = 1..(n + m)
    <2>1. /\ Partial(StartQueue(edits, reports, linked), QueueIds, Items)
          /\ DOMAIN StartQueue(edits, reports, linked) = 1..(n + m)
      <3> HIDE DEF items, created
      <3> QED
        BY <1>1, StartQueueType, SMTT(30)
    <2> QED
      BY <2>1
  <1> HIDE DEF items, created
  <1>5. ASSUME NEW q \in 1..n
        PROVE  /\ items[q].op = IF edits[q] \in Existing THEN "update" ELSE "create"
               /\ items[q].ids = {<<IF edits[q] \in Existing THEN "server" ELSE "client",
                                    edits[q]>>}
               /\ edits[q] \notin Workflows => items[q].refs = {}
               /\ items[q].refs \subseteq Referable \cap ({edits[i] : i \in 1..n} \ Existing)
               /\ items[q].rev = IF edits[q] \in Existing \ Folders THEN 1 ELSE 0
               /\ FoldersExist => \A id \in items[q].folders : id[1] = "server"
    <2> DEFINE op == IF edits[q] \in Existing THEN "update" ELSE "create"
    <2>1. q \in 1..(n + m) /\ q <= n
      OBVIOUS
    <2>2. items[q] = StartItem(edits[q], op, linked, created)
      BY <1>3, <2>1
    <2>3. edits[q] \in Workflows => RefsOf[edits[q]] \subseteq Referable
      BY ObjectsAssumption
    <2> HIDE DEF op
    <2>4. /\ items[q].op = op
          /\ items[q].ids = {<<IF edits[q] \in Existing THEN "server" ELSE "client",
                               edits[q]>>}
          /\ edits[q] \notin Workflows => items[q].refs = {}
          /\ items[q].refs \subseteq Referable \cap created
      BY <2>2, <2>3 DEF StartItem
    <2>5. FoldersExist => \A id \in items[q].folders : id[1] = "server"
      BY <1>1, <2>2 DEF StartItem, FoldersExist
    <2>6. items[q].rev = IF op = "update" /\ edits[q] \notin Folders THEN 1 ELSE 0
      BY <2>2 DEF StartItem
    <2>7. items[q].rev = IF edits[q] \in Existing \ Folders THEN 1 ELSE 0
      BY <2>6 DEF op
    <2> QED
      BY <2>4, <2>5, <2>7 DEF op, created
  <1>6. ASSUME NEW q \in (1..(n + m)) \ (1..n)
        PROVE  items[q].op = "action" /\ items[q].ids # {} /\ items[q].refs = {}
    <2>1. q \in 1..(n + m) /\ ~(q <= n)
      OBVIOUS
    <2>2. items[q] = StartItem(reports[q - n], "action", FALSE, {})
      BY <1>3, <2>1
    <2>3. items[q].op = "action" /\ items[q].refs = {}
      BY <2>2 DEF StartItem
    <2>4. items[q].ids = {<<IF reports[q - n] \in Existing THEN "server" ELSE "client",
                            reports[q - n]>>}
      BY <2>2 DEF StartItem
    <2>5. items[q].ids # {}
      BY <2>4
    <2> QED
      BY <2>3, <2>5
  <1>7. StartsWith(items, n, m, edits)
    BY <1>4, <1>5, <1>6 DEF StartsWith
  <1> QED
    BY <1>4, <1>7 DEF items

LEMMA NewQueueFields ==
    ASSUME NEW items
    PROVE  LET t == NewQueue(items) IN
           /\ t.queue = items /\ DOMAIN t.net = {} /\ t.told = {} /\ t.again = {}
           /\ t.orphaned = {} /\ t.mapped = {} /\ t.dequeueing = FALSE
           /\ t.waiting = [id \in Ids |-> {}]
           /\ t.deps = [q \in DOMAIN items |-> Dependencies(Empty(items), q, items[q])]
  <1> DEFINE e == Empty(items)
             d == [q \in DOMAIN items |-> Dependencies(e, q, items[q])]
  <1>1. /\ IsQueue(e) /\ e.queue = items
        /\ e.waiting = [id \in Ids |-> {}] /\ e.mapped = {} /\ e.dequeueing = FALSE
        /\ e.net = [q \in {} |-> NoReply] /\ e.told = {} /\ e.again = {}
        /\ e.orphaned = {}
    BY DEF Empty, IsQueue, Fields
  <1>2. NewQueue(items) = [e EXCEPT !.deps = d]
    BY DEF NewQueue
  <1> HIDE DEF e, d
  <1>3. LET t == [e EXCEPT !.deps = d] IN
        /\ t.deps = d /\ t.queue = e.queue /\ t.waiting = e.waiting /\ t.mapped = e.mapped
        /\ t.dequeueing = e.dequeueing /\ t.net = e.net /\ t.told = e.told
        /\ t.again = e.again /\ t.orphaned = e.orphaned
    BY <1>1 DEF IsQueue, Fields
  <1> QED
    BY <1>1, <1>2, <1>3 DEF d, e

\* At startup an item depends on nothing, or it is a workflow and depends on
\* creations that depend on nothing.
LEMMA StartDependencies ==
    ASSUME NEW n \in Nat, NEW m \in Nat, NEW edits \in StartRows(n), NEW items,
           StartsWith(items, n, m, edits),
           NEW q \in DOMAIN items, NEW r \in Dependencies(Empty(items), q, items[q])
    PROVE  /\ r \in DOMAIN items /\ items[r].op # "action"
           /\ Dependencies(Empty(items), r, items[r]) = {}
  <1> DEFINE e == Empty(items)
  <1>1. e.queue = items /\ e.waiting = [id \in Ids |-> {}] /\ e.mapped = {}
    BY DEF Empty
  <1> HIDE DEF e
  <1>2. edits \in [1..n -> Objects] /\ \A i, j \in 1..n : edits[i] = edits[j] => i = j
    BY DEF StartRows
  <1>3. \A id \in Ids : ItemsWithId(e, id) =
            {p \in DOMAIN items : items[p].op # "action" /\ id \in items[p].ids}
    BY <1>1 DEF ItemsWithId
  <1>4. \A p \in DOMAIN items : items[p].op # "action" => p \in 1..n
    BY DEF StartsWith
  <1>5. ASSUME NEW o \in Objects
        PROVE  /\ <<"client", o>> \in Ids /\ <<"server", o>> \in Ids
               /\ \A p \in ItemsWithId(e, <<"client", o>>) : p \in 1..n /\ edits[p] = o
               /\ \A p \in ItemsWithId(e, <<"server", o>>) : p \in 1..n /\ edits[p] = o
    <2>1. <<"client", o>> \in Ids /\ <<"server", o>> \in Ids
      BY DEF Ids
    <2>2. \A p \in 1..n : \A id \in items[p].ids : id[2] = edits[p]
      BY DEF StartsWith
    <2> QED
      BY <1>3, <1>4, <2>1, <2>2
  <1>6. ASSUME NEW p \in 1..n, items[p].op = "update"
        PROVE  UNION {UpdateDependencies(e, id) : id \in items[p].ids} \subseteq {p}
    <2>1. items[p].ids = {<<"server", edits[p]>>}
      BY <1>6 DEF StartsWith
    <2>2. UpdateDependencies(e, <<"server", edits[p]>>)
            = ItemsWithId(e, <<"server", edits[p]>>)
      BY <1>1 DEF UpdateDependencies
    <2>3. edits[p] \in Objects
      BY <1>2
    <2>4. ItemsWithId(e, <<"server", edits[p]>>) \subseteq {p}
      BY <1>2, <1>5, <2>3
    <2> QED
      BY <2>1, <2>2, <2>4
  <1>7. ASSUME NEW p \in DOMAIN items, NEW x \in Dependencies(e, p, items[p])
        PROVE  \E o \in items[p].refs : x \in Creators(e, o)
    <2>1. x # p
      BY <1>7 DEF Dependencies
    <2>2. items[p].op = "update" => x \notin UNION {UpdateDependencies(e, id) : id \in items[p].ids}
      BY <1>4, <1>6, <2>1
    <2>3. x \in UNION {Creators(e, o) : o \in Unresolved(e, items[p])}
      BY <1>7, <2>2 DEF Dependencies
    <2> QED
      BY <2>3 DEF Unresolved
  <1>8. PICK o \in items[q].refs : r \in Creators(e, o)
    BY <1>7 DEF e
  <1>9. o \in Referable /\ o \in Objects /\ o \notin Workflows
    <2>1. q \in 1..n
      BY <1>8 DEF StartsWith
    <2> QED
      BY <1>8, <2>1, ObjectsAssumption DEF StartsWith
  <1>10. r \in DOMAIN items /\ items[r].op # "action"
    <2>1. r \in ItemsWithId(e, <<"client", o>>) /\ <<"client", o>> \in Ids
      BY <1>5, <1>8, <1>9 DEF Creators
    <2> QED
      BY <1>3, <2>1
  <1>11. r \in 1..n /\ edits[r] = o
    BY <1>5, <1>8, <1>9 DEF Creators
  <1>12. items[r].refs = {}
    BY <1>9, <1>11 DEF StartsWith
  <1>13. Dependencies(e, r, items[r]) = {}
    BY <1>7, <1>10, <1>12
  <1> QED
    BY <1>10, <1>13 DEF e

LEMMA StartHealthy ==
    ASSUME NEW n \in Nat, NEW m \in Nat, NEW edits \in StartRows(n), NEW items,
           StartsWith(items, n, m, edits)
    PROVE  Healthy(NewQueue(items), n + m + 1)
  <1> DEFINE t == NewQueue(items)
             deps(q) == Dependencies(Empty(items), q, items[q])
  <1>1. /\ t.queue = items /\ DOMAIN t.net = {} /\ t.told = {} /\ t.again = {}
        /\ t.waiting = [id \in Ids |-> {}]
        /\ t.deps = [q \in DOMAIN items |-> Dependencies(Empty(items), q, items[q])]
    BY NewQueueFields
  <1> HIDE DEF t
  <1>2. ASSUME NEW q \in DOMAIN items PROVE q < n + m + 1 /\ items[q].ids # {}
    <2>1. q \in 1..(n + m)
      BY DEF StartsWith
    <2>2. CASE q \in 1..n
      <3>1. \E id : items[q].ids = {id}
        BY <2>2 DEF StartsWith
      <3> QED
        BY <2>2, <3>1
    <2>3. CASE q \notin 1..n
      BY <2>1, <2>3 DEF StartsWith
    <2> QED
      BY <2>2, <2>3
  <1>3. Live(t) = DOMAIN items /\ \A q \in DOMAIN items : ItemOf(t, q) = items[q]
    BY <1>1 DEF Live, ItemOf
  <1>4. \A q \in DOMAIN items : \A r \in t.deps[q] : r \in DOMAIN items /\ t.deps[r] = {}
    BY <1>1, StartDependencies
  <1>5. Acyclic(t)
    <2> SUFFICES ASSUME NEW S \in SUBSET DOMAIN items, NEW q \in S
                 PROVE  \E r \in S : t.deps[r] \cap S = {}
      BY <1>1 DEF Acyclic
    <2>1. CASE t.deps[q] \cap S = {}
      BY <2>1
    <2>2. ASSUME NEW r \in t.deps[q] \cap S PROVE t.deps[r] \cap S = {}
      BY <1>4
    <2> QED
      BY <2>1, <2>2
  <1>6. Once(t)
    BY <1>1 DEF Once, Heard
  <1>7. Healthy(t, n + m + 1)
    BY <1>1, <1>2, <1>3, <1>4, <1>5, <1>6 DEF Healthy
  <1> QED
    BY <1>7 DEF t

LEMMA StartSingle ==
    ASSUME NEW n \in Nat, NEW m \in Nat, NEW edits \in StartRows(n), NEW items,
           StartsWith(items, n, m, edits), NEW made0,
           made0 = [o \in Objects |-> {i \in 1..n : edits[i] = o /\ o \notin Existing}]
    PROVE  Single(NewQueue(items), n + m + 1, made0)
  <1> DEFINE t == NewQueue(items)
  <1>1. t.queue = items /\ DOMAIN t.net = {}
    BY NewQueueFields
  <1> HIDE DEF t
  <1>2. \A i, j \in 1..n : edits[i] = edits[j] => i = j
    BY DEF StartRows
  <1>3. \A o \in Objects : \A q \in made0[o] : q \in 1..n /\ edits[q] = o
    OBVIOUS
  <1>4. ASSUME NEW q \in Live(t), NEW p \in Objects, q \in made0[p],
               NEW o \in ObjectsOf(ItemOf(t, q))
        PROVE  o = p
    <2>1. q \in 1..n /\ edits[q] = p /\ q \in DOMAIN items
      BY <1>1, <1>3, <1>4 DEF Live
    <2>2. ItemOf(t, q) = items[q]
      BY <1>1, <2>1 DEF ItemOf
    <2>3. \A id \in items[q].ids : id[2] = edits[q]
      BY <2>1 DEF StartsWith
    <2> QED
      BY <2>1, <2>2, <2>3 DEF ObjectsOf, Obj
  <1>5. \A o \in Objects : \A q \in made0[o] : q < n + m + 1
    BY <1>3
  <1> HIDE DEF Live, ItemOf
  <1>6. Single(t, n + m + 1, made0)
    BY <1>2, <1>3, <1>4, <1>5 DEF Single
  <1> QED
    BY <1>6 DEF t

-----------------------------------------------------------------------------
(* The invariant. *)

HealthyInv ==
    /\ TypeInv
    /\ Healthy(sq, next) /\ Single(sq, next, made) /\ Pursued(sq)

LEMMA InitHealthy ==
    ASSUME Init
    PROVE  HealthyInv
  <1>1. PICK n \in 0..MaxStart : \E m \in 0..(MaxStart - n) :
            \E edits \in StartRows(n), reports \in [1..m -> Reported], linked \in BOOLEAN :
                /\ sq = NewQueue(StartQueue(edits, reports, linked))
                /\ next = n + m + 1
                /\ made = [o \in Objects |->
                            {i \in 1..n : edits[i] = o /\ o \notin Existing}]
    BY DEF Init
  <1>2. PICK m \in 0..(MaxStart - n) :
            \E edits \in StartRows(n), reports \in [1..m -> Reported], linked \in BOOLEAN :
                /\ sq = NewQueue(StartQueue(edits, reports, linked))
                /\ next = n + m + 1
                /\ made = [o \in Objects |->
                            {i \in 1..n : edits[i] = o /\ o \notin Existing}]
    BY <1>1
  <1>3. PICK edits \in StartRows(n), reports \in [1..m -> Reported], linked \in BOOLEAN :
            /\ sq = NewQueue(StartQueue(edits, reports, linked))
            /\ next = n + m + 1
            /\ made = [o \in Objects |-> {i \in 1..n : edits[i] = o /\ o \notin Existing}]
    BY <1>2
  <1>4. n \in Nat /\ m \in Nat /\ n + m <= MaxStart
    BY BoundsAssumption
  <1> DEFINE items == StartQueue(edits, reports, linked)
  <1>5. StartsWith(items, n, m, edits)
    BY <1>4, StartItems
  <1> HIDE DEF items
  <1>6. sq = NewQueue(items)
    BY <1>3 DEF items
  <1>7. Healthy(sq, next)
    BY <1>3, <1>4, <1>5, <1>6, StartHealthy
  <1>8. Single(sq, next, made)
    BY <1>3, <1>4, <1>5, <1>6, StartSingle
  <1>9. Pursued(sq)
    BY <1>6, NewQueueFields DEF Pursued
  <1> QED
    BY <1>7, <1>8, <1>9, InitType DEF HealthyInv

LEMMA DequeueRecedes ==
    ASSUME NEW s, NEW b, Sound(s, b), NEW n
    PROVE  Recedes(s, Dequeue(s, n))
  <1>1. CASE ~s.dequeueing
    BY <1>1, DequeueStopped, StillRecedes
  <1>2. CASE s.dequeueing
    <2>1. s.dequeueing = TRUE
      BY <1>2 DEF Sound, QueueType
    <2> QED
      BY <2>1, DequeueView DEF Dequeues
  <1> QED
    BY <1>1, <1>2

\* Every handler that changes what is queued ends in a dequeue.
LEMMA DequeueKeeps ==
    ASSUME NEW s, NEW b, Sound(s, b), Healthy(s, b), NEW m, Single(s, b, m),
           NEW n \in Nat, n >= 1
    PROVE  /\ Healthy(Dequeue(s, n), b) /\ Single(Dequeue(s, n), b, m)
           /\ Pursued(Dequeue(s, n))
  BY DequeueHealthy, DequeueRecedes, RecedesSingle, DequeuePursues

LEMMA ClearFields ==
    ASSUME TypeInv, Clear
    PROVE  /\ DOMAIN sq'.queue = {} /\ sq'.net = sq.net
           /\ sq'.waiting = [id \in Ids |-> {}]
           /\ sq'.told = sq.told /\ sq'.again = sq.again /\ sq'.orphaned = sq.orphaned
           /\ UNCHANGED <<next, made>>
  <1>1. IsQueue(sq)
    BY DEF TypeInv, Sound, QueueType
  <1>2. /\ sq'.queue = Without(sq.queue, DOMAIN sq.queue) /\ sq'.net = sq.net
        /\ sq'.waiting = [id \in Ids |-> {}]
        /\ sq'.told = sq.told /\ sq'.again = sq.again /\ sq'.orphaned = sq.orphaned
    BY <1>1 DEF Clear, IsQueue, Fields
  <1>3. DOMAIN Without(sq.queue, DOMAIN sq.queue) = {}
    BY DEF Without
  <1> QED
    BY <1>2, <1>3 DEF Clear

LEMMA ClearHealthy ==
    ASSUME HealthyInv, Clear
    PROVE  Healthy(sq, next)' /\ Single(sq, next, made)' /\ Pursued(sq)'
  <1> DEFINE t == sq'
  <1>0. TypeInv
    BY DEF HealthyInv
  <1>1. /\ DOMAIN t.queue = {} /\ t.net = sq.net /\ t.waiting = [id \in Ids |-> {}]
        /\ t.told = sq.told /\ t.again = sq.again /\ t.orphaned = sq.orphaned
        /\ next' = next /\ made' = made
    BY <1>0, ClearFields
  <1>2. DOMAIN sq.queue \cap DOMAIN sq.net = {}
    BY <1>0 DEF TypeInv, Sound
  <1> HIDE DEF t
  <1>3. Live(t) = DOMAIN sq.net /\ DOMAIN sq.net \subseteq Live(sq)
    BY <1>1 DEF Live
  <1>4. \A q \in DOMAIN sq.net : ItemOf(t, q) = ItemOf(sq, q)
    BY <1>1, <1>2 DEF ItemOf
  <1>5. Recedes(sq, t)
    BY <1>1, <1>3, <1>4 DEF Recedes, Kin
  <1>6. Once(t)
    BY <1>1, <1>3, OnceKept DEF HealthyInv, Healthy
  <1>7. Healthy(t, next)
    BY <1>1, <1>5, <1>6, RecedesHealthy DEF HealthyInv
  <1>8. Single(t, next, made)
    BY <1>5, RecedesSingle DEF HealthyInv
  <1>9. Pursued(t)
    BY <1>1 DEF Pursued, Ready
  <1> QED
    BY <1>1, <1>7, <1>8, <1>9 DEF t

LEMMA QuietHealthy ==
    ASSUME HealthyInv, Quiet, UNCHANGED <<next, made>>
    PROVE  Healthy(sq, next)' /\ Single(sq, next, made)' /\ Pursued(sq)'
  <1> DEFINE t == sq'
  <1>1. /\ t.queue = sq.queue /\ t.deps = sq.deps /\ t.waiting = sq.waiting
        /\ t.told = sq.told /\ t.again = sq.again /\ t.orphaned = sq.orphaned
        /\ t.stalled = sq.stalled /\ (t.dequeueing => sq.dequeueing)
        /\ DOMAIN t.net = DOMAIN sq.net
        /\ \A q \in DOMAIN sq.net : t.net[q].item = sq.net[q].item
        /\ next' = next /\ made' = made
    BY DEF Quiet
  <1> HIDE DEF t
  <1>2. Live(t) = Live(sq)
    BY <1>1 DEF Live
  <1>3. \A q \in Live(sq) : ItemOf(t, q) = ItemOf(sq, q)
    BY <1>1 DEF ItemOf, Live
  <1>4. Recedes(sq, t)
    BY <1>1, <1>2, <1>3 DEF Recedes, Kin
  <1>5. Once(t)
    BY <1>1, <1>2, OnceKept DEF HealthyInv, Healthy
  <1>6. \A id \in Ids : \A q \in t.waiting[id] : q < next
    BY <1>1 DEF HealthyInv, Healthy
  <1>7. Healthy(t, next)
    BY <1>1, <1>4, <1>5, <1>6, RecedesHealthy DEF HealthyInv
  <1>8. Single(t, next, made)
    BY <1>4, RecedesSingle DEF HealthyInv
  <1>9. Pursued(t)
    BY <1>1 DEF Pursued, Ready, HealthyInv
  <1> QED
    BY <1>1, <1>7, <1>8, <1>9 DEF t

LEMMA EnqueueItemHealthy ==
    ASSUME HealthyInv, NEW item, Ordered(item), EnqueueItem(item)
    PROVE  Healthy(sq, next)' /\ Single(sq, next, made)' /\ Pursued(sq)'
  <1> DEFINE t == Enqueue(sq, next, item)
  <1>1. /\ sq' = Dequeue(t, 1) /\ next' = next + 1
        /\ next \in QueueIds /\ next \in Nat
    BY BoundsAssumption DEF EnqueueItem, HealthyInv, TypeInv, QueueIds
  <1>2. Sound(sq, next) /\ item \in Items /\ item.ids # {}
    BY OrderedHasIds DEF HealthyInv, TypeInv, Ordered
  <1>3. Sound(t, next + 1)
    BY <1>1, <1>2, EnqueueSound
  <1>4. Healthy(t, next + 1)
    BY <1>1, <1>2, EnqueueHealthy DEF HealthyInv
  <1>5. Single(t, next + 1, made')
    BY EnqueueSingle DEF HealthyInv
  <1> HIDE DEF t
  <1> QED
    BY <1>1, <1>3, <1>4, <1>5, DequeueKeeps

LEMMA BegunHealthy ==
    ASSUME HealthyInv, sq' = Dequeue(Begun, 1), UNCHANGED <<next, made>>
    PROVE  Healthy(sq, next)' /\ Single(sq, next, made)' /\ Pursued(sq)'
  <1> DEFINE t == Begun
  <1>1. /\ Sound(t, next) /\ t.net = sq.net
        /\ t.queue = sq.queue /\ t.deps = sq.deps /\ t.waiting = sq.waiting
        /\ t.told = sq.told /\ t.again = sq.again /\ t.orphaned = sq.orphaned
    BY BegunFields DEF HealthyInv
  <1>2. sq' = Dequeue(t, 1)
    OBVIOUS
  <1> HIDE DEF t
  <1>3. Recedes(sq, t) /\ Live(t) = Live(sq)
    BY <1>1, StillRecedes
  <1>4. Once(t)
    BY <1>1, <1>3, OnceKept DEF HealthyInv, Healthy
  <1>5. \A id \in Ids : \A q \in t.waiting[id] : q < next
    BY <1>1 DEF HealthyInv, Healthy
  <1>6. Healthy(t, next)
    BY <1>1, <1>3, <1>4, <1>5, RecedesHealthy DEF HealthyInv
  <1>7. Single(t, next, made)
    BY <1>3, RecedesSingle DEF HealthyInv
  <1> QED
    BY <1>1, <1>2, <1>6, <1>7, DequeueKeeps

LEMMA SettledHealthy ==
    ASSUME HealthyInv, NEW q \in DOMAIN sq.net, Settled(q), UNCHANGED <<next, made>>
    PROVE  Healthy(sq, next)' /\ Single(sq, next, made)' /\ Pursued(sq)'
  <1>1. PICK t : /\ Settles(t, q)
                 /\ \/ \E n \in Nat : /\ sq.net[q].item.ids # {} => n >= 1
                                      /\ sq' = Dequeue(t, n)
                    \/ sq' = t /\ t.stalled = TRUE
    BY DEF Settled
  <1>2. Healthy(t, next)
    BY <1>1, SettlesHealthy DEF HealthyInv
  <1>3. Sound(t, next) /\ Recedes(sq, t)
    BY <1>1 DEF Settles
  <1>4. Single(t, next, made)
    BY <1>3, RecedesSingle DEF HealthyInv
  <1>5. CASE sq' = t /\ t.stalled = TRUE
    BY <1>2, <1>4, <1>5 DEF Pursued
  <1>6. ASSUME NEW n \in Nat, sq.net[q].item.ids # {} => n >= 1, sq' = Dequeue(t, n)
        PROVE  Healthy(sq, next)' /\ Single(sq, next, made)' /\ Pursued(sq)'
    <2>1. q \notin DOMAIN sq.queue
      BY DEF HealthyInv, TypeInv, Sound
    <2>2. sq.net[q].item.ids # {}
      BY <2>1 DEF HealthyInv, Healthy, ItemOf, Live
    <2> QED
      BY <1>2, <1>3, <1>4, <1>6, <2>2, DequeueKeeps
  <1> QED
    BY <1>1, <1>5, <1>6

LEMMA NextHealthy ==
    ASSUME HealthyInv, [Next]_vars
    PROVE  HealthyInv'
  <1>0. TypeInv /\ TypeInv'
    BY NextType DEF HealthyInv
  <1>1. CASE Enqueues
    BY <1>0, <1>1, EnqueuesOrder, EnqueueItemHealthy DEF HealthyInv
  <1>2. CASE Clear
    BY <1>0, <1>2, ClearHealthy DEF HealthyInv
  <1>3. CASE Quiet /\ UNCHANGED <<next, made, fence, clears>>
    BY <1>0, <1>3, QuietHealthy DEF HealthyInv
  <1>4. CASE sq' = Dequeue(Begun, 1) /\ UNCHANGED <<next, made, fence, clears>>
    BY <1>0, <1>4, BegunHealthy DEF HealthyInv
  <1>5. ASSUME NEW q \in DOMAIN sq.net, Settled(q), UNCHANGED <<next, made, fence, clears>>
        PROVE  HealthyInv'
    BY <1>0, <1>5, SettledHealthy DEF HealthyInv
  <1> QED
    BY <1>0, <1>1, <1>2, <1>3, <1>4, <1>5, StepsOfTheQueue

LEMMA HealthyInvariance == Spec => []HealthyInv
  BY InitHealthy, NextHealthy, PTL DEF Spec

-----------------------------------------------------------------------------
(* What follows. *)

\* An item that could be sent while the queue is dequeueing is not forgotten:
\* some request is in flight whose callback dequeues, unless the last one failed
\* with a persistent error.
THEOREM NothingStranded == Spec => []NothingIsStranded
  <1>1. \A f : DOMAIN f # {} => f # Without(f, DOMAIN f)
    <2> SUFFICES ASSUME NEW f, DOMAIN f # {} PROVE f # Without(f, DOMAIN f)
      OBVIOUS
    <2>1. DOMAIN Without(f, DOMAIN f) = {}
      BY DEF Without
    <2> QED
      BY <2>1
  <1>2. HealthyInv => NothingIsStranded
    BY <1>1 DEF HealthyInv, Pursued, NothingIsStranded
  <1> QED
    BY <1>2, HealthyInvariance, PTL

\* UpdateManager counts the events of an object: no item announces the end of
\* the same object twice, but for a workflow with an unknown reference.
THEOREM AnswersOnce == Spec => []AnsweredOnce
  <1>1. HealthyInv => AnsweredOnce
    BY DEF HealthyInv, Healthy, Once, AnsweredOnce
  <1> QED
    BY <1>1, HealthyInvariance, PTL

\* Queued items never wait for each other in a cycle.
THEOREM NoCycle == Spec => []NoCyclicWait
  <1>1. HealthyInv => NoCyclicWait
    BY DEF HealthyInv, Healthy, Acyclic, NoCyclicWait
  <1> QED
    BY <1>1, HealthyInvariance, PTL

\* Of the creations of an object that are queued or under way, all but one are
\* workflows with an unknown reference, which had been announced to have failed.
THEOREM CreationsUnique == Spec => []CreationsAreUnique
  <1>1. ASSUME HealthyInv PROVE CreationsAreUnique
    <2> SUFFICES ASSUME NEW q \in QueueIds \ sq.orphaned, NEW r \in QueueIds \ sq.orphaned,
                        q \in Live(sq), r \in Live(sq), q # r,
                        {q, r} \subseteq UNION {made[o] : o \in Objects},
                        NEW o \in Touches(q) \cap Touches(r)
                 PROVE  FALSE
      BY DEF CreationsAreUnique, Live
    <2>1. \A p \in Live(sq) : Touches(p) = ObjectsOf(ItemOf(sq, p))
      BY DEF Touches, ItemOf
    <2>2. q \in made[o] /\ r \in made[o]
      BY <1>1, <2>1 DEF HealthyInv, Single
    <2>3. o \in Objects
      <3>1. ItemOf(sq, q) \in Items
        BY <1>1, FutureType, SoundQueue DEF HealthyInv, TypeInv, ItemOf, Live
      <3> QED
        BY <2>1, <3>1, ObjIds
    <2> QED
      BY <1>1, <2>2, <2>3 DEF HealthyInv, Single
  <1> QED
    BY <1>1, HealthyInvariance, PTL

-----------------------------------------------------------------------------
(* Dependencies on what is neither queued nor in flight arise in one way only: an
   object is created in a folder whose id the queue does not know, and the creation
   is skipped after it was entered in waiting_response.  As long as objects are
   created in folders that the server has, there are none. *)

\* What is answered, or fails, in the end.
Attended(s, q) ==
    \/ q \in DOMAIN s.net
    \/ q \in DOMAIN s.queue /\ s.queue[q].op # "action"

Complete(s) ==
    /\ \A q \in DOMAIN s.queue : s.queue[q].op \in Creations =>
            \A id \in s.queue[q].folders : id[1] = "server"
    /\ \A r \in DOMAIN s.queue : \A q \in s.deps[r] : Attended(s, q)
    /\ \A id \in Ids : s.waiting[id] \subseteq DOMAIN s.net

LEMMA CompleteAlike ==
    ASSUME NEW s, Complete(s), NEW t, t.queue = s.queue, t.deps = s.deps,
           t.waiting = s.waiting, DOMAIN t.net = DOMAIN s.net
    PROVE  Complete(t)
  BY DEF Complete, Attended

\* No creation is skipped.
LEMMA SkippedIsNoCreation ==
    ASSUME NEW s, NEW b, Sound(s, b), Complete(s), NEW n, NEW q \in Skipped(s, n)
    PROVE  s.queue[q].op \in {"update", "action"}
  <1>1. q \in DOMAIN s.queue /\ q \notin Sendable(s) /\ q \in Ready(s)
    BY DEF Skipped, Ready
  <1>2. PICK id \in Needs(s.queue[q]) : ~ServerKnown(s, id)
    BY <1>1 DEF Sendable
  <1>3. s.queue[q].op \notin Creations
    BY <1>1, <1>2 DEF Complete, Needs, ServerKnown
  <1>4. s.queue[q] \in Items
    BY <1>1 DEF Sound, QueueType, Partial
  <1> QED
    BY <1>3, <1>4 DEF Items, Creations

LEMMA DequeueComplete ==
    ASSUME NEW s, NEW b, Sound(s, b), Complete(s), NEW n
    PROVE  Complete(Dequeue(s, n))
  <1> DEFINE t == Dequeue(s, n)
  <1>1. CASE ~s.dequeueing
    BY <1>1, DequeueStopped
  <1>2. CASE s.dequeueing
    <2>1. s.dequeueing = TRUE
      BY <1>2 DEF Sound, QueueType
    <2>2. Dequeues(s, n, t)
      BY <2>1, DequeueView
    <2> HIDE DEF t
    <2>3. /\ DOMAIN t.net = DOMAIN s.net \cup Sent(s, n)
          /\ t.waiting = WaitingAfter(s, n)
          /\ \A r \in DOMAIN t.queue :
                /\ r \in DOMAIN s.queue /\ t.queue[r] = s.queue[r]
                /\ t.deps[r] = s.deps[r]
                /\ \A q \in s.deps[r] \cap (DOMAIN s.queue \ DOMAIN t.queue) :
                        q \in Sent(s, n) \/ q \in Skipped(s, n)
                /\ \A q \in s.deps[r] \cap Skipped(s, n) : s.queue[q].op # "update"
      BY <2>2 DEF Dequeues
    <2>4. \A q \in Skipped(s, n) : q \in DOMAIN s.queue /\ s.queue[q].op \in {"update", "action"}
      BY SkippedIsNoCreation DEF Skipped, Ready
    <2>5. Entered(s, n) = Sent(s, n)
      BY <2>4 DEF Entered, Creations
    <2>6. \A id \in Ids : t.waiting[id] \subseteq DOMAIN t.net
      BY <2>3, <2>5 DEF WaitingAfter, Complete
    <2>7. ASSUME NEW r \in DOMAIN t.queue, NEW q \in t.deps[r]
          PROVE  Attended(t, q)
      <3>1. r \in DOMAIN s.queue /\ q \in s.deps[r]
        BY <2>3
      <3>2. CASE q \in DOMAIN s.net
        BY <2>3, <3>2 DEF Attended
      <3>3. CASE q \in DOMAIN s.queue /\ s.queue[q].op # "action"
        <4>1. CASE q \in DOMAIN t.queue
          BY <2>3, <3>3, <4>1 DEF Attended
        <4>2. CASE q \notin DOMAIN t.queue
          BY <2>3, <2>4, <3>1, <3>3, <4>2 DEF Attended
        <4> QED
          BY <4>1, <4>2
      <3> QED
        BY <3>1, <3>2, <3>3 DEF Complete, Attended
    <2>8. Complete(t)
      BY <2>3, <2>6, <2>7 DEF Complete
    <2> QED
      BY <2>8 DEF t
  <1> QED
    BY <1>1, <1>2

\* What a queued item waits for stays queued or in flight while a request is settled.
LEMMA SettlesComplete ==
    ASSUME Complete(sq), NEW q \in DOMAIN sq.net, NEW t, Settles(t, q)
    PROVE  Complete(t)
  <1>1. /\ DOMAIN t.net = DOMAIN sq.net \ {q}
        /\ t.waiting = [id \in Ids |-> sq.waiting[id] \ {q}]
        /\ \A r \in DOMAIN t.queue :
            /\ r \in DOMAIN sq.queue /\ t.deps[r] = sq.deps[r] \ {q}
            /\ sq.deps[r] \cap (DOMAIN sq.queue \ DOMAIN t.queue) = {}
    BY DEF Settles
  <1>2. \A r \in DOMAIN t.queue : /\ t.queue[r].op = sq.queue[r].op
                                  /\ t.queue[r].folders = sq.queue[r].folders
    BY <1>1 DEF Settles, Recedes, Kin, Live, ItemOf
  <1>3. \A id \in Ids : t.waiting[id] \subseteq DOMAIN t.net
    BY <1>1 DEF Complete
  <1>4. ASSUME NEW r \in DOMAIN t.queue, NEW p \in t.deps[r]
        PROVE  Attended(t, p)
    BY <1>1, <1>2, <1>4 DEF Complete, Attended
  <1> QED
    BY <1>1, <1>2, <1>3, <1>4 DEF Complete

LEMMA EnqueueComplete ==
    ASSUME FoldersExist, TypeInv, Complete(sq), NEW item, Ordered(item)
    PROVE  Complete(Enqueue(sq, next, item))
  <1> DEFINE t == Enqueue(sq, next, item)
  <1>1. next \in Nat /\ Sound(sq, next) /\ item \in Items /\ QueueType(sq)
    BY BoundsAssumption DEF TypeInv, Ordered, Sound
  <1>2. /\ t.waiting = sq.waiting /\ t.net = sq.net
        /\ DOMAIN t.queue = DOMAIN sq.queue \cup {next}
        /\ t.queue[next] = Stored(sq, item)
        /\ \A q \in DOMAIN sq.queue : t.queue[q] = sq.queue[q] /\ t.deps[q] = sq.deps[q]
        /\ t.deps[next] = Dependencies(sq, next, item)
    BY <1>1, EnqueueView
  <1> HIDE DEF t
  <1>3. item.op \in Creations => \A id \in item.folders : id[1] = "server"
    BY ObjectsAssumption DEF Ordered, Creations, InFolder, IdOf, FoldersExist
  <1>4. Stored(sq, item).op = item.op /\ Stored(sq, item).folders = item.folders
    BY <1>1 DEF Stored, Items
  <1>5. \A q \in Dependencies(sq, next, item) :
            Attended(sq, q) /\ q # next
    BY <1>1, DependenciesMeans DEF Complete, Attended
  <1>6. next \notin DOMAIN sq.queue
    BY <1>1 DEF Sound
  <1>7. \A q : Attended(sq, q) => Attended(t, q)
    BY <1>2, <1>6 DEF Attended
  <1>8. Complete(t)
    BY <1>2, <1>3, <1>4, <1>5, <1>7 DEF Complete
  <1> QED
    BY <1>8 DEF t

LEMMA StartComplete ==
    ASSUME FoldersExist, NEW n \in Nat, NEW m \in Nat, NEW edits \in StartRows(n), NEW items,
           StartsWith(items, n, m, edits)
    PROVE  Complete(NewQueue(items))
  <1> DEFINE t == NewQueue(items)
  <1>1. /\ t.queue = items /\ DOMAIN t.net = {} /\ t.waiting = [id \in Ids |-> {}]
        /\ t.deps = [q \in DOMAIN items |-> Dependencies(Empty(items), q, items[q])]
    BY NewQueueFields
  <1> HIDE DEF t
  <1>2. \A q \in DOMAIN items : items[q].op \in Creations =>
            \A id \in items[q].folders : id[1] = "server"
    BY DEF StartsWith, Creations
  <1>3. \A r \in DOMAIN items : \A q \in t.deps[r] : Attended(t, q)
    BY <1>1, StartDependencies DEF Attended
  <1>4. Complete(t)
    BY <1>1, <1>2, <1>3 DEF Complete
  <1> QED
    BY <1>4 DEF t

CompleteInv == HealthyInv /\ Complete(sq)

LEMMA InitComplete ==
    ASSUME FoldersExist, Init
    PROVE  CompleteInv
  <1>1. PICK n \in 0..MaxStart : \E m \in 0..(MaxStart - n) :
            \E edits \in StartRows(n), reports \in [1..m -> Reported], linked \in BOOLEAN :
                sq = NewQueue(StartQueue(edits, reports, linked))
    BY DEF Init
  <1>2. PICK m \in 0..(MaxStart - n) :
            \E edits \in StartRows(n), reports \in [1..m -> Reported], linked \in BOOLEAN :
                sq = NewQueue(StartQueue(edits, reports, linked))
    BY <1>1
  <1>3. PICK edits \in StartRows(n), reports \in [1..m -> Reported], linked \in BOOLEAN :
            sq = NewQueue(StartQueue(edits, reports, linked))
    BY <1>2
  <1>4. n \in Nat /\ m \in Nat /\ n + m <= MaxStart
    BY BoundsAssumption
  <1>5. StartsWith(StartQueue(edits, reports, linked), n, m, edits)
    BY <1>4, StartItems
  <1>6. Complete(sq)
    BY <1>3, <1>4, <1>5, StartComplete
  <1> QED
    BY <1>6, InitHealthy DEF CompleteInv

\* What a step takes out of the queue is sent, announced to have failed, or an action.
AccountsFor(s, t) ==
    \A q \in DOMAIN s.queue \ DOMAIN t.queue :
        s.queue[q].op = "action" \/ q \in DOMAIN t.net \/ Heard(t, q)

LEMMA DequeueAccounts ==
    ASSUME NEW s, NEW b, Sound(s, b), Healthy(s, b), Complete(s), NEW n
    PROVE  AccountsFor(s, Dequeue(s, n))
  <1> DEFINE t == Dequeue(s, n)
  <1>1. CASE ~s.dequeueing
    BY <1>1, DequeueStopped DEF AccountsFor
  <1>2. CASE s.dequeueing
    <2>1. s.dequeueing = TRUE
      BY <1>2 DEF Sound, QueueType
    <2>2. Dequeues(s, n, t)
      BY <2>1, DequeueView
    <2> HIDE DEF t
    <2>3. ASSUME NEW q \in DOMAIN s.queue \ DOMAIN t.queue
          PROVE  s.queue[q].op = "action" \/ q \in DOMAIN t.net \/ Heard(t, q)
      <3>1. s.queue[q].ids # {}
        BY DEF Healthy, Live, ItemOf
      <3>2. \/ q \in Sent(s, n)
            \/ Heard(t, q)
            \/ q \in Skipped(s, n) /\ s.queue[q].op # "update"
        BY <2>2, <3>1 DEF Dequeues
      <3>3. q \in Sent(s, n) => q \in DOMAIN t.net
        BY <2>2 DEF Dequeues
      <3>4. q \in Skipped(s, n) => s.queue[q].op \in {"update", "action"}
        BY SkippedIsNoCreation
      <3> QED
        BY <3>2, <3>3, <3>4
    <2>4. AccountsFor(s, t)
      BY <2>3 DEF AccountsFor
    <2> QED
      BY <2>4 DEF t
  <1> QED
    BY <1>1, <1>2

\* Told of once, told of for good.
LEMMA AccountsFurther ==
    ASSUME NEW s, NEW u, NEW t, AccountsFor(u, t), u.told \subseteq t.told,
           DOMAIN t.queue \subseteq DOMAIN u.queue,
           \A q \in DOMAIN u.queue : q \in DOMAIN s.queue => u.queue[q].op = s.queue[q].op,
           \A q \in DOMAIN s.queue \ DOMAIN u.queue : Heard(u, q)
    PROVE  AccountsFor(s, t)
  BY DEF AccountsFor, Heard

LEMMA EnqueueItemComplete ==
    ASSUME FoldersExist, CompleteInv, NEW item, Ordered(item), EnqueueItem(item)
    PROVE  Complete(sq') /\ AccountsFor(sq, sq')
  <1> DEFINE t == Enqueue(sq, next, item)
  <1>1. sq' = Dequeue(t, 1) /\ next \in QueueIds /\ next \in Nat
    BY BoundsAssumption DEF EnqueueItem, CompleteInv, HealthyInv, TypeInv, QueueIds
  <1>2. Sound(sq, next) /\ item \in Items /\ item.ids # {}
    BY OrderedHasIds DEF CompleteInv, HealthyInv, TypeInv, Ordered
  <1>3. Sound(t, next + 1) /\ Healthy(t, next + 1)
    BY <1>1, <1>2, EnqueueSound, EnqueueHealthy DEF CompleteInv, HealthyInv
  <1>4. Complete(t)
    BY EnqueueComplete DEF CompleteInv, HealthyInv
  <1>5. /\ DOMAIN t.queue = DOMAIN sq.queue \cup {next}
        /\ \A q \in DOMAIN sq.queue : t.queue[q] = sq.queue[q]
    BY <1>1, <1>2, EnqueueView
  <1> HIDE DEF t
  <1>6. Complete(sq') /\ AccountsFor(t, sq') /\ Recedes(t, sq')
    BY <1>1, <1>3, <1>4, DequeueComplete, DequeueAccounts, DequeueRecedes
  <1>7. AccountsFor(sq, sq')
    BY <1>5, <1>6, AccountsFurther DEF Recedes
  <1> QED
    BY <1>6, <1>7

LEMMA BegunComplete ==
    ASSUME CompleteInv, sq' = Dequeue(Begun, 1)
    PROVE  Complete(sq') /\ AccountsFor(sq, sq')
  <1> DEFINE t == Begun
  <1>0. sq' = Dequeue(t, 1)
    OBVIOUS
  <1>1. /\ Sound(t, next) /\ t.net = sq.net
        /\ t.queue = sq.queue /\ t.deps = sq.deps /\ t.waiting = sq.waiting
        /\ t.told = sq.told /\ t.again = sq.again /\ t.orphaned = sq.orphaned
    BY BegunFields DEF CompleteInv, HealthyInv
  <1> HIDE DEF t
  <1>2. Recedes(sq, t) /\ Live(t) = Live(sq)
    BY <1>1, StillRecedes
  <1>3. Healthy(t, next)
    <2>1. Once(t)
      BY <1>1, <1>2, OnceKept DEF CompleteInv, HealthyInv, Healthy
    <2>2. \A id \in Ids : \A q \in t.waiting[id] : q < next
      BY <1>1 DEF CompleteInv, HealthyInv, Healthy
    <2> QED
      BY <1>1, <1>2, <2>1, <2>2, RecedesHealthy DEF CompleteInv, HealthyInv
  <1>4. Complete(t)
    BY <1>1, CompleteAlike DEF CompleteInv
  <1>5. Complete(sq') /\ AccountsFor(t, sq') /\ Recedes(t, sq')
    BY <1>0, <1>1, <1>3, <1>4, DequeueComplete, DequeueAccounts, DequeueRecedes
  <1>6. AccountsFor(sq, sq')
    BY <1>1, <1>5, AccountsFurther DEF Recedes
  <1> QED
    BY <1>5, <1>6

LEMMA SettledComplete ==
    ASSUME CompleteInv, NEW q \in DOMAIN sq.net, Settled(q)
    PROVE  Complete(sq') /\ AccountsFor(sq, sq')
  <1>1. PICK t : /\ Settles(t, q)
                 /\ \/ \E n \in Nat : sq' = Dequeue(t, n)
                    \/ sq' = t
    BY DEF Settled
  <1>2. Sound(t, next) /\ Recedes(sq, t) /\ Healthy(t, next) /\ Complete(t)
    BY <1>1, SettlesHealthy, SettlesComplete DEF Settles, CompleteInv, HealthyInv
  <1>3. \A r \in DOMAIN sq.queue \ DOMAIN t.queue : Heard(t, r)
    BY <1>1 DEF Settles, CompleteInv, HealthyInv, Healthy, Live, ItemOf
  <1>4. \A r \in DOMAIN t.queue : r \in DOMAIN sq.queue => t.queue[r].op = sq.queue[r].op
    BY <1>2 DEF Recedes, Kin, Live, ItemOf
  <1>5. CASE sq' = t
    BY <1>2, <1>3, <1>5 DEF AccountsFor
  <1>6. ASSUME NEW n \in Nat, sq' = Dequeue(t, n)
        PROVE  Complete(sq') /\ AccountsFor(sq, sq')
    <2>1. Complete(sq') /\ AccountsFor(t, sq') /\ Recedes(t, sq')
      BY <1>2, <1>6, DequeueComplete, DequeueAccounts, DequeueRecedes
    <2> QED
      BY <1>3, <1>4, <2>1, AccountsFurther DEF Recedes
  <1> QED
    BY <1>1, <1>5, <1>6

LEMMA NextComplete ==
    ASSUME FoldersExist, CompleteInv, [Next]_vars
    PROVE  CompleteInv' /\ (AccountsFor(sq, sq') \/ clears' # clears)
  <1>0. HealthyInv' /\ TypeInv
    BY NextHealthy DEF CompleteInv, HealthyInv
  <1>1. CASE Enqueues
    BY <1>0, <1>1, EnqueuesOrder, EnqueueItemComplete DEF CompleteInv
  <1>2. CASE Clear
    <2>1. DOMAIN sq'.queue = {} /\ sq'.waiting = [id \in Ids |-> {}]
      BY <1>0, <1>2, ClearFields
    <2>2. Complete(sq')
      BY <2>1 DEF Complete
    <2>3. clears' # clears
      BY <1>0, <1>2 DEF Clear, TypeInv
    <2> QED
      BY <1>0, <2>2, <2>3 DEF CompleteInv
  <1>3. CASE Quiet
    <2>1. Complete(sq')
      BY <1>3, CompleteAlike DEF Quiet, CompleteInv
    <2>2. AccountsFor(sq, sq')
      BY <1>3 DEF Quiet, AccountsFor
    <2> QED
      BY <1>0, <2>1, <2>2 DEF CompleteInv
  <1>4. CASE sq' = Dequeue(Begun, 1)
    BY <1>0, <1>4, BegunComplete DEF CompleteInv
  <1>5. ASSUME NEW q \in DOMAIN sq.net, Settled(q)
        PROVE  CompleteInv' /\ (AccountsFor(sq, sq') \/ clears' # clears)
    BY <1>0, <1>5, SettledComplete DEF CompleteInv
  <1> QED
    BY <1>0, <1>1, <1>2, <1>3, <1>4, <1>5, StepsOfTheQueue

\* If objects are created only in folders that the server has, whatever a queued
\* item waits for is queued or in flight.  (Otherwise it is not: the run "folder".)
THEOREM DependenciesLive ==
    ASSUME FoldersExist
    PROVE  Spec => []DependenciesAreLive
  <1>1. Init => CompleteInv
    BY InitComplete
  <1>2. CompleteInv /\ [Next]_vars => CompleteInv'
    BY NextComplete
  <1>3. CompleteInv => DependenciesAreLive
    BY DEF CompleteInv, Complete, Attended, DependenciesAreLive
  <1> QED
    BY <1>1, <1>2, <1>3, PTL DEF Spec

\* Under the same condition a creation or an update that leaves the queue is sent
\* or announced to have failed in that very step, or forgotten by a logout.
THEOREM NoneVanishes ==
    ASSUME FoldersExist
    PROVE  Spec => NothingVanishes
  <1>1. Init => CompleteInv
    BY InitComplete
  <1>2. CompleteInv /\ [Next]_vars => CompleteInv'
    BY NextComplete
  <1>3. CompleteInv /\ [Next]_vars =>
            [\A q \in DOMAIN sq.queue \ DOMAIN sq'.queue :
                \/ sq.queue[q].op = "action" \/ q \in DOMAIN sq'.net
                \/ \E n \in sq'.told : n.item = q
                \/ clears' # clears]_vars
    BY NextComplete DEF AccountsFor, Heard
  <1> QED
    BY <1>1, <1>2, <1>3, PTL DEF Spec, NothingVanishes

-----------------------------------------------------------------------------
(* The client does not conflict with itself.  An object is innocent as long as
   nothing that ConflictsHaveACause names happened to it. *)

Edits(item, o) == item.op = "update" /\ o \in ObjectsOf(item)
Creates(item, o) == item.op \in Creations /\ o \in ObjectsOf(item)

Innocents(s, m, e) == {o \in Objects \ e : m[o] \cap s.orphaned = {}}

\* An answer carries the server's revision v of an object o, and an update that
\* waits for its answer was sent with that revision or with none.
Fits(future, v, o) ==
    /\ future.reply.answer \in {"created", "updated"} => future.reply.revs[o] = v
    /\ future.reply.answer # "rejected"
    /\ future.reply.answer = "none" /\ future.item.op = "update" => future.item.rev \in {0, v}

\* The next update of the object will be sent with the server's revision, unless
\* the answer that brings a newer one is on its way.  k is the known revision.
UpToDate(s, v, k, o) ==
    \/ \E p \in DOMAIN s.net : Edits(s.net[p].item, o) /\ s.net[p].reply.answer = "updated"
    \/ k = v /\ \A q \in DOMAIN s.queue : Edits(s.queue[q], o) => s.queue[q].rev \in {0, v}

Clean(s, v, k, o) ==
    /\ \A q \in DOMAIN s.queue :
            Edits(s.queue[q], o) /\ (o \notin Named(s) \/ o \in Folders) => s.queue[q].rev = 0
    /\ o \notin Named(s) => k = 0
    /\ o \in Named(s) => \A q \in Live(s) : ~Creates(ItemOf(s, q), o)
    /\ \A q \in DOMAIN s.net : o \in ObjectsOf(s.net[q].item) => Fits(s.net[q], v, o)
    /\ o \in Named(s) \ Folders => UpToDate(s, v, k, o)
    /\ \A e \in s.told : e.event = "rejected" => e.obj # o

\* What is queued or in flight: an update edits one object, a creation is among
\* those made, and an item of an earlier login is about objects that are excused.
Traced(s, m, f, e) ==
    \A q \in Live(s) :
        /\ ItemOf(s, q).op = "update" => \E id : ItemOf(s, q).ids = {id}
        /\ ItemOf(s, q).op \in Creations => \A o \in ObjectsOf(ItemOf(s, q)) : q \in m[o]
        /\ q >= f \/ ObjectsOf(ItemOf(s, q)) \subseteq e

\* A request gets an answer of its own kind.
Matches(future) ==
    /\ future.reply.answer \in {"created", "denied", "unique"} => future.item.op \in Creations
    /\ future.reply.answer \in {"updated", "rejected"} => future.item.op = "update"
    /\ future.reply.answer = "recorded" => future.item.op = "action"
Matched(s) == \A q \in DOMAIN s.net : Matches(s.net[q])

CauseInv ==
    /\ SerialInv /\ HealthyInv
    /\ fence <= next /\ Traced(sq, made, fence, excused) /\ Matched(sq)
    /\ \A o \in Innocents(sq, made, excused) : Clean(sq, server[o], known[o], o)

\* An item that only lost references is about the same objects.
LEMMA KinObjects ==
    ASSUME NEW x, NEW y, Kin(x, y)
    PROVE  y.op = x.op /\ y.ids = x.ids /\ ObjectsOf(y) = ObjectsOf(x)
  BY DEF Kin, ObjectsOf

\* An item that stays in a queue that recedes was Traced before.
LEMMA RecedesTraced ==
    ASSUME NEW s, NEW m, NEW f, NEW e, Traced(s, m, f, e),
           NEW t, Recedes(s, t), NEW d, e \subseteq d
    PROVE  Traced(t, m, f, d)
  <1> SUFFICES ASSUME NEW q \in Live(t)
               PROVE  /\ ItemOf(t, q).op = "update" => \E id : ItemOf(t, q).ids = {id}
                      /\ ItemOf(t, q).op \in Creations =>
                            \A o \in ObjectsOf(ItemOf(t, q)) : q \in m[o]
                      /\ q >= f \/ ObjectsOf(ItemOf(t, q)) \subseteq d
    BY DEF Traced
  <1>1. q \in Live(s) /\ Kin(ItemOf(s, q), ItemOf(t, q))
    BY DEF Recedes
  <1>2. /\ ItemOf(t, q).op = ItemOf(s, q).op /\ ItemOf(t, q).ids = ItemOf(s, q).ids
        /\ ObjectsOf(ItemOf(t, q)) = ObjectsOf(ItemOf(s, q))
    BY <1>1, KinObjects
  <1> QED
    BY <1>1, <1>2 DEF Traced

\* Of the updates of an innocent object one at most is in flight.
Alone(s, o) ==
    /\ \A q, r \in DOMAIN s.net : Edits(s.net[q].item, o) /\ Edits(s.net[r].item, o) => q = r
    /\ \A q \in DOMAIN s.net : Edits(s.net[q].item, o) => o \in Named(s)

\* The serial order of updates leaves one of them at most in flight.
LEMMA AloneInFlight ==
    ASSUME NEW s, NEW b, Sound(s, b), NEW f, Serial(s, f, Named(s)),
           NEW m, NEW e, Traced(s, m, f, e), NEW o, o \notin e
    PROVE  Alone(s, o)
  <1>1. /\ DOMAIN s.net \subseteq Nat /\ DOMAIN s.queue \cap DOMAIN s.net = {}
    BY BoundsAssumption DEF Sound, QueueType, Partial, QueueIds
  <1>2. \A q \in DOMAIN s.net : q \in Live(s) /\ ItemOf(s, q) = s.net[q].item
    BY <1>1 DEF Live, ItemOf
  <1>3. ASSUME NEW q \in DOMAIN s.net, Edits(s.net[q].item, o)
        PROVE  q \in Updates(s, f) /\ o \in Named(s)
    <2>1. q >= f
      BY <1>2, <1>3 DEF Traced, Edits
    <2> QED
      BY <1>3, <2>1 DEF Updates, Serial, Entries, Edits
  <1>4. ASSUME NEW q \in DOMAIN s.net, NEW r \in DOMAIN s.net, q < r,
               Edits(s.net[q].item, o), Edits(s.net[r].item, o)
        PROVE  FALSE
    <2>1. o \in ObjectsOf(ItemOf(s, q)) \cap ObjectsOf(ItemOf(s, r))
      BY <1>2, <1>4 DEF Edits
    <2>2. r \in DOMAIN s.queue
      BY <1>3, <1>4, <2>1 DEF Serial, InOrder
    <2> QED
      BY <1>1, <1>4, <2>2
  <1>5. \A q, r \in DOMAIN s.net : q = r \/ q < r \/ r < q
    BY <1>1
  <1> QED
    BY <1>3, <1>4, <1>5 DEF Alone

-----------------------------------------------------------------------------
(* What a step that revises nothing keeps. *)

\* Nothing new, no revision changed, no answer with a revision lost.
LEMMA CleanKept ==
    ASSUME NEW s, NEW t, NEW v, NEW k, NEW o, Clean(s, v, k, o),
           Recedes(s, t), o \in Named(t) <=> o \in Named(s),
           \A q \in DOMAIN t.queue : Edits(t.queue[q], o) => t.queue[q].rev = s.queue[q].rev,
           \A q \in DOMAIN t.net : o \in ObjectsOf(t.net[q].item) => Fits(t.net[q], v, o),
           \A q \in DOMAIN s.net :
                Edits(s.net[q].item, o) /\ s.net[q].reply.answer = "updated"
                    => q \in DOMAIN t.net /\ t.net[q] = s.net[q],
           \A e \in t.told \ s.told : e.event = "rejected" => e.obj # o
    PROVE  Clean(t, v, k, o)
  <1>1. o \in Named(t) <=> o \in Named(s)
    OBVIOUS
  <1>2. ASSUME NEW q \in Live(t)
        PROVE  /\ q \in Live(s)
               /\ Creates(ItemOf(t, q), o) <=> Creates(ItemOf(s, q), o)
    <2>1. q \in Live(s) /\ Kin(ItemOf(s, q), ItemOf(t, q))
      BY DEF Recedes
    <2> QED
      BY <2>1, KinObjects DEF Creates
  <1>3. ASSUME NEW q \in DOMAIN t.queue
        PROVE  /\ q \in DOMAIN s.queue
               /\ Edits(t.queue[q], o) <=> Edits(s.queue[q], o)
    <2>1. q \in DOMAIN s.queue /\ q \in Live(t)
      BY DEF Recedes, Live
    <2>2. Kin(s.queue[q], t.queue[q])
      BY <2>1 DEF Recedes, ItemOf
    <2> QED
      BY <2>1, <2>2, KinObjects DEF Edits
  <1>4. UpToDate(s, v, k, o) => UpToDate(t, v, k, o)
    BY <1>3 DEF UpToDate
  <1>5. \A q \in DOMAIN t.queue :
            Edits(t.queue[q], o) /\ (o \notin Named(t) \/ o \in Folders) => t.queue[q].rev = 0
    BY <1>1, <1>3 DEF Clean
  <1>6. o \in Named(t) => \A q \in Live(t) : ~Creates(ItemOf(t, q), o)
    BY <1>1, <1>2 DEF Clean
  <1>7. \A e \in t.told : e.event = "rejected" => e.obj # o
    BY DEF Clean
  <1>8. (o \notin Named(t) => k = 0) /\ (o \in Named(t) \ Folders => UpToDate(t, v, k, o))
    BY <1>1, <1>4 DEF Clean
  <1> QED
    BY <1>5, <1>6, <1>7, <1>8 DEF Clean

\* A dequeue sends items as they are queued; the update it sends is the only one in flight.
LEMMA DequeueClean ==
    ASSUME NEW s, NEW b, Sound(s, b), NEW v, NEW k, NEW o, Clean(s, v, k, o), NEW n,
           Alone(Dequeue(s, n), o)
    PROVE  Clean(Dequeue(s, n), v, k, o)
  <1> DEFINE t == Dequeue(s, n)
  <1>0. QueueType(s) /\ DOMAIN s.queue \cap DOMAIN s.net = {}
    BY DEF Sound
  <1>1. CASE s.dequeueing # TRUE
    BY <1>0, <1>1, DequeueStopped DEF QueueType
  <1>2. CASE s.dequeueing = TRUE
    <2>1. Dequeues(s, n, t)
      BY <1>2, DequeueView
    <2>2. Created(t) = Created(s)
      BY <1>0, DequeueCreated
    <2> HIDE DEF t
    <2>3. Named(t) = Named(s)
      BY <2>2, BornOfCreated
    <2>4. /\ Recedes(s, t)
          /\ DOMAIN t.net = DOMAIN s.net \cup Sent(s, n)
          /\ \A q \in Sent(s, n) :
                t.net[q] = [item |-> s.queue[q], tries |-> 0, reply |-> NoReply]
          /\ \A q \in DOMAIN s.net : t.net[q] = s.net[q]
          /\ \A q \in DOMAIN t.queue : t.queue[q] = s.queue[q]
          /\ \A e \in t.told \ s.told : e.event # "rejected"
          /\ Sent(s, n) \subseteq DOMAIN s.queue
      BY <2>1 DEF Dequeues, Ready
    <2>5. ASSUME NEW q \in Sent(s, n), o \in ObjectsOf(t.net[q].item)
          PROVE  Fits(t.net[q], v, o)
      <3>0. t.net[q] = [item |-> s.queue[q], tries |-> 0, reply |-> NoReply]
        BY <2>4
      <3>1. t.net[q].item = s.queue[q] /\ t.net[q].reply.answer = "none"
        BY <3>0 DEF NoReply
      <3>2. ASSUME s.queue[q].op = "update" PROVE s.queue[q].rev \in {0, v}
        <4>1. Edits(s.queue[q], o) /\ Edits(t.net[q].item, o) /\ q \in DOMAIN t.net
          BY <2>4, <2>5, <3>1, <3>2 DEF Edits
        <4>2. o \in Named(s)
          BY <2>3, <4>1 DEF Alone, t
        <4>3. q \in DOMAIN s.queue
          BY <2>4
        <4>4. CASE o \in Folders
          BY <4>1, <4>3, <4>4 DEF Clean
        <4>5. CASE o \notin Folders
          <5>1. UpToDate(s, v, k, o)
            BY <4>2, <4>5 DEF Clean
          <5>2. \A p \in DOMAIN s.net : ~Edits(s.net[p].item, o)
            BY <1>0, <2>4, <4>1, <4>3 DEF Alone, t
          <5> QED
            BY <4>1, <4>3, <5>1, <5>2 DEF UpToDate
        <4> QED
          BY <4>4, <4>5
      <3> QED
        BY <3>1, <3>2 DEF Fits
    <2>6. \A q \in DOMAIN t.net : o \in ObjectsOf(t.net[q].item) => Fits(t.net[q], v, o)
      BY <2>4, <2>5 DEF Clean
    <2>7. Clean(t, v, k, o)
      BY <2>3, <2>4, <2>6, CleanKept
    <2> QED
      BY <2>7 DEF t
  <1> QED
    BY <1>1, <1>2

\* A request that was just sent has no answer yet.
LEMMA DequeueMatched ==
    ASSUME NEW s, NEW b, Sound(s, b), Matched(s), NEW n
    PROVE  Matched(Dequeue(s, n))
  <1> DEFINE t == Dequeue(s, n)
  <1>1. CASE s.dequeueing # TRUE
    BY <1>1, DequeueStopped DEF Sound, QueueType
  <1>2. CASE s.dequeueing = TRUE
    <2>1. Dequeues(s, n, t)
      BY <1>2, DequeueView
    <2> HIDE DEF t
    <2>2. ASSUME NEW q \in DOMAIN t.net PROVE Matches(t.net[q])
      <3>1. CASE q \in Sent(s, n)
        <4>0. t.net[q] = [item |-> s.queue[q], tries |-> 0, reply |-> NoReply]
          BY <2>1, <3>1 DEF Dequeues
        <4>1. t.net[q].reply.answer = "none"
          BY <4>0 DEF NoReply
        <4> QED
          BY <4>1 DEF Matches
      <3>2. CASE q \in DOMAIN s.net
        BY <2>1, <3>2 DEF Dequeues, Matched
      <3> QED
        BY <2>1, <3>1, <3>2 DEF Dequeues
    <2> QED
      BY <2>2 DEF Matched, t
  <1> QED
    BY <1>1, <1>2

-----------------------------------------------------------------------------
(* A request is settled. *)

\* Nothing is revised.
Mild(t, q) ==
    /\ Settles(t, q) /\ Created(t) = Created(sq)
    /\ \A r \in DOMAIN t.queue : t.queue[r] = sq.queue[r]
    /\ \A e \in t.told \ sq.told : e.event = "rejected" =>
            e.obj \in ItsObjects(q) /\ sq.net[q].reply.answer = "rejected"

LEMMA MildClean ==
    ASSUME NEW q \in DOMAIN sq.net, NEW t, Mild(t, q), NEW v, NEW k, NEW o, Clean(sq, v, k, o),
           o \in ItsObjects(q) => sq.net[q].reply.answer # "updated"
    PROVE  Clean(t, v, k, o)
  <1>1. /\ Recedes(sq, t) /\ DOMAIN t.net = DOMAIN sq.net \ {q}
        /\ \A r \in DOMAIN t.net : t.net[r] = sq.net[r]
    BY DEF Mild, Settles
  <1>2. Named(t) = Named(sq)
    BY BornOfCreated DEF Mild
  <1>3. \A r \in DOMAIN t.net : o \in ObjectsOf(t.net[r].item) => Fits(t.net[r], v, o)
    BY <1>1 DEF Clean
  <1>4. \A r \in DOMAIN sq.net :
            Edits(sq.net[r].item, o) /\ sq.net[r].reply.answer = "updated"
                => r \in DOMAIN t.net /\ t.net[r] = sq.net[r]
    BY <1>1 DEF Edits, ItsObjects
  <1>5. \A e \in t.told \ sq.told : e.event = "rejected" => e.obj # o
    BY DEF Mild, Clean, Fits, ItsObjects
  <1> QED
    BY <1>1, <1>2, <1>3, <1>4, <1>5, CleanKept DEF Mild

LEMMA ToldOfMeans ==
    ASSUME NEW q, NEW event
    PROVE  \A e \in ToldOf(q, event) : e.item = q /\ e.event = event /\ e.obj \in ItsObjects(q)
  BY NotifyMeans DEF ToldOf, ItsObjects

LEMMA FailureMild ==
    ASSUME TypeInv, NEW q \in DOMAIN sq.net, NEW event \in Events \ {"created", "rejected"}
    PROVE  Mild(Tell(Fail(Taken(q), {q}), ToldOf(q, event)), q)
  <1> DEFINE s == Taken(q)
             X == {q}
             f == Fail(s, X)
             N == ToldOf(q, event)
             t == Tell(f, N)
  <1>1. IsQueue(sq) /\ Sound(sq, next)
    BY SoundQueue DEF TypeInv
  <1>2. Settles(t, q)
    BY <1>1, FailureSettles DEF ToldOf
  <1>3. IsQueue(s) /\ s.queue = sq.queue /\ s.told = sq.told
    BY <1>1, TakenFields
  <1>4. Sound(s, next)
    BY TakenSound
  <1>5. \A e \in N : e.event # "rejected"
    BY ToldOfMeans
  <1>6. IsQueue(f) => Created(t) = Created(f)
    BY TellCreated DEF ToldOf
  <1> HIDE DEF s, N, X
  <1>7. IsQueue(f) /\ Created(f) = Created(s)
    BY <1>3, FailFields, FailCreated
  <1>8. /\ \A r \in DOMAIN f.queue : f.queue[r] = s.queue[r]
        /\ \A e \in f.told \ s.told : e.event # "rejected"
    BY <1>4, FailView
  <1> HIDE DEF f
  <1>9. t.queue = f.queue /\ t.told = f.told \cup N
    BY <1>7, TellFields
  <1>10. Created(t) = Created(sq)
    BY <1>3, <1>6, <1>7 DEF Created
  <1> HIDE DEF t
  <1>11. Mild(t, q)
    BY <1>2, <1>3, <1>5, <1>8, <1>9, <1>10 DEF Mild
  <1> QED
    BY <1>11 DEF t, f, s, N, X

\* The dependents are released, the queue is what it was.
LEMMA ReleaseMild ==
    ASSUME NEW q \in DOMAIN sq.net, NEW t, Settles(t, q), t.queue = sq.queue,
           NEW event, t.told = sq.told \cup ToldOf(q, event), event # "created",
           event = "rejected" => sq.net[q].reply.answer = "rejected"
    PROVE  Mild(t, q)
  <1>1. \A e \in ToldOf(q, event) : e.event = event /\ e.obj \in ItsObjects(q)
    BY ToldOfMeans
  <1>2. Created(t) = Created(sq)
    BY <1>1 DEF Created
  <1> QED
    BY <1>1, <1>2 DEF Mild

\* An update is revised if and only if it edits one of the objects; folders have no
\* revision.
LEMMA ReviseOne ==
    ASSUME NEW s, NEW item \in Items, NEW o, Edits(item, o),
           \A id \in item.ids : Obj(id) = o, NEW objs, NEW revs
    PROVE  /\ o \notin objs => Revise(s, item, objs, revs).rev = item.rev
           /\ o \in Folders => Revise(s, item, objs, revs).rev = item.rev
           /\ o \in objs /\ o \notin Folders /\ (\A id \in item.ids : ServerKnown(s, id)) =>
                Revise(s, item, objs, revs).rev = revs[o]
  <1> DEFINE R == Revised(s, item, objs)
  <1>1. item.op = "update" /\ item.ids # {}
    BY DEF Edits, ObjectsOf
  <1>2. /\ o \notin objs \/ o \in Folders => R = {}
        /\ o \in objs /\ o \notin Folders /\ (\A id \in item.ids : ServerKnown(s, id)) =>
                R = item.ids
    BY <1>1 DEF Revised
  <1>3. ASSUME R = item.ids PROVE Revise(s, item, objs, revs).rev = revs[o]
    <2>1. Obj(CHOOSE id \in R : TRUE) = o
      BY <1>1, <1>3
    <2>2. Revise(s, item, objs, revs) = [item EXCEPT !.rev = revs[o]]
      BY <1>1, <1>3, <2>1 DEF Revise
    <2> QED
      BY <2>2 DEF Items
  <1>4. ASSUME R = {} PROVE Revise(s, item, objs, revs) = item
    BY <1>4 DEF Revise
  <1> QED
    BY <1>2, <1>3, <1>4

\* Every queued update of the object has the server's revision.
LEMMA RevisedClean ==
    ASSUME NEW q \in DOMAIN sq.net, NEW t, Settles(t, q), NEW v, NEW k, NEW o,
           Clean(sq, v, k, o), o \in Named(t),
           \A r \in Live(t) : ~Creates(ItemOf(t, r), o),
           \A r \in DOMAIN t.queue : Edits(t.queue[r], o) =>
                t.queue[r].rev = IF o \in Folders THEN 0 ELSE v,
           \A e \in t.told \ sq.told : e.event # "rejected"
    PROVE  Clean(t, v, v, o)
  <1>1. \A r \in DOMAIN t.net : r \in DOMAIN sq.net /\ t.net[r] = sq.net[r]
    BY DEF Settles
  <1>2. \A r \in DOMAIN t.net : o \in ObjectsOf(t.net[r].item) => Fits(t.net[r], v, o)
    BY <1>1 DEF Clean
  <1>3. \A e \in t.told : e.event = "rejected" => e.obj # o
    BY DEF Clean
  <1>4. o \notin Folders => UpToDate(t, v, v, o)
    BY DEF UpToDate
  <1> QED
    BY <1>2, <1>3, <1>4 DEF Clean

\* What the invariant says of an innocent object.
LEMMA InnocentMeans ==
    ASSUME CauseInv, NEW o \in Innocents(sq, made, excused)
    PROVE  /\ TypeInv /\ Clean(sq, server[o], known[o], o) /\ Alone(sq, o)
           /\ o \in Objects /\ o \notin excused
           /\ \A q, r \in Live(sq) :
                Creates(ItemOf(sq, q), o) /\ Creates(ItemOf(sq, r), o) => q = r
  <1>1. TypeInv /\ Clean(sq, server[o], known[o], o) /\ o \in Objects /\ o \notin excused
    BY DEF CauseInv, SerialInv, Innocents
  <1>2. Alone(sq, o)
    BY <1>1, AloneInFlight DEF CauseInv, SerialInv, TypeInv
  <1>3. made[o] \cap sq.orphaned = {}
    BY DEF Innocents
  <1>4. \A q \in Live(sq) : Creates(ItemOf(sq, q), o) => q \in made[o]
    BY DEF CauseInv, Traced, Creates
  <1>5. \A q, r \in (made[o] \cap Live(sq)) \ sq.orphaned : q = r
    BY <1>1 DEF CauseInv, HealthyInv, Single
  <1> QED
    BY <1>1, <1>2, <1>3, <1>4, <1>5

\* A request in flight is a live item, its own.
LEMMA InFlight ==
    ASSUME TypeInv, NEW q \in DOMAIN sq.net
    PROVE  q \in Live(sq) /\ q \notin DOMAIN sq.queue /\ ItemOf(sq, q) = sq.net[q].item
  BY DEF TypeInv, Sound, Live, ItemOf

\* A queued update names the object it edits by an id the server is known to know, if any.
LEMMA QueuedUpdate ==
    ASSUME CauseInv, NEW r \in DOMAIN sq.queue, NEW o, Edits(sq.queue[r], o)
    PROVE  /\ sq.queue[r] \in Items
           /\ \A id \in sq.queue[r].ids :
                Obj(id) = o /\ (o \in Named(sq) => ServerKnown(sq, id))
  <1>1. sq.queue[r] \in Items
    BY SoundQueue DEF CauseInv, SerialInv, TypeInv
  <1>2. r \in Live(sq) /\ ItemOf(sq, r) = sq.queue[r]
    BY DEF Live, ItemOf
  <1>3. PICK one : sq.queue[r].ids = {one}
    BY <1>2 DEF CauseInv, Traced, Edits
  <1>4. Obj(one) = o /\ one \in sq.queue[r].ids
    BY <1>3 DEF Edits, ObjectsOf
  <1>5. one[1] \in {"client", "server"}
    BY <1>1, <1>4 DEF Items, Ids
  <1>6. one[1] = "client" /\ o \in Named(sq) => o \in sq.mapped
    BY <1>4 DEF CauseInv, SerialInv, Serial, Naming, Edits
  <1> QED
    BY <1>1, <1>3, <1>4, <1>5, <1>6 DEF ServerKnown

\* The answer to an update of the object brings the revision to all that wait.
LEMMA UpdatedClean ==
    ASSUME CauseInv, NEW q \in DOMAIN sq.net, sq.net[q].reply.answer = "updated",
           NEW o \in Innocents(sq, made, excused), o \in ItsObjects(q)
    PROVE  LET t == Tell(NewRevision(Released(q), ItsObjects(q), ItsRevisions(q)),
                         ToldOf(q, "updated"))
           IN  Clean(t, ItsRevisions(q)[o], ItsRevisions(q)[o], o)
  <1> DEFINE s == Released(q)
             t == Tell(NewRevision(s, ItsObjects(q), ItsRevisions(q)), ToldOf(q, "updated"))
             v == ItsRevisions(q)[o]
  <1>1. TypeInv /\ Clean(sq, server[o], known[o], o) /\ Alone(sq, o)
    BY InnocentMeans
  <1>2. sq.net[q].item.op = "update"
    BY DEF CauseInv, Matched, Matches
  <1>3. v = server[o] /\ o \in Named(sq)
    BY <1>1, <1>2 DEF Clean, Fits, ItsObjects, ItsRevisions, Alone, Edits
  <1>4. /\ Settles(t, q) /\ t.queue = RevisedQueue(s, ItsObjects(q), ItsRevisions(q))
        /\ t.told = sq.told \cup ToldOf(q, "updated")
    BY <1>1, UpdatedSettles DEF Events
  <1>5. s.queue = sq.queue /\ s.mapped = sq.mapped
    BY <1>1, ReleasedFields
  <1> HIDE DEF s, t, v
  <1>6. Recedes(sq, t)
    BY <1>4 DEF Settles
  <1>7. o \in Named(t)
    BY <1>3, <1>6 DEF Named, Born, Recedes
  <1>8. \A r \in Live(t) : ~Creates(ItemOf(t, r), o)
    BY <1>1, <1>3, <1>6, KinObjects DEF Recedes, Creates, Clean
  <1>9. ASSUME NEW r \in DOMAIN t.queue, Edits(t.queue[r], o)
        PROVE  t.queue[r].rev = IF o \in Folders THEN 0 ELSE v
    <2>1. /\ r \in DOMAIN sq.queue
          /\ t.queue[r] = Revise(s, sq.queue[r], ItsObjects(q), ItsRevisions(q))
      BY <1>4, <1>5 DEF RevisedQueue
    <2>2. sq.queue[r] \in Items
      BY <1>1, <2>1, SoundQueue DEF TypeInv
    <2>3. Edits(sq.queue[r], o)
      BY <1>9, <2>1, <2>2, ReviseKin, KinObjects DEF Edits
    <2>4. \A id \in sq.queue[r].ids : Obj(id) = o /\ ServerKnown(sq, id)
      BY <1>3, <2>1, <2>3, QueuedUpdate
    <2>5. \A id \in sq.queue[r].ids : ServerKnown(s, id)
      BY <1>5, <2>4 DEF ServerKnown
    <2>6. o \in Folders => sq.queue[r].rev = 0
      BY <1>1, <2>1, <2>3 DEF Clean
    <2>7. /\ o \in Folders => t.queue[r].rev = sq.queue[r].rev
          /\ o \notin Folders => t.queue[r].rev = ItsRevisions(q)[o]
      BY <2>1, <2>2, <2>3, <2>4, <2>5, ReviseOne
    <2> QED
      BY <2>6, <2>7 DEF v
  <1>10. \A e \in t.told \ sq.told : e.event # "rejected"
    BY <1>4, ToldOfMeans
  <1>11. Clean(t, v, v, o)
    BY <1>1, <1>3, <1>4, <1>7, <1>8, <1>9, <1>10, RevisedClean
  <1> QED
    BY <1>11 DEF t, s, v

\* The answer to an update of another object.
LEMMA UpdatedElsewhere ==
    ASSUME CauseInv, NEW q \in DOMAIN sq.net, sq.net[q].reply.answer = "updated",
           NEW o \in Innocents(sq, made, excused), o \notin ItsObjects(q)
    PROVE  LET t == Tell(NewRevision(Released(q), ItsObjects(q), ItsRevisions(q)),
                         ToldOf(q, "updated"))
           IN  Clean(t, server[o], known[o], o)
  <1> DEFINE s == Released(q)
             t == Tell(NewRevision(s, ItsObjects(q), ItsRevisions(q)), ToldOf(q, "updated"))
  <1>1. TypeInv /\ Clean(sq, server[o], known[o], o)
    BY InnocentMeans
  <1>2. /\ Settles(t, q) /\ t.queue = RevisedQueue(s, ItsObjects(q), ItsRevisions(q))
        /\ t.told = sq.told \cup ToldOf(q, "updated")
    BY <1>1, UpdatedSettles DEF Events
  <1>3. s.queue = sq.queue
    BY <1>1, ReleasedFields
  <1> HIDE DEF s, t
  <1>4. \A e \in t.told \ sq.told : e.event = "updated"
    BY <1>2, ToldOfMeans
  <1>5. Named(t) = Named(sq)
    <2>1. Created(t) = Created(sq)
      BY <1>2, <1>4 DEF Created
    <2> QED
      BY <2>1, BornOfCreated
  <1>6. ASSUME NEW r \in DOMAIN t.queue, Edits(t.queue[r], o)
        PROVE  t.queue[r].rev = sq.queue[r].rev
    <2>1. /\ r \in DOMAIN sq.queue
          /\ t.queue[r] = Revise(s, sq.queue[r], ItsObjects(q), ItsRevisions(q))
      BY <1>2, <1>3 DEF RevisedQueue
    <2>2. sq.queue[r] \in Items
      BY <1>1, <2>1, SoundQueue DEF TypeInv
    <2>3. Edits(sq.queue[r], o)
      BY <1>6, <2>1, <2>2, ReviseKin, KinObjects DEF Edits
    <2>4. \A id \in sq.queue[r].ids : Obj(id) = o
      BY <2>1, <2>3, QueuedUpdate
    <2> QED
      BY <2>1, <2>2, <2>3, <2>4, ReviseOne
  <1>7. /\ Recedes(sq, t) /\ DOMAIN t.net = DOMAIN sq.net \ {q}
        /\ \A r \in DOMAIN t.net : t.net[r] = sq.net[r]
    BY <1>2 DEF Settles
  <1>8. \A r \in DOMAIN t.net : o \in ObjectsOf(t.net[r].item) => Fits(t.net[r], server[o], o)
    BY <1>1, <1>7 DEF Clean
  <1>9. \A r \in DOMAIN sq.net :
            Edits(sq.net[r].item, o) /\ sq.net[r].reply.answer = "updated"
                => r \in DOMAIN t.net /\ t.net[r] = sq.net[r]
    BY <1>7 DEF Edits, ItsObjects
  <1>10. \A e \in t.told \ sq.told : e.event # "rejected"
    BY <1>4
  <1>11. Clean(t, server[o], known[o], o)
    BY <1>1, <1>5, <1>6, <1>7, <1>8, <1>9, <1>10, CleanKept
  <1> QED
    BY <1>11 DEF t, s

\* What CreationSucceeds does to a queued update: it is revised, and may be resolved.
LEMMA AnsweredUpdate ==
    ASSUME CauseInv, NEW q \in DOMAIN sq.net,
           NEW r \in DOMAIN Answer(q).queue, NEW o, Edits(Answer(q).queue[r], o)
    PROVE  /\ r \in DOMAIN sq.queue /\ Edits(sq.queue[r], o)
           /\ o \notin ItsObjects(q) \/ o \in Folders =>
                Answer(q).queue[r].rev = sq.queue[r].rev
           /\ o \in ItsObjects(q) \ Folders => Answer(q).queue[r].rev = ItsRevisions(q)[o]
  <1> DEFINE t == Answer(q)
             d == Satisfy(Mapped(q), q)
  <1>0. TypeInv
    BY DEF CauseInv, SerialInv
  <1>1. /\ DOMAIN t.queue = DOMAIN sq.queue
        /\ \A p \in DOMAIN sq.queue :
             \/ t.queue[p] = Revise(d, sq.queue[p], ItsObjects(q), ItsRevisions(q))
             \/ t.queue[p] = Revise(d, Resolve(sq.queue[p], ItsObjects(q)),
                                    ItsObjects(q), ItsRevisions(q))
        /\ d.mapped = sq.mapped \cup ItsObjects(q)
    BY <1>0, AnswerFields
  <1> HIDE DEF t, d
  <1>2. r \in DOMAIN sq.queue
    BY <1>1 DEF t
  <1>3. PICK item \in {sq.queue[r], Resolve(sq.queue[r], ItsObjects(q))} :
            t.queue[r] = Revise(d, item, ItsObjects(q), ItsRevisions(q))
    BY <1>1, <1>2
  <1>4. sq.queue[r] \in Items
    BY <1>0, <1>2, SoundQueue DEF TypeInv
  <1>5. /\ item \in Items /\ item.op = sq.queue[r].op /\ item.ids = sq.queue[r].ids
        /\ item.rev = sq.queue[r].rev
    <2>1. Resolve(sq.queue[r], ItsObjects(q)) \in Items
      BY <1>4, ResolveType
    <2> QED
      BY <1>3, <1>4, <2>1 DEF Resolve, Items
  <1>6. Kin(item, t.queue[r])
    BY <1>3, <1>5, ReviseKin
  <1>7. Edits(t.queue[r], o)
    BY DEF t
  <1>8. Edits(item, o) /\ Edits(sq.queue[r], o)
    <2>1. Edits(item, o)
      BY <1>6, <1>7, KinObjects DEF Edits
    <2> QED
      BY <1>5, <2>1 DEF Edits, ObjectsOf
  <1>9. \A id \in item.ids : Obj(id) = o
    BY <1>2, <1>5, <1>8, QueuedUpdate
  <1>10. o \in ItsObjects(q) => \A id \in item.ids : ServerKnown(d, id)
    BY <1>1, <1>9 DEF ServerKnown
  <1>11. /\ o \notin ItsObjects(q) => t.queue[r].rev = item.rev
         /\ o \in Folders => t.queue[r].rev = item.rev
         /\ o \in ItsObjects(q) /\ o \notin Folders => t.queue[r].rev = ItsRevisions(q)[o]
    BY <1>3, <1>5, <1>8, <1>9, <1>10, ReviseOne
  <1> QED
    BY <1>2, <1>5, <1>8, <1>11 DEF t

\* The answer to the creation of the object names it and brings its first revision.
LEMMA CreatedClean ==
    ASSUME CauseInv, NEW q \in DOMAIN sq.net, sq.net[q].reply.answer = "created",
           NEW o \in Innocents(sq, made, excused), o \in ItsObjects(q)
    PROVE  Clean(Tell(Answer(q), ToldOf(q, "created")),
                 ItsRevisions(q)[o], ItsRevisions(q)[o], o)
  <1> DEFINE t == Tell(Answer(q), ToldOf(q, "created"))
             v == ItsRevisions(q)[o]
  <1>1. /\ TypeInv /\ Clean(sq, server[o], known[o], o) /\ o \in Objects
        /\ \A p, r \in Live(sq) :
                Creates(ItemOf(sq, p), o) /\ Creates(ItemOf(sq, r), o) => p = r
    BY InnocentMeans
  <1>2. q \in Live(sq) /\ q \notin DOMAIN sq.queue /\ ItemOf(sq, q) = sq.net[q].item
    BY <1>1, InFlight
  <1>3. Creates(ItemOf(sq, q), o)
    BY <1>2 DEF CauseInv, Matched, Matches, Creates, ItsObjects
  <1>4. o \notin Named(sq) /\ v = server[o]
    BY <1>1, <1>2, <1>3 DEF Clean, Fits, ItsObjects, ItsRevisions
  <1>5. /\ Settles(t, q) /\ t.queue = Answer(q).queue
        /\ t.told = sq.told \cup ToldOf(q, "created")
    BY <1>1, CreatedSettles DEF Events
  <1> HIDE DEF t, v
  <1>6. /\ Recedes(sq, t) /\ DOMAIN t.net = DOMAIN sq.net \ {q}
        /\ DOMAIN t.queue \subseteq DOMAIN sq.queue
    BY <1>5 DEF Settles, Recedes
  <1>7. o \in Named(t)
    <2>1. [item |-> q, obj |-> o, event |-> "created"] \in ToldOf(q, "created")
      BY DEF ToldOf, Notify, ItsObjects
    <2> QED
      BY <1>1, <1>5, <2>1 DEF Named, Born
  <1>8. ASSUME NEW r \in Live(t), Creates(ItemOf(t, r), o)
        PROVE  FALSE
    <2>1. r \in Live(sq) /\ Kin(ItemOf(sq, r), ItemOf(t, r)) /\ r # q
      BY <1>2, <1>6 DEF Recedes, Live
    <2>2. Creates(ItemOf(sq, r), o)
      BY <1>8, <2>1, KinObjects DEF Creates
    <2> QED
      BY <1>1, <1>2, <1>3, <2>1, <2>2
  <1>9. ASSUME NEW r \in DOMAIN t.queue, Edits(t.queue[r], o)
        PROVE  t.queue[r].rev = IF o \in Folders THEN 0 ELSE v
    <2>1. /\ r \in DOMAIN sq.queue /\ Edits(sq.queue[r], o)
          /\ o \in Folders => t.queue[r].rev = sq.queue[r].rev
          /\ o \notin Folders => t.queue[r].rev = ItsRevisions(q)[o]
      BY <1>5, <1>9, AnsweredUpdate
    <2> QED
      BY <1>1, <1>4, <2>1 DEF Clean, v
  <1>10. \A e \in t.told \ sq.told : e.event # "rejected"
    BY <1>5, ToldOfMeans
  <1>11. Clean(t, v, v, o)
    BY <1>1, <1>4, <1>5, <1>7, <1>8, <1>9, <1>10, RevisedClean
  <1> QED
    BY <1>11 DEF t, v

\* The answer to the creation of another object.
LEMMA CreatedElsewhere ==
    ASSUME CauseInv, NEW q \in DOMAIN sq.net, sq.net[q].reply.answer = "created",
           NEW o \in Innocents(sq, made, excused), o \notin ItsObjects(q)
    PROVE  Clean(Tell(Answer(q), ToldOf(q, "created")), server[o], known[o], o)
  <1> DEFINE t == Tell(Answer(q), ToldOf(q, "created"))
  <1>1. TypeInv /\ Clean(sq, server[o], known[o], o)
    BY InnocentMeans
  <1>2. /\ Settles(t, q) /\ t.queue = Answer(q).queue
        /\ t.told = sq.told \cup ToldOf(q, "created")
    BY <1>1, CreatedSettles DEF Events
  <1> HIDE DEF t
  <1>3. \A e \in t.told \ sq.told : e.event # "rejected" /\ e.obj # o
    BY <1>2, ToldOfMeans
  <1>4. o \in Named(t) <=> o \in Named(sq)
    BY <1>2, <1>3 DEF Named, Born
  <1>5. \A r \in DOMAIN t.queue : Edits(t.queue[r], o) => t.queue[r].rev = sq.queue[r].rev
    BY <1>2, AnsweredUpdate
  <1>6. /\ Recedes(sq, t) /\ DOMAIN t.net = DOMAIN sq.net \ {q}
        /\ \A r \in DOMAIN t.net : t.net[r] = sq.net[r]
    BY <1>2 DEF Settles
  <1>7. \A r \in DOMAIN t.net : o \in ObjectsOf(t.net[r].item) => Fits(t.net[r], server[o], o)
    BY <1>1, <1>6 DEF Clean
  <1>8. \A r \in DOMAIN sq.net :
            Edits(sq.net[r].item, o) /\ sq.net[r].reply.answer = "updated"
                => r \in DOMAIN t.net /\ t.net[r] = sq.net[r]
    BY <1>6 DEF Edits, ItsObjects
  <1>9. Clean(t, server[o], known[o], o)
    BY <1>1, <1>3, <1>4, <1>5, <1>6, <1>7, <1>8, CleanKept
  <1> QED
    BY <1>9 DEF t

\* Clean looks at the queue, the requests and what was told.
LEMMA CleanAlike ==
    ASSUME NEW s, NEW t, t.queue = s.queue, t.net = s.net, t.told = s.told,
           NEW v, NEW k, NEW o, Clean(s, v, k, o)
    PROVE  Clean(t, v, k, o)
  <1>1. Named(t) = Named(s) /\ Live(t) = Live(s)
    BY DEF Named, Born, Live
  <1>2. \A q : ItemOf(t, q) = ItemOf(s, q)
    BY DEF ItemOf
  <1>3. UpToDate(s, v, k, o) => UpToDate(t, v, k, o)
    BY DEF UpToDate
  <1> QED
    BY <1>1, <1>2, <1>3 DEF Clean

\* The callback of a creation.
LEMMA CreationSucceedsClean ==
    ASSUME CauseInv, NEW q \in QueueIds, CreationSucceeds(q),
           NEW o \in Innocents(sq, made, excused), Alone(sq', o)
    PROVE  Clean(sq', server'[o], known'[o], o)
  <1> DEFINE t == Tell(Answer(q), ToldOf(q, "created"))
             n == Cardinality(ItsObjects(q))
  <1>1. /\ q \in DOMAIN sq.net /\ sq.net[q].reply.answer = "created"
        /\ server' = server /\ Learn(ItsObjects(q), ItsRevisions(q))
        /\ sq' = Dequeue(t, n)
    BY DEF CreationSucceeds, Answered, Answer, Mapped, Replaced, ToldOf, ItsObjects,
           ItsRevisions
  <1>2. /\ TypeInv /\ Clean(sq, server[o], known[o], o) /\ o \in Objects
    BY InnocentMeans
  <1>3. Sound(t, next)
    BY <1>1, <1>2, CreatedSettles DEF Events, Settles
  <1>4. Clean(t, server[o], known'[o], o)
    <2>1. CASE o \in ItsObjects(q)
      <3>1. known'[o] = ItsRevisions(q)[o]
        BY <1>1, <1>2, <2>1 DEF Learn
      <3>2. server[o] = ItsRevisions(q)[o]
        BY <1>1, <1>2, <2>1 DEF Clean, Fits, ItsObjects, ItsRevisions
      <3>3. Clean(t, ItsRevisions(q)[o], ItsRevisions(q)[o], o)
        BY <1>1, <2>1, CreatedClean
      <3> QED
        BY <3>1, <3>2, <3>3
    <2>2. CASE o \notin ItsObjects(q)
      <3>1. known'[o] = known[o]
        BY <1>1, <1>2, <2>2 DEF Learn
      <3> QED
        BY <1>1, <2>2, <3>1, CreatedElsewhere
    <2> QED
      BY <2>1, <2>2
  <1> HIDE DEF t, n
  <1>5. Clean(Dequeue(t, n), server[o], known'[o], o)
    BY <1>1, <1>3, <1>4, DequeueClean
  <1> QED
    BY <1>1, <1>5

\* The callback of an update.
LEMMA UpdateSucceedsClean ==
    ASSUME CauseInv, NEW q \in QueueIds, UpdateSucceeds(q),
           NEW o \in Innocents(sq, made, excused), Alone(sq', o)
    PROVE  Clean(sq', server'[o], known'[o], o)
  <1> DEFINE t == Tell(NewRevision(Released(q), ItsObjects(q), ItsRevisions(q)),
                       ToldOf(q, "updated"))
  <1>1. /\ q \in DOMAIN sq.net /\ sq.net[q].reply.answer = "updated"
        /\ server' = server /\ Learn(ItsObjects(q), ItsRevisions(q))
        /\ sq' = Dequeue(t, 1)
    BY DEF UpdateSucceeds, Answered, Released, ToldOf, ItsObjects, ItsRevisions
  <1>2. /\ TypeInv /\ Clean(sq, server[o], known[o], o) /\ o \in Objects
    BY InnocentMeans
  <1>3. Sound(t, next)
    BY <1>1, <1>2, UpdatedSettles DEF Events, Settles
  <1>4. Clean(t, server[o], known'[o], o)
    <2>1. CASE o \in ItsObjects(q)
      <3>1. known'[o] = ItsRevisions(q)[o]
        BY <1>1, <1>2, <2>1 DEF Learn
      <3>2. server[o] = ItsRevisions(q)[o]
        BY <1>1, <1>2, <2>1 DEF Clean, Fits, ItsObjects, ItsRevisions
      <3>3. Clean(t, ItsRevisions(q)[o], ItsRevisions(q)[o], o)
        BY <1>1, <2>1, UpdatedClean
      <3> QED
        BY <3>1, <3>2, <3>3
    <2>2. CASE o \notin ItsObjects(q)
      <3>1. known'[o] = known[o]
        BY <1>1, <1>2, <2>2 DEF Learn
      <3> QED
        BY <1>1, <2>2, <3>1, UpdatedElsewhere
    <2> QED
      BY <2>1, <2>2
  <1> HIDE DEF t
  <1>5. Clean(Dequeue(t, 1), server[o], known'[o], o)
    BY <1>1, <1>3, <1>4, DequeueClean
  <1> QED
    BY <1>1, <1>5

\* The other answers, and a request that failed for good, revise nothing.
LEMMA MildStep ==
    ASSUME CauseInv, NEW q \in DOMAIN sq.net, NEW t, Mild(t, q),
           NEW o \in Innocents(sq, made, excused), Alone(sq', o),
           o \in ItsObjects(q) => sq.net[q].reply.answer # "updated",
           \/ sq' = Dequeue(t, 1)
           \/ sq'.queue = t.queue /\ sq'.net = t.net /\ sq'.told = t.told,
           server' = server, known'[o] = known[o]
    PROVE  Clean(sq', server'[o], known'[o], o)
  <1>1. Clean(sq, server[o], known[o], o)
    BY InnocentMeans
  <1>2. Clean(t, server[o], known[o], o)
    BY <1>1, MildClean
  <1>3. Sound(t, next)
    BY DEF Mild, Settles
  <1>4. CASE sq' = Dequeue(t, 1)
    <2>1. Clean(Dequeue(t, 1), server[o], known[o], o)
      BY <1>2, <1>3, <1>4, DequeueClean
    <2> QED
      BY <1>4, <2>1
  <1>5. CASE sq'.queue = t.queue /\ sq'.net = t.net /\ sq'.told = t.told
    <2>1. Clean(sq', server[o], known[o], o)
      BY <1>2, <1>5, CleanAlike
    <2> QED
      BY <2>1
  <1> QED
    BY <1>4, <1>5

LEMMA OtherResponsesClean ==
    ASSUME CauseInv, NEW q \in QueueIds,
           \/ CreationDenied(q) \/ CreationConflicts(q)
           \/ UpdateRejected(q) \/ ActionRecorded(q),
           NEW o \in Innocents(sq, made, excused), Alone(sq', o)
    PROVE  Clean(sq', server'[o], known'[o], o)
  <1>0. /\ TypeInv /\ Clean(sq, server[o], known[o], o) /\ o \in Objects
    BY InnocentMeans
  <1>1. q \in DOMAIN sq.net /\ sq.net[q].reply.answer # "updated" /\ server' = server
    BY DEF CreationDenied, CreationConflicts, UpdateRejected, ActionRecorded, Answered
  <1>2. CASE CreationDenied(q)
    <2> DEFINE t == Tell(Released(q), ToldOf(q, "denied"))
    <2>1. sq' = Dequeue(t, 1) /\ known' = known
      BY <1>2 DEF CreationDenied, Released, ToldOf
    <2>2. /\ Settles(t, q) /\ t.queue = sq.queue
          /\ t.told = sq.told \cup ToldOf(q, "denied")
      BY <1>0, <1>1, ReleasedSettles DEF Events
    <2> HIDE DEF t
    <2>3. Mild(t, q)
      BY <1>1, <2>2, ReleaseMild
    <2> QED
      BY <1>1, <2>1, <2>3, MildStep
  <1>3. CASE CreationConflicts(q)
    <2> DEFINE t == Tell(Fail(Taken(q), {q}), ToldOf(q, "createFailed"))
    <2>1. sq' = Dequeue(t, 1) /\ known' = known
      BY <1>3 DEF CreationConflicts, ToldOf
    <2>2. Mild(t, q)
      BY <1>0, <1>1, FailureMild DEF Events
    <2> HIDE DEF t
    <2> QED
      BY <1>1, <2>1, <2>2, MildStep
  <1>4. CASE UpdateRejected(q)
    <2> DEFINE t == Satisfy(Tell(Taken(q), ToldOf(q, "rejected")), q)
    <2>1. /\ sq' = Dequeue(t, 1) /\ sq.net[q].reply.answer = "rejected"
          /\ Learn(ItsObjects(q), ItsRevisions(q)) \/ known' = known
      BY <1>4 DEF UpdateRejected, Answered, ToldOf, ItsObjects, ItsRevisions
    <2>2. /\ Settles(t, q) /\ t.queue = sq.queue
          /\ t.told = sq.told \cup ToldOf(q, "rejected")
      BY <1>0, <1>1, RejectedSettles DEF Events
    <2> HIDE DEF t
    <2>3. Mild(t, q)
      BY <1>1, <2>1, <2>2, ReleaseMild
    <2>4. o \notin ItsObjects(q)
      BY <1>0, <1>1, <2>1 DEF Clean, Fits, ItsObjects
    <2>5. known'[o] = known[o]
      BY <1>0, <2>1, <2>4 DEF Learn
    <2> QED
      BY <1>1, <2>1, <2>3, <2>5, MildStep
  <1>5. CASE ActionRecorded(q)
    <2> DEFINE t == Tell(Released(q), ToldOf(q, "recorded"))
    <2>1. sq' = Dequeue(t, 1) /\ known' = known
      BY <1>5 DEF ActionRecorded, Released, ToldOf
    <2>2. /\ Settles(t, q) /\ t.queue = sq.queue
          /\ t.told = sq.told \cup ToldOf(q, "recorded")
      BY <1>0, <1>1, ReleasedSettles DEF Events
    <2> HIDE DEF t
    <2>3. Mild(t, q)
      BY <1>1, <2>2, ReleaseMild
    <2> QED
      BY <1>1, <2>1, <2>3, MildStep
  <1> QED
    BY <1>2, <1>3, <1>4, <1>5

\* The objects of a request that failed although the server had answered it are
\* excused.
LEMMA RequestFailedClean ==
    ASSUME CauseInv, NEW q \in QueueIds, NEW persistent \in BOOLEAN,
           RequestFailed(q, persistent),
           NEW o \in Innocents(sq, made, excused), o \notin excused', Alone(sq', o)
    PROVE  Clean(sq', server'[o], known'[o], o)
  <1> DEFINE item == sq.net[q].item
             t == Tell(Fail(Taken(q), {q}), ToldOf(q, FailureOf(item)))
             u == [t EXCEPT !.stalled = TRUE]
  <1>0. TypeInv
    BY InnocentMeans
  <1>1. /\ q \in DOMAIN sq.net /\ server' = server /\ known' = known
        /\ sq' = IF persistent THEN u ELSE Dequeue(t, 1)
        /\ o \in ItsObjects(q) => sq.net[q].reply.answer # "updated"
    BY DEF RequestFailed, AttemptLost, ToldOf, ItsObjects
  <1>2. FailureOf(item) \in Events \ {"created", "rejected"}
    BY DEF FailureOf, Events
  <1>3. Mild(t, q)
    BY <1>0, <1>1, <1>2, FailureMild
  <1> HIDE DEF t, item
  <1>4. CASE persistent
    <2>1. u.queue = t.queue /\ u.net = t.net /\ u.told = t.told
      <3>1. IsQueue(t)
        BY <1>3, SoundQueue DEF Mild, Settles
      <3> QED
        BY <3>1 DEF IsQueue, Fields
    <2>2. sq' = u
      BY <1>1, <1>4
    <2> HIDE DEF u
    <2> QED
      BY <1>1, <1>3, <2>1, <2>2, MildStep
  <1>5. CASE ~persistent
    BY <1>1, <1>3, <1>5, MildStep
  <1> QED
    BY <1>4, <1>5

-----------------------------------------------------------------------------
(* The server, and the steps that leave the queue alone. *)

\* A quiet step is one of a queue that recedes.
LEMMA QuietRecedes ==
    ASSUME TypeInv, Quiet
    PROVE  Recedes(sq, sq')
  <1> DEFINE t == sq'
  <1>1. /\ t.queue = sq.queue /\ t.deps = sq.deps /\ t.told = sq.told
        /\ t.orphaned = sq.orphaned /\ DOMAIN t.net = DOMAIN sq.net
        /\ \A q \in DOMAIN sq.net : t.net[q].item = sq.net[q].item
    BY DEF Quiet
  <1> HIDE DEF t
  <1>2. Live(t) = Live(sq)
    BY <1>1 DEF Live
  <1>3. \A q \in Live(sq) : ItemOf(t, q) = ItemOf(sq, q)
    BY <1>1 DEF ItemOf, Live
  <1>4. Recedes(sq, t)
    BY <1>1, <1>2, <1>3 DEF Recedes, Kin
  <1> QED
    BY <1>4 DEF t

\* A future changes: v is the server's revision afterwards.
LEMMA FutureClean ==
    ASSUME TypeInv, NEW v, NEW k, NEW o, Clean(sq, v, k, o),
           NEW q \in DOMAIN sq.net, NEW future, future.item = sq.net[q].item,
           sq' = WithFuture(q, future),
           o \in ItsObjects(q) =>
                Fits(future, v, o) /\ sq.net[q].reply.answer # "updated"
    PROVE  Clean(sq', v, k, o)
  <1> DEFINE t == sq'
  <1>1. IsQueue(sq)
    BY SoundQueue DEF TypeInv
  <1>2. /\ t.net = [sq.net EXCEPT ![q] = future]
        /\ t.queue = sq.queue /\ t.told = sq.told
    BY <1>1, WithFutureFields
  <1>3. Recedes(sq, t)
    BY FutureIsQuiet, QuietRecedes
  <1> HIDE DEF t
  <1>4. Named(t) = Named(sq)
    BY <1>2 DEF Named, Born
  <1>5. \A r \in DOMAIN t.net : o \in ObjectsOf(t.net[r].item) => Fits(t.net[r], v, o)
    BY <1>2 DEF Clean, ItsObjects
  <1>6. \A r \in DOMAIN sq.net :
            Edits(sq.net[r].item, o) /\ sq.net[r].reply.answer = "updated"
                => r \in DOMAIN t.net /\ t.net[r] = sq.net[r]
    BY <1>2 DEF Edits, ItsObjects
  <1>7. Clean(t, v, k, o)
    BY <1>2, <1>3, <1>4, <1>5, <1>6, CleanKept
  <1> QED
    BY <1>7 DEF t

\* A creation or an update of an innocent object is the only one in flight.
LEMMA OnlyRequest ==
    ASSUME CauseInv, NEW o \in Innocents(sq, made, excused),
           NEW q \in DOMAIN sq.net, o \in ItsObjects(q), sq.net[q].item.op # "action",
           NEW r \in DOMAIN sq.net, r # q, o \in ItsObjects(r), NEW w
    PROVE  Fits(sq.net[r], w, o)
  <1>1. /\ TypeInv /\ Clean(sq, server[o], known[o], o) /\ Alone(sq, o)
        /\ \A p, u \in Live(sq) :
                Creates(ItemOf(sq, p), o) /\ Creates(ItemOf(sq, u), o) => p = u
    BY InnocentMeans
  <1>2. \A p \in DOMAIN sq.net :
            /\ p \in Live(sq) /\ ItemOf(sq, p) = sq.net[p].item
            /\ sq.net[p].item.op \in {"create", "bulk", "update", "action"}
    BY <1>1, InFlight, FutureType DEF Items
  <1>3. \A p \in DOMAIN sq.net : o \in ItsObjects(p) /\ sq.net[p].item.op # "action" =>
            \/ Edits(sq.net[p].item, o) /\ o \in Named(sq)
            \/ Creates(sq.net[p].item, o) /\ o \notin Named(sq)
    BY <1>1, <1>2 DEF Edits, Creates, Creations, ItsObjects, Alone, Clean
  <1>4. sq.net[r].item.op = "action"
    BY <1>1, <1>2, <1>3 DEF Alone
  <1>5. sq.net[r].reply.answer \notin {"created", "updated", "rejected"}
    BY <1>4 DEF CauseInv, Matched, Matches, Creations
  <1> QED
    BY <1>4, <1>5 DEF Fits

\* The server answers a creation or an update of the object with the revision w.
LEMMA AnsweredClean ==
    ASSUME CauseInv, NEW o \in Innocents(sq, made, excused),
           NEW q \in DOMAIN sq.net, o \in ItsObjects(q), sq.net[q].item.op # "action",
           NEW future, future.item = sq.net[q].item, sq' = WithFuture(q, future),
           NEW w, Fits(future, w, o),
           o \in Named(sq) => Edits(future.item, o) /\ future.reply.answer = "updated"
    PROVE  Clean(sq', w, known[o], o)
  <1> DEFINE t == sq'
  <1>0. TypeInv /\ Clean(sq, server[o], known[o], o)
    BY InnocentMeans
  <1>1. IsQueue(sq)
    BY <1>0, SoundQueue DEF TypeInv
  <1>2. /\ t.net = [sq.net EXCEPT ![q] = future]
        /\ t.queue = sq.queue /\ t.told = sq.told
    BY <1>1, WithFutureFields
  <1> HIDE DEF t
  <1>3. Named(t) = Named(sq)
    BY <1>2 DEF Named, Born
  <1>4. Live(t) = Live(sq) /\ \A r \in Live(t) : ItemOf(t, r) = ItemOf(sq, r)
    BY <1>2 DEF Live, ItemOf
  <1>5. \A r \in DOMAIN t.net : o \in ObjectsOf(t.net[r].item) => Fits(t.net[r], w, o)
    BY <1>2, OnlyRequest DEF ItsObjects
  <1>6. o \in Named(t) => UpToDate(t, w, known[o], o)
    BY <1>2, <1>3 DEF UpToDate
  <1>7. Clean(t, w, known[o], o)
    BY <1>0, <1>2, <1>3, <1>4, <1>5, <1>6 DEF Clean
  <1> QED
    BY <1>7 DEF t

\* What the server replies is a future with the same item.
LEMMA ReplyMeans ==
    ASSUME TypeInv, NEW q \in DOMAIN sq.net, NEW answer, NEW revisions,
           Reply(q, answer, revisions)
    PROVE  \E future :
                /\ sq' = WithFuture(q, future) /\ future.item = sq.net[q].item
                /\ future.reply.answer = answer
                /\ \A o \in Objects : o \in ItsObjects(q) =>
                        future.reply.revs[o] = revisions[o]
                /\ server' = revisions /\ known' = known
  <1> DEFINE reply == [answer |-> answer, revs |-> [o \in Objects |->
                IF o \in ObjectsOf(sq.net[q].item) THEN revisions[o] ELSE 0]]
             future == [sq.net[q] EXCEPT !.reply = reply]
  <1>1. sq' = WithFuture(q, future) /\ server' = revisions /\ known' = known
    BY DEF Reply, WithFuture
  <1>2. future.item = sq.net[q].item /\ future.reply = reply
    <2> HIDE DEF reply
    <2> QED
      BY FutureType DEF Futures
  <1>3. reply.answer = answer /\
            \A o \in Objects : o \in ItsObjects(q) => reply.revs[o] = revisions[o]
    BY DEF ItsObjects
  <1> HIDE DEF future, reply
  <1> QED
    BY <1>1, <1>2, <1>3

\* The server handles a request, heard or not.
LEMMA ServerClean ==
    ASSUME CauseInv, NEW q \in QueueIds, ServerHandles(q),
           NEW o \in Innocents(sq, made, excused)
    PROVE  Clean(sq', server'[o], known'[o], o)
  <1>0. /\ TypeInv /\ Clean(sq, server[o], known[o], o) /\ Alone(sq, o) /\ o \in Objects
    BY InnocentMeans
  <1>1. q \in DOMAIN sq.net /\ sq.net[q].reply.answer = "none"
    BY DEF ServerHandles, ServerCreates, ServerRefuses, ServerUpdates, ServerRecords, Pending
  <1>2. q \in Live(sq) /\ q \notin DOMAIN sq.queue /\ ItemOf(sq, q) = sq.net[q].item
    BY <1>0, <1>1, InFlight
  \* The revision of the object stays, and the answer is neither stale nor a rejection.
  <1>3. ASSUME NEW answer, NEW revisions, Reply(q, answer, revisions),
               revisions[o] = server[o],
               o \in ItsObjects(q) => answer \notin {"none", "rejected"}
        PROVE  Clean(sq', server'[o], known'[o], o)
    <2>1. PICK future :
                /\ sq' = WithFuture(q, future) /\ future.item = sq.net[q].item
                /\ future.reply.answer = answer
                /\ \A p \in Objects : p \in ItsObjects(q) =>
                        future.reply.revs[p] = revisions[p]
                /\ server' = revisions /\ known' = known
      BY <1>0, <1>1, <1>3, ReplyMeans
    <2>2. o \in ItsObjects(q) => Fits(future, server[o], o)
      BY <1>0, <1>3, <2>1 DEF Fits
    <2>3. Clean(sq', server[o], known[o], o)
      BY <1>0, <1>1, <2>1, <2>2, FutureClean
    <2> QED
      BY <1>3, <2>1, <2>3
  <1>4. CASE ServerCreates(q)
    <2> DEFINE revisions == [p \in Objects |->
                    IF p \in ObjectsOf(sq.net[q].item) /\ server[p] = 0 THEN 1 ELSE server[p]]
    <2>1. Reply(q, "created", revisions) /\ sq.net[q].item.op \in Creations
      BY <1>4 DEF ServerCreates
    <2>2. CASE o \in ItsObjects(q)
      <3>1. o \notin Named(sq)
        BY <1>0, <1>2, <2>1, <2>2 DEF Clean, Creates, ItsObjects
      <3> HIDE DEF revisions
      <3>2. PICK future :
                /\ sq' = WithFuture(q, future) /\ future.item = sq.net[q].item
                /\ future.reply.answer = "created"
                /\ \A p \in Objects : p \in ItsObjects(q) =>
                        future.reply.revs[p] = revisions[p]
                /\ server' = revisions /\ known' = known
        BY <1>0, <1>1, <2>1, ReplyMeans
      <3>3. Fits(future, revisions[o], o)
        BY <1>0, <2>2, <3>2 DEF Fits
      <3>4. sq.net[q].item.op # "action"
        BY <2>1 DEF Creations
      <3>5. Clean(sq', revisions[o], known[o], o)
        BY <1>1, <2>2, <3>1, <3>2, <3>3, <3>4, AnsweredClean
      <3> QED
        BY <3>2, <3>5
    <2>3. CASE o \notin ItsObjects(q)
      <3>1. revisions[o] = server[o]
        BY <1>0, <2>3 DEF ItsObjects
      <3> HIDE DEF revisions
      <3> QED
        BY <1>3, <2>1, <2>3, <3>1
    <2> QED
      BY <2>2, <2>3
  <1>5. ASSUME NEW answer \in Denials, ServerRefuses(q, answer)
        PROVE  Clean(sq', server'[o], known'[o], o)
    <2>1. answer \notin {"none", "rejected"}
      BY BoundsAssumption
    <2> QED
      BY <1>3, <1>5, <2>1 DEF ServerRefuses
  <1>6. CASE ServerUpdates(q)
    <2> DEFINE revisions == [p \in Objects |->
                    IF p \in ObjectsOf(sq.net[q].item) THEN server[p] + 1 ELSE server[p]]
    <2>1. /\ sq.net[q].item.op = "update"
          /\ \/ Current(sq.net[q].item) /\ Reply(q, "updated", revisions)
             \/ ~Current(sq.net[q].item) /\ Reply(q, "rejected", server)
      BY <1>6 DEF ServerUpdates
    <2>2. CASE o \in ItsObjects(q)
      <3>1. Edits(sq.net[q].item, o)
        BY <2>1, <2>2 DEF Edits, ItsObjects
      <3>2. sq.net[q].item.rev \in {0, server[o]}
        BY <1>0, <1>1, <2>1, <2>2 DEF Clean, Fits, ItsObjects
      <3>3. Current(sq.net[q].item)
        <4>1. PICK one : sq.net[q].item.ids = {one}
          BY <1>2, <2>1 DEF CauseInv, Traced
        <4>2. \A p \in ObjectsOf(sq.net[q].item) : p = o
          BY <2>2, <4>1 DEF ObjectsOf, ItsObjects
        <4> QED
          BY <3>2, <4>2 DEF Current
      <3> HIDE DEF revisions
      <3>4. PICK future :
                /\ sq' = WithFuture(q, future) /\ future.item = sq.net[q].item
                /\ future.reply.answer = "updated"
                /\ \A p \in Objects : p \in ItsObjects(q) =>
                        future.reply.revs[p] = revisions[p]
                /\ server' = revisions /\ known' = known
        BY <1>0, <1>1, <2>1, <3>3, ReplyMeans
      <3>5. Fits(future, revisions[o], o)
        BY <1>0, <2>2, <3>4 DEF Fits
      <3>6. Clean(sq', revisions[o], known[o], o)
        BY <1>1, <2>1, <2>2, <3>1, <3>4, <3>5, AnsweredClean
      <3> QED
        BY <3>4, <3>6
    <2>3. CASE o \notin ItsObjects(q)
      <3>1. revisions[o] = server[o]
        BY <1>0, <2>3 DEF ItsObjects
      <3> HIDE DEF revisions
      <3> QED
        BY <1>3, <2>1, <2>3, <3>1
    <2> QED
      BY <2>2, <2>3
  <1>7. CASE ServerRecords(q)
    BY <1>3, <1>7 DEF ServerRecords
  <1> QED
    BY <1>4, <1>5, <1>6, <1>7 DEF ServerHandles

\* A request is sent again after its answer was lost.
LEMMA RetryClean ==
    ASSUME CauseInv, NEW q \in QueueIds, RetryRequest(q),
           NEW o \in Innocents(sq, made, excused), o \notin excused'
    PROVE  Clean(sq', server'[o], known'[o], o)
  <1> DEFINE future == [sq.net[q] EXCEPT !.tries = @ + 1, !.reply = NoReply]
  <1>0. /\ TypeInv /\ Clean(sq, server[o], known[o], o)
    BY InnocentMeans
  <1>1. /\ q \in DOMAIN sq.net /\ server' = server /\ known' = known
        /\ o \in ItsObjects(q) => sq.net[q].reply.answer \notin {"created", "updated"}
    BY DEF RetryRequest, AttemptLost, ItsObjects
  <1>2. sq' = WithFuture(q, future)
    BY <1>0, <1>1, FutureType
       DEF RetryRequest, WithFuture, TypeInv, Sound, QueueType, Partial
  <1>3. future.item = sq.net[q].item /\ future.reply.answer = "none"
    BY <1>0, <1>1, FutureType DEF Futures, NoReply
  <1> HIDE DEF future
  <1>4. ASSUME o \in ItsObjects(q) PROVE Fits(future, server[o], o)
    <2>1. Fits(sq.net[q], server[o], o)
      BY <1>0, <1>1, <1>4 DEF Clean, ItsObjects
    <2>2. sq.net[q].item.op = "update" => sq.net[q].reply.answer = "none"
      <3>1. sq.net[q].reply.answer \in Answers
        BY <1>0, <1>1, FutureType
      <3>2. Matches(sq.net[q])
        BY <1>1 DEF CauseInv, Matched
      <3> QED
        BY <1>1, <1>4, <2>1, <3>1, <3>2 DEF Answers, Matches, Fits, Creations
    <2> QED
      BY <1>3, <2>1, <2>2 DEF Fits
  <1>5. Clean(sq', server[o], known[o], o)
    BY <1>0, <1>1, <1>2, <1>3, <1>4, FutureClean
  <1> QED
    BY <1>1, <1>5

-----------------------------------------------------------------------------
(* UpdateManager, the start, and a logout. *)

LEMMA OrderedMeans ==
    ASSUME NEW item, Ordered(item)
    PROVE  /\ item \in Items
           /\ \A o : Creates(item, o) => o \notin Named(sq)
           /\ \A o : Edits(item, o) => item.rev = IF o \in Folders THEN 0 ELSE known[o]
           /\ item.op = "update" => \E id : item.ids = {id}
  <1>1. \A o : Obj(IdOf(o)) = o
    BY DEF IdOf, Obj
  <1>2. \A o \in Objects : Creatable(o) => o \notin Named(sq)
    BY DEF Creatable, IdOf, Told, Named, Born
  <1>3. ASSUME NEW o, Creates(item, o) PROVE o \notin Named(sq)
    <2>1. PICK objs \in SUBSET Objects :
            item.ids = {"client"} \X objs /\ \A p \in objs : Creatable(p)
      BY <1>3 DEF Ordered, Creates, Creations
    <2>2. o \in objs
      BY <1>3, <2>1 DEF Creates, ObjectsOf, Obj
    <2> QED
      BY <1>2, <2>1, <2>2
  <1>4. ASSUME item.op = "update"
        PROVE  /\ \E id : item.ids = {id}
               /\ \A o : Edits(item, o) => item.rev = IF o \in Folders THEN 0 ELSE known[o]
    <2>1. PICK p \in Objects :
            item.ids = {IdOf(p)} /\ item.rev = IF p \in Folders THEN 0 ELSE known[p]
      BY <1>4 DEF Ordered, Creations
    <2>2. \A o : Edits(item, o) => o = p
      BY <1>1, <2>1 DEF Edits, ObjectsOf
    <2> QED
      BY <2>1, <2>2
  <1> QED
    BY <1>3, <1>4 DEF Ordered, Edits

\* A new item is made with the known revision.
LEMMA EnqueueItemClean ==
    ASSUME CauseInv, NEW item, Ordered(item), EnqueueItem(item),
           NEW o \in Innocents(sq, made, excused), Alone(sq', o)
    PROVE  Clean(sq', server'[o], known'[o], o)
  <1> DEFINE t == Enqueue(sq, next, item)
             v == server[o]
             k == known[o]
  <1>0. /\ TypeInv /\ Clean(sq, v, k, o)
    BY InnocentMeans
  <1>1. /\ sq' = Dequeue(t, 1) /\ server' = server /\ known' = known
        /\ next \in QueueIds /\ next \in Nat
    BY <1>0, BoundsAssumption DEF EnqueueItem, TypeInv, QueueIds
  <1>2. /\ item \in Items
        /\ Creates(item, o) => o \notin Named(sq)
        /\ Edits(item, o) => item.rev = IF o \in Folders THEN 0 ELSE k
    BY OrderedMeans
  <1>3. Sound(sq, next) /\ IsQueue(sq) /\ next \notin Live(sq)
    BY <1>0, <1>1, SoundQueue DEF TypeInv, Sound, Live
  <1>4. Sound(t, next + 1)
    BY <1>1, <1>2, <1>3, EnqueueSound
  <1>5. Created(t) = Created(sq)
    BY <1>3, EnqueueCreated
  <1>6. /\ t.net = sq.net
        /\ DOMAIN t.queue = DOMAIN sq.queue \cup {next} /\ t.queue[next] = Stored(sq, item)
        /\ \A q \in DOMAIN sq.queue : t.queue[q] = sq.queue[q]
        /\ Live(t) = Live(sq) \cup {next}
        /\ \A q \in Live(sq) : ItemOf(t, q) = ItemOf(sq, q)
        /\ ItemOf(t, next) = Stored(sq, item)
        /\ \A e \in t.told \ sq.told : e.item = next /\ e.event \in Failures
    BY <1>1, <1>2, <1>3, EnqueueView
  <1>7. /\ Stored(sq, item).rev = item.rev
        /\ Edits(Stored(sq, item), o) <=> Edits(item, o)
        /\ Creates(Stored(sq, item), o) <=> Creates(item, o)
    BY <1>2 DEF Stored, Items, Edits, Creates, ObjectsOf
  <1> HIDE DEF t, v, k
  <1>8. Named(t) = Named(sq)
    BY <1>5, BornOfCreated
  <1>9. \A q \in DOMAIN t.queue :
            Edits(t.queue[q], o) /\ (o \notin Named(t) \/ o \in Folders) => t.queue[q].rev = 0
    BY <1>0, <1>2, <1>6, <1>7, <1>8 DEF Clean
  <1>10. o \in Named(t) => \A q \in Live(t) : ~Creates(ItemOf(t, q), o)
    BY <1>0, <1>2, <1>6, <1>7, <1>8 DEF Clean
  <1>11. o \in Named(t) \ Folders => UpToDate(t, v, k, o)
    BY <1>0, <1>2, <1>6, <1>7, <1>8 DEF Clean, UpToDate
  <1>12. \A e \in t.told : e.event = "rejected" => e.obj # o
    BY <1>0, <1>6 DEF Clean, Failures
  <1>13. Clean(t, v, k, o)
    BY <1>0, <1>6, <1>8, <1>9, <1>10, <1>11, <1>12 DEF Clean
  <1>14. Clean(Dequeue(t, 1), v, k, o)
    BY <1>1, <1>4, <1>13, DequeueClean
  <1> QED
    BY <1>1, <1>14 DEF v, k

\* The queue is started or stopped, or is cleared at logout.
LEMMA ControlClean ==
    ASSUME CauseInv, StopDequeueing \/ StartDequeueing \/ Clear,
           NEW o \in Innocents(sq, made, excused), o \notin excused', Alone(sq', o)
    PROVE  Clean(sq', server'[o], known'[o], o)
  <1> DEFINE v == server[o]
             k == known[o]
  <1>0. /\ TypeInv /\ Clean(sq, v, k, o) /\ IsQueue(sq)
    BY InnocentMeans, SoundQueue DEF TypeInv
  <1>1. server' = server /\ known' = known
    BY DEF StopDequeueing, StartDequeueing, Clear
  <1> HIDE DEF v, k
  <1>2. CASE StopDequeueing
    <2>1. sq'.queue = sq.queue /\ sq'.net = sq.net /\ sq'.told = sq.told
      BY <1>2, <1>0 DEF StopDequeueing, IsQueue, Fields
    <2>2. Clean(sq', v, k, o)
      BY <1>0, <2>1, CleanAlike
    <2> QED
      BY <1>1, <2>2 DEF v, k
  <1>3. CASE StartDequeueing
    <2> DEFINE t == Begun
    <2>1. sq' = Dequeue(t, 1)
      BY <1>3 DEF StartDequeueing, Begun
    <2>2. Sound(t, next) /\ t.queue = sq.queue /\ t.net = sq.net /\ t.told = sq.told
      BY <1>0, BegunFields
    <2> HIDE DEF t
    <2>3. Clean(t, v, k, o)
      BY <1>0, <2>2, CleanAlike
    <2>4. Clean(Dequeue(t, 1), v, k, o)
      BY <2>1, <2>2, <2>3, DequeueClean
    <2> QED
      BY <1>1, <2>1, <2>4 DEF v, k
  <1>4. CASE Clear
    <2> DEFINE t == sq'
    <2>1. DOMAIN t.queue = {} /\ t.net = sq.net /\ t.told = sq.told
      BY <1>0, <1>4, ClearFields
    <2>2. \A q \in DOMAIN sq.net : o \notin ObjectsOf(sq.net[q].item)
      BY <1>4 DEF Clear
    <2> HIDE DEF t
    <2>3. Named(t) = Named(sq)
      BY <2>1 DEF Named, Born
    <2>4. \A q \in Live(t) : q \in DOMAIN sq.net /\ ItemOf(t, q) = sq.net[q].item
      BY <2>1 DEF Live, ItemOf
    <2>5. UpToDate(sq, v, k, o) => UpToDate(t, v, k, o)
      BY <2>1, <2>2 DEF UpToDate, Edits
    <2>6. Clean(t, v, k, o)
      BY <1>0, <2>1, <2>2, <2>3, <2>4, <2>5 DEF Clean, Creates
    <2> QED
      BY <1>1, <2>6 DEF t, v, k
  <1> QED
    BY <1>2, <1>3, <1>4

\* Another client updates an object, or the client learns of a revision.
LEMMA OtherClientsClean ==
    ASSUME CauseInv, NEW p \in Objects, OtherClientUpdates(p) \/ LearnRevision(p),
           NEW o \in Innocents(sq, made, excused), o \notin excused'
    PROVE  Clean(sq', server'[o], known'[o], o)
  <1>0. /\ TypeInv /\ Clean(sq, server[o], known[o], o) /\ o \in Objects
    BY InnocentMeans
  <1>1. sq' = sq /\ server'[o] = server[o]
    BY <1>0 DEF OtherClientUpdates, LearnRevision, TypeInv
  <1>2. CASE known'[o] = known[o]
    BY <1>0, <1>1, <1>2
  <1>3. CASE known'[o] # known[o]
    <2>1. LearnRevision(p) /\ p = o /\ known'[o] = server[o]
      BY <1>0, <1>3 DEF OtherClientUpdates, LearnRevision, TypeInv
    <2>2. o \in Named(sq)
      BY <2>1 DEF LearnRevision, IdOf, Told, Named, Born
    <2>3. known[o] # server[o]
      BY <2>1 DEF LearnRevision
    <2>4. UpToDate(sq, server[o], known[o], o) => UpToDate(sq, server[o], server[o], o)
      BY <2>3 DEF UpToDate
    <2>5. Clean(sq, server[o], server[o], o)
      BY <1>0, <2>2, <2>4 DEF Clean
    <2> QED
      BY <1>1, <2>1, <2>5
  <1> QED
    BY <1>2, <1>3

-----------------------------------------------------------------------------
(* Every step. *)

\* What is excused stays excused.
LEMMA ExcusesKept ==
    ASSUME [Next]_vars
    PROVE  excused \subseteq excused'
  <1>1. CASE UNCHANGED vars
    BY <1>1 DEF vars
  <1>2. CASE Enqueues
    BY <1>2 DEF Enqueues, CreateObject, BulkCreate, UpdateObject, RecordObjectAction, EnqueueItem
  <1>3. CASE StopDequeueing \/ StartDequeueing \/ Clear
    BY <1>3 DEF StopDequeueing, StartDequeueing, Clear
  <1>4. ASSUME NEW o \in Objects, OtherClientUpdates(o) \/ LearnRevision(o)
        PROVE  excused \subseteq excused'
    BY <1>4 DEF OtherClientUpdates, LearnRevision
  <1>5. ASSUME NEW q \in QueueIds, ServerHandles(q)
        PROVE  excused \subseteq excused'
    BY <1>5 DEF ServerHandles, ServerCreates, ServerRefuses, ServerUpdates, ServerRecords, Reply
  <1>6. ASSUME NEW q \in QueueIds, HandleResponse(q)
        PROVE  excused \subseteq excused'
    BY <1>6 DEF HandleResponse, CreationSucceeds, CreationDenied, CreationConflicts,
                UpdateSucceeds, UpdateRejected, ActionRecorded
  <1>7. ASSUME NEW q \in QueueIds, AttemptLost(q)
        PROVE  excused \subseteq excused'
    BY <1>7 DEF AttemptLost
  <1> QED
    BY <1>1, <1>2, <1>3, <1>4, <1>5, <1>6, <1>7 DEF Next, RetryRequest, RequestFailed

LEMMA SettledRecedes ==
    ASSUME TypeInv, Matched(sq), NEW q \in DOMAIN sq.net, Settled(q)
    PROVE  Recedes(sq, sq') /\ Matched(sq')
  <1>1. PICK t : /\ Settles(t, q)
                 /\ (\E n : sq' = Dequeue(t, n)) \/ sq' = t
    BY DEF Settled
  <1>2. Recedes(sq, t) /\ Sound(t, next) /\ Matched(t)
    BY <1>1 DEF Settles, Matched
  <1>3. ASSUME NEW n, sq' = Dequeue(t, n)
        PROVE  Recedes(sq, sq') /\ Matched(sq')
    <2> DEFINE u == Dequeue(t, n)
    <2>1. Recedes(t, u) /\ Matched(u)
      BY <1>2, DequeueRecedes, DequeueMatched
    <2>2. sq' = u
      BY <1>3
    <2> HIDE DEF u
    <2> QED
      BY <1>2, <2>1, <2>2, RecedesFurther
  <1> QED
    BY <1>1, <1>2, <1>3

LEMMA BegunRecedes ==
    ASSUME TypeInv, Matched(sq), sq' = Dequeue(Begun, 1)
    PROVE  Recedes(sq, sq') /\ Matched(sq')
  <1> DEFINE t == Begun
             u == Dequeue(t, 1)
  <1>1. /\ Sound(t, next) /\ t.net = sq.net
        /\ t.queue = sq.queue /\ t.deps = sq.deps
        /\ t.told = sq.told /\ t.orphaned = sq.orphaned
    BY BegunFields
  <1>2. sq' = u
    OBVIOUS
  <1> HIDE DEF t
  <1>3. Recedes(sq, t) /\ Matched(t)
    BY <1>1, StillRecedes DEF Matched
  <1>4. Recedes(t, u) /\ Matched(u)
    BY <1>1, <1>3, DequeueRecedes, DequeueMatched
  <1> HIDE DEF u
  <1> QED
    BY <1>2, <1>3, <1>4, RecedesFurther

LEMMA EnqueueItemTraced ==
    ASSUME CauseInv, NEW item, Ordered(item), EnqueueItem(item)
    PROVE  /\ Traced(sq', made', fence', excused') /\ Matched(sq')
           /\ sq.orphaned \subseteq sq'.orphaned
           /\ \A o \in Objects : made[o] \subseteq made'[o]
  <1> DEFINE t == Enqueue(sq, next, item)
             u == Dequeue(t, 1)
  <1>0. TypeInv
    BY DEF CauseInv, SerialInv
  <1>1. /\ sq' = u /\ fence' = fence /\ excused' = excused
        /\ next \in QueueIds /\ next \in Nat /\ fence <= next
        /\ made' = [o \in Objects |->
               IF item.op \in Creations /\ o \in ObjectsOf(item)
               THEN made[o] \cup {next} ELSE made[o]]
    BY <1>0, BoundsAssumption DEF EnqueueItem, TypeInv, QueueIds, CauseInv
  <1>2. item \in Items /\ ObjectsOf(item) \subseteq Objects
        /\ (item.op = "update" => \E id : item.ids = {id})
    BY OrderedMeans, ObjIds
  <1>3. Sound(sq, next)
    BY <1>0 DEF TypeInv
  <1>4. Sound(t, next + 1)
    BY <1>1, <1>2, <1>3, EnqueueSound
  <1>5. /\ t.net = sq.net
        /\ Live(t) = Live(sq) \cup {next}
        /\ \A q \in Live(sq) : ItemOf(t, q) = ItemOf(sq, q)
        /\ ItemOf(t, next) = Stored(sq, item)
        /\ sq.orphaned \subseteq t.orphaned
    BY <1>1, <1>2, <1>3, EnqueueView
  <1>6. /\ Stored(sq, item).op = item.op /\ Stored(sq, item).ids = item.ids
        /\ ObjectsOf(Stored(sq, item)) = ObjectsOf(item)
    BY <1>2 DEF Stored, Items, ObjectsOf
  <1> HIDE DEF t
  <1>7. Recedes(t, u)
    BY <1>4, DequeueRecedes
  <1>8. Matched(u)
    <2>1. Matched(t)
      BY <1>5 DEF CauseInv, Matched
    <2> QED
      BY <1>4, <2>1, DequeueMatched
  <1>9. \A o \in Objects : made[o] \subseteq made'[o]
    BY <1>1
  <1>10. Traced(t, made', fence, excused)
    <2>1. ASSUME NEW q \in Live(sq)
          PROVE  /\ ItemOf(t, q).op = "update" => \E id : ItemOf(t, q).ids = {id}
                 /\ ItemOf(t, q).op \in Creations =>
                        \A o \in ObjectsOf(ItemOf(t, q)) : q \in made'[o]
                 /\ q >= fence \/ ObjectsOf(ItemOf(t, q)) \subseteq excused
      <3>1. ItemOf(sq, q) \in Items
        BY <1>0, FutureType, SoundQueue DEF TypeInv, ItemOf, Live
      <3>2. ObjectsOf(ItemOf(sq, q)) \subseteq Objects
        BY <3>1, ObjIds
      <3> QED
        BY <1>5, <1>9, <3>2 DEF CauseInv, Traced
    <2>2. ASSUME NEW q \in {next}
          PROVE  /\ ItemOf(t, q).op = "update" => \E id : ItemOf(t, q).ids = {id}
                 /\ ItemOf(t, q).op \in Creations =>
                        \A o \in ObjectsOf(ItemOf(t, q)) : q \in made'[o]
                 /\ q >= fence
      <3>1. item.op \in Creations => \A o \in ObjectsOf(item) : next \in made'[o]
        BY <1>1, <1>2
      <3>2. next >= fence
        BY <1>0, <1>1 DEF TypeInv
      <3> QED
        BY <1>2, <1>5, <1>6, <3>1, <3>2
    <2> QED
      BY <1>5, <2>1, <2>2 DEF Traced
  <1> HIDE DEF u
  <1>11. Traced(u, made', fence, excused)
    BY <1>7, <1>10, RecedesTraced
  <1>12. sq.orphaned \subseteq u.orphaned
    BY <1>5, <1>7 DEF Recedes
  <1> QED
    BY <1>1, <1>8, <1>9, <1>11, <1>12

LEMMA ClearTraced ==
    ASSUME CauseInv, Clear
    PROVE  /\ Traced(sq', made', fence', excused') /\ Matched(sq')
           /\ sq'.orphaned = sq.orphaned
  <1> DEFINE t == sq'
  <1>0. TypeInv
    BY DEF CauseInv, SerialInv
  <1>1. /\ DOMAIN t.queue = {} /\ t.net = sq.net /\ t.orphaned = sq.orphaned
        /\ made' = made
    BY <1>0, ClearFields
  <1>2. \A q \in DOMAIN sq.net : ObjectsOf(sq.net[q].item) \subseteq excused'
    BY DEF Clear
  <1> HIDE DEF t
  <1>3. ASSUME NEW q \in Live(t)
        PROVE  /\ q \in DOMAIN sq.net /\ q \in Live(sq)
               /\ ItemOf(t, q) = sq.net[q].item /\ ItemOf(sq, q) = sq.net[q].item
    <2>1. q \in DOMAIN sq.net /\ ItemOf(t, q) = sq.net[q].item
      BY <1>1 DEF Live, ItemOf
    <2> QED
      BY <1>0, <2>1, InFlight
  <1>4. Traced(t, made, fence', excused')
    BY <1>2, <1>3 DEF CauseInv, Traced
  <1>5. Matched(t)
    BY <1>1 DEF CauseInv, Matched
  <1> QED
    BY <1>1, <1>4, <1>5 DEF t

LEMMA QuietMatched ==
    ASSUME TypeInv, Matched(sq), sq'.net = sq.net
    PROVE  Matched(sq')
  <1> DEFINE t == sq'
  <1>1. t.net = sq.net
    OBVIOUS
  <1> HIDE DEF t
  <1>2. Matched(t)
    BY <1>1 DEF Matched
  <1> QED
    BY <1>2 DEF t

LEMMA FutureMatched ==
    ASSUME TypeInv, Matched(sq), NEW q \in DOMAIN sq.net, NEW future, Matches(future),
           sq' = WithFuture(q, future)
    PROVE  Matched(sq')
  <1> DEFINE t == sq'
  <1>1. IsQueue(sq)
    BY SoundQueue DEF TypeInv
  <1>2. t.net = [sq.net EXCEPT ![q] = future]
    BY <1>1, WithFutureFields
  <1> HIDE DEF t
  <1>3. Matched(t)
    BY <1>2 DEF Matched
  <1> QED
    BY <1>3 DEF t

LEMMA ServerMatched ==
    ASSUME TypeInv, Matched(sq), NEW q \in QueueIds, ServerHandles(q)
    PROVE  Matched(sq')
  <1>1. PICK answer, revisions :
            /\ q \in DOMAIN sq.net /\ Reply(q, answer, revisions)
            /\ answer \in {"created", "denied", "unique"} =>
                    sq.net[q].item.op \in Creations
            /\ answer \in {"updated", "rejected"} => sq.net[q].item.op = "update"
            /\ answer = "recorded" => sq.net[q].item.op = "action"
    <2>1. CASE ServerCreates(q)
      BY <2>1 DEF ServerCreates, Pending
    <2>2. ASSUME NEW answer \in Denials, ServerRefuses(q, answer)
          PROVE  /\ q \in DOMAIN sq.net /\ Reply(q, answer, server)
                 /\ answer \in {"denied", "unique"} /\ sq.net[q].item.op \in Creations
      BY <2>2, BoundsAssumption DEF ServerRefuses, Pending
    <2>3. CASE ServerUpdates(q)
      BY <2>3 DEF ServerUpdates, Pending
    <2>4. CASE ServerRecords(q)
      BY <2>4 DEF ServerRecords, Pending
    <2>5. ASSUME NEW answer \in Denials, ServerRefuses(q, answer)
          PROVE  \E a, revisions :
                    /\ q \in DOMAIN sq.net /\ Reply(q, a, revisions)
                    /\ a \in {"created", "denied", "unique"} =>
                            sq.net[q].item.op \in Creations
                    /\ a \in {"updated", "rejected"} => sq.net[q].item.op = "update"
                    /\ a = "recorded" => sq.net[q].item.op = "action"
      BY <2>2, <2>5
    <2> QED
      BY <2>1, <2>3, <2>4, <2>5 DEF ServerHandles
  <1>2. PICK future :
            /\ sq' = WithFuture(q, future) /\ future.item = sq.net[q].item
            /\ future.reply.answer = answer
    BY <1>1, ReplyMeans
  <1>3. Matches(future)
    BY <1>1, <1>2 DEF Matches
  <1> QED
    BY <1>1, <1>2, <1>3, FutureMatched

LEMMA RetryMatched ==
    ASSUME TypeInv, Matched(sq), NEW q \in QueueIds, RetryRequest(q)
    PROVE  Matched(sq')
  <1> DEFINE future == [sq.net[q] EXCEPT !.tries = @ + 1, !.reply = NoReply]
  <1>1. q \in DOMAIN sq.net
    BY DEF RetryRequest, AttemptLost
  <1>2. sq' = WithFuture(q, future)
    BY <1>1, FutureType
       DEF RetryRequest, WithFuture, TypeInv, Sound, QueueType, Partial
  <1>3. future.reply.answer = "none"
    BY <1>1, FutureType DEF Futures, NoReply
  <1> HIDE DEF future
  <1>4. Matches(future)
    BY <1>3 DEF Matches
  <1> QED
    BY <1>1, <1>2, <1>4, FutureMatched

LEMMA NextTraced ==
    ASSUME CauseInv, [Next]_vars
    PROVE  /\ fence' <= next' /\ Traced(sq', made', fence', excused') /\ Matched(sq')
           /\ \A o \in Innocents(sq', made', excused') :
                o \in Innocents(sq, made, excused) /\ o \notin excused'
  <1>0. /\ TypeInv /\ Matched(sq) /\ Traced(sq, made, fence, excused) /\ fence <= next
        /\ excused \subseteq excused'
    BY ExcusesKept DEF CauseInv, SerialInv
  <1>1. CASE Enqueues
    <2>1. PICK item : Ordered(item) /\ EnqueueItem(item)
      BY <1>0, <1>1, EnqueuesOrder
    <2>2. fence' <= next'
      BY <1>0, <2>1 DEF EnqueueItem, TypeInv
    <2> QED
      BY <1>0, <2>1, <2>2, EnqueueItemTraced DEF Innocents
  <1>2. CASE Clear
    <2>1. fence' <= next' /\ made' = made
      BY <1>0, <1>2 DEF Clear, TypeInv
    <2> QED
      BY <1>0, <1>2, <2>1, ClearTraced DEF Innocents
  <1>3. ASSUME UNCHANGED <<next, made, fence>>, Recedes(sq, sq'), Matched(sq')
        PROVE  /\ fence' <= next' /\ Traced(sq', made', fence', excused') /\ Matched(sq')
               /\ \A o \in Innocents(sq', made', excused') :
                    o \in Innocents(sq, made, excused) /\ o \notin excused'
    <2> DEFINE t == sq'
    <2>1. Recedes(sq, t)
      BY <1>3
    <2> HIDE DEF t
    <2>2. Traced(t, made, fence, excused') /\ t.orphaned = sq.orphaned
      BY <1>0, <2>1, RecedesTraced DEF Recedes
    <2> QED
      BY <1>0, <1>3, <2>2 DEF Innocents, t
  <1>4. CASE UNCHANGED <<next, made, fence>> /\ Quiet
    <2>1. Matched(sq')
      <3>1. CASE UNCHANGED vars
        BY <1>0, <3>1, QuietMatched DEF vars
      <3>2. CASE StopDequeueing
        <4>1. sq'.net = sq.net
          BY <1>0, <3>2, SoundQueue DEF StopDequeueing, TypeInv, IsQueue, Fields
        <4> QED
          BY <1>0, <4>1, QuietMatched
      <3>3. CASE StartDequeueing
        BY <1>0, <3>3, BegunRecedes DEF StartDequeueing, Begun
      <3>4. ASSUME NEW o \in Objects, OtherClientUpdates(o) \/ LearnRevision(o)
            PROVE  Matched(sq')
        BY <1>0, <3>4, QuietMatched DEF OtherClientUpdates, LearnRevision
      <3>5. ASSUME NEW q \in QueueIds, ServerHandles(q)
            PROVE  Matched(sq')
        BY <1>0, <3>5, ServerMatched
      <3>6. ASSUME NEW q \in QueueIds, HandleResponse(q)
            PROVE  Matched(sq')
        BY <1>0, <3>6, ResponseSettles, SettledRecedes
      <3>7. ASSUME NEW q \in QueueIds, RetryRequest(q)
            PROVE  Matched(sq')
        BY <1>0, <3>7, RetryMatched
      <3>8. ASSUME NEW q \in QueueIds, NEW persistent \in BOOLEAN, RequestFailed(q, persistent)
            PROVE  Matched(sq')
        BY <1>0, <3>8, RequestFailedSettles, SettledRecedes
      <3>9. CASE Enqueues
        <4>1. PICK item : Ordered(item) /\ EnqueueItem(item)
          BY <1>0, <3>9, EnqueuesOrder
        <4> QED
          BY <4>1, EnqueueItemTraced
      <3>10. CASE Clear
        BY <3>10, ClearTraced
      <3> QED
        BY <3>1, <3>2, <3>3, <3>4, <3>5, <3>6, <3>7, <3>8, <3>9, <3>10 DEF Next
    <2> QED
      BY <1>0, <1>3, <1>4, <2>1, QuietRecedes
  <1>5. CASE UNCHANGED <<next, made, fence>> /\ sq' = Dequeue(Begun, 1)
    BY <1>0, <1>3, <1>5, BegunRecedes
  <1>6. CASE UNCHANGED <<next, made, fence>> /\ \E q \in DOMAIN sq.net : Settled(q)
    BY <1>0, <1>3, <1>6, SettledRecedes
  <1> QED
    BY <1>0, <1>1, <1>2, <1>4, <1>5, <1>6, StepsOfTheQueue

\* Every step keeps the invariant.
LEMMA NextCause ==
    ASSUME CauseInv, [Next]_vars
    PROVE  CauseInv'
  <1>1. SerialInv' /\ HealthyInv'
    BY NextSerial, NextHealthy DEF CauseInv
  <1>2. /\ fence' <= next' /\ Traced(sq', made', fence', excused') /\ Matched(sq')
        /\ \A o \in Innocents(sq', made', excused') :
                o \in Innocents(sq, made, excused) /\ o \notin excused'
    BY NextTraced
  <1>3. ASSUME NEW o \in Innocents(sq', made', excused')
        PROVE  Clean(sq', server'[o], known'[o], o)
    <2>1. o \in Innocents(sq, made, excused) /\ o \notin excused'
      BY <1>2
    <2>2. Alone(sq', o)
      <3>1. Sound(sq', next') /\ Serial(sq', fence', Named(sq'))
        BY <1>1 DEF SerialInv, TypeInv
      <3> QED
        BY <1>2, <2>1, <3>1, AloneInFlight
    <2>3. CASE UNCHANGED vars
      BY <2>1, <2>3, InnocentMeans DEF vars
    <2>4. CASE Enqueues
      <3>1. TypeInv
        BY DEF CauseInv, SerialInv
      <3>2. PICK item : Ordered(item) /\ EnqueueItem(item)
        BY <2>4, <3>1, EnqueuesOrder
      <3> QED
        BY <2>1, <2>2, <3>2, EnqueueItemClean
    <2>5. CASE StopDequeueing \/ StartDequeueing \/ Clear
      BY <2>1, <2>2, <2>5, ControlClean
    <2>6. ASSUME NEW p \in Objects, OtherClientUpdates(p) \/ LearnRevision(p)
          PROVE  Clean(sq', server'[o], known'[o], o)
      BY <2>1, <2>6, OtherClientsClean
    <2>7. ASSUME NEW q \in QueueIds, ServerHandles(q)
          PROVE  Clean(sq', server'[o], known'[o], o)
      BY <2>1, <2>7, ServerClean
    <2>8. ASSUME NEW q \in QueueIds, HandleResponse(q)
          PROVE  Clean(sq', server'[o], known'[o], o)
      BY <2>1, <2>2, <2>8, CreationSucceedsClean, UpdateSucceedsClean, OtherResponsesClean
         DEF HandleResponse
    <2>9. ASSUME NEW q \in QueueIds, RetryRequest(q)
          PROVE  Clean(sq', server'[o], known'[o], o)
      BY <2>1, <2>9, RetryClean
    <2>10. ASSUME NEW q \in QueueIds, NEW persistent \in BOOLEAN, RequestFailed(q, persistent)
           PROVE  Clean(sq', server'[o], known'[o], o)
      BY <2>1, <2>2, <2>10, RequestFailedClean
    <2> QED
      BY <2>3, <2>4, <2>5, <2>6, <2>7, <2>8, <2>9, <2>10 DEF Next
  <1> QED
    BY <1>1, <1>2, <1>3 DEF CauseInv

LEMMA InitCause ==
    ASSUME Init
    PROVE  CauseInv
  <1>1. PICK n \in 0..MaxStart : \E m \in 0..(MaxStart - n) :
            \E edits \in StartRows(n), reports \in [1..m -> Reported], linked \in BOOLEAN :
                /\ sq = NewQueue(StartQueue(edits, reports, linked))
                /\ made = [o \in Objects |->
                            {i \in 1..n : edits[i] = o /\ o \notin Existing}]
    BY DEF Init
  <1>2. PICK m \in 0..(MaxStart - n) :
            \E edits \in StartRows(n), reports \in [1..m -> Reported], linked \in BOOLEAN :
                /\ sq = NewQueue(StartQueue(edits, reports, linked))
                /\ made = [o \in Objects |->
                            {i \in 1..n : edits[i] = o /\ o \notin Existing}]
    BY <1>1
  <1>3. PICK edits \in StartRows(n), reports \in [1..m -> Reported], linked \in BOOLEAN :
            /\ sq = NewQueue(StartQueue(edits, reports, linked))
            /\ made = [o \in Objects |-> {i \in 1..n : edits[i] = o /\ o \notin Existing}]
    BY <1>2
  <1>4. n \in Nat /\ m \in Nat /\ n + m <= MaxStart
    BY BoundsAssumption
  <1> DEFINE items == StartQueue(edits, reports, linked)
  <1>5. StartsWith(items, n, m, edits)
    BY <1>4, StartItems
  <1>6. edits \in [1..n -> Objects]
    BY DEF StartRows
  <1> HIDE DEF items
  <1>7. sq = NewQueue(items)
    BY <1>3 DEF items
  <1>8. sq.queue = items /\ DOMAIN sq.net = {} /\ sq.told = {}
    BY <1>7, NewQueueFields
  <1>9. /\ fence = 1 /\ server = [o \in Objects |-> IF o \in Existing THEN 1 ELSE 0]
        /\ known = server
    BY DEF Init
  <1>10. ASSUME NEW q \in DOMAIN items
         PROVE  \/ items[q].op = "action"
                \/ /\ q \in 1..n
                   /\ items[q].op = IF edits[q] \in Existing THEN "update" ELSE "create"
                   /\ \E id : items[q].ids = {id}
                   /\ ObjectsOf(items[q]) = {edits[q]} /\ edits[q] \in Objects
                   /\ items[q].rev = IF edits[q] \in Existing \ Folders THEN 1 ELSE 0
    <2>1. CASE q \in 1..n
      <3>1. /\ items[q].op = IF edits[q] \in Existing THEN "update" ELSE "create"
            /\ items[q].ids = {<<IF edits[q] \in Existing THEN "server" ELSE "client", edits[q]>>}
            /\ items[q].rev = IF edits[q] \in Existing \ Folders THEN 1 ELSE 0
        BY <1>5, <2>1 DEF StartsWith
      <3>2. edits[q] \in Objects
        BY <1>6, <2>1
      <3> DEFINE own == <<IF edits[q] \in Existing THEN "server" ELSE "client", edits[q]>>
      <3>3. items[q].ids = {own} /\ own[2] = edits[q]
        BY <3>1
      <3> HIDE DEF own
      <3>4. \E id : items[q].ids = {id} /\ id[2] = edits[q]
        BY <3>3
      <3>5. ObjectsOf(items[q]) = {edits[q]}
        BY <3>4 DEF ObjectsOf, Obj
      <3> QED
        BY <2>1, <3>1, <3>2, <3>4, <3>5
    <2>2. CASE q \notin 1..n
      BY <1>5, <2>2 DEF StartsWith
    <2> QED
      BY <2>1, <2>2
  <1>11. \A q \in Live(sq) : q \in DOMAIN items /\ ItemOf(sq, q) = items[q] /\ q >= fence
    <2>1. Sound(sq, next)
      BY InitType DEF TypeInv
    <2>2. DOMAIN items \subseteq QueueIds
      BY <1>8, <2>1 DEF Sound, QueueType, Partial
    <2> QED
      BY <1>8, <1>9, <2>2, BoundsAssumption DEF Live, ItemOf, QueueIds
  <1>12. Traced(sq, made, fence, excused)
    <2> SUFFICES ASSUME NEW q \in Live(sq)
                 PROVE  /\ ItemOf(sq, q).op = "update" => \E id : ItemOf(sq, q).ids = {id}
                        /\ ItemOf(sq, q).op \in Creations =>
                              \A o \in ObjectsOf(ItemOf(sq, q)) : q \in made[o]
                        /\ q >= fence \/ ObjectsOf(ItemOf(sq, q)) \subseteq excused
      BY DEF Traced
    <2>1. q \in DOMAIN items /\ ItemOf(sq, q) = items[q] /\ q >= fence
      BY <1>11
    <2>2. items[q].op = "update" => \E id : items[q].ids = {id}
      BY <1>10, <2>1
    <2>3. ASSUME items[q].op \in Creations, NEW o \in ObjectsOf(items[q])
          PROVE  q \in made[o]
      <3>1. items[q].op # "action" /\ items[q].op # "update"
        BY <2>3 DEF Creations
      <3>2. /\ q \in 1..n /\ o = edits[q] /\ o \in Objects /\ edits[q] \notin Existing
        BY <1>10, <2>1, <2>3, <3>1
      <3> QED
        BY <1>3, <3>2
    <2> QED
      BY <2>1, <2>2, <2>3
  <1>13. Matched(sq)
    BY <1>8 DEF Matched
  <1>14. fence <= next
    BY <1>9, InitType DEF TypeInv
  <1>15. Named(sq) = Existing
    BY <1>8 DEF Named, Born
  <1>16. ASSUME NEW o \in Objects
         PROVE  Clean(sq, server[o], known[o], o)
    <2>1. server[o] = IF o \in Existing THEN 1 ELSE 0
      BY <1>9
    <2>2. \A q \in DOMAIN items : Edits(items[q], o) =>
            /\ o \in Existing /\ items[q].rev = IF o \in Folders THEN 0 ELSE 1
      BY <1>10 DEF Edits
    <2>3. o \in Existing => \A q \in DOMAIN items : ~Creates(items[q], o)
      BY <1>10 DEF Creates, Creations
    <2> QED
      BY <1>8, <1>9, <1>11, <1>15, <2>1, <2>2, <2>3 DEF Clean, UpToDate
  <1> QED
    BY <1>12, <1>13, <1>14, <1>16, InitSerial, InitHealthy DEF CauseInv, Innocents

LEMMA CauseInvariance == Spec => []CauseInv
  BY InitCause, NextCause, PTL DEF Spec

\* The client never conflicts with itself: an update is rejected only if another
\* client, an unseen answer or an earlier login changed the object, or if a creation
\* of it that was announced to have failed was sent all the same.
THEOREM NoConflictWithItself == Spec => []ConflictsHaveACause
  <1>1. ASSUME CauseInv PROVE ConflictsHaveACause
    <2> SUFFICES ASSUME NEW e \in sq.told, e.event = "rejected",
                        e.obj \notin excused, made[e.obj] \cap sq.orphaned = {}
                 PROVE  FALSE
      BY DEF ConflictsHaveACause
    <2>1. e.obj \in Objects
      BY <1>1 DEF CauseInv, SerialInv, TypeInv, Sound, QueueType, Notices
    <2>2. e.obj \in Innocents(sq, made, excused)
      BY <2>1 DEF Innocents
    <2> QED
      BY <1>1, <2>2 DEF CauseInv, Clean
  <1> QED
    BY <1>1, CauseInvariance, PTL

-----------------------------------------------------------------------------
(* What is sent names nothing by its ClientId.  A workflow with a reference waits
   for the creation of what it references, which replaces the reference or fails
   the workflow. *)

Denied(s, o) == \E e \in s.told : e.obj = o /\ e.event = "denied"

\* The creations of an object, made in this login, whose end is open.
Open(s, m, f, o) == {c \in m[o] : c >= f /\ ~Heard(s, c)}

\* The queued updates of an object under its ClientId.
Edited(s, o) ==
    {u \in DOMAIN s.queue : s.queue[u].op = "update" /\ <<"client", o>> \in s.queue[u].ids}

Awaits(s, m, f, q, o) == s.deps[q] \cap Open(s, m, f, o) # {}

\* An update that was enqueued after the creation had failed will fail too: it and
\* the ones it waits for are taken before any later creation, and have no server id.
Hopeless(s, m, f, u, o) ==
    /\ u \in Edited(s, o) /\ o \notin s.mapped
    /\ \A c \in Open(s, m, f, o) : c \in DOMAIN s.queue /\ u < c
    /\ \A v \in Edited(s, o) : v <= u => s.deps[v] = {x \in Edited(s, o) : x < v}

\* What may be referenced references nothing itself and is not created in bulk.
Kinds(s) ==
    \A q \in Live(s) :
        /\ ItemOf(s, q).refs \subseteq Referable
        /\ \A o \in ObjectsOf(ItemOf(s, q)) \cap Referable :
                ItemOf(s, q).refs = {} /\ ItemOf(s, q).op # "bulk"
        /\ ItemOf(s, q).op \in Creations => ItemOf(s, q).ids \subseteq {"client"} \X Objects

\* One creation after the other, and who looks for the open one finds it.
Findable(s, m, f, o) ==
    /\ \A c, d \in m[o] : c < d => Heard(s, c)
    /\ m[o] \cap s.orphaned = {}
    /\ \A q \in Live(s) : q \in m[o] <=> Creates(ItemOf(s, q), o)
    /\ Open(s, m, f, o) \subseteq Creators(s, o)
    /\ s.waiting[<<"client", o>>] \subseteq Open(s, m, f, o) \ DOMAIN s.queue
    /\ Edited(s, o) # {} => \E c \in m[o] : c >= f

EditsWait(s, m, f) ==
    \A o \in Referable \ s.mapped : \A u \in Edited(s, o) :
        Denied(s, o) \/ Awaits(s, m, f, u, o) \/ Hopeless(s, m, f, u, o)
WorkflowsWait(s, m, f) ==
    \A w \in DOMAIN s.queue \ s.orphaned : \A o \in s.queue[w].refs :
        \/ Denied(s, o) \/ Awaits(s, m, f, w, o)
        \/ \E u \in s.deps[w] : Hopeless(s, m, f, u, o)
SentResolved(s) ==
    \A q \in DOMAIN s.net \ s.orphaned : \A o \in s.net[q].item.refs : Denied(s, o)

Referenced(s, m, f) ==
    /\ \A q \in DOMAIN s.queue : q >= f
    /\ Kinds(s) /\ \A o \in Referable : Findable(s, m, f, o)
    /\ EditsWait(s, m, f) /\ WorkflowsWait(s, m, f) /\ SentResolved(s)

ReferencesInv ==
    /\ CauseInv
    /\ \A q \in sq.orphaned : q < next
    /\ Referenced(sq, made, fence)

\* What recedes keeps the kinds of its items.
LEMMA RecedesKinds ==
    ASSUME NEW s, Kinds(s), NEW t, Recedes(s, t)
    PROVE  Kinds(t)
  <1> SUFFICES ASSUME NEW q \in Live(t)
               PROVE  /\ ItemOf(t, q).refs \subseteq Referable
                      /\ \A o \in ObjectsOf(ItemOf(t, q)) \cap Referable :
                            ItemOf(t, q).refs = {} /\ ItemOf(t, q).op # "bulk"
                      /\ ItemOf(t, q).op \in Creations =>
                            ItemOf(t, q).ids \subseteq {"client"} \X Objects
    BY DEF Kinds
  <1>1. q \in Live(s) /\ Kin(ItemOf(s, q), ItemOf(t, q))
    BY DEF Recedes
  <1>2. /\ ItemOf(t, q).op = ItemOf(s, q).op /\ ItemOf(t, q).ids = ItemOf(s, q).ids
        /\ ObjectsOf(ItemOf(t, q)) = ObjectsOf(ItemOf(s, q))
        /\ ItemOf(t, q).refs \subseteq ItemOf(s, q).refs
    BY <1>1, KinObjects DEF Kin
  <1> QED
    BY <1>1, <1>2 DEF Kinds

-----------------------------------------------------------------------------
(* What a dequeue does to it. *)

\* Before it takes a creation, a dequeue has taken the first hopeless update.
LEMMA HopelessDequeue ==
    ASSUME NEW s, NEW b, Sound(s, b), s.dequeueing = TRUE, NEW n \in Nat,
           \A q \in DOMAIN s.queue : s.queue[q].ids # {},
           NEW m, NEW f, NEW u, NEW o, Hopeless(s, m, f, u, o),
           u \in DOMAIN Dequeue(s, n).queue
    PROVE  Hopeless(Dequeue(s, n), m, f, u, o)
  <1> DEFINE t == Dequeue(s, n)
  <1>1. Dequeues(s, n, t)
    BY DequeueView
  <1>2. u \in DOMAIN t.queue
    OBVIOUS
  <1> HIDE DEF t
  <1>3. DOMAIN s.queue \subseteq QueueIds /\ QueueIds \subseteq Nat /\ IsFiniteSet(QueueIds)
    BY BoundsAssumption, FS_Interval DEF Sound, QueueType, Partial, QueueIds
  <1>4. ASSUME NEW v \in Edited(s, o)
        PROVE  v \notin Sendable(s)
    BY <1>4 DEF Hopeless, Edited, Sendable, Needs, Creations, ServerKnown, Obj
  <1>5. PICK v \in {x \in Edited(s, o) : x <= u} :
            \A x \in {y \in Edited(s, o) : y <= u} : ~(x < v)
    <2>1. u \in Edited(s, o) /\ Edited(s, o) \subseteq Nat
      BY <1>3 DEF Hopeless, Edited
    <2>2. {x \in Edited(s, o) : x <= u} \in SUBSET Nat /\ {x \in Edited(s, o) : x <= u} # {}
      BY <2>1
    <2> QED
      BY <2>2, LeastItem
  <1>6. /\ v \in DOMAIN s.queue /\ u \in DOMAIN s.queue /\ s.queue[v].op = "update"
        /\ v \in Edited(s, o) /\ u \in Edited(s, o) /\ v <= u
        /\ v \in Nat /\ u \in Nat /\ u <= u
    <2>1. v \in Edited(s, o) /\ u \in Edited(s, o) /\ v <= u
      BY <1>5 DEF Hopeless
    <2>2. v \in DOMAIN s.queue /\ u \in DOMAIN s.queue /\ s.queue[v].op = "update"
      BY <2>1 DEF Edited
    <2>3. v \in Nat /\ u \in Nat
      BY <1>3, <2>2
    <2> QED
      BY <2>1, <2>2, <2>3
  <1>7. s.deps[v] = {}
    <2>1. s.deps[v] = {x \in Edited(s, o) : x < v}
      BY <1>5 DEF Hopeless
    <2>2. ASSUME NEW x \in Edited(s, o), x < v
          PROVE  FALSE
      <3>1. x \in Nat /\ v \in Nat /\ u \in Nat
        BY <1>3, <1>6 DEF Edited
      <3> QED
        BY <1>5, <2>2, <3>1
    <2> QED
      BY <2>1, <2>2
  <1>8. v \notin Skipped(s, n)
    <2>1. CASE v = u
      BY <1>1, <1>2, <2>1 DEF Dequeues
    <2>2. CASE v # u
      <3>1. v < u
        BY <1>6, <2>2
      <3>2. v \in s.deps[u]
        <4>1. s.deps[u] = {x \in Edited(s, o) : x < u}
          BY <1>6 DEF Hopeless
        <4> QED
          BY <1>6, <3>1, <4>1
      <3> QED
        BY <1>1, <1>2, <1>6, <3>2 DEF Dequeues
    <2> QED
      BY <2>1, <2>2
  <1>9. ASSUME NEW c \in Open(t, m, f, o)
        PROVE  c \in DOMAIN t.queue /\ u < c
    <2>1. c \in Open(s, m, f, o)
      BY <1>1 DEF Open, Heard, Dequeues, Recedes
    <2>2. c \in DOMAIN s.queue /\ u < c
      BY <2>1 DEF Hopeless
    <2>3. ASSUME c \notin DOMAIN t.queue
          PROVE  FALSE
      <3>1. c \in Sent(s, n) \/ c \in Skipped(s, n)
        BY <1>1, <1>9, <2>2, <2>3 DEF Dequeues, Open
      <3>2. Cardinality({r \in Sendable(s) : r < c}) < n
        BY <3>1 DEF Sent, Skipped
      <3>3. Sendable(s) \subseteq QueueIds
        BY <1>3 DEF Sendable, Ready
      <3>4. {r \in Sendable(s) : r < v} \subseteq {r \in Sendable(s) : r < c}
        <4> SUFFICES ASSUME NEW r \in Sendable(s), r < v PROVE r < c
          OBVIOUS
        <4>1. r \in Nat /\ c \in Nat
          BY <1>3, <2>2, <3>3
        <4> QED
          BY <1>6, <2>2, <4>1
      <3>5. IsFiniteSet({r \in Sendable(s) : r < c})
        <4>1. {r \in Sendable(s) : r < c} \subseteq QueueIds
          BY <3>3
        <4> QED
          BY <1>3, <4>1, FS_Subset
      <3>6. /\ Cardinality({r \in Sendable(s) : r < v}) \in Nat
            /\ Cardinality({r \in Sendable(s) : r < c}) \in Nat
            /\ Cardinality({r \in Sendable(s) : r < v})
                    <= Cardinality({r \in Sendable(s) : r < c})
        BY <3>4, <3>5, FS_Subset, FS_CardinalityType
      <3>7. Cardinality({r \in Sendable(s) : r < v}) < n
        BY <3>2, <3>6
      <3>8. v \in Ready(s) \ Sendable(s)
        BY <1>4, <1>5, <1>6, <1>7 DEF Ready
      <3> QED
        BY <1>8, <3>7, <3>8 DEF Skipped
    <2> QED
      BY <2>2, <2>3
  <1>10. \A x \in DOMAIN t.queue : x \in Edited(t, o) <=> x \in Edited(s, o)
    BY <1>1 DEF Dequeues, Edited
  <1>11. Edited(t, o) = Edited(s, o) \cap DOMAIN t.queue
    BY <1>10 DEF Edited
  <1>12. ASSUME NEW x \in Edited(t, o), x <= u
         PROVE  t.deps[x] = {y \in Edited(t, o) : y < x}
    <2>1. x \in Edited(s, o) /\ x \in DOMAIN t.queue /\ t.deps[x] = s.deps[x]
      BY <1>1, <1>11 DEF Dequeues
    <2>2. s.deps[x] = {y \in Edited(s, o) : y < x}
      BY <1>12, <2>1 DEF Hopeless
    <2>3. ASSUME NEW y \in Edited(s, o), y < x, y \notin DOMAIN t.queue
          PROVE  FALSE
      <3>1. y \in s.deps[x] /\ y \in DOMAIN s.queue /\ s.queue[y].op = "update"
        BY <2>2, <2>3 DEF Edited
      <3>2. y \in Sent(s, n)
        BY <1>1, <2>1, <2>3, <3>1 DEF Dequeues
      <3> QED
        BY <1>4, <3>2 DEF Sent
    <2> QED
      BY <1>11, <2>1, <2>2, <2>3
  <1>13. o \notin t.mapped
    BY <1>1 DEF Dequeues, Hopeless
  <1>14. Hopeless(t, m, f, u, o)
    <2>1. u \in Edited(t, o)
      BY <1>2, <1>11 DEF Hopeless
    <2> QED
      BY <1>9, <1>12, <1>13, <2>1 DEF Hopeless
  <1> QED
    BY <1>14 DEF t

\* An item that waits for an open creation still does.
LEMMA AwaitsDequeue ==
    ASSUME NEW s, NEW b, Sound(s, b), s.dequeueing = TRUE, NEW n,
           NEW m, NEW f, NEW o, Findable(s, m, f, o),
           NEW x \in DOMAIN Dequeue(s, n).queue, Awaits(s, m, f, x, o)
    PROVE  Awaits(Dequeue(s, n), m, f, x, o)
  <1> DEFINE t == Dequeue(s, n)
  <1>1. Dequeues(s, n, t)
    BY DequeueView
  <1>2. x \in DOMAIN t.queue
    OBVIOUS
  <1> HIDE DEF t
  <1>3. PICK c \in s.deps[x] : c \in Open(s, m, f, o)
    BY DEF Awaits
  <1>4. t.deps[x] = s.deps[x]
    BY <1>1, <1>2 DEF Dequeues
  <1>5. ASSUME NEW e \in t.told, e.item = c
        PROVE  FALSE
    <2>1. e \notin s.told
      BY <1>3, <1>5 DEF Open, Heard
    <2>2. /\ c \in DOMAIN s.queue /\ c \notin DOMAIN t.queue /\ c \notin Sent(s, n)
          /\ c \in Skipped(s, n) => s.queue[c].op = "update"
      BY <1>1, <1>5, <2>1 DEF Dequeues
    <2>3. s.queue[c].op = "update"
      BY <1>1, <1>2, <1>3, <2>2 DEF Dequeues
    <2>4. Creates(s.queue[c], o)
      BY <1>3, <2>2 DEF Findable, Open, Live, ItemOf
    <2> QED
      BY <2>3, <2>4 DEF Creates, Creations
  <1>6. c \in Open(t, m, f, o)
    BY <1>3, <1>5 DEF Open, Heard
  <1>7. Awaits(t, m, f, x, o)
    BY <1>3, <1>4, <1>6 DEF Awaits
  <1> QED
    BY <1>7 DEF t

\* A creation that is taken waits under its ClientId, whether it is sent or not.
LEMMA FindableDequeue ==
    ASSUME NEW s, NEW b, Sound(s, b), s.dequeueing = TRUE, NEW n, Once(s),
           \A q \in DOMAIN s.queue : s.queue[q].ids # {}, Kinds(s),
           NEW f, \A q \in DOMAIN s.queue : q >= f,
           NEW m, NEW o \in Objects, Findable(s, m, f, o)
    PROVE  Findable(Dequeue(s, n), m, f, o)
  <1> DEFINE t == Dequeue(s, n)
  <1>1. Dequeues(s, n, t)
    BY DequeueView
  <1> HIDE DEF t
  <1>2. \A q \in Live(t) : /\ q \in Live(s)
                           /\ Creates(ItemOf(t, q), o) <=> Creates(ItemOf(s, q), o)
    BY <1>1, KinObjects DEF Dequeues, Recedes, Creates
  <1>3. \A q : Heard(s, q) => Heard(t, q)
    BY <1>1 DEF Dequeues, Recedes, Heard
  <1>4. \A e \in t.told \ s.told :
            /\ e.item \in DOMAIN s.queue /\ e.item \notin Sent(s, n)
            /\ e.item \in Skipped(s, n) => s.queue[e.item].op = "update"
    BY <1>1 DEF Dequeues
  <1>5. <<"client", o>> \in Ids
    BY DEF Ids
  <1>6. t.waiting[<<"client", o>>] =
            (s.waiting[<<"client", o>>] \ Unsendable(s, n)) \cup
                {q \in Entered(s, n) : <<"client", o>> \in WaitsUnder(s.queue[q])}
    BY <1>1, <1>5 DEF Dequeues, WaitingAfter
  <1>7. \A q \in DOMAIN s.queue : q \in m[o] <=> Creates(s.queue[q], o)
    BY DEF Findable, Live, ItemOf
  <1>8. \A q \in Sent(s, n) \cup Skipped(s, n) : q \in DOMAIN s.queue
    BY DEF Sent, Sendable, Skipped, Ready
  <1>9. ASSUME NEW c \in Open(t, m, f, o)
        PROVE  c \in Creators(t, o)
    <2>1. c \in m[o] /\ c >= f /\ ~Heard(t, c) /\ c \in Creators(s, o)
      BY <1>3, <1>9 DEF Open, Findable
    <2>2. CASE c \in s.waiting[<<"client", o>>]
      <3>1. c \notin DOMAIN s.queue
        BY <2>2 DEF Findable
      <3>2. c \notin Unsendable(s, n)
        BY <1>8, <3>1 DEF Unsendable
      <3> QED
        BY <1>6, <2>2, <3>2 DEF Creators, ItemsWithId
    <2>3. CASE /\ c \in DOMAIN s.queue /\ s.queue[c].op # "action"
               /\ <<"client", o>> \in s.queue[c].ids
      <3>1. s.queue[c].op \in Creations
        BY <1>7, <2>1, <2>3 DEF Creates
      <3>2. CASE c \in DOMAIN t.queue
        BY <1>1, <2>3, <3>2 DEF Dequeues, Creators, ItemsWithId
      <3>3. CASE c \notin DOMAIN t.queue
        <4>1. c \in Sent(s, n) \/ c \in Skipped(s, n)
          BY <1>1, <2>1, <2>3, <3>3 DEF Dequeues
        <4>2. c \in Entered(s, n) /\ <<"client", o>> \in WaitsUnder(s.queue[c])
          BY <2>3, <3>1, <4>1 DEF Entered, WaitsUnder
        <4> QED
          BY <1>6, <4>2 DEF Creators, ItemsWithId
      <3> QED
        BY <3>2, <3>3
    <2> QED
      BY <2>1, <2>2, <2>3 DEF Creators, ItemsWithId
  <1>10. ASSUME NEW c \in t.waiting[<<"client", o>>]
         PROVE  c \in Open(t, m, f, o) \ DOMAIN t.queue
    <2>1. CASE c \in s.waiting[<<"client", o>>]
      <3>1. c \in Open(s, m, f, o) /\ c \notin DOMAIN s.queue
        BY <2>1 DEF Findable
      <3>2. ~Heard(t, c)
        BY <1>4, <3>1 DEF Open, Heard
      <3> QED
        BY <1>1, <3>1, <3>2 DEF Open, Dequeues
    <2>2. CASE c \in Entered(s, n) /\ <<"client", o>> \in WaitsUnder(s.queue[c])
      <3>1. s.queue[c].op \in Creations /\ <<"client", o>> \in s.queue[c].ids
        BY <2>2 DEF WaitsUnder
      <3>2. c \in DOMAIN s.queue /\ c \notin DOMAIN t.queue
        BY <1>1, <1>8, <2>2 DEF Entered, Dequeues
      <3>3. Creates(s.queue[c], o)
        BY <3>1 DEF Creates, ObjectsOf, Obj
      <3>4. c \in m[o] /\ c >= f
        BY <1>7, <3>2, <3>3
      <3>5. ~Heard(s, c)
        BY <3>2, <3>4 DEF Once, Live, Findable
      <3>6. ~Heard(t, c)
        BY <1>4, <2>2, <3>1, <3>5 DEF Heard, Entered, Creations
      <3> QED
        BY <3>2, <3>4, <3>6 DEF Open
    <2> QED
      BY <1>6, <1>10, <2>1, <2>2
  <1>11. Edited(t, o) \subseteq Edited(s, o)
    BY <1>1 DEF Dequeues, Edited
  <1>12. t.orphaned = s.orphaned
    BY <1>1 DEF Dequeues, Recedes
  <1>13. Findable(t, m, f, o)
    BY <1>2, <1>3, <1>9, <1>10, <1>11, <1>12 DEF Findable
  <1> QED
    BY <1>13 DEF t

\* Dequeueing keeps the invariant: what is orphaned or sent has its references.
LEMMA DequeueReferences ==
    ASSUME NEW s, NEW b, Sound(s, b), Healthy(s, b), NEW n \in Nat,
           NEW m, NEW f, Referenced(s, m, f)
    PROVE  Referenced(Dequeue(s, n), m, f)
  <1> DEFINE t == Dequeue(s, n)
  <1>1. CASE ~s.dequeueing
    BY <1>1, DequeueStopped
  <1>2. CASE s.dequeueing = TRUE
    <2>1. Dequeues(s, n, t)
      BY <1>2, DequeueView
    <2>2. \A q \in DOMAIN s.queue : s.queue[q].ids # {}
      BY DEF Healthy, Live, ItemOf
    <2>3. Once(s) /\ Kinds(s) /\ \A q \in DOMAIN s.queue : q >= f
      BY DEF Healthy, Referenced
    <2>4. \A o \in Referable : o \in Objects /\ Findable(s, m, f, o)
      BY ObjectsAssumption DEF Referenced
    <2>5. \A o \in Referable : Findable(t, m, f, o)
      BY <1>2, <2>2, <2>3, <2>4, FindableDequeue
    <2>6. Recedes(s, t)
      BY <2>1 DEF Dequeues
    <2>7. Kinds(t) /\ \A q \in DOMAIN t.queue : q >= f
      BY <2>3, <2>6, RecedesKinds DEF Recedes
    <2>8. \A o : Denied(s, o) => Denied(t, o)
      BY <2>6 DEF Recedes, Denied
    <2>9. ASSUME NEW o \in Referable, NEW x \in DOMAIN t.queue, Awaits(s, m, f, x, o)
          PROVE  Awaits(t, m, f, x, o)
      BY <1>2, <2>4, <2>9, AwaitsDequeue
    <2>10. ASSUME NEW o, NEW u \in DOMAIN t.queue, Hopeless(s, m, f, u, o)
           PROVE  Hopeless(t, m, f, u, o)
      BY <1>2, <2>2, <2>10, HopelessDequeue
    <2> HIDE DEF t
    <2>11. EditsWait(t, m, f)
      <3> SUFFICES ASSUME NEW o \in Referable \ t.mapped, NEW u \in Edited(t, o)
                   PROVE  Denied(t, o) \/ Awaits(t, m, f, u, o) \/ Hopeless(t, m, f, u, o)
        BY DEF EditsWait
      <3>1. u \in DOMAIN t.queue /\ u \in Edited(s, o) /\ o \notin s.mapped
        BY <2>1 DEF Dequeues, Edited
      <3>2. Denied(s, o) \/ Awaits(s, m, f, u, o) \/ Hopeless(s, m, f, u, o)
        BY <3>1 DEF Referenced, EditsWait
      <3> QED
        BY <2>8, <2>9, <2>10, <3>1, <3>2
    <2>12. WorkflowsWait(t, m, f)
      <3> SUFFICES ASSUME NEW w \in DOMAIN t.queue \ t.orphaned, NEW o \in t.queue[w].refs
                   PROVE  \/ Denied(t, o) \/ Awaits(t, m, f, w, o)
                          \/ \E u \in t.deps[w] : Hopeless(t, m, f, u, o)
        BY DEF WorkflowsWait
      <3>1. /\ w \in DOMAIN s.queue \ s.orphaned /\ o \in s.queue[w].refs
            /\ t.deps[w] = s.deps[w]
        BY <2>1, <2>6 DEF Dequeues, Recedes
      <3>2. o \in Referable
        BY <2>3, <3>1 DEF Kinds, Live, ItemOf
      <3>3. \/ Denied(s, o) \/ Awaits(s, m, f, w, o)
            \/ \E u \in s.deps[w] : Hopeless(s, m, f, u, o)
        BY <3>1 DEF Referenced, WorkflowsWait
      <3>4. ASSUME NEW u \in s.deps[w], Hopeless(s, m, f, u, o)
            PROVE  Hopeless(t, m, f, u, o)
        <4>1. u \in DOMAIN s.queue /\ s.queue[u].op = "update" /\ u \notin Sendable(s)
          BY <3>4 DEF Hopeless, Edited, Sendable, Needs, Creations, ServerKnown, Obj
        <4>2. u \notin Skipped(s, n) /\ u \notin Sent(s, n)
          BY <2>1, <3>4, <4>1 DEF Dequeues, Sent
        <4>3. u \in DOMAIN t.queue
          BY <2>1, <3>4, <4>1, <4>2 DEF Dequeues
        <4> QED
          BY <2>10, <3>4, <4>3
      <3> QED
        BY <2>8, <2>9, <3>1, <3>2, <3>3, <3>4
    <2>13. SentResolved(t)
      <3> SUFFICES ASSUME NEW q \in DOMAIN t.net \ t.orphaned, NEW o \in t.net[q].item.refs
                   PROVE  Denied(t, o)
        BY DEF SentResolved
      <3>1. t.orphaned = s.orphaned
        BY <2>6 DEF Recedes
      <3>2. CASE q \in DOMAIN s.net
        <4>1. t.net[q] = s.net[q]
          BY <2>1, <3>2 DEF Dequeues
        <4> QED
          BY <2>8, <3>1, <3>2, <4>1 DEF Referenced, SentResolved
      <3>3. CASE q \in Sent(s, n)
        <4>1. t.net[q] = [item |-> s.queue[q], tries |-> 0, reply |-> NoReply]
          BY <2>1, <3>3 DEF Dequeues
        <4>2. t.net[q].item = s.queue[q]
          BY <4>1
        <4>3. q \in DOMAIN s.queue /\ s.deps[q] = {}
          BY <2>1, <3>3 DEF Dequeues, Ready
        <4>4. ~Awaits(s, m, f, q, o) /\ ~\E u \in s.deps[q] : Hopeless(s, m, f, u, o)
          BY <4>3 DEF Awaits
        <4>5. Denied(s, o)
          BY <3>1, <4>2, <4>3, <4>4 DEF Referenced, WorkflowsWait
        <4> QED
          BY <2>8, <4>5
      <3> QED
        BY <2>1, <3>2, <3>3 DEF Dequeues
    <2>14. Referenced(t, m, f)
      BY <2>5, <2>7, <2>11, <2>12, <2>13 DEF Referenced
    <2> QED
      BY <2>14 DEF t
  <1>3. s.dequeueing \in BOOLEAN
    BY DEF Sound, QueueType
  <1> QED
    BY <1>1, <1>2, <1>3

-----------------------------------------------------------------------------
(* What the callbacks do to it. *)

\* What waited for the creation of an object has its id, or is told that it was
\* denied, or is gone.
Delivers(t, q) ==
    /\ Settles(t, q) /\ Heard(t, q)
    /\ sq.mapped \subseteq t.mapped
    /\ \A o \in Referable \cap t.mapped : o \in sq.mapped \/ q \in made[o]
    /\ \A o \in Referable : q \in made[o] =>
            \A x \in DOMAIN t.queue : q \in sq.deps[x] =>
                Denied(t, o) \/ (o \in t.mapped /\ o \notin t.queue[x].refs)

\* A creation under way is the open one, if any is.
LEMMA OneOpen ==
    ASSUME ReferencesInv, NEW q \in DOMAIN sq.net, NEW o \in Referable, q \in made[o]
    PROVE  /\ ~Heard(sq, q)
           /\ \A c \in Open(sq, made, fence, o) : c = q
           /\ (\E d \in made[o] : d >= fence) => q \in Open(sq, made, fence, o)
  <1>1. TypeInv /\ Once(sq) /\ Findable(sq, made, fence, o) /\ o \in Objects
    BY ObjectsAssumption DEF ReferencesInv, CauseInv, HealthyInv, Healthy, Referenced
  <1>2. made[o] \subseteq Nat /\ fence \in Nat
    BY <1>1, BoundsAssumption DEF TypeInv, QueueIds
  <1>3. ~Heard(sq, q)
    BY <1>1 DEF Once, Live, Findable
  <1>4. ASSUME NEW c \in Open(sq, made, fence, o)
        PROVE  c = q
    <2>1. c \in made[o] /\ ~Heard(sq, c)
      BY <1>4 DEF Open
    <2>2. ~(c < q) /\ ~(q < c)
      BY <1>1, <1>3, <2>1 DEF Findable
    <2> QED
      BY <1>2, <2>1, <2>2
  <1>5. ASSUME NEW d \in made[o], d >= fence
        PROVE  q \in Open(sq, made, fence, o)
    <2>1. ~(q < d)
      BY <1>1, <1>3 DEF Findable
    <2>2. q >= fence
      BY <1>2, <1>5, <2>1
    <2> QED
      BY <1>3, <2>2 DEF Open
  <1> QED
    BY <1>3, <1>4, <1>5

\* An answer closes the creation it is about and nothing else.
LEMMA SettlesFindable ==
    ASSUME ReferencesInv, NEW q \in DOMAIN sq.net, NEW t, Delivers(t, q),
           NEW o \in Referable
    PROVE  Findable(t, made, fence, o)
  <1>1. TypeInv /\ Healthy(sq, next) /\ Findable(sq, made, fence, o) /\ o \in Objects
    BY ObjectsAssumption DEF ReferencesInv, CauseInv, HealthyInv, Referenced
  <1>2. Settles(t, q) /\ Recedes(sq, t) /\ Heard(t, q)
    BY DEF Delivers, Settles
  <1>3. \A x \in Live(t) : /\ x \in Live(sq) /\ Kin(ItemOf(sq, x), ItemOf(t, x))
                           /\ Creates(ItemOf(t, x), o) <=> Creates(ItemOf(sq, x), o)
    BY <1>2, KinObjects DEF Recedes, Creates
  <1>4. \A x : Heard(sq, x) => Heard(t, x)
    BY <1>2 DEF Recedes, Heard
  <1>5. t.waiting[<<"client", o>>] = sq.waiting[<<"client", o>>] \ {q}
    BY <1>1, <1>2 DEF Settles, Ids
  <1>6. \A x \in DOMAIN t.queue : /\ x \in DOMAIN sq.queue
                                  /\ t.queue[x].op = sq.queue[x].op
                                  /\ t.queue[x].ids = sq.queue[x].ids
    <2> TAKE x \in DOMAIN t.queue
    <2>1. x \in DOMAIN sq.queue /\ x \in Live(t)
      BY <1>2 DEF Recedes, Live
    <2> QED
      BY <1>3, <2>1 DEF Kin, ItemOf
  <1>7. ASSUME NEW c \in Open(t, made, fence, o)
        PROVE  c \in Creators(t, o)
    <2>1. c \in Creators(sq, o) /\ ~Heard(t, c)
      BY <1>1, <1>4, <1>7 DEF Open, Findable
    <2>2. c # q
      BY <1>2, <2>1
    <2>3. CASE c \in sq.waiting[<<"client", o>>]
      BY <1>5, <2>2, <2>3 DEF Creators, ItemsWithId
    <2>4. CASE /\ c \in DOMAIN sq.queue /\ sq.queue[c].op # "action"
               /\ <<"client", o>> \in sq.queue[c].ids
      <3>1. c \in DOMAIN t.queue
        BY <1>2, <2>1, <2>4 DEF Settles
      <3> QED
        BY <1>6, <2>4, <3>1 DEF Creators, ItemsWithId
    <2> QED
      BY <2>1, <2>3, <2>4 DEF Creators, ItemsWithId
  <1>8. ASSUME NEW c \in t.waiting[<<"client", o>>]
        PROVE  c \in Open(t, made, fence, o) \ DOMAIN t.queue
    <2>1. c \in Open(sq, made, fence, o) /\ c \notin DOMAIN sq.queue /\ c # q
      BY <1>1, <1>5, <1>8 DEF Findable
    <2>2. ~Heard(t, c)
      BY <1>2, <2>1 DEF Settles, Open, Heard
    <2> QED
      BY <1>6, <2>1, <2>2 DEF Open
  <1>9. Edited(t, o) \subseteq Edited(sq, o)
    BY <1>6 DEF Edited
  <1>10. t.orphaned = sq.orphaned
    BY <1>2 DEF Recedes
  <1> QED
    BY <1>1, <1>3, <1>4, <1>7, <1>8, <1>9, <1>10 DEF Findable

\* An answer leaves every waiting item a creation, a denial or no hope.
LEMMA SettlesReferences ==
    ASSUME ReferencesInv, NEW q \in DOMAIN sq.net, NEW t, Delivers(t, q)
    PROVE  Referenced(t, made, fence)
  <1>1. TypeInv /\ Healthy(sq, next) /\ Referenced(sq, made, fence)
    BY DEF ReferencesInv, CauseInv, HealthyInv
  <1>2. Settles(t, q) /\ Recedes(sq, t) /\ Heard(t, q)
    BY DEF Delivers, Settles
  <1>3. \A o \in Referable : Findable(t, made, fence, o)
    BY SettlesFindable
  <1>4. Kinds(t) /\ \A x \in DOMAIN t.queue : x >= fence
    BY <1>1, <1>2, RecedesKinds DEF Referenced, Recedes
  <1>5. \A o : Denied(sq, o) => Denied(t, o)
    BY <1>2 DEF Recedes, Denied
  <1>6. \A x \in DOMAIN t.queue : /\ x \in DOMAIN sq.queue
                                  /\ t.queue[x].op = sq.queue[x].op
                                  /\ t.queue[x].ids = sq.queue[x].ids
                                  /\ t.queue[x].refs \subseteq sq.queue[x].refs
                                  /\ t.deps[x] = sq.deps[x] \ {q}
                                  /\ sq.deps[x] \cap (DOMAIN sq.queue \ DOMAIN t.queue) = {}
    <2> TAKE x \in DOMAIN t.queue
    <2>1. x \in DOMAIN sq.queue /\ x \in Live(t)
      BY <1>2 DEF Recedes, Live
    <2>2. Kin(sq.queue[x], t.queue[x])
      BY <1>2, <2>1 DEF Recedes, ItemOf
    <2> QED
      BY <1>2, <2>1, <2>2 DEF Kin, Settles
  <1>7. q \notin DOMAIN sq.queue
    BY <1>1 DEF TypeInv, Sound
  \* An item that waits for another open creation still does.
  <1>8. ASSUME NEW o \in Referable, NEW x \in DOMAIN t.queue, Awaits(sq, made, fence, x, o),
               ~Awaits(t, made, fence, x, o)
        PROVE  q \in made[o] /\ q \in sq.deps[x]
    <2>1. PICK c \in sq.deps[x] : c \in Open(sq, made, fence, o)
      BY <1>8 DEF Awaits
    <2>2. CASE c = q
      BY <2>1, <2>2 DEF Open
    <2>3. CASE c # q
      <3>1. ~Heard(t, c)
        BY <1>2, <1>6, <2>1, <2>3 DEF Open, Heard, Settles
      <3>2. c \in Open(t, made, fence, o) /\ c \in t.deps[x]
        BY <1>6, <2>1, <2>3, <3>1 DEF Open
      <3> QED
        BY <1>8, <3>2 DEF Awaits
    <2> QED
      BY <2>2, <2>3
  <1>9. ASSUME NEW o \in Referable, NEW u \in DOMAIN t.queue, Hopeless(sq, made, fence, u, o)
        PROVE  Hopeless(t, made, fence, u, o)
    <2>1. Edited(t, o) = Edited(sq, o) \cap DOMAIN t.queue
      BY <1>6 DEF Edited
    <2>2. u \in Edited(t, o)
      BY <1>9, <2>1 DEF Hopeless
    <2>3. o \notin t.mapped
      <3> SUFFICES ASSUME o \in t.mapped PROVE FALSE
        OBVIOUS
      <3>1. o \notin sq.mapped /\ Edited(sq, o) # {}
        BY <1>9 DEF Hopeless
      <3>2. q \in made[o]
        BY <3>1 DEF Delivers
      <3>3. q \in Open(sq, made, fence, o)
        BY <1>1, <3>1, <3>2, OneOpen DEF Referenced, Findable
      <3> QED
        BY <1>7, <1>9, <3>3 DEF Hopeless
    <2>4. ASSUME NEW c \in Open(t, made, fence, o)
          PROVE  c \in DOMAIN t.queue /\ u < c
      <3>1. c \in Open(sq, made, fence, o) /\ ~Heard(t, c)
        BY <1>2, <2>4 DEF Open, Heard, Recedes
      <3>2. c \in DOMAIN sq.queue /\ u < c
        BY <1>9, <3>1 DEF Hopeless
      <3>3. sq.queue[c].ids # {}
        BY <1>1, <3>2 DEF Healthy, Live, ItemOf
      <3> QED
        BY <1>2, <3>1, <3>2, <3>3 DEF Settles
    <2>5. ASSUME NEW v \in Edited(t, o), v <= u
          PROVE  t.deps[v] = {x \in Edited(t, o) : x < v}
      <3>1. v \in Edited(sq, o) /\ v \in DOMAIN t.queue
        BY <2>1
      <3>2. sq.deps[v] = {x \in Edited(sq, o) : x < v}
        BY <1>9, <2>5, <3>1 DEF Hopeless
      <3>3. q \notin sq.deps[v]
        BY <1>7, <3>2 DEF Edited
      <3>4. \A x \in sq.deps[v] : x \in DOMAIN t.queue
        BY <1>6, <3>1, <3>2 DEF Edited
      <3> QED
        BY <1>6, <2>1, <3>1, <3>2, <3>3, <3>4
    <2> QED
      BY <2>2, <2>3, <2>4, <2>5 DEF Hopeless
  <1>10. EditsWait(t, made, fence)
    <2> SUFFICES ASSUME NEW o \in Referable \ t.mapped, NEW u \in Edited(t, o)
                 PROVE  \/ Denied(t, o) \/ Awaits(t, made, fence, u, o)
                        \/ Hopeless(t, made, fence, u, o)
      BY DEF EditsWait
    <2>1. u \in DOMAIN t.queue /\ u \in Edited(sq, o) /\ o \notin sq.mapped
      BY <1>6 DEF Edited, Delivers
    <2>2. \/ Denied(sq, o) \/ Awaits(sq, made, fence, u, o)
          \/ Hopeless(sq, made, fence, u, o)
      BY <1>1, <2>1 DEF Referenced, EditsWait
    <2>3. CASE Awaits(sq, made, fence, u, o)
      BY <1>8, <2>1, <2>3 DEF Delivers
    <2> QED
      BY <1>5, <1>9, <2>1, <2>2, <2>3
  <1>11. WorkflowsWait(t, made, fence)
    <2> SUFFICES ASSUME NEW w \in DOMAIN t.queue \ t.orphaned, NEW o \in t.queue[w].refs
                 PROVE  \/ Denied(t, o) \/ Awaits(t, made, fence, w, o)
                        \/ \E u \in t.deps[w] : Hopeless(t, made, fence, u, o)
      BY DEF WorkflowsWait
    <2>1. w \in DOMAIN sq.queue \ sq.orphaned /\ o \in sq.queue[w].refs
      BY <1>2, <1>6 DEF Recedes
    <2>2. o \in Referable
      BY <1>1, <2>1 DEF Referenced, Kinds, Live, ItemOf
    <2>3. \/ Denied(sq, o) \/ Awaits(sq, made, fence, w, o)
          \/ \E u \in sq.deps[w] : Hopeless(sq, made, fence, u, o)
      BY <1>1, <2>1 DEF Referenced, WorkflowsWait
    <2>4. CASE Awaits(sq, made, fence, w, o)
      BY <1>8, <2>2, <2>4 DEF Delivers
    <2>5. ASSUME NEW u \in sq.deps[w], Hopeless(sq, made, fence, u, o)
          PROVE  u \in t.deps[w] /\ Hopeless(t, made, fence, u, o)
      <3>1. u \in DOMAIN sq.queue
        BY <2>5 DEF Hopeless, Edited
      <3>2. u \in DOMAIN t.queue /\ u # q
        BY <1>6, <1>7, <2>5, <3>1
      <3> QED
        BY <1>6, <1>9, <2>2, <2>5, <3>2
    <2> QED
      BY <1>5, <2>3, <2>4, <2>5
  <1>12. SentResolved(t)
    BY <1>1, <1>2, <1>5 DEF SentResolved, Referenced, Settles, Recedes
  <1> QED
    BY <1>3, <1>4, <1>10, <1>11, <1>12 DEF Referenced

\* A request that creates what may be referenced creates just that.
LEMMA CreatorInFlight ==
    ASSUME ReferencesInv, NEW q \in DOMAIN sq.net, NEW o \in Referable
    PROVE  /\ q \in made[o] <=> sq.net[q].item.op \in Creations /\ o \in ItsObjects(q)
           /\ q \in made[o] => sq.net[q].item.op = "create"
  <1>1. q \in Live(sq) /\ ItemOf(sq, q) = sq.net[q].item
    BY DEF ReferencesInv, CauseInv, HealthyInv, TypeInv, Sound, Live, ItemOf
  <1>2. q \in made[o] <=> Creates(sq.net[q].item, o)
    BY <1>1 DEF ReferencesInv, Referenced, Findable
  <1>3. o \in ItsObjects(q) => sq.net[q].item.op # "bulk"
    BY <1>1 DEF ReferencesInv, Referenced, Kinds, ItsObjects
  <1> QED
    BY <1>2, <1>3 DEF Creates, Creations, ItsObjects

\* An item whose event was told is heard of.
LEMMA ToldIsHeard ==
    ASSUME HealthyInv, NEW q \in DOMAIN sq.net, NEW event, NEW t,
           ToldOf(q, event) \subseteq t.told
    PROVE  Heard(t, q)
  <1>1. sq.net[q].item.ids # {}
    BY DEF HealthyInv, TypeInv, Sound, Healthy, ItemOf, Live
  <1>2. \E e \in ToldOf(q, event) : e.item = q
    BY <1>1, NotifyMeans DEF ToldOf
  <1> QED
    BY <1>2 DEF Heard

\* A creation that succeeded puts its id where it was referenced.
LEMMA CreatedDelivers ==
    ASSUME ReferencesInv, NEW q \in DOMAIN sq.net, sq.net[q].reply.answer = "created"
    PROVE  Delivers(Tell(Answer(q), ToldOf(q, "created")), q)
  <1> DEFINE t == Tell(Answer(q), ToldOf(q, "created"))
  <1>1. TypeInv /\ HealthyInv /\ Matched(sq)
    BY DEF ReferencesInv, CauseInv, HealthyInv
  <1>2. /\ Settles(t, q) /\ t.queue = Answer(q).queue
        /\ t.mapped = sq.mapped \cup ItsObjects(q)
        /\ t.told = sq.told \cup ToldOf(q, "created")
    BY <1>1, CreatedSettles DEF Events
  <1> HIDE DEF t
  <1>3. Heard(t, q)
    BY <1>1, <1>2, ToldIsHeard
  <1>4. \A o \in Referable : q \in made[o] <=> o \in ItsObjects(q)
    <2>1. sq.net[q].item.op \in Creations
      BY <1>1 DEF Matched, Matches
    <2> QED
      BY <2>1, CreatorInFlight
  <1>5. ASSUME NEW o \in Referable, q \in made[o],
               NEW x \in DOMAIN t.queue, q \in sq.deps[x]
        PROVE  o \in t.mapped /\ o \notin t.queue[x].refs
    <2> DEFINE objs == ItsObjects(q)
               item == Resolve(sq.queue[x], objs)
    <2>1. x \in DOMAIN sq.queue /\ o \in objs /\ sq.net[q].item.op = "create"
      BY <1>2, <1>4, <1>5, CreatorInFlight DEF Settles
    <2>2. t.queue[x] = Revise(Satisfy(Mapped(q), q), item, objs, ItsRevisions(q))
      BY <1>1, <1>2, <1>5, <2>1, AnswerFields
    <2>3. sq.queue[x] \in Items
      BY <1>1, <2>1, SoundQueue DEF TypeInv
    <2>4. item \in Items /\ o \notin item.refs
      BY <2>1, <2>3, ResolveType DEF Resolve, Items
    <2> HIDE DEF objs, item
    <2>5. t.queue[x].refs \subseteq item.refs
      BY <2>2, <2>4, ReviseKin DEF Kin
    <2> QED
      BY <1>2, <2>1, <2>4, <2>5 DEF objs
  <1>6. Delivers(t, q)
    BY <1>2, <1>3, <1>4, <1>5 DEF Delivers
  <1> QED
    BY <1>6 DEF t

\* A creation that was denied is known to be.
LEMMA DeniedDelivers ==
    ASSUME ReferencesInv, NEW q \in DOMAIN sq.net
    PROVE  Delivers(Tell(Released(q), ToldOf(q, "denied")), q)
  <1> DEFINE t == Tell(Released(q), ToldOf(q, "denied"))
  <1>1. TypeInv /\ HealthyInv
    BY DEF ReferencesInv, CauseInv, HealthyInv
  <1>2. /\ Settles(t, q) /\ t.mapped = sq.mapped
        /\ t.told = sq.told \cup ToldOf(q, "denied")
    BY <1>1, ReleasedSettles DEF Events
  <1> HIDE DEF t
  <1>3. Heard(t, q)
    BY <1>1, <1>2, ToldIsHeard
  <1>4. ASSUME NEW o \in Referable, q \in made[o]
        PROVE  Denied(t, o)
    <2>1. o \in ItsObjects(q)
      BY <1>4, CreatorInFlight
    <2>2. [item |-> q, obj |-> o, event |-> "denied"] \in ToldOf(q, "denied")
      BY <2>1 DEF ToldOf, Notify, ItsObjects
    <2> QED
      BY <1>2, <2>2 DEF Denied
  <1>5. Delivers(t, q)
    BY <1>2, <1>3, <1>4 DEF Delivers
  <1> QED
    BY <1>5 DEF t

\* What waited for a request that failed is gone.
LEMMA FailureDelivers ==
    ASSUME ReferencesInv, NEW q \in DOMAIN sq.net, NEW event \in Events
    PROVE  Delivers(Tell(Fail(Taken(q), {q}), ToldOf(q, event)), q)
  <1> DEFINE t == Tell(Fail(Taken(q), {q}), ToldOf(q, event))
  <1>1. TypeInv /\ HealthyInv /\ Sound(sq, next)
    BY DEF ReferencesInv, CauseInv, HealthyInv, TypeInv
  <1>2. /\ Settles(t, q) /\ t.mapped = sq.mapped /\ ToldOf(q, event) \subseteq t.told
        /\ \A r \in DOMAIN t.queue : q \notin sq.deps[r]
    BY <1>1, FailureSettles DEF ToldOf
  <1> HIDE DEF t
  <1>3. Heard(t, q)
    BY <1>1, <1>2, ToldIsHeard
  <1>4. Delivers(t, q)
    BY <1>2, <1>3 DEF Delivers
  <1> QED
    BY <1>4 DEF t

\* An update or an action creates nothing.
LEMMA OthersDeliver ==
    ASSUME ReferencesInv, NEW q \in DOMAIN sq.net, sq.net[q].item.op \notin Creations,
           NEW t, Settles(t, q), t.mapped = sq.mapped,
           NEW event, t.told = sq.told \cup ToldOf(q, event)
    PROVE  Delivers(t, q)
  <1>1. Heard(t, q)
    BY ToldIsHeard DEF ReferencesInv, CauseInv
  <1>2. \A o \in Referable : q \notin made[o]
    BY CreatorInFlight
  <1> QED
    BY <1>1, <1>2 DEF Delivers

Passes(q) ==
    \E t : Delivers(t, q) /\ (sq' = t \/ \E n \in Nat : sq' = Dequeue(t, n))

\* Every response is delivered to its item and passes the queue on.
LEMMA ResponseDelivers ==
    ASSUME ReferencesInv, NEW q \in QueueIds, HandleResponse(q)
    PROVE  q \in DOMAIN sq.net /\ Passes(q)
  <1>0. TypeInv /\ Matched(sq)
    BY DEF ReferencesInv, CauseInv, HealthyInv
  <1>1. q \in DOMAIN sq.net
    BY DEF HandleResponse, CreationSucceeds, CreationDenied, CreationConflicts,
           UpdateSucceeds, UpdateRejected, ActionRecorded, Answered
  <1>2. ASSUME NEW t, Delivers(t, q), sq' = Dequeue(t, 1)
        PROVE  Passes(q)
    BY <1>2 DEF Passes
  <1>3. CASE CreationSucceeds(q)
    <2> DEFINE t == Tell(Answer(q), ToldOf(q, "created"))
               n == Cardinality(ItsObjects(q))
    <2>1. sq' = Dequeue(t, n)
      BY <1>3 DEF CreationSucceeds, Answer, Mapped, Replaced, ToldOf, ItsObjects, ItsRevisions
    <2>2. Delivers(t, q)
      BY <1>1, <1>3, CreatedDelivers DEF CreationSucceeds, Answered
    <2>3. IsFiniteSet(ItsObjects(q))
      BY <1>0, <1>1, FutureType, ObjectsAssumption, FS_Subset DEF ItsObjects
    <2>4. n \in Nat
      BY <2>3, FS_CardinalityType
    <2> HIDE DEF t, n
    <2> QED
      BY <1>1, <2>1, <2>2, <2>4 DEF Passes
  <1>4. CASE CreationDenied(q)
    <2>1. Delivers(Tell(Released(q), ToldOf(q, "denied")), q)
      BY <1>1, DeniedDelivers
    <2> QED
      BY <1>1, <1>2, <1>4, <2>1 DEF CreationDenied, Released, ToldOf
  <1>5. CASE CreationConflicts(q)
    <2>1. Delivers(Tell(Fail(Taken(q), {q}), ToldOf(q, "createFailed")), q)
      BY <1>1, FailureDelivers DEF Events
    <2> QED
      BY <1>1, <1>2, <1>5, <2>1 DEF CreationConflicts, ToldOf
  <1>6. CASE UpdateSucceeds(q)
    <2> DEFINE t == Tell(NewRevision(Released(q), ItsObjects(q), ItsRevisions(q)),
                         ToldOf(q, "updated"))
    <2>1. /\ Settles(t, q) /\ t.mapped = sq.mapped
          /\ t.told = sq.told \cup ToldOf(q, "updated")
      BY <1>0, <1>1, UpdatedSettles DEF Events
    <2>2. sq' = Dequeue(t, 1)
      BY <1>6 DEF UpdateSucceeds, Released, ToldOf, ItsObjects, ItsRevisions
    <2>3. sq.net[q].item.op \notin Creations
      BY <1>0, <1>1, <1>6 DEF UpdateSucceeds, Answered, Matched, Matches, Creations
    <2> HIDE DEF t
    <2> QED
      BY <1>1, <1>2, <2>1, <2>2, <2>3, OthersDeliver
  <1>7. CASE UpdateRejected(q)
    <2> DEFINE t == Satisfy(Tell(Taken(q), ToldOf(q, "rejected")), q)
    <2>1. /\ Settles(t, q) /\ t.mapped = sq.mapped
          /\ t.told = sq.told \cup ToldOf(q, "rejected")
      BY <1>0, <1>1, RejectedSettles DEF Events
    <2>2. sq' = Dequeue(t, 1)
      BY <1>7 DEF UpdateRejected, ToldOf
    <2>3. sq.net[q].item.op \notin Creations
      BY <1>0, <1>1, <1>7 DEF UpdateRejected, Answered, Matched, Matches, Creations
    <2> HIDE DEF t
    <2> QED
      BY <1>1, <1>2, <2>1, <2>2, <2>3, OthersDeliver
  <1>8. CASE ActionRecorded(q)
    <2> DEFINE t == Tell(Released(q), ToldOf(q, "recorded"))
    <2>1. /\ Settles(t, q) /\ t.mapped = sq.mapped
          /\ t.told = sq.told \cup ToldOf(q, "recorded")
      BY <1>0, <1>1, ReleasedSettles DEF Events
    <2>2. sq' = Dequeue(t, 1)
      BY <1>8 DEF ActionRecorded, Released, ToldOf
    <2>3. sq.net[q].item.op \notin Creations
      BY <1>0, <1>1, <1>8 DEF ActionRecorded, Answered, Matched, Matches, Creations
    <2> HIDE DEF t
    <2> QED
      BY <1>1, <1>2, <2>1, <2>2, <2>3, OthersDeliver
  <1> QED
    BY <1>1, <1>3, <1>4, <1>5, <1>6, <1>7, <1>8 DEF HandleResponse

\* A persistent failure only remembers, on top, that the queue has stopped.
LEMMA RequestFailedDelivers ==
    ASSUME ReferencesInv, NEW q \in QueueIds, NEW persistent \in BOOLEAN,
           RequestFailed(q, persistent)
    PROVE  q \in DOMAIN sq.net /\ Passes(q)
  <1> DEFINE item == sq.net[q].item
             t == Tell(Fail(Taken(q), {q}), ToldOf(q, FailureOf(item)))
             u == [t EXCEPT !.stalled = TRUE]
  <1>1. q \in DOMAIN sq.net
    BY DEF RequestFailed, AttemptLost
  <1>2. FailureOf(item) \in Events
    BY <1>1, FutureType, FailureType DEF ReferencesInv, CauseInv, HealthyInv
  <1>3. Delivers(t, q)
    BY <1>1, <1>2, FailureDelivers
  <1>4. sq' = IF persistent THEN u ELSE Dequeue(t, 1)
    BY DEF RequestFailed, ToldOf
  <1> HIDE DEF t
  <1>5. CASE ~persistent
    BY <1>1, <1>3, <1>4, <1>5 DEF Passes
  <1>6. CASE persistent
    <2>1. /\ u.queue = t.queue /\ u.deps = t.deps /\ u.waiting = t.waiting
          /\ u.mapped = t.mapped /\ u.net = t.net /\ u.dequeueing = t.dequeueing
          /\ u.told = t.told /\ u.again = t.again /\ u.orphaned = t.orphaned
          /\ IsQueue(u) /\ u.stalled = TRUE
      <3>1. IsQueue(t)
        BY <1>3, SoundQueue DEF Delivers, Settles
      <3> QED
        BY <3>1 DEF IsQueue, Fields
    <2>2. sq' = u
      BY <1>4, <1>6
    <2> HIDE DEF u
    <2>3. Sound(u, next)
      BY <1>3, <2>1 DEF Delivers, Settles, Sound, QueueType
    <2>4. \A r : ItemOf(u, r) = ItemOf(t, r) /\ (Heard(u, r) <=> Heard(t, r))
      BY <2>1 DEF ItemOf, Heard
    <2>5. Live(u) = Live(t)
      BY <2>1 DEF Live
    <2>6. Recedes(sq, u)
      BY <1>3, <2>1, <2>4, <2>5 DEF Delivers, Settles, Recedes
    <2>7. Once(sq) => Once(u)
      BY <1>3, <2>1, <2>4, <2>5 DEF Delivers, Settles, Once
    <2>8. Settles(u, q)
      BY <1>3, <2>1, <2>3, <2>4, <2>6, <2>7 DEF Delivers, Settles
    <2>9. Delivers(u, q)
      BY <1>3, <2>1, <2>4, <2>8 DEF Delivers, Denied
    <2> QED
      BY <1>1, <2>2, <2>9 DEF Passes
  <1> QED
    BY <1>5, <1>6

-----------------------------------------------------------------------------
(* What an enqueue does to it. *)

\* t is the queue with the new item: its objects, its references and what it
\* depends on.
Enters(t, item) ==
    /\ next \in Nat /\ next \notin Live(sq) /\ next \notin sq.orphaned
    /\ \A o \in Referable : \A c \in made[o] : c \in Nat /\ c < next
    /\ \A o \in Referable : made'[o] =
            IF Creates(item, o) THEN made[o] \cup {next} ELSE made[o]
    /\ DOMAIN t.queue = DOMAIN sq.queue \cup {next}
    /\ t.queue[next].op = item.op /\ t.queue[next].ids = item.ids
    /\ t.queue[next].refs = Unresolved(sq, item)
    /\ \A q \in DOMAIN sq.queue : t.queue[q] = sq.queue[q] /\ t.deps[q] = sq.deps[q]
    /\ t.deps[next] = Dependencies(sq, next, item)
    /\ Live(t) = Live(sq) \cup {next}
    /\ \A q \in Live(sq) : ItemOf(t, q) = ItemOf(sq, q)
    /\ ItemOf(t, next) = t.queue[next]
    /\ t.waiting = sq.waiting /\ t.mapped = sq.mapped /\ t.net = sq.net
    /\ sq.told \subseteq t.told /\ \A q : q # next /\ Heard(t, q) => Heard(sq, q)
    /\ sq.orphaned \subseteq t.orphaned /\ t.orphaned \subseteq sq.orphaned \cup {next}
    /\ next \in t.orphaned <=> Dangling(sq, item)

\* Enqueueing adds one item with its dependencies and nothing else.
LEMMA EnqueueEnters ==
    ASSUME ReferencesInv, NEW item, Ordered(item), EnqueueItem(item)
    PROVE  Enters(Enqueue(sq, next, item), item)
  <1> DEFINE t == Enqueue(sq, next, item)
  <1>1. /\ next \in Nat /\ Sound(sq, next) /\ item \in Items /\ Single(sq, next, made)
        /\ TypeInv
    BY BoundsAssumption DEF ReferencesInv, CauseInv, HealthyInv, TypeInv, Ordered
  <1>2. /\ DOMAIN t.queue = DOMAIN sq.queue \cup {next} /\ t.queue[next] = Stored(sq, item)
        /\ \A q \in DOMAIN sq.queue : t.queue[q] = sq.queue[q] /\ t.deps[q] = sq.deps[q]
        /\ t.deps[next] = Dependencies(sq, next, item)
        /\ Live(t) = Live(sq) \cup {next}
        /\ \A q \in Live(sq) : ItemOf(t, q) = ItemOf(sq, q)
        /\ ItemOf(t, next) = Stored(sq, item)
        /\ t.waiting = sq.waiting /\ t.mapped = sq.mapped /\ t.net = sq.net
        /\ sq.told \subseteq t.told /\ \A e \in t.told \ sq.told : e.item = next
        /\ sq.orphaned \subseteq t.orphaned /\ t.orphaned \subseteq sq.orphaned \cup {next}
        /\ Dangling(sq, item) => next \in t.orphaned
        /\ ~Dangling(sq, item) => t.orphaned = sq.orphaned
    BY <1>1, EnqueueView
  <1> HIDE DEF t
  <1>3. next \notin Live(sq) /\ next \notin sq.orphaned
    BY <1>1 DEF Sound, Live, ReferencesInv
  <1>4. \A o \in Referable : o \in Objects /\ \A c \in made[o] : c \in Nat /\ c < next
    BY <1>1, ObjectsAssumption, BoundsAssumption DEF TypeInv, QueueIds, Single
  <1>5. \A o \in Referable : made'[o] =
            IF Creates(item, o) THEN made[o] \cup {next} ELSE made[o]
    BY <1>4 DEF EnqueueItem, Creates
  <1>6. /\ t.queue[next].op = item.op /\ t.queue[next].ids = item.ids
        /\ t.queue[next].refs = Unresolved(sq, item)
    BY <1>1, <1>2 DEF Stored, Items
  <1>7. Enters(t, item)
    BY <1>1, <1>2, <1>3, <1>4, <1>5, <1>6 DEF Enters, Heard
  <1> QED
    BY <1>7 DEF t

\* What the order of an item says of what may be referenced.
LEMMA OrderedReferable ==
    ASSUME NEW item, Ordered(item)
    PROVE  /\ item.refs \subseteq Referable
           /\ \A o \in ObjectsOf(item) \cap Referable : item.refs = {} /\ item.op # "bulk"
           /\ item.op \in Creations => item.ids \subseteq {"client"} \X Objects
           /\ \A o \in Referable : Creates(item, o) => Creatable(o) /\ <<"client", o>> \in item.ids
           /\ \A o \in Referable : item.op = "update" /\ <<"client", o>> \in item.ids =>
                item.ids = {<<"client", o>>} /\ \E c \in made[o] : c >= fence
  <1>1. item.op \in Creations => item.ids \subseteq {"client"} \X Objects
    BY DEF Ordered, Creations
  <1>2. ASSUME NEW o \in Referable, Creates(item, o)
        PROVE  Creatable(o) /\ <<"client", o>> \in item.ids
    <2>1. PICK objs \in SUBSET Objects :
              item.ids = {"client"} \X objs /\ \A p \in objs : Creatable(p)
      BY <1>2 DEF Ordered, Creates, Creations
    <2>2. o \in objs
      BY <1>2, <2>1 DEF Creates, ObjectsOf, Obj
    <2> QED
      BY <2>1, <2>2
  <1>3. ASSUME NEW o \in Referable, item.op = "update", <<"client", o>> \in item.ids
        PROVE  item.ids = {<<"client", o>>} /\ \E c \in made[o] : c >= fence
    <2>1. PICK p \in Objects : Local(p) /\ item.ids = {IdOf(p)}
      BY <1>3 DEF Ordered, Creations
    <2>2. IdOf(p) = <<"client", o>>
      BY <1>3, <2>1
    <2>3. p = o /\ IdOf(p)[1] = "client"
      BY <2>2 DEF IdOf
    <2> QED
      BY <2>1, <2>2, <2>3 DEF Local
  <1> QED
    BY <1>1, <1>2, <1>3 DEF Ordered

\* A new creation is found where the earlier ones have ended.
LEMMA FindableEnqueue ==
    ASSUME ReferencesInv, NEW item, Ordered(item), NEW t, Enters(t, item), NEW o \in Referable
    PROVE  /\ Findable(t, made', fence, o)
           /\ \A c \in made[o] :
                c \in Open(t, made', fence, o) <=> c \in Open(sq, made, fence, o)
           /\ Open(sq, made, fence, o) \subseteq Open(t, made', fence, o)
           /\ \A c \in Open(t, made', fence, o) :
                c \in Open(sq, made, fence, o) \/ (c = next /\ Creates(item, o))
  <1>1. /\ Findable(sq, made, fence, o) /\ o \in Objects
        /\ \A q \in DOMAIN sq.queue : q >= fence
        /\ \A q \in made[o] : q \in Nat /\ q < next
        /\ \A q : Heard(sq, q) => Heard(t, q)
        /\ \A q : q # next /\ Heard(t, q) => Heard(sq, q)
    BY ObjectsAssumption DEF ReferencesInv, Referenced, Enters, Heard
  <1>2. next \in Nat /\ next \notin made[o]
    BY <1>1 DEF Enters
  <1>3. made'[o] = IF Creates(item, o) THEN made[o] \cup {next} ELSE made[o]
    BY DEF Enters
  <1>4. \A c \in made[o] :
            c \in Open(t, made', fence, o) <=> c \in Open(sq, made, fence, o)
    BY <1>1, <1>2, <1>3 DEF Open
  <1>5. Open(sq, made, fence, o) \subseteq Open(t, made', fence, o)
    BY <1>4 DEF Open
  <1>6. \A c \in Open(t, made', fence, o) :
            c \in Open(sq, made, fence, o) \/ (c = next /\ Creates(item, o))
    BY <1>3, <1>4 DEF Open
  <1>7. ASSUME NEW c \in made'[o], NEW d \in made'[o], c < d
        PROVE  Heard(t, c)
    <2>1. CASE c \in made[o] /\ d \in made[o]
      BY <1>1, <1>7, <2>1 DEF Findable
    <2>2. CASE c \in made[o] /\ d = next /\ Creates(item, o)
      <3>1. Creatable(o)
        BY <2>2, OrderedReferable
      <3> QED
        BY <1>1, <2>2, <3>1 DEF Creatable, Heard
    <2>3. CASE c = next
      BY <1>1, <1>2, <1>3, <1>7, <2>3
    <2> QED
      BY <1>3, <1>7, <2>1, <2>2, <2>3
  <1>8. made'[o] \cap t.orphaned = {}
    <2>1. Creates(item, o) => ~Dangling(sq, item)
      BY OrderedReferable DEF Dangling, Unresolved, Creates
    <2> QED
      BY <1>1, <1>2, <1>3, <2>1 DEF Findable, Enters
  <1>9. ASSUME NEW q \in Live(t)
        PROVE  q \in made'[o] <=> Creates(ItemOf(t, q), o)
    <2>1. CASE q = next
      <3>1. ItemOf(t, next).op = item.op /\ ItemOf(t, next).ids = item.ids
        BY DEF Enters
      <3>2. Creates(ItemOf(t, next), o) <=> Creates(item, o)
        BY <3>1 DEF Creates, ObjectsOf
      <3> QED
        BY <1>2, <1>3, <2>1, <3>2
    <2>2. CASE q # next
      <3>1. q \in Live(sq) /\ ItemOf(t, q) = ItemOf(sq, q)
        BY <1>9, <2>2 DEF Enters
      <3> QED
        BY <1>1, <1>3, <2>2, <3>1 DEF Findable
    <2> QED
      BY <2>1, <2>2
  <1>10. ASSUME NEW c \in Open(t, made', fence, o)
         PROVE  c \in Creators(t, o)
    <2>1. CASE c \in Open(sq, made, fence, o)
      BY <1>1, <2>1 DEF Findable, Creators, ItemsWithId, Enters
    <2>2. CASE c = next /\ Creates(item, o)
      <3>1. <<"client", o>> \in item.ids /\ item.op # "action"
        BY <2>2, OrderedReferable DEF Creates, Creations
      <3> QED
        BY <2>2, <3>1 DEF Creators, ItemsWithId, Enters
    <2> QED
      BY <1>6, <2>1, <2>2
  <1>11. ASSUME NEW c \in t.waiting[<<"client", o>>]
         PROVE  c \in Open(t, made', fence, o) \ DOMAIN t.queue
    <2>1. c \in Open(sq, made, fence, o) \ DOMAIN sq.queue
      BY <1>1, <1>11 DEF Findable, Enters
    <2>2. c # next
      BY <1>2, <2>1 DEF Open
    <2> QED
      BY <1>5, <2>1, <2>2 DEF Enters
  <1>12. Edited(t, o) # {} => \E c \in made'[o] : c >= fence
    <2>1. CASE next \in Edited(t, o)
      <3>1. item.op = "update" /\ <<"client", o>> \in item.ids
        BY <2>1 DEF Edited, Enters
      <3> QED
        BY <1>3, <3>1, OrderedReferable
    <2>2. CASE next \notin Edited(t, o)
      <3>1. Edited(t, o) \subseteq Edited(sq, o)
        BY <2>2 DEF Edited, Enters
      <3> QED
        BY <1>1, <1>3, <3>1 DEF Findable
    <2> QED
      BY <2>1, <2>2
  <1>13. Findable(t, made', fence, o)
    BY <1>7, <1>8, <1>9, <1>10, <1>11, <1>12 DEF Findable
  <1> QED
    BY <1>4, <1>5, <1>6, <1>13

\* A new creation comes after the hopeless updates.
LEMMA HopelessEnqueue ==
    ASSUME ReferencesInv, NEW item, Ordered(item), NEW t, Enters(t, item),
           NEW o \in Referable, NEW u, Hopeless(sq, made, fence, u, o)
    PROVE  Hopeless(t, made', fence, u, o)
  <1>1. u \in Edited(sq, o) /\ u \in DOMAIN sq.queue
    BY DEF Hopeless, Edited
  <1>2. \A q \in DOMAIN sq.queue : q \in Nat /\ q < next
    BY BoundsAssumption
       DEF ReferencesInv, CauseInv, HealthyInv, TypeInv, Sound, QueueType, Partial, QueueIds
  <1>3. next \in Nat /\ DOMAIN t.queue = DOMAIN sq.queue \cup {next}
    BY DEF Enters
  <1>4. \A x : x # next => (x \in Edited(t, o) <=> x \in Edited(sq, o))
    BY DEF Edited, Enters
  <1>5. ~(next <= u) /\ ~(next < u)
    BY <1>1, <1>2, <1>3
  <1>6. \A c \in Open(t, made', fence, o) : c \in DOMAIN t.queue /\ u < c
    <2> TAKE c \in Open(t, made', fence, o)
    <2>1. c \in Open(sq, made, fence, o) \/ c = next
      BY FindableEnqueue
    <2>2. CASE c \in Open(sq, made, fence, o)
      BY <1>3, <2>2 DEF Hopeless
    <2> QED
      BY <1>1, <1>2, <1>3, <2>1, <2>2
  <1>7. ASSUME NEW v \in Edited(t, o), v <= u
        PROVE  t.deps[v] = {x \in Edited(t, o) : x < v}
    <2>1. v \in Edited(sq, o) /\ v \in DOMAIN sq.queue
      BY <1>4, <1>5, <1>7 DEF Edited
    <2>2. t.deps[v] = {x \in Edited(sq, o) : x < v}
      BY <1>7, <2>1 DEF Hopeless, Enters
    <2>3. ~(next < v) /\ next \notin Edited(sq, o)
      BY <1>2, <1>3, <2>1 DEF Edited
    <2> QED
      BY <1>4, <2>2, <2>3
  <1> QED
    BY <1>1, <1>3, <1>4, <1>5, <1>6, <1>7 DEF Hopeless, Enters

\* What is found under the ClientId of an object is its open creation or an update.
LEMMA FoundUnderClientId ==
    ASSUME ReferencesInv, NEW o \in Referable, NEW p \in Creators(sq, o)
    PROVE  p \in Open(sq, made, fence, o) \/ (p \in Edited(sq, o) /\ p \in DOMAIN sq.queue)
  <1>1. /\ Findable(sq, made, fence, o) /\ Once(sq) /\ QueueType(sq)
        /\ \A q \in DOMAIN sq.queue : q >= fence
    BY DEF ReferencesInv, Referenced, CauseInv, HealthyInv, Healthy, TypeInv, Sound
  <1>2. CASE p \in sq.waiting[<<"client", o>>]
    BY <1>1, <1>2 DEF Findable
  <1>3. CASE /\ p \in DOMAIN sq.queue /\ sq.queue[p].op # "action"
             /\ <<"client", o>> \in sq.queue[p].ids
    <2>1. sq.queue[p].op \in {"create", "bulk", "update", "action"}
      BY <1>1, <1>3 DEF QueueType, Partial, Items
    <2>2. CASE sq.queue[p].op = "update"
      BY <1>3, <2>2 DEF Edited
    <2>3. CASE sq.queue[p].op \in Creations
      <3>1. o \in ObjectsOf(sq.queue[p])
        BY <1>3 DEF ObjectsOf, Obj
      <3>2. p \in made[o]
        BY <1>1, <1>3, <2>3, <3>1 DEF Findable, Live, ItemOf, Creates
      <3>3. ~Heard(sq, p)
        BY <1>1, <1>3, <3>2 DEF Findable, Once, Live
      <3> QED
        BY <1>1, <1>3, <3>2, <3>3 DEF Open
    <2> QED
      BY <1>3, <2>1, <2>2, <2>3 DEF Creations
  <1> QED
    BY <1>2, <1>3 DEF Creators, ItemsWithId

\* A new update under a ClientId waits for the open creation, or is hopeless.
LEMMA NewEditWaits ==
    ASSUME ReferencesInv, NEW item, Ordered(item), NEW t, Enters(t, item),
           NEW o \in Referable \ sq.mapped, next \in Edited(t, o)
    PROVE  \/ Denied(sq, o) \/ Awaits(t, made', fence, next, o)
           \/ Hopeless(t, made', fence, next, o)
  <1>1. item.op = "update" /\ <<"client", o>> \in item.ids
    BY DEF Edited, Enters
  <1>2. item.ids = {<<"client", o>>} /\ item.refs = {}
    BY <1>1, OrderedReferable DEF ObjectsOf, Obj
  <1>3. t.deps[next] = Creators(sq, o) \ {next}
    <2>1. Unresolved(sq, item) = {} /\ ~Dangling(sq, item)
      BY <1>2 DEF Unresolved, Dangling
    <2>2. UpdateDependencies(sq, <<"client", o>>) = Creators(sq, o)
      <3>1. Obj(<<"client", o>>) = o
        BY DEF Obj
      <3> QED
        BY <3>1 DEF UpdateDependencies, Creators
    <2>3. Dependencies(sq, next, item) = Creators(sq, o) \ {next}
      BY <1>1, <1>2, <2>1, <2>2 DEF Dependencies
    <2> QED
      BY <2>3 DEF Enters
  <1>4. Findable(sq, made, fence, o) /\ next \notin made[o] /\ next \in Nat
    BY DEF ReferencesInv, Referenced, Enters
  <1>5. \A q \in DOMAIN sq.queue : q \in Nat /\ q < next
    BY BoundsAssumption
       DEF ReferencesInv, CauseInv, HealthyInv, TypeInv, Sound, QueueType, Partial, QueueIds
  <1>6. CASE Open(sq, made, fence, o) # {}
    <2>1. PICK c : c \in Open(sq, made, fence, o)
      BY <1>6
    <2>2. c \in t.deps[next]
      BY <1>3, <1>4, <2>1 DEF Findable, Open
    <2>3. c \in Open(t, made', fence, o)
      BY <2>1, FindableEnqueue
    <2> QED
      BY <2>2, <2>3 DEF Awaits
  <1>7. CASE Open(sq, made, fence, o) = {} /\ ~Denied(sq, o)
    <2>1. Open(t, made', fence, o) = {}
      BY <1>1, <1>7, FindableEnqueue DEF Creates, Creations
    <2>2. Creators(sq, o) = Edited(sq, o)
      BY <1>7, FoundUnderClientId DEF Edited, Creators, ItemsWithId
    <2>3. /\ \A x : x # next => (x \in Edited(t, o) <=> x \in Edited(sq, o))
          /\ next \notin Edited(sq, o)
          /\ \A x \in Edited(sq, o) : x \in DOMAIN sq.queue
      BY <1>5 DEF Edited, Enters
    <2>4. ASSUME NEW v \in Edited(t, o)
          PROVE  t.deps[v] = {x \in Edited(t, o) : x < v}
      <3>1. CASE v = next
        <4>1. t.deps[v] = Edited(sq, o)
          BY <1>3, <2>2, <2>3, <3>1
        <4>2. ASSUME NEW x \in Edited(t, o)
              PROVE  x \in Edited(sq, o) <=> x < next
          <5>1. CASE x = next
            BY <1>4, <2>3, <5>1
          <5>2. CASE x # next
            BY <1>5, <2>3, <4>2, <5>2
          <5> QED
            BY <5>1, <5>2
        <4>3. \A x \in Edited(sq, o) : x \in Edited(t, o)
          BY <1>4, <1>5, <2>3
        <4> QED
          BY <3>1, <4>1, <4>2, <4>3
      <3>2. CASE v # next
        <4>1. v \in Edited(sq, o) /\ v \in DOMAIN sq.queue
          BY <2>3, <2>4, <3>2
        <4>2. ~Awaits(sq, made, fence, v, o)
          BY <1>7 DEF Awaits
        <4>3. Hopeless(sq, made, fence, v, o)
          BY <1>7, <4>1, <4>2 DEF ReferencesInv, Referenced, EditsWait
        <4>4. sq.deps[v] = {x \in Edited(sq, o) : x < v}
          BY <1>5, <4>1, <4>3 DEF Hopeless
        <4>5. t.deps[v] = sq.deps[v] /\ ~(next < v)
          BY <1>4, <1>5, <4>1 DEF Enters
        <4> QED
          BY <2>3, <4>4, <4>5
      <3> QED
        BY <3>1, <3>2
    <2>5. o \notin t.mapped
      BY DEF Enters
    <2> QED
      BY <2>1, <2>4, <2>5 DEF Hopeless
  <1> QED
    BY <1>6, <1>7

\* A new workflow waits for the creation of what it references, if that is known.
LEMMA NewWorkflowWaits ==
    ASSUME ReferencesInv, NEW item, Ordered(item), NEW t, Enters(t, item),
           next \notin t.orphaned, NEW o \in t.queue[next].refs
    PROVE  \/ Denied(sq, o) \/ Awaits(t, made', fence, next, o)
           \/ \E u \in t.deps[next] : Hopeless(t, made', fence, u, o)
  <1>1. /\ o \in Unresolved(sq, item) /\ o \in Referable \ sq.mapped
        /\ ~Dangling(sq, item)
    BY OrderedReferable DEF Enters, Unresolved
  <1>2. PICK p : p \in Creators(sq, o)
    BY <1>1 DEF Dangling
  <1>3. \A q \in Creators(sq, o) : q \in t.deps[next] \/ q = next
    BY <1>1 DEF Dependencies, Enters
  <1>4. next \notin made[o] /\ next \notin DOMAIN sq.queue
    BY <1>1 DEF Enters, Live
  <1>5. Findable(sq, made, fence, o)
    BY <1>1 DEF ReferencesInv, Referenced
  <1>6. ASSUME NEW c \in Open(sq, made, fence, o)
        PROVE  Awaits(t, made', fence, next, o)
    <2>1. c \in t.deps[next]
      BY <1>3, <1>4, <1>5, <1>6 DEF Findable, Open
    <2>2. c \in Open(t, made', fence, o)
      BY <1>1, <1>6, FindableEnqueue
    <2> QED
      BY <2>1, <2>2 DEF Awaits
  <1>7. CASE p \in Edited(sq, o) /\ p \in DOMAIN sq.queue
    <2>1. \/ Denied(sq, o) \/ Awaits(sq, made, fence, p, o)
          \/ Hopeless(sq, made, fence, p, o)
      BY <1>1, <1>7 DEF ReferencesInv, Referenced, EditsWait
    <2>2. CASE Awaits(sq, made, fence, p, o)
      BY <1>6, <2>2 DEF Awaits
    <2>3. CASE Hopeless(sq, made, fence, p, o)
      <3>1. p \in t.deps[next]
        BY <1>2, <1>3, <1>4, <1>7
      <3> QED
        BY <1>1, <2>3, <3>1, HopelessEnqueue
    <2> QED
      BY <2>1, <2>2, <2>3
  <1> QED
    BY <1>1, <1>2, <1>6, <1>7, FoundUnderClientId

\* Who is enqueued waits for the open creations of what it references.
LEMMA EnqueueReferences ==
    ASSUME ReferencesInv, NEW item, Ordered(item), NEW t, Enters(t, item)
    PROVE  Referenced(t, made', fence)
  <1>1. Referenced(sq, made, fence) /\ fence <= next /\ next \in Nat
    BY DEF ReferencesInv, CauseInv, Enters
  <1>2. \A q \in DOMAIN t.queue : q >= fence
    BY <1>1, BoundsAssumption DEF Referenced, Enters, ReferencesInv, CauseInv, HealthyInv, TypeInv
  <1>3. Kinds(t)
    <2> SUFFICES ASSUME NEW q \in Live(t)
                 PROVE  /\ ItemOf(t, q).refs \subseteq Referable
                        /\ \A o \in ObjectsOf(ItemOf(t, q)) \cap Referable :
                                ItemOf(t, q).refs = {} /\ ItemOf(t, q).op # "bulk"
                        /\ ItemOf(t, q).op \in Creations =>
                                ItemOf(t, q).ids \subseteq {"client"} \X Objects
      BY DEF Kinds
    <2>1. CASE q = next
      <3>1. /\ ItemOf(t, q).op = item.op /\ ItemOf(t, q).ids = item.ids
            /\ ItemOf(t, q).refs \subseteq item.refs
        BY <2>1 DEF Enters, Unresolved
      <3>2. ObjectsOf(ItemOf(t, q)) = ObjectsOf(item)
        BY <3>1 DEF ObjectsOf
      <3> QED
        BY <3>1, <3>2, OrderedReferable
    <2>2. CASE q # next
      <3>1. q \in Live(sq) /\ ItemOf(t, q) = ItemOf(sq, q)
        BY <2>2 DEF Enters
      <3> QED
        BY <1>1, <3>1 DEF Referenced, Kinds
    <2> QED
      BY <2>1, <2>2
  <1>4. \A o \in Referable : Findable(t, made', fence, o)
    BY FindableEnqueue
  <1>5. \A o : Denied(sq, o) => Denied(t, o)
    BY DEF Denied, Enters
  <1>6. ASSUME NEW x \in DOMAIN sq.queue, NEW o \in Referable, Awaits(sq, made, fence, x, o)
        PROVE  Awaits(t, made', fence, x, o)
    BY <1>6, FindableEnqueue DEF Awaits, Enters
  <1>7. EditsWait(t, made', fence)
    <2> SUFFICES ASSUME NEW o \in Referable \ t.mapped, NEW u \in Edited(t, o)
                 PROVE  \/ Denied(t, o) \/ Awaits(t, made', fence, u, o)
                        \/ Hopeless(t, made', fence, u, o)
      BY DEF EditsWait
    <2>1. o \in Referable \ sq.mapped
      BY DEF Enters
    <2>2. CASE u = next
      BY <1>5, <2>1, <2>2, NewEditWaits
    <2>3. CASE u # next
      <3>1. u \in Edited(sq, o) /\ u \in DOMAIN sq.queue
        BY <2>3 DEF Edited, Enters
      <3> QED
        BY <1>1, <1>5, <1>6, <2>1, <3>1, HopelessEnqueue DEF Referenced, EditsWait
    <2> QED
      BY <2>2, <2>3
  <1>8. WorkflowsWait(t, made', fence)
    <2> SUFFICES ASSUME NEW w \in DOMAIN t.queue \ t.orphaned, NEW o \in t.queue[w].refs
                 PROVE  \/ Denied(t, o) \/ Awaits(t, made', fence, w, o)
                        \/ \E u \in t.deps[w] : Hopeless(t, made', fence, u, o)
      BY DEF WorkflowsWait
    <2>1. CASE w = next
      BY <1>5, <2>1, NewWorkflowWaits
    <2>2. CASE w # next
      <3>1. /\ w \in DOMAIN sq.queue \ sq.orphaned /\ o \in sq.queue[w].refs
            /\ t.deps[w] = sq.deps[w]
        BY <2>2 DEF Enters
      <3>2. o \in Referable
        BY <1>1, <3>1 DEF Referenced, Kinds, Live, ItemOf
      <3> QED
        BY <1>1, <1>5, <1>6, <3>1, <3>2, HopelessEnqueue DEF Referenced, WorkflowsWait
    <2> QED
      BY <2>1, <2>2
  <1>9. SentResolved(t)
    BY <1>1, <1>5 DEF SentResolved, Referenced, Enters
  <1> QED
    BY <1>2, <1>3, <1>4, <1>7, <1>8, <1>9 DEF Referenced

-----------------------------------------------------------------------------
(* Every step keeps it. *)

\* The same items, of which the same has been told.
LEMMA SameReferences ==
    ASSUME NEW s, NEW m, NEW f, Referenced(s, m, f),
           DOMAIN s.queue \cap DOMAIN s.net = {}, NEW t,
           t.queue = s.queue, t.deps = s.deps, t.waiting = s.waiting,
           t.mapped = s.mapped, t.told = s.told, t.orphaned = s.orphaned,
           DOMAIN t.net = DOMAIN s.net,
           \A q \in DOMAIN s.net : t.net[q].item = s.net[q].item
    PROVE  Referenced(t, m, f)
  <1>1. Live(t) = Live(s)
    BY DEF Live
  <1>2. \A q \in Live(s) : ItemOf(t, q) = ItemOf(s, q)
    BY DEF Live, ItemOf
  <1>3. \A o : /\ Edited(t, o) = Edited(s, o) /\ Creators(t, o) = Creators(s, o)
               /\ Open(t, m, f, o) = Open(s, m, f, o)
               /\ Denied(t, o) <=> Denied(s, o)
    BY DEF Edited, Creators, ItemsWithId, Open, Heard, Denied
  <1>4. Kinds(t)
    BY <1>1, <1>2 DEF Referenced, Kinds
  <1>5. \A o \in Referable : Findable(t, m, f, o)
    BY <1>1, <1>2, <1>3 DEF Referenced, Findable, Heard
  <1>6. \A q, o : /\ Awaits(t, m, f, q, o) <=> Awaits(s, m, f, q, o)
                  /\ Hopeless(t, m, f, q, o) <=> Hopeless(s, m, f, q, o)
    BY <1>3 DEF Awaits, Hopeless
  <1>7. EditsWait(t, m, f) /\ WorkflowsWait(t, m, f) /\ SentResolved(t)
    BY <1>3, <1>6 DEF Referenced, EditsWait, WorkflowsWait, SentResolved
  <1> QED
    BY <1>4, <1>5, <1>7 DEF Referenced

\* A step that only moves a request changes no reference.
LEMMA QuietReferences ==
    ASSUME ReferencesInv, Quiet, UNCHANGED <<next, made, fence>>
    PROVE  Referenced(sq, made, fence)' /\ \A q \in sq'.orphaned : q < next'
  <1> DEFINE t == sq'
  <1>1. /\ t.queue = sq.queue /\ t.deps = sq.deps /\ t.waiting = sq.waiting
        /\ t.mapped = sq.mapped /\ t.told = sq.told /\ t.orphaned = sq.orphaned
        /\ DOMAIN t.net = DOMAIN sq.net
        /\ \A q \in DOMAIN sq.net : t.net[q].item = sq.net[q].item
        /\ next' = next /\ made' = made /\ fence' = fence
    BY DEF Quiet
  <1> HIDE DEF t
  <1>2. Referenced(sq, made, fence) /\ DOMAIN sq.queue \cap DOMAIN sq.net = {}
    BY DEF ReferencesInv, CauseInv, HealthyInv, TypeInv, Sound
  <1>3. Referenced(t, made, fence)
    BY <1>1, <1>2, SameReferences
  <1> QED
    BY <1>1, <1>3 DEF t, ReferencesInv

\* Starting to dequeue keeps the invariant.
LEMMA BegunReferences ==
    ASSUME ReferencesInv, sq' = Dequeue(Begun, 1), UNCHANGED <<next, made, fence>>
    PROVE  Referenced(sq, made, fence)' /\ \A q \in sq'.orphaned : q < next'
  <1> DEFINE t == Begun
  <1>0. /\ TypeInv /\ Healthy(sq, next) /\ Referenced(sq, made, fence)
        /\ DOMAIN sq.queue \cap DOMAIN sq.net = {}
    BY DEF ReferencesInv, CauseInv, HealthyInv, TypeInv, Sound
  <1>1. /\ Sound(t, next) /\ t.net = sq.net
        /\ t.queue = sq.queue /\ t.deps = sq.deps /\ t.waiting = sq.waiting
        /\ t.mapped = sq.mapped /\ t.told = sq.told /\ t.again = sq.again
        /\ t.orphaned = sq.orphaned
    BY <1>0, BegunFields
  <1>2. sq' = Dequeue(t, 1)
    OBVIOUS
  <1> HIDE DEF t
  <1>3. Recedes(sq, t) /\ Live(t) = Live(sq)
    BY <1>1, StillRecedes
  <1>4. Once(t)
    BY <1>0, <1>1, <1>3, OnceKept DEF Healthy
  <1>5. \A id \in Ids : \A q \in t.waiting[id] : q < next
    BY <1>0, <1>1 DEF Healthy
  <1>6. Healthy(t, next)
    BY <1>0, <1>1, <1>3, <1>4, <1>5, RecedesHealthy
  <1>7. Referenced(t, made, fence)
    BY <1>0, <1>1, SameReferences
  <1>8. Referenced(Dequeue(t, 1), made, fence)
    BY <1>1, <1>6, <1>7, DequeueReferences
  <1>9. Dequeue(t, 1).orphaned = sq.orphaned
    BY <1>1, DequeueRecedes DEF Recedes
  <1> QED
    BY <1>2, <1>8, <1>9 DEF ReferencesInv

\* Answering, then dequeueing, keeps the invariant.
LEMMA SettledReferences ==
    ASSUME ReferencesInv, NEW q \in DOMAIN sq.net, Passes(q), UNCHANGED <<next, made, fence>>
    PROVE  Referenced(sq, made, fence)' /\ \A r \in sq'.orphaned : r < next'
  <1>1. PICK t : Delivers(t, q) /\ (sq' = t \/ \E n \in Nat : sq' = Dequeue(t, n))
    BY DEF Passes
  <1>2. Settles(t, q) /\ Sound(t, next) /\ Recedes(sq, t)
    BY <1>1 DEF Delivers, Settles
  <1>3. Healthy(t, next)
    BY <1>2, SettlesHealthy DEF ReferencesInv, CauseInv, HealthyInv
  <1>4. Referenced(t, made, fence)
    BY <1>1, SettlesReferences
  <1>5. t.orphaned = sq.orphaned
    BY <1>2 DEF Recedes
  <1>6. CASE sq' = t
    BY <1>4, <1>5, <1>6 DEF ReferencesInv
  <1>7. ASSUME NEW n \in Nat, sq' = Dequeue(t, n)
        PROVE  Referenced(sq, made, fence)' /\ \A r \in sq'.orphaned : r < next'
    <2>1. Referenced(Dequeue(t, n), made, fence)
      BY <1>2, <1>3, <1>4, DequeueReferences
    <2>2. Dequeue(t, n).orphaned = sq.orphaned
      BY <1>2, <1>5, DequeueRecedes DEF Recedes
    <2> QED
      BY <1>7, <2>1, <2>2 DEF ReferencesInv
  <1> QED
    BY <1>1, <1>6, <1>7

\* Enqueueing, then dequeueing, keeps the invariant.
LEMMA EnqueueItemReferences ==
    ASSUME ReferencesInv, NEW item, Ordered(item), EnqueueItem(item)
    PROVE  Referenced(sq, made, fence)' /\ \A q \in sq'.orphaned : q < next'
  <1> DEFINE t == Enqueue(sq, next, item)
  <1>1. /\ sq' = Dequeue(t, 1) /\ next' = next + 1 /\ fence' = fence
        /\ next \in QueueIds /\ next \in Nat
    BY BoundsAssumption
       DEF EnqueueItem, ReferencesInv, CauseInv, HealthyInv, TypeInv, QueueIds
  <1>2. Sound(sq, next) /\ Healthy(sq, next) /\ item \in Items /\ item.ids # {}
    BY OrderedHasIds DEF ReferencesInv, CauseInv, HealthyInv, TypeInv, Ordered
  <1>3. Sound(t, next + 1)
    BY <1>1, <1>2, EnqueueSound
  <1>4. Healthy(t, next + 1)
    BY <1>1, <1>2, EnqueueHealthy
  <1>5. Enters(t, item)
    BY EnqueueEnters
  <1> HIDE DEF t
  <1>6. Referenced(t, made', fence)
    BY <1>5, EnqueueReferences
  <1>7. Referenced(Dequeue(t, 1), made', fence)
    BY <1>3, <1>4, <1>6, DequeueReferences
  <1>8. Dequeue(t, 1).orphaned = t.orphaned
    BY <1>3, DequeueRecedes DEF Recedes
  <1>9. \A q \in t.orphaned : q < next + 1
    <2>1. sq.orphaned \subseteq Nat
      BY <1>2, BoundsAssumption DEF Sound, QueueType, QueueIds
    <2> QED
      BY <1>1, <1>5, <2>1 DEF Enters, ReferencesInv
  <1> QED
    BY <1>1, <1>7, <1>8, <1>9

\* A logout leaves what is in flight, and nothing that waits.
LEMMA ClearReferences ==
    ASSUME ReferencesInv, Clear
    PROVE  Referenced(sq, made, fence)' /\ \A q \in sq'.orphaned : q < next'
  <1> DEFINE t == sq'
  <1>0. TypeInv /\ Single(sq, next, made) /\ Referenced(sq, made, fence)
    BY DEF ReferencesInv, CauseInv, HealthyInv
  <1>1. /\ DOMAIN t.queue = {} /\ t.net = sq.net /\ t.waiting = [id \in Ids |-> {}]
        /\ t.told = sq.told /\ t.orphaned = sq.orphaned
        /\ next' = next /\ made' = made /\ fence' = next
    BY <1>0, ClearFields DEF Clear
  <1>2. DOMAIN sq.queue \cap DOMAIN sq.net = {}
    BY <1>0 DEF TypeInv, Sound
  <1> HIDE DEF t
  <1>3. Live(t) = DOMAIN sq.net /\ DOMAIN sq.net \subseteq Live(sq)
    BY <1>1 DEF Live
  <1>4. \A q \in DOMAIN sq.net : ItemOf(t, q) = ItemOf(sq, q)
    BY <1>1, <1>2 DEF ItemOf
  <1>5. ASSUME NEW o \in Referable
        PROVE  Findable(t, made, next, o)
    <2>1. Findable(sq, made, fence, o) /\ o \in Objects
      BY <1>0, ObjectsAssumption DEF Referenced
    <2>2. Open(t, made, next, o) = {}
      <3>1. next \in Nat /\ \A c \in made[o] : c \in Nat /\ c < next
        BY <1>0, <2>1, BoundsAssumption DEF TypeInv, QueueIds, Single
      <3>2. \A c \in made[o] : ~(c >= next)
        BY <3>1
      <3> QED
        BY <3>2 DEF Open
    <2>3. t.waiting[<<"client", o>>] = {} /\ Edited(t, o) = {}
      BY <1>1, <2>1 DEF Ids, Edited
    <2>4. \A q : Heard(t, q) <=> Heard(sq, q)
      BY <1>1 DEF Heard
    <2> QED
      BY <1>1, <1>3, <1>4, <2>1, <2>2, <2>3, <2>4 DEF Findable
  <1>6. Kinds(t)
    BY <1>0, <1>3, <1>4 DEF Referenced, Kinds
  <1>7. EditsWait(t, made, next) /\ WorkflowsWait(t, made, next)
    BY <1>1 DEF EditsWait, WorkflowsWait, Edited
  <1>8. SentResolved(t)
    BY <1>0, <1>1 DEF Referenced, SentResolved, Denied
  <1>9. Referenced(t, made, next)
    BY <1>1, <1>5, <1>6, <1>7, <1>8 DEF Referenced
  <1> QED
    BY <1>1, <1>9 DEF t, ReferencesInv

\* The invariant is inductive.
LEMMA NextReferences ==
    ASSUME ReferencesInv, [Next]_vars
    PROVE  ReferencesInv'
  <1>0. TypeInv /\ CauseInv /\ CauseInv'
    BY NextCause DEF ReferencesInv, CauseInv, HealthyInv
  <1>1. CASE Enqueues
    <2>1. PICK item : Ordered(item) /\ EnqueueItem(item)
      BY <1>0, <1>1, EnqueuesOrder
    <2> QED
      BY <1>0, <2>1, EnqueueItemReferences DEF ReferencesInv
  <1>2. CASE Clear
    BY <1>0, <1>2, ClearReferences DEF ReferencesInv
  <1>3. CASE Quiet /\ UNCHANGED <<next, made, fence, clears>>
    BY <1>0, <1>3, QuietReferences DEF ReferencesInv
  <1>4. CASE sq' = Dequeue(Begun, 1) /\ UNCHANGED <<next, made, fence, clears>>
    BY <1>0, <1>4, BegunReferences DEF ReferencesInv
  <1>5. ASSUME NEW q \in QueueIds,
               HandleResponse(q) \/ \E persistent \in BOOLEAN : RequestFailed(q, persistent)
        PROVE  ReferencesInv'
    <2>1. UNCHANGED <<next, made, fence>> /\ q \in DOMAIN sq.net /\ Passes(q)
      BY <1>5, AnswersChangeNoIds, ResponseDelivers, RequestFailedDelivers
    <2> QED
      BY <1>0, <2>1, SettledReferences DEF ReferencesInv
  <1> QED
    BY <1>0, <1>1, <1>2, <1>3, <1>4, <1>5, StepsAndAnswers

\* At startup a workflow waits for the creations that are queued with it.
LEMMA StartReferences ==
    ASSUME NEW n \in Nat, NEW m \in Nat, NEW edits \in StartRows(n), NEW items,
           StartsWith(items, n, m, edits), NEW made0,
           made0 = [o \in Objects |-> {i \in 1..n : edits[i] = o /\ o \notin Existing}]
    PROVE  Referenced(NewQueue(items), made0, 1)
  <1> DEFINE t == NewQueue(items)
             e == Empty(items)
  <1>1. /\ t.queue = items /\ DOMAIN t.net = {} /\ t.told = {} /\ t.orphaned = {}
        /\ t.waiting = [id \in Ids |-> {}]
        /\ t.deps = [q \in DOMAIN items |-> Dependencies(e, q, items[q])]
    BY NewQueueFields
  <1>2. e.queue = items /\ e.mapped = {}
    BY DEF Empty
  <1> HIDE DEF t, e
  <1>3. /\ edits \in [1..n -> Objects]
        /\ \A i, j \in 1..n : edits[i] = edits[j] => i = j
    BY DEF StartRows
  <1>4. /\ DOMAIN items = 1..(n + m) /\ 1..n \subseteq DOMAIN items
        /\ \A q \in DOMAIN items : q >= 1
        /\ \A q \in DOMAIN items : q \notin 1..n => items[q].op = "action" /\ items[q].refs = {}
    BY DEF StartsWith
  <1>5. ASSUME NEW q \in 1..n
        PROVE  /\ items[q].op = IF edits[q] \in Existing THEN "update" ELSE "create"
               /\ edits[q] \in Existing => items[q].ids = {<<"server", edits[q]>>}
               /\ edits[q] \notin Existing => items[q].ids = {<<"client", edits[q]>>}
               /\ ObjectsOf(items[q]) = {edits[q]} /\ edits[q] \in Objects
               /\ edits[q] \in Referable => items[q].refs = {}
               /\ items[q].refs \subseteq Referable \cap ({edits[i] : i \in 1..n} \ Existing)
    <2> DEFINE own == <<IF edits[q] \in Existing THEN "server" ELSE "client", edits[q]>>
    <2>1. /\ items[q].op = IF edits[q] \in Existing THEN "update" ELSE "create"
          /\ items[q].ids = {own} /\ own[2] = edits[q]
          /\ edits[q] \notin Workflows => items[q].refs = {}
          /\ items[q].refs \subseteq Referable \cap ({edits[i] : i \in 1..n} \ Existing)
      BY DEF StartsWith
    <2>2. /\ edits[q] \in Existing => own = <<"server", edits[q]>>
          /\ edits[q] \notin Existing => own = <<"client", edits[q]>>
      OBVIOUS
    <2> HIDE DEF own
    <2>3. ObjectsOf(items[q]) = {edits[q]}
      BY <2>1 DEF ObjectsOf, Obj
    <2> QED
      BY <1>3, <2>1, <2>2, <2>3, ObjectsAssumption
  <1>6. Live(t) = DOMAIN items /\ \A q \in DOMAIN items : ItemOf(t, q) = items[q]
    BY <1>1 DEF Live, ItemOf
  <1>7. Kinds(t)
    <2> SUFFICES ASSUME NEW q \in DOMAIN items
                 PROVE  /\ items[q].refs \subseteq Referable
                        /\ \A o \in ObjectsOf(items[q]) \cap Referable :
                                items[q].refs = {} /\ items[q].op # "bulk"
                        /\ items[q].op \in Creations =>
                                items[q].ids \subseteq {"client"} \X Objects
      BY <1>6 DEF Kinds
    <2>1. CASE q \in 1..n
      BY <1>5, <2>1 DEF Creations
    <2>2. CASE q \notin 1..n
      BY <1>4, <2>2 DEF Creations
    <2> QED
      BY <2>1, <2>2
  <1>8. ASSUME NEW o \in Referable
        PROVE  /\ o \in Objects
               /\ \A c \in made0[o] : c \in 1..n /\ edits[c] = o /\ o \notin Existing
               /\ \A c \in 1..n : edits[c] = o /\ o \notin Existing => c \in made0[o]
    BY ObjectsAssumption
  <1>9. ASSUME NEW o \in Referable, NEW c \in made0[o]
        PROVE  /\ c \in DOMAIN items /\ c >= 1 /\ c \in Open(t, made0, 1, o)
               /\ c \in Creators(t, o) /\ c \in Creators(e, o)
    <2>1. c \in 1..n /\ edits[c] = o /\ o \notin Existing
      BY <1>8
    <2>2. c \in DOMAIN items /\ items[c].op = "create" /\ items[c].ids = {<<"client", o>>}
      BY <1>4, <1>5, <2>1
    <2>3. ~Heard(t, c)
      BY <1>1 DEF Heard
    <2> QED
      BY <1>1, <1>2, <2>1, <2>2, <2>3 DEF Creators, ItemsWithId, Open
  <1>10. ASSUME NEW o
         PROVE  Edited(t, o) = {}
    <2> SUFFICES ASSUME NEW u \in DOMAIN items, items[u].op = "update",
                        <<"client", o>> \in items[u].ids
                 PROVE  FALSE
      BY <1>1 DEF Edited
    <2>1. u \in 1..n
      BY <1>4
    <2>2. items[u].ids = {<<"server", edits[u]>>}
      BY <1>5, <2>1
    <2> QED
      BY <2>2
  <1>11. ASSUME NEW o \in Referable
         PROVE  Findable(t, made0, 1, o)
    <2>1. \A c, d \in made0[o] : ~(c < d)
      <3>1. \A c, d \in made0[o] : c = d /\ c \in 1..n
        BY <1>3, <1>8
      <3> QED
        BY <3>1
    <2>2. ASSUME NEW q \in DOMAIN items
          PROVE  q \in made0[o] <=> Creates(items[q], o)
      <3>1. CASE q \in 1..n
        BY <1>5, <1>8, <3>1 DEF Creates, Creations
      <3>2. CASE q \notin 1..n
        BY <1>4, <1>8, <3>2 DEF Creates, Creations
      <3> QED
        BY <3>1, <3>2
    <2>3. Open(t, made0, 1, o) \subseteq Creators(t, o)
      BY <1>9 DEF Open
    <2>4. t.waiting[<<"client", o>>] = {}
      BY <1>1, <1>8 DEF Ids
    <2>5. \A c, d \in made0[o] : c < d => Heard(t, c)
      BY <2>1
    <2>6. made0[o] \cap t.orphaned = {}
      BY <1>1
    <2>7. \A q \in Live(t) : q \in made0[o] <=> Creates(ItemOf(t, q), o)
      BY <1>6, <2>2
    <2>8. Edited(t, o) = {}
      BY <1>10
    <2> QED
      BY <2>3, <2>4, <2>5, <2>6, <2>7, <2>8 DEF Findable
  <1>12. WorkflowsWait(t, made0, 1)
    <2> SUFFICES ASSUME NEW w \in DOMAIN items, NEW o \in items[w].refs
                 PROVE  Awaits(t, made0, 1, w, o)
      BY <1>1 DEF WorkflowsWait
    <2>1. w \in 1..n /\ edits[w] \notin Referable
      BY <1>4, <1>5
    <2>2. \A r \in items[w].refs : r \in Referable /\ \E i \in made0[r] : TRUE
      BY <1>5, <1>8, <2>1
    <2>3. ~Dangling(e, items[w]) /\ o \in Unresolved(e, items[w])
      BY <1>2, <1>9, <2>2 DEF Dangling, Unresolved
    <2>4. PICK i \in made0[o] : i # w
      BY <1>8, <2>1, <2>2
    <2>5. i \in Creators(e, o) /\ i \in Open(t, made0, 1, o)
      BY <1>9, <2>2
    <2>6. i \in t.deps[w]
      BY <1>1, <2>3, <2>4, <2>5 DEF Dependencies
    <2> QED
      BY <2>5, <2>6 DEF Awaits
  <1>13. EditsWait(t, made0, 1) /\ SentResolved(t)
    BY <1>1, <1>10 DEF EditsWait, SentResolved
  <1>14. Referenced(t, made0, 1)
    BY <1>1, <1>4, <1>7, <1>11, <1>12, <1>13 DEF Referenced
  <1> QED
    BY <1>14 DEF t

\* The queue found in SQLite satisfies the invariant.
LEMMA InitReferences ==
    ASSUME Init
    PROVE  ReferencesInv
  <1>1. PICK n \in 0..MaxStart : \E m \in 0..(MaxStart - n) :
            \E edits \in StartRows(n), reports \in [1..m -> Reported], linked \in BOOLEAN :
                /\ sq = NewQueue(StartQueue(edits, reports, linked))
                /\ made = [o \in Objects |->
                            {i \in 1..n : edits[i] = o /\ o \notin Existing}]
    BY DEF Init
  <1>2. PICK m \in 0..(MaxStart - n) :
            \E edits \in StartRows(n), reports \in [1..m -> Reported], linked \in BOOLEAN :
                /\ sq = NewQueue(StartQueue(edits, reports, linked))
                /\ made = [o \in Objects |->
                            {i \in 1..n : edits[i] = o /\ o \notin Existing}]
    BY <1>1
  <1>3. PICK edits \in StartRows(n), reports \in [1..m -> Reported], linked \in BOOLEAN :
            /\ sq = NewQueue(StartQueue(edits, reports, linked))
            /\ made = [o \in Objects |-> {i \in 1..n : edits[i] = o /\ o \notin Existing}]
    BY <1>2
  <1>4. n \in Nat /\ m \in Nat /\ n + m <= MaxStart
    BY BoundsAssumption
  <1> DEFINE items == StartQueue(edits, reports, linked)
  <1>5. StartsWith(items, n, m, edits)
    BY <1>4, StartItems
  <1>6. sq = NewQueue(items)
    BY <1>3
  <1> HIDE DEF items
  <1>7. Referenced(sq, made, 1)
    BY <1>3, <1>4, <1>5, <1>6, StartReferences
  <1>8. sq.orphaned = {}
    BY <1>6, NewQueueFields
  <1>9. fence = 1
    BY DEF Init
  <1> QED
    BY <1>7, <1>8, <1>9, InitCause DEF ReferencesInv

\* The invariant holds in every reachable state.
LEMMA ReferencesInvariance == Spec => []ReferencesInv
  BY InitReferences, NextReferences, PTL DEF Spec

\* "We should never dequeue a Workflow that references ClientIds rather than
\* ServerIds": what is sent names an object by its ClientId only if its creation
\* was denied, or if it was unknown when the workflow was enqueued.
THEOREM ReferencesResolved == Spec => []ClientIdsSentOnlyIfDenied
  <1>1. ReferencesInv => ClientIdsSentOnlyIfDenied
    BY DEF ReferencesInv, Referenced, SentResolved, Denied, ClientIdsSentOnlyIfDenied, Told
  <1> QED
    BY <1>1, ReferencesInvariance, PTL

=============================================================================
