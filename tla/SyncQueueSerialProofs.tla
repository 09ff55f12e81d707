------------------------ MODULE SyncQueueSerialProofs ------------------------
(***************************************************************************)
(* SyncQueue sends the updates of an object one after the other, in the    *)
(* order of the edits, for every set of objects, every queue found in      *)
(* SQLite and every bound.                                                 *)
(*                                                                         *)
(* UpdatesAreSerial is not inductive.  That a new update finds the earlier *)
(* ones depends on three more facts, the conjuncts of Serial: an update in *)
(* flight is entered in waiting_response under its server id; a queued     *)
(* update names its object by the server id only if UpdateManager knows    *)
(* that id, and by the client id only if the id is unknown or the queue    *)
(* can map it; and what the queue can map, UpdateManager knows.            *)
(***************************************************************************)
EXTENDS SyncQueueProofs

-----------------------------------------------------------------------------
(* The strengthened invariant, for a queue s, the first item id f of the login
   and the objects N whose server id UpdateManager knows. *)

Born(s) == {o \in Objects : \E n \in s.told : n.obj = o /\ n.event = "created"}
Named(s) == Existing \cup Born(s)

Updates(s, f) ==
    {q \in DOMAIN s.queue : s.queue[q].op = "update"}
        \cup {q \in DOMAIN s.net : q >= f /\ s.net[q].item.op = "update"}
ItemOf(s, q) == IF q \in DOMAIN s.queue THEN s.queue[q] ELSE s.net[q].item

InOrder(s, f) ==
    \A q, r \in Updates(s, f) :
        q < r /\ ObjectsOf(ItemOf(s, q)) \cap ObjectsOf(ItemOf(s, r)) # {}
            => r \in DOMAIN s.queue /\ q \in s.deps[r]

Entries(s, f, N) ==
    \A q \in DOMAIN s.net : q >= f /\ s.net[q].item.op = "update" =>
        \A o \in ObjectsOf(s.net[q].item) : o \in N /\ q \in s.waiting[<<"server", o>>]

Naming(s, N) ==
    \A q \in DOMAIN s.queue : s.queue[q].op = "update" =>
        \A id \in s.queue[q].ids :
            /\ id[1] = "server" => Obj(id) \in N
            /\ id[1] = "client" /\ Obj(id) \in N => Obj(id) \in s.mapped

Serial(s, f, N) ==
    /\ InOrder(s, f) /\ Entries(s, f, N) /\ Naming(s, N)
    /\ s.mapped \subseteq N

\* A step from s to t that enqueues and sends nothing, and forgets only what is
\* neither queued nor in flight any more.
Keeps(s, t) ==
    /\ \A q \in DOMAIN t.queue :
        /\ q \in DOMAIN s.queue
        /\ t.queue[q].op = s.queue[q].op /\ t.queue[q].ids = s.queue[q].ids
    /\ \A q \in DOMAIN t.net : q \in DOMAIN s.net /\ t.net[q].item = s.net[q].item
    /\ \A r \in DOMAIN t.queue : \A q \in s.deps[r] :
        q \in t.deps[r] \/ q \notin DOMAIN t.queue \cup DOMAIN t.net
    /\ \A id \in Ids : \A q \in s.waiting[id] :
        q \in t.waiting[id] \/ q \notin DOMAIN t.net
    /\ t.mapped = s.mapped

LEMMA SerialKept ==
    ASSUME NEW s, NEW b, Sound(s, b), NEW f, NEW N, Serial(s, f, N),
           NEW t, Keeps(s, t)
    PROVE  Serial(t, f, N)
  <1>1. ASSUME NEW q \in Updates(t, f)
        PROVE  /\ q \in Updates(s, f)
               /\ ObjectsOf(ItemOf(t, q)) = ObjectsOf(ItemOf(s, q))
               /\ q \in DOMAIN t.queue <=> q \in DOMAIN s.queue
    <2>1. CASE q \in DOMAIN t.queue
      BY <1>1, <2>1 DEF Updates, ItemOf, Keeps, ObjectsOf, Sound
    <2>2. CASE q \notin DOMAIN t.queue
      <3>1. q \in DOMAIN t.net /\ q >= f /\ t.net[q].item.op = "update"
        BY <1>1, <2>2 DEF Updates
      <3>2. q \in DOMAIN s.net /\ q \notin DOMAIN s.queue /\ t.net[q].item = s.net[q].item
        BY <3>1 DEF Keeps, Sound
      <3> QED
        BY <2>2, <3>1, <3>2 DEF Updates, ItemOf
    <2> QED
      BY <2>1, <2>2
  <1>2. InOrder(t, f)
    <2> SUFFICES ASSUME NEW q \in Updates(t, f), NEW r \in Updates(t, f), q < r,
                        ObjectsOf(ItemOf(t, q)) \cap ObjectsOf(ItemOf(t, r)) # {}
                 PROVE  r \in DOMAIN t.queue /\ q \in t.deps[r]
      BY DEF InOrder
    <2>1. r \in DOMAIN s.queue /\ q \in s.deps[r]
      BY <1>1 DEF Serial, InOrder
    <2>2. r \in DOMAIN t.queue
      BY <1>1, <2>1
    <2>3. q \in DOMAIN t.queue \cup DOMAIN t.net
      BY DEF Updates
    <2> QED
      BY <2>1, <2>2, <2>3 DEF Keeps
  <1>3. Entries(t, f, N)
    <2> SUFFICES ASSUME NEW q \in DOMAIN t.net, q >= f, t.net[q].item.op = "update",
                        NEW o \in ObjectsOf(t.net[q].item)
                 PROVE  o \in N /\ q \in t.waiting[<<"server", o>>]
      BY DEF Entries
    <2>1. q \in DOMAIN s.net /\ t.net[q].item = s.net[q].item
      BY DEF Keeps
    <2>2. o \in N /\ q \in s.waiting[<<"server", o>>]
      BY <2>1 DEF Serial, Entries
    <2>3. <<"server", o>> \in Ids
      <3>1. s.net[q].item \in Items
        BY <2>1 DEF Sound, QueueType, Partial, Futures
      <3> QED
        BY <2>1, <3>1, ObjIds DEF Ids
    <2> QED
      BY <2>2, <2>3 DEF Keeps
  <1>4. Naming(t, N)
    BY DEF Keeps, Serial, Naming
  <1> QED
    BY <1>2, <1>3, <1>4 DEF Serial, Keeps

-----------------------------------------------------------------------------
(* The operators that only forget. *)

LEMMA SoundQueue ==
    ASSUME NEW s, NEW b, Sound(s, b)
    PROVE  /\ IsQueue(s) /\ QueueType(s)
           /\ \A q \in DOMAIN s.queue : s.queue[q] \in Items
  BY DEF Sound, QueueType, Partial

LEMMA TellSerial ==
    ASSUME NEW s, NEW b, Sound(s, b), NEW f, NEW N, Serial(s, f, N), NEW E
    PROVE  Serial(Tell(s, E), f, N)
  <1> DEFINE t == Tell(s, E)
  <1>1. /\ t.queue = s.queue /\ t.deps = s.deps /\ t.waiting = s.waiting
        /\ t.net = s.net /\ t.mapped = s.mapped
    BY SoundQueue, TellFields
  <1> HIDE DEF t
  <1>2. Serial(t, f, N)
    BY <1>1, SerialKept DEF Keeps
  <1> QED
    BY <1>2 DEF t

LEMMA FailSerial ==
    ASSUME NEW s, NEW b, Sound(s, b), NEW f, NEW N, Serial(s, f, N),
           NEW failed, failed \cap (DOMAIN s.queue \cup DOMAIN s.net) = {}
    PROVE  Serial(Fail(s, failed), f, N)
  <1> DEFINE t == Fail(s, failed)
             lost == Dependents(s, failed)
  <1>1. /\ t.queue = Without(s.queue, lost) /\ t.deps = Without(s.deps, lost)
        /\ t.waiting = [id \in Ids |-> s.waiting[id] \ failed]
        /\ t.net = s.net /\ t.mapped = s.mapped
    BY SoundQueue, FailFields
  <1>2. s.deps \in [DOMAIN s.queue -> SUBSET QueueIds]
    BY SoundQueue DEF QueueType
  <1> HIDE DEF t, lost
  <1>3. Keeps(s, t)
    BY <1>1, <1>2 DEF Keeps, Without
  <1>4. Serial(t, f, N)
    BY <1>3, SerialKept
  <1> QED
    BY <1>4 DEF t

LEMMA SatisfySerial ==
    ASSUME NEW s, NEW b, Sound(s, b), NEW f, NEW N, Serial(s, f, N),
           NEW q, q \notin DOMAIN s.queue \cup DOMAIN s.net
    PROVE  Serial(Satisfy(s, q), f, N)
  <1> DEFINE t == Satisfy(s, q)
  <1>1. /\ t.queue = s.queue /\ t.net = s.net /\ t.mapped = s.mapped
        /\ t.deps = [r \in DOMAIN s.deps |-> s.deps[r] \ {q}]
        /\ t.waiting = [id \in Ids |-> s.waiting[id] \ {q}]
    BY SoundQueue, SatisfyFields
  <1>2. s.deps \in [DOMAIN s.queue -> SUBSET QueueIds]
    BY SoundQueue DEF QueueType
  <1> HIDE DEF t
  <1>3. Keeps(s, t)
    BY <1>1, <1>2 DEF Keeps
  <1>4. Serial(t, f, N)
    BY <1>3, SerialKept
  <1> QED
    BY <1>4 DEF t

LEMMA NewRevisionSerial ==
    ASSUME NEW s, NEW b, Sound(s, b), NEW f, NEW N, Serial(s, f, N),
           NEW objs, NEW revs
    PROVE  Serial(NewRevision(s, objs, revs), f, N)
  <1> DEFINE t == NewRevision(s, objs, revs)
  <1>1. /\ t.queue = RevisedQueue(s, objs, revs) /\ t.deps = s.deps
        /\ t.waiting = s.waiting /\ t.net = s.net /\ t.mapped = s.mapped
    BY SoundQueue, NewRevisionFields
  <1>2. ASSUME NEW item \in Items
        PROVE  /\ Revise(s, item, objs, revs).op = item.op
               /\ Revise(s, item, objs, revs).ids = item.ids
    BY DEF Revise, Items
  <1> HIDE DEF t
  <1>3. \A q \in DOMAIN t.queue :
            /\ q \in DOMAIN s.queue
            /\ t.queue[q].op = s.queue[q].op /\ t.queue[q].ids = s.queue[q].ids
    BY <1>1, <1>2, SoundQueue DEF RevisedQueue
  <1>4. Serial(t, f, N)
    BY <1>1, <1>3, SerialKept DEF Keeps
  <1> QED
    BY <1>4 DEF t

LEMMA ReplaceReferencesSerial ==
    ASSUME NEW s, NEW b, Sound(s, b), NEW f, NEW N, Serial(s, f, N),
           NEW q, NEW objs
    PROVE  Serial(ReplaceReferences(s, q, objs), f, N)
  <1> DEFINE t == ReplaceReferences(s, q, objs)
  <1>1. /\ t.queue = ResolvedQueue(s, q, objs) /\ t.deps = s.deps
        /\ t.waiting = s.waiting /\ t.net = s.net /\ t.mapped = s.mapped
    BY SoundQueue, ReplaceReferencesFields
  <1>2. ASSUME NEW item \in Items
        PROVE  Resolve(item, objs).op = item.op /\ Resolve(item, objs).ids = item.ids
    BY DEF Resolve, Items
  <1> HIDE DEF t
  <1>3. \A r \in DOMAIN t.queue :
            /\ r \in DOMAIN s.queue
            /\ t.queue[r].op = s.queue[r].op /\ t.queue[r].ids = s.queue[r].ids
    BY <1>1, <1>2, SoundQueue DEF ResolvedQueue
  <1>4. Serial(t, f, N)
    BY <1>1, <1>3, SerialKept DEF Keeps
  <1> QED
    BY <1>4 DEF t

LEMMA TakenSerial ==
    ASSUME NEW b, Sound(sq, b), NEW f, NEW N, Serial(sq, f, N), NEW q
    PROVE  Serial(Taken(q), f, N)
  <1> DEFINE t == Taken(q)
  <1>1. /\ t.net = Without(sq.net, {q}) /\ t.queue = sq.queue /\ t.deps = sq.deps
        /\ t.waiting = sq.waiting /\ t.mapped = sq.mapped
    BY SoundQueue, TakenFields
  <1> HIDE DEF t
  <1>2. Serial(t, f, N)
    BY <1>1, SerialKept DEF Keeps, Without
  <1> QED
    BY <1>2 DEF t

LEMMA WithFutureSerial ==
    ASSUME NEW b, Sound(sq, b), NEW f, NEW N, Serial(sq, f, N),
           NEW q \in DOMAIN sq.net, NEW future, future.item = sq.net[q].item
    PROVE  Serial(WithFuture(q, future), f, N)
  <1> DEFINE t == WithFuture(q, future)
  <1>1. /\ t.net = [sq.net EXCEPT ![q] = future] /\ t.queue = sq.queue
        /\ t.deps = sq.deps /\ t.waiting = sq.waiting /\ t.mapped = sq.mapped
    BY SoundQueue, WithFutureFields
  <1> HIDE DEF t
  <1>2. DOMAIN t.net = DOMAIN sq.net /\ \A r \in DOMAIN sq.net : t.net[r].item = sq.net[r].item
    BY <1>1
  <1>3. Serial(t, f, N)
    BY <1>1, <1>2, SerialKept DEF Keeps
  <1> QED
    BY <1>3 DEF t

-----------------------------------------------------------------------------
(* Sending. *)

LEMMA DequeueSerial ==
    ASSUME NEW s, NEW b, Sound(s, b), NEW f, NEW N, Serial(s, f, N), NEW n
    PROVE  Serial(Dequeue(s, n), f, N)
  <1> DEFINE t == Dequeue(s, n)
             lost == Dependents(Emptied(s, n), Unsendable(s, n))
             gone == Sent(s, n) \cup Skipped(s, n)
  <1>1. CASE ~s.dequeueing
    BY <1>1, DequeueStopped
  <1>2. CASE s.dequeueing
    <2>1. s.dequeueing = TRUE
      BY <1>2, SoundQueue DEF QueueType
    <2>2. /\ t.queue = Without(Without(s.queue, gone), lost)
          /\ t.deps = Without(Without(s.deps, gone), lost)
          /\ t.waiting = WaitingAfter(s, n) /\ t.net = NetAfter(s, n)
          /\ t.mapped = s.mapped
      BY <2>1, SoundQueue, DequeueFields, ZenonT(90)
    <2>3. /\ Sent(s, n) \subseteq DOMAIN s.queue
          /\ \A q \in Sent(s, n) : s.deps[q] = {} /\ q \in Sendable(s)
      BY DEF Sent, Sendable, Ready
    <2>4. /\ s.deps \in [DOMAIN s.queue -> SUBSET QueueIds]
          /\ DOMAIN s.queue \cap DOMAIN s.net = {}
      BY SoundQueue DEF QueueType, Sound
    <2> HIDE DEF t, lost
    <2>5. /\ \A q \in DOMAIN t.queue :
                q \in DOMAIN s.queue /\ q \notin Sent(s, n)
                    /\ t.queue[q] = s.queue[q] /\ t.deps[q] = s.deps[q]
          /\ \A q \in DOMAIN s.queue :
                q \in DOMAIN t.queue \/ q \in gone \cup lost
      BY <2>2, <2>4 DEF Without
    <2>6. /\ DOMAIN t.net = DOMAIN s.net \cup Sent(s, n)
          /\ \A q \in Sent(s, n) : t.net[q].item = s.queue[q]
          /\ \A q \in DOMAIN s.net : q \notin Sent(s, n) /\ t.net[q] = s.net[q]
      BY <2>2, <2>3, <2>4 DEF NetAfter
    <2>7. ASSUME NEW q \in Updates(t, f)
          PROVE  /\ q \in Updates(s, f) /\ ItemOf(t, q) = ItemOf(s, q)
                 /\ q \in DOMAIN s.queue => q \in DOMAIN t.queue \/ q \in Sent(s, n)
      <3>1. CASE q \in DOMAIN t.queue
        BY <2>4, <2>5, <2>6, <2>7, <3>1 DEF Updates, ItemOf
      <3>2. CASE q \in DOMAIN t.net /\ q \notin DOMAIN t.queue
        <4>1. t.net[q].item.op = "update" /\ q >= f
          BY <2>7, <3>2 DEF Updates
        <4>2. CASE q \in Sent(s, n)
          BY <2>3, <2>6, <3>2, <4>1, <4>2 DEF Updates, ItemOf
        <4>3. CASE q \in DOMAIN s.net
          <5>1. q \notin DOMAIN s.queue
            BY <2>4, <4>3
          <5> QED
            BY <2>6, <3>2, <4>1, <4>3, <5>1 DEF Updates, ItemOf
        <4> QED
          BY <2>6, <3>2, <4>2, <4>3
      <3>3. q \in DOMAIN t.queue \/ q \in DOMAIN t.net
        BY <2>7 DEF Updates
      <3> QED
        BY <3>1, <3>2, <3>3
    <2>8. InOrder(t, f)
      <3> SUFFICES ASSUME NEW q \in Updates(t, f), NEW r \in Updates(t, f), q < r,
                          ObjectsOf(ItemOf(t, q)) \cap ObjectsOf(ItemOf(t, r)) # {}
                   PROVE  r \in DOMAIN t.queue /\ q \in t.deps[r]
        BY DEF InOrder
      <3>1. r \in DOMAIN s.queue /\ q \in s.deps[r]
        BY <2>7 DEF Serial, InOrder
      <3>2. r \notin Sent(s, n)
        BY <2>3, <3>1
      <3> QED
        BY <2>5, <2>7, <3>1, <3>2
    <2>9. Entries(t, f, N)
      <3> SUFFICES ASSUME NEW q \in DOMAIN t.net, q >= f, t.net[q].item.op = "update",
                          NEW o \in ObjectsOf(t.net[q].item)
                   PROVE  o \in N /\ q \in t.waiting[<<"server", o>>]
        BY DEF Entries
      <3>1. CASE q \in Sent(s, n)
        <4>1. s.queue[q] \in Items /\ s.queue[q].op = "update" /\ o \in ObjectsOf(s.queue[q])
          BY <2>3, <2>6, <3>1, SoundQueue
        <4>2. <<"server", o>> \in Ids
          BY <4>1, ObjIds DEF Ids
        <4>3. <<"server", o>> \in WaitsUnder(s.queue[q]) /\ q \in Entered(s, n)
          BY <3>1, <4>1 DEF WaitsUnder, Entered, Creations
        <4>4. q \in t.waiting[<<"server", o>>]
          BY <2>2, <4>2, <4>3 DEF WaitingAfter
        <4>5. PICK id \in s.queue[q].ids : o = Obj(id)
          BY <4>1 DEF ObjectsOf
        <4>6. ServerKnown(s, id)
          BY <2>3, <3>1, <4>1 DEF Sendable, Needs, Creations
        <4>7. o \in N
          BY <2>3, <3>1, <4>1, <4>5, <4>6 DEF Serial, Naming, ServerKnown
        <4> QED
          BY <4>4, <4>7
      <3>2. CASE q \in DOMAIN s.net
        <4>1. o \in N /\ q \in s.waiting[<<"server", o>>]
          BY <2>6, <3>2 DEF Serial, Entries
        <4>2. s.net[q].item \in Items
          BY <3>2 DEF Sound, QueueType, Partial, Futures
        <4>3. <<"server", o>> \in Ids
          BY <2>6, <3>2, <4>2, ObjIds DEF Ids
        <4>4. q \notin Unsendable(s, n)
          BY <2>4, <3>2 DEF Unsendable, Skipped, Ready
        <4> QED
          BY <2>2, <4>1, <4>3, <4>4 DEF WaitingAfter
      <3> QED
        BY <2>6, <3>1, <3>2
    <2>10. Naming(t, N) /\ t.mapped \subseteq N
      BY <2>2, <2>5 DEF Serial, Naming
    <2>11. Serial(t, f, N)
      BY <2>8, <2>9, <2>10 DEF Serial
    <2> QED
      BY <2>11 DEF t
  <1> QED
    BY <1>1, <1>2

-----------------------------------------------------------------------------
(* Enqueueing. *)

\* UpdateManager names an object by the server id if and only if it knows it.
NamedBy(item, N) ==
    item.op = "update" => \A id \in item.ids : id[1] = "server" <=> Obj(id) \in N

\* An update that is queued or in flight is among the dependencies of the next.
LEMMA EarlierUpdateFound ==
    ASSUME NEW s, NEW b, Sound(s, b), NEW f, NEW N, Serial(s, f, N),
           NEW item \in Items, item.op = "update", NamedBy(item, N),
           NEW q \in Updates(s, f),
           ObjectsOf(ItemOf(s, q)) \cap ObjectsOf(item) # {}
    PROVE  q \in Dependencies(s, b, item)
  <1>1. PICK id \in item.ids : Obj(id) \in ObjectsOf(ItemOf(s, q))
    BY DEF ObjectsOf
  <1>2. /\ id \in Ids /\ id = <<id[1], Obj(id)>> /\ id[1] \in {"client", "server"}
        /\ OtherId(id) = <<IF id[1] = "client" THEN "server" ELSE "client", Obj(id)>>
    BY <1>1 DEF Items, Ids, Obj, OtherId
  <1>3. q \in UpdateDependencies(s, id)
    <2>1. CASE q \in DOMAIN s.queue
      <3>1. s.queue[q] \in Items /\ s.queue[q].op = "update"
        BY <2>1, SoundQueue DEF Updates, Sound
      <3>2. PICK i \in s.queue[q].ids : Obj(i) = Obj(id)
        BY <1>1, <2>1 DEF ItemOf, ObjectsOf
      <3>3. i = <<i[1], Obj(id)>> /\ i[1] \in {"client", "server"}
        BY <3>1, <3>2 DEF Items, Ids, Obj
      <3>4. q \in ItemsWithId(s, i)
        BY <2>1, <3>1, <3>2 DEF ItemsWithId
      <3>5. CASE i = id
        BY <3>4, <3>5 DEF UpdateDependencies
      <3>6. CASE i # id
        <4>1. i = OtherId(id)
          BY <1>2, <3>3, <3>6
        <4>2. Obj(id) \in s.mapped
          <5>1. id[1] = "server" <=> Obj(id) \in N
            BY <1>1 DEF NamedBy
          <5>2. /\ i[1] = "server" => Obj(id) \in N
                /\ i[1] = "client" /\ Obj(id) \in N => Obj(id) \in s.mapped
            BY <2>1, <3>1, <3>2 DEF Serial, Naming
          <5> QED
            BY <1>2, <3>3, <3>6, <5>1, <5>2
        <4> QED
          BY <3>4, <4>1, <4>2 DEF UpdateDependencies
      <3> QED
        BY <3>5, <3>6
    <2>2. CASE q \notin DOMAIN s.queue
      <3>1. q \in DOMAIN s.net /\ q >= f /\ s.net[q].item.op = "update"
        BY <2>2 DEF Updates
      <3>2. Obj(id) \in N /\ q \in s.waiting[<<"server", Obj(id)>>]
        BY <1>1, <2>2, <3>1 DEF ItemOf, Serial, Entries
      <3>3. id[1] = "server"
        BY <1>1, <3>2 DEF NamedBy
      <3>4. q \in s.waiting[id]
        BY <1>2, <3>2, <3>3
      <3> QED
        BY <3>4 DEF UpdateDependencies, ItemsWithId
    <2> QED
      BY <2>1, <2>2
  <1>4. q # b
    <2>1. q \in DOMAIN s.queue \cup DOMAIN s.net
      BY DEF Updates
    <2>2. q \in Nat
      BY <2>1, BoundsAssumption DEF Sound, QueueType, Partial, QueueIds
    <2> QED
      BY <2>1, <2>2 DEF Sound
  <1> QED
    BY <1>1, <1>3, <1>4 DEF Dependencies

LEMMA EnqueueSerial ==
    ASSUME NEW s, NEW b \in QueueIds, Sound(s, b), NEW f, NEW N, Serial(s, f, N),
           NEW item \in Items, NamedBy(item, N)
    PROVE  Serial(Enqueue(s, b, item), f, N)
  <1> DEFINE t == Enqueue(s, b, item)
             new == Stored(s, item)
  <1>1. /\ t.queue = With(s.queue, b, new)
        /\ t.deps = With(s.deps, b, Dependencies(s, b, item))
        /\ t.waiting = s.waiting /\ t.mapped = s.mapped /\ t.net = s.net
    BY SoundQueue, EnqueueFields
  <1>2. new.op = item.op /\ new.ids = item.ids /\ ObjectsOf(new) = ObjectsOf(item)
    BY DEF Stored, Items, ObjectsOf
  <1>3. /\ DOMAIN s.queue \cup DOMAIN s.net \subseteq Nat /\ b \in Nat
        /\ \A q \in DOMAIN s.queue \cup DOMAIN s.net : q < b
        /\ DOMAIN s.deps = DOMAIN s.queue
    BY BoundsAssumption DEF Sound, QueueType, Partial, QueueIds
  <1> HIDE DEF t, new
  <1>4. b \notin DOMAIN s.queue \cup DOMAIN s.net
    BY <1>3
  <1>5. /\ DOMAIN t.queue = DOMAIN s.queue \cup {b}
        /\ t.queue[b] = new /\ t.deps[b] = Dependencies(s, b, item)
        /\ \A q \in DOMAIN s.queue : t.queue[q] = s.queue[q] /\ t.deps[q] = s.deps[q]
    BY <1>1, <1>3, <1>4 DEF With
  <1>6. ASSUME NEW q \in Updates(t, f), q # b
        PROVE  q \in Updates(s, f) /\ ItemOf(t, q) = ItemOf(s, q) /\ q < b
    BY <1>1, <1>3, <1>5, <1>6 DEF Updates, ItemOf
  <1>7. InOrder(t, f)
    <2> SUFFICES ASSUME NEW q \in Updates(t, f), NEW r \in Updates(t, f), q < r,
                        ObjectsOf(ItemOf(t, q)) \cap ObjectsOf(ItemOf(t, r)) # {}
                 PROVE  r \in DOMAIN t.queue /\ q \in t.deps[r]
      BY DEF InOrder
    <2>1. CASE r # b
      <3>1. q # b
        <4>1. r < b /\ r \in Nat
          BY <1>3, <1>6, <2>1 DEF Updates
        <4> QED
          BY <1>3, <4>1
      <3>2. r \in DOMAIN s.queue /\ q \in s.deps[r]
        BY <1>6, <2>1, <3>1 DEF Serial, InOrder
      <3> QED
        BY <1>5, <3>2
    <2>2. CASE r = b
      <3>1. q # b
        BY <1>3, <2>2
      <3>2. ItemOf(t, r) = new /\ item.op = "update"
        BY <1>1, <1>2, <1>4, <1>5, <2>2 DEF ItemOf, Updates
      <3>3. q \in Updates(s, f) /\ ItemOf(t, q) = ItemOf(s, q)
        BY <1>6, <3>1
      <3>4. q \in Dependencies(s, b, item)
        BY <1>2, <3>2, <3>3, EarlierUpdateFound
      <3> QED
        BY <1>5, <2>2, <3>4
    <2> QED
      BY <2>1, <2>2
  <1>8. Entries(t, f, N)
    BY <1>1 DEF Serial, Entries
  <1>9. Naming(t, N)
    <2> SUFFICES ASSUME NEW q \in DOMAIN t.queue, t.queue[q].op = "update",
                        NEW id \in t.queue[q].ids
                 PROVE  /\ id[1] = "server" => Obj(id) \in N
                        /\ id[1] = "client" /\ Obj(id) \in N => Obj(id) \in t.mapped
      BY DEF Naming
    <2>1. CASE q = b
      BY <1>2, <1>5, <2>1 DEF NamedBy
    <2>2. CASE q # b
      BY <1>1, <1>5, <2>2 DEF Serial, Naming
    <2> QED
      BY <2>1, <2>2
  <1>10. Serial(t, f, N)
    BY <1>1, <1>7, <1>8, <1>9 DEF Serial
  <1> QED
    BY <1>10 DEF t

-----------------------------------------------------------------------------
(* The objects whose server id UpdateManager knows: only the event of a created
   object adds one. *)

Created(s) == {n \in s.told : n.event = "created"}

LEMMA BornOfCreated ==
    ASSUME NEW s, NEW t, Created(s) = Created(t)
    PROVE  Born(s) = Born(t) /\ Named(s) = Named(t)
  <1>1. \A o : (\E n \in s.told : n.obj = o /\ n.event = "created")
                <=> (\E n \in t.told : n.obj = o /\ n.event = "created")
    BY DEF Created
  <1> QED
    BY <1>1 DEF Born, Named

LEMMA FailureNotCreated ==
    ASSUME NEW item
    PROVE  FailureOf(item) # "created"
  BY DEF FailureOf

LEMMA TellCreated ==
    ASSUME NEW s, IsQueue(s), NEW q, NEW item, NEW event, event # "created"
    PROVE  Created(Tell(s, Notify(q, item, event))) = Created(s)
  <1>1. \A n \in Notify(q, item, event) : n.event # "created"
    BY DEF Notify
  <1> QED
    BY <1>1, TellFields DEF Created

LEMMA FailCreated ==
    ASSUME NEW s, IsQueue(s), NEW failed
    PROVE  Created(Fail(s, failed)) = Created(s)
  <1>1. \A n \in LossNotices(s, failed) : n.event # "created"
    BY FailureNotCreated DEF LossNotices, Notify
  <1> DEFINE t == Fail(s, failed)
  <1>2. t.told = s.told \cup LossNotices(s, failed)
    BY FailFields
  <1> HIDE DEF t
  <1>3. Created(t) = Created(s)
    BY <1>1, <1>2 DEF Created
  <1> QED
    BY <1>3 DEF t

LEMMA DequeueCreated ==
    ASSUME NEW s, QueueType(s), NEW n
    PROVE  Created(Dequeue(s, n)) = Created(s)
  <1>1. CASE ~s.dequeueing
    BY <1>1, DequeueStopped
  <1>2. CASE s.dequeueing
    <2>1. s.dequeueing = TRUE /\ IsQueue(s)
      BY <1>2 DEF QueueType
    <2> DEFINE losses1 == LossNotices(Emptied(s, n), Unsendable(s, n))
               losses2 == UNION {Notify(q, s.queue[q], "updateFailed") : q \in Unsendable(s, n)}
    <2>2. Dequeue(s, n).told = s.told \cup losses1 \cup losses2
      BY <2>1, DequeueFields
    <2>3. \A m \in losses1 : m.event # "created"
      BY FailureNotCreated DEF LossNotices, Notify
    <2>4. \A m \in losses2 : m.event # "created"
      BY DEF Notify
    <2> HIDE DEF losses1, losses2
    <2> QED
      BY <2>2, <2>3, <2>4 DEF Created
  <1> QED
    BY <1>1, <1>2

LEMMA EnqueueCreated ==
    ASSUME NEW s, IsQueue(s), NEW q, NEW item
    PROVE  Created(Enqueue(s, q, item)) = Created(s)
  <1> DEFINE t == Enqueue(s, q, item)
  <1>1. t.told = ToldAfter(s, q, item)
    BY EnqueueFields
  <1>2. /\ \A n \in Notify(q, item, "createFailed") : n.event # "created"
        /\ \A n \in Notify(q, item, FailureOf(item)) : n.event # "created"
    BY FailureNotCreated DEF Notify
  <1> HIDE DEF t
  <1>3. Created(t) = Created(s)
    BY <1>1, <1>2 DEF Created, ToldAfter
  <1> QED
    BY <1>3 DEF t

-----------------------------------------------------------------------------
(* The invariant. *)

SerialInv == TypeInv /\ Serial(sq, fence, Named(sq))

LEMMA SerialInvImplies == SerialInv => UpdatesAreSerial
  <1> SUFFICES ASSUME SerialInv, NEW q \in QueueIds, NEW r \in QueueIds,
                      IsUpdate(q), IsUpdate(r), q < r, Touches(q) \cap Touches(r) # {}
               PROVE  r \in DOMAIN sq.queue /\ q \in sq.deps[r]
    BY DEF UpdatesAreSerial
  <1>1. q \in Updates(sq, fence) /\ r \in Updates(sq, fence)
    BY DEF IsUpdate, Updates
  <1>2. ObjectsOf(ItemOf(sq, q)) = Touches(q) /\ ObjectsOf(ItemOf(sq, r)) = Touches(r)
    BY DEF ItemOf, Touches
  <1> QED
    BY <1>1, <1>2 DEF SerialInv, Serial, InOrder

\* A step of the code is a step of the queue that ends with a dequeue; the event
\* it tells is not that of a created object.
LEMMA DequeueStep ==
    ASSUME NEW s, NEW b, Sound(s, b), Serial(s, fence, Named(sq)),
           Created(s) = Created(sq), NEW n, sq' = Dequeue(s, n), fence' = fence
    PROVE  Serial(sq, fence, Named(sq))'
  <1>1. Serial(Dequeue(s, n), fence, Named(sq))
    BY DequeueSerial
  <1>2. Created(Dequeue(s, n)) = Created(sq)
    BY SoundQueue, DequeueCreated
  <1>3. Named(Dequeue(s, n)) = Named(sq)
    BY <1>2, BornOfCreated
  <1>4. Serial(sq', fence', Named(sq'))
    BY <1>1, <1>3
  <1> QED
    BY <1>4

\* The invariant of the queue, whoever takes the step.
LEMMA UnchangedSerial ==
    ASSUME SerialInv, sq' = sq, fence' = fence
    PROVE  Serial(sq, fence, Named(sq))'
  BY DEF SerialInv

\* A future that is answered or tried again still carries its item.
LEMMA FutureStep ==
    ASSUME SerialInv, NEW q \in DOMAIN sq.net, NEW future, future.item = sq.net[q].item,
           sq' = WithFuture(q, future), fence' = fence
    PROVE  Serial(sq, fence, Named(sq))'
  <1>1. IsQueue(sq) /\ Sound(sq, next)
    BY DEF SerialInv, TypeInv, Sound, QueueType
  <1>2. Serial(WithFuture(q, future), fence, Named(sq))
    BY <1>1, WithFutureSerial DEF SerialInv
  <1>3. WithFuture(q, future).told = sq.told
    BY <1>1, WithFutureFields
  <1>4. Named(WithFuture(q, future)) = Named(sq)
    BY <1>3, BornOfCreated DEF Created
  <1>5. Serial(sq', fence', Named(sq'))
    BY <1>2, <1>4
  <1> QED
    BY <1>5

LEMMA EnqueueItemSerial ==
    ASSUME SerialInv, NEW item \in Items, NamedBy(item, Named(sq)), EnqueueItem(item)
    PROVE  Serial(sq, fence, Named(sq))'
  <1>1. next \in QueueIds /\ Sound(sq, next) /\ IsQueue(sq)
    BY BoundsAssumption DEF SerialInv, TypeInv, EnqueueItem, QueueIds, Sound, QueueType
  <1> DEFINE t == Enqueue(sq, next, item)
  <1>2. Sound(t, next + 1) /\ Serial(t, fence, Named(sq))
    BY <1>1, EnqueueSound, EnqueueSerial DEF SerialInv
  <1>3. Created(t) = Created(sq)
    BY <1>1, EnqueueCreated
  <1>4. sq' = Dequeue(t, 1) /\ fence' = fence
    BY DEF EnqueueItem
  <1> HIDE DEF t
  <1> QED
    BY <1>2, <1>3, <1>4, DequeueStep

LEMMA EnqueuesSerial ==
    ASSUME SerialInv, Enqueues
    PROVE  Serial(sq, fence, Named(sq))'
  <1> USE DEF NamedBy
  <1>0. TypeInv
    BY DEF SerialInv
  <1>1. ASSUME NEW o \in Objects, NEW refs \in SUBSET References(o), CreateObject(o, refs)
        PROVE  Serial(sq, fence, Named(sq))'
    BY <1>1, EnqueuedItem, EnqueueItemSerial DEF CreateObject, Items
  <1>2. ASSUME NEW objs \in SUBSET Preferences, BulkCreate(objs)
        PROVE  Serial(sq, fence, Named(sq))'
    <2>1. objs \subseteq Objects /\ {"client"} \X objs \subseteq Ids
      BY ObjectsAssumption DEF Ids
    <2>2. InFolder(objs) \subseteq Ids
      BY <2>1, EnqueuedItem
    <2> QED
      BY <1>2, <2>1, <2>2, EnqueueItemSerial DEF BulkCreate, Items
  <1>3. ASSUME NEW o \in Objects, NEW refs \in SUBSET References(o), UpdateObject(o, refs)
        PROVE  Serial(sq, fence, Named(sq))'
    <2> DEFINE item == [op |-> "update", ids |-> {IdOf(o)}, folders |-> {},
                        rev |-> IF o \in Folders THEN 0 ELSE known[o], refs |-> refs]
    <2>1. EnqueueItem(item)
      BY <1>3 DEF UpdateObject
    <2>2. item \in Items
      BY <1>0, EnqueuedItem DEF Items
    <2>3. IdOf(o)[1] = "server" <=> o \in Named(sq)
      BY DEF IdOf, Told, Named, Born
    <2>4. Obj(IdOf(o)) = o
      BY DEF IdOf, Obj
    <2>5. NamedBy(item, Named(sq))
      BY <2>3, <2>4
    <2> HIDE DEF item
    <2> QED
      BY <2>1, <2>2, <2>5, EnqueueItemSerial
  <1>4. ASSUME NEW o \in Reported, RecordObjectAction(o)
        PROVE  Serial(sq, fence, Named(sq))'
    <2>1. IdOf(o) \in Ids
      BY ObjectsAssumption, EnqueuedItem
    <2> QED
      BY <1>4, <2>1, EnqueueItemSerial DEF RecordObjectAction, Items
  <1> QED
    BY <1>1, <1>2, <1>3, <1>4 DEF Enqueues

LEMMA ControlSerial ==
    ASSUME SerialInv, StopDequeueing \/ StartDequeueing \/ Clear
    PROVE  Serial(sq, fence, Named(sq))'
  <1>1. IsQueue(sq) /\ QueueType(sq) /\ Sound(sq, next) /\ next \in Nat
    BY BoundsAssumption DEF SerialInv, TypeInv, Sound, QueueType
  <1>2. ASSUME NEW on \in BOOLEAN
        PROVE  LET t == [sq EXCEPT !.dequeueing = on] IN
               /\ Sound(t, next) /\ Serial(t, fence, Named(sq))
               /\ Created(t) = Created(sq)
    <2> DEFINE t == [sq EXCEPT !.dequeueing = on]
    <2>1. /\ IsQueue(t) /\ t.dequeueing = on /\ t.net = sq.net
          /\ t.queue = sq.queue /\ t.deps = sq.deps /\ t.waiting = sq.waiting
          /\ t.mapped = sq.mapped /\ t.told = sq.told /\ t.again = sq.again
          /\ t.orphaned = sq.orphaned /\ t.stalled = sq.stalled
      BY <1>1 DEF IsQueue, Fields
    <2> HIDE DEF t
    <2>2. Sound(t, next)
      BY <1>1, <2>1 DEF Sound, QueueType
    <2>3. Keeps(sq, t)
      BY <2>1 DEF Keeps
    <2>4. Serial(t, fence, Named(sq))
      BY <1>1, <2>3, SerialKept DEF SerialInv
    <2>5. Created(t) = Created(sq)
      BY <2>1 DEF Created
    <2> QED
      BY <2>2, <2>4, <2>5 DEF t
  <1>3. CASE StopDequeueing
    <2> DEFINE t == [sq EXCEPT !.dequeueing = FALSE]
    <2>1. Serial(t, fence, Named(sq)) /\ Created(t) = Created(sq)
      BY <1>2
    <2>2. sq' = t /\ fence' = fence
      BY <1>3 DEF StopDequeueing
    <2> HIDE DEF t
    <2>3. Named(t) = Named(sq)
      BY <2>1, BornOfCreated
    <2>4. Serial(sq', fence', Named(sq'))
      BY <2>1, <2>2, <2>3
    <2> QED
      BY <2>4
  <1>4. CASE StartDequeueing
    <2> DEFINE t == [sq EXCEPT !.dequeueing = TRUE]
    <2>1. Sound(t, next) /\ Serial(t, fence, Named(sq)) /\ Created(t) = Created(sq)
      BY <1>2
    <2>2. sq' = Dequeue(t, 1) /\ fence' = fence
      BY <1>4 DEF StartDequeueing
    <2> HIDE DEF t
    <2> QED
      BY <2>1, <2>2, DequeueStep
  <1>5. CASE Clear
    <2> DEFINE f == Without(sq.queue, DOMAIN sq.queue)
               g == Without(sq.deps, DOMAIN sq.deps)
               w == [id \in Ids |-> {}]
    <2>1. /\ sq' = [sq EXCEPT !.queue = f, !.deps = g, !.waiting = w, !.mapped = {}]
          /\ fence' = next
      BY <1>5 DEF Clear
    <2>2. DOMAIN f = {}
      BY DEF Without
    <2> HIDE DEF f, g, w
    <2>3. sq'.queue = f /\ sq'.mapped = {} /\ sq'.net = sq.net /\ sq'.told = sq.told
      BY <1>1, <2>1 DEF IsQueue, Fields
    <2>4. \A q \in DOMAIN sq'.net : ~(q >= fence')
      <3>1. \A q \in DOMAIN sq.net : q \in Nat /\ q < next
        BY <1>1, BoundsAssumption DEF Sound, QueueType, Partial, QueueIds
      <3> QED
        BY <1>1, <2>1, <2>3, <3>1
    <2>5. Updates(sq', fence') = {}
      BY <2>2, <2>3, <2>4 DEF Updates
    <2>6. InOrder(sq', fence')
      BY <2>5 DEF InOrder
    <2>7. Entries(sq', fence', Named(sq'))
      BY <2>4 DEF Entries
    <2>8. Naming(sq', Named(sq'))
      BY <2>2, <2>3 DEF Naming
    <2>9. Serial(sq', fence', Named(sq'))
      BY <2>3, <2>6, <2>7, <2>8 DEF Serial
    <2> QED
      BY <2>9
  <1> QED
    BY <1>3, <1>4, <1>5

LEMMA ReplySerial ==
    ASSUME SerialInv, NEW q \in DOMAIN sq.net, NEW answer, NEW revisions,
           Reply(q, answer, revisions)
    PROVE  Serial(sq, fence, Named(sq))'
  <1> DEFINE reply == [answer |-> answer, revs |-> [o \in Objects |->
                IF o \in ObjectsOf(sq.net[q].item) THEN revisions[o] ELSE 0]]
             future == [sq.net[q] EXCEPT !.reply = reply]
  <1>1. sq' = WithFuture(q, future) /\ fence' = fence
    BY DEF Reply, WithFuture
  <1> HIDE DEF reply
  <1>2. future.item = sq.net[q].item
    BY FutureType DEF SerialInv, Futures
  <1> HIDE DEF future
  <1> QED
    BY <1>1, <1>2, FutureStep

LEMMA ServerSerial ==
    ASSUME SerialInv, NEW q \in QueueIds, ServerHandles(q)
    PROVE  Serial(sq, fence, Named(sq))'
  BY ReplySerial DEF ServerHandles, ServerCreates, ServerRefuses, ServerUpdates,
                     ServerRecords, Pending

LEMMA RetrySerial ==
    ASSUME SerialInv, NEW q \in QueueIds, RetryRequest(q)
    PROVE  Serial(sq, fence, Named(sq))'
  <1> DEFINE future == [sq.net[q] EXCEPT !.tries = @ + 1, !.reply = NoReply]
  <1>1. q \in DOMAIN sq.net /\ fence' = fence
    BY DEF RetryRequest, AttemptLost
  <1>2. sq' = WithFuture(q, future)
    BY <1>1, FutureType
       DEF RetryRequest, WithFuture, SerialInv, TypeInv, Sound, QueueType, Partial
  <1>3. future.item = sq.net[q].item
    BY <1>1, FutureType DEF SerialInv, Futures
  <1> HIDE DEF future
  <1> QED
    BY <1>1, <1>2, <1>3, FutureStep

-----------------------------------------------------------------------------
(* The callbacks.  Good is what every state between two calls of a callback that
   creates nothing satisfies. *)

Good(s) ==
    /\ Sound(s, next) /\ Serial(s, fence, Named(sq))
    /\ Created(s) = Created(sq)

LEMMA GoodDequeue ==
    ASSUME NEW s, Good(s), NEW n, sq' = Dequeue(s, n), fence' = fence
    PROVE  Serial(sq, fence, Named(sq))'
  BY DequeueStep DEF Good

LEMMA GoodTaken ==
    ASSUME SerialInv, NEW q \in DOMAIN sq.net
    PROVE  Good(Taken(q)) /\ q \notin DOMAIN Taken(q).queue \cup DOMAIN Taken(q).net
  <1>1. Sound(sq, next) /\ IsQueue(sq) /\ TypeInv
    BY SoundQueue DEF SerialInv, TypeInv
  <1> DEFINE t == Taken(q)
  <1>2. t.net = Without(sq.net, {q}) /\ t.queue = sq.queue /\ t.told = sq.told
    BY <1>1, TakenFields
  <1>3. Sound(t, next) /\ Serial(t, fence, Named(sq))
    BY <1>1, TakenSound, TakenSerial DEF SerialInv
  <1> HIDE DEF t
  <1>4. q \notin DOMAIN t.queue \cup DOMAIN t.net
    BY <1>1, <1>2 DEF Sound, Without
  <1>5. Good(t)
    BY <1>2, <1>3 DEF Good, Created
  <1> QED
    BY <1>4, <1>5 DEF t

LEMMA GoodTell ==
    ASSUME SerialInv, NEW s, Good(s), NEW q \in DOMAIN sq.net,
           NEW event \in Events \ {"created"}
    PROVE  Good(Tell(s, Notify(q, sq.net[q].item, event)))
  <1> DEFINE E == Notify(q, sq.net[q].item, event)
  <1>1. E \subseteq Notices /\ Sound(s, next) /\ IsQueue(s)
    BY NoticesOfFuture, SoundQueue DEF SerialInv, Good
  <1>2. Sound(Tell(s, E), next) /\ Serial(Tell(s, E), fence, Named(sq))
    BY <1>1, TellSound, TellSerial DEF Good
  <1>3. Created(Tell(s, E)) = Created(sq)
    BY <1>1, TellCreated DEF Good
  <1> QED
    BY <1>2, <1>3 DEF Good

LEMMA GoodFail ==
    ASSUME NEW s, Good(s), NEW q, q \notin DOMAIN s.queue \cup DOMAIN s.net
    PROVE  Good(Fail(s, {q}))
  <1>1. Sound(s, next) /\ IsQueue(s)
    BY SoundQueue DEF Good
  <1>2. Sound(Fail(s, {q}), next) /\ Serial(Fail(s, {q}), fence, Named(sq))
    BY <1>1, FailSound, FailSerial DEF Good
  <1>3. Created(Fail(s, {q})) = Created(sq)
    BY <1>1, FailCreated DEF Good
  <1> QED
    BY <1>2, <1>3 DEF Good

LEMMA GoodSatisfy ==
    ASSUME NEW s, Good(s), NEW q, q \notin DOMAIN s.queue \cup DOMAIN s.net
    PROVE  Good(Satisfy(s, q))
  <1>1. Sound(s, next) /\ IsQueue(s)
    BY SoundQueue DEF Good
  <1>2. Sound(Satisfy(s, q), next) /\ Serial(Satisfy(s, q), fence, Named(sq))
    BY <1>1, SatisfySound, SatisfySerial DEF Good
  <1>3. Satisfy(s, q).told = s.told
    BY <1>1, SatisfyFields
  <1> QED
    BY <1>2, <1>3 DEF Good, Created

LEMMA GoodNewRevision ==
    ASSUME NEW s, Good(s), NEW objs, NEW revs \in [Objects -> Nat]
    PROVE  Good(NewRevision(s, objs, revs))
  <1>1. Sound(s, next) /\ IsQueue(s)
    BY SoundQueue DEF Good
  <1>2. /\ Sound(NewRevision(s, objs, revs), next)
        /\ Serial(NewRevision(s, objs, revs), fence, Named(sq))
    BY <1>1, NewRevisionSound, NewRevisionSerial DEF Good
  <1>3. NewRevision(s, objs, revs).told = s.told
    BY <1>1, NewRevisionFields
  <1> QED
    BY <1>2, <1>3 DEF Good, Created

LEMMA FailureSerial ==
    ASSUME SerialInv, NEW q \in QueueIds, CreationDenied(q) \/ CreationConflicts(q)
    PROVE  Serial(sq, fence, Named(sq))'
  <1>1. q \in DOMAIN sq.net /\ fence' = fence
    BY DEF CreationDenied, CreationConflicts, Answered
  <1>2. Good(Satisfy(Taken(q), q)) /\ Good(Fail(Taken(q), {q}))
    BY <1>1, GoodTaken, GoodSatisfy, GoodFail
  <1>3. /\ Good(Tell(Satisfy(Taken(q), q), Notify(q, sq.net[q].item, "denied")))
        /\ Good(Tell(Fail(Taken(q), {q}), Notify(q, sq.net[q].item, "createFailed")))
    BY <1>1, <1>2, GoodTell DEF Events
  <1> QED
    BY <1>1, <1>3, GoodDequeue DEF CreationDenied, CreationConflicts

LEMMA UpdateAnsweredSerial ==
    ASSUME SerialInv, NEW q \in QueueIds,
           UpdateSucceeds(q) \/ UpdateRejected(q) \/ ActionRecorded(q)
    PROVE  Serial(sq, fence, Named(sq))'
  <1> DEFINE item == sq.net[q].item
             objs == ObjectsOf(item)
             revs == sq.net[q].reply.revs
  <1>1. q \in DOMAIN sq.net /\ fence' = fence
    BY DEF UpdateSucceeds, UpdateRejected, ActionRecorded, Answered
  <1>2. revs \in [Objects -> Nat]
    BY <1>1, FutureType DEF SerialInv
  <1>3. Good(Taken(q)) /\ Good(Satisfy(Taken(q), q))
    BY <1>1, GoodTaken, GoodSatisfy
  <1>4. CASE UpdateSucceeds(q)
    <2> DEFINE s == NewRevision(Satisfy(Taken(q), q), objs, revs)
    <2>1. Good(s)
      BY <1>2, <1>3, GoodNewRevision
    <2>2. sq' = Dequeue(Tell(s, Notify(q, item, "updated")), 1)
      BY <1>4 DEF UpdateSucceeds
    <2> HIDE DEF s
    <2>3. Good(Tell(s, Notify(q, item, "updated")))
      BY <1>1, <2>1, GoodTell DEF Events
    <2> QED
      BY <1>1, <2>2, <2>3, GoodDequeue
  <1>5. CASE UpdateRejected(q)
    <2> DEFINE s == Tell(Taken(q), Notify(q, item, "rejected"))
    <2>1. Good(s)
      BY <1>1, <1>3, GoodTell DEF Events
    <2>2. s.queue = Taken(q).queue /\ s.net = Taken(q).net
      BY <1>3, SoundQueue, TellFields DEF Good
    <2>3. sq' = Dequeue(Satisfy(s, q), 1)
      BY <1>5 DEF UpdateRejected
    <2> HIDE DEF s
    <2>4. Good(Satisfy(s, q))
      BY <1>1, <2>1, <2>2, GoodTaken, GoodSatisfy
    <2> QED
      BY <1>1, <2>3, <2>4, GoodDequeue
  <1>6. CASE ActionRecorded(q)
    <2>1. Good(Tell(Satisfy(Taken(q), q), Notify(q, item, "recorded")))
      BY <1>1, <1>3, GoodTell DEF Events
    <2> QED
      BY <1>1, <1>6, <2>1, GoodDequeue DEF ActionRecorded
  <1> QED
    BY <1>4, <1>5, <1>6

LEMMA RequestFailedSerial ==
    ASSUME SerialInv, NEW q \in QueueIds, NEW persistent \in BOOLEAN,
           RequestFailed(q, persistent)
    PROVE  Serial(sq, fence, Named(sq))'
  <1> DEFINE item == sq.net[q].item
             failed == Tell(Fail(Taken(q), {q}), Notify(q, item, FailureOf(item)))
             stopped == [failed EXCEPT !.stalled = TRUE]
  <1>1. q \in DOMAIN sq.net /\ fence' = fence
    BY DEF RequestFailed, AttemptLost
  <1>2. FailureOf(item) \in Events \ {"created"}
    BY <1>1, FutureType, FailureType, FailureNotCreated DEF SerialInv
  <1>3. Good(Fail(Taken(q), {q}))
    BY <1>1, GoodTaken, GoodFail
  <1>4. Good(failed)
    BY <1>1, <1>2, <1>3, GoodTell
  <1>5. sq' = IF persistent THEN stopped ELSE Dequeue(failed, 1)
    BY DEF RequestFailed
  <1> HIDE DEF failed
  <1>6. CASE persistent
    <2>1. /\ stopped.mapped = failed.mapped /\ stopped.queue = failed.queue
          /\ stopped.deps = failed.deps /\ stopped.waiting = failed.waiting
          /\ stopped.net = failed.net /\ stopped.told = failed.told
      BY <1>4, SoundQueue DEF Good, IsQueue, Fields
    <2>2. sq' = stopped
      BY <1>5, <1>6
    <2> HIDE DEF stopped
    <2>3. Keeps(failed, stopped) /\ Created(stopped) = Created(sq)
      BY <1>4, <2>1 DEF Keeps, Created, Good
    <2>4. Serial(stopped, fence, Named(sq)) /\ Named(stopped) = Named(sq)
      BY <1>4, <2>3, SerialKept, BornOfCreated DEF Good
    <2>5. Serial(sq', fence', Named(sq'))
      BY <1>1, <2>2, <2>4
    <2> QED
      BY <2>5
  <1>7. CASE ~persistent
    BY <1>1, <1>4, <1>5, <1>7, GoodDequeue
  <1> QED
    BY <1>6, <1>7


\* A creation gives the object its server id in the same step in the queue and in
\* UpdateManager: that is why the two never disagree on how to name it.
LEMMA CreationSucceedsSerial ==
    ASSUME SerialInv, NEW q \in QueueIds, CreationSucceeds(q)
    PROVE  Serial(sq, fence, Named(sq))'
  <1> DEFINE item == sq.net[q].item
             objs == ObjectsOf(item)
             revs == sq.net[q].reply.revs
             replaced == IF item.op = "create"
                         THEN ReplaceReferences(Taken(q), q, objs) ELSE Taken(q)
             named == [replaced EXCEPT !.mapped = @ \cup objs]
             done == Satisfy(named, q)
             revised == NewRevision(done, objs, revs)
             told == Tell(revised, Notify(q, item, "created"))
             N == Named(sq) \cup objs
  <1>1. q \in DOMAIN sq.net /\ objs \subseteq Objects /\ revs \in [Objects -> Nat]
    BY FutureType DEF CreationSucceeds, Answered, SerialInv
  <1>2. sq' = Dequeue(told, Cardinality(objs)) /\ fence' = fence
    BY DEF CreationSucceeds
  <1>3. /\ Good(replaced)
        /\ q \notin DOMAIN replaced.queue \cup DOMAIN replaced.net
    <2> DEFINE t == Taken(q)
               r == ReplaceReferences(t, q, objs)
    <2>1. Good(t) /\ q \notin DOMAIN t.queue \cup DOMAIN t.net
      BY <1>1, GoodTaken
    <2>2. Sound(t, next) /\ IsQueue(t)
      BY <2>1, SoundQueue DEF Good
    <2>3. DOMAIN r.queue = DOMAIN t.queue /\ r.net = t.net /\ r.told = t.told
      BY <2>2, ReplaceReferencesFields
    <2>4. Sound(r, next) /\ Serial(r, fence, Named(sq))
      BY <2>1, <2>2, ReplaceReferencesSound, ReplaceReferencesSerial DEF Good
    <2>5. Good(r)
      BY <2>1, <2>3, <2>4 DEF Good, Created
    <2>6. replaced = t \/ replaced = r
      OBVIOUS
    <2> HIDE DEF t, r, replaced
    <2> QED
      BY <2>1, <2>3, <2>5, <2>6
  <1> HIDE DEF replaced
  <1>4. /\ IsQueue(named) /\ named.mapped = replaced.mapped \cup objs
        /\ named.queue = replaced.queue /\ named.deps = replaced.deps
        /\ named.waiting = replaced.waiting /\ named.net = replaced.net
        /\ named.dequeueing = replaced.dequeueing /\ named.told = replaced.told
        /\ named.again = replaced.again /\ named.orphaned = replaced.orphaned
        /\ named.stalled = replaced.stalled
    <2> HIDE DEF objs
    <2> QED
      BY <1>3 DEF Good, IsQueue, Fields, Sound, QueueType
  <1> HIDE DEF named, objs, revs, item
  <1>5. Sound(named, next)
    BY <1>1, <1>3, <1>4 DEF Good, Sound, QueueType
  <1>6. Serial(named, fence, N)
    <2>1. Serial(replaced, fence, Named(sq))
      BY <1>3 DEF Good
    <2>2. InOrder(named, fence)
      BY <1>4, <2>1 DEF Serial, InOrder, Updates, ItemOf
    <2>3. Entries(named, fence, N)
      BY <1>4, <2>1 DEF Serial, Entries
    <2>4. Naming(named, N)
      BY <1>4, <2>1 DEF Serial, Naming
    <2> QED
      BY <1>4, <2>1, <2>2, <2>3, <2>4 DEF Serial
  <1>7. Sound(done, next) /\ Serial(done, fence, N) /\ done.told = replaced.told
    <2>1. q \notin DOMAIN named.queue \cup DOMAIN named.net
      BY <1>3, <1>4
    <2>2. Sound(done, next) /\ Serial(done, fence, N)
      BY <1>5, <1>6, <2>1, SatisfySound, SatisfySerial
    <2>3. done.told = named.told
      BY <1>4, SatisfyFields, ZenonT(30)
    <2> QED
      BY <1>4, <2>2, <2>3
  <1> HIDE DEF done
  <1>8. /\ Sound(revised, next) /\ Serial(revised, fence, N) /\ IsQueue(revised)
        /\ revised.told = replaced.told
    BY <1>1, <1>7, SoundQueue, NewRevisionSound, NewRevisionSerial, NewRevisionFields
  <1> HIDE DEF revised
  <1>9. /\ Sound(told, next) /\ Serial(told, fence, N)
        /\ told.told = replaced.told \cup Notify(q, item, "created")
    <2>1. Notify(q, item, "created") \subseteq Notices
      BY <1>1, NoticesOfFuture DEF SerialInv, Events, item
    <2> QED
      BY <1>8, <2>1, TellSound, TellSerial, TellFields
  <1> HIDE DEF told
  <1>10. Named(told) = N
    <2>1. Created(replaced) = Created(sq)
      BY <1>3 DEF Good
    <2>2. Born(replaced) = Born(sq)
      BY <2>1, BornOfCreated
    <2>3. \A n \in Notify(q, item, "created") : n.obj \in objs /\ n.event = "created"
      BY DEF Notify, objs
    <2>4. \A o \in objs : \E n \in Notify(q, item, "created") :
                n.obj = o /\ n.event = "created"
      <3> TAKE o \in objs
      <3>1. [item |-> q, obj |-> o, event |-> "created"] \in Notify(q, item, "created")
        BY DEF Notify, objs
      <3> QED
        BY <3>1
    <2>5. Born(told) = Born(replaced) \cup objs
      BY <1>1, <1>9, <2>3, <2>4 DEF Born
    <2> QED
      BY <2>2, <2>5 DEF Named
  <1> DEFINE last == Dequeue(told, Cardinality(objs))
  <1>11. Serial(last, fence, N)
    BY <1>9, DequeueSerial
  <1>12. Named(last) = N
    <2>1. Created(last) = Created(told)
      BY <1>9, SoundQueue, DequeueCreated
    <2> QED
      BY <1>10, <2>1, BornOfCreated
  <1> HIDE DEF last, N
  <1>13. sq' = last
    BY <1>2 DEF last
  <1>14. Serial(sq', fence', Named(sq'))
    BY <1>2, <1>11, <1>12, <1>13
  <1> QED
    BY <1>14

LEMMA NextSerial ==
    ASSUME SerialInv, [Next]_vars
    PROVE  SerialInv'
  <1>0. TypeInv'
    BY NextType DEF SerialInv
  <1> SUFFICES Serial(sq, fence, Named(sq))'
    BY <1>0 DEF SerialInv
  <1>1. CASE UNCHANGED vars
    BY <1>1, UnchangedSerial DEF vars
  <1>2. CASE Enqueues
    BY <1>2, EnqueuesSerial
  <1>3. CASE StopDequeueing \/ StartDequeueing \/ Clear
    BY <1>3, ControlSerial
  <1>4. ASSUME NEW o \in Objects, OtherClientUpdates(o) \/ LearnRevision(o)
        PROVE  Serial(sq, fence, Named(sq))'
    BY <1>4, UnchangedSerial DEF OtherClientUpdates, LearnRevision
  <1>5. ASSUME NEW q \in QueueIds, ServerHandles(q)
        PROVE  Serial(sq, fence, Named(sq))'
    BY <1>5, ServerSerial
  <1>6. ASSUME NEW q \in QueueIds, HandleResponse(q)
        PROVE  Serial(sq, fence, Named(sq))'
    BY <1>6, CreationSucceedsSerial, FailureSerial, UpdateAnsweredSerial DEF HandleResponse
  <1>7. ASSUME NEW q \in QueueIds, RetryRequest(q)
        PROVE  Serial(sq, fence, Named(sq))'
    BY <1>7, RetrySerial
  <1>8. ASSUME NEW q \in QueueIds, NEW persistent \in BOOLEAN, RequestFailed(q, persistent)
        PROVE  Serial(sq, fence, Named(sq))'
    BY <1>8, RequestFailedSerial
  <1> QED
    BY <1>1, <1>2, <1>3, <1>4, <1>5, <1>6, <1>7, <1>8 DEF Next

-----------------------------------------------------------------------------
(* Startup. *)

\* What SQLite holds: at most one edit of every object, under the id it has.
LEMMA StartUpdates ==
    ASSUME NEW n \in Nat, NEW m \in Nat, n + m <= MaxStart,
           NEW edits \in StartRows(n), NEW reports \in [1..m -> Reported],
           NEW linked \in BOOLEAN
    PROVE  LET items == StartQueue(edits, reports, linked) IN
           \A q \in DOMAIN items : items[q].op = "update" =>
                /\ q \in 1..n /\ edits[q] \in Existing
                /\ items[q].ids = {<<"server", edits[q]>>}
  <1> DEFINE items == StartQueue(edits, reports, linked)
             created == {edits[i] : i \in 1..n} \ Existing
  <1>1. edits \in [1..n -> Objects]
    BY DEF StartRows
  <1>2. Len(edits) = n /\ Len(reports) = m
    <2>1. edits \in Seq(Objects) /\ reports \in Seq(Reported)
      BY <1>1
    <2> QED
      BY <1>1, <2>1
  <1>3. items = [q \in 1..(n + m) |->
            IF q <= n
            THEN StartItem(edits[q], IF edits[q] \in Existing THEN "update" ELSE "create",
                           linked, created)
            ELSE StartItem(reports[q - n], "action", FALSE, {})]
    BY <1>2 DEF StartQueue
  <1> HIDE DEF items, created
  <1>4. SUFFICES ASSUME NEW q \in DOMAIN items, items[q].op = "update"
                 PROVE  /\ q \in 1..n /\ edits[q] \in Existing
                        /\ items[q].ids = {<<"server", edits[q]>>}
    BY DEF items
  <1>5. q \in 1..(n + m)
    BY <1>3
  <1>6. CASE q <= n
    <2>1. items[q] = StartItem(edits[q], IF edits[q] \in Existing THEN "update" ELSE "create",
                               linked, created)
      BY <1>3, <1>5, <1>6
    <2>2. items[q].op = IF edits[q] \in Existing THEN "update" ELSE "create"
      BY <2>1 DEF StartItem
    <2>3. edits[q] \in Existing
      BY <1>4, <2>2
    <2>4. items[q].ids = {<<"server", edits[q]>>}
      BY <2>1, <2>3 DEF StartItem
    <2> QED
      BY <1>5, <1>6, <2>3, <2>4
  <1>7. CASE ~(q <= n)
    <2>1. items[q] = StartItem(reports[q - n], "action", FALSE, {})
      BY <1>3, <1>5, <1>7
    <2>2. items[q].op = "action"
      BY <2>1 DEF StartItem
    <2> QED
      BY <1>4, <2>2
  <1> QED
    BY <1>6, <1>7

LEMMA InitSerial ==
    ASSUME Init
    PROVE  SerialInv
  <1>0. TypeInv /\ fence = 1
    BY InitType DEF Init
  <1>1. PICK n \in 0..MaxStart : \E m \in 0..(MaxStart - n) :
            \E edits \in StartRows(n), reports \in [1..m -> Reported], linked \in BOOLEAN :
                sq = NewQueue(StartQueue(edits, reports, linked))
    BY DEF Init
  <1>2. PICK m \in 0..(MaxStart - n) :
            \E edits \in StartRows(n), reports \in [1..m -> Reported], linked \in BOOLEAN :
                sq = NewQueue(StartQueue(edits, reports, linked))
    BY <1>1
  <1>3. PICK edits \in StartRows(n), reports \in [1..m -> Reported], linked \in BOOLEAN :
            sq = NewQueue(StartQueue(edits, reports, linked))
    BY <1>2
  <1> DEFINE items == StartQueue(edits, reports, linked)
             d == [q \in DOMAIN items |-> Dependencies(Empty(items), q, items[q])]
  <1>4. n \in Nat /\ m \in Nat /\ n + m <= MaxStart
    BY BoundsAssumption
  <1>5. \A q \in DOMAIN items : items[q].op = "update" =>
            /\ q \in 1..n /\ edits[q] \in Existing
            /\ items[q].ids = {<<"server", edits[q]>>}
    BY <1>4, StartUpdates
  <1>6. \A i, j \in 1..n : edits[i] = edits[j] => i = j
    BY DEF StartRows
  <1>7. sq = [Empty(items) EXCEPT !.deps = d]
    BY <1>3 DEF NewQueue
  <1> HIDE DEF items, d
  <1>8. sq.queue = items /\ DOMAIN sq.net = {} /\ sq.mapped = {} /\ sq.told = {}
    BY <1>7 DEF Empty
  <1>9. \A q \in DOMAIN items : q \in Nat
    BY <1>0, <1>8, BoundsAssumption DEF TypeInv, Sound, QueueType, Partial, QueueIds
  <1>10. InOrder(sq, fence)
    <2> SUFFICES ASSUME NEW q \in Updates(sq, fence), NEW r \in Updates(sq, fence), q < r,
                        ObjectsOf(ItemOf(sq, q)) \cap ObjectsOf(ItemOf(sq, r)) # {}
                 PROVE  FALSE
      BY DEF InOrder
    <2>1. /\ q \in DOMAIN items /\ items[q].op = "update"
          /\ r \in DOMAIN items /\ items[r].op = "update"
      BY <1>8 DEF Updates
    <2>2. /\ ObjectsOf(ItemOf(sq, q)) = {edits[q]}
          /\ ObjectsOf(ItemOf(sq, r)) = {edits[r]}
      BY <1>5, <1>8, <2>1 DEF ItemOf, ObjectsOf, Obj
    <2>3. q = r
      BY <1>5, <1>6, <2>1, <2>2
    <2> QED
      BY <1>9, <2>1, <2>3
  <1>11. Entries(sq, fence, Named(sq))
    BY <1>8 DEF Entries
  <1>12. Naming(sq, Named(sq))
    BY <1>5, <1>8 DEF Naming, Named, Obj
  <1>13. Serial(sq, fence, Named(sq))
    BY <1>8, <1>10, <1>11, <1>12 DEF Serial
  <1> QED
    BY <1>0, <1>13 DEF SerialInv

LEMMA SerialInvariance == Spec => []SerialInv
  BY InitSerial, NextSerial, PTL DEF Spec

\* Of two updates of an object made in one login, the later one stays queued
\* behind the earlier one until that is answered, in every behaviour of the queue.
THEOREM UpdatesSerial == Spec => []UpdatesAreSerial
  BY SerialInvariance, SerialInvImplies, PTL

=============================================================================
