------------------------------ MODULE SyncQueue ------------------------------
(***************************************************************************)
(* The offline-first queue through which every edit of a Warp Drive object *)
(* reaches the server (app/src/server/sync_queue.rs).                      *)
(*                                                                         *)
(* The handlers of SyncQueue run one at a time on the main thread; what    *)
(* interleaves with them are the requests they spawned, the server, other  *)
(* clients, and UpdateManager, which enqueues items, starts and stops the  *)
(* queue and clears it at logout.  A handler is therefore one action, and  *)
(* the calls it makes are operators from a queue state to a queue state,   *)
(* composed in the order of the code.                                      *)
(***************************************************************************)
EXTENDS Naturals, FiniteSets, Sequences

CONSTANTS
    Objects,        \* the cloud objects of one user
    NoObject,       \* "no folder"
    Existing,       \* the objects the server stores when the app starts
    Folders,        \* folders: their updates carry no revision
    Workflows,      \* workflows: they may reference other objects
    Referable,      \* workflow enums and environment variable collections
    Preferences,    \* objects that are created in bulk
    Reported,       \* objects whose use is recorded as an object action
    FolderOf,       \* the folder an object is created in, or NoObject
    RefsOf,         \* the objects a workflow may reference
    MaxItems,       \* bound: items ever enqueued
    MaxStart,       \* bound: items found in SQLite at startup
    MaxRev,         \* bound: revisions written by other clients
    MaxRetries,     \* retries of a request: 3 in DEFAULT_RETRY_OPTION
    MaxClears,      \* bound: logouts
    MaxLosses,      \* bound: attempts whose request or answer is lost
    Denials         \* refusals of a creation that the server may answer

ASSUME ObjectsAssumption ==
    /\ IsFiniteSet(Objects)
    /\ NoObject \notin Objects
    /\ Existing \subseteq Objects /\ Folders \subseteq Objects
    /\ Workflows \subseteq Objects /\ Referable \subseteq Objects
    /\ Workflows \cap Referable = {}
    /\ Preferences \subseteq Objects \ Referable /\ Reported \subseteq Objects
    /\ FolderOf \in [Objects -> Folders \cup {NoObject}]
    /\ RefsOf \in [Workflows -> SUBSET Referable]

ASSUME BoundsAssumption ==
    /\ MaxItems \in Nat /\ MaxStart \in 0..MaxItems
    /\ MaxRev \in Nat /\ MaxRetries \in Nat /\ MaxClears \in Nat
    /\ MaxLosses \in Nat
    /\ Denials \subseteq {"denied", "unique"}

VARIABLES
    sq,         \* the SyncQueue and the futures it spawned
    server,     \* the server's revision of every object, 0 when it has none
    known,      \* the revision in CloudModel's metadata, 0 when it has none
    next,       \* the next queue item id
    made,       \* the creations enqueued for every object
    excused,    \* objects whose next update may conflict (observer)
    fence,      \* the first item id of the current login
    clears,     \* logouts so far
    losses      \* attempts that failed so far

vars == <<sq, server, known, next, made, excused, fence, clears, losses>>

-----------------------------------------------------------------------------
(* Data.  An object has two ids, a SyncId::ClientId and a SyncId::ServerId. *)

Ids == {"client", "server"} \X Objects
QueueIds == 1..MaxItems
Obj(id) == id[2]
OtherId(id) == <<IF id[1] = "client" THEN "server" ELSE "client", id[2]>>

Creations == {"create", "bulk"}
Items ==
    [op : {"create", "bulk", "update", "action"},
     ids : SUBSET Ids,          \* the objects it creates, edits or reports on
     folders : SUBSET Ids,      \* initial_folder_id of what it creates
     rev : Nat,                 \* the revision it edits, 0 for None
     refs : SUBSET Objects]     \* the ClientIds a workflow still contains

ObjectsOf(item) == {Obj(id) : id \in item.ids}
Without(f, S) == [x \in DOMAIN f \ S |-> f[x]]
With(f, k, v) == [x \in DOMAIN f \cup {k} |-> IF x = k THEN v ELSE f[x]]

NoReply == [answer |-> "none", revs |-> [o \in Objects |-> 0]]
Answers == {"none", "created", "denied", "unique", "updated", "rejected", "recorded"}
Futures ==
    [item : Items, tries : Nat,
     reply : [answer : Answers, revs : [Objects -> Nat]]]

Events == {"created", "denied", "createFailed", "updated", "rejected",
           "updateFailed", "recorded", "recordFailed"}
Notices == [item : QueueIds, obj : Objects, event : Events]

\* The fields of SyncQueue; net holds the futures it spawned.  told, again,
\* orphaned and stalled are observers: the events emitted, the items answered
\* twice, the workflows enqueued although an object they reference is unknown,
\* and whether the last failure told the queue not to go on.
Partial(f, D, R) == DOMAIN f \subseteq D /\ f \in [DOMAIN f -> R]

Fields == {"queue", "deps", "waiting", "mapped", "dequeueing", "net",
           "told", "again", "orphaned", "stalled"}
IsQueue(s) == s = [f \in Fields |-> s[f]]

QueueType(s) ==
    /\ IsQueue(s)
    /\ Partial(s.queue, QueueIds, Items)
    /\ s.deps \in [DOMAIN s.queue -> SUBSET QueueIds]
    /\ s.waiting \in [Ids -> SUBSET QueueIds]
    /\ s.mapped \subseteq Objects
    /\ s.dequeueing \in BOOLEAN
    /\ Partial(s.net, QueueIds, Futures)
    /\ s.told \subseteq Notices
    /\ s.again \subseteq QueueIds /\ s.orphaned \subseteq QueueIds
    /\ s.stalled \in BOOLEAN

-----------------------------------------------------------------------------
(* Dependencies. *)

\* try_server_id: mapped stands for client_id_to_server and its inverse.
ServerKnown(s, id) == id[1] = "server" \/ Obj(id) \in s.mapped

\* The items that create or edit the object under this id, queued or in flight.
ItemsWithId(s, id) ==
    {q \in DOMAIN s.queue : s.queue[q].op # "action" /\ id \in s.queue[q].ids}
        \cup s.waiting[id]

\* Mutant: an object edited under both of its ids is looked up under one.
UpdateDependenciesOneId(s, id) == ItemsWithId(s, id)

UpdateDependencies(s, id) ==
    ItemsWithId(s, id) \cup
        (IF Obj(id) \in s.mapped THEN ItemsWithId(s, OtherId(id)) ELSE {})

Unresolved(s, item) == item.refs \ s.mapped
Creators(s, o) == ItemsWithId(s, <<"client", o>>)
Dangling(s, item) == \E o \in Unresolved(s, item) : Creators(s, o) = {}

\* Mutant: an item waits for what references its object as well.
DependenciesOnUsers(s, q, item) ==
    {r \in DOMAIN s.queue \ {q} :
        \/ ObjectsOf(s.queue[r]) \cap item.refs # {}
        \/ ObjectsOf(item) \cap s.queue[r].refs # {}}

Dependencies(s, q, item) ==
    ((IF item.op = "update"
      THEN UNION {UpdateDependencies(s, id) : id \in item.ids} ELSE {})
     \cup (IF Dangling(s, item)
           THEN {} ELSE UNION {Creators(s, o) : o \in Unresolved(s, item)}))
    \ {q}

-----------------------------------------------------------------------------
(* Events. *)

\* The items among notices that have been answered for the same object before.
Repeats(s, notices) ==
    {n.item : n \in {m \in notices : \E t \in s.told : t.item = m.item /\ t.obj = m.obj}}

Tell(s, notices) ==
    [s EXCEPT !.told = @ \cup notices, !.again = @ \cup Repeats(s, notices)]

Notify(q, item, event) ==
    {[item |-> q, obj |-> o, event |-> event] : o \in ObjectsOf(item)}

FailureOf(item) ==
    IF item.op \in Creations THEN "createFailed"
    ELSE IF item.op = "update" THEN "updateFailed" ELSE "recordFailed"

-----------------------------------------------------------------------------
(* Failure and success of an item. *)

\* Mutant: only the direct dependents fail.
DirectDependents(s, failed) == {q \in DOMAIN s.queue : s.deps[q] \cap failed # {}}

\* The items that depend, directly or not, on one of the failed items.
Dependents(s, failed) ==
    {q \in DOMAIN s.queue : \A X \in SUBSET DOMAIN s.queue :
        (\A r \in DOMAIN s.queue :
            s.deps[r] \cap (failed \cup X) # {} => r \in X) => q \in X}

\* Mutant: the entry in the map of dependencies is forgotten.
RemoveFromQueueOnly(s, items) == [s EXCEPT !.queue = Without(@, items)]

\* Items that leave the queue and the map of dependencies.
Remove(s, items) ==
    [s EXCEPT !.queue = Without(@, items), !.deps = Without(@, items)]

Unwait(s, items) == [s EXCEPT !.waiting = [id \in Ids |-> @[id] \ items]]

\* Mutant: the dependents are removed without an event.
FailSilently(s, failed) == Unwait(Remove(s, Dependents(s, failed)), failed)

\* The failed items are no longer queued; what depends on them fails with them.
Fail(s, failed) ==
    LET lost == Dependents(s, failed) IN
    Tell(Unwait(Remove(s, lost), failed),
         UNION {Notify(q, s.queue[q], FailureOf(s.queue[q])) : q \in lost})

Satisfy(s, q) ==
    [Unwait(s, {q}) EXCEPT !.deps = [r \in DOMAIN @ |-> @[r] \ {q}]]

\* Mutant: only the items that still name the object by its ClientId.
NewRevisionOfClientIds(s, objs, revs) ==
    [s EXCEPT !.queue = [q \in DOMAIN @ |->
        [@[q] EXCEPT !.rev =
            IF s.queue[q].op = "update" /\ \E o \in objs : <<"client", o>> \in s.queue[q].ids
            THEN 1 ELSE @]]]

\* Folder updates have no revision; an id the queue cannot convert yet stays.
Revised(s, item, objs) ==
    {id \in item.ids : item.op = "update" /\ Obj(id) \in objs \ Folders /\ ServerKnown(s, id)}

Revise(s, item, objs, revs) ==
    IF Revised(s, item, objs) = {} THEN item
    ELSE [item EXCEPT !.rev = revs[Obj(CHOOSE id \in Revised(s, item, objs) : TRUE)]]

NewRevision(s, objs, revs) ==
    [s EXCEPT !.queue = [q \in DOMAIN @ |-> Revise(s, @[q], objs, revs)]]

Resolve(item, objs) == [item EXCEPT !.refs = @ \ (objs \cap Referable)]

\* Mutant: the arm for UpdateWorkflow is missing.
ReplaceReferencesOfCreations(s, q, objs) ==
    [s EXCEPT !.queue = [r \in DOMAIN @ |->
        IF q \in s.deps[r] /\ @[r].op = "create" THEN Resolve(@[r], objs) ELSE @[r]]]

\* A workflow that waits for item q gets the server id of the object q created.
ReplaceReferences(s, q, objs) ==
    [s EXCEPT !.queue = [r \in DOMAIN @ |->
        IF q \in s.deps[r] THEN Resolve(@[r], objs) ELSE @[r]]]

-----------------------------------------------------------------------------
(* Dequeueing. *)

Ready(s) == {q \in DOMAIN s.queue : s.deps[q] = {}}

\* The ids that must be server ids before a request can be built.
Needs(item) == IF item.op \in Creations THEN item.folders ELSE item.ids
Sendable(s) == {q \in Ready(s) : \A id \in Needs(s.queue[q]) : ServerKnown(s, id)}

\* n calls of dequeue in a row.  Each takes the first ready item; one that
\* cannot be sent is skipped and the call takes the next.  An item taken frees
\* no other, so the calls send the first n items that can be sent.
Sent(s, n) ==
    {q \in Sendable(s) : Cardinality({r \in Sendable(s) : r < q}) < n}
Skipped(s, n) ==
    {q \in Ready(s) \ Sendable(s) :
        Cardinality({r \in Sendable(s) : r < q}) < n}

\* An update waits under the server id, a creation under the client id; a
\* skipped creation has been entered in waiting_response already, a skipped
\* update fails, and a skipped action is dropped.
WaitsUnder(item) ==
    IF item.op \in Creations THEN item.ids
    ELSE IF item.op = "update" THEN {<<"server", o>> : o \in ObjectsOf(item)} ELSE {}

Dequeue(s, n) ==
    IF ~s.dequeueing THEN s ELSE
    LET sent == Sent(s, n)
        skipped == Skipped(s, n)
        noId == {q \in skipped : s.queue[q].op = "update"}
        entered == sent \cup {q \in skipped : s.queue[q].op \in Creations}
        told == Tell(Fail(Remove(s, sent \cup skipped), noId),
                     UNION {Notify(q, s.queue[q], "updateFailed") : q \in noId})
    IN  [told EXCEPT
            !.stalled = FALSE,
            !.waiting = [id \in Ids |->
                @[id] \cup {q \in entered : id \in WaitsUnder(s.queue[q])}],
            !.net = [q \in DOMAIN @ \cup sent |->
                IF q \in sent
                THEN [item |-> s.queue[q], tries |-> 0, reply |-> NoReply]
                ELSE @[q]]]

\* enqueue: a workflow that references an unknown ClientId is answered with two
\* failures and is put in the queue all the same.  (The code stops replacing
\* references at the unknown one; the model replaces all that are known.)
Enqueue(s, q, item) ==
    LET lost == Dangling(s, item)
        failed == Tell(Tell(s, Notify(q, item, "createFailed")),
                       Notify(q, item, FailureOf(item)))
    IN  [(IF lost THEN failed ELSE s) EXCEPT
            !.queue = With(@, q, [item EXCEPT !.refs = Unresolved(s, item)]),
            !.deps = With(@, q, Dependencies(s, q, item)),
            !.orphaned = IF lost THEN @ \cup {q} ELSE @]

-----------------------------------------------------------------------------
(* What UpdateManager enqueues. *)

Told(o, event) == \E n \in sq.told : n.obj = o /\ n.event = event

\* The id under which CloudModel holds the object.
IdOf(o) == <<IF o \in Existing \/ Told(o, "created") THEN "server" ELSE "client", o>>

\* CloudModel holds the object.  At logout it is reset, and what has no server id
\* does not come back.
Local(o) == IdOf(o)[1] = "server" \/ \E q \in made[o] : q >= fence

\* A creation is enqueued once, and again only after the last one has failed.
Creatable(o) ==
    /\ IdOf(o)[1] = "client"
    /\ \A q \in made[o] : q >= fence /\ \E n \in sq.told :
            n.item = q /\ n.obj = o /\ n.event \in {"createFailed", "denied"}
    /\ FolderOf[o] # NoObject => Local(FolderOf[o])

InFolder(objs) == {IdOf(FolderOf[o]) : o \in {p \in objs : FolderOf[p] # NoObject}}
References(o) == {r \in IF o \in Workflows THEN RefsOf[o] ELSE {} : made[r] # {}}

EnqueueItem(item) ==
    /\ next <= MaxItems
    /\ sq' = Dequeue(Enqueue(sq, next, item), 1)
    /\ next' = next + 1
    /\ made' = [o \in Objects |->
           IF item.op \in Creations /\ o \in ObjectsOf(item)
           THEN made[o] \cup {next} ELSE made[o]]
    /\ UNCHANGED <<server, known, excused, fence, clears, losses>>

CreateObject(o, refs) ==
    /\ Creatable(o)
    /\ EnqueueItem([op |-> "create", ids |-> {<<"client", o>>},
                    folders |-> InFolder({o}), rev |-> 0, refs |-> refs])

BulkCreate(objs) ==
    /\ objs # {} /\ \A o \in objs : Creatable(o) /\ made[o] = {}
    /\ EnqueueItem([op |-> "bulk", ids |-> {"client"} \X objs,
                    folders |-> InFolder(objs), rev |-> 0, refs |-> {}])

UpdateObject(o, refs) ==
    /\ Local(o)
    /\ EnqueueItem([op |-> "update", ids |-> {IdOf(o)}, folders |-> {},
                    rev |-> IF o \in Folders THEN 0 ELSE known[o], refs |-> refs])

RecordObjectAction(o) ==
    /\ Local(o)
    /\ EnqueueItem([op |-> "action", ids |-> {IdOf(o)}, folders |-> {},
                    rev |-> 0, refs |-> {}])

StopDequeueing ==
    /\ sq.dequeueing
    /\ sq' = [sq EXCEPT !.dequeueing = FALSE]
    /\ UNCHANGED <<server, known, next, made, excused, fence, clears, losses>>

\* Mutant: the queue is enabled but nothing is dequeued.
EnableDequeueing ==
    /\ sq' = [sq EXCEPT !.dequeueing = TRUE]
    /\ UNCHANGED <<server, known, next, made, excused, fence, clears, losses>>

StartDequeueing ==
    /\ sq' = Dequeue([sq EXCEPT !.dequeueing = TRUE], 1)
    /\ UNCHANGED <<server, known, next, made, excused, fence, clears, losses>>

\* Logout.  The spawned futures and should_dequeue are left alone.
Clear ==
    /\ clears < MaxClears
    /\ sq' = [sq EXCEPT !.queue = Without(@, DOMAIN @), !.deps = Without(@, DOMAIN @),
                        !.waiting = [id \in Ids |-> {}], !.mapped = {}]
    /\ fence' = next
    /\ clears' = clears + 1
    /\ excused' = excused \cup UNION {ObjectsOf(sq.net[q].item) : q \in DOMAIN sq.net}
    /\ UNCHANGED <<server, known, next, made, losses>>

-----------------------------------------------------------------------------
(* The server and other clients: external, modelled from the answers that the
   client code distinguishes. *)

Reply(q, answer, revisions) ==
    LET item == sq.net[q].item IN
    /\ server' = revisions
    /\ sq' = [sq EXCEPT !.net[q].reply = [answer |-> answer,
            revs |-> [o \in Objects |->
                        IF o \in ObjectsOf(item) THEN revisions[o] ELSE 0]]]
    /\ UNCHANGED <<known, next, made, excused, fence, clears, losses>>

Pending(q) == q \in DOMAIN sq.net /\ sq.net[q].reply.answer = "none"

\* A creation that arrives a second time, after its answer was lost, finds the
\* object it created.
ServerCreates(q) ==
    /\ Pending(q) /\ sq.net[q].item.op \in Creations
    /\ Reply(q, "created", [o \in Objects |->
           IF o \in ObjectsOf(sq.net[q].item) /\ server[o] = 0 THEN 1 ELSE server[o]])

ServerRefuses(q, answer) ==
    /\ Pending(q) /\ sq.net[q].item.op \in Creations
    /\ sq.net[q].item.op = "bulk" => answer = "unique"
    /\ \A o \in ObjectsOf(sq.net[q].item) : server[o] = 0
    /\ Reply(q, answer, server)

Current(item) == item.rev = 0 \/ \A o \in ObjectsOf(item) : item.rev = server[o]

ServerUpdates(q) ==
    /\ Pending(q) /\ sq.net[q].item.op = "update"
    /\ IF Current(sq.net[q].item)
       THEN Reply(q, "updated", [o \in Objects |->
                IF o \in ObjectsOf(sq.net[q].item) THEN server[o] + 1 ELSE server[o]])
       ELSE Reply(q, "rejected", server)

ServerRecords(q) ==
    /\ Pending(q) /\ sq.net[q].item.op = "action"
    /\ Reply(q, "recorded", server)

ServerHandles(q) ==
    \/ ServerCreates(q)
    \/ \E answer \in Denials : ServerRefuses(q, answer)
    \/ ServerUpdates(q)
    \/ ServerRecords(q)

\* Another client edits the object.
OtherClientUpdates(o) ==
    /\ server[o] \in 1..(MaxRev - 1)
    /\ server' = [server EXCEPT ![o] = @ + 1]
    /\ excused' = excused \cup {o}
    /\ UNCHANGED <<sq, known, next, made, fence, clears, losses>>

Editing(o) ==
    \/ \E q \in DOMAIN sq.queue :
           sq.queue[q].op # "action" /\ o \in ObjectsOf(sq.queue[q])
    \/ \E q \in DOMAIN sq.net :
           q >= fence /\ sq.net[q].item.op # "action" /\ o \in ObjectsOf(sq.net[q].item)

\* CloudModel takes the server's revision, unless it has changes of its own.
LearnRevision(o) ==
    /\ IdOf(o)[1] = "server" /\ ~Editing(o) /\ known[o] # server[o]
    /\ known' = [known EXCEPT ![o] = server[o]]
    /\ UNCHANGED <<sq, server, next, made, excused, fence, clears, losses>>

-----------------------------------------------------------------------------
(* What the callbacks of the requests do. *)

Answered(q, answer) == q \in DOMAIN sq.net /\ sq.net[q].reply.answer = answer
Taken(q) == [sq EXCEPT !.net = Without(@, {q})]

\* UpdateManager stores the revisions that the success events carry.
Learn(objs, revs) == known' = [o \in Objects |-> IF o \in objs THEN revs[o] ELSE known[o]]

\* A bulk creation handles its objects one after the other, with a dequeue each.
\* Preferences are referenced by nothing, so the dequeues send the same items
\* when they all come last.
CreationSucceeds(q) ==
    /\ Answered(q, "created")
    /\ LET item == sq.net[q].item
           objs == ObjectsOf(item)
           revs == sq.net[q].reply.revs
           replaced == IF item.op = "create"
                       THEN ReplaceReferences(Taken(q), q, objs) ELSE Taken(q)
           done == Satisfy([replaced EXCEPT !.mapped = @ \cup objs], q)
       IN  /\ sq' = Dequeue(Tell(NewRevision(done, objs, revs), Notify(q, item, "created")),
                            Cardinality(objs))
           /\ Learn(objs, revs)
    /\ UNCHANGED <<server, next, made, excused, fence, clears, losses>>

\* UserFacingError: what depends on the creation is released, not failed.
CreationDenied(q) ==
    /\ Answered(q, "denied")
    /\ sq' = Dequeue(Tell(Satisfy(Taken(q), q), Notify(q, sq.net[q].item, "denied")), 1)
    /\ UNCHANGED <<server, known, next, made, excused, fence, clears, losses>>

CreationConflicts(q) ==
    /\ Answered(q, "unique")
    /\ sq' = Dequeue(Tell(Fail(Taken(q), {q}), Notify(q, sq.net[q].item, "createFailed")), 1)
    /\ UNCHANGED <<server, known, next, made, excused, fence, clears, losses>>

UpdateSucceeds(q) ==
    /\ Answered(q, "updated")
    /\ LET item == sq.net[q].item
           revs == sq.net[q].reply.revs
       IN  /\ sq' = Dequeue(Tell(NewRevision(Satisfy(Taken(q), q), ObjectsOf(item), revs),
                                 Notify(q, item, "updated")), 1)
           /\ Learn(ObjectsOf(item), revs)
    /\ UNCHANGED <<server, next, made, excused, fence, clears, losses>>

\* Some types of object take the server's version, others remember a conflict.
UpdateRejected(q) ==
    /\ Answered(q, "rejected")
    /\ LET item == sq.net[q].item IN
        /\ sq' = Dequeue(Satisfy(Tell(Taken(q), Notify(q, item, "rejected")), q), 1)
        /\ \/ Learn(ObjectsOf(item), sq.net[q].reply.revs)
           \/ UNCHANGED known
    /\ UNCHANGED <<server, next, made, excused, fence, clears, losses>>

ActionRecorded(q) ==
    /\ Answered(q, "recorded")
    /\ sq' = Dequeue(Tell(Satisfy(Taken(q), q), Notify(q, sq.net[q].item, "recorded")), 1)
    /\ UNCHANGED <<server, known, next, made, excused, fence, clears, losses>>

\* An attempt fails before or after the server handled it: an edit that took
\* effect unseen makes the client's revision stale.
AttemptLost(q) ==
    /\ q \in DOMAIN sq.net /\ losses < MaxLosses
    /\ losses' = losses + 1
    /\ excused' = IF sq.net[q].reply.answer \in {"created", "updated"}
                  THEN excused \cup ObjectsOf(sq.net[q].item) ELSE excused
    /\ UNCHANGED <<server, known, next, made, fence, clears>>

\* Mutant: a failure is announced although the request will be retried.
RetryAnnounced(q) ==
    /\ AttemptLost(q) /\ sq.net[q].tries < MaxRetries
    /\ sq' = Tell([sq EXCEPT !.net[q].tries = @ + 1, !.net[q].reply = NoReply],
                  Notify(q, sq.net[q].item, FailureOf(sq.net[q].item)))

RetryRequest(q) ==
    /\ AttemptLost(q) /\ sq.net[q].tries < MaxRetries
    /\ sq' = [sq EXCEPT !.net[q].tries = @ + 1, !.net[q].reply = NoReply]

\* Mutant: no error dequeues.
RequestFailedStops(q, persistent) ==
    /\ AttemptLost(q) /\ sq.net[q].tries = MaxRetries
    /\ LET item == sq.net[q].item
           failed == Tell(Fail(Taken(q), {q}), Notify(q, item, FailureOf(item)))
       IN  sq' = IF persistent THEN [failed EXCEPT !.stalled = TRUE] ELSE failed

\* RequestFailed, and maybe_dequeue_on_error: a persistent error, one that the
\* next item would meet as well, does not dequeue.
RequestFailed(q, persistent) ==
    /\ AttemptLost(q) /\ sq.net[q].tries = MaxRetries
    /\ LET item == sq.net[q].item
           failed == Tell(Fail(Taken(q), {q}), Notify(q, item, FailureOf(item)))
       IN  sq' = IF persistent THEN [failed EXCEPT !.stalled = TRUE]
                 ELSE Dequeue(failed, 1)

HandleResponse(q) ==
    \/ CreationSucceeds(q) \/ CreationDenied(q) \/ CreationConflicts(q)
    \/ UpdateSucceeds(q) \/ UpdateRejected(q) \/ ActionRecorded(q)

-----------------------------------------------------------------------------
(* Startup: the objects with pending changes found in SQLite, a creation for
   those without a server id and an update for the others, then the actions.
   Everything enters the queue before any dependency is inferred. *)

StartItem(o, op, refs, created) ==
    [op |-> op,
     ids |-> {<<IF o \in Existing THEN "server" ELSE "client", o>>},
     folders |-> IF op = "create" /\ FolderOf[o] # NoObject
                 THEN {<<IF FolderOf[o] \in Existing THEN "server" ELSE "client",
                         FolderOf[o]>>}
                 ELSE {},
     rev |-> IF op = "update" /\ o \notin Folders THEN 1 ELSE 0,
     refs |-> IF op # "action" /\ refs /\ o \in Workflows
              THEN RefsOf[o] \cap created ELSE {}]

\* edits[i] is the object that row i of SQLite holds; reports[j] the object of
\* the j-th pending action; linked says whether workflows name their objects
\* by ClientId.
StartQueue(edits, reports, linked) ==
    LET n == Len(edits)
        created == {edits[i] : i \in 1..n} \ Existing
    IN  [q \in 1..(n + Len(reports)) |->
            IF q <= n
            THEN StartItem(edits[q], IF edits[q] \in Existing THEN "update" ELSE "create",
                           linked, created)
            ELSE StartItem(reports[q - n], "action", FALSE, {})]

\* A row exists once per object, and what a row names is in SQLite as well.
StartRows(n) ==
    {rows \in [1..n -> Objects] :
        /\ \A i, j \in 1..n : rows[i] = rows[j] => i = j
        /\ \A i \in 1..n : FolderOf[rows[i]] \in
               {NoObject} \cup Existing \cup {rows[j] : j \in 1..n}}

Empty(items) ==
    [queue |-> items, deps |-> [q \in DOMAIN items |-> {}],
     waiting |-> [id \in Ids |-> {}], mapped |-> {}, dequeueing |-> FALSE,
     net |-> [q \in {} |-> NoReply], told |-> {}, again |-> {}, orphaned |-> {},
     stalled |-> FALSE]

NewQueue(items) ==
    [Empty(items) EXCEPT !.deps =
        [q \in DOMAIN items |-> Dependencies(Empty(items), q, items[q])]]

Init ==
    /\ \E n \in 0..MaxStart : \E m \in 0..(MaxStart - n) :
        \E edits \in StartRows(n), reports \in [1..m -> Reported], linked \in BOOLEAN :
            /\ \A j \in 1..m : reports[j] \in Existing \cup {edits[i] : i \in 1..n}
            /\ sq = NewQueue(StartQueue(edits, reports, linked))
            /\ next = n + m + 1
            /\ made = [o \in Objects |-> {i \in 1..n : edits[i] = o /\ o \notin Existing}]
    /\ server = [o \in Objects |-> IF o \in Existing THEN 1 ELSE 0]
    /\ known = server
    /\ excused = {} /\ fence = 1 /\ clears = 0 /\ losses = 0

Enqueues ==
    \/ \E o \in Objects : \E refs \in SUBSET References(o) :
           (o \in Preferences => made[o] # {}) /\ CreateObject(o, refs)
    \/ \E objs \in SUBSET Preferences : BulkCreate(objs)
    \/ \E o \in Objects : \E refs \in SUBSET References(o) : UpdateObject(o, refs)
    \/ \E o \in Reported : RecordObjectAction(o)

Next ==
    \/ Enqueues
    \/ StopDequeueing \/ StartDequeueing \/ Clear
    \/ \E o \in Objects : OtherClientUpdates(o) \/ LearnRevision(o)
    \/ \E q \in QueueIds :
        \/ ServerHandles(q) \/ HandleResponse(q) \/ RetryRequest(q)
        \/ \E persistent \in BOOLEAN : RequestFailed(q, persistent)

Spec == Init /\ [][Next]_vars

\* The server answers, the executor runs the callbacks of finished requests, and
\* the poller, which runs as long as the app is online, restarts the queue.
Fairness ==
    /\ WF_vars(StartDequeueing)
    /\ \A q \in QueueIds : WF_vars(ServerHandles(q)) /\ WF_vars(HandleResponse(q))

FairSpec == Spec /\ Fairness

-----------------------------------------------------------------------------
(* Properties. *)

(* Every variable has its type, and the map of dependencies has an entry for   *)
(* exactly the queued items: an item without an entry is never dequeued.       *)
TypeOK ==
    /\ QueueType(sq)
    /\ DOMAIN sq.queue \cap DOMAIN sq.net = {}
    /\ server \in [Objects -> Nat]
    /\ known \in [Objects -> Nat]
    /\ next \in 1..(MaxItems + 1)
    /\ made \in [Objects -> SUBSET QueueIds]
    /\ excused \subseteq Objects
    /\ fence \in 1..(MaxItems + 1) /\ clears \in Nat /\ losses \in Nat

(* "Serial order": of two updates of one object made in the same login, the    *)
(* later one stays queued, and depends on the earlier one, until the earlier   *)
(* one is answered.  Hence no two updates of an object are in flight together  *)
(* and they are sent in the order of the edits, under whichever of its two ids *)
(* the object was edited.  (The map of both ids, waiting_response and the      *)
(* queue have to agree for that.)                                              *)
IsUpdate(q) ==
    \/ q \in DOMAIN sq.queue /\ sq.queue[q].op = "update"
    \/ q \in DOMAIN sq.net /\ q >= fence /\ sq.net[q].item.op = "update"
Touches(q) == ObjectsOf(IF q \in DOMAIN sq.queue THEN sq.queue[q] ELSE sq.net[q].item)

UpdatesAreSerial ==
    \A q, r \in QueueIds :
        IsUpdate(q) /\ IsUpdate(r) /\ q < r /\ Touches(q) \cap Touches(r) # {}
            => r \in DOMAIN sq.queue /\ q \in sq.deps[r]

(* An object is created by at most one request at a time: UpdateManager sends  *)
(* a creation again only after a failure was announced.  (Not for a workflow   *)
(* with an unknown reference, which fails and stays queued.)                   *)
CreationsAreUnique ==
    \A q, r \in QueueIds \ sq.orphaned :
        /\ q \in DOMAIN sq.queue \cup DOMAIN sq.net
        /\ r \in DOMAIN sq.queue \cup DOMAIN sq.net
        /\ q # r
        /\ {q, r} \subseteq UNION {made[o] : o \in Objects}
        => Touches(q) \cap Touches(r) = {}

(* Whatever a queued item waits for is queued or in flight, so that its answer *)
(* will release the item or fail it.                                           *)
DependenciesAreLive ==
    \A q \in DOMAIN sq.queue : sq.deps[q] \subseteq DOMAIN sq.queue \cup DOMAIN sq.net

(* Queued items never wait for each other in a cycle, although at startup      *)
(* every row is in the queue before any dependency is inferred: a workflow may *)
(* depend on an enum that stands behind it, and an update finds itself.        *)
NoCyclicWait ==
    \A S \in SUBSET DOMAIN sq.queue :
        S # {} => \E q \in S : sq.deps[q] \cap S = {}

(* An item that could be sent while the queue is dequeueing is not forgotten:  *)
(* some request is in flight whose callback will dequeue again, unless the     *)
(* last request failed with a persistent error.                                *)
NothingIsStranded ==
    sq.dequeueing /\ ~sq.stalled /\ Ready(sq) # {} => sq.net # Without(sq.net, DOMAIN sq.net)

(* sync_queue.rs: "We should never dequeue a Workflow that references          *)
(* ClientIds rather than ServerIds."  The code does so in two ways: with an     *)
(* unknown reference, and with one to an object whose creation was denied.     *)
ClientIdsSentOnlyIfDenied ==
    \A q \in DOMAIN sq.net : \A o \in sq.net[q].item.refs :
        q \in sq.orphaned \/ Told(o, "denied")

(* UpdateManager counts the events of an object to know when it is synced:     *)
(* every item emits at most one event for each of its objects.                 *)
AnsweredOnce == sq.again \subseteq sq.orphaned

(* The client never conflicts with itself: an update is rejected only if       *)
(* another client, an unseen answer or an earlier login changed the object, or *)
(* if a creation of it that was announced to have failed was sent all the same *)
(* (a workflow with an unknown reference): created again, the object has two   *)
(* creations under way, and the later answer brings an old revision.           *)
ConflictsHaveACause ==
    \A n \in sq.told : n.event = "rejected" =>
        n.obj \in excused \/ made[n.obj] \cap sq.orphaned # {}

(* A creation or an update that leaves the queue is sent or is announced to    *)
(* have failed in that very step; only logout forgets it.                      *)
NothingVanishes ==
    [][\A q \in DOMAIN sq.queue \ DOMAIN sq'.queue :
        \/ sq.queue[q].op = "action" \/ q \in DOMAIN sq'.net
        \/ \E n \in sq'.told : n.item = q
        \/ clears' # clears]_vars

(* Every queued creation or update is answered in the end, or forgotten by a   *)
(* logout.                                                                     *)
EverythingIsAnswered ==
    \A q \in QueueIds :
        (q \in DOMAIN sq.queue /\ sq.queue[q].op # "action")
            ~> (q < fence \/ \E n \in sq.told : n.item = q)
=============================================================================
