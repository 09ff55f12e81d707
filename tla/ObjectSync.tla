----------------------------- MODULE ObjectSync ------------------------------
(***************************************************************************)
(* One cloud object that the server knows, in all the places it lives:     *)
(* CloudModel in memory, its row in SQLite, the updates of it that the     *)
(* sync queue holds, the server, real-time messages, poll answers and      *)
(* fetches (app/src/server/cloud_objects/update_manager.rs, called UM      *)
(* below), through edits, conflicts, failures and restarts of the app.     *)
(*                                                                         *)
(* A content is a number that no other version of the object has.  The     *)
(* server's revisions are the positions of history.  SyncQueue models the  *)
(* queue for many objects; of it this module keeps the updates of one.     *)
(***************************************************************************)
EXTENDS Naturals, Sequences

CONSTANTS
    Kinds,          \* what handle_conflicting_object does for the object's type
    MaxEdits,       \* edits of this user (bound)
    MaxOthers,      \* edits of other clients (bound)
    MaxCrashes,     \* exits and crashes of the app (bound)
    MaxLosses,      \* requests or answers that fail (bound)
    MaxRetries,     \* max retry count of DEFAULT_RETRY_OPTION
    ChannelSize     \* CHANNEL_SIZE of the SQLite writer

\* "mark": notebooks and agent profiles; "overwrite": workflows, their enums
\* and environment variables; "ignore": rules, MCP servers, preferences...
ASSUME KindsAssumption == Kinds \subseteq {"mark", "overwrite", "ignore"}
ASSUME BoundsAssumption ==
    /\ MaxEdits \in Nat /\ MaxOthers \in Nat /\ MaxCrashes \in Nat
    /\ MaxLosses \in Nat /\ MaxRetries \in Nat /\ ChannelSize \in Nat \ {0}

VARIABLES
    kind,           \* the object's kind
    mem,            \* the object in CloudModel
    disk,           \* its row in SQLite
    channel,        \* the events sent to the SQLite writer
    queue, net,     \* its updates in SyncQueue: those that wait, the one sent
    loaded,         \* the first poll answer has started the dequeueing
    history,        \* the server: the content of every revision
    rtc,            \* real-time messages on their way
    poll, fetch,    \* the poll and the fetch_single_cloud_object under way
    \* observers
    mine,           \* the edit whose outcome this user still waits for
    saw,            \* the last edit of another client that a content builds on
    overtaken,      \* the object was reset while updates of it were outstanding
    forgotten,      \* the row of an object InConflict was saved as not pending
    used            \* what the bounds allowed and has been used

vars == <<kind, mem, disk, channel, queue, net, loaded, history, rtc, poll,
          fetch, mine, saw, overtaken, forgotten, used>>

-----------------------------------------------------------------------------
Contents == 0..(MaxEdits + MaxOthers)
Revisions == Nat \ {0}
NoRevision == 0
Statuses == {"NoLocalChanges", "InFlight", "InConflict", "Errored"}

Update == [content : Contents, rev : Revisions]
Request == [item : Update, tries : 0..MaxRetries,
            reply : {"idle", "none", "accepted", "rejected", "error"},
            at : Revisions \cup {NoRevision}]
Row == [rev : Revisions, content : Contents, pending : BOOLEAN]
Memory == [rev : Revisions, content : Contents, status : Statuses, count : Nat,
           conflict : Revisions \cup {NoRevision}]
Event == [op : {"upsert", "synced"}, row : Row]
Poll == [asked : Revisions, from : Revisions \cup {NoRevision}, force : BOOLEAN]
NoPoll == [asked |-> 1, from |-> NoRevision, force |-> FALSE]

Rev == Len(history)                     \* the server's revision
NextContent == used.edits + used.others + 1
Spend(what) == used' = [used EXCEPT ![what] = @ + 1]

-----------------------------------------------------------------------------
(* The object in memory. *)

\* has_pending_content_changes
Pending(o) == o.status \in {"InFlight", "Errored"}

\* Mutant: the number of edits is not counted.
IncrementOnce(o) == [o EXCEPT !.status = "InFlight", !.count = 1]

\* increment_in_flight_request_count
Increment(o) ==
    [o EXCEPT !.status = "InFlight",
              !.count = IF o.status = "InFlight" THEN @ + 1 ELSE 1]

\* Mutant: the counter reaches zero and the object stays in flight.
DecrementToZero(o, n, none) ==
    IF o.status = "InFlight" /\ o.count >= n THEN [o EXCEPT !.count = @ - n] ELSE o

\* Mutant: the counter is decremented whatever the status.
DecrementUnchecked(o, n, none) ==
    [o EXCEPT !.count = @ - n, !.status = IF o.count > n THEN @ ELSE none]

\* Mutant: the first answer leaves the status that is meant for the last.
DecrementAtOnce(o, n, none) ==
    IF o.status # "InFlight" THEN o ELSE [o EXCEPT !.status = none, !.count = 0]

\* n calls of decrement_in_flight_request_count
DecrementBy(o, n, none) ==
    IF o.status # "InFlight" THEN o
    ELSE IF o.count > n THEN [o EXCEPT !.count = @ - n]
    ELSE [o EXCEPT !.status = none, !.count = 0]

\* Mutant: any answer ends it.
NoLongerCounted(o) == TRUE

NoLongerInFlight(o) == o.status # "InFlight"

\* Mutant: the revision moves, the content stays.
UpdateRevisionFromServer(o, r) ==
    IF Pending(o) \/ o.conflict # NoRevision
    THEN [o EXCEPT !.conflict = r, !.rev = r]
    ELSE [o EXCEPT !.rev = r, !.content = history[r]]

\* update_from_server_object
UpdateFromServer(o, r) ==
    IF Pending(o) \/ o.conflict # NoRevision
    THEN [o EXCEPT !.conflict = r]
    ELSE [o EXCEPT !.rev = r, !.content = history[r]]

\* replace_object_with_conflict
ReplaceWithConflict(o) ==
    LET rested == [o EXCEPT !.status = "NoLocalChanges", !.count = 0,
                            !.conflict = NoRevision]
    IN  IF o.conflict = NoRevision THEN rested
        ELSE [rested EXCEPT !.rev = o.conflict, !.content = history[o.conflict]]

-----------------------------------------------------------------------------
(* The database.  A handler whose event does not fit waits for the writer. *)

RowOf(o) == [rev |-> o.rev, content |-> o.content, pending |-> Pending(o)]
Upsert(o) == [op |-> "upsert", row |-> RowOf(o)]
Synced(o) == [op |-> "synced", row |-> RowOf(o)]    \* MarkObjectAsSynced

Save(event) ==
    /\ Len(channel) < ChannelSize
    /\ channel' = Append(channel, event)
SaveIf(condition, event) ==
    \/ condition /\ Save(event)
    \/ ~condition /\ channel' = channel

Apply(row, event) ==
    IF event.op = "upsert" THEN event.row
    ELSE [row EXCEPT !.rev = event.row.rev, !.pending = FALSE]

Write ==
    /\ channel # <<>>
    /\ disk' = Apply(disk, Head(channel))
    /\ channel' = Tail(channel)
    /\ UNCHANGED <<kind, mem, queue, net, loaded, history, rtc, poll, fetch,
                   mine, saw, overtaken, forgotten, used>>

-----------------------------------------------------------------------------
(* The sync queue. *)

Idle == [item |-> [content |-> 0, rev |-> 1], tries |-> 0, reply |-> "idle",
         at |-> NoRevision]
Busy == net.reply # "idle"
Outstanding == Len(queue) + IF Busy THEN 1 ELSE 0

Send(item) ==
    net' = [item |-> item, tries |-> 0, reply |-> "none", at |-> NoRevision]

\* dequeue, when no request is out
Dequeue(items, enabled) ==
    \/ /\ enabled /\ items # <<>>
       /\ Send(Head(items)) /\ queue' = Tail(items)
    \/ /\ ~enabled \/ items = <<>>
       /\ net' = Idle /\ queue' = items

Enqueue(item) ==
    \/ ~Busy /\ Dequeue(Append(queue, item), loaded)
    \/ Busy /\ queue' = Append(queue, item) /\ net' = net

UpdateOf(o) == [content |-> o.content, rev |-> o.rev]

\* UpdateManager::update_object
UpdateObject ==
    /\ used.edits < MaxEdits
    /\ mem' = Increment([mem EXCEPT !.content = NextContent])
    /\ Save(Upsert(mem'))
    /\ Enqueue(UpdateOf(mem'))
    /\ saw' = [saw EXCEPT ![NextContent] = saw[mem.content]]
    /\ mine' = NextContent
    /\ Spend("edits")
    /\ UNCHANGED <<kind, disk, loaded, history, rtc, poll, fetch, overtaken, forgotten>>

\* resync_object: the user retries a failed update.
ResyncObject ==
    /\ mem.status = "Errored"
    /\ mem' = [mem EXCEPT !.status = "InFlight", !.count = 1]
    /\ Enqueue(UpdateOf(mem))
    /\ mine' = mem.content
    /\ UNCHANGED <<kind, disk, channel, loaded, history, rtc, poll, fetch, saw,
                   overtaken, forgotten, used>>

Waiting(c) == IF c = mine THEN 0 ELSE mine

UpdatesWithRevision(r) == [i \in DOMAIN queue |-> [queue[i] EXCEPT !.rev = r]]

\* ObjectUpdateSuccessful
UpdateSuccessful ==
    /\ net.reply = "accepted"
    /\ LET at == net.at
           current == [mem EXCEPT !.rev = at,
                          !.conflict = IF @ <= at THEN NoRevision ELSE @]
       IN  /\ mem' = DecrementBy(current, 1, "NoLocalChanges")
           /\ SaveIf(NoLongerInFlight(mem'), Synced(mem'))
           /\ Dequeue(UpdatesWithRevision(at), loaded)
    /\ mine' = Waiting(net.item.content)
    /\ UNCHANGED <<kind, disk, loaded, history, rtc, poll, fetch, saw,
                   overtaken, forgotten, used>>

\* ObjectUpdateRejected: handle_conflicting_object
UpdateRejected ==
    /\ net.reply = "rejected"
    /\ LET at == net.at
           overwritten == [mem EXCEPT !.rev = at, !.content = history[at]]
       IN  \/ /\ kind = "mark"
              /\ mem' = [mem EXCEPT !.conflict = at, !.status = "InConflict", !.count = 0]
              /\ channel' = channel
              /\ mine' = Waiting(net.item.content)
           \/ /\ kind = "overwrite"
              /\ mem' = DecrementBy(overwritten, 1, "NoLocalChanges")
              /\ Save(Upsert(mem'))
              /\ mine' = Waiting(net.item.content)
           \/ /\ kind = "ignore"
              /\ UNCHANGED <<mem, channel, mine>>
    /\ Dequeue(queue, loaded)
    /\ overtaken' = (overtaken \/ queue # <<>>)
    /\ UNCHANGED <<kind, disk, loaded, history, rtc, poll, fetch, saw,
                   forgotten, used>>

\* The request is sent again; after the last retry the update fails, and the
\* updates that wait for it fail with it (ObjectUpdateFailure).
UpdateFailed ==
    /\ net.reply = "error"
    /\ \/ /\ net.tries < MaxRetries
          /\ net' = [net EXCEPT !.tries = @ + 1, !.reply = "none"]
          /\ UNCHANGED <<mem, queue, mine>>
       \/ /\ net.tries = MaxRetries
          /\ mem' = DecrementBy(mem, Outstanding, "Errored")
          /\ net' = Idle /\ queue' = <<>>
          /\ mine' = 0
    /\ UNCHANGED <<kind, disk, channel, loaded, history, rtc, poll, fetch, saw,
                   overtaken, forgotten, used>>

-----------------------------------------------------------------------------
(* What the client hears of the server, in any order. *)

SaveFromServer(updated) ==
    /\ SaveIf(updated, Upsert(mem'))
    /\ forgotten' = (forgotten \/ (updated /\ mem'.status = "InConflict"))

\* handle_cloud_object_changed_event: a message that is no newer only matters
\* when it carries newer metadata.
ReceiveMessage(newMetadata) ==
    /\ rtc # <<>>
    /\ rtc' = Tail(rtc)
    /\ LET r == Head(rtc)
           updated == r > mem.rev
       IN  /\ mem' = IF updated THEN UpdateFromServer(mem, r) ELSE mem
           /\ SaveFromServer(updated \/ newMetadata)
    /\ UNCHANGED <<kind, disk, queue, net, loaded, history, poll, fetch, mine,
                   saw, overtaken, used>>

\* The request names the revisions the client has; the server looks at them
\* some time before its answer is handled.
StartPoll(force) ==
    /\ poll = NoPoll
    /\ poll' = [asked |-> mem.rev, from |-> Rev, force |-> force]
    /\ UNCHANGED <<kind, mem, disk, channel, queue, net, loaded, history, rtc,
                   fetch, mine, saw, overtaken, forgotten, used>>

\* on_changed_objects_fetched: revisions are not compared.
PollAnswered(r) ==
    /\ poll # NoPoll
    /\ r \in poll.from..Rev
    /\ LET returned == r # poll.asked \/ poll.force
       IN  /\ mem' = IF returned THEN UpdateFromServer(mem, r) ELSE mem
           /\ SaveFromServer(returned)
    /\ loaded' = TRUE
    /\ \/ ~Busy /\ Dequeue(queue, TRUE)
       \/ Busy /\ UNCHANGED <<queue, net>>
    /\ poll' = NoPoll
    /\ UNCHANGED <<kind, disk, history, rtc, fetch, mine, saw, overtaken, used>>

\* The user reverts a failed update: fetch_single_cloud_object, ForceOverwrite
RevertToServer ==
    /\ mem.status = "Errored" /\ fetch = NoRevision
    /\ fetch' = Rev
    /\ UNCHANGED <<kind, mem, disk, channel, queue, net, loaded, history, rtc,
                   poll, mine, saw, overtaken, forgotten, used>>

Reset(o) ==
    /\ mem' = ReplaceWithConflict(o)
    /\ Save(Upsert(mem'))
    /\ overtaken' = (overtaken \/ Outstanding > 0)

FetchAnswered(r) ==
    /\ fetch # NoRevision
    /\ r \in fetch..Rev
    /\ Reset(UpdateFromServer(mem, r))
    /\ fetch' = NoRevision
    /\ UNCHANGED <<kind, disk, queue, net, loaded, history, rtc, poll, mine,
                   saw, forgotten, used>>

\* The banner of a notebook offers it when has_conflicts says so.
ResolveConflict ==
    /\ kind = "mark"
    /\ mem.conflict # NoRevision /\ ~Pending(mem)
    /\ Reset(mem)
    /\ UNCHANGED <<kind, disk, queue, net, loaded, history, rtc, poll, fetch,
                   mine, saw, forgotten, used>>

\* Mutant: a pending row is loaded, and not sent.
RequeuedNever(row) == <<>>

Requeued(row) == IF row.pending THEN <<UpdateOf(row)>> ELSE <<>>

\* The app exits or crashes, and starts from what the writer has written.
Restart ==
    /\ used.crashes < MaxCrashes
    /\ Spend("crashes")
    /\ mem' = [rev |-> disk.rev, content |-> disk.content,
               status |-> IF disk.pending THEN "InFlight" ELSE "NoLocalChanges",
               count |-> IF disk.pending THEN 1 ELSE 0, conflict |-> NoRevision]
    /\ queue' = Requeued(disk)
    /\ mine' = IF disk.pending THEN disk.content ELSE 0
    /\ net' = Idle /\ channel' = <<>> /\ rtc' = <<>> /\ poll' = NoPoll
    /\ fetch' = NoRevision /\ loaded' = FALSE
    /\ UNCHANGED <<kind, disk, history, saw, overtaken, forgotten>>

-----------------------------------------------------------------------------
(* The server, other clients and the network: external. *)

Publish(content) ==
    /\ history' = Append(history, content)
    /\ rtc' = Append(rtc, Rev + 1)

Reply(answer, r) == net' = [net EXCEPT !.reply = answer, !.at = r]

ServerAccepts ==
    /\ net.reply = "none" /\ net.item.rev = Rev
    /\ Publish(net.item.content)
    /\ Reply("accepted", Rev + 1)
    /\ UNCHANGED <<kind, mem, disk, channel, queue, loaded, poll, fetch, mine,
                   saw, overtaken, forgotten, used>>

ServerRejects ==
    /\ net.reply = "none" /\ net.item.rev # Rev
    /\ Reply("rejected", Rev)
    /\ UNCHANGED <<kind, mem, disk, channel, queue, loaded, history, rtc, poll,
                   fetch, mine, saw, overtaken, forgotten, used>>

\* The request or its answer is lost.
RequestFails ==
    /\ used.losses < MaxLosses
    /\ net.reply \notin {"idle", "error"}
    /\ Reply("error", NoRevision)
    /\ Spend("losses")
    /\ UNCHANGED <<kind, mem, disk, channel, queue, loaded, history, rtc, poll,
                   fetch, mine, saw, overtaken, forgotten>>

OtherClientUpdates ==
    /\ used.others < MaxOthers
    /\ Publish(NextContent)
    /\ saw' = [saw EXCEPT ![NextContent] = NextContent]
    /\ Spend("others")
    /\ UNCHANGED <<kind, mem, disk, channel, queue, net, loaded, poll, fetch,
                   mine, overtaken, forgotten>>

LoseMessage ==
    /\ rtc # <<>>
    /\ rtc' = Tail(rtc)
    /\ UNCHANGED <<kind, mem, disk, channel, queue, net, loaded, history, poll,
                   fetch, mine, saw, overtaken, forgotten, used>>

-----------------------------------------------------------------------------
Synchronized ==
    [rev |-> 1, content |-> 0, status |-> "NoLocalChanges", count |-> 0,
     conflict |-> NoRevision]

Init ==
    /\ kind \in Kinds
    /\ mem = Synchronized /\ disk = RowOf(Synchronized)
    /\ channel = <<>> /\ queue = <<>> /\ net = Idle /\ loaded = FALSE
    /\ history = <<0>> /\ rtc = <<>> /\ poll = NoPoll /\ fetch = NoRevision
    /\ mine = 0 /\ saw = [c \in Contents |-> 0]
    /\ overtaken = FALSE /\ forgotten = FALSE
    /\ used = [edits |-> 0, others |-> 0, crashes |-> 0, losses |-> 0]

Answers ==
    \/ UpdateSuccessful \/ UpdateRejected \/ UpdateFailed
    \/ \E b \in BOOLEAN : ReceiveMessage(b)
    \/ \E r \in 1..Rev : PollAnswered(r) \/ FetchAnswered(r)
Server == ServerAccepts \/ ServerRejects
Environment ==
    \/ RequestFails \/ OtherClientUpdates \/ LoseMessage \/ Restart
User == UpdateObject \/ ResyncObject \/ RevertToServer \/ ResolveConflict

Next ==
    \/ Answers \/ Server \/ Environment \/ User
    \/ Write
    \/ \E force \in BOOLEAN : StartPoll(force)

Spec == Init /\ [][Next]_vars

\* Threads and timers go on, and requests are answered; nothing says that
\* messages arrive or that the user acts.
Fairness ==
    /\ WF_vars(Write)
    /\ WF_vars(Server)
    /\ SF_vars(UpdateSuccessful \/ UpdateRejected \/ UpdateFailed)
    /\ WF_vars(\E force \in BOOLEAN : StartPoll(force))
    /\ WF_vars(\E r \in 1..Rev : PollAnswered(r))

FairSpec == Spec /\ Fairness

-----------------------------------------------------------------------------
(* Properties. *)

\* Type invariant of every field that the code keeps.
TypeOK ==
    /\ kind \in Kinds
    /\ mem \in Memory /\ disk \in Row
    /\ channel \in Seq(Event) /\ Len(channel) <= ChannelSize
    /\ queue \in Seq(Update) /\ net \in Request
    /\ loaded \in BOOLEAN
    /\ history \in Seq(Contents) /\ rtc \in Seq(Revisions)
    /\ poll \in Poll
    /\ fetch \in Revisions \cup {NoRevision}
    /\ mine \in Contents /\ saw \in [Contents -> Contents]
    /\ overtaken \in BOOLEAN /\ forgotten \in BOOLEAN
    /\ used \in [edits : 0..MaxEdits, others : 0..MaxOthers,
                 crashes : 0..MaxCrashes, losses : 0..MaxLosses]

\* The counter in CloudModel and the queue, which know nothing of each other,
\* agree: an object is InFlight, once for every update that is outstanding,
\* exactly while one is.  (Not for the kinds whose refusals decrement nothing, nor
\* after a reset beside outstanding updates: overtaken.)
CountsOutstanding ==
    kind # "ignore" /\ ~overtaken =>
        IF Outstanding > 0 THEN mem.status = "InFlight" /\ mem.count = Outstanding
        ELSE mem.status # "InFlight"

\* An object with no local changes shows what its revision is on the server:
\* whatever order answers, messages and polls come in, the content and the
\* revision of two different versions are never put together.  (Except where the
\* code does so: after a reset beside outstanding updates, overtaken, which
\* NoLocalChangesMeansNone is about; and from a row that was saved as not pending
\* in a conflict, forgotten, which ConflictStaysPending is about.)
RestIsServers ==
    ~overtaken /\ ~forgotten /\ mem.status = "NoLocalChanges" =>
        mem.content = history[mem.rev]

InDatabase(c) ==
    \/ disk.content = c /\ disk.pending
        /\ \A i \in DOMAIN channel :
               channel[i].op = "upsert" /\ channel[i].row.pending
    \/ \E i \in DOMAIN channel :
        /\ channel[i].op = "upsert" /\ channel[i].row.content = c
        /\ \A j \in i..Len(channel) :
               channel[j].op = "upsert" /\ channel[j].row.pending

\* An edit whose outcome is not known is what the user sees, is in the queue
\* or sent, and is, or will be once the writer has caught up, marked as pending
\* in the database, so that the next start sends it again.  (Not for the kinds
\* whose refusals leave them in flight, nor after a reset beside outstanding
\* updates: overtaken.)
NothingIsForgotten ==
    kind # "ignore" /\ ~overtaken /\ mine # 0 =>
        /\ mem.content = mine /\ mem.status = "InFlight"
        /\ \/ \E i \in DOMAIN queue : queue[i].content = mine
           \/ Busy /\ net.item.content = mine
        /\ InDatabase(mine)

\* The revision sent with an update vouches for the content it was made from:
\* no accepted update undoes the edit of another client that its author had
\* not seen, unless the object was reset beside outstanding updates (overtaken).
NoBlindOverwrite ==
    [][~overtaken /\ Busy /\ history' = Append(history, net.item.content)
        => saw[net.item.content] = saw[history[Rev]]]_vars

Told == mem.conflict # NoRevision \/ mem.status = "Errored"
Agrees == mem.status = "NoLocalChanges" /\ mem.content = history[Rev]

\* When the edits end, the object ends up as the server has it, or knows that
\* it does not: polls make up for messages that are lost and answers that are
\* stale.
Converges == <>[](overtaken \/ Told \/ Agrees)

\* Every edit is accepted, refused or given up, across restarts of the app.
EditsAreAnswered == kind # "ignore" => (mine # 0 ~> mine = 0)

-----------------------------------------------------------------------------
(* What the code says of itself, and runs refute. *)

\* CloudObjectSyncStatus::NoLocalChanges: "The object's content hasn't changed
\* from what we believe the server's representation to be."
NoLocalChangesMeansNone ==
    mem.status = "NoLocalChanges" => mem.content = history[mem.rev]

\* handle_conflicting_object: "we don't want to clear the pending status in the
\* database", so that the next start does not take the edit for the server's.
ConflictStaysPending ==
    kind = "mark" /\ mem.status = "InConflict" /\ channel = <<>> => disk.pending
=============================================================================
