-------------------------- MODULE ObjectSyncProofs ---------------------------
(***************************************************************************)
(* Proofs of the types and of the safety properties of ObjectSync.         *)
(***************************************************************************)
EXTENDS ObjectSync, TLAPS

-----------------------------------------------------------------------------
(* The revisions that anyone holds are revisions of the server. *)

Known(r) == r <= Len(history)

RevisionsExist ==
    /\ Known(1) /\ Known(mem.rev) /\ Known(mem.conflict) /\ Known(disk.rev)
    /\ \A i \in DOMAIN channel : Known(channel[i].row.rev)
    /\ \A i \in DOMAIN queue : Known(queue[i].rev)
    /\ Known(net.item.rev) /\ Known(net.at)
    /\ net.reply \in {"accepted", "rejected"} => net.at # NoRevision
    /\ \A i \in DOMAIN rtc : Known(rtc[i])
    /\ Known(fetch) /\ Known(poll.from)

TypeInv == TypeOK /\ RevisionsExist

USE DEF Revisions, NoRevision

-----------------------------------------------------------------------------
(* What the parts of a handler leave: the invariant, variable by variable. *)

MemoryOK(o, h) == o \in Memory /\ o.rev <= Len(h) /\ o.conflict <= Len(h)
ChannelOK(ch, h) ==
    /\ ch \in Seq(Event) /\ Len(ch) <= ChannelSize
    /\ \A i \in DOMAIN ch : ch[i].row.rev <= Len(h)
QueueOK(q, h) == q \in Seq(Update) /\ \A i \in DOMAIN q : q[i].rev <= Len(h)
NetOK(n, h) ==
    /\ n \in Request /\ n.item.rev <= Len(h) /\ n.at <= Len(h)
    /\ n.reply \in {"accepted", "rejected"} => n.at # 0
DiskOK(row, h) == row \in Row /\ row.rev <= Len(h)
HistoryOK(h) == h \in Seq(Contents) /\ 1 <= Len(h)
MessagesOK(ms, h) == ms \in Seq(Revisions) /\ \A i \in DOMAIN ms : ms[i] <= Len(h)
PollOK(p, h) == p \in Poll /\ p.from <= Len(h)
FetchOK(f, h) == f \in Nat /\ f <= Len(h)
UserOK(m, s, u) ==
    /\ m \in Contents /\ s \in [Contents -> Contents]
    /\ u \in [edits : 0..MaxEdits, others : 0..MaxOthers,
              crashes : 0..MaxCrashes, losses : 0..MaxLosses]
FlagsOK(k, l, o, f) == k \in Kinds /\ l \in BOOLEAN /\ o \in BOOLEAN /\ f \in BOOLEAN

Parts(m, d, ch, q, n, h, ms, p, f) ==
    /\ MemoryOK(m, h) /\ DiskOK(d, h) /\ ChannelOK(ch, h) /\ QueueOK(q, h)
    /\ NetOK(n, h) /\ HistoryOK(h) /\ MessagesOK(ms, h) /\ PollOK(p, h) /\ FetchOK(f, h)

LEMMA TypeInvMeans ==
    TypeInv <=> /\ Parts(mem, disk, channel, queue, net, history, rtc, poll, fetch)
                /\ UserOK(mine, saw, used) /\ FlagsOK(kind, loaded, overtaken, forgotten)
BY DEF TypeInv, TypeOK, RevisionsExist, Known, Parts, MemoryOK, ChannelOK, QueueOK,
       NetOK, DiskOK, HistoryOK, MessagesOK, PollOK, FetchOK, UserOK, FlagsOK, Memory

\* The helpers keep the types.
LEMMA UpdateTypes ==
    ASSUME HistoryOK(history), NEW o, MemoryOK(o, history),
           NEW r \in Revisions, r <= Len(history)
    PROVE  MemoryOK(UpdateFromServer(o, r), history)
<1> history \in Seq(Contents) /\ history[r] \in Contents /\ o \in Memory
  BY DEF HistoryOK, MemoryOK
<1> QED  BY DEF UpdateFromServer, Memory, MemoryOK

LEMMA ReplaceTypes ==
    ASSUME HistoryOK(history), NEW o, MemoryOK(o, history)
    PROVE  MemoryOK(ReplaceWithConflict(o), history)
<1> DEFINE p == [o EXCEPT !.status = "NoLocalChanges", !.count = 0, !.conflict = 0]
<1>1. p \in Memory /\ p.conflict = 0 /\ p.rev = o.rev /\ o.rev <= Len(history)
  BY DEF Memory, Statuses, MemoryOK
<1>2. CASE o.conflict = 0
  BY <1>1, <1>2 DEF ReplaceWithConflict, MemoryOK, HistoryOK
<1>3. CASE o.conflict # 0
  <2>1. /\ o.conflict \in Revisions /\ o.conflict <= Len(history)
        /\ history[o.conflict] \in Contents
    BY <1>3 DEF Memory, MemoryOK, HistoryOK
  <2>2. [p EXCEPT !.rev = o.conflict, !.content = history[o.conflict]] \in Memory
    BY <1>1, <2>1 DEF Memory
  <2> QED  BY <1>1, <1>3, <2>1, <2>2 DEF ReplaceWithConflict, Memory, MemoryOK, HistoryOK
<1> QED  BY <1>2, <1>3

LEMMA DecrementTypes ==
    ASSUME NEW o \in Memory, NEW n \in Nat, NEW status \in Statuses
    PROVE  /\ DecrementBy(o, n, status) \in Memory
           /\ DecrementBy(o, n, status).rev = o.rev
           /\ DecrementBy(o, n, status).content = o.content
           /\ DecrementBy(o, n, status).conflict = o.conflict
<1>1. CASE o.status # "InFlight"
  BY <1>1 DEF DecrementBy
<1>2. CASE o.status = "InFlight" /\ o.count > n
  <2>1. o.count - n \in Nat
    BY <1>2 DEF Memory
  <2> QED  BY <1>2, <2>1 DEF DecrementBy, Memory
<1>3. CASE o.status = "InFlight" /\ ~(o.count > n)
  BY <1>3 DEF DecrementBy, Memory
<1> QED  BY <1>1, <1>2, <1>3

LEMMA IncrementTypes ==
    ASSUME NEW o \in Memory, NEW c \in Contents
    PROVE  LET p == Increment([o EXCEPT !.content = c]) IN
           /\ p \in Memory /\ p.rev = o.rev /\ p.content = c /\ p.conflict = o.conflict
           /\ p.status = "InFlight"
           /\ p.count = IF o.status = "InFlight" THEN o.count + 1 ELSE 1
<1> DEFINE p == [o EXCEPT !.content = c]
<1>1. /\ p \in Memory /\ p.rev = o.rev /\ p.content = c /\ p.conflict = o.conflict
      /\ p.status = o.status /\ p.count = o.count
  BY DEF Memory
<1>2. (IF p.status = "InFlight" THEN p.count + 1 ELSE 1) \in Nat /\ "InFlight" \in Statuses
  BY <1>1 DEF Memory, Statuses
<1>3. Increment(p) =
      [p EXCEPT !.status = "InFlight",
                !.count = IF p.status = "InFlight" THEN p.count + 1 ELSE 1]
  BY DEF Increment
<1> HIDE DEF p
<1>4. Increment(p) \in Memory /\ Increment(p).rev = p.rev
      /\ Increment(p).content = p.content /\ Increment(p).conflict = p.conflict
      /\ Increment(p).status = "InFlight"
      /\ Increment(p).count = IF p.status = "InFlight" THEN p.count + 1 ELSE 1
  BY <1>1, <1>2, <1>3 DEF Memory
<1> QED  BY <1>1, <1>4 DEF p

\* The events and rows have their types.
LEMMA EventTypes ==
    ASSUME NEW o \in Memory
    PROVE  /\ Upsert(o) \in Event /\ Upsert(o).row.rev = o.rev
           /\ Upsert(o).row.content = o.content /\ Upsert(o).op = "upsert"
           /\ Upsert(o).row.pending <=> Pending(o)
           /\ Synced(o) \in Event /\ Synced(o).row.rev = o.rev
           /\ Synced(o).row.content = o.content /\ Synced(o).op = "synced"
<1>1. Pending(o) \in BOOLEAN
  BY DEF Pending
<1>2. RowOf(o) \in Row /\ RowOf(o).rev = o.rev /\ RowOf(o).content = o.content
      /\ (RowOf(o).pending <=> Pending(o))
  BY <1>1 DEF RowOf, Row, Memory
<1> QED  BY <1>2 DEF Upsert, Synced, Event

LEMMA ApplyTypes ==
    ASSUME NEW row \in Row, NEW e \in Event
    PROVE  /\ Apply(row, e) \in Row /\ Apply(row, e).rev = e.row.rev
           /\ e.op = "upsert" => Apply(row, e) = e.row
           /\ e.op = "synced" => /\ Apply(row, e).content = row.content
                                 /\ ~Apply(row, e).pending
<1>1. CASE e.op = "upsert"
  BY <1>1 DEF Apply, Event
<1>2. CASE e.op = "synced"
  BY <1>2 DEF Apply, Row, Event
<1> QED  BY <1>1, <1>2 DEF Event

\* Saving and writing.
LEMMA SaveTypes ==
    ASSUME ChannelOK(channel, history), NEW e \in Event, e.row.rev <= Len(history),
           Save(e) \/ \E b \in BOOLEAN : SaveIf(b, e)
    PROVE  ChannelOK(channel', history)
<1>1. Save(e) \/ channel' = channel
  BY DEF SaveIf
<1>2. CASE Save(e)
  <2> /\ channel \in Seq(Event) /\ channel' = Append(channel, e)
      /\ Len(channel) < ChannelSize /\ ChannelSize \in Nat
    BY <1>2, BoundsAssumption DEF Save, ChannelOK
  <2> QED  BY DEF ChannelOK
<1> QED  BY <1>1, <1>2

\* Sending.
LEMMA DequeueTypes ==
    ASSUME HistoryOK(history), NEW items, QueueOK(items, history), NEW enabled \in BOOLEAN,
           Dequeue(items, enabled)
    PROVE  /\ QueueOK(queue', history) /\ NetOK(net', history)
           /\ net'.reply \in {"idle", "none"} /\ net'.at = 0
<1> items \in Seq(Update) /\ MaxRetries \in Nat /\ 0 \in 0..MaxRetries
  BY BoundsAssumption DEF QueueOK
<1>1. CASE net' = Idle /\ queue' = items
  <2>1. 0 \in Contents
    BY BoundsAssumption DEF Contents
  <2>2. Idle \in Request /\ Idle.item.rev = 1 /\ Idle.at = 0 /\ Idle.reply = "idle"
    BY <2>1 DEF Idle, Request, Update
  <2> QED  BY <1>1, <2>2 DEF NetOK, HistoryOK
<1>2. CASE items # <<>> /\ Send(Head(items)) /\ queue' = Tail(items)
  <2>1. Head(items) \in Update /\ Head(items).rev <= Len(history)
    BY <1>2 DEF QueueOK
  <2>2. QueueOK(queue', history)
    BY <1>2 DEF QueueOK
  <2>3. NetOK(net', history)
    BY <1>2, <2>1 DEF Send, NetOK, Request, HistoryOK
  <2> QED  BY <1>2, <2>2, <2>3 DEF Send
<1> QED  BY <1>1, <1>2 DEF Dequeue

LEMMA EnqueueTypes ==
    ASSUME HistoryOK(history), QueueOK(queue, history), NetOK(net, history),
           loaded \in BOOLEAN,
           NEW item \in Update, item.rev <= Len(history), Enqueue(item)
    PROVE  QueueOK(queue', history) /\ NetOK(net', history)
<1>1. QueueOK(Append(queue, item), history)
  BY DEF QueueOK
<1> QED  BY <1>1, DequeueTypes DEF Enqueue

-----------------------------------------------------------------------------
(* Type correctness. *)

\* What the whole of TypeInv says of the variables.
P == Parts(mem, disk, channel, queue, net, history, rtc, poll, fetch)
U == UserOK(mine, saw, used)
F == FlagsOK(kind, loaded, overtaken, forgotten)

\* New versions of the object are counted, so their contents are in range.
LEMMA NextContentType ==
    ASSUME U
    PROVE  /\ used.edits < MaxEdits => NextContent \in Contents
           /\ used.others < MaxOthers => NextContent \in Contents
<1> USE BoundsAssumption
<1>1. /\ used.edits \in Nat /\ used.edits <= MaxEdits
      /\ used.others \in Nat /\ used.others <= MaxOthers
  BY DEF U, UserOK
<1> QED  BY <1>1 DEF NextContent, Contents

LEMMA SpendType ==
    ASSUME U, NEW what \in {"edits", "others", "crashes", "losses"}, Spend(what),
           CASE what = "edits" -> used.edits < MaxEdits
             [] what = "others" -> used.others < MaxOthers
             [] what = "crashes" -> used.crashes < MaxCrashes
             [] what = "losses" -> used.losses < MaxLosses
    PROVE  used' \in [edits : 0..MaxEdits, others : 0..MaxOthers,
                      crashes : 0..MaxCrashes, losses : 0..MaxLosses]
<1> USE BoundsAssumption
<1> /\ used \in [edits : 0..MaxEdits, others : 0..MaxOthers,
                crashes : 0..MaxCrashes, losses : 0..MaxLosses]
    /\ used' = [used EXCEPT ![what] = @ + 1]
  BY DEF U, UserOK, Spend
<1>1. CASE what = "edits"
  <2>1. used.edits + 1 \in 0..MaxEdits
    BY <1>1
  <2> QED  BY <1>1, <2>1
<1>2. CASE what = "others"
  <2>1. used.others + 1 \in 0..MaxOthers
    BY <1>2
  <2> QED  BY <1>2, <2>1
<1>3. CASE what = "crashes"
  <2>1. used.crashes + 1 \in 0..MaxCrashes
    BY <1>3
  <2> QED  BY <1>3, <2>1
<1>4. CASE what = "losses"
  <2>1. used.losses + 1 \in 0..MaxLosses
    BY <1>4
  <2> QED  BY <1>4, <2>1
<1> QED  BY <1>1, <1>2, <1>3, <1>4

LEMMA UserActionTypes ==
    ASSUME P, U, F, User
    PROVE  P' /\ U' /\ F'
<1> USE DEF P, U, F
<1> /\ MemoryOK(mem, history) /\ DiskOK(disk, history) /\ ChannelOK(channel, history)
    /\ QueueOK(queue, history) /\ NetOK(net, history) /\ HistoryOK(history)
    /\ mem \in Memory
  BY DEF Parts, MemoryOK
<1>1. CASE UpdateObject
  <2>1. NextContent \in Contents
    BY <1>1, NextContentType DEF UpdateObject
  <2>2. mem' \in Memory /\ MemoryOK(mem', history) /\ mem'.content = NextContent
    BY <1>1, <2>1, IncrementTypes DEF UpdateObject, MemoryOK
  <2>3. ChannelOK(channel', history)
    BY <1>1, <2>2, EventTypes, SaveTypes DEF UpdateObject, MemoryOK
  <2>4. UpdateOf(mem') \in Update /\ UpdateOf(mem').rev <= Len(history)
    BY <2>2 DEF UpdateOf, Update, Memory, MemoryOK
  <2>5. QueueOK(queue', history) /\ NetOK(net', history)
    BY <1>1, <2>4, EnqueueTypes DEF UpdateObject, FlagsOK
  <2>6. used' \in [edits : 0..MaxEdits, others : 0..MaxOthers,
                   crashes : 0..MaxCrashes, losses : 0..MaxLosses]
    BY <1>1, SpendType DEF UpdateObject
  <2>7. UserOK(mine', saw', used')
    BY <1>1, <2>1, <2>6 DEF UpdateObject, UserOK, Memory
  <2> QED  BY <1>1, <2>2, <2>3, <2>5, <2>7 DEF UpdateObject, Parts, FlagsOK
<1>2. CASE ResyncObject
  <2>1. mem' \in Memory /\ MemoryOK(mem', history)
    BY <1>2 DEF ResyncObject, Memory, MemoryOK, Statuses
  <2>2. UpdateOf(mem) \in Update /\ UpdateOf(mem).rev <= Len(history)
    BY DEF UpdateOf, Update, Memory, MemoryOK
  <2>3. QueueOK(queue', history) /\ NetOK(net', history)
    BY <1>2, <2>2, EnqueueTypes DEF ResyncObject, FlagsOK
  <2>4. UserOK(mine', saw', used')
    BY <1>2 DEF ResyncObject, UserOK, Memory
  <2> QED  BY <1>2, <2>1, <2>3, <2>4 DEF ResyncObject, Parts, FlagsOK
<1>3. CASE RevertToServer
  <2>1. FetchOK(fetch', history)
    BY <1>3 DEF RevertToServer, FetchOK, HistoryOK, Rev
  <2> QED  BY <1>3, <2>1 DEF RevertToServer, Parts, FlagsOK
<1>4. CASE ResolveConflict
  <2>1. mem' \in Memory /\ MemoryOK(mem', history)
    BY <1>4, ReplaceTypes DEF ResolveConflict, Reset, MemoryOK
  <2>2. ChannelOK(channel', history)
    BY <1>4, <2>1, EventTypes, SaveTypes DEF ResolveConflict, Reset, MemoryOK
  <2> QED  BY <1>4, <2>1, <2>2 DEF ResolveConflict, Reset, Parts, FlagsOK
<1> QED  BY <1>1, <1>2, <1>3, <1>4 DEF User

LEMMA AnswerTypesOfUpdates ==
    ASSUME P, U, F, UpdateSuccessful \/ UpdateRejected \/ UpdateFailed
    PROVE  P' /\ U' /\ F'
<1> USE DEF P, U, F
<1> /\ MemoryOK(mem, history) /\ DiskOK(disk, history) /\ ChannelOK(channel, history)
    /\ QueueOK(queue, history) /\ NetOK(net, history) /\ HistoryOK(history)
    /\ mem \in Memory /\ net \in Request /\ loaded \in BOOLEAN
    /\ 0 \in Contents
  BY BoundsAssumption DEF Parts, MemoryOK, NetOK, FlagsOK, Contents
<1> UserOK(Waiting(net.item.content), saw, used)
  BY DEF UserOK, Waiting
<1>1. CASE UpdateSuccessful
  <2> /\ net.at \in Revisions /\ net.at <= Len(history)
    BY <1>1 DEF UpdateSuccessful, NetOK, Request
  <2> DEFINE current == [mem EXCEPT !.rev = net.at,
                          !.conflict = IF @ <= net.at THEN 0 ELSE @]
  <2>1. current \in Memory /\ current.rev = net.at
        /\ (current.conflict = 0 \/ current.conflict = mem.conflict)
    BY DEF Memory
  <2>2. mem' = DecrementBy(current, 1, "NoLocalChanges")
    BY <1>1 DEF UpdateSuccessful
  <2> HIDE DEF current
  <2>3. mem' \in Memory /\ MemoryOK(mem', history)
    <3>1. "NoLocalChanges" \in Statuses /\ 1 \in Nat
      BY DEF Statuses
    <3>2. mem' \in Memory /\ mem'.rev = current.rev /\ mem'.conflict = current.conflict
      BY <2>1, <2>2, <3>1, DecrementTypes
    <3> QED  BY <2>1, <3>2 DEF MemoryOK, HistoryOK
  <2>4. NoLongerInFlight(mem') \in BOOLEAN
    BY DEF NoLongerInFlight
  <2>5. ChannelOK(channel', history)
    BY <1>1, <2>3, <2>4, EventTypes, SaveTypes DEF UpdateSuccessful, MemoryOK
  <2>6. QueueOK(UpdatesWithRevision(net.at), history)
    <3>1. queue \in Seq(Update) /\ DOMAIN queue = 1..Len(queue)
      BY DEF QueueOK
    <3>2. ASSUME NEW i \in DOMAIN queue
          PROVE  [queue[i] EXCEPT !.rev = net.at] \in Update
      <4>1. queue[i] \in Update
        BY <3>1
      <4> QED  BY <4>1 DEF Update
    <3>3. UpdatesWithRevision(net.at) \in Seq(Update)
      BY <3>1, <3>2 DEF UpdatesWithRevision
    <3>4. \A i \in DOMAIN queue : [queue[i] EXCEPT !.rev = net.at].rev = net.at
      BY <3>1 DEF Update
    <3> QED  BY <3>1, <3>3, <3>4 DEF UpdatesWithRevision, QueueOK
  <2>7. QueueOK(queue', history) /\ NetOK(net', history)
    BY <1>1, <2>6, DequeueTypes DEF UpdateSuccessful
  <2> QED  BY <1>1, <2>3, <2>5, <2>7 DEF UpdateSuccessful, Parts, FlagsOK
<1>2. CASE UpdateRejected
  <2> /\ net.at \in Revisions /\ net.at <= Len(history) /\ history[net.at] \in Contents
    BY <1>2 DEF UpdateRejected, NetOK, Request, HistoryOK
  <2>1. QueueOK(queue', history) /\ NetOK(net', history)
    BY <1>2, DequeueTypes DEF UpdateRejected
  <2>2. /\ MemoryOK(mem', history) /\ ChannelOK(channel', history)
        /\ UserOK(mine', saw, used)
    <3>1. CASE /\ mem' = [mem EXCEPT !.conflict = net.at, !.status = "InConflict",
                                     !.count = 0]
               /\ channel' = channel /\ mine' = Waiting(net.item.content)
      BY <3>1 DEF MemoryOK, Memory, Statuses
    <3>2. CASE /\ mem' = DecrementBy([mem EXCEPT !.rev = net.at,
                                                 !.content = history[net.at]],
                                     1, "NoLocalChanges")
               /\ Save(Upsert(mem')) /\ mine' = Waiting(net.item.content)
      <4> DEFINE overwritten == [mem EXCEPT !.rev = net.at, !.content = history[net.at]]
      <4>1. /\ overwritten \in Memory /\ overwritten.rev = net.at
            /\ overwritten.conflict = mem.conflict
        BY DEF Memory
      <4> HIDE DEF overwritten
      <4>2. mem' \in Memory /\ MemoryOK(mem', history)
        BY <3>2, <4>1, DecrementTypes, ZenonT(30) DEF MemoryOK, Statuses, overwritten
      <4> QED  BY <3>2, <4>2, EventTypes, SaveTypes DEF MemoryOK
    <3>3. CASE UNCHANGED <<mem, channel, mine>>
      BY <3>3
    <3> QED  BY <1>2, <3>1, <3>2, <3>3 DEF UpdateRejected
  <2> QED  BY <1>2, <2>1, <2>2 DEF UpdateRejected, Parts, FlagsOK
<1>3. CASE UpdateFailed
  <2>1. CASE net.tries < MaxRetries /\ net' = [net EXCEPT !.tries = @ + 1, !.reply = "none"]
             /\ UNCHANGED <<mem, queue, mine>>
    <3>1. net.tries + 1 \in 0..MaxRetries
      BY <2>1, BoundsAssumption DEF Request
    <3>2. NetOK(net', history)
      BY <2>1, <3>1 DEF NetOK, Request
    <3> QED  BY <1>3, <2>1, <3>2 DEF UpdateFailed, Parts, FlagsOK
  <2>2. CASE mem' = DecrementBy(mem, Outstanding, "Errored")
             /\ net' = Idle /\ queue' = <<>> /\ mine' = 0
    <3>1. Outstanding \in Nat
      BY DEF Outstanding, QueueOK
    <3>2. MemoryOK(mem', history)
      BY <2>2, <3>1, DecrementTypes DEF MemoryOK, Statuses
    <3>3. QueueOK(queue', history)
      BY <2>2 DEF QueueOK
    <3>4. NetOK(net', history)
      BY <2>2, DequeueTypes, BoundsAssumption DEF Idle, NetOK, Request, Update, HistoryOK
    <3> QED  BY <1>3, <2>2, <3>2, <3>3, <3>4 DEF UpdateFailed, Parts, FlagsOK, UserOK
  <2> QED  BY <1>3, <2>1, <2>2 DEF UpdateFailed
<1> QED  BY <1>1, <1>2, <1>3

LEMMA AnswerTypesOfServer ==
    ASSUME P, U, F,
           \/ \E b \in BOOLEAN : ReceiveMessage(b)
           \/ \E r \in 1..Rev : PollAnswered(r) \/ FetchAnswered(r)
    PROVE  P' /\ U' /\ F'
<1> USE DEF P, U, F
<1> /\ MemoryOK(mem, history) /\ DiskOK(disk, history) /\ ChannelOK(channel, history)
    /\ QueueOK(queue, history) /\ NetOK(net, history) /\ HistoryOK(history)
    /\ mem \in Memory /\ loaded \in BOOLEAN
  BY DEF Parts, MemoryOK, FlagsOK
<1>0. ASSUME MemoryOK(mem', history), NEW b \in BOOLEAN, SaveFromServer(b)
      PROVE  ChannelOK(channel', history) /\ FlagsOK(kind, loaded, overtaken, forgotten')
  <2>1. Upsert(mem') \in Event /\ Upsert(mem').row.rev <= Len(history)
    BY <1>0, EventTypes DEF MemoryOK
  <2> QED  BY <1>0, <2>1, SaveTypes DEF SaveFromServer, FlagsOK
<1>1. ASSUME NEW b \in BOOLEAN, ReceiveMessage(b)
      PROVE  P' /\ U' /\ F'
  <2>1. Head(rtc) \in Revisions /\ Head(rtc) <= Len(history) /\ MessagesOK(rtc', history)
    BY <1>1 DEF ReceiveMessage, Parts, MessagesOK
  <2>2. MemoryOK(mem', history)
    BY <1>1, <2>1, UpdateTypes DEF ReceiveMessage
  <2>3. ChannelOK(channel', history) /\ FlagsOK(kind, loaded, overtaken, forgotten')
    <3> DEFINE b1 == Head(rtc) > mem.rev \/ b
    <3>1. b1 \in BOOLEAN /\ SaveFromServer(b1)
      BY <1>1 DEF ReceiveMessage
    <3> QED  BY <1>0, <2>2, <3>1
  <2> QED  BY <1>1, <2>1, <2>2, <2>3 DEF ReceiveMessage, Parts, FlagsOK
<1>2. ASSUME NEW r \in 1..Rev, PollAnswered(r)
      PROVE  P' /\ U' /\ F'
  <2>1. r \in Revisions /\ r <= Len(history)
    BY DEF Rev, HistoryOK
  <2>2. MemoryOK(mem', history)
    BY <1>2, <2>1, UpdateTypes DEF PollAnswered
  <2>3. ChannelOK(channel', history) /\ FlagsOK(kind, loaded, overtaken, forgotten')
    <3> DEFINE b1 == r # poll.asked \/ poll.force
    <3>1. b1 \in BOOLEAN /\ SaveFromServer(b1)
      BY <1>2 DEF PollAnswered, Parts, PollOK, Poll
    <3> QED  BY <1>0, <2>2, <3>1
  <2>4. QueueOK(queue', history) /\ NetOK(net', history)
    BY <1>2, DequeueTypes DEF PollAnswered
  <2>5. PollOK(poll', history)
    BY <1>2 DEF PollAnswered, NoPoll, Poll, PollOK, HistoryOK
  <2> QED  BY <1>2, <2>2, <2>3, <2>4, <2>5 DEF PollAnswered, Parts, FlagsOK
<1>3. ASSUME NEW r \in 1..Rev, FetchAnswered(r)
      PROVE  P' /\ U' /\ F'
  <2>1. r \in Revisions /\ r <= Len(history)
    BY DEF Rev, HistoryOK
  <2>2. MemoryOK(mem', history)
    BY <1>3, <2>1, UpdateTypes, ReplaceTypes DEF FetchAnswered, Reset
  <2>3. ChannelOK(channel', history)
    BY <1>3, <2>2, EventTypes, SaveTypes DEF FetchAnswered, Reset, MemoryOK
  <2>4. FetchOK(fetch', history)
    BY <1>3 DEF FetchAnswered, FetchOK, HistoryOK
  <2> QED  BY <1>3, <2>2, <2>3, <2>4 DEF FetchAnswered, Reset, Parts, FlagsOK
<1> QED  BY <1>1, <1>2, <1>3

\* A longer history keeps all revisions.
LEMMA HistoryGrows ==
    ASSUME P, NEW c \in Contents, Publish(c)
    PROVE  /\ HistoryOK(history') /\ Len(history') = Len(history) + 1
           /\ MessagesOK(rtc', history')
           /\ MemoryOK(mem, history') /\ DiskOK(disk, history')
           /\ ChannelOK(channel, history') /\ QueueOK(queue, history')
           /\ NetOK(net, history') /\ PollOK(poll, history') /\ FetchOK(fetch, history')
<1> USE DEF P, Parts
<1>1. HistoryOK(history') /\ Len(history') = Len(history) + 1
  BY DEF Publish, HistoryOK
<1>2. MessagesOK(rtc', history')
  BY <1>1 DEF Publish, MessagesOK, Rev, HistoryOK
<1>3. \A n \in Nat : n <= Len(history) => n <= Len(history')
  BY <1>1 DEF HistoryOK
<1>4. MemoryOK(mem, history') /\ DiskOK(disk, history') /\ FetchOK(fetch, history')
      /\ PollOK(poll, history') /\ NetOK(net, history')
  BY <1>3 DEF MemoryOK, Memory, DiskOK, Row, FetchOK, PollOK, Poll, NetOK, Request, Update
<1>5. ChannelOK(channel, history')
  <2>1. ASSUME NEW i \in DOMAIN channel
        PROVE  channel[i].row.rev <= Len(history')
    <3>1. channel[i] \in Event /\ channel[i].row.rev <= Len(history)
      BY DEF ChannelOK
    <3>2. channel[i].row.rev \in Nat
      BY <3>1 DEF Event, Row
    <3> QED  BY <1>3, <3>1, <3>2
  <2> QED  BY <2>1 DEF ChannelOK
<1>6. QueueOK(queue, history')
  <2>1. ASSUME NEW i \in DOMAIN queue
        PROVE  queue[i].rev <= Len(history')
    <3>1. queue[i] \in Update /\ queue[i].rev <= Len(history)
      BY DEF QueueOK
    <3>2. queue[i].rev \in Nat
      BY <3>1 DEF Update
    <3> QED  BY <1>3, <3>1, <3>2
  <2> QED  BY <2>1 DEF QueueOK
<1> QED  BY <1>1, <1>2, <1>4, <1>5, <1>6

LEMMA ReplyTypes ==
    ASSUME NetOK(net, history), HistoryOK(history),
           NEW h, HistoryOK(h), Len(history) <= Len(h),
           NEW answer \in {"accepted", "rejected", "error"},
           NEW r \in Nat, r <= Len(h), answer # "error" => r # 0,
           Reply(answer, r)
    PROVE  NetOK(net', h)
<1>1. net' = [net EXCEPT !.reply = answer, !.at = r] /\ net \in Request
  BY DEF Reply, NetOK
<1>2. net' \in Request /\ net'.item = net.item /\ net'.reply = answer /\ net'.at = r
  BY <1>1 DEF Request
<1>3. net.item.rev \in Nat /\ net.item.rev <= Len(history)
  BY DEF NetOK, Request, Update
<1>4. Len(history) \in Nat /\ Len(h) \in Nat
  BY DEF HistoryOK
<1> QED  BY <1>2, <1>3, <1>4 DEF NetOK

LEMMA OtherActionTypes ==
    ASSUME P, U, F,
           Server \/ Environment \/ Write \/ \E force \in BOOLEAN : StartPoll(force)
    PROVE  P' /\ U' /\ F'
<1> USE DEF P, U, F
<1> /\ MemoryOK(mem, history) /\ DiskOK(disk, history) /\ ChannelOK(channel, history)
    /\ NetOK(net, history) /\ HistoryOK(history) /\ net \in Request /\ MessagesOK(rtc, history)
    /\ mem \in Memory /\ disk \in Row
  BY DEF Parts, MemoryOK, NetOK, DiskOK
<1>1. CASE ServerAccepts
  <2>1. net.item.content \in Contents
    BY DEF Request, Update
  <2>2. NetOK(net', history')
    <3>1. HistoryOK(history') /\ Len(history') = Len(history) + 1
      BY <1>1, <2>1, HistoryGrows DEF ServerAccepts
    <3>2. Rev + 1 \in Nat /\ Rev + 1 <= Len(history') /\ Rev + 1 # 0
          /\ Len(history) <= Len(history')
      BY <3>1 DEF Rev, HistoryOK
    <3> QED  BY <1>1, <3>1, <3>2, ReplyTypes DEF ServerAccepts
  <2> QED  BY <1>1, <2>1, <2>2, HistoryGrows DEF ServerAccepts, Parts, FlagsOK
<1>2. CASE ServerRejects
  <2>1. NetOK(net', history)
    <3>1. Rev \in Nat /\ Rev <= Len(history) /\ Rev # 0
      BY DEF Rev, HistoryOK
    <3> QED  BY <1>2, <3>1, ReplyTypes DEF ServerRejects, Rev
  <2> QED  BY <1>2, <2>1 DEF ServerRejects, Parts, FlagsOK
<1>3. CASE RequestFails
  <2>1. NetOK(net', history)
    <3>1. Len(history) \in Nat
      BY DEF HistoryOK
    <3> QED  BY <1>3, <3>1, ReplyTypes DEF RequestFails
  <2>2. UserOK(mine', saw', used')
    BY <1>3, SpendType DEF RequestFails, UserOK
  <2> QED  BY <1>3, <2>1, <2>2 DEF RequestFails, Parts, FlagsOK
<1>4. CASE OtherClientUpdates
  <2>1. NextContent \in Contents
    BY <1>4, NextContentType DEF OtherClientUpdates
  <2>2. UserOK(mine', saw', used')
    BY <1>4, <2>1, SpendType DEF OtherClientUpdates, UserOK
  <2> QED  BY <1>4, <2>1, <2>2, HistoryGrows DEF OtherClientUpdates, Parts, FlagsOK
<1>5. CASE LoseMessage
  <2>1. MessagesOK(rtc', history)
    BY <1>5 DEF LoseMessage, MessagesOK
  <2> QED  BY <1>5, <2>1 DEF LoseMessage, Parts, FlagsOK
<1>6. CASE Restart
  <2>1. MemoryOK(mem', history)
    BY <1>6 DEF Restart, MemoryOK, Memory, Row, Statuses, DiskOK
  <2>2. UpdateOf(disk) \in Update /\ UpdateOf(disk).rev <= Len(history)
    BY DEF UpdateOf, Update, Row, DiskOK
  <2>3. QueueOK(queue', history)
    <3>1. CASE disk.pending
      <4>1. queue' = <<UpdateOf(disk)>>
        BY <1>6, <3>1 DEF Restart, Requeued
      <4>2. queue' \in Seq(Update) /\ DOMAIN queue' = {1} /\ queue'[1] = UpdateOf(disk)
        BY <4>1, <2>2
      <4> QED  BY <4>2, <2>2 DEF QueueOK
    <3>2. CASE ~disk.pending
      <4>1. queue' = <<>>
        BY <1>6, <3>2 DEF Restart, Requeued
      <4> QED  BY <4>1 DEF QueueOK
    <3> QED  BY <3>1, <3>2
  <2>4. NetOK(net', history) /\ ChannelOK(channel', history) /\ MessagesOK(rtc', history)
        /\ PollOK(poll', history) /\ FetchOK(fetch', history)
    <3>1. net' = Idle /\ channel' = <<>> /\ rtc' = <<>> /\ poll' = NoPoll /\ fetch' = 0
      BY <1>6 DEF Restart
    <3>2. NetOK(Idle, history)
      <4>1. 0 \in Contents /\ 0 \in 0..MaxRetries
        BY BoundsAssumption DEF Contents
      <4>2. Idle \in Request /\ Idle.item.rev = 1 /\ Idle.at = 0 /\ Idle.reply = "idle"
        BY <4>1 DEF Idle, Request, Update
      <4> QED  BY <4>2 DEF NetOK, HistoryOK
    <3>3. ChannelOK(<<>>, history)
      BY BoundsAssumption DEF ChannelOK
    <3>4. PollOK(NoPoll, history)
      BY DEF NoPoll, PollOK, Poll, HistoryOK
    <3> QED  BY <3>1, <3>2, <3>3, <3>4 DEF MessagesOK, FetchOK, HistoryOK
  <2>5. mine' \in Contents
    BY <1>6, BoundsAssumption DEF Restart, Row, Contents
  <2>6. UserOK(mine', saw', used')
    BY <1>6, <2>5, SpendType DEF Restart, UserOK
  <2> QED  BY <1>6, <2>1, <2>3, <2>4, <2>6 DEF Restart, Parts, FlagsOK
<1>7. CASE Write
  <2>1. Head(channel) \in Event /\ Head(channel).row.rev <= Len(history)
        /\ ChannelOK(channel', history)
    <3>1. channel \in Seq(Event) /\ channel # <<>> /\ channel' = Tail(channel)
      BY <1>7 DEF Write, ChannelOK
    <3>2. /\ Len(channel) \in Nat /\ Len(channel) >= 1 /\ 1 \in DOMAIN channel
          /\ Head(channel) = channel[1] /\ channel[1] \in Event
      BY <3>1
    <3>3. channel' \in Seq(Event) /\ Len(channel') = Len(channel) - 1
      BY <3>1, <3>2
    <3>4. ASSUME NEW i \in DOMAIN channel'
          PROVE  channel'[i].row.rev <= Len(history)
      <4>1. i + 1 \in DOMAIN channel /\ channel'[i] = channel[i + 1]
        BY <3>1, <3>2, <3>3
      <4> QED  BY <4>1 DEF ChannelOK
    <3>5. Len(channel') <= ChannelSize
      BY <3>2, <3>3, BoundsAssumption DEF ChannelOK
    <3> QED  BY <3>2, <3>3, <3>4, <3>5 DEF ChannelOK
  <2>2. DiskOK(disk', history)
    BY <1>7, <2>1, ApplyTypes DEF Write, DiskOK
  <2> QED  BY <1>7, <2>1, <2>2 DEF Write, Parts, FlagsOK
<1>8. ASSUME NEW force \in BOOLEAN, StartPoll(force)
      PROVE  P' /\ U' /\ F'
  <2>1. PollOK(poll', history)
    BY <1>8 DEF StartPoll, PollOK, Poll, Rev, HistoryOK, Memory
  <2> QED  BY <1>8, <2>1 DEF StartPoll, Parts, FlagsOK
<1> QED  BY <1>1, <1>2, <1>3, <1>4, <1>5, <1>6, <1>7, <1>8 DEF Server, Environment

LEMMA TypesInit ==
    ASSUME Init
    PROVE  P /\ U /\ F
<1>1. 0 \in Contents /\ 0 \in 0..MaxRetries /\ Synchronized \in Memory
      /\ 0 \in 0..MaxEdits /\ 0 \in 0..MaxOthers /\ 0 \in 0..MaxCrashes /\ 0 \in 0..MaxLosses
  BY BoundsAssumption DEF Contents, Synchronized, Memory, Statuses
<1>2. history = <<0>> /\ history \in Seq(Contents) /\ Len(history) = 1
  BY <1>1 DEF Init
<1>3. MemoryOK(mem, history) /\ HistoryOK(history)
  BY <1>1, <1>2 DEF Init, MemoryOK, Synchronized, HistoryOK
<1>4. DiskOK(disk, history)
  BY <1>1, <1>2 DEF Init, DiskOK, Row, RowOf, Synchronized, Pending
<1>5. Idle \in Request /\ Idle.item.rev = 1 /\ Idle.at = 0 /\ Idle.reply = "idle"
  BY <1>1 DEF Idle, Request, Update
<1>6. NetOK(net, history) /\ QueueOK(queue, history) /\ ChannelOK(channel, history)
      /\ MessagesOK(rtc, history) /\ FetchOK(fetch, history)
  BY <1>2, <1>5, BoundsAssumption
  DEF Init, NetOK, QueueOK, ChannelOK, MessagesOK, FetchOK
<1>7. PollOK(poll, history)
  BY <1>2 DEF Init, NoPoll, PollOK, Poll
<1>8. U
  BY <1>1 DEF Init, U, UserOK
<1>9. F
  BY DEF Init, F, FlagsOK
<1> QED  BY <1>3, <1>4, <1>6, <1>7, <1>8, <1>9 DEF P, Parts

LEMMA TypesStep ==
    ASSUME P, U, F, [Next]_vars
    PROVE  P' /\ U' /\ F'
<1>1. CASE UNCHANGED vars
  BY <1>1 DEF vars, P, U, F
<1>2. CASE Answers
  BY <1>2, AnswerTypesOfUpdates, AnswerTypesOfServer DEF Answers
<1> QED  BY <1>1, <1>2, UserActionTypes, OtherActionTypes DEF Next

LEMMA TypesAlways == Spec => [](P /\ U /\ F)
<1>1. Init => P /\ U /\ F
  BY TypesInit
<1>2. P /\ U /\ F /\ [Next]_vars => P' /\ U' /\ F'
  BY TypesStep
<1> QED  BY <1>1, <1>2, PTL DEF Spec

\* Every field keeps its type, for any number of edits, restarts and losses, and
\* the channel of the SQLite writer its bound.
THEOREM TypeCorrect == Spec => []TypeOK
<1>1. P /\ U /\ F => TypeOK
  BY TypeInvMeans DEF TypeInv, P, U, F
<1> QED  BY <1>1, TypesAlways, PTL

-----------------------------------------------------------------------------
(***************************************************************************)
(* One object in memory, in the queue, in the database and on the server:  *)
(* the counter agrees with the queue, an object at rest is the server's,   *)
(* an edit without an outcome is not forgotten, and none is overwritten    *)
(* unseen.                                                                 *)
(*                                                                         *)
(* The invariant speaks of the updates that are outstanding and of the row *)
(* the database will have when the writer has caught up, whatever part of  *)
(* them is sent or written: Out, Last and LastRow.                         *)
(***************************************************************************)

(* The invariant. *)

\* The updates that are sent or wait, and the one that was made last.
Out(u) == (Busy /\ u = net.item) \/ \E i \in DOMAIN queue : u = queue[i]
Last == IF queue = <<>> THEN net.item ELSE queue[Len(queue)]

\* Every outstanding update is counted, and nothing else is, except for a kind
\* whose rejections decrement nothing.
Counted ==
    ~overtaken =>
        /\ Outstanding > 0 => mem.status = "InFlight" /\ mem.count >= Outstanding
        /\ kind # "ignore" /\ mem.status = "InFlight" =>
               Outstanding > 0 /\ mem.count = Outstanding

\* The user sees the update made last.
LastIsShown == ~overtaken /\ Outstanding > 0 => Last.content = mem.content
MineIsShown ==
    kind # "ignore" /\ ~overtaken /\ mine # 0 => Outstanding > 0 /\ mem.content = mine

QueueInv == Counted /\ LastIsShown /\ MineIsShown

\* The row the database will have, and what is on the way to it.
LastRow == IF channel = <<>> THEN disk ELSE channel[Len(channel)].row
InChannel(e) == \E i \in DOMAIN channel : channel[i] = e
Before(i) == IF i = 1 THEN disk ELSE channel[i - 1].row

\* It has the content the user sees, MarkObjectAsSynced meets the content it
\* was meant for, and changes that are pending are marked as such.
DatabaseFollows == LastRow.content = mem.content
SyncedInPlace ==
    \A i \in DOMAIN channel :
        channel[i].op = "synced" => channel[i].row.content = Before(i).content
PendingIsSaved ==
    ~overtaken /\ Pending(mem) =>
        LastRow.pending /\ (channel # <<>> => channel[Len(channel)].op = "upsert")

\* Without local changes an object is what the server has under its revision,
\* in memory, in the database and on the way to it.
AtRest(o) == o.content = history[o.rev]
MemoryAtRest == ~overtaken /\ ~forgotten /\ mem.status = "NoLocalChanges" => AtRest(mem)
RowsAtRest ==
    ~overtaken /\ ~forgotten =>
        /\ ~disk.pending => AtRest(disk)
        /\ \A e \in Event : InChannel(e) /\ (e.op = "synced" \/ ~e.row.pending) => AtRest(e.row)

DatabaseInv ==
    DatabaseFollows /\ SyncedInPlace /\ PendingIsSaved /\ MemoryAtRest /\ RowsAtRest

\* A revision vouches for what a content builds on, and updates made in a row
\* build on the same.
Vouches(o) == saw[o.content] = saw[history[o.rev]]
AllVouch ==
    ~overtaken =>
        /\ Vouches(mem) /\ Vouches(disk)
        /\ \A e \in Event : InChannel(e) => Vouches(e.row)
        /\ \A u \in Update : Out(u) => Vouches(u) /\ saw[u.content] = saw[mem.content]
AcceptedIsStored == net.reply = "accepted" => history[net.at] = net.item.content

\* No content is one that is yet to be made.
NotNew(c) == c < NextContent
NoneIsNew ==
    /\ NotNew(mem.content) /\ NotNew(disk.content)
    /\ \A e \in Event : InChannel(e) => NotNew(e.row.content)
    /\ \A u \in Update : Out(u) => NotNew(u.content)
    /\ \A r \in DOMAIN history : NotNew(history[r])

VersionInv == AllVouch /\ AcceptedIsStored /\ NoneIsNew

Types == P /\ U /\ F
IInv == Types /\ QueueInv /\ DatabaseInv /\ VersionInv

-----------------------------------------------------------------------------
(* What the parts of a handler do to Out, Last and LastRow. *)

LEMMA Basics ==
    ASSUME Types
    PROVE  /\ mem \in Memory /\ mem.rev <= Len(history) /\ mem.conflict <= Len(history)
           /\ disk \in Row /\ disk.rev <= Len(history)
           /\ channel \in Seq(Event) /\ \A i \in DOMAIN channel : channel[i].row.rev <= Len(history)
           /\ queue \in Seq(Update) /\ \A i \in DOMAIN queue : queue[i].rev <= Len(history)
           /\ net \in Request /\ net.item.rev <= Len(history) /\ net.at <= Len(history)
           /\ net.reply \in {"accepted", "rejected"} => net.at # 0
           /\ history \in Seq(Contents) /\ Len(history) \in Nat /\ 1 <= Len(history)
           /\ DOMAIN history = 1..Len(history)
           /\ mine \in Contents /\ saw \in [Contents -> Contents]
           /\ kind \in Kinds /\ loaded \in BOOLEAN /\ overtaken \in BOOLEAN
           /\ forgotten \in BOOLEAN
           /\ used.edits \in Nat /\ used.others \in Nat
BY BoundsAssumption DEF Types, P, U, F, Parts, MemoryOK, DiskOK, ChannelOK, QueueOK, NetOK, HistoryOK,
       UserOK, FlagsOK

\* The next state's updates are those in items.
UpdatesAre(items) ==
    /\ Outstanding' = Len(items)
    /\ Len(items) > 0 => Last' = items[Len(items)]
    /\ \A u : Out(u)' <=> \E i \in DOMAIN items : u = items[i]

LEMMA DequeueView ==
    ASSUME NEW items \in Seq(Update), NEW enabled, Dequeue(items, enabled)
    PROVE  /\ UpdatesAre(items)
           /\ net'.reply \in {"idle", "none"}
<1>1. CASE net' = Idle /\ queue' = items
    <2>1. net'.reply = "idle"
        BY <1>1 DEF Idle
    <2> QED
        BY <1>1, <2>1 DEF UpdatesAre, Outstanding, Busy, Last, Out
<1>2. CASE items # <<>> /\ Send(Head(items)) /\ queue' = Tail(items)
    <2>1. net'.reply = "none" /\ net'.item = Head(items)
        BY <1>2 DEF Send
    <2>2. /\ Len(items) \in Nat \ {0} /\ Head(items) = items[1] /\ 1 \in DOMAIN items
          /\ Len(queue') = Len(items) - 1 /\ queue' \in Seq(Update)
          /\ DOMAIN queue' = 1..(Len(items) - 1) /\ DOMAIN items = 1..Len(items)
          /\ \A i \in DOMAIN queue' : queue'[i] = items[i + 1]
        BY <1>2
    <2>3. Outstanding' = Len(items)
        BY <2>1, <2>2 DEF Outstanding, Busy
    <2>4. Last' = items[Len(items)]
        <3>1. CASE queue' = <<>>
            BY <2>1, <2>2, <3>1 DEF Last
        <3>2. CASE queue' # <<>>
            <4>1. Len(queue') \in DOMAIN queue'
                BY <2>2, <3>2
            <4> QED
                BY <2>2, <3>2, <4>1 DEF Last
        <3> QED
            BY <3>1, <3>2
    <2>5. ASSUME NEW u PROVE Out(u)' <=> \E i \in DOMAIN items : u = items[i]
        <3>1. ASSUME NEW i \in DOMAIN items PROVE Out(items[i])'
            <4>1. CASE i = 1
                BY <2>1, <2>2, <4>1 DEF Out, Busy
            <4>2. CASE i # 1
                <5>1. i - 1 \in DOMAIN queue' /\ queue'[i - 1] = items[i]
                    BY <2>2, <4>2
                <5> QED
                    BY <5>1 DEF Out
            <4> QED
                BY <4>1, <4>2
        <3>2. ASSUME Out(u)' PROVE \E i \in DOMAIN items : u = items[i]
            <4>1. CASE u = net'.item
                BY <2>1, <2>2, <4>1
            <4>2. ASSUME NEW i \in DOMAIN queue', u = queue'[i] PROVE \E j \in DOMAIN items : u = items[j]
                <5>1. i + 1 \in DOMAIN items /\ items[i + 1] = u
                    BY <2>2, <4>2
                <5> QED
                    BY <5>1
            <4> QED
                BY <3>2, <4>1, <4>2 DEF Out
        <3> QED
            BY <3>1, <3>2
    <2> QED
        BY <2>1, <2>3, <2>4, <2>5 DEF UpdatesAre
<1> QED
    BY <1>1, <1>2 DEF Dequeue

LEMMA EnqueueView ==
    ASSUME Types, NEW item \in Update, Enqueue(item)
    PROVE  /\ Outstanding' = Outstanding + 1 /\ Outstanding \in Nat
           /\ Last' = item
           /\ \A u : Out(u)' <=> (Out(u) \/ u = item)
           /\ net'.reply \in {"idle", "none"} \/ net' = net
<1> DEFINE items == Append(queue, item)
<1>1. /\ items \in Seq(Update) /\ Len(items) = Len(queue) + 1 /\ Len(queue) \in Nat
      /\ DOMAIN items = 1..(Len(queue) + 1) /\ DOMAIN queue = 1..Len(queue)
      /\ items[Len(queue) + 1] = item /\ items # <<>>
      /\ \A i \in DOMAIN queue : items[i] = queue[i]
    BY Basics
<1> HIDE DEF items
<1>2. \A u : (\E i \in DOMAIN items : u = items[i]) <=>
             ((\E i \in DOMAIN queue : u = queue[i]) \/ u = item)
    BY <1>1
<1>3. CASE ~Busy /\ Dequeue(items, loaded)
    <2>1. UpdatesAre(items) /\ net'.reply \in {"idle", "none"}
        BY <1>1, <1>3, DequeueView
    <2>2. Outstanding = Len(queue) /\ \A u : Out(u) <=> \E i \in DOMAIN queue : u = queue[i]
        BY <1>1, <1>3 DEF Outstanding, Out
    <2> QED
        BY <1>1, <1>2, <2>1, <2>2 DEF UpdatesAre
<1>4. CASE Busy /\ queue' = items /\ net' = net
    BY <1>1, <1>2, <1>4 DEF Outstanding, Out, Last, Busy
<1> QED
    BY <1>3, <1>4 DEF Enqueue, items

\* The updates are the same, sent or not.
SameUpdates ==
    /\ Outstanding' = Outstanding
    /\ Outstanding > 0 => Last' = Last
    /\ \A u : Out(u)' <=> Out(u)

LEMMA SameQueue ==
    ASSUME Types, queue' = queue, net'.item = net.item, Busy' = Busy
    PROVE  SameUpdates
BY DEF SameUpdates, Outstanding, Last, Out

LEMMA RequeuedView ==
    ASSUME Types, ~Busy, Dequeue(queue, loaded')
    PROVE  SameUpdates /\ net'.reply \in {"idle", "none"}
<1>1. queue \in Seq(Update) /\ Outstanding = Len(queue) /\ Len(queue) \in Nat
    BY Basics DEF Outstanding
<1>2. UpdatesAre(queue) /\ net'.reply \in {"idle", "none"}
    BY <1>1, DequeueView
<1>3. queue # <<>> => Last = queue[Len(queue)]
    BY DEF Last
<1> QED
    BY <1>1, <1>2, <1>3 DEF UpdatesAre, SameUpdates, Out

\* An event is behind the others in the channel.
LEMMA SaveView ==
    ASSUME Types, NEW e \in Event, Save(e), disk' = disk
    PROVE  /\ LastRow' = e.row /\ channel' # <<>> /\ channel'[Len(channel')] = e
           /\ \A d : InChannel(d)' <=> (InChannel(d) \/ d = e)
           /\ SyncedInPlace /\ (e.op = "synced" => e.row.content = LastRow.content)
                  => SyncedInPlace'
<1>1. /\ channel \in Seq(Event) /\ channel' = Append(channel, e)
      /\ Len(channel) \in Nat /\ DOMAIN channel = 1..Len(channel)
      /\ Len(channel') = Len(channel) + 1 /\ DOMAIN channel' = 1..(Len(channel) + 1)
      /\ channel'[Len(channel) + 1] = e /\ channel' # <<>>
      /\ \A i \in DOMAIN channel : channel'[i] = channel[i]
    BY Basics DEF Save
<1>2. LastRow' = e.row
    BY <1>1 DEF LastRow
<1>3. \A d : InChannel(d)' <=> (InChannel(d) \/ d = e)
    BY <1>1 DEF InChannel
<1>4. ASSUME SyncedInPlace, e.op = "synced" => e.row.content = LastRow.content,
             NEW i \in DOMAIN channel', channel'[i].op = "synced"
      PROVE  channel'[i].row.content = Before(i)'.content
    <2>1. CASE i \in DOMAIN channel
        <3>1. Before(i)' = Before(i)
            BY <1>1, <2>1 DEF Before
        <3> QED
            BY <1>1, <1>4, <2>1, <3>1 DEF SyncedInPlace
    <2>2. CASE i = Len(channel) + 1
        <3>1. Before(i)' = LastRow
            <4>1. CASE Len(channel) = 0
                <5>1. channel = <<>>
                    BY <1>1, <4>1
                <5> QED
                    BY <2>2, <4>1, <5>1 DEF Before, LastRow
            <4>2. CASE Len(channel) # 0
                <5>1. channel # <<>> /\ i # 1 /\ i - 1 = Len(channel) /\ i - 1 \in DOMAIN channel
                    BY <1>1, <2>2, <4>2
                <5>2. channel'[i - 1] = channel[Len(channel)]
                    BY <1>1, <5>1
                <5> QED
                    BY <5>1, <5>2 DEF Before, LastRow
            <4> QED
                BY <4>1, <4>2
        <3> QED
            BY <1>1, <1>4, <2>2, <3>1
    <2> QED
        BY <1>1, <2>1, <2>2
<1> QED
    BY <1>1, <1>2, <1>3, <1>4 DEF SyncedInPlace

\* The writer changes the row now, not the row there will be.
LEMMA WriteView ==
    ASSUME Types, SyncedInPlace, Write
    PROVE  /\ LastRow'.content = LastRow.content
           /\ channel[Len(channel)].op = "upsert" => LastRow' = LastRow
           /\ channel' # <<>> => channel'[Len(channel')] = channel[Len(channel)]
           /\ channel # <<>>
           /\ \A d : InChannel(d)' => InChannel(d)
           /\ SyncedInPlace'
           /\ \E e \in Event : /\ InChannel(e) /\ disk'.content = e.row.content
                               /\ disk'.rev = e.row.rev
                               /\ ~disk'.pending => e.op = "synced" \/ ~e.row.pending
<1> DEFINE e == channel[1]
<1>1. /\ channel \in Seq(Event) /\ channel # <<>> /\ channel' = Tail(channel)
      /\ Len(channel) \in Nat \ {0} /\ DOMAIN channel = 1..Len(channel)
      /\ Len(channel') = Len(channel) - 1 /\ DOMAIN channel' = 1..(Len(channel) - 1)
      /\ channel' \in Seq(Event)
      /\ Head(channel) = e /\ e \in Event /\ 1 \in DOMAIN channel
      /\ \A i \in DOMAIN channel' : channel'[i] = channel[i + 1]
    BY Basics DEF Write
<1>2. disk \in Row /\ disk' = Apply(disk, e)
    BY <1>1, Basics DEF Write
<1>3. e.op \in {"upsert", "synced"}
    BY <1>1 DEF Event
<1>4. /\ disk'.rev = e.row.rev
      /\ e.op = "upsert" => disk' = e.row
      /\ e.op = "synced" => disk'.content = disk.content /\ ~disk'.pending
    BY <1>1, <1>2, ApplyTypes
<1>5. disk'.content = e.row.content
    BY <1>1, <1>3, <1>4 DEF SyncedInPlace, Before
<1>6. \A d : InChannel(d)' => InChannel(d)
    BY <1>1 DEF InChannel
<1>7. SyncedInPlace'
    <2>1. ASSUME NEW i \in DOMAIN channel', channel'[i].op = "synced"
          PROVE  channel'[i].row.content = Before(i)'.content
        <3>1. /\ i + 1 \in DOMAIN channel /\ channel'[i] = channel[i + 1]
              /\ channel[i + 1].row.content = Before(i + 1).content
            BY <1>1, <2>1 DEF SyncedInPlace
        <3>2. Before(i)'.content = Before(i + 1).content
            <4>1. CASE i = 1
                BY <1>5, <4>1 DEF Before
            <4>2. CASE i # 1
                BY <1>1, <4>2 DEF Before
            <4> QED
                BY <4>1, <4>2
        <3> QED
            BY <3>1, <3>2
    <2> QED
        BY <2>1 DEF SyncedInPlace
<1>8. CASE Len(channel) = 1
    <2>1. channel' = <<>>
        BY <1>1, <1>8
    <2> QED
        BY <1>1, <1>3, <1>4, <1>5, <1>6, <1>7, <1>8, <2>1 DEF LastRow, InChannel
<1>9. CASE Len(channel) # 1
    <2>1. channel' # <<>> /\ channel'[Len(channel')] = channel[Len(channel)]
        <3>1. Len(channel') \in DOMAIN channel' /\ Len(channel') + 1 = Len(channel)
            BY <1>1, <1>9
        <3>2. channel'[Len(channel')] = channel[Len(channel') + 1]
            BY <1>1, <3>1
        <3> QED
            BY <3>1, <3>2
    <2> QED
        BY <1>1, <1>3, <1>4, <1>5, <1>6, <1>7, <2>1 DEF LastRow, InChannel
<1> QED
    BY <1>8, <1>9

-----------------------------------------------------------------------------
(* What keeps a part of the invariant. *)

\* The object in memory is touched only where no update of it is outstanding.
LEMMA QueueKept ==
    ASSUME QueueInv, SameUpdates, kind' = kind, mine' = mine, overtaken => overtaken',
           overtaken' \in BOOLEAN,
           ~overtaken' =>
               /\ mem'.status = mem.status /\ mem'.count = mem.count
               /\ Outstanding > 0 => mem'.content = mem.content
    PROVE  QueueInv'
<1> USE DEF SameUpdates
<1>1. Counted'
    BY DEF QueueInv, Counted
<1>2. LastIsShown'
    BY DEF QueueInv, LastIsShown
<1>3. MineIsShown'
    BY DEF QueueInv, MineIsShown
<1> QED
    BY <1>1, <1>2, <1>3 DEF QueueInv

\* A reset of the object, unless updates of it are outstanding.
LEMMA QueueReset ==
    ASSUME QueueInv, SameUpdates, kind' = kind, mine' = mine,
           Outstanding \in Nat,
           mem'.status # "InFlight", overtaken' = (overtaken \/ Outstanding > 0)
    PROVE  QueueInv'
<1> USE DEF SameUpdates
<1>1. Counted'
    BY DEF QueueInv, Counted
<1>2. LastIsShown'
    BY DEF QueueInv, LastIsShown
<1>3. MineIsShown'
    BY DEF QueueInv, MineIsShown
<1> QED
    BY <1>1, <1>2, <1>3 DEF QueueInv

\* The revisions the server gave out keep their content.
Grows ==
    \/ history' = history
    \/ \E c : history' = Append(history, c)

LEMMA GrowsView ==
    ASSUME Types, Grows
    PROVE  \A r \in 1..Len(history) : history'[r] = history[r]
<1>1. history \in Seq(Contents) /\ Len(history) \in Nat
    BY Basics
<1>2. ASSUME NEW c, history' = Append(history, c), NEW r \in 1..Len(history)
      PROVE  history'[r] = history[r]
    BY <1>1, <1>2
<1> QED
    BY <1>2 DEF Grows

LEMMA RowsExist ==
    ASSUME Types
    PROVE  /\ mem.rev \in 1..Len(history)
           /\ disk.rev \in 1..Len(history)
           /\ \A e \in Event : InChannel(e) => e.row.rev \in 1..Len(history)
           /\ \A u \in Update : Out(u) => u.rev \in 1..Len(history)
<1>1. \A row \in Row : row.rev \in Revisions
    BY DEF Row
<1>2. \A e \in Event : e.row \in Row
    BY DEF Event
<1>3. \A u \in Update : u.rev \in Revisions
    BY DEF Update
<1>4. mem.rev \in Revisions
    BY Basics DEF Memory
<1>5. /\ disk \in Row /\ mem.rev <= Len(history) /\ disk.rev <= Len(history)
      /\ \A i \in DOMAIN channel : channel[i].row.rev <= Len(history)
      /\ \A i \in DOMAIN queue : queue[i].rev <= Len(history)
      /\ net.item.rev <= Len(history) /\ Len(history) \in Nat
    BY Basics
<1>6. \A e \in Event : InChannel(e) => e.row.rev \in 1..Len(history)
    BY <1>1, <1>2, <1>5 DEF InChannel
<1>7. \A u \in Update : Out(u) => u.rev \in 1..Len(history)
    BY <1>3, <1>5 DEF Out
<1> QED
    BY <1>1, <1>4, <1>5, <1>6, <1>7

\* What the writer has not got yet, and what it has, stays as it is.
LEMMA DatabaseKept ==
    ASSUME Types, DatabaseInv, Grows, disk' = disk, channel' = channel,
           overtaken => overtaken', forgotten => forgotten',
           overtaken' \in BOOLEAN, forgotten' \in BOOLEAN,
           mem'.content = mem.content,
           ~overtaken' /\ Pending(mem') => Pending(mem),
           MemoryAtRest'
    PROVE  DatabaseInv'
<1>1. DatabaseFollows'
    BY DEF DatabaseInv, DatabaseFollows, LastRow
<1>2. SyncedInPlace'
    BY DEF DatabaseInv, SyncedInPlace, Before
<1>3. PendingIsSaved'
    BY DEF DatabaseInv, PendingIsSaved, LastRow, Pending
<1>4. RowsAtRest'
    <2> SUFFICES ASSUME ~overtaken', ~forgotten'
                 PROVE  /\ ~disk.pending => AtRest(disk)'
                        /\ \A e \in Event : InChannel(e) /\ (e.op = "synced" \/ ~e.row.pending)
                              => AtRest(e.row)'
        BY DEF RowsAtRest, InChannel, AtRest
    <2>1. \A r \in 1..Len(history) : history'[r] = history[r]
        BY GrowsView
    <2>2. /\ disk.rev \in 1..Len(history)
          /\ \A e \in Event : InChannel(e) => e.row.rev \in 1..Len(history)
        BY RowsExist
    <2>3. /\ ~disk.pending => AtRest(disk)
          /\ \A e \in Event : InChannel(e) /\ (e.op = "synced" \/ ~e.row.pending)
                => AtRest(e.row)
        BY DEF DatabaseInv, RowsAtRest
    <2> QED
        BY <2>1, <2>2, <2>3 DEF AtRest
<1> QED
    BY <1>1, <1>2, <1>3, <1>4 DEF DatabaseInv

\* The object is saved, as pending or as it is at rest.
LEMMA DatabaseSaved ==
    ASSUME Types, DatabaseInv, history' = history, disk' = disk,
           NEW e \in Event, Save(e), e.row.content = mem'.content,
           e.op = "synced" => mem'.content = mem.content,
           overtaken => overtaken', forgotten => forgotten',
           overtaken' \in BOOLEAN, forgotten' \in BOOLEAN,
           ~overtaken' /\ Pending(mem') => e.op = "upsert" /\ e.row.pending,
           ~overtaken' /\ ~forgotten' /\ (e.op = "synced" \/ ~e.row.pending) => AtRest(e.row),
           MemoryAtRest'
    PROVE  DatabaseInv'
<1>1. /\ LastRow' = e.row /\ channel' # <<>> /\ channel'[Len(channel')] = e
      /\ \A d : InChannel(d)' <=> (InChannel(d) \/ d = e)
      /\ SyncedInPlace'
    BY SaveView DEF DatabaseInv, DatabaseFollows
<1>2. DatabaseFollows'
    BY <1>1 DEF DatabaseFollows
<1>3. PendingIsSaved'
    BY <1>1 DEF PendingIsSaved, Pending
<1>4. RowsAtRest'
    BY <1>1 DEF DatabaseInv, RowsAtRest, AtRest
<1> QED
    BY <1>1, <1>2, <1>3, <1>4 DEF DatabaseInv

\* Everything kept somewhere was there before or comes from the object in
\* memory; an update that gets another revision gets the one of the object.
FromMemory(o) == o.content = mem'.content /\ o.rev = mem'.rev
FromBefore(o) ==
    \E u \in Update : Out(u) /\ o.content = u.content /\ o.rev \in {u.rev, mem'.rev}
RowFromBefore(o) ==
    \/ o.content = disk.content /\ o.rev = disk.rev
    \/ \E e \in Event : InChannel(e) /\ o.content = e.row.content /\ o.rev = e.row.rev

LEMMA VersionKept ==
    ASSUME Types, Types', VersionInv, Grows,
           NextContent' >= NextContent,
           \A c \in Contents : NotNew(c) => saw'[c] = saw[c],
           overtaken => overtaken',
           \A u \in Update : Out(u)' => FromMemory(u) \/ FromBefore(u),
           \A e \in Event : InChannel(e)' => FromMemory(e.row) \/ RowFromBefore(e.row),
           RowFromBefore(disk'),
           mem'.content < NextContent',
           \A r \in DOMAIN history' : history'[r] < NextContent',
           ~overtaken' =>
               /\ saw'[mem'.content] = saw'[history'[mem'.rev]]
               /\ \/ saw'[mem'.content] = saw[mem.content]
                  \/ \A u \in Update : Out(u)' => FromMemory(u),
           AcceptedIsStored'
    PROVE  VersionInv'
<1> DEFINE Good(o) == saw'[o.content] = saw'[history'[o.rev]]
           Old(o) == /\ NotNew(o.content) /\ o.content \in Contents
                     /\ o.rev \in 1..Len(history)
<1>1. \A r \in 1..Len(history) : /\ history'[r] = history[r] /\ history[r] \in Contents
                                 /\ NotNew(history[r])
    <2>1. \A r \in DOMAIN history : NotNew(history[r])
        BY DEF VersionInv, NoneIsNew
    <2>2. /\ DOMAIN history = 1..Len(history)
          /\ \A r \in DOMAIN history : history[r] \in Contents
        BY Basics
    <2> QED
        BY <2>1, <2>2, GrowsView
<1>2. ASSUME NEW o, Old(o) PROVE o.content < NextContent'
    <2>1. NextContent \in Nat /\ NextContent' \in Nat
        <3>1. used.edits \in Nat /\ used.others \in Nat
            BY Basics
        <3>2. used'.edits \in Nat /\ used'.others \in Nat
            BY BoundsAssumption DEF Types, U, UserOK
        <3> QED
            BY <3>1, <3>2 DEF NextContent
    <2>2. o.content \in Nat /\ o.content < NextContent
        BY <1>2, BoundsAssumption DEF Contents, NotNew
    <2> QED
        BY <2>1, <2>2
<1>3. ASSUME NEW o, Old(o), Vouches(o) PROVE Good(o)
    <2>1. history'[o.rev] = history[o.rev] /\ history[o.rev] \in Contents /\ NotNew(history[o.rev])
        BY <1>1, <1>3
    <2>2. saw'[o.content] = saw[o.content] /\ saw'[history[o.rev]] = saw[history[o.rev]]
        BY <1>3, <2>1
    <2> QED
        BY <1>3, <2>1, <2>2 DEF Vouches
<1>4. ASSUME NEW v \in Update, Out(v)
      PROVE  /\ Old(v)
             /\ ~overtaken => Vouches(v) /\ saw[v.content] = saw[mem.content]
    <2>1. v.rev \in 1..Len(history)
        BY <1>4, RowsExist
    <2>2. v.content \in Contents
        BY DEF Update
    <2> QED
        BY <1>4, <2>1, <2>2 DEF VersionInv, NoneIsNew, AllVouch
<1>5. ASSUME NEW o, RowFromBefore(o)
      PROVE  Old(o) /\ (~overtaken => Vouches(o))
    <2>1. CASE o.content = disk.content /\ o.rev = disk.rev
        <3>1. disk.rev \in 1..Len(history) /\ disk.content \in Contents
            BY Basics, RowsExist DEF Row
        <3>2. NotNew(disk.content) /\ (~overtaken => Vouches(disk))
            BY DEF VersionInv, NoneIsNew, AllVouch
        <3> QED
            BY <2>1, <3>1, <3>2 DEF Vouches
    <2>2. ASSUME NEW e \in Event, InChannel(e), o.content = e.row.content, o.rev = e.row.rev
          PROVE  Old(o) /\ (~overtaken => Vouches(o))
        <3>1. e.row.rev \in 1..Len(history) /\ e.row.content \in Contents
            BY <2>2, RowsExist DEF Event, Row
        <3>2. NotNew(e.row.content) /\ (~overtaken => Vouches(e.row))
            BY <2>2 DEF VersionInv, NoneIsNew, AllVouch
        <3> QED
            BY <2>2, <3>1, <3>2 DEF Vouches
    <2> QED
        BY <1>5, <2>1, <2>2 DEF RowFromBefore
<1>6. ASSUME NEW u \in Update, Out(u)' PROVE u.content < NextContent'
    <2>1. CASE FromMemory(u)
        BY <2>1 DEF FromMemory
    <2>2. CASE FromBefore(u)
        BY <1>2, <1>4, <2>2 DEF FromBefore
    <2> QED
        BY <1>6, <2>1, <2>2
<1> HIDE DEF Old
<1>7. ASSUME NEW o, FromMemory(o) \/ RowFromBefore(o)
      PROVE  o.content < NextContent' /\ (~overtaken' => Good(o))
    <2>1. CASE FromMemory(o)
        BY <2>1 DEF FromMemory
    <2>2. CASE RowFromBefore(o)
        BY <1>2, <1>3, <1>5, <2>2
    <2> QED
        BY <1>7, <2>1, <2>2
<1>8. ASSUME ~overtaken', NEW u \in Update, Out(u)'
      PROVE  Good(u) /\ saw'[u.content] = saw'[mem'.content]
    <2>1. CASE FromMemory(u)
        BY <1>8, <2>1 DEF FromMemory
    <2>2. ASSUME ~FromMemory(u), NEW v \in Update, Out(v), u.content = v.content,
                 u.rev \in {v.rev, mem'.rev}
          PROVE  Good(u) /\ saw'[u.content] = saw'[mem'.content]
        <3>1. Old(v) /\ Vouches(v) /\ saw[v.content] = saw[mem.content]
            BY <1>4, <1>8, <2>2
        <3>2. Good(v)
            BY <1>3, <3>1
        <3>3. saw'[v.content] = saw[v.content]
            BY <3>1 DEF Old
        <3>4. saw'[mem'.content] = saw[mem.content]
            BY <1>8, <2>2
        <3> QED
            BY <1>8, <2>2, <3>1, <3>2, <3>3, <3>4
    <2> QED
        BY <1>8, <2>1, <2>2 DEF FromBefore
<1>9. NoneIsNew'
    <2>1. \A e \in Event : InChannel(e)' => e.row.content < NextContent'
        BY <1>7
    <2>2. disk'.content < NextContent'
        BY <1>7
    <2> QED
        BY <1>6, <2>1, <2>2 DEF NoneIsNew, NotNew
<1>10. AllVouch'
    <2>1. ~overtaken' => \A e \in Event : InChannel(e)' => Good(e.row)
        BY <1>7
    <2>2. ~overtaken' => Good(disk')
        BY <1>7
    <2> QED
        BY <1>8, <2>1, <2>2 DEF AllVouch, Vouches
<1> QED
    BY <1>9, <1>10 DEF VersionInv

\* The same where the server has no new revision and nobody made an edit: the
\* object keeps its content under a revision that vouches for it, or takes that
\* of a revision while no update of it is outstanding, or comes from the row.
LEMMA VersionSteady ==
    ASSUME Types, Types', VersionInv, history' = history, saw' = saw,
           used'.edits = used.edits, used'.others = used.others,
           overtaken => overtaken',
           \A u \in Update : Out(u)' => FromMemory(u) \/ FromBefore(u),
           \A e \in Event : InChannel(e)' => FromMemory(e.row) \/ RowFromBefore(e.row),
           RowFromBefore(disk'),
           \/ /\ mem'.content = mem.content
              /\ ~overtaken' => saw[mem'.content] = saw[history[mem'.rev]]
           \/ /\ mem'.content = history[mem'.rev] /\ mem'.rev \in DOMAIN history
              /\ ~overtaken' => \A u \in Update : ~Out(u)'
           \/ /\ mem'.content = disk.content /\ mem'.rev = disk.rev
              /\ \A u \in Update : Out(u)' => FromMemory(u),
           AcceptedIsStored'
    PROVE  VersionInv'
<1>1. NextContent' = NextContent /\ NextContent \in Nat
    BY Basics DEF NextContent
<1>2. \A r \in DOMAIN history : history[r] < NextContent
    BY DEF VersionInv, NoneIsNew, NotNew
<1>3. mem.content < NextContent /\ disk.content < NextContent
    BY DEF VersionInv, NoneIsNew, NotNew
<1>4. mem'.content < NextContent'
    BY <1>1, <1>2, <1>3
<1>5. ~overtaken' => saw'[mem'.content] = saw'[history'[mem'.rev]]
    BY DEF VersionInv, AllVouch, Vouches
<1>6. ~overtaken' => \/ saw'[mem'.content] = saw[mem.content]
                     \/ \A u \in Update : Out(u)' => FromMemory(u)
    BY <1>5
<1>7. \A r \in DOMAIN history' : history'[r] < NextContent'
    BY <1>1, <1>2
<1>8. NextContent' >= NextContent
    BY <1>1
<1>9. Grows
    BY DEF Grows
<1> QED
    BY <1>4, <1>5, <1>6, <1>7, <1>8, <1>9, VersionKept

LEMMA OldUpdatesAndRows ==
    /\ \A u \in Update : Out(u) => FromBefore(u)
    /\ \A e \in Event : InChannel(e) => RowFromBefore(e.row)
    /\ RowFromBefore(disk)
BY DEF FromBefore, RowFromBefore

-----------------------------------------------------------------------------
(* The steps that move no content. *)

LEMMA QuietStep ==
    ASSUME IInv, Types', SameUpdates,
           UNCHANGED <<kind, mem, disk, channel, history, mine, saw, overtaken, forgotten>>,
           used'.edits = used.edits, used'.others = used.others,
           AcceptedIsStored'
    PROVE  IInv'
<1> USE DEF IInv
<1>1. overtaken \in BOOLEAN /\ forgotten \in BOOLEAN
    BY Basics
<1>2. QueueInv'
    BY <1>1, QueueKept
<1>3. MemoryAtRest' /\ Grows
    BY DEF DatabaseInv, MemoryAtRest, AtRest, Grows
<1>4. DatabaseInv'
    BY <1>1, <1>3, DatabaseKept DEF Pending
<1>5. /\ \A u \in Update : Out(u)' => FromBefore(u)
      /\ \A e \in Event : InChannel(e)' => RowFromBefore(e.row)
      /\ RowFromBefore(disk')
    BY OldUpdatesAndRows DEF SameUpdates, InChannel
<1>6. ~overtaken' => saw[mem'.content] = saw[history[mem'.rev]]
    BY DEF VersionInv, AllVouch, Vouches
<1>7. VersionInv'
    BY <1>5, <1>6, VersionSteady
<1> QED
    BY <1>2, <1>4, <1>7

LEMMA QuietActions ==
    ASSUME IInv, Types',
           \/ ServerRejects \/ RequestFails \/ LoseMessage \/ RevertToServer
           \/ \E force \in BOOLEAN : StartPoll(force)
    PROVE  IInv'
<1> USE DEF IInv
<1>1. AcceptedIsStored /\ net \in Request
    BY Basics DEF VersionInv
<1>2. ASSUME NEW answer \in {"rejected", "error"}, NEW r, Reply(answer, r), Busy, queue' = queue
      PROVE  SameUpdates /\ AcceptedIsStored'
    <2>1. net'.item = net.item /\ net'.reply = answer
        BY <1>1, <1>2 DEF Reply, Request
    <2>2. Busy'
        BY <2>1 DEF Busy
    <2> QED
        BY <1>2, <2>1, <2>2, SameQueue DEF AcceptedIsStored
<1>3. CASE ServerRejects
    <2>1. SameUpdates /\ AcceptedIsStored'
        BY <1>2, <1>3 DEF ServerRejects, Busy
    <2> QED
        BY <1>3, <2>1, QuietStep DEF ServerRejects
<1>4. CASE RequestFails
    <2>1. SameUpdates /\ AcceptedIsStored'
        BY <1>2, <1>4 DEF RequestFails, Busy
    <2>2. used'.edits = used.edits /\ used'.others = used.others
        BY <1>4 DEF RequestFails, Spend, Types, U, UserOK
    <2> QED
        BY <1>4, <2>1, <2>2, QuietStep DEF RequestFails
<1>5. CASE UNCHANGED <<kind, mem, disk, channel, queue, net, loaded, history, mine, saw,
                       overtaken, forgotten, used>>
    <2>1. SameUpdates
        BY <1>5, SameQueue DEF Busy
    <2>2. AcceptedIsStored'
        BY <1>1, <1>5 DEF AcceptedIsStored
    <2> QED
        BY <1>5, <2>1, <2>2, QuietStep
<1> QED
    BY <1>3, <1>4, <1>5 DEF LoseMessage, RevertToServer, StartPoll

\* The server's steps only add to its history.
LEMMA PublishStep ==
    ASSUME IInv, Types', SameUpdates, NEW c, Publish(c), c < NextContent',
           UNCHANGED <<kind, mem, disk, channel, mine, overtaken, forgotten>>,
           NextContent' >= NextContent,
           \A d \in Contents : NotNew(d) => saw'[d] = saw[d],
           AcceptedIsStored'
    PROVE  IInv'
<1> USE DEF IInv
<1>1. /\ overtaken \in BOOLEAN /\ forgotten \in BOOLEAN /\ mem \in Memory
      /\ history \in Seq(Contents) /\ DOMAIN history = 1..Len(history) /\ Len(history) \in Nat
    BY Basics
<1>2. Grows /\ history' = Append(history, c)
    BY DEF Publish, Grows
<1>3. mem.rev \in 1..Len(history) /\ history'[mem.rev] = history[mem.rev]
    BY <1>2, GrowsView, RowsExist
<1>4. QueueInv'
    BY <1>1, QueueKept
<1>5. MemoryAtRest'
    BY <1>3 DEF DatabaseInv, MemoryAtRest, AtRest
<1>6. DatabaseInv'
    BY <1>1, <1>2, <1>5, DatabaseKept DEF Pending
<1>7. /\ \A u \in Update : Out(u)' => FromBefore(u)
      /\ \A e \in Event : InChannel(e)' => RowFromBefore(e.row)
      /\ RowFromBefore(disk')
    BY OldUpdatesAndRows DEF SameUpdates, InChannel
<1>8. /\ NotNew(mem.content) /\ mem.content \in Contents
      /\ \A r \in DOMAIN history : NotNew(history[r]) /\ history[r] \in Contents
    BY <1>1 DEF VersionInv, NoneIsNew, Memory
<1>9. NextContent \in Nat /\ NextContent' \in Nat
    <2>1. used.edits \in Nat /\ used.others \in Nat /\ used'.edits \in Nat /\ used'.others \in Nat
        BY Basics, BoundsAssumption DEF Types, U, UserOK
    <2> QED
        BY <2>1 DEF NextContent
<1>10. \A d \in Contents : NotNew(d) => d < NextContent'
    BY <1>9, BoundsAssumption DEF NotNew, Contents
<1>11. \A r \in DOMAIN history' : history'[r] < NextContent'
    <2>1. \A r \in 1..(Len(history) + 1) : history'[r] = IF r \in 1..Len(history) THEN history[r] ELSE c
        BY <1>1, <1>2
    <2>2. DOMAIN history' = 1..(Len(history) + 1)
        BY <1>1, <1>2
    <2> QED
        BY <1>1, <1>8, <1>10, <2>1, <2>2
<1>12. mem'.content < NextContent'
    BY <1>8, <1>10
<1>13. saw'[mem'.content] = saw[mem.content]
    BY <1>8
<1>14. ~overtaken' => saw'[mem'.content] = saw'[history'[mem'.rev]]
    BY <1>1, <1>3, <1>8, <1>13 DEF VersionInv, AllVouch, Vouches
<1>15. VersionInv'
    BY <1>2, <1>7, <1>11, <1>12, <1>13, <1>14, VersionKept
<1> QED
    BY <1>4, <1>6, <1>15

LEMMA ServerAcceptsKeeps ==
    ASSUME IInv, Types', ServerAccepts
    PROVE  IInv'
<1> USE DEF IInv
<1>1. /\ net \in Request /\ history \in Seq(Contents) /\ Len(history) \in Nat
      /\ net.item \in Update /\ Busy
    BY Basics DEF ServerAccepts, Request, Busy
<1>2. /\ net'.item = net.item /\ net'.reply = "accepted" /\ net'.at = Len(history) + 1
      /\ history' = Append(history, net.item.content)
    BY <1>1 DEF ServerAccepts, Reply, Publish, Request, Rev
<1>3. SameUpdates
    <2>1. Busy'
        BY <1>2 DEF Busy
    <2> QED
        BY <1>1, <1>2, <2>1, SameQueue DEF ServerAccepts
<1>4. AcceptedIsStored'
    <2>1. history'[Len(history) + 1] = net.item.content
        BY <1>1, <1>2
    <2> QED
        BY <1>2, <2>1 DEF AcceptedIsStored
<1>5. NextContent' = NextContent /\ NextContent \in Nat
    BY Basics DEF ServerAccepts, NextContent
<1>6. net.item.content < NextContent
    BY <1>1 DEF VersionInv, NoneIsNew, NotNew, Out
<1>7. /\ Publish(net.item.content) /\ saw' = saw
      /\ UNCHANGED <<kind, mem, disk, channel, mine, overtaken, forgotten>>
    BY DEF ServerAccepts
<1> QED
    BY <1>3, <1>4, <1>5, <1>6, <1>7, PublishStep

LEMMA OtherClientUpdatesKeeps ==
    ASSUME IInv, Types', OtherClientUpdates
    PROVE  IInv'
<1> USE DEF IInv
<1>1. SameUpdates
    BY SameQueue DEF OtherClientUpdates, Busy
<1>2. NextContent' = NextContent + 1 /\ NextContent \in Nat
    <2>1. used'.edits = used.edits /\ used'.others = used.others + 1
        BY DEF OtherClientUpdates, Spend, Types, U, UserOK
    <2> QED
        BY <2>1, Basics DEF NextContent
<1>3. \A d \in Contents : NotNew(d) => saw'[d] = saw[d]
    <2>1. saw \in [Contents -> Contents] /\ saw' = [saw EXCEPT ![NextContent] = NextContent]
        BY Basics DEF OtherClientUpdates
    <2>2. \A d \in Contents : NotNew(d) => d # NextContent
        BY <1>2, BoundsAssumption DEF NotNew, Contents
    <2> QED
        BY <2>1, <2>2
<1>4. /\ Publish(NextContent) /\ net' = net
      /\ UNCHANGED <<kind, mem, disk, channel, mine, overtaken, forgotten>>
    BY DEF OtherClientUpdates
<1>5. AcceptedIsStored'
    <2>1. net.reply = "accepted" => net.at \in 1..Len(history)
        <3>1. net.at \in Nat /\ net.at <= Len(history) /\ Len(history) \in Nat
              /\ (net.reply = "accepted" => net.at # 0)
            BY Basics DEF Request
        <3> QED
            BY <3>1
    <2>2. Grows
        BY <1>4 DEF Publish, Grows
    <2> QED
        BY <1>4, <2>1, <2>2, GrowsView DEF VersionInv, AcceptedIsStored
<1>6. NextContent < NextContent'
    BY <1>2
<1>7. NextContent' >= NextContent
    BY <1>2
<1> QED
    BY <1>1, <1>3, <1>4, <1>5, <1>6, <1>7, PublishStep

-----------------------------------------------------------------------------
(* The steps that bring the object what the server has. *)

LEMMA NoneOut ==
    ASSUME Types
    PROVE  Outstanding \in Nat /\ (Outstanding = 0 => \A u : ~Out(u))
<1>1. queue \in Seq(Update) /\ Len(queue) \in Nat
    BY Basics
<1>2. Outstanding = 0 => ~Busy /\ Len(queue) = 0
    BY <1>1 DEF Outstanding
<1>3. Len(queue) = 0 => queue = <<>>
    BY <1>1
<1> QED
    BY <1>1, <1>2, <1>3 DEF Out, Outstanding

\* An object with pending changes or with a conflict keeps its content.
LEMMA UpdateFromServerView ==
    ASSUME Types, NEW r \in 1..Len(history)
    PROVE  LET o == UpdateFromServer(mem, r) IN
           /\ o.status = mem.status /\ o.count = mem.count
           /\ \/ o.content = mem.content /\ o.rev = mem.rev /\ o.conflict = r
              \/ /\ ~Pending(mem)
                 /\ o.content = history[r] /\ o.rev = r /\ o.conflict = 0
<1>1. mem \in Memory
    BY Basics
<1>2. CASE Pending(mem) \/ mem.conflict # 0
    <2>1. UpdateFromServer(mem, r) = [mem EXCEPT !.conflict = r]
        BY <1>2 DEF UpdateFromServer
    <2> QED
        BY <1>1, <2>1 DEF Memory
<1>3. CASE ~(Pending(mem) \/ mem.conflict # 0)
    <2>1. UpdateFromServer(mem, r) = [mem EXCEPT !.rev = r, !.content = history[r]]
        BY <1>3 DEF UpdateFromServer
    <2> QED
        BY <1>1, <1>3, <2>1 DEF Memory
<1> QED
    BY <1>2, <1>3

LEMMA HeardStep ==
    ASSUME IInv, Types', SameUpdates,
           NEW r \in 1..Len(history), NEW updated \in BOOLEAN,
           mem' = UpdateFromServer(mem, r) \/ mem' = mem,
           ~updated => mem' = mem,
           SaveFromServer(updated),
           UNCHANGED <<kind, disk, history, mine, saw, overtaken, used>>,
           AcceptedIsStored'
    PROVE  IInv'
<1> USE DEF IInv
<1>1. /\ overtaken \in BOOLEAN /\ forgotten \in BOOLEAN /\ forgotten' \in BOOLEAN
      /\ mem' \in Memory
    BY Basics DEF Types, P, Parts, MemoryOK, SaveFromServer
<1>2. mem'.status = mem.status /\ mem'.count = mem.count
    BY UpdateFromServerView
<1>3. \/ mem'.content = mem.content /\ mem'.rev = mem.rev
      \/ ~Pending(mem) /\ mem'.content = history[r] /\ mem'.rev = r
    BY UpdateFromServerView
<1>4. ~overtaken /\ ~Pending(mem) => Outstanding = 0
    BY NoneOut DEF QueueInv, Counted, Pending
<1>5. QueueInv'
    <2>1. ~overtaken' /\ Outstanding > 0 => mem'.content = mem.content
        BY <1>3, <1>4
    <2> QED
        BY <1>1, <1>2, <2>1, QueueKept
<1>6. MemoryAtRest'
    <2>1. MemoryAtRest /\ (forgotten => forgotten')
        BY DEF DatabaseInv, SaveFromServer
    <2> QED
        BY <1>2, <1>3, <2>1 DEF MemoryAtRest, AtRest
<1>7. /\ Upsert(mem') \in Event /\ Upsert(mem').op = "upsert"
      /\ Upsert(mem').row.content = mem'.content /\ Upsert(mem').row.rev = mem'.rev
      /\ (Upsert(mem').row.pending <=> Pending(mem'))
    BY <1>1, EventTypes
<1>8. ASSUME updated
      PROVE  DatabaseInv' /\ \A e \in Event : InChannel(e)' => FromMemory(e.row) \/ RowFromBefore(e.row)
    <2>1. Save(Upsert(mem')) /\ forgotten' = (forgotten \/ mem'.status = "InConflict")
        BY <1>8 DEF SaveFromServer, SaveIf
    <2>2. ~overtaken' /\ ~forgotten' /\ ~Pending(mem') => AtRest(Upsert(mem').row)
        BY <1>1, <1>6, <1>7, <2>1 DEF MemoryAtRest, AtRest, Pending, Memory, Statuses
    <2>3. DatabaseInv'
        <3> HIDE DEF IInv
        <3>1. Types /\ DatabaseInv
            BY DEF IInv
        <3> QED
            BY <1>1, <1>6, <1>7, <2>1, <2>2, <3>1, DatabaseSaved
    <2>4. \A e \in Event : InChannel(e)' => FromMemory(e.row) \/ RowFromBefore(e.row)
        BY <1>7, <2>1, SaveView, OldUpdatesAndRows DEF FromMemory
    <2> QED
        BY <2>3, <2>4
<1>9. ASSUME ~updated
      PROVE  DatabaseInv' /\ \A e \in Event : InChannel(e)' => FromMemory(e.row) \/ RowFromBefore(e.row)
    <2>1. mem' = mem /\ channel' = channel /\ forgotten' = forgotten
        BY <1>1, <1>9 DEF SaveFromServer, SaveIf
    <2>2. Grows
        BY DEF Grows
    <2>3. DatabaseInv'
        BY <1>1, <1>6, <2>1, <2>2, DatabaseKept DEF Pending
    <2>4. \A e \in Event : InChannel(e)' => FromMemory(e.row) \/ RowFromBefore(e.row)
        BY <2>1, OldUpdatesAndRows DEF InChannel
    <2> QED
        BY <2>3, <2>4
<1>10. DatabaseInv' /\ \A e \in Event : InChannel(e)' => FromMemory(e.row) \/ RowFromBefore(e.row)
    BY <1>8, <1>9
<1>11. VersionInv'
    <2>1. RowFromBefore(disk') /\ \A u \in Update : Out(u)' => FromBefore(u)
        BY OldUpdatesAndRows DEF SameUpdates
    <2>2. CASE mem'.content = mem.content /\ mem'.rev = mem.rev
        <3>1. ~overtaken' => saw[mem'.content] = saw[history[mem'.rev]]
            BY <2>2 DEF VersionInv, AllVouch, Vouches
        <3> QED
            BY <1>10, <2>1, <2>2, <3>1, VersionSteady
    <2>3. CASE ~Pending(mem) /\ mem'.content = history[r] /\ mem'.rev = r
        <3>1. ~overtaken' => \A u \in Update : ~Out(u)'
            BY <1>4, <2>3, NoneOut DEF SameUpdates
        <3>2. r \in DOMAIN history
            BY Basics
        <3> QED
            BY <1>10, <2>1, <2>3, <3>1, <3>2, VersionSteady
    <2> QED
        BY <1>3, <2>2, <2>3
<1> QED
    BY <1>5, <1>10, <1>11

LEMMA ReceiveMessageKeeps ==
    ASSUME IInv, Types', NEW b \in BOOLEAN, ReceiveMessage(b)
    PROVE  IInv'
<1> DEFINE r == Head(rtc)
           updated == r > mem.rev \/ b
<1>1. r \in 1..Len(history)
    <2>1. rtc \in Seq(Revisions) /\ rtc # <<>> /\ \A i \in DOMAIN rtc : rtc[i] <= Len(history)
        BY DEF ReceiveMessage, IInv, Types, P, Parts, MessagesOK
    <2>2. 1 \in DOMAIN rtc /\ r = rtc[1] /\ rtc[1] \in Revisions
        BY <2>1
    <2>3. Len(history) \in Nat
        BY Basics DEF IInv
    <2> QED
        BY <2>1, <2>2, <2>3
<1>2. /\ mem' = UpdateFromServer(mem, r) \/ mem' = mem
      /\ ~updated => mem' = mem
      /\ SaveFromServer(updated)
      /\ updated \in BOOLEAN
    BY DEF ReceiveMessage
<1>3. SameUpdates
    BY SameQueue DEF ReceiveMessage, Busy, IInv
<1>4. AcceptedIsStored'
    BY DEF ReceiveMessage, IInv, VersionInv, AcceptedIsStored
<1>5. UNCHANGED <<kind, disk, history, mine, saw, overtaken, used>>
    BY DEF ReceiveMessage
<1> QED
    BY <1>1, <1>2, <1>3, <1>4, <1>5, HeardStep

LEMMA PollAnsweredKeeps ==
    ASSUME IInv, Types', NEW r \in 1..Rev, PollAnswered(r)
    PROVE  IInv'
<1> DEFINE returned == r # poll.asked \/ poll.force
<1>1. r \in 1..Len(history)
    BY DEF Rev
<1>2. /\ mem' = UpdateFromServer(mem, r) \/ mem' = mem
      /\ ~returned => mem' = mem
      /\ SaveFromServer(returned)
    BY DEF PollAnswered
<1>3. returned \in BOOLEAN
    BY DEF IInv, Types, P, Parts, PollOK, Poll
<1>4. SameUpdates /\ AcceptedIsStored'
    <2>1. CASE ~Busy /\ Dequeue(queue, TRUE)
        <3>1. loaded' = TRUE
            BY DEF PollAnswered
        <3> QED
            BY <2>1, <3>1, RequeuedView DEF IInv, AcceptedIsStored
    <2>2. CASE Busy /\ UNCHANGED <<queue, net>>
        <3>1. SameUpdates
            BY <2>2, SameQueue DEF IInv, Busy
        <3>2. AcceptedIsStored'
            BY <2>2 DEF PollAnswered, IInv, VersionInv, AcceptedIsStored
        <3> QED
            BY <3>1, <3>2
    <2> QED
        BY <2>1, <2>2 DEF PollAnswered
<1>5. UNCHANGED <<kind, disk, history, mine, saw, overtaken, used>>
    BY DEF PollAnswered
<1> QED
    BY <1>1, <1>2, <1>3, <1>4, <1>5, HeardStep

\* The object is at rest with what the server has.
LEMMA ResetStep ==
    ASSUME IInv, Types', SameUpdates,
           mem'.status = "NoLocalChanges",
           mem'.content = history[mem'.rev],
           Save(Upsert(mem')),
           overtaken' = (overtaken \/ Outstanding > 0),
           UNCHANGED <<kind, disk, history, mine, saw, forgotten, used>>,
           AcceptedIsStored'
    PROVE  IInv'
<1> USE DEF IInv
<1>1. /\ overtaken \in BOOLEAN /\ forgotten \in BOOLEAN /\ mem' \in Memory
      /\ overtaken' \in BOOLEAN /\ Outstanding \in Nat
    BY Basics, NoneOut DEF Types, P, F, Parts, MemoryOK, FlagsOK
<1>2. QueueInv'
    BY <1>1, QueueReset
<1>3. /\ Upsert(mem') \in Event /\ Upsert(mem').op = "upsert"
      /\ Upsert(mem').row.content = mem'.content /\ Upsert(mem').row.rev = mem'.rev
    BY <1>1, EventTypes
<1>4. MemoryAtRest' /\ AtRest(Upsert(mem').row)
    BY <1>3 DEF MemoryAtRest, AtRest
<1>5. ~Pending(mem')
    BY DEF Pending
<1>6. DatabaseInv'
    BY <1>1, <1>3, <1>4, <1>5, DatabaseSaved DEF Pending
<1>7. mem'.rev \in DOMAIN history
    <2>1. mem'.rev \in Revisions /\ mem'.rev <= Len(history) /\ Len(history) \in Nat
        BY Basics DEF Types, P, Parts, MemoryOK, Memory
    <2> QED
        BY <2>1, Basics
<1>8. /\ RowFromBefore(disk') /\ \A u \in Update : Out(u)' => FromBefore(u)
      /\ \A e \in Event : InChannel(e)' => FromMemory(e.row) \/ RowFromBefore(e.row)
    BY <1>3, SaveView, OldUpdatesAndRows DEF SameUpdates, FromMemory
<1>9. ~overtaken' => \A u \in Update : ~Out(u)'
    <2>1. ~overtaken' => Outstanding = 0
        <3>1. ~overtaken' => ~(Outstanding > 0)
            BY Zenon
        <3> QED
            BY <1>1, <3>1
    <2>2. Outstanding = 0 => \A u : ~Out(u)
        BY NoneOut
    <2> QED
        BY <2>1, <2>2 DEF SameUpdates
<1>10. VersionInv'
    BY <1>1, <1>7, <1>8, <1>9, VersionSteady
<1> QED
    BY <1>2, <1>6, <1>10

LEMMA ReplaceView ==
    ASSUME NEW o, o \in Memory, o.conflict # 0 \/ o.content = history[o.rev],
           o.conflict # 0 => history[o.conflict] \in Contents
    PROVE  LET p == ReplaceWithConflict(o) IN
           p.status = "NoLocalChanges" /\ p.content = history[p.rev]
<1> DEFINE rested == [o EXCEPT !.status = "NoLocalChanges", !.count = 0, !.conflict = 0]
<1>1. /\ rested \in Memory /\ rested.status = "NoLocalChanges"
      /\ rested.rev = o.rev /\ rested.content = o.content
    BY DEF Memory, Statuses
<1>2. ReplaceWithConflict(o) =
          IF o.conflict = 0 THEN rested
          ELSE [rested EXCEPT !.rev = o.conflict, !.content = history[o.conflict]]
    BY DEF ReplaceWithConflict
<1> HIDE DEF rested
<1> QED
    BY <1>1, <1>2 DEF Memory

LEMMA FetchAnsweredKeeps ==
    ASSUME IInv, Types', NEW r \in 1..Rev, FetchAnswered(r)
    PROVE  IInv'
<1> DEFINE o == UpdateFromServer(mem, r)
<1>1. /\ r \in 1..Len(history) /\ mem \in Memory
      /\ DOMAIN history = 1..Len(history) /\ \A i \in DOMAIN history : history[i] \in Contents
    BY Basics DEF Rev, IInv
<1>2. o \in Memory
    <2>1. r \in Revisions /\ r <= Len(history)
        BY <1>1, Basics DEF IInv
    <2> QED
        BY <2>1, UpdateTypes DEF IInv, Types, P, Parts, MemoryOK
<1>3. /\ o.conflict # 0 \/ o.content = history[o.rev]
      /\ o.conflict # 0 => history[o.conflict] \in Contents
    BY <1>1, UpdateFromServerView DEF IInv
<1>4. mem' = ReplaceWithConflict(o)
    BY DEF FetchAnswered, Reset
<1>5. mem'.status = "NoLocalChanges" /\ mem'.content = history[mem'.rev]
    <2> HIDE DEF o
    <2> QED
        BY <1>2, <1>3, <1>4, ReplaceView
<1>6. SameUpdates
    BY SameQueue DEF FetchAnswered, Busy, IInv
<1>7. AcceptedIsStored'
    BY DEF FetchAnswered, IInv, VersionInv, AcceptedIsStored
<1> QED
    BY <1>5, <1>6, <1>7, ResetStep DEF FetchAnswered, Reset

LEMMA ResolveConflictKeeps ==
    ASSUME IInv, Types', ResolveConflict
    PROVE  IInv'
<1>1. /\ mem \in Memory /\ mem.conflict <= Len(history) /\ mem.conflict # 0
      /\ DOMAIN history = 1..Len(history) /\ \A i \in DOMAIN history : history[i] \in Contents
      /\ Len(history) \in Nat
    BY Basics DEF IInv, ResolveConflict
<1>2. history[mem.conflict] \in Contents
    BY <1>1 DEF Memory
<1>3. mem' = ReplaceWithConflict(mem)
    BY DEF ResolveConflict, Reset
<1>4. mem'.status = "NoLocalChanges" /\ mem'.content = history[mem'.rev]
    BY <1>1, <1>2, <1>3, ReplaceView
<1>5. SameUpdates
    BY SameQueue DEF ResolveConflict, Busy, IInv
<1>6. AcceptedIsStored'
    BY DEF ResolveConflict, IInv, VersionInv, AcceptedIsStored
<1> QED
    BY <1>4, <1>5, <1>6, ResetStep DEF ResolveConflict, Reset

-----------------------------------------------------------------------------
(* The writer and the user. *)

LEMMA WriteKeeps ==
    ASSUME IInv, Types', Write
    PROVE  IInv'
<1> USE DEF IInv
<1>1. UNCHANGED <<kind, mem, queue, net, history, mine, saw, overtaken, forgotten, used>>
    BY DEF Write
<1>2. SameUpdates
    BY <1>1, SameQueue DEF Busy
<1>3. overtaken \in BOOLEAN /\ forgotten \in BOOLEAN
    BY Basics
<1>4. QueueInv'
    BY <1>1, <1>2, <1>3, QueueKept
<1>5. /\ LastRow'.content = LastRow.content
      /\ channel[Len(channel)].op = "upsert" => LastRow' = LastRow
      /\ channel' # <<>> => channel'[Len(channel')] = channel[Len(channel)]
      /\ channel # <<>>
      /\ \A d : InChannel(d)' => InChannel(d)
      /\ SyncedInPlace'
    BY WriteView DEF DatabaseInv
<1>6. PICK e \in Event : /\ InChannel(e) /\ disk'.content = e.row.content
                         /\ disk'.rev = e.row.rev
                         /\ ~disk'.pending => e.op = "synced" \/ ~e.row.pending
    BY WriteView DEF DatabaseInv
<1>7. DatabaseFollows' /\ PendingIsSaved' /\ MemoryAtRest'
    BY <1>1, <1>5
    DEF DatabaseInv, DatabaseFollows, PendingIsSaved, MemoryAtRest, AtRest, Pending
<1>8. RowsAtRest'
    BY <1>1, <1>5, <1>6 DEF DatabaseInv, RowsAtRest, AtRest
<1>9. VersionInv'
    <2>1. RowFromBefore(disk')
        BY <1>6 DEF RowFromBefore
    <2>2. /\ \A u \in Update : Out(u)' => FromBefore(u)
          /\ \A d \in Event : InChannel(d)' => RowFromBefore(d.row)
        BY <1>2, <1>5, OldUpdatesAndRows DEF SameUpdates
    <2>3. ~overtaken' => saw[mem'.content] = saw[history[mem'.rev]]
        BY <1>1 DEF VersionInv, AllVouch, Vouches
    <2>4. AcceptedIsStored'
        BY <1>1 DEF VersionInv, AcceptedIsStored
    <2> QED
        BY <1>1, <2>1, <2>2, <2>3, <2>4, VersionSteady
<1> QED
    BY <1>4, <1>5, <1>7, <1>8, <1>9 DEF DatabaseInv

LEMMA UpdateObjectKeeps ==
    ASSUME IInv, Types', UpdateObject
    PROVE  IInv'
<1> USE DEF IInv
<1>1. /\ mem \in Memory /\ overtaken \in BOOLEAN /\ forgotten \in BOOLEAN
      /\ saw \in [Contents -> Contents] /\ mem' \in Memory
      /\ history \in Seq(Contents) /\ DOMAIN history = 1..Len(history)
    BY Basics DEF Types, P, Parts, MemoryOK
<1>2. NextContent' = NextContent + 1 /\ NextContent \in Nat /\ NextContent \in Contents
    <2>1. used'.edits = used.edits + 1 /\ used'.others = used.others
        BY DEF UpdateObject, Spend, Types, U, UserOK
    <2>2. NextContent \in Contents
        BY NextContentType DEF Types, UpdateObject
    <2>3. used.edits \in Nat /\ used.others \in Nat
        BY Basics
    <2> QED
        BY <2>1, <2>2, <2>3 DEF NextContent
<1>3. /\ mem'.rev = mem.rev /\ mem'.content = NextContent /\ mem'.status = "InFlight"
      /\ mem'.count = IF mem.status = "InFlight" THEN mem.count + 1 ELSE 1
    BY <1>1, <1>2, IncrementTypes DEF UpdateObject
<1>4. /\ UpdateOf(mem') \in Update /\ Enqueue(UpdateOf(mem'))
      /\ UpdateOf(mem').content = mem'.content /\ UpdateOf(mem').rev = mem'.rev
    BY <1>1 DEF UpdateObject, UpdateOf, Update, Memory
<1>5. /\ Outstanding' = Outstanding + 1 /\ Outstanding \in Nat
      /\ Last' = UpdateOf(mem')
      /\ \A u : Out(u)' <=> (Out(u) \/ u = UpdateOf(mem'))
      /\ net'.reply \in {"idle", "none"} \/ net' = net
    BY <1>4, EnqueueView
<1>6. UNCHANGED <<kind, disk, history, overtaken, forgotten>>
    BY DEF UpdateObject
<1>7. QueueInv'
    <2>1. mem.count \in Nat
        BY <1>1 DEF Memory
    <2>2. Counted'
        BY <1>3, <1>5, <1>6, <2>1 DEF QueueInv, Counted
    <2>3. LastIsShown'
        BY <1>4, <1>5 DEF LastIsShown
    <2>4. mine' = NextContent /\ Outstanding' > 0
        BY <1>5 DEF UpdateObject
    <2>5. MineIsShown'
        BY <1>3, <2>4 DEF MineIsShown
    <2> QED
        BY <2>2, <2>3, <2>5 DEF QueueInv
<1>8. /\ Upsert(mem') \in Event /\ Upsert(mem').op = "upsert"
      /\ Upsert(mem').row.content = mem'.content /\ Upsert(mem').row.rev = mem'.rev
      /\ Upsert(mem').row.pending
    BY <1>1, <1>3, EventTypes DEF Pending
<1>9. MemoryAtRest' /\ Save(Upsert(mem'))
    BY <1>3 DEF MemoryAtRest, UpdateObject
<1>10. DatabaseInv'
    <2> HIDE DEF IInv
    <2>1. Types /\ DatabaseInv
        BY DEF IInv
    <2> QED
        BY <1>1, <1>6, <1>8, <1>9, <2>1, DatabaseSaved
<1>11. VersionInv'
    <2>1. saw' = [saw EXCEPT ![NextContent] = saw[mem.content]]
        BY DEF UpdateObject
    <2>2. \A c \in Contents : NotNew(c) => saw'[c] = saw[c]
        <3>1. \A c \in Contents : NotNew(c) => c # NextContent
            BY <1>2, BoundsAssumption DEF NotNew, Contents
        <3> QED
            BY <1>1, <2>1, <3>1
    <2>3. saw'[mem'.content] = saw[mem.content]
        BY <1>1, <1>2, <1>3, <2>1
    <2>4. ~overtaken' => saw'[mem'.content] = saw'[history'[mem'.rev]]
        <3>1. mem.rev \in DOMAIN history
            BY <1>1, RowsExist
        <3>2. NotNew(history[mem.rev]) /\ history[mem.rev] \in Contents
            BY <1>1, <3>1 DEF VersionInv, NoneIsNew
        <3>3. ~overtaken => saw[mem.content] = saw[history[mem.rev]]
            BY DEF VersionInv, AllVouch, Vouches
        <3> QED
            BY <1>3, <1>6, <2>2, <2>3, <3>2, <3>3
    <2>5. \A u \in Update : Out(u)' => FromMemory(u) \/ FromBefore(u)
        BY <1>4, <1>5, OldUpdatesAndRows DEF FromMemory
    <2>6. \A e \in Event : InChannel(e)' => FromMemory(e.row) \/ RowFromBefore(e.row)
        BY <1>6, <1>8, <1>9, SaveView, OldUpdatesAndRows DEF FromMemory
    <2>7. RowFromBefore(disk')
        BY <1>6, OldUpdatesAndRows
    <2>8. mem'.content < NextContent' /\ NextContent' >= NextContent
        BY <1>2, <1>3
    <2>9. \A r \in DOMAIN history' : history'[r] < NextContent'
        <3>1. \A r \in DOMAIN history : history[r] \in Contents /\ history[r] < NextContent
            BY <1>1 DEF VersionInv, NoneIsNew, NotNew
        <3> QED
            BY <1>2, <1>6, <3>1, BoundsAssumption DEF Contents
    <2>10. AcceptedIsStored'
        BY <1>5, <1>6 DEF VersionInv, AcceptedIsStored
    <2>11. Grows
        BY <1>6 DEF Grows
    <2> QED
        BY <1>6, <2>2, <2>3, <2>4, <2>5, <2>6, <2>7, <2>8, <2>9, <2>10, <2>11, VersionKept
<1> QED
    BY <1>7, <1>10, <1>11

LEMMA ResyncObjectKeeps ==
    ASSUME IInv, Types', ResyncObject
    PROVE  IInv'
<1> USE DEF IInv
<1>1. mem \in Memory /\ overtaken \in BOOLEAN /\ forgotten \in BOOLEAN
    BY Basics
<1>2. /\ mem'.rev = mem.rev /\ mem'.content = mem.content /\ mem'.status = "InFlight"
      /\ mem'.count = 1
    BY <1>1 DEF ResyncObject, Memory
<1>3. /\ UpdateOf(mem) \in Update /\ Enqueue(UpdateOf(mem))
      /\ UpdateOf(mem).content = mem.content /\ UpdateOf(mem).rev = mem.rev
    BY <1>1 DEF ResyncObject, UpdateOf, Update, Memory
<1>4. /\ Outstanding' = Outstanding + 1 /\ Outstanding \in Nat
      /\ Last' = UpdateOf(mem)
      /\ \A u : Out(u)' <=> (Out(u) \/ u = UpdateOf(mem))
      /\ net'.reply \in {"idle", "none"} \/ net' = net
    BY <1>3, EnqueueView
<1>5. UNCHANGED <<kind, disk, channel, history, saw, overtaken, forgotten, used>>
    BY DEF ResyncObject
<1>6. ~overtaken => Outstanding = 0
    BY <1>4 DEF ResyncObject, QueueInv, Counted
<1>7. QueueInv'
    <2>1. Counted'
        BY <1>2, <1>4, <1>5, <1>6 DEF Counted
    <2>2. LastIsShown'
        BY <1>2, <1>3, <1>4 DEF LastIsShown
    <2>3. MineIsShown'
        BY <1>2, <1>4 DEF MineIsShown, ResyncObject
    <2> QED
        BY <2>1, <2>2, <2>3 DEF QueueInv
<1>8. MemoryAtRest' /\ Grows
    BY <1>2, <1>5 DEF MemoryAtRest, Grows
<1>9. DatabaseInv'
    <2>1. Pending(mem)
        BY DEF ResyncObject, Pending
    <2> QED
        BY <1>1, <1>2, <1>5, <1>8, <2>1, DatabaseKept
<1>10. VersionInv'
    <2>1. \A u \in Update : Out(u)' => FromMemory(u) \/ FromBefore(u)
        BY <1>2, <1>3, <1>4, OldUpdatesAndRows DEF FromMemory
    <2>2. /\ \A e \in Event : InChannel(e)' => FromMemory(e.row) \/ RowFromBefore(e.row)
          /\ RowFromBefore(disk')
        BY <1>5, OldUpdatesAndRows DEF InChannel
    <2>3. ~overtaken' => saw[mem'.content] = saw[history[mem'.rev]]
        BY <1>2, <1>5 DEF VersionInv, AllVouch, Vouches
    <2>4. AcceptedIsStored'
        BY <1>4, <1>5 DEF VersionInv, AcceptedIsStored
    <2> QED
        BY <1>2, <1>5, <2>1, <2>2, <2>3, <2>4, VersionSteady
<1> QED
    BY <1>7, <1>9, <1>10

-----------------------------------------------------------------------------
(* The answers to an update. *)

LEMMA DecrementView ==
    ASSUME NEW o \in Memory, NEW n \in Nat, NEW none \in Statuses
    PROVE  LET p == DecrementBy(o, n, none) IN
           /\ o.status # "InFlight" => p = o
           /\ o.status = "InFlight" /\ o.count > n => p.status = "InFlight" /\ p.count = o.count - n
           /\ o.status = "InFlight" /\ o.count <= n => p.status = none /\ p.count = 0
<1>1. o.count \in Nat
    BY DEF Memory
<1>2. CASE o.status # "InFlight"
    BY <1>2 DEF DecrementBy
<1>3. CASE o.status = "InFlight" /\ o.count > n
    <2>1. DecrementBy(o, n, none) = [o EXCEPT !.count = @ - n]
        BY <1>3 DEF DecrementBy
    <2> QED
        BY <1>1, <1>3, <2>1 DEF Memory
<1>4. CASE o.status = "InFlight" /\ ~(o.count > n)
    <2>1. DecrementBy(o, n, none) = [o EXCEPT !.status = none, !.count = 0]
        BY <1>4 DEF DecrementBy
    <2>2. ~(o.count > n)
        BY <1>4
    <2> QED
        BY <1>4, <2>1, <2>2 DEF Memory
<1> QED
    BY <1>1, <1>2, <1>3, <1>4

\* What a sent update and its answer are.
LEMMA BusyView ==
    ASSUME IInv, Busy
    PROVE  /\ Outstanding = Len(queue) + 1 /\ Len(queue) \in Nat
           /\ queue = <<>> => Last = net.item
           /\ queue # <<>> => Len(queue) > 0 /\ Last = queue[Len(queue)]
           /\ net.item \in Update /\ Out(net.item)
           /\ ~overtaken =>
                 /\ mem.status = "InFlight" /\ mem.count >= Outstanding
                 /\ kind # "ignore" => mem.count = Outstanding
                 /\ Last.content = mem.content
<1> USE DEF IInv
<1>1. queue \in Seq(Update) /\ Len(queue) \in Nat /\ net \in Request
    BY Basics
<1>2. Outstanding = Len(queue) + 1
    BY DEF Outstanding
<1>3. Outstanding > 0
    BY <1>1, <1>2
<1>4. ~overtaken =>
         /\ mem.status = "InFlight" /\ mem.count >= Outstanding
         /\ kind # "ignore" => mem.count = Outstanding
         /\ Last.content = mem.content
    BY <1>3 DEF QueueInv, Counted, LastIsShown
<1>5. net.item \in Update
    BY <1>1 DEF Request
<1> QED
    BY <1>1, <1>2, <1>4, <1>5 DEF Last, Out

LEMMA UpdateSuccessfulKeeps ==
    ASSUME IInv, Types', UpdateSuccessful
    PROVE  IInv'
<1> USE DEF IInv
<1> DEFINE at == net.at
           current == [mem EXCEPT !.rev = at, !.conflict = IF @ <= at THEN NoRevision ELSE @]
           items == UpdatesWithRevision(at)
<1>1. /\ Busy /\ at \in Nat \ {0} /\ at <= Len(history) /\ mem \in Memory /\ mem' \in Memory
      /\ queue \in Seq(Update) /\ DOMAIN queue = 1..Len(queue) /\ history \in Seq(Contents)
      /\ DOMAIN history = 1..Len(history)
      /\ overtaken \in BOOLEAN /\ forgotten \in BOOLEAN
    BY Basics DEF UpdateSuccessful, Busy, Request, Types, P, Parts, MemoryOK
<1>2. /\ current \in Memory /\ current.content = mem.content /\ current.rev = at
      /\ current.status = mem.status /\ current.count = mem.count
    BY <1>1 DEF Memory
<1>3. mem' = DecrementBy(current, 1, "NoLocalChanges")
    BY DEF UpdateSuccessful
<1> HIDE DEF current
<1>4. /\ mem'.content = mem.content /\ mem'.rev = at
      /\ mem.status # "InFlight" => mem'.status = mem.status
      /\ mem.status = "InFlight" /\ mem.count > 1 =>
             mem'.status = "InFlight" /\ mem'.count = mem.count - 1
      /\ mem.status = "InFlight" /\ mem.count <= 1 => mem'.status = "NoLocalChanges"
    <2>1. "NoLocalChanges" \in Statuses /\ 1 \in Nat
        BY DEF Statuses
    <2>2. mem'.content = current.content /\ mem'.rev = current.rev
        BY <1>2, <1>3, <2>1, DecrementTypes
    <2>3. /\ current.status # "InFlight" => mem' = current
          /\ current.status = "InFlight" /\ current.count > 1 =>
                 mem'.status = "InFlight" /\ mem'.count = current.count - 1
          /\ current.status = "InFlight" /\ current.count <= 1 => mem'.status = "NoLocalChanges"
        BY <1>2, <1>3, <2>1, DecrementView
    <2> QED
        BY <1>2, <2>2, <2>3
<1>5. /\ items \in Seq(Update) /\ Len(items) = Len(queue)
      /\ \A i \in DOMAIN queue : items[i].content = queue[i].content /\ items[i].rev = at
      /\ DOMAIN items = DOMAIN queue
    <2>1. ASSUME NEW i \in DOMAIN queue
          PROVE  /\ [queue[i] EXCEPT !.rev = at] \in Update
                 /\ [queue[i] EXCEPT !.rev = at].content = queue[i].content
                 /\ [queue[i] EXCEPT !.rev = at].rev = at
        <3>1. queue[i] \in Update
            BY <1>1
        <3> QED
            BY <1>1, <3>1 DEF Update
    <2>2. items = [i \in 1..Len(queue) |-> [queue[i] EXCEPT !.rev = at]]
        BY <1>1 DEF UpdatesWithRevision
    <2>3. Len(queue) \in Nat
        BY <1>1
    <2> HIDE DEF items
    <2>4. \A i \in 1..Len(queue) : items[i] \in Update /\ items[i].content = queue[i].content
                                   /\ items[i].rev = at
        <3> DEFINE moved(i) == [queue[i] EXCEPT !.rev = at]
        <3>1. items = [i \in 1..Len(queue) |-> moved(i)]
            BY <2>2
        <3>2. \A i \in 1..Len(queue) : moved(i) \in Update /\ moved(i).content = queue[i].content
                                       /\ moved(i).rev = at
            BY <1>1, <2>1
        <3> HIDE DEF moved
        <3> QED
            BY <3>1, <3>2
    <2>5. DOMAIN items = 1..Len(queue) /\ items = [i \in 1..Len(queue) |-> items[i]]
        BY <2>2
    <2>6. items \in Seq(Update) /\ Len(items) = Len(queue)
        BY <2>3, <2>4, <2>5
    <2> QED
        BY <1>1, <2>4, <2>5, <2>6
<1>6. UpdatesAre(items) /\ net'.reply \in {"idle", "none"}
    <2>1. Dequeue(items, loaded)
        BY DEF UpdateSuccessful
    <2> HIDE DEF items
    <2> QED
        BY <1>5, <2>1, DequeueView
<1> HIDE DEF items
<1>7. /\ Outstanding = Len(queue) + 1 /\ Len(queue) \in Nat /\ Outstanding' = Len(queue)
      /\ queue = <<>> => Last = net.item
      /\ queue # <<>> => Len(queue) > 0 /\ Last = queue[Len(queue)]
      /\ net.item \in Update /\ Out(net.item)
      /\ ~overtaken =>
            /\ mem.status = "InFlight" /\ mem.count >= Outstanding
            /\ kind # "ignore" => mem.count = Outstanding
            /\ Last.content = mem.content
    BY <1>1, <1>5, <1>6, BusyView DEF UpdatesAre
<1>8. UNCHANGED <<kind, disk, history, saw, overtaken, forgotten, used>>
    BY DEF UpdateSuccessful
<1>9. mem.count \in Nat
    BY <1>1 DEF Memory
<1>10. Len(queue) = 0 => queue = <<>>
    BY <1>1
<1>11. QueueInv'
    <2>1. Counted'
        BY <1>4, <1>7, <1>8, <1>9 DEF Counted
    <2>2. LastIsShown'
        <3>1. Len(queue) > 0 => Last'.content = Last.content
            <4>1. ASSUME Len(queue) > 0
                  PROVE  Last' = items[Len(queue)] /\ Len(queue) \in DOMAIN queue /\ queue # <<>>
                BY <1>1, <1>5, <1>6, <1>7, <4>1 DEF UpdatesAre
            <4> QED
                BY <1>5, <1>7, <4>1
        <3> QED
            BY <1>4, <1>7, <1>8, <3>1 DEF LastIsShown
    <2>3. MineIsShown'
        <3>1. mine' = Waiting(net.item.content)
            BY DEF UpdateSuccessful
        <3>2. ASSUME kind # "ignore", ~overtaken, mine' # 0
              PROVE  Len(queue) > 0 /\ mem.content = mine'
            <4>1. mine' = mine /\ net.item.content # mine
                BY <3>1, <3>2 DEF Waiting
            <4>2. mem.content = mine
                BY <3>2, <4>1 DEF QueueInv, MineIsShown
            <4>3. queue # <<>>
                BY <1>7, <3>2, <4>1, <4>2
            <4> QED
                BY <1>7, <4>1, <4>2, <4>3
        <3> QED
            BY <1>4, <1>7, <1>8, <3>2 DEF MineIsShown
    <2> QED
        BY <2>1, <2>2, <2>3 DEF QueueInv
<1>12. ~overtaken /\ mem'.status # "InFlight" =>
          mem'.status = "NoLocalChanges" /\ mem.content = history[at]
    <2>1. ASSUME ~overtaken, mem'.status # "InFlight"
          PROVE  mem'.status = "NoLocalChanges" /\ queue = <<>>
        BY <1>4, <1>7, <1>9, <1>10, <2>1
    <2>2. history[at] = net.item.content
        BY DEF UpdateSuccessful, VersionInv, AcceptedIsStored
    <2> QED
        BY <1>7, <2>1, <2>2
<1>13. MemoryAtRest'
    BY <1>4, <1>8, <1>12 DEF MemoryAtRest, AtRest
<1>14. /\ Synced(mem') \in Event /\ Synced(mem').op = "synced"
       /\ Synced(mem').row.content = mem'.content /\ Synced(mem').row.rev = mem'.rev
    BY <1>1, EventTypes
<1>15. DatabaseInv' /\ \A e \in Event : InChannel(e)' => FromMemory(e.row) \/ RowFromBefore(e.row)
    <2>1. ASSUME NoLongerInFlight(mem'), Save(Synced(mem'))
          PROVE  <1>15!:
        <3>1. ~overtaken' => ~Pending(mem') /\ AtRest(Synced(mem').row)
            BY <1>4, <1>8, <1>12, <1>14, <2>1 DEF NoLongerInFlight, Pending, AtRest
        <3>2. DatabaseInv'
            <4> HIDE DEF IInv
            <4>1. Types /\ DatabaseInv
                BY DEF IInv
            <4> QED
                BY <1>1, <1>4, <1>8, <1>13, <1>14, <2>1, <3>1, <4>1, DatabaseSaved
        <3>3. \A e \in Event : InChannel(e)' => FromMemory(e.row) \/ RowFromBefore(e.row)
            BY <1>8, <1>14, <2>1, SaveView, OldUpdatesAndRows DEF FromMemory
        <3> QED
            BY <3>2, <3>3
    <2>2. ASSUME ~NoLongerInFlight(mem'), channel' = channel
          PROVE  <1>15!:
        <3>1. Pending(mem) /\ Grows
            BY <1>4, <1>8, <2>2 DEF NoLongerInFlight, Pending, Grows
        <3>2. DatabaseInv'
            BY <1>1, <1>4, <1>8, <1>13, <2>2, <3>1, DatabaseKept
        <3>3. \A e \in Event : InChannel(e)' => RowFromBefore(e.row)
            BY <2>2, OldUpdatesAndRows DEF InChannel
        <3> QED
            BY <3>2, <3>3
    <2>3. \/ NoLongerInFlight(mem') /\ Save(Synced(mem'))
          \/ ~NoLongerInFlight(mem') /\ channel' = channel
        BY DEF UpdateSuccessful, SaveIf
    <2> QED
        BY <2>1, <2>2, <2>3
<1>16. VersionInv'
    <2>1. ASSUME NEW u \in Update, Out(u)' PROVE FromBefore(u)
        <3>1. PICK i \in DOMAIN queue : u = items[i]
            BY <1>5, <1>6, <2>1 DEF UpdatesAre
        <3>2. queue[i] \in Update /\ Out(queue[i])
            BY <1>1 DEF Out
        <3> QED
            BY <1>4, <1>5, <3>1, <3>2 DEF FromBefore
    <2>2. RowFromBefore(disk')
        BY <1>8, OldUpdatesAndRows
    <2>3. ~overtaken' => saw[mem'.content] = saw[history[mem'.rev]]
        <3>1. history[at] = net.item.content
            BY DEF UpdateSuccessful, VersionInv, AcceptedIsStored
        <3>2. ~overtaken => saw[net.item.content] = saw[mem.content]
            BY <1>7 DEF VersionInv, AllVouch
        <3> QED
            BY <1>4, <1>8, <3>1, <3>2
    <2>4. AcceptedIsStored'
        BY <1>6 DEF AcceptedIsStored
    <2> QED
        BY <1>4, <1>8, <1>15, <2>1, <2>2, <2>3, <2>4, VersionSteady
<1> QED
    BY <1>11, <1>15, <1>16

LEMMA UpdateRejectedKeeps ==
    ASSUME IInv, Types', UpdateRejected
    PROVE  IInv'
<1> USE DEF IInv
<1> DEFINE at == net.at
<1>1. /\ Busy /\ at \in Nat \ {0} /\ at <= Len(history) /\ mem \in Memory /\ mem' \in Memory
      /\ queue \in Seq(Update) /\ Len(queue) \in Nat /\ history \in Seq(Contents)
      /\ DOMAIN history = 1..Len(history) /\ Len(history) \in Nat
      /\ overtaken \in BOOLEAN /\ forgotten \in BOOLEAN /\ overtaken' \in BOOLEAN
    BY Basics DEF UpdateRejected, Busy, Request, Types, P, F, Parts, MemoryOK, FlagsOK
<1>2. UNCHANGED <<kind, disk, history, saw, forgotten, used>>
    BY DEF UpdateRejected
<1>3. /\ overtaken => overtaken'
      /\ ~overtaken' => ~overtaken /\ queue = <<>>
    BY DEF UpdateRejected
<1>4. UpdatesAre(queue) /\ net'.reply \in {"idle", "none"}
    BY <1>1, DequeueView DEF UpdateRejected
<1>5. /\ Outstanding = Len(queue) + 1
      /\ queue = <<>> => Last = net.item
      /\ ~overtaken =>
            /\ mem.status = "InFlight" /\ mem.count >= Outstanding
            /\ kind # "ignore" => mem.count = Outstanding
            /\ Last.content = mem.content
    BY <1>1, BusyView
<1>6. ~overtaken' =>
         /\ Outstanding' = 0 /\ \A u : ~Out(u)'
         /\ mem.status = "InFlight" /\ net.item.content = mem.content
         /\ kind # "ignore" => mem.count = 1
    BY <1>1, <1>3, <1>4, <1>5 DEF UpdatesAre
<1>7. \A u \in Update : Out(u)' => FromBefore(u)
    BY <1>4, OldUpdatesAndRows DEF UpdatesAre, Out
<1>8. RowFromBefore(disk') /\ AcceptedIsStored'
    BY <1>2, <1>4, OldUpdatesAndRows DEF AcceptedIsStored
<1>9. ASSUME ~overtaken', kind # "ignore", mine' = Waiting(net.item.content) PROVE mine' = 0
    BY <1>3, <1>6, <1>9 DEF QueueInv, MineIsShown, Waiting
<1>10. ASSUME ~overtaken' /\ kind # "ignore" => mem'.status # "InFlight" /\ mine' = 0
       PROVE  QueueInv'
    <2>1. Counted'
        BY <1>2, <1>6, <1>10 DEF Counted
    <2>2. LastIsShown'
        BY <1>6 DEF LastIsShown
    <2>3. MineIsShown'
        BY <1>2, <1>10 DEF MineIsShown
    <2> QED
        BY <2>1, <2>2, <2>3 DEF QueueInv
<1>11. ASSUME mem'.content = mem.content, mem'.rev = mem.rev, channel' = channel,
              MemoryAtRest', ~overtaken' /\ Pending(mem') => Pending(mem)
       PROVE  DatabaseInv' /\ VersionInv'
    <2>1. Grows
        BY <1>2 DEF Grows
    <2>2. DatabaseInv'
        <3> HIDE DEF IInv
        <3>1. Types /\ DatabaseInv
            BY DEF IInv
        <3> QED
            BY <1>1, <1>2, <1>3, <1>11, <2>1, <3>1, DatabaseKept
    <2>3. \A e \in Event : InChannel(e)' => RowFromBefore(e.row)
        BY <1>11, OldUpdatesAndRows DEF InChannel
    <2>4. ~overtaken' => saw[mem'.content] = saw[history[mem'.rev]]
        BY <1>3, <1>11 DEF VersionInv, AllVouch, Vouches
    <2>5. VersionInv'
        BY <1>2, <1>3, <1>7, <1>8, <1>11, <2>3, <2>4, VersionSteady
    <2> QED
        BY <2>2, <2>5
<1>12. CASE /\ kind = "mark"
            /\ mem' = [mem EXCEPT !.conflict = at, !.status = "InConflict", !.count = 0]
            /\ channel' = channel /\ mine' = Waiting(net.item.content)
    <2>1. mem'.content = mem.content /\ mem'.rev = mem.rev /\ mem'.status = "InConflict"
        BY <1>1, <1>12 DEF Memory
    <2>2. QueueInv'
        BY <1>9, <1>10, <1>12, <2>1
    <2>3. MemoryAtRest' /\ ~Pending(mem')
        BY <2>1 DEF MemoryAtRest, Pending
    <2> QED
        BY <1>11, <1>12, <2>1, <2>2, <2>3
<1>13. CASE /\ kind = "overwrite"
            /\ mem' = DecrementBy([mem EXCEPT !.rev = at, !.content = history[at]], 1,
                                  "NoLocalChanges")
            /\ Save(Upsert(mem')) /\ mine' = Waiting(net.item.content)
    <2> DEFINE overwritten == [mem EXCEPT !.rev = at, !.content = history[at]]
    <2>1. /\ overwritten \in Memory /\ overwritten.rev = at /\ overwritten.content = history[at]
          /\ overwritten.status = mem.status /\ overwritten.count = mem.count
        <3>1. history[at] \in Contents /\ at \in Revisions
            BY <1>1
        <3> QED
            BY <1>1, <3>1 DEF Memory
    <2>2. "NoLocalChanges" \in Statuses /\ mem' = DecrementBy(overwritten, 1, "NoLocalChanges")
        BY <1>13 DEF Statuses
    <2> HIDE DEF overwritten
    <2>3. mem'.content = history[at] /\ mem'.rev = at
        BY <2>1, <2>2, DecrementTypes
    <2>4. mem.status = "InFlight" /\ mem.count = 1 => mem'.status = "NoLocalChanges"
        BY <2>1, <2>2, DecrementView
    <2>5. ~overtaken' => mem'.status = "NoLocalChanges"
        BY <1>6, <1>13, <2>4
    <2>6. QueueInv'
        BY <1>9, <1>10, <1>13, <2>5
    <2>7. /\ Upsert(mem') \in Event /\ Upsert(mem').op = "upsert"
          /\ Upsert(mem').row.content = mem'.content /\ Upsert(mem').row.rev = mem'.rev
        BY <1>1, EventTypes
    <2>8. MemoryAtRest' /\ AtRest(Upsert(mem').row)
        BY <1>2, <2>3, <2>7 DEF MemoryAtRest, AtRest
    <2>9. ~overtaken' => ~Pending(mem')
        BY <2>5 DEF Pending
    <2>10. DatabaseInv'
        <3> HIDE DEF IInv
        <3>1. Types /\ DatabaseInv
            BY DEF IInv
        <3> QED
            BY <1>1, <1>2, <1>3, <1>13, <2>7, <2>8, <2>9, <3>1, DatabaseSaved
    <2>11. \A e \in Event : InChannel(e)' => FromMemory(e.row) \/ RowFromBefore(e.row)
        BY <1>2, <1>13, <2>7, SaveView, OldUpdatesAndRows DEF FromMemory
    <2>12. mem'.rev \in DOMAIN history /\ mem'.content = history[mem'.rev]
        BY <1>1, <2>3
    <2>13. VersionInv'
        BY <1>2, <1>3, <1>6, <1>7, <1>8, <2>11, <2>12, VersionSteady
    <2> QED
        BY <2>6, <2>10, <2>13
<1>14. CASE kind = "ignore" /\ UNCHANGED <<mem, channel, mine>>
    <2>1. QueueInv'
        BY <1>10, <1>14
    <2>2. MemoryAtRest'
        BY <1>2, <1>3, <1>14 DEF DatabaseInv, MemoryAtRest, AtRest
    <2> QED
        BY <1>11, <1>14, <2>1, <2>2 DEF Pending
<1> QED
    BY <1>12, <1>13, <1>14 DEF UpdateRejected

LEMMA UpdateFailedKeeps ==
    ASSUME IInv, Types', UpdateFailed
    PROVE  IInv'
<1> USE DEF IInv
<1>1. UNCHANGED <<kind, disk, channel, history, saw, overtaken, forgotten, used>>
    BY DEF UpdateFailed
<1>2. CASE /\ net' = [net EXCEPT !.tries = @ + 1, !.reply = "none"]
           /\ UNCHANGED <<mem, queue, mine>>
    <2>1. net'.item = net.item /\ net'.reply = "none" /\ net.reply = "error"
        BY <1>2, Basics DEF Request, UpdateFailed
    <2>2. SameUpdates
        BY <1>2, <2>1, SameQueue DEF Busy
    <2>3. AcceptedIsStored'
        BY <2>1 DEF AcceptedIsStored
    <2> QED
        BY <1>1, <1>2, <2>2, <2>3, QuietStep
<1>3. CASE /\ mem' = DecrementBy(mem, Outstanding, "Errored")
           /\ net' = Idle /\ queue' = <<>> /\ mine' = 0
    <2>1. Outstanding \in Nat /\ mem \in Memory /\ mem.count \in Nat /\ "Errored" \in Statuses
          /\ overtaken \in BOOLEAN /\ forgotten \in BOOLEAN
        BY NoneOut, Basics DEF Memory, Statuses
    <2>2. ~Busy' /\ net'.reply = "idle"
        BY <1>3 DEF Busy, Idle
    <2>3. Outstanding' = 0 /\ \A u : ~Out(u)'
        BY <1>3, <2>2 DEF Outstanding, Out
    <2>4. /\ mem'.content = mem.content /\ mem'.rev = mem.rev
          /\ mem.status # "InFlight" => mem' = mem
          /\ mem.status = "InFlight" /\ mem.count > Outstanding => mem'.status = "InFlight"
          /\ mem.status = "InFlight" /\ mem.count <= Outstanding => mem'.status = "Errored"
        BY <1>3, <2>1, DecrementTypes, DecrementView
    <2>5. mem'.status = mem.status \/ (mem.status = "InFlight" /\ mem'.status = "Errored")
        BY <2>1, <2>4
    <2>6. Counted'
        <3>1. ~overtaken /\ kind # "ignore" /\ mem.status = "InFlight" => mem.count <= Outstanding
            BY <2>1 DEF QueueInv, Counted
        <3> QED
            BY <1>1, <2>1, <2>3, <2>4, <3>1 DEF Counted
    <2>7. QueueInv'
        BY <1>3, <2>3, <2>6 DEF QueueInv, LastIsShown, MineIsShown
    <2>8. MemoryAtRest'
        BY <1>1, <2>4, <2>5 DEF DatabaseInv, MemoryAtRest, AtRest
    <2>9. (Pending(mem') => Pending(mem)) /\ Grows
        BY <1>1, <2>5 DEF Pending, Grows
    <2>10. DatabaseInv'
        BY <1>1, <2>1, <2>4, <2>8, <2>9, DatabaseKept
    <2>11. /\ \A u \in Update : Out(u)' => FromBefore(u)
           /\ \A e \in Event : InChannel(e)' => RowFromBefore(e.row)
           /\ RowFromBefore(disk')
        BY <1>1, <2>3, OldUpdatesAndRows DEF InChannel
    <2>12. ~overtaken' => saw[mem'.content] = saw[history[mem'.rev]]
        BY <1>1, <2>4 DEF VersionInv, AllVouch, Vouches
    <2>13. AcceptedIsStored'
        BY <2>2 DEF AcceptedIsStored
    <2>14. VersionInv'
        BY <1>1, <2>4, <2>11, <2>12, <2>13, VersionSteady
    <2> QED
        BY <2>7, <2>10, <2>14
<1> QED
    BY <1>2, <1>3 DEF UpdateFailed

-----------------------------------------------------------------------------
(* The start of the app. *)

LEMMA RestartKeeps ==
    ASSUME IInv, Types', Restart
    PROVE  IInv'
<1> USE DEF IInv
<1>1. /\ UNCHANGED <<kind, disk, history, saw, overtaken, forgotten>>
      /\ channel' = <<>> /\ net' = Idle /\ queue' = Requeued(disk)
      /\ used'.edits = used.edits /\ used'.others = used.others
    <2>1. used' = [used EXCEPT !["crashes"] = @ + 1]
        BY DEF Restart, Spend
    <2>2. used \in [edits : 0..MaxEdits, others : 0..MaxOthers,
                    crashes : 0..MaxCrashes, losses : 0..MaxLosses]
        BY DEF Types, U, UserOK
    <2>3. used'.edits = used.edits /\ used'.others = used.others
        BY <2>1, <2>2
    <2> QED
        BY <2>3 DEF Restart
<1>2. /\ mem'.rev = disk.rev /\ mem'.content = disk.content
      /\ mem'.status = IF disk.pending THEN "InFlight" ELSE "NoLocalChanges"
      /\ mem'.count = IF disk.pending THEN 1 ELSE 0
    BY DEF Restart
<1>3. mine' = IF disk.pending THEN disk.content ELSE 0
    BY DEF Restart
<1>4. /\ disk \in Row /\ disk.pending \in BOOLEAN
      /\ UpdateOf(disk).content = disk.content /\ UpdateOf(disk).rev = disk.rev
    BY Basics DEF Row, UpdateOf
<1>5. ~Busy' /\ net'.reply = "idle"
    BY <1>1 DEF Busy, Idle
<1>6. /\ disk.pending => /\ Outstanding' = 1 /\ Last' = UpdateOf(disk)
                         /\ \A u : Out(u)' <=> u = UpdateOf(disk)
      /\ ~disk.pending => Outstanding' = 0 /\ \A u : ~Out(u)'
    <2>1. CASE disk.pending
        <3>1. queue' = <<UpdateOf(disk)>>
            BY <1>1, <2>1 DEF Requeued
        <3>2. Len(queue') = 1 /\ DOMAIN queue' = {1} /\ queue'[1] = UpdateOf(disk) /\ queue' # <<>>
            BY <3>1
        <3> QED
            BY <1>5, <2>1, <3>2 DEF Outstanding, Last, Out
    <2>2. CASE ~disk.pending
        <3>1. queue' = <<>>
            BY <1>1, <2>2 DEF Requeued
        <3> QED
            BY <1>5, <2>2, <3>1 DEF Outstanding, Out
    <2> QED
        BY <2>1, <2>2
<1>7. QueueInv'
    <2>1. Counted'
        BY <1>2, <1>4, <1>6 DEF Counted
    <2>2. LastIsShown'
        BY <1>2, <1>4, <1>6 DEF LastIsShown
    <2>3. MineIsShown'
        BY <1>2, <1>3, <1>6 DEF MineIsShown
    <2> QED
        BY <2>1, <2>2, <2>3 DEF QueueInv
<1>8. DatabaseInv'
    <2>1. LastRow' = disk /\ \A e : ~InChannel(e)'
        BY <1>1 DEF LastRow, InChannel
    <2>2. DatabaseFollows' /\ SyncedInPlace'
        BY <1>1, <1>2, <2>1 DEF DatabaseFollows, SyncedInPlace
    <2>3. PendingIsSaved'
        BY <1>1, <1>2, <2>1 DEF PendingIsSaved, Pending
    <2>4. MemoryAtRest'
        BY <1>1, <1>2 DEF DatabaseInv, RowsAtRest, MemoryAtRest, AtRest
    <2>5. RowsAtRest'
        BY <1>1, <2>1 DEF DatabaseInv, RowsAtRest, AtRest
    <2> QED
        BY <2>2, <2>3, <2>4, <2>5 DEF DatabaseInv
<1>9. VersionInv'
    <2>1. \A u \in Update : Out(u)' => FromMemory(u)
        BY <1>2, <1>4, <1>6 DEF FromMemory
    <2>2. /\ \A e \in Event : InChannel(e)' => RowFromBefore(e.row)
          /\ RowFromBefore(disk')
        BY <1>1, OldUpdatesAndRows DEF InChannel
    <2>3. AcceptedIsStored'
        BY <1>5 DEF AcceptedIsStored
    <2> QED
        BY <1>1, <1>2, <2>1, <2>2, <2>3, VersionSteady
<1> QED
    BY <1>7, <1>8, <1>9

LEMMA IInvInit ==
    ASSUME Init
    PROVE  IInv
<1>1. Types
    BY TypesInit DEF Types
<1>2. /\ mem = Synchronized /\ disk = RowOf(Synchronized) /\ channel = <<>> /\ queue = <<>>
      /\ net = Idle /\ history = <<0>> /\ mine = 0 /\ saw = [c \in Contents |-> 0]
      /\ used.edits = 0 /\ used.others = 0
    BY DEF Init
<1>3. /\ mem.content = 0 /\ mem.rev = 1 /\ mem.status = "NoLocalChanges" /\ ~Pending(mem)
      /\ disk.content = 0 /\ disk.rev = 1
      /\ net.reply = "idle" /\ ~Busy
    BY <1>2 DEF Synchronized, RowOf, Idle, Busy, Pending
<1>4. Outstanding = 0 /\ (\A u : ~Out(u)) /\ \A e : ~InChannel(e)
    BY <1>2, <1>3 DEF Outstanding, Out, InChannel
<1>5. DOMAIN history = {1} /\ history[1] = 0 /\ NextContent = 1
    BY <1>2 DEF NextContent
<1>6. QueueInv
    BY <1>2, <1>3, <1>4 DEF QueueInv, Counted, LastIsShown, MineIsShown
<1>7. DatabaseInv
    BY <1>2, <1>3, <1>4, <1>5
    DEF DatabaseInv, DatabaseFollows, LastRow, SyncedInPlace, PendingIsSaved, MemoryAtRest,
        RowsAtRest, AtRest
<1>8. VersionInv
    BY <1>2, <1>3, <1>4, <1>5
    DEF VersionInv, AllVouch, Vouches, AcceptedIsStored, NoneIsNew, NotNew
<1> QED
    BY <1>1, <1>6, <1>7, <1>8 DEF IInv

LEMMA IInvStep ==
    ASSUME IInv, [Next]_vars
    PROVE  IInv'
<1>1. Types'
    BY TypesStep DEF IInv, Types
<1>2. CASE UNCHANGED vars
    <2>1. SameUpdates
        BY <1>2, SameQueue DEF vars, Busy, IInv
    <2>2. AcceptedIsStored'
        BY <1>2 DEF vars, IInv, VersionInv, AcceptedIsStored
    <2> QED
        BY <1>1, <1>2, <2>1, <2>2, QuietStep DEF vars
<1>3. CASE Answers
    BY <1>1, <1>3, UpdateSuccessfulKeeps, UpdateRejectedKeeps, UpdateFailedKeeps,
       ReceiveMessageKeeps, PollAnsweredKeeps, FetchAnsweredKeeps DEF Answers
<1>4. CASE Server
    BY <1>1, <1>4, ServerAcceptsKeeps, QuietActions DEF Server
<1>5. CASE Environment
    BY <1>1, <1>5, OtherClientUpdatesKeeps, QuietActions, RestartKeeps DEF Environment
<1>6. CASE User
    BY <1>1, <1>6, UpdateObjectKeeps, ResyncObjectKeeps, QuietActions, ResolveConflictKeeps
    DEF User
<1>7. CASE Write
    BY <1>1, <1>7, WriteKeeps
<1>8. CASE \E force \in BOOLEAN : StartPoll(force)
    BY <1>1, <1>8, QuietActions
<1> QED
    BY <1>2, <1>3, <1>4, <1>5, <1>6, <1>7, <1>8 DEF Next

LEMMA IInvAlways == Spec => []IInv
<1>1. Init => IInv
    BY IInvInit
<1>2. IInv /\ [Next]_vars => IInv'
    BY IInvStep
<1> QED
    BY <1>1, <1>2, PTL DEF Spec

-----------------------------------------------------------------------------
(* The safety properties. *)

\* The counter and the queue agree, however many updates wait, fail, are
\* refused or are sent again by a restart, until the object is reset beside
\* outstanding updates (overtaken); not for the kind that ignores refusals.
THEOREM CounterAgrees == Spec => []CountsOutstanding
<1>1. IInv => CountsOutstanding
    BY NoneOut DEF IInv, QueueInv, Counted, CountsOutstanding
<1> QED
    BY <1>1, IInvAlways, PTL

\* Without local changes an object shows the server's content of its revision,
\* unless it was reset beside outstanding updates (overtaken) or a conflict of it
\* was saved as not pending (forgotten).
THEOREM AtRestAgrees == Spec => []RestIsServers
<1>1. IInv => RestIsServers
    BY DEF IInv, DatabaseInv, MemoryAtRest, AtRest, RestIsServers
<1> QED
    BY <1>1, IInvAlways, PTL

\* The row the database will have says InDatabase: where it has the content,
\* the events behind it are pending upserts.
LEMMA RowIsInDatabase ==
    ASSUME Types, NEW c, LastRow.content = c, LastRow.pending,
           channel # <<>> => channel[Len(channel)].op = "upsert"
    PROVE  InDatabase(c)
<1>1. channel \in Seq(Event) /\ Len(channel) \in Nat /\ DOMAIN channel = 1..Len(channel)
    BY Basics
<1>2. CASE channel = <<>>
    <2>1. DOMAIN channel = {}
        BY <1>2
    <2> QED
        BY <1>2, <2>1 DEF InDatabase, LastRow
<1>3. CASE channel # <<>>
    <2>1. Len(channel) \in DOMAIN channel /\ \A j \in Len(channel)..Len(channel) : j = Len(channel)
        BY <1>1, <1>3
    <2>2. LastRow = channel[Len(channel)].row
        BY <1>3 DEF LastRow
    <2> QED
        BY <1>3, <2>1, <2>2 DEF InDatabase
<1> QED
    BY <1>2, <1>3

\* An edit whose outcome the user waits for is in memory, in the queue and in
\* the database, or on the way to it as the last that will be written, until the
\* object is reset beside outstanding updates (overtaken); not for the kind that
\* ignores refusals.
THEOREM EditsAreKept == Spec => []NothingIsForgotten
<1>1. ASSUME IInv, kind # "ignore", ~overtaken, mine # 0
      PROVE  /\ mem.content = mine /\ mem.status = "InFlight"
             /\ \/ \E i \in DOMAIN queue : queue[i].content = mine
                \/ Busy /\ net.item.content = mine
             /\ InDatabase(mine)
    <2>1. Outstanding > 0 /\ mem.content = mine /\ mem.status = "InFlight"
          /\ Last.content = mine
        BY <1>1 DEF IInv, QueueInv, Counted, LastIsShown, MineIsShown
    <2>2. InDatabase(mine)
        <3>1. LastRow.content = mine /\ LastRow.pending
              /\ (channel # <<>> => channel[Len(channel)].op = "upsert")
            BY <1>1, <2>1 DEF IInv, DatabaseInv, DatabaseFollows, PendingIsSaved, Pending
        <3> QED
            BY <1>1, <3>1, RowIsInDatabase DEF IInv
    <2>3. CASE queue = <<>>
        <3>1. Busy
            BY <2>1, <2>3 DEF Outstanding
        <3> QED
            BY <2>1, <2>2, <2>3, <3>1 DEF Last
    <2>4. CASE queue # <<>>
        <3>1. queue \in Seq(Update)
            BY <1>1, Basics DEF IInv
        <3>2. Len(queue) \in DOMAIN queue
            BY <2>4, <3>1
        <3> QED
            BY <2>1, <2>2, <2>4, <3>2 DEF Last
    <2> QED
        BY <2>3, <2>4
<1>2. IInv => NothingIsForgotten
    BY <1>1 DEF NothingIsForgotten
<1> QED
    BY <1>2, IInvAlways, PTL

\* Only the server and other clients add to the history.
LEMMA WhoPublishes ==
    ASSUME IInv, [Next]_vars, NEW c, history' = Append(history, c)
    PROVE  ServerAccepts \/ OtherClientUpdates
<1>1. history' # history
    <2>1. history \in Seq(Contents) /\ Len(history) \in Nat
        BY Basics DEF IInv
    <2>2. Len(history') = Len(history) + 1
        BY <2>1
    <2> QED
        BY <2>1, <2>2
<1> QED
    BY <1>1 DEF Next, vars, Answers, Server, Environment, User, UpdateSuccessful, UpdateRejected,
       UpdateFailed, ReceiveMessage, PollAnswered, FetchAnswered, ServerRejects, RequestFails,
       LoseMessage, Restart, UpdateObject, ResyncObject, RevertToServer, ResolveConflict, Write,
       StartPoll

\* An update that the server accepts builds on what it replaces: it undoes no
\* edit of another client that its author had not seen, until the object is
\* reset beside outstanding updates (overtaken).
THEOREM OverwritesAreSeen == Spec => NoBlindOverwrite
<1>1. ASSUME IInv, [Next]_vars, ~overtaken, Busy, history' = Append(history, net.item.content)
      PROVE  saw[net.item.content] = saw[history[Rev]]
    <2>1. net.item \in Update /\ Out(net.item)
        BY <1>1, BusyView
    <2>2. CASE ServerAccepts
        <3>1. net.item.rev = Rev
            BY <2>2 DEF ServerAccepts
        <3>2. Vouches(net.item)
            BY <1>1, <2>1 DEF IInv, VersionInv, AllVouch
        <3> QED
            BY <3>1, <3>2 DEF Vouches
    <2>3. CASE OtherClientUpdates
        <3>1. net.item.content < NextContent /\ NextContent \in Nat
            BY <1>1, <2>1, Basics DEF IInv, VersionInv, NoneIsNew, NotNew, NextContent
        <3>2. history \in Seq(Contents) /\ Len(history) \in Nat
            BY <1>1, Basics DEF IInv
        <3>3. history' = Append(history, NextContent)
            BY <2>3 DEF OtherClientUpdates, Publish
        <3>4. net.item.content = NextContent
            <4>1. /\ Append(history, NextContent)[Len(history) + 1] = NextContent
                  /\ Append(history, net.item.content)[Len(history) + 1] = net.item.content
                BY <3>2
            <4> QED
                BY <1>1, <3>3, <4>1
        <3>5. net.item.content \in Nat
            BY <2>1, BoundsAssumption DEF Update, Contents
        <3> QED
            BY <3>1, <3>4, <3>5
    <2> QED
        BY <1>1, <2>2, <2>3, WhoPublishes
<1>2. IInv /\ [Next]_vars =>
         [~overtaken /\ Busy /\ history' = Append(history, net.item.content)
            => saw[net.item.content] = saw[history[Rev]]]_vars
    BY <1>1
<1> QED
    BY <1>2, IInvAlways, PTL DEF Spec, NoBlindOverwrite
=============================================================================
