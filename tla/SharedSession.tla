---------------------------- MODULE SharedSession ----------------------------
(***************************************************************************)
(* A shared terminal session: the connection of the sharer                 *)
(* (terminal/shared_session/sharer/network.rs), the session server as that *)
(* file uses it (external), and the event loop of a viewer                 *)
(* (viewer/event_loop.rs).                                                 *)
(*                                                                         *)
(* The sharer numbers what its terminal produces, keeps every event until  *)
(* the server acknowledges it, and sends it over a websocket.  The socket  *)
(* of a startup attempt becomes the socket of the session; every reconnect *)
(* makes a new one.  An old socket is never unsubscribed from: its         *)
(* messages and the callback of its end come whenever they come.           *)
(*                                                                         *)
(* Handlers are operators on the record of the connection, so that one can *)
(* call another as the code does; an action says when a handler runs.      *)
(***************************************************************************)
EXTENDS Integers, Sequences, SequencesExt, FiniteSets

CONSTANTS
    MaxAttempts,        \* startup_max_attempts: 1, or several for an ambient agent
    MaxItems,           \* bound: items the terminal produces
    MaxSize,            \* max_session_size, in items
    MaxScrollback,      \* what of it the scrollback may take
    MaxSockets,         \* bound: websockets opened
    MaxFaults           \* bound: failures, timeouts and refusals, together

ASSUME BoundsAssumption ==
    /\ MaxAttempts \in Nat \ {0}
    /\ {MaxItems, MaxSize, MaxScrollback, MaxSockets, MaxFaults} \subseteq Nat
    /\ MaxScrollback <= MaxSize

VARIABLES
    net,                \* sharer::Network, its tasks, and its sockets with what they carry
    produced,           \* items the terminal of the sharer has produced
    server,             \* what the session server has of the session
    viewer,             \* the EventLoop of a viewer
    faults              \* faults so far

vars == <<net, produced, server, viewer, faults>>

Msg(type, n) == [type |-> type, n |-> n]

\* stage, current_attempt, startup_attempt of StartedSuccessfully (0: None) and
\* session_id (named by the attempt whose Initialize created the session).
\* connecting and timers: the attempts whose connect future and timeout still
\* have a callback to run.  first: the first try of a reconnect, which the
\* handle in the stage aborts; loose: reconnects nothing can abort any more;
\* cut: aborted, but maybe after it had completed.  proxy: the socket that
\* ws_proxy_tx feeds (0: one without a socket yet).  idle: the heartbeat runs.
NewNetwork(scrollback) ==
    [stage |-> "BeforeStarted", attempt |-> 1, winner |-> 0, session |-> 0,
     connecting |-> {1}, timers |-> IF MaxAttempts > 1 THEN {1} ELSE {},
     first |-> FALSE, loose |-> 0, cut |-> 0, proxy |-> 0, idle |-> FALSE,
     shared |-> scrollback, events |-> <<>>, unacked |-> {}, batch |-> <<>>, socks |-> <<>>]

\* A websocket: the startup attempt that owns it (0: a reconnect), whether the
\* sending half of its proxy channel is open, whether it still carries anything,
\* and the messages under way in both directions.
NewSocket(attempt, hello) ==
    [attempt |-> attempt, open |-> TRUE, alive |-> TRUE, up |-> <<hello>>, down |-> <<>>]

Init ==
    /\ \E scrollback \in 0..MaxScrollback : net = NewNetwork(scrollback)
    /\ produced = 0
    /\ server = [got |-> {}, acked |-> 0, conn |-> 0]
    /\ viewer = [joined |-> FALSE, next |-> 0, buffer |-> {}, shown |-> <<>>]
    /\ faults = 0

Fault == faults < MaxFaults /\ faults' = faults + 1
----------------------------------------------------------------------------
(* Handlers of the sharer.                                                 *)

\* try_send on ws_proxy_tx: what is sent to a closed or a broken channel is lost.
Send(k, m) ==
    IF k.proxy # 0 /\ k.socks[k.proxy].open /\ k.socks[k.proxy].alive
    THEN [k EXCEPT !.socks[k.proxy].up = Append(@, m)] ELSE k

CloseProxy(k) == IF k.proxy = 0 THEN k ELSE [k EXCEPT !.socks[k.proxy].open = FALSE]

Abort(k) ==
    IF k.stage = "Reconnecting" /\ k.first
    THEN [k EXCEPT !.first = FALSE, !.cut = @ + 1] ELSE k

Close(k) == CloseProxy(Abort(k))

CloseWithoutReconnection(k) == [Close(k) EXCEPT !.stage = "Finished"]

\* The terminal manager drops the Network: its callbacks never run again.
Drop(k) ==
    [Close(k) EXCEPT !.stage = "Dropped", !.connecting = {}, !.timers = {}, !.first = FALSE,
                     !.loose = 0, !.cut = 0, !.idle = FALSE]

\* The size limit ends the session from the inside: nobody is told, and the
\* Network lives on.
EndSession(k) ==
    CloseWithoutReconnection(
        IF k.stage = "StartedSuccessfully" THEN Send(k, Msg("EndSession", 0)) ELSE k)

\* Mutant: the number is advanced before it is used.
PublishAdvanced(k, items) ==
    LET n == Len(k.events) + 1
        stored == [k EXCEPT !.shared = @ + Len(items), !.events = Append(@, items),
                            !.unacked = @ \cup {n}]
    IN  IF k.shared + Len(items) > MaxSize THEN EndSession(k)
        ELSE IF k.stage = "StartedSuccessfully" THEN Send(stored, Msg("Event", n)) ELSE stored

Publish(k, items) ==
    LET n == Len(k.events)
        counted == [k EXCEPT !.shared = @ + Len(items)]
        stored == [counted EXCEPT !.events = Append(@, items), !.unacked = @ \cup {n}]
    IN  IF counted.shared > MaxSize THEN EndSession(counted)
        ELSE IF k.stage = "StartedSuccessfully" THEN Send(stored, Msg("Event", n)) ELSE stored

FlushBatch(k) ==
    IF k.batch = <<>> THEN k ELSE Publish([k EXCEPT !.batch = <<>>], k.batch)

\* Mutant: the flush starts one event late.
FlushAfter(k, start) ==
    LET run == {n \in (start + 1)..(Len(k.events) - 1) : (start + 1)..n \subseteq k.unacked}
        m == [i \in 1..Cardinality(run) |-> Msg("Event", start + i)]
    IN  IF k.proxy # 0 /\ k.socks[k.proxy].open /\ k.socks[k.proxy].alive
        THEN [k EXCEPT !.socks[k.proxy].up = @ \o m] ELSE k

\* flush_terminal_events_to_server: from start up to the first that is not stored.
Flush(k, start) ==
    LET run == {n \in start..(Len(k.events) - 1) : start..n \subseteq k.unacked}
        m == [i \in 1..Cardinality(run) |-> Msg("Event", start + i - 1)]
    IN  IF k.proxy # 0 /\ k.socks[k.proxy].open /\ k.socks[k.proxy].alive
        THEN [k EXCEPT !.socks[k.proxy].up = @ \o m] ELSE k

StartCreateSessionAttempt(k) ==
    LET a == k.attempt + 1
    IN  [CloseProxy(k) EXCEPT !.attempt = a, !.proxy = 0, !.idle = FALSE,
                              !.connecting = @ \cup {a},
                              !.timers = IF MaxAttempts > 1 THEN @ \cup {a} ELSE @]

\* A failure that is final tells the terminal manager, which drops the Network.
HandleStartupFailure(k, retryable) ==
    IF k.stage # "BeforeStarted" THEN k
    ELSE IF retryable /\ k.attempt < MaxAttempts THEN StartCreateSessionAttempt(k)
    ELSE Drop(k)

ReconnectWebsocket(k) ==
    IF k.stage \in {"Finished", "Reconnecting"} \/ k.session = 0 THEN k
    ELSE [k EXCEPT !.stage = "Reconnecting", !.first = TRUE]

IsActiveStartupAttemptCallback(a) == net.stage = "BeforeStarted" /\ net.attempt = a

\* Mutant: an earlier attempt is told from the current one only once started.
ShouldIgnoreWhenStarted(c) ==
    LET a == net.socks[c].attempt
    IN  a # 0 /\ net.stage = "StartedSuccessfully" /\ net.winner \notin {0, a}

ShouldIgnore(c) ==
    LET a == net.socks[c].attempt
    IN  /\ a # 0
        /\ \/ net.stage = "BeforeStarted" /\ net.attempt # a
           \/ net.stage = "StartedSuccessfully" /\ net.winner \notin {0, a}

OnWebsocketConnected(k, attempt, hello) ==
    [k EXCEPT !.socks = Append(@, NewSocket(attempt, hello)), !.proxy = Len(k.socks) + 1,
              !.idle = TRUE]

Live == net.stage # "Dropped"
----------------------------------------------------------------------------
(* The terminal: what it produces is numbered as it comes; reads of the     *)
(* PTY are batched, everything else flushes the batch first.               *)

PtyBytesRead ==
    /\ Live
    /\ produced < MaxItems
    /\ produced' = produced + 1
    /\ net' = [net EXCEPT !.batch = Append(@, produced + 1)]
    /\ UNCHANGED <<server, viewer, faults>>

\* Mutant: the batch is not flushed first.
OtherEventOvertakes ==
    /\ Live
    /\ produced < MaxItems
    /\ produced' = produced + 1
    /\ net' = Publish(net, <<produced + 1>>)
    /\ UNCHANGED <<server, viewer, faults>>

OtherEvent ==
    /\ Live
    /\ produced < MaxItems
    /\ produced' = produced + 1
    /\ net' = Publish(FlushBatch(net), <<produced + 1>>)
    /\ UNCHANGED <<server, viewer, faults>>

BatchTimer ==
    /\ Live
    /\ net.batch # <<>>
    /\ net' = FlushBatch(net)
    /\ UNCHANGED <<produced, server, viewer, faults>>

\* Stop sharing: end_shared_session ends the session and drops the Network.
StopSharing ==
    /\ Live
    /\ Fault
    /\ net' = Drop(EndSession(net))
    /\ UNCHANGED <<produced, server, viewer>>
----------------------------------------------------------------------------
(* Startup attempts and reconnects.                                        *)

StartupConnects(a) ==
    /\ a \in net.connecting
    /\ Len(net.socks) < MaxSockets
    /\ net' = LET k == [net EXCEPT !.connecting = @ \ {a}]
              IN  IF IsActiveStartupAttemptCallback(a)
                  THEN OnWebsocketConnected(k, a, Msg("Initialize", a)) ELSE k
    /\ UNCHANGED <<produced, server, viewer, faults>>

StartupConnectFails(a) ==
    /\ a \in net.connecting
    /\ Fault
    /\ net' = LET k == [net EXCEPT !.connecting = @ \ {a}]
              IN  IF IsActiveStartupAttemptCallback(a) THEN HandleStartupFailure(k, TRUE) ELSE k
    /\ UNCHANGED <<produced, server, viewer>>

StartupTimeout(a) ==
    /\ a \in net.timers
    /\ Fault
    /\ net' = LET k == [net EXCEPT !.timers = @ \ {a}]
              IN  IF IsActiveStartupAttemptCallback(a) THEN HandleStartupFailure(k, TRUE) ELSE k
    /\ UNCHANGED <<produced, server, viewer>>

\* The heartbeat heard nothing for too long.  The old socket stays as it is.
HeartbeatIdle ==
    /\ net.idle
    /\ Fault
    /\ net' = ReconnectWebsocket([net EXCEPT !.idle = FALSE])
    /\ UNCHANGED <<produced, server, viewer>>

\* One reconnect less, of the kind that completed.
Taken(kind) ==
    CASE kind = "first" -> [net EXCEPT !.first = FALSE]
      [] kind = "loose" -> [net EXCEPT !.loose = @ - 1]
      [] kind = "cut" -> [net EXCEPT !.cut = @ - 1]

Running == {kind \in {"first", "loose", "cut"} :
               \/ kind = "first" /\ net.first
               \/ kind = "loose" /\ net.loose > 0
               \/ kind = "cut" /\ net.cut > 0}

\* The callback of a connected reconnect asks for nothing but the connection;
\* replacing ws_proxy_tx drops the sender of the socket before.
ReconnectConnects ==
    /\ Len(net.socks) < MaxSockets
    /\ \E kind \in Running :
          net' = OnWebsocketConnected(CloseProxy(Taken(kind)), 0, Msg("Reconnect", 0))
    /\ UNCHANGED <<produced, server, viewer, faults>>

\* A failed try is followed by another, which the handle in the stage is not for.
ReconnectTryFails ==
    /\ Fault
    /\ \E kind \in Running : net' = [Taken(kind) EXCEPT !.loose = @ + 1]
    /\ UNCHANGED <<produced, server, viewer>>

\* Retries exhausted: the session is given up, whatever it is doing.  (It ends
\* here, so MaxFaults need not count it.)
ReconnectGivesUp ==
    /\ net.loose > 0
    /\ net' = Drop(Taken("loose"))
    /\ UNCHANGED <<produced, server, viewer, faults>>

\* The abort was in time after all.
AbortedReconnectEnds ==
    /\ net.cut > 0
    /\ net' = Taken("cut")
    /\ UNCHANGED <<produced, server, viewer, faults>>
----------------------------------------------------------------------------
(* What a socket delivers to the main thread.                              *)

\* The next message of socket c is of this type.
Delivers(c, type) ==
    /\ Live
    /\ net.socks[c].down # <<>>
    /\ Head(net.socks[c].down).type = type
    /\ UNCHANGED <<produced, server, viewer, faults>>

Popped(c) == [net EXCEPT !.socks[c].down = Tail(@)]

\* Every message that is not ignored resets the idle timeout.
Heard(c) == [Popped(c) EXCEPT !.idle = TRUE]

Received(c) == Head(net.socks[c].down).n

SessionInitialized(c) ==
    /\ Delivers(c, "SessionInitialized")
    /\ ~ShouldIgnore(c)
    /\ net' = IF net.stage # "BeforeStarted" THEN Heard(c)
              ELSE Flush([Heard(c) EXCEPT !.session = Received(c), !.winner = net.attempt,
                                          !.stage = "StartedSuccessfully"], 0)

FailedToInitialize(c) ==
    /\ Delivers(c, "FailedToInitialize")
    /\ ~ShouldIgnore(c)
    /\ net' = HandleStartupFailure(Heard(c), Received(c) = 1)

\* Mutant: the stage is not looked at.
SessionReconnectedAlways(c) ==
    /\ Delivers(c, "SessionReconnected")
    /\ net' = Flush([Heard(c) EXCEPT !.stage = "StartedSuccessfully", !.winner = 0],
                    Received(c) + 1)

\* Mutant: what was produced meanwhile is not sent.
SessionReconnectedOnly(c) ==
    /\ Delivers(c, "SessionReconnected")
    /\ net' = IF net.stage # "Reconnecting" THEN Heard(c)
              ELSE [Heard(c) EXCEPT !.stage = "StartedSuccessfully", !.winner = 0]

\* Received is the number of the last event the server has, or -1.
SessionReconnected(c) ==
    /\ Delivers(c, "SessionReconnected")
    /\ ~ShouldIgnore(c)
    /\ net' = IF net.stage # "Reconnecting" THEN Heard(c)
              ELSE Flush([Heard(c) EXCEPT !.stage = "StartedSuccessfully", !.winner = 0,
                                          !.first = FALSE,
                                          !.loose = IF net.first THEN @ + 1 ELSE @],
                         Received(c) + 1)

\* FailedToReconnect and SessionTerminated end the session; the terminal
\* manager is told and drops the Network.
SessionOver(c) ==
    /\ \E type \in {"FailedToReconnect", "SessionTerminated"} : Delivers(c, type)
    /\ ~ShouldIgnore(c)
    /\ net' = Drop(Heard(c))

\* Mutant: one event too many is let go.
EventsProcessedAckBeyond(c) ==
    /\ Delivers(c, "EventsProcessedAck")
    /\ ~ShouldIgnore(c)
    /\ net' = [Heard(c) EXCEPT !.unacked = {n \in @ : n > Received(c) + 1}]

\* The acknowledged event and the stored ones that lead up to it are let go.
EventsProcessedAck(c) ==
    /\ Delivers(c, "EventsProcessedAck")
    /\ ~ShouldIgnore(c)
    /\ net' = [Heard(c) EXCEPT !.unacked =
                  {n \in @ : ~(n <= Received(c) /\ n..Received(c) \subseteq @)}]

WebsocketError(c) ==
    /\ Delivers(c, "Error")
    /\ ~ShouldIgnore(c)
    /\ net' = IF net.socks[c].attempt # 0 THEN HandleStartupFailure(Popped(c), TRUE)
              ELSE Popped(c)

\* Mutant: the end of the socket of a started session only closes.
WebsocketClosedOnly(c) ==
    /\ Delivers(c, "Closed")
    /\ ~ShouldIgnore(c)
    /\ net' = HandleStartupFailure(Close(Popped(c)), TRUE)

WebsocketClosed(c) ==
    /\ Delivers(c, "Closed")
    /\ ~ShouldIgnore(c)
    /\ net' = LET k == Close(Popped(c))
              IN  IF net.stage = "StartedSuccessfully" THEN ReconnectWebsocket(k)
                  ELSE HandleStartupFailure(k, TRUE)

IgnoredMessage(c) ==
    /\ \E i \in 1..Len(net.socks[c].down) : Delivers(c, net.socks[c].down[i].type)
    /\ ShouldIgnore(c)
    /\ net' = Popped(c)

Receive(c) ==
    \/ SessionInitialized(c) \/ FailedToInitialize(c) \/ SessionReconnected(c)
    \/ SessionOver(c) \/ EventsProcessedAck(c) \/ WebsocketError(c) \/ WebsocketClosed(c)
    \/ IgnoredMessage(c)
----------------------------------------------------------------------------
(* The session server and the network between (external).                  *)

Reply(c, m) == [net EXCEPT !.socks[c].up = Tail(@), !.socks[c].down = Append(@, m)]

ServerReads(c, type) ==
    /\ net.socks[c].alive
    /\ net.socks[c].up # <<>>
    /\ Head(net.socks[c].up).type = type
    /\ UNCHANGED <<produced, viewer>>

ServerCreatesSession(c) ==
    /\ ServerReads(c, "Initialize")
    /\ net' = Reply(c, Msg("SessionInitialized", Head(net.socks[c].up).n))
    /\ UNCHANGED <<server, faults>>

ServerRefusesSession(c) ==
    /\ ServerReads(c, "Initialize")
    /\ Fault
    /\ \E retryable \in {0, 1} : net' = Reply(c, Msg("FailedToInitialize", retryable))
    /\ UNCHANGED server

\* The answer says which event is the last one the server has.  From now on this
\* is the connection of the sharer.
ServerResumesSession(c) ==
    /\ ServerReads(c, "Reconnect")
    /\ net' = Reply(c, Msg("SessionReconnected", Max({-1} \cup server.got)))
    /\ server' = [server EXCEPT !.conn = IF c > @ THEN c ELSE @]
    /\ UNCHANGED faults

ServerRefusesReconnect(c) ==
    /\ ServerReads(c, "Reconnect")
    /\ Fault
    /\ net' = Reply(c, Msg("FailedToReconnect", 0))
    /\ UNCHANGED server

\* What an earlier connection still carries is not looked at any more.
ServerProcessesEvent(c) ==
    /\ ServerReads(c, "Event")
    /\ net' = [net EXCEPT !.socks[c].up = Tail(@)]
    /\ server' = IF c < server.conn THEN server
                 ELSE [server EXCEPT !.got = @ \cup {Head(net.socks[c].up).n}]
    /\ UNCHANGED faults

ServerAnswers(c, m) == net' = [net EXCEPT !.socks[c].down = Append(@, m)]

Greeted(c) ==
    /\ net.socks[c].alive
    /\ net.socks[c].up # <<>> => Head(net.socks[c].up).type \notin {"Initialize", "Reconnect"}

\* Everything up to the last event is processed for good.
ServerAcks(c) ==
    /\ Greeted(c)
    /\ Cardinality(server.got) > server.acked
    /\ ServerAnswers(c, Msg("EventsProcessedAck", Max(server.got)))
    /\ server' = [server EXCEPT !.acked = Max(server.got) + 1]
    /\ UNCHANGED <<produced, viewer, faults>>

\* At the request of the sharer or for a reason of its own.
ServerEndsSession(c) ==
    /\ \/ /\ ServerReads(c, "EndSession")
          /\ net' = Reply(c, Msg("SessionTerminated", 0))
          /\ UNCHANGED faults
       \/ /\ Greeted(c)
          /\ Fault
          /\ ServerAnswers(c, Msg("SessionTerminated", 0))
          /\ UNCHANGED <<produced, viewer>>
    /\ UNCHANGED server

\* The server sees that the sharer closed, once it has read everything.
ServerSeesClose(c) ==
    /\ net.socks[c].alive
    /\ ~net.socks[c].open
    /\ net.socks[c].up = <<>>
    /\ net' = [net EXCEPT !.socks[c].alive = FALSE,
                          !.socks[c].down = Append(@, Msg("Closed", 0))]
    /\ UNCHANGED <<produced, server, viewer, faults>>

Broken(s, kept, end) ==
    [s EXCEPT !.alive = FALSE, !.up = <<>>, !.down = SubSeq(@, 1, kept) \o end]

\* A socket breaks: what was under way is lost in one direction and cut short
\* in the other; an error may come before the end.
Disconnect(c) ==
    /\ net.socks[c].alive
    /\ Fault
    /\ \E kept \in 0..Len(net.socks[c].down),
          end \in {<<Msg("Closed", 0)>>, <<Msg("Error", 0), Msg("Closed", 0)>>} :
          net' = [net EXCEPT !.socks[c] = Broken(@, kept, end)]
    /\ UNCHANGED <<produced, server, viewer>>

\* The server restarts: every socket breaks, and of the events it has not
\* acknowledged it forgets the latest.
ServerRestarts ==
    /\ Fault
    /\ \E n \in server.acked..Cardinality(server.got) :
          server' = [server EXCEPT !.got = {m \in @ : m < n}]
    /\ net' = [net EXCEPT !.socks =
                  [c \in DOMAIN @ |->
                     IF @[c].alive THEN Broken(@[c], Len(@[c].down), <<Msg("Closed", 0)>>)
                     ELSE @[c]]]
    /\ UNCHANGED <<produced, viewer>>

Server(c) ==
    \/ ServerCreatesSession(c) \/ ServerRefusesSession(c) \/ ServerResumesSession(c)
    \/ ServerRefusesReconnect(c) \/ ServerProcessesEvent(c) \/ ServerAcks(c)
    \/ ServerEndsSession(c) \/ ServerSeesClose(c)
----------------------------------------------------------------------------
(* A viewer: it gets the events from the server in any order, some of them *)
(* more than once.                                                         *)

ViewerJoins ==
    /\ net.session # 0
    /\ ~viewer.joined
    /\ viewer' = [viewer EXCEPT !.joined = TRUE]
    /\ UNCHANGED <<net, produced, server, faults>>

\* process_ordered_terminal_event: the event is buffered, then as many as
\* follow each other are shown.
ViewerReceives(n) ==
    /\ viewer.joined
    /\ n \in server.got
    /\ LET buffer == viewer.buffer \cup {n}
           run == {m \in buffer : m >= viewer.next /\ viewer.next..m \subseteq buffer}
           next == viewer.next + Cardinality(run)
       IN  viewer' = [viewer EXCEPT
                        !.buffer = buffer \ run,
                        !.next = next,
                        !.shown = @ \o FlattenSeq(SubSeq(net.events, viewer.next + 1, next))]
    /\ UNCHANGED <<net, produced, server, faults>>
----------------------------------------------------------------------------
Next ==
    \/ PtyBytesRead \/ OtherEvent \/ BatchTimer \/ StopSharing
    \/ \E a \in 1..MaxAttempts : StartupConnects(a) \/ StartupConnectFails(a) \/ StartupTimeout(a)
    \/ HeartbeatIdle \/ ReconnectConnects \/ ReconnectTryFails \/ ReconnectGivesUp
    \/ AbortedReconnectEnds
    \/ \E c \in DOMAIN net.socks : Receive(c) \/ Server(c) \/ Disconnect(c)
    \/ ServerRestarts
    \/ ViewerJoins \/ \E n \in server.got : ViewerReceives(n)

Spec == Init /\ [][Next]_vars

\* As long as something is due it goes on: a callback on the main thread, a
\* future that completes, a message the server reads, an event a viewer lacks.
\* Nothing is assumed about which comes first.
Progress ==
    \/ BatchTimer
    \/ \E a \in 1..MaxAttempts : StartupConnects(a)
    \/ ReconnectConnects
    \/ \E c \in DOMAIN net.socks :
          \/ Receive(c)
          \/ ServerCreatesSession(c) \/ ServerResumesSession(c) \/ ServerProcessesEvent(c)
          \/ ServerEndsSession(c) \/ ServerSeesClose(c)
    \/ ViewerJoins
    \/ \E n \in server.got : ViewerReceives(n)

FairSpec == Spec /\ WF_vars(Progress)
----------------------------------------------------------------------------
(* Properties.                                                             *)

Stages == {"BeforeStarted", "StartedSuccessfully", "Reconnecting", "Finished", "Dropped"}
UpTypes == {"Initialize", "Reconnect", "Event", "EndSession"}
DownTypes == {"SessionInitialized", "FailedToInitialize", "SessionReconnected",
              "FailedToReconnect", "SessionTerminated", "EventsProcessedAck", "Error", "Closed"}
Messages(types) == [type : types, n : -1..(MaxItems + MaxAttempts)]

\* The connection, its sockets, the server and the viewer have their types.
TypeOK ==
    /\ net.stage \in Stages
    /\ net.attempt \in 1..MaxAttempts
    /\ {net.winner, net.session} \subseteq 0..MaxAttempts
    /\ net.connecting \subseteq 1..MaxAttempts /\ net.timers \subseteq 1..MaxAttempts
    /\ {net.first, net.idle} \subseteq BOOLEAN
    /\ {net.loose, net.cut, net.shared} \subseteq Nat
    /\ net.proxy \in 0..Len(net.socks)
    /\ net.events \in Seq(Seq(1..produced)) /\ Len(net.events) <= produced
    /\ net.unacked \subseteq 0..(Len(net.events) - 1)
    /\ net.batch \in Seq(1..produced)
    /\ Len(net.socks) <= MaxSockets
    /\ \A c \in DOMAIN net.socks :
          /\ net.socks[c].attempt \in 0..MaxAttempts
          /\ {net.socks[c].open, net.socks[c].alive} \subseteq BOOLEAN
          /\ net.socks[c].up \in Seq(Messages(UpTypes))
          /\ net.socks[c].down \in Seq(Messages(DownTypes))
    /\ produced \in 0..MaxItems
    /\ server.got \subseteq 0..(Len(net.events) - 1)
    /\ server.acked \in 0..MaxItems /\ server.conn \in 0..Len(net.socks)
    /\ viewer.joined \in BOOLEAN
    /\ viewer.next \in 0..Len(net.events)
    /\ viewer.buffer \subseteq 0..(Len(net.events) - 1)
    /\ faults \in 0..MaxFaults

\* What the sharer resends after a reconnect starts right after the last event
\* the server has, on whatever sockets the rest arrives and whatever the server
\* forgot in a restart: it never has an event without those before it
\* (flush_terminal_events_to_server, EventsProcessedAck).
ServerHasAPrefix == server.got = 0..(Cardinality(server.got) - 1)

\* An event the server may still lack, or forget, is stored: only what it has
\* acknowledged as processed is let go (send_message_to_server,
\* EventsProcessedAck).
KeptUntilAcked ==
    \A n \in 0..(Len(net.events) - 1) : n \in net.unacked \/ n < server.acked

\* The session of the sharer is the one its own socket created: an answer to an
\* earlier startup attempt, which came after the attempt had timed out, never
\* becomes the session, though the server made one for it
\* (should_ignore_startup_attempt_websocket_callback).
SessionIsOfTheWinner ==
    net.stage = "StartedSuccessfully" /\ net.winner # 0 =>
        /\ net.session = net.winner
        /\ \E c \in DOMAIN net.socks : net.socks[c].attempt = net.winner

\* A lost connection is always found out: while the session counts as started,
\* either its proxy feeds a socket that works, or the end of a socket is still
\* to be delivered, which makes it reconnect (on_websocket_connected).
LossIsNoticed ==
    net.stage = "StartedSuccessfully" =>
        \/ net.socks[net.proxy].open /\ net.socks[net.proxy].alive
        \/ \E c \in DOMAIN net.socks :
              /\ ~ShouldIgnore(c)
              /\ \/ net.socks[c].alive /\ ~net.socks[c].open
                 \/ net.socks[c].down # <<>> /\ ~net.socks[c].alive

\* A session that is over stays over, whatever late answers and ends of sockets
\* are still delivered (process_websocket_message, reconnect_websocket).
FinishedIsFinal ==
    [][/\ net.stage = "Finished" => net'.stage \in {"Finished", "Dropped"}
       /\ net.stage = "Dropped" => net'.stage = "Dropped"]_vars

OL == INSTANCE OrderedLog WITH screen <- viewer.shown

\* Through batching, resends, lost and duplicated deliveries and restarts of the
\* server, the viewer shows what the terminal produced, in order, once, without
\* a hole (start_ordered_terminal_events_listener, process_ordered_terminal_event).
ShowsTheTerminal == OL!Spec

\* A session that waits for a new connection is getting one: a reconnect runs, or
\* its socket has still to send, answer or end.  "Reconnecting: The server
\* disconnected after the session was started successfully and we are trying to
\* reconnect." (sharer/network.rs:118)
ReconnectingIsTrying ==
    net.stage = "Reconnecting" =>
        \/ Running # {}
        \/ \E c \in DOMAIN net.socks :
              /\ net.socks[c].attempt = 0
              /\ \/ net.socks[c].alive /\ net.socks[c].up # <<>>
                 \/ net.socks[c].down # <<>>

Over == net.stage \in {"Finished", "Dropped"}

\* The bound on sockets leaves nothing to connect with.
Exhausted ==
    Len(net.socks) = MaxSockets /\ (Running # {} \/ net.stage = "BeforeStarted")

\* The viewer catches up with the terminal again and again, unless the session
\* ends or hangs in Reconnecting, or the sockets of the model are used up
\* (reconnect_websocket, flush_terminal_events_to_server).
ViewerCatchesUp ==
    []<>(\/ Len(viewer.shown) = produced
         \/ Over \/ Exhausted \/ ~ReconnectingIsTrying)
=============================================================================
