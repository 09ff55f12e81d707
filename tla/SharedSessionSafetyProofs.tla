---------------------- MODULE SharedSessionSafetyProofs ----------------------
(***************************************************************************)
(* A shared session, continued: its numbers stay within their bounds, and  *)
(* a lost connection is always found out.                                  *)
(*                                                                         *)
(* A socket that is over tells so last.  While the session counts as       *)
(* started, the socket of the proxy works or has something left to tell,   *)
(* and it is heeded: it is a reconnect's, or the winner's.                 *)
(*                                                                         *)
(* Most handlers slip by all this: they leave the sockets what they have   *)
(* to tell, and the stage, or end the session.                             *)
(***************************************************************************)
EXTENDS SharedSessionProofs

Sock == [attempt : 0..MaxAttempts, open : BOOLEAN, alive : BOOLEAN,
         up : Seq(Messages(UpTypes)), down : Seq(Messages(DownTypes))]
Connection(p) ==
    [stage : Stages, attempt : 1..MaxAttempts, winner : 0..MaxAttempts,
     session : 0..MaxAttempts, connecting : SUBSET (1..MaxAttempts),
     timers : SUBSET (1..MaxAttempts), first : BOOLEAN, loose : Nat, cut : Nat,
     proxy : Nat, idle : BOOLEAN, shared : Nat, events : Seq(Seq(1..p)),
     unacked : SUBSET Int, batch : Seq(1..p), socks : Seq(Sock)]

\* The events the connection has, or is about to have, of p items produced.
Items(k) == Len(k.events) + IF k.batch = <<>> THEN 0 ELSE 1
Typed(k, p) ==
    /\ k \in Connection(p)
    /\ Items(k) <= p
    /\ k.proxy \in 0..Len(k.socks)
    /\ Len(k.socks) <= MaxSockets

EndsWell(x) == ~x.alive /\ x.down # <<>> => x.down[Len(x.down)].type = "Closed"
Ending(x) == x.alive \/ x.down # <<>>
Heeds(k) == k.winner = 0 \/ k.socks[k.proxy].attempt \in {0, k.winner}
Found(k) ==
    /\ \A c \in DOMAIN k.socks : EndsWell(k.socks[c])
    /\ k.stage \in {"StartedSuccessfully", "Reconnecting"} => k.proxy # 0 /\ k.session # 0
    /\ k.stage = "StartedSuccessfully" => Heeds(k) /\ Ending(k.socks[k.proxy])
    /\ k.stage = "BeforeStarted" =>
          \A c \in DOMAIN k.socks :
              /\ k.socks[c].attempt <= k.attempt
              /\ k.socks[c].attempt = k.attempt =>
                    c = k.proxy /\ k.attempt \notin k.connecting

Viewing ==
    /\ DOMAIN viewer = {"joined", "next", "buffer", "shown"}
    /\ viewer.joined \in BOOLEAN
    /\ viewer.next \in 0..Len(net.events)
    /\ viewer.buffer \subseteq 0..(Len(net.events) - 1)

Held ==
    /\ Inv /\ Typed(net, produced) /\ Found(net) /\ Viewing
    /\ produced \in 0..MaxItems /\ faults \in 0..MaxFaults

-----------------------------------------------------------------------------
(* What slips by. *)

SockSlips(x, y) ==
    /\ y.attempt = x.attempt
    /\ EndsWell(x) => EndsWell(y)
Lasts(x, y) == EndsWell(x) /\ Ending(x) => Ending(y)
Past(k) == k.stage \in {"Finished", "Dropped"}

Slips(k, l) ==
    /\ DOMAIN l.socks = DOMAIN k.socks
    /\ Len(k.events) <= Len(l.events)
    /\ Past(l) \/ l.stage = k.stage
    /\ ~Past(l) =>
          /\ l.proxy = k.proxy /\ l.session = k.session /\ l.winner = k.winner
          /\ l.attempt = k.attempt /\ l.connecting \subseteq k.connecting
    /\ \A c \in DOMAIN k.socks :
          /\ SockSlips(k.socks[c], l.socks[c])
          /\ l.stage = "StartedSuccessfully" /\ c = k.proxy =>
                Lasts(k.socks[c], l.socks[c])

LEMMA NumbersOf ==
    /\ MaxAttempts \in Nat \ {0} /\ MaxItems \in Nat /\ MaxSockets \in Nat
    /\ MaxFaults \in Nat /\ MaxSize \in Nat /\ MaxScrollback \in Nat
BY BoundsAssumption

LEMMA TypesOf ==
    ASSUME NEW p \in Nat, NEW k, Typed(k, p)
    PROVE  /\ k \in Connection(p) /\ k.socks \in Seq(Sock)
           /\ Len(k.socks) \in Nat /\ DOMAIN k.socks = 1..Len(k.socks)
           /\ \A c \in DOMAIN k.socks : k.socks[c] \in Sock
           /\ k.events \in Seq(Seq(1..p)) /\ Len(k.events) \in Nat
           /\ k.batch \in Seq(1..p) /\ Len(k.events) <= p
           /\ k.proxy # 0 => k.proxy \in DOMAIN k.socks
           /\ k.attempt \in Nat /\ k.stage \in Stages
           /\ Items(k) \in Nat /\ Len(k.events) <= Items(k) /\ Items(k) <= p
<1>1. /\ k.socks \in Seq(Sock) /\ k.events \in Seq(Seq(1..p)) /\ k.batch \in Seq(1..p)
      /\ k.proxy \in Nat /\ k.attempt \in 1..MaxAttempts /\ k.stage \in Stages
    BY DEF Typed, Connection
<1>2. Len(k.events) \in Nat /\ Len(k.socks) \in Nat /\ DOMAIN k.socks = 1..Len(k.socks)
      /\ \A c \in DOMAIN k.socks : k.socks[c] \in Sock
    BY <1>1
<1>3. Items(k) \in Nat /\ Len(k.events) <= Items(k) /\ Items(k) <= p
    <2> DEFINE pending == IF k.batch = <<>> THEN 0 ELSE 1
    <2>1. pending \in {0, 1}
        OBVIOUS
    <2>2. Items(k) = Len(k.events) + pending
        BY Zenon DEF Items
    <2>3. Items(k) <= p
        BY DEF Typed
    <2> HIDE DEF pending
    <2> QED
        BY <1>2, <2>1, <2>2, <2>3
<1> QED
    BY <1>1, <1>2, <1>3, NumbersOf DEF Typed

LEMMA SlipsSelf == ASSUME NEW p \in Nat, NEW k, Typed(k, p) PROVE Slips(k, k)
BY TypesOf DEF Slips, SockSlips, Lasts

LEMMA SlipsTrans ==
    ASSUME NEW p \in Nat, NEW k, NEW l, NEW m, Typed(k, p), Typed(l, p), Typed(m, p),
           Slips(k, l), Slips(l, m)
    PROVE  Slips(k, m)
<1>1. Len(k.events) \in Nat /\ Len(l.events) \in Nat /\ Len(m.events) \in Nat
    BY TypesOf
<1>2. ~Past(m) => ~Past(l)
    BY DEF Slips, Past
<1>3. ASSUME NEW c \in DOMAIN k.socks
      PROVE  /\ SockSlips(k.socks[c], m.socks[c])
             /\ m.stage = "StartedSuccessfully" /\ c = k.proxy =>
                   Lasts(k.socks[c], m.socks[c])
    BY DEF Slips, SockSlips, Lasts, Past
<1> QED
    BY <1>1, <1>2, <1>3 DEF Slips, Past

LEMMA SlipsFound ==
    ASSUME NEW p \in Nat, NEW k, NEW l, Typed(k, p), Slips(k, l), Found(k)
    PROVE  Found(l)
<1>1. \A c \in DOMAIN l.socks : EndsWell(l.socks[c])
    BY DEF Slips, SockSlips, Found
<1>2. CASE Past(l)
    BY <1>1, <1>2 DEF Found, Past
<1>3. CASE ~Past(l)
    <2>1. /\ l.stage = k.stage /\ l.proxy = k.proxy /\ l.session = k.session
          /\ l.winner = k.winner /\ l.attempt = k.attempt /\ l.connecting \subseteq k.connecting
        BY <1>3 DEF Slips
    <2>2. CASE l.stage = "StartedSuccessfully"
        <3>1. k.proxy \in DOMAIN k.socks
            BY <2>1, <2>2, TypesOf DEF Found
        <3>2. Ending(l.socks[l.proxy]) /\ Heeds(l)
            BY <2>1, <2>2, <3>1 DEF Slips, SockSlips, Lasts, Found, Heeds
        <3> QED
            BY <1>1, <2>1, <2>2, <3>2 DEF Found
    <2>3. CASE l.stage = "BeforeStarted"
        BY <1>1, <2>1, <2>3 DEF Found, Slips, SockSlips
    <2>4. CASE l.stage \notin {"BeforeStarted", "StartedSuccessfully"}
        BY <1>1, <2>1, <2>4 DEF Found
    <2> QED
        BY <2>2, <2>3, <2>4
<1> QED
    BY <1>2, <1>3
-----------------------------------------------------------------------------
(* The handlers that slip by. *)

\* A handler that numbers nothing.
SameOutput(k, l) == l.events = k.events /\ l.batch = k.batch
Follows(k, l, p) == Typed(l, p) /\ Slips(k, l) /\ SameOutput(k, l)

LEMMA FollowsTrans ==
    ASSUME NEW p \in Nat, NEW k, NEW l, NEW m, Typed(k, p), Follows(k, l, p),
           Follows(l, m, p)
    PROVE  Follows(k, m, p)
BY SlipsTrans DEF Follows, SameOutput

LEMMA FollowsSelf == ASSUME NEW p \in Nat, NEW k, Typed(k, p) PROVE Follows(k, k, p)
BY SlipsSelf DEF Follows, SameOutput

LEMMA FieldsFollow ==
    ASSUME NEW p \in Nat, NEW k, NEW l, Typed(k, p), l \in Connection(p),
           l.socks = k.socks, l.proxy = k.proxy, SameOutput(k, l),
           Past(l) \/ l.stage = k.stage,
           ~Past(l) => /\ l.session = k.session /\ l.winner = k.winner
                       /\ l.attempt = k.attempt /\ l.connecting \subseteq k.connecting
    PROVE  Follows(k, l, p)
<1>1. Typed(l, p)
    <2>1. Items(l) = Items(k)
        BY DEF Items, SameOutput
    <2> QED
        BY <2>1 DEF Typed
<1>2. Slips(k, l)
    BY TypesOf DEF Slips, SockSlips, Lasts, SameOutput
<1> QED
    BY <1>1, <1>2 DEF Follows

\* What two connections have in common that differ in a socket.
SameFields(k, l) ==
    /\ l.stage = k.stage /\ l.attempt = k.attempt /\ l.winner = k.winner
    /\ l.session = k.session /\ l.connecting = k.connecting /\ l.proxy = k.proxy
    /\ SameOutput(k, l)

LEMMA WithSockTyped ==
    ASSUME NEW p \in Nat, NEW k, Typed(k, p), NEW c \in DOMAIN k.socks, NEW x \in Sock
    PROVE  LET l == WithSock(k, c, x)
           IN  /\ Typed(l, p) /\ SameFields(k, l)
               /\ DOMAIN l.socks = DOMAIN k.socks /\ l.socks[c] = x
               /\ \A d \in DOMAIN k.socks \ {c} : l.socks[d] = k.socks[d]
<1> DEFINE socks == [k.socks EXCEPT ![c] = x]
           l == WithSock(k, c, x)
<1>1. k \in Connection(p) /\ k.socks \in Seq(Sock)
    BY TypesOf
<1>2. /\ socks \in Seq(Sock) /\ Len(socks) = Len(k.socks) /\ DOMAIN socks = DOMAIN k.socks
      /\ socks[c] = x /\ \A d \in DOMAIN k.socks \ {c} : socks[d] = k.socks[d]
    BY <1>1, ExceptSeq
<1>3. l = [k EXCEPT !.socks = socks]
    BY DEF WithSock
<1> HIDE DEF socks, l
<1>4. l \in Connection(p) /\ l.socks = socks /\ SameFields(k, l)
    BY <1>1, <1>2, <1>3 DEF Connection, SameFields, SameOutput
<1>5. Items(l) = Items(k)
    BY <1>4 DEF Items, SameFields, SameOutput
<1>6. Typed(l, p)
    BY <1>2, <1>4, <1>5 DEF Typed, SameFields
<1> QED
    BY <1>2, <1>4, <1>6 DEF l

LEMMA SocketFollows ==
    ASSUME NEW p \in Nat, NEW k, Typed(k, p), NEW c \in DOMAIN k.socks, NEW x \in Sock,
           SockSlips(k.socks[c], x),
           k.stage = "StartedSuccessfully" /\ c = k.proxy => Lasts(k.socks[c], x)
    PROVE  Follows(k, WithSock(k, c, x), p) /\ SameFields(k, WithSock(k, c, x))
<1> DEFINE l == WithSock(k, c, x)
<1>1. /\ Typed(l, p) /\ SameFields(k, l)
      /\ DOMAIN l.socks = DOMAIN k.socks /\ l.socks[c] = x
      /\ \A d \in DOMAIN k.socks \ {c} : l.socks[d] = k.socks[d]
    BY WithSockTyped
<1> HIDE DEF l
<1>2. Slips(k, l)
    <2>1. ASSUME NEW d \in DOMAIN k.socks
          PROVE  /\ SockSlips(k.socks[d], l.socks[d])
                 /\ l.stage = "StartedSuccessfully" /\ d = k.proxy =>
                       Lasts(k.socks[d], l.socks[d])
        <3>1. CASE d = c
            BY <1>1, <3>1 DEF SameFields
        <3>2. CASE d # c
            BY <1>1, <3>2 DEF SockSlips, Lasts
        <3> QED
            BY <3>1, <3>2
    <2>2. Len(k.events) <= Len(l.events)
        BY <1>1, TypesOf DEF SameFields, SameOutput
    <2> QED
        BY <1>1, <2>1, <2>2 DEF Slips, SameFields
<1>3. Follows(k, l, p)
    BY <1>1, <1>2 DEF Follows, SameFields
<1> QED
    BY <1>1, <1>3 DEF l

\* A socket that has the same left to tell.
SameEnd(x, y) == y.attempt = x.attempt /\ y.alive = x.alive /\ y.down = x.down

LEMMA EndFollows ==
    ASSUME NEW p \in Nat, NEW k, Typed(k, p), NEW c \in DOMAIN k.socks, NEW x \in Sock,
           SameEnd(k.socks[c], x)
    PROVE  Follows(k, WithSock(k, c, x), p) /\ SameFields(k, WithSock(k, c, x))
<1>1. SockSlips(k.socks[c], x) /\ Lasts(k.socks[c], x)
    BY DEF SameEnd, SockSlips, Lasts, EndsWell, Ending
<1> QED
    BY <1>1, SocketFollows

LEMMA CloseProxyFollows ==
    ASSUME NEW p \in Nat, NEW k, Typed(k, p)
    PROVE  Follows(k, CloseProxy(k), p) /\ SameFields(k, CloseProxy(k))
<1>1. CASE k.proxy = 0
    BY <1>1, FollowsSelf DEF CloseProxy, SameFields, SameOutput
<1>2. CASE k.proxy # 0
    <2> DEFINE x == k.socks[k.proxy]
               y == [x EXCEPT !.open = FALSE]
    <2>1. k.proxy \in DOMAIN k.socks /\ x \in Sock
        BY <1>2, TypesOf
    <2>2. y \in Sock /\ SameEnd(x, y)
        <3> HIDE DEF x
        <3> QED
            BY <2>1 DEF Sock, SameEnd
    <2>3. CloseProxy(k) = WithSock(k, k.proxy, y)
        BY <1>2 DEF CloseProxy, WithSock
    <2> HIDE DEF y
    <2> QED
        BY <2>1, <2>2, <2>3, EndFollows
<1> QED
    BY <1>1, <1>2

LEMMA AbortFollows ==
    ASSUME NEW p \in Nat, NEW k, Typed(k, p)
    PROVE  Follows(k, Abort(k), p) /\ SameFields(k, Abort(k))
<1>1. CASE k.stage = "Reconnecting" /\ k.first
    <2> DEFINE l == [k EXCEPT !.first = FALSE, !.cut = k.cut + 1]
    <2>1. k \in Connection(p) /\ k.cut + 1 \in Nat
        BY TypesOf DEF Connection
    <2>2. l \in Connection(p) /\ l.socks = k.socks /\ SameFields(k, l)
        BY <2>1 DEF Connection, SameFields, SameOutput
    <2>3. Abort(k) = l
        BY <1>1 DEF Abort
    <2> HIDE DEF l
    <2> QED
        BY <2>2, <2>3, FieldsFollow DEF SameFields
<1>2. CASE ~(k.stage = "Reconnecting" /\ k.first)
    BY <1>2, FollowsSelf DEF Abort, SameFields, SameOutput
<1> QED
    BY <1>1, <1>2

LEMMA CloseFollows ==
    ASSUME NEW p \in Nat, NEW k, Typed(k, p)
    PROVE  Follows(k, Close(k), p) /\ SameFields(k, Close(k))
<1>1. Follows(k, Abort(k), p) /\ SameFields(k, Abort(k)) /\ Typed(Abort(k), p)
    BY AbortFollows DEF Follows
<1>2. Follows(Abort(k), Close(k), p) /\ SameFields(Abort(k), Close(k))
    BY <1>1, CloseProxyFollows DEF Close
<1> QED
    BY <1>1, <1>2, FollowsTrans DEF SameFields, SameOutput

LEMMA EndingFollows ==
    ASSUME NEW p \in Nat, NEW k, Typed(k, p)
    PROVE  Follows(k, CloseWithoutReconnection(k), p) /\ Follows(k, Drop(k), p)
<1> DEFINE j == Close(k)
           f == CloseWithoutReconnection(k)
           d == Drop(k)
<1>1. Follows(k, j, p) /\ Typed(j, p) /\ j \in Connection(p)
    BY CloseFollows, TypesOf DEF Follows
<1>2. /\ f = [j EXCEPT !.stage = "Finished"]
      /\ d = [j EXCEPT !.stage = "Dropped", !.connecting = {}, !.timers = {},
                       !.first = FALSE, !.loose = 0, !.cut = 0, !.idle = FALSE]
    BY DEF CloseWithoutReconnection, Drop
<1> HIDE DEF j, f, d
<1>3. /\ f \in Connection(p) /\ f.socks = j.socks /\ SameOutput(j, f)
      /\ f.proxy = j.proxy /\ f.stage = "Finished"
    BY <1>1, <1>2 DEF Connection, SameOutput, Stages
<1>4. /\ d \in Connection(p) /\ d.socks = j.socks /\ SameOutput(j, d)
      /\ d.proxy = j.proxy /\ d.stage = "Dropped"
    BY <1>1, <1>2 DEF Connection, SameOutput, Stages
<1>5. Follows(j, f, p) /\ Follows(j, d, p)
    BY <1>1, <1>3, <1>4, FieldsFollow DEF Past
<1> QED
    BY <1>1, <1>5, FollowsTrans DEF f, d

LEMMA SendFollows ==
    ASSUME NEW p \in Nat, NEW k, Typed(k, p), NEW m \in Messages(UpTypes)
    PROVE  Follows(k, Send(k, m), p) /\ SameFields(k, Send(k, m))
<1>1. CASE k.proxy # 0 /\ k.socks[k.proxy].open /\ k.socks[k.proxy].alive
    <2> DEFINE x == k.socks[k.proxy]
               q == Append(x.up, m)
               y == [x EXCEPT !.up = q]
    <2>1. k.proxy \in DOMAIN k.socks /\ x \in Sock
        BY <1>1, TypesOf
    <2>2. q \in Seq(Messages(UpTypes))
        <3>1. x.up \in Seq(Messages(UpTypes))
            BY <2>1 DEF Sock
        <3> QED
            BY <3>1
    <2>3. Send(k, m) = WithSock(k, k.proxy, y)
        BY <1>1 DEF Send, WithSock
    <2> HIDE DEF q
    <2>4. y \in Sock /\ SameEnd(x, y)
        <3> HIDE DEF x
        <3> QED
            BY <2>1, <2>2 DEF Sock, SameEnd
    <2> HIDE DEF y
    <2> QED
        BY <2>1, <2>3, <2>4, EndFollows
<1>2. CASE ~(k.proxy # 0 /\ k.socks[k.proxy].open /\ k.socks[k.proxy].alive)
    BY <1>2, FollowsSelf DEF Send, SameFields, SameOutput
<1> QED
    BY <1>1, <1>2

LEMMA EndSessionFollows ==
    ASSUME NEW p \in Nat, NEW k, Typed(k, p)
    PROVE  Follows(k, EndSession(k), p)
<1> DEFINE m == Msg("EndSession", 0)
           j == IF k.stage = "StartedSuccessfully" THEN Send(k, m) ELSE k
<1>1. m \in Messages(UpTypes)
    BY NumbersOf DEF Msg, Messages, UpTypes
<1> HIDE DEF m
<1>2. Follows(k, j, p) /\ Typed(j, p)
    BY <1>1, SendFollows, FollowsSelf DEF Follows
<1>3. EndSession(k) = CloseWithoutReconnection(j)
    BY DEF EndSession, m
<1> HIDE DEF j
<1> QED
    BY <1>2, <1>3, EndingFollows, FollowsTrans
\* A start that failed: the next attempt, or the end.
LEMMA StartupFailureKeeps ==
    ASSUME NEW p \in Nat, NEW k, Typed(k, p), NEW retryable, Found(k)
    PROVE  LET l == HandleStartupFailure(k, retryable)
           IN  /\ Typed(l, p) /\ Found(l) /\ SameOutput(k, l)
<1> DEFINE l == HandleStartupFailure(k, retryable)
<1>1. CASE k.stage = "BeforeStarted" /\ retryable /\ k.attempt < MaxAttempts
    <2> DEFINE j == CloseProxy(k)
               a == k.attempt + 1
               timers == IF MaxAttempts > 1 THEN j.timers \cup {a} ELSE j.timers
    <2>1. /\ Follows(k, j, p) /\ Typed(j, p) /\ SameFields(k, j) /\ j \in Connection(p)
          /\ Found(j)
        BY CloseProxyFollows, SlipsFound, TypesOf DEF Follows
    <2>2. /\ l = [j EXCEPT !.attempt = a, !.proxy = 0, !.idle = FALSE,
                           !.connecting = j.connecting \cup {a}, !.timers = timers]
        BY <1>1 DEF HandleStartupFailure, StartCreateSessionAttempt
    <2>3. /\ a \in 1..MaxAttempts /\ j.connecting \cup {a} \in SUBSET (1..MaxAttempts)
          /\ timers \in SUBSET (1..MaxAttempts) /\ k.attempt \in Nat /\ a = k.attempt + 1
        <3>1. a \in 1..MaxAttempts /\ k.attempt \in Nat
            BY <1>1, NumbersOf, TypesOf
        <3>2. j.connecting \in SUBSET (1..MaxAttempts) /\ j.timers \in SUBSET (1..MaxAttempts)
            BY <2>1 DEF Connection
        <3> HIDE DEF j, a
        <3>3. timers \in SUBSET (1..MaxAttempts)
            BY <3>1, <3>2
        <3> QED
            BY <3>1, <3>2, <3>3 DEF a
    <2> HIDE DEF j, l, a, timers
    <2>4. /\ l \in Connection(p) /\ l.socks = j.socks /\ SameOutput(j, l)
          /\ l.proxy = 0 /\ l.stage = j.stage /\ l.attempt = a
        BY <2>1, <2>2, <2>3 DEF Connection, SameOutput
    <2>5. Items(l) = Items(j)
        BY <2>4 DEF Items, SameOutput
    <2>6. Typed(l, p)
        BY <2>1, <2>4, <2>5, TypesOf DEF Typed
    <2>7. \A c \in DOMAIN l.socks : l.socks[c].attempt \in Nat /\ l.socks[c].attempt < a
        <3> SUFFICES ASSUME NEW c \in DOMAIN l.socks
                     PROVE  l.socks[c].attempt \in Nat /\ l.socks[c].attempt < a
            OBVIOUS
        <3>1. l.socks[c].attempt <= k.attempt
            BY <1>1, <2>1, <2>4 DEF Found, SameFields
        <3>2. l.socks[c] \in Sock
            BY <2>6, TypesOf
        <3>3. l.socks[c].attempt \in 0..MaxAttempts
            BY <3>2 DEF Sock
        <3> QED
            BY <2>3, <3>1, <3>3, NumbersOf
    <2>8. a \in Nat
        BY <2>3
    <2>9. Found(l)
        BY <1>1, <2>1, <2>4, <2>7, <2>8 DEF Found, SameFields
    <2> QED
        BY <2>1, <2>4, <2>6, <2>9 DEF SameFields, SameOutput, l
<1>2. CASE ~(k.stage = "BeforeStarted" /\ retryable /\ k.attempt < MaxAttempts)
    <2>1. l \in {k, Drop(k)}
        BY <1>2 DEF HandleStartupFailure
    <2>2. Follows(k, l, p)
        BY <2>1, FollowsSelf, EndingFollows
    <2> QED
        BY <2>2, SlipsFound DEF Follows
<1> QED
    BY <1>1, <1>2

\* A reconnect begins only where the proxy has had a socket.
LEMMA ReconnectFound ==
    ASSUME NEW p \in Nat, NEW k, NEW s, Typed(k, p), SessionInv(k, s), k.stage # "Dropped",
           \/ Found(k)
           \/ /\ k.stage = "StartedSuccessfully" /\ k.proxy # 0 /\ k.session # 0
              /\ \A c \in DOMAIN k.socks : EndsWell(k.socks[c])
    PROVE  LET l == ReconnectWebsocket(k)
           IN  /\ Typed(l, p) /\ Found(l) /\ SameOutput(k, l)
<1> DEFINE l == ReconnectWebsocket(k)
<1>1. CASE k.stage \in {"Finished", "Reconnecting"} \/ k.session = 0
    BY <1>1 DEF ReconnectWebsocket, SameOutput
<1>2. CASE ~(k.stage \in {"Finished", "Reconnecting"} \/ k.session = 0)
    <2>1. k.stage = "StartedSuccessfully"
        BY <1>2, TypesOf DEF SessionInv, NotStarted, Stages
    <2>2. l = [k EXCEPT !.stage = "Reconnecting", !.first = TRUE]
        BY <1>2 DEF ReconnectWebsocket
    <2>3. k \in Connection(p)
        BY TypesOf
    <2> HIDE DEF l
    <2>4. /\ l \in Connection(p) /\ l.socks = k.socks /\ SameOutput(k, l)
          /\ l.proxy = k.proxy /\ l.stage = "Reconnecting" /\ l.session = k.session
        BY <2>2, <2>3 DEF Connection, SameOutput, Stages
    <2>5. Items(l) = Items(k)
        BY <2>4 DEF Items, SameOutput
    <2>6. Typed(l, p)
        BY <2>4, <2>5 DEF Typed
    <2>7. Found(l)
        BY <2>1, <2>4 DEF Found
    <2> QED
        BY <2>4, <2>6, <2>7 DEF l
<1> QED
    BY <1>1, <1>2

-----------------------------------------------------------------------------
(* What is numbered and sent. *)

\* Publishing adds one event at most, and nothing to the batch.
LEMMA PublishFollows ==
    ASSUME NEW p \in Nat, NEW k, Typed(k, p), NEW items \in Seq(1..p),
           k.batch = <<>>, Len(k.events) + 1 <= p, p <= MaxItems
    PROVE  LET l == Publish(k, items)
           IN  /\ Typed(l, p) /\ Slips(k, l) /\ l.batch = <<>>
               /\ Len(l.events) <= Len(k.events) + 1
<1> DEFINE n == Len(k.events)
           counted == [k EXCEPT !.shared = @ + Len(items)]
           stored == [counted EXCEPT !.events = Append(@, items), !.unacked = @ \cup {n}]
<1>1. k \in Connection(p) /\ n \in Nat /\ k.events \in Seq(Seq(1..p))
    BY TypesOf
<1>2. counted \in Connection(p) /\ counted.socks = k.socks /\ SameFields(k, counted)
      /\ counted.unacked = k.unacked
    <2>1. k.shared + Len(items) \in Nat
        BY <1>1 DEF Connection
    <2> QED
        BY <1>1, <2>1 DEF Connection, SameFields, SameOutput
<1>3. Publish(k, items) =
        IF counted.shared > MaxSize THEN EndSession(counted)
        ELSE IF k.stage = "StartedSuccessfully" THEN Send(stored, Msg("Event", n)) ELSE stored
    BY DEF Publish
<1> HIDE DEF counted
<1>4. Follows(k, counted, p) /\ Typed(counted, p)
    BY <1>2, FieldsFollow DEF SameFields, Follows
<1>5. CASE counted.shared > MaxSize
    <2>1. Follows(k, EndSession(counted), p)
        BY <1>4, EndSessionFollows, FollowsTrans
    <2> QED
        BY <1>1, <1>3, <1>5, <2>1 DEF Follows, SameOutput
<1>6. CASE ~(counted.shared > MaxSize)
    <2> DEFINE q == Append(k.events, items)
    <2>1. q \in Seq(Seq(1..p)) /\ Len(q) = n + 1
        BY <1>1
    <2>2. k.unacked \cup {n} \in SUBSET Int
        BY <1>1 DEF Connection
    <2>3. stored = [counted EXCEPT !.events = q, !.unacked = k.unacked \cup {n}]
        BY <1>2 DEF SameFields, SameOutput
    <2> HIDE DEF stored, q
    <2>4. /\ stored \in Connection(p) /\ stored.socks = k.socks /\ stored.events = q
          /\ stored.batch = <<>> /\ stored.proxy = k.proxy /\ stored.stage = k.stage
          /\ stored.session = k.session /\ stored.winner = k.winner
          /\ stored.attempt = k.attempt /\ stored.connecting = k.connecting
        BY <1>2, <2>1, <2>2, <2>3 DEF Connection, SameFields, SameOutput
    <2>5. Items(stored) = n + 1
        BY <1>1, <2>1, <2>4 DEF Items
    <2>6. Typed(stored, p) /\ Slips(k, stored)
        <3>1. Typed(stored, p)
            BY <2>4, <2>5 DEF Typed
        <3> QED
            BY <1>1, <2>1, <2>4, <3>1, TypesOf DEF Slips, SockSlips, Lasts
    <2>7. Msg("Event", n) \in Messages(UpTypes)
        <3>1. n \in -1..(MaxItems + MaxAttempts)
            BY <1>1, NumbersOf
        <3> HIDE DEF n
        <3> QED
            BY <3>1 DEF Msg, Messages, UpTypes
    <2>8. Follows(stored, Publish(k, items), p)
        <3>1. Publish(k, items) \in {stored, Send(stored, Msg("Event", n))}
            BY <1>3, <1>6
        <3> HIDE DEF n
        <3> QED
            BY <2>6, <2>7, <3>1, SendFollows, FollowsSelf
    <2>9. Slips(k, Publish(k, items))
        BY <2>6, <2>8, SlipsTrans DEF Follows
    <2> QED
        BY <1>1, <2>1, <2>4, <2>8, <2>9 DEF Follows, SameOutput
<1> QED
    BY <1>5, <1>6

LEMMA FlushBatchFollows ==
    ASSUME NEW p \in Nat, NEW k, Typed(k, p), p <= MaxItems
    PROVE  LET l == FlushBatch(k)
           IN  /\ Typed(l, p) /\ Slips(k, l) /\ l.batch = <<>>
               /\ Len(l.events) <= Items(k)
<1>1. CASE k.batch = <<>>
    BY <1>1, SlipsSelf, TypesOf DEF FlushBatch, Items
<1>2. CASE k.batch # <<>>
    <2> DEFINE l == [k EXCEPT !.batch = <<>>]
    <2>1. /\ k \in Connection(p) /\ k.batch \in Seq(1..p) /\ Len(k.events) \in Nat
          /\ <<>> \in Seq(1..p)
        BY TypesOf
    <2>2. /\ l \in Connection(p) /\ l.socks = k.socks /\ l.events = k.events
          /\ l.batch = <<>> /\ l.proxy = k.proxy /\ l.stage = k.stage
          /\ l.session = k.session /\ l.winner = k.winner
          /\ l.attempt = k.attempt /\ l.connecting = k.connecting
        BY <2>1 DEF Connection
    <2>3. FlushBatch(k) = Publish(l, k.batch)
        BY <1>2 DEF FlushBatch
    <2> HIDE DEF l
    <2>4. Items(k) = Len(k.events) + 1 /\ Items(l) = Len(k.events)
        BY <1>2, <2>1, <2>2 DEF Items
    <2>5. Items(k) <= p
        BY DEF Typed
    <2>6. Typed(l, p)
        BY <2>1, <2>2, <2>4, <2>5 DEF Typed
    <2>7. Slips(k, l)
        BY <2>1, <2>2 DEF Slips, SockSlips, Lasts
    <2>8. /\ Typed(FlushBatch(k), p) /\ Slips(l, FlushBatch(k))
          /\ FlushBatch(k).batch = <<>> /\ Len(FlushBatch(k).events) <= Len(l.events) + 1
        BY <2>1, <2>2, <2>3, <2>4, <2>5, <2>6, PublishFollows
    <2> QED
        BY <2>2, <2>4, <2>6, <2>7, <2>8, SlipsTrans
<1> QED
    BY <1>1, <1>2

\* Flushing sends what is stored from some event on.
LEMMA FlushFollows ==
    ASSUME NEW p \in Nat, NEW k, Typed(k, p), p <= MaxItems, k \in Network,
           NEW start,
           Feeds(k) => start \in 0..Len(k.events) /\ start..(Len(k.events) - 1) \subseteq k.unacked
    PROVE  Follows(k, Flush(k, start), p) /\ SameFields(k, Flush(k, start))
<1>1. CASE Feeds(k)
    <2> DEFINE n == Len(k.events)
               x == k.socks[k.proxy]
               e == Events(start, n)
               q == x.up \o e
               y == [x EXCEPT !.up = q]
    <2>1. /\ k.proxy \in DOMAIN k.socks /\ x \in Sock /\ n \in Nat /\ n <= p
          /\ start \in Nat /\ start <= n
        BY <1>1, TypesOf DEF Feeds
    <2>2. Flush(k, start) = WithSock(k, k.proxy, y)
        BY <1>1, FlushSends
    <2>3. e \in Seq(Messages(UpTypes))
        <3>1. ASSUME NEW i \in 1..(n - start)
              PROVE  Msg("Event", start + i - 1) \in Messages(UpTypes)
            <4>1. start + i - 1 \in -1..(MaxItems + MaxAttempts)
                BY <2>1, NumbersOf
            <4> QED
                BY <4>1 DEF Msg, Messages, UpTypes
        <3>2. n - start \in Nat
            BY <2>1
        <3> QED
            BY <3>1, <3>2 DEF Events
    <2> HIDE DEF e
    <2>4. q \in Seq(Messages(UpTypes))
        <3>1. x.up \in Seq(Messages(UpTypes))
            BY <2>1 DEF Sock
        <3> HIDE DEF x
        <3> QED
            BY <2>3, <3>1
    <2> HIDE DEF q
    <2>5. y \in Sock /\ SameEnd(x, y)
        <3> HIDE DEF x
        <3> QED
            BY <2>1, <2>4 DEF Sock, SameEnd
    <2> HIDE DEF y
    <2> QED
        BY <2>1, <2>2, <2>5, EndFollows
<1>2. CASE ~Feeds(k)
    BY <1>2, FollowsSelf DEF Flush, Feeds, SameFields, SameOutput
<1> QED
    BY <1>1, <1>2
-----------------------------------------------------------------------------
(* The actions of the sharer. *)

\* What a step does to the connection.
Goes ==
    /\ Typed(net', produced') /\ Found(net')
    /\ Len(net.events) <= Len(net'.events)

LEMMA HeldTypes ==
    ASSUME Held
    PROVE  /\ produced \in Nat /\ produced <= MaxItems /\ Typed(net, produced)
           /\ WellFormed(net) /\ net \in Network /\ net \in Connection(produced)
           /\ SessionInv(net, server) /\ Found(net) /\ Inv
           /\ Len(net.events) \in Nat /\ Len(net.socks) \in Nat
BY TypesOf, NumbersOf DEF Held, Inv, SessionInv, WellFormed

LEMMA SlipsGoes ==
    ASSUME Held, Typed(net', produced), Slips(net, net'), produced' = produced
    PROVE  Goes
BY HeldTypes, SlipsFound DEF Goes, Slips

\* Of more items produced.
LEMMA TypedMore ==
    ASSUME NEW p \in Nat, NEW k, Typed(k, p) PROVE Typed(k, p + 1)
<1>1. 1..p \subseteq 1..(p + 1)
    OBVIOUS
<1>2. Seq(1..p) \subseteq Seq(1..(p + 1))
    BY <1>1
<1>3. Seq(Seq(1..p)) \subseteq Seq(Seq(1..(p + 1)))
    BY <1>2
<1>4. k \in Connection(p + 1)
    BY <1>2, <1>3 DEF Typed, Connection
<1>5. Items(k) \in Int
    BY TypesOf DEF Items
<1> QED
    BY <1>4, <1>5 DEF Typed

LEMMA OutputGoes ==
    ASSUME Held, PtyBytesRead \/ OtherEvent \/ BatchTimer PROVE Goes
<1>1. /\ produced \in Nat /\ produced <= MaxItems /\ Typed(net, produced)
      /\ Typed(net, produced + 1) /\ net \in Connection(produced + 1) /\ Found(net)
      /\ Items(net) <= produced /\ Len(net.events) \in Nat
      /\ Items(net) \in Nat /\ Len(net.events) <= Items(net)
    <2>1. /\ produced \in Nat /\ produced <= MaxItems /\ Typed(net, produced)
          /\ Typed(net, produced + 1) /\ Found(net) /\ Len(net.events) \in Nat
        BY HeldTypes, TypedMore
    <2>2. Items(net) \in Nat /\ Len(net.events) <= Items(net) /\ Items(net) <= produced
        BY <2>1, TypesOf
    <2> QED
        BY <2>1, <2>2, TypesOf DEF Typed
<1>2. CASE PtyBytesRead
    <2> DEFINE p == produced + 1
               b == Append(net.batch, p)
    <2>1. net' = [net EXCEPT !.batch = b] /\ produced' = p
        BY <1>2 DEF PtyBytesRead
    <2>2. b \in Seq(1..p) /\ b # <<>> /\ p \in Nat
        <3>1. net.batch \in Seq(1..p) /\ p \in 1..p
            BY <1>1 DEF Connection
        <3> HIDE DEF p
        <3>2. b \in Seq(1..p) /\ b # <<>>
            BY <3>1
        <3> QED
            BY <1>1, <3>2 DEF p
    <2>3. net \in Connection(p)
        BY <1>1
    <2> HIDE DEF b
    <2>4. /\ net' \in Connection(p) /\ net'.socks = net.socks /\ net'.events = net.events
          /\ net'.batch = b /\ net'.proxy = net.proxy /\ net'.stage = net.stage
          /\ net'.session = net.session /\ net'.winner = net.winner
          /\ net'.attempt = net.attempt /\ net'.connecting = net.connecting
        BY <2>1, <2>2, <2>3 DEF Connection
    <2>5. Items(net') = Len(net.events) + 1
        BY <2>2, <2>4 DEF Items
    <2>6. Items(net') <= p
        BY <1>1, <2>5
    <2>7. Typed(net', p)
        BY <1>1, <2>4, <2>6 DEF Typed
    <2>8. Slips(net, net')
        BY <1>1, <2>4 DEF Slips, SockSlips, Lasts
    <2> QED
        BY <1>1, <2>1, <2>4, <2>7, <2>8, SlipsFound DEF Goes
<1>3. CASE BatchTimer
    BY <1>1, <1>3, FlushBatchFollows, SlipsGoes DEF BatchTimer
<1>4. CASE OtherEvent
    <2> DEFINE p == produced + 1
               k == FlushBatch(net)
    <2>1. /\ net' = Publish(k, <<p>>) /\ produced' = p /\ p \in Nat /\ p <= MaxItems
        BY <1>1, <1>4, NumbersOf DEF OtherEvent
    <2>2. Typed(k, p) /\ Slips(net, k) /\ k.batch = <<>> /\ Len(k.events) <= Items(net)
        BY <1>1, <2>1, FlushBatchFollows
    <2>3. <<p>> \in Seq(1..p) /\ Len(k.events) + 1 <= p
        <3>1. p \in 1..p /\ Len(k.events) \in Nat
            BY <2>1, <2>2, TypesOf, <1>1
        <3>2. Len(k.events) + 1 <= p
            BY <1>1, <2>2, <3>1
        <3> HIDE DEF p
        <3> QED
            BY <3>1, <3>2
    <2> HIDE DEF p, k
    <2>4. Typed(net', p) /\ Slips(k, net')
        BY <2>1, <2>2, <2>3, PublishFollows
    <2>5. Slips(net, net')
        BY <1>1, <2>1, <2>2, <2>4, SlipsTrans DEF p
    <2>6. Found(net')
        BY <1>1, <2>5, SlipsFound
    <2> QED
        BY <2>1, <2>4, <2>5, <2>6 DEF Goes, Slips
<1> QED
    BY <1>2, <1>3, <1>4

LEMMA StopSharingGoes == ASSUME Held, StopSharing PROVE Goes
<1>1. produced \in Nat /\ Typed(net, produced)
    BY HeldTypes
<1>2. Follows(net, EndSession(net), produced) /\ Typed(EndSession(net), produced)
    BY <1>1, EndSessionFollows DEF Follows
<1>3. Follows(net, Drop(EndSession(net)), produced)
    BY <1>1, <1>2, EndingFollows, FollowsTrans
<1> QED
    BY <1>3, SlipsGoes DEF StopSharing, Follows

LEMMA StartupLess ==
    ASSUME NEW p \in Nat, NEW k, Typed(k, p), NEW a
    PROVE  /\ Follows(k, [k EXCEPT !.connecting = @ \ {a}], p)
           /\ Follows(k, [k EXCEPT !.timers = @ \ {a}], p)
           /\ [k EXCEPT !.connecting = @ \ {a}].connecting = k.connecting \ {a}
<1>1. /\ k \in Connection(p) /\ k.connecting \ {a} \in SUBSET (1..MaxAttempts)
      /\ k.timers \ {a} \in SUBSET (1..MaxAttempts)
    BY TypesOf DEF Connection
<1> DEFINE l == [k EXCEPT !.connecting = @ \ {a}]
           m == [k EXCEPT !.timers = @ \ {a}]
<1>2. /\ l \in Connection(p) /\ l.socks = k.socks /\ l.proxy = k.proxy /\ SameOutput(k, l)
      /\ l.stage = k.stage /\ l.session = k.session /\ l.winner = k.winner
      /\ l.attempt = k.attempt /\ l.connecting = k.connecting \ {a}
    BY <1>1 DEF Connection, SameOutput
<1>3. /\ m \in Connection(p) /\ m.socks = k.socks /\ m.proxy = k.proxy /\ SameOutput(k, m)
      /\ m.stage = k.stage /\ m.session = k.session /\ m.winner = k.winner
      /\ m.attempt = k.attempt /\ m.connecting = k.connecting
    BY <1>1 DEF Connection, SameOutput
<1> HIDE DEF l, m
<1>4. Follows(k, l, p) /\ Follows(k, m, p)
    BY <1>2, <1>3, FieldsFollow
<1> QED
    BY <1>2, <1>4 DEF l, m

LEMMA StartupFailsGoes ==
    ASSUME Held, NEW a, StartupConnectFails(a) \/ StartupTimeout(a) PROVE Goes
<1>1. produced \in Nat /\ Typed(net, produced) /\ Found(net)
    BY HeldTypes
<1>2. produced' = produced /\
      \E k \in {[net EXCEPT !.connecting = @ \ {a}], [net EXCEPT !.timers = @ \ {a}]} :
          net' \in {k, HandleStartupFailure(k, TRUE)}
    BY DEF StartupConnectFails, StartupTimeout
<1>3. PICK k \in {[net EXCEPT !.connecting = @ \ {a}], [net EXCEPT !.timers = @ \ {a}]} :
          net' \in {k, HandleStartupFailure(k, TRUE)}
    BY <1>2
<1>4. Follows(net, k, produced)
    <2>1. Follows(net, [net EXCEPT !.connecting = @ \ {a}], produced)
        BY <1>1, StartupLess
    <2>2. Follows(net, [net EXCEPT !.timers = @ \ {a}], produced)
        BY <1>1, StartupLess
    <2> QED
        BY <1>3, <2>1, <2>2
<1>5. Typed(k, produced) /\ Found(k) /\ SameOutput(net, k)
    BY <1>1, <1>4, SlipsFound DEF Follows
<1> DEFINE l == HandleStartupFailure(k, TRUE)
<1>6. Typed(l, produced) /\ Found(l) /\ SameOutput(k, l)
    BY <1>1, <1>5, StartupFailureKeeps
<1> HIDE DEF l
<1>7. Typed(net', produced) /\ Found(net') /\ SameOutput(k, net')
    BY <1>3, <1>5, <1>6 DEF SameOutput, l
<1> QED
    BY <1>2, <1>5, <1>7, HeldTypes DEF Goes, SameOutput
\* The connection with a new socket.
LEMMA ConnectTyped ==
    ASSUME NEW p \in Nat, NEW k, Typed(k, p), Len(k.socks) < MaxSockets,
           NEW a \in 0..MaxAttempts, NEW hello \in Messages(UpTypes)
    PROVE  LET l == OnWebsocketConnected(k, a, hello)
               n == Len(k.socks) + 1
           IN  /\ Typed(l, p) /\ SameOutput(k, l) /\ l.stage = k.stage
               /\ l.attempt = k.attempt /\ l.connecting = k.connecting
               /\ l.session = k.session /\ l.proxy = n /\ n # 0
               /\ DOMAIN l.socks = 1..n /\ DOMAIN k.socks = 1..(n - 1)
               /\ l.socks[n].attempt = a /\ l.socks[n].alive
               /\ \A c \in 1..(n - 1) : l.socks[c] = k.socks[c]
<1> DEFINE x == NewSocket(a, hello)
           socks == Append(k.socks, x)
           n == Len(k.socks) + 1
           l == OnWebsocketConnected(k, a, hello)
<1>1. /\ k \in Connection(p) /\ k.socks \in Seq(Sock) /\ Len(k.socks) \in Nat
      /\ DOMAIN k.socks = 1..Len(k.socks)
    BY TypesOf
<1>2. l = [k EXCEPT !.socks = socks, !.proxy = n, !.idle = TRUE]
    BY DEF OnWebsocketConnected
<1>3. x \in Sock /\ x.attempt = a /\ x.alive
    <2>1. <<hello>> \in Seq(Messages(UpTypes)) /\ <<>> \in Seq(Messages(DownTypes))
        OBVIOUS
    <2> QED
        BY <2>1 DEF NewSocket, Sock
<1> HIDE DEF x
<1>4. /\ socks \in Seq(Sock) /\ Len(socks) = n /\ DOMAIN socks = 1..n
      /\ socks[n] = x /\ \A c \in 1..(n - 1) : socks[c] = k.socks[c]
    BY <1>1, <1>3
<1>5. n \in Nat \ {0} /\ n <= MaxSockets /\ n - 1 = Len(k.socks)
    BY <1>1, NumbersOf
<1> HIDE DEF socks, l, n
<1>6. /\ l \in Connection(p) /\ l.socks = socks /\ SameOutput(k, l) /\ l.proxy = n
      /\ l.stage = k.stage /\ l.attempt = k.attempt /\ l.connecting = k.connecting
      /\ l.session = k.session
    BY <1>1, <1>2, <1>4, <1>5 DEF Connection, SameOutput
<1>7. Items(l) = Items(k)
    BY <1>6 DEF Items, SameOutput
<1>8. Typed(l, p)
    BY <1>4, <1>5, <1>6, <1>7 DEF Typed
<1> QED
    BY <1>1, <1>3, <1>4, <1>5, <1>6, <1>8 DEF l, n

LEMMA StartupConnectsGoes ==
    ASSUME Held, NEW a \in 1..MaxAttempts, StartupConnects(a) PROVE Goes
<1> DEFINE k == [net EXCEPT !.connecting = @ \ {a}]
<1>1. /\ produced \in Nat /\ Typed(net, produced) /\ Found(net) /\ Len(net.socks) < MaxSockets
      /\ produced' = produced /\ a \in net.connecting /\ Len(net.events) \in Nat
      /\ net' = IF IsActiveStartupAttemptCallback(a)
                THEN OnWebsocketConnected(k, a, Msg("Initialize", a)) ELSE k
    BY HeldTypes DEF StartupConnects
<1>2. Follows(net, k, produced) /\ k.connecting = net.connecting \ {a}
    BY <1>1, StartupLess
<1>3. k.socks = net.socks /\ k.stage = net.stage /\ k.attempt = net.attempt
    BY <1>1, TypesOf DEF Connection
<1> HIDE DEF k
<1>4. CASE ~IsActiveStartupAttemptCallback(a)
    BY <1>1, <1>2, <1>4, SlipsGoes DEF Follows
<1>5. CASE IsActiveStartupAttemptCallback(a)
    <2>1. net.stage = "BeforeStarted" /\ net.attempt = a
        BY <1>5 DEF IsActiveStartupAttemptCallback
    <2> DEFINE m == Msg("Initialize", a)
               n == Len(k.socks) + 1
    <2>2. m \in Messages(UpTypes) /\ a \in 0..MaxAttempts /\ a \in Nat
        <3>1. a \in -1..(MaxItems + MaxAttempts) /\ a \in 0..MaxAttempts /\ a \in Nat
            BY NumbersOf
        <3> QED
            BY <3>1 DEF Msg, Messages, UpTypes
    <2>3. net' = OnWebsocketConnected(k, a, m)
        BY <1>1, <1>5
    <2> HIDE DEF m
    <2>4. /\ Typed(net', produced) /\ SameOutput(k, net') /\ net'.stage = k.stage
          /\ net'.attempt = k.attempt /\ net'.connecting = k.connecting
          /\ net'.proxy = n /\ n # 0
          /\ DOMAIN net'.socks = 1..n /\ DOMAIN k.socks = 1..(n - 1)
          /\ net'.socks[n].attempt = a /\ net'.socks[n].alive
          /\ \A c \in 1..(n - 1) : net'.socks[c] = k.socks[c]
        <3>1. Typed(k, produced) /\ Len(k.socks) < MaxSockets
            BY <1>1, <1>2, <1>3 DEF Follows
        <3> DEFINE l == OnWebsocketConnected(k, a, m)
        <3>2. /\ Typed(l, produced) /\ SameOutput(k, l) /\ l.stage = k.stage
              /\ l.attempt = k.attempt /\ l.connecting = k.connecting
              /\ l.proxy = n /\ n # 0
              /\ DOMAIN l.socks = 1..n /\ DOMAIN k.socks = 1..(n - 1)
              /\ l.socks[n].attempt = a /\ l.socks[n].alive
              /\ \A c \in 1..(n - 1) : l.socks[c] = k.socks[c]
            BY <1>1, <2>2, <3>1, ConnectTyped, SMTT(30)
        <3> HIDE DEF l, n
        <3> QED
            BY <2>3, <3>2 DEF l
    <2>5. n \in Nat
        BY <1>1, <1>2, TypesOf DEF Follows
    <2> HIDE DEF n
    <2>6. \A c \in 1..n : c = n \/ c \in 1..(n - 1)
        BY <2>5
    <2>7. \A c \in 1..(n - 1) :
              EndsWell(net'.socks[c]) /\ net'.socks[c].attempt <= a /\ net'.socks[c].attempt # a
        BY <1>1, <1>3, <2>1, <2>4 DEF Found
    <2>8. EndsWell(net'.socks[n])
        BY <2>4 DEF EndsWell
    <2>9. Found(net')
        BY <1>2, <1>3, <2>1, <2>2, <2>4, <2>6, <2>7, <2>8 DEF Found
    <2> QED
        BY <1>1, <1>2, <2>4, <2>9 DEF Goes, Follows, SameOutput
<1> QED
    BY <1>4, <1>5

LEMMA HeartbeatIdleGoes == ASSUME Held, HeartbeatIdle PROVE Goes
<1> DEFINE k == [net EXCEPT !.idle = FALSE]
<1>1. /\ produced \in Nat /\ Typed(net, produced) /\ Found(net) /\ WellFormed(net)
      /\ produced' = produced /\ net.idle /\ net.stage # "Dropped"
      /\ net' = ReconnectWebsocket(k) /\ Len(net.events) \in Nat
    BY HeldTypes DEF HeartbeatIdle, WellFormed
<1>2. Follows(net, k, produced) /\ k.stage = net.stage
    <2>1. net \in Connection(produced)
        BY <1>1, TypesOf
    <2>2. /\ k \in Connection(produced) /\ k.socks = net.socks /\ SameFields(net, k)
        BY <2>1 DEF Connection, SameFields, SameOutput
    <2> HIDE DEF k
    <2> QED
        BY <1>1, <2>2, FieldsFollow DEF SameFields
<1>3. Calm(net, k)
    BY <1>1, CalmIdle
<1> HIDE DEF k
<1>4. SessionInv(k, server)
    BY <1>3, HeldTypes, CalmKeeps
<1>5. Typed(k, produced) /\ Found(k)
    BY <1>1, <1>2, SlipsFound DEF Follows
<1>6. Typed(net', produced) /\ Found(net') /\ SameOutput(k, net')
    BY <1>1, <1>2, <1>4, <1>5, ReconnectFound
<1> QED
    BY <1>1, <1>2, <1>6 DEF Goes, Follows, SameOutput

\* A reconnect that ended is one less.
LEMMA TakenFollows ==
    ASSUME Held, NEW kind \in Running
    PROVE  /\ Follows(net, Taken(kind), produced) /\ Taken(kind).stage = net.stage
           /\ Taken(kind).socks = net.socks
           /\ [Taken(kind) EXCEPT !.loose = @ + 1] \in Connection(produced)
           /\ Taken(kind) \in Connection(produced)
           /\ SameFields(net, Taken(kind))
<1> DEFINE l == Taken(kind)
<1>1. /\ net \in Connection(produced) /\ Typed(net, produced) /\ produced \in Nat
      /\ net.loose \in Nat /\ net.cut \in Nat
    BY HeldTypes DEF Connection
<1>2. /\ l \in Connection(produced) /\ l.socks = net.socks /\ SameFields(net, l)
    <2>1. CASE kind = "first"
        <3>1. l = [net EXCEPT !.first = FALSE]
            BY <2>1 DEF Taken
        <3> HIDE DEF l
        <3> QED
            BY <1>1, <3>1 DEF Connection, SameFields, SameOutput
    <2>2. CASE kind = "loose"
        <3>1. l = [net EXCEPT !.loose = net.loose - 1] /\ net.loose - 1 \in Nat
            BY <1>1, <2>2 DEF Taken, Running
        <3> HIDE DEF l
        <3> QED
            BY <1>1, <3>1 DEF Connection, SameFields, SameOutput
    <2>3. CASE kind = "cut"
        <3>1. l = [net EXCEPT !.cut = net.cut - 1] /\ net.cut - 1 \in Nat
            BY <1>1, <2>3 DEF Taken, Running
        <3> HIDE DEF l
        <3> QED
            BY <1>1, <3>1 DEF Connection, SameFields, SameOutput
    <2> QED
        BY <2>1, <2>2, <2>3 DEF Running
<1> HIDE DEF l
<1>3. Follows(net, l, produced)
    BY <1>1, <1>2, FieldsFollow DEF SameFields
<1>4. [l EXCEPT !.loose = @ + 1] \in Connection(produced)
    <2>1. l.loose + 1 \in Nat
        BY <1>2 DEF Connection
    <2> QED
        BY <1>2, <2>1 DEF Connection
<1> QED
    BY <1>2, <1>3, <1>4 DEF l, SameFields

LEMMA SameLength ==
    ASSUME NEW a \in Nat, NEW b \in Nat, 1..a = 1..b PROVE a = b
<1>1. ~(a < b)
    <2> SUFFICES ASSUME a < b PROVE FALSE
        OBVIOUS
    <2>1. b \in 1..b /\ b \notin 1..a
        OBVIOUS
    <2> QED
        BY <2>1
<1>2. ~(b < a)
    <2> SUFFICES ASSUME b < a PROVE FALSE
        OBVIOUS
    <2>1. a \in 1..a /\ a \notin 1..b
        OBVIOUS
    <2> QED
        BY <2>1
<1> QED
    BY <1>1, <1>2

LEMMA ReconnectConnectsGoes == ASSUME Held, ReconnectConnects PROVE Goes
<1>1. PICK kind \in Running :
          net' = OnWebsocketConnected(CloseProxy(Taken(kind)), 0, Msg("Reconnect", 0))
    BY DEF ReconnectConnects
<1> DEFINE j == Taken(kind)
           k == CloseProxy(j)
           m == Msg("Reconnect", 0)
           n == Len(k.socks) + 1
<1>2. /\ produced \in Nat /\ Typed(net, produced) /\ Found(net) /\ Len(net.socks) < MaxSockets
      /\ produced' = produced /\ WellFormed(net) /\ Len(net.events) \in Nat
    BY HeldTypes DEF ReconnectConnects
<1>3. Follows(net, j, produced) /\ j.stage = net.stage /\ j.socks = net.socks
    BY TakenFollows
<1>4. Follows(j, k, produced) /\ SameFields(j, k)
    BY <1>2, <1>3, CloseProxyFollows DEF Follows
<1>5. net.stage \in {"Reconnecting", "Finished"}
    <2>1. Active(net) \in Nat \ {0}
        BY <1>2, TakenFields
    <2> QED
        BY <2>1, HeldTypes DEF SessionInv, OneReconnect
<1>6. m \in Messages(UpTypes) /\ 0 \in 0..MaxAttempts
    BY NumbersOf DEF Msg, Messages, UpTypes
<1>7. net' = OnWebsocketConnected(k, 0, m)
    BY <1>1
<1> HIDE DEF j, k, m
<1>8. /\ Follows(net, k, produced) /\ Typed(k, produced) /\ Found(k)
      /\ k.stage = net.stage
    BY <1>2, <1>3, <1>4, FollowsTrans, SlipsFound DEF Follows, SameFields
<1>9. DOMAIN k.socks = DOMAIN net.socks /\ Len(k.socks) = Len(net.socks)
    <2>1. DOMAIN k.socks = DOMAIN net.socks
        BY <1>8 DEF Follows, Slips
    <2>2. /\ Len(k.socks) \in Nat /\ DOMAIN k.socks = 1..Len(k.socks)
          /\ Len(net.socks) \in Nat /\ DOMAIN net.socks = 1..Len(net.socks)
        BY <1>2, <1>8, TypesOf
    <2> QED
        BY <2>1, <2>2, SameLength
<1>10. /\ Typed(net', produced) /\ SameOutput(k, net') /\ net'.stage = k.stage
       /\ net'.session = k.session /\ net'.proxy = n /\ n # 0
       /\ DOMAIN net'.socks = 1..n /\ DOMAIN k.socks = 1..(n - 1)
       /\ net'.socks[n].alive
       /\ \A c \in 1..(n - 1) : net'.socks[c] = k.socks[c]
    <2>1. Len(k.socks) < MaxSockets
        BY <1>2, <1>9
    <2> QED
        BY <1>2, <1>6, <1>7, <1>8, <2>1, ConnectTyped
<1>11. n \in Nat
    BY <1>2, <1>8, TypesOf
<1> HIDE DEF n
<1>12. \A c \in 1..n : c = n \/ c \in 1..(n - 1)
    BY <1>11
<1>13. \A c \in 1..n : EndsWell(net'.socks[c])
    BY <1>8, <1>10, <1>12 DEF EndsWell, Found
<1>14. Found(net')
    BY <1>5, <1>8, <1>10, <1>13 DEF Found
<1> QED
    BY <1>2, <1>8, <1>10, <1>14 DEF Goes, Follows, SameOutput

LEMMA ReconnectEndsGoes ==
    ASSUME Held, ReconnectTryFails \/ ReconnectGivesUp \/ AbortedReconnectEnds PROVE Goes
<1>1. produced \in Nat /\ Typed(net, produced) /\ produced' = produced
    BY HeldTypes DEF ReconnectTryFails, ReconnectGivesUp, AbortedReconnectEnds
<1>2. CASE ReconnectTryFails
    <2>1. PICK kind \in Running : net' = [Taken(kind) EXCEPT !.loose = @ + 1]
        BY <1>2 DEF ReconnectTryFails
    <2> DEFINE k == Taken(kind)
    <2>2. /\ Follows(net, k, produced) /\ net' \in Connection(produced)
          /\ k \in Connection(produced) /\ Typed(k, produced)
        BY <2>1, TakenFollows DEF Follows
    <2>3. net' = [k EXCEPT !.loose = @ + 1]
        BY <2>1
    <2> HIDE DEF k
    <2>4. net'.socks = k.socks /\ SameFields(k, net')
        BY <2>2, <2>3 DEF Connection, SameFields, SameOutput
    <2>5. Follows(k, net', produced)
        BY <1>1, <2>2, <2>4, FieldsFollow DEF SameFields
    <2> QED
        BY <1>1, <2>2, <2>5, FollowsTrans, SlipsGoes DEF Follows
<1>3. CASE ReconnectGivesUp
    <2>1. "loose" \in Running
        BY <1>3 DEF ReconnectGivesUp, Running
    <2>2. Follows(net, Taken("loose"), produced) /\ Typed(Taken("loose"), produced)
        BY <2>1, TakenFollows DEF Follows
    <2>3. Follows(net, Drop(Taken("loose")), produced)
        BY <1>1, <2>2, EndingFollows, FollowsTrans
    <2> QED
        BY <1>1, <1>3, <2>3, SlipsGoes DEF Follows, ReconnectGivesUp
<1>4. CASE AbortedReconnectEnds
    <2>1. "cut" \in Running
        BY <1>4 DEF AbortedReconnectEnds, Running
    <2>2. Follows(net, Taken("cut"), produced)
        BY <2>1, TakenFollows
    <2> QED
        BY <1>1, <1>4, <2>2, SlipsGoes DEF Follows, AbortedReconnectEnds
<1> QED
    BY <1>2, <1>3, <1>4
-----------------------------------------------------------------------------
(* What a socket delivers.                                                  *)

\* A message is taken from a socket: only the end of it may leave nothing.
LEMMA PoppedEnd ==
    ASSUME NEW x \in Sock, x.down # <<>>
    PROVE  LET y == [x EXCEPT !.down = Tail(@)]
           IN  /\ y \in Sock /\ SockSlips(x, y)
               /\ Head(x.down).type # "Closed" => Lasts(x, y)
               /\ Head(x.down).n \in -1..(MaxItems + MaxAttempts)
               /\ y.attempt = x.attempt /\ y.alive = x.alive /\ y.down = Tail(x.down)
<1> DEFINE d == x.down
           t == Tail(d)
           y == [x EXCEPT !.down = t]
<1>1. d \in Seq(Messages(DownTypes))
    BY DEF Sock
<1>2. /\ t \in Seq(Messages(DownTypes)) /\ Len(d) \in Nat \ {0} /\ Len(t) = Len(d) - 1
      /\ t # <<>> => Len(t) \in Nat \ {0} /\ t[Len(t)] = d[Len(d)]
      /\ t = <<>> => Len(d) = 1
      /\ Head(d) = d[1] /\ Head(d) \in Messages(DownTypes)
    <2> HIDE DEF d
    <2>1. d # <<>>
        BY DEF d
    <2>2. /\ t \in Seq(Messages(DownTypes)) /\ Len(d) \in Nat \ {0} /\ Len(t) = Len(d) - 1
          /\ Head(d) = d[1] /\ Head(d) \in Messages(DownTypes)
        BY <1>1, <2>1
    <2>3. ASSUME t # <<>> PROVE Len(t) \in Nat \ {0} /\ t[Len(t)] = d[Len(d)]
        <3>1. Len(t) \in Nat \ {0}
            BY <2>2, <2>3
        <3>2. t[Len(t)] = d[Len(t) + 1]
            BY <1>1, <2>1, <2>2, <3>1
        <3>3. Len(t) + 1 = Len(d)
            BY <2>2
        <3> QED
            BY <3>1, <3>2, <3>3
    <2>4. ASSUME t = <<>> PROVE Len(d) = 1
        <3> HIDE DEF t
        <3>1. Len(t) = 0
            BY <2>4
        <3> QED
            BY <2>2, <3>1
    <2> QED
        BY <2>2, <2>3, <2>4
<1> HIDE DEF t
<1>3. y \in Sock /\ y.attempt = x.attempt /\ y.alive = x.alive /\ y.down = t
    BY <1>2 DEF Sock
<1> HIDE DEF y
<1>4. SockSlips(x, y)
    BY <1>2, <1>3 DEF SockSlips, EndsWell
<1>5. Head(d).type # "Closed" => Lasts(x, y)
    BY <1>2, <1>3 DEF Lasts, EndsWell, Ending
<1>6. Head(d).n \in -1..(MaxItems + MaxAttempts)
    BY <1>2 DEF Messages
<1> QED
    BY <1>3, <1>4, <1>5, <1>6 DEF y, t

LEMMA PoppedTyped ==
    ASSUME Held, NEW c \in DOMAIN net.socks, net.socks[c].down # <<>>
    PROVE  /\ Typed(Popped(c), produced) /\ SameFields(net, Popped(c))
           /\ Received(c) \in -1..(MaxItems + MaxAttempts)
           /\ DOMAIN Popped(c).socks = DOMAIN net.socks
           /\ \A d \in DOMAIN net.socks : EndsWell(Popped(c).socks[d])
           /\ Popped(c).socks[c].attempt = net.socks[c].attempt
           /\ Popped(c).socks[c].alive = net.socks[c].alive
           /\ Popped(c).socks[c].down = Tail(net.socks[c].down)
           /\ \A d \in DOMAIN net.socks \ {c} : Popped(c).socks[d] = net.socks[d]
           /\ Head(net.socks[c].down).type # "Closed" => Ending(Popped(c).socks[c])
           /\ \/ Head(net.socks[c].down).type # "Closed"
              \/ net.stage # "StartedSuccessfully"
              \/ c # net.proxy
              => Follows(net, Popped(c), produced)
<1> DEFINE x == net.socks[c]
           y == [x EXCEPT !.down = Tail(@)]
           l == WithSock(net, c, y)
<1>1. Typed(net, produced) /\ produced \in Nat /\ x \in Sock /\ Found(net)
    BY HeldTypes, TypesOf
<1>2. /\ y \in Sock /\ SockSlips(x, y) /\ (Head(x.down).type # "Closed" => Lasts(x, y))
      /\ Head(x.down).n \in -1..(MaxItems + MaxAttempts)
      /\ y.attempt = x.attempt /\ y.alive = x.alive /\ y.down = Tail(x.down)
    BY <1>1, PoppedEnd
<1>3. Popped(c) = l
    BY DEF Popped, WithSock
<1> HIDE DEF y
<1>4. /\ Typed(l, produced) /\ SameFields(net, l)
      /\ DOMAIN l.socks = DOMAIN net.socks /\ l.socks[c] = y
      /\ \A d \in DOMAIN net.socks \ {c} : l.socks[d] = net.socks[d]
    BY <1>1, <1>2, WithSockTyped
<1>5. ASSUME \/ Head(net.socks[c].down).type # "Closed"
             \/ net.stage # "StartedSuccessfully"
             \/ c # net.proxy
      PROVE  Follows(net, l, produced)
    BY <1>1, <1>2, <1>5, SocketFollows
<1> HIDE DEF l
<1>6. \A d \in DOMAIN net.socks : EndsWell(l.socks[d])
    BY <1>1, <1>2, <1>4 DEF SockSlips, Found
<1>7. Head(x.down).type # "Closed" => Ending(l.socks[c])
    BY <1>1, <1>2, <1>4 DEF Found, Lasts, Ending
<1> QED
    BY <1>2, <1>3, <1>4, <1>5, <1>6, <1>7 DEF Received

LEMMA HeardTyped ==
    ASSUME Held, NEW c \in DOMAIN net.socks, net.socks[c].down # <<>>,
           Head(net.socks[c].down).type # "Closed"
    PROVE  /\ Follows(net, Heard(c), produced) /\ SameFields(net, Heard(c))
           /\ Heard(c) \in Connection(produced)
           /\ Heard(c).socks = Popped(c).socks
<1> DEFINE k == Popped(c)
           l == [k EXCEPT !.idle = TRUE]
<1>1. /\ Follows(net, k, produced) /\ SameFields(net, k) /\ k \in Connection(produced)
      /\ Typed(k, produced) /\ Typed(net, produced) /\ produced \in Nat
    BY HeldTypes, PoppedTyped, TypesOf
<1>2. Heard(c) = l
    BY DEF Heard
<1> HIDE DEF k
<1>3. l \in Connection(produced) /\ l.socks = k.socks /\ SameFields(k, l)
    BY <1>1 DEF Connection, SameFields, SameOutput
<1> HIDE DEF l
<1>4. Follows(k, l, produced)
    BY <1>1, <1>3, FieldsFollow DEF SameFields
<1>5. Follows(net, l, produced) /\ SameFields(net, l)
    BY <1>1, <1>3, <1>4, FollowsTrans DEF SameFields, SameOutput
<1> QED
    BY <1>2, <1>3, <1>5 DEF k

\* What is ignored in a started session does not come from the proxy's socket.
LEMMA IgnoredIsOld ==
    ASSUME Held, NEW c \in DOMAIN net.socks, ShouldIgnore(c),
           net.stage = "StartedSuccessfully"
    PROVE  c # net.proxy
BY HeldTypes DEF ShouldIgnore, Found, Heeds

\* The messages that start nothing.
LEMMA MessagesGo ==
    ASSUME Held, NEW c \in DOMAIN net.socks,
           \/ FailedToInitialize(c) \/ SessionOver(c) \/ EventsProcessedAck(c)
           \/ WebsocketError(c) \/ IgnoredMessage(c)
    PROVE  Goes
<1>1. /\ produced \in Nat /\ Typed(net, produced) /\ Found(net) /\ produced' = produced
      /\ net.socks[c].down # <<>> /\ Len(net.events) \in Nat
    BY HeldTypes DEF FailedToInitialize, SessionOver, EventsProcessedAck, WebsocketError,
       IgnoredMessage, Delivers
<1> DEFINE h == Heard(c)
           k == Popped(c)
<1>2. ASSUME Head(net.socks[c].down).type # "Closed"
      PROVE  /\ Follows(net, h, produced) /\ Typed(h, produced) /\ Found(h)
             /\ Follows(net, k, produced) /\ Typed(k, produced) /\ Found(k)
             /\ h \in Connection(produced)
    BY <1>1, <1>2, HeardTyped, PoppedTyped, SlipsFound DEF Follows
<1>3. ASSUME NEW m \in {h, k}, NEW retryable, Head(net.socks[c].down).type # "Closed",
             net' = HandleStartupFailure(m, retryable)
      PROVE  Goes
    <2>1. Typed(m, produced) /\ Found(m) /\ SameOutput(net, m)
        BY <1>2, <1>3 DEF Follows
    <2>2. Typed(net', produced) /\ Found(net') /\ SameOutput(m, net')
        BY <1>1, <1>3, <2>1, StartupFailureKeeps
    <2> QED
        BY <1>1, <2>1, <2>2 DEF Goes, SameOutput
<1>4. CASE FailedToInitialize(c)
    BY <1>3, <1>4 DEF FailedToInitialize, Delivers
<1>5. CASE SessionOver(c)
    <2>1. Head(net.socks[c].down).type # "Closed" /\ net' = Drop(h)
        BY <1>5 DEF SessionOver, Delivers
    <2>2. Follows(net, h, produced) /\ Typed(h, produced)
        BY <1>2, <2>1
    <2> HIDE DEF h
    <2>3. Follows(net, Drop(h), produced)
        BY <1>1, <2>2, EndingFollows, FollowsTrans
    <2> QED
        BY <1>1, <2>1, <2>3, SlipsGoes DEF Follows
<1>6. CASE EventsProcessedAck(c)
    <2> DEFINE rest == {n \in h.unacked :
                            ~(n <= Received(c) /\ n..Received(c) \subseteq h.unacked)}
    <2>1. Head(net.socks[c].down).type # "Closed" /\ net' = [h EXCEPT !.unacked = rest]
        BY <1>6 DEF EventsProcessedAck, Delivers
    <2>2. Follows(net, h, produced) /\ Typed(h, produced) /\ h \in Connection(produced)
        BY <1>2, <2>1
    <2>3. rest \in SUBSET Int
        BY <2>2 DEF Connection
    <2> HIDE DEF h, rest
    <2>4. net' \in Connection(produced) /\ net'.socks = h.socks /\ SameFields(h, net')
        BY <2>1, <2>2, <2>3 DEF Connection, SameFields, SameOutput
    <2>5. Follows(h, net', produced)
        BY <1>1, <2>2, <2>4, FieldsFollow DEF SameFields
    <2> QED
        BY <1>1, <2>2, <2>5, FollowsTrans, SlipsGoes DEF Follows
<1>7. CASE WebsocketError(c)
    <2>1. Head(net.socks[c].down).type # "Closed"
        BY <1>7 DEF WebsocketError, Delivers
    <2>2. CASE net.socks[c].attempt # 0
        BY <1>3, <1>7, <2>1, <2>2 DEF WebsocketError
    <2>3. CASE net.socks[c].attempt = 0
        BY <1>1, <1>2, <1>7, <2>1, <2>3, SlipsGoes DEF WebsocketError, Follows
    <2> QED
        BY <2>2, <2>3
<1>8. CASE IgnoredMessage(c)
    <2>1. net' = k /\ (net.stage # "StartedSuccessfully" \/ c # net.proxy)
        BY <1>8, IgnoredIsOld DEF IgnoredMessage
    <2>2. Follows(net, k, produced)
        BY <1>1, <2>1, PoppedTyped
    <2> QED
        BY <1>1, <2>1, <2>2, SlipsGoes DEF Follows
<1> QED
    BY <1>4, <1>5, <1>6, <1>7, <1>8

\* The end of a socket: of a started session, it makes it reconnect.
LEMMA WebsocketClosedGoes ==
    ASSUME Held, NEW c \in DOMAIN net.socks, WebsocketClosed(c) PROVE Goes
<1> DEFINE j == Popped(c)
           k == Close(j)
<1>1. /\ produced \in Nat /\ Typed(net, produced) /\ Found(net) /\ produced' = produced
      /\ net.socks[c].down # <<>> /\ net.stage # "Dropped" /\ Len(net.events) \in Nat
      /\ SessionInv(net, server) /\ WellFormed(net)
      /\ net' = IF net.stage = "StartedSuccessfully" THEN ReconnectWebsocket(k)
                ELSE HandleStartupFailure(k, TRUE)
    BY HeldTypes DEF WebsocketClosed, Delivers, Live
<1>2. /\ Typed(j, produced) /\ SameFields(net, j) /\ DOMAIN j.socks = DOMAIN net.socks
      /\ \A d \in DOMAIN net.socks : EndsWell(j.socks[d])
      /\ net.stage # "StartedSuccessfully" => Follows(net, j, produced)
    BY <1>1, PoppedTyped
<1>3. Calm(net, j) /\ WellFormed(j) /\ j.stage = net.stage
    BY <1>1, CalmPopped DEF Calm
<1>4. Calm(j, k)
    BY <1>3, CalmClose
<1> HIDE DEF j
<1>5. Follows(j, k, produced) /\ SameFields(j, k)
    BY <1>1, <1>2, CloseFollows
<1> HIDE DEF k
<1>6. SessionInv(k, server)
    BY <1>1, <1>3, <1>4, CalmTrans, CalmKeeps
<1>7. Typed(k, produced) /\ SameOutput(net, k) /\ k.stage = net.stage
    BY <1>2, <1>5 DEF Follows, SameFields, SameOutput
<1>8. CASE net.stage = "StartedSuccessfully"
    <2>1. \A d \in DOMAIN k.socks : EndsWell(k.socks[d])
        BY <1>2, <1>5 DEF Follows, Slips, SockSlips
    <2>2. k.proxy # 0 /\ k.session # 0
        BY <1>1, <1>2, <1>5, <1>8 DEF SameFields, Found
    <2>3. Typed(net', produced) /\ Found(net') /\ SameOutput(k, net')
        BY <1>1, <1>6, <1>7, <1>8, <2>1, <2>2, ReconnectFound
    <2>4. produced' = produced /\ Len(net'.events) = Len(net.events) /\ Len(net.events) \in Nat
        BY <1>1, <1>7, <2>3 DEF SameOutput
    <2> QED
        BY <2>3, <2>4 DEF Goes
<1>9. CASE net.stage # "StartedSuccessfully"
    <2>1. Found(k)
        BY <1>1, <1>2, <1>5, <1>9, SlipsFound DEF Follows
    <2>2. Typed(net', produced) /\ Found(net') /\ SameOutput(k, net')
        BY <1>1, <1>7, <1>9, <2>1, StartupFailureKeeps
    <2>3. produced' = produced /\ Len(net'.events) = Len(net.events) /\ Len(net.events) \in Nat
        BY <1>1, <1>7, <2>2 DEF SameOutput
    <2> QED
        BY <2>2, <2>3 DEF Goes
<1> QED
    BY <1>8, <1>9
LEMMA ConnectionIsNetwork ==
    ASSUME NEW p \in Nat, NEW k \in Connection(p) PROVE k \in Network
<1>1. Messages(UpTypes) \subseteq Message /\ Messages(DownTypes) \subseteq Message
    BY NumbersOf DEF Messages, Message
<1>2. /\ Seq(Messages(UpTypes)) \subseteq Seq(Message)
      /\ Seq(Messages(DownTypes)) \subseteq Seq(Message)
    BY <1>1
<1>3. Sock \subseteq Socket
    BY <1>2, NumbersOf DEF Sock, Socket
<1>4. Seq(Sock) \subseteq Seq(Socket)
    BY <1>3
<1>5. 1..p \subseteq Nat
    OBVIOUS
<1>6. Seq(1..p) \subseteq Seq(Nat)
    BY <1>5
<1>7. Seq(Seq(1..p)) \subseteq Seq(Seq(Nat))
    BY <1>6
<1>8. /\ 1..MaxAttempts \subseteq Nat /\ 0..MaxAttempts \subseteq Nat
      /\ 0..MaxAttempts \subseteq Int
    BY NumbersOf
<1> QED
    BY <1>4, <1>6, <1>7, <1>8 DEF Connection, Network

\* What the server lacks is stored, so it can be flushed.
LEMMA FlushFrom ==
    ASSUME NEW k, NEW s, SessionInv(k, s), NEW start \in Nat, s.got = 0..(start - 1)
    PROVE  start \in 0..Len(k.events) /\ start..(Len(k.events) - 1) \subseteq k.unacked
<1>1. k \in Network /\ Len(k.events) \in Nat
    BY SocksOf DEF SessionInv, WellFormed
<1>2. PICK g \in Nat : s.got = 0..(g - 1) /\ s.acked <= g /\ g <= Len(k.events)
    BY DEF SessionInv, ServerOK
<1>3. g = start /\ s.acked \in Nat
    BY <1>2, Intervals DEF SessionInv, ServerOK, SessionServer
<1> QED
    BY <1>1, <1>2, <1>3 DEF SessionInv, Stored

\* A session starts on the socket of the proxy, and flushes.
LEMMA StartGoes ==
    ASSUME Held, produced' = produced, NEW c \in DOMAIN net.socks, net.socks[c].down # <<>>,
           Head(net.socks[c].down).type # "Closed", c = net.proxy,
           NEW j \in Connection(produced), j.stage = "StartedSuccessfully",
           j.socks = Heard(c).socks, j.proxy = net.proxy, SameOutput(net, j), j.session # 0,
           j.unacked = Heard(c).unacked, j.winner \in {0, net.socks[c].attempt},
           NEW start, net' = Flush(j, start),
           Feeds(j) => start \in Nat /\ server.got = 0..(start - 1),
           SessionInv(Heard(c), server)
    PROVE  Goes
<1>1. /\ produced \in Nat /\ produced <= MaxItems /\ Typed(net, produced) /\ Found(net)
      /\ Len(net.events) \in Nat /\ DOMAIN net.socks = 1..Len(net.socks)
      /\ Len(net.socks) \in Nat
    BY HeldTypes, TypesOf
<1>2. /\ Follows(net, Heard(c), produced) /\ SameFields(net, Heard(c))
      /\ Heard(c).socks = Popped(c).socks /\ Typed(Heard(c), produced)
    BY HeardTyped DEF Follows
<1>3. /\ DOMAIN j.socks = DOMAIN net.socks
      /\ \A d \in DOMAIN net.socks : EndsWell(j.socks[d])
      /\ j.socks[c].attempt = net.socks[c].attempt
      /\ Ending(j.socks[c])
    BY <1>2, PoppedTyped
<1>4. Typed(j, produced)
    <2>1. Items(j) = Items(Heard(c))
        BY <1>2 DEF Items, SameFields, SameOutput
    <2>2. j.proxy = Heard(c).proxy
        BY <1>2 DEF SameFields
    <2> QED
        BY <1>2, <2>1, <2>2 DEF Typed
<1>5. Found(j)
    BY <1>1, <1>3 DEF Found, Heeds
<1>6. j \in Network
    BY <1>1, ConnectionIsNetwork
<1>7. Feeds(j) => start \in 0..Len(j.events) /\ start..(Len(j.events) - 1) \subseteq j.unacked
    <2> SUFFICES ASSUME Feeds(j)
                 PROVE  start \in 0..Len(j.events) /\ start..(Len(j.events) - 1) \subseteq j.unacked
        OBVIOUS
    <2>1. /\ start \in 0..Len(Heard(c).events)
          /\ start..(Len(Heard(c).events) - 1) \subseteq Heard(c).unacked
        BY FlushFrom
    <2> QED
        BY <1>2, <2>1 DEF SameFields, SameOutput
<1>8. Follows(j, net', produced)
    BY <1>1, <1>4, <1>6, <1>7, FlushFollows
<1>9. Typed(net', produced) /\ Found(net') /\ SameOutput(j, net')
    BY <1>1, <1>4, <1>5, <1>8, SlipsFound DEF Follows
<1>10. Len(net'.events) = Len(net.events)
    BY <1>9 DEF SameOutput
<1> QED
    BY <1>1, <1>9, <1>10 DEF Goes

LEMMA SessionInitializedGoes ==
    ASSUME Held, NEW c \in DOMAIN net.socks, SessionInitialized(c) PROVE Goes
<1> DEFINE k == Heard(c)
           r == Received(c)
           j == [k EXCEPT !.session = r, !.winner = net.attempt, !.stage = "StartedSuccessfully"]
<1>1. /\ produced \in Nat /\ Typed(net, produced) /\ Found(net) /\ produced' = produced
      /\ net.socks[c].down # <<>> /\ Live /\ WellFormed(net) /\ SessionInv(net, server)
      /\ Head(net.socks[c].down).type = "SessionInitialized" /\ ~ShouldIgnore(c)
      /\ net' = IF net.stage # "BeforeStarted" THEN k ELSE Flush(j, 0)
    BY HeldTypes DEF SessionInitialized, Delivers
<1>2. /\ Follows(net, k, produced) /\ SameFields(net, k) /\ k \in Connection(produced)
      /\ net \in Connection(produced)
    BY <1>1, HeardTyped, HeldTypes
<1>3. r = net.socks[c].attempt /\ r # 0
    BY <1>1, ReceivedMessage DEF SessionInv, Named
<1>4. r \in 0..MaxAttempts
    <2>1. net.socks[c] \in Sock
        BY <1>1, TypesOf
    <2> QED
        BY <1>3, <2>1 DEF Sock
<1>5. SessionInv(k, server)
    BY <1>1, CalmHeard, CalmKeeps
<1> HIDE DEF r
<1>6. CASE net.stage # "BeforeStarted"
    BY <1>1, <1>2, <1>6, SlipsGoes DEF Follows
<1>7. CASE net.stage = "BeforeStarted"
    <2>1. r = net.attempt /\ c = net.proxy
        BY <1>1, <1>3, <1>7 DEF ShouldIgnore, Found
    <2>2. net.attempt \in 0..MaxAttempts
        BY <1>4, <2>1
    <2>3. net' = Flush(j, 0)
        BY <1>1, <1>7
    <2> HIDE DEF k
    <2>4. /\ j \in Connection(produced) /\ j.stage = "StartedSuccessfully"
          /\ j.socks = k.socks /\ j.proxy = net.proxy /\ SameOutput(net, j)
          /\ j.session = r /\ j.unacked = k.unacked /\ j.winner = net.attempt
        BY <1>2, <1>4, <2>2 DEF Connection, SameFields, SameOutput, Stages
    <2> HIDE DEF j
    <2>5. server.got = 0..(0 - 1)
        <3>1. server.got = {}
            BY <1>1, <1>7 DEF SessionInv, NotStarted
        <3> QED
            BY <3>1
    <2> QED
        BY <1>1, <1>3, <1>5, <2>1, <2>3, <2>4, <2>5, StartGoes DEF k
<1> QED
    BY <1>6, <1>7

LEMMA SessionReconnectedGoes ==
    ASSUME Held, NEW c \in DOMAIN net.socks, SessionReconnected(c) PROVE Goes
<1> DEFINE k == Heard(c)
           r == Received(c)
           j == [k EXCEPT !.stage = "StartedSuccessfully", !.winner = 0, !.first = FALSE,
                          !.loose = IF net.first THEN @ + 1 ELSE @]
<1>1. /\ produced \in Nat /\ Typed(net, produced) /\ Found(net) /\ produced' = produced
      /\ net.socks[c].down # <<>> /\ Live /\ WellFormed(net) /\ SessionInv(net, server)
      /\ Head(net.socks[c].down).type = "SessionReconnected"
      /\ Len(net.socks) \in Nat
      /\ net' = IF net.stage # "Reconnecting" THEN k ELSE Flush(j, r + 1)
    BY HeldTypes DEF SessionReconnected, Delivers
<1>2. /\ Follows(net, k, produced) /\ SameFields(net, k) /\ k \in Connection(produced)
      /\ k.socks = Popped(c).socks
    BY <1>1, HeardTyped
<1>3. /\ 1 \in DOMAIN net.socks[c].down /\ net.socks[c].down[1].type = "SessionReconnected"
      /\ net.socks[c].down[1].n = r /\ r \in Int
    BY <1>1, ReceivedMessage
<1>4. SessionInv(k, server)
    BY <1>1, CalmHeard, CalmKeeps
<1> HIDE DEF r
<1>5. CASE net.stage # "Reconnecting"
    BY <1>1, <1>2, <1>5, SlipsGoes DEF Follows
<1>6. CASE net.stage = "Reconnecting"
    <2>1. Answered(net.socks[c]) /\ Waits(net.socks[c])
        BY <1>3 DEF Answered, Waits
    <2>2. c = net.proxy
        BY <1>1, <1>6, <2>1 DEF SessionInv, OneReconnect, WellFormed, Found
    <2>3. net.session # 0
        BY <1>1, <1>6 DEF Found
    <2>4. net' = Flush(j, r + 1)
        BY <1>1, <1>6
    <2> DEFINE loose == IF net.first THEN k.loose + 1 ELSE k.loose
    <2>5. loose \in Nat
        BY <1>2 DEF Connection
    <2>6. j = [k EXCEPT !.stage = "StartedSuccessfully", !.winner = 0, !.first = FALSE,
                         !.loose = loose]
        OBVIOUS
    <2>7. 0 \in 0..MaxAttempts
        BY NumbersOf
    <2> HIDE DEF k, j, loose
    <2>8. /\ j \in Connection(produced) /\ j.stage = "StartedSuccessfully"
          /\ j.socks = k.socks /\ j.proxy = net.proxy /\ SameOutput(net, j)
          /\ j.session = net.session /\ j.unacked = k.unacked /\ j.winner = 0
        BY <1>2, <2>5, <2>6, <2>7 DEF Connection, SameFields, SameOutput, Stages
    <2>9. Feeds(j) => r + 1 \in Nat /\ server.got = 0..((r + 1) - 1)
        <3> SUFFICES ASSUME Feeds(j) PROVE r + 1 \in Nat /\ server.got = 0..((r + 1) - 1)
            OBVIOUS
        <3>1. net.socks[c].alive
            BY <1>1, <1>2, <2>2, <2>8, PoppedTyped DEF Feeds
        <3>2. server.got = 0..r /\ r >= -1
            BY <1>1, <1>3, <1>6, <2>1, <3>1 DEF SessionInv, AnswerHolds
        <3>3. r + 1 \in Nat /\ (r + 1) - 1 = r
            BY <1>3, <3>2
        <3> QED
            BY <3>2, <3>3
    <2> DEFINE start == r + 1
    <2>10. net' = Flush(j, start) /\ (Feeds(j) => start \in Nat /\ server.got = 0..(start - 1))
        BY <2>4, <2>9
    <2>11. produced' = produced /\ net.socks[c].down # <<>>
          /\ Head(net.socks[c].down).type # "Closed"
        BY <1>1
    <2> HIDE DEF start
    <2> QED
        BY <1>4, <2>2, <2>3, <2>8, <2>10, <2>11, StartGoes DEF k
<1> QED
    BY <1>5, <1>6
LEMMA ReceiveGoes ==
    ASSUME Held, NEW c \in DOMAIN net.socks, Receive(c) PROVE Goes
BY SessionInitializedGoes, SessionReconnectedGoes, MessagesGo, WebsocketClosedGoes
   DEF Receive

-----------------------------------------------------------------------------
(* The server and the network between.                                      *)

\* A socket that works gets an answer, and may have been read.
LEMMA ToldGoes ==
    ASSUME Held, produced' = produced, NEW c \in DOMAIN net.socks, net.socks[c].alive,
           NEW x \in Sock, net' = WithSock(net, c, x), x.alive,
           x.attempt = net.socks[c].attempt
    PROVE  Goes
<1>1. produced \in Nat /\ Typed(net, produced)
    BY HeldTypes
<1>2. SockSlips(net.socks[c], x) /\ Lasts(net.socks[c], x)
    BY DEF SockSlips, Lasts, EndsWell, Ending
<1> QED
    BY <1>1, <1>2, SocketFollows, SlipsGoes DEF Follows

LEMMA AnsweredSock ==
    ASSUME NEW x \in Sock, NEW m \in Messages(DownTypes)
    PROVE  /\ [x EXCEPT !.down = Append(@, m)] \in Sock
           /\ x.up # <<>> => /\ [x EXCEPT !.up = Tail(@)] \in Sock
                             /\ [x EXCEPT !.up = Tail(@), !.down = Append(@, m)] \in Sock
<1> DEFINE u == x.up
           d == x.down
           t == Tail(u)
           a == Append(d, m)
<1>1. u \in Seq(Messages(UpTypes)) /\ d \in Seq(Messages(DownTypes))
    BY DEF Sock
<1>2. a \in Seq(Messages(DownTypes)) /\ (u # <<>> => t \in Seq(Messages(UpTypes)))
    <2> HIDE DEF u, d
    <2> QED
        BY <1>1
<1> HIDE DEF t, a
<1>3. [x EXCEPT !.down = a] \in Sock
    BY <1>2 DEF Sock
<1>4. u # <<>> => [x EXCEPT !.up = t] \in Sock /\ [x EXCEPT !.up = t, !.down = a] \in Sock
    BY <1>2 DEF Sock
<1> QED
    BY <1>3, <1>4 DEF t, a

\* A reply takes the request and tells the answer.
LEMMA ReplyGoes ==
    ASSUME Held, produced' = produced, NEW c \in DOMAIN net.socks, net.socks[c].alive,
           net.socks[c].up # <<>>, NEW m \in Messages(DownTypes), net' = Reply(c, m)
    PROVE  Goes
<1> DEFINE x == net.socks[c]
           y == [x EXCEPT !.up = Tail(@), !.down = Append(@, m)]
<1>1. x \in Sock /\ net \in Network /\ net.socks \in Seq(Socket)
    BY HeldTypes, TypesOf DEF Network
<1>2. y \in Sock
    BY <1>1, AnsweredSock
<1>3. y.alive = x.alive /\ y.attempt = x.attempt
    BY <1>1 DEF Sock
<1>4. Reply(c, m) = WithSock(net, c, y)
    BY <1>1 DEF Reply, WithSock, Network
<1> HIDE DEF y
<1> QED
    BY <1>2, <1>3, <1>4, ToldGoes

LEMMA AnswersGoes ==
    ASSUME Held, produced' = produced, NEW c \in DOMAIN net.socks, net.socks[c].alive,
           NEW m \in Messages(DownTypes), ServerAnswers(c, m)
    PROVE  Goes
<1> DEFINE x == net.socks[c]
           y == [x EXCEPT !.down = Append(@, m)]
<1>1. x \in Sock
    BY HeldTypes, TypesOf
<1>2. y \in Sock
    BY <1>1, AnsweredSock
<1>3. y.alive = x.alive /\ y.attempt = x.attempt
    BY <1>1 DEF Sock
<1>4. net' = WithSock(net, c, y)
    BY DEF ServerAnswers, WithSock
<1> HIDE DEF y
<1> QED
    BY <1>2, <1>3, <1>4, ToldGoes

\* The last event the server has is a number a message may carry.
LEMMA LastTyped ==
    ASSUME Held
    PROVE  /\ Max({-1} \cup server.got) \in -1..(MaxItems + MaxAttempts)
           /\ server.got # {} => Max(server.got) \in -1..(MaxItems + MaxAttempts)
<1>1. PICK g \in Nat : server.got = 0..(g - 1) /\ g <= Len(net.events)
    BY HeldTypes DEF SessionInv, ServerOK
<1>2. g - 1 \in -1..(MaxItems + MaxAttempts)
    <2>1. Len(net.events) <= produced /\ produced <= MaxItems /\ produced \in Nat
          /\ Len(net.events) \in Nat
        BY HeldTypes, TypesOf
    <2> QED
        BY <1>1, <2>1, NumbersOf
<1>3. server.got # {} => g # 0
    <2>1. 0..(0 - 1) = {}
        OBVIOUS
    <2> QED
        BY <1>1, <2>1
<1> QED
    BY <1>1, <1>2, <1>3, LastOf

LEMMA ServerGoes ==
    ASSUME Held, NEW c \in DOMAIN net.socks,
           \/ ServerCreatesSession(c) \/ ServerRefusesSession(c) \/ ServerResumesSession(c)
           \/ ServerRefusesReconnect(c) \/ ServerProcessesEvent(c) \/ ServerAcks(c)
           \/ ServerEndsSession(c)
    PROVE  Goes
<1>1. /\ net.socks[c] \in Sock /\ net.socks[c].up \in Seq(Messages(UpTypes))
      /\ Typed(net, produced) /\ produced \in Nat
    BY HeldTypes, TypesOf DEF Sock
<1>2. produced' = produced /\ net.socks[c].alive
    BY DEF ServerCreatesSession, ServerRefusesSession, ServerResumesSession,
       ServerRefusesReconnect, ServerProcessesEvent, ServerAcks, ServerEndsSession,
       ServerReads, Greeted
<1>3. ASSUME NEW n \in -1..(MaxItems + MaxAttempts), NEW type \in DownTypes
      PROVE  Msg(type, n) \in Messages(DownTypes)
    BY DEF Msg, Messages
<1>4. 0 \in -1..(MaxItems + MaxAttempts) /\ 1 \in -1..(MaxItems + MaxAttempts)
    BY NumbersOf
<1>5. CASE ServerCreatesSession(c)
    <2> DEFINE n == Head(net.socks[c].up).n
    <2>1. n \in -1..(MaxItems + MaxAttempts) /\ net.socks[c].up # <<>>
          /\ net' = Reply(c, Msg("SessionInitialized", n))
        <3>1. net.socks[c].up # <<>>
            BY <1>5 DEF ServerCreatesSession, ServerReads
        <3> DEFINE u == net.socks[c].up
        <3>2. Head(u) \in Messages(UpTypes)
            <4>1. u \in Seq(Messages(UpTypes)) /\ u # <<>>
                BY <1>1, <3>1
            <4> HIDE DEF u
            <4> QED
                BY <4>1
        <3> QED
            BY <1>5, <3>1, <3>2 DEF ServerCreatesSession, Messages
    <2> HIDE DEF n
    <2>2. Msg("SessionInitialized", n) \in Messages(DownTypes)
        BY <1>3, <2>1 DEF DownTypes
    <2> QED
        BY <1>2, <2>1, <2>2, ReplyGoes
<1>6. CASE ServerRefusesSession(c)
    <2>1. PICK n \in {0, 1} : net' = Reply(c, Msg("FailedToInitialize", n))
        BY <1>6 DEF ServerRefusesSession
    <2>2. Msg("FailedToInitialize", n) \in Messages(DownTypes)
        BY <1>3, <1>4 DEF DownTypes
    <2> QED
        BY <1>2, <1>6, <2>1, <2>2, ReplyGoes DEF ServerRefusesSession, ServerReads
<1>7. CASE ServerResumesSession(c)
    <2>1. Msg("SessionReconnected", Max({-1} \cup server.got)) \in Messages(DownTypes)
        BY <1>3, LastTyped DEF DownTypes
    <2> QED
        BY <1>2, <1>7, <2>1, ReplyGoes DEF ServerResumesSession, ServerReads
<1>8. CASE ServerRefusesReconnect(c)
    <2>1. Msg("FailedToReconnect", 0) \in Messages(DownTypes)
        BY <1>3, <1>4 DEF DownTypes
    <2> QED
        BY <1>2, <1>8, <2>1, ReplyGoes DEF ServerRefusesReconnect, ServerReads
<1>9. CASE ServerProcessesEvent(c)
    <2> DEFINE x == net.socks[c]
               y == [x EXCEPT !.up = Tail(@)]
    <2>1. x.up # <<>> /\ net' = WithSock(net, c, y)
        BY <1>9 DEF ServerProcessesEvent, ServerReads, WithSock
    <2>2. Msg("Closed", 0) \in Messages(DownTypes)
        BY <1>3, <1>4 DEF DownTypes
    <2>3. y \in Sock
        BY <1>1, <2>1, <2>2, AnsweredSock
    <2>4. y.alive = x.alive /\ y.attempt = x.attempt
        BY <1>1 DEF Sock
    <2> HIDE DEF y
    <2> QED
        BY <1>2, <2>1, <2>3, <2>4, ToldGoes
<1>10. CASE ServerAcks(c)
    <2>1. server.got # {}
        <3>1. server.acked \in Nat /\ Cardinality(server.got) > server.acked
            BY <1>10, HeldTypes DEF ServerAcks, SessionInv, ServerOK, SessionServer
        <3>2. server.got = {} => Cardinality(server.got) = 0
            BY FS_EmptySet
        <3> QED
            BY <3>1, <3>2
    <2>2. Msg("EventsProcessedAck", Max(server.got)) \in Messages(DownTypes)
        BY <1>3, <2>1, LastTyped DEF DownTypes
    <2> QED
        BY <1>2, <1>10, <2>2, AnswersGoes DEF ServerAcks
<1>11. CASE ServerEndsSession(c)
    <2> DEFINE m == Msg("SessionTerminated", 0)
    <2>1. m \in Messages(DownTypes)
        BY <1>3, <1>4 DEF DownTypes
    <2>2. \/ net.socks[c].up # <<>> /\ net' = Reply(c, m)
          \/ ServerAnswers(c, m)
        BY <1>11 DEF ServerEndsSession, ServerReads
    <2> HIDE DEF m
    <2> QED
        BY <1>2, <2>1, <2>2, ReplyGoes, AnswersGoes
<1> QED
    BY <1>5, <1>6, <1>7, <1>8, <1>9, <1>10, <1>11

\* A socket that is over tells so last.
LEMMA OverGoes ==
    ASSUME Held, produced' = produced, NEW c \in DOMAIN net.socks,
           NEW x \in Sock, net' = WithSock(net, c, x),
           EndsWell(x), Ending(x), x.attempt = net.socks[c].attempt
    PROVE  Goes
<1>1. produced \in Nat /\ Typed(net, produced)
    BY HeldTypes
<1>2. SockSlips(net.socks[c], x) /\ Lasts(net.socks[c], x)
    BY DEF SockSlips, Lasts
<1> QED
    BY <1>1, <1>2, SocketFollows, SlipsGoes DEF Follows

LEMMA ServerSeesCloseGoes ==
    ASSUME Held, NEW c \in DOMAIN net.socks, ServerSeesClose(c) PROVE Goes
<1> DEFINE x == net.socks[c]
           m == Msg("Closed", 0)
           f == Append(x.down, m)
           y == [x EXCEPT !.alive = FALSE, !.down = f]
<1>1. /\ net \in Network /\ x \in Sock /\ x.down \in Seq(Messages(DownTypes))
      /\ produced' = produced /\ net.socks \in Seq(Socket)
    BY HeldTypes, TypesOf DEF ServerSeesClose, Sock, Network
<1>2. m \in Messages(DownTypes) /\ m.type = "Closed"
    BY NumbersOf DEF Msg, Messages, DownTypes
<1>3. net' = WithSock(net, c, y)
    BY <1>1 DEF ServerSeesClose, WithSock, Network
<1> HIDE DEF m
<1>4. f \in Seq(Messages(DownTypes)) /\ f # <<>> /\ f[Len(f)] = m
    <2> DEFINE d == x.down
    <2>1. d \in Seq(Messages(DownTypes))
        BY <1>1
    <2> HIDE DEF d
    <2>2. Append(d, m) \in Seq(Messages(DownTypes)) /\ Append(d, m) # <<>>
          /\ Append(d, m)[Len(Append(d, m))] = m
        BY <1>2, <2>1
    <2> QED
        BY <2>2 DEF d
<1> HIDE DEF f
<1>5. y \in Sock /\ ~y.alive /\ y.down = f /\ y.attempt = x.attempt
    BY <1>1, <1>4 DEF Sock
<1> HIDE DEF y
<1>6. EndsWell(y) /\ Ending(y)
    BY <1>2, <1>4, <1>5 DEF EndsWell, Ending
<1> QED
    BY <1>1, <1>3, <1>5, <1>6, OverGoes

LEMMA BrokenEnd ==
    ASSUME NEW x \in Sock, NEW kept \in 0..Len(x.down), NEW end \in Ends
    PROVE  LET y == Broken(x, kept, end)
           IN  y \in Sock /\ EndsWell(y) /\ Ending(y) /\ y.attempt = x.attempt
<1> DEFINE d == x.down
           e == SubSeq(d, 1, kept)
           f == e \o end
           y == Broken(x, kept, end)
<1>1. d \in Seq(Messages(DownTypes)) /\ Len(d) \in Nat /\ kept \in Nat /\ kept <= Len(d)
    BY DEF Sock
<1>2. /\ end \in Seq(Messages(DownTypes)) /\ Len(end) \in Nat \ {0}
      /\ end[Len(end)].type = "Closed"
    <2> DEFINE a == Msg("Closed", 0)
               b == Msg("Error", 0)
    <2>1. a \in Messages(DownTypes) /\ b \in Messages(DownTypes) /\ a.type = "Closed"
        BY NumbersOf DEF Msg, Messages, DownTypes
    <2>2. end \in {<<a>>, <<b, a>>}
        BY DEF Ends
    <2> HIDE DEF a, b
    <2>3. CASE end = <<a>>
        BY <2>1, <2>3
    <2>4. CASE end = <<b, a>>
        BY <2>1, <2>4
    <2> QED
        BY <2>2, <2>3, <2>4
<1>3. e \in Seq(Messages(DownTypes)) /\ Len(e) = kept
    <2> HIDE DEF d
    <2> QED
        BY <1>1, SubSeqProperties
<1> HIDE DEF e
<1>4. /\ f \in Seq(Messages(DownTypes)) /\ Len(f) = kept + Len(end)
      /\ f[kept + Len(end)] = end[Len(end)]
    <2>1. /\ f \in Seq(Messages(DownTypes)) /\ Len(f) = Len(e) + Len(end)
          /\ \A i \in 1..(Len(e) + Len(end)) :
                f[i] = IF i <= Len(e) THEN e[i] ELSE end[i - Len(e)]
        BY <1>2, <1>3, ConcatProperties
    <2>2. kept + Len(end) \in 1..(kept + Len(end)) /\ ~(kept + Len(end) <= kept)
          /\ (kept + Len(end)) - kept = Len(end)
        BY <1>1, <1>2
    <2> HIDE DEF f
    <2> QED
        BY <1>3, <2>1, <2>2
<1>5. /\ y = [x EXCEPT !.alive = FALSE, !.up = <<>>, !.down = f]
      /\ <<>> \in Seq(Messages(UpTypes))
    BY DEF Broken, e
<1>6. f # <<>> /\ f[Len(f)].type = "Closed"
    <2>1. Len(f) # 0
        BY <1>1, <1>2, <1>4
    <2> HIDE DEF f
    <2> QED
        BY <1>2, <1>4, <2>1
<1> HIDE DEF f, y
<1>7. y \in Sock /\ ~y.alive /\ y.down = f /\ y.attempt = x.attempt
    BY <1>4, <1>5 DEF Sock
<1>8. EndsWell(y) /\ Ending(y)
    BY <1>6, <1>7 DEF EndsWell, Ending
<1> QED
    BY <1>7, <1>8 DEF y

LEMMA DisconnectGoes ==
    ASSUME Held, NEW c \in DOMAIN net.socks, Disconnect(c) PROVE Goes
<1>1. PICK kept \in 0..Len(net.socks[c].down), end \in Ends :
          net' = WithSock(net, c, Broken(net.socks[c], kept, end))
    BY DEF Disconnect, Ends, WithSock
<1>2. net.socks[c] \in Sock /\ produced' = produced
    BY HeldTypes, TypesOf DEF Disconnect
<1> DEFINE y == Broken(net.socks[c], kept, end)
<1>3. y \in Sock /\ EndsWell(y) /\ Ending(y) /\ y.attempt = net.socks[c].attempt
    BY <1>2, BrokenEnd
<1>4. net' = WithSock(net, c, y)
    BY <1>1
<1> HIDE DEF y
<1> QED
    BY <1>2, <1>3, <1>4, OverGoes

LEMMA ServerRestartsGoes == ASSUME Held, ServerRestarts PROVE Goes
<1> DEFINE end == <<Msg("Closed", 0)>>
           y(c) == IF net.socks[c].alive
                   THEN Broken(net.socks[c], Len(net.socks[c].down), end) ELSE net.socks[c]
           n == Len(net.socks)
           socks == [c \in 1..n |-> y(c)]
<1>1. /\ Typed(net, produced) /\ net \in Connection(produced) /\ n \in Nat /\ produced \in Nat
      /\ DOMAIN net.socks = 1..n /\ produced' = produced
      /\ \A c \in 1..n : net.socks[c] \in Sock
      /\ net' = [net EXCEPT !.socks = socks]
    BY HeldTypes, TypesOf DEF ServerRestarts
<1>2. ASSUME NEW c \in 1..n
      PROVE  y(c) \in Sock /\ SockSlips(net.socks[c], y(c)) /\ Lasts(net.socks[c], y(c))
    <2>1. Len(net.socks[c].down) \in 0..Len(net.socks[c].down) /\ end \in Ends
        <3>1. net.socks[c].down \in Seq(Messages(DownTypes))
            BY <1>1 DEF Sock
        <3>2. Len(net.socks[c].down) \in Nat
            BY <3>1
        <3> QED
            BY <3>2 DEF Ends
    <2> HIDE DEF end
    <2> QED
        BY <1>1, <2>1, BrokenEnd DEF SockSlips, Lasts
<1> HIDE DEF y, n
<1>3. /\ socks \in Seq(Sock) /\ Len(socks) = n /\ DOMAIN socks = 1..n
      /\ \A c \in 1..n : socks[c] = y(c)
    BY <1>1, <1>2
<1> HIDE DEF socks
<1>4. /\ net' \in Connection(produced) /\ net'.socks = socks /\ SameFields(net, net')
    BY <1>1, <1>3 DEF Connection, SameFields, SameOutput
<1>5. Items(net') = Items(net)
    BY <1>4 DEF Items, SameFields, SameOutput
<1>6. Typed(net', produced)
    BY <1>1, <1>3, <1>4, <1>5 DEF Typed, SameFields, n
<1>7. Slips(net, net')
    <2>1. Len(net.events) <= Len(net'.events)
        BY <1>1, <1>4, TypesOf DEF SameFields, SameOutput
    <2> QED
        BY <1>1, <1>2, <1>3, <1>4, <2>1 DEF Slips, SameFields
<1> QED
    BY <1>1, <1>6, <1>7, SlipsGoes
-----------------------------------------------------------------------------
(* The viewer, and every step.                                              *)

\* A viewer shows no more than there is.
LEMMA ViewerReceivesViews ==
    ASSUME Held, NEW n \in server.got, ViewerReceives(n) PROVE Viewing'
<1> DEFINE last == Len(net.events) - 1
           buffer == viewer.buffer \cup {n}
           run == {m \in buffer : m >= viewer.next /\ viewer.next..m \subseteq buffer}
           next == viewer.next + Cardinality(run)
<1>1. /\ Len(net.events) \in Nat /\ viewer.next \in 0..Len(net.events)
      /\ buffer \subseteq 0..last
    <2>1. PICK g \in Nat : server.got = 0..(g - 1) /\ g <= Len(net.events)
        BY HeldTypes DEF SessionInv, ServerOK
    <2> QED
        BY <2>1, HeldTypes DEF Held, Viewing
<1>2. run \subseteq viewer.next..last /\ run \subseteq buffer
    <2>1. last \in Int /\ viewer.next \in Int
        BY <1>1
    <2>2. ASSUME NEW m \in buffer, m >= viewer.next PROVE m \in viewer.next..last
        <3> HIDE DEF buffer, last
        <3>1. m \in 0..last
            BY <1>1
        <3> QED
            BY <2>1, <2>2, <3>1
    <2> HIDE DEF buffer, last
    <2> QED
        BY <2>2
<1>3. Cardinality(run) \in Nat /\ Cardinality(run) <= Len(net.events) - viewer.next
    <2>1. /\ IsFiniteSet(viewer.next..last)
          /\ Cardinality(viewer.next..last) =
                IF viewer.next > last THEN 0 ELSE last - viewer.next + 1
        <3>1. last \in Int /\ viewer.next \in Int
            BY <1>1
        <3> HIDE DEF last, run, buffer, next
        <3> QED
            BY <3>1, FS_Interval
    <2>2. Cardinality(viewer.next..last) = Len(net.events) - viewer.next
        BY <1>1, <2>1
    <2> HIDE DEF run, last
    <2>3. /\ IsFiniteSet(run) /\ Cardinality(run) <= Cardinality(viewer.next..last)
        BY <1>2, <2>1, FS_Subset
    <2> QED
        BY <2>2, <2>3, FS_CardinalityType
<1>4. /\ DOMAIN viewer' = DOMAIN viewer
      /\ DOMAIN viewer = {"joined", "next", "buffer", "shown"}
      /\ viewer'.joined = viewer.joined /\ viewer'.next = next
      /\ viewer'.buffer = buffer \ run /\ net' = net
    BY DEF ViewerReceives, Held, Viewing
<1> HIDE DEF run, buffer, next
<1>5. next \in 0..Len(net.events)
    BY <1>1, <1>3 DEF next
<1> QED
    BY <1>1, <1>4, <1>5 DEF Held, Viewing

\* The connection and the counters, in every step.
LEMMA StepGoes ==
    ASSUME Held, Next
    PROVE  Goes /\ Viewing' /\ produced' \in 0..MaxItems /\ faults' \in 0..MaxFaults
<1> DEFINE Same == viewer' = viewer /\ produced' = produced
           Faults == faults' = faults \/ Fault
<1>1. /\ produced \in 0..MaxItems /\ faults \in 0..MaxFaults /\ Viewing
      /\ Len(net.events) \in Nat /\ Len(net'.events) \in Nat
    <2>1. Inv'
        BY NextInv DEF Held
    <2> QED
        BY <2>1, HeldTypes, SocksOf DEF Held, Inv, SessionInv, WellFormed
<1>2. Faults => faults' \in 0..MaxFaults
    BY <1>1, NumbersOf DEF Fault
<1>3. ASSUME Goes, viewer' = viewer PROVE Viewing'
    <2>1. Len(net.events) <= Len(net'.events)
        BY <1>3 DEF Goes
    <2> QED
        BY <1>1, <1>3, <2>1 DEF Viewing
<1>4. CASE PtyBytesRead \/ OtherEvent \/ BatchTimer
    <2>1. viewer' = viewer /\ faults' = faults /\ produced' \in 0..MaxItems
        BY <1>1, <1>4, NumbersOf DEF PtyBytesRead, OtherEvent, BatchTimer
    <2> QED
        BY <1>2, <1>3, <1>4, <2>1, OutputGoes
<1>5. CASE StopSharing
    <2>1. Same /\ Faults
        BY <1>5 DEF StopSharing
    <2> QED
        BY <1>1, <1>2, <1>3, <1>5, <2>1, StopSharingGoes
<1>6. ASSUME NEW a \in 1..MaxAttempts,
             StartupConnects(a) \/ StartupConnectFails(a) \/ StartupTimeout(a)
      PROVE  Goes /\ Same /\ Faults
    BY <1>6, StartupConnectsGoes, StartupFailsGoes
       DEF StartupConnects, StartupConnectFails, StartupTimeout
<1>7. CASE HeartbeatIdle
    <2>1. Same /\ Faults
        BY <1>7 DEF HeartbeatIdle
    <2> QED
        BY <1>1, <1>2, <1>3, <1>7, <2>1, HeartbeatIdleGoes
<1>8. CASE ReconnectConnects
    <2>1. Same /\ Faults
        BY <1>8 DEF ReconnectConnects
    <2> QED
        BY <1>1, <1>2, <1>3, <1>8, <2>1, ReconnectConnectsGoes
<1>9. CASE ReconnectTryFails \/ ReconnectGivesUp \/ AbortedReconnectEnds
    <2>1. Same /\ Faults
        BY <1>9 DEF ReconnectTryFails, ReconnectGivesUp, AbortedReconnectEnds
    <2> QED
        BY <1>1, <1>2, <1>3, <1>9, <2>1, ReconnectEndsGoes
<1>10. ASSUME NEW c \in DOMAIN net.socks, Receive(c) PROVE Goes /\ Same /\ Faults
    <2>1. Same /\ Faults
        BY <1>10 DEF Receive, SessionInitialized, FailedToInitialize, SessionReconnected,
           SessionOver, EventsProcessedAck, WebsocketError, WebsocketClosed,
           IgnoredMessage, Delivers
    <2> QED
        BY <1>10, <2>1, ReceiveGoes
<1>11. ASSUME NEW c \in DOMAIN net.socks, Server(c) \/ Disconnect(c)
       PROVE  Goes /\ Same /\ Faults
    <2>1. Same /\ Faults
        BY <1>11 DEF Server, Disconnect, ServerCreatesSession, ServerRefusesSession,
           ServerResumesSession, ServerRefusesReconnect, ServerProcessesEvent, ServerAcks,
           ServerEndsSession, ServerSeesClose, ServerReads
    <2> QED
        BY <1>11, <2>1, ServerGoes, ServerSeesCloseGoes, DisconnectGoes DEF Server
<1>12. CASE ServerRestarts
    <2>1. Same /\ Faults
        BY <1>12 DEF ServerRestarts
    <2> QED
        BY <1>1, <1>2, <1>3, <1>12, <2>1, ServerRestartsGoes
<1>13. CASE ViewerJoins \/ \E n \in server.got : ViewerReceives(n)
    <2>1. net' = net /\ produced' = produced /\ faults' = faults
        BY <1>13 DEF ViewerJoins, ViewerReceives
    <2>2. Goes
        BY <1>1, <2>1 DEF Goes, Held
    <2>3. Viewing'
        <3>1. CASE ViewerJoins
            BY <1>1, <3>1 DEF ViewerJoins, Viewing
        <3>2. CASE \E n \in server.got : ViewerReceives(n)
            BY <3>2, ViewerReceivesViews
        <3> QED
            BY <1>13, <3>1, <3>2
    <2> QED
        BY <1>1, <2>1, <2>2, <2>3
<1> QED
    BY <1>1, <1>2, <1>3, <1>4, <1>5, <1>6, <1>7, <1>8, <1>9, <1>10, <1>11, <1>12, <1>13
       DEF Next

LEMMA HeldNext == ASSUME Held, [Next]_vars PROVE Held'
<1>1. Inv'
    BY NextInv DEF Held
<1>2. CASE Next
    BY <1>1, <1>2, StepGoes DEF Held, Goes
<1>3. CASE UNCHANGED vars
    <2>1. net' = net /\ produced' = produced /\ viewer' = viewer /\ faults' = faults
        BY <1>3 DEF vars
    <2> QED
        BY <1>1, <2>1 DEF Held, Viewing
<1> QED
    BY <1>2, <1>3

LEMMA HeldInit == ASSUME Init PROVE Held
<1>1. PICK scrollback \in 0..MaxScrollback : net = NewNetwork(scrollback)
    BY DEF Init
<1>2. /\ scrollback \in Nat /\ 1 \in 1..MaxAttempts /\ 0 \in 0..MaxAttempts
      /\ (IF MaxAttempts > 1 THEN {1} ELSE {}) \in SUBSET (1..MaxAttempts)
    BY NumbersOf
<1>3. <<>> \in Seq(Seq(1..0)) /\ <<>> \in Seq(1..0) /\ <<>> \in Seq(Sock)
    OBVIOUS
<1>4. /\ net \in Connection(0) /\ net.stage = "BeforeStarted" /\ net.proxy = 0
      /\ net.events = <<>> /\ net.batch = <<>> /\ net.socks = <<>>
    BY <1>1, <1>2, <1>3 DEF NewNetwork, Connection, Stages
<1>5. produced = 0 /\ faults = 0
      /\ viewer = [joined |-> FALSE, next |-> 0, buffer |-> {}, shown |-> <<>>]
    BY DEF Init
<1>6. Items(net) = 0
    BY <1>4 DEF Items
<1>7. Typed(net, produced)
    BY <1>4, <1>5, <1>6, NumbersOf DEF Typed
<1>8. Found(net)
    BY <1>4 DEF Found
<1>9. Viewing
    BY <1>4, <1>5 DEF Viewing
<1> QED
    BY <1>5, <1>7, <1>8, <1>9, InitInv, NumbersOf DEF Held

LEMMA Holding == Spec => []Held
<1>1. Init => Held
    BY HeldInit
<1>2. Held /\ [Next]_vars => Held'
    BY HeldNext
<1> QED
    BY <1>1, <1>2, PTL DEF Spec

\* The connection, its sockets, the server and the viewer have their types, for
\* any number of attempts, items, sockets and failures: no attempt is counted
\* beyond startup_max_attempts, no more events are numbered than items were
\* produced, and what is kept, stored or shown is one of them
\* (sharer/network.rs, viewer/event_loop.rs).
THEOREM SessionTypes == Spec => []TypeOK
<1>1. Held => TypeOK
    <2> SUFFICES ASSUME Held PROVE TypeOK
        OBVIOUS
    <2>1. /\ Typed(net, produced) /\ net \in Connection(produced) /\ produced \in Nat
          /\ SessionInv(net, server) /\ Len(net.events) \in Nat /\ Len(net.socks) \in Nat
        BY HeldTypes
    <2>2. /\ Len(net.events) <= produced /\ produced \in 0..MaxItems /\ faults \in 0..MaxFaults
          /\ \A c \in DOMAIN net.socks : net.socks[c] \in Sock
        BY <2>1, TypesOf DEF Held
    <2>3. \A c \in DOMAIN net.socks :
              /\ net.socks[c].attempt \in 0..MaxAttempts
              /\ {net.socks[c].open, net.socks[c].alive} \subseteq BOOLEAN
              /\ net.socks[c].up \in Seq(Messages(UpTypes))
              /\ net.socks[c].down \in Seq(Messages(DownTypes))
        BY <2>2 DEF Sock
    <2>4. /\ server.got \subseteq 0..(Len(net.events) - 1)
          /\ server.acked \in 0..MaxItems /\ server.conn \in 0..Len(net.socks)
        <3>1. PICK g \in Nat : server.got = 0..(g - 1) /\ server.acked <= g
                               /\ g <= Len(net.events)
            BY <2>1 DEF SessionInv, ServerOK
        <3>2. server.acked \in Nat /\ server.conn \in Nat /\ server.conn <= Len(net.socks)
            BY <2>1 DEF SessionInv, ServerOK, SessionServer
        <3> QED
            BY <2>1, <2>2, <3>1, <3>2, NumbersOf
    <2>5. net.unacked \subseteq 0..(Len(net.events) - 1)
        BY <2>1 DEF SessionInv, Stored
    <2>6. /\ net.stage \in Stages /\ net.attempt \in 1..MaxAttempts
          /\ {net.winner, net.session} \subseteq 0..MaxAttempts
          /\ net.connecting \subseteq 1..MaxAttempts /\ net.timers \subseteq 1..MaxAttempts
          /\ {net.first, net.idle} \subseteq BOOLEAN
          /\ {net.loose, net.cut, net.shared} \subseteq Nat
          /\ net.events \in Seq(Seq(1..produced)) /\ net.batch \in Seq(1..produced)
        BY <2>1 DEF Connection
    <2>7. net.proxy \in 0..Len(net.socks) /\ Len(net.socks) <= MaxSockets
        BY <2>1 DEF Typed
    <2>8. /\ viewer.joined \in BOOLEAN /\ viewer.next \in 0..Len(net.events)
          /\ viewer.buffer \subseteq 0..(Len(net.events) - 1)
        BY DEF Held, Viewing
    <2> QED
        BY <2>2, <2>3, <2>4, <2>5, <2>6, <2>7, <2>8 DEF TypeOK
<1> QED
    BY <1>1, Holding, PTL

\* However the sockets come and go, a session that counts as started has a
\* connection that works, or is about to hear that it has none; the end of the
\* proxy's socket is neither ignored as another attempt's nor lost in the
\* handling of another message (on_websocket_connected, ws_proxy_tx,
\* should_ignore_startup_attempt_websocket_callback).
THEOREM LossIsFoundOut == Spec => []LossIsNoticed
<1>1. Held => LossIsNoticed
    <2> SUFFICES ASSUME Held, net.stage = "StartedSuccessfully" PROVE LossIsNoticed
        BY DEF LossIsNoticed
    <2> DEFINE x == net.socks[net.proxy]
    <2>1. /\ net.proxy \in DOMAIN net.socks /\ Ending(x) /\ Heeds(net)
          /\ x \in Sock
        BY HeldTypes, TypesOf DEF Found
    <2>2. ~ShouldIgnore(net.proxy)
        BY <2>1 DEF ShouldIgnore, Heeds
    <2>3. x.open \in BOOLEAN /\ x.alive \in BOOLEAN
        BY <2>1 DEF Sock
    <2> HIDE DEF x
    <2>4. (x.open /\ x.alive) \/ (x.alive /\ ~x.open) \/ (x.down # <<>> /\ ~x.alive)
        BY <2>1, <2>3 DEF Ending
    <2> QED
        BY <2>1, <2>2, <2>4 DEF LossIsNoticed, x
<1> QED
    BY <1>1, Holding, PTL
==============================================================================
