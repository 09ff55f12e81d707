------------------------ MODULE SharedSessionProofs --------------------------
(***************************************************************************)
(* A shared session of any length, over any number of startup attempts,    *)
(* sockets, failures and restarts of the server: the server has a prefix   *)
(* of the events, what it may still lack or forget is kept, the session is *)
(* the one its own socket created, and what is over stays over.            *)
(*                                                                         *)
(* The invariant is a predicate of the connection k and the server s, so   *)
(* that it can be followed through the handlers an action is made of.      *)
(***************************************************************************)
EXTENDS SharedSession, FiniteSetTheorems, SequenceTheorems, TLAPS

Message == [type : UpTypes \cup DownTypes, n : Int]
Socket == [attempt : Nat, open : BOOLEAN, alive : BOOLEAN,
           up : Seq(Message), down : Seq(Message)]
Network == [stage : Stages, attempt : Nat, winner : Nat, session : Int,
            connecting : SUBSET Nat, timers : SUBSET Nat, first : BOOLEAN,
            loose : Nat, cut : Nat, proxy : Nat, idle : BOOLEAN, shared : Nat,
            events : Seq(Seq(Nat)), unacked : SUBSET Int, batch : Seq(Nat),
            socks : Seq(Socket)]
SessionServer == [got : SUBSET Int, acked : Nat, conn : Nat]

\* The reconnects under way.
Active(k) == (IF k.first THEN 1 ELSE 0) + k.loose + k.cut

\* A broken socket carries nothing to the server, the proxy feeds the newest
\* socket, and a Network that was dropped does nothing more.
WellFormed(k) ==
    /\ k \in Network
    /\ \A c \in DOMAIN k.socks : ~k.socks[c].alive => k.socks[c].up = <<>>
    /\ k.proxy \in {0, Len(k.socks)}
    /\ k.stage = "Dropped" =>
          ~k.idle /\ k.connecting = {} /\ k.timers = {} /\ Active(k) = 0

\* The server has the events before some number, and has acknowledged a part.
ServerOK(k, s) ==
    /\ s \in SessionServer
    /\ \E g \in Nat : s.got = 0..(g - 1) /\ s.acked <= g /\ g <= Len(k.events)
    /\ s.conn <= Len(k.socks)

Stored(k, s) ==
    /\ k.unacked \subseteq 0..(Len(k.events) - 1)
    /\ \A n \in 0..(Len(k.events) - 1) : n \in k.unacked \/ n < s.acked
    /\ \A c \in DOMAIN k.socks : \A i \in DOMAIN k.socks[c].down :
          k.socks[c].down[i].type = "EventsProcessedAck" =>
              k.socks[c].down[i].n < s.acked

\* The server has event n, or gets it before position i of this queue.
Before(u, i, n, s) ==
    n = -1 \/ n \in s.got \/ \E j \in 1..(i - 1) : j \in DOMAIN u /\ u[j] = Msg("Event", n)

\* On the connection of the sharer each event comes after those before it.
InSequence(u, k, s) ==
    \A i \in DOMAIN u : u[i].type = "Event" =>
        /\ u[i].n \in 0..(Len(k.events) - 1)
        /\ Before(u, i, u[i].n - 1, s)
UpOK(k, s) == \A c \in DOMAIN k.socks : c >= s.conn => InSequence(k.socks[c].up, k, s)

\* A started session has sent all it has, so the next event may follow.
CaughtUp(k, s) ==
    k.stage = "StartedSuccessfully" /\ k.proxy # 0 =>
        (k.socks[k.proxy].open /\ k.socks[k.proxy].alive =>
            Before(k.socks[k.proxy].up, Len(k.socks[k.proxy].up) + 1,
                   Len(k.events) - 1, s))

\* One reconnect at a time is under way or waits for its answer.
Asking(x) == \E i \in DOMAIN x.up : x.up[i].type = "Reconnect"
Answered(x) == \E i \in DOMAIN x.down : x.down[i].type = "SessionReconnected"
AskedOnce(x) ==
    /\ Asking(x) => ~Answered(x)
    /\ \A i, j \in DOMAIN x.up :
          x.up[i].type = "Reconnect" /\ x.up[j].type = "Reconnect" => i = j
    /\ \A i, j \in DOMAIN x.down :
          x.down[i].type = "SessionReconnected" /\ x.down[j].type = "SessionReconnected"
              => i = j
Waits(x) == Asking(x) \/ Answered(x)
OneReconnect(k) ==
    /\ Active(k) <= 1
    /\ Active(k) > 0 => k.stage \in {"Reconnecting", "Finished"}
    /\ \A c \in DOMAIN k.socks :
          /\ AskedOnce(k.socks[c])
          /\ Waits(k.socks[c]) =>
                /\ k.stage \notin {"BeforeStarted", "StartedSuccessfully"}
                /\ k.stage = "Reconnecting" => Active(k) = 0 /\ c = Len(k.socks)

\* The answer to a reconnect says what the server still has when it is handled.
AnswerHolds(k, s) ==
    k.stage = "Reconnecting" =>
        \A c \in DOMAIN k.socks : k.socks[c].alive /\ Waits(k.socks[c]) =>
            /\ \A i \in DOMAIN k.socks[c].up : k.socks[c].up[i].type # "Event"
            /\ \A i \in DOMAIN k.socks[c].down :
                  k.socks[c].down[i].type = "SessionReconnected" =>
                      s.conn = c /\ s.got = 0..k.socks[c].down[i].n
                      /\ k.socks[c].down[i].n >= -1

\* Before the session starts the server knows nothing of it.
NotStarted(k, s) ==
    k.stage = "BeforeStarted" =>
        /\ s.got = {} /\ s.acked = 0 /\ k.session = 0
        /\ \A c \in DOMAIN k.socks : \A i \in DOMAIN k.socks[c].up :
              k.socks[c].up[i].type # "Event"

\* A session carries the name of the attempt whose socket created it.
Named(k) ==
    /\ \A c \in DOMAIN k.socks :
          /\ \A i \in DOMAIN k.socks[c].up : k.socks[c].up[i].type = "Initialize" =>
                k.socks[c].up[i].n = k.socks[c].attempt /\ k.socks[c].attempt # 0
          /\ \A i \in DOMAIN k.socks[c].down :
                k.socks[c].down[i].type = "SessionInitialized" =>
                    k.socks[c].down[i].n = k.socks[c].attempt /\ k.socks[c].attempt # 0
    /\ k.stage = "StartedSuccessfully" /\ k.winner # 0 =>
          /\ k.session = k.winner
          /\ \E c \in DOMAIN k.socks : k.socks[c].attempt = k.winner

SessionInv(k, s) ==
    /\ WellFormed(k) /\ ServerOK(k, s) /\ Stored(k, s) /\ UpOK(k, s)
    /\ CaughtUp(k, s) /\ OneReconnect(k) /\ AnswerHolds(k, s) /\ NotStarted(k, s)
    /\ Named(k)

Inv == SessionInv(net, server) /\ produced \in Nat

-----------------------------------------------------------------------------
(* Steps that bring nothing new: messages are taken from the front or lost, *)
(* others than those the invariant is about are added, the stage stays or   *)
(* becomes final.                                                           *)

UpCounted == {"Event", "Reconnect", "Initialize"}
DownCounted == {"SessionReconnected", "EventsProcessedAck", "SessionInitialized"}

UpCalm(u, v) ==
    \E e \in Nat :
        /\ \A i \in DOMAIN v : v[i].type \in UpCounted => i + e \in DOMAIN u /\ v[i] = u[i + e]
        /\ \A i \in DOMAIN u : u[i].type = "Event" => i - e \in DOMAIN v /\ v[i - e] = u[i]
DownCalm(d, f) ==
    \E e \in Nat :
        \A i \in DOMAIN f : f[i].type \in DownCounted => i + e \in DOMAIN d /\ f[i] = d[i + e]
SockCalm(x, y) ==
    /\ y.attempt = x.attempt
    /\ y.open => x.open
    /\ y.alive => x.alive
    /\ y.alive => UpCalm(x.up, y.up)
    /\ DownCalm(x.down, y.down)

\* What the stage may become.
Onward(a, b) ==
    \/ b = a
    \/ a \notin {"Finished", "Dropped"}
    \/ a = "Finished" /\ b = "Dropped"
CalmStage(k, l) ==
    /\ l.stage = k.stage \/ l.stage \in {"Finished", "Dropped"}
    /\ Onward(k.stage, l.stage)
    /\ l.stage = "StartedSuccessfully" => l.winner = k.winner
    /\ l.session = k.session

Calm(k, l) ==
    /\ WellFormed(l)
    /\ l.events = k.events /\ l.unacked = k.unacked
    /\ l.proxy \in {k.proxy, 0}
    /\ Active(l) <= Active(k)
    /\ CalmStage(k, l)
    /\ Len(l.socks) = Len(k.socks)
    /\ \A c \in DOMAIN k.socks : SockCalm(k.socks[c], l.socks[c])

LEMMA SocketFields ==
    ASSUME NEW x \in Socket
    PROVE  /\ x.attempt \in Nat /\ x.open \in BOOLEAN /\ x.alive \in BOOLEAN
           /\ x.up \in Seq(Message) /\ x.down \in Seq(Message)
BY DEF Socket

LEMMA SocksOf ==
    ASSUME NEW k \in Network
    PROVE  /\ Len(k.socks) \in Nat /\ DOMAIN k.socks = 1..Len(k.socks)
           /\ \A c \in DOMAIN k.socks : k.socks[c] \in Socket
           /\ Len(k.events) \in Nat /\ Active(k) \in Nat
<1>1. k.socks \in Seq(Socket) /\ k.events \in Seq(Seq(Nat))
      /\ k.first \in BOOLEAN /\ k.loose \in Nat /\ k.cut \in Nat
    BY DEF Network
<1> QED
    BY <1>1 DEF Active

LEMMA UpCalmSame == ASSUME NEW u \in Seq(Message) PROVE UpCalm(u, u)
<1>1. \A i \in DOMAIN u : i + 0 = i /\ i - 0 = i
    OBVIOUS
<1> QED
    BY <1>1 DEF UpCalm

LEMMA DownCalmSame == ASSUME NEW d \in Seq(Message) PROVE DownCalm(d, d)
<1>1. \A i \in DOMAIN d : i + 0 = i
    OBVIOUS
<1> QED
    BY <1>1 DEF DownCalm

LEMMA SockCalmSame == ASSUME NEW x \in Socket PROVE SockCalm(x, x)
BY UpCalmSame, DownCalmSame, SocketFields DEF SockCalm

LEMMA UpCalmTrans ==
    ASSUME NEW u \in Seq(Message), NEW v \in Seq(Message), NEW w \in Seq(Message),
           UpCalm(u, v), UpCalm(v, w)
    PROVE  UpCalm(u, w)
<1>1. PICK e \in Nat :
        /\ \A i \in DOMAIN v : v[i].type \in UpCounted => i + e \in DOMAIN u /\ v[i] = u[i + e]
        /\ \A i \in DOMAIN u : u[i].type = "Event" => i - e \in DOMAIN v /\ v[i - e] = u[i]
    BY DEF UpCalm
<1>2. PICK f \in Nat :
        /\ \A i \in DOMAIN w : w[i].type \in UpCounted => i + f \in DOMAIN v /\ w[i] = v[i + f]
        /\ \A i \in DOMAIN v : v[i].type = "Event" => i - f \in DOMAIN w /\ w[i - f] = v[i]
    BY DEF UpCalm
<1> DEFINE g == e + f
<1>3. g \in Nat
    OBVIOUS
<1>4. ASSUME NEW i \in DOMAIN w, w[i].type \in UpCounted
      PROVE  i + g \in DOMAIN u /\ w[i] = u[i + g]
    <2>1. i + f \in DOMAIN v /\ w[i] = v[i + f]
        BY <1>2, <1>4
    <2>2. (i + f) + e \in DOMAIN u /\ v[i + f] = u[(i + f) + e]
        BY <1>1, <1>4, <2>1
    <2>3. (i + f) + e = i + g
        OBVIOUS
    <2> QED
        BY <2>1, <2>2, <2>3
<1>5. ASSUME NEW i \in DOMAIN u, u[i].type = "Event"
      PROVE  i - g \in DOMAIN w /\ w[i - g] = u[i]
    <2>1. i - e \in DOMAIN v /\ v[i - e] = u[i]
        BY <1>1, <1>5
    <2>2. (i - e) - f \in DOMAIN w /\ w[(i - e) - f] = v[i - e]
        BY <1>2, <1>5, <2>1
    <2>3. (i - e) - f = i - g
        OBVIOUS
    <2> QED
        BY <2>1, <2>2, <2>3
<1> HIDE DEF g
<1> QED
    BY <1>3, <1>4, <1>5 DEF UpCalm

LEMMA DownCalmTrans ==
    ASSUME NEW u \in Seq(Message), NEW v \in Seq(Message), NEW w \in Seq(Message),
           DownCalm(u, v), DownCalm(v, w)
    PROVE  DownCalm(u, w)
<1>1. PICK e \in Nat :
        \A i \in DOMAIN v : v[i].type \in DownCounted => i + e \in DOMAIN u /\ v[i] = u[i + e]
    BY DEF DownCalm
<1>2. PICK f \in Nat :
        \A i \in DOMAIN w : w[i].type \in DownCounted => i + f \in DOMAIN v /\ w[i] = v[i + f]
    BY DEF DownCalm
<1> DEFINE g == e + f
<1>3. g \in Nat
    OBVIOUS
<1>4. ASSUME NEW i \in DOMAIN w, w[i].type \in DownCounted
      PROVE  i + g \in DOMAIN u /\ w[i] = u[i + g]
    <2>1. i + f \in DOMAIN v /\ w[i] = v[i + f]
        BY <1>2, <1>4
    <2>2. (i + f) + e \in DOMAIN u /\ v[i + f] = u[(i + f) + e]
        BY <1>1, <1>4, <2>1
    <2>3. (i + f) + e = i + g
        OBVIOUS
    <2> QED
        BY <2>1, <2>2, <2>3
<1> HIDE DEF g
<1> QED
    BY <1>3, <1>4 DEF DownCalm

LEMMA CalmTrans ==
    ASSUME NEW k, NEW l, NEW m, WellFormed(k), Calm(k, l), Calm(l, m)
    PROVE  Calm(k, m)
<1>1. /\ k \in Network /\ l \in Network /\ m \in Network
      /\ DOMAIN l.socks = DOMAIN k.socks /\ DOMAIN m.socks = DOMAIN k.socks
    BY SocksOf DEF Calm, WellFormed
<1>2. ASSUME NEW c \in DOMAIN k.socks PROVE SockCalm(k.socks[c], m.socks[c])
    <2>1. /\ SockCalm(k.socks[c], l.socks[c]) /\ SockCalm(l.socks[c], m.socks[c])
          /\ k.socks[c] \in Socket /\ l.socks[c] \in Socket /\ m.socks[c] \in Socket
        BY <1>1, SocksOf DEF Calm
    <2> QED
        BY <2>1, SocketFields, UpCalmTrans, DownCalmTrans DEF SockCalm
<1>3. CalmStage(k, m)
    BY DEF Calm, CalmStage, Onward
<1>4. Active(m) <= Active(k)
    BY <1>1, SocksOf DEF Calm
<1> QED
    BY <1>2, <1>3, <1>4 DEF Calm

LEMMA BeforeCalm ==
    ASSUME NEW u \in Seq(Message), NEW v \in Seq(Message), NEW s, NEW n \in Int,
           NEW e \in Nat, NEW i \in Int,
           \A j \in DOMAIN u : u[j].type = "Event" => j - e \in DOMAIN v /\ v[j - e] = u[j],
           Before(u, i + e, n, s)
    PROVE  Before(v, i, n, s)
<1> SUFFICES ASSUME n # -1, n \notin s.got PROVE Before(v, i, n, s)
    BY DEF Before
<1>1. PICK j \in 1..(i + e - 1) : j \in DOMAIN u /\ u[j] = Msg("Event", n)
    BY DEF Before
<1>2. j - e \in DOMAIN v /\ v[j - e] = Msg("Event", n)
    BY <1>1 DEF Msg
<1>3. j - e \in 1..(i - 1)
    BY <1>1, <1>2
<1> QED
    BY <1>2, <1>3 DEF Before

LEMMA InSequenceCalm ==
    ASSUME NEW u \in Seq(Message), NEW v \in Seq(Message), NEW k, NEW l, NEW s,
           UpCalm(u, v), l.events = k.events, InSequence(u, k, s)
    PROVE  InSequence(v, l, s)
<1>1. PICK e \in Nat :
        /\ \A i \in DOMAIN v : v[i].type \in UpCounted => i + e \in DOMAIN u /\ v[i] = u[i + e]
        /\ \A i \in DOMAIN u : u[i].type = "Event" => i - e \in DOMAIN v /\ v[i - e] = u[i]
    BY DEF UpCalm
<1>2. ASSUME NEW i \in DOMAIN v, v[i].type = "Event"
      PROVE  v[i].n \in 0..(Len(k.events) - 1) /\ Before(v, i, v[i].n - 1, s)
    <2>1. i + e \in DOMAIN u /\ v[i] = u[i + e]
        BY <1>1, <1>2 DEF UpCounted
    <2>2. v[i].n \in 0..(Len(k.events) - 1) /\ Before(u, i + e, v[i].n - 1, s)
        BY <1>2, <2>1 DEF InSequence
    <2>3. i \in Int /\ v[i].n - 1 \in Int
        BY <2>2
    <2> HIDE <1>2
    <2> QED
        BY <1>1, <2>2, <2>3, BeforeCalm
<1> QED
    BY <1>2 DEF InSequence

LEMMA BeforeEnd ==
    ASSUME NEW u \in Seq(Message), NEW v \in Seq(Message), NEW s, NEW n \in Int,
           UpCalm(u, v), Before(u, Len(u) + 1, n, s)
    PROVE  Before(v, Len(v) + 1, n, s)
<1>1. PICK e \in Nat :
        \A i \in DOMAIN u : u[i].type = "Event" => i - e \in DOMAIN v /\ v[i - e] = u[i]
    BY DEF UpCalm
<1> SUFFICES ASSUME n # -1, n \notin s.got PROVE Before(v, Len(v) + 1, n, s)
    BY DEF Before
<1>2. PICK j \in DOMAIN u : u[j] = Msg("Event", n)
    BY DEF Before
<1>3. j - e \in DOMAIN v /\ v[j - e] = Msg("Event", n)
    BY <1>1, <1>2 DEF Msg
<1>4. j - e \in 1..Len(v)
    BY <1>3
<1> QED
    BY <1>3, <1>4 DEF Before

LEMMA CalmAsks ==
    ASSUME NEW x \in Socket, NEW y \in Socket, SockCalm(x, y), AskedOnce(x),
           ~y.alive => y.up = <<>>
    PROVE  AskedOnce(y) /\ (Waits(y) => Waits(x))
<1>1. PICK f \in Nat : \A i \in DOMAIN y.down :
        y.down[i].type \in DownCounted => i + f \in DOMAIN x.down /\ y.down[i] = x.down[i + f]
    BY DEF SockCalm, DownCalm
<1>2. /\ Answered(y) => Answered(x)
      /\ \A i, j \in DOMAIN y.down :
            y.down[i].type = "SessionReconnected" /\ y.down[j].type = "SessionReconnected"
                => i = j
    <2>1. DOMAIN x.down \subseteq Int /\ DOMAIN y.down \subseteq Int
        BY SocketFields
    <2>2. Answered(y) => Answered(x)
        BY <1>1 DEF Answered, DownCounted
    <2>3. ASSUME NEW i \in DOMAIN y.down, NEW j \in DOMAIN y.down,
                 y.down[i].type = "SessionReconnected", y.down[j].type = "SessionReconnected"
          PROVE  i = j
        <3>1. i + f = j + f
            BY <1>1, <2>3 DEF AskedOnce, DownCounted
        <3> QED
            BY <2>1, <3>1
    <2> QED
        BY <2>2, <2>3
<1>3. CASE ~y.alive
    <2>1. ~Asking(y) /\ DOMAIN y.up = {}
        BY <1>3 DEF Asking
    <2> QED
        BY <1>2, <2>1 DEF AskedOnce, Waits
<1>4. CASE y.alive
    <2>1. PICK e \in Nat : \A i \in DOMAIN y.up :
            y.up[i].type \in UpCounted => i + e \in DOMAIN x.up /\ y.up[i] = x.up[i + e]
        BY <1>4 DEF SockCalm, UpCalm
    <2>2. DOMAIN y.up \subseteq Int
        BY SocketFields
    <2>3. Asking(y) => Asking(x)
        BY <2>1 DEF Asking, UpCounted
    <2>4. ASSUME NEW i \in DOMAIN y.up, NEW j \in DOMAIN y.up,
                 y.up[i].type = "Reconnect", y.up[j].type = "Reconnect"
          PROVE  i = j
        <3>1. i + e = j + e
            BY <2>1, <2>4 DEF AskedOnce, UpCounted
        <3> QED
            BY <2>2, <3>1
    <2>5. Asking(y) => ~Answered(y)
        BY <1>2, <2>3 DEF AskedOnce
    <2> QED
        BY <1>2, <2>3, <2>4, <2>5 DEF AskedOnce, Waits
<1> QED
    BY <1>3, <1>4

\* Calm steps keep the invariant: nothing in it needs anything to go on.
LEMMA CalmKeeps ==
    ASSUME NEW k, NEW l, NEW s, SessionInv(k, s), Calm(k, l)
    PROVE  SessionInv(l, s)
<1>1. /\ WellFormed(k) /\ WellFormed(l) /\ k \in Network /\ l \in Network
      /\ DOMAIN l.socks = DOMAIN k.socks /\ Len(l.socks) = Len(k.socks)
      /\ \A c \in DOMAIN k.socks :
            SockCalm(k.socks[c], l.socks[c]) /\ k.socks[c] \in Socket /\ l.socks[c] \in Socket
      /\ l.events = k.events /\ l.unacked = k.unacked
    BY SocksOf DEF Calm, WellFormed, SessionInv
<1>2. \A c \in DOMAIN k.socks :
        /\ k.socks[c].up \in Seq(Message) /\ l.socks[c].up \in Seq(Message)
        /\ ~l.socks[c].alive => l.socks[c].up = <<>>
        /\ l.socks[c].alive => k.socks[c].alive /\ UpCalm(k.socks[c].up, l.socks[c].up)
        /\ l.socks[c].open => k.socks[c].open
        /\ l.socks[c].attempt = k.socks[c].attempt
    BY <1>1, SocketFields DEF WellFormed, SockCalm
<1>3. ASSUME NEW c \in DOMAIN k.socks, NEW i \in DOMAIN l.socks[c].down,
             l.socks[c].down[i].type \in DownCounted
      PROVE  \E j \in DOMAIN k.socks[c].down : k.socks[c].down[j] = l.socks[c].down[i]
    BY <1>1, <1>3 DEF SockCalm, DownCalm
<1>4. ASSUME NEW c \in DOMAIN k.socks, NEW i \in DOMAIN l.socks[c].up,
             l.socks[c].up[i].type \in UpCounted
      PROVE  \E j \in DOMAIN k.socks[c].up : k.socks[c].up[j] = l.socks[c].up[i]
    <2>1. l.socks[c].up # <<>>
        OBVIOUS
    <2> QED
        BY <1>2, <1>4, <2>1 DEF UpCalm
<1>5. ServerOK(l, s)
    BY <1>1 DEF SessionInv, ServerOK
<1>6. Stored(l, s)
    BY <1>1, <1>3 DEF SessionInv, Stored, DownCounted
<1>7. UpOK(l, s)
    <2>1. ASSUME NEW c \in DOMAIN l.socks, c >= s.conn PROVE InSequence(l.socks[c].up, l, s)
        <3>1. InSequence(k.socks[c].up, k, s)
            BY <1>1, <2>1 DEF SessionInv, UpOK
        <3>2. CASE l.socks[c].alive
            BY <1>1, <1>2, <3>1, <3>2, InSequenceCalm
        <3>3. CASE ~l.socks[c].alive
            <4>1. l.socks[c].up = <<>>
                BY <1>1, <1>2, <3>3
            <4> QED
                BY <4>1 DEF InSequence
        <3> QED
            BY <3>2, <3>3
    <2> QED
        BY <2>1 DEF UpOK
<1>8. CaughtUp(l, s)
    <2> SUFFICES ASSUME l.stage = "StartedSuccessfully", l.proxy # 0,
                        l.socks[l.proxy].open, l.socks[l.proxy].alive
                 PROVE  Before(l.socks[l.proxy].up, Len(l.socks[l.proxy].up) + 1,
                               Len(l.events) - 1, s)
        BY DEF CaughtUp
    <2>1. k.stage = "StartedSuccessfully" /\ k.proxy = l.proxy
        BY DEF Calm, CalmStage
    <2>2. l.proxy \in DOMAIN k.socks
        BY <1>1, <2>1, SocksOf DEF WellFormed
    <2>3. Before(k.socks[k.proxy].up, Len(k.socks[k.proxy].up) + 1, Len(k.events) - 1, s)
        BY <1>2, <2>1, <2>2 DEF SessionInv, CaughtUp
    <2>4. Len(k.events) - 1 \in Int
        BY <1>1, SocksOf
    <2> QED
        BY <1>1, <1>2, <2>1, <2>2, <2>3, <2>4, BeforeEnd
<1>9. \A c \in DOMAIN k.socks :
        AskedOnce(l.socks[c]) /\ (Waits(l.socks[c]) => Waits(k.socks[c]))
    BY <1>1, <1>2, CalmAsks DEF SessionInv, OneReconnect
<1>10. OneReconnect(l)
    <2>1. Active(l) \in Nat /\ Active(k) \in Nat /\ Active(l) <= Active(k)
        BY <1>1, SocksOf DEF Calm
    <2>2. l.stage = "Dropped" => Active(l) = 0
        BY <1>1 DEF WellFormed
    <2>3. l.stage = k.stage \/ l.stage \in {"Finished", "Dropped"}
        BY DEF Calm, CalmStage
    <2> QED
        BY <1>1, <1>9, <2>1, <2>2, <2>3 DEF SessionInv, OneReconnect
<1>11. AnswerHolds(l, s)
    <2> SUFFICES ASSUME l.stage = "Reconnecting", NEW c \in DOMAIN k.socks,
                        l.socks[c].alive, Waits(l.socks[c])
                 PROVE  /\ \A i \in DOMAIN l.socks[c].up : l.socks[c].up[i].type # "Event"
                        /\ \A i \in DOMAIN l.socks[c].down :
                              l.socks[c].down[i].type = "SessionReconnected" =>
                                  s.conn = c /\ s.got = 0..l.socks[c].down[i].n
                                  /\ l.socks[c].down[i].n >= -1
        BY <1>1 DEF AnswerHolds
    <2>1. k.stage = "Reconnecting" /\ k.socks[c].alive /\ Waits(k.socks[c])
        BY <1>2, <1>9 DEF Calm, CalmStage
    <2> QED
        BY <1>3, <1>4, <2>1 DEF SessionInv, AnswerHolds, UpCounted, DownCounted
<1>12. NotStarted(l, s)
    BY <1>1, <1>4 DEF SessionInv, NotStarted, Calm, CalmStage, UpCounted
<1>13. Named(l)
    <2>1. l.stage = "StartedSuccessfully" =>
            l.winner = k.winner /\ l.session = k.session /\ k.stage = "StartedSuccessfully"
        BY DEF Calm, CalmStage
    <2> QED
        BY <1>1, <1>2, <1>3, <1>4, <2>1 DEF SessionInv, Named, UpCounted, DownCounted
<1> QED
    BY <1>1, <1>5, <1>6, <1>7, <1>8, <1>10, <1>11, <1>12, <1>13 DEF SessionInv

-----------------------------------------------------------------------------
(* The handlers that are calm. *)

Quiet(k) == ~k.idle /\ k.connecting = {} /\ k.timers = {} /\ Active(k) = 0

LEMMA FieldsCalm ==
    ASSUME NEW k, NEW l, WellFormed(k), l \in Network,
           l.socks = k.socks, l.events = k.events, l.unacked = k.unacked,
           l.proxy \in {k.proxy, 0}, Active(l) <= Active(k), CalmStage(k, l),
           l.stage = "Dropped" => Quiet(l)
    PROVE  Calm(k, l)
<1>1. \A c \in DOMAIN k.socks : SockCalm(k.socks[c], l.socks[c])
    BY SocksOf, SockCalmSame DEF WellFormed
<1>2. WellFormed(l)
    BY DEF WellFormed, Quiet
<1> QED
    BY <1>1, <1>2 DEF Calm

WithSock(k, c, x) == [k EXCEPT !.socks[c] = x]

LEMMA WithSockFields ==
    ASSUME NEW k \in Network, NEW c \in DOMAIN k.socks, NEW x \in Socket
    PROVE  /\ WithSock(k, c, x) \in Network
           /\ DOMAIN WithSock(k, c, x).socks = DOMAIN k.socks
           /\ Len(WithSock(k, c, x).socks) = Len(k.socks)
           /\ WithSock(k, c, x).socks[c] = x
           /\ \A d \in DOMAIN k.socks \ {c} : WithSock(k, c, x).socks[d] = k.socks[d]
           /\ WithSock(k, c, x).stage = k.stage /\ WithSock(k, c, x).winner = k.winner
           /\ WithSock(k, c, x).session = k.session /\ WithSock(k, c, x).proxy = k.proxy
           /\ WithSock(k, c, x).events = k.events /\ WithSock(k, c, x).unacked = k.unacked
           /\ Active(WithSock(k, c, x)) = Active(k)
           /\ Quiet(WithSock(k, c, x)) <=> Quiet(k)
<1> DEFINE socks == [k.socks EXCEPT ![c] = x]
           l == WithSock(k, c, x)
<1>1. /\ socks \in Seq(Socket) /\ Len(socks) = Len(k.socks) /\ DOMAIN socks = DOMAIN k.socks
      /\ socks[c] = x /\ \A d \in DOMAIN k.socks \ {c} : socks[d] = k.socks[d]
    <2>1. k.socks \in Seq(Socket)
        BY DEF Network
    <2> QED
        BY <2>1, ExceptSeq
<1>2. l = [k EXCEPT !.socks = socks]
    BY DEF WithSock
<1> HIDE DEF socks, l
<1>3. /\ l \in Network /\ l.socks = socks
      /\ l.stage = k.stage /\ l.winner = k.winner
      /\ l.session = k.session /\ l.proxy = k.proxy
      /\ l.events = k.events /\ l.unacked = k.unacked
      /\ l.first = k.first /\ l.loose = k.loose /\ l.cut = k.cut
      /\ l.idle = k.idle /\ l.connecting = k.connecting /\ l.timers = k.timers
    BY <1>1, <1>2 DEF Network
<1>4. Active(l) = Active(k) /\ (Quiet(l) <=> Quiet(k))
    BY <1>3 DEF Active, Quiet
<1> QED
    BY <1>1, <1>3, <1>4 DEF l

LEMMA SocketCalm ==
    ASSUME NEW k, WellFormed(k), NEW c \in DOMAIN k.socks, NEW x \in Socket,
           SockCalm(k.socks[c], x), ~x.alive => x.up = <<>>
    PROVE  Calm(k, WithSock(k, c, x))
<1> DEFINE l == WithSock(k, c, x)
<1>1. k \in Network /\ Active(k) \in Nat
    BY SocksOf DEF WellFormed
<1>2. /\ l \in Network
      /\ DOMAIN l.socks = DOMAIN k.socks
      /\ Len(l.socks) = Len(k.socks)
      /\ l.socks[c] = x
      /\ \A d \in DOMAIN k.socks \ {c} : l.socks[d] = k.socks[d]
      /\ l.stage = k.stage /\ l.winner = k.winner
      /\ l.session = k.session /\ l.proxy = k.proxy
      /\ l.events = k.events /\ l.unacked = k.unacked
      /\ Active(l) = Active(k)
      /\ Quiet(l) <=> Quiet(k)
    BY <1>1, WithSockFields
<1> HIDE DEF l
<1>3. \A d \in DOMAIN k.socks : SockCalm(k.socks[d], l.socks[d])
    BY <1>1, <1>2, SocksOf, SockCalmSame
<1>4. WellFormed(l)
    BY <1>1, <1>2 DEF WellFormed, Quiet
<1>5. CalmStage(k, l)
    BY <1>2 DEF CalmStage, Onward
<1> QED
    BY <1>1, <1>2, <1>3, <1>4, <1>5 DEF Calm, l

LEMMA CalmCloseProxy ==
    ASSUME NEW k, WellFormed(k)
    PROVE  /\ Calm(k, CloseProxy(k)) /\ CloseProxy(k).stage = k.stage
           /\ CloseProxy(k).winner = k.winner
<1>1. CASE k.proxy = 0
    <2>1. Active(k) \in Nat
        BY SocksOf DEF WellFormed
    <2>2. Calm(k, k)
        BY <2>1, FieldsCalm DEF WellFormed, CalmStage, Onward, Quiet
    <2> QED
        BY <1>1, <2>2 DEF CloseProxy
<1>2. CASE k.proxy # 0
    <2> DEFINE x == [k.socks[k.proxy] EXCEPT !.open = FALSE]
    <2>1. k \in Network /\ k.proxy \in DOMAIN k.socks /\ k.socks[k.proxy] \in Socket
        BY <1>2, SocksOf DEF WellFormed
    <2>2. x \in Socket /\ SockCalm(k.socks[k.proxy], x) /\ (~x.alive => x.up = <<>>)
        <3>1. /\ x \in Socket /\ x.attempt = k.socks[k.proxy].attempt /\ ~x.open
              /\ x.alive = k.socks[k.proxy].alive /\ x.up = k.socks[k.proxy].up
              /\ x.down = k.socks[k.proxy].down
            BY <2>1 DEF Socket
        <3> HIDE DEF x
        <3> QED
            BY <2>1, <3>1, SockCalmSame DEF WellFormed, SockCalm
    <2>3. CloseProxy(k) = WithSock(k, k.proxy, x)
        BY <1>2 DEF CloseProxy, WithSock
    <2> HIDE DEF x
    <2> QED
        BY <2>1, <2>2, <2>3, SocketCalm, WithSockFields
<1> QED
    BY <1>1, <1>2

LEMMA CalmAbort ==
    ASSUME NEW k, WellFormed(k)
    PROVE  /\ Calm(k, Abort(k)) /\ Abort(k).stage = k.stage
           /\ Abort(k).winner = k.winner
<1> DEFINE l == Abort(k)
<1>1. k \in Network
    BY DEF WellFormed
<1>2. /\ l \in Network /\ l.socks = k.socks /\ l.events = k.events
      /\ l.unacked = k.unacked /\ l.proxy = k.proxy /\ l.stage = k.stage
      /\ l.winner = k.winner /\ l.session = k.session
      /\ l.idle = k.idle /\ l.connecting = k.connecting /\ l.timers = k.timers
    <2>1. CASE k.stage = "Reconnecting" /\ k.first
        <3>1. l = [k EXCEPT !.first = FALSE, !.cut = k.cut + 1]
            BY <2>1 DEF Abort
        <3>2. k.cut + 1 \in Nat
            BY <1>1 DEF Network
        <3> HIDE DEF l
        <3> QED
            BY <1>1, <3>1, <3>2 DEF Network
    <2>2. CASE ~(k.stage = "Reconnecting" /\ k.first)
        BY <1>1, <2>2 DEF Abort
    <2> QED
        BY <2>1, <2>2
<1>3. Active(l) = Active(k)
    <2>1. CASE k.stage = "Reconnecting" /\ k.first
        <3>1. l.first = FALSE /\ l.loose = k.loose /\ l.cut = k.cut + 1
            BY <1>1, <2>1 DEF Network, Abort
        <3>2. k.loose \in Nat /\ k.cut \in Nat
            BY <1>1 DEF Network
        <3> QED
            BY <2>1, <3>1, <3>2 DEF Active
    <2>2. CASE ~(k.stage = "Reconnecting" /\ k.first)
        BY <2>2 DEF Abort
    <2> QED
        BY <2>1, <2>2
<1>4. Active(k) \in Nat
    BY <1>1, SocksOf
<1> HIDE DEF l
<1>5. CalmStage(k, l) /\ (l.stage = "Dropped" => Quiet(l))
    BY <1>2, <1>3 DEF CalmStage, Onward, WellFormed, Quiet
<1>6. Calm(k, l)
    BY <1>2, <1>3, <1>4, <1>5, FieldsCalm
<1> QED
    BY <1>2, <1>6 DEF l

LEMMA CalmClose ==
    ASSUME NEW k, WellFormed(k)
    PROVE  Calm(k, Close(k)) /\ Close(k).stage = k.stage /\ Close(k).winner = k.winner
<1>1. Calm(k, Abort(k)) /\ Abort(k).stage = k.stage /\ Abort(k).winner = k.winner
      /\ WellFormed(Abort(k))
    BY CalmAbort DEF Calm
<1>2. /\ Calm(Abort(k), Close(k)) /\ Close(k).stage = k.stage
      /\ Close(k).winner = k.winner
    BY <1>1, CalmCloseProxy DEF Close
<1> QED
    BY <1>1, <1>2, CalmTrans

LEMMA CalmFinish ==
    ASSUME NEW k, WellFormed(k), k.stage # "Dropped"
    PROVE  /\ Calm(k, CloseWithoutReconnection(k))
           /\ CloseWithoutReconnection(k).stage = "Finished"
<1> DEFINE j == Close(k)
           l == CloseWithoutReconnection(k)
<1>1. Calm(k, j) /\ j.stage = k.stage /\ WellFormed(j) /\ j \in Network
    BY CalmClose DEF Calm, WellFormed
<1>2. l = [j EXCEPT !.stage = "Finished"]
    BY DEF CloseWithoutReconnection
<1> HIDE DEF j, l
<1>3. /\ l \in Network /\ l.socks = j.socks /\ l.events = j.events
      /\ l.unacked = j.unacked /\ l.proxy = j.proxy /\ l.stage = "Finished"
      /\ l.session = j.session /\ l.first = j.first /\ l.loose = j.loose /\ l.cut = j.cut
    BY <1>1, <1>2 DEF Network, Stages
<1>4. Active(l) <= Active(j)
    <2>1. Active(l) = Active(j) /\ Active(j) \in Nat
        BY <1>1, <1>3, SocksOf DEF Active
    <2> QED
        BY <2>1
<1>5. CalmStage(j, l)
    BY <1>1, <1>3 DEF CalmStage, Onward
<1>6. Calm(j, l)
    BY <1>1, <1>3, <1>4, <1>5, FieldsCalm
<1>7. Calm(k, l)
    BY <1>1, <1>6, CalmTrans
<1> QED
    BY <1>3, <1>7 DEF l

LEMMA CalmDrop ==
    ASSUME NEW k, WellFormed(k)
    PROVE  Calm(k, Drop(k)) /\ Drop(k).stage = "Dropped"
<1> DEFINE j == Close(k)
           l == Drop(k)
<1>1. Calm(k, j) /\ WellFormed(j) /\ j \in Network
    BY CalmClose DEF Calm, WellFormed
<1>2. l = [j EXCEPT !.stage = "Dropped", !.connecting = {}, !.timers = {},
                    !.first = FALSE, !.loose = 0, !.cut = 0, !.idle = FALSE]
    BY DEF Drop
<1> HIDE DEF j, l
<1>3. /\ l \in Network /\ l.socks = j.socks /\ l.events = j.events
      /\ l.unacked = j.unacked /\ l.proxy = j.proxy /\ l.stage = "Dropped"
      /\ l.session = j.session /\ l.first = FALSE /\ l.loose = 0 /\ l.cut = 0
      /\ l.idle = FALSE /\ l.connecting = {} /\ l.timers = {}
    BY <1>1, <1>2 DEF Network, Stages
<1>4. Active(l) = 0 /\ Active(j) \in Nat
    BY <1>1, <1>3, SocksOf DEF Active
<1>5. CalmStage(j, l) /\ Quiet(l)
    BY <1>3, <1>4 DEF CalmStage, Onward, Quiet
<1>6. Calm(j, l)
    BY <1>1, <1>3, <1>4, <1>5, FieldsCalm
<1>7. Calm(k, l)
    BY <1>1, <1>6, CalmTrans
<1> QED
    BY <1>3, <1>7 DEF l

\* What is sent to the server: anything but an event is calm.
LEMMA SentSocket ==
    ASSUME NEW x \in Socket, NEW m \in Message, x.alive
    PROVE  /\ [x EXCEPT !.up = Append(@, m)] \in Socket
           /\ [x EXCEPT !.up = Append(@, m)].up = Append(x.up, m)
           /\ [x EXCEPT !.up = Append(@, m)].alive
           /\ [x EXCEPT !.up = Append(@, m)].open = x.open
           /\ [x EXCEPT !.up = Append(@, m)].attempt = x.attempt
           /\ [x EXCEPT !.up = Append(@, m)].down = x.down
<1> DEFINE q == Append(x.up, m)
<1>1. q \in Seq(Message)
    <2>1. x.up \in Seq(Message)
        BY SocketFields
    <2> QED
        BY <2>1
<1> HIDE DEF q
<1>2. [x EXCEPT !.up = q] \in Socket
    BY <1>1 DEF Socket
<1> QED
    BY <1>1, <1>2 DEF Socket, q

LEMMA Appended ==
    ASSUME NEW u \in Seq(Message), NEW m \in Message
    PROVE  /\ Append(u, m) \in Seq(Message) /\ Len(Append(u, m)) = Len(u) + 1
           /\ DOMAIN Append(u, m) = 1..(Len(u) + 1) /\ DOMAIN u = 1..Len(u)
           /\ Len(u) \in Nat
           /\ Append(u, m)[Len(u) + 1] = m
           /\ \A i \in DOMAIN u : Append(u, m)[i] = u[i]
OBVIOUS

LEMMA CalmSend ==
    ASSUME NEW k, WellFormed(k), NEW m \in Message, m.type \notin UpCounted
    PROVE  Calm(k, Send(k, m)) /\ Send(k, m).stage = k.stage
<1>1. CASE k.proxy # 0 /\ k.socks[k.proxy].open /\ k.socks[k.proxy].alive
    <2> DEFINE x == k.socks[k.proxy]
               y == [x EXCEPT !.up = Append(@, m)]
    <2>1. k \in Network /\ k.proxy \in DOMAIN k.socks /\ x \in Socket /\ x.alive
        BY <1>1, SocksOf DEF WellFormed
    <2>2. /\ y \in Socket /\ y.up = Append(x.up, m) /\ y.alive /\ y.open = x.open
          /\ y.attempt = x.attempt /\ y.down = x.down
        BY <2>1, SentSocket
    <2>3. Send(k, m) = WithSock(k, k.proxy, y)
        BY <1>1 DEF Send, WithSock
    <2> HIDE DEF y, x
    <2>4. UpCalm(x.up, y.up)
        <3> DEFINE u == x.up
                   v == Append(u, m)
        <3>1. u \in Seq(Message)
            BY <2>1, SocketFields
        <3>2. /\ DOMAIN v = 1..(Len(u) + 1) /\ DOMAIN u = 1..Len(u)
              /\ Len(u) \in Nat
              /\ v[Len(u) + 1] = m
              /\ \A i \in DOMAIN u : v[i] = u[i]
            BY <3>1, Appended
        <3> HIDE DEF u, v
        <3>3. \A i \in DOMAIN v : v[i].type \in UpCounted => i + 0 \in DOMAIN u /\ v[i] = u[i + 0]
            BY <3>2
        <3>4. \A i \in DOMAIN u : u[i].type = "Event" => i - 0 \in DOMAIN v /\ v[i - 0] = u[i]
            BY <3>2
        <3>5. UpCalm(u, v)
            BY <3>3, <3>4 DEF UpCalm
        <3> QED
            BY <2>2, <3>5 DEF u, v
    <2>5. SockCalm(x, y)
        BY <2>1, <2>2, <2>4, SockCalmSame DEF SockCalm
    <2>6. Calm(k, WithSock(k, k.proxy, y))
        BY <2>1, <2>2, <2>5, SocketCalm DEF x
    <2> QED
        BY <2>1, <2>2, <2>3, <2>6, WithSockFields
<1>2. CASE ~(k.proxy # 0 /\ k.socks[k.proxy].open /\ k.socks[k.proxy].alive)
    <2>1. Send(k, m) = k
        BY <1>2 DEF Send
    <2>2. Calm(k, k)
        BY SocksOf, FieldsCalm DEF WellFormed, CalmStage, Onward, Quiet
    <2> QED
        BY <2>1, <2>2
<1> QED
    BY <1>1, <1>2

LEMMA CalmEndSession ==
    ASSUME NEW k, WellFormed(k), k.stage # "Dropped"
    PROVE  Calm(k, EndSession(k)) /\ EndSession(k).stage = "Finished"
<1> DEFINE j == IF k.stage = "StartedSuccessfully" THEN Send(k, Msg("EndSession", 0)) ELSE k
<1>1. Calm(k, k)
    BY SocksOf, FieldsCalm DEF WellFormed, CalmStage, Onward, Quiet
<1>2. Msg("EndSession", 0) \in Message /\ Msg("EndSession", 0).type \notin UpCounted
    BY DEF Msg, Message, UpCounted, UpTypes, DownTypes
<1>3. Calm(k, j) /\ j.stage = k.stage /\ WellFormed(j)
    BY <1>1, <1>2, CalmSend DEF Calm
<1>4. EndSession(k) = CloseWithoutReconnection(j)
    BY DEF EndSession
<1> HIDE DEF j
<1>5. Calm(j, EndSession(k)) /\ EndSession(k).stage = "Finished"
    BY <1>3, <1>4, CalmFinish
<1> QED
    BY <1>3, <1>5, CalmTrans

LEMMA CalmStartCreate ==
    ASSUME NEW k, WellFormed(k), k.stage = "BeforeStarted"
    PROVE  Calm(k, StartCreateSessionAttempt(k))
<1> DEFINE j == CloseProxy(k)
           a == k.attempt + 1
           timers == IF MaxAttempts > 1 THEN j.timers \cup {a} ELSE j.timers
           l == StartCreateSessionAttempt(k)
<1>1. Calm(k, j) /\ j.stage = k.stage /\ WellFormed(j) /\ j \in Network /\ k \in Network
    BY CalmCloseProxy DEF Calm, WellFormed
<1>2. l = [j EXCEPT !.attempt = a, !.proxy = 0, !.idle = FALSE,
                    !.connecting = j.connecting \cup {a}, !.timers = timers]
    BY DEF StartCreateSessionAttempt
<1>3. a \in Nat /\ j.connecting \cup {a} \in SUBSET Nat /\ timers \in SUBSET Nat
    <2>1. k.attempt \in Nat /\ j.connecting \in SUBSET Nat /\ j.timers \in SUBSET Nat
        BY <1>1 DEF Network
    <2> HIDE DEF j
    <2> QED
        BY <2>1
<1> HIDE DEF j, l, a, timers
<1>4. /\ l \in Network /\ l.socks = j.socks /\ l.events = j.events
      /\ l.unacked = j.unacked /\ l.proxy = 0 /\ l.stage = j.stage
      /\ l.session = j.session /\ l.winner = j.winner
      /\ l.first = j.first /\ l.loose = j.loose /\ l.cut = j.cut
    BY <1>1, <1>2, <1>3 DEF Network
<1>5. Active(l) = Active(j) /\ Active(j) \in Nat
    BY <1>1, <1>4, SocksOf DEF Active
<1>6. CalmStage(j, l)
    BY <1>4 DEF CalmStage, Onward
<1>7. Calm(j, l)
    BY <1>1, <1>4, <1>5, <1>6, FieldsCalm
<1>8. Calm(k, l)
    BY <1>1, <1>7, CalmTrans
<1> QED
    BY <1>8 DEF l

LEMMA CalmStartupFailure ==
    ASSUME NEW k, WellFormed(k), NEW retryable
    PROVE  Calm(k, HandleStartupFailure(k, retryable))
<1>1. Calm(k, k)
    BY SocksOf, FieldsCalm DEF WellFormed, CalmStage, Onward, Quiet
<1> QED
    BY <1>1, CalmStartCreate, CalmDrop DEF HandleStartupFailure

\* A message is taken from a socket.
LEMMA PoppedSocket ==
    ASSUME NEW x \in Socket, x.down # <<>>
    PROVE  /\ [x EXCEPT !.down = Tail(@)] \in Socket
           /\ [x EXCEPT !.down = Tail(@)].down = Tail(x.down)
           /\ [x EXCEPT !.down = Tail(@)].up = x.up
           /\ [x EXCEPT !.down = Tail(@)].alive = x.alive
           /\ [x EXCEPT !.down = Tail(@)].open = x.open
           /\ [x EXCEPT !.down = Tail(@)].attempt = x.attempt
<1> DEFINE q == Tail(x.down)
<1>1. q \in Seq(Message)
    <2>1. x.down \in Seq(Message)
        BY SocketFields
    <2> QED
        BY <2>1
<1> HIDE DEF q
<1>2. [x EXCEPT !.down = q] \in Socket
    BY <1>1 DEF Socket
<1> QED
    BY <1>1, <1>2 DEF Socket, q

LEMMA Tails ==
    ASSUME NEW u \in Seq(Message), u # <<>>
    PROVE  /\ Tail(u) \in Seq(Message) /\ Len(u) \in Nat \ {0}
           /\ DOMAIN u = 1..Len(u) /\ DOMAIN Tail(u) = 1..(Len(u) - 1)
           /\ Len(Tail(u)) = Len(u) - 1
           /\ \A i \in DOMAIN Tail(u) : i + 1 \in DOMAIN u /\ Tail(u)[i] = u[i + 1]
           /\ Head(u) = u[1] /\ 1 \in DOMAIN u /\ Head(u) \in Message
OBVIOUS

LEMMA CalmPopped ==
    ASSUME WellFormed(net), NEW c \in DOMAIN net.socks, net.socks[c].down # <<>>
    PROVE  /\ Calm(net, Popped(c)) /\ Popped(c).stage = net.stage
           /\ Popped(c).winner = net.winner
           /\ Popped(c).socks[c].down = Tail(net.socks[c].down)
           /\ Popped(c).socks[c].up = net.socks[c].up
           /\ Popped(c).socks[c].alive = net.socks[c].alive
           /\ \A d \in DOMAIN net.socks \ {c} : Popped(c).socks[d] = net.socks[d]
           /\ Popped(c).proxy = net.proxy
           /\ Active(Popped(c)) = Active(net)
<1> DEFINE x == net.socks[c]
           y == [x EXCEPT !.down = Tail(@)]
<1>1. net \in Network /\ x \in Socket /\ (~x.alive => x.up = <<>>)
    BY SocksOf DEF WellFormed
<1>2. /\ y \in Socket /\ y.down = Tail(x.down) /\ y.up = x.up /\ y.alive = x.alive
      /\ y.open = x.open /\ y.attempt = x.attempt
    BY <1>1, PoppedSocket
<1>3. Popped(c) = WithSock(net, c, y)
    BY DEF Popped, WithSock
<1> HIDE DEF y
<1>4. DownCalm(x.down, y.down)
    <2>1. x.down \in Seq(Message)
        BY <1>1, SocketFields
    <2>2. \A i \in DOMAIN Tail(x.down) : i + 1 \in DOMAIN x.down /\ Tail(x.down)[i] = x.down[i + 1]
        BY <2>1, Tails
    <2> QED
        BY <1>2, <2>2 DEF DownCalm
<1>5. SockCalm(x, y)
    BY <1>1, <1>2, <1>4, SockCalmSame DEF SockCalm
<1>6. Calm(net, WithSock(net, c, y))
    BY <1>1, <1>2, <1>5, SocketCalm
<1> QED
    BY <1>1, <1>2, <1>3, <1>6, WithSockFields

LEMMA CalmIdle ==
    ASSUME NEW k, WellFormed(k), NEW b \in BOOLEAN, b => k.stage # "Dropped"
    PROVE  /\ Calm(k, [k EXCEPT !.idle = b])
           /\ [k EXCEPT !.idle = b].stage = k.stage
           /\ [k EXCEPT !.idle = b].winner = k.winner
           /\ [k EXCEPT !.idle = b].socks = k.socks
           /\ [k EXCEPT !.idle = b].proxy = k.proxy
           /\ Active([k EXCEPT !.idle = b]) = Active(k)
<1> DEFINE l == [k EXCEPT !.idle = b]
<1>1. /\ k \in Network /\ l \in Network /\ l.socks = k.socks /\ l.events = k.events
      /\ l.unacked = k.unacked /\ l.proxy = k.proxy /\ l.stage = k.stage
      /\ l.session = k.session /\ l.winner = k.winner /\ l.idle = b
      /\ l.first = k.first /\ l.loose = k.loose /\ l.cut = k.cut
      /\ l.connecting = k.connecting /\ l.timers = k.timers
    BY DEF WellFormed, Network
<1> HIDE DEF l
<1>2. Active(l) = Active(k) /\ Active(k) \in Nat
    BY <1>1, SocksOf DEF Active
<1>3. CalmStage(k, l) /\ (l.stage = "Dropped" => Quiet(l))
    BY <1>1, <1>2 DEF CalmStage, Onward, WellFormed, Quiet
<1>4. Calm(k, l)
    BY <1>1, <1>2, <1>3, FieldsCalm
<1> QED
    BY <1>1, <1>2, <1>4 DEF l

LEMMA CalmHeard ==
    ASSUME WellFormed(net), Live, NEW c \in DOMAIN net.socks, net.socks[c].down # <<>>
    PROVE  /\ Calm(net, Heard(c)) /\ Heard(c).stage = net.stage
           /\ Heard(c).winner = net.winner
           /\ Heard(c).socks[c].down = Tail(net.socks[c].down)
           /\ Heard(c).socks[c].up = net.socks[c].up
           /\ Heard(c).socks[c].alive = net.socks[c].alive
           /\ \A d \in DOMAIN net.socks \ {c} : Heard(c).socks[d] = net.socks[d]
           /\ Heard(c).proxy = net.proxy
           /\ Active(Heard(c)) = Active(net)
<1> DEFINE k == Popped(c)
<1>1. /\ Calm(net, k) /\ k.stage = net.stage /\ k.stage # "Dropped" /\ WellFormed(k)
      /\ k.winner = net.winner
      /\ k.socks[c].down = Tail(net.socks[c].down)
      /\ k.socks[c].up = net.socks[c].up
      /\ k.socks[c].alive = net.socks[c].alive
      /\ \A d \in DOMAIN net.socks \ {c} : k.socks[d] = net.socks[d]
      /\ k.proxy = net.proxy
      /\ Active(k) = Active(net)
    BY CalmPopped DEF Calm, Live
<1>2. Heard(c) = [k EXCEPT !.idle = TRUE]
    BY DEF Heard
<1> HIDE DEF k
<1>3. /\ Calm(k, Heard(c)) /\ Heard(c).stage = k.stage /\ Heard(c).winner = k.winner
      /\ Heard(c).socks = k.socks /\ Heard(c).proxy = k.proxy
      /\ Active(Heard(c)) = Active(k)
    BY <1>1, <1>2, CalmIdle, ZenonT(30)
<1>4. Calm(net, Heard(c))
    BY <1>1, <1>3, CalmTrans
<1> QED
    BY <1>1, <1>3, <1>4

\* A step that is calm from any connection on which the invariant holds.
LEMMA CalmAfter ==
    ASSUME NEW k, NEW l, NEW s, SessionInv(k, s), Calm(k, l)
    PROVE  SessionInv(l, s) /\ Onward(k.stage, l.stage)
BY CalmKeeps DEF Calm, CalmStage

LEMMA CalmStep ==
    ASSUME Inv, Calm(net, net'), server' = server, produced' \in Nat
    PROVE  Inv' /\ Onward(net.stage, net'.stage)
BY CalmAfter DEF Inv

-----------------------------------------------------------------------------
(* The actions that are calm. *)

LEMMA PtyBytesReadInv ==
    ASSUME Inv, PtyBytesRead PROVE Inv' /\ Onward(net.stage, net'.stage)
<1> DEFINE l == [net EXCEPT !.batch = Append(@, produced + 1)]
<1>1. WellFormed(net) /\ net \in Network /\ produced + 1 \in Nat
    BY DEF Inv, SessionInv, WellFormed
<1>2. Append(net.batch, produced + 1) \in Seq(Nat)
    <2>1. net.batch \in Seq(Nat)
        BY <1>1 DEF Network
    <2> QED
        BY <1>1, <2>1
<1>3. /\ l \in Network /\ l.socks = net.socks /\ l.events = net.events
      /\ l.unacked = net.unacked /\ l.proxy = net.proxy /\ l.stage = net.stage
      /\ l.session = net.session /\ l.winner = net.winner
      /\ l.first = net.first /\ l.loose = net.loose /\ l.cut = net.cut
    BY <1>1, <1>2 DEF Network
<1>4. Active(l) = Active(net) /\ Active(net) \in Nat
    BY <1>1, <1>3, SocksOf DEF Active
<1>5. net' = l /\ server' = server /\ produced' \in Nat /\ net.stage # "Dropped"
    BY <1>1 DEF PtyBytesRead, Live
<1> HIDE DEF l
<1>6. CalmStage(net, l)
    BY <1>3 DEF CalmStage, Onward
<1>7. Calm(net, l)
    BY <1>1, <1>3, <1>4, <1>5, <1>6, FieldsCalm
<1> QED
    BY <1>5, <1>7, CalmStep

LEMMA StopSharingInv ==
    ASSUME Inv, StopSharing PROVE Inv' /\ Onward(net.stage, net'.stage)
<1>1. WellFormed(net) /\ net.stage # "Dropped"
    BY DEF Inv, SessionInv, StopSharing, Live
<1>2. Calm(net, EndSession(net)) /\ WellFormed(EndSession(net))
    BY <1>1, CalmEndSession DEF Calm
<1>3. Calm(EndSession(net), Drop(EndSession(net)))
    BY <1>2, CalmDrop
<1>4. Calm(net, net')
    BY <1>1, <1>2, <1>3, CalmTrans DEF StopSharing
<1> QED
    BY <1>4, CalmStep DEF StopSharing, Inv

\* Less to wait for at startup.
LEMMA CalmStartup ==
    ASSUME NEW k, WellFormed(k), NEW a
    PROVE  /\ Calm(k, [k EXCEPT !.connecting = @ \ {a}])
           /\ Calm(k, [k EXCEPT !.timers = @ \ {a}])
           /\ [k EXCEPT !.connecting = @ \ {a}].stage = k.stage
<1>1. k \in Network
    BY DEF WellFormed
<1>2. ASSUME NEW l, l \in {[k EXCEPT !.connecting = @ \ {a}], [k EXCEPT !.timers = @ \ {a}]}
      PROVE  Calm(k, l) /\ l.stage = k.stage
    <2>1. k.connecting \ {a} \in SUBSET Nat /\ k.timers \ {a} \in SUBSET Nat
        BY <1>1 DEF Network
    <2>2. /\ l \in Network /\ l.socks = k.socks /\ l.events = k.events
          /\ l.unacked = k.unacked /\ l.proxy = k.proxy /\ l.stage = k.stage
          /\ l.session = k.session /\ l.winner = k.winner /\ l.idle = k.idle
          /\ l.first = k.first /\ l.loose = k.loose /\ l.cut = k.cut
          /\ l.connecting \subseteq k.connecting /\ l.timers \subseteq k.timers
        <3>1. CASE l = [k EXCEPT !.connecting = @ \ {a}]
            BY <1>1, <2>1, <3>1 DEF Network
        <3>2. CASE l = [k EXCEPT !.timers = @ \ {a}]
            BY <1>1, <2>1, <3>2 DEF Network
        <3> QED
            BY <1>2, <3>1, <3>2
    <2>3. Active(l) = Active(k) /\ Active(k) \in Nat
        BY <1>1, <2>2, SocksOf DEF Active
    <2>4. CalmStage(k, l) /\ (l.stage = "Dropped" => Quiet(l))
        BY <2>2, <2>3 DEF CalmStage, Onward, WellFormed, Quiet
    <2>5. Calm(k, l)
        BY <2>2, <2>3, <2>4, FieldsCalm
    <2> QED
        BY <2>2, <2>5
<1> QED
    BY <1>2

LEMMA StartupFailsInv ==
    ASSUME Inv, NEW a, StartupConnectFails(a) \/ StartupTimeout(a)
    PROVE  Inv' /\ Onward(net.stage, net'.stage)
<1>1. WellFormed(net)
    BY DEF Inv, SessionInv
<1>2. ASSUME NEW k, k \in {[net EXCEPT !.connecting = @ \ {a}], [net EXCEPT !.timers = @ \ {a}]}
      PROVE  Calm(net, k) /\ Calm(net, HandleStartupFailure(k, TRUE))
    <2>1. Calm(net, k)
        <3>1. Calm(net, [net EXCEPT !.connecting = @ \ {a}])
            BY <1>1, CalmStartup
        <3>2. Calm(net, [net EXCEPT !.timers = @ \ {a}])
            BY <1>1, CalmStartup
        <3> QED
            BY <1>2, <3>1, <3>2
    <2>2. Calm(k, HandleStartupFailure(k, TRUE))
        BY <2>1, CalmStartupFailure DEF Calm
    <2> QED
        BY <1>1, <2>1, <2>2, CalmTrans
<1>3. Calm(net, net') /\ server' = server /\ produced' = produced
    <2>1. CASE StartupConnectFails(a)
        BY <1>2, <2>1 DEF StartupConnectFails
    <2>2. CASE StartupTimeout(a)
        BY <1>2, <2>2 DEF StartupTimeout
    <2> QED
        BY <2>1, <2>2
<1> QED
    BY <1>3, CalmStep DEF Inv

\* A reconnect that ended is one less.
LEMMA TakenFields ==
    ASSUME WellFormed(net), NEW kind \in Running
    PROVE  /\ Taken(kind) \in Network /\ Taken(kind).socks = net.socks
           /\ Taken(kind).events = net.events /\ Taken(kind).unacked = net.unacked
           /\ Taken(kind).proxy = net.proxy /\ Taken(kind).stage = net.stage
           /\ Taken(kind).session = net.session /\ Taken(kind).winner = net.winner
           /\ Active(Taken(kind)) = Active(net) - 1 /\ Active(net) \in Nat \ {0}
           /\ Taken(kind).idle = net.idle /\ Taken(kind).connecting = net.connecting
           /\ Taken(kind).timers = net.timers
<1> DEFINE l == Taken(kind)
<1>1. net \in Network /\ net.first \in BOOLEAN /\ net.loose \in Nat /\ net.cut \in Nat
    BY DEF WellFormed, Network
<1>2. CASE kind = "first"
    <2>1. l = [net EXCEPT !.first = FALSE] /\ net.first
        BY <1>2 DEF Taken, Running
    <2> HIDE DEF l
    <2>2. /\ l \in Network /\ l.socks = net.socks
          /\ l.events = net.events /\ l.unacked = net.unacked
          /\ l.proxy = net.proxy /\ l.stage = net.stage
          /\ l.session = net.session /\ l.winner = net.winner
          /\ l.idle = net.idle /\ l.connecting = net.connecting
          /\ l.timers = net.timers
          /\ l.first = FALSE /\ l.loose = net.loose /\ l.cut = net.cut
        BY <1>1, <2>1 DEF Network
    <2>3. Active(l) = Active(net) - 1 /\ Active(net) \in Nat \ {0}
        BY <1>1, <2>1, <2>2 DEF Active
    <2> QED
        BY <2>2, <2>3 DEF l
<1>3. CASE kind = "loose"
    <2>1. l = [net EXCEPT !.loose = net.loose - 1] /\ net.loose > 0
        BY <1>3 DEF Taken, Running
    <2>2. net.loose - 1 \in Nat
        BY <1>1, <2>1
    <2> HIDE DEF l
    <2>3. /\ l \in Network /\ l.socks = net.socks
          /\ l.events = net.events /\ l.unacked = net.unacked
          /\ l.proxy = net.proxy /\ l.stage = net.stage
          /\ l.session = net.session /\ l.winner = net.winner
          /\ l.idle = net.idle /\ l.connecting = net.connecting
          /\ l.timers = net.timers
          /\ l.first = net.first /\ l.loose = net.loose - 1 /\ l.cut = net.cut
        BY <1>1, <2>1, <2>2 DEF Network
    <2>4. Active(l) = Active(net) - 1 /\ Active(net) \in Nat \ {0}
        BY <1>1, <2>1, <2>3 DEF Active
    <2> QED
        BY <2>3, <2>4 DEF l
<1>4. CASE kind = "cut"
    <2>1. l = [net EXCEPT !.cut = net.cut - 1] /\ net.cut > 0
        BY <1>4 DEF Taken, Running
    <2>2. net.cut - 1 \in Nat
        BY <1>1, <2>1
    <2> HIDE DEF l
    <2>3. /\ l \in Network /\ l.socks = net.socks
          /\ l.events = net.events /\ l.unacked = net.unacked
          /\ l.proxy = net.proxy /\ l.stage = net.stage
          /\ l.session = net.session /\ l.winner = net.winner
          /\ l.idle = net.idle /\ l.connecting = net.connecting
          /\ l.timers = net.timers
          /\ l.first = net.first /\ l.loose = net.loose /\ l.cut = net.cut - 1
        BY <1>1, <2>1, <2>2 DEF Network
    <2>4. Active(l) = Active(net) - 1 /\ Active(net) \in Nat \ {0}
        BY <1>1, <2>1, <2>3 DEF Active
    <2> QED
        BY <2>3, <2>4 DEF l
<1> QED
    BY <1>2, <1>3, <1>4 DEF Running

LEMMA CalmTaken ==
    ASSUME WellFormed(net), NEW kind \in Running PROVE Calm(net, Taken(kind))
<1> DEFINE l == Taken(kind)
<1>1. /\ l \in Network /\ l.socks = net.socks
      /\ l.events = net.events /\ l.unacked = net.unacked
      /\ l.proxy = net.proxy /\ l.stage = net.stage
      /\ l.session = net.session /\ l.winner = net.winner
      /\ Active(l) = Active(net) - 1 /\ Active(net) \in Nat \ {0}
    BY TakenFields
<1> HIDE DEF l
<1>2. l.stage # "Dropped"
    BY <1>1 DEF WellFormed
<1>3. CalmStage(net, l)
    BY <1>1 DEF CalmStage, Onward
<1>4. Calm(net, l)
    BY <1>1, <1>2, <1>3, FieldsCalm
<1> QED
    BY <1>4 DEF l

LEMMA ReconnectTryFailsInv ==
    ASSUME Inv, ReconnectTryFails PROVE Inv' /\ Onward(net.stage, net'.stage)
<1>1. PICK kind \in Running : net' = [Taken(kind) EXCEPT !.loose = @ + 1]
    BY DEF ReconnectTryFails
<1> DEFINE k == Taken(kind)
           l == [k EXCEPT !.loose = @ + 1]
<1>2. /\ WellFormed(net) /\ k \in Network /\ k.socks = net.socks
      /\ k.events = net.events /\ k.unacked = net.unacked
      /\ k.proxy = net.proxy /\ k.stage = net.stage
      /\ k.session = net.session /\ k.winner = net.winner
      /\ Active(k) = Active(net) - 1 /\ Active(net) \in Nat \ {0}
    BY TakenFields DEF Inv, SessionInv
<1> HIDE DEF k
<1>3. k.first \in BOOLEAN /\ k.loose \in Nat /\ k.cut \in Nat /\ k.loose + 1 \in Nat
    BY <1>2 DEF Network
<1>4. /\ l \in Network /\ l.socks = k.socks
      /\ l.events = k.events /\ l.unacked = k.unacked
      /\ l.proxy = k.proxy /\ l.stage = k.stage
      /\ l.session = k.session /\ l.winner = k.winner
      /\ l.first = k.first /\ l.loose = k.loose + 1 /\ l.cut = k.cut
    BY <1>2, <1>3 DEF Network
<1> HIDE DEF l
<1>5. Active(l) = Active(net)
    <2>1. Active(l) = Active(k) + 1
        BY <1>3, <1>4 DEF Active
    <2> QED
        BY <1>2, <2>1
<1>6. l.stage # "Dropped" /\ CalmStage(net, l)
    BY <1>2, <1>4 DEF WellFormed, CalmStage, Onward
<1>7. Calm(net, l)
    BY <1>2, <1>4, <1>5, <1>6, FieldsCalm
<1> QED
    BY <1>1, <1>7, CalmStep DEF ReconnectTryFails, Inv, l, k

LEMMA ReconnectEndsInv ==
    ASSUME Inv, ReconnectGivesUp \/ AbortedReconnectEnds
    PROVE  Inv' /\ Onward(net.stage, net'.stage)
<1>1. WellFormed(net)
    BY DEF Inv, SessionInv
<1>2. CASE ReconnectGivesUp
    <2>1. "loose" \in Running
        BY <1>2 DEF ReconnectGivesUp, Running
    <2>2. Calm(net, Taken("loose")) /\ WellFormed(Taken("loose"))
        BY <1>1, <2>1, CalmTaken DEF Calm
    <2>3. Calm(Taken("loose"), Drop(Taken("loose")))
        BY <2>2, CalmDrop
    <2>4. Calm(net, net')
        BY <1>1, <1>2, <2>2, <2>3, CalmTrans DEF ReconnectGivesUp
    <2> QED
        BY <1>2, <2>4, CalmStep DEF ReconnectGivesUp, Inv
<1>3. CASE AbortedReconnectEnds
    <2>1. "cut" \in Running
        BY <1>3 DEF AbortedReconnectEnds, Running
    <2>2. Calm(net, net')
        BY <1>1, <1>3, <2>1, CalmTaken DEF AbortedReconnectEnds
    <2> QED
        BY <1>3, <2>2, CalmStep DEF AbortedReconnectEnds, Inv
<1> QED
    BY <1>2, <1>3

LEMMA CalmMessagesInv ==
    ASSUME Inv, NEW c \in DOMAIN net.socks,
           FailedToInitialize(c) \/ SessionOver(c) \/ WebsocketError(c) \/ IgnoredMessage(c)
    PROVE  Inv' /\ Onward(net.stage, net'.stage)
<1>1. WellFormed(net)
    BY DEF Inv, SessionInv
<1>2. /\ Live /\ net.socks[c].down # <<>> /\ server' = server /\ produced' = produced
    BY DEF FailedToInitialize, SessionOver, WebsocketError, IgnoredMessage, Delivers
<1>3. Calm(net, Popped(c)) /\ Calm(net, Heard(c)) /\ WellFormed(Popped(c))
      /\ WellFormed(Heard(c))
    BY <1>1, <1>2, CalmPopped, CalmHeard DEF Calm
<1>4. CASE FailedToInitialize(c)
    BY <1>1, <1>2, <1>3, <1>4, CalmStartupFailure, CalmTrans, CalmStep
       DEF FailedToInitialize, Inv
<1>5. CASE SessionOver(c)
    BY <1>1, <1>2, <1>3, <1>5, CalmDrop, CalmTrans, CalmStep DEF SessionOver, Inv
<1>6. CASE WebsocketError(c)
    <2>1. Calm(Popped(c), HandleStartupFailure(Popped(c), TRUE))
        BY <1>3, CalmStartupFailure
    <2>2. Calm(net, net')
        BY <1>1, <1>3, <1>6, <2>1, CalmTrans DEF WebsocketError
    <2> QED
        BY <1>2, <2>2, CalmStep DEF Inv
<1>7. CASE IgnoredMessage(c)
    BY <1>2, <1>3, <1>7, CalmStep DEF IgnoredMessage, Inv
<1> QED
    BY <1>4, <1>5, <1>6, <1>7

-----------------------------------------------------------------------------
(* Reconnects and new sockets. *)

LEMMA ReconnectKeeps ==
    ASSUME NEW k, NEW s, SessionInv(k, s), k.stage # "Dropped"
    PROVE  /\ SessionInv(ReconnectWebsocket(k), s)
           /\ Onward(k.stage, ReconnectWebsocket(k).stage)
<1>1. CASE k.stage \in {"Finished", "Reconnecting"} \/ k.session = 0
    BY <1>1 DEF ReconnectWebsocket, Onward
<1>2. CASE ~(k.stage \in {"Finished", "Reconnecting"} \/ k.session = 0)
    <2> DEFINE l == ReconnectWebsocket(k)
    <2>1. l = [k EXCEPT !.stage = "Reconnecting", !.first = TRUE]
        BY <1>2 DEF ReconnectWebsocket
    <2>2. k \in Network /\ WellFormed(k) /\ Active(k) \in Nat
        BY SocksOf DEF SessionInv, WellFormed
    <2>3. k.stage = "StartedSuccessfully"
        BY <1>2, <2>2 DEF SessionInv, NotStarted, Network, Stages
    <2>4. k.first \in BOOLEAN /\ k.loose \in Nat /\ k.cut \in Nat
        BY <2>2 DEF Network
    <2>5. ~k.first /\ k.loose = 0 /\ k.cut = 0
        <3>1. ~(Active(k) > 0)
            BY <2>3 DEF SessionInv, OneReconnect
        <3> QED
            BY <2>4, <3>1 DEF Active
    <2> HIDE DEF l
    <2>6. /\ l \in Network /\ l.socks = k.socks /\ l.events = k.events
          /\ l.unacked = k.unacked /\ l.proxy = k.proxy /\ l.stage = "Reconnecting"
          /\ l.first = TRUE /\ l.loose = k.loose /\ l.cut = k.cut
        BY <2>1, <2>2 DEF Network, Stages
    <2>7. Active(l) = 1
        BY <2>5, <2>6 DEF Active
    <2>8. WellFormed(l) /\ ServerOK(l, s) /\ Stored(l, s) /\ CaughtUp(l, s)
        BY <2>6 DEF SessionInv, WellFormed, ServerOK, Stored, CaughtUp
    <2>9. UpOK(l, s)
        BY <2>6 DEF SessionInv, UpOK, InSequence
    <2>10. \A c \in DOMAIN l.socks : ~Waits(l.socks[c])
        BY <2>3, <2>6 DEF SessionInv, OneReconnect
    <2>11. OneReconnect(l) /\ AnswerHolds(l, s)
        BY <2>6, <2>7, <2>10 DEF SessionInv, OneReconnect, AnswerHolds
    <2>12. NotStarted(l, s) /\ Named(l)
        BY <2>6 DEF SessionInv, NotStarted, Named
    <2>13. Onward(k.stage, l.stage)
        BY <2>3 DEF Onward
    <2> QED
        BY <2>8, <2>9, <2>11, <2>12, <2>13 DEF SessionInv, l
<1> QED
    BY <1>1, <1>2

LEMMA HeartbeatIdleInv ==
    ASSUME Inv, HeartbeatIdle PROVE Inv' /\ Onward(net.stage, net'.stage)
<1> DEFINE k == [net EXCEPT !.idle = FALSE]
<1>1. WellFormed(net) /\ net.idle /\ net.stage # "Dropped"
    BY DEF Inv, SessionInv, HeartbeatIdle, WellFormed
<1>2. Calm(net, k) /\ k.stage = net.stage
    BY <1>1, CalmIdle
<1> HIDE DEF k
<1>3. SessionInv(k, server)
    BY <1>2, CalmKeeps DEF Inv
<1>4. net' = ReconnectWebsocket(k) /\ server' = server /\ produced' = produced
    BY DEF HeartbeatIdle, k
<1> QED
    BY <1>1, <1>2, <1>3, <1>4, ReconnectKeeps DEF Inv

LEMMA WebsocketClosedInv ==
    ASSUME Inv, NEW c \in DOMAIN net.socks, WebsocketClosed(c)
    PROVE  Inv' /\ Onward(net.stage, net'.stage)
<1> DEFINE k == Close(Popped(c))
<1>1. /\ WellFormed(net) /\ net.socks[c].down # <<>> /\ net.stage # "Dropped"
      /\ server' = server /\ produced' = produced
    BY DEF Inv, SessionInv, WebsocketClosed, Delivers, Live
<1>2. Calm(net, Popped(c)) /\ WellFormed(Popped(c)) /\ Popped(c).stage = net.stage
    BY <1>1, CalmPopped DEF Calm
<1>3. Calm(Popped(c), k) /\ k.stage = net.stage
    BY <1>2, CalmClose
<1>4. Calm(net, k) /\ WellFormed(k)
    BY <1>1, <1>2, <1>3, CalmTrans DEF Calm
<1>5. net' = IF net.stage = "StartedSuccessfully" THEN ReconnectWebsocket(k)
             ELSE HandleStartupFailure(k, TRUE)
    BY DEF WebsocketClosed
<1> HIDE DEF k
<1>6. CASE net.stage = "StartedSuccessfully"
    <2>1. SessionInv(k, server)
        BY <1>4, CalmKeeps DEF Inv
    <2> QED
        BY <1>1, <1>3, <1>5, <1>6, <2>1, ReconnectKeeps DEF Inv
<1>7. CASE net.stage # "StartedSuccessfully"
    BY <1>1, <1>4, <1>5, <1>7, CalmStartupFailure, CalmTrans, CalmStep DEF Inv
<1> QED
    BY <1>6, <1>7

\* The connection with a new socket, which may carry the hello of an attempt or
\* the request of the only reconnect.
LEMMA ConnectKeeps ==
    ASSUME NEW k, NEW s, SessionInv(k, s), NEW a \in Nat, NEW hello \in Message,
           \/ k.stage = "BeforeStarted" /\ a # 0 /\ hello = Msg("Initialize", a)
           \/ /\ k.stage \in {"Reconnecting", "Finished"} /\ hello = Msg("Reconnect", 0)
              /\ Active(k) = 0
              /\ k.stage = "Reconnecting" =>
                    \A c \in DOMAIN k.socks : ~Waits(k.socks[c])
    PROVE  /\ SessionInv(OnWebsocketConnected(k, a, hello), s)
           /\ OnWebsocketConnected(k, a, hello).stage = k.stage
<1> DEFINE x == NewSocket(a, hello)
           socks == Append(k.socks, x)
           n == Len(k.socks) + 1
           l == OnWebsocketConnected(k, a, hello)
<1>1. /\ k \in Network /\ WellFormed(k) /\ Len(k.socks) \in Nat
      /\ DOMAIN k.socks = 1..Len(k.socks) /\ k.stage # "Dropped" /\ Len(k.events) \in Nat
    BY SocksOf DEF SessionInv, WellFormed
<1>2. l = [k EXCEPT !.socks = socks, !.proxy = n, !.idle = TRUE]
    BY DEF OnWebsocketConnected
<1>3. /\ x \in Socket /\ x.attempt = a /\ x.alive /\ x.up = <<hello>> /\ x.down = <<>>
    <2>1. <<hello>> \in Seq(Message) /\ <<>> \in Seq(Message)
        OBVIOUS
    <2> QED
        BY <2>1 DEF NewSocket, Socket
<1>4. /\ x.up \in Seq(Message) /\ DOMAIN x.up = 1..1 /\ x.up[1] = hello
      /\ DOMAIN x.down = {}
    BY <1>3
<1> HIDE DEF x
<1>5. /\ socks \in Seq(Socket) /\ Len(socks) = n /\ DOMAIN socks = 1..n
      /\ socks[n] = x /\ \A c \in DOMAIN k.socks : socks[c] = k.socks[c]
    <2>1. k.socks \in Seq(Socket)
        BY <1>1 DEF Network
    <2> QED
        BY <1>3, <2>1
<1> HIDE DEF socks, l
<1>6. /\ l \in Network /\ l.socks = socks /\ l.events = k.events
      /\ l.unacked = k.unacked /\ l.proxy = n /\ l.stage = k.stage
      /\ l.session = k.session /\ l.winner = k.winner
      /\ l.first = k.first /\ l.loose = k.loose /\ l.cut = k.cut
    <2>1. n \in Nat
        BY <1>1
    <2> HIDE DEF n
    <2> QED
        BY <1>1, <1>2, <1>5, <2>1 DEF Network
<1>7. Active(l) = Active(k)
    BY <1>6 DEF Active
<1>8. \A c \in DOMAIN l.socks : c = n \/ (c \in DOMAIN k.socks /\ l.socks[c] = k.socks[c])
    BY <1>1, <1>5, <1>6
<1>9. l.socks[n] = x /\ Len(l.socks) = n /\ DOMAIN k.socks \subseteq DOMAIN l.socks
      /\ n \in DOMAIN l.socks /\ n \notin DOMAIN k.socks
    BY <1>1, <1>5, <1>6
<1>10. x.up[1].type # "Event" /\ \A i \in DOMAIN x.up : x.up[i] = hello
    BY <1>4 DEF Msg
<1>11. WellFormed(l)
    BY <1>1, <1>3, <1>6, <1>8, <1>9 DEF WellFormed
<1>12. ServerOK(l, s)
    BY <1>1, <1>6, <1>9 DEF SessionInv, ServerOK, SessionServer
<1>13. Stored(l, s)
    BY <1>4, <1>6, <1>8, <1>9 DEF SessionInv, Stored
<1>14. UpOK(l, s)
    <2>1. ASSUME NEW c \in DOMAIN l.socks, c >= s.conn PROVE InSequence(l.socks[c].up, l, s)
        <3>1. CASE c = n
            BY <1>4, <1>9, <1>10, <3>1 DEF InSequence
        <3>2. CASE c # n
            BY <1>6, <1>8, <2>1, <3>2 DEF SessionInv, UpOK, InSequence
        <3> QED
            BY <3>1, <3>2
    <2> QED
        BY <2>1 DEF UpOK
<1>15. CaughtUp(l, s)
    BY <1>6 DEF CaughtUp
<1>16. AskedOnce(x) /\ ~Answered(x) /\ (Asking(x) => hello.type = "Reconnect")
    <2>1. ~Answered(x)
        BY <1>4 DEF Answered
    <2>2. Asking(x) => hello.type = "Reconnect"
        BY <1>10 DEF Asking
    <2>3. \A i, j \in DOMAIN x.up : i = j
        BY <1>4
    <2> QED
        BY <1>4, <2>1, <2>2, <2>3 DEF AskedOnce
<1>17. OneReconnect(l)
    <2>1. CASE k.stage = "BeforeStarted"
        <3>1. ~Waits(x)
            BY <1>16, <2>1 DEF Waits, Msg
        <3> QED
            BY <1>6, <1>7, <1>8, <1>9, <1>16, <2>1, <3>1 DEF SessionInv, OneReconnect
    <2>2. CASE k.stage \in {"Reconnecting", "Finished"}
        <3>1. Active(k) = 0 /\ (k.stage = "Reconnecting" =>
                                    \A c \in DOMAIN k.socks : ~Waits(k.socks[c]))
            BY <2>2
        <3> QED
            BY <1>6, <1>7, <1>8, <1>9, <1>16, <2>2, <3>1 DEF SessionInv, OneReconnect
    <2> QED
        BY <2>1, <2>2
<1>18. AnswerHolds(l, s)
    BY <1>4, <1>6, <1>8, <1>9, <1>10 DEF SessionInv, AnswerHolds
<1>19. NotStarted(l, s)
    BY <1>4, <1>6, <1>8, <1>9, <1>10 DEF SessionInv, NotStarted
<1>20. Named(l)
    <2>1. x.up[1].type = "Initialize" => x.up[1].n = x.attempt /\ x.attempt # 0
        BY <1>3, <1>4 DEF Msg
    <2>2. l.stage # "StartedSuccessfully"
        BY <1>6
    <2> QED
        BY <1>4, <1>6, <1>8, <1>9, <1>10, <2>1, <2>2 DEF SessionInv, Named
<1> QED
    BY <1>6, <1>11, <1>12, <1>13, <1>14, <1>15, <1>17, <1>18, <1>19, <1>20
       DEF SessionInv, l

LEMMA StartupConnectsInv ==
    ASSUME Inv, NEW a \in Nat \ {0}, StartupConnects(a)
    PROVE  Inv' /\ Onward(net.stage, net'.stage)
<1> DEFINE k == [net EXCEPT !.connecting = @ \ {a}]
<1>1. WellFormed(net) /\ server' = server /\ produced' = produced
    BY DEF Inv, SessionInv, StartupConnects
<1>2. Calm(net, k) /\ k.stage = net.stage
    BY <1>1, CalmStartup
<1>3. net' = IF IsActiveStartupAttemptCallback(a)
             THEN OnWebsocketConnected(k, a, Msg("Initialize", a)) ELSE k
    BY DEF StartupConnects
<1> HIDE DEF k
<1>4. SessionInv(k, server)
    BY <1>2, CalmKeeps DEF Inv
<1>5. CASE IsActiveStartupAttemptCallback(a)
    <2>1. Msg("Initialize", a) \in Message
        BY DEF Msg, Message, UpTypes
    <2>2. k.stage = "BeforeStarted"
        BY <1>2, <1>5 DEF IsActiveStartupAttemptCallback
    <2>3. SessionInv(net', server) /\ net'.stage = k.stage
        BY <1>3, <1>4, <1>5, <2>1, <2>2, ConnectKeeps
    <2> QED
        BY <1>1, <1>2, <2>3 DEF Inv, Onward
<1>6. CASE ~IsActiveStartupAttemptCallback(a)
    BY <1>1, <1>2, <1>3, <1>6, CalmStep DEF Inv
<1> QED
    BY <1>5, <1>6

LEMMA ReconnectConnectsInv ==
    ASSUME Inv, ReconnectConnects PROVE Inv' /\ Onward(net.stage, net'.stage)
<1>1. PICK kind \in Running :
          net' = OnWebsocketConnected(CloseProxy(Taken(kind)), 0, Msg("Reconnect", 0))
    BY DEF ReconnectConnects
<1> DEFINE j == Taken(kind)
           k == CloseProxy(j)
<1>2. /\ WellFormed(net) /\ server' = server /\ produced' = produced
      /\ Active(net) > 0 /\ Active(j) = Active(net) - 1 /\ j.stage = net.stage
      /\ Active(net) \in Nat
    BY TakenFields DEF Inv, SessionInv, ReconnectConnects
<1>3. Calm(net, j) /\ WellFormed(j)
    BY <1>2, CalmTaken DEF Calm
<1>4. Calm(j, k) /\ k.stage = j.stage
    BY <1>3, CalmCloseProxy
<1>5. Calm(net, k) /\ WellFormed(k)
    BY <1>2, <1>3, <1>4, CalmTrans DEF Calm
<1> HIDE DEF j, k
<1>6. SessionInv(k, server)
    BY <1>5, CalmKeeps DEF Inv
<1>7. Active(k) = 0 /\ net.stage \in {"Reconnecting", "Finished"}
    <2>1. Active(net) = 1 /\ net.stage \in {"Reconnecting", "Finished"}
        BY <1>2 DEF Inv, SessionInv, OneReconnect
    <2>2. Active(k) \in Nat /\ Active(k) <= Active(j)
        BY <1>4, <1>5, SocksOf DEF Calm, WellFormed
    <2> QED
        BY <1>2, <2>1, <2>2
<1>8. ASSUME k.stage = "Reconnecting", NEW c \in DOMAIN k.socks, Waits(k.socks[c])
      PROVE  FALSE
    <2>1. c \in DOMAIN net.socks
        BY <1>2, <1>5, SocksOf DEF Calm, WellFormed
    <2>2. /\ SockCalm(net.socks[c], k.socks[c]) /\ AskedOnce(net.socks[c])
          /\ net.socks[c] \in Socket /\ k.socks[c] \in Socket
          /\ ~k.socks[c].alive => k.socks[c].up = <<>>
        BY <1>2, <1>5, <2>1, SocksOf DEF Calm, WellFormed, Inv, SessionInv, OneReconnect
    <2>3. Waits(net.socks[c])
        BY <1>8, <2>2, CalmAsks
    <2> QED
        BY <1>2, <1>4, <1>8, <2>1, <2>3 DEF Inv, SessionInv, OneReconnect
<1>9. Msg("Reconnect", 0) \in Message
    BY DEF Msg, Message, UpTypes
<1>10. net' = OnWebsocketConnected(k, 0, Msg("Reconnect", 0))
    BY <1>1 DEF j, k
<1>11. SessionInv(net', server) /\ net'.stage = k.stage
    BY <1>2, <1>4, <1>6, <1>7, <1>8, <1>9, <1>10, ConnectKeeps
<1> QED
    BY <1>2, <1>4, <1>11 DEF Inv, Onward

-----------------------------------------------------------------------------
(* Events: numbered, sent, let go. *)

\* What two connections have in common that differ in their sockets and events.
SameRest(k, l) ==
    /\ l \in Network /\ l.stage = k.stage /\ l.winner = k.winner
    /\ l.session = k.session /\ l.proxy = k.proxy
    /\ Active(l) = Active(k) /\ (Quiet(l) <=> Quiet(k))
    /\ Len(l.socks) = Len(k.socks) /\ DOMAIN l.socks = DOMAIN k.socks

Feeds(k) == k.proxy # 0 /\ k.socks[k.proxy].open /\ k.socks[k.proxy].alive

\* x with more to send.
MoreUp(x, y, u) ==
    y.up = u /\ y.down = x.down /\ y.open = x.open /\ y.alive = x.alive
    /\ y.attempt = x.attempt

LEMMA GrowKeeps ==
    ASSUME NEW k, NEW s, SessionInv(k, s), NEW l, SameRest(k, l),
           Len(l.events) = Len(k.events) + 1,
           l.unacked = k.unacked \cup {Len(k.events)},
           \A c \in DOMAIN k.socks :
              IF k.stage = "StartedSuccessfully" /\ Feeds(k) /\ c = k.proxy
              THEN MoreUp(k.socks[c], l.socks[c],
                          Append(k.socks[c].up, Msg("Event", Len(k.events))))
              ELSE l.socks[c] = k.socks[c]
    PROVE  SessionInv(l, s)
<1> DEFINE n == Len(k.events)
           m == Msg("Event", n)
           sends == k.stage = "StartedSuccessfully" /\ Feeds(k)
<1>1. /\ k \in Network /\ WellFormed(k) /\ Len(k.socks) \in Nat
      /\ DOMAIN k.socks = 1..Len(k.socks) /\ n \in Nat
      /\ \A c \in DOMAIN k.socks : k.socks[c] \in Socket /\ k.socks[c].up \in Seq(Message)
      /\ ServerOK(k, s)
    BY SocksOf, SocketFields DEF SessionInv, WellFormed
<1>2. m \in Message /\ m.type = "Event" /\ m.n = n
    BY <1>1 DEF Msg, Message, UpTypes
<1>3. \A c \in DOMAIN k.socks :
        /\ l.socks[c].down = k.socks[c].down /\ l.socks[c].open = k.socks[c].open
        /\ l.socks[c].alive = k.socks[c].alive /\ l.socks[c].attempt = k.socks[c].attempt
        /\ l.socks[c].up = IF sends /\ c = k.proxy THEN Append(k.socks[c].up, m)
                           ELSE k.socks[c].up
    BY DEF MoreUp
<1> HIDE DEF sends, m
<1>4. ASSUME NEW c \in DOMAIN k.socks
      PROVE  /\ \A i \in DOMAIN l.socks[c].up :
                  \/ i \in DOMAIN k.socks[c].up /\ l.socks[c].up[i] = k.socks[c].up[i]
                  \/ /\ sends /\ c = k.proxy
                     /\ i = Len(k.socks[c].up) + 1 /\ l.socks[c].up[i] = m
             /\ \A i \in DOMAIN k.socks[c].up :
                  i \in DOMAIN l.socks[c].up /\ l.socks[c].up[i] = k.socks[c].up[i]
    <2> DEFINE u == k.socks[c].up
               v == l.socks[c].up
    <2>1. u \in Seq(Message) /\ v = IF sends /\ c = k.proxy THEN Append(u, m) ELSE u
        BY <1>1, <1>3
    <2> HIDE DEF u, v
    <2>2. CASE sends /\ c = k.proxy
        <3>1. v = Append(u, m)
            BY <2>1, <2>2
        <3>2. /\ DOMAIN v = 1..(Len(u) + 1) /\ DOMAIN u = 1..Len(u) /\ Len(u) \in Nat
              /\ v[Len(u) + 1] = m /\ \A i \in DOMAIN u : v[i] = u[i]
            BY <1>2, <2>1, <3>1, Appended
        <3>3. \A i \in DOMAIN v : i \in DOMAIN u \/ i = Len(u) + 1
            BY <3>2
        <3>4. \A i \in DOMAIN u : i \in DOMAIN v
            BY <3>2
        <3> QED
            BY <2>2, <3>2, <3>3, <3>4 DEF u, v
    <2>3. CASE ~(sends /\ c = k.proxy)
        BY <2>1, <2>3 DEF u, v
    <2> QED
        BY <2>2, <2>3
<1>5. \A c \in DOMAIN k.socks : \A i \in DOMAIN k.socks[c].up :
        i \in DOMAIN l.socks[c].up /\ l.socks[c].up[i] = k.socks[c].up[i]
    BY <1>4
<1>6. WellFormed(l)
    <2>1. sends => k.socks[k.proxy].alive
        BY DEF sends, Feeds
    <2> QED
        BY <1>1, <1>3, <2>1 DEF WellFormed, SameRest, Quiet
<1>7. ServerOK(l, s)
    BY <1>1 DEF ServerOK, SameRest
<1>8. Stored(l, s)
    <2>1. l.unacked \subseteq 0..n /\ \A i \in 0..n : i \in l.unacked \/ i < s.acked
        BY <1>1 DEF SessionInv, Stored
    <2>2. Len(l.events) - 1 = n
        BY <1>1
    <2> QED
        BY <1>3, <2>1, <2>2 DEF SessionInv, Stored, SameRest
<1>9. ASSUME NEW c \in DOMAIN k.socks, NEW i \in Int, NEW p \in Int,
             Before(k.socks[c].up, i, p, s)
      PROVE  Before(l.socks[c].up, i, p, s)
    BY <1>5, <1>9 DEF Before
<1>10. sends => /\ k.proxy \in DOMAIN k.socks /\ k.proxy >= s.conn
                /\ Before(k.socks[k.proxy].up, Len(k.socks[k.proxy].up) + 1, n - 1, s)
    <2>1. s.conn <= Len(k.socks) /\ s.conn \in Nat
        BY <1>1 DEF ServerOK, SessionServer
    <2> QED
        BY <1>1, <2>1 DEF sends, Feeds, SessionInv, CaughtUp, WellFormed
<1>11. UpOK(l, s)
    <2>1. ASSUME NEW c \in DOMAIN k.socks, c >= s.conn, NEW i \in DOMAIN l.socks[c].up,
                 l.socks[c].up[i].type = "Event"
          PROVE  /\ l.socks[c].up[i].n \in 0..(Len(l.events) - 1)
                 /\ Before(l.socks[c].up, i, l.socks[c].up[i].n - 1, s)
        <3>1. CASE i \in DOMAIN k.socks[c].up /\ l.socks[c].up[i] = k.socks[c].up[i]
            <4>1. /\ k.socks[c].up[i].n \in 0..(n - 1)
                  /\ Before(k.socks[c].up, i, k.socks[c].up[i].n - 1, s)
                BY <2>1, <3>1 DEF SessionInv, UpOK, InSequence
            <4>2. i \in Int /\ k.socks[c].up[i].n - 1 \in Int
                BY <1>1, <3>1, <4>1
            <4>3. Before(l.socks[c].up, i, k.socks[c].up[i].n - 1, s)
                BY <1>9, <4>1, <4>2
            <4> QED
                BY <1>1, <3>1, <4>1, <4>3
        <3>2. CASE sends /\ c = k.proxy /\ i = Len(k.socks[c].up) + 1 /\ l.socks[c].up[i] = m
            <4>1. Before(k.socks[c].up, i, n - 1, s)
                BY <1>10, <3>2
            <4>2. i \in Int /\ n - 1 \in Int
                BY <1>1, <3>2
            <4>3. Before(l.socks[c].up, i, n - 1, s)
                BY <1>9, <4>1, <4>2
            <4> QED
                BY <1>1, <1>2, <3>2, <4>3
        <3> QED
            BY <1>4, <3>1, <3>2
    <2> QED
        BY <2>1 DEF UpOK, InSequence, SameRest
<1>12. CaughtUp(l, s)
    <2> SUFFICES ASSUME l.stage = "StartedSuccessfully", l.proxy # 0,
                        l.socks[l.proxy].open, l.socks[l.proxy].alive
                 PROVE  Before(l.socks[l.proxy].up, Len(l.socks[l.proxy].up) + 1,
                               Len(l.events) - 1, s)
        BY DEF CaughtUp
    <2>1. l.proxy = k.proxy /\ k.proxy \in DOMAIN k.socks /\ sends
        BY <1>1, <1>3 DEF SameRest, WellFormed, sends, Feeds
    <2> DEFINE u == k.socks[k.proxy].up
               v == l.socks[k.proxy].up
    <2>2. v = Append(u, m) /\ u \in Seq(Message)
        BY <1>1, <1>3, <2>1
    <2> HIDE DEF u, v
    <2>3. /\ Len(v) = Len(u) + 1 /\ Len(u) \in Nat /\ v[Len(u) + 1] = m
          /\ DOMAIN v = 1..(Len(u) + 1)
        BY <1>2, <2>2, Appended
    <2>4. Len(u) + 1 \in 1..((Len(v) + 1) - 1) /\ Len(l.events) - 1 = n
        BY <1>1, <2>3
    <2>5. Before(v, Len(v) + 1, n, s)
        BY <2>3, <2>4 DEF Before, m
    <2> QED
        BY <2>1, <2>4, <2>5 DEF v
<1>13. \A c \in DOMAIN k.socks :
          AskedOnce(l.socks[c]) /\ (Waits(l.socks[c]) => Waits(k.socks[c]))
    <2> SUFFICES ASSUME NEW c \in DOMAIN k.socks
                 PROVE  AskedOnce(l.socks[c]) /\ (Waits(l.socks[c]) => Waits(k.socks[c]))
        OBVIOUS
    <2>1. AskedOnce(k.socks[c]) /\ l.socks[c].down = k.socks[c].down
        BY <1>3 DEF SessionInv, OneReconnect
    <2>2. \A i \in DOMAIN l.socks[c].up : l.socks[c].up[i].type = "Reconnect" =>
              i \in DOMAIN k.socks[c].up /\ k.socks[c].up[i].type = "Reconnect"
        BY <1>2, <1>4
    <2> QED
        BY <2>1, <2>2 DEF AskedOnce, Waits, Asking, Answered
<1>14. OneReconnect(l)
    BY <1>13 DEF SessionInv, OneReconnect, SameRest
<1>15. AnswerHolds(l, s) /\ NotStarted(l, s)
    <2>1. k.stage # "StartedSuccessfully" =>
            \A c \in DOMAIN k.socks : l.socks[c] = k.socks[c]
        OBVIOUS
    <2> QED
        BY <2>1 DEF SessionInv, AnswerHolds, NotStarted, SameRest
<1>16. Named(l)
    BY <1>2, <1>3, <1>4 DEF SessionInv, Named, SameRest
<1> QED
    BY <1>6, <1>7, <1>8, <1>11, <1>12, <1>14, <1>15, <1>16 DEF SessionInv

LEMMA PublishKeeps ==
    ASSUME NEW k, NEW s, SessionInv(k, s), k.stage # "Dropped", NEW items \in Seq(Nat)
    PROVE  /\ SessionInv(Publish(k, items), s)
           /\ Publish(k, items).stage \in {k.stage, "Finished"}
           /\ Onward(k.stage, Publish(k, items).stage)
<1> DEFINE n == Len(k.events)
           counted == [k EXCEPT !.shared = @ + Len(items)]
           stored == [counted EXCEPT !.events = Append(@, items), !.unacked = @ \cup {n}]
<1>1. WellFormed(k) /\ k \in Network /\ n \in Nat
    BY SocksOf DEF SessionInv, WellFormed
<1>2. /\ counted \in Network /\ counted.stage = k.stage /\ counted.winner = k.winner
      /\ counted.session = k.session /\ counted.proxy = k.proxy
      /\ counted.socks = k.socks /\ counted.events = k.events
      /\ counted.unacked = k.unacked
      /\ counted.first = k.first /\ counted.loose = k.loose /\ counted.cut = k.cut
      /\ counted.idle = k.idle /\ counted.connecting = k.connecting
      /\ counted.timers = k.timers
    <2>1. k.shared + Len(items) \in Nat
        BY <1>1 DEF Network
    <2> QED
        BY <1>1, <2>1 DEF Network
<1>3. Publish(k, items) =
        IF counted.shared > MaxSize THEN EndSession(counted)
        ELSE IF k.stage = "StartedSuccessfully" THEN Send(stored, Msg("Event", n)) ELSE stored
    BY DEF Publish
<1> HIDE DEF counted
<1>4. Active(counted) = Active(k) /\ Active(k) \in Nat
    BY <1>1, <1>2, SocksOf DEF Active
<1>5. CASE counted.shared > MaxSize
    <2>1. CalmStage(k, counted)
        BY <1>2 DEF CalmStage, Onward
    <2>2. Calm(k, counted) /\ WellFormed(counted)
        BY <1>1, <1>2, <1>4, <2>1, FieldsCalm DEF Calm
    <2>3. Calm(counted, EndSession(counted)) /\ EndSession(counted).stage = "Finished"
        BY <1>2, <2>2, CalmEndSession
    <2>4. SessionInv(EndSession(counted), s)
        BY <2>2, <2>3, CalmKeeps
    <2> QED
        BY <1>3, <1>5, <2>3, <2>4 DEF Onward
<1>6. CASE ~(counted.shared > MaxSize)
    <2>1. /\ Append(k.events, items) \in Seq(Seq(Nat))
          /\ Len(Append(k.events, items)) = n + 1
        <3>1. k.events \in Seq(Seq(Nat))
            BY <1>1 DEF Network
        <3> QED
            BY <3>1
    <2>2. k.unacked \cup {n} \in SUBSET Int
        BY <1>1 DEF Network
    <2>3. stored = [counted EXCEPT !.events = Append(k.events, items),
                                   !.unacked = k.unacked \cup {n}]
        BY <1>2
    <2> HIDE DEF stored
    <2>4. /\ stored \in Network /\ stored.stage = k.stage /\ stored.winner = k.winner
          /\ stored.session = k.session /\ stored.proxy = k.proxy
          /\ stored.socks = k.socks /\ stored.events = Append(k.events, items)
          /\ stored.unacked = k.unacked \cup {n}
          /\ stored.first = k.first /\ stored.loose = k.loose /\ stored.cut = k.cut
          /\ stored.idle = k.idle /\ stored.connecting = k.connecting
          /\ stored.timers = k.timers
        BY <1>2, <2>1, <2>2, <2>3 DEF Network
    <2>5. Active(stored) = Active(k)
        BY <2>4 DEF Active
    <2>6. SameRest(k, stored)
        BY <2>4, <2>5 DEF SameRest, Quiet
    <2>7. CASE ~(k.stage = "StartedSuccessfully" /\ Feeds(k))
        <3>1. Publish(k, items) = stored
            BY <1>3, <1>6, <2>4, <2>7 DEF Send, Feeds
        <3>2. SessionInv(stored, s)
            BY <2>1, <2>4, <2>6, <2>7, GrowKeeps
        <3> QED
            BY <2>4, <3>1, <3>2 DEF Onward
    <2>8. CASE k.stage = "StartedSuccessfully" /\ Feeds(k)
        <3> DEFINE x == k.socks[k.proxy]
                   m == Msg("Event", n)
                   y == [x EXCEPT !.up = Append(@, m)]
                   l == WithSock(stored, k.proxy, y)
        <3>1. k.proxy \in DOMAIN k.socks /\ x \in Socket /\ x.alive
            BY <1>1, <2>8, SocksOf DEF WellFormed, Feeds
        <3>2. m \in Message
            BY <1>1 DEF Msg, Message, UpTypes
        <3>3. /\ y \in Socket /\ y.up = Append(x.up, m) /\ y.alive /\ y.open = x.open
              /\ y.attempt = x.attempt /\ y.down = x.down
            BY <3>1, <3>2, SentSocket
        <3>4. Publish(k, items) = l
            BY <1>3, <1>6, <2>4, <2>8 DEF Send, Feeds, WithSock
        <3> HIDE DEF y
        <3>5. MoreUp(x, y, Append(x.up, m))
            BY <3>1, <3>3 DEF MoreUp
        <3>6. /\ l \in Network /\ DOMAIN l.socks = DOMAIN k.socks
              /\ Len(l.socks) = Len(k.socks) /\ l.socks[k.proxy] = y
              /\ \A d \in DOMAIN k.socks \ {k.proxy} : l.socks[d] = k.socks[d]
              /\ l.stage = k.stage /\ l.winner = k.winner
              /\ l.session = k.session /\ l.proxy = k.proxy
              /\ l.events = stored.events /\ l.unacked = stored.unacked
              /\ Active(l) = Active(stored) /\ (Quiet(l) <=> Quiet(stored))
            BY <2>4, <3>1, <3>3, WithSockFields, SMTT(30)
        <3> HIDE DEF l
        <3>7. SameRest(k, l)
            BY <2>5, <2>6, <3>6 DEF SameRest
        <3>8. \A c \in DOMAIN k.socks :
                IF c = k.proxy
                THEN MoreUp(k.socks[c], l.socks[c], Append(k.socks[c].up, m))
                ELSE l.socks[c] = k.socks[c]
            BY <3>5, <3>6
        <3>9. SessionInv(l, s)
            BY <2>1, <2>4, <2>8, <3>6, <3>7, <3>8, GrowKeeps, SMTT(30)
        <3> QED
            BY <3>4, <3>6, <3>9 DEF Onward
    <2> QED
        BY <2>7, <2>8
<1> QED
    BY <1>5, <1>6

LEMMA FlushBatchKeeps ==
    ASSUME NEW k, NEW s, SessionInv(k, s), k.stage # "Dropped"
    PROVE  /\ SessionInv(FlushBatch(k), s)
           /\ FlushBatch(k).stage \in {k.stage, "Finished"}
           /\ Onward(k.stage, FlushBatch(k).stage)
<1>1. CASE k.batch = <<>>
    BY <1>1 DEF FlushBatch, Onward
<1>2. CASE k.batch # <<>>
    <2> DEFINE l == [k EXCEPT !.batch = <<>>]
    <2>1. WellFormed(k) /\ k \in Network /\ k.batch \in Seq(Nat) /\ <<>> \in Seq(Nat)
        BY DEF SessionInv, WellFormed, Network
    <2>2. /\ l \in Network /\ l.stage = k.stage /\ l.winner = k.winner
          /\ l.session = k.session /\ l.proxy = k.proxy
          /\ l.socks = k.socks /\ l.events = k.events /\ l.unacked = k.unacked
          /\ l.first = k.first /\ l.loose = k.loose /\ l.cut = k.cut
        BY <2>1 DEF Network
    <2>3. FlushBatch(k) = Publish(l, k.batch)
        BY <1>2 DEF FlushBatch
    <2> HIDE DEF l
    <2>4. Active(l) = Active(k) /\ Active(k) \in Nat
        BY <2>1, <2>2, SocksOf DEF Active
    <2>5. CalmStage(k, l)
        BY <2>2 DEF CalmStage, Onward
    <2>6. Calm(k, l)
        BY <2>1, <2>2, <2>4, <2>5, FieldsCalm
    <2>7. SessionInv(l, s)
        BY <2>6, CalmKeeps
    <2> QED
        BY <2>1, <2>2, <2>3, <2>7, PublishKeeps
<1> QED
    BY <1>1, <1>2

LEMMA OutputInv ==
    ASSUME Inv, OtherEvent \/ BatchTimer
    PROVE  Inv' /\ Onward(net.stage, net'.stage)
<1>1. /\ SessionInv(net, server) /\ net.stage # "Dropped" /\ server' = server
      /\ produced \in Nat
    BY DEF Inv, OtherEvent, BatchTimer, Live
<1>2. /\ SessionInv(FlushBatch(net), server)
      /\ FlushBatch(net).stage \in {net.stage, "Finished"}
      /\ Onward(net.stage, FlushBatch(net).stage)
    BY <1>1, FlushBatchKeeps
<1>3. CASE BatchTimer
    BY <1>1, <1>2, <1>3 DEF BatchTimer, Inv
<1>4. CASE OtherEvent
    <2>1. net' = Publish(FlushBatch(net), <<produced + 1>>) /\ produced' \in Nat
        BY <1>1, <1>4 DEF OtherEvent
    <2>2. <<produced + 1>> \in Seq(Nat) /\ FlushBatch(net).stage # "Dropped"
        BY <1>1, <1>2
    <2>3. /\ SessionInv(net', server)
          /\ Onward(FlushBatch(net).stage, net'.stage)
        BY <1>2, <2>1, <2>2, PublishKeeps
    <2> QED
        BY <1>1, <1>2, <2>1, <2>3 DEF Inv, Onward
<1> QED
    BY <1>3, <1>4


\* What the server has processed for good is let go.
LEMMA AckKeeps ==
    ASSUME NEW k, NEW s, SessionInv(k, s), NEW rest \in SUBSET k.unacked,
           \A n \in k.unacked \ rest : n < s.acked
    PROVE  /\ SessionInv([k EXCEPT !.unacked = rest], s)
           /\ [k EXCEPT !.unacked = rest].stage = k.stage
<1> DEFINE l == [k EXCEPT !.unacked = rest]
<1>1. k \in Network /\ WellFormed(k) /\ rest \in SUBSET Int
    BY DEF SessionInv, WellFormed, Network
<1>2. /\ l \in Network /\ l.stage = k.stage /\ l.winner = k.winner
      /\ l.session = k.session /\ l.proxy = k.proxy /\ l.socks = k.socks
      /\ l.events = k.events /\ l.unacked = rest
      /\ l.first = k.first /\ l.loose = k.loose /\ l.cut = k.cut
      /\ l.idle = k.idle /\ l.connecting = k.connecting /\ l.timers = k.timers
    BY <1>1 DEF Network
<1> HIDE DEF l
<1>3. Active(l) = Active(k)
    BY <1>2 DEF Active
<1>4. WellFormed(l)
    BY <1>1, <1>2, <1>3 DEF WellFormed
<1>5. ServerOK(l, s) /\ CaughtUp(l, s)
    BY <1>2 DEF SessionInv, ServerOK, CaughtUp
<1>6. Stored(l, s)
    BY <1>2 DEF SessionInv, Stored
<1>7. UpOK(l, s)
    BY <1>2 DEF SessionInv, UpOK, InSequence
<1>8. OneReconnect(l) /\ AnswerHolds(l, s)
    BY <1>2, <1>3 DEF SessionInv, OneReconnect, AnswerHolds
<1>9. NotStarted(l, s) /\ Named(l)
    BY <1>2 DEF SessionInv, NotStarted, Named
<1> QED
    BY <1>2, <1>4, <1>5, <1>6, <1>7, <1>8, <1>9 DEF SessionInv, l

LEMMA EventsProcessedAckInv ==
    ASSUME Inv, NEW c \in DOMAIN net.socks, EventsProcessedAck(c)
    PROVE  Inv' /\ Onward(net.stage, net'.stage)
<1> DEFINE k == Heard(c)
           rest == {n \in k.unacked : ~(n <= Received(c) /\ n..Received(c) \subseteq k.unacked)}
<1>1. /\ WellFormed(net) /\ Live /\ net.socks[c].down # <<>>
      /\ Head(net.socks[c].down).type = "EventsProcessedAck"
      /\ server' = server /\ produced' = produced
    BY DEF Inv, SessionInv, EventsProcessedAck, Delivers
<1>2. Calm(net, k) /\ k.stage = net.stage
    BY <1>1, CalmHeard
<1>3. net' = [k EXCEPT !.unacked = rest]
    BY DEF EventsProcessedAck
<1> HIDE DEF k
<1>4. SessionInv(k, server) /\ k.unacked \subseteq Int
    <2>1. SessionInv(k, server)
        BY <1>2, CalmKeeps DEF Inv
    <2> QED
        BY <2>1 DEF SessionInv, WellFormed, Network
<1>5. Received(c) \in Int /\ Received(c) < server.acked /\ server.acked \in Nat
    <2>1. net.socks[c].down \in Seq(Message)
        BY <1>1, SocksOf, SocketFields DEF WellFormed
    <2>2. 1 \in DOMAIN net.socks[c].down /\ Head(net.socks[c].down) = net.socks[c].down[1]
          /\ Head(net.socks[c].down) \in Message
        BY <1>1, <2>1, Tails
    <2>3. Received(c) < server.acked
        BY <1>1, <2>2 DEF Inv, SessionInv, Stored, Received
    <2>4. server.acked \in Nat
        BY DEF Inv, SessionInv, ServerOK, SessionServer
    <2> QED
        BY <2>2, <2>3, <2>4 DEF Message, Received
<1>6. rest \in SUBSET k.unacked /\ \A n \in k.unacked \ rest : n < server.acked
    BY <1>4, <1>5
<1> HIDE DEF rest
<1>7. SessionInv(net', server) /\ net'.stage = k.stage
    BY <1>3, <1>4, <1>6, AckKeeps
<1> QED
    BY <1>1, <1>2, <1>7 DEF Inv, Onward

-----------------------------------------------------------------------------
(* A session that starts, or starts again, sends all that is stored.        *)

\* The events from number a up to, but not including, b.
Events(a, b) == [i \in 1..(b - a) |-> Msg("Event", a + i - 1)]

LEMMA Intervals ==
    ASSUME NEW a \in Nat, NEW b \in Nat, 0..(a - 1) = 0..(b - 1) PROVE a = b
<1>1. ~(a < b)
    <2> SUFFICES ASSUME a < b PROVE FALSE
        OBVIOUS
    <2>1. a \in 0..(b - 1) /\ a \notin 0..(a - 1)
        OBVIOUS
    <2> QED
        BY <2>1
<1>2. ~(b < a)
    <2> SUFFICES ASSUME b < a PROVE FALSE
        OBVIOUS
    <2>1. b \in 0..(a - 1) /\ b \notin 0..(b - 1)
        OBVIOUS
    <2> QED
        BY <2>1
<1> QED
    BY <1>1, <1>2

LEMMA FlushSends ==
    ASSUME NEW k \in Network, NEW start,
           Feeds(k) => start \in 0..Len(k.events) /\ start..(Len(k.events) - 1) \subseteq k.unacked
    PROVE  Flush(k, start) =
             IF Feeds(k)
             THEN WithSock(k, k.proxy, [k.socks[k.proxy] EXCEPT
                                           !.up = @ \o Events(start, Len(k.events))])
             ELSE k
<1> DEFINE last == Len(k.events) - 1
           run == {n \in start..last : start..n \subseteq k.unacked}
           m == [i \in 1..Cardinality(run) |-> Msg("Event", start + i - 1)]
<1>1. Flush(k, start) = IF Feeds(k) THEN [k EXCEPT !.socks[k.proxy].up = @ \o m] ELSE k
    BY DEF Flush, Feeds
<1>2. CASE Feeds(k)
    <2>1. Len(k.events) \in Nat /\ start \in Nat /\ start <= Len(k.events) /\ last \in Int
        BY <1>2, SocksOf
    <2>2. run = start..last
        <3>1. ASSUME NEW n \in start..last PROVE start..n \subseteq k.unacked
            <4>1. start..n \subseteq start..last
                BY <2>1, <3>1
            <4> QED
                BY <1>2, <4>1
        <3> QED
            BY <3>1
    <2>3. Cardinality(run) = Len(k.events) - start
        <3>1. Cardinality(start..last) = IF start > last THEN 0 ELSE last - start + 1
            <4> HIDE DEF last
            <4> QED
                BY <2>1, FS_Interval
        <3> HIDE DEF run
        <3> QED
            BY <2>1, <2>2, <3>1
    <2>4. m = Events(start, Len(k.events))
        BY <2>3 DEF Events
    <2> HIDE DEF m
    <2> QED
        BY <1>1, <1>2, <2>4 DEF WithSock
<1>3. CASE ~Feeds(k)
    BY <1>1, <1>3
<1> QED
    BY <1>2, <1>3

\* A socket with the events from start on added to what it sends.
LEMMA SentEvents ==
    ASSUME NEW x \in Socket, NEW start \in Nat, NEW end \in Nat, start <= end
    PROVE  LET u == x.up
               y == [x EXCEPT !.up = @ \o Events(start, end)]
           IN  /\ y \in Socket /\ MoreUp(x, y, y.up)
               /\ DOMAIN u = 1..Len(u) /\ Len(u) \in Nat
               /\ Len(y.up) = Len(u) + end - start /\ DOMAIN y.up = 1..Len(y.up)
               /\ \A i \in DOMAIN u : y.up[i] = u[i]
               /\ \A i \in (Len(u) + 1)..Len(y.up) :
                     y.up[i] = Msg("Event", start + (i - Len(u)) - 1)
<1> DEFINE u == x.up
           e == Events(start, end)
           v == u \o e
           y == [x EXCEPT !.up = v]
<1>1. u \in Seq(Message)
    BY SocketFields
<1>2. /\ e \in Seq(Message) /\ Len(e) = end - start
      /\ \A i \in 1..(end - start) : e[i] = Msg("Event", start + i - 1)
    <2>1. ASSUME NEW i \in 1..(end - start) PROVE Msg("Event", start + i - 1) \in Message
        BY <2>1 DEF Msg, Message, UpTypes
    <2>2. end - start \in Nat
        OBVIOUS
    <2> QED
        BY <2>1, <2>2 DEF Events
<1> HIDE DEF e, u
<1>3. /\ v \in Seq(Message) /\ Len(v) = Len(u) + Len(e) /\ DOMAIN v = 1..Len(v)
      /\ DOMAIN u = 1..Len(u) /\ Len(u) \in Nat
      /\ \A i \in DOMAIN u : v[i] = u[i]
      /\ \A i \in DOMAIN v \ DOMAIN u : v[i] = e[i - Len(u)]
    <2>1. v \in Seq(Message) /\ Len(v) = Len(u) + Len(e)
        BY <1>1, <1>2, ConcatProperties
    <2>2. DOMAIN v = 1..Len(v) /\ DOMAIN u = 1..Len(u) /\ Len(u) \in Nat /\ Len(e) \in Nat
        BY <1>1, <1>2, <2>1
    <2>3. \A i \in 1..(Len(u) + Len(e)) : v[i] = IF i <= Len(u) THEN u[i] ELSE e[i - Len(u)]
        BY <1>1, <1>2, ConcatProperties
    <2> HIDE DEF v
    <2> QED
        BY <2>1, <2>2, <2>3
<1> HIDE DEF v
<1>4. y \in Socket /\ y.up = v /\ MoreUp(x, y, y.up)
    BY <1>3 DEF Socket, MoreUp
<1>5. \A i \in DOMAIN v \ DOMAIN u : v[i] = Msg("Event", start + (i - Len(u)) - 1)
    <2> SUFFICES ASSUME NEW i \in DOMAIN v \ DOMAIN u
                 PROVE  v[i] = Msg("Event", start + (i - Len(u)) - 1)
        OBVIOUS
    <2>1. i - Len(u) \in 1..(end - start)
        BY <1>2, <1>3
    <2> QED
        BY <1>2, <1>3, <2>1
<1>6. Len(v) = Len(u) + end - start
    BY <1>2, <1>3
<1>7. (Len(u) + 1)..Len(v) = DOMAIN v \ DOMAIN u
    BY <1>3
<1>8. y = [x EXCEPT !.up = @ \o Events(start, end)]
    BY DEF v, u, e
<1> HIDE DEF y
<1> QED
    BY <1>3, <1>4, <1>5, <1>6, <1>7, <1>8 DEF u


LEMMA Places ==
    ASSUME NEW a \in Nat, NEW start \in Nat, NEW n \in Nat, start <= n,
           NEW i \in Int, a + 1 <= i, i <= a + n - start
    PROVE  /\ start + (i - a) - 1 \in 0..(n - 1) /\ start + (i - a) - 1 - 1 \in -1..(n - 1)
           /\ a + (start + (i - a) - 1 - 1) - start + 1 < i
OBVIOUS

\* Events that follow each other and what the server has are in sequence.
LEMMA EventsFollow ==
    ASSUME NEW v \in Seq(Message), NEW a \in Nat, NEW start \in Nat, NEW n \in Nat,
           start <= n, Len(v) = a + n - start, NEW s, s.got = 0..(start - 1),
           \A i \in 1..a : v[i].type # "Event",
           \A i \in (a + 1)..Len(v) : v[i] = Msg("Event", start + (i - a) - 1)
    PROVE  /\ \A i \in DOMAIN v : v[i].type = "Event" =>
                 v[i].n \in 0..(n - 1) /\ Before(v, i, v[i].n - 1, s)
           /\ Before(v, Len(v) + 1, n - 1, s)
<1>1. DOMAIN v = 1..Len(v)
    OBVIOUS
<1>2. ASSUME NEW p \in -1..(n - 1), NEW i \in Int, a + p - start + 1 < i
      PROVE  Before(v, i, p, s)
    <2>1. CASE p < start
        BY <2>1 DEF Before
    <2>2. CASE p >= start
        <3> DEFINE j == a + p - start + 1
        <3>1. j \in (a + 1)..Len(v) /\ j \in 1..(i - 1) /\ start + (j - a) - 1 = p
            BY <1>2, <2>2
        <3> HIDE DEF j
        <3>2. j \in DOMAIN v
            BY <1>1, <3>1
        <3> QED
            BY <3>1, <3>2 DEF Before
    <2> QED
        BY <2>1, <2>2
<1>3. ASSUME NEW i \in DOMAIN v, v[i].type = "Event"
      PROVE  v[i].n \in 0..(n - 1) /\ Before(v, i, v[i].n - 1, s)
    <2> DEFINE p == start + (i - a) - 1
    <2>1. i \in (a + 1)..Len(v)
        BY <1>1, <1>3
    <2>2. v[i] = Msg("Event", p)
        BY <2>1
    <2>3. i \in Int /\ a + 1 <= i /\ i <= a + n - start
        BY <2>1
    <2>4. p \in 0..(n - 1) /\ p - 1 \in -1..(n - 1) /\ a + (p - 1) - start + 1 < i
        BY <2>3, Places, SMTT(30)
    <2> HIDE DEF p
    <2>5. v[i].n = p
        BY <2>2 DEF Msg
    <2> QED
        BY <1>2, <2>3, <2>4, <2>5
<1>4. n - 1 \in -1..(n - 1) /\ Len(v) + 1 \in Int /\ a + (n - 1) - start + 1 < Len(v) + 1
    OBVIOUS
<1> QED
    BY <1>2, <1>3, <1>4

\* k becomes j, which counts as started, and sends what the server lacks.
LEMMA StartKeeps ==
    ASSUME NEW k, NEW s, SessionInv(k, s), NEW j \in Network,
           j.stage = "StartedSuccessfully", Active(j) = 0,
           j.socks = k.socks, j.events = k.events, j.unacked = k.unacked, j.proxy = k.proxy,
           \A c \in DOMAIN k.socks : ~Waits(k.socks[c]),
           j.winner # 0 =>
               j.session = j.winner /\ \E c \in DOMAIN k.socks : k.socks[c].attempt = j.winner,
           NEW start,
           Feeds(k) =>
               /\ start \in Nat /\ s.got = 0..(start - 1)
               /\ \A i \in DOMAIN k.socks[k.proxy].up : k.socks[k.proxy].up[i].type # "Event"
    PROVE  SessionInv(Flush(j, start), s) /\ Flush(j, start).stage = "StartedSuccessfully"
<1> DEFINE n == Len(k.events)
           x == k.socks[k.proxy]
           y == [x EXCEPT !.up = @ \o Events(start, n)]
           l == Flush(j, start)
<1>1. /\ k \in Network /\ WellFormed(k) /\ Len(k.socks) \in Nat
      /\ DOMAIN k.socks = 1..Len(k.socks) /\ n \in Nat
      /\ \A c \in DOMAIN k.socks : k.socks[c] \in Socket
      /\ Feeds(j) <=> Feeds(k)
      /\ Feeds(k) => k.proxy \in DOMAIN k.socks /\ x.alive
    BY SocksOf DEF SessionInv, WellFormed, Feeds
<1>2. Feeds(k) => start \in 0..n /\ start..(n - 1) \subseteq k.unacked
    <2> SUFFICES ASSUME Feeds(k)
                 PROVE  start \in 0..n /\ start..(n - 1) \subseteq k.unacked
        OBVIOUS
    <2>1. PICK g \in Nat : s.got = 0..(g - 1) /\ s.acked <= g /\ g <= n
        BY DEF SessionInv, ServerOK
    <2>2. g = start /\ s.acked \in Nat
        BY <2>1, Intervals DEF SessionInv, ServerOK, SessionServer
    <2> QED
        BY <1>1, <2>1, <2>2 DEF SessionInv, Stored
<1>3. l = IF Feeds(k) THEN WithSock(j, k.proxy, y) ELSE j
    BY <1>1, <1>2, FlushSends
<1>4. Feeds(k) =>
        /\ y \in Socket /\ MoreUp(x, y, y.up)
        /\ DOMAIN x.up = 1..Len(x.up) /\ Len(x.up) \in Nat
        /\ Len(y.up) = Len(x.up) + n - start /\ DOMAIN y.up = 1..Len(y.up)
        /\ \A i \in DOMAIN x.up : y.up[i] = x.up[i]
        /\ \A i \in (Len(x.up) + 1)..Len(y.up) :
              y.up[i] = Msg("Event", start + (i - Len(x.up)) - 1)
    <2> SUFFICES ASSUME Feeds(k) PROVE <1>4!2
        OBVIOUS
    <2>1. x \in Socket /\ start \in Nat /\ n \in Nat /\ start <= n
        BY <1>1, <1>2
    <2> HIDE DEF x, n
    <2> QED
        BY <2>1, SentEvents, ZenonT(30)
<1> HIDE DEF y, l, n
<1>5. /\ l \in Network /\ DOMAIN l.socks = DOMAIN k.socks
      /\ Len(l.socks) = Len(k.socks) /\ l.stage = "StartedSuccessfully"
      /\ l.winner = j.winner /\ l.session = j.session /\ l.proxy = k.proxy
      /\ l.events = k.events /\ l.unacked = k.unacked /\ Active(l) = 0
      /\ \A d \in DOMAIN k.socks :
            IF Feeds(k) /\ d = k.proxy THEN l.socks[d] = y ELSE l.socks[d] = k.socks[d]
    <2>1. CASE Feeds(k)
        BY <1>1, <1>3, <1>4, <2>1, WithSockFields
    <2>2. CASE ~Feeds(k)
        BY <1>1, <1>3, <2>2
    <2> QED
        BY <2>1, <2>2
<1>6. ASSUME NEW c \in DOMAIN k.socks
      PROVE  /\ l.socks[c].down = k.socks[c].down /\ l.socks[c].open = k.socks[c].open
             /\ l.socks[c].alive = k.socks[c].alive /\ l.socks[c].attempt = k.socks[c].attempt
             /\ ~l.socks[c].alive => l.socks[c].up = k.socks[c].up
             /\ \A i \in DOMAIN l.socks[c].up : l.socks[c].up[i].type # "Event" =>
                   i \in DOMAIN k.socks[c].up /\ l.socks[c].up[i] = k.socks[c].up[i]
    <2>1. CASE Feeds(k) /\ c = k.proxy
        <3>1. ASSUME NEW i \in DOMAIN y.up, y.up[i].type # "Event"
              PROVE  i \in DOMAIN x.up /\ y.up[i] = x.up[i]
            <4>1. ~(i \in (Len(x.up) + 1)..Len(y.up))
                <5>1. \A p : Msg("Event", p).type = "Event"
                    BY DEF Msg
                <5> QED
                    BY <1>4, <2>1, <3>1, <5>1
            <4> QED
                BY <1>4, <2>1, <3>1, <4>1
        <3>2. l.socks[c] = y /\ k.socks[c] = x
            BY <1>5, <2>1
        <3>3. /\ y.down = x.down /\ y.open = x.open
              /\ y.alive = x.alive /\ y.attempt = x.attempt
            BY <1>4, <2>1 DEF MoreUp
        <3>4. ~x.alive => y.up = x.up
            BY <1>1, <2>1
        <3> HIDE DEF x
        <3> QED
            BY <3>1, <3>2, <3>3, <3>4
    <2>2. CASE ~(Feeds(k) /\ c = k.proxy)
        BY <1>5, <2>2
    <2> QED
        BY <2>1, <2>2
<1>7. WellFormed(l)
    BY <1>1, <1>5, <1>6 DEF WellFormed
<1>8. ServerOK(l, s)
    BY <1>5 DEF SessionInv, ServerOK
<1>9. Stored(l, s)
    BY <1>5, <1>6 DEF SessionInv, Stored
<1>10. Feeds(k) => InSequence(y.up, l, s) /\ Before(y.up, Len(y.up) + 1, n - 1, s)
    <2> SUFFICES ASSUME Feeds(k)
                 PROVE  InSequence(y.up, l, s) /\ Before(y.up, Len(y.up) + 1, n - 1, s)
        OBVIOUS
    <2>1. /\ start \in Nat /\ n \in Nat /\ start <= n /\ s.got = 0..(start - 1)
          /\ Len(x.up) \in Nat /\ Len(y.up) = Len(x.up) + n - start
          /\ y.up \in Seq(Message)
        BY <1>1, <1>2, <1>4, SocketFields
    <2>2. \A i \in 1..Len(x.up) : y.up[i].type # "Event"
        BY <1>4
    <2>3. \A i \in (Len(x.up) + 1)..Len(y.up) :
              y.up[i] = Msg("Event", start + (i - Len(x.up)) - 1)
        BY <1>4
    <2> HIDE DEF x
    <2>4. /\ \A i \in DOMAIN y.up : y.up[i].type = "Event" =>
                y.up[i].n \in 0..(n - 1) /\ Before(y.up, i, y.up[i].n - 1, s)
          /\ Before(y.up, Len(y.up) + 1, n - 1, s)
        BY <2>1, <2>2, <2>3, EventsFollow
    <2> QED
        BY <1>5, <2>4 DEF InSequence, n
<1>11. UpOK(l, s)
    <2>1. ASSUME NEW c \in DOMAIN l.socks, c >= s.conn PROVE InSequence(l.socks[c].up, l, s)
        <3>1. CASE Feeds(k) /\ c = k.proxy
            BY <1>5, <1>10, <3>1
        <3>2. CASE ~(Feeds(k) /\ c = k.proxy)
            BY <1>5, <2>1, <3>2 DEF SessionInv, UpOK, InSequence
        <3> QED
            BY <3>1, <3>2
    <2> QED
        BY <2>1 DEF UpOK
<1>12. CaughtUp(l, s)
    <2>1. l.proxy # 0 /\ l.socks[l.proxy].open /\ l.socks[l.proxy].alive => Feeds(k)
        BY <1>1, <1>5, <1>6 DEF Feeds, WellFormed
    <2> QED
        BY <1>1, <1>5, <1>10, <2>1 DEF CaughtUp, n
<1>13. \A c \in DOMAIN k.socks : ~Waits(l.socks[c])
    BY <1>6 DEF Waits, Asking, Answered
<1>14. OneReconnect(l)
    <2>1. \A c \in DOMAIN k.socks : AskedOnce(l.socks[c])
        BY <1>13 DEF AskedOnce, Waits, Asking, Answered
    <2> QED
        BY <1>5, <1>13, <2>1 DEF OneReconnect
<1>15. AnswerHolds(l, s) /\ NotStarted(l, s)
    BY <1>5 DEF AnswerHolds, NotStarted
<1>16. Named(l)
    <2>1. l.winner # 0 => l.session = l.winner /\ \E c \in DOMAIN l.socks :
                                                     l.socks[c].attempt = l.winner
        BY <1>5, <1>6
    <2>2. ASSUME NEW c \in DOMAIN l.socks
          PROVE  /\ \A i \in DOMAIN l.socks[c].up : l.socks[c].up[i].type = "Initialize" =>
                       l.socks[c].up[i].n = l.socks[c].attempt /\ l.socks[c].attempt # 0
                 /\ \A i \in DOMAIN l.socks[c].down :
                       l.socks[c].down[i].type = "SessionInitialized" =>
                           l.socks[c].down[i].n = l.socks[c].attempt /\ l.socks[c].attempt # 0
        BY <1>5, <1>6 DEF SessionInv, Named
    <2> QED
        BY <1>5, <2>1, <2>2 DEF Named
<1> QED
    BY <1>5, <1>7, <1>8, <1>9, <1>11, <1>12, <1>14, <1>15, <1>16 DEF SessionInv, l


\* The message that is handled.
LEMMA ReceivedMessage ==
    ASSUME WellFormed(net), NEW c \in DOMAIN net.socks, net.socks[c].down # <<>>
    PROVE  /\ 1 \in DOMAIN net.socks[c].down
           /\ net.socks[c].down[1].type = Head(net.socks[c].down).type
           /\ net.socks[c].down[1].n = Received(c) /\ Received(c) \in Int
           /\ \A i \in DOMAIN Tail(net.socks[c].down) :
                 /\ i \in Nat \ {0} /\ i + 1 \in DOMAIN net.socks[c].down
                 /\ Tail(net.socks[c].down)[i] = net.socks[c].down[i + 1]
<1> DEFINE d == net.socks[c].down
<1>1. d \in Seq(Message)
    BY SocksOf, SocketFields DEF WellFormed
<1>2. Received(c) = Head(d).n
    BY DEF Received
<1> HIDE DEF d
<1>3. /\ 1 \in DOMAIN d /\ Head(d) = d[1] /\ Head(d) \in Message
      /\ DOMAIN Tail(d) = 1..(Len(d) - 1)
      /\ \A i \in DOMAIN Tail(d) : i + 1 \in DOMAIN d /\ Tail(d)[i] = d[i + 1]
    BY <1>1, Tails DEF d
<1>4. Head(d).n \in Int
    BY <1>3 DEF Message
<1> QED
    BY <1>2, <1>3, <1>4 DEF d

LEMMA SessionInitializedInv ==
    ASSUME Inv, NEW c \in DOMAIN net.socks, SessionInitialized(c)
    PROVE  Inv' /\ Onward(net.stage, net'.stage)
<1> DEFINE k == Heard(c)
           r == Received(c)
           j == [k EXCEPT !.session = r, !.winner = net.attempt, !.stage = "StartedSuccessfully"]
<1>1. /\ WellFormed(net) /\ net \in Network /\ Live /\ net.socks[c].down # <<>>
      /\ Head(net.socks[c].down).type = "SessionInitialized" /\ ~ShouldIgnore(c)
      /\ server' = server /\ produced' = produced
      /\ net' = IF net.stage # "BeforeStarted" THEN k ELSE Flush(j, 0)
    BY DEF Inv, SessionInv, WellFormed, SessionInitialized, Delivers
<1>2. Calm(net, k) /\ k.stage = net.stage /\ Active(k) = Active(net)
    BY <1>1, CalmHeard
<1>3. r \in Int /\ r = net.socks[c].attempt /\ r # 0
    BY <1>1, ReceivedMessage DEF Inv, SessionInv, Named
<1> HIDE DEF k, r
<1>4. SessionInv(k, server) /\ k \in Network /\ WellFormed(k)
    BY <1>2, CalmKeeps DEF Inv, SessionInv, WellFormed
<1>5. CASE net.stage # "BeforeStarted"
    BY <1>1, <1>2, <1>5, CalmStep DEF Inv
<1>6. CASE net.stage = "BeforeStarted"
    <2>1. net.attempt \in Nat
        BY <1>1 DEF Network
    <2>2. /\ j \in Network /\ j.stage = "StartedSuccessfully" /\ j.socks = k.socks
          /\ j.events = k.events /\ j.unacked = k.unacked /\ j.proxy = k.proxy
          /\ j.winner = net.attempt /\ j.session = r
          /\ j.first = k.first /\ j.loose = k.loose /\ j.cut = k.cut
        BY <1>3, <1>4, <2>1 DEF Network, Stages
    <2>3. net' = Flush(j, 0)
        BY <1>1, <1>6
    <2> HIDE DEF j
    <2>4. Active(j) = 0
        <3>1. Active(j) = Active(net)
            BY <1>2, <2>2 DEF Active
        <3>2. Active(net) \in Nat /\ ~(Active(net) > 0)
            BY <1>1, <1>6, SocksOf DEF Inv, SessionInv, OneReconnect
        <3> QED
            BY <3>1, <3>2
    <2>5. \A d \in DOMAIN k.socks : ~Waits(k.socks[d])
        BY <1>2, <1>4, <1>6 DEF SessionInv, OneReconnect
    <2>6. r = net.attempt
        BY <1>1, <1>3, <1>6 DEF ShouldIgnore
    <2>7. c \in DOMAIN k.socks /\ k.socks[c].attempt = r
        BY <1>1, <1>2, <1>3, <1>4, SocksOf DEF Calm, SockCalm
    <2>8. Feeds(k) =>
            /\ 0 \in Nat /\ server.got = 0..(0 - 1)
            /\ \A i \in DOMAIN k.socks[k.proxy].up : k.socks[k.proxy].up[i].type # "Event"
        <3>1. server.got = {} /\ (Feeds(k) => k.proxy \in DOMAIN k.socks)
            BY <1>2, <1>4, <1>6, SocksOf DEF SessionInv, NotStarted, Feeds, WellFormed
        <3>2. 0..(0 - 1) = {}
            OBVIOUS
        <3> QED
            BY <1>2, <1>4, <1>6, <3>1, <3>2 DEF SessionInv, NotStarted
    <2>9. SessionInv(net', server)
        BY <1>4, <2>2, <2>3, <2>4, <2>5, <2>6, <2>7, <2>8, StartKeeps
    <2> QED
        BY <1>1, <1>6, <2>9 DEF Inv, Onward
<1> QED
    BY <1>5, <1>6

LEMMA SessionReconnectedInv ==
    ASSUME Inv, NEW c \in DOMAIN net.socks, SessionReconnected(c)
    PROVE  Inv' /\ Onward(net.stage, net'.stage)
<1> DEFINE k == Heard(c)
           r == Received(c)
           j == [k EXCEPT !.stage = "StartedSuccessfully", !.winner = 0, !.first = FALSE,
                          !.loose = IF net.first THEN @ + 1 ELSE @]
<1>1. /\ WellFormed(net) /\ net \in Network /\ Live /\ net.socks[c].down # <<>>
      /\ Head(net.socks[c].down).type = "SessionReconnected"
      /\ server' = server /\ produced' = produced
      /\ net' = IF net.stage # "Reconnecting" THEN k ELSE Flush(j, r + 1)
    BY DEF Inv, SessionInv, WellFormed, SessionReconnected, Delivers
<1>2. /\ Calm(net, k) /\ k.stage = net.stage /\ Active(k) = Active(net)
      /\ k.socks[c].down = Tail(net.socks[c].down)
      /\ k.socks[c].up = net.socks[c].up
      /\ k.socks[c].alive = net.socks[c].alive
      /\ \A d \in DOMAIN net.socks \ {c} : k.socks[d] = net.socks[d]
      /\ k.proxy = net.proxy
    BY <1>1, CalmHeard
<1>3. /\ 1 \in DOMAIN net.socks[c].down /\ net.socks[c].down[1].type = "SessionReconnected"
      /\ net.socks[c].down[1].n = r /\ r \in Int
      /\ \A i \in DOMAIN Tail(net.socks[c].down) :
            /\ i \in Nat \ {0} /\ i + 1 \in DOMAIN net.socks[c].down
            /\ Tail(net.socks[c].down)[i] = net.socks[c].down[i + 1]
    BY <1>1, ReceivedMessage
<1> HIDE DEF k, r
<1>4. /\ SessionInv(k, server) /\ k \in Network /\ WellFormed(k)
      /\ DOMAIN k.socks = DOMAIN net.socks /\ DOMAIN k.socks = 1..Len(k.socks)
      /\ Len(k.socks) = Len(net.socks) /\ Len(k.socks) \in Nat
    BY <1>1, <1>2, CalmKeeps, SocksOf DEF Inv, SessionInv, WellFormed, Calm
<1>5. CASE net.stage # "Reconnecting"
    BY <1>1, <1>2, <1>5, CalmStep DEF Inv
<1>6. CASE net.stage = "Reconnecting"
    <2>1. Answered(net.socks[c]) /\ Waits(net.socks[c]) /\ AskedOnce(net.socks[c])
        BY <1>3 DEF Answered, Waits, Inv, SessionInv, OneReconnect
    <2>2. Active(net) = 0 /\ c = Len(net.socks)
        BY <1>6, <2>1 DEF Inv, SessionInv, OneReconnect
    <2>3. ~net.first /\ ~k.first /\ k.loose = 0 /\ k.cut = 0
        <3>1. /\ net.first \in BOOLEAN /\ net.loose \in Nat /\ net.cut \in Nat
              /\ k.first \in BOOLEAN /\ k.loose \in Nat /\ k.cut \in Nat
            BY <1>1, <1>4 DEF Network
        <3>2. ~net.first
            <4>1. net.first => Active(net) = 1 + net.loose + net.cut
                BY DEF Active
            <4> QED
                BY <2>2, <3>1, <4>1
        <3>3. Active(k) = 0
            BY <1>2, <2>2
        <3>4. ~k.first /\ k.loose = 0 /\ k.cut = 0
            BY <3>1, <3>3, SMTT(30) DEF Active
        <3> QED
            BY <3>2, <3>4
    <2>4. j = [k EXCEPT !.stage = "StartedSuccessfully", !.winner = 0, !.first = FALSE,
                        !.loose = k.loose]
        BY <2>3
    <2>5. net' = Flush(j, r + 1)
        BY <1>1, <1>6
    <2> HIDE DEF j
    <2>6. /\ j \in Network /\ j.stage = "StartedSuccessfully" /\ j.socks = k.socks
          /\ j.events = k.events /\ j.unacked = k.unacked /\ j.proxy = k.proxy
          /\ j.winner = 0 /\ j.first = FALSE /\ j.loose = k.loose /\ j.cut = k.cut
        <3>1. k.loose \in Nat
            BY <2>3
        <3> QED
            BY <1>4, <2>4, <3>1 DEF Network, Stages
    <2>7. Active(j) = 0
        BY <2>3, <2>6 DEF Active
    <2>8. ASSUME NEW d \in DOMAIN k.socks, Waits(k.socks[d]) PROVE FALSE
        <3>1. CASE d # c
            BY <1>2, <1>4, <1>6, <2>2, <2>8, <3>1 DEF Inv, SessionInv, OneReconnect
        <3>2. CASE d = c
            <4>1. ~Asking(k.socks[c])
                BY <1>2, <2>1 DEF AskedOnce, Asking
            <4>2. PICK i \in DOMAIN Tail(net.socks[c].down) :
                        Tail(net.socks[c].down)[i].type = "SessionReconnected"
                BY <1>2, <2>8, <3>2, <4>1 DEF Waits, Answered
            <4>3. i + 1 = 1
                BY <1>3, <2>1, <4>2 DEF AskedOnce
            <4> QED
                BY <1>3, <4>3
        <3> QED
            BY <3>1, <3>2
    <2>9. Feeds(k) =>
            /\ r + 1 \in Nat /\ server.got = 0..((r + 1) - 1)
            /\ \A i \in DOMAIN k.socks[k.proxy].up : k.socks[k.proxy].up[i].type # "Event"
        <3> SUFFICES ASSUME Feeds(k)
                     PROVE  /\ r + 1 \in Nat /\ server.got = 0..((r + 1) - 1)
                            /\ \A i \in DOMAIN k.socks[k.proxy].up :
                                  k.socks[k.proxy].up[i].type # "Event"
            OBVIOUS
        <3>1. k.proxy = c /\ net.socks[c].alive
            BY <1>2, <1>4, <2>2 DEF Feeds, WellFormed
        <3>2. /\ server.got = 0..r /\ r >= -1
              /\ \A i \in DOMAIN net.socks[c].up : net.socks[c].up[i].type # "Event"
            BY <1>3, <1>6, <2>1, <3>1 DEF Inv, SessionInv, AnswerHolds
        <3>3. r + 1 \in Nat /\ (r + 1) - 1 = r
            BY <1>3, <3>2
        <3> QED
            BY <1>2, <3>1, <3>2, <3>3
    <2>10. SessionInv(net', server)
        <3> DEFINE start == r + 1
        <3>1. net' = Flush(j, start)
            BY <2>5
        <3>2. Feeds(k) =>
                /\ start \in Nat /\ server.got = 0..(start - 1)
                /\ \A i \in DOMAIN k.socks[k.proxy].up : k.socks[k.proxy].up[i].type # "Event"
            BY <2>9
        <3> HIDE DEF start
        <3> QED
            BY <1>4, <2>6, <2>7, <2>8, <3>1, <3>2, StartKeeps
    <2> QED
        BY <1>1, <1>6, <2>10 DEF Inv, Onward
<1> QED
    BY <1>5, <1>6

LEMMA ReceiveInv ==
    ASSUME Inv, NEW c \in DOMAIN net.socks, Receive(c)
    PROVE  Inv' /\ Onward(net.stage, net'.stage)
BY SessionInitializedInv, SessionReconnectedInv, EventsProcessedAckInv, CalmMessagesInv,
   WebsocketClosedInv DEF Receive


-----------------------------------------------------------------------------
(* The server reads a socket and answers.                                   *)

LEMMA PoppedUp ==
    ASSUME NEW x \in Socket, x.up # <<>>
    PROVE  LET y == [x EXCEPT !.up = Tail(@)]
           IN  /\ y \in Socket /\ y.up = Tail(x.up) /\ y.down = x.down
               /\ y.alive = x.alive /\ y.open = x.open /\ y.attempt = x.attempt
<1> DEFINE q == Tail(x.up)
<1>1. q \in Seq(Message)
    BY SocketFields, Tails
<1>2. [x EXCEPT !.up = Tail(@)] = [x EXCEPT !.up = q]
    OBVIOUS
<1> HIDE DEF q
<1>3. [x EXCEPT !.up = q] \in Socket
    BY <1>1 DEF Socket
<1> QED
    BY <1>1, <1>2, <1>3 DEF Socket, q

\* Anything but an event may be taken from what a socket sends.
LEMMA PoppedUpCalm ==
    ASSUME NEW k, WellFormed(k), NEW c \in DOMAIN k.socks, k.socks[c].up # <<>>,
           Head(k.socks[c].up).type # "Event"
    PROVE  Calm(k, WithSock(k, c, [k.socks[c] EXCEPT !.up = Tail(@)]))
<1> DEFINE x == k.socks[c]
           y == [x EXCEPT !.up = Tail(@)]
<1>1. k \in Network /\ x \in Socket /\ x.up \in Seq(Message) /\ x.alive
    BY SocksOf, SocketFields DEF WellFormed
<1>2. /\ y \in Socket /\ y.up = Tail(x.up) /\ y.down = x.down
      /\ y.alive = x.alive /\ y.open = x.open /\ y.attempt = x.attempt
    BY <1>1, PoppedUp
<1> HIDE DEF y
<1>3. UpCalm(x.up, y.up)
    <2> DEFINE u == x.up
    <2>1. u \in Seq(Message) /\ u # <<>> /\ Head(u).type # "Event" /\ y.up = Tail(u)
        BY <1>1, <1>2
    <2> HIDE DEF u
    <2>2. /\ DOMAIN u = 1..Len(u) /\ DOMAIN Tail(u) = 1..(Len(u) - 1) /\ Len(u) \in Nat
          /\ \A i \in DOMAIN Tail(u) : i + 1 \in DOMAIN u /\ Tail(u)[i] = u[i + 1]
          /\ Head(u) = u[1]
        BY <2>1, Tails
    <2>3. ASSUME NEW i \in DOMAIN u, u[i].type = "Event"
          PROVE  i - 1 \in DOMAIN Tail(u) /\ Tail(u)[i - 1] = u[i]
        <3>1. i # 1 /\ i \in 1..Len(u)
            BY <2>1, <2>2, <2>3
        <3>2. i - 1 \in DOMAIN Tail(u) /\ (i - 1) + 1 = i
            BY <2>2, <3>1
        <3> QED
            BY <2>2, <3>2
    <2>4. UpCalm(u, Tail(u))
        BY <2>2, <2>3 DEF UpCalm
    <2> QED
        BY <1>2, <2>4 DEF u
<1>4. SockCalm(x, y)
    BY <1>1, <1>2, <1>3, SockCalmSame DEF SockCalm
<1> QED
    BY <1>1, <1>2, <1>4, SocketCalm DEF y

Answer(k, c, m) == WithSock(k, c, [k.socks[c] EXCEPT !.down = Append(@, m)])

\* An answer that is true is delivered.
LEMMA AnswerKeeps ==
    ASSUME NEW k, NEW s, SessionInv(k, s), NEW c \in DOMAIN k.socks, NEW m \in Message,
           m.type = "EventsProcessedAck" => m.n < s.acked,
           m.type = "SessionInitialized" =>
               m.n = k.socks[c].attempt /\ k.socks[c].attempt # 0,
           m.type = "SessionReconnected" =>
               /\ ~Waits(k.socks[c])
               /\ k.stage \notin {"BeforeStarted", "StartedSuccessfully"}
               /\ k.stage = "Reconnecting" =>
                     /\ Active(k) = 0 /\ c = Len(k.socks)
                     /\ s.conn = c /\ s.got = 0..m.n /\ m.n >= -1
                     /\ \A i \in DOMAIN k.socks[c].up : k.socks[c].up[i].type # "Event"
    PROVE  SessionInv(Answer(k, c, m), s) /\ Answer(k, c, m).stage = k.stage
<1> DEFINE x == k.socks[c]
           d == x.down
           f == Append(d, m)
           y == [x EXCEPT !.down = f]
           l == Answer(k, c, m)
<1>1. k \in Network /\ x \in Socket /\ d \in Seq(Message) /\ WellFormed(k)
    BY SocksOf, SocketFields DEF SessionInv, WellFormed
<1>2. /\ f \in Seq(Message) /\ DOMAIN f = 1..(Len(d) + 1) /\ DOMAIN d = 1..Len(d)
      /\ Len(d) \in Nat /\ f[Len(d) + 1] = m /\ \A i \in DOMAIN d : f[i] = d[i]
    BY <1>1, Appended
<1>3. \A i \in DOMAIN f : (i \in DOMAIN d /\ f[i] = d[i]) \/ (i \notin DOMAIN d /\ f[i] = m)
    BY <1>2
<1>4. \A i, j \in DOMAIN f : i \notin DOMAIN d /\ j \notin DOMAIN d => i = j
    BY <1>2
<1>5. l = WithSock(k, c, y)
    BY DEF Answer
<1> HIDE DEF f
<1>6. /\ y \in Socket /\ y.down = f /\ y.up = x.up /\ y.open = x.open
      /\ y.alive = x.alive /\ y.attempt = x.attempt
    BY <1>1, <1>2 DEF Socket
<1> HIDE DEF y, l
<1>7. /\ l \in Network /\ DOMAIN l.socks = DOMAIN k.socks /\ Len(l.socks) = Len(k.socks)
      /\ l.socks[c] = y /\ \A b \in DOMAIN k.socks \ {c} : l.socks[b] = k.socks[b]
      /\ l.stage = k.stage /\ l.winner = k.winner
      /\ l.session = k.session /\ l.proxy = k.proxy
      /\ l.events = k.events /\ l.unacked = k.unacked
      /\ Active(l) = Active(k) /\ (Quiet(l) <=> Quiet(k))
    BY <1>1, <1>5, <1>6, WithSockFields
<1>8. \A b \in DOMAIN k.socks :
        /\ l.socks[b].up = k.socks[b].up /\ l.socks[b].open = k.socks[b].open
        /\ l.socks[b].alive = k.socks[b].alive /\ l.socks[b].attempt = k.socks[b].attempt
    BY <1>6, <1>7
<1>9. \A b \in DOMAIN k.socks : \A i \in DOMAIN l.socks[b].down :
        \/ i \in DOMAIN k.socks[b].down /\ l.socks[b].down[i] = k.socks[b].down[i]
        \/ b = c /\ l.socks[b].down[i] = m /\ i \notin DOMAIN d
    BY <1>3, <1>6, <1>7
<1> HIDE DEF x
<1>10. WellFormed(l)
    BY <1>1, <1>7, <1>8 DEF WellFormed, Quiet
<1>11. ServerOK(l, s) /\ NotStarted(l, s)
    <2>1. ServerOK(l, s)
        BY <1>7 DEF SessionInv, ServerOK
    <2>2. NotStarted(l, s)
        BY <1>7, <1>8 DEF SessionInv, NotStarted
    <2> QED
        BY <2>1, <2>2
<1>12. Stored(l, s)
    BY <1>7, <1>9 DEF SessionInv, Stored
<1>13. UpOK(l, s)
    BY <1>7, <1>8 DEF SessionInv, UpOK, InSequence
<1>14. CaughtUp(l, s)
    <2>1. l.proxy # 0 => l.proxy \in DOMAIN k.socks
        BY <1>1, <1>7, SocksOf DEF WellFormed
    <2> QED
        BY <1>7, <1>8, <2>1 DEF SessionInv, CaughtUp
<1>15. ASSUME m.type # "SessionReconnected" PROVE OneReconnect(l) /\ AnswerHolds(l, s)
    <2>1. ASSUME NEW b \in DOMAIN k.socks
          PROVE  AskedOnce(l.socks[b]) /\ (Waits(l.socks[b]) => Waits(k.socks[b]))
        <3>1. AskedOnce(k.socks[b])
            BY DEF SessionInv, OneReconnect
        <3> QED
            BY <1>8, <1>9, <1>15, <3>1 DEF AskedOnce, Waits, Asking, Answered
    <2>2. OneReconnect(l)
        BY <1>7, <2>1 DEF SessionInv, OneReconnect
    <2>3. AnswerHolds(l, s)
        BY <1>7, <1>8, <1>9, <1>15, <2>1 DEF SessionInv, AnswerHolds
    <2> QED
        BY <2>2, <2>3
<1>16. ASSUME m.type = "SessionReconnected" PROVE OneReconnect(l) /\ AnswerHolds(l, s)
    <2>1. ASSUME NEW b \in DOMAIN k.socks
          PROVE  AskedOnce(l.socks[b]) /\ (b # c => (Waits(l.socks[b]) => Waits(k.socks[b])))
        <3>1. CASE b # c
            BY <1>7, <3>1 DEF SessionInv, OneReconnect
        <3>2. CASE b = c
            <4>1. ~Asking(l.socks[c])
                BY <1>8, <1>16 DEF Waits, Asking
            <4>2. \A i \in DOMAIN l.socks[c].down :
                      l.socks[c].down[i].type = "SessionReconnected" => i \notin DOMAIN d
                BY <1>9, <1>16 DEF Waits, Answered, x
            <4>3. \A i, j \in DOMAIN l.socks[c].down :
                      /\ l.socks[c].down[i].type = "SessionReconnected"
                      /\ l.socks[c].down[j].type = "SessionReconnected"
                      => i = j
                BY <1>4, <1>6, <1>7, <4>2
            <4> QED
                BY <3>2, <4>1, <4>3 DEF AskedOnce, Asking
        <3> QED
            BY <3>1, <3>2
    <2>2. OneReconnect(l)
        BY <1>7, <1>16, <2>1 DEF SessionInv, OneReconnect
    <2>3. AnswerHolds(l, s)
        <3> SUFFICES ASSUME l.stage = "Reconnecting", NEW b \in DOMAIN l.socks,
                            l.socks[b].alive, Waits(l.socks[b])
                     PROVE  /\ \A i \in DOMAIN l.socks[b].up : l.socks[b].up[i].type # "Event"
                            /\ \A i \in DOMAIN l.socks[b].down :
                                  l.socks[b].down[i].type = "SessionReconnected" =>
                                      s.conn = b /\ s.got = 0..l.socks[b].down[i].n
                                      /\ l.socks[b].down[i].n >= -1
            BY DEF AnswerHolds
        <3>1. CASE b # c
            BY <1>7, <2>1, <3>1 DEF SessionInv, AnswerHolds
        <3>2. CASE b = c
            BY <1>7, <1>8, <1>9, <1>16, <3>2 DEF Waits, Answered
        <3> QED
            BY <3>1, <3>2
    <2> QED
        BY <2>2, <2>3
<1>17. Named(l)
    BY <1>7, <1>8, <1>9 DEF SessionInv, Named
<1> QED
    BY <1>7, <1>10, <1>11, <1>12, <1>13, <1>14, <1>15, <1>16, <1>17 DEF SessionInv, l


\* The connection once the server has read a message.
Heeded(c) == WithSock(net, c, [net.socks[c] EXCEPT !.up = Tail(@)])

LEMMA HeededFields ==
    ASSUME Inv, NEW c \in DOMAIN net.socks, net.socks[c].up # <<>>
    PROVE  /\ Heeded(c) \in Network
           /\ DOMAIN Heeded(c).socks = DOMAIN net.socks
           /\ Len(Heeded(c).socks) = Len(net.socks)
           /\ Heeded(c).socks[c].up = Tail(net.socks[c].up)
           /\ Heeded(c).socks[c].down = net.socks[c].down
           /\ Heeded(c).socks[c].alive = net.socks[c].alive
           /\ Heeded(c).socks[c].open = net.socks[c].open
           /\ Heeded(c).socks[c].attempt = net.socks[c].attempt
           /\ net.socks[c].alive
           /\ \A d \in DOMAIN net.socks \ {c} : Heeded(c).socks[d] = net.socks[d]
           /\ Heeded(c).stage = net.stage /\ Heeded(c).winner = net.winner
           /\ Heeded(c).session = net.session /\ Heeded(c).proxy = net.proxy
           /\ Heeded(c).events = net.events /\ Heeded(c).unacked = net.unacked
           /\ Active(Heeded(c)) = Active(net)
           /\ Quiet(Heeded(c)) <=> Quiet(net)
<1> DEFINE x == net.socks[c]
           y == [x EXCEPT !.up = Tail(@)]
<1>1. net \in Network /\ x \in Socket /\ x.alive
    BY SocksOf DEF Inv, SessionInv, WellFormed
<1>2. /\ y \in Socket /\ y.up = Tail(x.up) /\ y.down = x.down
      /\ y.alive = x.alive /\ y.open = x.open /\ y.attempt = x.attempt
    BY <1>1, PoppedUp
<1>3. Heeded(c) = WithSock(net, c, y)
    BY DEF Heeded
<1> HIDE DEF y
<1> DEFINE l == WithSock(net, c, y)
<1>4. /\ l \in Network /\ DOMAIN l.socks = DOMAIN net.socks
      /\ Len(l.socks) = Len(net.socks) /\ l.socks[c] = y
      /\ \A d \in DOMAIN net.socks \ {c} : l.socks[d] = net.socks[d]
      /\ l.stage = net.stage /\ l.winner = net.winner
      /\ l.session = net.session /\ l.proxy = net.proxy
      /\ l.events = net.events /\ l.unacked = net.unacked
      /\ Active(l) = Active(net) /\ (Quiet(l) <=> Quiet(net))
    BY <1>1, <1>2, WithSockFields
<1>5. Heeded(c) = l
    BY <1>3
<1> HIDE DEF l
<1> QED
    BY <1>1, <1>2, <1>4, <1>5

LEMMA HeededKeeps ==
    ASSUME Inv, NEW c \in DOMAIN net.socks, net.socks[c].up # <<>>,
           Head(net.socks[c].up).type # "Event"
    PROVE  SessionInv(Heeded(c), server)
BY PoppedUpCalm, CalmKeeps DEF Inv, SessionInv, Heeded

LEMMA ReplyIsAnswer ==
    ASSUME Inv, NEW c \in DOMAIN net.socks, NEW m
    PROVE  Reply(c, m) = Answer(Heeded(c), c, m)
<1> DEFINE x == net.socks[c]
           y == [x EXCEPT !.up = Tail(@)]
           z == [y EXCEPT !.down = Append(@, m)]
<1>1. net \in Network /\ net.socks \in Seq(Socket) /\ x \in Socket
    BY SocksOf DEF Inv, SessionInv, WellFormed, Network
<1>2. Heeded(c).socks[c] = y
    BY <1>1 DEF Heeded, WithSock, Network
<1>3. Answer(Heeded(c), c, m) = WithSock(Heeded(c), c, z)
    BY <1>2 DEF Answer
<1>4. Reply(c, m) = WithSock(WithSock(net, c, y), c, z)
    BY <1>1 DEF Reply, WithSock, Network
<1> QED
    BY <1>3, <1>4 DEF Heeded

\* The server's part changes.
LEMMA ConnKeeps ==
    ASSUME NEW k, NEW s, SessionInv(k, s), NEW n \in Nat, s.conn <= n, n <= Len(k.socks),
           k.stage = "Reconnecting" => \A c \in DOMAIN k.socks : ~Waits(k.socks[c])
    PROVE  SessionInv(k, [s EXCEPT !.conn = n])
<1> DEFINE t == [s EXCEPT !.conn = n]
<1>1. /\ s \in SessionServer /\ t \in SessionServer /\ t.got = s.got /\ t.acked = s.acked
      /\ t.conn = n /\ s.conn \in Nat /\ k \in Network
    BY DEF SessionInv, ServerOK, SessionServer, WellFormed
<1> HIDE DEF t
<1>2. ServerOK(k, t) /\ Stored(k, t)
    BY <1>1 DEF SessionInv, ServerOK, Stored
<1>3. UpOK(k, t) /\ CaughtUp(k, t)
    <2>1. UpOK(k, t)
        <3>1. \A c \in DOMAIN k.socks : c >= n => c >= s.conn
            BY <1>1, SocksOf
        <3> QED
            BY <1>1, <3>1 DEF SessionInv, UpOK, InSequence, Before
    <2>2. CaughtUp(k, t)
        BY <1>1 DEF SessionInv, CaughtUp, Before
    <2> QED
        BY <2>1, <2>2
<1>4. AnswerHolds(k, t) /\ NotStarted(k, t)
    BY <1>1 DEF SessionInv, AnswerHolds, NotStarted
<1> QED
    BY <1>2, <1>3, <1>4 DEF SessionInv, t

LEMMA AckedKeeps ==
    ASSUME NEW k, NEW s, SessionInv(k, s), NEW a \in Nat, s.acked <= a, a # 0,
           NEW g \in Nat, s.got = 0..(g - 1), a <= g
    PROVE  SessionInv(k, [s EXCEPT !.acked = a])
<1> DEFINE t == [s EXCEPT !.acked = a]
<1>1. /\ s \in SessionServer /\ t \in SessionServer /\ t.got = s.got /\ t.acked = a
      /\ t.conn = s.conn /\ s.acked \in Nat /\ k \in Network
    BY DEF SessionInv, ServerOK, SessionServer, WellFormed
<1> HIDE DEF t
<1>2. ServerOK(k, t)
    <2>1. PICK h \in Nat : s.got = 0..(h - 1) /\ h <= Len(k.events)
        BY DEF SessionInv, ServerOK
    <2>2. h = g
        BY <2>1, Intervals
    <2>3. s.conn <= Len(k.socks)
        BY DEF SessionInv, ServerOK
    <2> QED
        BY <1>1, <2>1, <2>2, <2>3 DEF ServerOK
<1>3. Stored(k, t)
    <2>1. \A c \in DOMAIN k.socks : \A i \in DOMAIN k.socks[c].down :
            k.socks[c].down[i].type = "EventsProcessedAck" => k.socks[c].down[i].n < a
        <3> SUFFICES ASSUME NEW c \in DOMAIN k.socks, NEW i \in DOMAIN k.socks[c].down,
                            k.socks[c].down[i].type = "EventsProcessedAck"
                     PROVE  k.socks[c].down[i].n < a
            OBVIOUS
        <3>1. k.socks[c].down[i].n < s.acked
            BY DEF SessionInv, Stored
        <3>2. k.socks[c].down[i].n \in Int
            <4>1. k.socks[c].down \in Seq(Message)
                BY <1>1, SocksOf, SocketFields
            <4>2. k.socks[c].down[i] \in Message
                BY <4>1
            <4> QED
                BY <4>2 DEF Message
        <3> QED
            BY <1>1, <3>1, <3>2
    <2>2. \A n \in 0..(Len(k.events) - 1) : n \in k.unacked \/ n < a
        BY <1>1 DEF SessionInv, Stored
    <2> QED
        BY <1>1, <2>1, <2>2 DEF SessionInv, Stored
<1>4. UpOK(k, t) /\ CaughtUp(k, t)
    BY <1>1 DEF SessionInv, UpOK, InSequence, CaughtUp, Before
<1>5. k.stage # "BeforeStarted"
    BY DEF SessionInv, NotStarted
<1>6. AnswerHolds(k, t) /\ NotStarted(k, t)
    BY <1>1, <1>5 DEF SessionInv, AnswerHolds, NotStarted
<1> QED
    BY <1>2, <1>3, <1>4, <1>6 DEF SessionInv, t

\* The last event the server has.
LEMMA LastOf ==
    ASSUME NEW g \in Nat
    PROVE  /\ Max({-1} \cup 0..(g - 1)) = g - 1
           /\ g # 0 => Max(0..(g - 1)) = g - 1
           /\ Cardinality(0..(g - 1)) = g
<1>1. Max({-1} \cup 0..(g - 1)) = g - 1
    <2>1. g - 1 \in {-1} \cup 0..(g - 1) /\ \A y \in {-1} \cup 0..(g - 1) : g - 1 >= y
        OBVIOUS
    <2>2. \A x \in {-1} \cup 0..(g - 1) :
              (\A y \in {-1} \cup 0..(g - 1) : x >= y) => x = g - 1
        BY <2>1
    <2> QED
        BY <2>1, <2>2 DEF Max
<1>2. ASSUME g # 0 PROVE Max(0..(g - 1)) = g - 1
    <2>1. g - 1 \in 0..(g - 1) /\ \A y \in 0..(g - 1) : g - 1 >= y
        BY <1>2
    <2>2. \A x \in 0..(g - 1) : (\A y \in 0..(g - 1) : x >= y) => x = g - 1
        BY <2>1
    <2> QED
        BY <2>1, <2>2 DEF Max
<1>3. Cardinality(0..(g - 1)) = g
    <2>1. Cardinality(0..(g - 1)) = IF 0 > g - 1 THEN 0 ELSE (g - 1) - 0 + 1
        BY FS_Interval
    <2> QED
        BY <2>1
<1> QED
    BY <1>1, <1>2, <1>3


\* The first message a socket carries to the server.
LEMMA FirstMessage ==
    ASSUME Inv, NEW c \in DOMAIN net.socks, net.socks[c].up # <<>>
    PROVE  LET u == net.socks[c].up
           IN  /\ u \in Seq(Message) /\ Head(u) = u[1] /\ 1 \in DOMAIN u /\ Head(u) \in Message
               /\ DOMAIN u = 1..Len(u) /\ DOMAIN Tail(u) = 1..(Len(u) - 1)
               /\ Len(u) \in Nat \ {0} /\ Len(Tail(u)) = Len(u) - 1
               /\ \A i \in DOMAIN Tail(u) : i + 1 \in DOMAIN u /\ Tail(u)[i] = u[i + 1]
<1>1. net.socks[c].up \in Seq(Message)
    BY SocksOf, SocketFields DEF Inv, SessionInv, WellFormed
<1> QED
    BY <1>1, Tails

LEMMA RepliesInv ==
    ASSUME Inv, NEW c \in DOMAIN net.socks,
           ServerCreatesSession(c) \/ ServerRefusesSession(c) \/ ServerRefusesReconnect(c)
    PROVE  Inv' /\ Onward(net.stage, net'.stage)
<1> DEFINE u == net.socks[c].up
           k == Heeded(c)
<1>1. /\ u # <<>> /\ Head(u).type # "Event" /\ server' = server /\ produced' = produced
    BY DEF ServerCreatesSession, ServerRefusesSession, ServerRefusesReconnect, ServerReads
<1>2. /\ SessionInv(k, server) /\ c \in DOMAIN k.socks /\ k.stage = net.stage
      /\ k.socks[c].attempt = net.socks[c].attempt
    BY <1>1, HeededKeeps, HeededFields
<1>3. u[1] = Head(u) /\ 1 \in DOMAIN u
    BY <1>1, FirstMessage
<1>4. PICK m \in Message :
        /\ net' = Reply(c, m)
        /\ m.type = "SessionInitialized" => m.n = net.socks[c].attempt /\ net.socks[c].attempt # 0
        /\ m.type \notin {"EventsProcessedAck", "SessionReconnected"}
    <2>1. CASE ServerCreatesSession(c)
        <3> DEFINE m == Msg("SessionInitialized", Head(u).n)
        <3>1. Head(u).n = net.socks[c].attempt /\ net.socks[c].attempt # 0
            BY <1>3, <2>1 DEF Inv, SessionInv, Named, ServerCreatesSession, ServerReads
        <3>2. Head(u).n \in Int
            BY <1>1, FirstMessage DEF Message
        <3>3. m \in Message /\ m.type = "SessionInitialized" /\ m.n = Head(u).n
            BY <3>2 DEF Message, Msg, DownTypes
        <3>4. net' = Reply(c, m)
            BY <2>1 DEF ServerCreatesSession
        <3> HIDE DEF m
        <3> QED
            BY <3>1, <3>3, <3>4
    <2>2. CASE ServerRefusesSession(c)
        <3>1. PICK retryable \in {0, 1} : net' = Reply(c, Msg("FailedToInitialize", retryable))
            BY <2>2 DEF ServerRefusesSession
        <3> DEFINE m == Msg("FailedToInitialize", retryable)
        <3>2. m \in Message /\ m.type = "FailedToInitialize"
            BY DEF Message, Msg, DownTypes
        <3> HIDE DEF m
        <3> QED
            BY <3>1, <3>2 DEF m
    <2>3. CASE ServerRefusesReconnect(c)
        <3> DEFINE m == Msg("FailedToReconnect", 0)
        <3>1. m \in Message /\ m.type = "FailedToReconnect" /\ net' = Reply(c, m)
            BY <2>3 DEF Message, Msg, DownTypes, ServerRefusesReconnect
        <3> HIDE DEF m
        <3> QED
            BY <3>1
    <2> QED
        BY <2>1, <2>2, <2>3
<1>5. net' = Answer(k, c, m)
    BY <1>4, ReplyIsAnswer
<1> HIDE DEF k
<1>6. SessionInv(net', server) /\ net'.stage = k.stage
    BY <1>2, <1>4, <1>5, AnswerKeeps
<1> QED
    BY <1>1, <1>2, <1>6 DEF Inv, Onward

LEMMA ServerResumesSessionInv ==
    ASSUME Inv, NEW c \in DOMAIN net.socks, ServerResumesSession(c)
    PROVE  Inv' /\ Onward(net.stage, net'.stage)
<1> DEFINE x == net.socks[c]
           u == x.up
           k == Heeded(c)
           n == IF c > server.conn THEN c ELSE server.conn
           s == [server EXCEPT !.conn = n]
<1>1. /\ u # <<>> /\ Head(u).type = "Reconnect" /\ server' = s /\ produced' = produced
      /\ net' = Reply(c, Msg("SessionReconnected", Max({-1} \cup server.got)))
    BY DEF ServerResumesSession, ServerReads
<1>2. /\ u \in Seq(Message) /\ Head(u) = u[1] /\ 1 \in DOMAIN u
      /\ \A i \in DOMAIN Tail(u) : i + 1 \in DOMAIN u /\ Tail(u)[i] = u[i + 1] /\ i \in Nat \ {0}
    <2>1. DOMAIN Tail(u) \subseteq Nat \ {0}
        BY <1>1, FirstMessage
    <2> QED
        BY <1>1, <2>1, FirstMessage
<1>3. Asking(x) /\ Waits(x) /\ AskedOnce(x) /\ ~Answered(x)
    <2>1. Asking(x) /\ AskedOnce(x)
        BY <1>1, <1>2 DEF Asking, Inv, SessionInv, OneReconnect
    <2> QED
        BY <2>1 DEF AskedOnce, Waits
<1>4. /\ net.stage \notin {"BeforeStarted", "StartedSuccessfully"}
      /\ net.stage = "Reconnecting" => Active(net) = 0 /\ c = Len(net.socks)
    BY <1>3 DEF Inv, SessionInv, OneReconnect
<1>5. /\ SessionInv(k, server) /\ k.stage = net.stage /\ Active(k) = Active(net)
      /\ DOMAIN k.socks = DOMAIN net.socks /\ Len(k.socks) = Len(net.socks)
      /\ k.socks[c].up = Tail(u) /\ k.socks[c].down = x.down
      /\ \A d \in DOMAIN net.socks \ {c} : k.socks[d] = net.socks[d]
      /\ x.alive
    BY <1>1, HeededKeeps, HeededFields
<1>6. ~Waits(k.socks[c])
    <2>1. ~Answered(k.socks[c])
        BY <1>3, <1>5 DEF Answered
    <2>2. ~Asking(k.socks[c])
        <3> SUFFICES ASSUME NEW i \in DOMAIN Tail(u), Tail(u)[i].type = "Reconnect" PROVE FALSE
            BY <1>5 DEF Asking
        <3>1. i + 1 = 1
            BY <1>1, <1>2, <1>3 DEF AskedOnce
        <3> QED
            BY <1>2, <3>1
    <2> QED
        BY <2>1, <2>2 DEF Waits
<1>7. k.stage = "Reconnecting" => \A d \in DOMAIN k.socks : ~Waits(k.socks[d])
    BY <1>4, <1>5, <1>6 DEF Inv, SessionInv, OneReconnect
<1>8. PICK g \in Nat : server.got = 0..(g - 1)
    BY DEF Inv, SessionInv, ServerOK
<1> DEFINE m == Msg("SessionReconnected", g - 1)
<1>9. /\ m \in Message /\ m.type = "SessionReconnected" /\ m.n = g - 1
      /\ net' = Reply(c, m)
    <2>1. Max({-1} \cup server.got) = g - 1
        BY <1>8, LastOf
    <2> QED
        BY <1>1, <2>1 DEF Message, Msg, DownTypes
<1>10. net' = Answer(k, c, m)
    BY <1>9, ReplyIsAnswer
<1> HIDE DEF k, m, x
<1>11. /\ n \in Nat /\ server.conn <= n /\ n <= Len(k.socks) /\ server.conn \in Nat
       /\ server.conn <= Len(k.socks) /\ c \in Nat /\ c <= Len(k.socks)
       /\ server \in SessionServer /\ net \in Network
    <2>1. /\ server.conn \in Nat /\ server.conn <= Len(net.socks) /\ server \in SessionServer
          /\ net \in Network
        BY DEF Inv, SessionInv, ServerOK, SessionServer, WellFormed
    <2>2. c \in Nat /\ c <= Len(net.socks)
        BY <2>1, SocksOf
    <2> QED
        BY <1>5, <2>1, <2>2
<1>12. SessionInv(k, s)
    <2> HIDE DEF n
    <2> QED
        BY <1>5, <1>7, <1>11, ConnKeeps
<1>13. s.conn = n /\ s.got = server.got
    BY <1>11 DEF SessionServer
<1> HIDE DEF s
<1>14. k.stage = "Reconnecting" =>
          /\ Active(k) = 0 /\ c = Len(k.socks)
          /\ s.conn = c /\ s.got = 0..m.n /\ m.n >= -1
          /\ \A i \in DOMAIN k.socks[c].up : k.socks[c].up[i].type # "Event"
    <2> SUFFICES ASSUME k.stage = "Reconnecting"
                 PROVE  /\ Active(k) = 0 /\ c = Len(k.socks)
                        /\ s.conn = c /\ s.got = 0..m.n /\ m.n >= -1
                        /\ \A i \in DOMAIN k.socks[c].up : k.socks[c].up[i].type # "Event"
        OBVIOUS
    <2>1. Active(k) = 0 /\ c = Len(k.socks)
        BY <1>4, <1>5
    <2>2. s.conn = c
        BY <1>11, <1>13, <2>1
    <2>3. s.got = 0..m.n /\ m.n >= -1
        BY <1>8, <1>9, <1>13
    <2>4. \A i \in DOMAIN x.up : x.up[i].type # "Event"
        BY <1>3, <1>5 DEF Inv, SessionInv, AnswerHolds, x
    <2> QED
        BY <1>2, <1>5, <2>1, <2>2, <2>3, <2>4
<1>15. SessionInv(net', s) /\ net'.stage = k.stage
    <2>1. c \in DOMAIN k.socks /\ k.stage \notin {"BeforeStarted", "StartedSuccessfully"}
        BY <1>4, <1>5
    <2> QED
        BY <1>6, <1>9, <1>10, <1>12, <1>14, <2>1, AnswerKeeps
<1> QED
    BY <1>1, <1>5, <1>15 DEF Inv, Onward

\* A connection that hears from the server and is told something.
LEMMA TellKeeps ==
    ASSUME NEW k, NEW s, SessionInv(k, s), NEW c \in DOMAIN k.socks, NEW m \in Message,
           m.type \in {"EventsProcessedAck", "SessionTerminated"},
           m.type = "EventsProcessedAck" => m.n < s.acked
    PROVE  SessionInv(Answer(k, c, m), s) /\ Answer(k, c, m).stage = k.stage
BY AnswerKeeps

LEMMA ServerAcksInv ==
    ASSUME Inv, NEW c \in DOMAIN net.socks, ServerAcks(c)
    PROVE  Inv' /\ Onward(net.stage, net'.stage)
<1>1. PICK g \in Nat : server.got = 0..(g - 1) /\ server.acked <= g
    BY DEF Inv, SessionInv, ServerOK
<1>2. Cardinality(server.got) = g /\ (g # 0 => Max(server.got) = g - 1)
    BY <1>1, LastOf
<1>3. server.acked \in Nat /\ server \in SessionServer
    BY DEF Inv, SessionInv, ServerOK, SessionServer
<1>4. g > server.acked /\ g # 0 /\ Max(server.got) = g - 1
    BY <1>1, <1>2, <1>3 DEF ServerAcks
<1> DEFINE m == Msg("EventsProcessedAck", g - 1)
           s == [server EXCEPT !.acked = g]
<1>5. server' = s
    <2>1. Max(server.got) + 1 = g
        BY <1>4
    <2> QED
        BY <2>1 DEF ServerAcks
<1>6. net' = Answer(net, c, m) /\ produced' = produced
    BY <1>4 DEF ServerAcks, ServerAnswers, Answer, WithSock
<1>7. m \in Message /\ m.type = "EventsProcessedAck" /\ m.n = g - 1
    BY DEF Message, Msg, DownTypes
<1>8. SessionInv(net, s)
    BY <1>1, <1>3, <1>4, AckedKeeps DEF Inv
<1>9. s.acked = g
    BY <1>3 DEF SessionServer
<1> HIDE DEF m, s
<1>10. m.n < s.acked
    BY <1>7, <1>9
<1>11. SessionInv(net', s) /\ net'.stage = net.stage
    BY <1>6, <1>7, <1>8, <1>10, TellKeeps
<1> QED
    BY <1>5, <1>6, <1>11 DEF Inv, Onward

LEMMA ServerEndsSessionInv ==
    ASSUME Inv, NEW c \in DOMAIN net.socks, ServerEndsSession(c)
    PROVE  Inv' /\ Onward(net.stage, net'.stage)
<1> DEFINE m == Msg("SessionTerminated", 0)
<1>1. m \in Message /\ m.type = "SessionTerminated"
    BY DEF Message, Msg, DownTypes
<1>2. server' = server /\ produced' = produced
    BY DEF ServerEndsSession, ServerReads
<1>3. CASE ServerReads(c, "EndSession") /\ net' = Reply(c, m)
    <2>1. net.socks[c].up # <<>> /\ Head(net.socks[c].up).type # "Event"
        BY <1>3 DEF ServerReads
    <2>2. /\ SessionInv(Heeded(c), server) /\ c \in DOMAIN Heeded(c).socks
          /\ Heeded(c).stage = net.stage
        BY <2>1, HeededKeeps, HeededFields
    <2>3. net' = Answer(Heeded(c), c, m)
        BY <1>3, ReplyIsAnswer
    <2> HIDE DEF m
    <2>4. SessionInv(net', server) /\ net'.stage = net.stage
        BY <1>1, <2>2, <2>3, TellKeeps
    <2> QED
        BY <1>2, <2>4 DEF Inv, Onward
<1>4. CASE ServerAnswers(c, m)
    <2>1. net' = Answer(net, c, m)
        BY <1>4 DEF ServerAnswers, Answer, WithSock
    <2> HIDE DEF m
    <2>2. SessionInv(net', server) /\ net'.stage = net.stage
        BY <1>1, <2>1, TellKeeps DEF Inv
    <2> QED
        BY <1>2, <2>2 DEF Inv, Onward
<1> QED
    BY <1>3, <1>4 DEF ServerEndsSession


-----------------------------------------------------------------------------
(* Sockets end and break. *)

\* Messages that say only that a socket is over.
Ends == {<<Msg("Closed", 0)>>, <<Msg("Error", 0), Msg("Closed", 0)>>}

LEMMA BrokenSocket ==
    ASSUME NEW x \in Socket, NEW kept \in 0..Len(x.down), NEW end \in Ends
    PROVE  /\ Broken(x, kept, end) \in Socket /\ SockCalm(x, Broken(x, kept, end))
           /\ ~Broken(x, kept, end).alive /\ Broken(x, kept, end).up = <<>>
<1> DEFINE d == x.down
           e == SubSeq(d, 1, kept)
           f == e \o end
           y == Broken(x, kept, end)
<1>1. d \in Seq(Message) /\ Len(d) \in Nat /\ kept \in Nat /\ kept <= Len(d)
      /\ x.attempt \in Nat /\ x.open \in BOOLEAN
    BY SocketFields
<1>2. /\ end \in Seq(Message)
      /\ \A i \in DOMAIN end : end[i].type \notin DownCounted
    <2>1. Msg("Closed", 0) \in Message /\ Msg("Error", 0) \in Message
        BY DEF Msg, Message, DownTypes
    <2>2. Msg("Closed", 0).type \notin DownCounted /\ Msg("Error", 0).type \notin DownCounted
        BY DEF Msg, DownCounted
    <2> DEFINE a == Msg("Closed", 0)
               b == Msg("Error", 0)
    <2> HIDE DEF a, b
    <2>3. end \in {<<a>>, <<b, a>>}
        BY DEF Ends, a, b
    <2>4. a \in Message /\ b \in Message /\ a.type \notin DownCounted /\ b.type \notin DownCounted
        BY <2>1, <2>2 DEF a, b
    <2>5. CASE end = <<a>>
        BY <2>4, <2>5
    <2>6. CASE end = <<b, a>>
        BY <2>4, <2>6
    <2> QED
        BY <2>3, <2>5, <2>6
<1>3. /\ e \in Seq(Message) /\ Len(e) = kept /\ \A i \in 1..kept : e[i] = d[i]
    <2> HIDE DEF d
    <2> QED
        BY <1>1, SubSeqProperties
<1> HIDE DEF e
<1>4. /\ f \in Seq(Message) /\ Len(f) = kept + Len(end) /\ Len(end) \in Nat
      /\ \A i \in 1..(kept + Len(end)) : f[i] = IF i <= kept THEN e[i] ELSE end[i - kept]
    <2>1. e \in Seq(Message) /\ end \in Seq(Message)
        BY <1>2, <1>3
    <2>2. /\ f \in Seq(Message) /\ Len(f) = Len(e) + Len(end)
          /\ \A i \in 1..(Len(e) + Len(end)) :
                f[i] = IF i <= Len(e) THEN e[i] ELSE end[i - Len(e)]
        BY <2>1, ConcatProperties
    <2>3. Len(end) \in Nat
        BY <2>1
    <2> HIDE DEF f
    <2> QED
        BY <1>3, <2>2, <2>3
<1>5. /\ y = [x EXCEPT !.alive = FALSE, !.up = <<>>, !.down = f]
      /\ <<>> \in Seq(Message)
    BY DEF Broken, e
<1> HIDE DEF f, y
<1>6. /\ y \in Socket /\ y.alive = FALSE /\ y.up = <<>> /\ y.down = f
      /\ y.attempt = x.attempt /\ y.open = x.open
    BY <1>4, <1>5 DEF Socket
<1>7. DownCalm(d, f)
    <2>1. ASSUME NEW i \in DOMAIN f, f[i].type \in DownCounted
          PROVE  i + 0 \in DOMAIN d /\ f[i] = d[i + 0]
        <3> HIDE DEF d
        <3>1. i \in 1..(kept + Len(end))
            BY <1>4
        <3>2. i <= kept
            <4> SUFFICES ASSUME ~(i <= kept) PROVE FALSE
                OBVIOUS
            <4>1. f[i] = end[i - kept] /\ i - kept \in 1..Len(end)
                BY <1>1, <1>4, <3>1
            <4>2. i - kept \in DOMAIN end
                BY <1>2, <4>1
            <4> QED
                BY <1>2, <2>1, <4>1, <4>2
        <3> QED
            BY <1>1, <1>3, <1>4, <3>1, <3>2
    <2> QED
        BY <2>1 DEF DownCalm
<1> QED
    BY <1>6, <1>7 DEF SockCalm, y

LEMMA ServerSeesCloseInv ==
    ASSUME Inv, NEW c \in DOMAIN net.socks, ServerSeesClose(c)
    PROVE  Inv' /\ Onward(net.stage, net'.stage)
<1> DEFINE x == net.socks[c]
           m == Msg("Closed", 0)
           f == Append(x.down, m)
           y == [x EXCEPT !.alive = FALSE, !.down = f]
<1>1. /\ WellFormed(net) /\ net \in Network /\ x \in Socket /\ x.down \in Seq(Message)
      /\ x.up = <<>> /\ server' = server /\ produced' = produced
    BY SocksOf, SocketFields DEF Inv, SessionInv, WellFormed, ServerSeesClose
<1>2. m \in Message /\ m.type \notin DownCounted
    BY DEF Msg, Message, DownTypes, DownCounted
<1>3. net' = WithSock(net, c, y)
    <2>1. net.socks \in Seq(Socket)
        BY <1>1 DEF Network
    <2> QED
        BY <1>1, <2>1 DEF ServerSeesClose, WithSock, Network
<1> HIDE DEF m
<1>4. /\ f \in Seq(Message) /\ DOMAIN f = 1..(Len(x.down) + 1)
      /\ DOMAIN x.down = 1..Len(x.down) /\ Len(x.down) \in Nat
      /\ f[Len(x.down) + 1] = m /\ \A i \in DOMAIN x.down : f[i] = x.down[i]
    BY <1>1, <1>2, Appended
<1> HIDE DEF f
<1>5. /\ y \in Socket /\ y.alive = FALSE /\ y.up = x.up /\ y.down = f
      /\ y.attempt = x.attempt /\ y.open = x.open
    BY <1>1, <1>4 DEF Socket
<1>6. DownCalm(x.down, f)
    <2>1. ASSUME NEW i \in DOMAIN f, f[i].type \in DownCounted
          PROVE  i + 0 \in DOMAIN x.down /\ f[i] = x.down[i + 0]
        <3>1. i # Len(x.down) + 1
            BY <1>2, <1>4, <2>1
        <3> HIDE DEF x
        <3> QED
            BY <1>4, <3>1
    <2> QED
        BY <2>1 DEF DownCalm
<1> HIDE DEF y
<1>7. Calm(net, net')
    <2>1. SockCalm(x, y)
        BY <1>5, <1>6 DEF SockCalm
    <2> QED
        BY <1>1, <1>3, <1>5, <2>1, SocketCalm
<1> QED
    BY <1>1, <1>7, CalmStep DEF Inv

LEMMA DisconnectInv ==
    ASSUME Inv, NEW c \in DOMAIN net.socks, Disconnect(c)
    PROVE  Inv' /\ Onward(net.stage, net'.stage)
<1>1. PICK kept \in 0..Len(net.socks[c].down), end \in Ends :
          net' = WithSock(net, c, Broken(net.socks[c], kept, end))
    BY DEF Disconnect, Ends, WithSock
<1>2. WellFormed(net) /\ net.socks[c] \in Socket /\ server' = server /\ produced' = produced
    BY SocksOf DEF Inv, SessionInv, WellFormed, Disconnect
<1>3. Calm(net, net')
    BY <1>1, <1>2, BrokenSocket, SocketCalm
<1> QED
    BY <1>2, <1>3, CalmStep DEF Inv

\* When every socket is broken the server may have forgotten what it did not
\* acknowledge.
LEMMA ForgetKeeps ==
    ASSUME NEW k, NEW s, SessionInv(k, s), \A c \in DOMAIN k.socks : ~k.socks[c].alive,
           NEW n \in s.acked..Cardinality(s.got)
    PROVE  SessionInv(k, [s EXCEPT !.got = {m \in @ : m < n}])
<1> DEFINE t == [s EXCEPT !.got = {m \in @ : m < n}]
<1>1. PICK g \in Nat : s.got = 0..(g - 1) /\ s.acked <= g /\ g <= Len(k.events)
    BY DEF SessionInv, ServerOK
<1>2. /\ s \in SessionServer /\ s.acked \in Nat /\ s.conn <= Len(k.socks)
      /\ k \in Network /\ WellFormed(k)
    BY DEF SessionInv, ServerOK, SessionServer, WellFormed
<1>3. n \in Nat /\ s.acked <= n /\ n <= g /\ Len(k.events) \in Nat
    <2>1. Cardinality(s.got) = g
        BY <1>1, LastOf
    <2>2. Len(k.events) \in Nat
        BY <1>2, SocksOf
    <2> QED
        BY <1>2, <2>1, <2>2
<1>4. {m \in s.got : m < n} = 0..(n - 1)
    BY <1>1, <1>3
<1>5. t = [s EXCEPT !.got = 0..(n - 1)]
    BY <1>4
<1>6. 0..(n - 1) \in SUBSET Int
    OBVIOUS
<1> HIDE DEF t
<1>7. t \in SessionServer /\ t.got = 0..(n - 1) /\ t.acked = s.acked /\ t.conn = s.conn
    BY <1>2, <1>5, <1>6 DEF SessionServer
<1>8. \A c \in DOMAIN k.socks : k.socks[c].up = <<>>
    BY <1>2 DEF WellFormed
<1>9. ServerOK(k, t)
    <2>1. n <= Len(k.events)
        BY <1>1, <1>3
    <2> QED
        BY <1>2, <1>3, <1>7, <2>1 DEF ServerOK
<1>10. Stored(k, t)
    BY <1>7 DEF SessionInv, Stored
<1>11. UpOK(k, t)
    BY <1>8 DEF UpOK, InSequence
<1>12. CaughtUp(k, t)
    <2>1. k.proxy # 0 => k.proxy \in DOMAIN k.socks
        BY <1>2, SocksOf DEF WellFormed
    <2> QED
        BY <2>1 DEF CaughtUp
<1>13. AnswerHolds(k, t)
    BY DEF AnswerHolds
<1>14. NotStarted(k, t)
    <2>1. k.stage = "BeforeStarted" => t.got = {}
        BY <1>4, <1>7 DEF SessionInv, NotStarted
    <2> QED
        BY <1>7, <2>1 DEF SessionInv, NotStarted
<1> QED
    BY <1>9, <1>10, <1>11, <1>12, <1>13, <1>14 DEF SessionInv, t

LEMMA ServerRestartsInv ==
    ASSUME Inv, ServerRestarts PROVE Inv' /\ Onward(net.stage, net'.stage)
<1> DEFINE end == <<Msg("Closed", 0)>>
           y(c) == IF net.socks[c].alive
                   THEN Broken(net.socks[c], Len(net.socks[c].down), end) ELSE net.socks[c]
           socks == [c \in DOMAIN net.socks |-> y(c)]
           l == [net EXCEPT !.socks = socks]
<1>1. /\ WellFormed(net) /\ net \in Network /\ Len(net.socks) \in Nat
      /\ DOMAIN net.socks = 1..Len(net.socks)
      /\ \A c \in DOMAIN net.socks : net.socks[c] \in Socket
    BY SocksOf DEF Inv, SessionInv, WellFormed
<1>2. /\ net' = l /\ produced' = produced
      /\ \E n \in server.acked..Cardinality(server.got) :
            server' = [server EXCEPT !.got = {m \in @ : m < n}]
    BY DEF ServerRestarts
<1>3. ASSUME NEW c \in DOMAIN net.socks
      PROVE  y(c) \in Socket /\ SockCalm(net.socks[c], y(c)) /\ ~y(c).alive /\ y(c).up = <<>>
    <2>1. net.socks[c] \in Socket /\ (~net.socks[c].alive => net.socks[c].up = <<>>)
        BY <1>1 DEF WellFormed
    <2>2. Len(net.socks[c].down) \in 0..Len(net.socks[c].down) /\ end \in Ends
        BY <2>1, SocketFields DEF Ends
    <2> HIDE DEF end
    <2> QED
        BY <2>1, <2>2, BrokenSocket, SockCalmSame
<1> HIDE DEF y
<1>4. /\ socks \in Seq(Socket) /\ Len(socks) = Len(net.socks)
      /\ DOMAIN socks = DOMAIN net.socks /\ \A c \in DOMAIN net.socks : socks[c] = y(c)
    <2> DEFINE n == Len(net.socks)
    <2>1. socks = [c \in 1..n |-> y(c)] /\ \A c \in 1..n : y(c) \in Socket
        BY <1>1, <1>3
    <2>2. n \in Nat
        BY <1>1
    <2> HIDE DEF n, socks
    <2>3. socks \in Seq(Socket) /\ Len(socks) = n
        BY <2>1, <2>2
    <2> QED
        BY <1>1, <2>1, <2>3 DEF n
<1> HIDE DEF socks
<1>5. /\ l \in Network /\ l.socks = socks /\ l.stage = net.stage /\ l.winner = net.winner
      /\ l.session = net.session /\ l.proxy = net.proxy
      /\ l.events = net.events /\ l.unacked = net.unacked
      /\ l.first = net.first /\ l.loose = net.loose /\ l.cut = net.cut
      /\ l.idle = net.idle /\ l.connecting = net.connecting /\ l.timers = net.timers
    BY <1>1, <1>4 DEF Network
<1> HIDE DEF l
<1>6. Active(l) = Active(net) /\ Active(net) \in Nat
    BY <1>1, <1>5, SocksOf DEF Active
<1>7. WellFormed(l)
    BY <1>1, <1>3, <1>4, <1>5, <1>6 DEF WellFormed
<1>8. CalmStage(net, l)
    BY <1>5 DEF CalmStage, Onward
<1>9. Calm(net, l)
    BY <1>3, <1>4, <1>5, <1>6, <1>7, <1>8 DEF Calm
<1>10. SessionInv(l, server) /\ Onward(net.stage, l.stage)
    BY <1>9, CalmAfter DEF Inv
<1>11. \A c \in DOMAIN l.socks : ~l.socks[c].alive
    BY <1>3, <1>4, <1>5
<1>12. SessionInv(l, server')
    BY <1>2, <1>10, <1>11, ForgetKeeps
<1> QED
    BY <1>2, <1>10, <1>12 DEF Inv


-----------------------------------------------------------------------------
(* The server takes an event. *)

LEMMA BeforeTaken ==
    ASSUME NEW u \in Seq(Message), u # <<>>, NEW s, NEW t, NEW h, Head(u) = Msg("Event", h),
           s.got \subseteq t.got, h \in t.got, NEW i \in Int, NEW n, Before(u, i + 1, n, s)
    PROVE  Before(Tail(u), i, n, t)
<1>1. /\ DOMAIN u = 1..Len(u) /\ DOMAIN Tail(u) = 1..(Len(u) - 1) /\ Len(u) \in Nat
      /\ \A j \in DOMAIN Tail(u) : Tail(u)[j] = u[j + 1]
      /\ Head(u) = u[1]
    BY Tails
<1> SUFFICES ASSUME n # -1, n \notin t.got PROVE Before(Tail(u), i, n, t)
    BY DEF Before
<1>2. PICK j \in 1..(i + 1 - 1) : j \in DOMAIN u /\ u[j] = Msg("Event", n)
    BY DEF Before
<1>3. j # 1
    BY <1>1, <1>2 DEF Msg
<1>4. j - 1 \in DOMAIN Tail(u) /\ j - 1 \in 1..(i - 1) /\ (j - 1) + 1 = j
    BY <1>1, <1>2, <1>3
<1>5. Tail(u)[j - 1] = Msg("Event", n)
    BY <1>1, <1>2, <1>4
<1> QED
    BY <1>4, <1>5 DEF Before

LEMMA ServerProcessesEventInv ==
    ASSUME Inv, NEW c \in DOMAIN net.socks, ServerProcessesEvent(c)
    PROVE  Inv' /\ Onward(net.stage, net'.stage)
<1> DEFINE u == net.socks[c].up
           h == Head(u).n
           k == Heeded(c)
           s == server'
           n == Len(net.events)
<1>1. /\ u # <<>> /\ Head(u).type = "Event" /\ net' = k /\ produced' = produced
      /\ s = IF c < server.conn THEN server ELSE [server EXCEPT !.got = @ \cup {h}]
    BY DEF ServerProcessesEvent, ServerReads, Heeded, WithSock
<1>2. /\ u \in Seq(Message) /\ Head(u) = u[1] /\ 1 \in DOMAIN u /\ Head(u) \in Message
      /\ DOMAIN u = 1..Len(u) /\ DOMAIN Tail(u) = 1..(Len(u) - 1)
      /\ Len(u) \in Nat \ {0} /\ Len(Tail(u)) = Len(u) - 1
      /\ \A i \in DOMAIN Tail(u) : i + 1 \in DOMAIN u /\ Tail(u)[i] = u[i + 1]
    BY <1>1, FirstMessage
<1>3. Head(u) = Msg("Event", h) /\ h \in Int
    BY <1>1, <1>2 DEF Message, Msg
<1>4. /\ k \in Network /\ DOMAIN k.socks = DOMAIN net.socks /\ Len(k.socks) = Len(net.socks)
      /\ k.socks[c].up = Tail(u) /\ k.socks[c].down = net.socks[c].down
      /\ k.socks[c].alive = net.socks[c].alive /\ k.socks[c].open = net.socks[c].open
      /\ k.socks[c].attempt = net.socks[c].attempt /\ net.socks[c].alive
      /\ \A d \in DOMAIN net.socks \ {c} : k.socks[d] = net.socks[d]
      /\ k.stage = net.stage /\ k.winner = net.winner
      /\ k.session = net.session /\ k.proxy = net.proxy
      /\ k.events = net.events /\ k.unacked = net.unacked
      /\ Active(k) = Active(net) /\ (Quiet(k) <=> Quiet(net))
    BY <1>1, HeededFields
<1>5. \A d \in DOMAIN net.socks :
        /\ k.socks[d].down = net.socks[d].down /\ k.socks[d].alive = net.socks[d].alive
        /\ k.socks[d].open = net.socks[d].open /\ k.socks[d].attempt = net.socks[d].attempt
        /\ \A i \in DOMAIN k.socks[d].up :
              \E j \in DOMAIN net.socks[d].up : net.socks[d].up[j] = k.socks[d].up[i]
    <2>1. \A i \in DOMAIN k.socks[c].up : \E j \in DOMAIN u : u[j] = k.socks[c].up[i]
        BY <1>2, <1>4
    <2> HIDE DEF k
    <2> SUFFICES ASSUME NEW d \in DOMAIN net.socks
                 PROVE  <1>5!(d)
        OBVIOUS
    <2>2. CASE d = c
        BY <1>4, <2>1, <2>2
    <2>3. CASE d # c
        <3>1. k.socks[d] = net.socks[d]
            BY <1>4, <2>3
        <3> QED
            BY <3>1
    <2> QED
        BY <2>2, <2>3
<1> HIDE DEF k
<1>6. /\ WellFormed(net) /\ net \in Network /\ server \in SessionServer /\ server.conn \in Nat
      /\ server.conn <= Len(net.socks) /\ Len(net.socks) \in Nat /\ n \in Nat
      /\ DOMAIN net.socks = 1..Len(net.socks) /\ c \in Nat
    BY SocksOf DEF Inv, SessionInv, WellFormed, ServerOK, SessionServer
<1>7. PICK g \in Nat : server.got = 0..(g - 1) /\ server.acked <= g /\ g <= n
    BY DEF Inv, SessionInv, ServerOK
<1>8. c >= server.conn => h \in 0..(n - 1) /\ h <= g
    <2> SUFFICES ASSUME c >= server.conn PROVE h \in 0..(n - 1) /\ h <= g
        OBVIOUS
    <2>1. u[1].n \in 0..(n - 1) /\ Before(u, 1, u[1].n - 1, server)
        BY <1>1, <1>2 DEF Inv, SessionInv, UpOK, InSequence
    <2>2. h - 1 = -1 \/ h - 1 \in server.got
        BY <1>2, <2>1 DEF Before
    <2> QED
        BY <1>2, <1>3, <1>7, <2>1, <2>2
<1>9. /\ s \in SessionServer /\ s.acked = server.acked /\ s.conn = server.conn
      /\ s.got = IF c < server.conn THEN server.got ELSE server.got \cup {h}
    <2>1. server.got \cup {h} \in SUBSET Int
        BY <1>3, <1>6 DEF SessionServer
    <2> HIDE DEF h
    <2> QED
        BY <1>1, <1>6, <2>1 DEF SessionServer
<1>10. server.got \subseteq s.got /\ (c >= server.conn => h \in s.got)
    BY <1>6, <1>9
<1> HIDE DEF s
<1>11. ServerOK(k, s)
    <2>1. CASE s.got = server.got
        BY <1>4, <1>6, <1>7, <1>9, <2>1 DEF ServerOK
    <2>2. CASE s.got # server.got
        <3>1. s.got = server.got \cup {h} /\ h \in 0..(n - 1) /\ h <= g /\ h \notin server.got
            <4>1. ~(c < server.conn)
                BY <1>9, <2>2
            <4>2. c >= server.conn
                BY <1>6, <4>1
            <4> QED
                BY <1>8, <1>9, <2>2, <4>1, <4>2
        <3> HIDE DEF h, n
        <3>2. h = g /\ g + 1 \in Nat /\ g + 1 <= n
            BY <1>6, <1>7, <3>1
        <3>3. s.got = 0..((g + 1) - 1)
            BY <1>7, <3>1, <3>2
        <3>4. s.acked <= g + 1
            <4>1. server.acked \in Nat
                BY <1>6 DEF SessionServer
            <4> QED
                BY <1>7, <1>9, <4>1
        <3> QED
            BY <1>4, <1>6, <1>9, <3>2, <3>3, <3>4 DEF ServerOK, n
    <2> QED
        BY <2>1, <2>2
<1>12. WellFormed(k)
    <2>1. \A d \in DOMAIN k.socks : ~k.socks[d].alive => k.socks[d].up = <<>>
        BY <1>4, <1>6 DEF WellFormed
    <2> QED
        BY <1>4, <1>6, <2>1 DEF WellFormed, Quiet
<1>13. Stored(k, s)
    BY <1>4, <1>5, <1>9 DEF Inv, SessionInv, Stored
<1>14. ASSUME NEW d \in DOMAIN net.socks \ {c}, NEW i, NEW p,
              Before(net.socks[d].up, i, p, server)
       PROVE  Before(k.socks[d].up, i, p, s)
    BY <1>4, <1>10, <1>14 DEF Before
<1>15. ASSUME c >= server.conn, NEW i \in Int, NEW p, Before(u, i + 1, p, server)
       PROVE  Before(k.socks[c].up, i, p, s)
    <2> HIDE DEF u, h
    <2>1. Before(Tail(u), i, p, s)
        BY <1>1, <1>2, <1>3, <1>10, <1>15, BeforeTaken
    <2> QED
        BY <1>4, <2>1
<1>16. UpOK(k, s)
    <2>1. ASSUME NEW d \in DOMAIN k.socks, d >= s.conn, NEW i \in DOMAIN k.socks[d].up,
                 k.socks[d].up[i].type = "Event"
          PROVE  /\ k.socks[d].up[i].n \in 0..(Len(k.events) - 1)
                 /\ Before(k.socks[d].up, i, k.socks[d].up[i].n - 1, s)
        <3>1. CASE d = c
            <4>1. /\ i + 1 \in DOMAIN u /\ k.socks[c].up[i] = u[i + 1] /\ i \in Int
                  /\ u[i + 1].type = "Event"
                <5>1. i \in DOMAIN Tail(u) /\ k.socks[c].up[i] = Tail(u)[i]
                    BY <1>4, <2>1, <3>1
                <5>2. i \in Int /\ i + 1 \in DOMAIN u /\ Tail(u)[i] = u[i + 1]
                    BY <1>2, <5>1
                <5> QED
                    BY <2>1, <3>1, <5>1, <5>2
            <4>2. u[i + 1].n \in 0..(n - 1) /\ Before(u, i + 1, u[i + 1].n - 1, server)
                BY <1>9, <2>1, <3>1, <4>1 DEF Inv, SessionInv, UpOK, InSequence
            <4> QED
                BY <1>4, <1>9, <1>15, <2>1, <3>1, <4>1, <4>2
        <3>2. CASE d # c
            <4>1. k.socks[d] = net.socks[d]
                BY <1>4, <3>2
            <4>2. /\ net.socks[d].up[i].n \in 0..(n - 1)
                  /\ Before(net.socks[d].up, i, net.socks[d].up[i].n - 1, server)
                BY <1>4, <1>9, <2>1, <4>1 DEF Inv, SessionInv, UpOK, InSequence
            <4> QED
                BY <1>4, <1>14, <3>2, <4>1, <4>2
        <3> QED
            BY <3>1, <3>2
    <2> QED
        BY <2>1 DEF UpOK, InSequence
<1>17. CaughtUp(k, s)
    <2> SUFFICES ASSUME k.stage = "StartedSuccessfully", k.proxy # 0,
                        k.socks[k.proxy].open, k.socks[k.proxy].alive
                 PROVE  Before(k.socks[k.proxy].up, Len(k.socks[k.proxy].up) + 1,
                               Len(k.events) - 1, s)
        BY DEF CaughtUp
    <2>1. k.proxy = Len(net.socks) /\ k.proxy \in DOMAIN net.socks
        BY <1>4, <1>6 DEF WellFormed
    <2>2. Before(net.socks[k.proxy].up, Len(net.socks[k.proxy].up) + 1, n - 1, server)
        BY <1>4, <1>5, <2>1 DEF Inv, SessionInv, CaughtUp
    <2>3. CASE k.proxy = c
        <3>1. c >= server.conn /\ Len(k.socks[c].up) + 1 = Len(u) /\ Len(u) \in Int
            BY <1>2, <1>4, <1>6, <2>1, <2>3
        <3> QED
            BY <1>4, <1>15, <2>2, <2>3, <3>1
    <2>4. CASE k.proxy # c
        BY <1>4, <1>14, <2>1, <2>2, <2>4
    <2> QED
        BY <2>3, <2>4
<1>18. ASSUME NEW d \in DOMAIN net.socks
       PROVE  AskedOnce(k.socks[d]) /\ (Waits(k.socks[d]) => Waits(net.socks[d]))
    <2>1. AskedOnce(net.socks[d])
        BY DEF Inv, SessionInv, OneReconnect
    <2>2. CASE d # c
        BY <1>4, <2>1, <2>2
    <2>3. CASE d = c
        <3>1. Asking(k.socks[c]) => Asking(net.socks[c])
            BY <1>5 DEF Asking
        <3>2. Answered(k.socks[c]) <=> Answered(net.socks[c])
            BY <1>4 DEF Answered
        <3>3. ASSUME NEW i \in DOMAIN k.socks[c].up, NEW j \in DOMAIN k.socks[c].up,
                     k.socks[c].up[i].type = "Reconnect", k.socks[c].up[j].type = "Reconnect"
              PROVE  i = j
            <4>1. i + 1 = j + 1
                BY <1>2, <1>4, <2>1, <2>3, <3>3 DEF AskedOnce
            <4>2. i \in Int /\ j \in Int
                BY <1>2, <1>4
            <4> QED
                BY <4>1, <4>2
        <3>4. AskedOnce(k.socks[c])
            <4>1. /\ Asking(net.socks[c]) => ~Answered(net.socks[c])
                  /\ \A i, j \in DOMAIN net.socks[c].down :
                        /\ net.socks[c].down[i].type = "SessionReconnected"
                        /\ net.socks[c].down[j].type = "SessionReconnected"
                        => i = j
                BY <2>1, <2>3 DEF AskedOnce
            <4>2. Asking(k.socks[c]) => ~Answered(k.socks[c])
                BY <3>1, <3>2, <4>1
            <4> QED
                BY <1>4, <3>3, <4>1, <4>2 DEF AskedOnce
        <3> QED
            BY <2>3, <3>1, <3>2, <3>4 DEF Waits
    <2> QED
        BY <2>2, <2>3
<1>19. OneReconnect(k)
    BY <1>4, <1>18 DEF Inv, SessionInv, OneReconnect
<1>20. AnswerHolds(k, s)
    <2> SUFFICES ASSUME k.stage = "Reconnecting", NEW d \in DOMAIN net.socks,
                        k.socks[d].alive, Waits(k.socks[d])
                 PROVE  /\ \A i \in DOMAIN k.socks[d].up : k.socks[d].up[i].type # "Event"
                        /\ \A i \in DOMAIN k.socks[d].down :
                              k.socks[d].down[i].type = "SessionReconnected" =>
                                  s.conn = d /\ s.got = 0..k.socks[d].down[i].n
                                  /\ k.socks[d].down[i].n >= -1
        BY <1>4 DEF AnswerHolds
    <2>1. /\ \A i \in DOMAIN net.socks[d].up : net.socks[d].up[i].type # "Event"
          /\ \A i \in DOMAIN net.socks[d].down :
                net.socks[d].down[i].type = "SessionReconnected" =>
                    server.conn = d /\ server.got = 0..net.socks[d].down[i].n
                    /\ net.socks[d].down[i].n >= -1
        BY <1>4, <1>5, <1>18 DEF Inv, SessionInv, AnswerHolds
    <2>2. d # c /\ d = Len(net.socks)
        BY <1>1, <1>2, <1>4, <1>18, <2>1 DEF Inv, SessionInv, OneReconnect
    <2>3. c < d /\ c \in Nat /\ d \in Nat
        BY <1>6, <2>2
    <2>4. server.conn = d => s.got = server.got
        BY <1>9, <2>3
    <2>5. k.socks[d] = net.socks[d]
        BY <1>4, <2>2
    <2>6. s.conn = server.conn
        BY <1>9
    <2> QED
        BY <2>1, <2>4, <2>5, <2>6
<1>21. NotStarted(k, s)
    <2>1. net.stage # "BeforeStarted"
        BY <1>1, <1>2 DEF Inv, SessionInv, NotStarted
    <2> QED
        BY <1>4, <2>1 DEF NotStarted
<1>22. Named(k)
    BY <1>4, <1>5 DEF Inv, SessionInv, Named
<1>23. SessionInv(k, s)
    BY <1>11, <1>12, <1>13, <1>16, <1>17, <1>19, <1>20, <1>21, <1>22 DEF SessionInv
<1> QED
    BY <1>1, <1>4, <1>23 DEF Inv, Onward, s


-----------------------------------------------------------------------------
(* The whole. *)

LEMMA ServerInv ==
    ASSUME Inv, NEW c \in DOMAIN net.socks, Server(c) \/ Disconnect(c)
    PROVE  Inv' /\ Onward(net.stage, net'.stage)
BY RepliesInv, ServerResumesSessionInv, ServerProcessesEventInv, ServerAcksInv,
   ServerEndsSessionInv, ServerSeesCloseInv, DisconnectInv DEF Server

LEMMA InitInv ==
    ASSUME Init PROVE Inv
<1>1. PICK scrollback \in 0..MaxScrollback : net = NewNetwork(scrollback)
    BY DEF Init
<1>2. /\ scrollback \in Nat /\ MaxAttempts \in Nat
      /\ (IF MaxAttempts > 1 THEN {1} ELSE {}) \in SUBSET Nat
    BY BoundsAssumption
<1>3. <<>> \in Seq(Seq(Nat)) /\ <<>> \in Seq(Nat) /\ <<>> \in Seq(Socket)
    OBVIOUS
<1>4. /\ net \in Network /\ net.stage = "BeforeStarted" /\ net.session = 0 /\ net.winner = 0
      /\ net.proxy = 0 /\ net.events = <<>> /\ net.unacked = {} /\ net.socks = <<>>
      /\ net.first = FALSE /\ net.loose = 0 /\ net.cut = 0
    BY <1>1, <1>2, <1>3 DEF NewNetwork, Network, Stages
<1>5. /\ server \in SessionServer /\ server.got = {} /\ server.acked = 0 /\ server.conn = 0
      /\ produced = 0
    BY DEF Init, SessionServer
<1>6. /\ DOMAIN net.socks = {} /\ Len(net.socks) = 0 /\ Len(net.events) = 0
      /\ Active(net) = 0 /\ 0..(0 - 1) = {}
    BY <1>4 DEF Active
<1>7. WellFormed(net) /\ Stored(net, server) /\ UpOK(net, server) /\ CaughtUp(net, server)
    BY <1>4, <1>5, <1>6 DEF WellFormed, Stored, UpOK, CaughtUp
<1>8. ServerOK(net, server)
    <2>1. server.got = 0..(0 - 1) /\ 0 \in Nat /\ server.acked <= 0 /\ 0 <= Len(net.events)
          /\ server.conn <= Len(net.socks)
        BY <1>5, <1>6
    <2> QED
        BY <1>5, <2>1 DEF ServerOK
<1>9. OneReconnect(net) /\ AnswerHolds(net, server) /\ NotStarted(net, server) /\ Named(net)
    BY <1>4, <1>5, <1>6 DEF OneReconnect, AnswerHolds, NotStarted, Named
<1> QED
    BY <1>5, <1>7, <1>8, <1>9 DEF Inv, SessionInv

LEMMA NextInv ==
    ASSUME Inv, [Next]_vars PROVE Inv' /\ Onward(net.stage, net'.stage)
<1>1. CASE UNCHANGED <<net, produced, server>>
    <2>1. net' = net /\ produced' = produced /\ server' = server
        BY <1>1
    <2> QED
        BY <2>1 DEF Inv, Onward
<1>2. CASE PtyBytesRead
    BY <1>2, PtyBytesReadInv
<1>3. CASE OtherEvent \/ BatchTimer
    BY <1>3, OutputInv
<1>4. CASE StopSharing
    BY <1>4, StopSharingInv
<1>5. ASSUME NEW a \in 1..MaxAttempts,
             StartupConnects(a) \/ StartupConnectFails(a) \/ StartupTimeout(a)
      PROVE  Inv' /\ Onward(net.stage, net'.stage)
    <2>1. a \in Nat \ {0}
        BY BoundsAssumption
    <2> QED
        BY <1>5, <2>1, StartupConnectsInv, StartupFailsInv
<1>6. CASE HeartbeatIdle
    BY <1>6, HeartbeatIdleInv
<1>7. CASE ReconnectConnects \/ ReconnectTryFails
    BY <1>7, ReconnectConnectsInv, ReconnectTryFailsInv
<1>8. CASE ReconnectGivesUp \/ AbortedReconnectEnds
    BY <1>8, ReconnectEndsInv
<1>9. ASSUME NEW c \in DOMAIN net.socks, Receive(c) \/ Server(c) \/ Disconnect(c)
      PROVE  Inv' /\ Onward(net.stage, net'.stage)
    BY <1>9, ReceiveInv, ServerInv
<1>10. CASE ServerRestarts
    BY <1>10, ServerRestartsInv
<1>11. CASE ViewerJoins \/ \E n \in server.got : ViewerReceives(n)
    <2>1. UNCHANGED <<net, produced, server>>
        BY <1>11 DEF ViewerJoins, ViewerReceives
    <2> QED
        BY <1>1, <2>1
<1>12. CASE UNCHANGED vars
    <2>1. UNCHANGED <<net, produced, server>>
        BY <1>12 DEF vars
    <2> QED
        BY <1>1, <2>1
<1> QED
    BY <1>2, <1>3, <1>4, <1>5, <1>6, <1>7, <1>8, <1>9, <1>10, <1>11, <1>12 DEF Next

LEMMA Invariance == Spec => []Inv
<1>1. Init => Inv
    BY InitInv
<1>2. Inv /\ [Next]_vars => Inv'
    BY NextInv
<1> QED
    BY <1>1, <1>2, PTL DEF Spec

\* However often the connection is lost, replaced or resumed, and whatever the
\* server forgets in between, what it has of the session is the events up to some
\* number (flush_terminal_events_to_server, SessionReconnected).
THEOREM NoHole == Spec => []ServerHasAPrefix
<1>1. Inv => ServerHasAPrefix
    <2> SUFFICES ASSUME Inv PROVE ServerHasAPrefix
        OBVIOUS
    <2>1. PICK g \in Nat : server.got = 0..(g - 1)
        BY DEF Inv, SessionInv, ServerOK
    <2>2. Cardinality(server.got) = g
        BY <2>1, LastOf
    <2> QED
        BY <2>1, <2>2 DEF ServerHasAPrefix
<1> QED
    BY <1>1, Invariance, PTL

\* An event that the server has not acknowledged is still stored, so it can be
\* sent again (send_message_to_server, EventsProcessedAck).
THEOREM NothingIsLetGo == Spec => []KeptUntilAcked
<1>1. Inv => KeptUntilAcked
    BY DEF Inv, SessionInv, Stored, KeptUntilAcked
<1> QED
    BY <1>1, Invariance, PTL

\* Late answers to earlier startup attempts never name the session
\* (should_ignore_startup_attempt_websocket_callback).
THEOREM NamedByItsSocket == Spec => []SessionIsOfTheWinner
<1>1. Inv => SessionIsOfTheWinner
    BY DEF Inv, SessionInv, Named, SessionIsOfTheWinner
<1> QED
    BY <1>1, Invariance, PTL

\* No callback revives a session that is over (process_websocket_message,
\* reconnect_websocket).
THEOREM OverIsOver == Spec => FinishedIsFinal
<1>1. Inv /\ [Next]_vars =>
        [/\ net.stage = "Finished" => net'.stage \in {"Finished", "Dropped"}
         /\ net.stage = "Dropped" => net'.stage = "Dropped"]_vars
    BY NextInv DEF Onward
<1> QED
    BY <1>1, Invariance, PTL DEF Spec, FinishedIsFinal
==============================================================================
