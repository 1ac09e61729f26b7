----------------------------- MODULE ProxyProofs ----------------------------
(***************************************************************************)
(* Proofs about ProxyDaemon, for any applications, ports, routes, control  *)
(* connections and numbers of requests and outages, as long as the         *)
(* applications are finitely many and the Proxy objects enough for them.   *)
(*                                                                         *)
(* The routes are opaque: nothing here depends on what SetTarget and       *)
(* reconcileBackends make of them, only on where they are kept.  The       *)
(* invariant says who may hold a Proxy (OwnProxy), what a handler knows    *)
(* while it has the daemon to itself (Alone), what the file lacks          *)
(* (FileKnown), and what the file has to keep for a restart (Owed).        *)
(***************************************************************************)
EXTENDS ProxyDaemon, FiniteSetTheorems, TLAPS

USE AppsAssumption, ProxiesAssumption

\* What a Proxy object and a connection consist of, and which objects there are.
ObjFields == {"port", "route", "open", "serving", "missed"}
ConnFields == {"pc", "req", "px", "old", "snap", "alone"}

Shapes ==
  /\ DOMAIN proxies = Apps /\ DOMAIN objs = Px /\ DOMAIN conn = Conns
  /\ \A p \in Px : DOMAIN objs[p] = ObjFields
  /\ \A c \in Conns : DOMAIN conn[c] = ConnFields /\ conn[c].alone \in BOOLEAN
  /\ \A c \in Conns : /\ conn[c].pc # "idle" => conn[c].req.app \in Apps
                      /\ conn[c].pc = "idle" => ~conn[c].alone
                      /\ conn[c].pc \in {"swap", "install"} => conn[c].px \in Px
                      /\ conn[c].pc = "retire" => conn[c].old \in Px
  /\ \A a \in Apps : proxies[a] \in Px \cup {0}
  /\ daemon \in {"up", "closing", "down"} /\ settled \in BOOLEAN

\* A daemon that is down has no state but its file.
DownEmpty ==
  daemon = "down" => /\ \A a \in Apps : proxies[a] = 0
                     /\ \A p \in Px : ~objs[p].open
                     /\ Busy = {}

\* A Proxy is in the table once; one to be installed is in nobody else's hands.
OwnProxy ==
  /\ \A a, b \in Apps : proxies[a] = proxies[b] /\ proxies[a] # 0 => a = b
  /\ \A c \in Conns : conn[c].pc = "install" =>
       /\ \A a \in Apps : proxies[a] # conn[c].px
       /\ \A d \in Conns : d # c /\ conn[d].pc = "install" => conn[d].px # conn[c].px

\* A handler that is alone has the daemon to itself.
Alone ==
  \A c \in Conns : conn[c].alone =>
    /\ Busy = {c}
    /\ conn[c].pc = "swap" => proxies[conn[c].req.app] = conn[c].px
    /\ conn[c].pc = "write" => conn[c].snap = Routing

Lone == {c \in Conns : conn[c].alone}

\* The handlers whose request has taken effect and is not in the file yet.
Unwritten(c) == conn[c].pc \in {"retire", "snapshot", "write"}

\* While nothing is to be made up for, the file lacks at most the effect of the
\* one request under way.
FileKnown ==
  daemon = "up" /\ settled =>
    /\ Busy \subseteq Lone
    /\ \A a \in Apps : \/ file[a] = Routing[a]
                       \/ \E c \in Conns : Unwritten(c) /\ conn[c].req.app = a

\* What a restart is expected to bring back is in the file until then.
Owed ==
  \A a \in Apps : before[a] # NoApp =>
    /\ daemon = "up" => Busy = {}
    /\ daemon # "up" => file[a] = before[a]
    /\ daemon = "closing" => /\ Routing[a] = before[a] /\ a \notin BusyApps
                             /\ Busy \subseteq Lone

\* What a restart is expected to bring back comes back, with its recorded backends
\* reconciled, unless its port is taken.
BroughtBack ==
  daemon = "up" =>
    \A a \in Apps : before[a] # NoApp =>
      \/ /\ proxies[a] = 0
         /\ \/ before[a].port \in foreign
            \/ \E b \in Apps : Routing[b].port = before[a].port
      \/ /\ proxies[a] # 0
         /\ Routing[a] = [port |-> before[a].port, route |-> Reconcile(before[a].route)]

Inv == /\ Shapes /\ DownEmpty /\ OwnProxy /\ Alone
       /\ FileKnown /\ ListenersAccounted /\ Owed /\ BroughtBack

-----------------------------------------------------------------------------

\* A set of numbers that is not empty has a least element.
LEMMA LeastExists ==
  ASSUME NEW S, S \subseteq Nat, S # {}
  PROVE  \E q \in S : \A o \in S : q <= o
<1>1. PICK q \in S : \A o \in S : ~(<<o, q>> \in OpToRel(<, Nat))
  BY NatLessThanWellFounded, WFMin
<1>2. \A o \in S : ~(o < q)
  BY <1>1 DEF OpToRel
<1> QED
  BY <1>2

-----------------------------------------------------------------------------
(* What a step of one handler leaves alone.                                *)

\* The handler goes on, or replies; the others stay where they are.
OnlyHandler(c) ==
  /\ conn[c].pc # "idle" /\ daemon # "down"
  /\ DOMAIN conn' = Conns /\ DOMAIN conn'[c] = ConnFields
  /\ \A d \in Conns : d # c => conn'[d] = conn[d]
  /\ UNCHANGED <<daemon, foreign, reach, before>>

Stays(c) ==
  /\ OnlyHandler(c)
  /\ conn'[c].pc # "idle"
  /\ conn'[c].req = conn[c].req /\ conn'[c].alone = conn[c].alone

Leaves(c) == OnlyHandler(c) /\ conn'[c].pc = "idle" /\ conn'[c].alone = FALSE

\* Who is busy, and who is alone, after a step of a handler.
LEMMA BusyAfter ==
  ASSUME Shapes, NEW c \in Conns
  PROVE  /\ Stays(c) => Busy' = Busy /\ Lone' = Lone /\ BusyApps' = BusyApps
         /\ Leaves(c) => /\ Busy' = Busy \ {c} /\ Lone' = Lone \ {c}
                         /\ BusyApps' \subseteq BusyApps
<1>1. ASSUME Stays(c)
      PROVE  Busy' = Busy /\ Lone' = Lone /\ BusyApps' = BusyApps
  <2>1. Busy' = Busy
    BY <1>1 DEF Stays, OnlyHandler, Busy
  <2>2. Lone' = Lone
    BY <1>1 DEF Stays, OnlyHandler, Lone
  <2>3. \A d \in Busy : conn'[d].req = conn[d].req
    BY <1>1 DEF Stays, OnlyHandler, Busy
  <2> QED
    BY <2>1, <2>2, <2>3 DEF BusyApps
<1>2. ASSUME Leaves(c)
      PROVE  /\ Busy' = Busy \ {c} /\ Lone' = Lone \ {c}
             /\ BusyApps' \subseteq BusyApps
  <2>1. Busy' = Busy \ {c}
    BY <1>2 DEF Leaves, OnlyHandler, Busy
  <2>2. Lone' = Lone \ {c}
    BY <1>2 DEF Leaves, OnlyHandler, Lone
  <2>3. \A d \in Busy' : conn'[d].req = conn[d].req
    BY <1>2, <2>1 DEF Leaves, OnlyHandler, Busy
  <2> QED
    BY <2>1, <2>2, <2>3 DEF BusyApps
<1> QED
  BY <1>1, <1>2

\* While a handler is at work, nothing is owed by an earlier restart.
LEMMA HandlerOwesNothing ==
  ASSUME Inv, NEW c \in Conns, Stays(c) \/ Leaves(c)
  PROVE  /\ DownEmpty' /\ BroughtBack'
         /\ daemon = "up" => \A a \in Apps : before[a] = NoApp
<1>1. c \in Busy /\ UNCHANGED <<daemon, before>> /\ daemon # "down"
  BY DEF Stays, Leaves, OnlyHandler, Busy
<1>2. daemon = "up" => \A a \in Apps : before[a] = NoApp
  BY <1>1 DEF Inv, Owed
<1>3. DownEmpty'
  BY <1>1 DEF DownEmpty
<1>4. BroughtBack'
  BY <1>1, <1>2 DEF BroughtBack
<1> QED
  BY <1>2, <1>3, <1>4

\* The table and what it points to decide over the routing.
LEMMA RoutingOf ==
  /\ \A a \in Apps : Routing[a] = IF proxies[a] = 0 THEN NoApp
                                  ELSE [port |-> objs[proxies[a]].port,
                                        route |-> objs[proxies[a]].route]
  /\ DOMAIN Routing = Apps
BY DEF Routing

\* The routing is the same when the table is, and the ports and routes in it are.
LEMMA RoutingKept ==
  ASSUME \A a \in Apps : proxies'[a] = proxies[a],
         \A a \in Apps : proxies[a] # 0 => /\ objs'[proxies[a]].port = objs[proxies[a]].port
                                          /\ objs'[proxies[a]].route = objs[proxies[a]].route
  PROVE  Routing' = Routing
BY DEF Routing

-----------------------------------------------------------------------------
(* Alone, FileKnown and Owed after a step of a handler.                    *)

Followed == Alone /\ FileKnown /\ Owed /\ DownEmpty /\ BroughtBack

\* A step that changes nothing the file describes.
LEMMA KeepsRouting ==
  ASSUME Inv, NEW c \in Conns, Stays(c) \/ Leaves(c),
         Routing' = Routing, proxies' = proxies, file' = file, settled' = settled,
         Unwritten(c) => Stays(c) /\ Unwritten(c)',
         conn'[c].pc = "swap" => proxies[conn[c].req.app] = conn'[c].px,
         conn'[c].pc = "write" => conn'[c].snap = Routing
  PROVE  Followed'
<1>1. /\ \A d \in Conns : d # c => conn'[d] = conn[d]
      /\ conn[c].pc # "idle" /\ c \in Busy
      /\ UNCHANGED <<daemon, before>> /\ daemon # "down"
  BY DEF Stays, Leaves, OnlyHandler, Busy
<1>2. Shapes /\ Alone /\ FileKnown /\ Owed
  BY DEF Inv
<1>3. /\ Busy' \subseteq Busy /\ Lone' \subseteq Lone /\ BusyApps' \subseteq BusyApps
      /\ Busy \subseteq Lone => Busy' \subseteq Lone'
      /\ Stays(c) => Busy' = Busy /\ Lone' = Lone
  BY <1>2, BusyAfter
<1>4. \A d \in Lone : d = c /\ Busy = {c}
  BY <1>1, <1>2 DEF Alone, Lone
<1>5. Alone'
  <2>1. SUFFICES ASSUME NEW d \in Conns, conn'[d].alone
                 PROVE  /\ Busy' = {d}
                        /\ conn'[d].pc = "swap" => proxies'[conn'[d].req.app] = conn'[d].px
                        /\ conn'[d].pc = "write" => conn'[d].snap = Routing'
    BY DEF Alone
  <2>2. d \in Lone'
    BY <2>1 DEF Lone
  <2>3. d = c /\ Busy = {c}
    BY <1>3, <1>4, <2>2
  <2>4. Stays(c)
    BY <2>1, <2>3 DEF Leaves
  <2> QED
    BY <1>3, <2>3, <2>4 DEF Stays
<1>6. FileKnown'
  <2>1. SUFFICES ASSUME daemon = "up", settled
                 PROVE  /\ Busy' \subseteq Lone'
                        /\ \A a \in Apps : \/ file[a] = Routing[a]
                                           \/ \E d \in Conns : Unwritten(d)' /\ conn'[d].req.app = a
    BY <1>1 DEF FileKnown
  <2>2. Busy \subseteq Lone
    BY <1>2, <2>1 DEF FileKnown
  <2>3. ASSUME NEW d \in Conns, Unwritten(d)
        PROVE  Unwritten(d)' /\ conn'[d].req.app = conn[d].req.app
    <3>1. CASE d = c
      BY <2>3, <3>1 DEF Stays
    <3>2. CASE d # c
      BY <1>1, <2>3, <3>2 DEF Unwritten
    <3> QED
      BY <3>1, <3>2
  <2> QED
    BY <1>2, <1>3, <2>1, <2>2, <2>3 DEF FileKnown
<1>7. Owed'
  BY <1>1, <1>2, <1>3, HandlerOwesNothing DEF Owed
<1> QED
  BY <1>5, <1>6, <1>7, HandlerOwesNothing DEF Followed

\* A step that changes the routing of the handler's application only, as far as
\* the handler is alone.
LEMMA ChangesRouting ==
  ASSUME Inv, NEW c \in Conns, Stays(c),
         conn[c].alone => \A a \in Apps : a # conn[c].req.app => Routing'[a] = Routing[a],
         file' = file, settled' = settled,
         conn'[c].pc \in {"retire", "snapshot"}
  PROVE  Followed'
<1>1. /\ \A d \in Conns : d # c => conn'[d] = conn[d]
      /\ conn[c].pc # "idle" /\ c \in Busy
      /\ conn'[c].req = conn[c].req
      /\ UNCHANGED <<daemon, before>> /\ daemon # "down"
  BY DEF Stays, OnlyHandler, Busy
<1>2. Shapes /\ Alone /\ FileKnown /\ Owed
  BY DEF Inv
<1>3. Busy' = Busy /\ Lone' = Lone /\ BusyApps' = BusyApps
  BY <1>2, BusyAfter
<1>4. \A d \in Lone : d = c /\ Busy = {c}
  BY <1>1, <1>2 DEF Alone, Lone
<1>5. Alone'
  <2>1. SUFFICES ASSUME NEW d \in Conns, conn'[d].alone
                 PROVE  Busy' = {d} /\ conn'[d].pc \notin {"swap", "write"}
    BY DEF Alone
  <2>2. d \in Lone'
    BY <2>1 DEF Lone
  <2> QED
    BY <1>3, <1>4, <2>2
<1>6. c \in Lone => conn[c].alone
  BY DEF Lone
<1>7. FileKnown'
  <2>1. SUFFICES ASSUME daemon = "up", settled
                 PROVE  /\ Busy' \subseteq Lone'
                        /\ \A a \in Apps : \/ file[a] = Routing'[a]
                                           \/ \E d \in Conns : Unwritten(d)' /\ conn'[d].req.app = a
    BY <1>1 DEF FileKnown
  <2>2. Busy \subseteq Lone
    BY <1>2, <2>1 DEF FileKnown
  <2>3. Unwritten(c)' /\ \A d \in Conns : Unwritten(d) => d = c
    BY <1>1, <1>4, <2>2 DEF Unwritten, Busy
  <2>4. ASSUME NEW a \in Apps, a # conn[c].req.app
        PROVE  file[a] = Routing'[a]
    BY <1>1, <1>2, <1>6, <2>1, <2>2, <2>3, <2>4 DEF FileKnown
  <2> QED
    BY <1>1, <1>3, <2>2, <2>3, <2>4
<1>8. Owed'
  <2>1. conn[c].req.app \in BusyApps
    BY <1>1 DEF BusyApps
  <2>2. ASSUME NEW a \in Apps, before[a] # NoApp, daemon = "closing"
        PROVE  Routing'[a] = Routing[a]
    BY <1>1, <1>2, <1>6, <2>1, <2>2 DEF Owed
  <2> QED
    BY <1>1, <1>2, <1>3, <2>2, HandlerOwesNothing DEF Owed
<1> QED
  BY <1>5, <1>7, <1>8, HandlerOwesNothing DEF Followed

-----------------------------------------------------------------------------
(* The steps of a handler.                                                 *)

\* Inv holds when its parts do.
LEMMA InvParts ==
  ASSUME Shapes', OwnProxy', ListenersAccounted', Followed'
  PROVE  Inv'
BY DEF Inv, Followed

\* A listener is accounted for by the table, by a handler, or was missed.
HeldBy(p) == \/ \E a \in Apps : proxies[a] = p
             \/ \E c \in Conns : \/ conn[c].pc = "install" /\ conn[c].px = p
                                 \/ conn[c].pc = "retire" /\ conn[c].old = p
             \/ objs[p].missed

\* What Shapes says of a connection, and of a Proxy object.
ConnShape(c) ==
  /\ DOMAIN conn[c] = ConnFields /\ conn[c].alone \in BOOLEAN
  /\ conn[c].pc # "idle" => conn[c].req.app \in Apps
  /\ conn[c].pc = "idle" => ~conn[c].alone
  /\ conn[c].pc \in {"swap", "install"} => conn[c].px \in Px
  /\ conn[c].pc = "retire" => conn[c].old \in Px

\* A step of a handler keeps the shapes when it keeps those of its own record, of
\* the objects and of the table.
LEMMA ShapesAfter ==
  ASSUME Shapes, NEW c \in Conns, Stays(c) \/ Leaves(c), settled' \in BOOLEAN,
         DOMAIN proxies' = Apps, \A a \in Apps : proxies'[a] \in Px \cup {0},
         DOMAIN objs' = Px, \A p \in Px : DOMAIN objs'[p] = ObjFields,
         conn'[c].pc \in {"swap", "install"} => conn'[c].px \in Px,
         conn'[c].pc = "retire" => conn'[c].old \in Px
  PROVE  Shapes'
<1>1. /\ DOMAIN conn' = Conns /\ daemon' = daemon
      /\ \A d \in Conns : d # c => conn'[d] = conn[d]
  BY DEF Stays, Leaves, OnlyHandler
<1>2. \A d \in Conns : d # c => ConnShape(d)'
  BY <1>1 DEF Shapes, ConnShape
<1>3. ConnShape(c)'
  BY DEF Stays, Leaves, OnlyHandler, Shapes, ConnShape
<1> QED
  BY <1>1, <1>2, <1>3 DEF Shapes, ConnShape

\* The reply.
LEMMA ReplyEffect ==
  ASSUME Shapes, NEW c \in Conns, conn[c].pc # "idle", daemon # "down", Reply(c),
         UNCHANGED <<daemon, foreign, reach, before>>
  PROVE  Leaves(c) /\ conn'[c] = Idle
BY DEF Shapes, Reply, Leaves, OnlyHandler, Idle, ConnFields

\* Handlers that neither hold a Proxy nor touch one keep who holds what.
LEMMA HoldersKept ==
  ASSUME Inv, NEW c \in Conns, Stays(c) \/ Leaves(c),
         proxies' = proxies, conn[c].pc \notin {"install", "retire"},
         conn'[c].pc # "install",
         \A p \in Px : /\ objs'[p].open = objs[p].open
                       /\ objs'[p].missed = objs[p].missed
  PROVE  OwnProxy' /\ ListenersAccounted'
<1>1. /\ daemon' = daemon
      /\ \A d \in Conns : d # c => conn'[d] = conn[d]
  BY DEF Stays, Leaves, OnlyHandler
<1>2. OwnProxy /\ ListenersAccounted
  BY DEF Inv
<1>3. OwnProxy'
  BY <1>1, <1>2 DEF OwnProxy
<1>4. ListenersAccounted'
  <2>1. ASSUME NEW p \in Px, HeldBy(p) PROVE HeldBy(p)'
    BY <1>1, <2>1 DEF HeldBy
  <2> QED
    BY <1>1, <1>2, <2>1 DEF ListenersAccounted, HeldBy
<1> QED
  BY <1>3, <1>4

\* The entry of the application is read, and taken out by a removal.
LEMMA LookupKeeps ==
  ASSUME Inv, NEW c \in Conns, Lookup(c)
  PROVE  Inv'
<1> DEFINE r == conn[c].req
<1> DEFINE p == proxies[conn[c].req.app]
<1>1. /\ Shapes /\ conn[c].pc = "lookup" /\ daemon # "down" /\ r.app \in Apps
      /\ UNCHANGED <<objs, file, settled, daemon, foreign, reach, before>>
      /\ p \in Px \cup {0}
  BY DEF Lookup, At, Inv, Shapes, Quiet
<1>2. \/ p # 0 /\ proxies' = proxies /\ conn' = [conn EXCEPT ![c].pc = "swap", ![c].px = p]
      \/ Goto(c, "bind") /\ proxies' = proxies
      \/ p # 0 /\ proxies' = [proxies EXCEPT ![r.app] = 0]
           /\ conn' = [conn EXCEPT ![c].pc = "retire", ![c].old = p]
      \/ Reply(c) /\ proxies' = proxies
  BY DEF Lookup
<1>3. CASE p # 0 /\ proxies' = proxies /\ conn' = [conn EXCEPT ![c].pc = "swap", ![c].px = p]
  <2>1. Stays(c) /\ conn'[c].pc = "swap" /\ conn'[c].px = p
    BY <1>1, <1>3 DEF Stays, OnlyHandler, Shapes, ConnFields
  <2>2. Shapes'
    BY <1>1, <1>3, <2>1, ShapesAfter DEF Shapes
  <2>3. OwnProxy' /\ ListenersAccounted'
    BY <1>1, <1>3, <2>1, HoldersKept
  <2>4. Followed'
    BY <1>1, <1>3, <2>1, RoutingKept, KeepsRouting DEF Unwritten
  <2> QED
    BY <2>2, <2>3, <2>4, InvParts
<1>4. CASE Goto(c, "bind") /\ proxies' = proxies
  <2>1. Stays(c) /\ conn'[c].pc = "bind"
    BY <1>1, <1>4 DEF Goto, Stays, OnlyHandler, Shapes, ConnFields
  <2>2. Shapes'
    BY <1>1, <1>4, <2>1, ShapesAfter DEF Shapes
  <2>3. OwnProxy' /\ ListenersAccounted'
    BY <1>1, <1>4, <2>1, HoldersKept
  <2>4. Followed'
    BY <1>1, <1>4, <2>1, RoutingKept, KeepsRouting DEF Unwritten
  <2> QED
    BY <2>2, <2>3, <2>4, InvParts
<1>5. CASE Reply(c) /\ proxies' = proxies
  <2>1. Leaves(c) /\ conn'[c].pc = "idle"
    BY <1>1, <1>5, ReplyEffect DEF Leaves
  <2>2. Shapes'
    BY <1>1, <1>5, <2>1, ShapesAfter DEF Shapes
  <2>3. OwnProxy' /\ ListenersAccounted'
    BY <1>1, <1>5, <2>1, HoldersKept
  <2>4. Followed'
    BY <1>1, <1>5, <2>1, RoutingKept, KeepsRouting DEF Unwritten
  <2> QED
    BY <2>2, <2>3, <2>4, InvParts
<1>6. CASE p # 0 /\ proxies' = [proxies EXCEPT ![r.app] = 0]
           /\ conn' = [conn EXCEPT ![c].pc = "retire", ![c].old = p]
  <2>1. Stays(c) /\ conn'[c].pc = "retire" /\ conn'[c].old = p
    BY <1>1, <1>6 DEF Stays, OnlyHandler, Shapes, ConnFields
  <2>2. /\ DOMAIN proxies' = Apps /\ proxies'[r.app] = 0
        /\ \A a \in Apps : a # r.app => proxies'[a] = proxies[a]
    BY <1>1, <1>6 DEF Shapes
  <2>3. Shapes'
    BY <1>1, <1>6, <2>1, <2>2, ShapesAfter DEF Shapes
  <2>4. \A d \in Conns : d # c => conn'[d] = conn[d]
    BY <2>1 DEF Stays, OnlyHandler
  <2>5. OwnProxy'
    BY <1>1, <2>1, <2>2, <2>4 DEF Inv, OwnProxy, Shapes, Px
  <2>6. ListenersAccounted'
    <3>1. ASSUME NEW q \in Px, HeldBy(q) PROVE HeldBy(q)'
      <4>1. CASE q = p
        BY <2>1, <4>1 DEF HeldBy
      <4>2. CASE q # p
        BY <1>1, <2>1, <2>2, <2>4, <3>1, <4>2 DEF HeldBy
      <4> QED
        BY <4>1, <4>2
    <3> QED
      BY <1>1, <3>1 DEF Inv, ListenersAccounted, HeldBy
  <2>7. \A a \in Apps : a # conn[c].req.app => Routing'[a] = Routing[a]
    BY <1>1, <2>2 DEF Routing
  <2>8. Followed'
    BY <1>1, <2>1, <2>7, ChangesRouting
  <2> QED
    BY <2>3, <2>5, <2>6, <2>8, InvParts
<1> QED
  BY <1>2, <1>3, <1>4, <1>5, <1>6

\* SetTarget on the Proxy found.
LEMMA SwapKeeps ==
  ASSUME Inv, NEW c \in Conns, Swap(c)
  PROVE  Inv'
<1> DEFINE px == conn[c].px
<1> DEFINE t == SetTarget(conn[c].req.route)
<1> HIDE DEF t
<1>1. /\ Shapes /\ conn[c].pc = "swap" /\ daemon # "down" /\ px \in Px
      /\ Goto(c, "snapshot") /\ objs' = [objs EXCEPT ![px].route = t]
      /\ UNCHANGED <<proxies, file, settled, daemon, foreign, reach, before>>
  BY DEF Swap, At, Inv, Shapes, Quiet, t
<1>2. /\ DOMAIN objs' = Px /\ \A p \in Px : p # px => objs'[p] = objs[p]
      /\ objs'[px] = [objs[px] EXCEPT !.route = t]
  BY <1>1 DEF Shapes
<1>3. /\ \A p \in Px : /\ DOMAIN objs'[p] = ObjFields
                       /\ objs'[p].open = objs[p].open /\ objs'[p].missed = objs[p].missed
                       /\ p # px => objs'[p] = objs[p]
  BY <1>1, <1>2 DEF Shapes, ObjFields
<1>4. Stays(c) /\ conn'[c].pc = "snapshot"
  BY <1>1 DEF Goto, Stays, OnlyHandler, Shapes, ConnFields
<1>5. Shapes'
  BY <1>1, <1>2, <1>3, <1>4, ShapesAfter DEF Shapes
<1>6. OwnProxy' /\ ListenersAccounted'
  BY <1>1, <1>3, <1>4, HoldersKept
<1>7. ASSUME conn[c].alone, NEW a \in Apps, a # conn[c].req.app
      PROVE  Routing'[a] = Routing[a]
  <2>1. proxies[conn[c].req.app] = px /\ conn[c].req.app \in Apps
    BY <1>1, <1>7 DEF Inv, Alone, Shapes
  <2>2. proxies[a] # 0 => proxies[a] # px /\ proxies[a] \in Px
    BY <1>1, <1>7, <2>1 DEF Inv, OwnProxy, Shapes
  <2> QED
    BY <1>1, <1>3, <2>2 DEF Routing
<1>8. Followed'
  BY <1>1, <1>4, <1>7, ChangesRouting
<1> QED
  BY <1>5, <1>6, <1>8, InvParts

\* A Proxy that nobody refers to becomes a listener in the handler's hands.
LEMMA BindKeeps ==
  ASSUME Inv, NEW c \in Conns, Bind(c)
  PROVE  Inv'
<1> DEFINE t == SetTarget(conn[c].req.route)
<1> HIDE DEF t
<1>1. /\ Shapes /\ conn[c].pc = "bind" /\ daemon # "down"
      /\ UNCHANGED <<proxies, file, settled, daemon, foreign, reach, before>>
  BY DEF Bind, At, Inv, Quiet
<1>2. CASE Reply(c) /\ UNCHANGED objs
  <2>1. Leaves(c) /\ conn'[c].pc = "idle"
    BY <1>1, <1>2, ReplyEffect DEF Leaves
  <2>2. Shapes'
    BY <1>1, <1>2, <2>1, ShapesAfter DEF Shapes
  <2>3. OwnProxy' /\ ListenersAccounted'
    BY <1>1, <1>2, <2>1, HoldersKept
  <2>4. Followed'
    BY <1>1, <1>2, <2>1, RoutingKept, KeepsRouting DEF Unwritten
  <2> QED
    BY <2>2, <2>3, <2>4, InvParts
<1>3. ASSUME NEW p \in Unused,
             objs' = [objs EXCEPT ![p] = NewProxy(conn[c].req.port, t)],
             conn' = [conn EXCEPT ![c].pc = "install", ![c].px = p]
      PROVE  Inv'
  <2>1. /\ p \in Px /\ \A a \in Apps : proxies[a] # p
        /\ \A d \in Conns : conn[d].px # p
    BY <1>3 DEF Unused
  <2>2. /\ Stays(c) /\ conn'[c].pc = "install" /\ conn'[c].px = p
        /\ \A d \in Conns : d # c => conn'[d] = conn[d]
    BY <1>1, <1>3 DEF Stays, OnlyHandler, Shapes, ConnFields
  <2>3. /\ DOMAIN objs' = Px /\ DOMAIN objs'[p] = ObjFields
        /\ \A q \in Px : q # p => objs'[q] = objs[q]
    BY <1>1, <1>3, <2>1 DEF Shapes, NewProxy, ObjFields
  <2>4. Shapes'
    BY <1>1, <2>1, <2>2, <2>3, ShapesAfter DEF Shapes
  <2>5. OwnProxy'
    BY <1>1, <2>1, <2>2 DEF Inv, OwnProxy
  <2>6. ListenersAccounted'
    <3>1. ASSUME NEW q \in Px, HeldBy(q), q # p PROVE HeldBy(q)'
      BY <1>1, <2>2, <2>3, <3>1 DEF HeldBy
    <3>2. HeldBy(p)'
      BY <2>2 DEF HeldBy
    <3> QED
      BY <1>1, <2>3, <3>1, <3>2 DEF Inv, ListenersAccounted, HeldBy
  <2>7. Routing' = Routing
    <3>1. \A a \in Apps : proxies[a] # 0 => objs'[proxies[a]] = objs[proxies[a]]
      BY <1>1, <2>1, <2>3 DEF Shapes
    <3> QED
      BY <1>1, <3>1, RoutingKept
  <2>8. Followed'
    BY <1>1, <2>2, <2>7, KeepsRouting DEF Unwritten
  <2> QED
    BY <2>4, <2>5, <2>6, <2>8, InvParts
<1>4. ASSUME ~(Reply(c) /\ UNCHANGED objs)
      PROVE  \E p \in Unused : /\ objs' = [objs EXCEPT ![p] = NewProxy(conn[c].req.port, t)]
                               /\ conn' = [conn EXCEPT ![c].pc = "install", ![c].px = p]
  <2> DEFINE least == CHOOSE q \in Unused : \A o \in Unused : q <= o
  <2>1. /\ Unused # {}
        /\ objs' = [objs EXCEPT ![least] = NewProxy(conn[c].req.port, t)]
        /\ conn' = [conn EXCEPT ![c].pc = "install", ![c].px = least]
    BY <1>4 DEF Bind, t
  <2>2. Unused \subseteq Nat
    BY DEF Unused, Px
  <2>3. least \in Unused
    BY <2>1, <2>2, LeastExists
  <2> QED
    BY <2>1, <2>3
<1> QED
  BY <1>2, <1>3, <1>4

\* The new Proxy replaces the one in the table.
LEMMA InstallKeeps ==
  ASSUME Inv, NEW c \in Conns, Install(c)
  PROVE  Inv'
<1> DEFINE app == conn[c].req.app
<1> DEFINE px == conn[c].px
<1> DEFINE old == proxies[conn[c].req.app]
<1>1. /\ Shapes /\ conn[c].pc = "install" /\ daemon # "down"
      /\ app \in Apps /\ px \in Px /\ old \in Px \cup {0}
      /\ proxies' = [proxies EXCEPT ![app] = px]
      /\ conn' = [conn EXCEPT ![c].pc = IF old = 0 THEN "snapshot" ELSE "retire", ![c].old = old]
      /\ UNCHANGED <<objs, file, settled, daemon, foreign, reach, before>>
  BY DEF Install, At, Inv, Shapes, Quiet
<1>2. /\ Stays(c) /\ conn'[c].pc \in {"retire", "snapshot"}
      /\ conn'[c].old = old /\ (conn'[c].pc = "retire" <=> old # 0)
      /\ \A d \in Conns : d # c => conn'[d] = conn[d]
  BY <1>1 DEF Stays, OnlyHandler, Shapes, ConnFields
<1>3. /\ DOMAIN proxies' = Apps /\ proxies'[app] = px
      /\ \A a \in Apps : a # app => proxies'[a] = proxies[a]
  BY <1>1 DEF Shapes
<1>4. Shapes'
  BY <1>1, <1>2, <1>3, ShapesAfter DEF Shapes
<1>5. /\ \A a \in Apps : proxies[a] # px
      /\ \A d \in Conns : d # c /\ conn[d].pc = "install" => conn[d].px # px
  BY <1>1 DEF Inv, OwnProxy
<1>6. OwnProxy'
  <2>1. \A a, b \in Apps : proxies'[a] = proxies'[b] /\ proxies'[a] # 0 => a = b
    BY <1>1, <1>3, <1>5 DEF Inv, OwnProxy
  <2>2. ASSUME NEW d \in Conns, conn'[d].pc = "install"
        PROVE  /\ \A a \in Apps : proxies'[a] # conn'[d].px
               /\ \A e \in Conns : e # d /\ conn'[e].pc = "install" => conn'[e].px # conn'[d].px
    <3>1. d # c /\ conn[d].pc = "install" /\ conn'[d].px = conn[d].px
      BY <1>2, <2>2
    <3>2. \A e \in Conns : conn'[e].pc = "install" => conn[e].pc = "install" /\ conn'[e].px = conn[e].px
      BY <1>2
    <3>3. /\ \A a \in Apps : proxies[a] # conn[d].px
          /\ \A e \in Conns : e # d /\ conn[e].pc = "install" => conn[e].px # conn[d].px
      BY <3>1 DEF Inv, OwnProxy
    <3> QED
      BY <1>3, <1>5, <3>1, <3>2, <3>3
  <2> QED
    BY <2>1, <2>2 DEF OwnProxy
<1>7. ListenersAccounted'
  <2>1. ASSUME NEW q \in Px, HeldBy(q) PROVE HeldBy(q)'
    <3>1. CASE q = px
      BY <1>1, <1>3, <3>1 DEF HeldBy
    <3>2. CASE q = old
      <4>1. old # 0
        BY <3>2 DEF Px
      <4>2. conn'[c].pc = "retire" /\ conn'[c].old = q
        BY <1>2, <3>2, <4>1
      <4> QED
        BY <4>2 DEF HeldBy
    <3>3. CASE q # px /\ q # old
      BY <1>1, <1>2, <1>3, <2>1, <3>3 DEF HeldBy
    <3> QED
      BY <3>1, <3>2, <3>3
  <2> QED
    BY <1>1, <2>1 DEF Inv, ListenersAccounted, HeldBy
<1>8. \A a \in Apps : a # app => Routing'[a] = Routing[a]
  BY <1>1, <1>3 DEF Routing
<1>9. Followed'
  BY <1>1, <1>2, <1>8, ChangesRouting
<1> QED
  BY <1>4, <1>6, <1>7, <1>9, InvParts

\* The Proxy that left the table is shut down.
LEMMA RetireKeeps ==
  ASSUME Inv, NEW c \in Conns, Retire(c)
  PROVE  Inv'
<1> DEFINE old == conn[c].old
<1>1. /\ Shapes /\ conn[c].pc = "retire" /\ daemon # "down" /\ old \in Px
      /\ Goto(c, "snapshot") /\ objs' = [objs EXCEPT ![old] = Closed(old)]
      /\ UNCHANGED <<proxies, file, settled, daemon, foreign, reach, before>>
  BY DEF Retire, At, Inv, Shapes, Quiet
<1>2. /\ DOMAIN objs' = Px /\ objs'[old] = Closed(old)
      /\ \A p \in Px : p # old => objs'[p] = objs[p]
  BY <1>1 DEF Shapes
<1>3. /\ DOMAIN Closed(old) = ObjFields
      /\ Closed(old).port = objs[old].port /\ Closed(old).route = objs[old].route
      /\ Closed(old).open = FALSE \/ Closed(old).missed = TRUE
  BY <1>1 DEF Closed, Shapes, ObjFields
<1>4. /\ Stays(c) /\ conn'[c].pc = "snapshot"
      /\ \A d \in Conns : d # c => conn'[d] = conn[d]
  BY <1>1 DEF Goto, Stays, OnlyHandler, Shapes, ConnFields
<1>5. Shapes'
  BY <1>1, <1>2, <1>3, <1>4, ShapesAfter DEF Shapes
<1>6. OwnProxy'
  BY <1>1, <1>4 DEF Inv, OwnProxy
<1>7. ListenersAccounted'
  <2>1. ASSUME NEW q \in Px, HeldBy(q), q # old PROVE HeldBy(q)'
    BY <1>1, <1>2, <1>4, <2>1 DEF HeldBy
  <2>2. ASSUME NEW q \in Px, q = old, objs'[q].open PROVE HeldBy(q)'
    <3>1. objs'[q].missed = TRUE
      BY <1>2, <1>3, <2>2
    <3> QED
      BY <3>1 DEF HeldBy
  <2>3. \A q \in Px : q # old /\ objs'[q].open => objs[q].open
    BY <1>2
  <2>4. daemon = "up" => \A q \in Px : objs[q].open => HeldBy(q)
    BY DEF Inv, ListenersAccounted, HeldBy
  <2>5. daemon = "up" => \A q \in Px : objs'[q].open => HeldBy(q)'
    BY <2>1, <2>2, <2>3, <2>4
  <2> QED
    BY <1>1, <2>5 DEF ListenersAccounted, HeldBy
<1>8. Routing' = Routing
  <2>1. \A p \in Px : objs'[p].port = objs[p].port /\ objs'[p].route = objs[p].route
    BY <1>2, <1>3
  <2> QED
    BY <1>1, <2>1, RoutingKept DEF Shapes
<1>9. Followed'
  BY <1>1, <1>4, <1>8, KeepsRouting DEF Unwritten
<1> QED
  BY <1>5, <1>6, <1>7, <1>9, InvParts

\* The snapshot is the routing.
LEMMA SnapshotKeeps ==
  ASSUME Inv, NEW c \in Conns, Snapshot(c)
  PROVE  Inv'
<1>1. /\ Shapes /\ conn[c].pc = "snapshot" /\ daemon # "down"
      /\ conn' = [conn EXCEPT ![c].pc = "write", ![c].snap = Routing]
      /\ UNCHANGED <<proxies, objs, file, settled, daemon, foreign, reach, before>>
  BY DEF Snapshot, At, Inv, Quiet
<1>2. Stays(c) /\ conn'[c].pc = "write" /\ conn'[c].snap = Routing
  BY <1>1 DEF Stays, OnlyHandler, Shapes, ConnFields
<1>3. Shapes'
  BY <1>1, <1>2, ShapesAfter DEF Shapes
<1>4. OwnProxy' /\ ListenersAccounted'
  BY <1>1, <1>2, HoldersKept
<1>5. Followed'
  BY <1>1, <1>2, RoutingKept, KeepsRouting DEF Unwritten
<1> QED
  BY <1>3, <1>4, <1>5, InvParts

\* A snapshot written by a handler that was alone is the routing; other snapshots
\* are written when nothing is claimed of the file.
LEMMA WriteKeeps ==
  ASSUME Inv, NEW c \in Conns, Write(c)
  PROVE  Inv'
<1>1. /\ Shapes /\ Alone /\ FileKnown /\ Owed /\ conn[c].pc = "write" /\ daemon # "down" /\ Reply(c)
      /\ UNCHANGED <<proxies, objs, daemon, foreign, reach, before>>
  BY DEF Write, At, Inv
<1>2. \/ file' = conn[c].snap /\ settled' = (settled \/ conn[c].alone)
      \/ file' = file /\ settled' = FALSE
  BY DEF Write
<1>3. /\ Leaves(c) /\ conn'[c].pc = "idle" /\ c \in Busy
      /\ \A d \in Conns : d # c => conn'[d] = conn[d]
  BY <1>1, ReplyEffect DEF Leaves, OnlyHandler, Busy
<1>4. /\ Busy' = Busy \ {c} /\ Lone' = Lone \ {c} /\ BusyApps' \subseteq BusyApps
  BY <1>1, <1>3, BusyAfter
<1>5. Shapes'
  <2>1. settled' \in BOOLEAN
    BY <1>1, <1>2 DEF Shapes
  <2> QED
    BY <1>1, <1>3, <2>1, ShapesAfter DEF Shapes
<1>6. OwnProxy' /\ ListenersAccounted'
  BY <1>1, <1>3, HoldersKept
<1>7. Routing' = Routing
  BY <1>1, RoutingKept
<1>8. c \in Lone => conn[c].alone /\ Busy = {c} /\ conn[c].snap = Routing
  BY <1>1 DEF Alone, Lone
<1>9. Lone \subseteq {c}
  BY <1>1, <1>3 DEF Alone, Lone
<1>10. Alone'
  <2>1. Lone' = {}
    BY <1>4, <1>9
  <2> QED
    BY <2>1 DEF Alone, Lone
<1>11. FileKnown'
  <2>1. ASSUME daemon' = "up", settled'
        PROVE  c \in Lone /\ file' = conn[c].snap
    <3>1. settled \/ conn[c].alone
      BY <1>2, <2>1
    <3> QED
      BY <1>1, <1>2, <1>3, <2>1, <3>1 DEF FileKnown, Lone
  <2> QED
    BY <1>4, <1>7, <1>8, <2>1 DEF FileKnown
<1>12. Owed'
  <2>1. ASSUME NEW a \in Apps, before[a] # NoApp, daemon = "closing"
        PROVE  file'[a] = before[a]
    <3>1. c \in Lone /\ Routing[a] = before[a] /\ file[a] = before[a]
      BY <1>1, <1>3, <2>1 DEF Owed
    <3> QED
      BY <1>2, <1>8, <3>1
  <2>2. Busy \subseteq Lone => Busy' \subseteq Lone'
    BY <1>4
  <2> QED
    BY <1>1, <1>3, <1>4, <1>7, <2>1, <2>2, HandlerOwesNothing DEF Owed, Shapes
<1> QED
  BY <1>3, <1>5, <1>6, <1>10, <1>11, <1>12, HandlerOwesNothing, InvParts DEF Followed

\* A request arrives.  It is alone if no other is under way, and ends what was
\* owed by an earlier restart.
LEMMA ArriveKeeps ==
  ASSUME Inv, NEW c \in Conns, NEW r \in ControlRequests, Arrive(c, r)
  PROVE  Inv'
<1>1. /\ Shapes /\ daemon = "up" /\ conn[c].pc = "idle"
      /\ settled' = (settled /\ Busy = {})
      /\ before' = [a \in Apps |-> NoApp]
      /\ UNCHANGED <<daemon, proxies, objs, file, foreign>>
  BY DEF Arrive, Inv
<1>2. conn' = [d \in Conns |->
                IF d = c THEN [Idle EXCEPT !.pc = "lookup", !.req = r, !.alone = (Busy = {})]
                ELSE [conn[d] EXCEPT !.alone = FALSE]]
  BY DEF Arrive
<1>3. /\ DOMAIN conn' = Conns
      /\ conn'[c] = [Idle EXCEPT !.pc = "lookup", !.req = r, !.alone = (Busy = {})]
      /\ \A d \in Conns : d # c => conn'[d] = [conn[d] EXCEPT !.alone = FALSE]
  BY <1>2
<1>4. /\ DOMAIN conn'[c] = ConnFields /\ conn'[c].pc = "lookup" /\ conn'[c].req = r
      /\ conn'[c].alone = (Busy = {})
  BY <1>3 DEF Idle, ConnFields
<1>5. \A d \in Conns : d # c => /\ DOMAIN conn'[d] = ConnFields
                                /\ conn'[d].pc = conn[d].pc /\ conn'[d].req = conn[d].req
                                /\ conn'[d].px = conn[d].px /\ conn'[d].old = conn[d].old
                                /\ conn'[d].alone = FALSE
  BY <1>1, <1>3 DEF Shapes, ConnFields
<1>6. r.app \in Apps
  BY DEF ControlRequests
<1>7. Busy' = Busy \cup {c} /\ Routing' = Routing
  BY <1>1, <1>4, <1>5, RoutingKept DEF Busy
<1>8. Shapes'
  <2>1. \A d \in Conns : ConnShape(d)'
    BY <1>1, <1>4, <1>5, <1>6 DEF ConnShape, Shapes
  <2> QED
    BY <1>1, <1>3, <2>1 DEF Shapes, ConnShape
<1>9. OwnProxy' /\ DownEmpty'
  BY <1>1, <1>4, <1>5 DEF Inv, OwnProxy, DownEmpty
<1>10. ListenersAccounted'
  <2>1. ASSUME NEW q \in Px, HeldBy(q) PROVE HeldBy(q)'
    BY <1>1, <1>4, <1>5, <2>1 DEF HeldBy
  <2> QED
    BY <1>1, <2>1 DEF Inv, ListenersAccounted, HeldBy
<1>11. Alone'
  BY <1>4, <1>5, <1>7 DEF Alone
<1>12. FileKnown'
  <2>1. ASSUME settled' PROVE Busy = {} /\ settled
    BY <1>1, <2>1 DEF Shapes
  <2>2. ASSUME settled' PROVE \A a \in Apps : file[a] = Routing[a]
    BY <1>1, <2>1, <2>2 DEF Inv, FileKnown, Unwritten, Busy
  <2>3. ASSUME settled' PROVE Busy' \subseteq Lone'
    BY <1>4, <1>7, <2>1, <2>3 DEF Lone
  <2> QED
    BY <1>1, <1>7, <2>2, <2>3 DEF FileKnown
<1>13. Owed' /\ BroughtBack'
  BY <1>1 DEF Owed, BroughtBack
<1> QED
  BY <1>8, <1>9, <1>10, <1>11, <1>12, <1>13, InvParts DEF Followed

-----------------------------------------------------------------------------
(* The listeners, and the daemon's own life.                               *)

\* A server starts on its listener.
LEMMA ServeKeeps ==
  ASSUME Inv, NEW p \in Px, Serve(p)
  PROVE  Inv'
<1>1. /\ Shapes /\ daemon # "down" /\ objs' = [objs EXCEPT ![p].serving = TRUE]
      /\ UNCHANGED <<proxies, conn, file, settled, daemon, foreign, reach, before>>
  BY DEF Serve, Quiet, Inv
<1>2. /\ DOMAIN objs' = Px
      /\ \A q \in Px : /\ DOMAIN objs'[q] = ObjFields
                       /\ objs'[q].port = objs[q].port /\ objs'[q].route = objs[q].route
                       /\ objs'[q].open = objs[q].open /\ objs'[q].missed = objs[q].missed
  BY <1>1 DEF Shapes, ObjFields
<1>3. Routing' = Routing
  BY <1>1, <1>2, RoutingKept DEF Shapes
<1>4. /\ Busy' = Busy /\ Lone' = Lone /\ BusyApps' = BusyApps
      /\ \A c \in Conns : Unwritten(c)' <=> Unwritten(c)
  BY <1>1 DEF Busy, Lone, BusyApps, Unwritten
<1>5. Shapes'
  BY <1>1, <1>2 DEF Shapes
<1>6. OwnProxy' /\ DownEmpty' /\ ListenersAccounted'
  BY <1>1, <1>2 DEF Inv, OwnProxy, DownEmpty, ListenersAccounted
<1>7. Alone'
  BY <1>1, <1>3, <1>4 DEF Inv, Alone
<1>8. FileKnown'
  BY <1>1, <1>3, <1>4 DEF Inv, FileKnown
<1>9. Owed'
  BY <1>1, <1>3, <1>4 DEF Inv, Owed
<1>10. BroughtBack'
  <2>1. \A route : Reconcile(route)' = Reconcile(route)
    BY <1>1 DEF Reconcile
  <2> QED
    BY <1>1, <1>3, <2>1 DEF Inv, BroughtBack
<1> QED
  BY <1>5, <1>6, <1>7, <1>8, <1>9, <1>10, InvParts DEF Followed

\* A dead listener leaves the table; nothing is claimed of the file.
LEMMA ListenerDiesKeeps ==
  ASSUME Inv, NEW p \in Px, ListenerDies(p)
  PROVE  Inv'
<1>1. /\ Shapes /\ daemon = "up" /\ objs' = [objs EXCEPT ![p].open = FALSE]
      /\ proxies' = [a \in Apps |-> IF proxies[a] = p THEN 0 ELSE proxies[a]]
      /\ settled' = FALSE /\ before' = [a \in Apps |-> NoApp]
      /\ conn' = [c \in Conns |-> [conn[c] EXCEPT !.alone = FALSE]]
      /\ UNCHANGED <<daemon, file, foreign, reach>>
  BY DEF ListenerDies, Inv
<1>2. /\ DOMAIN objs' = Px
      /\ \A q \in Px : /\ DOMAIN objs'[q] = ObjFields /\ objs'[q].missed = objs[q].missed
                       /\ IF q = p THEN objs'[q].open = FALSE ELSE objs'[q].open = objs[q].open
  BY <1>1 DEF Shapes, ObjFields
<1>3. /\ DOMAIN conn' = Conns
      /\ \A d \in Conns : /\ DOMAIN conn'[d] = ConnFields
                          /\ conn'[d].pc = conn[d].pc /\ conn'[d].req = conn[d].req
                          /\ conn'[d].px = conn[d].px /\ conn'[d].old = conn[d].old
                          /\ conn'[d].alone = FALSE
  BY <1>1 DEF Shapes, ConnFields
<1>4. /\ DOMAIN proxies' = Apps
      /\ \A a \in Apps : proxies'[a] = 0 \/ proxies'[a] = proxies[a]
      /\ \A a \in Apps : proxies[a] # p => proxies'[a] = proxies[a]
  BY <1>1
<1>5. Shapes'
  <2>1. ASSUME NEW d \in Conns PROVE ConnShape(d)'
    <3>1. ConnShape(d)
      BY <1>1 DEF ConnShape, Shapes
    <3> QED
      BY <1>3, <3>1 DEF ConnShape
  <2> QED
    BY <1>1, <1>2, <1>3, <1>4, <2>1 DEF Shapes, ConnShape
<1>6. OwnProxy'
  <2>1. \A d \in Conns : conn[d].pc = "install" => conn[d].px # 0
    BY <1>1 DEF Shapes, Px
  <2> QED
    BY <1>3, <1>4, <2>1 DEF Inv, OwnProxy
<1>7. ListenersAccounted'
  <2>1. ASSUME NEW q \in Px, q # p, HeldBy(q) PROVE HeldBy(q)'
    BY <1>2, <1>3, <1>4, <2>1 DEF HeldBy
  <2> QED
    BY <1>1, <1>2, <2>1 DEF Inv, ListenersAccounted, HeldBy
<1>8. Followed'
  BY <1>1, <1>3 DEF Followed, Alone, FileKnown, Owed, DownEmpty, BroughtBack
<1> QED
  BY <1>5, <1>6, <1>7, <1>8, InvParts

\* After the process is gone only the file is left.
LEMMA GoneEffect ==
  ASSUME Gone, settled' \in BOOLEAN
  PROVE  /\ daemon' = "down" /\ Busy' = {} /\ Shapes' /\ DownEmpty' /\ OwnProxy' /\ Alone'
         /\ FileKnown' /\ ListenersAccounted' /\ BroughtBack'
<1>1. /\ daemon' = "down" /\ proxies' = [a \in Apps |-> 0]
      /\ objs' = [p \in Px |-> NoProxy] /\ conn' = [c \in Conns |-> Idle]
  BY DEF Gone
<1>2. \A c \in Conns : /\ DOMAIN conn'[c] = ConnFields /\ conn'[c].pc = "idle"
                       /\ conn'[c].alone = FALSE
  BY <1>1 DEF Idle, ConnFields
<1>3. \A p \in Px : DOMAIN objs'[p] = ObjFields /\ objs'[p].open = FALSE
  BY <1>1 DEF NoProxy, ObjFields
<1>4. Busy' = {}
  BY <1>2 DEF Busy
<1>5. Shapes'
  BY <1>1, <1>2, <1>3 DEF Shapes
<1>6. DownEmpty' /\ OwnProxy' /\ Alone'
  BY <1>1, <1>2, <1>3, <1>4 DEF DownEmpty, OwnProxy, Alone
<1>7. FileKnown' /\ ListenersAccounted' /\ BroughtBack'
  BY <1>1 DEF FileKnown, ListenersAccounted, BroughtBack
<1> QED
  BY <1>1, <1>4, <1>5, <1>6, <1>7

\* What is expected of a restart is in the file, and what is routed.
LEMMA ExpectedInFile ==
  ASSUME Inv, daemon = "up", NEW a \in Apps, Expected[a] # NoApp
  PROVE  /\ file[a] = Expected[a] /\ Routing[a] = Expected[a]
         /\ a \notin BusyApps /\ Busy \subseteq Lone
<1>1. settled /\ a \notin BusyApps /\ Expected[a] = Routing[a]
  BY DEF Expected
<1>2. ASSUME NEW c \in Conns, Unwritten(c) PROVE conn[c].req.app # a
  BY <1>1, <1>2 DEF Unwritten, Busy, BusyApps
<1> QED
  BY <1>1, <1>2 DEF Inv, FileKnown

\* The daemon dies.
LEMMA CrashKeeps ==
  ASSUME Inv, Crash
  PROVE  Inv'
<1>1. /\ daemon = "up" /\ Gone /\ before' = Expected /\ UNCHANGED <<file, settled>>
  BY DEF Crash
<1>2. settled' \in BOOLEAN
  BY <1>1 DEF Inv, Shapes
<1>3. Owed'
  BY <1>1, <1>2, GoneEffect, ExpectedInFile DEF Owed
<1> QED
  BY <1>1, <1>2, <1>3, GoneEffect DEF Inv

\* The daemon is told to stop: the listeners in the table are closed.
LEMMA ShutdownKeeps ==
  ASSUME Inv, Shutdown
  PROVE  Inv'
<1>1. /\ Shapes /\ daemon = "up" /\ daemon' = "closing" /\ before' = Expected
      /\ objs' = [p \in Px |-> IF \E a \in Apps : proxies[a] = p THEN Closed(p) ELSE objs[p]]
      /\ UNCHANGED <<proxies, conn, file, settled>>
  BY DEF Shutdown, Inv
<1>2. \A p \in Px : /\ DOMAIN Closed(p) = ObjFields
                    /\ Closed(p).port = objs[p].port /\ Closed(p).route = objs[p].route
  BY <1>1 DEF Closed, Shapes, ObjFields
<1>3. /\ DOMAIN objs' = Px
      /\ \A p \in Px : objs'[p] = Closed(p) \/ objs'[p] = objs[p]
  BY <1>1
<1>4. \A p \in Px : /\ DOMAIN objs'[p] = ObjFields
                    /\ objs'[p].port = objs[p].port /\ objs'[p].route = objs[p].route
  BY <1>1, <1>2, <1>3 DEF Shapes
<1>5. Routing' = Routing
  BY <1>1, <1>4, RoutingKept DEF Shapes
<1>6. Busy' = Busy /\ Lone' = Lone /\ BusyApps' = BusyApps
  BY <1>1 DEF Busy, Lone, BusyApps
<1>7. Shapes'
  BY <1>1, <1>3, <1>4 DEF Shapes
<1>8. OwnProxy'
  BY <1>1 DEF Inv, OwnProxy
<1>9. Alone'
  BY <1>1, <1>5, <1>6 DEF Inv, Alone
<1>10. DownEmpty' /\ FileKnown' /\ ListenersAccounted' /\ BroughtBack'
  BY <1>1 DEF DownEmpty, FileKnown, ListenersAccounted, BroughtBack
<1>11. Owed'
  BY <1>1, <1>5, <1>6, ExpectedInFile DEF Owed
<1> QED
  BY <1>7, <1>8, <1>9, <1>10, <1>11 DEF Inv

\* The daemon has replied to everyone and ends.
LEMMA ExitKeeps ==
  ASSUME Inv, Exit
  PROVE  Inv'
<1>1. daemon = "closing" /\ Gone /\ UNCHANGED <<file, settled, before>>
  BY DEF Exit
<1>2. settled' \in BOOLEAN
  BY <1>1 DEF Inv, Shapes
<1>3. Owed'
  BY <1>1, <1>2, GoneEffect DEF Inv, Owed
<1> QED
  BY <1>1, <1>2, <1>3, GoneEffect DEF Inv

\* The daemon starts without a file.
LEMMA RestartEmptyKeeps ==
  ASSUME Inv, RestartEmpty
  PROVE  Inv'
<1>1. /\ daemon = "down" /\ daemon' = "up" /\ settled' = FALSE
      /\ before' = [a \in Apps |-> NoApp]
      /\ UNCHANGED <<proxies, objs, conn, file>>
  BY DEF RestartEmpty
<1>2. Routing' = Routing
  BY <1>1, RoutingKept
<1>3. Shapes' /\ OwnProxy'
  BY <1>1 DEF Inv, Shapes, OwnProxy
<1>4. Alone'
  BY <1>1, <1>2 DEF Inv, Alone, Busy
<1>5. DownEmpty' /\ FileKnown' /\ Owed' /\ BroughtBack'
  BY <1>1 DEF DownEmpty, FileKnown, Owed, BroughtBack
<1>6. ListenersAccounted'
  BY <1>1 DEF Inv, DownEmpty, ListenersAccounted
<1> QED
  BY <1>3, <1>4, <1>5, <1>6 DEF Inv

-----------------------------------------------------------------------------
(* The restart numbers the applications that come back.                    *)

IsNumbering(f, back) ==
  /\ f \in [Apps -> 0 .. Cardinality(back)]
  /\ \A a \in Apps : f[a] = 0 <=> a \notin back
  /\ \A a, b \in back : f[a] = f[b] => a = b

\* Finitely many applications can be numbered, and no number is left out.
LEMMA Numbering ==
  ASSUME NEW back \in SUBSET Apps
  PROVE  /\ Cardinality(back) \in Nat /\ Cardinality(back) <= Cardinality(Apps)
         /\ \E f : IsNumbering(f, back)
         /\ \A f : IsNumbering(f, back) =>
              \A p \in 1 .. Cardinality(back) : \E a \in back : f[a] = p
<1> DEFINE n == Cardinality(back)
<1>1. IsFiniteSet(back) /\ n <= Cardinality(Apps)
  BY FS_Subset
<1>2. n \in Nat /\ ExistsBijection(1 .. n, back)
  BY <1>1, FS_CardinalityType
<1> HIDE DEF n
<1>3. PICK g \in [1 .. n -> back] : /\ \A a \in back : \E i \in 1 .. n : g[i] = a
                                    /\ \A i, j \in 1 .. n : g[i] = g[j] => i = j
  BY <1>2 DEF ExistsBijection, Bijection, Injection, Surjection, IsInjective
<1>4. \E f : IsNumbering(f, back)
  <2> DEFINE pos(a) == CHOOSE i \in 1 .. n : g[i] = a
  <2> DEFINE f == [a \in Apps |-> IF a \in back THEN pos(a) ELSE 0]
  <2>1. \A a \in back : pos(a) \in 1 .. n /\ g[pos(a)] = a
    BY <1>3
  <2> HIDE DEF pos
  <2>2. f \in [Apps -> 0 .. n]
    BY <1>2, <2>1
  <2>3. \A a \in back : f[a] = pos(a) /\ f[a] # 0
    BY <1>2, <2>1
  <2>4. \A a \in Apps : f[a] = 0 <=> a \notin back
    BY <2>3
  <2>5. \A a, b \in back : f[a] = f[b] => a = b
    BY <2>1, <2>3
  <2> HIDE DEF f
  <2>6. IsNumbering(f, back)
    BY <2>2, <2>4, <2>5 DEF IsNumbering, n
  <2> QED
    BY <2>6
<1>5. ASSUME NEW f, IsNumbering(f, back), NEW p \in 1 .. n
      PROVE  \E a \in back : f[a] = p
  <2> DEFINE h == [a \in back |-> f[a]]
  <2>1. /\ f \in [Apps -> 0 .. n] /\ \A a \in back : f[a] # 0
        /\ \A a, b \in back : f[a] = f[b] => a = b
    BY <1>5 DEF IsNumbering, n
  <2>2. \A a \in back : f[a] \in 1 .. n
    BY <1>2, <2>1
  <2>3. h \in Injection(back, 1 .. n)
    BY <2>1, <2>2 DEF Injection, IsInjective
  <2>4. IsFiniteSet(1 .. n) /\ Cardinality(1 .. n) = n
    <3>1. 1 \in Int /\ n \in Int /\ n >= 0
      BY <1>2
    <3> QED
      BY <1>2, <3>1, FS_Interval
  <2> HIDE DEF h
  <2>5. h \in Surjection(back, 1 .. n)
    BY <2>3, <2>4, FS_Injection DEF n
  <2>6. \E a \in back : h[a] = p
    BY <2>5 DEF Surjection
  <2> QED
    BY <2>6 DEF h
<1> QED
  BY <1>1, <1>2, <1>4, <1>5 DEF n

\* What the restart makes of the file, for the applications that come back and the
\* numbers they get.
Restored(back, id) ==
  /\ back \subseteq {a \in Apps : file[a] # NoApp}
  /\ IsNumbering(id, back)
  /\ \A a \in Apps : file[a] # NoApp /\ a \notin back =>
       \/ file[a].port \in foreign
       \/ \E b \in back : file[a].port = file[b].port
  /\ proxies' = id
  /\ DOMAIN objs' = Px /\ \A p \in Px : DOMAIN objs'[p] = ObjFields
  /\ \A p \in Px : p > Cardinality(back) => objs'[p].open = FALSE
  /\ \A a \in back : /\ objs'[id[a]].port = file[a].port
                     /\ objs'[id[a]].route = Reconcile(file[a].route)
  /\ file' = file \/ file' = Routing'

\* Restart does that.
LEMMA RestartEffect ==
  ASSUME Restart
  PROVE  \E back \in SUBSET Apps : \E id : Restored(back, id)
<1> DEFINE recorded == {a \in Apps : file[a] # NoApp}
<1> DEFINE Id(back) == CHOOSE f \in [Apps -> 0 .. Cardinality(back)] :
                     /\ \A a \in Apps : f[a] = 0 <=> a \notin back
                     /\ \A a, b \in back : f[a] = f[b] => a = b
<1> DEFINE App(back, p) == CHOOSE a \in back : Id(back)[a] = p
<1>1. PICK back \in SUBSET {a \in recorded : file[a].port \notin foreign} :
        /\ \A a \in recorded \ back : \/ file[a].port \in foreign
                                      \/ \E b \in back : a # b /\ file[a].port = file[b].port
        /\ proxies' = Id(back)
        /\ objs' = [p \in Px |->
                      IF p > Cardinality(back) THEN NoProxy
                      ELSE NewProxy(file[App(back, p)].port, Reconcile(file[App(back, p)].route))]
        /\ file' = IF back = recorded THEN file ELSE Routing'
  BY DEF Restart
<1>2. back \in SUBSET Apps
  BY <1>1
<1>3. IsNumbering(Id(back), back)
  BY <1>2, Numbering DEF IsNumbering
<1> HIDE DEF Id
<1>4. \A a \in back : App(back, Id(back)[a]) = a
  BY <1>3 DEF IsNumbering
<1>5. Cardinality(back) \in Nat /\ Cardinality(back) <= MaxProxies
  <2>1. Cardinality(Apps) \in Nat
    BY FS_CardinalityType
  <2> QED
    BY <1>2, <2>1, Numbering
<1>6. \A a \in back : Id(back)[a] \in Px /\ Id(back)[a] <= Cardinality(back)
  BY <1>2, <1>3, <1>5 DEF IsNumbering, Px
<1> HIDE DEF App
<1>7. ASSUME NEW a \in back
      PROVE  objs'[Id(back)[a]] = NewProxy(file[a].port, Reconcile(file[a].route))
  <2>1. ~(Id(back)[a] > Cardinality(back)) /\ Id(back)[a] \in Px
    BY <1>2, <1>3, <1>5, <1>6, <1>7 DEF IsNumbering
  <2> QED
    BY <1>1, <1>4, <2>1
<1>8. /\ DOMAIN objs' = Px /\ \A p \in Px : DOMAIN objs'[p] = ObjFields
      /\ \A p \in Px : p > Cardinality(back) => objs'[p].open = FALSE
  BY <1>1 DEF NoProxy, NewProxy, ObjFields
<1>9. Restored(back, Id(back))
  <2>1. ASSUME NEW a \in back
        PROVE  /\ objs'[Id(back)[a]].port = file[a].port
               /\ objs'[Id(back)[a]].route = Reconcile(file[a].route)
    <3> DEFINE route == Reconcile(file[a].route)
    <3> HIDE DEF route
    <3>1. objs'[Id(back)[a]] = NewProxy(file[a].port, route)
      BY <1>7 DEF route
    <3>2. objs'[Id(back)[a]].port = file[a].port /\ objs'[Id(back)[a]].route = route
      BY <3>1 DEF NewProxy
    <3> QED
      BY <3>2 DEF route
  <2>2. \A a \in Apps : file[a] # NoApp /\ a \notin back =>
          \/ file[a].port \in foreign
          \/ \E b \in back : file[a].port = file[b].port
    BY <1>1
  <2>3. file' = file \/ file' = Routing'
    BY <1>1
  <2>4. back \subseteq {a \in Apps : file[a] # NoApp} /\ proxies' = Id(back)
    BY <1>1
  <2> QED
    BY <1>3, <1>8, <2>1, <2>2, <2>3, <2>4 DEF Restored
<1> QED
  BY <1>2, <1>9

\* The daemon restores what the file records.
LEMMA RestartKeeps ==
  ASSUME Inv, Restart
  PROVE  Inv'
<1>1. /\ Shapes /\ daemon = "down" /\ daemon' = "up" /\ settled' = (file' = Routing')
      /\ UNCHANGED <<conn, foreign, reach, before>> /\ Busy = {}
  BY DEF Restart, Inv, DownEmpty
<1>2. PICK back \in SUBSET Apps : \E id : Restored(back, id)
  BY RestartEffect
<1>3. PICK id : Restored(back, id)
  BY <1>2
<1>4. Cardinality(back) \in Nat /\ Cardinality(back) <= MaxProxies
  <2>1. Cardinality(Apps) \in Nat
    BY FS_CardinalityType
  <2> QED
    BY <2>1, Numbering
<1>5. /\ proxies' = id /\ DOMAIN id = Apps
      /\ \A a \in Apps : id[a] \in Px \cup {0}
      /\ \A a \in Apps : id[a] = 0 <=> a \notin back
      /\ \A a, b \in back : id[a] = id[b] => a = b
  BY <1>3, <1>4 DEF Restored, IsNumbering, Px
<1>6. Busy' = {} /\ Lone' = Lone /\ \A c \in Conns : conn'[c].pc = "idle" /\ ~conn'[c].alone
  BY <1>1 DEF Busy, Lone, Shapes
<1>7. Shapes'
  BY <1>1, <1>3, <1>5 DEF Shapes, Restored
<1>8. OwnProxy' /\ Alone' /\ DownEmpty'
  BY <1>1, <1>5, <1>6 DEF OwnProxy, Alone, DownEmpty
<1>9. ListenersAccounted'
  <2>1. ASSUME NEW p \in Px, objs'[p].open PROVE \E a \in Apps : proxies'[a] = p
    <3>1. p \in 1 .. Cardinality(back)
      BY <1>3, <1>4, <2>1 DEF Restored, Px
    <3> QED
      BY <1>3, <1>5, <3>1, Numbering DEF Restored
  <2> QED
    BY <2>1 DEF ListenersAccounted
<1>10. FileKnown'
  BY <1>1, <1>6 DEF FileKnown
<1>11. Owed'
  BY <1>1, <1>6 DEF Owed
<1>12. /\ \A a \in back : Routing'[a] = [port |-> file[a].port, route |-> Reconcile(file[a].route)]
       /\ \A a \in Apps : proxies'[a] = 0 <=> a \notin back
  BY <1>3, <1>5 DEF Routing, Restored
<1>13. \A route : Reconcile(route)' = Reconcile(route)
  BY <1>1 DEF Reconcile
<1>14. BroughtBack'
  <2>1. SUFFICES ASSUME NEW a \in Apps, before[a] # NoApp
                 PROVE  \/ /\ proxies'[a] = 0
                           /\ \/ before[a].port \in foreign
                              \/ \E b \in Apps : Routing'[b].port = before[a].port
                        \/ /\ proxies'[a] # 0
                           /\ Routing'[a] = [port |-> before[a].port,
                                             route |-> Reconcile(before[a].route)]
    BY <1>1, <1>13 DEF BroughtBack
  <2>2. file[a] = before[a]
    BY <1>1, <2>1 DEF Inv, Owed
  <2>3. CASE a \in back
    BY <1>12, <2>2, <2>3
  <2>4. CASE a \notin back
    <3>1. CASE file[a].port \in foreign
      BY <1>12, <2>2, <2>4, <3>1
    <3>2. CASE \E b \in back : file[a].port = file[b].port
      <4>1. PICK b \in back : file[a].port = file[b].port
        BY <3>2
      <4> DEFINE route == Reconcile(file[b].route)
      <4>2. Routing'[b] = [port |-> file[b].port, route |-> route] /\ b \in Apps
        BY <1>12
      <4> HIDE DEF route
      <4>3. Routing'[b].port = before[a].port
        BY <2>2, <4>1, <4>2
      <4> QED
        BY <1>12, <2>4, <4>2, <4>3
    <3> QED
      BY <1>3, <2>1, <2>2, <2>4, <3>1, <3>2 DEF Restored
  <2> QED
    BY <2>3, <2>4
<1> QED
  BY <1>7, <1>8, <1>9, <1>10, <1>11, <1>14 DEF Inv

-----------------------------------------------------------------------------
(* The theorems.                                                           *)

\* Inv holds at the start.
LEMMA InitInv ==
  ASSUME Init PROVE Inv
<1>1. /\ daemon = "up" /\ proxies = [a \in Apps |-> 0] /\ objs = [p \in Px |-> NoProxy]
      /\ conn = [c \in Conns |-> Idle] /\ file = [a \in Apps |-> NoApp]
      /\ settled = TRUE /\ before = [a \in Apps |-> NoApp]
  BY DEF Init
<1>2. \A c \in Conns : /\ DOMAIN conn[c] = ConnFields /\ conn[c].pc = "idle"
                       /\ conn[c].alone = FALSE
  BY <1>1 DEF Idle, ConnFields
<1>3. \A p \in Px : DOMAIN objs[p] = ObjFields /\ objs[p].open = FALSE
  BY <1>1 DEF NoProxy, ObjFields
<1>4. Busy = {} /\ \A a \in Apps : file[a] = Routing[a]
  BY <1>1, <1>2 DEF Busy, Routing
<1>5. Shapes
  BY <1>1, <1>2, <1>3 DEF Shapes
<1>6. DownEmpty /\ OwnProxy /\ Alone
  BY <1>1, <1>2 DEF DownEmpty, OwnProxy, Alone
<1>7. FileKnown /\ ListenersAccounted
  BY <1>1, <1>3, <1>4 DEF FileKnown, ListenersAccounted
<1>8. Owed /\ BroughtBack
  BY <1>1 DEF Owed, BroughtBack
<1> QED
  BY <1>5, <1>6, <1>7, <1>8 DEF Inv

\* A step that changes nothing keeps Inv.
LEMMA StutterKeeps ==
  ASSUME Inv, UNCHANGED dvars
  PROVE  Inv'
<1>1. UNCHANGED <<daemon, proxies, objs, conn, file, foreign, reach, settled, before>>
  BY DEF dvars
<1>2. Routing' = Routing
  BY <1>1, RoutingKept
<1>3. Busy' = Busy /\ Lone' = Lone /\ BusyApps' = BusyApps /\ \A c \in Conns : Unwritten(c)' <=> Unwritten(c)
  BY <1>1 DEF Busy, Lone, BusyApps, Unwritten
<1>4. \A route : Reconcile(route)' = Reconcile(route)
  BY <1>1 DEF Reconcile
<1>5. Shapes' /\ OwnProxy' /\ ListenersAccounted'
  BY <1>1 DEF Inv, Shapes, OwnProxy, ListenersAccounted
<1>6. DownEmpty' /\ Alone' /\ FileKnown'
  BY <1>1, <1>2, <1>3 DEF Inv, DownEmpty, Alone, FileKnown
<1>7. Owed' /\ BroughtBack'
  BY <1>1, <1>2, <1>3, <1>4 DEF Inv, Owed, BroughtBack
<1> QED
  BY <1>5, <1>6, <1>7 DEF Inv

\* Every step keeps Inv.
LEMMA NextKeeps ==
  ASSUME Inv, [Next]_dvars
  PROVE  Inv'
<1>1. ASSUME NEW c \in Conns, Handler(c) PROVE Inv'
  BY <1>1, ArriveKeeps, LookupKeeps, SwapKeeps, BindKeeps, InstallKeeps, RetireKeeps,
     SnapshotKeeps, WriteKeeps DEF Handler
<1>2. ASSUME NEW p \in Px, Serve(p) \/ ListenerDies(p) PROVE Inv'
  BY <1>2, ServeKeeps, ListenerDiesKeeps
<1>3. ASSUME Crash \/ Shutdown \/ Exit \/ Restart \/ RestartEmpty PROVE Inv'
  BY <1>3, CrashKeeps, ShutdownKeeps, ExitKeeps, RestartKeeps, RestartEmptyKeeps
<1> QED
  BY <1>1, <1>2, <1>3, StutterKeeps DEF Next

\* The inductive invariant holds throughout.
LEMMA Invariance == Spec => []Inv
<1>1. Init => Inv
  BY InitInv
<1>2. Inv /\ [Next]_dvars => Inv'
  BY NextKeeps
<1> QED
  BY <1>1, <1>2, PTL DEF Spec

\* proxy-state.json describes what is routed for every application no request is
\* under way for, whatever handlers, dead listeners, failed writes, crashes and
\* restarts came before (persistState, restoreState).
THEOREM FileFollows == Spec => []FileFollowsRouting
<1>1. Inv => FileFollowsRouting
  <2>1. SUFFICES ASSUME Inv, daemon = "up", settled, NEW a \in Apps \ BusyApps
                 PROVE  file[a] = Routing[a]
    BY DEF FileFollowsRouting
  <2>2. ASSUME NEW c \in Conns, Unwritten(c) PROVE conn[c].req.app # a
    BY <2>1, <2>2 DEF Unwritten, Busy, BusyApps
  <2> QED
    BY <2>1, <2>2 DEF Inv, FileKnown
<1> QED
  BY <1>1, Invariance, PTL

\* Every open public port belongs to the table, to a handler about to install or to
\* shut down its Proxy, or to a Proxy shut down before it served (EnrollApp,
\* RemoveApp, restoreState).
THEOREM NoListenerLeft == Spec => []ListenersAccounted
<1>1. Inv => ListenersAccounted
  BY DEF Inv
<1> QED
  BY <1>1, Invariance, PTL

\* Whatever a restart is expected to bring back comes back on its port, with the
\* recorded backends as reconcileBackends leaves them, unless the port is taken, by
\* another program or by another application that came back (restoreState).
THEOREM RestartBringsBack == Spec => []BroughtBack
<1>1. Inv => BroughtBack
  BY DEF Inv
<1> QED
  BY <1>1, Invariance, PTL

=============================================================================
