---------------------------- MODULE ProxyDaemon ----------------------------
(***************************************************************************)
(* The proxy daemon's control plane (proxy/control.go): one Proxy per      *)
(* enrolled application, control connections that change the enrolments    *)
(* concurrently, and proxy-state.json, from which a restarted daemon       *)
(* restores them.                                                          *)
(*                                                                         *)
(* A route is the sequence of the backends' hosts, the primary first.  A   *)
(* handler takes one step per access to shared state: the daemon's lock is *)
(* held to look up or replace an entry of the table and to take a          *)
(* snapshot, never around SetTarget, the listener or the file.             *)
(***************************************************************************)
EXTENDS Naturals, FiniteSets, Sequences, SequencesExt

CONSTANTS
  Apps, Ports, Hosts,
  Conns,         \* control connections served at the same time
  Routes,        \* the backends a request may name: [primary, addl]
  MaxProxies,    \* bound: Proxy objects in use at the same time
  MaxRequests,   \* bound: control requests
  MaxOutages     \* bound: crashes, shutdowns, dead listeners, failed writes

ASSUME AppsAssumption == IsFiniteSet(Apps)
ASSUME ProxiesAssumption == MaxProxies \in Nat /\ Cardinality(Apps) <= MaxProxies

VARIABLES
  daemon,     \* "up", "closing" or "down"
  proxies,    \* d.proxies: the Proxy of each application, 0 for none
  objs,       \* the Proxy objects
  conn,       \* the control connections' handlers
  file,       \* proxy-state.json
  foreign,    \* ports other programs hold
  reach,      \* hosts that answer a restarting daemon's probes
  sent, outages,
  settled,    \* history: no overlap, failed write or dead listener to make up for
  before      \* history: the enrolments a restart is expected to bring back

dvars == <<daemon, proxies, objs, conn, file, foreign, reach, sent, outages,
           settled, before>>

Px == 1 .. MaxProxies

NoApp == [port |-> 0, route |-> <<>>]

NoProxy == [port |-> 0, route |-> <<>>, open |-> FALSE, serving |-> FALSE, missed |-> FALSE]

NoRoute == [primary |-> 0, addl |-> <<>>]

ControlRequests ==
  [op: {"add"}, app: Apps, port: Ports, route: Routes]
    \cup [op: {"switch"}, app: Apps, port: {0}, route: Routes]
    \cup [op: {"remove"}, app: Apps, port: {0}, route: {NoRoute}]

NoRequest == [op |-> "none", app |-> 0, port |-> 0, route |-> NoRoute]

Idle == [pc |-> "idle", req |-> NoRequest, px |-> 0, old |-> 0,
         snap |-> [a \in Apps |-> NoApp], alone |-> FALSE]

Busy == {c \in Conns : conn[c].pc # "idle"}

BusyApps == {conn[c].req.app : c \in Busy}

-----------------------------------------------------------------------------
(* The set of targets.                                                     *)

\* SetTarget: the primary first, no host twice.
SetTarget(r) ==
  FoldLeft(LAMBDA s, h : IF h \in Range(s) THEN s ELSE Append(s, h), <<r.primary>>, r.addl)

\* The backends among the hosts that are up, in their order.
Answering(route, up) == SelectSeq(route, LAMBDA h : h \in up)

\* A bug: the persisted set is restored whatever answers.
ReconcileMutant(route) == route

\* reconcileBackends: what no longer accepts connections is dropped, unless
\* nothing does.  The primary is the first of the route, so that the first live
\* backend replaces it exactly when it is gone.
Reconcile(route) ==
  IF \E h \in Range(route) : h \in reach
  THEN Answering(route, reach) ELSE route

\* What snapshotPersist collects, under the daemon's lock.
Routing == [a \in Apps |-> IF proxies[a] = 0 THEN NoApp
                           ELSE [port |-> objs[proxies[a]].port,
                                 route |-> objs[proxies[a]].route]]

\* Nothing refers to the object any more.
Unused == {p \in Px : /\ ~objs[p].open
                      /\ \A a \in Apps : proxies[a] # p
                      /\ \A c \in Conns : p \notin {conn[c].px, conn[c].old}}

PortFree(port) == port \notin foreign /\ \A p \in Px : objs[p].open => objs[p].port # port

NewProxy(port, route) == [port |-> port, route |-> route, open |-> TRUE,
                          serving |-> FALSE, missed |-> FALSE]

\* Proxy.Shutdown closes the listener through the server, which the goroutine
\* of startAppProxy creates: before it ran there is nothing to shut down.
Closed(p) == IF objs[p].serving THEN [objs[p] EXCEPT !.open = FALSE]
             ELSE [objs[p] EXCEPT !.missed = TRUE]

At(c, pc) == daemon # "down" /\ conn[c].pc = pc

Goto(c, pc) == conn' = [conn EXCEPT ![c].pc = pc]

\* The reply; the connection is closed.
Reply(c) == conn' = [conn EXCEPT ![c] = Idle]

Quiet == UNCHANGED <<daemon, foreign, reach, sent, outages, before>>

-----------------------------------------------------------------------------
(* A control connection: one request, one reply.                           *)

\* handleConn reads a request.  before is of no interest from here on.
Arrive(c, r) ==
  /\ daemon = "up" /\ conn[c].pc = "idle" /\ sent < MaxRequests
  /\ sent' = sent + 1
  /\ conn' = [d \in Conns |->
                IF d = c THEN [Idle EXCEPT !.pc = "lookup", !.req = r, !.alone = (Busy = {})]
                ELSE [conn[d] EXCEPT !.alone = FALSE]]
  /\ settled' = (settled /\ Busy = {})
  /\ before' = [a \in Apps |-> NoApp] /\ reach' = Hosts
  /\ UNCHANGED <<daemon, proxies, objs, file, foreign, outages>>

\* The entry of the application, read under the lock.  Switching an application
\* that is not enrolled is refused; removing it is acknowledged.
Lookup(c) ==
  /\ At(c, "lookup")
  /\ LET r == conn[c].req
         p == proxies[r.app]
         enrolled == p # 0 /\ (r.op = "add" => objs[p].port = r.port)
     IN
       \/ r.op # "remove" /\ enrolled /\ proxies' = proxies
            /\ conn' = [conn EXCEPT ![c].pc = "swap", ![c].px = p]
       \/ r.op = "add" /\ ~enrolled /\ Goto(c, "bind") /\ proxies' = proxies
       \/ r.op = "remove" /\ p # 0 /\ proxies' = [proxies EXCEPT ![r.app] = 0]
            /\ conn' = [conn EXCEPT ![c].pc = "retire", ![c].old = p]
       \/ r.op # "add" /\ p = 0 /\ Reply(c) /\ proxies' = proxies
  /\ UNCHANGED <<objs, file, settled>> /\ Quiet

\* A bug: a changed membership is not persisted.
SwapMutant(c) ==
  /\ At(c, "swap") /\ Reply(c)
  /\ objs' = [objs EXCEPT ![conn[c].px].route = SetTarget(conn[c].req.route)]
  /\ UNCHANGED <<proxies, file, settled>> /\ Quiet

\* SetTarget on the Proxy found, which may have left the table since.
Swap(c) ==
  /\ At(c, "swap") /\ Goto(c, "snapshot")
  /\ objs' = [objs EXCEPT ![conn[c].px].route = SetTarget(conn[c].req.route)]
  /\ UNCHANGED <<proxies, file, settled>> /\ Quiet

\* New and startAppProxy: the listener is bound before the table knows of it.
Bind(c) ==
  /\ At(c, "bind")
  /\ LET r == conn[c].req IN
       \/ /\ ~PortFree(r.port) /\ Reply(c) /\ UNCHANGED objs
       \/ /\ PortFree(r.port) /\ Unused # {}
          /\ LET p == CHOOSE q \in Unused : \A o \in Unused : q <= o IN
               /\ objs' = [objs EXCEPT ![p] = NewProxy(r.port, SetTarget(r.route))]
               /\ conn' = [conn EXCEPT ![c].pc = "install", ![c].px = p]
  /\ UNCHANGED <<proxies, file, settled>> /\ Quiet

\* A bug: the Proxy that was replaced keeps its port.
InstallMutant(c) ==
  /\ At(c, "install") /\ Goto(c, "snapshot")
  /\ proxies' = [proxies EXCEPT ![conn[c].req.app] = conn[c].px]
  /\ UNCHANGED <<objs, file, settled>> /\ Quiet

\* The new Proxy replaces whatever is in the table by now.
Install(c) ==
  /\ At(c, "install")
  /\ LET old == proxies[conn[c].req.app] IN
       conn' = [conn EXCEPT ![c].pc = IF old = 0 THEN "snapshot" ELSE "retire",
                            ![c].old = old]
  /\ proxies' = [proxies EXCEPT ![conn[c].req.app] = conn[c].px]
  /\ UNCHANGED <<objs, file, settled>> /\ Quiet

\* Shutdown of the Proxy that left the table; it drains, then closes its port.
Retire(c) ==
  /\ At(c, "retire") /\ Goto(c, "snapshot")
  /\ objs' = [objs EXCEPT ![conn[c].old] = Closed(conn[c].old)]
  /\ UNCHANGED <<proxies, file, settled>> /\ Quiet

\* persistState, first half.
Snapshot(c) ==
  /\ At(c, "snapshot")
  /\ conn' = [conn EXCEPT ![c].pc = "write", ![c].snap = Routing]
  /\ UNCHANGED <<proxies, objs, file, settled>> /\ Quiet

\* persistState, second half: write a temporary file, rename it.  Failures are
\* logged only.
Write(c) ==
  /\ At(c, "write") /\ Reply(c)
  /\ \/ file' = conn[c].snap /\ settled' = (settled \/ conn[c].alone) /\ outages' = outages
     \/ outages < MaxOutages /\ outages' = outages + 1 /\ settled' = FALSE /\ file' = file
  /\ UNCHANGED <<daemon, proxies, objs, foreign, reach, sent, before>>

-----------------------------------------------------------------------------
(* The listeners, and the daemon's own life.                               *)

\* The goroutine of startAppProxy creates the server and serves.
Serve(p) ==
  /\ daemon # "down" /\ objs[p].open /\ ~objs[p].serving
  /\ objs' = [objs EXCEPT ![p].serving = TRUE]
  /\ UNCHANGED <<proxies, conn, file, settled>> /\ Quiet

\* Serve ends with an error: the goroutine drops the entry if it is still its own.
ListenerDies(p) ==
  /\ daemon = "up" /\ objs[p].open /\ objs[p].serving
  /\ outages < MaxOutages /\ outages' = outages + 1
  /\ objs' = [objs EXCEPT ![p].open = FALSE]
  /\ proxies' = [a \in Apps |-> IF proxies[a] = p THEN 0 ELSE proxies[a]]
  /\ settled' = FALSE /\ before' = [a \in Apps |-> NoApp]
  /\ conn' = [c \in Conns |-> [conn[c] EXCEPT !.alone = FALSE]]
  /\ UNCHANGED <<daemon, file, foreign, reach, sent>>

\* What a restart owes: the applications no request was under way for.
Expected == [a \in Apps |-> IF settled /\ a \notin BusyApps THEN Routing[a] ELSE NoApp]

\* The process is gone; until it is back other programs may take ports, and
\* backends may die or come back.
Gone ==
  /\ daemon' = "down"
  /\ proxies' = [a \in Apps |-> 0] /\ objs' = [p \in Px |-> NoProxy]
  /\ conn' = [c \in Conns |-> Idle]
  /\ foreign' \in SUBSET Ports /\ reach' \in SUBSET Hosts

Crash ==
  /\ daemon = "up" /\ outages < MaxOutages /\ outages' = outages + 1
  /\ Gone /\ before' = Expected
  /\ UNCHANGED <<file, sent, settled>>

\* OpShutdown: acknowledged, then no new connection and every listener closed.
Shutdown ==
  /\ daemon = "up" /\ outages < MaxOutages /\ outages' = outages + 1
  /\ daemon' = "closing" /\ before' = Expected
  /\ objs' = [p \in Px |-> IF \E a \in Apps : proxies[a] = p THEN Closed(p) ELSE objs[p]]
  /\ UNCHANGED <<proxies, conn, file, foreign, reach, sent, settled>>

\* Once every handler has replied.
Exit ==
  /\ daemon = "closing" /\ Busy = {} /\ Gone
  /\ UNCHANGED <<file, sent, outages, settled, before>>

\* Run and restoreState: the recorded applications whose ports can be bound, in
\* the order of their names (any order); if some cannot, the file is rewritten
\* without them.
Restart ==
  /\ daemon = "down" /\ daemon' = "up"
  /\ LET recorded == {a \in Apps : file[a] # NoApp}
         Clash(a, b) == a # b /\ file[a].port = file[b].port
     IN
       \E back \in SUBSET {a \in recorded : file[a].port \notin foreign} :
         LET id == CHOOSE f \in [Apps -> 0 .. Cardinality(back)] :
                     /\ \A a \in Apps : f[a] = 0 <=> a \notin back
                     /\ \A a, b \in back : f[a] = f[b] => a = b
             App(p) == CHOOSE a \in back : id[a] = p
         IN
           /\ \A a, b \in back : ~Clash(a, b)
           /\ \A a \in recorded \ back : \/ file[a].port \in foreign
                                         \/ \E b \in back : Clash(a, b)
           /\ proxies' = id
           /\ objs' = [p \in Px |->
                         IF p > Cardinality(back) THEN NoProxy
                         ELSE NewProxy(file[App(p)].port, Reconcile(file[App(p)].route))]
           /\ file' = IF back = recorded THEN file ELSE Routing'
  /\ settled' = (file' = Routing')
  /\ UNCHANGED <<conn, foreign, reach, sent, outages, before>>

\* The file cannot be read or decoded: the daemon starts with no enrolment.
RestartEmpty ==
  /\ daemon = "down" /\ daemon' = "up"
  /\ settled' = FALSE /\ before' = [a \in Apps |-> NoApp]
  /\ UNCHANGED <<proxies, objs, conn, file, foreign, reach, sent, outages>>

-----------------------------------------------------------------------------

Init ==
  /\ daemon = "up" /\ proxies = [a \in Apps |-> 0] /\ objs = [p \in Px |-> NoProxy]
  /\ conn = [c \in Conns |-> Idle]
  /\ file = [a \in Apps |-> NoApp]
  /\ foreign = {} /\ reach = Hosts /\ sent = 0 /\ outages = 0
  /\ settled = TRUE /\ before = [a \in Apps |-> NoApp]

Handler(c) == \/ \E r \in ControlRequests : Arrive(c, r)
              \/ Lookup(c) \/ Swap(c) \/ Bind(c) \/ Install(c) \/ Retire(c)
              \/ Snapshot(c) \/ Write(c)

Next ==
  \/ \E c \in Conns : Handler(c)
  \/ \E p \in Px : Serve(p) \/ ListenerDies(p)
  \/ Crash \/ Shutdown \/ Exit \/ Restart \/ RestartEmpty

Spec == Init /\ [][Next]_dvars

-----------------------------------------------------------------------------
(* Properties.                                                             *)

\* proxy-state.json describes what is routed, for every application no request is
\* under way for, unless handlers overlapped, a write failed or a listener died;
\* the next request served alone makes up for those (persistState after every
\* change of EnrollApp, SwitchApp and RemoveApp).
FileFollowsRouting ==
  daemon = "up" /\ settled => \A a \in Apps \ BusyApps : file[a] = Routing[a]

\* A daemon that died or was stopped at any point of a request comes back with
\* every other application enrolled on its port, routed to those of its backends
\* that answer, or to all of them when none does; an application is only lost to
\* a port that is taken (restoreState, reconcileBackends).
RestartKeepsRoutes ==
  daemon = "up" =>
    \A a \in Apps : before[a] # NoApp =>
      LET old == Range(before[a].route)
          new == Range(Routing[a].route)
      IN
        \/ /\ proxies[a] = 0
           /\ \/ before[a].port \in foreign
              \/ \E b \in Apps : Routing[b].port = before[a].port
        \/ /\ Routing[a].port = before[a].port
           /\ new = IF old \cap reach = {} THEN old ELSE old \cap reach

\* A public port is open for the Proxy in the table, for one a handler is about to
\* install or to shut down, or for one shut down before its server existed: no
\* order of enrolments, port changes and removals leaves another listener behind
\* (EnrollApp, RemoveApp, startAppProxy).
ListenersAccounted ==
  daemon = "up" =>
    \A p \in Px : objs[p].open =>
      \/ \E a \in Apps : proxies[a] = p
      \/ \E c \in Conns : \/ conn[c].pc = "install" /\ conn[c].px = p
                          \/ conn[c].pc = "retire" /\ conn[c].old = p
      \/ objs[p].missed

=============================================================================
