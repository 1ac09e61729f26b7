---------------------------- MODULE WorkerProofs ----------------------------
(***************************************************************************)
(* Proofs about WorkerFleet, for any number of replicas, processes and     *)
(* versions, any faults, policies and commands.                            *)
(***************************************************************************)
EXTENDS WorkerFleet, FiniteSetTheorems, WellFoundedInduction, TLAPS

-----------------------------------------------------------------------------
(* The slot a loop is at.                                                  *)

\* A nonempty set of naturals has a least element.
LEMMA Least ==
  ASSUME NEW T \in SUBSET Nat, T # {}
  PROVE  \E m \in T : \A k \in T : m <= k
<1> DEFINE R == {ss \in Nat \X Nat : ss[1] < ss[2]}
<1>1. IsWellFoundedOn(R, Nat)
  BY NatLessThanWellFounded DEF OpToRel
<1> HIDE DEF R
<1>2. PICK m \in T : \A y \in T : ~(<<y, m>> \in R)
  BY <1>1, WFMin
<1>3. \A y \in T : ~(y < m)
  BY <1>2 DEF R
<1> QED BY <1>3

First(T) == CHOOSE s \in T : \A t \in T : s <= t

\* The first slot of a nonempty set of slots is one of them.
LEMMA FirstIn ==
  ASSUME NEW T \in SUBSET Slot, T # {}
  PROVE  First(T) \in T /\ First(T) \in Slot /\ \A t \in T : First(T) <= t
<1>1. T \in SUBSET Nat
  BY BoundsAssumption DEF Slot
<1>2. \E m \in T : \A k \in T : m <= k
  BY <1>1, Least
<1> QED BY <1>2 DEF First

LEMMA CurIs == Cur = First(loc.todo)
BY DEF Cur, First

\* The slot the loop is at, when there is one left.
LEMMA CurIn ==
  ASSUME TypeOK, loc.todo # {}
  PROVE  Cur \in loc.todo /\ Cur \in Slot
<1>1. loc.todo \in SUBSET Slot
  BY DEF TypeOK, Local
<1> QED BY <1>1, FirstIn, CurIs

\* What a step that leaves the slots to visit alone keeps.
LEMMA CurKept ==
  ASSUME loc'.todo = loc.todo
  PROVE  Cur' = Cur
<1>1. Cur' = First(loc'.todo)
  BY DEF Cur, First
<1> QED BY <1>1, CurIs

-----------------------------------------------------------------------------
(* What the operators on deploy.json change.                               *)

\* j2 is j with the slots f and the replicas D.
Only(j2, j, D, f) ==
  /\ j2 \in Fleet /\ j2.on = D /\ j2.slots = f
  /\ j2.roll = j.roll /\ j2.touched = j.touched /\ j2.from = j.from
  /\ j2.active = j.active /\ j2.retiring = j.retiring

\* f2 is f with r at s.
Put(f2, f, s, r) == f2[s] = r /\ \A t \in Slot : t # s => f2[t] = f[t]

LEMMA FleetFields ==
  ASSUME NEW j \in Fleet
  PROVE  /\ j.on \in SUBSET Slot /\ j.slots \in [Slot -> Record]
         /\ j.roll \in {"none", "running", "done", "reverting", "recovery_required"}
         /\ j.touched \in SUBSET Slot /\ j.from \in [Slot -> Ver] /\ j.active \in Ver
         /\ j.retiring \in SUBSET Proc /\ \A s \in Slot : j.slots[s] \in Record /\ j.from[s] \in Ver
BY DEF Fleet

\* A record put back as it is changes nothing.
LEMMA SetFacts ==
  ASSUME NEW j \in Fleet, NEW s \in Slot, NEW r \in Record
  PROVE  /\ Only(Set(j, s, r), j, j.on, Set(j, s, r).slots)
         /\ Put(Set(j, s, r).slots, j.slots, s, r)
         /\ r = j.slots[s] => Set(j, s, r) = j
<1> DEFINE f == [j.slots EXCEPT ![s] = r]
           k == [j EXCEPT !.slots = f]
<1>0. Set(j, s, r) = k
  BY DEF Set
<1>1. f \in [Slot -> Record] /\ Put(f, j.slots, s, r)
  BY FleetFields DEF Put
<1>2. r = j.slots[s] => f = j.slots
  BY FleetFields
<1> HIDE DEF f
<1>3. k \in Fleet /\ k.on = j.on /\ k.slots = f /\ k.roll = j.roll /\ k.touched = j.touched
      /\ k.from = j.from /\ k.active = j.active /\ k.retiring = j.retiring
  BY <1>1 DEF Fleet
<1>4. f = j.slots => k = j
  BY DEF Fleet
<1> HIDE DEF k
<1> QED BY <1>0, <1>1, <1>2, <1>3, <1>4 DEF Only

LEMMA OnFacts ==
  ASSUME NEW j \in Fleet, NEW D \in SUBSET Slot
  PROVE  Only([j EXCEPT !.on = D], j, D, j.slots)
BY DEF Only, Fleet

\* Resize: the replicas are the first n slots, and the other records are empty.
LEMMA ResizeFacts ==
  ASSUME NEW j \in Fleet, NEW n \in 0 .. MaxReplicas
  PROVE  /\ Only(Resize(j, n), j, 0 .. n - 1, Resize(j, n).slots)
         /\ \A s \in Slot : Resize(j, n).slots[s] = IF s < n THEN j.slots[s] ELSE NoRec
         /\ 0 .. n - 1 \in SUBSET Slot /\ \A s \in Slot : s \in 0 .. n - 1 <=> s < n
<1> DEFINE f == [s \in Slot |-> IF s < n THEN j.slots[s] ELSE NoRec]
           D == 0 .. n - 1
           k == [j EXCEPT !.on = D, !.slots = f]
<1>0. Resize(j, n) = k
  BY DEF Resize
<1>1. NoRec \in Record
  BY BoundsAssumption DEF NoRec, Record, Ver, Status
<1>2. f \in [Slot -> Record] /\ \A s \in Slot : f[s] = IF s < n THEN j.slots[s] ELSE NoRec
  BY <1>1, FleetFields
<1>3. D \in SUBSET Slot /\ \A s \in Slot : s \in D <=> s < n
  BY BoundsAssumption DEF Slot
<1> HIDE DEF f, D
<1>4. k \in Fleet /\ k.on = D /\ k.slots = f /\ k.roll = j.roll /\ k.touched = j.touched
      /\ k.from = j.from /\ k.active = j.active /\ k.retiring = j.retiring
  BY <1>2, <1>3 DEF Fleet
<1> HIDE DEF k
<1>5. Only(k, j, D, k.slots)
  BY <1>4 DEF Only
<1> QED BY <1>0, <1>2, <1>3, <1>4, <1>5 DEF D

LEMMA RecordFields ==
  ASSUME NEW r \in Record
  PROVE  r.pid \in 0 .. MaxProcs /\ r.ver \in Ver /\ r.status \in Status /\ r.count \in 0 .. MaxAttempts
BY DEF Record

LEMMA NoPidFacts ==
  ASSUME NEW r \in Record
  PROVE  /\ NoPid(r) \in Record
         /\ NoPid(r).pid = 0 /\ NoPid(r).status = "stopped" /\ NoPid(r).ver = r.ver
<1>1. 0 \in 0 .. MaxProcs /\ "stopped" \in Status
  BY BoundsAssumption DEF Status
<1> QED BY <1>1 DEF NoPid, Record

\* Reap: what names no live process names none.
LEMMA ReapFacts ==
  ASSUME NEW j \in Fleet
  PROVE  /\ Only(Reap(j), j, j.on, Reap(j).slots)
         /\ \A s \in Slot : IF Live(j.slots[s]) \/ j.slots[s].pid = 0
                            THEN Reap(j).slots[s] = j.slots[s]
                            ELSE /\ Reap(j).slots[s].pid = 0 /\ Reap(j).slots[s].status = "stopped"
                                 /\ Reap(j).slots[s].ver = j.slots[s].ver
<1> DEFINE G(s) == IF Live(j.slots[s]) \/ j.slots[s].pid = 0 THEN j.slots[s]
                   ELSE NoPid(j.slots[s])
           f == [s \in Slot |-> G(s)]
           k == [j EXCEPT !.slots = f]
<1>0. Reap(j) = k
  BY DEF Reap, NoPid
<1>1. ASSUME NEW s \in Slot
      PROVE  /\ G(s) \in Record
             /\ IF Live(j.slots[s]) \/ j.slots[s].pid = 0 THEN G(s) = j.slots[s]
                ELSE G(s).pid = 0 /\ G(s).status = "stopped" /\ G(s).ver = j.slots[s].ver
  <2>1. j.slots[s] \in Record
    BY FleetFields
  <2> QED BY <2>1, NoPidFacts
<1> HIDE DEF G
<1>6. \A s \in Slot : G(s) \in Record
  BY <1>1
<1>2. f \in [Slot -> Record] /\ \A s \in Slot : f[s] = G(s)
  BY <1>6
<1> HIDE DEF f
<1>4. k \in Fleet /\ k.on = j.on /\ k.slots = f /\ k.roll = j.roll /\ k.touched = j.touched
      /\ k.from = j.from /\ k.active = j.active /\ k.retiring = j.retiring
  BY <1>2 DEF Fleet
<1> HIDE DEF k
<1>5. Only(k, j, j.on, k.slots)
  BY <1>4 DEF Only
<1> QED BY <1>0, <1>1, <1>2, <1>4, <1>5

LEMMA WithStatus ==
  ASSUME NEW r \in Record, NEW st \in Status
  PROVE  LET q == [r EXCEPT !.status = st]
         IN  q \in Record /\ q.pid = r.pid /\ q.ver = r.ver /\ q.status = st /\ q.count = r.count
BY DEF Record

LEMMA WithVersion ==
  ASSUME NEW r \in Record, NEW v \in Ver
  PROVE  LET q == [r EXCEPT !.ver = v]
         IN  q \in Record /\ q.pid = r.pid /\ q.ver = v /\ q.status = r.status /\ q.count = r.count
BY DEF Record

LEMMA WithProof ==
  ASSUME NEW r \in Record
  PROVE  LET q == [r EXCEPT !.status = "running", !.count = 0]
         IN  q \in Record /\ q.pid = r.pid /\ q.ver = r.ver /\ q.status = "running" /\ q.count = 0
<1>1. 0 \in 0 .. MaxProcs /\ 0 \in 0 .. MaxAttempts /\ "running" \in Status
  BY BoundsAssumption DEF Status
<1> QED BY <1>1 DEF Record

LEMMA WithoutCount ==
  ASSUME NEW r \in Record
  PROVE  LET q == [r EXCEPT !.count = 0]
         IN  q \in Record /\ q.pid = r.pid /\ q.ver = r.ver /\ q.status = r.status /\ q.count = 0
<1>1. 0 \in 0 .. MaxProcs /\ 0 \in 0 .. MaxAttempts /\ "running" \in Status
  BY BoundsAssumption DEF Status
<1> QED BY <1>1 DEF Record

LEMMA WithoutPid ==
  ASSUME NEW r \in Record
  PROVE  LET q == [r EXCEPT !.pid = 0]
         IN  q \in Record /\ q.pid = 0 /\ q.ver = r.ver /\ q.status = r.status /\ q.count = r.count
<1>1. 0 \in 0 .. MaxProcs /\ 0 \in 0 .. MaxAttempts /\ "running" \in Status
  BY BoundsAssumption DEF Status
<1> QED BY <1>1 DEF Record

LEMMA StampedFacts ==
  ASSUME NEW r \in Record, NEW v \in Ver, launched + 1 \in 0 .. MaxProcs
  PROVE  /\ Stamped(r, v) \in Record /\ Stamped(r, v).pid = launched + 1
         /\ Stamped(r, v).ver = v /\ Stamped(r, v).status = "starting"
<1>1. "starting" \in Status
  BY DEF Status
<1> QED BY <1>1 DEF Stamped, Record

\* Scheduled: the counter stays within max_attempts.
LEMMA ScheduledFacts ==
  ASSUME NEW r \in Record
  PROVE  /\ Scheduled(r) \in Record /\ Scheduled(r).pid = r.pid /\ Scheduled(r).ver = r.ver
         /\ Scheduled(r).status \in {"crashloop", "restarting"}
<1>1. CASE r.count >= MaxAttempts
  <2>1. Scheduled(r) = [r EXCEPT !.status = "crashloop"]
    BY <1>1 DEF Scheduled
  <2>2. "crashloop" \in Status
    BY DEF Status
  <2> QED BY <2>1, <2>2, WithStatus
<1>2. CASE ~(r.count >= MaxAttempts)
  <2>1. Scheduled(r) = [r EXCEPT !.status = "restarting", !.count = @ + 1]
    BY <1>2 DEF Scheduled
  <2>4. r.count \in 0 .. MaxAttempts /\ "restarting" \in Status
    BY RecordFields DEF Status
  <2>2. r.count + 1 \in 0 .. MaxAttempts
    BY <2>4, <1>2, BoundsAssumption
  <2>3. [r EXCEPT !.status = "restarting", !.count = r.count + 1] \in Record
    BY <2>2, <2>4 DEF Record
  <2> QED BY <2>1, <2>2, <2>3, <2>4 DEF Record
<1> QED BY <1>1, <1>2

LEMMA NoRecFacts ==
  /\ NoRec \in Record /\ NoRec.pid = 0 /\ NoRec.ver = 0 /\ NoRec.status = "stopped"
BY BoundsAssumption DEF NoRec, Record, Ver, Status

LEMMA NoFleetFacts ==
  /\ NoFleet \in Fleet /\ NoFleet.on = {} /\ NoFleet.retiring = {} /\ NoFleet.touched = {}
  /\ \A s \in Slot : NoFleet.slots[s] = NoRec /\ NoFleet.from[s] = 0
BY BoundsAssumption, NoRecFacts DEF NoFleet, Fleet, Ver

LEMMA LocalFields ==
  ASSUME NEW l \in Local
  PROVE  /\ l.todo \in SUBSET Slot /\ l.n \in 0 .. MaxReplicas /\ l.target \in Ver /\ l.old \in Record
         /\ l.surplus \in SUBSET Proc /\ l.dirty \in BOOLEAN
         /\ l.kind \in Commands \cup {"none", "pass", "boot"}
         /\ l.strategy \in Strategies \cup {"none"} /\ l.after \in {"none", "prepare", "fail", "boot"}
BY DEF Local

LEMMA NoLocFacts ==
  /\ NoLoc \in Local /\ NoLoc.todo = {} /\ NoLoc.old = NoRec /\ NoLoc.kind = "none"
  /\ NoLoc.after = "none" /\ NoLoc.dirty = FALSE /\ NoLoc.n = 0 /\ NoLoc.surplus = {}
  /\ NoLoc.strategy = "none"
<1>1. 0 \in 0 .. MaxReplicas /\ 0 \in Ver
  BY BoundsAssumption DEF Ver
<1> QED BY <1>1, NoRecFacts DEF NoLoc, Local

-----------------------------------------------------------------------------
(* What the parts of the actions change.                                   *)

\* What every step does to the processes: it ends some and launches at most new ones.
Moved ==
  /\ launched' \in 0 .. MaxProcs /\ launched <= launched' /\ running' \subseteq 1 .. launched'
  /\ builtAs' \in [Proc -> Ver] /\ \A p \in 1 .. launched : builtAs'[p] = builtAs[p]
  /\ \A p \in running' : p \in running \/ p > launched

\* No process starts or ends.
Still == running' = running /\ died' = died /\ launched' = launched /\ builtAs' = builtAs

\* The processes of P end and no other.
Ends(P) == /\ running' = running \ P /\ died' = died /\ launched' = launched /\ builtAs' = builtAs
           /\ astray' = astray

\* The end of p is not confirmed.
Strays(p) == Still /\ p \in running /\ astray' = astray \cup {p}

\* One process starts, at version v.
Starts(v) == /\ launched' = launched + 1 /\ launched + 1 \in Proc /\ died' = died
             /\ running' = running \cup {launched + 1} /\ builtAs'[launched + 1] = v

LEMMA ProcsStill ==
  ASSUME TypeOK, UNCHANGED Procs
  PROVE  Still /\ Moved
BY DEF TypeOK, Procs, Still, Moved

LEMMA StoppedFacts ==
  ASSUME TypeOK, NEW P, Stopped(P)
  PROVE  Ends(P) /\ Moved /\ faults' = faults
<1>1. running' = running \ P /\ died' = died /\ launched' = launched /\ builtAs' = builtAs
      /\ astray' = astray /\ faults' = faults
  BY DEF Stopped, Fine
<1>2. launched \in 0 .. MaxProcs /\ running \subseteq 1 .. launched /\ builtAs \in [Proc -> Ver]
  BY DEF TypeOK
<1>3. launched <= launched
  BY <1>2, BoundsAssumption
<1> QED BY <1>1, <1>2, <1>3 DEF Ends, Moved

LEMMA FaultFacts ==
  ASSUME TypeOK, NEW k, Fault(k)
  PROVE  faults' \in 0 .. MaxFaults
<1>1. faults \in 0 .. MaxFaults /\ faults > 0 /\ faults' = faults - 1 /\ MaxFaults \in Nat
  BY BoundsAssumption DEF TypeOK, Fault
<1> QED BY <1>1

LEMMA StopFailsFacts ==
  ASSUME TypeOK, NEW p, StopFails(p)
  PROVE  Strays(p) /\ Moved /\ faults' \in 0 .. MaxFaults
BY FaultFacts, ProcsStill DEF StopFails, Strays

LEMMA TryStopFacts ==
  ASSUME TypeOK, NEW p, TryStop(p)
  PROVE  (Ends({p}) \/ Strays(p)) /\ Moved /\ faults' \in 0 .. MaxFaults
<1>1. faults \in 0 .. MaxFaults
  BY DEF TypeOK
<1> QED BY <1>1, StoppedFacts, StopFailsFacts DEF TryStop

LEMMA SpawnFacts ==
  ASSUME TypeOK, NEW v \in Ver, Spawn(v)
  PROVE  Starts(v) /\ Moved
<1>1. /\ launched \in 0 .. MaxProcs /\ launched < MaxProcs /\ running \subseteq 1 .. launched
      /\ builtAs \in [Proc -> Ver] /\ launched' = launched + 1 /\ died' = died
      /\ running' = running \cup {launched + 1} /\ builtAs' = [builtAs EXCEPT ![launched + 1] = v]
  BY DEF TypeOK, Spawn
<1>2. launched + 1 \in Proc /\ launched' \in 0 .. MaxProcs /\ launched <= launched'
      /\ launched + 1 > launched
  BY <1>1, BoundsAssumption DEF Proc
<1>3. running' \subseteq 1 .. launched'
  BY <1>1, BoundsAssumption
<1>4. builtAs' \in [Proc -> Ver] /\ builtAs'[launched + 1] = v
      /\ \A p \in 1 .. launched : builtAs'[p] = builtAs[p]
  BY <1>1, <1>2, BoundsAssumption
<1> QED BY <1>1, <1>2, <1>3, <1>4 DEF Starts, Moved

LEMMA SavedFacts ==
  ASSUME TypeOK, NEW j \in Fleet, Saved(j) \/ TrySave(j)
  PROVE  /\ state' \in Fleet /\ faults' \in 0 .. MaxFaults /\ unsaved' \in BOOLEAN
         /\ \/ state' = j /\ unsaved' = unsaved
            \/ TrySave(j) /\ state' = state /\ unsaved' = TRUE
         /\ Saved(j) => state' = j
<1>1. faults \in 0 .. MaxFaults /\ state \in Fleet /\ unsaved \in BOOLEAN
  BY DEF TypeOK
<1> QED BY <1>1, FaultFacts DEF Saved, TrySave, Fine

LEMMA SaveFailsFacts ==
  ASSUME TypeOK, SaveFails
  PROVE  faults' \in 0 .. MaxFaults /\ state' = state /\ unsaved' = unsaved
BY FaultFacts DEF SaveFails

\* The record of slot s in j2 names the process just launched, the others are those of j.
Relaunched(j2, j, s, v) ==
  /\ j2 \in Fleet /\ j2.on = j.on \cup {s}
  /\ j2.roll = j.roll /\ j2.touched = j.touched /\ j2.from = j.from
  /\ j2.active = j.active /\ j2.retiring = j.retiring
  /\ j2.slots[s].pid = launched + 1 /\ j2.slots[s].ver = v /\ j2.slots[s].status = "starting"
  /\ \A t \in Slot : t # s => j2.slots[t] = j.slots[t]

LEMMA LaunchedFacts ==
  ASSUME TypeOK, NEW s \in Slot, NEW v \in Ver, Launched(s, v)
  PROVE  /\ Starts(v) /\ Moved /\ v # 0 /\ astray' = astray
         /\ Relaunched(mem', mem, s, v)
         /\ state' = mem' /\ unsaved' = unsaved /\ faults' = faults
<1>1. v # 0 /\ Spawn(v) /\ astray' = astray /\ Saved(mem') /\ mem \in Fleet /\ launched \in 0 .. MaxProcs
      /\ mem' = Set([mem EXCEPT !.on = @ \cup {s}], s, Stamped(mem.slots[s], v))
  BY DEF Launched, TypeOK
<1>2. Starts(v) /\ Moved
  BY <1>1, SpawnFacts
<1>3. launched + 1 \in 0 .. MaxProcs
  BY <1>2, BoundsAssumption DEF Starts, Proc
<1> DEFINE D == mem.on \cup {s}
           j == [mem EXCEPT !.on = D]
           r == Stamped(mem.slots[s], v)
<1>4. D \in SUBSET Slot /\ mem.slots[s] \in Record
  BY <1>1, FleetFields
<1>5. Only(j, mem, D, mem.slots)
  BY <1>1, <1>4, OnFacts
<1>6. r \in Record /\ r.pid = launched + 1 /\ r.ver = v /\ r.status = "starting"
  BY <1>3, <1>4, StampedFacts
<1>7. mem' = Set(j, s, r)
  BY <1>1
<1> HIDE DEF j, r
<1>8. j \in Fleet
  BY <1>5 DEF Only
<1>9. Only(mem', j, j.on, mem'.slots) /\ Put(mem'.slots, j.slots, s, r)
  BY <1>6, <1>7, <1>8, SetFacts
<1>10. Relaunched(mem', mem, s, v)
  BY <1>5, <1>6, <1>9 DEF Only, Put, Relaunched
<1> QED BY <1>1, <1>2, <1>10 DEF Saved, Fine

\* The record a failed launch leaves, and the process number it may have used up.
LEMMA LaunchFailsFacts ==
  ASSUME TypeOK, loc.todo # {}, NEW v \in Ver, NEW r, LaunchFails(v, r)
  PROVE  /\ r \in Record /\ r.ver = v /\ running' = running /\ died' = died /\ Moved
         /\ \/ r.pid = Rec.pid /\ r.status = Rec.status /\ launched' = launched
            \/ r.pid = launched + 1 /\ r.status = "starting" /\ launched' = launched + 1
         /\ state' = state /\ unsaved' = unsaved /\ astray' = astray /\ faults' \in 0 .. MaxFaults
<1>1. /\ mem \in Fleet /\ Cur \in Slot /\ launched \in 0 .. MaxProcs /\ faults \in 0 .. MaxFaults
      /\ builtAs \in [Proc -> Ver] /\ running \subseteq 1 .. launched
  BY CurIn DEF TypeOK
<1>2. Rec \in Record
  BY <1>1, FleetFields DEF Rec
<1>3. state' = state /\ unsaved' = unsaved /\ astray' = astray
  BY DEF LaunchFails, Unsaved
<1>4. CASE /\ (v = 0 /\ Fine) \/ (v # 0 /\ Fault("launch"))
           /\ r = [Rec EXCEPT !.ver = v] /\ UNCHANGED Procs
  <2>1. faults' \in 0 .. MaxFaults
    BY <1>1, <1>4, FaultFacts DEF Fine
  <2>2. r \in Record /\ r.ver = v /\ r.pid = Rec.pid /\ r.status = Rec.status
    BY <1>2, <1>4, WithVersion
  <2> QED BY <1>3, <1>4, <2>1, <2>2, ProcsStill DEF Still
<1>5. CASE /\ v # 0 /\ Fault("store") /\ launched < MaxProcs /\ launched' = launched + 1
           /\ builtAs' = [builtAs EXCEPT ![launched + 1] = v]
           /\ r = Stamped(Rec, v) /\ UNCHANGED <<running, died, clean>>
  <2>1. faults' \in 0 .. MaxFaults
    BY <1>5, FaultFacts
  <2>2. /\ launched + 1 \in 0 .. MaxProcs /\ launched' \in 0 .. MaxProcs /\ launched <= launched'
        /\ launched + 1 \in Proc /\ launched + 1 \notin 1 .. launched
    BY <1>1, <1>5, BoundsAssumption DEF Proc
  <2>3. r \in Record /\ r.ver = v /\ r.pid = launched + 1 /\ r.status = "starting"
    BY <1>2, <1>5, <2>2, StampedFacts
  <2>4. running' \subseteq 1 .. launched'
    BY <1>1, <1>5, BoundsAssumption
  <2>5. builtAs' \in [Proc -> Ver] /\ \A p \in 1 .. launched : builtAs'[p] = builtAs[p]
    BY <1>1, <1>5, <2>2
  <2> QED BY <1>3, <1>5, <2>1, <2>2, <2>3, <2>4, <2>5 DEF Moved
<1> QED BY <1>4, <1>5 DEF LaunchFails

\* loc2 is loc but for what is still to visit and the record replaced.
Visits(l2, l, T, o) ==
  /\ l2 \in Local /\ l2.todo = T /\ l2.old = o
  /\ l2.kind = l.kind /\ l2.n = l.n /\ l2.target = l.target /\ l2.surplus = l.surplus
  /\ l2.strategy = l.strategy /\ l2.after = l.after

LEMMA AdvanceFacts ==
  ASSUME TypeOK, NEW loop, NEW end, Advance(loop, end)
  PROVE  /\ Visits(loc', loc, loc.todo \ {Cur}, NoRec) /\ loc'.dirty = loc.dirty
         /\ pc' = IF loc.todo \ {Cur} = {} THEN end ELSE loop
         /\ outcome' = outcome
<1>1. loc \in Local /\ loc' = [loc EXCEPT !.todo = @ \ {Cur}, !.old = NoRec] /\ outcome' = outcome
      /\ pc' = IF loc'.todo = {} THEN end ELSE loop
  BY DEF Advance, TypeOK
<1>2. Visits(loc', loc, loc.todo \ {Cur}, NoRec) /\ loc'.dirty = loc.dirty
  BY <1>1, NoRecFacts DEF Local, Visits
<1> QED BY <1>1, <1>2 DEF Visits

\* j2 is j with the record r at the slot the loop is at.
Revised(j2, j, s, r) == Only(j2, j, j.on, j2.slots) /\ Put(j2.slots, j.slots, s, r)

LEMMA SetCur ==
  ASSUME TypeOK, loc.todo # {}, NEW r \in Record
  PROVE  Revised(Set(mem, Cur, r), mem, Cur, r) /\ (r = Rec => Set(mem, Cur, r) = mem)
<1>1. mem \in Fleet /\ Cur \in Slot
  BY CurIn DEF TypeOK
<1> QED BY <1>1, SetFacts DEF Revised, Rec

LEMMA RecIn ==
  ASSUME TypeOK, loc.todo # {}
  PROVE  Rec \in Record
BY CurIn, FleetFields DEF TypeOK, Rec

LEMMA PassNextFacts ==
  ASSUME TypeOK, loc.todo # {}, NEW r \in Record, PassNext(r)
  PROVE  /\ Revised(mem', mem, Cur, r) /\ (r = Rec => mem' = mem)
         /\ Visits(loc', loc, loc.todo \ {Cur}, loc.old) /\ loc'.dirty = (loc.dirty \/ r # Rec)
         /\ pc' = IF loc.todo \ {Cur} = {} THEN "passed" ELSE "pass"
         /\ outcome' = outcome
<1>1. loc \in Local /\ loc' = [loc EXCEPT !.dirty = @ \/ r # Rec, !.todo = @ \ {Cur}] /\ outcome' = outcome
      /\ pc' = (IF loc'.todo = {} THEN "passed" ELSE "pass") /\ mem' = Set(mem, Cur, r)
  BY DEF PassNext, TypeOK
<1> DEFINE d == loc.dirty \/ r # Rec
<1>2. d \in BOOLEAN
  OBVIOUS
<1>3. loc' = [loc EXCEPT !.dirty = d, !.todo = @ \ {Cur}]
  BY <1>1
<1> HIDE DEF d
<1>4. Visits(loc', loc, loc.todo \ {Cur}, loc.old) /\ loc'.dirty = d
  BY <1>1, <1>2, <1>3 DEF Local, Visits
<1> QED BY <1>1, <1>4, SetCur DEF Visits, d

LEMMA ReturnFacts ==
  ASSUME NEW r, Return(r)
  PROVE  pc' = "idle" /\ loc' = NoLoc /\ mem' = NoFleet /\ outcome' = r
         /\ loc' \in Local /\ mem' \in Fleet
BY NoFleetFacts, NoLocFacts DEF Return

-----------------------------------------------------------------------------
(* Where an operation may be, and with what.                               *)

\* The steps of a loop over the slots.
AtSlot == {"pass", "start", "startWait", "stop", "stopSave", "restart", "relaunch", "restarted",
  "grow", "grown", "roll", "rollGate", "rollStop", "rollDrain", "drain", "drainStop", "drainSave",
  "launch", "gate", "gateStop", "revertSlot", "revertLaunch", "revertGate", "revertSave",
  "revertUndo", "revertRecord"}

RollPc == {"roll", "rollGate", "rollStop", "rollDrain", "rollBack", "rollRetire"}

ClassicPc == {"drain", "drainStop", "drainSave", "launch", "gate", "gateStop"}

RevertPc == {"revert", "revertSlot", "revertLaunch", "revertGate", "revertSave", "revertUndo",
  "revertRecord", "recovery", "revertEnd"}

CommandPc == {"start", "startWait", "stop", "stopSave", "halted", "restart", "relaunch",
  "restarted", "grow", "grown", "shrink", "done"}

DeployPc == {"deploy", "prepare", "build", "undo", "promote"} \cup RollPc \cup ClassicPc

Pcs == {"idle", "pass", "passed"} \cup CommandPc \cup DeployPc \cup RevertPc

Placed ==
  /\ pc \in Pcs
  /\ pc \in AtSlot => loc.todo # {}
  /\ pc = "idle" => mem = NoFleet /\ loc = NoLoc
  /\ pc \in {"pass", "passed"} => loc.kind = "pass" /\ loc.after = "none"
  /\ pc \in CommandPc => loc.kind \notin {"pass", "boot", "deploy"} /\ loc.after = "none"
  /\ pc \in {"deploy", "prepare", "build"} => loc.kind = "deploy" /\ loc.after = "prepare"
  /\ pc \in RollPc \cup ClassicPc \cup {"undo", "promote"} => loc.kind = "deploy" /\ loc.after = "fail"
  /\ pc \in RevertPc => \/ loc.kind = "deploy" /\ loc.after \in {"prepare", "fail"}
                        \/ loc.kind = "boot" /\ loc.after = "boot"
  /\ loc.kind = "deploy" => loc.n \in 1 .. MaxReplicas
  /\ pc \in {"build"} \cup ClassicPc => mem.on # {}

\* What an operation leaves alone in nearly every step.
Aside == /\ handle' = handle /\ fails' = fails /\ bad' = bad /\ ops' = ops
         /\ lostHolder' = lostHolder /\ stopped' = stopped /\ before' = before

LEMMA AsideIs ==
  ASSUME UNCHANGED SupMem, UNCHANGED Rest
  PROVE  Aside
BY DEF SupMem, Rest, Aside

LEMMA TypesKept ==
  ASSUME TypeOK, Moved, Aside, state' \in Fleet, mem' \in Fleet, loc' \in Local,
         faults' \in 0 .. MaxFaults, unsaved' \in BOOLEAN
  PROVE  TypeOK'
BY DEF TypeOK, Moved, Aside

LEMMA TypesNow ==
  ASSUME TypeOK
  PROVE  /\ state \in Fleet /\ mem \in Fleet /\ loc \in Local /\ faults \in 0 .. MaxFaults
         /\ unsaved \in BOOLEAN /\ stopped \in BOOLEAN /\ lostHolder \in BOOLEAN
         /\ launched \in 0 .. MaxProcs /\ running \subseteq 1 .. launched
         /\ before \in [Slot -> Ver] /\ bad \in 0 .. MaxBad /\ ops \in 0 .. MaxOps
         /\ handle \in [Slot -> 0 .. MaxProcs] /\ fails \in [Slot -> 0 .. Retries - 1]
BY DEF TypeOK

LEMMA PlacedIdle ==
  ASSUME pc' = "idle", mem' = NoFleet, loc' = NoLoc
  PROVE  Placed'
BY NoLocFacts DEF Placed, AtSlot, RollPc, ClassicPc, RevertPc, CommandPc, DeployPc, Pcs

\* The loop goes on, or ends.
Over(loop, end) ==
  /\ Visits(loc', loc, loc.todo \ {Cur}, NoRec) /\ loc'.dirty = loc.dirty /\ outcome' = outcome
  /\ pc' = IF loc.todo \ {Cur} = {} THEN end ELSE loop

\* The operation ends.
Ended(r) == pc' = "idle" /\ loc' = NoLoc /\ mem' = NoFleet /\ outcome' = r

\* A Store that may have failed unnoticed.
Tried(j) == \/ state' = j /\ unsaved' = unsaved
            \/ state' = state /\ unsaved' = TRUE

\* The record of the slot the loop is at becomes one of process p and version v.
Rewritten(p, v, st) ==
  /\ Only(mem', mem, mem.on, mem'.slots)
  /\ mem'.slots[Cur].pid = p /\ mem'.slots[Cur].ver = v /\ mem'.slots[Cur].status = st
  /\ \A t \in Slot : t # Cur => mem'.slots[t] = mem.slots[t]

LEMMA RewrittenIs ==
  ASSUME NEW r, Revised(mem', mem, Cur, r)
  PROVE  Rewritten(r.pid, r.ver, r.status) /\ mem' \in Fleet
BY DEF Revised, Put, Rewritten, Only

LEMMA StartSlotEffect ==
  ASSUME TypeOK, Placed, StartSlot
  PROVE  /\ TypeOK' /\ Placed' /\ Moved /\ Aside /\ pc = "start" /\ astray' = astray
         /\ \/ Still /\ Over("start", "done") /\ mem' = mem /\ Unsaved
            \/ Still /\ Over("start", "done") /\ Rewritten(Rec.pid, Rec.ver, "running") /\ Tried(mem')
            \/ /\ ~Live(Rec) /\ Starts(Rec.ver) /\ Relaunched(mem', mem, Cur, Rec.ver) /\ state' = mem'
               /\ unsaved' = unsaved /\ loc' = loc /\ pc' = "startWait"
            \/ running' = running /\ died' = died /\ Ended("error") /\ Unsaved
<1>1. pc = "start" /\ UNCHANGED SupMem /\ UNCHANGED Rest /\ loc.todo # {}
  BY DEF StartSlot, Placed, AtSlot
<1>2. Aside
  BY <1>1, AsideIs
<1>3. Cur \in Slot /\ Rec \in Record /\ Rec.ver \in Ver
  BY <1>1, CurIn, RecIn, RecordFields
<1>4. CASE /\ Live(Rec) /\ Rec.status \in {"running", "starting"}
           /\ Advance("start", "done") /\ Fine /\ Unsaved /\ UNCHANGED <<Procs, mem, astray>>
  <2>1. Over("start", "done") /\ loc' \in Local /\ Still /\ Moved
    BY <1>4, AdvanceFacts, ProcsStill DEF Over, Visits
  <2>2. TypeOK'
    BY <1>2, <1>4, <2>1, TypesKept, TypesNow DEF Fine, Unsaved
  <2>3. Placed'
    BY <1>1, <2>1 DEF Over, Visits, Placed, AtSlot, RollPc, ClassicPc, RevertPc, CommandPc, DeployPc, Pcs
  <2> QED BY <1>1, <1>2, <1>4, <2>1, <2>2, <2>3
<1>5. CASE /\ Live(Rec) /\ Rec.status \notin {"running", "starting"}
           /\ mem' = Set(mem, Cur, [Rec EXCEPT !.status = "running"])
           /\ TrySave(mem') /\ Advance("start", "done") /\ UNCHANGED <<Procs, astray>>
  <2>1. Over("start", "done") /\ loc' \in Local /\ Still /\ Moved
    BY <1>5, AdvanceFacts, ProcsStill DEF Over, Visits
  <2>2. Rewritten(Rec.pid, Rec.ver, "running") /\ mem' \in Fleet
    <3> DEFINE r == [Rec EXCEPT !.status = "running"]
    <3>1. r \in Record /\ r.pid = Rec.pid /\ r.ver = Rec.ver /\ r.status = "running"
      BY <1>3, WithStatus DEF Status
    <3>2. mem' = Set(mem, Cur, r)
      BY <1>5
    <3> HIDE DEF r
    <3> QED BY <1>1, <3>1, <3>2, SetCur, RewrittenIs
  <2>3. Tried(mem') /\ state' \in Fleet /\ faults' \in 0 .. MaxFaults /\ unsaved' \in BOOLEAN
    BY <1>5, <2>2, SavedFacts DEF Tried
  <2>4. TypeOK'
    BY <1>2, <2>1, <2>2, <2>3, TypesKept
  <2>5. Placed'
    BY <1>1, <2>1 DEF Over, Visits, Placed, AtSlot, RollPc, ClassicPc, RevertPc, CommandPc, DeployPc, Pcs
  <2> QED BY <1>1, <1>2, <1>5, <2>1, <2>2, <2>3, <2>4, <2>5
<1>6. CASE ~Live(Rec) /\ Launched(Cur, Rec.ver) /\ Goto("startWait")
  <2>1. /\ Starts(Rec.ver) /\ Moved /\ Relaunched(mem', mem, Cur, Rec.ver)
        /\ state' = mem' /\ unsaved' = unsaved /\ astray' = astray /\ faults' = faults
    BY <1>3, <1>6, LaunchedFacts
  <2>2. mem' \in Fleet /\ loc' = loc /\ pc' = "startWait"
    BY <1>6, <2>1 DEF Relaunched, Goto
  <2>3. TypeOK'
    BY <1>2, <2>1, <2>2, TypesKept, TypesNow
  <2>4. Placed'
    BY <1>1, <2>2 DEF Placed, AtSlot, RollPc, ClassicPc, RevertPc, CommandPc, DeployPc, Pcs
  <2> QED BY <1>1, <1>2, <1>6, <2>1, <2>2, <2>3, <2>4
<1>7. CASE ~Live(Rec) /\ (\E r \in Records(Rec.ver) : LaunchFails(Rec.ver, r)) /\ Return("error")
  <2>1. running' = running /\ died' = died /\ Moved /\ state' = state /\ unsaved' = unsaved /\ astray' = astray
        /\ faults' \in 0 .. MaxFaults
    BY <1>1, <1>3, <1>7, LaunchFailsFacts
  <2>2. Ended("error") /\ loc' \in Local /\ mem' \in Fleet /\ Placed'
    BY <1>7, ReturnFacts, PlacedIdle DEF Ended
  <2>3. TypeOK'
    BY <1>2, <2>1, <2>2, TypesKept, TypesNow
  <2> QED BY <1>1, <1>2, <2>1, <2>2, <2>3 DEF Unsaved
<1> QED BY <1>4, <1>5, <1>6, <1>7 DEF StartSlot

LEMMA ReturnStep ==
  ASSUME TypeOK, Aside, Moved, NEW r, Return(r),
         state' \in Fleet, faults' \in 0 .. MaxFaults, unsaved' \in BOOLEAN
  PROVE  Ended(r) /\ TypeOK' /\ Placed'
BY ReturnFacts, PlacedIdle, TypesKept DEF Ended

\* A launch that succeeds.
LEMMA LaunchStep ==
  ASSUME TypeOK, Aside, loc.todo # {}, NEW v \in Ver, NEW to, Launched(Cur, v), Goto(to)
  PROVE  /\ Starts(v) /\ Moved /\ Relaunched(mem', mem, Cur, v) /\ v # 0
         /\ state' = mem' /\ unsaved' = unsaved /\ astray' = astray
         /\ loc' = loc /\ pc' = to /\ outcome' = outcome
         /\ TypeOK' /\ mem'.on # {}
<1>1. Cur \in Slot
  BY CurIn
<1>2. /\ Starts(v) /\ Moved /\ Relaunched(mem', mem, Cur, v) /\ v # 0
      /\ state' = mem' /\ unsaved' = unsaved /\ astray' = astray /\ faults' = faults
  BY <1>1, LaunchedFacts
<1>3. mem' \in Fleet /\ mem'.on # {} /\ loc' = loc /\ pc' = to /\ outcome' = outcome
  BY <1>2 DEF Relaunched, Goto
<1> QED BY <1>2, <1>3, TypesKept, TypesNow

\* A launch that fails.
Fizzles == /\ running' = running /\ died' = died /\ Moved /\ Unsaved /\ astray' = astray
           /\ state' \in Fleet /\ faults' \in 0 .. MaxFaults /\ unsaved' \in BOOLEAN

LEMMA FizzleFacts ==
  ASSUME TypeOK, loc.todo # {}, NEW v \in Ver, \E r \in Records(v) : LaunchFails(v, r)
  PROVE  Fizzles
BY LaunchFailsFacts, TypesNow DEF Unsaved, Fizzles

LEMMA SetStep ==
  ASSUME TypeOK, loc.todo # {}, NEW r \in Record, mem' = Set(mem, Cur, r)
  PROVE  Rewritten(r.pid, r.ver, r.status) /\ mem' \in Fleet
BY SetCur, RewrittenIs

LEMMA SetStatus ==
  ASSUME TypeOK, loc.todo # {}, NEW st \in Status, mem' = Set(mem, Cur, [Rec EXCEPT !.status = st])
  PROVE  Rewritten(Rec.pid, Rec.ver, st) /\ mem' \in Fleet
<1> DEFINE r == [Rec EXCEPT !.status = st]
<1>1. r \in Record /\ r.pid = Rec.pid /\ r.ver = Rec.ver /\ r.status = st
  BY RecIn, WithStatus
<1> HIDE DEF r
<1>2. mem' = Set(mem, Cur, r)
  BY DEF r
<1> QED BY <1>1, <1>2, SetStep

LEMMA SetNoPid ==
  ASSUME TypeOK, loc.todo # {}, mem' = Set(mem, Cur, NoPid(Rec))
  PROVE  Rewritten(0, Rec.ver, "stopped") /\ mem' \in Fleet
<1> DEFINE r == NoPid(Rec)
<1>1. r \in Record /\ r.pid = 0 /\ r.ver = Rec.ver /\ r.status = "stopped"
  BY RecIn, NoPidFacts
<1> HIDE DEF r
<1>2. mem' = Set(mem, Cur, r)
  BY DEF r
<1> QED BY <1>1, <1>2, SetStep

LEMMA ProvenStep ==
  ASSUME TypeOK, Aside, loc.todo # {}, NEW loop, Proven(loop)
  PROVE  /\ Still /\ Moved /\ Over(loop, "done") /\ Rewritten(Rec.pid, Rec.ver, "running")
         /\ Tried(mem') /\ astray' = astray /\ TypeOK'
<1> DEFINE r == [Rec EXCEPT !.status = "running", !.count = 0]
<1>1. r \in Record /\ r.pid = Rec.pid /\ r.ver = Rec.ver /\ r.status = "running"
  BY RecIn, WithProof
<1>2. mem' = Set(mem, Cur, r) /\ TrySave(mem') /\ Advance(loop, "done") /\ UNCHANGED Procs
      /\ astray' = astray
  BY DEF Proven
<1> HIDE DEF r
<1>3. Rewritten(Rec.pid, Rec.ver, "running") /\ mem' \in Fleet
  BY <1>1, <1>2, SetStep
<1>4. Over(loop, "done") /\ loc' \in Local /\ Still /\ Moved
  BY <1>2, AdvanceFacts, ProcsStill DEF Over, Visits
<1>5. Tried(mem') /\ state' \in Fleet /\ faults' \in 0 .. MaxFaults /\ unsaved' \in BOOLEAN
  BY <1>2, <1>3, SavedFacts DEF Tried
<1> QED BY <1>2, <1>3, <1>4, <1>5, TypesKept

LEMMA StartWaitEffect ==
  ASSUME TypeOK, Placed, StartWait
  PROVE  /\ TypeOK' /\ Placed' /\ Still /\ Moved /\ Aside /\ pc = "startWait" /\ astray' = astray
         /\ \/ Over("start", "done") /\ Rewritten(Rec.pid, Rec.ver, "running") /\ Tried(mem')
            \/ Ended("error") /\ Unsaved
<1>1. pc = "startWait" /\ UNCHANGED SupMem /\ UNCHANGED Rest /\ loc.todo # {}
  BY DEF StartWait, Placed, AtSlot
<1>2. Aside
  BY <1>1, AsideIs
<1>3. CASE Live(Rec) /\ Proven("start")
  <2>1. /\ Still /\ Moved /\ Over("start", "done") /\ Rewritten(Rec.pid, Rec.ver, "running")
        /\ Tried(mem') /\ astray' = astray /\ TypeOK'
    BY <1>1, <1>2, <1>3, ProvenStep
  <2>2. Placed'
    BY <1>1, <2>1 DEF Over, Visits, Placed, AtSlot, RollPc, ClassicPc, RevertPc, CommandPc, DeployPc, Pcs
  <2> QED BY <1>1, <1>2, <2>1, <2>2
<1>4. CASE ~Live(Rec) /\ Return("error") /\ Fine /\ Unsaved /\ UNCHANGED <<Procs, astray>>
  <2>1. Still /\ Moved
    BY <1>4, ProcsStill
  <2> QED BY <1>1, <1>2, <1>4, <2>1, ReturnStep, TypesNow DEF Fine, Unsaved
<1> QED BY <1>3, <1>4 DEF StartWait

LEMMA StopSlotEffect ==
  ASSUME TypeOK, Placed, StopSlot
  PROVE  /\ TypeOK' /\ Placed' /\ Moved /\ Aside /\ pc = "stop"
         /\ \/ /\ ~Live(Rec) /\ Still /\ Over("stop", "halted") /\ Rewritten(Rec.pid, Rec.ver, "stopped")
               /\ astray' = astray /\ (Tried(mem') \/ (Unsaved /\ mem' = mem))
            \/ /\ Live(Rec) /\ Ends({Rec.pid}) /\ Rewritten(0, Rec.ver, "stopped") /\ Unsaved
               /\ pc' = "stopSave" /\ loc' = loc
            \/ Strays(Rec.pid) /\ Unsaved /\ Ended("error")
<1>1. pc = "stop" /\ UNCHANGED SupMem /\ UNCHANGED Rest /\ loc.todo # {}
  BY DEF StopSlot, Placed, AtSlot
<1>2. Aside
  BY <1>1, AsideIs
<1>0. "stopped" \in Status
  BY DEF Status
<1>3. CASE /\ ~Live(Rec) /\ mem' = Set(mem, Cur, StopDead(Rec))
           /\ IF Rec.status # "stopped" THEN TrySave(mem') ELSE Fine /\ Unsaved
           /\ Advance("stop", "halted") /\ UNCHANGED <<Procs, astray>>
  <2>1. Over("stop", "halted") /\ loc' \in Local /\ Still /\ Moved
    BY <1>3, AdvanceFacts, ProcsStill DEF Over, Visits
  <2>2. mem' = Set(mem, Cur, [Rec EXCEPT !.status = "stopped"])
    BY <1>3 DEF StopDead
  <2>3. Rewritten(Rec.pid, Rec.ver, "stopped") /\ mem' \in Fleet
    BY <1>0, <1>1, <2>2, SetStatus
  <2>4. Rec.status = "stopped" => mem' = mem
    <3>1. Rec.status = "stopped" => [Rec EXCEPT !.status = "stopped"] = Rec
      BY <1>1, RecIn DEF Record
    <3> QED BY <1>1, <2>2, <3>1, RecIn, SetCur
  <2>5. /\ Tried(mem') \/ (Unsaved /\ mem' = mem)
        /\ state' \in Fleet /\ faults' \in 0 .. MaxFaults /\ unsaved' \in BOOLEAN
    BY <1>3, <2>3, <2>4, SavedFacts, TypesNow DEF Tried, Fine, Unsaved
  <2>6. TypeOK'
    BY <1>2, <2>1, <2>3, <2>5, TypesKept
  <2>7. Placed'
    BY <1>1, <2>1 DEF Over, Visits, Placed, AtSlot, RollPc, ClassicPc, RevertPc, CommandPc, DeployPc, Pcs
  <2> QED BY <1>1, <1>2, <1>3, <2>1, <2>3, <2>5, <2>6, <2>7
<1>4. CASE /\ Live(Rec) /\ Stopped({Rec.pid}) /\ Unsaved /\ Goto("stopSave")
           /\ mem' = Set(mem, Cur, [Rec EXCEPT !.pid = 0, !.status = "stopped"])
  <2>1. Ends({Rec.pid}) /\ Moved /\ faults' = faults
    BY <1>4, StoppedFacts
  <2>2. Rewritten(0, Rec.ver, "stopped") /\ mem' \in Fleet
    BY <1>1, <1>4, SetNoPid DEF NoPid
  <2>3. loc' = loc /\ pc' = "stopSave"
    BY <1>4 DEF Goto
  <2>4. TypeOK'
    BY <1>2, <1>4, <2>1, <2>2, <2>3, TypesKept, TypesNow DEF Unsaved
  <2>5. Placed'
    BY <1>1, <2>3 DEF Placed, AtSlot, RollPc, ClassicPc, RevertPc, CommandPc, DeployPc, Pcs
  <2> QED BY <1>1, <1>2, <1>4, <2>1, <2>2, <2>3, <2>4, <2>5
<1>5. CASE Live(Rec) /\ StopFails(Rec.pid) /\ Unsaved /\ Return("error")
  BY <1>1, <1>2, <1>5, ReturnStep, StopFailsFacts, TypesNow DEF Unsaved
<1> QED BY <1>3, <1>4, <1>5 DEF StopSlot

LEMMA StopSaveEffect ==
  ASSUME TypeOK, Placed, StopSave
  PROVE  /\ TypeOK' /\ Placed' /\ Still /\ Moved /\ Aside /\ pc = "stopSave" /\ astray' = astray
         /\ unsaved' = unsaved
         /\ \/ Over("stop", "halted") /\ mem' = mem /\ state' = mem
            \/ Ended("error") /\ Unsaved
<1>1. pc = "stopSave" /\ UNCHANGED SupMem /\ UNCHANGED Rest /\ loc.todo # {} /\ UNCHANGED <<Procs, astray>>
  BY DEF StopSave, Placed, AtSlot
<1>2. Aside /\ Still /\ Moved
  BY <1>1, AsideIs, ProcsStill
<1>3. CASE Saved(mem) /\ Advance("stop", "halted") /\ UNCHANGED mem
  <2>1. Over("stop", "halted") /\ loc' \in Local
    BY <1>3, AdvanceFacts DEF Over, Visits
  <2>2. TypeOK' /\ state' = mem /\ unsaved' = unsaved
    BY <1>2, <1>3, <2>1, TypesKept, TypesNow, SavedFacts DEF Saved
  <2>3. Placed'
    BY <1>1, <2>1 DEF Over, Visits, Placed, AtSlot, RollPc, ClassicPc, RevertPc, CommandPc, DeployPc, Pcs
  <2> QED BY <1>1, <1>2, <1>3, <2>1, <2>2, <2>3
<1>4. CASE SaveFails /\ Return("error")
  BY <1>1, <1>2, <1>4, ReturnStep, SaveFailsFacts, TypesNow DEF Unsaved
<1> QED BY <1>3, <1>4 DEF StopSave

LEMMA StopEndEffect ==
  ASSUME TypeOK, Placed, StopEnd
  PROVE  /\ TypeOK' /\ Placed' /\ Still /\ Moved /\ pc = "halted" /\ astray' = astray /\ Unsaved
         /\ Ended("stopped") /\ stopped' = ~unsaved /\ lostHolder' = lostHolder /\ before' = before
         /\ handle' = handle
<1>1. /\ pc = "halted" /\ Return("stopped") /\ stopped' = ~unsaved /\ faults' = faults /\ Unsaved
      /\ handle' = handle /\ fails' = fails /\ bad' = bad /\ ops' = ops /\ lostHolder' = lostHolder
      /\ before' = before /\ UNCHANGED Procs /\ astray' = astray
  BY DEF StopEnd, Fine, SupMem
<1>2. Still /\ Moved
  BY <1>1, ProcsStill
<1>3. Ended("stopped") /\ Placed' /\ loc' \in Local /\ mem' \in Fleet
  BY <1>1, ReturnFacts, PlacedIdle DEF Ended
<1>4. TypeOK'
  BY <1>1, <1>2, <1>3 DEF TypeOK, Moved, Unsaved
<1> QED BY <1>1, <1>2, <1>3, <1>4

LEMMA RestartSlotEffect ==
  ASSUME TypeOK, Placed, RestartSlot
  PROVE  /\ TypeOK' /\ Placed' /\ Moved /\ Aside /\ pc = "restart" /\ Unsaved
         /\ \/ Ends({Rec.pid}) /\ mem' = mem /\ loc' = loc /\ pc' = "relaunch"
            \/ Strays(Rec.pid) /\ Ended("error")
<1>1. pc = "restart" /\ UNCHANGED SupMem /\ UNCHANGED Rest /\ loc.todo # {} /\ Unsaved
  BY DEF RestartSlot, Placed, AtSlot
<1>2. Aside
  BY <1>1, AsideIs
<1>3. CASE Stopped({Rec.pid}) /\ Goto("relaunch") /\ UNCHANGED mem
  <2>1. Ends({Rec.pid}) /\ Moved /\ faults' = faults
    BY <1>3, StoppedFacts
  <2>2. loc' = loc /\ pc' = "relaunch"
    BY <1>3 DEF Goto
  <2>3. TypeOK'
    BY <1>1, <1>2, <1>3, <2>1, <2>2, TypesKept, TypesNow DEF Unsaved
  <2>4. Placed'
    BY <1>1, <2>2 DEF Placed, AtSlot, RollPc, ClassicPc, RevertPc, CommandPc, DeployPc, Pcs
  <2> QED BY <1>1, <1>2, <1>3, <2>1, <2>2, <2>3, <2>4
<1>4. CASE StopFails(Rec.pid) /\ Return("error")
  BY <1>1, <1>2, <1>4, ReturnStep, StopFailsFacts, TypesNow DEF Unsaved
<1> QED BY <1>3, <1>4 DEF RestartSlot

LEMMA RelaunchEffect ==
  ASSUME TypeOK, Placed, Relaunch
  PROVE  /\ TypeOK' /\ Placed' /\ Moved /\ Aside /\ pc = "relaunch" /\ astray' = astray /\ unsaved' = unsaved
         /\ \/ /\ Starts(Rec.ver) /\ Relaunched(mem', mem, Cur, Rec.ver) /\ state' = mem'
               /\ loc' = loc /\ pc' = "restarted"
            \/ running' = running /\ died' = died /\ Ended("error") /\ Unsaved
<1>1. pc = "relaunch" /\ UNCHANGED SupMem /\ UNCHANGED Rest /\ loc.todo # {}
  BY DEF Relaunch, Placed, AtSlot
<1>2. Aside /\ Rec.ver \in Ver
  BY <1>1, AsideIs, RecIn, RecordFields
<1>3. CASE Launched(Cur, Rec.ver) /\ Goto("restarted")
  <2>1. /\ Starts(Rec.ver) /\ Moved /\ Relaunched(mem', mem, Cur, Rec.ver)
        /\ state' = mem' /\ unsaved' = unsaved /\ astray' = astray
        /\ loc' = loc /\ pc' = "restarted" /\ TypeOK'
    BY <1>1, <1>2, <1>3, LaunchStep
  <2>2. Placed'
    BY <1>1, <2>1 DEF Placed, AtSlot, RollPc, ClassicPc, RevertPc, CommandPc, DeployPc, Pcs
  <2> QED BY <1>1, <1>2, <2>1, <2>2
<1>4. CASE (\E r \in Records(Rec.ver) : LaunchFails(Rec.ver, r)) /\ Return("error")
  <2>1. Fizzles
    BY <1>1, <1>2, <1>4, FizzleFacts
  <2> QED BY <1>1, <1>2, <1>4, <2>1, ReturnStep DEF Fizzles, Unsaved
<1> QED BY <1>3, <1>4 DEF Relaunch

LEMMA RestartedEffect ==
  ASSUME TypeOK, Placed, Restarted
  PROVE  /\ TypeOK' /\ Placed' /\ Still /\ Moved /\ Aside /\ pc = "restarted" /\ astray' = astray
         /\ Over("restart", "done") /\ Rewritten(Rec.pid, Rec.ver, "running") /\ Tried(mem')
<1>1. pc = "restarted" /\ UNCHANGED SupMem /\ UNCHANGED Rest /\ loc.todo # {} /\ Proven("restart")
  BY DEF Restarted, Placed, AtSlot
<1>2. Aside
  BY <1>1, AsideIs
<1>3. /\ Still /\ Moved /\ Over("restart", "done") /\ Rewritten(Rec.pid, Rec.ver, "running")
      /\ Tried(mem') /\ astray' = astray /\ TypeOK'
  BY <1>1, <1>2, ProvenStep
<1>4. Placed'
  BY <1>1, <1>3 DEF Over, Visits, Placed, AtSlot, RollPc, ClassicPc, RevertPc, CommandPc, DeployPc, Pcs
<1> QED BY <1>1, <1>2, <1>3, <1>4

\* mem' is mem with the set grown, and the slot's record names the process launched.
GrownTo(v) ==
  /\ mem' \in Fleet /\ mem'.retiring = mem.retiring
  /\ IF loc.n > Cardinality(mem.on)
     THEN /\ mem'.on = 0 .. loc.n - 1
          /\ \A t \in Slot : t # Cur => mem'.slots[t] = IF t < loc.n THEN mem.slots[t] ELSE NoRec
     ELSE mem'.on = mem.on /\ \A t \in Slot : t # Cur => mem'.slots[t] = mem.slots[t]
  /\ mem'.slots[Cur].pid = launched + 1 /\ mem'.slots[Cur].ver = v /\ mem'.slots[Cur].status = "starting"

LEMMA GrowSlotEffect ==
  ASSUME TypeOK, Placed, GrowSlot
  PROVE  /\ TypeOK' /\ Placed' /\ Moved /\ Aside /\ pc = "grow" /\ unsaved' = unsaved
         /\ \/ /\ Starts(loc.target) /\ GrownTo(loc.target) /\ state' = mem' /\ loc' = loc /\ pc' = "grown"
               /\ astray' = astray \cup (running \cap (Recorded(mem) \ Recorded(mem')))
            \/ running' = running /\ died' = died /\ Ended("error") /\ Unsaved /\ astray' = astray
<1>1. pc = "grow" /\ UNCHANGED SupMem /\ UNCHANGED Rest /\ loc.todo # {}
  BY DEF GrowSlot, Placed, AtSlot
<1>2. Aside /\ loc.target \in Ver /\ loc.n \in 0 .. MaxReplicas /\ Cur \in Slot /\ mem \in Fleet
  BY <1>1, AsideIs, LocalFields, TypesNow, CurIn
<1>3. CASE /\ loc.target # 0 /\ Spawn(loc.target)
           /\ mem' = LET j == IF loc.n > Cardinality(mem.on) THEN Resize(mem, loc.n) ELSE mem
                     IN  Set(j, Cur, Stamped(j.slots[Cur], loc.target))
           /\ Saved(mem') /\ Goto("grown")
           /\ astray' = astray \cup (running \cap (Recorded(mem) \ Recorded(mem')))
  <2>1. Starts(loc.target) /\ Moved /\ launched + 1 \in 0 .. MaxProcs
    BY <1>2, <1>3, SpawnFacts, BoundsAssumption DEF Starts, Proc
  <2> DEFINE j == IF loc.n > Cardinality(mem.on) THEN Resize(mem, loc.n) ELSE mem
             r == Stamped(j.slots[Cur], loc.target)
  <2>2. mem' = Set(j, Cur, r)
    BY <1>3
  <2>3. /\ j \in Fleet /\ j.retiring = mem.retiring
        /\ IF loc.n > Cardinality(mem.on)
           THEN j.on = 0 .. loc.n - 1 /\ \A t \in Slot : j.slots[t] = IF t < loc.n THEN mem.slots[t] ELSE NoRec
           ELSE j = mem
    BY <1>2, ResizeFacts DEF Only
  <2> HIDE DEF j
  <2>4. r \in Record /\ r.pid = launched + 1 /\ r.ver = loc.target /\ r.status = "starting"
    BY <1>2, <2>1, <2>3, FleetFields, StampedFacts
  <2> HIDE DEF r
  <2>5. Only(mem', j, j.on, mem'.slots) /\ Put(mem'.slots, j.slots, Cur, r)
    BY <1>2, <2>2, <2>3, <2>4, SetFacts
  <2>6. GrownTo(loc.target)
    BY <1>2, <2>3, <2>4, <2>5 DEF Only, Put, GrownTo
  <2>7. state' = mem' /\ unsaved' = unsaved /\ loc' = loc /\ pc' = "grown" /\ faults' = faults
    BY <1>3 DEF Saved, Fine, Goto
  <2>8. TypeOK'
    BY <1>2, <2>1, <2>6, <2>7, TypesKept, TypesNow DEF GrownTo
  <2>9. Placed'
    BY <1>1, <2>7 DEF Placed, AtSlot, RollPc, ClassicPc, RevertPc, CommandPc, DeployPc, Pcs
  <2> QED BY <1>1, <1>2, <1>3, <2>1, <2>6, <2>7, <2>8, <2>9
<1>4. CASE (\E r \in Records(loc.target) : LaunchFails(loc.target, r)) /\ Return("error")
  <2>1. Fizzles
    BY <1>1, <1>2, <1>4, FizzleFacts
  <2> QED BY <1>1, <1>2, <1>4, <2>1, ReturnStep DEF Fizzles, Unsaved
<1> QED BY <1>3, <1>4 DEF GrowSlot

LEMMA GrownEffect ==
  ASSUME TypeOK, Placed, Grown
  PROVE  /\ TypeOK' /\ Placed' /\ Still /\ Moved /\ Aside /\ pc = "grown" /\ astray' = astray
         /\ Over("grow", "done") /\ Rewritten(Rec.pid, Rec.ver, "running") /\ Tried(mem')
<1>1. pc = "grown" /\ UNCHANGED SupMem /\ UNCHANGED Rest /\ loc.todo # {} /\ UNCHANGED Procs /\ astray' = astray
      /\ mem' = Set(mem, Cur, [Rec EXCEPT !.status = "running"]) /\ TrySave(mem') /\ Advance("grow", "done")
  BY DEF Grown, Placed, AtSlot
<1>2. Aside /\ Still /\ Moved
  BY <1>1, AsideIs, ProcsStill
<1>3. Rewritten(Rec.pid, Rec.ver, "running") /\ mem' \in Fleet
  BY <1>1, SetStatus DEF Status
<1>4. Over("grow", "done") /\ loc' \in Local
  BY <1>1, AdvanceFacts DEF Over, Visits
<1>5. Tried(mem') /\ state' \in Fleet /\ faults' \in 0 .. MaxFaults /\ unsaved' \in BOOLEAN
  BY <1>1, <1>3, SavedFacts DEF Tried
<1>6. TypeOK'
  BY <1>2, <1>3, <1>4, <1>5, TypesKept
<1>7. Placed'
  BY <1>1, <1>4 DEF Over, Visits, Placed, AtSlot, RollPc, ClassicPc, RevertPc, CommandPc, DeployPc, Pcs
<1> QED BY <1>1, <1>2, <1>3, <1>4, <1>5, <1>6, <1>7

LEMMA ShrinkStopEffect ==
  ASSUME TypeOK, Placed, ShrinkStop
  PROVE  /\ TypeOK' /\ Placed' /\ Moved /\ Aside /\ pc = "shrink" /\ Unsaved
         /\ \E p \in loc.surplus :
              \/ /\ Ends({p}) /\ mem' = mem /\ pc' = pc /\ outcome' = outcome
                 /\ loc'.surplus = loc.surplus \ {p} /\ loc'.n = loc.n
              \/ Strays(p) /\ Ended("error")
<1>1. pc = "shrink" /\ UNCHANGED SupMem /\ UNCHANGED Rest /\ Unsaved
  BY DEF ShrinkStop
<1>2. Aside
  BY <1>1, AsideIs
<1>3. PICK p \in loc.surplus :
        \/ /\ Stopped({p}) /\ loc' = [loc EXCEPT !.surplus = @ \ {p}]
           /\ UNCHANGED <<pc, mem, outcome>>
        \/ StopFails(p) /\ Return("error")
  BY DEF ShrinkStop
<1>4. CASE /\ Stopped({p}) /\ loc' = [loc EXCEPT !.surplus = @ \ {p}]
           /\ UNCHANGED <<pc, mem, outcome>>
  <2>1. Ends({p}) /\ Moved /\ faults' = faults
    BY <1>4, StoppedFacts
  <2>2. /\ loc' \in Local /\ loc'.surplus = loc.surplus \ {p} /\ loc'.n = loc.n /\ loc'.todo = loc.todo
        /\ loc'.kind = loc.kind /\ loc'.after = loc.after
    BY <1>4, TypesNow DEF Local
  <2>3. TypeOK'
    BY <1>1, <1>2, <1>4, <2>1, <2>2, TypesKept, TypesNow DEF Unsaved
  <2>4. Placed'
    BY <1>1, <1>4, <2>2 DEF Placed, AtSlot, RollPc, ClassicPc, RevertPc, CommandPc, DeployPc, Pcs
  <2> QED BY <1>1, <1>2, <1>4, <2>1, <2>2, <2>3, <2>4
<1>5. CASE StopFails(p) /\ Return("error")
  <2>1. Strays(p) /\ Moved /\ faults' \in 0 .. MaxFaults
    BY <1>5, StopFailsFacts
  <2>2. Ended("error") /\ TypeOK' /\ Placed'
    BY <1>1, <1>2, <1>5, <2>1, ReturnStep, TypesNow DEF Unsaved
  <2> QED BY <1>1, <1>2, <2>1, <2>2
<1> QED BY <1>3, <1>4, <1>5

LEMMA ShrinkEndEffect ==
  ASSUME TypeOK, Placed, ShrinkEnd
  PROVE  /\ TypeOK' /\ Placed' /\ Still /\ Moved /\ Aside /\ pc = "shrink" /\ loc.surplus = {}
         /\ unsaved' = unsaved /\ astray' = astray
         /\ \/ state' = Resize(mem, loc.n) /\ Ended("done")
            \/ Unsaved /\ Ended("error")
<1>1. pc = "shrink" /\ UNCHANGED SupMem /\ UNCHANGED Rest /\ UNCHANGED Procs /\ loc.surplus = {} /\ astray' = astray
  BY DEF ShrinkEnd
<1>2. Aside /\ Still /\ Moved
  BY <1>1, AsideIs, ProcsStill
<1>3. CASE Saved(Resize(mem, loc.n)) /\ Return("done")
  <2>1. Resize(mem, loc.n) \in Fleet
    BY TypesNow, LocalFields, ResizeFacts DEF Only
  <2>2. state' = Resize(mem, loc.n) /\ unsaved' = unsaved /\ faults' = faults
    BY <1>3 DEF Saved, Fine
  <2> QED BY <1>1, <1>2, <1>3, <2>1, <2>2, ReturnStep, TypesNow
<1>4. CASE SaveFails /\ Return("error")
  BY <1>1, <1>2, <1>4, ReturnStep, SaveFailsFacts, TypesNow DEF Unsaved
<1> QED BY <1>3, <1>4 DEF ShrinkEnd

LEMMA CommandEndEffect ==
  ASSUME TypeOK, Placed, CommandEnd
  PROVE  /\ TypeOK' /\ Placed' /\ Still /\ Moved /\ Aside /\ pc = "done" /\ astray' = astray
         /\ Unsaved /\ Ended("done")
<1>1. pc = "done" /\ UNCHANGED SupMem /\ UNCHANGED Rest /\ UNCHANGED Procs /\ astray' = astray
      /\ Return("done") /\ faults' = faults /\ Unsaved
  BY DEF CommandEnd, Fine
<1>2. Aside /\ Still /\ Moved
  BY <1>1, AsideIs, ProcsStill
<1> QED BY <1>1, <1>2, ReturnStep, TypesNow DEF Unsaved

\* An operation begins at step to.
Opened(to) ==
  /\ pc = "idle" /\ state.retiring = {} /\ pc' = to /\ mem' = state /\ state' = state
  /\ Still /\ astray' = astray /\ handle' = handle /\ lostHolder' = lostHolder
  /\ outcome' = "none" /\ unsaved' = FALSE /\ \A s \in Slot : before'[s] = 0

LEMMA OpenStep ==
  ASSUME TypeOK, NEW to, NEW l \in Local, Open(to, l), stopped' \in BOOLEAN, ops' \in 0 .. MaxOps
  PROVE  TypeOK' /\ Moved /\ Opened(to) /\ loc' = l
<1>1. /\ pc = "idle" /\ state.retiring = {} /\ pc' = to /\ loc' = l /\ mem' = state
      /\ faults' = faults /\ outcome' = "none" /\ unsaved' = FALSE /\ before' = [s \in Slot |-> 0]
      /\ UNCHANGED Procs /\ state' = state /\ handle' = handle /\ fails' = fails /\ astray' = astray
      /\ bad' = bad /\ lostHolder' = lostHolder
  BY DEF Open, Fine, SupMem
<1>2. Still /\ Moved
  BY <1>1, ProcsStill
<1>3. before' \in [Slot -> Ver] /\ \A s \in Slot : before'[s] = 0
  BY <1>1, BoundsAssumption DEF Ver
<1>4. TypeOK'
  BY <1>1, <1>2, <1>3 DEF TypeOK, Moved
<1> QED BY <1>1, <1>2, <1>3, <1>4 DEF Opened

LEMMA BeginStep ==
  ASSUME TypeOK, NEW kind, NEW l \in Local, Begin(kind, l)
  PROVE  /\ TypeOK' /\ Moved /\ Opened(kind) /\ stopped' = FALSE /\ kind \in Commands
         /\ loc'.kind = kind /\ loc'.todo = l.todo /\ loc'.n = l.n /\ loc'.surplus = l.surplus
         /\ loc'.after = l.after /\ loc'.target = l.target /\ loc'.old = l.old /\ loc'.strategy = l.strategy
<1>1. kind \in Commands /\ ops > 0 /\ ops' = ops - 1 /\ stopped' = FALSE
      /\ Open(kind, [l EXCEPT !.kind = kind])
  BY DEF Begin
<1>2. ops \in 0 .. MaxOps /\ MaxOps \in Nat
  BY BoundsAssumption DEF TypeOK
<1>3. ops' \in 0 .. MaxOps
  BY <1>1, <1>2
<1> DEFINE k == [l EXCEPT !.kind = kind]
<1>4. /\ k \in Local /\ k.kind = kind /\ k.todo = l.todo /\ k.n = l.n /\ k.surplus = l.surplus
      /\ k.after = l.after /\ k.target = l.target /\ k.old = l.old /\ k.strategy = l.strategy
  BY <1>1 DEF Local
<1>5. Open(kind, k)
  BY <1>1
<1> HIDE DEF k
<1> QED BY <1>1, <1>3, <1>4, <1>5, OpenStep

LEMMA BeginPassEffect ==
  ASSUME TypeOK, BeginPass
  PROVE  /\ TypeOK' /\ Placed' /\ Moved /\ Opened("pass") /\ stopped' = stopped
         /\ loc'.kind = "pass" /\ loc'.todo = state.on /\ loc'.dirty = FALSE /\ loc'.old = NoRec
         /\ loc'.after = "none" /\ loc'.strategy = "none"
<1> DEFINE l == [NoLoc EXCEPT !.kind = "pass", !.todo = state.on]
<1>1. state.on # {} /\ Open("pass", l) /\ stopped' = stopped /\ ops' = ops /\ state.on \in SUBSET Slot
  BY TypesNow, FleetFields DEF BeginPass
<1>2. /\ l \in Local /\ l.kind = "pass" /\ l.todo = state.on /\ l.dirty = FALSE /\ l.old = NoRec
      /\ l.after = "none" /\ l.strategy = "none"
  BY <1>1, NoLocFacts DEF Local
<1> HIDE DEF l
<1>3. TypeOK' /\ Moved /\ Opened("pass") /\ loc' = l
  BY <1>1, <1>2, OpenStep, TypesNow
<1>4. Placed'
  BY <1>1, <1>2, <1>3 DEF Opened, Placed, AtSlot, RollPc, ClassicPc, RevertPc, CommandPc, DeployPc, Pcs
<1> QED BY <1>1, <1>2, <1>3, <1>4

\* A command that visits the slots of T.
LEMMA VisitAll ==
  ASSUME TypeOK, NEW kind, NEW T \in SUBSET Slot, T # {}, kind \in {"start", "stop", "restart"},
         Begin(kind, [NoLoc EXCEPT !.todo = T])
  PROVE  /\ TypeOK' /\ Placed' /\ Moved /\ Opened(kind) /\ stopped' = FALSE
         /\ loc'.kind = kind /\ loc'.todo = T /\ loc'.old = NoRec /\ loc'.after = "none"
         /\ loc'.strategy = "none"
<1> DEFINE l == [NoLoc EXCEPT !.todo = T]
<1>2. /\ l \in Local /\ l.todo = T /\ l.old = NoRec /\ l.after = "none" /\ l.strategy = "none"
  BY NoLocFacts DEF Local
<1>1. Begin(kind, l)
  OBVIOUS
<1> HIDE DEF l
<1>3. /\ TypeOK' /\ Moved /\ Opened(kind) /\ stopped' = FALSE
      /\ loc'.kind = kind /\ loc'.todo = T /\ loc'.old = NoRec /\ loc'.after = "none" /\ loc'.strategy = "none"
  BY <1>1, <1>2, BeginStep
<1>4. Placed'
  BY <1>3 DEF Opened, Placed, AtSlot, RollPc, ClassicPc, RevertPc, CommandPc, DeployPc, Pcs
<1> QED BY <1>3, <1>4

LEMMA BeginLoopEffect ==
  ASSUME TypeOK, BeginStart \/ BeginStop \/ BeginRestart
  PROVE  /\ TypeOK' /\ Placed' /\ Moved /\ stopped' = FALSE
         /\ \E kind \in {"start", "stop", "restart"} : Opened(kind) /\ loc'.kind = kind
         /\ loc'.todo \subseteq state.on /\ (BeginStop => loc'.todo = state.on)
         /\ loc'.old = NoRec /\ loc'.after = "none" /\ loc'.strategy = "none"
<1>0. state.on \in SUBSET Slot
  BY TypesNow, FleetFields
<1>1. CASE BeginStart
  <2>1. state.on # {} /\ Begin("start", [NoLoc EXCEPT !.todo = state.on])
    BY <1>1 DEF BeginStart
  <2>2. ~BeginStop
    BY <2>1 DEF BeginStop, Begin, Open
  <2> QED BY <1>0, <2>1, <2>2, VisitAll
<1>2. CASE BeginStop
  <2>1. state.on # {} /\ Begin("stop", [NoLoc EXCEPT !.todo = state.on])
    BY <1>2 DEF BeginStop
  <2> QED BY <1>0, <2>1, VisitAll
<1>3. CASE BeginRestart
  <2>1. PICK T \in {state.on} \cup {{s} : s \in state.on} :
          T # {} /\ Begin("restart", [NoLoc EXCEPT !.todo = T])
    BY <1>3 DEF BeginRestart
  <2>2. T \in SUBSET state.on
    BY <2>1
  <2>3. ~BeginStop
    BY <2>1 DEF BeginStop, Begin, Open
  <2>4. T \in SUBSET Slot /\ T # {} /\ "restart" \in {"start", "stop", "restart"}
    BY <1>0, <2>1, <2>2
  <2>5. /\ TypeOK' /\ Placed' /\ Moved /\ Opened("restart") /\ stopped' = FALSE
        /\ loc'.kind = "restart" /\ loc'.todo = T /\ loc'.old = NoRec /\ loc'.after = "none"
        /\ loc'.strategy = "none"
    BY <2>1, <2>4, VisitAll
  <2> QED BY <2>2, <2>3, <2>4, <2>5
<1> QED BY <1>1, <1>2, <1>3

LEMMA OnFinite ==
  ASSUME TypeOK
  PROVE  Cardinality(state.on) \in Nat /\ Cardinality(mem.on) \in Nat
<1>1. IsFiniteSet(Slot)
  BY BoundsAssumption, FS_Interval DEF Slot
<1>2. state.on \subseteq Slot /\ mem.on \subseteq Slot
  BY TypesNow, FleetFields
<1> QED BY <1>1, <1>2, FS_Subset, FS_CardinalityType

LEMMA BeginGrowEffect ==
  ASSUME TypeOK, NEW n \in 1 .. MaxReplicas, BeginGrow(n)
  PROVE  /\ TypeOK' /\ Placed' /\ Moved /\ stopped' = FALSE /\ Opened("grow")
         /\ n > Cardinality(state.on) /\ loc'.n = n /\ loc'.todo = Cardinality(state.on) .. n - 1
         /\ loc'.old = NoRec /\ loc'.after = "none" /\ loc'.kind = "grow" /\ loc'.strategy = "none"
<1> DEFINE k == Cardinality(state.on)
           T == k .. n - 1
           v == Template(state)
           l == [NoLoc EXCEPT !.todo = T, !.n = n, !.target = v]
<1>1. state.on # {} /\ n > k /\ v # 0 /\ Begin("grow", l)
  BY DEF BeginGrow
<1>2. k \in Nat
  BY OnFinite
<1>3. v \in Ver
  <2> DEFINE have == {s \in state.on : state.slots[s].ver # 0}
             top == CHOOSE s \in have : \A t \in have : t <= s
  <2>1. v = IF have = {} THEN 0 ELSE state.slots[top].ver
    BY DEF Template
  <2>2. have # {}
    BY <1>1, <2>1
  <2>3. have \in SUBSET Slot
    BY TypesNow, FleetFields
  <2>4. \E s \in have : \A t \in have : t <= s
    <3>1. have \in SUBSET Int /\ IsFiniteSet(have)
      <4>1. IsFiniteSet(Slot)
        BY BoundsAssumption, FS_Interval DEF Slot
      <4> QED BY <2>3, <4>1, FS_Subset, BoundsAssumption DEF Slot
    <3> DEFINE neg == {0 - s + MaxReplicas : s \in have}
    <3>2. neg \in SUBSET Nat /\ neg # {}
      BY <2>2, <2>3, BoundsAssumption DEF Slot
    <3>3. PICK m \in neg : \A x \in neg : m <= x
      BY <3>2, Least
    <3>4. PICK s \in have : m = 0 - s + MaxReplicas
      BY <3>3
    <3>5. ASSUME NEW t \in have PROVE t <= s
      <4>1. 0 - t + MaxReplicas \in neg
        OBVIOUS
      <4>2. m <= 0 - t + MaxReplicas
        BY <3>3, <4>1
      <4>3. t \in Int /\ s \in Int
        BY <3>1
      <4> QED BY <3>4, <4>2, <4>3, BoundsAssumption
    <3> QED BY <3>5
  <2> HIDE DEF have
  <2>5. top \in have
    BY <2>4
  <2>6. top \in Slot
    BY <2>3, <2>5
  <2> HIDE DEF top
  <2>7. state.slots[top].ver \in Ver
    BY <2>6, TypesNow, FleetFields, RecordFields
  <2> QED BY <2>1, <2>2, <2>7
<1>4. T \in SUBSET Slot /\ T # {} /\ n \in 0 .. MaxReplicas
  BY <1>1, <1>2, BoundsAssumption DEF Slot
<1> HIDE DEF T, v
<1>5. /\ l \in Local /\ l.todo = T /\ l.n = n /\ l.old = NoRec /\ l.after = "none" /\ l.strategy = "none"
  BY <1>3, <1>4, NoLocFacts DEF Local
<1> HIDE DEF l
<1>6. /\ TypeOK' /\ Moved /\ stopped' = FALSE /\ Opened("grow") /\ loc'.n = n /\ loc'.todo = T
      /\ loc'.old = NoRec /\ loc'.after = "none" /\ loc'.kind = "grow" /\ loc'.strategy = "none"
  BY <1>1, <1>5, BeginStep
<1>7. Placed'
  BY <1>4, <1>6 DEF Opened, Placed, AtSlot, RollPc, ClassicPc, RevertPc, CommandPc, DeployPc, Pcs
<1> QED BY <1>1, <1>6, <1>7 DEF T

LEMMA BeginShrinkEffect ==
  ASSUME TypeOK, NEW n \in 1 .. MaxReplicas, BeginShrink(n)
  PROVE  /\ TypeOK' /\ Placed' /\ Moved /\ stopped' = FALSE /\ Opened("shrink") /\ loc'.n = n
         /\ loc'.surplus = {state.slots[s].pid : s \in {t \in state.on : t >= n}} \ {0}
         /\ loc'.old = NoRec /\ loc'.after = "none" /\ loc'.kind = "shrink" /\ loc'.strategy = "none"
<1> DEFINE P == {state.slots[s].pid : s \in {t \in state.on : t >= n}} \ {0}
           l == [NoLoc EXCEPT !.n = n, !.surplus = P]
<1>1. Begin("shrink", l)
  BY DEF BeginShrink
<1>2. P \in SUBSET Proc
  <2>1. \A s \in state.on : state.slots[s].pid \in 0 .. MaxProcs
    BY TypesNow, FleetFields, RecordFields
  <2> QED BY <2>1, BoundsAssumption DEF Proc
<1> HIDE DEF P
<1>3. n \in 0 .. MaxReplicas
  BY BoundsAssumption
<1>4. /\ l \in Local /\ l.n = n /\ l.surplus = P /\ l.old = NoRec /\ l.after = "none" /\ l.strategy = "none"
  BY <1>2, <1>3, NoLocFacts DEF Local
<1> HIDE DEF l
<1>5. /\ TypeOK' /\ Moved /\ stopped' = FALSE /\ Opened("shrink") /\ loc'.n = n /\ loc'.surplus = P
      /\ loc'.old = NoRec /\ loc'.after = "none" /\ loc'.kind = "shrink" /\ loc'.strategy = "none"
  BY <1>1, <1>4, BeginStep
<1>6. Placed'
  BY <1>5 DEF Opened, Placed, AtSlot, RollPc, ClassicPc, RevertPc, CommandPc, DeployPc, Pcs
<1> QED BY <1>5, <1>6 DEF P

\* j2 is j but for the journal.
SameSlots(j2, j) == j2 \in Fleet /\ j2.on = j.on /\ j2.slots = j.slots /\ j2.retiring = j.retiring

\* The journal of j2 is the journal of j.
SameJournal(j2, j) == j2.touched = j.touched /\ j2.from = j.from

\* The journal of j2 is that of j with one more slot, which ran version v.
OneMore(j2, j, v) ==
  /\ j2.touched = j.touched \cup {Cur} /\ j2.from[Cur] = v
  /\ \A t \in Slot : t # Cur => j2.from[t] = j.from[t]

LEMMA JournalledFacts ==
  ASSUME Cur \in Slot, NEW j \in Fleet, NEW r \in Record
  PROVE  SameSlots(Journalled(j, r), j) /\ OneMore(Journalled(j, r), j, r.ver)
<1> DEFINE D == j.touched \cup {Cur}
           f == [j.from EXCEPT ![Cur] = r.ver]
           k == [j EXCEPT !.touched = D, !.from = f]
<1>0. Journalled(j, r) = k
  BY DEF Journalled
<1>1. f \in [Slot -> Ver] /\ f[Cur] = r.ver /\ \A t \in Slot : t # Cur => f[t] = j.from[t]
  BY FleetFields, RecordFields
<1>2. D \in SUBSET Slot
  BY FleetFields
<1> HIDE DEF f, D
<1>3. k \in Fleet /\ k.on = j.on /\ k.slots = j.slots /\ k.retiring = j.retiring /\ k.touched = D /\ k.from = f
  BY <1>1, <1>2 DEF Fleet
<1> HIDE DEF k
<1> QED BY <1>0, <1>1, <1>3 DEF SameSlots, OneMore, D

LEMMA BeginDeployEffect ==
  ASSUME TypeOK, BeginDeploy
  PROVE  /\ TypeOK' /\ Placed' /\ Moved /\ stopped' = FALSE /\ Opened("deploy")
         /\ loc'.old = NoRec /\ loc'.after = "prepare" /\ loc'.kind = "deploy"
<1>1. PICK n \in 1 .. MaxReplicas, strategy \in Strategies :
        Begin("deploy", [NoLoc EXCEPT !.n = n, !.strategy = strategy, !.after = "prepare"])
  BY DEF BeginDeploy
<1> DEFINE l == [NoLoc EXCEPT !.n = n, !.strategy = strategy, !.after = "prepare"]
<1>2. n \in 0 .. MaxReplicas
  BY BoundsAssumption
<1>3. /\ l \in Local /\ l.n = n /\ l.old = NoRec /\ l.after = "prepare"
  BY <1>2, NoLocFacts DEF Local
<1>4. Begin("deploy", l)
  BY <1>1
<1> HIDE DEF l
<1>5. /\ TypeOK' /\ Moved /\ stopped' = FALSE /\ Opened("deploy") /\ loc'.n = n
      /\ loc'.old = NoRec /\ loc'.after = "prepare" /\ loc'.kind = "deploy"
  BY <1>3, <1>4, BeginStep
<1>6. Placed'
  BY <1>5 DEF Opened, Placed, AtSlot, RollPc, ClassicPc, RevertPc, CommandPc, DeployPc, Pcs
<1> QED BY <1>5, <1>6

LEMMA DeployLoadEffect ==
  ASSUME TypeOK, Placed, DeployLoad
  PROVE  /\ TypeOK' /\ Placed' /\ Still /\ Moved /\ Aside /\ pc = "deploy" /\ pc' \in {"revert", "prepare"}
         /\ loc' = loc /\ mem' = mem /\ outcome' = outcome /\ Unsaved /\ astray' = astray
<1>1. /\ pc = "deploy" /\ pc' \in {"revert", "prepare"} /\ loc' = loc /\ outcome' = outcome /\ faults' = faults
      /\ Unsaved /\ UNCHANGED Procs /\ UNCHANGED SupMem /\ UNCHANGED Rest /\ mem' = mem /\ astray' = astray
  BY DEF DeployLoad, Goto, Fine
<1>2. Aside /\ Still /\ Moved
  BY <1>1, AsideIs, ProcsStill
<1>3. TypeOK'
  BY <1>1, <1>2, TypesKept, TypesNow DEF Unsaved
<1>4. Placed'
  BY <1>1 DEF Placed, AtSlot, RollPc, ClassicPc, RevertPc, CommandPc, DeployPc, Pcs
<1> QED BY <1>1, <1>2, <1>3, <1>4

\* The processes of the replicas beyond those asked for.
Extra(P) ==
  /\ \A s \in mem.on : s >= loc.n /\ Live(mem.slots[s]) => mem.slots[s].pid \in P
  /\ \A p \in P : \E s \in mem.on : s >= loc.n /\ p = mem.slots[s].pid

\* Dead records are cleared, the set has the size asked for, the journal is empty.
Prepared ==
  /\ mem' \in Fleet /\ mem'.on = 0 .. loc.n - 1 /\ mem'.touched = {} /\ mem'.retiring = mem.retiring
  /\ \A s \in Slot : IF s < loc.n THEN IF Live(mem.slots[s]) THEN mem'.slots[s] = mem.slots[s]
                                       ELSE mem'.slots[s].pid = 0
                     ELSE mem'.slots[s] = NoRec
  /\ \A s \in Slot : before'[s] = IF s < loc.n /\ Live(mem.slots[s]) THEN mem.slots[s].ver ELSE 0

LEMMA PrepareEffect ==
  ASSUME TypeOK, Placed, Prepare
  PROVE  /\ TypeOK' /\ Placed' /\ Moved /\ pc = "prepare" /\ pc' = "build" /\ loc' = loc /\ outcome' = outcome
         /\ Unsaved /\ handle' = handle /\ lostHolder' = lostHolder /\ stopped' = stopped /\ Prepared
         /\ launched' = launched /\ builtAs' = builtAs /\ died' = died
         /\ \E P : /\ Extra(P)
                   /\ \/ running' = running \ P /\ astray' = astray
                      \/ \E p \in P : running' = running \ (P \ {p}) /\ astray' = astray \cup {p}
<1> DEFINE j == Reap(mem)
           P == {j.slots[s].pid : s \in {t \in j.on : t >= loc.n}} \ {0}
           k == [Resize(j, loc.n) EXCEPT !.roll = "none", !.touched = {}, !.from = [s \in Slot |-> 0]]
           b == [s \in Slot |-> IF s < loc.n /\ Live(j.slots[s]) THEN j.slots[s].ver ELSE 0]
<1>1. /\ pc = "prepare" /\ pc' = "build" /\ loc' = loc /\ outcome' = outcome /\ Unsaved
      /\ handle' = handle /\ fails' = fails /\ bad' = bad /\ ops' = ops /\ lostHolder' = lostHolder
      /\ stopped' = stopped /\ mem' = k /\ before' = b
      /\ \/ Stopped(P)
         \/ \E p \in P : /\ Fault("stop") /\ running' = running \ (P \ {p})
                         /\ astray' = astray \cup {p} /\ UNCHANGED <<died, clean, builtAs, launched>>
  BY DEF Prepare, Goto, SupMem
<1>2. /\ mem \in Fleet /\ loc.n \in 1 .. MaxReplicas /\ loc.n \in 0 .. MaxReplicas
      /\ running \subseteq 1 .. launched /\ launched \in 0 .. MaxProcs
      /\ loc.kind = "deploy" /\ loc.after = "prepare" /\ builtAs \in [Proc -> Ver]
  BY <1>1, BoundsAssumption DEF TypeOK, Placed
<1>3. /\ j \in Fleet /\ j.on = mem.on /\ j.retiring = mem.retiring
      /\ \A s \in Slot : IF Live(mem.slots[s]) \/ mem.slots[s].pid = 0 THEN j.slots[s] = mem.slots[s]
                         ELSE j.slots[s].pid = 0
  BY <1>2, ReapFacts DEF Only
<1> HIDE DEF j
<1>4. /\ Only(Resize(j, loc.n), j, 0 .. loc.n - 1, Resize(j, loc.n).slots)
      /\ \A s \in Slot : Resize(j, loc.n).slots[s] = IF s < loc.n THEN j.slots[s] ELSE NoRec
  BY <1>2, <1>3, ResizeFacts
<1>5. k \in Fleet /\ k.on = 0 .. loc.n - 1 /\ k.touched = {} /\ k.retiring = mem.retiring
      /\ k.slots = Resize(j, loc.n).slots
  <2> DEFINE z == [s \in Slot |-> 0]
  <2>1. z \in [Slot -> Ver]
    BY BoundsAssumption DEF Ver
  <2> HIDE DEF z
  <2> DEFINE m == Resize(j, loc.n)
  <2>2. m \in Fleet /\ m.on = 0 .. loc.n - 1 /\ m.retiring = mem.retiring
    BY <1>3, <1>4 DEF Only
  <2>3. k = [m EXCEPT !.roll = "none", !.touched = {}, !.from = z]
    BY DEF z
  <2> HIDE DEF m, k
  <2>4. k \in Fleet /\ k.on = m.on /\ k.touched = {} /\ k.retiring = m.retiring /\ k.slots = m.slots
    BY <2>1, <2>2, <2>3 DEF Fleet
  <2> QED BY <2>2, <2>4 DEF m
<1>6. 0 \notin running
  BY <1>2
<1>7. \A s \in Slot : Live(mem.slots[s]) <=> Live(j.slots[s])
  BY <1>3, <1>6 DEF Live
<1>8. b \in [Slot -> Ver] /\ \A s \in Slot : b[s] = IF s < loc.n /\ Live(mem.slots[s]) THEN mem.slots[s].ver ELSE 0
  <2>1. ASSUME NEW s \in Slot
        PROVE  (IF s < loc.n /\ Live(j.slots[s]) THEN j.slots[s].ver ELSE 0)
                 = (IF s < loc.n /\ Live(mem.slots[s]) THEN mem.slots[s].ver ELSE 0)
    BY <1>3, <1>7
  <2>2. \A s \in Slot : mem.slots[s].ver \in Ver
    BY <1>2, FleetFields, RecordFields
  <2>3. 0 \in Ver
    BY BoundsAssumption DEF Ver
  <2> QED BY <2>1, <2>2, <2>3
<1> HIDE DEF b
<1>9. Extra(P)
  <2>1. mem.on \subseteq Slot
    BY <1>2, FleetFields
  <2>2. ASSUME NEW s \in mem.on, s >= loc.n, Live(mem.slots[s])
        PROVE  mem.slots[s].pid \in P
    <3>1. j.slots[s].pid = mem.slots[s].pid /\ mem.slots[s].pid # 0
      BY <1>3, <1>6, <2>1, <2>2 DEF Live
    <3> QED BY <1>3, <2>2, <3>1
  <2>3. ASSUME NEW p \in P
        PROVE  \E s \in mem.on : s >= loc.n /\ p = mem.slots[s].pid
    <3>1. PICK s \in j.on : s >= loc.n /\ p = j.slots[s].pid /\ p # 0
      OBVIOUS
    <3>2. j.slots[s] = mem.slots[s]
      BY <1>3, <2>1, <3>1
    <3> QED BY <1>3, <3>1, <3>2
  <2> QED BY <2>2, <2>3 DEF Extra
<1>10. Prepared
  <2>1. \A s \in Slot : IF s < loc.n THEN IF Live(mem.slots[s]) THEN k.slots[s] = mem.slots[s]
                                          ELSE k.slots[s].pid = 0
                        ELSE k.slots[s] = NoRec
    BY <1>3, <1>4, <1>5
  <2> HIDE DEF k
  <2> QED BY <1>1, <1>5, <1>8, <2>1 DEF Prepared
<1> HIDE DEF P, k
<1>11. /\ \/ running' = running \ P /\ astray' = astray
          \/ \E p \in P : running' = running \ (P \ {p}) /\ astray' = astray \cup {p}
       /\ launched' = launched /\ builtAs' = builtAs /\ died' = died /\ faults' \in 0 .. MaxFaults
  <2>1. faults \in 0 .. MaxFaults
    BY TypesNow
  <2> QED BY <1>1, <2>1, StoppedFacts, FaultFacts DEF Ends
<1>12. running' \subseteq running
  BY <1>11
<1>13. Moved
  <2>1. launched <= launched
    BY <1>2, BoundsAssumption
  <2> QED BY <1>2, <1>11, <1>12, <2>1 DEF Moved
<1>14. TypeOK'
  BY <1>1, <1>8, <1>10, <1>11, <1>13 DEF TypeOK, Moved, Unsaved, Prepared
<1>15. Placed'
  <2>2. 0 \in 0 .. loc.n - 1
    BY <1>2, BoundsAssumption
  <2>1. mem'.on # {}
    BY <1>10, <2>2 DEF Prepared
  <2> QED BY <1>1, <1>2, <2>1 DEF Placed, AtSlot, RollPc, ClassicPc, RevertPc, CommandPc, DeployPc, Pcs
<1> QED BY <1>1, <1>9, <1>10, <1>11, <1>13, <1>14, <1>15

LEMMA BuildEffect ==
  ASSUME TypeOK, Placed, NEW v \in Ver \ {0}, Build(v)
  PROVE  /\ TypeOK' /\ Placed' /\ Still /\ Moved /\ Aside /\ pc = "build" /\ astray' = astray
         /\ unsaved' = unsaved
         /\ \/ /\ SameSlots(mem', mem) /\ SameJournal(mem', mem) /\ state' = mem' /\ outcome' = outcome
               /\ loc'.todo = mem.on /\ loc'.after = "fail" /\ loc'.old = loc.old /\ loc'.kind = loc.kind
               /\ pc' \in {"roll", "drain"}
            \/ /\ Ended("refused")
               /\ \/ state' = state
                  \/ SameSlots(state', mem)
<1>1. pc = "build" /\ UNCHANGED SupMem /\ UNCHANGED Rest /\ UNCHANGED Procs /\ astray' = astray
  BY DEF Build
<1>2. Aside /\ Still /\ Moved
  BY <1>1, AsideIs, ProcsStill
<1> DEFINE j == [mem EXCEPT !.roll = "running"]
<1>3. SameSlots(j, mem) /\ SameJournal(j, mem)
  BY TypesNow DEF SameSlots, SameJournal, Fleet
<1>4. /\ loc \in Local /\ mem.on \in SUBSET Slot /\ mem.on # {} /\ faults \in 0 .. MaxFaults
      /\ loc.kind = "deploy" /\ loc.n \in 1 .. MaxReplicas
  BY <1>1, TypesNow, FleetFields DEF Placed
<1>5. CASE /\ Saved(j) /\ mem' = j /\ UNCHANGED outcome
           /\ loc' = [loc EXCEPT !.target = v, !.todo = mem.on, !.after = "fail"]
           /\ pc' = IF loc.strategy = "rolling" THEN "roll" ELSE "drain"
  <2> HIDE DEF j
  <2>1. /\ loc' \in Local /\ loc'.todo = mem.on /\ loc'.after = "fail" /\ loc'.old = loc.old
        /\ loc'.kind = loc.kind /\ loc'.n = loc.n
    BY <1>4, <1>5 DEF Local
  <2>2. state' = j /\ faults' = faults /\ unsaved' = unsaved /\ mem' = j /\ mem' \in Fleet
        /\ pc' \in {"roll", "drain"}
    BY <1>3, <1>5 DEF Saved, Fine, SameSlots
  <2>3. TypeOK'
    BY <1>2, <2>1, <2>2, TypesKept, TypesNow
  <2>4. mem'.on # {}
    BY <1>3, <1>4, <2>2 DEF SameSlots
  <2>5. Placed'
    BY <1>4, <2>1, <2>2, <2>4 DEF Placed, AtSlot, RollPc, ClassicPc, RevertPc, CommandPc, DeployPc, Pcs
  <2> QED BY <1>1, <1>2, <1>3, <1>5, <2>1, <2>2, <2>3, <2>5
<1>6. CASE (Fault("build") \/ Fault("store")) /\ Unsaved /\ Return("refused")
  <2>1. faults' \in 0 .. MaxFaults
    BY <1>6, FaultFacts
  <2>2. Ended("refused") /\ TypeOK' /\ Placed'
    BY <1>2, <1>6, <2>1, ReturnStep, TypesNow DEF Unsaved
  <2> QED BY <1>1, <1>2, <1>6, <2>2 DEF Unsaved
<1>7. CASE Fault("env") /\ state' = j /\ UNCHANGED unsaved /\ Return("refused")
  <2> HIDE DEF j
  <2>1. faults' \in 0 .. MaxFaults /\ state' \in Fleet
    BY <1>3, <1>7, FaultFacts DEF SameSlots
  <2>2. Ended("refused") /\ TypeOK' /\ Placed'
    BY <1>2, <1>7, <2>1, ReturnStep, TypesNow
  <2> QED BY <1>1, <1>2, <1>3, <1>7, <2>2
<1> QED BY <1>5, <1>6, <1>7 DEF Build

LEMMA RollSlotEffect ==
  ASSUME TypeOK, Placed, RollSlot
  PROVE  /\ TypeOK' /\ Placed' /\ Moved /\ Aside /\ pc = "roll" /\ astray' = astray /\ unsaved' = unsaved
         /\ outcome' = outcome
         /\ \/ /\ Rec.ver = loc.target /\ Live(Rec) /\ Still /\ Over("roll", "promote") /\ mem' = mem /\ Unsaved
            \/ /\ Starts(loc.target) /\ Relaunched(mem', mem, Cur, loc.target) /\ state' = mem'
               /\ Visits(loc', loc, loc.todo, Rec) /\ pc' = "rollGate"
            \/ running' = running /\ died' = died /\ mem' = mem /\ loc' = loc /\ pc' = "undo" /\ Unsaved
<1>1. pc = "roll" /\ UNCHANGED SupMem /\ UNCHANGED Rest /\ loc.todo # {}
  BY DEF RollSlot, Placed, AtSlot
<1>2. /\ Aside /\ Cur \in Slot /\ Rec \in Record /\ loc.target \in Ver /\ loc \in Local
      /\ loc.kind = "deploy" /\ loc.after = "fail" /\ loc.n \in 1 .. MaxReplicas
  BY <1>1, AsideIs, CurIn, RecIn, LocalFields, TypesNow DEF Placed, RollPc
<1>3. CASE /\ Rec.ver = loc.target /\ Rec.status = "running" /\ Live(Rec)
           /\ Advance("roll", "promote") /\ Fine /\ Unsaved /\ UNCHANGED <<Procs, mem, astray>>
  <2>1. Over("roll", "promote") /\ loc' \in Local /\ Still /\ Moved
    BY <1>3, AdvanceFacts, ProcsStill DEF Over, Visits
  <2>2. TypeOK'
    BY <1>2, <1>3, <2>1, TypesKept, TypesNow DEF Fine, Unsaved
  <2>3. Placed'
    BY <1>1, <1>2, <1>3, <2>1 DEF Over, Visits, Placed, AtSlot, RollPc, ClassicPc, RevertPc, CommandPc, DeployPc, Pcs
  <2> QED BY <1>1, <1>2, <1>3, <2>1, <2>2, <2>3 DEF Over, Unsaved
<1>4. CASE Launched(Cur, loc.target) /\ pc' = "rollGate" /\ loc' = [loc EXCEPT !.old = Rec] /\ UNCHANGED outcome
  <2>1. /\ Starts(loc.target) /\ Moved /\ Relaunched(mem', mem, Cur, loc.target)
        /\ state' = mem' /\ unsaved' = unsaved /\ astray' = astray /\ faults' = faults
    BY <1>2, <1>4, LaunchedFacts
  <2>2. Visits(loc', loc, loc.todo, Rec)
    BY <1>2, <1>4 DEF Local, Visits
  <2>3. mem' \in Fleet /\ loc' \in Local
    BY <2>1, <2>2 DEF Relaunched, Visits
  <2>4. TypeOK'
    BY <1>2, <2>1, <2>3, TypesKept, TypesNow
  <2>5. Placed'
    BY <1>1, <1>2, <1>4, <2>2 DEF Visits, Placed, AtSlot, RollPc, ClassicPc, RevertPc, CommandPc, DeployPc, Pcs
  <2> QED BY <1>1, <1>2, <1>4, <2>1, <2>2, <2>4, <2>5
<1>5. CASE (\E r \in Records(loc.target) : LaunchFails(loc.target, r)) /\ Goto("undo") /\ UNCHANGED mem
  <2>1. Fizzles
    BY <1>1, <1>2, <1>5, FizzleFacts
  <2>2. loc' = loc /\ pc' = "undo" /\ outcome' = outcome /\ mem' = mem
    BY <1>5 DEF Goto
  <2>3. TypeOK'
    BY <1>2, <2>1, <2>2, TypesKept, TypesNow DEF Fizzles
  <2>4. Placed'
    BY <1>1, <1>2, <2>2 DEF Placed, AtSlot, RollPc, ClassicPc, RevertPc, CommandPc, DeployPc, Pcs
  <2> QED BY <1>1, <1>2, <2>1, <2>2, <2>3, <2>4 DEF Fizzles, Unsaved
<1> QED BY <1>3, <1>4, <1>5 DEF RollSlot

\* The record of the slot the loop is at is r again.
PutBack(r) == mem'.slots[Cur] = r /\ \A t \in Slot : t # Cur => mem'.slots[t] = mem.slots[t]

LEMMA RollCommitEffect ==
  ASSUME TypeOK, Placed, RollCommit
  PROVE  /\ TypeOK' /\ Placed' /\ Still /\ Moved /\ Aside /\ pc = "rollGate" /\ Live(Rec) /\ astray' = astray
         /\ unsaved' = unsaved /\ outcome' = outcome /\ loc' = loc
         /\ mem' \in Fleet /\ mem'.on = mem.on /\ OneMore(mem', mem, loc.old.ver)
         /\ \/ /\ mem'.slots[Cur].pid = Rec.pid /\ mem'.slots[Cur].ver = Rec.ver
               /\ mem'.slots[Cur].status = "running" /\ PutBack(mem'.slots[Cur])
               /\ mem'.retiring = mem.retiring /\ state' = mem' /\ pc' = "rollDrain"
            \/ PutBack(loc.old) /\ mem'.retiring = mem.retiring \cup {Rec.pid} /\ Unsaved /\ pc' = "rollBack"
<1>1. /\ pc = "rollGate" /\ Live(Rec) /\ UNCHANGED SupMem /\ UNCHANGED Rest /\ loc.todo # {}
      /\ UNCHANGED Procs /\ astray' = astray
  BY DEF RollCommit, Placed, AtSlot
<1> DEFINE r == [Rec EXCEPT !.status = "running"]
           m == Set(mem, Cur, r)
           j == Journalled(m, loc.old)
<1>2. /\ Aside /\ Still /\ Moved /\ Cur \in Slot /\ Rec \in Record /\ loc \in Local /\ loc.old \in Record
      /\ loc.kind = "deploy" /\ loc.after = "fail" /\ mem \in Fleet
  BY <1>1, AsideIs, ProcsStill, CurIn, RecIn, LocalFields, TypesNow DEF Placed, RollPc
<1>3. r \in Record /\ r.pid = Rec.pid /\ r.ver = Rec.ver /\ r.status = "running"
  BY <1>2, WithStatus DEF Status
<1>4. \/ Saved(j) /\ mem' = j /\ Goto("rollDrain")
      \/ /\ SaveFails /\ Goto("rollBack")
         /\ mem' = [Set(j, Cur, loc.old) EXCEPT !.retiring = @ \cup {Rec.pid}]
  BY DEF RollCommit
<1> HIDE DEF r
<1>5. Only(m, mem, mem.on, m.slots) /\ Put(m.slots, mem.slots, Cur, r)
  BY <1>1, <1>3, SetCur DEF Revised
<1> HIDE DEF m
<1>6. m \in Fleet
  BY <1>5 DEF Only
<1>7. SameSlots(j, m) /\ OneMore(j, m, loc.old.ver)
  BY <1>2, <1>6, JournalledFacts
<1> HIDE DEF j
<1>8. j \in Fleet /\ j.on = mem.on /\ j.retiring = mem.retiring /\ OneMore(j, mem, loc.old.ver)
      /\ Put(j.slots, mem.slots, Cur, r)
  BY <1>5, <1>7 DEF Only, SameSlots, OneMore
<1>9. CASE Saved(j) /\ mem' = j /\ Goto("rollDrain")
  <2>1. state' = mem' /\ faults' = faults /\ unsaved' = unsaved /\ loc' = loc /\ pc' = "rollDrain"
        /\ outcome' = outcome
    BY <1>9 DEF Saved, Fine, Goto
  <2>2. TypeOK'
    BY <1>2, <1>8, <1>9, <2>1, TypesKept, TypesNow
  <2>3. Placed'
    BY <1>1, <1>2, <2>1, <1>8, <1>9 DEF Placed, AtSlot, RollPc, ClassicPc, RevertPc, CommandPc, DeployPc, Pcs
  <2>4. /\ mem'.slots[Cur].pid = Rec.pid /\ mem'.slots[Cur].ver = Rec.ver
        /\ mem'.slots[Cur].status = "running" /\ PutBack(mem'.slots[Cur])
        /\ mem'.retiring = mem.retiring /\ mem'.on = mem.on /\ mem' \in Fleet
    BY <1>3, <1>8, <1>9 DEF Put, PutBack
  <2>5. OneMore(mem', mem, loc.old.ver)
    BY <1>8, <1>9
  <2> QED BY <1>1, <1>2, <2>1, <2>2, <2>3, <2>4, <2>5
<1>10. CASE /\ SaveFails /\ Goto("rollBack")
            /\ mem' = [Set(j, Cur, loc.old) EXCEPT !.retiring = @ \cup {Rec.pid}]
  <2> DEFINE b == Set(j, Cur, loc.old)
             R == b.retiring \cup {Rec.pid}
  <2>1. Only(b, j, j.on, b.slots) /\ Put(b.slots, j.slots, Cur, loc.old)
    BY <1>2, <1>8, SetFacts
  <2>2. mem' = [b EXCEPT !.retiring = R]
    BY <1>10
  <2> HIDE DEF b
  <2>3. R \in SUBSET Proc
    <3>1. Rec.pid \in Proc /\ b \in Fleet
      BY <1>1, <2>1, TypesNow, BoundsAssumption DEF Live, Proc, Only
    <3> QED BY <3>1, FleetFields
  <2> HIDE DEF R
  <2>4. /\ mem' \in Fleet /\ mem'.on = b.on /\ mem'.retiring = R /\ mem'.slots = b.slots
        /\ mem'.touched = b.touched /\ mem'.from = b.from
    BY <2>1, <2>2, <2>3 DEF Only, Fleet
  <2>5. mem'.on = mem.on /\ PutBack(loc.old) /\ OneMore(mem', mem, loc.old.ver)
        /\ mem'.retiring = mem.retiring \cup {Rec.pid}
    BY <1>8, <2>1, <2>4 DEF Only, Put, PutBack, OneMore, R
  <2>6. Unsaved /\ faults' \in 0 .. MaxFaults /\ loc' = loc /\ pc' = "rollBack" /\ outcome' = outcome
    BY <1>10, SaveFailsFacts DEF Goto, Unsaved
  <2>7. TypeOK'
    BY <1>2, <2>4, <2>6, TypesKept, TypesNow DEF Unsaved
  <2>8. Placed'
    BY <1>1, <1>2, <2>6 DEF Placed, AtSlot, RollPc, ClassicPc, RevertPc, CommandPc, DeployPc, Pcs
  <2> QED BY <1>1, <1>2, <2>4, <2>5, <2>6, <2>7, <2>8 DEF Unsaved
<1> QED BY <1>4, <1>9, <1>10

LEMMA GateFailsFacts ==
  ASSUME TypeOK, GateFails
  PROVE  faults' \in 0 .. MaxFaults
BY FaultFacts, TypesNow DEF GateFails, Fine

\* A proof that fails, before the process is stopped.
LEMMA UnprovenEffect ==
  ASSUME TypeOK, Placed, RollUnproven \/ ClassicUnproven \/ RevertUnproven
  PROVE  /\ TypeOK' /\ Placed' /\ Still /\ Moved /\ Aside /\ astray' = astray
         /\ Unsaved /\ mem' = mem /\ loc' = loc /\ outcome' = outcome
         /\ RollUnproven => pc = "rollGate" /\ pc' = "rollStop"
         /\ ClassicUnproven => pc = "gate" /\ pc' = "gateStop"
         /\ RevertUnproven => pc = "revertGate" /\ pc' = "revertUndo"
<1>1. /\ UNCHANGED SupMem /\ UNCHANGED Rest /\ UNCHANGED Procs /\ astray' = astray /\ Unsaved
      /\ mem' = mem /\ loc' = loc /\ outcome' = outcome /\ GateFails
      /\ RollUnproven => pc = "rollGate" /\ pc' = "rollStop"
      /\ ClassicUnproven => pc = "gate" /\ pc' = "gateStop"
      /\ RevertUnproven => pc = "revertGate" /\ pc' = "revertUndo"
  BY DEF RollUnproven, ClassicUnproven, RevertUnproven
<1>2. Aside /\ Still /\ Moved /\ faults' \in 0 .. MaxFaults
  BY <1>1, AsideIs, ProcsStill, GateFailsFacts
<1>3. TypeOK'
  BY <1>1, <1>2, TypesKept, TypesNow DEF Unsaved
<1>4. Placed'
  BY <1>1 DEF Placed, AtSlot, RollPc, ClassicPc, RevertPc, CommandPc, DeployPc, Pcs
<1> QED BY <1>1, <1>2, <1>3, <1>4

LEMMA RollStopEffect ==
  ASSUME TypeOK, Placed, RollStop
  PROVE  /\ TypeOK' /\ Placed' /\ Moved /\ Aside /\ pc = "rollStop" /\ pc' = "undo" /\ loc' = loc
         /\ outcome' = outcome /\ Unsaved /\ (Ends({Rec.pid}) \/ Strays(Rec.pid))
         /\ Only(mem', mem, mem.on, mem'.slots) /\ PutBack(loc.old)
<1>1. /\ pc = "rollStop" /\ UNCHANGED SupMem /\ UNCHANGED Rest /\ loc.todo # {} /\ Unsaved
      /\ TryStop(Rec.pid) /\ mem' = Set(mem, Cur, loc.old) /\ pc' = "undo" /\ loc' = loc /\ outcome' = outcome
  BY DEF RollStop, Restored, Goto, Placed, AtSlot
<1>2. Aside /\ loc.old \in Record /\ loc.kind = "deploy" /\ loc.after = "fail"
  BY <1>1, AsideIs, LocalFields, TypesNow DEF Placed, RollPc
<1>3. (Ends({Rec.pid}) \/ Strays(Rec.pid)) /\ Moved /\ faults' \in 0 .. MaxFaults
  BY <1>1, TryStopFacts
<1>4. Only(mem', mem, mem.on, mem'.slots) /\ PutBack(loc.old)
  BY <1>1, <1>2, SetCur DEF Revised, Put, PutBack
<1>5. TypeOK'
  BY <1>1, <1>2, <1>3, <1>4, TypesKept, TypesNow DEF Unsaved, Only
<1>6. Placed'
  BY <1>1, <1>2 DEF Placed, AtSlot, RollPc, ClassicPc, RevertPc, CommandPc, DeployPc, Pcs
<1> QED BY <1>1, <1>2, <1>3, <1>4, <1>5, <1>6

LEMMA RollBackEffect ==
  ASSUME TypeOK, Placed, RollBack
  PROVE  /\ TypeOK' /\ Placed' /\ Still /\ Moved /\ Aside /\ pc = "rollBack" /\ astray' = astray
         /\ mem' = mem /\ loc' = loc /\ outcome' = outcome
         /\ \/ state' = mem /\ pc' = "rollRetire"
            \/ state' = state /\ unsaved' = TRUE /\ pc' = "revert"
<1>1. /\ pc = "rollBack" /\ UNCHANGED SupMem /\ UNCHANGED Rest /\ UNCHANGED Procs /\ astray' = astray
      /\ mem' = mem /\ loc' = loc /\ outcome' = outcome
      /\ \/ state' = mem /\ pc' = "rollRetire" /\ unsaved' = unsaved /\ faults' = faults
         \/ state' = state /\ unsaved' = TRUE /\ pc' = "revert" /\ Fault("store")
  BY DEF RollBack, Goto, Saved, Fine
<1>2. Aside /\ Still /\ Moved /\ loc.kind = "deploy" /\ loc.after = "fail"
  BY <1>1, AsideIs, ProcsStill DEF Placed, RollPc
<1>3. faults' \in 0 .. MaxFaults /\ state' \in Fleet /\ unsaved' \in BOOLEAN
  BY <1>1, FaultFacts, TypesNow
<1>4. TypeOK'
  BY <1>1, <1>2, <1>3, TypesKept, TypesNow
<1>5. Placed'
  BY <1>1, <1>2 DEF Placed, AtSlot, RollPc, ClassicPc, RevertPc, CommandPc, DeployPc, Pcs
<1> QED BY <1>1, <1>2, <1>4, <1>5

LEMMA RollRetireEffect ==
  ASSUME TypeOK, Placed, RollRetire
  PROVE  /\ TypeOK' /\ Placed' /\ Moved /\ Aside /\ pc = "rollRetire" /\ pc' = "revert" /\ Unsaved
         /\ mem' = mem /\ loc' = loc /\ outcome' = outcome
         /\ \E p \in mem.retiring : Ends({p}) \/ Strays(p)
<1>1. /\ pc = "rollRetire" /\ UNCHANGED SupMem /\ UNCHANGED Rest /\ mem' = mem /\ loc' = loc
      /\ outcome' = outcome /\ pc' = "revert" /\ Unsaved
  BY DEF RollRetire, Goto
<1>2. Aside /\ loc.kind = "deploy" /\ loc.after = "fail"
  BY <1>1, AsideIs DEF Placed, RollPc
<1>3. PICK p \in mem.retiring : TryStop(p)
  BY DEF RollRetire
<1>4. (Ends({p}) \/ Strays(p)) /\ Moved /\ faults' \in 0 .. MaxFaults
  BY <1>3, TryStopFacts
<1>5. TypeOK'
  BY <1>1, <1>2, <1>4, TypesKept, TypesNow DEF Unsaved
<1>6. Placed'
  BY <1>1, <1>2 DEF Placed, AtSlot, RollPc, ClassicPc, RevertPc, CommandPc, DeployPc, Pcs
<1> QED BY <1>1, <1>2, <1>4, <1>5, <1>6

LEMMA RollDrainEffect ==
  ASSUME TypeOK, Placed, RollDrain
  PROVE  /\ TypeOK' /\ Placed' /\ Moved /\ Aside /\ pc = "rollDrain" /\ Over("roll", "promote") /\ Unsaved
         /\ mem' = mem
         /\ \/ Ends({loc.old.pid}) \/ Strays(loc.old.pid)
            \/ loc.old.pid \notin running /\ Still /\ astray' = astray
<1>1. /\ pc = "rollDrain" /\ UNCHANGED SupMem /\ UNCHANGED Rest /\ mem' = mem /\ loc.todo # {}
      /\ Advance("roll", "promote") /\ Unsaved
  BY DEF RollDrain, Placed, AtSlot
<1>2. Aside /\ loc.kind = "deploy" /\ loc.after = "fail" /\ Over("roll", "promote") /\ loc' \in Local
  BY <1>1, AsideIs, AdvanceFacts DEF Placed, RollPc, Over, Visits
<1>3. /\ \/ Ends({loc.old.pid}) \/ Strays(loc.old.pid)
         \/ loc.old.pid \notin running /\ Still /\ astray' = astray
      /\ Moved /\ faults' \in 0 .. MaxFaults
  <2>1. CASE loc.old.pid \in running
    <3>1. TryStop(loc.old.pid)
      BY <2>1 DEF RollDrain
    <3> QED BY <3>1, TryStopFacts
  <2>2. CASE loc.old.pid \notin running
    <3>1. Fine /\ UNCHANGED Procs /\ astray' = astray
      BY <2>2 DEF RollDrain
    <3> QED BY <2>2, <3>1, ProcsStill, TypesNow DEF Fine
  <2> QED BY <2>1, <2>2
<1>4. TypeOK'
  BY <1>1, <1>2, <1>3, TypesKept, TypesNow DEF Unsaved
<1>6. pc' = "roll" => loc'.todo # {}
  <2>1. loc.todo \subseteq Slot /\ loc'.todo = loc.todo \ {Cur}
    BY <1>2, TypesNow, LocalFields DEF Over, Visits
  <2> QED BY <1>1, <1>2, <2>1 DEF Over, Visits
<1>5. Placed'
  BY <1>1, <1>2, <1>6 DEF Over, Visits, Placed, AtSlot, RollPc, ClassicPc, RevertPc, CommandPc, DeployPc, Pcs
<1> QED BY <1>1, <1>2, <1>3, <1>4, <1>5

LEMMA UndoEffect ==
  ASSUME TypeOK, Placed, Undo
  PROVE  /\ TypeOK' /\ Placed' /\ Still /\ Moved /\ Aside /\ pc = "undo" /\ pc' = "revert" /\ astray' = astray
         /\ mem' = mem /\ loc' = loc /\ outcome' = outcome /\ Tried(mem)
<1>1. /\ pc = "undo" /\ UNCHANGED SupMem /\ UNCHANGED Rest /\ UNCHANGED Procs /\ astray' = astray
      /\ mem' = mem /\ loc' = loc /\ outcome' = outcome /\ pc' = "revert" /\ TrySave(mem)
  BY DEF Undo, Goto
<1>2. Aside /\ Still /\ Moved /\ loc.kind = "deploy" /\ loc.after = "fail"
  BY <1>1, AsideIs, ProcsStill DEF Placed
<1>3. faults' \in 0 .. MaxFaults /\ state' \in Fleet /\ unsaved' \in BOOLEAN /\ Tried(mem)
  BY <1>1, SavedFacts, TypesNow DEF Tried
<1>4. TypeOK'
  BY <1>1, <1>2, <1>3, TypesKept, TypesNow
<1>5. Placed'
  BY <1>1, <1>2 DEF Placed, AtSlot, RollPc, ClassicPc, RevertPc, CommandPc, DeployPc, Pcs
<1> QED BY <1>1, <1>2, <1>3, <1>4, <1>5

LEMMA ClassicMarkEffect ==
  ASSUME TypeOK, Placed, ClassicMark
  PROVE  /\ TypeOK' /\ Placed' /\ Still /\ Moved /\ Aside /\ pc = "drain" /\ astray' = astray
         /\ loc' = loc /\ outcome' = outcome /\ unsaved' = unsaved
         /\ SameSlots(mem', mem) /\ OneMore(mem', mem, Rec.ver)
         /\ \/ state' = mem' /\ pc' = "drainStop"
            \/ Unsaved /\ pc' = "revert"
<1>1. /\ pc = "drain" /\ UNCHANGED SupMem /\ UNCHANGED Rest /\ UNCHANGED Procs /\ astray' = astray
      /\ loc.todo # {} /\ mem' = Journalled(mem, Rec)
      /\ \/ Saved(mem') /\ Goto("drainStop")
         \/ SaveFails /\ Goto("revert")
  BY DEF ClassicMark, Placed, AtSlot
<1>2. /\ Aside /\ Still /\ Moved /\ Cur \in Slot /\ Rec \in Record /\ mem \in Fleet
      /\ loc.kind = "deploy" /\ loc.after = "fail" /\ mem.on # {}
  BY <1>1, AsideIs, ProcsStill, CurIn, RecIn, TypesNow DEF Placed, ClassicPc
<1>3. SameSlots(mem', mem) /\ OneMore(mem', mem, Rec.ver)
  BY <1>1, <1>2, JournalledFacts
<1>4. /\ loc' = loc /\ outcome' = outcome /\ unsaved' = unsaved /\ faults' \in 0 .. MaxFaults
      /\ \/ state' = mem' /\ pc' = "drainStop"
         \/ Unsaved /\ pc' = "revert"
  BY <1>1, SaveFailsFacts, TypesNow DEF Saved, Fine, Goto, Unsaved
<1>5. TypeOK'
  BY <1>2, <1>3, <1>4, TypesKept, TypesNow DEF Unsaved, SameSlots
<1>6. Placed'
  BY <1>1, <1>2, <1>3, <1>4 DEF SameSlots, Placed, AtSlot, RollPc, ClassicPc, RevertPc, CommandPc, DeployPc, Pcs
<1> QED BY <1>1, <1>2, <1>3, <1>4, <1>5, <1>6

\* The first pass of a classic deploy goes on to the next slot; the second begins.
Drained ==
  /\ Visits(loc', loc, IF loc.todo = {Cur} THEN mem.on ELSE loc.todo \ {Cur}, loc.old)
  /\ pc' = (IF loc.todo = {Cur} THEN "launch" ELSE "drain") /\ outcome' = outcome

LEMMA DrainedFacts ==
  ASSUME TypeOK, loc.todo # {}, mem.on # {}, outcome' = outcome,
         loc' = [loc EXCEPT !.todo = IF @ = {Cur} THEN mem.on ELSE @ \ {Cur}],
         pc' = IF loc.todo = {Cur} THEN "launch" ELSE "drain"
  PROVE  Drained /\ loc' \in Local /\ loc'.todo # {}
<1> DEFINE T == IF loc.todo = {Cur} THEN mem.on ELSE loc.todo \ {Cur}
<1>1. T \in SUBSET Slot /\ T # {}
  BY TypesNow, FleetFields, LocalFields
<1>2. loc' = [loc EXCEPT !.todo = T]
  OBVIOUS
<1> HIDE DEF T
<1>3. Visits(loc', loc, T, loc.old)
  BY <1>1, <1>2, TypesNow DEF Local, Visits
<1> QED BY <1>1, <1>3 DEF Drained, Visits, T

LEMMA ClassicStopEffect ==
  ASSUME TypeOK, Placed, ClassicStop
  PROVE  /\ TypeOK' /\ Placed' /\ Moved /\ Aside /\ pc = "drainStop" /\ Unsaved
         /\ Rewritten(0, Rec.ver, "stopped") /\ outcome' = outcome
         /\ \/ (Ends({Rec.pid}) \/ Strays(Rec.pid)) /\ loc' = loc /\ pc' = "drainSave"
            \/ ~Live(Rec) /\ Still /\ astray' = astray /\ Drained
<1>1. pc = "drainStop" /\ UNCHANGED SupMem /\ UNCHANGED Rest /\ loc.todo # {} /\ mem.on # {} /\ Unsaved
      /\ mem' = Set(mem, Cur, NoPid(Rec)) /\ loc.kind = "deploy" /\ loc.after = "fail"
  BY DEF ClassicStop, Placed, AtSlot, ClassicPc
<1>2. Aside /\ Rewritten(0, Rec.ver, "stopped") /\ mem' \in Fleet /\ mem'.on = mem.on
  BY <1>1, AsideIs, SetNoPid DEF Rewritten, Only
<1>3. CASE Live(Rec) /\ TryStop(Rec.pid) /\ Goto("drainSave")
  <2>1. (Ends({Rec.pid}) \/ Strays(Rec.pid)) /\ Moved /\ faults' \in 0 .. MaxFaults
    BY <1>3, TryStopFacts
  <2>2. loc' = loc /\ pc' = "drainSave" /\ outcome' = outcome
    BY <1>3 DEF Goto
  <2>3. TypeOK'
    BY <1>1, <1>2, <2>1, <2>2, TypesKept, TypesNow DEF Unsaved
  <2>4. Placed'
    BY <1>1, <1>2, <2>2 DEF Placed, AtSlot, RollPc, ClassicPc, RevertPc, CommandPc, DeployPc, Pcs
  <2> QED BY <1>1, <1>2, <2>1, <2>2, <2>3, <2>4
<1>4. CASE /\ ~Live(Rec) /\ Fine /\ UNCHANGED <<Procs, astray, outcome>>
           /\ loc' = [loc EXCEPT !.todo = IF @ = {Cur} THEN mem.on ELSE @ \ {Cur}]
           /\ pc' = IF loc.todo = {Cur} THEN "launch" ELSE "drain"
  <2>1. Drained /\ loc' \in Local /\ loc'.todo # {} /\ Still /\ Moved
    BY <1>1, <1>4, DrainedFacts, ProcsStill
  <2>3. TypeOK'
    BY <1>1, <1>2, <1>4, <2>1, TypesKept, TypesNow DEF Unsaved, Fine
  <2>4. Placed'
    BY <1>1, <1>2, <2>1 DEF Drained, Visits, Placed, AtSlot, RollPc, ClassicPc, RevertPc, CommandPc, DeployPc, Pcs
  <2> QED BY <1>1, <1>2, <1>4, <2>1, <2>3, <2>4
<1> QED BY <1>3, <1>4 DEF ClassicStop

LEMMA ClassicSaveEffect ==
  ASSUME TypeOK, Placed, ClassicSave
  PROVE  /\ TypeOK' /\ Placed' /\ Still /\ Moved /\ Aside /\ pc = "drainSave" /\ astray' = astray
         /\ mem' = mem /\ Tried(mem) /\ Drained
<1>1. /\ pc = "drainSave" /\ UNCHANGED SupMem /\ UNCHANGED Rest /\ loc.todo # {} /\ mem.on # {}
      /\ UNCHANGED Procs /\ mem' = mem /\ outcome' = outcome /\ astray' = astray /\ TrySave(mem)
      /\ loc' = [loc EXCEPT !.todo = IF @ = {Cur} THEN mem.on ELSE @ \ {Cur}]
      /\ pc' = (IF loc.todo = {Cur} THEN "launch" ELSE "drain")
      /\ loc.kind = "deploy" /\ loc.after = "fail"
  BY DEF ClassicSave, Placed, AtSlot, ClassicPc
<1>2. Aside /\ Drained /\ loc' \in Local /\ loc'.todo # {} /\ Still /\ Moved
  BY <1>1, AsideIs, DrainedFacts, ProcsStill
<1>3. faults' \in 0 .. MaxFaults /\ state' \in Fleet /\ unsaved' \in BOOLEAN /\ Tried(mem)
  BY <1>1, SavedFacts, TypesNow DEF Tried
<1>4. TypeOK'
  BY <1>1, <1>2, <1>3, TypesKept, TypesNow
<1>5. Placed'
  BY <1>1, <1>2 DEF Drained, Visits, Placed, AtSlot, RollPc, ClassicPc, RevertPc, CommandPc, DeployPc, Pcs
<1> QED BY <1>1, <1>2, <1>3, <1>4, <1>5

\* The record a failed launch leaves in memory.
Fizzled(v) ==
  /\ running' = running /\ died' = died /\ Unsaved /\ astray' = astray
  /\ mem'.slots[Cur].ver = v
  /\ \/ mem'.slots[Cur].pid = Rec.pid /\ mem'.slots[Cur].status = Rec.status
     \/ /\ mem'.slots[Cur].pid = launched + 1 /\ launched' = launched + 1
        /\ mem'.slots[Cur].status = "starting"

LEMMA ClassicLaunchEffect ==
  ASSUME TypeOK, Placed, ClassicLaunch
  PROVE  /\ TypeOK' /\ Placed' /\ Moved /\ Aside /\ pc = "launch" /\ loc' = loc /\ outcome' = outcome
         /\ unsaved' = unsaved /\ astray' = astray
         /\ \/ Starts(loc.target) /\ Relaunched(mem', mem, Cur, loc.target) /\ state' = mem' /\ pc' = "gate"
            \/ /\ Fizzled(loc.target) /\ Only(mem', mem, mem.on, mem'.slots) /\ PutBack(mem'.slots[Cur])
               /\ pc' = "revert"
<1>1. pc = "launch" /\ UNCHANGED SupMem /\ UNCHANGED Rest /\ loc.todo # {} /\ mem.on # {}
      /\ loc.kind = "deploy" /\ loc.after = "fail"
  BY DEF ClassicLaunch, Placed, AtSlot, ClassicPc
<1>2. Aside /\ loc.target \in Ver
  BY <1>1, AsideIs, LocalFields, TypesNow
<1>3. CASE Launched(Cur, loc.target) /\ Goto("gate")
  <2>1. /\ Starts(loc.target) /\ Moved /\ Relaunched(mem', mem, Cur, loc.target)
        /\ state' = mem' /\ unsaved' = unsaved /\ astray' = astray
        /\ loc' = loc /\ pc' = "gate" /\ outcome' = outcome /\ TypeOK' /\ mem'.on # {}
    BY <1>1, <1>2, <1>3, LaunchStep
  <2>2. Placed'
    BY <1>1, <2>1 DEF Placed, AtSlot, RollPc, ClassicPc, RevertPc, CommandPc, DeployPc, Pcs
  <2> QED BY <1>1, <1>2, <2>1, <2>2
<1>4. CASE \E r \in Records(loc.target) :
             LaunchFails(loc.target, r) /\ mem' = Set(mem, Cur, r) /\ Goto("revert")
  <2>1. PICK r : LaunchFails(loc.target, r) /\ mem' = Set(mem, Cur, r) /\ Goto("revert")
    BY <1>4
  <2>2. /\ r \in Record /\ r.ver = loc.target /\ running' = running /\ died' = died /\ Moved
        /\ \/ r.pid = Rec.pid /\ r.status = Rec.status /\ launched' = launched
           \/ r.pid = launched + 1 /\ r.status = "starting" /\ launched' = launched + 1
        /\ state' = state /\ unsaved' = unsaved /\ astray' = astray /\ faults' \in 0 .. MaxFaults
    BY <1>1, <1>2, <2>1, LaunchFailsFacts
  <2>3. Revised(mem', mem, Cur, r)
    BY <1>1, <2>1, <2>2, SetCur
  <2>4. loc' = loc /\ pc' = "revert" /\ outcome' = outcome
    BY <2>1 DEF Goto
  <2>5. mem' \in Fleet /\ Fizzled(loc.target) /\ Only(mem', mem, mem.on, mem'.slots) /\ PutBack(mem'.slots[Cur])
    BY <2>2, <2>3 DEF Revised, Only, Put, PutBack, Fizzled, Unsaved
  <2>6. TypeOK'
    BY <1>2, <2>2, <2>4, <2>5, TypesKept, TypesNow
  <2>7. Placed'
    BY <1>1, <2>4 DEF Placed, AtSlot, RollPc, ClassicPc, RevertPc, CommandPc, DeployPc, Pcs
  <2> QED BY <1>1, <1>2, <2>2, <2>4, <2>5, <2>6, <2>7
<1> QED BY <1>3, <1>4 DEF ClassicLaunch

LEMMA ClassicCommitEffect ==
  ASSUME TypeOK, Placed, ClassicCommit
  PROVE  /\ TypeOK' /\ Placed' /\ Still /\ Moved /\ Aside /\ pc = "gate" /\ astray' = astray
         /\ unsaved' = unsaved /\ outcome' = outcome /\ Live(Rec) /\ Rewritten(Rec.pid, Rec.ver, "running")
         /\ \/ state' = mem' /\ Over("launch", "promote")
            \/ Unsaved /\ loc' = loc /\ pc' = "revert"
<1>1. /\ pc = "gate" /\ UNCHANGED SupMem /\ UNCHANGED Rest /\ loc.todo # {} /\ mem.on # {} /\ Live(Rec)
      /\ UNCHANGED Procs /\ astray' = astray
      /\ mem' = Set(mem, Cur, [Rec EXCEPT !.status = "running"])
      /\ loc.kind = "deploy" /\ loc.after = "fail" /\ loc.n \in 1 .. MaxReplicas
  BY DEF ClassicCommit, Placed, AtSlot, ClassicPc
<1>2. Aside /\ Still /\ Moved
  BY <1>1, AsideIs, ProcsStill
<1>3. Rewritten(Rec.pid, Rec.ver, "running") /\ mem' \in Fleet /\ mem'.on = mem.on
  BY <1>1, SetStatus DEF Status, Rewritten, Only
<1>4. CASE Saved(mem') /\ Advance("launch", "promote")
  <2>1. Over("launch", "promote") /\ loc' \in Local /\ outcome' = outcome
    BY <1>4, AdvanceFacts DEF Over, Visits
  <2>2. state' = mem' /\ unsaved' = unsaved /\ faults' = faults
    BY <1>4 DEF Saved, Fine
  <2>3. TypeOK'
    BY <1>2, <1>3, <2>1, <2>2, TypesKept, TypesNow
  <2>4. Placed'
    BY <1>1, <1>3, <2>1 DEF Over, Visits, Placed, AtSlot, RollPc, ClassicPc, RevertPc, CommandPc, DeployPc, Pcs
  <2> QED BY <1>1, <1>2, <1>3, <2>1, <2>2, <2>3, <2>4
<1>5. CASE SaveFails /\ Goto("revert")
  <2>1. Unsaved /\ loc' = loc /\ pc' = "revert" /\ outcome' = outcome /\ faults' \in 0 .. MaxFaults
    BY <1>5, SaveFailsFacts DEF Goto, Unsaved
  <2>2. TypeOK'
    BY <1>2, <1>3, <2>1, TypesKept, TypesNow DEF Unsaved
  <2>3. Placed'
    BY <1>1, <2>1 DEF Placed, AtSlot, RollPc, ClassicPc, RevertPc, CommandPc, DeployPc, Pcs
  <2> QED BY <1>1, <1>2, <1>3, <2>1, <2>2, <2>3 DEF Unsaved
<1> QED BY <1>4, <1>5 DEF ClassicCommit

LEMMA ClassicUnlaunchEffect ==
  ASSUME TypeOK, Placed, ClassicUnlaunch
  PROVE  /\ TypeOK' /\ Placed' /\ Moved /\ Aside /\ pc = "gateStop" /\ pc' = "undo" /\ loc' = loc
         /\ outcome' = outcome /\ Unsaved /\ (Ends({Rec.pid}) \/ Strays(Rec.pid))
         /\ Rewritten(0, Rec.ver, "stopped")
<1>1. /\ pc = "gateStop" /\ UNCHANGED SupMem /\ UNCHANGED Rest /\ loc.todo # {} /\ Unsaved
      /\ TryStop(Rec.pid) /\ mem' = Set(mem, Cur, NoPid(Rec)) /\ pc' = "undo" /\ loc' = loc /\ outcome' = outcome
      /\ loc.kind = "deploy" /\ loc.after = "fail"
  BY DEF ClassicUnlaunch, Goto, Placed, AtSlot, ClassicPc
<1>2. Aside /\ Rewritten(0, Rec.ver, "stopped") /\ mem' \in Fleet
  BY <1>1, AsideIs, SetNoPid
<1>3. (Ends({Rec.pid}) \/ Strays(Rec.pid)) /\ Moved /\ faults' \in 0 .. MaxFaults
  BY <1>1, TryStopFacts
<1>5. TypeOK'
  BY <1>1, <1>2, <1>3, TypesKept, TypesNow DEF Unsaved
<1>6. Placed'
  BY <1>1 DEF Placed, AtSlot, RollPc, ClassicPc, RevertPc, CommandPc, DeployPc, Pcs
<1> QED BY <1>1, <1>2, <1>3, <1>5, <1>6

LEMMA PromoteEffect ==
  ASSUME TypeOK, Placed, Promote
  PROVE  /\ TypeOK' /\ Placed' /\ Still /\ Moved /\ Aside /\ pc = "promote" /\ astray' = astray
         /\ unsaved' = unsaved
         /\ \/ SameSlots(state', mem) /\ Ended("deployed")
            \/ Unsaved /\ Ended("unsettled")
<1>1. /\ pc = "promote" /\ UNCHANGED SupMem /\ UNCHANGED Rest /\ UNCHANGED Procs /\ astray' = astray
  BY DEF Promote
<1>2. Aside /\ Still /\ Moved
  BY <1>1, AsideIs, ProcsStill
<1> DEFINE j == [mem EXCEPT !.roll = "done", !.active = loc.target]
<1>3. SameSlots(j, mem)
  <2>1. mem \in Fleet /\ loc.target \in Ver
    BY TypesNow, LocalFields
  <2> QED BY <2>1 DEF SameSlots, Fleet
<1>4. CASE Saved(j) /\ Return("deployed")
  <2> HIDE DEF j
  <2>1. state' = j /\ j \in Fleet /\ unsaved' = unsaved /\ faults' = faults
    BY <1>3, <1>4 DEF Saved, Fine, SameSlots
  <2> QED BY <1>1, <1>2, <1>3, <1>4, <2>1, ReturnStep, TypesNow
<1>5. CASE (Fault("promote") \/ Fault("store")) /\ Unsaved /\ Return("unsettled")
  <2>1. faults' \in 0 .. MaxFaults
    BY <1>5, FaultFacts
  <2> QED BY <1>1, <1>2, <1>5, <2>1, ReturnStep, TypesNow DEF Unsaved
<1> QED BY <1>4, <1>5 DEF Promote

\* The operation that reverted goes on, or ends.
WentBack ==
  IF loc.after = "prepare"
  THEN mem' = state' /\ loc' = loc /\ pc' = "prepare" /\ outcome' = outcome
  ELSE Ended(IF loc.after = "fail" THEN "failed" ELSE "recovered")

\* The operation ends with its rollout not reverted.
GaveUp == Ended(IF loc.after = "fail" THEN "unsettled" ELSE "refused")

LEMMA WentBackFacts ==
  ASSUME TypeOK, Placed, Reverted, pc \in RevertPc, state' \in Fleet
  PROVE  WentBack /\ loc' \in Local /\ mem' \in Fleet /\ Placed'
<1>1. CASE loc.after = "prepare"
  <2>1. mem' = state' /\ loc' = loc /\ pc' = "prepare" /\ outcome' = outcome
    BY <1>1 DEF Reverted, Goto
  <2>2. loc.kind = "deploy"
    BY <1>1 DEF Placed
  <2>3. Placed'
    BY <1>1, <2>1, <2>2 DEF Placed, AtSlot, RollPc, ClassicPc, RevertPc, CommandPc, DeployPc, Pcs
  <2> QED BY <1>1, <2>1, <2>3, TypesNow DEF WentBack
<1>2. CASE loc.after # "prepare"
  BY <1>2, ReturnFacts, PlacedIdle DEF Reverted, WentBack, Ended
<1> QED BY <1>1, <1>2

LEMMA GaveUpStep ==
  ASSUME TypeOK, Aside, Moved, NotReverted,
         state' \in Fleet, faults' \in 0 .. MaxFaults, unsaved' \in BOOLEAN
  PROVE  GaveUp /\ TypeOK' /\ Placed'
BY ReturnStep DEF NotReverted, GaveUp

LEMMA RevertBeginEffect ==
  ASSUME TypeOK, Placed, RevertBegin
  PROVE  /\ TypeOK' /\ Placed' /\ Still /\ Moved /\ pc = "revert" /\ astray' = astray /\ handle' = handle
         /\ stopped' = stopped /\ before' = before /\ unsaved' = unsaved
         /\ \/ /\ mem.touched = {} /\ SameSlots(state', mem) /\ SameJournal(state', mem) /\ WentBack
               /\ lostHolder' = lostHolder
            \/ /\ SameSlots(mem', mem) /\ SameJournal(mem', mem) /\ state' = mem' /\ pc' = "revertSlot"
               /\ Visits(loc', loc, mem.touched, loc.old) /\ outcome' = outcome /\ lostHolder' = lostHolder
            \/ Unsaved /\ GaveUp /\ lostHolder' = (lostHolder \/ unsaved)
<1>1. /\ pc = "revert" /\ handle' = handle /\ fails' = fails /\ bad' = bad /\ ops' = ops
      /\ stopped' = stopped /\ before' = before /\ UNCHANGED Procs /\ astray' = astray
  BY DEF RevertBegin, SupMem
<1>2. /\ Still /\ Moved /\ mem \in Fleet /\ loc \in Local /\ faults \in 0 .. MaxFaults
      /\ lostHolder \in BOOLEAN /\ unsaved \in BOOLEAN /\ pc \in RevertPc
      /\ \/ loc.kind = "deploy" /\ loc.after \in {"prepare", "fail"}
         \/ loc.kind = "boot" /\ loc.after = "boot"
      /\ loc.kind = "deploy" => loc.n \in 1 .. MaxReplicas
  BY <1>1, ProcsStill, TypesNow DEF Placed, RevertPc
<1>3. CASE mem.touched = {} /\ Saved([mem EXCEPT !.roll = "done"]) /\ Reverted /\ lostHolder' = lostHolder
  <2>1. SameSlots(state', mem) /\ SameJournal(state', mem) /\ unsaved' = unsaved /\ faults' = faults
    BY <1>2, <1>3 DEF Saved, Fine, SameSlots, SameJournal, Fleet
  <2>2. WentBack /\ loc' \in Local /\ mem' \in Fleet /\ Placed'
    BY <1>2, <1>3, <2>1, WentBackFacts DEF SameSlots
  <2>3. TypeOK'
    BY <1>1, <1>2, <1>3, <2>1, <2>2 DEF TypeOK, Moved, SameSlots
  <2> QED BY <1>1, <1>2, <1>3, <2>1, <2>2, <2>3
<1>4. CASE /\ mem.touched # {} /\ mem' = [mem EXCEPT !.roll = "reverting"] /\ Saved(mem')
           /\ pc' = "revertSlot" /\ loc' = [loc EXCEPT !.todo = mem.touched] /\ UNCHANGED outcome
           /\ lostHolder' = lostHolder
  <2>1. SameSlots(mem', mem) /\ SameJournal(mem', mem)
    BY <1>2, <1>4 DEF SameSlots, SameJournal, Fleet
  <2>2. state' = mem' /\ unsaved' = unsaved /\ faults' = faults
    BY <1>4 DEF Saved, Fine
  <2>3. Visits(loc', loc, mem.touched, loc.old)
    <3>1. mem.touched \in SUBSET Slot
      BY <1>2, FleetFields
    <3> QED BY <1>2, <1>4, <3>1 DEF Local, Visits
  <2>4. TypeOK'
    BY <1>1, <1>2, <1>4, <2>1, <2>2, <2>3 DEF TypeOK, Moved, SameSlots, Visits
  <2>5. Placed'
    BY <1>2, <1>4, <2>3 DEF Visits, Placed, AtSlot, RollPc, ClassicPc, RevertPc, CommandPc, DeployPc, Pcs
  <2> QED BY <1>1, <1>2, <1>4, <2>1, <2>2, <2>3, <2>4, <2>5
<1>5. CASE SaveFails /\ NotReverted /\ lostHolder' = (lostHolder \/ unsaved)
  <2>1. faults' \in 0 .. MaxFaults /\ state' = state /\ unsaved' = unsaved
    BY <1>5, SaveFailsFacts
  <2>2. GaveUp /\ loc' \in Local /\ mem' \in Fleet /\ Placed'
    BY <1>5, ReturnFacts, PlacedIdle DEF NotReverted, GaveUp, Ended
  <2>3. lostHolder' \in BOOLEAN
    BY <1>5
  <2>4. TypeOK'
    BY <1>1, <1>2, <2>1, <2>2, <2>3 DEF TypeOK, Moved
  <2> QED BY <1>1, <1>2, <1>5, <2>1, <2>2, <2>4 DEF Unsaved
<1> QED BY <1>3, <1>4, <1>5 DEF RevertBegin

LEMMA RevertSkipEffect ==
  ASSUME TypeOK, Placed, RevertSkip
  PROVE  /\ TypeOK' /\ Placed' /\ Still /\ Moved /\ Aside /\ pc = "revertSlot" /\ astray' = astray
         /\ Unsaved /\ mem' = mem /\ Over("revertSlot", "revertEnd")
         /\ (Rec.ver = mem.from[Cur] /\ Live(Rec)) \/ (mem.from[Cur] = 0 /\ Cur \notin mem.on)
<1>1. /\ pc = "revertSlot" /\ UNCHANGED SupMem /\ UNCHANGED Rest /\ UNCHANGED Procs /\ astray' = astray
      /\ Unsaved /\ mem' = mem /\ loc.todo # {} /\ faults' = faults /\ Advance("revertSlot", "revertEnd")
  BY DEF RevertSkip, Fine, Placed, AtSlot
<1>5. (Rec.ver = mem.from[Cur] /\ Live(Rec)) \/ (mem.from[Cur] = 0 /\ Cur \notin mem.on)
  BY DEF RevertSkip, Back
<1>2. Aside /\ Still /\ Moved /\ Over("revertSlot", "revertEnd") /\ loc' \in Local
  BY <1>1, AsideIs, ProcsStill, AdvanceFacts DEF Over, Visits
<1>3. TypeOK'
  BY <1>1, <1>2, TypesKept, TypesNow DEF Unsaved
<1>4. Placed'
  BY <1>1, <1>2 DEF Over, Visits, Placed, AtSlot, RollPc, ClassicPc, RevertPc, CommandPc, DeployPc, Pcs
<1> QED BY <1>1, <1>2, <1>3, <1>4, <1>5

LEMMA RevertStopEffect ==
  ASSUME TypeOK, Placed, RevertStop
  PROVE  /\ TypeOK' /\ Placed' /\ Moved /\ Aside /\ pc = "revertSlot" /\ Unsaved
         /\ ~(Rec.ver = mem.from[Cur] /\ Live(Rec)) /\ (mem.from[Cur] = 0 => Cur \in mem.on)
         /\ \/ /\ Ends({Rec.pid}) /\ loc' = loc /\ outcome' = outcome
               /\ \/ mem.from[Cur] = 0 /\ Rewritten(0, Rec.ver, "stopped") /\ pc' = "revertSave"
                  \/ /\ mem.from[Cur] # 0 /\ pc' = "revertLaunch"
                     /\ Rewritten(0, Rec.ver, Rec.status) \/ (~Live(Rec) /\ mem' = mem)
            \/ Strays(Rec.pid) /\ GaveUp
            \/ /\ mem.from[Cur] # 0 /\ Still /\ mem' = mem /\ loc' = loc /\ outcome' = outcome
               /\ astray' = astray /\ pc' = "recovery"
<1>1. /\ pc = "revertSlot" /\ UNCHANGED SupMem /\ UNCHANGED Rest /\ Unsaved /\ loc.todo # {}
      /\ ~(Rec.ver = mem.from[Cur] /\ Live(Rec)) /\ (mem.from[Cur] = 0 => Cur \in mem.on)
  BY DEF RevertStop, Back, Placed, AtSlot
<1>2. Aside /\ Rec \in Record /\ mem \in Fleet
  BY <1>1, AsideIs, RecIn, TypesNow
<1>3. CASE /\ Stopped({Rec.pid})
           /\ mem' = IF mem.from[Cur] = 0 THEN Set(mem, Cur, NoPid(Rec))
                     ELSE IF Live(Rec) THEN Set(mem, Cur, [Rec EXCEPT !.pid = 0]) ELSE mem
           /\ Goto(IF mem.from[Cur] = 0 THEN "revertSave" ELSE "revertLaunch")
  <2>1. Ends({Rec.pid}) /\ Moved /\ faults' = faults
    BY <1>3, StoppedFacts
  <2>2. loc' = loc /\ outcome' = outcome /\ pc' = IF mem.from[Cur] = 0 THEN "revertSave" ELSE "revertLaunch"
    BY <1>3 DEF Goto
  <2>3. /\ mem' \in Fleet
        /\ mem.from[Cur] = 0 => Rewritten(0, Rec.ver, "stopped")
        /\ mem.from[Cur] # 0 => Rewritten(0, Rec.ver, Rec.status) \/ (~Live(Rec) /\ mem' = mem)
    <3>1. CASE mem.from[Cur] = 0
      BY <1>1, <1>3, <3>1, SetNoPid
    <3>2. CASE mem.from[Cur] # 0 /\ Live(Rec)
      <4> DEFINE r == [Rec EXCEPT !.pid = 0]
      <4>1. r \in Record /\ r.pid = 0 /\ r.ver = Rec.ver /\ r.status = Rec.status
        BY <1>2, WithoutPid
      <4>2. mem' = Set(mem, Cur, r)
        BY <1>3, <3>2
      <4> HIDE DEF r
      <4>3. Rewritten(0, Rec.ver, Rec.status) /\ mem' \in Fleet
        BY <1>1, <4>1, <4>2, SetStep
      <4> QED BY <3>2, <4>3
    <3>3. CASE mem.from[Cur] # 0 /\ ~Live(Rec)
      <4>1. mem' = mem
        <5>1. mem' = IF mem.from[Cur] = 0 THEN Set(mem, Cur, NoPid(Rec))
                     ELSE IF Live(Rec) THEN Set(mem, Cur, [Rec EXCEPT !.pid = 0]) ELSE mem
          BY <1>3
        <5> QED BY <3>3, <5>1, Zenon
      <4> QED BY <1>2, <3>3, <4>1
    <3> QED BY <3>1, <3>2, <3>3
  <2>4. TypeOK'
    BY <1>1, <1>2, <2>1, <2>2, <2>3, TypesKept, TypesNow DEF Unsaved
  <2>5. Placed'
    BY <1>1, <2>2 DEF Placed, AtSlot, RollPc, ClassicPc, RevertPc, CommandPc, DeployPc, Pcs
  <2> QED BY <1>1, <1>2, <2>1, <2>2, <2>3, <2>4, <2>5
<1>4. CASE StopFails(Rec.pid) /\ NotReverted
  <2>1. Strays(Rec.pid) /\ Moved /\ faults' \in 0 .. MaxFaults
    BY <1>4, StopFailsFacts
  <2> QED BY <1>1, <1>2, <1>4, <2>1, GaveUpStep, TypesNow DEF Unsaved
<1>5. CASE mem.from[Cur] # 0 /\ Fault("paths") /\ Goto("recovery") /\ UNCHANGED <<Procs, mem, astray>>
  <2>1. Still /\ Moved /\ faults' \in 0 .. MaxFaults /\ mem' = mem /\ astray' = astray
    BY <1>5, ProcsStill, FaultFacts
  <2>2. loc' = loc /\ outcome' = outcome /\ pc' = "recovery"
    BY <1>5 DEF Goto
  <2>4. TypeOK'
    BY <1>1, <1>2, <2>1, <2>2, TypesKept, TypesNow DEF Unsaved
  <2>5. Placed'
    BY <1>1, <2>2 DEF Placed, AtSlot, RollPc, ClassicPc, RevertPc, CommandPc, DeployPc, Pcs
  <2> QED BY <1>1, <1>2, <1>5, <2>1, <2>2, <2>4, <2>5
<1> QED BY <1>3, <1>4, <1>5 DEF RevertStop

LEMMA RevertLaunchEffect ==
  ASSUME TypeOK, Placed, RevertLaunch
  PROVE  /\ TypeOK' /\ Placed' /\ Moved /\ Aside /\ pc = "revertLaunch" /\ loc' = loc /\ outcome' = outcome
         /\ unsaved' = unsaved /\ astray' = astray
         /\ \/ /\ Starts(mem.from[Cur]) /\ Relaunched(mem', mem, Cur, mem.from[Cur])
               /\ state' = mem' /\ pc' = "revertGate"
            \/ /\ Fizzled(mem.from[Cur]) /\ Only(mem', mem, mem.on \cup {Cur}, mem'.slots)
               /\ PutBack(mem'.slots[Cur]) /\ pc' = "recovery"
<1>1. pc = "revertLaunch" /\ UNCHANGED SupMem /\ UNCHANGED Rest /\ loc.todo # {}
  BY DEF RevertLaunch, Placed, AtSlot
<1> DEFINE v == mem.from[Cur]
<1>2. Aside /\ v \in Ver /\ Cur \in Slot /\ mem \in Fleet
  BY <1>1, AsideIs, CurIn, FleetFields, TypesNow
<1>3. CASE Launched(Cur, v) /\ Goto("revertGate")
  <2>1. /\ Starts(v) /\ Moved /\ Relaunched(mem', mem, Cur, v)
        /\ state' = mem' /\ unsaved' = unsaved /\ astray' = astray
        /\ loc' = loc /\ pc' = "revertGate" /\ outcome' = outcome /\ TypeOK'
    BY <1>1, <1>2, <1>3, LaunchStep
  <2>2. Placed'
    BY <1>1, <2>1 DEF Placed, AtSlot, RollPc, ClassicPc, RevertPc, CommandPc, DeployPc, Pcs
  <2> QED BY <1>1, <1>2, <2>1, <2>2
<1>4. CASE \E r \in Records(v) : /\ LaunchFails(v, r) /\ Goto("recovery")
                                 /\ mem' = Set([mem EXCEPT !.on = @ \cup {Cur}], Cur, r)
  <2>1. PICK r : LaunchFails(v, r) /\ mem' = Set([mem EXCEPT !.on = @ \cup {Cur}], Cur, r) /\ Goto("recovery")
    BY <1>4
  <2>2. /\ r \in Record /\ r.ver = v /\ running' = running /\ died' = died /\ Moved
        /\ \/ r.pid = Rec.pid /\ r.status = Rec.status /\ launched' = launched
           \/ r.pid = launched + 1 /\ r.status = "starting" /\ launched' = launched + 1
        /\ state' = state /\ unsaved' = unsaved /\ astray' = astray /\ faults' \in 0 .. MaxFaults
    BY <1>1, <1>2, <2>1, LaunchFailsFacts
  <2> DEFINE D == mem.on \cup {Cur}
             j == [mem EXCEPT !.on = D]
  <2>3. D \in SUBSET Slot
    BY <1>2, FleetFields
  <2> HIDE DEF D
  <2>4. Only(j, mem, D, mem.slots)
    BY <1>2, <2>3, OnFacts
  <2>5. mem' = Set(j, Cur, r)
    BY <2>1 DEF D
  <2> HIDE DEF j
  <2>6. Only(mem', j, j.on, mem'.slots) /\ Put(mem'.slots, j.slots, Cur, r)
    BY <1>2, <2>2, <2>4, <2>5, SetFacts DEF Only
  <2>7. mem' \in Fleet /\ Fizzled(v) /\ Only(mem', mem, D, mem'.slots) /\ PutBack(mem'.slots[Cur])
    BY <2>2, <2>4, <2>6 DEF Only, Put, PutBack, Fizzled, Unsaved
  <2>8. loc' = loc /\ pc' = "recovery" /\ outcome' = outcome
    BY <2>1 DEF Goto
  <2>9. TypeOK'
    BY <1>2, <2>2, <2>7, <2>8, TypesKept, TypesNow
  <2>10. Placed'
    BY <1>1, <2>8 DEF Placed, AtSlot, RollPc, ClassicPc, RevertPc, CommandPc, DeployPc, Pcs
  <2> QED BY <1>1, <1>2, <2>2, <2>7, <2>8, <2>9, <2>10 DEF D
<1> QED BY <1>3, <1>4 DEF RevertLaunch

LEMMA RevertProvenEffect ==
  ASSUME TypeOK, Placed, RevertProven
  PROVE  /\ TypeOK' /\ Placed' /\ Still /\ Moved /\ Aside /\ pc = "revertGate" /\ pc' = "revertSave"
         /\ loc' = loc /\ outcome' = outcome /\ Unsaved /\ astray' = astray /\ Live(Rec)
         /\ Rewritten(Rec.pid, Rec.ver, "running")
<1>1. /\ pc = "revertGate" /\ UNCHANGED SupMem /\ UNCHANGED Rest /\ loc.todo # {} /\ Unsaved /\ Live(Rec)
      /\ UNCHANGED Procs /\ astray' = astray /\ faults' = faults
      /\ mem' = Set(mem, Cur, [Rec EXCEPT !.status = "running"])
      /\ pc' = "revertSave" /\ loc' = loc /\ outcome' = outcome
  BY DEF RevertProven, Goto, Fine, Placed, AtSlot
<1>2. Aside /\ Still /\ Moved /\ Rewritten(Rec.pid, Rec.ver, "running") /\ mem' \in Fleet
  BY <1>1, AsideIs, ProcsStill, SetStatus DEF Status
<1>3. TypeOK'
  BY <1>1, <1>2, TypesKept, TypesNow DEF Unsaved
<1>4. Placed'
  BY <1>1 DEF Placed, AtSlot, RollPc, ClassicPc, RevertPc, CommandPc, DeployPc, Pcs
<1> QED BY <1>1, <1>2, <1>3, <1>4

LEMMA RevertSaveEffect ==
  ASSUME TypeOK, Placed, RevertSave
  PROVE  /\ TypeOK' /\ Placed' /\ Still /\ Moved /\ Aside /\ pc = "revertSave" /\ astray' = astray
         /\ unsaved' = unsaved
         /\ \/ Over("revertSlot", "revertEnd") /\ mem' = mem /\ state' = mem
            \/ GaveUp /\ Unsaved
<1>1. pc = "revertSave" /\ UNCHANGED SupMem /\ UNCHANGED Rest /\ loc.todo # {} /\ UNCHANGED Procs /\ astray' = astray
  BY DEF RevertSave, Placed, AtSlot
<1>2. Aside /\ Still /\ Moved
  BY <1>1, AsideIs, ProcsStill
<1>3. CASE Saved(mem) /\ Advance("revertSlot", "revertEnd") /\ UNCHANGED mem
  <2>1. Over("revertSlot", "revertEnd") /\ loc' \in Local
    BY <1>3, AdvanceFacts DEF Over, Visits
  <2>2. TypeOK' /\ state' = mem /\ unsaved' = unsaved
    BY <1>2, <1>3, <2>1, TypesKept, TypesNow, SavedFacts DEF Saved
  <2>3. Placed'
    BY <1>1, <2>1 DEF Over, Visits, Placed, AtSlot, RollPc, ClassicPc, RevertPc, CommandPc, DeployPc, Pcs
  <2> QED BY <1>1, <1>2, <1>3, <2>1, <2>2, <2>3
<1>4. CASE SaveFails /\ NotReverted
  BY <1>1, <1>2, <1>4, GaveUpStep, SaveFailsFacts, TypesNow DEF Unsaved
<1> QED BY <1>3, <1>4 DEF RevertSave

LEMMA RevertUndoEffect ==
  ASSUME TypeOK, Placed, RevertUndo
  PROVE  /\ TypeOK' /\ Placed' /\ Moved /\ Aside /\ pc = "revertUndo" /\ pc' = "revertRecord" /\ loc' = loc
         /\ outcome' = outcome /\ Unsaved /\ (Ends({Rec.pid}) \/ Strays(Rec.pid))
         /\ Rewritten(0, Rec.ver, "stopped")
<1>1. /\ pc = "revertUndo" /\ UNCHANGED SupMem /\ UNCHANGED Rest /\ loc.todo # {} /\ Unsaved
      /\ TryStop(Rec.pid) /\ mem' = Set(mem, Cur, NoPid(Rec)) /\ pc' = "revertRecord" /\ loc' = loc
      /\ outcome' = outcome
  BY DEF RevertUndo, Goto, Placed, AtSlot
<1>2. Aside /\ Rewritten(0, Rec.ver, "stopped") /\ mem' \in Fleet
  BY <1>1, AsideIs, SetNoPid
<1>3. (Ends({Rec.pid}) \/ Strays(Rec.pid)) /\ Moved /\ faults' \in 0 .. MaxFaults
  BY <1>1, TryStopFacts
<1>5. TypeOK'
  BY <1>1, <1>2, <1>3, TypesKept, TypesNow DEF Unsaved
<1>6. Placed'
  BY <1>1 DEF Placed, AtSlot, RollPc, ClassicPc, RevertPc, CommandPc, DeployPc, Pcs
<1> QED BY <1>1, <1>2, <1>3, <1>5, <1>6

LEMMA RevertRecordEffect ==
  ASSUME TypeOK, Placed, RevertRecord
  PROVE  /\ TypeOK' /\ Placed' /\ Still /\ Moved /\ Aside /\ pc = "revertRecord" /\ astray' = astray
         /\ unsaved' = unsaved
         /\ \/ mem' = mem /\ state' = mem /\ loc' = loc /\ outcome' = outcome /\ pc' = "recovery"
            \/ GaveUp /\ Unsaved
<1>1. pc = "revertRecord" /\ UNCHANGED SupMem /\ UNCHANGED Rest /\ UNCHANGED Procs /\ astray' = astray
  BY DEF RevertRecord
<1>2. Aside /\ Still /\ Moved
  BY <1>1, AsideIs, ProcsStill
<1>3. CASE Saved(mem) /\ Goto("recovery") /\ UNCHANGED mem
  <2>1. state' = mem /\ unsaved' = unsaved /\ faults' = faults /\ loc' = loc /\ outcome' = outcome
        /\ pc' = "recovery" /\ mem' = mem
    BY <1>3 DEF Saved, Fine, Goto
  <2>2. TypeOK'
    BY <1>2, <2>1, TypesKept, TypesNow
  <2>3. Placed'
    BY <1>1, <2>1 DEF Placed, AtSlot, RollPc, ClassicPc, RevertPc, CommandPc, DeployPc, Pcs
  <2> QED BY <1>1, <1>2, <2>1, <2>2, <2>3
<1>4. CASE SaveFails /\ NotReverted
  BY <1>1, <1>2, <1>4, GaveUpStep, SaveFailsFacts, TypesNow DEF Unsaved
<1> QED BY <1>3, <1>4 DEF RevertRecord

LEMMA RecoveryEffect ==
  ASSUME TypeOK, Placed, RecoveryRequired
  PROVE  /\ TypeOK' /\ Placed' /\ Still /\ Moved /\ Aside /\ pc = "recovery" /\ astray' = astray
         /\ unsaved' = unsaved /\ GaveUp /\ (SameSlots(state', mem) \/ Unsaved)
<1>1. pc = "recovery" /\ UNCHANGED SupMem /\ UNCHANGED Rest /\ UNCHANGED Procs /\ astray' = astray /\ NotReverted
  BY DEF RecoveryRequired
<1>2. Aside /\ Still /\ Moved
  BY <1>1, AsideIs, ProcsStill
<1> DEFINE j == [mem EXCEPT !.roll = "recovery_required"]
<1>3. SameSlots(j, mem)
  BY TypesNow DEF SameSlots, Fleet
<1>4. CASE Saved(j)
  <2> HIDE DEF j
  <2>1. state' = j /\ j \in Fleet /\ unsaved' = unsaved /\ faults' = faults
    BY <1>3, <1>4 DEF Saved, Fine, SameSlots
  <2> QED BY <1>1, <1>2, <1>3, <2>1, GaveUpStep, TypesNow
<1>5. CASE SaveFails
  BY <1>1, <1>2, <1>5, GaveUpStep, SaveFailsFacts, TypesNow DEF Unsaved
<1> QED BY <1>4, <1>5 DEF RecoveryRequired

LEMMA RevertEndEffect ==
  ASSUME TypeOK, Placed, RevertEnd
  PROVE  /\ TypeOK' /\ Placed' /\ Still /\ Moved /\ Aside /\ pc = "revertEnd" /\ astray' = astray
         /\ unsaved' = unsaved
         /\ \/ SameSlots(state', mem) /\ state'.touched = {} /\ WentBack
            \/ GaveUp /\ Unsaved
<1>1. pc = "revertEnd" /\ UNCHANGED SupMem /\ UNCHANGED Rest /\ UNCHANGED Procs /\ astray' = astray
  BY DEF RevertEnd
<1>2. Aside /\ Still /\ Moved /\ pc \in RevertPc
  BY <1>1, AsideIs, ProcsStill DEF RevertPc
<1> DEFINE z == [s \in Slot |-> 0]
           j == [mem EXCEPT !.roll = "done", !.touched = {}, !.from = z]
<1>3. z \in [Slot -> Ver]
  BY BoundsAssumption DEF Ver
<1> HIDE DEF z
<1>4. SameSlots(j, mem) /\ j.touched = {}
  BY <1>3, TypesNow DEF SameSlots, Fleet
<1>5. CASE Saved(j) /\ Reverted
  <2> HIDE DEF j
  <2>1. state' = j /\ j \in Fleet /\ unsaved' = unsaved /\ faults' = faults
    BY <1>4, <1>5 DEF Saved, Fine, SameSlots
  <2>2. WentBack /\ loc' \in Local /\ mem' \in Fleet /\ Placed'
    BY <1>2, <1>5, <2>1, WentBackFacts
  <2>3. TypeOK'
    BY <1>2, <2>1, <2>2, TypesKept, TypesNow
  <2> QED BY <1>1, <1>2, <1>4, <2>1, <2>2, <2>3
<1>6. CASE SaveFails /\ NotReverted
  BY <1>1, <1>2, <1>6, GaveUpStep, SaveFailsFacts, TypesNow DEF Unsaved
<1> QED BY <1>5, <1>6 DEF RevertEnd, z

LEMMA DrainEffect ==
  ASSUME TypeOK, Placed, DrainRetirements
  PROVE  /\ TypeOK' /\ Placed' /\ Moved /\ pc = "idle" /\ pc' = "idle" /\ mem' = mem /\ loc' = loc
         /\ outcome' = outcome /\ unsaved' = unsaved /\ handle' = handle /\ lostHolder' = lostHolder
         /\ stopped' = stopped /\ before' = before /\ state.retiring # {}
         /\ \/ /\ Ends(state.retiring \ {state.slots[s].pid : s \in state.on})
               /\ state' \in Fleet /\ state'.on = state.on /\ state'.slots = state.slots /\ state'.retiring = {}
            \/ \E p \in state.retiring : Strays(p) /\ state' = state
<1>1. /\ pc = "idle" /\ pc' = "idle" /\ state.retiring # {} /\ ops > 0 /\ ops' = ops - 1
      /\ mem' = mem /\ loc' = loc /\ outcome' = outcome /\ unsaved' = unsaved /\ handle' = handle
      /\ fails' = fails /\ lostHolder' = lostHolder /\ stopped' = stopped /\ before' = before /\ bad' = bad
  BY DEF DrainRetirements, SupMem
<1>2. ops' \in 0 .. MaxOps
  <2>1. ops \in 0 .. MaxOps /\ MaxOps \in Nat
    BY BoundsAssumption, TypesNow
  <2> QED BY <1>1, <2>1
<1> DEFINE P == state.retiring \ {state.slots[s].pid : s \in state.on}
           q == IF state.roll = "none" THEN "none" ELSE "done"
<1>3. CASE /\ Stopped(P)
           /\ state' = [state EXCEPT !.retiring = {}, !.roll = IF @ = "none" THEN "none" ELSE "done"]
  <2>0. Stopped(P)
    BY <1>3
  <2> HIDE DEF P
  <2>1. Ends(P) /\ Moved /\ faults' = faults
    BY <2>0, StoppedFacts
  <2>2. state' \in Fleet /\ state'.on = state.on /\ state'.slots = state.slots /\ state'.retiring = {}
    <3>1. state' = [state EXCEPT !.retiring = {}, !.roll = q] /\ state \in Fleet
      BY <1>3, TypesNow
    <3>2. q \in {"none", "done"}
      OBVIOUS
    <3> HIDE DEF q
    <3> QED BY <3>1, <3>2 DEF Fleet
  <2>3. TypeOK'
    BY <1>1, <1>2, <2>1, <2>2 DEF TypeOK, Moved
  <2>4. Placed'
    BY <1>1 DEF Placed
  <2> QED BY <1>1, <2>1, <2>2, <2>3, <2>4 DEF P
<1>4. CASE \E p \in state.retiring : StopFails(p) /\ UNCHANGED state
  <2>1. PICK p \in state.retiring : StopFails(p) /\ state' = state
    BY <1>4
  <2>2. Strays(p) /\ Moved /\ faults' \in 0 .. MaxFaults
    BY <2>1, StopFailsFacts
  <2>3. TypeOK'
    BY <1>1, <1>2, <2>1, <2>2 DEF TypeOK, Moved
  <2>4. Placed'
    BY <1>1 DEF Placed
  <2> QED BY <1>1, <2>1, <2>2, <2>3, <2>4
<1> QED BY <1>3, <1>4 DEF DrainRetirements

LEMMA ExitEffect ==
  ASSUME TypeOK, Placed, NEW p \in Proc, Exit(p)
  PROVE  /\ TypeOK' /\ Placed' /\ Moved /\ running' = running \ {p} /\ died' = died \cup {p} /\ p \in running
         /\ builtAs' = builtAs /\ launched' = launched /\ state' = state /\ handle' = handle
         /\ pc' = pc /\ mem' = mem /\ loc' = loc /\ outcome' = outcome /\ astray' = astray
         /\ unsaved' = unsaved /\ lostHolder' = lostHolder /\ stopped' = stopped /\ before' = before
<1>1. /\ running' = running \ {p} /\ died' = died \cup {p} /\ p \in running /\ bad > 0 /\ bad' = bad - 1
      /\ builtAs' = builtAs /\ launched' = launched /\ state' = state /\ handle' = handle /\ fails' = fails
      /\ pc' = pc /\ mem' = mem /\ loc' = loc /\ outcome' = outcome /\ astray' = astray /\ faults' = faults
      /\ ops' = ops /\ unsaved' = unsaved /\ lostHolder' = lostHolder /\ stopped' = stopped /\ before' = before
  BY DEF Exit, SupMem
<1>2. bad' \in 0 .. MaxBad /\ launched <= launched
  <2>1. bad \in 0 .. MaxBad /\ MaxBad \in Nat /\ launched \in 0 .. MaxProcs /\ MaxProcs \in Nat
    BY BoundsAssumption, TypesNow
  <2> QED BY <1>1, <2>1
<1>3. TypeOK' /\ Moved
  BY <1>1, <1>2 DEF TypeOK, Moved
<1>4. Placed'
  BY <1>1 DEF Placed
<1> QED BY <1>1, <1>3, <1>4

LEMMA KilledEffect ==
  ASSUME TypeOK, Killed
  PROVE  /\ TypeOK' /\ Placed' /\ Still /\ Moved /\ pc # "idle" /\ Ended("killed") /\ state' = state
         /\ lostHolder' = TRUE /\ handle' = handle /\ astray' = astray /\ unsaved' = unsaved
         /\ stopped' = stopped /\ before' = before /\ loc.kind # "pass"
<1>1. /\ pc # "idle" /\ Ended("killed") /\ state' = state /\ UNCHANGED Procs
      /\ lostHolder' = TRUE /\ handle' = handle /\ astray' = astray /\ unsaved' = unsaved
      /\ stopped' = stopped /\ before' = before /\ loc.kind # "pass" /\ Fault("crash")
      /\ fails' = fails /\ bad' = bad /\ ops' = ops
  BY DEF Killed, Ended, SupMem
<1>2. Still /\ Moved /\ faults' \in 0 .. MaxFaults /\ loc' \in Local /\ mem' \in Fleet /\ Placed'
  BY <1>1, ProcsStill, FaultFacts, NoFleetFacts, NoLocFacts, PlacedIdle DEF Ended
<1>3. TypeOK'
  BY <1>1, <1>2 DEF TypeOK, Moved
<1> QED BY <1>1, <1>2, <1>3

LEMMA MonitorEffect ==
  ASSUME TypeOK, Placed, MonitorRestart
  PROVE  /\ TypeOK' /\ Placed' /\ Still /\ Moved /\ state' = state /\ astray' = astray /\ before' = before
         /\ \A s \in Slot : handle'[s] = 0
         /\ lostHolder' = (lostHolder \/ (pc # "idle" /\ loc.kind = "pass"))
         /\ \/ /\ state.retiring = {} /\ pc' = "revert" /\ mem' = state /\ loc'.kind = "boot"
               /\ loc'.after = "boot" /\ loc'.old = NoRec /\ loc'.strategy = "none" /\ outcome' = "none"
               /\ stopped' = FALSE /\ unsaved' = FALSE /\ (pc = "idle" \/ loc.kind \in {"pass", "boot"})
            \/ /\ Ended("none") /\ stopped' = stopped /\ unsaved' = unsaved
               /\ (pc = "idle" \/ loc.kind \in {"pass", "boot"})
            \/ /\ pc' = pc /\ mem' = mem /\ loc' = loc /\ outcome' = outcome
               /\ stopped' = stopped /\ unsaved' = unsaved
<1>1. /\ ops > 0 /\ ops' = ops - 1 /\ handle' = [s \in Slot |-> 0] /\ fails' = [s \in Slot |-> 0]
      /\ lostHolder' = (lostHolder \/ (pc # "idle" /\ loc.kind = "pass"))
      /\ UNCHANGED Procs /\ state' = state /\ faults' = faults /\ bad' = bad /\ astray' = astray /\ before' = before
  BY DEF MonitorRestart, Fine
<1>2. ops' \in 0 .. MaxOps /\ handle' \in [Slot -> 0 .. MaxProcs] /\ fails' \in [Slot -> 0 .. Retries - 1]
      /\ \A s \in Slot : handle'[s] = 0
  <2>1. ops \in 0 .. MaxOps /\ MaxOps \in Nat /\ 0 \in 0 .. MaxProcs /\ 0 \in 0 .. Retries - 1
    BY BoundsAssumption, TypesNow
  <2> QED BY <1>1, <2>1
<1>3. Still /\ Moved /\ state \in Fleet /\ mem \in Fleet /\ loc \in Local /\ lostHolder' \in BOOLEAN
      /\ unsaved \in BOOLEAN /\ stopped \in BOOLEAN
  BY <1>1, ProcsStill, TypesNow
<1>4. CASE /\ pc = "idle" \/ loc.kind \in {"pass", "boot"}
           /\ Interrupted(state) /\ state.retiring = {}
           /\ pc' = "revert" /\ mem' = state /\ loc' = [NoLoc EXCEPT !.kind = "boot", !.after = "boot"]
           /\ outcome' = "none" /\ stopped' = FALSE /\ unsaved' = FALSE
  <2>1. loc' \in Local /\ loc'.kind = "boot" /\ loc'.after = "boot" /\ loc'.old = NoRec /\ loc'.strategy = "none"
    BY <1>4, NoLocFacts DEF Local
  <2>2. TypeOK'
    BY <1>1, <1>2, <1>3, <1>4, <2>1 DEF TypeOK, Moved
  <2>3. Placed'
    BY <1>4, <2>1 DEF Placed, AtSlot, RollPc, ClassicPc, RevertPc, CommandPc, DeployPc, Pcs
  <2> QED BY <1>1, <1>2, <1>3, <1>4, <2>1, <2>2, <2>3
<1>5. CASE /\ pc = "idle" \/ loc.kind \in {"pass", "boot"}
           /\ Return("none") /\ UNCHANGED <<stopped, unsaved>>
  <2>1. Ended("none") /\ loc' \in Local /\ mem' \in Fleet /\ Placed'
    BY <1>5, ReturnFacts, PlacedIdle DEF Ended
  <2>2. TypeOK'
    BY <1>1, <1>2, <1>3, <1>5, <2>1 DEF TypeOK, Moved
  <2> QED BY <1>1, <1>2, <1>3, <1>5, <2>1, <2>2
<1>6. CASE UNCHANGED <<pc, mem, loc, outcome, stopped, unsaved>>
  <2>1. TypeOK'
    BY <1>1, <1>2, <1>3, <1>6 DEF TypeOK, Moved
  <2>2. Placed'
    BY <1>6 DEF Placed
  <2> QED BY <1>1, <1>2, <1>3, <1>6, <2>1, <2>2
<1> QED BY <1>4, <1>5, <1>6 DEF MonitorRestart

-----------------------------------------------------------------------------
(* The supervisor's steps.                                                 *)

\* What a pass leaves alone.
Passive == /\ ops' = ops /\ lostHolder' = lostHolder /\ stopped' = stopped /\ before' = before
           /\ outcome' = outcome

\* The pass is done with the replica.
Onward == /\ Visits(loc', loc, loc.todo \ {Cur}, loc.old)
          /\ pc' = IF loc.todo \ {Cur} = {} THEN "passed" ELSE "pass"

\* Only the handle of the replica may change, and only to "none" unless h says more.
Releases == /\ handle'[Cur] \in {0, handle[Cur]}
            /\ \A t \in Slot : t # Cur => handle'[t] = handle[t]

LEMMA TypesPassed ==
  ASSUME TypeOK, Moved, Passive, handle' \in [Slot -> 0 .. MaxProcs], fails' \in [Slot -> 0 .. Retries - 1],
         bad' \in 0 .. MaxBad, state' \in Fleet, mem' \in Fleet, loc' \in Local,
         faults' \in 0 .. MaxFaults, unsaved' \in BOOLEAN
  PROVE  TypeOK'
BY DEF TypeOK, Moved, Passive

LEMMA DropFacts ==
  ASSUME TypeOK, loc.todo # {}
  PROVE  /\ Drop(handle) \in [Slot -> 0 .. MaxProcs] /\ Drop(handle)[Cur] = 0
         /\ \A t \in Slot : t # Cur => Drop(handle)[t] = handle[t]
         /\ Drop(fails) \in [Slot -> 0 .. Retries - 1]
<1>1. 0 \in 0 .. MaxProcs /\ 0 \in 0 .. Retries - 1 /\ Cur \in Slot
      /\ handle \in [Slot -> 0 .. MaxProcs] /\ fails \in [Slot -> 0 .. Retries - 1]
  BY BoundsAssumption, CurIn, TypesNow
<1> QED BY <1>1 DEF Drop

\* The records of a pass: the same process and version, whatever the policy decides.
LEMMA AfterExitFacts ==
  ASSUME TypeOK, loc.todo # {}, NEW reaped \in BOOLEAN
  PROVE  /\ AfterExit(Rec, reaped) \in Record /\ AfterExit(Rec, reaped).pid = Rec.pid
         /\ AfterExit(Rec, reaped).ver = Rec.ver
<1> DEFINE d == Evaluate(reaped /\ handle[Cur] \in clean)
<1>1. Rec \in Record
  BY RecIn
<1>2. d \in {"restart", "completed", "failed"}
  <2>1. \A ok : Evaluate(ok) \in {"restart", "completed", "failed"}
    BY DEF Evaluate
  <2> QED BY <2>1
<1>3. AfterExit(Rec, reaped) = IF d = "restart" THEN Scheduled(Rec) ELSE [Rec EXCEPT !.status = d]
  BY DEF AfterExit
<1> HIDE DEF d
<1>4. CASE d = "restart"
  BY <1>1, <1>3, <1>4, ScheduledFacts
<1>5. CASE d # "restart"
  <2>1. d \in Status
    BY <1>2, <1>5 DEF Status
  <2> QED BY <1>1, <1>3, <1>5, <2>1, WithStatus
<1> QED BY <1>4, <1>5

\* The replica's record becomes r.
LEMMA PassStep ==
  ASSUME TypeOK, Placed, pc = "pass", NEW r \in Record, PassNext(r)
  PROVE  /\ Revised(mem', mem, Cur, r) /\ mem' \in Fleet /\ Rewritten(r.pid, r.ver, r.status)
         /\ (r = Rec => mem' = mem /\ loc'.dirty = loc.dirty)
         /\ Onward /\ loc' \in Local /\ outcome' = outcome /\ Placed' /\ loc.todo # {}
<1>1. loc.todo # {} /\ loc.kind = "pass" /\ loc.after = "none"
  BY DEF Placed, AtSlot
<1>2. /\ Revised(mem', mem, Cur, r) /\ (r = Rec => mem' = mem) /\ outcome' = outcome
      /\ Onward /\ loc' \in Local /\ loc'.dirty = (loc.dirty \/ r # Rec) /\ loc.dirty \in BOOLEAN
  BY <1>1, PassNextFacts, TypesNow, LocalFields DEF Onward, Visits
<1>3. mem' \in Fleet /\ Rewritten(r.pid, r.ver, r.status)
  BY <1>2, RewrittenIs
<1>4. Placed'
  BY <1>1, <1>2 DEF Onward, Visits, Placed, AtSlot, RollPc, ClassicPc, RevertPc, CommandPc, DeployPc, Pcs
<1> QED BY <1>1, <1>2, <1>3, <1>4

\* What a pass does to a replica it neither launches nor stops.
PassKeeps ==
  /\ TypeOK' /\ Placed' /\ Still /\ Moved /\ Passive /\ pc = "pass" /\ astray' = astray /\ Unsaved /\ Onward
  /\ Releases /\ Rewritten(Rec.pid, Rec.ver, mem'.slots[Cur].status)
  /\ mem' = mem \/ handle'[Cur] = 0 \/ mem'.slots[Cur].status # "restarting"
  /\ Rec.status = "stopped" => mem' = mem /\ loc'.dirty = loc.dirty

LEMMA PassExitEffect ==
  ASSUME TypeOK, Placed, NEW reaped \in BOOLEAN, PassExit(reaped)
  PROVE  PassKeeps
<1> DEFINE r == AfterExit(Rec, reaped)
<1>1. /\ pc = "pass" /\ Rec.status \in {"starting", "running"} /\ PassNext(r) /\ handle' = Drop(handle)
      /\ fails' = Drop(fails) /\ faults' = faults /\ Unsaved /\ UNCHANGED Procs /\ astray' = astray
      /\ ops' = ops /\ bad' = bad /\ lostHolder' = lostHolder /\ stopped' = stopped /\ before' = before
  BY DEF PassExit, Finds, Fine, Rest
<1>2. loc.todo # {}
  BY <1>1 DEF Placed, AtSlot
<1>3. r \in Record /\ r.pid = Rec.pid /\ r.ver = Rec.ver
  BY <1>2, AfterExitFacts
<1> HIDE DEF r
<1>4. /\ mem' \in Fleet /\ Rewritten(r.pid, r.ver, r.status) /\ Onward /\ loc' \in Local
      /\ outcome' = outcome /\ Placed'
  BY <1>1, <1>3, PassStep
<1>5. Still /\ Moved /\ Passive
  BY <1>1, <1>4, ProcsStill DEF Passive
<1>6. TypeOK'
  BY <1>1, <1>2, <1>4, <1>5, DropFacts, TypesPassed, TypesNow DEF Unsaved
<1>7. Releases /\ handle'[Cur] = 0
  BY <1>1, <1>2, DropFacts DEF Releases
<1>8. Rewritten(Rec.pid, Rec.ver, mem'.slots[Cur].status)
  BY <1>3, <1>4 DEF Rewritten
<1> QED BY <1>1, <1>4, <1>5, <1>6, <1>7, <1>8 DEF PassKeeps

LEMMA PassOverEffect ==
  ASSUME TypeOK, Placed, NEW reaped \in BOOLEAN, NEW live \in BOOLEAN, PassOver(reaped, live)
  PROVE  PassKeeps
<1>1. /\ pc = "pass" /\ PassNext(Rec) /\ faults' = faults /\ Unsaved /\ UNCHANGED Procs /\ astray' = astray
      /\ ops' = ops /\ bad' = bad /\ lostHolder' = lostHolder /\ stopped' = stopped /\ before' = before
      /\ handle' \in {handle, Drop(handle)} /\ fails' \in {fails, Drop(fails)}
  BY DEF PassOver, Finds, Fine, Rest
<1>2. loc.todo # {}
  BY <1>1 DEF Placed, AtSlot
<1>3. Rec \in Record
  BY <1>2, RecIn
<1>4. /\ mem' \in Fleet /\ mem' = mem /\ loc'.dirty = loc.dirty /\ Rewritten(Rec.pid, Rec.ver, Rec.status)
      /\ Onward /\ loc' \in Local /\ outcome' = outcome /\ Placed'
  BY <1>1, <1>3, PassStep
<1>5. Still /\ Moved /\ Passive
  BY <1>1, <1>4, ProcsStill DEF Passive
<1>6. TypeOK'
  <2>1. handle' \in [Slot -> 0 .. MaxProcs] /\ fails' \in [Slot -> 0 .. Retries - 1]
    BY <1>1, <1>2, DropFacts, TypesNow
  <2> QED BY <1>1, <1>4, <1>5, <2>1, TypesPassed, TypesNow DEF Unsaved
<1>7. Releases
  BY <1>1, <1>2, DropFacts DEF Releases
<1>8. Rewritten(Rec.pid, Rec.ver, mem'.slots[Cur].status)
  BY <1>4 DEF Rewritten
<1> QED BY <1>1, <1>4, <1>5, <1>6, <1>7, <1>8 DEF PassKeeps

LEMMA PassProbeEffect ==
  ASSUME TypeOK, Placed, PassProbe
  PROVE  PassKeeps
<1>1. /\ pc = "pass" /\ PassNext(Rec) /\ faults' = faults /\ Unsaved /\ UNCHANGED Procs /\ astray' = astray
      /\ ops' = ops /\ bad' = bad /\ lostHolder' = lostHolder /\ stopped' = stopped /\ before' = before
      /\ handle' = handle
      /\ \/ fails' = Drop(fails)
         \/ fails[Cur] + 1 < Retries /\ fails' = [fails EXCEPT ![Cur] = @ + 1]
  BY DEF PassProbe, Finds, Fine, Rest
<1>2. loc.todo # {} /\ Cur \in Slot
  BY <1>1, CurIn DEF Placed, AtSlot
<1>3. Rec \in Record
  BY <1>2, RecIn
<1>4. /\ mem' \in Fleet /\ mem' = mem /\ loc'.dirty = loc.dirty /\ Rewritten(Rec.pid, Rec.ver, Rec.status)
      /\ Onward /\ loc' \in Local /\ outcome' = outcome /\ Placed'
  BY <1>1, <1>3, PassStep
<1>5. Still /\ Moved /\ Passive
  BY <1>1, <1>4, ProcsStill DEF Passive
<1>6. TypeOK'
  <2>1. fails \in [Slot -> 0 .. Retries - 1] /\ handle \in [Slot -> 0 .. MaxProcs]
    BY TypesNow
  <2>2. fails[Cur] + 1 < Retries => fails[Cur] + 1 \in 0 .. Retries - 1
    BY <1>2, <2>1, BoundsAssumption
  <2>3. fails' \in [Slot -> 0 .. Retries - 1]
    BY <1>1, <1>2, <2>1, <2>2, DropFacts
  <2> QED BY <1>1, <1>4, <1>5, <2>1, <2>3, TypesPassed, TypesNow DEF Unsaved
<1>7. Releases
  BY <1>1 DEF Releases
<1>8. Rewritten(Rec.pid, Rec.ver, mem'.slots[Cur].status)
  BY <1>4 DEF Rewritten
<1> QED BY <1>1, <1>4, <1>5, <1>6, <1>7, <1>8 DEF PassKeeps

LEMMA PassLiveEffect ==
  ASSUME TypeOK, Placed, PassLive
  PROVE  PassKeeps
<1>1. /\ pc = "pass" /\ faults' = faults /\ Unsaved /\ UNCHANGED Procs /\ astray' = astray
      /\ ops' = ops /\ bad' = bad /\ lostHolder' = lostHolder /\ stopped' = stopped /\ before' = before
      /\ handle' = handle /\ Rec.status # "stopped" /\ fails' \in {fails, Drop(fails)}
      /\ \/ Rec.status = "restarting" /\ PassNext([Rec EXCEPT !.status = "starting"])
         \/ Rec.status = "starting" /\ PassNext([Rec EXCEPT !.status = "running"])
         \/ Rec.status = "running" /\ PassNext([Rec EXCEPT !.count = 0])
  BY DEF PassLive, Finds, Fine, Rest
<1>2. loc.todo # {}
  BY <1>1 DEF Placed, AtSlot
<1>3. Rec \in Record
  BY <1>2, RecIn
<1>4. \E r \in Record : PassNext(r) /\ r.pid = Rec.pid /\ r.ver = Rec.ver /\ r.status # "restarting"
  <2>1. "starting" \in Status /\ "running" \in Status
    BY DEF Status
  <2> DEFINE a == [Rec EXCEPT !.status = "starting"]
             b == [Rec EXCEPT !.status = "running"]
             c == [Rec EXCEPT !.count = 0]
  <2>2. /\ a \in Record /\ a.pid = Rec.pid /\ a.ver = Rec.ver /\ a.status = "starting"
        /\ b \in Record /\ b.pid = Rec.pid /\ b.ver = Rec.ver /\ b.status = "running"
        /\ c \in Record /\ c.pid = Rec.pid /\ c.ver = Rec.ver /\ c.status = Rec.status
    BY <1>3, <2>1, WithStatus, WithoutCount
  <2>3. \/ PassNext(a)
        \/ PassNext(b)
        \/ Rec.status = "running" /\ PassNext(c)
    BY <1>1
  <2> HIDE DEF a, b, c
  <2> QED BY <2>2, <2>3
<1>5. PICK r \in Record : PassNext(r) /\ r.pid = Rec.pid /\ r.ver = Rec.ver /\ r.status # "restarting"
  BY <1>4
<1>6. /\ mem' \in Fleet /\ Rewritten(r.pid, r.ver, r.status) /\ Onward /\ loc' \in Local
      /\ outcome' = outcome /\ Placed'
  BY <1>1, <1>5, PassStep
<1>7. Still /\ Moved /\ Passive
  BY <1>1, <1>6, ProcsStill DEF Passive
<1>8. TypeOK'
  BY <1>1, <1>2, <1>6, <1>7, DropFacts, TypesPassed, TypesNow DEF Unsaved
<1>9. Releases
  BY <1>1 DEF Releases
<1>10. Rewritten(Rec.pid, Rec.ver, mem'.slots[Cur].status) /\ mem'.slots[Cur].status # "restarting"
  BY <1>5, <1>6 DEF Rewritten
<1> QED BY <1>1, <1>6, <1>7, <1>8, <1>9, <1>10 DEF PassKeeps

LEMMA PassUnhealthyEffect ==
  ASSUME TypeOK, Placed, PassUnhealthy
  PROVE  /\ TypeOK' /\ Placed' /\ Moved /\ Passive /\ pc = "pass" /\ Unsaved /\ Onward
         /\ (Ends({Held}) \/ Strays(Held)) /\ handle'[Cur] = 0 /\ Releases
         /\ Rewritten(Rec.pid, Rec.ver, mem'.slots[Cur].status) /\ Rec.status # "stopped"
<1>1. /\ pc = "pass" /\ PassNext(Scheduled(Rec)) /\ TryStop(Held) /\ handle' = Drop(handle)
      /\ fails' = Drop(fails) /\ bad > 0 /\ bad' = bad - 1 /\ Unsaved /\ Rec.status # "stopped"
      /\ ops' = ops /\ lostHolder' = lostHolder /\ stopped' = stopped /\ before' = before
  BY DEF PassUnhealthy, Finds
<1>2. loc.todo # {}
  BY <1>1 DEF Placed, AtSlot
<1>3. /\ Scheduled(Rec) \in Record /\ Scheduled(Rec).pid = Rec.pid /\ Scheduled(Rec).ver = Rec.ver
  BY <1>2, RecIn, ScheduledFacts
<1>4. /\ mem' \in Fleet /\ Rewritten(Rec.pid, Rec.ver, Scheduled(Rec).status) /\ Onward /\ loc' \in Local
      /\ outcome' = outcome /\ Placed'
  BY <1>1, <1>3, PassStep
<1>5. (Ends({Held}) \/ Strays(Held)) /\ Moved /\ faults' \in 0 .. MaxFaults
  BY <1>1, TryStopFacts
<1>6. Passive /\ bad' \in 0 .. MaxBad
  <2>1. bad \in 0 .. MaxBad /\ MaxBad \in Nat
    BY BoundsAssumption, TypesNow
  <2> QED BY <1>1, <1>4, <2>1 DEF Passive
<1>7. TypeOK'
  BY <1>1, <1>2, <1>4, <1>5, <1>6, DropFacts, TypesPassed, TypesNow DEF Unsaved
<1>8. Releases /\ handle'[Cur] = 0
  BY <1>1, <1>2, DropFacts DEF Releases
<1>9. Rewritten(Rec.pid, Rec.ver, mem'.slots[Cur].status)
  BY <1>4 DEF Rewritten
<1> QED BY <1>1, <1>4, <1>5, <1>6, <1>7, <1>8, <1>9

LEMMA PassRelaunchEffect ==
  ASSUME TypeOK, Placed, NEW reaped \in BOOLEAN, PassRelaunch(reaped)
  PROVE  /\ TypeOK' /\ Placed' /\ Moved /\ Passive /\ pc = "pass" /\ Onward /\ astray' = astray
         /\ unsaved' = unsaved /\ died' = died
         /\ Rec.status = "restarting" /\ (Live(Rec) => handle[Cur] # 0)
         /\ \/ /\ Starts(Rec.ver) /\ Rewritten(launched + 1, Rec.ver, "starting") /\ state' = mem'
               /\ \A t \in Slot : t # Cur => handle'[t] = handle[t]
            \/ /\ running' = running /\ Releases /\ Unsaved
               /\ Rewritten(mem'.slots[Cur].pid, Rec.ver, mem'.slots[Cur].status)
               /\ \/ mem'.slots[Cur].pid = Rec.pid
                  \/ mem'.slots[Cur].pid = launched + 1 /\ launched' = launched + 1
<1>1. /\ pc = "pass" /\ Rec.status = "restarting" /\ fails' = fails /\ bad' = bad
      /\ ops' = ops /\ lostHolder' = lostHolder /\ stopped' = stopped /\ before' = before
      /\ (reaped => handle[Cur] # 0) /\ (~reaped => ~Live(Rec))
  BY DEF PassRelaunch, Finds, Rest, Reaped
<1>2. loc.todo # {} /\ Cur \in Slot
  BY <1>1, CurIn DEF Placed, AtSlot
<1>3. Rec \in Record /\ Rec.ver \in Ver
  BY <1>2, RecIn, RecordFields
<1>0. /\ handle \in [Slot -> 0 .. MaxProcs] /\ fails \in [Slot -> 0 .. Retries - 1] /\ bad \in 0 .. MaxBad
      /\ faults \in 0 .. MaxFaults /\ unsaved \in BOOLEAN /\ state \in Fleet
  BY TypesNow
<1>4. CASE /\ Rec.ver # 0 /\ Spawn(Rec.ver) /\ PassNext(Stamped(Rec, Rec.ver)) /\ Saved(mem')
           /\ handle' = [handle EXCEPT ![Cur] = launched + 1] /\ UNCHANGED astray
  <2>1. Starts(Rec.ver) /\ Moved
    BY <1>3, <1>4, SpawnFacts
  <2>2. launched + 1 \in 0 .. MaxProcs
    BY <2>1, BoundsAssumption DEF Starts, Proc
  <2> DEFINE r == Stamped(Rec, Rec.ver)
  <2>3. r \in Record /\ r.pid = launched + 1 /\ r.ver = Rec.ver /\ r.status = "starting"
    BY <1>3, <2>2, StampedFacts
  <2>4. PassNext(r)
    BY <1>4
  <2> HIDE DEF r
  <2>5. /\ mem' \in Fleet /\ Rewritten(launched + 1, Rec.ver, "starting") /\ Onward /\ loc' \in Local
        /\ outcome' = outcome /\ Placed'
    BY <1>1, <2>3, <2>4, PassStep
  <2>6. state' = mem' /\ unsaved' = unsaved /\ faults' = faults /\ astray' = astray
    BY <1>4 DEF Saved, Fine
  <2>7. Passive
    BY <1>1, <2>5 DEF Passive
  <2>8. handle' \in [Slot -> 0 .. MaxProcs] /\ \A t \in Slot : t # Cur => handle'[t] = handle[t]
    BY <1>0, <1>2, <1>4, <2>2
  <2>9. TypeOK'
    BY <1>0, <1>1, <2>1, <2>5, <2>6, <2>7, <2>8, TypesPassed
  <2>10. died' = died
    BY <2>1 DEF Starts
  <2> QED BY <1>1, <2>1, <2>5, <2>6, <2>7, <2>8, <2>9, <2>10
<1>5. CASE \E r \in Records(Rec.ver) :
             /\ LaunchFails(Rec.ver, r) /\ PassNext(Scheduled(r))
             /\ handle' = IF reaped THEN Drop(handle) ELSE handle
  <2>1. PICK r : /\ LaunchFails(Rec.ver, r) /\ PassNext(Scheduled(r))
                 /\ handle' \in {handle, Drop(handle)}
    BY <1>5
  <2>2. /\ r \in Record /\ r.ver = Rec.ver /\ running' = running /\ died' = died /\ Moved
        /\ \/ r.pid = Rec.pid
           \/ r.pid = launched + 1 /\ launched' = launched + 1
        /\ state' = state /\ unsaved' = unsaved /\ astray' = astray /\ faults' \in 0 .. MaxFaults
    BY <1>2, <1>3, <2>1, LaunchFailsFacts
  <2>3. Scheduled(r) \in Record /\ Scheduled(r).pid = r.pid /\ Scheduled(r).ver = r.ver
    BY <2>2, ScheduledFacts
  <2>5. /\ mem' \in Fleet /\ Rewritten(r.pid, Rec.ver, Scheduled(r).status) /\ Onward /\ loc' \in Local
        /\ outcome' = outcome /\ Placed'
    BY <1>1, <2>1, <2>2, <2>3, PassStep
  <2>7. Passive
    BY <1>1, <2>5 DEF Passive
  <2>8. handle' \in [Slot -> 0 .. MaxProcs] /\ Releases
    BY <1>0, <1>2, <2>1, DropFacts DEF Releases
  <2>9. TypeOK'
    BY <1>0, <1>1, <2>2, <2>5, <2>7, <2>8, TypesPassed
  <2>10. /\ mem'.slots[Cur].pid = r.pid
         /\ Rewritten(mem'.slots[Cur].pid, Rec.ver, mem'.slots[Cur].status)
    BY <2>5 DEF Rewritten
  <2> QED BY <1>1, <2>2, <2>5, <2>7, <2>8, <2>9, <2>10 DEF Unsaved
<1> QED BY <1>4, <1>5 DEF PassRelaunch

LEMMA PassEndEffect ==
  ASSUME TypeOK, Placed, PassEnd
  PROVE  /\ TypeOK' /\ Placed' /\ Still /\ Moved /\ Aside /\ pc = "passed" /\ Ended("pass") /\ astray' = astray
         /\ \/ Unsaved
            \/ loc.dirty /\ Tried(mem)
<1>1. /\ pc = "passed" /\ Return("pass") /\ UNCHANGED Procs /\ UNCHANGED SupMem /\ astray' = astray
      /\ UNCHANGED Rest
  BY DEF PassEnd
<1>2. Aside /\ Still /\ Moved
  BY <1>1, AsideIs, ProcsStill
<1>3. /\ state' \in Fleet /\ faults' \in 0 .. MaxFaults /\ unsaved' \in BOOLEAN
      /\ \/ Unsaved
         \/ loc.dirty /\ Tried(mem)
  <2>1. CASE loc.dirty
    <3>1. TrySave(mem)
      BY <2>1 DEF PassEnd
    <3> QED BY <2>1, <3>1, SavedFacts, TypesNow DEF Tried
  <2>2. CASE ~loc.dirty
    <3>1. faults' = faults /\ Unsaved
      BY <2>2 DEF PassEnd, Fine
    <3> QED BY <3>1, TypesNow DEF Unsaved
  <2> QED BY <2>1, <2>2
<1> QED BY <1>1, <1>2, <1>3, ReturnStep

-----------------------------------------------------------------------------
(* Types.                                                                  *)

LEMMA TypesInit ==
  ASSUME Init
  PROVE  TypeOK /\ Placed
<1>1. PICK n \in 0 .. MaxReplicas :
        /\ launched = n /\ running = 1 .. n
        /\ builtAs = [p \in Proc |-> IF p <= n THEN 1 ELSE 0]
        /\ state = IF n = 0 THEN NoFleet
                   ELSE [NoFleet EXCEPT !.on = 0 .. n - 1, !.active = 1, !.roll = "done",
                           !.slots = [s \in Slot |-> IF s < n THEN [pid |-> s + 1, ver |-> 1,
                                        status |-> "running", count |-> 0] ELSE NoRec]]
        /\ handle = [s \in Slot |-> 0] /\ fails = [s \in Slot |-> 0]
        /\ pc = "idle" /\ mem = NoFleet /\ loc = NoLoc /\ faults = MaxFaults /\ bad = MaxBad /\ ops = MaxOps
        /\ unsaved = FALSE /\ lostHolder = FALSE /\ stopped = FALSE /\ before = [s \in Slot |-> 0]
  BY DEF Init
<1>2. 1 \in Ver /\ 0 \in Ver /\ 0 \in 0 .. MaxProcs /\ 0 \in 0 .. Retries - 1
  BY BoundsAssumption DEF Ver
<1>3. n \in 0 .. MaxProcs /\ n \in Nat
  BY BoundsAssumption
<1>4. builtAs \in [Proc -> Ver] /\ before \in [Slot -> Ver] /\ handle \in [Slot -> 0 .. MaxProcs]
      /\ fails \in [Slot -> 0 .. Retries - 1]
  BY <1>1, <1>2
<1>5. state \in Fleet
  <2>1. CASE n = 0
    BY <1>1, <2>1, NoFleetFacts
  <2>2. CASE n # 0
    <3> DEFINE f == [s \in Slot |-> IF s < n THEN [pid |-> s + 1, ver |-> 1, status |-> "running",
                                                  count |-> 0] ELSE NoRec]
               D == 0 .. n - 1
    <3>1. D \in SUBSET Slot
      BY <1>3, BoundsAssumption DEF Slot
    <3>2. ASSUME NEW s \in Slot, s < n
          PROVE  [pid |-> s + 1, ver |-> 1, status |-> "running", count |-> 0] \in Record
      <4>1. s + 1 \in 0 .. MaxProcs
        BY <1>3, <3>2, BoundsAssumption DEF Slot
      <4>2. 0 \in 0 .. MaxAttempts /\ "running" \in Status
        BY BoundsAssumption DEF Status
      <4> QED BY <1>2, <4>1, <4>2 DEF Record
    <3>3. f \in [Slot -> Record]
      BY <3>2, NoRecFacts
    <3>4. state = [NoFleet EXCEPT !.on = D, !.active = 1, !.roll = "done", !.slots = f]
      BY <1>1, <2>2
    <3> HIDE DEF f, D
    <3> QED BY <1>2, <3>1, <3>3, <3>4, NoFleetFacts DEF Fleet
  <2> QED BY <2>1, <2>2
<1>8. faults \in 0 .. MaxFaults /\ bad \in 0 .. MaxBad /\ ops \in 0 .. MaxOps
  BY <1>1, BoundsAssumption
<1>9. launched \in 0 .. MaxProcs /\ running \subseteq 1 .. launched
  BY <1>1, <1>3
<1>6. TypeOK
  BY <1>1, <1>4, <1>5, <1>8, <1>9, NoFleetFacts, NoLocFacts DEF TypeOK
<1>7. Placed
  BY <1>1, NoLocFacts DEF Placed, AtSlot, RollPc, ClassicPc, RevertPc, CommandPc, DeployPc, Pcs
<1> QED BY <1>6, <1>7

\* What there is to Next.
Steps ==
  \/ BeginPass \/ PassLive \/ PassUnhealthy \/ PassProbe \/ PassEnd
  \/ (\E reaped \in BOOLEAN : PassExit(reaped)) \/ (\E reaped \in BOOLEAN : PassRelaunch(reaped))
  \/ (\E reaped, live \in BOOLEAN : PassOver(reaped, live))
  \/ BeginStart \/ StartSlot \/ StartWait
  \/ BeginStop \/ StopSlot \/ StopSave \/ StopEnd
  \/ BeginRestart \/ RestartSlot \/ Relaunch \/ Restarted
  \/ (\E n \in 1 .. MaxReplicas : BeginGrow(n)) \/ (\E n \in 1 .. MaxReplicas : BeginShrink(n))
  \/ GrowSlot \/ Grown \/ ShrinkStop \/ ShrinkEnd \/ CommandEnd
  \/ BeginDeploy \/ DeployLoad \/ Prepare \/ (\E v \in Ver \ {0} : Build(v))
  \/ RollSlot \/ RollCommit \/ RollUnproven \/ RollStop \/ RollBack \/ RollRetire \/ RollDrain \/ Undo
  \/ ClassicMark \/ ClassicStop \/ ClassicSave \/ ClassicLaunch \/ ClassicCommit
  \/ ClassicUnproven \/ ClassicUnlaunch \/ Promote
  \/ RevertBegin \/ RevertSkip \/ RevertStop \/ RevertLaunch \/ RevertProven \/ RevertSave
  \/ RevertUnproven \/ RevertUndo \/ RevertRecord \/ RecoveryRequired \/ RevertEnd
  \/ DrainRetirements \/ Killed \/ MonitorRestart \/ (\E p \in Proc : Exit(p))

LEMMA NextIs == Next => Steps
<1>1. Pass => Steps
  BY DEF Pass, Steps
<1>2. Command => Steps
  BY DEF Command, Steps
<1>3. Deploy => Steps
  BY DEF Deploy, Steps
<1>4. Revert => Steps
  BY DEF Revert, Steps
<1> QED BY <1>1, <1>2, <1>3, <1>4 DEF Next, Steps

LEMMA TypesStutter ==
  ASSUME TypeOK, Placed, UNCHANGED fvars
  PROVE  TypeOK' /\ Placed'
BY DEF TypeOK, Placed, fvars

LEMMA TypesNext ==
  ASSUME TypeOK, Placed, [Next]_fvars
  PROVE  TypeOK' /\ Placed'
<1>1. CASE BeginPass \/ PassLive \/ PassUnhealthy \/ PassProbe \/ PassEnd
           \/ (\E reaped \in BOOLEAN : PassExit(reaped)) \/ (\E reaped \in BOOLEAN : PassRelaunch(reaped))
           \/ (\E reaped, live \in BOOLEAN : PassOver(reaped, live))
  BY <1>1, BeginPassEffect, PassLiveEffect, PassUnhealthyEffect, PassProbeEffect, PassEndEffect,
     PassExitEffect, PassRelaunchEffect, PassOverEffect DEF PassKeeps
<1>2. CASE BeginStart \/ StartSlot \/ StartWait \/ BeginStop \/ StopSlot \/ StopSave \/ StopEnd
           \/ BeginRestart \/ RestartSlot \/ Relaunch \/ Restarted
  BY <1>2, BeginLoopEffect, StartSlotEffect, StartWaitEffect, StopSlotEffect, StopSaveEffect,
     StopEndEffect, RestartSlotEffect, RelaunchEffect, RestartedEffect
<1>3. CASE (\E n \in 1 .. MaxReplicas : BeginGrow(n)) \/ (\E n \in 1 .. MaxReplicas : BeginShrink(n))
           \/ GrowSlot \/ Grown \/ ShrinkStop \/ ShrinkEnd \/ CommandEnd
  BY <1>3, BeginGrowEffect, BeginShrinkEffect, GrowSlotEffect, GrownEffect, ShrinkStopEffect,
     ShrinkEndEffect, CommandEndEffect
<1>4. CASE BeginDeploy \/ DeployLoad \/ Prepare \/ (\E v \in Ver \ {0} : Build(v))
           \/ RollSlot \/ RollCommit \/ RollUnproven \/ RollStop \/ RollBack \/ RollRetire \/ RollDrain \/ Undo
  BY <1>4, BeginDeployEffect, DeployLoadEffect, PrepareEffect, BuildEffect, RollSlotEffect,
     RollCommitEffect, UnprovenEffect, RollStopEffect, RollBackEffect, RollRetireEffect, RollDrainEffect,
     UndoEffect
<1>5. CASE ClassicMark \/ ClassicStop \/ ClassicSave \/ ClassicLaunch \/ ClassicCommit
           \/ ClassicUnproven \/ ClassicUnlaunch \/ Promote
  BY <1>5, ClassicMarkEffect, ClassicStopEffect, ClassicSaveEffect, ClassicLaunchEffect,
     ClassicCommitEffect, UnprovenEffect, ClassicUnlaunchEffect, PromoteEffect
<1>6. CASE RevertBegin \/ RevertSkip \/ RevertStop \/ RevertLaunch \/ RevertProven \/ RevertSave
           \/ RevertUnproven \/ RevertUndo \/ RevertRecord \/ RecoveryRequired \/ RevertEnd
  BY <1>6, RevertBeginEffect, RevertSkipEffect, RevertStopEffect, RevertLaunchEffect, RevertProvenEffect,
     RevertSaveEffect, UnprovenEffect, RevertUndoEffect, RevertRecordEffect, RecoveryEffect, RevertEndEffect
<1>7. CASE DrainRetirements \/ Killed \/ MonitorRestart \/ (\E p \in Proc : Exit(p))
  BY <1>7, DrainEffect, KilledEffect, MonitorEffect, ExitEffect
<1>8. CASE UNCHANGED fvars
  BY <1>8, TypesStutter
<1>9. Steps \/ UNCHANGED fvars
  BY NextIs
<1> QED BY <1>1, <1>2, <1>3, <1>4, <1>5, <1>6, <1>7, <1>8, <1>9 DEF Steps

\* Every variable stays within its type in every reachable state: the restart counter of
\* scheduleRestart never passes max_attempts, the probe counter never reaches its retries, and
\* no record, journal or handle ever names a process that was not launched within the bounds.
THEOREM TypesHold == Spec => []TypeOK
<1>1. Init => TypeOK /\ Placed
  BY TypesInit
<1>2. TypeOK /\ Placed /\ [Next]_fvars => (TypeOK /\ Placed)'
  BY TypesNext
<1> QED BY <1>1, <1>2, PTL DEF Spec

-----------------------------------------------------------------------------
(* A successful stop is final.                                             *)

\* No replica of j is to run, and none does.
Quiet(j) == /\ \A s \in j.on : j.slots[s].status = "stopped" /\ j.slots[s].pid \notin running
            /\ j.retiring = {}

StopPc == {"stop", "stopSave", "halted"}

\* While the fleet is stopped only the supervisor runs, and it finds nothing to do.
StoppedQuiet ==
  stopped => /\ pc \in {"idle", "pass", "passed"} /\ Quiet(state)
             /\ pc # "idle" => mem = state /\ loc.dirty = FALSE /\ loc.todo \subseteq state.on

\* A stop leaves the replicas behind it stopped, in deploy.json too unless a Store failed.
StopUnderWay ==
  pc \in StopPc =>
    /\ ~stopped /\ mem.retiring = {} /\ loc.todo \subseteq mem.on
    /\ \A s \in mem.on \ loc.todo : mem.slots[s].status = "stopped" /\ mem.slots[s].pid \notin running
    /\ pc # "stopSave" /\ ~unsaved => state = mem
    /\ pc = "stopSave" => Rec.status = "stopped" /\ Rec.pid \notin running
    /\ pc = "halted" => loc.todo = {}

StopFlow == StoppedQuiet /\ StopUnderWay

LEMMA StopOther ==
  ASSUME StopFlow, pc \notin {"idle", "pass", "passed"}, stopped' \in {stopped, FALSE}, pc' \notin StopPc
  PROVE  StopFlow'
<1>1. ~stopped
  BY DEF StopFlow, StoppedQuiet
<1>2. ~stopped'
  <2>1. CASE stopped' = stopped
    BY <1>1, <2>1, Zenon
  <2>2. CASE stopped' = FALSE
    BY <2>2
  <2> QED BY <2>1, <2>2
<1> QED BY <1>2 DEF StopFlow, StoppedQuiet, StopUnderWay

LEMMA StopStarted ==
  ASSUME stopped' = FALSE, pc' \notin StopPc
  PROVE  StopFlow'
BY DEF StopFlow, StoppedQuiet, StopUnderWay

LEMMA StopQuiet ==
  ASSUME TypeOK, StopFlow, stopped' = stopped, pc' \in {"idle", "pass", "passed"},
         stopped => /\ pc \in {"idle", "pass", "passed"} /\ state' = state /\ running' \subseteq running
                    /\ pc' # "idle" => mem' = state /\ loc'.dirty = FALSE /\ loc'.todo \subseteq state.on
  PROVE  StopFlow'
<1>1. StopUnderWay'
  BY DEF StopUnderWay, StopPc
<1>2. ASSUME stopped' PROVE Quiet(state)'
  <2>1. Quiet(state) /\ state' = state /\ running' \subseteq running
    BY <1>2 DEF StopFlow, StoppedQuiet
  <2> QED BY <2>1 DEF Quiet
<1>3. StoppedQuiet'
  BY <1>2 DEF StoppedQuiet
<1> QED BY <1>1, <1>3 DEF StopFlow

LEMMA StopBeginStop ==
  ASSUME TypeOK, BeginStop
  PROVE  StopFlow'
<1>1. /\ stopped' = FALSE /\ loc'.todo = state.on
      /\ \E kind \in {"start", "stop", "restart"} : Opened(kind)
  BY BeginLoopEffect
<1>2. pc' = "stop"
  BY DEF BeginStop, Begin, Open
<1>3. mem' = state /\ state' = state /\ state.retiring = {}
  BY <1>1 DEF Opened
<1>4. StopUnderWay'
  BY <1>1, <1>2, <1>3 DEF StopUnderWay
<1>5. StoppedQuiet'
  BY <1>1 DEF StoppedQuiet
<1> QED BY <1>4, <1>5 DEF StopFlow

LEMMA StopStopSlot ==
  ASSUME TypeOK, Placed, StopFlow, StopSlot
  PROVE  StopFlow'
<1>1. /\ pc = "stop" /\ Aside
      /\ \/ /\ ~Live(Rec) /\ Still /\ Over("stop", "halted") /\ Rewritten(Rec.pid, Rec.ver, "stopped")
            /\ Tried(mem') \/ (Unsaved /\ mem' = mem)
         \/ /\ Live(Rec) /\ Ends({Rec.pid}) /\ Rewritten(0, Rec.ver, "stopped") /\ Unsaved
            /\ pc' = "stopSave" /\ loc' = loc
         \/ Ended("error")
  BY StopSlotEffect
<1>2. /\ stopped = FALSE /\ mem.retiring = {} /\ loc.todo \subseteq mem.on /\ loc.todo # {}
      /\ \A s \in mem.on \ loc.todo : mem.slots[s].status = "stopped" /\ mem.slots[s].pid \notin running
      /\ ~unsaved => state = mem
  BY <1>1, TypesNow DEF StopFlow, StopUnderWay, StopPc, Placed, AtSlot
<1>3. stopped' = FALSE
  BY <1>1, <1>2 DEF Aside
<1>0. Cur \in loc.todo /\ Cur \in Slot /\ mem.on \subseteq Slot /\ 0 \notin running
  BY <1>2, CurIn, TypesNow, FleetFields
<1>4. CASE /\ ~Live(Rec) /\ Still /\ Over("stop", "halted") /\ Rewritten(Rec.pid, Rec.ver, "stopped")
           /\ Tried(mem') \/ (Unsaved /\ mem' = mem)
  <2>1. /\ loc'.todo = loc.todo \ {Cur} /\ mem'.on = mem.on /\ mem'.retiring = {}
        /\ running' = running /\ pc' = IF loc.todo \ {Cur} = {} THEN "halted" ELSE "stop"
    BY <1>2, <1>4 DEF Over, Visits, Rewritten, Only, Still
  <2>2. ASSUME NEW s \in mem'.on \ loc'.todo
        PROVE  mem'.slots[s].status = "stopped" /\ mem'.slots[s].pid \notin running'
    <3>1. CASE s = Cur
      BY <1>4, <2>1, <3>1 DEF Rewritten, Live
    <3>2. CASE s # Cur
      <4>1. s \in mem.on \ loc.todo /\ s \in Slot
        BY <1>0, <2>1, <2>2, <3>2
      <4> QED BY <1>2, <1>4, <2>1, <3>2, <4>1 DEF Rewritten
    <3> QED BY <3>1, <3>2
  <2>3. ~unsaved' => state' = mem'
    BY <1>2, <1>4 DEF Tried, Unsaved
  <2>4. StopUnderWay'
    BY <1>2, <1>3, <2>1, <2>2, <2>3 DEF StopUnderWay
  <2> QED BY <1>3, <2>4 DEF StopFlow, StoppedQuiet
<1>5. CASE /\ Live(Rec) /\ Ends({Rec.pid}) /\ Rewritten(0, Rec.ver, "stopped") /\ Unsaved
           /\ pc' = "stopSave" /\ loc' = loc
  <2>1. /\ loc'.todo = loc.todo /\ mem'.on = mem.on /\ mem'.retiring = {} /\ running' \subseteq running
        /\ Cur' = Cur
    BY <1>2, <1>5, CurKept DEF Rewritten, Only, Ends
  <2>2. Rec'.status = "stopped" /\ Rec'.pid \notin running'
    BY <1>0, <1>5, <2>1 DEF Rewritten, Rec
  <2>3. ASSUME NEW s \in mem'.on \ loc'.todo
        PROVE  mem'.slots[s].status = "stopped" /\ mem'.slots[s].pid \notin running'
    <3>1. s # Cur /\ s \in mem.on \ loc.todo /\ s \in Slot
      BY <1>0, <2>1, <2>3
    <3> QED BY <1>2, <1>5, <2>1, <3>1 DEF Rewritten
  <2>4. StopUnderWay'
    BY <1>2, <1>3, <1>5, <2>1, <2>2, <2>3 DEF StopUnderWay
  <2> QED BY <1>3, <2>4 DEF StopFlow, StoppedQuiet
<1>6. CASE Ended("error")
  BY <1>3, <1>6, StopStarted DEF Ended, StopPc
<1> QED BY <1>1, <1>4, <1>5, <1>6

LEMMA StopStopSave ==
  ASSUME TypeOK, Placed, StopFlow, StopSave
  PROVE  StopFlow'
<1>1. /\ pc = "stopSave" /\ Aside /\ Still
      /\ \/ Over("stop", "halted") /\ mem' = mem /\ state' = mem
         \/ Ended("error")
  BY StopSaveEffect
<1>2. /\ stopped = FALSE /\ mem.retiring = {} /\ loc.todo \subseteq mem.on /\ loc.todo # {}
      /\ \A s \in mem.on \ loc.todo : mem.slots[s].status = "stopped" /\ mem.slots[s].pid \notin running
      /\ Rec.status = "stopped" /\ Rec.pid \notin running
  BY <1>1, TypesNow DEF StopFlow, StopUnderWay, StopPc, Placed, AtSlot
<1>3. stopped' = FALSE
  BY <1>1, <1>2 DEF Aside
<1>4. CASE Over("stop", "halted") /\ mem' = mem /\ state' = mem
  <2>1. /\ loc'.todo = loc.todo \ {Cur} /\ running' = running
        /\ pc' = IF loc.todo \ {Cur} = {} THEN "halted" ELSE "stop"
    BY <1>1, <1>4 DEF Over, Visits, Still
  <2>2. ASSUME NEW s \in mem'.on \ loc'.todo
        PROVE  mem'.slots[s].status = "stopped" /\ mem'.slots[s].pid \notin running'
    BY <1>2, <1>4, <2>1 DEF Rec
  <2>4. StopUnderWay'
    BY <1>2, <1>3, <1>4, <2>1, <2>2 DEF StopUnderWay
  <2> QED BY <1>3, <2>4 DEF StopFlow, StoppedQuiet
<1>5. CASE Ended("error")
  BY <1>3, <1>5, StopStarted DEF Ended, StopPc
<1> QED BY <1>1, <1>4, <1>5

LEMMA StopStopEnd ==
  ASSUME TypeOK, Placed, StopFlow, StopEnd
  PROVE  StopFlow'
<1>1. /\ pc = "halted" /\ Still /\ Unsaved /\ Ended("stopped") /\ stopped' = ~unsaved
  BY StopEndEffect
<1>2. /\ mem.retiring = {} /\ loc.todo = {} /\ (~unsaved => state = mem)
      /\ \A s \in mem.on \ loc.todo : mem.slots[s].status = "stopped" /\ mem.slots[s].pid \notin running
  BY <1>1 DEF StopFlow, StopUnderWay, StopPc
<1>3. state' = state /\ running' = running /\ pc' = "idle"
  BY <1>1 DEF Unsaved, Still, Ended
<1>4. stopped' => Quiet(state)'
  BY <1>1, <1>2, <1>3 DEF Quiet
<1> QED BY <1>3, <1>4 DEF StopFlow, StoppedQuiet, StopUnderWay, StopPc

LEMMA StopPass ==
  ASSUME TypeOK, Placed, StopFlow, PassKeeps
  PROVE  StopFlow'
<1>1. /\ pc = "pass" /\ Still /\ Unsaved /\ stopped' = stopped /\ loc.todo # {}
      /\ loc'.todo = loc.todo \ {Cur} /\ pc' \in {"pass", "passed"}
      /\ Rec.status = "stopped" => mem' = mem /\ loc'.dirty = loc.dirty
  BY DEF PassKeeps, Onward, Visits, Passive, Placed, AtSlot
<1>2. ASSUME stopped
      PROVE  state' = state /\ running' \subseteq running /\ mem' = state /\ loc'.dirty = FALSE
             /\ loc'.todo \subseteq state.on
  <2>1. Quiet(state) /\ mem = state /\ loc.dirty = FALSE /\ loc.todo \subseteq state.on
    BY <1>1, <1>2 DEF StopFlow, StoppedQuiet
  <2>2. Cur \in state.on
    BY <1>1, <2>1, CurIn
  <2>3. Rec.status = "stopped"
    BY <2>1, <2>2 DEF Quiet, Rec
  <2> QED BY <1>1, <2>1, <2>3 DEF Still, Unsaved
<1> QED BY <1>1, <1>2, StopQuiet

\* A step of the supervisor that acts finds a replica that is not stopped.
LEMMA StopPassActs ==
  ASSUME TypeOK, Placed, StopFlow, pc = "pass", Onward, stopped' = stopped, Rec.status # "stopped"
  PROVE  StopFlow'
<1>1. pc' \in {"pass", "passed"} /\ loc.todo # {}
  BY DEF Onward, Placed, AtSlot
<1>2. ~stopped
  <2>1. ASSUME stopped PROVE FALSE
    <3>1. Quiet(state) /\ mem = state /\ loc.todo \subseteq state.on
      BY <2>1 DEF StopFlow, StoppedQuiet
    <3>2. Cur \in state.on
      BY <1>1, <3>1, CurIn
    <3> QED BY <3>1, <3>2 DEF Quiet, Rec
  <2> QED BY <2>1
<1> QED BY <1>1, <1>2, StopQuiet

LEMMA StopInit ==
  ASSUME Init
  PROVE  StopFlow
BY DEF Init, StopFlow, StoppedQuiet, StopUnderWay, StopPc

LEMMA StopNext ==
  ASSUME TypeOK, Placed, StopFlow, [Next]_fvars
  PROVE  StopFlow'
<1>1. CASE BeginPass
  <2>1. /\ stopped' = stopped /\ pc = "idle" /\ pc' = "pass" /\ state' = state /\ running' = running
        /\ mem' = state /\ loc'.dirty = FALSE /\ loc'.todo = state.on
    BY <1>1, BeginPassEffect DEF Opened, Still
  <2> QED BY <2>1, StopQuiet
<1>2. CASE PassLive \/ PassProbe \/ (\E reaped \in BOOLEAN : PassExit(reaped))
           \/ (\E reaped, live \in BOOLEAN : PassOver(reaped, live))
  BY <1>2, PassLiveEffect, PassProbeEffect, PassExitEffect, PassOverEffect, StopPass
<1>3. CASE PassUnhealthy
  BY <1>3, PassUnhealthyEffect, StopPassActs DEF Passive
<1>4. CASE \E reaped \in BOOLEAN : PassRelaunch(reaped)
  BY <1>4, PassRelaunchEffect, StopPassActs DEF Passive
<1>5. CASE PassEnd
  <2>1. /\ stopped' = stopped /\ pc = "passed" /\ pc' = "idle" /\ running' = running
        /\ Unsaved \/ loc.dirty
    BY <1>5, PassEndEffect DEF Ended, Aside, Still
  <2>2. stopped => state' = state
    BY <2>1 DEF StopFlow, StoppedQuiet, Unsaved
  <2> QED BY <2>1, <2>2, StopQuiet
<1>6. CASE BeginStart \/ BeginRestart
  <2>1. pc' \in {"start", "restart"} /\ stopped' = FALSE
    BY <1>6 DEF BeginStart, BeginRestart, Begin, Open
  <2> QED BY <2>1, StopStarted DEF StopPc
<1>7. CASE BeginStop
  BY <1>7, StopBeginStop
<1>8. CASE StopSlot \/ StopSave \/ StopEnd
  BY <1>8, StopStopSlot, StopStopSave, StopStopEnd
<1>9. CASE StartSlot \/ StartWait \/ RestartSlot \/ Relaunch \/ Restarted \/ GrowSlot \/ Grown \/ ShrinkStop
           \/ ShrinkEnd \/ CommandEnd
  <2>1. pc \in {"start", "startWait", "restart", "relaunch", "restarted", "grow", "grown", "shrink", "done"}
        /\ stopped' = stopped
        /\ pc' \in {"start", "startWait", "restart", "relaunch", "restarted", "grow", "grown", "shrink",
                    "done", "idle"}
    BY <1>9, StartSlotEffect, StartWaitEffect, RestartSlotEffect, RelaunchEffect, RestartedEffect,
       GrowSlotEffect, GrownEffect, ShrinkStopEffect, ShrinkEndEffect, CommandEndEffect
       DEF Aside, Over, Ended
  <2> QED BY <2>1, StopOther DEF StopPc
<1>10. CASE (\E n \in 1 .. MaxReplicas : BeginGrow(n)) \/ (\E n \in 1 .. MaxReplicas : BeginShrink(n))
            \/ BeginDeploy
  <2>1. stopped' = FALSE /\ pc' \in {"grow", "shrink", "deploy"}
    BY <1>10, BeginGrowEffect, BeginShrinkEffect, BeginDeployEffect DEF Opened
  <2> QED BY <2>1, StopStarted DEF StopPc
<1>11. CASE DeployLoad \/ Prepare \/ (\E v \in Ver \ {0} : Build(v)) \/ RollSlot \/ RollCommit
            \/ RollUnproven \/ RollStop \/ RollBack \/ RollRetire \/ RollDrain \/ Undo
  <2>1. stopped' = stopped /\ pc \in {"deploy", "prepare", "build", "undo"} \cup RollPc
        /\ pc' \in {"idle", "prepare", "build", "undo", "promote", "revert", "drain"} \cup RollPc
    BY <1>11, DeployLoadEffect, PrepareEffect, BuildEffect, RollSlotEffect, RollCommitEffect,
       UnprovenEffect, RollStopEffect, RollBackEffect, RollRetireEffect, RollDrainEffect, UndoEffect
       DEF Aside, Over, Ended, RollPc
  <2> QED BY <2>1, StopOther DEF StopPc, RollPc
<1>12. CASE ClassicMark \/ ClassicStop \/ ClassicSave \/ ClassicLaunch \/ ClassicCommit
            \/ ClassicUnproven \/ ClassicUnlaunch \/ Promote
  <2>1. stopped' = stopped /\ pc \in {"promote"} \cup ClassicPc
        /\ pc' \in {"idle", "promote", "revert", "undo"} \cup ClassicPc
    BY <1>12, ClassicMarkEffect, ClassicStopEffect, ClassicSaveEffect, ClassicLaunchEffect,
       ClassicCommitEffect, UnprovenEffect, ClassicUnlaunchEffect, PromoteEffect
       DEF Aside, Over, Ended, Drained, ClassicPc
  <2> QED BY <2>1, StopOther DEF StopPc, ClassicPc
<1>13. CASE RevertBegin \/ RevertSkip \/ RevertStop \/ RevertLaunch \/ RevertProven \/ RevertSave
            \/ RevertUnproven \/ RevertUndo \/ RevertRecord \/ RecoveryRequired \/ RevertEnd
  <2>1. stopped' = stopped /\ pc \in RevertPc /\ pc' \in {"idle", "prepare"} \cup RevertPc
    BY <1>13, RevertBeginEffect, RevertSkipEffect, RevertStopEffect, RevertLaunchEffect,
       RevertProvenEffect, RevertSaveEffect, UnprovenEffect, RevertUndoEffect, RevertRecordEffect,
       RecoveryEffect, RevertEndEffect DEF Aside, Over, Ended, WentBack, GaveUp, RevertPc
  <2> QED BY <2>1, StopOther DEF StopPc, RevertPc
<1>14. CASE DrainRetirements
  <2>1. pc = "idle" /\ pc' = "idle" /\ stopped' = stopped /\ state.retiring # {}
    BY <1>14, DrainEffect
  <2>2. ~stopped
    BY <2>1 DEF StopFlow, StoppedQuiet, Quiet
  <2> QED BY <2>1, <2>2, StopQuiet
<1>15. CASE Killed
  <2>1. pc # "idle" /\ pc' = "idle" /\ stopped' = stopped /\ loc.kind # "pass"
    BY <1>15, KilledEffect DEF Ended
  <2>2. pc \notin {"idle", "pass", "passed"}
    BY <2>1 DEF Placed
  <2> QED BY <2>1, <2>2, StopOther DEF StopPc
<1>16. CASE MonitorRestart
  <2>1. /\ state' = state /\ running' = running
        /\ \/ pc' = "revert" /\ stopped' = FALSE
           \/ pc' = "idle" /\ stopped' = stopped /\ (pc = "idle" \/ loc.kind \in {"pass", "boot"})
           \/ pc' = pc /\ mem' = mem /\ loc' = loc /\ stopped' = stopped /\ unsaved' = unsaved
    BY <1>16, MonitorEffect DEF Ended, Still
  <2>2. CASE pc' = "revert" /\ stopped' = FALSE
    BY <2>2, StopStarted DEF StopPc
  <2>3. CASE pc' = "idle" /\ stopped' = stopped
    <3>1. stopped => pc \in {"idle", "pass", "passed"}
      BY DEF StopFlow, StoppedQuiet
    <3> QED BY <2>1, <2>3, <3>1, StopQuiet
  <2>4. CASE pc' = pc /\ mem' = mem /\ loc' = loc /\ stopped' = stopped /\ unsaved' = unsaved
    BY <2>1, <2>4 DEF StopFlow, StoppedQuiet, StopUnderWay, Quiet, Rec, Cur
  <2> QED BY <2>1, <2>2, <2>3, <2>4
<1>17. CASE \E p \in Proc : Exit(p)
  <2>1. running' \subseteq running /\ state' = state /\ pc' = pc /\ mem' = mem /\ loc' = loc
        /\ stopped' = stopped /\ unsaved' = unsaved
    BY <1>17, ExitEffect
  <2>2. StoppedQuiet'
    BY <2>1 DEF StopFlow, StoppedQuiet, Quiet
  <2>3. StopUnderWay'
    BY <2>1 DEF StopFlow, StopUnderWay, Rec, Cur
  <2> QED BY <2>2, <2>3 DEF StopFlow
<1>18. CASE UNCHANGED fvars
  BY <1>18 DEF fvars, StopFlow, StoppedQuiet, StopUnderWay, Quiet, Rec, Cur
<1>19. Steps \/ UNCHANGED fvars
  BY NextIs
<1> QED BY <1>1, <1>2, <1>3, <1>4, <1>5, <1>6, <1>7, <1>8, <1>9, <1>10, <1>11, <1>12, <1>13, <1>14, <1>15,
           <1>16, <1>17, <1>18, <1>19 DEF Steps

\* A successful `stop` is final: until a command or a recovery starts replicas, no process
\* that deploy.json or the running operation records is alive (WorkerStop stops every replica
\* and persists "stopped" for each before it reports success; the supervisor's pass leaves
\* a stopped replica alone).
THEOREM StopIsFinal == Spec => []StopHonoured
<1>1. Init => TypeOK /\ Placed /\ StopFlow
  BY TypesInit, StopInit
<1>2. TypeOK /\ Placed /\ StopFlow /\ [Next]_fvars => (TypeOK /\ Placed /\ StopFlow)'
  BY TypesNext, StopNext
<1>3. TypeOK /\ Placed /\ StopFlow => StopHonoured
  <2> SUFFICES ASSUME TypeOK, Placed, StopFlow, stopped
               PROVE  running \cap (Recorded(state) \cup Recorded(mem)) \subseteq astray
    BY DEF StopHonoured
  <2>1. Quiet(state) /\ (mem = state \/ mem = NoFleet)
    BY DEF StopFlow, StoppedQuiet, Placed
  <2>2. running \cap Recorded(state) = {}
    BY <2>1 DEF Quiet, Recorded
  <2>3. Recorded(NoFleet) = {}
    BY NoFleetFacts DEF Recorded
  <2> QED BY <2>1, <2>2, <2>3
<1> QED BY <1>1, <1>2, <1>3, PTL DEF Spec

-----------------------------------------------------------------------------
(* Records and processes.                                                  *)

\* A record r of slot s names a process launched, of the record's version if it lives; when
\* a restart is due the supervisor holds no handle on a process that lives.
RecOK(r, s, R, n, B, H) ==
  /\ r.pid \in 0 .. n
  /\ r.pid \in R => B[r.pid] = r.ver
  /\ r.pid \in R /\ r.status = "restarting" => H[s] = 0

\* No slot but s names the process of record r.
Apart(j, s, r) == \A t \in Slot \ {s} : r.pid # 0 => j.slots[t].pid # r.pid

Sound(j, R, n, B, H) == \A s \in Slot : RecOK(j.slots[s], s, R, n, B, H) /\ Apart(j, s, j.slots[s])

\* While a replacement is being proven the record it replaces stays as good as it was.
Replacing ==
  pc \in {"rollGate", "rollStop"} =>
    /\ RecOK(loc.old, Cur, running, launched, builtAs, handle) /\ Apart(mem, Cur, loc.old)
    /\ Rec.pid # 0 /\ Rec.pid # loc.old.pid

\* What is launched again has ended.
Relaunching == pc \in {"relaunch", "revertLaunch"} => Rec.pid \notin running

\* The classic deploy forgets a process only once it has tried to stop it.
Draining ==
  /\ pc \in {"drain", "drainStop", "drainSave"} => \A s \in mem.on \ loc.todo : mem.slots[s].pid = 0
  /\ pc = "drainSave" => Rec.pid = 0

Launching ==
  pc \in {"launch", "gate", "gateStop"} =>
    \A s \in loc.todo : pc = "launch" \/ s # Cur => mem.slots[s].pid = 0

\* The replicas a scale adds are among those it makes the set of.
Growing ==
  pc \in {"grow", "grown"} =>
    /\ loc.todo \subseteq 0 .. loc.n - 1
    /\ loc.n > Cardinality(mem.on) \/ mem.on = 0 .. loc.n - 1

Sounds == /\ Sound(state, running, launched, builtAs, handle)
          /\ Sound(mem, running, launched, builtAs, handle)

Machine == Sounds /\ Replacing /\ Relaunching /\ Draining /\ Launching /\ Growing

\* The supervisor lets go of handles, at most.
Released == \A s \in Slot : handle'[s] \in {0, handle[s]}

LEMMA SoundEmpty ==
  ASSUME NEW R, NEW n \in Nat, NEW B, NEW H, 0 \notin R
  PROVE  Sound(NoFleet, R, n, B, H)
BY NoFleetFacts, NoRecFacts DEF Sound, RecOK, Apart

LEMMA RecMoved ==
  ASSUME TypeOK, Moved, NEW r, NEW s \in Slot, handle'[s] \in {0, handle[s]},
         RecOK(r, s, running, launched, builtAs, handle)
  PROVE  RecOK(r, s, running', launched', builtAs', handle') /\ (r.pid \in running' => r.pid \in running)
<1>1. /\ launched \in 0 .. MaxProcs /\ running \subseteq 1 .. launched /\ launched' \in 0 .. MaxProcs
      /\ launched <= launched' /\ \A p \in 1 .. launched : builtAs'[p] = builtAs[p]
      /\ \A p \in running' : p \in running \/ p > launched
  BY TypesNow DEF Moved
<1>2. r.pid \in 0 .. launched
  BY DEF RecOK
<1>3. r.pid \in 0 .. launched' /\ (r.pid \in running' => r.pid \in running)
  BY <1>1, <1>2, BoundsAssumption
<1>4. r.pid \in running => builtAs'[r.pid] = builtAs[r.pid]
  BY <1>1
<1> QED BY <1>3, <1>4 DEF RecOK

LEMMA SoundMoved ==
  ASSUME TypeOK, Moved, Released, NEW j, Sound(j, running, launched, builtAs, handle)
  PROVE  Sound(j, running', launched', builtAs', handle')
BY RecMoved DEF Sound, Released

\* Records that are kept, forget their process, or change in what a dead one may change in.
LEMMA SoundLess ==
  ASSUME NEW j, NEW k, NEW R, NEW n \in Nat, NEW B, NEW H, 0 \notin R, Sound(j, R, n, B, H),
         \A t \in Slot : \/ k.slots[t].pid = 0
                         \/ k.slots[t] = j.slots[t]
                         \/ /\ k.slots[t].pid = j.slots[t].pid
                            /\ k.slots[t].pid \in R => /\ k.slots[t].ver = j.slots[t].ver
                                                       /\ k.slots[t].status = "restarting" => H[t] = 0
  PROVE  Sound(k, R, n, B, H)
<1>1. ASSUME NEW s \in Slot PROVE RecOK(k.slots[s], s, R, n, B, H)
  <2>1. RecOK(j.slots[s], s, R, n, B, H)
    BY DEF Sound
  <2> QED BY <2>1 DEF RecOK
<1>2. ASSUME NEW s \in Slot, NEW t \in Slot, t # s, k.slots[s].pid # 0
      PROVE  k.slots[t].pid # k.slots[s].pid
  <2>1. j.slots[s].pid = k.slots[s].pid /\ (k.slots[t].pid = 0 \/ k.slots[t].pid = j.slots[t].pid)
    BY <1>2
  <2>2. j.slots[t].pid # j.slots[s].pid
    BY <1>2, <2>1 DEF Sound, Apart
  <2> QED BY <1>2, <2>1, <2>2
<1> QED BY <1>1, <1>2 DEF Sound, Apart

LEMMA Zero ==
  ASSUME TypeOK
  PROVE  0 \notin running /\ launched \in Nat /\ launched + 1 \notin running /\ launched + 1 > launched
BY BoundsAssumption, TypesNow

\* The process just launched goes by no other record.
LEMMA SoundFresh ==
  ASSUME TypeOK, Moved, Sound(mem, running, launched, builtAs, handle), NEW s \in Slot, NEW k,
         \A t \in Slot : t # s => handle'[t] \in {0, handle[t]},
         launched' = launched + 1, k.slots[s].pid = launched + 1,
         launched + 1 \in running' => /\ builtAs'[launched + 1] = k.slots[s].ver
                                      /\ k.slots[s].status # "restarting",
         \A t \in Slot : t # s => k.slots[t] = mem.slots[t] \/ k.slots[t].pid = 0
  PROVE  Sound(k, running', launched', builtAs', handle')
<1>1. launched \in Nat /\ 0 \notin running' /\ launched' \in Nat
  BY TypesNow, BoundsAssumption DEF Moved
<1>2. RecOK(k.slots[s], s, running', launched', builtAs', handle')
  BY <1>1 DEF RecOK
<1>3. ASSUME NEW t \in Slot, t # s
      PROVE  /\ RecOK(k.slots[t], t, running', launched', builtAs', handle')
             /\ k.slots[t].pid = 0 \/ k.slots[t].pid = mem.slots[t].pid
             /\ k.slots[t].pid # launched + 1
  <2>0. RecOK(mem.slots[t], t, running, launched, builtAs, handle)
    BY DEF Sound
  <2>1. RecOK(mem.slots[t], t, running', launched', builtAs', handle')
    BY <1>3, <2>0, RecMoved
  <2>2. mem.slots[t].pid # launched + 1
    BY <1>1, <2>0 DEF RecOK
  <2>3. k.slots[t].pid = 0 => RecOK(k.slots[t], t, running', launched', builtAs', handle')
    BY <1>1 DEF RecOK
  <2>4. launched + 1 # 0
    BY <1>1
  <2> QED BY <1>3, <2>1, <2>2, <2>3, <2>4
<1>4. ASSUME NEW a \in Slot, NEW b \in Slot, a # b, k.slots[a].pid # 0
      PROVE  k.slots[b].pid # k.slots[a].pid
  <2>1. CASE a = s \/ b = s
    BY <1>3, <1>4, <2>1
  <2>2. CASE a # s /\ b # s
    BY <1>3, <1>4, <2>2 DEF Sound, Apart
  <2> QED BY <2>1, <2>2
<1> QED BY <1>2, <1>3, <1>4 DEF Sound, Apart

\* The record a replacement was to replace comes back.
LEMMA SoundBack ==
  ASSUME NEW R, NEW n, NEW B, NEW H, NEW k, NEW s \in Slot, NEW r, Sound(mem, R, n, B, H),
         RecOK(r, s, R, n, B, H), Apart(mem, s, r), k.slots[s] = r,
         \A t \in Slot : t # s => k.slots[t] = mem.slots[t]
  PROVE  Sound(k, R, n, B, H)
<1>1. \A t \in Slot : RecOK(k.slots[t], t, R, n, B, H)
  BY DEF Sound
<1>2. ASSUME NEW a \in Slot, NEW b \in Slot, a # b, k.slots[a].pid # 0
      PROVE  k.slots[b].pid # k.slots[a].pid
  <2>1. CASE a = s
    BY <1>2, <2>1 DEF Apart
  <2>2. CASE b = s
    BY <1>2, <2>2 DEF Apart
  <2>3. CASE a # s /\ b # s
    BY <1>2, <2>3 DEF Sound, Apart
  <2> QED BY <2>1, <2>2, <2>3
<1> QED BY <1>1, <1>2 DEF Sound, Apart

\* The records of j are sound after the step.
After(j) == Sound(j, running', launched', builtAs', handle')

LEMMA AsideReleased ==
  ASSUME TypeOK, handle' = handle
  PROVE  Released
BY TypesNow DEF Released

LEMMA SoundAll ==
  ASSUME TypeOK, Moved, Released, Sounds, After(mem'), state' \in {state, mem, mem'}
  PROVE  Sounds'
<1>1. After(state) /\ After(mem)
  BY SoundMoved DEF Sounds, After
<1>2. After(state')
  BY <1>1
<1> QED BY <1>2 DEF Sounds, After

LEMMA AfterSame ==
  ASSUME TypeOK, Moved, Released, Sounds, mem' = mem
  PROVE  After(mem')
<1>1. After(mem)
  BY SoundMoved DEF Sounds, After
<1> QED BY <1>1

LEMMA AfterEnded ==
  ASSUME TypeOK, Moved, mem' = NoFleet
  PROVE  After(mem')
<1>1. launched' \in Nat /\ 0 \notin running'
  BY BoundsAssumption DEF Moved
<1>2. After(NoFleet)
  BY <1>1, SoundEmpty DEF After
<1> QED BY <1>2

\* Records that are kept or cleared.
LEMMA AfterLess ==
  ASSUME TypeOK, Moved, Released, Sounds, NEW j \in {state, mem}, NEW k,
         \A t \in Slot : k.slots[t] = j.slots[t] \/ k.slots[t].pid = 0
  PROVE  After(k)
<1>1. launched' \in Nat /\ 0 \notin running'
  BY BoundsAssumption DEF Moved
<1>2. After(j)
  BY SoundMoved DEF Sounds, After
<1> QED BY <1>1, <1>2, SoundLess DEF After

LEMMA AfterRewritten ==
  ASSUME TypeOK, Moved, Released, Sounds, loc.todo # {}, NEW p, NEW v, NEW st, Rewritten(p, v, st),
         p = 0 \/ p = Rec.pid,
         p \in running' => v = Rec.ver /\ (st = "restarting" => handle'[Cur] = 0)
  PROVE  After(mem')
<1>1. launched' \in Nat /\ 0 \notin running' /\ Cur \in Slot
  BY BoundsAssumption, CurIn DEF Moved
<1>2. After(mem)
  BY SoundMoved DEF Sounds, After
<1>3. \A t \in Slot :
        \/ mem'.slots[t].pid = 0
        \/ mem'.slots[t] = mem.slots[t]
        \/ /\ mem'.slots[t].pid = mem.slots[t].pid
           /\ mem'.slots[t].pid \in running' => /\ mem'.slots[t].ver = mem.slots[t].ver
                                                /\ mem'.slots[t].status = "restarting" => handle'[t] = 0
  BY <1>1 DEF Rewritten, Rec
<1> QED BY <1>1, <1>2, <1>3, SoundLess DEF After

LEMMA AfterStatus ==
  ASSUME TypeOK, Moved, Released, Sounds, loc.todo # {}, NEW st, Rewritten(Rec.pid, Rec.ver, st),
         st # "restarting"
  PROVE  After(mem')
BY AfterRewritten

LEMMA AfterNoPid ==
  ASSUME TypeOK, Moved, Released, Sounds, loc.todo # {}, NEW v, NEW st, Rewritten(0, v, st)
  PROVE  After(mem')
<1>1. 0 \notin running'
  BY BoundsAssumption DEF Moved
<1> QED BY <1>1, AfterRewritten

LEMMA AfterLaunched ==
  ASSUME TypeOK, Moved, Released, Sounds, loc.todo # {}, NEW v, Starts(v), Relaunched(mem', mem, Cur, v)
  PROVE  After(mem')
<1>1. /\ Cur \in Slot /\ mem'.slots[Cur].pid = launched + 1 /\ mem'.slots[Cur].ver = v
      /\ mem'.slots[Cur].status = "starting" /\ launched' = launched + 1 /\ builtAs'[launched + 1] = v
      /\ \A t \in Slot : t # Cur => mem'.slots[t] = mem.slots[t]
  BY CurIn DEF Relaunched, Starts
<1>2. Sound(mem, running, launched, builtAs, handle) /\ \A t \in Slot : handle'[t] \in {0, handle[t]}
  BY DEF Sounds, Released
<1> QED BY <1>1, <1>2, SoundFresh DEF After

LEMMA SoundCommand ==
  ASSUME TypeOK, Placed, Machine,
         StartSlot \/ StartWait \/ StopSlot \/ StopSave \/ StopEnd \/ RestartSlot \/ Relaunch \/ Restarted
  PROVE  Sounds'
<1>1. CASE StartSlot
  <2>1. /\ Moved /\ Aside /\ pc = "start"
        /\ \/ mem' = mem /\ Unsaved
           \/ Rewritten(Rec.pid, Rec.ver, "running") /\ Tried(mem')
           \/ Starts(Rec.ver) /\ Relaunched(mem', mem, Cur, Rec.ver) /\ state' = mem'
           \/ Ended("error") /\ Unsaved
    BY <1>1, StartSlotEffect
  <2>2. Released /\ loc.todo # {} /\ Sounds /\ state' \in {state, mem, mem'}
    BY <2>1, AsideReleased DEF Aside, Placed, AtSlot, Machine, Tried, Unsaved
  <2>3. After(mem')
    BY <2>1, <2>2, AfterSame, AfterStatus, AfterLaunched, AfterEnded DEF Ended
  <2> QED BY <2>1, <2>2, <2>3, SoundAll
<1>2. CASE StartWait
  <2>1. /\ Moved /\ Aside /\ pc = "startWait"
        /\ \/ Rewritten(Rec.pid, Rec.ver, "running") /\ Tried(mem')
           \/ Ended("error") /\ Unsaved
    BY <1>2, StartWaitEffect
  <2>2. Released /\ loc.todo # {} /\ Sounds /\ state' \in {state, mem, mem'}
    BY <2>1, AsideReleased DEF Aside, Placed, AtSlot, Machine, Tried, Unsaved
  <2>3. After(mem')
    BY <2>1, <2>2, AfterStatus, AfterEnded DEF Ended
  <2> QED BY <2>1, <2>2, <2>3, SoundAll
<1>3. CASE StopSlot
  <2>1. /\ Moved /\ Aside /\ pc = "stop"
        /\ \/ Rewritten(Rec.pid, Rec.ver, "stopped") /\ (Tried(mem') \/ Unsaved)
           \/ Rewritten(0, Rec.ver, "stopped") /\ Unsaved
           \/ Ended("error") /\ Unsaved
    BY <1>3, StopSlotEffect
  <2>2. Released /\ loc.todo # {} /\ Sounds /\ state' \in {state, mem, mem'}
    BY <2>1, AsideReleased DEF Aside, Placed, AtSlot, Machine, Tried, Unsaved
  <2>3. After(mem')
    BY <2>1, <2>2, AfterStatus, AfterNoPid, AfterEnded DEF Ended
  <2> QED BY <2>1, <2>2, <2>3, SoundAll
<1>4. CASE StopSave \/ StopEnd
  <2>1. /\ Moved /\ handle' = handle
        /\ \/ mem' = mem /\ state' = mem
           \/ mem' = NoFleet /\ Unsaved
    BY <1>4, StopSaveEffect, StopEndEffect DEF Aside, Ended
  <2>2. Released /\ Sounds /\ state' \in {state, mem, mem'}
    BY <2>1, AsideReleased DEF Machine, Unsaved
  <2>3. After(mem')
    BY <2>1, <2>2, AfterSame, AfterEnded
  <2> QED BY <2>1, <2>2, <2>3, SoundAll
<1>5. CASE RestartSlot \/ Relaunch
  <2>1. /\ Moved /\ handle' = handle /\ pc \in {"restart", "relaunch"}
        /\ \/ mem' = mem /\ Unsaved
           \/ Starts(Rec.ver) /\ Relaunched(mem', mem, Cur, Rec.ver) /\ state' = mem'
           \/ mem' = NoFleet /\ Unsaved
    BY <1>5, RestartSlotEffect, RelaunchEffect DEF Aside, Ended
  <2>2. Released /\ loc.todo # {} /\ Sounds /\ state' \in {state, mem, mem'}
    BY <2>1, AsideReleased DEF Placed, AtSlot, Machine, Unsaved
  <2>3. After(mem')
    BY <2>1, <2>2, AfterSame, AfterLaunched, AfterEnded
  <2> QED BY <2>1, <2>2, <2>3, SoundAll
<1>6. CASE Restarted
  <2>1. Moved /\ Aside /\ pc = "restarted" /\ Rewritten(Rec.pid, Rec.ver, "running") /\ Tried(mem')
    BY <1>6, RestartedEffect
  <2>2. Released /\ loc.todo # {} /\ Sounds /\ state' \in {state, mem, mem'}
    BY <2>1, AsideReleased DEF Aside, Placed, AtSlot, Machine, Tried
  <2>3. After(mem')
    BY <2>1, <2>2, AfterStatus
  <2> QED BY <2>1, <2>2, <2>3, SoundAll
<1> QED BY <1>1, <1>2, <1>3, <1>4, <1>5, <1>6

LEMMA SoundScale ==
  ASSUME TypeOK, Placed, Machine, GrowSlot \/ Grown \/ ShrinkStop \/ ShrinkEnd \/ CommandEnd
  PROVE  Sounds'
<1>1. CASE GrowSlot
  <2>1. /\ Moved /\ Aside /\ pc = "grow"
        /\ \/ Starts(loc.target) /\ GrownTo(loc.target) /\ state' = mem'
           \/ Ended("error") /\ Unsaved
    BY <1>1, GrowSlotEffect
  <2>2. Released /\ loc.todo # {} /\ Sounds /\ state' \in {state, mem, mem'}
    BY <2>1, AsideReleased DEF Aside, Placed, AtSlot, Machine, Unsaved
  <2>3. CASE Starts(loc.target) /\ GrownTo(loc.target)
    <3>1. /\ Cur \in Slot /\ mem'.slots[Cur].pid = launched + 1 /\ mem'.slots[Cur].ver = loc.target
          /\ mem'.slots[Cur].status = "starting" /\ launched' = launched + 1
          /\ builtAs'[launched + 1] = loc.target
      BY <2>2, <2>3, CurIn DEF GrownTo, Starts
    <3>2. \A t \in Slot : t # Cur => mem'.slots[t] = mem.slots[t] \/ mem'.slots[t].pid = 0
      BY <2>3, NoRecFacts DEF GrownTo
    <3>3. Sound(mem, running, launched, builtAs, handle) /\ \A t \in Slot : handle'[t] \in {0, handle[t]}
      BY <2>2 DEF Sounds, Released
    <3>4. After(mem')
      BY <2>1, <3>1, <3>2, <3>3, SoundFresh DEF After
    <3> QED BY <2>1, <2>2, <3>4, SoundAll
  <2>4. CASE Ended("error")
    BY <2>1, <2>2, <2>4, AfterEnded, SoundAll DEF Ended
  <2> QED BY <2>1, <2>3, <2>4
<1>2. CASE Grown
  <2>1. Moved /\ Aside /\ pc = "grown" /\ Rewritten(Rec.pid, Rec.ver, "running") /\ Tried(mem')
    BY <1>2, GrownEffect
  <2>2. Released /\ loc.todo # {} /\ Sounds /\ state' \in {state, mem, mem'}
    BY <2>1, AsideReleased DEF Aside, Placed, AtSlot, Machine, Tried
  <2>3. After(mem')
    BY <2>1, <2>2, AfterStatus
  <2> QED BY <2>1, <2>2, <2>3, SoundAll
<1>3. CASE ShrinkStop \/ CommandEnd
  <2>1. Moved /\ handle' = handle /\ Unsaved /\ (mem' = mem \/ mem' = NoFleet)
    BY <1>3, ShrinkStopEffect, CommandEndEffect DEF Aside, Ended
  <2>2. Released /\ Sounds /\ state' \in {state, mem, mem'}
    BY <2>1, AsideReleased DEF Machine, Unsaved
  <2>3. After(mem')
    BY <2>1, <2>2, AfterSame, AfterEnded
  <2> QED BY <2>1, <2>2, <2>3, SoundAll
<1>4. CASE ShrinkEnd
  <2>1. Moved /\ handle' = handle /\ mem' = NoFleet /\ (state' = Resize(mem, loc.n) \/ state' = state)
    BY <1>4, ShrinkEndEffect DEF Aside, Ended, Unsaved
  <2>2. Released /\ Sounds /\ loc.n \in 0 .. MaxReplicas /\ mem \in Fleet
    BY <2>1, AsideReleased, TypesNow, LocalFields DEF Machine
  <2>3. \A t \in Slot : Resize(mem, loc.n).slots[t] = mem.slots[t] \/ Resize(mem, loc.n).slots[t].pid = 0
    BY <2>2, ResizeFacts, NoRecFacts
  <2>4. After(Resize(mem, loc.n)) /\ After(state)
    BY <2>1, <2>2, <2>3, AfterLess
  <2>5. After(mem')
    BY <2>1, AfterEnded
  <2> QED BY <2>1, <2>4, <2>5 DEF Sounds, After
<1> QED BY <1>1, <1>2, <1>3, <1>4

LEMMA AfterBack ==
  ASSUME TypeOK, Placed, Machine, Moved, Released, pc \in {"rollGate", "rollStop"}, PutBack(loc.old)
  PROVE  After(mem')
<1>1. /\ RecOK(loc.old, Cur, running, launched, builtAs, handle) /\ Apart(mem, Cur, loc.old) /\ Cur \in Slot
      /\ Sound(mem, running, launched, builtAs, handle)
  BY CurIn DEF Machine, Replacing, Sounds, Placed, AtSlot
<1>2. After(mem) /\ RecOK(loc.old, Cur, running', launched', builtAs', handle')
  BY <1>1, SoundMoved, RecMoved DEF After, Released
<1>3. mem'.slots[Cur] = loc.old /\ \A t \in Slot : t # Cur => mem'.slots[t] = mem.slots[t]
  BY DEF PutBack
<1> QED BY <1>1, <1>2, <1>3, SoundBack DEF After

LEMMA SoundRoll ==
  ASSUME TypeOK, Placed, Machine,
         DeployLoad \/ RollSlot \/ RollCommit \/ RollUnproven \/ RollStop \/ RollBack \/ RollRetire \/ RollDrain
         \/ Undo
  PROVE  Sounds'
<1>1. CASE DeployLoad \/ RollUnproven \/ RollBack \/ RollRetire \/ RollDrain \/ Undo
  <2>1. Moved /\ handle' = handle /\ mem' = mem /\ state' \in {state, mem, mem'}
    BY <1>1, DeployLoadEffect, UnprovenEffect, RollBackEffect, RollRetireEffect, RollDrainEffect, UndoEffect
       DEF Aside, Tried, Unsaved
  <2> QED BY <2>1, AsideReleased, AfterSame, SoundAll DEF Machine
<1>2. CASE RollSlot
  <2>1. /\ Moved /\ handle' = handle /\ pc = "roll"
        /\ \/ mem' = mem /\ Unsaved
           \/ Starts(loc.target) /\ Relaunched(mem', mem, Cur, loc.target) /\ state' = mem'
    BY <1>2, RollSlotEffect DEF Aside
  <2>2. Released /\ loc.todo # {} /\ Sounds /\ state' \in {state, mem, mem'}
    BY <2>1, AsideReleased DEF Placed, AtSlot, Machine, Unsaved
  <2>3. After(mem')
    BY <2>1, <2>2, AfterSame, AfterLaunched
  <2> QED BY <2>1, <2>2, <2>3, SoundAll
<1>3. CASE RollCommit
  <2>1. /\ Moved /\ handle' = handle /\ pc = "rollGate" /\ Sounds /\ state' \in {state, mem, mem'}
        /\ \/ /\ mem'.slots[Cur].pid = Rec.pid /\ mem'.slots[Cur].ver = Rec.ver
              /\ mem'.slots[Cur].status = "running" /\ PutBack(mem'.slots[Cur])
           \/ PutBack(loc.old)
    BY <1>3, RollCommitEffect DEF Aside, Machine, Unsaved
  <2>2. Released
    BY <2>1, AsideReleased
  <2>3. CASE /\ mem'.slots[Cur].pid = Rec.pid /\ mem'.slots[Cur].ver = Rec.ver
             /\ mem'.slots[Cur].status = "running" /\ PutBack(mem'.slots[Cur])
    <3>1. launched' \in Nat /\ 0 \notin running'
      BY <2>1, BoundsAssumption DEF Moved
    <3>2. After(mem)
      BY <2>1, <2>2, SoundMoved DEF Sounds, After
    <3>3. \A t \in Slot :
            \/ mem'.slots[t].pid = 0
            \/ mem'.slots[t] = mem.slots[t]
            \/ /\ mem'.slots[t].pid = mem.slots[t].pid
               /\ mem'.slots[t].pid \in running' => /\ mem'.slots[t].ver = mem.slots[t].ver
                                                    /\ mem'.slots[t].status = "restarting" => handle'[t] = 0
      BY <2>3 DEF PutBack, Rec
    <3>4. After(mem')
      BY <3>1, <3>2, <3>3, SoundLess DEF After
    <3> QED BY <2>1, <2>2, <3>4, SoundAll
  <2>4. CASE PutBack(loc.old)
    BY <2>1, <2>2, <2>4, AfterBack, SoundAll
  <2> QED BY <2>1, <2>3, <2>4
<1>4. CASE RollStop
  <2>1. Moved /\ handle' = handle /\ pc = "rollStop" /\ Sounds /\ state' \in {state, mem, mem'} /\ PutBack(loc.old)
    BY <1>4, RollStopEffect DEF Aside, Machine, Unsaved
  <2> QED BY <2>1, AsideReleased, AfterBack, SoundAll
<1> QED BY <1>1, <1>2, <1>3, <1>4

LEMMA SoundPrepare ==
  ASSUME TypeOK, Placed, Machine, Prepare \/ (\E v \in Ver \ {0} : Build(v)) \/ Promote
  PROVE  Sounds'
<1>1. CASE Prepare
  <2>1. Moved /\ handle' = handle /\ Sounds /\ state' \in {state, mem, mem'} /\ Prepared
    BY <1>1, PrepareEffect DEF Machine, Unsaved
  <2>2. \A t \in Slot : mem'.slots[t] = mem.slots[t] \/ mem'.slots[t].pid = 0
    BY <2>1, NoRecFacts DEF Prepared
  <2> QED BY <2>1, <2>2, AsideReleased, AfterLess, SoundAll
<1>2. CASE \E v \in Ver \ {0} : Build(v)
  <2>1. /\ Moved /\ handle' = handle /\ Sounds
        /\ \/ SameSlots(mem', mem) /\ state' = mem'
           \/ mem' = NoFleet /\ (state' = state \/ SameSlots(state', mem))
    BY <1>2, BuildEffect DEF Machine, Aside, Ended
  <2>2. Released
    BY <2>1, AsideReleased
  <2>3. CASE SameSlots(mem', mem) /\ state' = mem'
    <3>1. \A t \in Slot : mem'.slots[t] = mem.slots[t]
      BY <2>3 DEF SameSlots
    <3> QED BY <2>1, <2>2, <2>3, <3>1, AfterLess, SoundAll
  <2>4. CASE mem' = NoFleet /\ state' = state
    BY <2>1, <2>2, <2>4, AfterEnded, SoundAll
  <2>5. CASE mem' = NoFleet /\ SameSlots(state', mem)
    <3>1. \A t \in Slot : state'.slots[t] = mem.slots[t]
      BY <2>5 DEF SameSlots
    <3>2. After(state')
      BY <2>1, <2>2, <3>1, AfterLess
    <3> QED BY <2>1, <2>5, <3>2, AfterEnded DEF Sounds, After
  <2> QED BY <2>1, <2>3, <2>4, <2>5
<1>3. CASE Promote
  <2>1. /\ Moved /\ handle' = handle /\ Sounds /\ mem' = NoFleet
        /\ (state' = state \/ SameSlots(state', mem))
    BY <1>3, PromoteEffect DEF Machine, Aside, Ended, Unsaved
  <2>2. Released
    BY <2>1, AsideReleased
  <2>3. CASE state' = state
    BY <2>1, <2>2, <2>3, AfterEnded, SoundAll
  <2>4. CASE SameSlots(state', mem)
    <3>1. \A t \in Slot : state'.slots[t] = mem.slots[t]
      BY <2>4 DEF SameSlots
    <3>2. After(state')
      BY <2>1, <2>2, <3>1, AfterLess
    <3> QED BY <2>1, <3>2, AfterEnded DEF Sounds, After
  <2> QED BY <2>1, <2>3, <2>4
<1> QED BY <1>1, <1>2, <1>3

\* A launch that failed: the record names no live process.
LEMMA AfterFizzled ==
  ASSUME TypeOK, Moved, Released, Sounds, loc.todo # {}, NEW v, Fizzled(v), PutBack(mem'.slots[Cur]),
         Rec.pid \notin running
  PROVE  After(mem')
<1>1. Cur \in Slot /\ \A t \in Slot : t # Cur => mem'.slots[t] = mem.slots[t]
  BY CurIn DEF PutBack
<1>2. launched' \in Nat /\ 0 \notin running' /\ running' = running /\ launched + 1 \notin running
  BY Zero, BoundsAssumption DEF Moved, Fizzled
<1>3. CASE mem'.slots[Cur].pid = Rec.pid
  <2>1. After(mem)
    BY SoundMoved DEF Sounds, After
  <2>2. \A t \in Slot :
          \/ mem'.slots[t].pid = 0
          \/ mem'.slots[t] = mem.slots[t]
          \/ /\ mem'.slots[t].pid = mem.slots[t].pid
             /\ mem'.slots[t].pid \in running' => /\ mem'.slots[t].ver = mem.slots[t].ver
                                                  /\ mem'.slots[t].status = "restarting" => handle'[t] = 0
    BY <1>1, <1>2, <1>3 DEF Rec
  <2> QED BY <1>2, <2>1, <2>2, SoundLess DEF After
<1>4. CASE mem'.slots[Cur].pid = launched + 1 /\ launched' = launched + 1
  <2>1. Sound(mem, running, launched, builtAs, handle) /\ \A t \in Slot : handle'[t] \in {0, handle[t]}
    BY DEF Sounds, Released
  <2> QED BY <1>1, <1>2, <1>4, <2>1, SoundFresh DEF After
<1> QED BY <1>3, <1>4 DEF Fizzled

LEMMA SoundClassic ==
  ASSUME TypeOK, Placed, Machine,
         ClassicMark \/ ClassicStop \/ ClassicSave \/ ClassicLaunch \/ ClassicCommit \/ ClassicUnproven
         \/ ClassicUnlaunch
  PROVE  Sounds'
<1>1. CASE ClassicMark
  <2>1. Moved /\ handle' = handle /\ Sounds /\ state' \in {state, mem, mem'} /\ SameSlots(mem', mem)
    BY <1>1, ClassicMarkEffect DEF Machine, Aside, Unsaved
  <2>2. \A t \in Slot : mem'.slots[t] = mem.slots[t]
    BY <2>1 DEF SameSlots
  <2> QED BY <2>1, <2>2, AsideReleased, AfterLess, SoundAll
<1>2. CASE ClassicStop \/ ClassicUnlaunch
  <2>1. /\ Moved /\ handle' = handle /\ Sounds /\ state' \in {state, mem, mem'} /\ Rewritten(0, Rec.ver, "stopped")
        /\ loc.todo # {}
    BY <1>2, ClassicStopEffect, ClassicUnlaunchEffect DEF Machine, Aside, Unsaved, Placed, AtSlot
  <2> QED BY <2>1, AsideReleased, AfterNoPid, SoundAll
<1>3. CASE ClassicSave \/ ClassicUnproven
  <2>1. Moved /\ handle' = handle /\ Sounds /\ state' \in {state, mem, mem'} /\ mem' = mem
    BY <1>3, ClassicSaveEffect, UnprovenEffect DEF Machine, Aside, Unsaved, Tried
  <2> QED BY <2>1, AsideReleased, AfterSame, SoundAll
<1>4. CASE ClassicLaunch
  <2>1. /\ Moved /\ handle' = handle /\ pc = "launch" /\ Sounds
        /\ \/ Starts(loc.target) /\ Relaunched(mem', mem, Cur, loc.target) /\ state' = mem'
           \/ Fizzled(loc.target) /\ PutBack(mem'.slots[Cur])
    BY <1>4, ClassicLaunchEffect DEF Machine, Aside
  <2>2. Released /\ loc.todo # {} /\ state' \in {state, mem, mem'}
    BY <2>1, AsideReleased DEF Placed, AtSlot, Fizzled, Unsaved
  <2>3. Rec.pid \notin running
    BY <2>1, <2>2, CurIn, Zero DEF Machine, Launching, Rec
  <2>4. After(mem')
    BY <2>1, <2>2, <2>3, AfterLaunched, AfterFizzled
  <2> QED BY <2>1, <2>2, <2>4, SoundAll
<1>5. CASE ClassicCommit
  <2>1. /\ Moved /\ handle' = handle /\ Sounds /\ state' \in {state, mem, mem'} /\ loc.todo # {}
        /\ Rewritten(Rec.pid, Rec.ver, "running")
    BY <1>5, ClassicCommitEffect DEF Machine, Aside, Unsaved, Placed, AtSlot
  <2> QED BY <2>1, AsideReleased, AfterStatus, SoundAll
<1> QED BY <1>1, <1>2, <1>3, <1>4, <1>5

LEMMA AfterBacked ==
  ASSUME TypeOK, Moved, Released, Sounds, SameSlots(state', mem), WentBack
  PROVE  Sounds'
<1>1. \A t \in Slot : state'.slots[t] = mem.slots[t]
  BY DEF SameSlots
<1>2. After(state')
  BY <1>1, AfterLess
<1>3. mem' = state' \/ mem' = NoFleet
  BY DEF WentBack, Ended
<1> QED BY <1>2, <1>3, AfterEnded DEF Sounds, After

LEMMA SoundRevert ==
  ASSUME TypeOK, Placed, Machine,
         RevertBegin \/ RevertSkip \/ RevertStop \/ RevertLaunch \/ RevertProven \/ RevertSave
         \/ RevertUnproven \/ RevertUndo \/ RevertRecord \/ RecoveryRequired \/ RevertEnd
  PROVE  Sounds'
<1>1. CASE RevertBegin
  <2>1. /\ Moved /\ handle' = handle /\ Sounds
        /\ \/ SameSlots(state', mem) /\ WentBack
           \/ SameSlots(mem', mem) /\ state' = mem'
           \/ state' = state /\ mem' = NoFleet
    BY <1>1, RevertBeginEffect DEF Machine, Unsaved, GaveUp, Ended
  <2>2. Released
    BY <2>1, AsideReleased
  <2>3. CASE SameSlots(mem', mem) /\ state' = mem'
    <3>1. \A t \in Slot : mem'.slots[t] = mem.slots[t]
      BY <2>3 DEF SameSlots
    <3> QED BY <2>1, <2>2, <2>3, <3>1, AfterLess, SoundAll
  <2> QED BY <2>1, <2>2, <2>3, AfterBacked, AfterEnded, SoundAll
<1>2. CASE RevertSkip \/ RevertUnproven \/ RevertSave \/ RevertRecord
  <2>1. Moved /\ handle' = handle /\ Sounds /\ state' \in {state, mem, mem'} /\ (mem' = mem \/ mem' = NoFleet)
    BY <1>2, RevertSkipEffect, UnprovenEffect, RevertSaveEffect, RevertRecordEffect
       DEF Machine, Aside, Unsaved, GaveUp, Ended
  <2> QED BY <2>1, AsideReleased, AfterSame, AfterEnded, SoundAll
<1>3. CASE RevertStop
  <2>1. /\ Moved /\ handle' = handle /\ Sounds /\ state' \in {state, mem, mem'} /\ loc.todo # {}
        /\ \/ mem' = mem \/ mem' = NoFleet
           \/ Rewritten(0, Rec.ver, "stopped") \/ Rewritten(0, Rec.ver, Rec.status)
    BY <1>3, RevertStopEffect DEF Machine, Aside, Unsaved, GaveUp, Ended, Placed, AtSlot
  <2> QED BY <2>1, AsideReleased, AfterSame, AfterEnded, AfterNoPid, SoundAll
<1>4. CASE RevertLaunch
  <2>1. /\ Moved /\ handle' = handle /\ pc = "revertLaunch" /\ Sounds
        /\ \/ Starts(mem.from[Cur]) /\ Relaunched(mem', mem, Cur, mem.from[Cur]) /\ state' = mem'
           \/ Fizzled(mem.from[Cur]) /\ PutBack(mem'.slots[Cur])
    BY <1>4, RevertLaunchEffect DEF Machine, Aside
  <2>2. Released /\ loc.todo # {} /\ state' \in {state, mem, mem'} /\ Rec.pid \notin running
    BY <2>1, AsideReleased DEF Placed, AtSlot, Fizzled, Unsaved, Machine, Relaunching
  <2>4. After(mem')
    BY <2>1, <2>2, AfterLaunched, AfterFizzled
  <2> QED BY <2>1, <2>2, <2>4, SoundAll
<1>5. CASE RevertProven
  <2>1. /\ Moved /\ handle' = handle /\ Sounds /\ state' \in {state, mem, mem'} /\ loc.todo # {}
        /\ Rewritten(Rec.pid, Rec.ver, "running")
    BY <1>5, RevertProvenEffect DEF Machine, Aside, Unsaved, Placed, AtSlot
  <2> QED BY <2>1, AsideReleased, AfterStatus, SoundAll
<1>6. CASE RevertUndo
  <2>1. /\ Moved /\ handle' = handle /\ Sounds /\ state' \in {state, mem, mem'} /\ Rewritten(0, Rec.ver, "stopped")
        /\ loc.todo # {}
    BY <1>6, RevertUndoEffect DEF Machine, Aside, Unsaved, Placed, AtSlot
  <2> QED BY <2>1, AsideReleased, AfterNoPid, SoundAll
<1>7. CASE RecoveryRequired \/ RevertEnd
  <2>1. /\ Moved /\ handle' = handle /\ Sounds
        /\ \/ SameSlots(state', mem) /\ WentBack
           \/ mem' = NoFleet /\ (SameSlots(state', mem) \/ state' = state)
    BY <1>7, RecoveryEffect, RevertEndEffect DEF Machine, Aside, Unsaved, GaveUp, Ended
  <2>2. Released
    BY <2>1, AsideReleased
  <2>3. CASE mem' = NoFleet /\ SameSlots(state', mem)
    <3>1. \A t \in Slot : state'.slots[t] = mem.slots[t]
      BY <2>3 DEF SameSlots
    <3>2. After(state')
      BY <2>1, <2>2, <3>1, AfterLess
    <3> QED BY <2>1, <2>3, <3>2, AfterEnded DEF Sounds, After
  <2> QED BY <2>1, <2>2, <2>3, AfterBacked, AfterEnded, SoundAll
<1> QED BY <1>1, <1>2, <1>3, <1>4, <1>5, <1>6, <1>7

LEMMA SoundPass ==
  ASSUME TypeOK, Placed, Machine,
         PassKeeps \/ PassUnhealthy \/ (\E reaped \in BOOLEAN : PassRelaunch(reaped)) \/ PassEnd
  PROVE  Sounds'
<1>1. CASE PassKeeps
  <2>1. /\ Moved /\ Releases /\ Sounds /\ state' \in {state, mem, mem'} /\ loc.todo # {} /\ pc = "pass"
        /\ Rewritten(Rec.pid, Rec.ver, mem'.slots[Cur].status)
        /\ mem' = mem \/ handle'[Cur] = 0 \/ mem'.slots[Cur].status # "restarting"
    BY <1>1 DEF PassKeeps, Machine, Unsaved, Placed, AtSlot
  <2>2. Released
    BY <2>1, TypesNow DEF Releases, Released
  <2>3. After(mem')
    BY <2>1, <2>2, AfterSame, AfterRewritten
  <2> QED BY <2>1, <2>2, <2>3, SoundAll
<1>2. CASE PassUnhealthy
  <2>1. /\ Moved /\ Releases /\ Sounds /\ state' \in {state, mem, mem'} /\ loc.todo # {} /\ handle'[Cur] = 0
        /\ Rewritten(Rec.pid, Rec.ver, mem'.slots[Cur].status)
    BY <1>2, PassUnhealthyEffect DEF Machine, Unsaved, Placed, AtSlot
  <2>2. Released
    BY <2>1, TypesNow DEF Releases, Released
  <2> QED BY <2>1, <2>2, AfterRewritten, SoundAll
<1>3. CASE \E reaped \in BOOLEAN : PassRelaunch(reaped)
  <2>1. /\ Moved /\ Sounds /\ loc.todo # {} /\ Rec.status = "restarting" /\ (Live(Rec) => handle[Cur] # 0)
        /\ \/ /\ Starts(Rec.ver) /\ Rewritten(launched + 1, Rec.ver, "starting") /\ state' = mem'
              /\ \A t \in Slot : t # Cur => handle'[t] = handle[t]
           \/ /\ running' = running /\ Releases /\ Unsaved
              /\ Rewritten(mem'.slots[Cur].pid, Rec.ver, mem'.slots[Cur].status)
              /\ \/ mem'.slots[Cur].pid = Rec.pid
                 \/ mem'.slots[Cur].pid = launched + 1 /\ launched' = launched + 1
    BY <1>3, PassRelaunchEffect DEF Machine, Placed, AtSlot
  <2>2. Cur \in Slot /\ Sound(mem, running, launched, builtAs, handle)
    BY <2>1, CurIn DEF Sounds
  <2>3. ~Live(Rec)
    BY <2>1, <2>2 DEF Sound, RecOK, Rec, Live
  <2>4. CASE /\ Starts(Rec.ver) /\ Rewritten(launched + 1, Rec.ver, "starting") /\ state' = mem'
             /\ \A t \in Slot : t # Cur => handle'[t] = handle[t]
    <3>1. After(mem')
      BY <2>1, <2>2, <2>4, SoundFresh DEF After, Starts, Rewritten
    <3> QED BY <2>4, <3>1 DEF Sounds, After
  <2>5. CASE /\ running' = running /\ Releases /\ Unsaved
             /\ Rewritten(mem'.slots[Cur].pid, Rec.ver, mem'.slots[Cur].status)
             /\ \/ mem'.slots[Cur].pid = Rec.pid
                \/ mem'.slots[Cur].pid = launched + 1 /\ launched' = launched + 1
    <3>1. Released /\ state' \in {state, mem, mem'}
      BY <2>5, TypesNow DEF Releases, Released, Unsaved
    <3>2. CASE mem'.slots[Cur].pid = Rec.pid
      BY <2>1, <2>3, <2>5, <3>1, <3>2, AfterRewritten, SoundAll DEF Live
    <3>3. CASE mem'.slots[Cur].pid = launched + 1 /\ launched' = launched + 1
      <4>1. launched + 1 \notin running'
        BY <2>5, Zero
      <4>2. After(mem')
        BY <2>1, <2>2, <2>5, <3>1, <3>3, <4>1, SoundFresh DEF After, Rewritten, Released
      <4> QED BY <2>1, <3>1, <4>2, SoundAll
    <3> QED BY <2>5, <3>2, <3>3
  <2> QED BY <2>1, <2>4, <2>5
<1>4. CASE PassEnd
  <2>1. Moved /\ handle' = handle /\ mem' = NoFleet /\ state' \in {state, mem, mem'}
    BY <1>4, PassEndEffect DEF Aside, Ended, Tried, Unsaved
  <2> QED BY <2>1, AsideReleased, AfterEnded, SoundAll DEF Machine
<1> QED BY <1>1, <1>2, <1>3, <1>4

LEMMA SoundOpened ==
  ASSUME TypeOK, Moved, Sounds, NEW to, Opened(to)
  PROVE  Sounds'
<1>1. Released /\ state' = state /\ mem' = state
  BY AsideReleased DEF Opened
<1>2. After(state)
  BY <1>1, SoundMoved DEF Sounds, After
<1> QED BY <1>1, <1>2 DEF Sounds, After

LEMMA SoundElse ==
  ASSUME TypeOK, Placed, Machine,
         DrainRetirements \/ Killed \/ MonitorRestart \/ (\E p \in Proc : Exit(p))
  PROVE  Sounds'
<1>1. CASE DrainRetirements
  <2>1. Moved /\ handle' = handle /\ mem' = mem /\ Sounds /\ (state' = state \/ state'.slots = state.slots)
    BY <1>1, DrainEffect DEF Machine
  <2>2. Released
    BY <2>1, AsideReleased
  <2>3. After(state')
    <3>1. \A t \in Slot : state'.slots[t] = state.slots[t]
      BY <2>1
    <3> QED BY <2>1, <2>2, <3>1, AfterLess
  <2> QED BY <2>1, <2>2, <2>3, AfterSame DEF Sounds, After
<1>2. CASE Killed
  <2>1. Moved /\ handle' = handle /\ mem' = NoFleet /\ Sounds /\ state' = state
    BY <1>2, KilledEffect DEF Machine, Ended
  <2> QED BY <2>1, AsideReleased, AfterEnded, SoundAll
<1>3. CASE MonitorRestart
  <2>1. Moved /\ Sounds /\ state' = state /\ mem' \in {state, NoFleet, mem} /\ \A s \in Slot : handle'[s] = 0
    BY <1>3, MonitorEffect DEF Machine, Ended
  <2>2. Released
    BY <2>1 DEF Released
  <2>3. After(state) /\ After(mem)
    BY <2>1, <2>2, SoundMoved DEF Sounds, After
  <2> QED BY <2>1, <2>3, AfterEnded DEF Sounds, After
<1>4. CASE \E p \in Proc : Exit(p)
  <2>1. Moved /\ Sounds /\ state' = state /\ mem' = mem /\ handle' = handle
    BY <1>4, ExitEffect DEF Machine
  <2> QED BY <2>1, AsideReleased, AfterSame, SoundAll
<1> QED BY <1>1, <1>2, <1>3, <1>4

LEMMA SoundNext ==
  ASSUME TypeOK, Placed, Machine, [Next]_fvars
  PROVE  Sounds'
<1>1. CASE PassLive \/ PassProbe \/ (\E reaped \in BOOLEAN : PassExit(reaped))
           \/ (\E reaped, live \in BOOLEAN : PassOver(reaped, live))
  BY <1>1, PassLiveEffect, PassProbeEffect, PassExitEffect, PassOverEffect, SoundPass
<1>2. CASE BeginPass \/ BeginStart \/ BeginStop \/ BeginRestart \/ BeginDeploy
           \/ (\E n \in 1 .. MaxReplicas : BeginGrow(n)) \/ (\E n \in 1 .. MaxReplicas : BeginShrink(n))
  BY <1>2, BeginPassEffect, BeginLoopEffect, BeginDeployEffect, BeginGrowEffect, BeginShrinkEffect, SoundOpened
     DEF Machine
<1>3. CASE UNCHANGED fvars
  <2>1. state' = state /\ mem' = mem /\ running' = running /\ launched' = launched /\ builtAs' = builtAs
        /\ handle' = handle
    BY <1>3 DEF fvars
  <2> QED BY <2>1 DEF Machine, Sounds
<1>4. Steps \/ UNCHANGED fvars
  BY NextIs
<1> QED BY <1>1, <1>2, <1>3, <1>4, SoundPass, SoundCommand, SoundScale, SoundRoll, SoundPrepare, SoundClassic,
           SoundRevert, SoundElse DEF Steps

\* What the steps under way rely on.
Flow == Replacing /\ Relaunching /\ Draining /\ Launching /\ Growing

FlowPc == {"rollGate", "rollStop", "relaunch", "revertLaunch", "drain", "drainStop", "drainSave",
           "launch", "gate", "gateStop", "grow", "grown"}

LEMMA FlowElse ==
  ASSUME pc' \notin FlowPc
  PROVE  Flow'
BY DEF Flow, Replacing, Relaunching, Draining, Launching, Growing, FlowPc

LEMMA RecKept ==
  ASSUME loc'.todo = loc.todo, mem' = mem
  PROVE  Cur' = Cur /\ Rec' = Rec
BY CurKept DEF Rec

LEMMA RecStays ==
  ASSUME TypeOK, loc.todo # {}, Moved, Released, Sounds
  PROVE  /\ RecOK(Rec, Cur, running, launched, builtAs, handle) /\ Apart(mem, Cur, Rec)
         /\ RecOK(Rec, Cur, running', launched', builtAs', handle')
         /\ (Rec.pid \in running' => Rec.pid \in running)
<1>1. Cur \in Slot /\ RecOK(Rec, Cur, running, launched, builtAs, handle) /\ Apart(mem, Cur, Rec)
  BY CurIn DEF Sounds, Sound, Rec
<1>2. handle'[Cur] \in {0, handle[Cur]}
  BY <1>1 DEF Released
<1> QED BY <1>1, <1>2, RecMoved

LEMMA FlowKept ==
  ASSUME TypeOK, Placed, Machine, Moved, Released, mem' = mem, loc' = loc,
         pc' = pc \/ (pc = "rollGate" /\ pc' = "rollStop") \/ (pc = "gate" /\ pc' = "gateStop")
  PROVE  Flow'
<1>1. Cur' = Cur /\ Rec' = Rec
  BY RecKept
<1>2. Replacing'
  <2> SUFFICES ASSUME pc \in {"rollGate", "rollStop"} PROVE Replacing'
    BY DEF Replacing
  <2>1. /\ RecOK(loc.old, Cur, running, launched, builtAs, handle) /\ Apart(mem, Cur, loc.old)
        /\ Rec.pid # 0 /\ Rec.pid # loc.old.pid /\ Cur \in Slot
    BY CurIn DEF Machine, Replacing, Placed, AtSlot
  <2>2. RecOK(loc.old, Cur, running', launched', builtAs', handle')
    BY <2>1, RecMoved DEF Released
  <2> QED BY <1>1, <2>1, <2>2 DEF Replacing, Apart
<1>3. Relaunching'
  <2> SUFFICES ASSUME pc \in {"relaunch", "revertLaunch"}, pc' = pc PROVE Relaunching'
    BY DEF Relaunching
  <2>1. Rec.pid \notin running /\ loc.todo # {} /\ Sounds
    BY DEF Machine, Relaunching, Placed, AtSlot
  <2> QED BY <1>1, <2>1, RecStays DEF Relaunching
<1>4. Draining' /\ Launching' /\ Growing'
  BY <1>1 DEF Machine, Draining, Launching, Growing
<1> QED BY <1>2, <1>3, <1>4 DEF Flow

LEMMA FlowCommand ==
  ASSUME TypeOK, Placed, Machine,
         RestartSlot \/ Relaunch \/ Restarted \/ GrowSlot \/ Grown
  PROVE  Flow'
<1>1. CASE RestartSlot
  <2>1. /\ Moved /\ handle' = handle /\ pc = "restart" /\ loc.todo # {}
        /\ \/ Ends({Rec.pid}) /\ mem' = mem /\ loc' = loc /\ pc' = "relaunch"
           \/ pc' = "idle"
    BY <1>1, RestartSlotEffect DEF Aside, Ended, Placed, AtSlot
  <2>2. CASE Ends({Rec.pid}) /\ mem' = mem /\ loc' = loc /\ pc' = "relaunch"
    <3>1. Rec' = Rec /\ Rec.pid \notin running'
      BY <2>2, RecKept DEF Ends
    <3> QED BY <2>2, <3>1 DEF Flow, Replacing, Relaunching, Draining, Launching, Growing
  <2> QED BY <2>1, <2>2, FlowElse DEF FlowPc
<1>2. CASE Relaunch \/ Restarted
  <2>1. pc' \in {"idle", "restart", "restarted", "done"}
    BY <1>2, RelaunchEffect, RestartedEffect DEF Ended, Over
  <2> QED BY <2>1, FlowElse DEF FlowPc
<1>3. CASE GrowSlot
  <2>1. /\ pc = "grow"
        /\ \/ GrownTo(loc.target) /\ loc' = loc /\ pc' = "grown"
           \/ pc' = "idle"
    BY <1>3, GrowSlotEffect DEF Ended
  <2>2. CASE GrownTo(loc.target) /\ loc' = loc /\ pc' = "grown"
    <3>1. loc.todo \subseteq 0 .. loc.n - 1 /\ mem'.on = 0 .. loc.n - 1
      BY <2>1, <2>2 DEF Machine, Growing, GrownTo
    <3> QED BY <2>2, <3>1 DEF Flow, Replacing, Relaunching, Draining, Launching, Growing
  <2> QED BY <2>1, <2>2, FlowElse DEF FlowPc
<1>4. CASE Grown
  <2>1. /\ pc = "grown" /\ pc' \in {"grow", "done"} /\ loc'.todo = loc.todo \ {Cur} /\ loc'.n = loc.n
        /\ mem'.on = mem.on
    BY <1>4, GrownEffect DEF Over, Visits, Rewritten, Only
  <2>2. loc'.todo \subseteq 0 .. loc.n - 1 /\ (loc.n > Cardinality(mem.on) \/ mem.on = 0 .. loc.n - 1)
    BY <2>1 DEF Machine, Growing
  <2> QED BY <2>1, <2>2 DEF Flow, Replacing, Relaunching, Draining, Launching, Growing
<1> QED BY <1>1, <1>2, <1>3, <1>4

LEMMA FlowRoll ==
  ASSUME TypeOK, Placed, Machine, RollSlot
  PROVE  Flow'
<1>1. /\ Moved /\ handle' = handle /\ pc = "roll" /\ loc.todo # {}
      /\ \/ /\ Starts(loc.target) /\ Relaunched(mem', mem, Cur, loc.target)
            /\ Visits(loc', loc, loc.todo, Rec) /\ pc' = "rollGate"
         \/ pc' \in {"roll", "promote", "undo"}
  BY RollSlotEffect DEF Aside, Placed, AtSlot, Over
<1>2. CASE /\ Starts(loc.target) /\ Relaunched(mem', mem, Cur, loc.target)
           /\ Visits(loc', loc, loc.todo, Rec) /\ pc' = "rollGate"
  <2>1. Released /\ Sounds /\ launched \in Nat
    BY <1>1, AsideReleased, Zero DEF Machine
  <2>2. /\ RecOK(Rec, Cur, running, launched, builtAs, handle) /\ Apart(mem, Cur, Rec)
        /\ RecOK(Rec, Cur, running', launched', builtAs', handle')
    BY <1>1, <2>1, RecStays
  <2>3. Cur' = Cur /\ loc'.old = Rec
    BY <1>2, CurKept DEF Visits
  <2>4. Rec'.pid = launched + 1 /\ \A t \in Slot : t # Cur => mem'.slots[t] = mem.slots[t]
    BY <1>2, <2>3 DEF Relaunched, Rec
  <2>5. Rec'.pid # 0 /\ Rec'.pid # Rec.pid
    BY <2>1, <2>2, <2>4 DEF RecOK
  <2>6. Apart(mem', Cur, Rec)
    BY <2>2, <2>4 DEF Apart
  <2> QED BY <1>2, <2>2, <2>3, <2>5, <2>6 DEF Flow, Replacing, Relaunching, Draining, Launching, Growing
<1> QED BY <1>1, <1>2, FlowElse DEF FlowPc

LEMMA FlowDrained ==
  ASSUME TypeOK, Placed, Machine, pc \in {"drainStop", "drainSave"}, Drained, mem'.on = mem.on,
         mem'.slots[Cur].pid = 0, \A t \in Slot : t # Cur => mem'.slots[t] = mem.slots[t]
  PROVE  Flow'
<1>1. \A s \in mem.on : s \in loc.todo \ {Cur} \/ mem'.slots[s].pid = 0
  <2>1. mem.on \in SUBSET Slot /\ \A s \in mem.on \ loc.todo : mem.slots[s].pid = 0
    BY TypesNow, FleetFields DEF Machine, Draining
  <2> QED BY <2>1
<1>2. CASE loc.todo = {Cur}
  <2>1. pc' = "launch" /\ loc'.todo = mem.on /\ \A s \in mem.on : mem'.slots[s].pid = 0
    BY <1>1, <1>2 DEF Drained, Visits
  <2> QED BY <2>1 DEF Flow, Replacing, Relaunching, Draining, Launching, Growing
<1>3. CASE loc.todo # {Cur}
  <2>1. pc' = "drain" /\ loc'.todo = loc.todo \ {Cur} /\ \A s \in mem'.on \ loc'.todo : mem'.slots[s].pid = 0
    BY <1>1, <1>3 DEF Drained, Visits
  <2> QED BY <2>1 DEF Flow, Replacing, Relaunching, Draining, Launching, Growing
<1> QED BY <1>2, <1>3

LEMMA FlowClassic ==
  ASSUME TypeOK, Placed, Machine,
         ClassicMark \/ ClassicStop \/ ClassicSave \/ ClassicLaunch \/ ClassicCommit
  PROVE  Flow'
<1>1. CASE ClassicMark
  <2>1. /\ pc = "drain" /\ loc' = loc /\ SameSlots(mem', mem) /\ pc' \in {"drainStop", "revert"}
    BY <1>1, ClassicMarkEffect
  <2>2. \A s \in mem'.on \ loc'.todo : mem'.slots[s].pid = 0
    BY <2>1 DEF Machine, Draining, SameSlots
  <2> QED BY <2>1, <2>2 DEF Flow, Replacing, Relaunching, Draining, Launching, Growing
<1>2. CASE ClassicStop
  <2>1. /\ pc = "drainStop" /\ Rewritten(0, Rec.ver, "stopped") /\ loc.todo # {}
        /\ \/ loc' = loc /\ pc' = "drainSave"
           \/ Drained
    BY <1>2, ClassicStopEffect DEF Placed, AtSlot
  <2>2. mem'.on = mem.on /\ mem'.slots[Cur].pid = 0 /\ \A t \in Slot : t # Cur => mem'.slots[t] = mem.slots[t]
    BY <2>1 DEF Rewritten, Only
  <2>3. CASE loc' = loc /\ pc' = "drainSave"
    <3>1. mem.on \in SUBSET Slot /\ \A s \in mem.on \ loc.todo : mem.slots[s].pid = 0
      BY <2>1, TypesNow, FleetFields DEF Machine, Draining
    <3>2. Cur' = Cur /\ Cur \in loc.todo
      BY <2>1, <2>3, CurKept, CurIn
    <3>3. Rec'.pid = 0 /\ \A s \in mem'.on \ loc'.todo : mem'.slots[s].pid = 0
      BY <2>2, <2>3, <3>1, <3>2 DEF Rec
    <3> QED BY <2>3, <3>3 DEF Flow, Replacing, Relaunching, Draining, Launching, Growing
  <2> QED BY <2>1, <2>2, <2>3, FlowDrained
<1>3. CASE ClassicSave
  <2>1. pc = "drainSave" /\ mem' = mem /\ Drained
    BY <1>3, ClassicSaveEffect
  <2>2. mem.slots[Cur].pid = 0
    BY <2>1 DEF Machine, Draining, Rec
  <2> QED BY <2>1, <2>2, FlowDrained
<1>4. CASE ClassicLaunch
  <2>1. /\ pc = "launch" /\ loc' = loc /\ pc' \in {"gate", "revert"} /\ loc.todo # {}
        /\ \A t \in Slot : t # Cur => mem'.slots[t] = mem.slots[t]
    BY <1>4, ClassicLaunchEffect DEF Relaunched, PutBack, Placed, AtSlot
  <2>2. Cur' = Cur /\ loc.todo \in SUBSET Slot
    BY <2>1, CurKept, TypesNow, LocalFields
  <2>3. \A s \in loc'.todo : s # Cur' => mem'.slots[s].pid = 0
    BY <2>1, <2>2 DEF Machine, Launching
  <2> QED BY <2>1, <2>3 DEF Flow, Replacing, Relaunching, Draining, Launching, Growing
<1>5. CASE ClassicCommit
  <2>1. /\ pc = "gate" /\ Rewritten(Rec.pid, Rec.ver, "running")
        /\ \/ Over("launch", "promote")
           \/ pc' = "revert"
    BY <1>5, ClassicCommitEffect
  <2>2. CASE Over("launch", "promote")
    <3>1. loc.todo \in SUBSET Slot /\ \A s \in loc.todo : s # Cur => mem.slots[s].pid = 0
      BY <2>1, TypesNow, LocalFields DEF Machine, Launching
    <3>2. loc'.todo = loc.todo \ {Cur} /\ \A s \in loc'.todo : mem'.slots[s].pid = 0
      BY <2>1, <2>2, <3>1 DEF Over, Visits, Rewritten
    <3>3. pc' \in {"launch", "promote"}
      BY <2>2 DEF Over
    <3> QED BY <3>2, <3>3 DEF Flow, Replacing, Relaunching, Draining, Launching, Growing
  <2> QED BY <2>1, <2>2, FlowElse DEF FlowPc
<1> QED BY <1>1, <1>2, <1>3, <1>4, <1>5

LEMMA FlowBuild ==
  ASSUME TypeOK, Placed, NEW v \in Ver \ {0}, Build(v)
  PROVE  Flow'
<1>1. pc' \in {"roll", "idle"} \/ (pc' = "drain" /\ mem'.on = loc'.todo)
  BY BuildEffect DEF Ended, SameSlots
<1> QED BY <1>1 DEF Flow, Replacing, Relaunching, Draining, Launching, Growing

LEMMA FlowRevert ==
  ASSUME TypeOK, Placed, Machine, RevertStop
  PROVE  Flow'
<1>1. /\ pc = "revertSlot" /\ loc.todo # {}
      /\ \/ /\ Ends({Rec.pid}) /\ loc' = loc /\ pc' = "revertLaunch"
            /\ Rewritten(0, Rec.ver, Rec.status) \/ (~Live(Rec) /\ mem' = mem)
         \/ pc' \in {"revertSave", "recovery", "idle"}
  BY RevertStopEffect DEF GaveUp, Ended, Placed, AtSlot
<1>2. CASE /\ Ends({Rec.pid}) /\ loc' = loc /\ pc' = "revertLaunch"
           /\ Rewritten(0, Rec.ver, Rec.status) \/ (~Live(Rec) /\ mem' = mem)
  <2>1. Cur' = Cur /\ 0 \notin running
    BY <1>2, CurKept, Zero
  <2>2. Rec'.pid \notin running'
    BY <1>2, <2>1 DEF Rewritten, Ends, Rec
  <2> QED BY <1>2, <2>2 DEF Flow, Replacing, Relaunching, Draining, Launching, Growing
<1> QED BY <1>1, <1>2, FlowElse DEF FlowPc

LEMMA FlowNext ==
  ASSUME TypeOK, Placed, Machine, [Next]_fvars
  PROVE  Flow'
<1>1. CASE BeginPass \/ BeginStart \/ BeginStop \/ BeginRestart \/ BeginDeploy
           \/ (\E n \in 1 .. MaxReplicas : BeginShrink(n))
  <2>1. pc' \in {"pass", "start", "stop", "restart", "deploy", "shrink"}
    BY <1>1, BeginPassEffect, BeginLoopEffect, BeginDeployEffect, BeginShrinkEffect DEF Opened
  <2> QED BY <2>1, FlowElse DEF FlowPc
<1>2. CASE \E n \in 1 .. MaxReplicas : BeginGrow(n)
  <2>1. PICK n \in 1 .. MaxReplicas : BeginGrow(n)
    BY <1>2
  <2>2. /\ mem' = state /\ pc' = "grow" /\ loc'.n = n /\ loc'.todo = Cardinality(state.on) .. n - 1
        /\ n > Cardinality(state.on)
    BY <2>1, BeginGrowEffect DEF Opened
  <2>3. Cardinality(state.on) \in Nat /\ n \in Nat
    BY OnFinite, BoundsAssumption
  <2>4. loc'.todo \subseteq 0 .. loc'.n - 1 /\ loc'.n > Cardinality(mem'.on)
    BY <2>2, <2>3
  <2> QED BY <2>2, <2>4 DEF Flow, Replacing, Relaunching, Draining, Launching, Growing
<1>3. CASE PassLive \/ PassProbe \/ PassUnhealthy \/ PassEnd \/ (\E reaped \in BOOLEAN : PassExit(reaped))
           \/ (\E reaped \in BOOLEAN : PassRelaunch(reaped))
           \/ (\E reaped, live \in BOOLEAN : PassOver(reaped, live))
  <2>1. pc' \in {"pass", "passed", "idle"}
    BY <1>3, PassLiveEffect, PassProbeEffect, PassUnhealthyEffect, PassEndEffect, PassExitEffect,
       PassRelaunchEffect, PassOverEffect DEF PassKeeps, Onward, Ended
  <2> QED BY <2>1, FlowElse DEF FlowPc
<1>4. CASE StartSlot \/ StartWait \/ StopSlot \/ StopSave \/ StopEnd \/ ShrinkStop \/ ShrinkEnd \/ CommandEnd
  <2>1. pc' \in {"start", "startWait", "stop", "stopSave", "halted", "done", "idle", "shrink"}
    BY <1>4, StartSlotEffect, StartWaitEffect, StopSlotEffect, StopSaveEffect, StopEndEffect,
       ShrinkStopEffect, ShrinkEndEffect, CommandEndEffect DEF Over, Ended
  <2> QED BY <2>1, FlowElse DEF FlowPc
<1>5. CASE DeployLoad \/ Prepare \/ RollCommit \/ RollStop \/ RollBack \/ RollRetire \/ RollDrain \/ Undo
           \/ ClassicUnlaunch \/ Promote
  <2>1. pc' \in {"revert", "prepare", "build", "rollDrain", "rollBack", "undo", "rollRetire", "roll", "promote",
                 "idle"}
    BY <1>5, DeployLoadEffect, PrepareEffect, RollCommitEffect, RollStopEffect, RollBackEffect,
       RollRetireEffect, RollDrainEffect, UndoEffect, ClassicUnlaunchEffect, PromoteEffect DEF Over, Ended
  <2> QED BY <2>1, FlowElse DEF FlowPc
<1>6. CASE RevertBegin \/ RevertSkip \/ RevertLaunch \/ RevertProven \/ RevertSave \/ RevertUnproven
           \/ RevertUndo \/ RevertRecord \/ RecoveryRequired \/ RevertEnd
  <2>1. pc' \in {"idle", "prepare", "revertSlot", "revertEnd", "revertGate", "recovery", "revertSave",
                 "revertUndo", "revertRecord"}
    BY <1>6, RevertBeginEffect, RevertSkipEffect, RevertLaunchEffect, RevertProvenEffect, RevertSaveEffect,
       UnprovenEffect, RevertUndoEffect, RevertRecordEffect, RecoveryEffect, RevertEndEffect
       DEF WentBack, GaveUp, Ended, Over
  <2> QED BY <2>1, FlowElse DEF FlowPc
<1>7. CASE RollUnproven \/ ClassicUnproven
  <2>1. /\ Moved /\ handle' = handle /\ mem' = mem /\ loc' = loc
        /\ (pc = "rollGate" /\ pc' = "rollStop") \/ (pc = "gate" /\ pc' = "gateStop")
    BY <1>7, UnprovenEffect DEF Aside
  <2> QED BY <2>1, AsideReleased, FlowKept
<1>8. CASE DrainRetirements \/ Killed
  <2>1. pc' = "idle"
    BY <1>8, DrainEffect, KilledEffect DEF Ended
  <2> QED BY <2>1, FlowElse DEF FlowPc
<1>9. CASE MonitorRestart
  <2>1. /\ Moved /\ \A s \in Slot : handle'[s] = 0
        /\ pc' \in {"revert", "idle"} \/ (pc' = pc /\ mem' = mem /\ loc' = loc)
    BY <1>9, MonitorEffect DEF Ended
  <2>2. Released
    BY <2>1 DEF Released
  <2> QED BY <2>1, <2>2, FlowElse, FlowKept DEF FlowPc
<1>10. CASE \E p \in Proc : Exit(p)
  <2>1. Moved /\ handle' = handle /\ mem' = mem /\ loc' = loc /\ pc' = pc
    BY <1>10, ExitEffect
  <2> QED BY <2>1, AsideReleased, FlowKept
<1>11. CASE UNCHANGED fvars
  <2>1. /\ handle' = handle /\ mem' = mem /\ loc' = loc /\ pc' = pc /\ running' = running
        /\ launched' = launched /\ builtAs' = builtAs
    BY <1>11 DEF fvars
  <2> QED BY <2>1 DEF Machine, Flow, Replacing, Relaunching, Draining, Launching, Growing, Rec, Cur, Apart
<1>12. CASE \E v \in Ver \ {0} : Build(v)
  BY <1>12, FlowBuild
<1>13. Steps \/ UNCHANGED fvars
  BY NextIs
<1> QED BY <1>1, <1>2, <1>3, <1>4, <1>5, <1>6, <1>7, <1>8, <1>9, <1>10, <1>11, <1>12, <1>13, FlowCommand,
           FlowRoll, FlowClassic, FlowRevert DEF Steps

LEMMA MachineInit ==
  ASSUME Init
  PROVE  Machine
<1>1. PICK n \in 0 .. MaxReplicas :
        /\ launched = n /\ running = 1 .. n
        /\ builtAs = [p \in Proc |-> IF p <= n THEN 1 ELSE 0]
        /\ state = IF n = 0 THEN NoFleet
                   ELSE [NoFleet EXCEPT !.on = 0 .. n - 1, !.active = 1, !.roll = "done",
                           !.slots = [s \in Slot |-> IF s < n THEN [pid |-> s + 1, ver |-> 1,
                                        status |-> "running", count |-> 0] ELSE NoRec]]
        /\ pc = "idle" /\ mem = NoFleet
  BY DEF Init
<1>2. n \in Nat /\ 0 \notin running /\ n <= MaxProcs /\ MaxReplicas \in Nat /\ MaxProcs \in Nat
  BY <1>1, BoundsAssumption
<1>3. Sound(NoFleet, running, launched, builtAs, handle)
  BY <1>1, <1>2, SoundEmpty
<1>4. CASE n # 0
  <2>1. \A s \in Slot : state.slots[s] = IF s < n THEN [pid |-> s + 1, ver |-> 1, status |-> "running",
                                                        count |-> 0] ELSE NoRec
    BY <1>1, <1>4 DEF NoFleet
  <2>2. \A s \in Slot : /\ s < n => /\ state.slots[s].pid = s + 1 /\ state.slots[s].ver = 1
                                    /\ state.slots[s].status = "running"
                        /\ ~(s < n) => state.slots[s].pid = 0
    <3> DEFINE r(s) == [pid |-> s + 1, ver |-> 1, status |-> "running", count |-> 0]
    <3>1. \A s \in Slot : r(s).pid = s + 1 /\ r(s).ver = 1 /\ r(s).status = "running"
      OBVIOUS
    <3>2. \A s \in Slot : state.slots[s] = IF s < n THEN r(s) ELSE NoRec
      BY <2>1
    <3> HIDE DEF r
    <3> QED BY <3>1, <3>2, NoRecFacts
  <2>3. ASSUME NEW s \in Slot PROVE RecOK(state.slots[s], s, running, launched, builtAs, handle)
    <3>1. s \in Nat
      BY <1>2 DEF Slot
    <3>2. CASE s < n
      <4>1. s + 1 \in 1 .. n /\ s + 1 \in Proc
        BY <1>2, <3>1, <3>2 DEF Proc
      <4>2. builtAs[s + 1] = 1
        BY <1>1, <4>1
      <4> QED BY <1>1, <1>2, <2>2, <3>2, <4>1, <4>2 DEF RecOK
    <3>3. CASE ~(s < n)
      BY <1>1, <1>2, <2>2, <3>3 DEF RecOK
    <3> QED BY <3>2, <3>3
  <2>4. ASSUME NEW s \in Slot, NEW t \in Slot, t # s, state.slots[s].pid # 0
        PROVE  state.slots[t].pid # state.slots[s].pid
    <3>1. s \in Nat /\ t \in Nat
      BY <1>2 DEF Slot
    <3>2. s < n /\ state.slots[s].pid = s + 1
      BY <2>2, <2>4
    <3> QED BY <2>2, <2>4, <3>1, <3>2
  <2>5. Sound(state, running, launched, builtAs, handle)
    BY <2>3, <2>4 DEF Sound, Apart
  <2> QED BY <1>1, <1>3, <2>5 DEF Machine, Sounds, Replacing, Relaunching, Draining, Launching, Growing
<1>5. CASE n = 0
  BY <1>1, <1>3, <1>5 DEF Machine, Sounds, Replacing, Relaunching, Draining, Launching, Growing
<1> QED BY <1>4, <1>5

LEMMA MachineNext ==
  ASSUME TypeOK, Placed, Machine, [Next]_fvars
  PROVE  Machine'
BY SoundNext, FlowNext DEF Machine, Flow

-----------------------------------------------------------------------------
(* Every live process is accounted for.                                    *)

\* The process a rolling replacement has put aside: the record in memory no longer names it,
\* or the journal on disk does not.
Beside(q, l) == IF q \in {"rollGate", "rollStop", "rollDrain"} THEN {l.old.pid} ELSE {}

BesideDisk(q, l) ==
  IF q \in {"rollGate", "rollStop", "rollDrain", "undo", "rollBack"} THEN {l.old.pid} ELSE {}

Covers(j, R, A) == R \subseteq Recorded(j) \cup A

MemCovered == pc # "idle" => Covers(mem, running, astray \cup Beside(pc, loc))

\* A revert that begins after an undo that could not be recorded stores the record itself.
DiskCovered == \/ Covers(state, running, astray \cup BesideDisk(pc, loc))
               \/ pc = "revert" /\ unsaved = TRUE /\ loc.after = "fail"

\* Shrinking stops what it is to forget.
Shrinking ==
  pc = "shrink" => \A s \in mem.on : s >= loc.n => \/ mem.slots[s].pid \in loc.surplus
                                                   \/ mem.slots[s].pid \notin running

\* The loop visits replicas of the set.
Visiting == pc \in {"pass", "roll", "rollGate", "rollStop", "rollDrain"} => loc.todo \subseteq mem.on

Covered == lostHolder = FALSE => MemCovered /\ DiskCovered /\ Shrinking

\* Nothing starts, and nobody astray is forgotten.
Calm == running' \subseteq running /\ astray \subseteq astray'

Covers2(j, A) == Covers(j, running', astray' \cup A)

LEMMA CoveredNext ==
  ASSUME pc' # "idle" => Covers2(mem', {}), Covers2(state', {}), pc' # "shrink"
  PROVE  MemCovered' /\ DiskCovered' /\ Shrinking'
BY DEF Covers2, Covers, MemCovered, DiskCovered, Shrinking

LEMMA CoversCalm ==
  ASSUME Calm, NEW j, NEW A, Covers(j, running, astray \cup A)
  PROVE  Covers2(j, A)
BY DEF Calm, Covers, Covers2

LEMMA RecordedSame ==
  ASSUME NEW j, NEW k, SameSlots(k, j)
  PROVE  Recorded(k) = Recorded(j)
BY DEF SameSlots, Recorded

LEMMA CoversSame ==
  ASSUME NEW j, NEW k, SameSlots(k, j), NEW R, NEW A, Covers(j, R, A)
  PROVE  Covers(k, R, A)
BY RecordedSame DEF Covers

\* A record that keeps its process, or whose process has ended or is astray.
LEMMA RecordedPut ==
  ASSUME TypeOK, loc.todo # {}, mem.on \subseteq mem'.on, mem.retiring \subseteq mem'.retiring,
         \A t \in Slot : t # Cur => mem'.slots[t] = mem.slots[t]
  PROVE  /\ Recorded(mem) \subseteq Recorded(mem') \cup {Rec.pid}
         /\ mem'.slots[Cur].pid = Rec.pid => Recorded(mem) \subseteq Recorded(mem')
<1>1. Cur \in Slot /\ mem.on \in SUBSET Slot
  BY CurIn, TypesNow, FleetFields
<1>2. \A s \in mem.on : s \in mem'.on /\ (s # Cur => mem'.slots[s].pid = mem.slots[s].pid)
  BY <1>1
<1>3. ASSUME NEW p \in Recorded(mem), p \notin Recorded(mem')
      PROVE  p = Rec.pid /\ mem'.slots[Cur].pid # Rec.pid
  <2>1. PICK s \in mem.on : p = mem.slots[s].pid /\ p # 0
    BY <1>3 DEF Recorded
  <2>2. s = Cur
    BY <1>2, <1>3, <2>1 DEF Recorded
  <2> QED BY <1>2, <1>3, <2>1, <2>2 DEF Rec, Recorded
<1> QED BY <1>3

LEMMA CoversRewritten ==
  ASSUME TypeOK, loc.todo # {}, NEW p, NEW v, NEW st, Rewritten(p, v, st), Calm, NEW A,
         Covers(mem, running, astray \cup A),
         p = Rec.pid \/ Rec.pid \notin running' \/ Rec.pid \in astray'
  PROVE  Covers2(mem', A)
<1>1. /\ mem'.slots[Cur].pid = p /\ mem'.on = mem.on /\ mem'.retiring = mem.retiring
      /\ \A t \in Slot : t # Cur => mem'.slots[t] = mem.slots[t]
  BY DEF Rewritten, Only
<1>2. /\ Recorded(mem) \subseteq Recorded(mem') \cup {Rec.pid}
      /\ p = Rec.pid => Recorded(mem) \subseteq Recorded(mem')
  BY <1>1, RecordedPut
<1> QED BY <1>2 DEF Covers, Covers2, Calm

LEMMA CoversLaunched ==
  ASSUME TypeOK, loc.todo # {}, NEW v, Starts(v), Relaunched(mem', mem, Cur, v), astray' = astray, NEW A,
         Covers(mem, running, astray), Rec.pid \notin running \/ Rec.pid \in A
  PROVE  Covers2(mem', A)
<1>1. /\ mem'.slots[Cur].pid = launched + 1 /\ mem'.on = mem.on \cup {Cur} /\ mem'.retiring = mem.retiring
      /\ \A t \in Slot : t # Cur => mem'.slots[t] = mem.slots[t]
  BY DEF Relaunched
<1>2. Recorded(mem) \subseteq Recorded(mem') \cup {Rec.pid}
  BY <1>1, RecordedPut
<1>3. launched + 1 # 0
  BY Zero
<1>4. launched + 1 \in Recorded(mem')
  BY <1>1, <1>3 DEF Recorded
<1> QED BY <1>2, <1>4 DEF Covers, Covers2, Starts

\* What is covered before a step that is not part of a rolling replacement.
LEMMA CoveredNow ==
  ASSUME Covered, lostHolder = FALSE, pc # "idle",
         pc \notin {"rollGate", "rollStop", "rollDrain", "undo", "rollBack", "revert"}
  PROVE  Covers(mem, running, astray) /\ Covers(state, running, astray)
BY DEF Covered, MemCovered, DiskCovered, Beside, BesideDisk, Covers

LEMMA CoversStep ==
  ASSUME Calm, NEW j, Covers(j, running, astray)
  PROVE  Covers2(j, {})
BY DEF Calm, Covers, Covers2

LEMMA CoveredSaved ==
  ASSUME Calm, Covers(state, running, astray), pc' # "shrink", Covers2(mem', {}),
         state' \in {state, mem'}
  PROVE  MemCovered' /\ DiskCovered' /\ Shrinking'
<1>1. Covers2(state', {})
  BY CoversStep
<1> QED BY <1>1, CoveredNext

LEMMA CoveredEnded ==
  ASSUME Calm, Covers(state, running, astray), pc' = "idle", state' = state
  PROVE  MemCovered' /\ DiskCovered' /\ Shrinking'
<1>1. Covers2(state', {})
  BY CoversStep
<1> QED BY <1>1, CoveredNext

LEMMA CoveredStored ==
  ASSUME Covers2(mem', {}), pc' # "shrink", state' = mem'
  PROVE  MemCovered' /\ DiskCovered' /\ Shrinking'
BY CoveredNext

LEMMA CoveredCommand ==
  ASSUME TypeOK, Placed, Machine, Covered, lostHolder = FALSE,
         StartSlot \/ StartWait \/ StopSlot \/ StopSave \/ StopEnd \/ RestartSlot \/ Relaunch \/ Restarted
         \/ Grown \/ CommandEnd
  PROVE  MemCovered' /\ DiskCovered' /\ Shrinking'
<1>1. CASE StartSlot
  <2>1. /\ pc = "start" /\ astray' = astray /\ pc' # "shrink"
        /\ \/ Calm /\ mem' = mem /\ state' = state
           \/ Calm /\ Rewritten(Rec.pid, Rec.ver, "running") /\ state' \in {state, mem'}
           \/ ~Live(Rec) /\ Starts(Rec.ver) /\ Relaunched(mem', mem, Cur, Rec.ver) /\ state' = mem'
           \/ Calm /\ pc' = "idle" /\ state' = state
    BY <1>1, StartSlotEffect DEF Over, Ended, Tried, Unsaved, Calm, Still
  <2>2. Covers(mem, running, astray) /\ Covers(state, running, astray) /\ loc.todo # {}
    BY <2>1, CoveredNow DEF Placed, AtSlot
  <2>3. CASE Calm /\ mem' = mem /\ state' = state
    BY <2>1, <2>2, <2>3, CoversStep, CoveredSaved
  <2>4. CASE Calm /\ Rewritten(Rec.pid, Rec.ver, "running") /\ state' \in {state, mem'}
    BY <2>1, <2>2, <2>4, CoversRewritten, CoveredSaved
  <2>5. CASE ~Live(Rec) /\ Starts(Rec.ver) /\ Relaunched(mem', mem, Cur, Rec.ver) /\ state' = mem'
    BY <2>1, <2>2, <2>5, CoversLaunched, CoveredStored DEF Live
  <2> QED BY <2>1, <2>2, <2>3, <2>4, <2>5, CoveredEnded
<1>2. CASE StartWait \/ Restarted \/ Grown
  <2>1. /\ pc \in {"startWait", "restarted", "grown"} /\ Calm /\ pc' # "shrink"
        /\ \/ Rewritten(Rec.pid, Rec.ver, "running") /\ state' \in {state, mem'}
           \/ pc' = "idle" /\ state' = state
    BY <1>2, StartWaitEffect, RestartedEffect, GrownEffect DEF Over, Ended, Tried, Unsaved, Calm, Still
  <2>2. Covers(mem, running, astray) /\ Covers(state, running, astray) /\ loc.todo # {}
    BY <2>1, CoveredNow DEF Placed, AtSlot
  <2>3. CASE Rewritten(Rec.pid, Rec.ver, "running") /\ state' \in {state, mem'}
    BY <2>1, <2>2, <2>3, CoversRewritten, CoveredSaved
  <2> QED BY <2>1, <2>2, <2>3, CoveredEnded
<1>3. CASE StopSlot
  <2>1. /\ pc = "stop" /\ Calm /\ pc' # "shrink"
        /\ \/ Rewritten(Rec.pid, Rec.ver, "stopped") /\ state' \in {state, mem'}
           \/ Rewritten(0, Rec.ver, "stopped") /\ Rec.pid \notin running' /\ state' = state
           \/ pc' = "idle" /\ state' = state
    BY <1>3, StopSlotEffect DEF Over, Ended, Tried, Unsaved, Calm, Still, Ends, Strays
  <2>2. Covers(mem, running, astray) /\ Covers(state, running, astray) /\ loc.todo # {}
    BY <2>1, CoveredNow DEF Placed, AtSlot
  <2>3. CASE \/ Rewritten(Rec.pid, Rec.ver, "stopped") /\ state' \in {state, mem'}
             \/ Rewritten(0, Rec.ver, "stopped") /\ Rec.pid \notin running' /\ state' = state
    <3>1. Covers2(mem', {})
      BY <2>1, <2>2, <2>3, CoversRewritten
    <3> QED BY <2>1, <2>2, <2>3, <3>1, CoveredSaved
  <2> QED BY <2>1, <2>2, <2>3, CoveredEnded
<1>4. CASE StopSave \/ StopEnd \/ RestartSlot \/ CommandEnd
  <2>1. /\ pc \in {"stopSave", "halted", "restart", "done"} /\ Calm /\ pc' # "shrink"
        /\ \/ mem' = mem /\ state' \in {state, mem'}
           \/ pc' = "idle" /\ state' = state
    BY <1>4, StopSaveEffect, StopEndEffect, RestartSlotEffect, CommandEndEffect
       DEF Over, Ended, Unsaved, Calm, Still, Ends, Strays
  <2>2. Covers(mem, running, astray) /\ Covers(state, running, astray)
    BY <2>1, CoveredNow
  <2>3. CASE mem' = mem /\ state' \in {state, mem'}
    <3>1. Covers2(mem', {})
      BY <2>1, <2>2, <2>3, CoversStep
    <3> QED BY <2>1, <2>2, <2>3, <3>1, CoveredSaved
  <2> QED BY <2>1, <2>2, <2>3, CoveredEnded
<1>5. CASE Relaunch
  <2>1. /\ pc = "relaunch" /\ astray' = astray /\ pc' # "shrink"
        /\ \/ Starts(Rec.ver) /\ Relaunched(mem', mem, Cur, Rec.ver) /\ state' = mem'
           \/ Calm /\ pc' = "idle" /\ state' = state
    BY <1>5, RelaunchEffect DEF Ended, Unsaved, Calm
  <2>2. Covers(mem, running, astray) /\ Covers(state, running, astray) /\ loc.todo # {} /\ Rec.pid \notin running
    BY <2>1, CoveredNow DEF Placed, AtSlot, Machine, Relaunching
  <2>3. CASE Starts(Rec.ver) /\ Relaunched(mem', mem, Cur, Rec.ver) /\ state' = mem'
    BY <2>1, <2>2, <2>3, CoversLaunched, CoveredStored
  <2> QED BY <2>1, <2>2, <2>3, CoveredEnded
<1> QED BY <1>1, <1>2, <1>3, <1>4, <1>5

LEMMA CoveredScale ==
  ASSUME TypeOK, Placed, Machine, Covered, lostHolder = FALSE, GrowSlot \/ ShrinkStop \/ ShrinkEnd
  PROVE  MemCovered' /\ DiskCovered' /\ Shrinking'
<1>1. CASE GrowSlot
  <2>1. /\ pc = "grow" /\ pc' # "shrink"
        /\ \/ /\ Starts(loc.target) /\ GrownTo(loc.target) /\ state' = mem'
              /\ astray' = astray \cup (running \cap (Recorded(mem) \ Recorded(mem')))
           \/ Calm /\ pc' = "idle" /\ state' = state
    BY <1>1, GrowSlotEffect DEF Ended, Unsaved, Calm
  <2>2. Covers(mem, running, astray) /\ Covers(state, running, astray) /\ loc.todo # {}
    BY <2>1, CoveredNow DEF Placed, AtSlot
  <2>3. CASE /\ Starts(loc.target) /\ GrownTo(loc.target) /\ state' = mem'
             /\ astray' = astray \cup (running \cap (Recorded(mem) \ Recorded(mem')))
    <3>1. Cur \in mem'.on /\ launched + 1 # 0
      <4>1. Cur \in loc.todo /\ loc.todo \subseteq 0 .. loc.n - 1
        BY <2>1, <2>2, CurIn DEF Machine, Growing
      <4>2. mem'.on = 0 .. loc.n - 1
        BY <2>1, <2>3 DEF Machine, Growing, GrownTo
      <4> QED BY <4>1, <4>2, Zero
    <3>2. launched + 1 \in Recorded(mem')
      BY <2>3, <3>1 DEF GrownTo, Recorded
    <3>3. Covers2(mem', {})
      BY <2>2, <2>3, <3>2 DEF Covers, Covers2, Starts
    <3> QED BY <2>1, <2>3, <3>3, CoveredStored
  <2> QED BY <2>1, <2>2, <2>3, CoveredEnded
<1>2. CASE ShrinkStop
  <2>1. /\ pc = "shrink" /\ Calm /\ state' = state
        /\ \/ \E p \in loc.surplus : /\ running' = running \ {p} /\ mem' = mem /\ pc' = pc
                                     /\ loc'.surplus = loc.surplus \ {p} /\ loc'.n = loc.n
           \/ pc' = "idle"
    BY <1>2, ShrinkStopEffect DEF Ended, Unsaved, Calm, Ends, Strays, Still
  <2>2. Covers(mem, running, astray) /\ Covers(state, running, astray)
    BY <2>1, CoveredNow
  <2>3. ASSUME NEW p \in loc.surplus, running' = running \ {p}, mem' = mem, pc' = pc,
               loc'.surplus = loc.surplus \ {p}, loc'.n = loc.n
        PROVE  MemCovered' /\ DiskCovered' /\ Shrinking'
    <3>1. Covers2(mem', {}) /\ Covers2(state', {})
      BY <2>1, <2>2, <2>3, CoversStep
    <3>2. MemCovered' /\ DiskCovered'
      BY <2>1, <2>3, <3>1 DEF MemCovered, DiskCovered, Covers, Covers2
    <3>3. Shrinking'
      BY <2>1, <2>3 DEF Covered, Shrinking
    <3> QED BY <3>2, <3>3
  <2> QED BY <2>1, <2>2, <2>3, CoveredEnded
<1>3. CASE ShrinkEnd
  <2>1. /\ pc = "shrink" /\ Calm /\ loc.surplus = {} /\ pc' = "idle" /\ running' = running /\ astray' = astray
        /\ (state' = Resize(mem, loc.n) \/ state' = state)
    BY <1>3, ShrinkEndEffect DEF Ended, Unsaved, Calm, Still
  <2>2. Covers(mem, running, astray) /\ Covers(state, running, astray)
    BY <2>1, CoveredNow
  <2>3. CASE state' = Resize(mem, loc.n)
    <3>1. loc.n \in 0 .. MaxReplicas /\ mem \in Fleet /\ mem.on \in SUBSET Slot
      BY TypesNow, LocalFields, FleetFields
    <3>2. /\ state'.on = 0 .. loc.n - 1 /\ state'.retiring = mem.retiring
          /\ \A s \in Slot : s < loc.n => s \in state'.on /\ state'.slots[s] = mem.slots[s]
      BY <2>3, <3>1, ResizeFacts DEF Only
    <3>3. \A s \in mem.on : s < loc.n \/ mem.slots[s].pid \notin running
      <4>1. \A s \in Slot : s \in Nat
        BY BoundsAssumption DEF Slot
      <4>2. loc.n \in Nat
        BY <3>1, BoundsAssumption
      <4>3. \A s \in mem.on : s >= loc.n => mem.slots[s].pid \notin running
        BY <2>1 DEF Covered, Shrinking
      <4> QED BY <3>1, <4>1, <4>2, <4>3
    <3>4. running \cap Recorded(mem) \subseteq Recorded(state')
      BY <3>1, <3>2, <3>3 DEF Recorded
    <3>5. Covers2(state', {})
      BY <2>1, <2>2, <3>4 DEF Covers, Covers2
    <3> QED BY <2>1, <3>5, CoveredNext
  <2> QED BY <2>1, <2>2, <2>3, CoveredEnded
<1> QED BY <1>1, <1>2, <1>3

LEMMA CoveredOpened ==
  ASSUME TypeOK, Placed, Covered, lostHolder = FALSE, NEW to, Opened(to), to # "idle",
         to = "shrink" => Shrinking'
  PROVE  MemCovered' /\ DiskCovered' /\ Shrinking'
<1>1. Calm /\ state' = state /\ mem' = state /\ pc = "idle" /\ pc' = to
  BY DEF Opened, Calm, Still
<1>2. Covers(state, running, astray)
  BY <1>1 DEF Covered, DiskCovered, BesideDisk, Covers
<1>3. Covers2(mem', {}) /\ Covers2(state', {})
  BY <1>1, <1>2, CoversStep
<1>4. MemCovered' /\ DiskCovered'
  BY <1>3 DEF MemCovered, DiskCovered, Covers, Covers2
<1>5. to # "shrink" => Shrinking'
  BY <1>1 DEF Shrinking
<1> QED BY <1>4, <1>5

LEMMA ShrinkBegun ==
  ASSUME TypeOK, NEW n \in 1 .. MaxReplicas, BeginShrink(n)
  PROVE  Shrinking'
<1>1. /\ mem' = state /\ loc'.n = n /\ running' = running
      /\ loc'.surplus = {state.slots[s].pid : s \in {t \in state.on : t >= n}} \ {0}
  BY BeginShrinkEffect DEF Opened, Still
<1>2. 0 \notin running
  BY Zero
<1>3. \A s \in state.on : s >= n => state.slots[s].pid \in loc'.surplus \/ state.slots[s].pid = 0
  BY <1>1
<1> QED BY <1>1, <1>2, <1>3 DEF Shrinking

LEMMA CoveredPass ==
  ASSUME TypeOK, Placed, Machine, Visiting, Covered, lostHolder = FALSE,
         PassKeeps \/ PassUnhealthy \/ (\E reaped \in BOOLEAN : PassRelaunch(reaped)) \/ PassEnd
  PROVE  MemCovered' /\ DiskCovered' /\ Shrinking'
<1>1. CASE PassKeeps \/ PassUnhealthy
  <2>1. /\ pc = "pass" /\ pc' # "shrink" /\ Calm /\ state' = state
        /\ Rewritten(Rec.pid, Rec.ver, mem'.slots[Cur].status)
    BY <1>1, PassUnhealthyEffect DEF PassKeeps, Onward, Unsaved, Calm, Ends, Strays, Still
  <2>2. Covers(mem, running, astray) /\ Covers(state, running, astray) /\ loc.todo # {}
    BY <2>1, CoveredNow DEF Placed, AtSlot
  <2>3. Covers2(mem', {})
    BY <2>1, <2>2, CoversRewritten
  <2> QED BY <2>1, <2>2, <2>3, CoveredSaved
<1>2. CASE \E reaped \in BOOLEAN : PassRelaunch(reaped)
  <2>1. /\ pc = "pass" /\ pc' # "shrink" /\ astray' = astray /\ loc.todo # {}
        /\ Rec.status = "restarting" /\ (Live(Rec) => handle[Cur] # 0)
        /\ \/ Starts(Rec.ver) /\ Rewritten(launched + 1, Rec.ver, "starting") /\ state' = mem'
           \/ /\ running' = running /\ state' = state
              /\ Rewritten(mem'.slots[Cur].pid, Rec.ver, mem'.slots[Cur].status)
    BY <1>2, PassRelaunchEffect DEF Onward, Unsaved, Placed, AtSlot
  <2>2. Covers(mem, running, astray) /\ Covers(state, running, astray)
    BY <2>1, CoveredNow
  <2>3. Cur \in Slot /\ Cur \in mem.on /\ Sound(mem, running, launched, builtAs, handle)
    BY <2>1, CurIn DEF Visiting, Machine, Sounds
  <2>4. Rec.pid \notin running
    BY <2>1, <2>3 DEF Sound, RecOK, Rec, Live
  <2>5. CASE Starts(Rec.ver) /\ Rewritten(launched + 1, Rec.ver, "starting") /\ state' = mem'
    <3>1. /\ mem'.slots[Cur].pid = launched + 1 /\ mem'.on = mem.on /\ mem'.retiring = mem.retiring
          /\ \A t \in Slot : t # Cur => mem'.slots[t] = mem.slots[t]
      BY <2>5 DEF Rewritten, Only
    <3>2. Recorded(mem) \subseteq Recorded(mem') \cup {Rec.pid}
      BY <2>1, <3>1, RecordedPut
    <3>3. launched + 1 # 0
      BY Zero
    <3>4. launched + 1 \in Recorded(mem')
      BY <2>3, <3>1, <3>3 DEF Recorded
    <3>5. Covers2(mem', {})
      BY <2>1, <2>2, <2>4, <2>5, <3>2, <3>4 DEF Covers, Covers2, Starts
    <3> QED BY <2>1, <2>5, <3>5, CoveredStored
  <2>6. CASE /\ running' = running /\ state' = state
             /\ Rewritten(mem'.slots[Cur].pid, Rec.ver, mem'.slots[Cur].status)
    <3>1. Calm /\ Rec.pid \notin running'
      BY <2>1, <2>4, <2>6 DEF Calm
    <3>2. Covers2(mem', {})
      BY <2>1, <2>2, <2>6, <3>1, CoversRewritten
    <3> QED BY <2>1, <2>2, <2>6, <3>1, <3>2, CoveredSaved
  <2> QED BY <2>1, <2>5, <2>6
<1>3. CASE PassEnd
  <2>1. pc = "passed" /\ Calm /\ pc' = "idle" /\ state' \in {state, mem}
    BY <1>3, PassEndEffect DEF Ended, Tried, Unsaved, Calm, Still
  <2>2. Covers(mem, running, astray) /\ Covers(state, running, astray)
    BY <2>1, CoveredNow
  <2>3. Covers2(state', {})
    BY <2>1, <2>2, CoversStep
  <2> QED BY <2>1, <2>3, CoveredNext
<1> QED BY <1>1, <1>2, <1>3

LEMMA CoveredPrepare ==
  ASSUME TypeOK, Placed, Covered, lostHolder = FALSE,
         DeployLoad \/ Prepare \/ (\E v \in Ver \ {0} : Build(v)) \/ Promote
  PROVE  MemCovered' /\ DiskCovered' /\ Shrinking'
<1>1. CASE DeployLoad
  <2>1. pc = "deploy" /\ Calm /\ pc' # "shrink" /\ mem' = mem /\ state' = state
    BY <1>1, DeployLoadEffect DEF Unsaved, Calm, Still
  <2>2. Covers(mem, running, astray) /\ Covers(state, running, astray)
    BY <2>1, CoveredNow
  <2> QED BY <2>1, <2>2, CoversStep, CoveredSaved
<1>2. CASE Prepare
  <2>1. /\ pc = "prepare" /\ pc' # "shrink" /\ Prepared /\ state' = state
        /\ \E P : /\ Extra(P)
                  /\ \/ running' = running \ P /\ astray' = astray
                     \/ \E p \in P : running' = running \ (P \ {p}) /\ astray' = astray \cup {p}
    BY <1>2, PrepareEffect DEF Unsaved
  <2>2. Covers(mem, running, astray) /\ Covers(state, running, astray)
    BY <2>1, CoveredNow
  <2>3. PICK P : /\ Extra(P)
                 /\ \/ running' = running \ P /\ astray' = astray
                    \/ \E p \in P : running' = running \ (P \ {p}) /\ astray' = astray \cup {p}
    BY <2>1
  <2>4. Calm /\ running' \cap P \subseteq astray'
    BY <2>3 DEF Calm
  <2>5. mem.on \in SUBSET Slot /\ loc.n \in Nat /\ \A s \in Slot : s \in Nat
    BY TypesNow, FleetFields, LocalFields, BoundsAssumption DEF Slot
  <2>6. \A s \in mem.on : s < loc.n => s \in mem'.on
    BY <2>1, <2>5 DEF Prepared
  <2>7. ASSUME NEW p \in running', p \in Recorded(mem) PROVE p \in Recorded(mem') \cup astray'
    <3>1. p \in running /\ p # 0
      BY <2>4, <2>7, Zero DEF Calm
    <3>2. CASE p \in mem.retiring
      BY <2>1, <3>2 DEF Prepared, Recorded
    <3>3. CASE \E s \in mem.on : p = mem.slots[s].pid
      <4>1. PICK s \in mem.on : p = mem.slots[s].pid
        BY <3>3
      <4>2. CASE s < loc.n
        <5>1. s \in mem'.on /\ mem'.slots[s] = mem.slots[s]
          BY <2>1, <2>5, <2>6, <3>1, <4>1, <4>2 DEF Prepared, Live
        <5> QED BY <3>1, <4>1, <5>1 DEF Recorded
      <4>3. CASE ~(s < loc.n)
        <5>1. s >= loc.n
          BY <2>5, <4>3
        <5>2. p \in P
          BY <2>3, <3>1, <4>1, <5>1 DEF Extra, Live
        <5> QED BY <2>4, <2>7, <5>2
      <4> QED BY <4>2, <4>3
    <3> QED BY <2>7, <3>2, <3>3 DEF Recorded
  <2>8. Covers2(mem', {})
    BY <2>2, <2>4, <2>7 DEF Covers, Covers2, Calm
  <2> QED BY <2>1, <2>2, <2>4, <2>8, CoveredSaved
<1>3. CASE \E v \in Ver \ {0} : Build(v)
  <2>1. /\ pc = "build" /\ Calm /\ pc' # "shrink"
        /\ \/ SameSlots(mem', mem) /\ state' = mem'
           \/ pc' = "idle" /\ (state' = state \/ SameSlots(state', mem))
    BY <1>3, BuildEffect DEF Ended, Calm, Still
  <2>2. Covers(mem, running, astray) /\ Covers(state, running, astray)
    BY <2>1, CoveredNow
  <2>3. CASE SameSlots(mem', mem) /\ state' = mem'
    <3>1. Covers2(mem', {})
      BY <2>1, <2>2, <2>3, CoversSame, CoversStep
    <3> QED BY <2>1, <2>3, <3>1, CoveredStored
  <2>4. CASE pc' = "idle" /\ (state' = state \/ SameSlots(state', mem))
    <3>1. Covers2(state', {})
      BY <2>1, <2>2, <2>4, CoversSame, CoversStep
    <3> QED BY <2>1, <2>4, <3>1, CoveredNext
  <2> QED BY <2>1, <2>3, <2>4
<1>4. CASE Promote
  <2>1. pc = "promote" /\ Calm /\ pc' = "idle" /\ (state' = state \/ SameSlots(state', mem))
    BY <1>4, PromoteEffect DEF Ended, Unsaved, Calm, Still
  <2>2. Covers(mem, running, astray) /\ Covers(state, running, astray)
    BY <2>1, CoveredNow
  <2>3. Covers2(state', {})
    BY <2>1, <2>2, CoversSame, CoversStep
  <2> QED BY <2>1, <2>3, CoveredNext
<1> QED BY <1>1, <1>2, <1>3, <1>4

LEMMA CoveredRoll ==
  ASSUME TypeOK, Placed, Machine, Visiting, Covered, lostHolder = FALSE,
         RollSlot \/ RollCommit \/ RollUnproven \/ RollStop \/ RollBack \/ RollRetire \/ RollDrain \/ Undo
  PROVE  MemCovered' /\ DiskCovered' /\ Shrinking'
<1>1. CASE RollSlot
  <2>1. /\ pc = "roll" /\ astray' = astray /\ pc' # "shrink" /\ loc.todo # {}
        /\ \/ mem' = mem /\ Calm /\ state' = state
           \/ /\ Starts(loc.target) /\ Relaunched(mem', mem, Cur, loc.target) /\ state' = mem'
              /\ loc'.old = Rec /\ pc' = "rollGate"
    BY <1>1, RollSlotEffect DEF Over, Visits, Unsaved, Still, Calm, Placed, AtSlot
  <2>2. Covers(mem, running, astray) /\ Covers(state, running, astray)
    BY <2>1, CoveredNow
  <2>3. CASE mem' = mem /\ Calm /\ state' = state
    BY <2>1, <2>2, <2>3, CoversStep, CoveredSaved
  <2>4. CASE /\ Starts(loc.target) /\ Relaunched(mem', mem, Cur, loc.target) /\ state' = mem'
             /\ loc'.old = Rec /\ pc' = "rollGate"
    <3>1. Covers2(mem', {Rec.pid})
      BY <2>1, <2>2, <2>4, CoversLaunched
    <3> QED BY <2>4, <3>1 DEF MemCovered, DiskCovered, Shrinking, Covers, Covers2, Beside, BesideDisk
  <2> QED BY <2>1, <2>3, <2>4
<1>2. CASE RollCommit
  <2>1. /\ pc = "rollGate" /\ Calm /\ loc' = loc /\ mem'.on = mem.on /\ loc.todo # {}
        /\ \/ /\ mem'.slots[Cur].pid = Rec.pid /\ PutBack(mem'.slots[Cur])
              /\ mem'.retiring = mem.retiring /\ state' = mem' /\ pc' = "rollDrain"
           \/ PutBack(loc.old) /\ mem'.retiring = mem.retiring \cup {Rec.pid} /\ state' = state /\ pc' = "rollBack"
    BY <1>2, RollCommitEffect DEF Unsaved, Calm, Still, Placed, AtSlot
  <2>2. /\ Covers(mem, running, astray \cup {loc.old.pid}) /\ Covers(state, running, astray \cup {loc.old.pid})
        /\ Cur \in mem.on
    BY <2>1, CurIn DEF Covered, MemCovered, DiskCovered, Beside, BesideDisk, Visiting
  <2>3. CASE /\ mem'.slots[Cur].pid = Rec.pid /\ PutBack(mem'.slots[Cur])
             /\ mem'.retiring = mem.retiring /\ state' = mem' /\ pc' = "rollDrain"
    <3>1. Recorded(mem) \subseteq Recorded(mem')
      BY <2>1, <2>3, RecordedPut DEF PutBack
    <3>2. Covers2(mem', {loc.old.pid})
      BY <2>1, <2>2, <3>1 DEF Covers, Covers2, Calm
    <3> QED BY <2>1, <2>3, <3>2 DEF MemCovered, DiskCovered, Shrinking, Covers, Covers2, Beside, BesideDisk
  <2>4. CASE PutBack(loc.old) /\ mem'.retiring = mem.retiring \cup {Rec.pid} /\ state' = state /\ pc' = "rollBack"
    <3>1. Recorded(mem) \subseteq Recorded(mem') \cup {Rec.pid}
      BY <2>1, <2>4, RecordedPut DEF PutBack
    <3>2. Rec.pid \in Recorded(mem') /\ (loc.old.pid # 0 => loc.old.pid \in Recorded(mem'))
      BY <2>1, <2>2, <2>4 DEF Recorded, PutBack
    <3>3. Covers2(mem', {})
      BY <2>1, <2>2, <3>1, <3>2, Zero DEF Covers, Covers2, Calm
    <3>4. Covers2(state', {loc.old.pid})
      BY <2>1, <2>2, <2>4, CoversCalm
    <3> QED BY <2>1, <2>4, <3>3, <3>4 DEF MemCovered, DiskCovered, Shrinking, Covers, Covers2, Beside, BesideDisk
  <2> QED BY <2>1, <2>3, <2>4
<1>3. CASE RollUnproven
  <2>1. /\ pc = "rollGate" /\ pc' = "rollStop" /\ Calm /\ loc' = loc /\ mem' = mem /\ state' = state
    BY <1>3, UnprovenEffect DEF Unsaved, Calm, Still
  <2>2. Covers(mem, running, astray \cup {loc.old.pid}) /\ Covers(state, running, astray \cup {loc.old.pid})
    BY <2>1 DEF Covered, MemCovered, DiskCovered, Beside, BesideDisk
  <2>3. Covers2(mem, {loc.old.pid}) /\ Covers2(state, {loc.old.pid})
    BY <2>1, <2>2, CoversCalm
  <2> QED BY <2>1, <2>3 DEF MemCovered, DiskCovered, Shrinking, Covers, Covers2, Beside, BesideDisk
<1>4. CASE RollStop
  <2>1. /\ pc = "rollStop" /\ pc' = "undo" /\ Calm /\ loc' = loc /\ state' = state /\ loc.todo # {}
        /\ mem'.on = mem.on /\ mem'.retiring = mem.retiring /\ PutBack(loc.old)
        /\ Rec.pid \notin running' \/ Rec.pid \in astray'
    BY <1>4, RollStopEffect DEF Unsaved, Calm, Still, Ends, Strays, Only, Placed, AtSlot
  <2>2. /\ Covers(mem, running, astray \cup {loc.old.pid}) /\ Covers(state, running, astray \cup {loc.old.pid})
        /\ Cur \in mem.on
    BY <2>1, CurIn DEF Covered, MemCovered, DiskCovered, Beside, BesideDisk, Visiting
  <2>3. Recorded(mem) \subseteq Recorded(mem') \cup {Rec.pid}
    BY <2>1, RecordedPut DEF PutBack
  <2>4. loc.old.pid # 0 => loc.old.pid \in Recorded(mem')
    BY <2>1, <2>2 DEF Recorded, PutBack
  <2>5. Covers2(mem', {})
    BY <2>1, <2>2, <2>3, <2>4, Zero DEF Covers, Covers2, Calm
  <2>6. Covers2(state', {loc.old.pid})
    BY <2>1, <2>2, CoversCalm
  <2> QED BY <2>1, <2>5, <2>6 DEF MemCovered, DiskCovered, Shrinking, Covers, Covers2, Beside, BesideDisk
<1>5. CASE RollBack
  <2>1. /\ pc = "rollBack" /\ Calm /\ mem' = mem /\ loc' = loc
        /\ \/ state' = mem /\ pc' = "rollRetire"
           \/ state' = state /\ unsaved' = TRUE /\ pc' = "revert"
    BY <1>5, RollBackEffect DEF Calm, Still
  <2>2. Covers(mem, running, astray) /\ loc.after = "fail"
    BY <2>1 DEF Covered, MemCovered, Beside, Covers, Placed, RollPc
  <2>3. Covers2(mem, {})
    BY <2>1, <2>2, CoversStep
  <2> QED BY <2>1, <2>2, <2>3 DEF MemCovered, DiskCovered, Shrinking, Covers, Covers2
<1>6. CASE RollRetire
  <2>1. pc = "rollRetire" /\ pc' = "revert" /\ Calm /\ mem' = mem /\ state' = state
    BY <1>6, RollRetireEffect DEF Unsaved, Calm, Still, Ends, Strays
  <2>2. Covers(mem, running, astray) /\ Covers(state, running, astray)
    BY <2>1, CoveredNow
  <2> QED BY <2>1, <2>2, CoversStep, CoveredSaved
<1>7. CASE RollDrain
  <2>1. /\ pc = "rollDrain" /\ pc' # "shrink" /\ Calm /\ mem' = mem /\ state' = state
        /\ loc.old.pid \notin running' \/ loc.old.pid \in astray'
    BY <1>7, RollDrainEffect DEF Over, Unsaved, Calm, Still, Ends, Strays
  <2>2. Covers(mem, running, astray \cup {loc.old.pid}) /\ Covers(state, running, astray \cup {loc.old.pid})
    BY <2>1 DEF Covered, MemCovered, DiskCovered, Beside, BesideDisk
  <2>3. Covers2(mem, {}) /\ Covers2(state, {})
    BY <2>1, <2>2 DEF Covers, Covers2, Calm
  <2> QED BY <2>1, <2>3, CoveredNext
<1>8. CASE Undo
  <2>1. /\ pc = "undo" /\ pc' = "revert" /\ Calm /\ mem' = mem /\ loc' = loc
        /\ state' = mem \/ (state' = state /\ unsaved' = TRUE)
    BY <1>8, UndoEffect DEF Tried, Calm, Still
  <2>2. Covers(mem, running, astray) /\ loc.after = "fail"
    BY <2>1 DEF Covered, MemCovered, Beside, Covers, Placed
  <2>3. Covers2(mem, {})
    BY <2>1, <2>2, CoversStep
  <2> QED BY <2>1, <2>2, <2>3 DEF MemCovered, DiskCovered, Shrinking, Covers, Covers2
<1> QED BY <1>1, <1>2, <1>3, <1>4, <1>5, <1>6, <1>7, <1>8

LEMMA CoversFizzled ==
  ASSUME TypeOK, loc.todo # {}, NEW v, Fizzled(v), PutBack(mem'.slots[Cur]), mem.on \subseteq mem'.on,
         mem'.retiring = mem.retiring, Rec.pid \notin running, Covers(mem, running, astray)
  PROVE  Calm /\ Covers2(mem', {})
<1>1. Recorded(mem) \subseteq Recorded(mem') \cup {Rec.pid}
  BY RecordedPut DEF PutBack
<1> QED BY <1>1 DEF Covers, Covers2, Calm, Fizzled

LEMMA CoveredClassic ==
  ASSUME TypeOK, Placed, Machine, Covered, lostHolder = FALSE,
         ClassicMark \/ ClassicStop \/ ClassicSave \/ ClassicLaunch \/ ClassicCommit \/ ClassicUnproven
         \/ ClassicUnlaunch
  PROVE  MemCovered' /\ DiskCovered' /\ Shrinking'
<1>1. CASE ClassicMark
  <2>1. pc = "drain" /\ Calm /\ pc' # "shrink" /\ SameSlots(mem', mem) /\ state' \in {state, mem'}
    BY <1>1, ClassicMarkEffect DEF Unsaved, Calm, Still
  <2>2. Covers(mem, running, astray) /\ Covers(state, running, astray)
    BY <2>1, CoveredNow
  <2> QED BY <2>1, <2>2, CoversSame, CoversStep, CoveredSaved
<1>2. CASE ClassicStop \/ ClassicUnlaunch
  <2>1. /\ pc \in {"drainStop", "gateStop"} /\ Calm /\ pc' # "shrink" /\ state' = state /\ loc.todo # {}
        /\ Rewritten(0, Rec.ver, "stopped") /\ (Rec.pid \notin running' \/ Rec.pid \in astray')
    BY <1>2, ClassicStopEffect, ClassicUnlaunchEffect
       DEF Unsaved, Calm, Still, Ends, Strays, Live, Drained, Placed, AtSlot
  <2>2. Covers(mem, running, astray) /\ Covers(state, running, astray)
    BY <2>1, CoveredNow
  <2>3. Covers2(mem', {})
    BY <2>1, <2>2, CoversRewritten
  <2> QED BY <2>1, <2>2, <2>3, CoveredSaved
<1>3. CASE ClassicSave \/ ClassicUnproven
  <2>1. pc \in {"drainSave", "gate"} /\ Calm /\ pc' # "shrink" /\ mem' = mem /\ state' \in {state, mem'}
    BY <1>3, ClassicSaveEffect, UnprovenEffect DEF Unsaved, Tried, Calm, Still, Drained
  <2>2. Covers(mem, running, astray) /\ Covers(state, running, astray)
    BY <2>1, CoveredNow
  <2> QED BY <2>1, <2>2, CoversStep, CoveredSaved
<1>4. CASE ClassicLaunch
  <2>1. /\ pc = "launch" /\ pc' # "shrink" /\ astray' = astray /\ loc.todo # {}
        /\ \/ Starts(loc.target) /\ Relaunched(mem', mem, Cur, loc.target) /\ state' = mem'
           \/ /\ Fizzled(loc.target) /\ PutBack(mem'.slots[Cur]) /\ mem'.on = mem.on /\ state' = state
              /\ mem'.retiring = mem.retiring
    BY <1>4, ClassicLaunchEffect DEF Fizzled, Unsaved, Only, Placed, AtSlot
  <2>2. Covers(mem, running, astray) /\ Covers(state, running, astray) /\ Rec.pid \notin running
    BY <2>1, CoveredNow, CurIn, Zero DEF Machine, Launching, Rec
  <2>3. CASE Starts(loc.target) /\ Relaunched(mem', mem, Cur, loc.target) /\ state' = mem'
    BY <2>1, <2>2, <2>3, CoversLaunched, CoveredStored
  <2>4. CASE /\ Fizzled(loc.target) /\ PutBack(mem'.slots[Cur]) /\ mem'.on = mem.on /\ state' = state
             /\ mem'.retiring = mem.retiring
    BY <2>1, <2>2, <2>4, CoversFizzled, CoveredSaved
  <2> QED BY <2>1, <2>3, <2>4
<1>5. CASE ClassicCommit
  <2>1. /\ pc = "gate" /\ Calm /\ pc' # "shrink" /\ state' \in {state, mem'} /\ loc.todo # {}
        /\ Rewritten(Rec.pid, Rec.ver, "running")
    BY <1>5, ClassicCommitEffect DEF Unsaved, Calm, Still, Over, Placed, AtSlot
  <2>2. Covers(mem, running, astray) /\ Covers(state, running, astray)
    BY <2>1, CoveredNow
  <2> QED BY <2>1, <2>2, CoversRewritten, CoveredSaved
<1> QED BY <1>1, <1>2, <1>3, <1>4, <1>5

LEMMA CoveredRevert ==
  ASSUME TypeOK, Placed, Machine, Covered, lostHolder = FALSE,
         RevertSkip \/ RevertStop \/ RevertLaunch \/ RevertProven \/ RevertSave
         \/ RevertUnproven \/ RevertUndo \/ RevertRecord \/ RecoveryRequired \/ RevertEnd
  PROVE  MemCovered' /\ DiskCovered' /\ Shrinking'
<1>1. CASE RevertSkip \/ RevertUnproven \/ RevertSave \/ RevertRecord
  <2>1. /\ pc \in {"revertSlot", "revertGate", "revertSave", "revertRecord"} /\ Calm /\ pc' # "shrink"
        /\ \/ mem' = mem /\ state' \in {state, mem'}
           \/ pc' = "idle" /\ state' = state
    BY <1>1, RevertSkipEffect, UnprovenEffect, RevertSaveEffect, RevertRecordEffect
       DEF Unsaved, Calm, Still, Over, GaveUp, Ended
  <2>2. Covers(mem, running, astray) /\ Covers(state, running, astray)
    BY <2>1, CoveredNow
  <2> QED BY <2>1, <2>2, CoversStep, CoveredSaved, CoveredEnded
<1>2. CASE RevertStop
  <2>1. /\ pc = "revertSlot" /\ Calm /\ pc' # "shrink" /\ state' = state /\ loc.todo # {}
        /\ \/ Rewritten(0, Rec.ver, "stopped") /\ Rec.pid \notin running'
           \/ Rewritten(0, Rec.ver, Rec.status) /\ Rec.pid \notin running'
           \/ mem' = mem
           \/ pc' = "idle"
    BY <1>2, RevertStopEffect DEF Unsaved, Calm, Still, Ends, Strays, GaveUp, Ended, Placed, AtSlot
  <2>2. Covers(mem, running, astray) /\ Covers(state, running, astray)
    BY <2>1, CoveredNow
  <2> QED BY <2>1, <2>2, CoversStep, CoversRewritten, CoveredSaved, CoveredEnded
<1>3. CASE RevertLaunch
  <2>1. /\ pc = "revertLaunch" /\ pc' # "shrink" /\ astray' = astray /\ loc.todo # {}
        /\ \/ Starts(mem.from[Cur]) /\ Relaunched(mem', mem, Cur, mem.from[Cur]) /\ state' = mem'
           \/ /\ Fizzled(mem.from[Cur]) /\ PutBack(mem'.slots[Cur]) /\ mem'.on = mem.on \cup {Cur}
              /\ state' = state /\ mem'.retiring = mem.retiring
    BY <1>3, RevertLaunchEffect DEF Fizzled, Unsaved, Only, Placed, AtSlot
  <2>2. Covers(mem, running, astray) /\ Covers(state, running, astray) /\ Rec.pid \notin running
    BY <2>1, CoveredNow DEF Machine, Relaunching
  <2>3. CASE Starts(mem.from[Cur]) /\ Relaunched(mem', mem, Cur, mem.from[Cur]) /\ state' = mem'
    BY <2>1, <2>2, <2>3, CoversLaunched, CoveredStored
  <2>4. CASE /\ Fizzled(mem.from[Cur]) /\ PutBack(mem'.slots[Cur]) /\ mem'.on = mem.on \cup {Cur}
             /\ state' = state /\ mem'.retiring = mem.retiring
    BY <2>1, <2>2, <2>4, CoversFizzled, CoveredSaved
  <2> QED BY <2>1, <2>3, <2>4
<1>4. CASE RevertProven \/ RevertUndo
  <2>1. /\ pc \in {"revertGate", "revertUndo"} /\ Calm /\ pc' # "shrink" /\ state' = state /\ loc.todo # {}
        /\ \/ Rewritten(Rec.pid, Rec.ver, "running")
           \/ Rewritten(0, Rec.ver, "stopped") /\ (Rec.pid \notin running' \/ Rec.pid \in astray')
    BY <1>4, RevertProvenEffect, RevertUndoEffect DEF Unsaved, Calm, Still, Ends, Strays, Placed, AtSlot
  <2>2. Covers(mem, running, astray) /\ Covers(state, running, astray)
    BY <2>1, CoveredNow
  <2>3. Covers2(mem', {})
    BY <2>1, <2>2, CoversRewritten
  <2> QED BY <2>1, <2>2, <2>3, CoveredSaved
<1>5. CASE RecoveryRequired \/ RevertEnd
  <2>1. /\ pc \in {"recovery", "revertEnd"} /\ Calm /\ pc' # "shrink" /\ (pc' = "idle" \/ mem' = state')
        /\ (SameSlots(state', mem) \/ state' = state)
    BY <1>5, RecoveryEffect, RevertEndEffect DEF Unsaved, Calm, Still, WentBack, GaveUp, Ended
  <2>2. Covers(mem, running, astray) /\ Covers(state, running, astray)
    BY <2>1, CoveredNow
  <2>3. Covers2(state', {})
    BY <2>1, <2>2, CoversSame, CoversStep
  <2> QED BY <2>1, <2>3, CoveredNext
<1> QED BY <1>1, <1>2, <1>3, <1>4, <1>5

\* When the undo could not be recorded either, a revert that cannot begin leaves deploy.json
\* without the process put aside.
LEMMA CoveredRevertBegin ==
  ASSUME TypeOK, Placed, Covered, lostHolder' = FALSE, RevertBegin
  PROVE  MemCovered' /\ DiskCovered' /\ Shrinking'
<1>1. /\ pc = "revert" /\ Calm /\ pc' # "shrink" /\ unsaved \in BOOLEAN /\ lostHolder \in BOOLEAN
      /\ \/ SameSlots(state', mem) /\ (pc' = "idle" \/ mem' = state') /\ lostHolder' = lostHolder
         \/ SameSlots(mem', mem) /\ state' = mem' /\ lostHolder' = lostHolder
         \/ state' = state /\ pc' = "idle" /\ lostHolder' = (lostHolder \/ unsaved)
  BY RevertBeginEffect, TypesNow DEF Unsaved, Calm, Still, WentBack, GaveUp, Ended
<1>2. lostHolder = FALSE /\ (unsaved = TRUE => ~(state' = state /\ pc' = "idle" /\ lostHolder' = (lostHolder \/ unsaved)))
  BY <1>1, Zenon
<1>3. Covers(mem, running, astray) /\ (unsaved = FALSE => Covers(state, running, astray))
  BY <1>1, <1>2 DEF Covered, MemCovered, DiskCovered, Beside, BesideDisk, Covers
<1>4. CASE SameSlots(state', mem) /\ (pc' = "idle" \/ mem' = state')
  <2>1. Covers2(state', {})
    BY <1>1, <1>3, <1>4, CoversSame, CoversStep
  <2> QED BY <1>1, <1>4, <2>1, CoveredNext
<1>5. CASE SameSlots(mem', mem) /\ state' = mem'
  <2>1. Covers2(mem', {})
    BY <1>1, <1>3, <1>5, CoversSame, CoversStep
  <2> QED BY <1>1, <1>5, <2>1, CoveredStored
<1>6. CASE state' = state /\ pc' = "idle" /\ lostHolder' = (lostHolder \/ unsaved)
  BY <1>1, <1>2, <1>3, <1>6, CoveredEnded
<1> QED BY <1>1, <1>4, <1>5, <1>6

LEMMA CoveredElse ==
  ASSUME TypeOK, Placed, Covered, lostHolder' = FALSE,
         DrainRetirements \/ Killed \/ MonitorRestart \/ (\E p \in Proc : Exit(p))
  PROVE  MemCovered' /\ DiskCovered' /\ Shrinking'
<1>1. CASE DrainRetirements
  <2>1. /\ pc = "idle" /\ pc' = "idle" /\ Calm /\ lostHolder = FALSE
        /\ \/ /\ running' = running \ (state.retiring \ {state.slots[s].pid : s \in state.on})
              /\ state'.on = state.on /\ state'.slots = state.slots /\ state'.retiring = {}
           \/ state' = state
    BY <1>1, DrainEffect DEF Calm, Still, Ends, Strays
  <2>2. Covers(state, running, astray)
    BY <2>1 DEF Covered, DiskCovered, BesideDisk, Covers
  <2>3. CASE /\ running' = running \ (state.retiring \ {state.slots[s].pid : s \in state.on})
             /\ state'.on = state.on /\ state'.slots = state.slots /\ state'.retiring = {}
    <3>1. Recorded(state') = {state.slots[s].pid : s \in state.on} \ {0}
      BY <2>3 DEF Recorded
    <3>2. running' \cap Recorded(state) \subseteq Recorded(state')
      BY <2>3, <3>1, Zero DEF Recorded
    <3>3. Covers2(state', {})
      BY <2>1, <2>2, <3>2 DEF Covers, Covers2, Calm
    <3> QED BY <2>1, <3>3, CoveredNext
  <2> QED BY <2>1, <2>2, <2>3, CoveredEnded
<1>2. CASE Killed
  BY <1>2, KilledEffect
<1>3. CASE MonitorRestart
  <2>1. /\ Calm /\ state' = state /\ running' = running /\ astray' = astray
        /\ lostHolder' = (lostHolder \/ (pc # "idle" /\ loc.kind = "pass"))
        /\ \/ pc' = "revert" /\ mem' = state /\ loc'.after = "boot" /\ (pc = "idle" \/ loc.kind \in {"pass", "boot"})
           \/ pc' = "idle" /\ (pc = "idle" \/ loc.kind \in {"pass", "boot"})
           \/ pc' = pc /\ mem' = mem /\ loc' = loc /\ unsaved' = unsaved
    BY <1>3, MonitorEffect DEF Calm, Still, Ended
  <2>2. lostHolder = FALSE /\ ~(pc # "idle" /\ loc.kind = "pass")
    <3>1. lostHolder \in BOOLEAN
      BY TypesNow
    <3> QED BY <2>1, <3>1, Zenon
  <2>3. CASE pc' = pc /\ mem' = mem /\ loc' = loc /\ unsaved' = unsaved
    BY <2>1, <2>2, <2>3
       DEF Covered, MemCovered, DiskCovered, Shrinking, Covers, Beside, BesideDisk
  <2>4. CASE \/ pc' = "revert" /\ mem' = state /\ loc'.after = "boot" /\ (pc = "idle" \/ loc.kind \in {"pass", "boot"})
             \/ pc' = "idle" /\ (pc = "idle" \/ loc.kind \in {"pass", "boot"})
    <3>1. pc = "idle" \/ loc.kind = "boot"
      BY <2>2, <2>4
    <3>2. /\ pc \notin {"rollGate", "rollStop", "rollDrain", "undo", "rollBack"}
          /\ ~(pc = "revert" /\ loc.after = "fail")
      BY <3>1 DEF Placed, RollPc, RevertPc
    <3>3. Covers(state, running, astray)
      BY <2>2, <3>2 DEF Covered, DiskCovered, BesideDisk, Covers
    <3>4. Covers2(state, {})
      BY <2>1, <3>3, CoversStep
    <3> QED BY <2>1, <2>4, <3>4, CoveredNext
  <2> QED BY <2>1, <2>3, <2>4
<1>4. CASE \E p \in Proc : Exit(p)
  <2>1. running' \subseteq running /\ state' = state /\ pc' = pc /\ mem' = mem /\ loc' = loc /\ astray' = astray
        /\ unsaved' = unsaved /\ lostHolder' = lostHolder
    BY <1>4, ExitEffect
  <2> QED BY <2>1 DEF Covered, MemCovered, DiskCovered, Shrinking, Covers, Beside, BesideDisk
<1> QED BY <1>1, <1>2, <1>3, <1>4

\* Every step but these leaves lostHolder as it was.
LEMMA HolderKept ==
  ASSUME TypeOK, Placed, [Next]_fvars
  PROVE  lostHolder' = lostHolder \/ RevertBegin \/ Killed \/ MonitorRestart
<1>1. CASE BeginPass \/ BeginStart \/ BeginStop \/ BeginRestart \/ BeginDeploy
           \/ (\E n \in 1 .. MaxReplicas : BeginGrow(n)) \/ (\E n \in 1 .. MaxReplicas : BeginShrink(n))
  BY <1>1, BeginPassEffect, BeginLoopEffect, BeginDeployEffect, BeginGrowEffect, BeginShrinkEffect DEF Opened
<1>2. CASE PassLive \/ PassProbe \/ PassUnhealthy \/ PassEnd \/ (\E reaped \in BOOLEAN : PassExit(reaped))
           \/ (\E reaped \in BOOLEAN : PassRelaunch(reaped))
           \/ (\E reaped, live \in BOOLEAN : PassOver(reaped, live))
  BY <1>2, PassLiveEffect, PassProbeEffect, PassUnhealthyEffect, PassEndEffect, PassExitEffect,
     PassRelaunchEffect, PassOverEffect DEF PassKeeps, Passive, Aside
<1>3. CASE StartSlot \/ StartWait \/ StopSlot \/ StopSave \/ StopEnd \/ RestartSlot \/ Relaunch \/ Restarted
           \/ GrowSlot \/ Grown \/ ShrinkStop \/ ShrinkEnd \/ CommandEnd
  BY <1>3, StartSlotEffect, StartWaitEffect, StopSlotEffect, StopSaveEffect, StopEndEffect, RestartSlotEffect,
     RelaunchEffect, RestartedEffect, GrowSlotEffect, GrownEffect, ShrinkStopEffect, ShrinkEndEffect,
     CommandEndEffect DEF Aside
<1>4. CASE DeployLoad \/ Prepare \/ (\E v \in Ver \ {0} : Build(v)) \/ RollSlot \/ RollCommit \/ RollUnproven
           \/ RollStop \/ RollBack \/ RollRetire \/ RollDrain \/ Undo \/ Promote
  BY <1>4, DeployLoadEffect, PrepareEffect, BuildEffect, RollSlotEffect, RollCommitEffect, UnprovenEffect,
     RollStopEffect, RollBackEffect, RollRetireEffect, RollDrainEffect, UndoEffect, PromoteEffect DEF Aside
<1>5. CASE ClassicMark \/ ClassicStop \/ ClassicSave \/ ClassicLaunch \/ ClassicCommit \/ ClassicUnproven
           \/ ClassicUnlaunch
  BY <1>5, ClassicMarkEffect, ClassicStopEffect, ClassicSaveEffect, ClassicLaunchEffect, ClassicCommitEffect,
     UnprovenEffect, ClassicUnlaunchEffect DEF Aside
<1>6. CASE RevertSkip \/ RevertStop \/ RevertLaunch \/ RevertProven \/ RevertSave \/ RevertUnproven
           \/ RevertUndo \/ RevertRecord \/ RecoveryRequired \/ RevertEnd
  BY <1>6, RevertSkipEffect, RevertStopEffect, RevertLaunchEffect, RevertProvenEffect, RevertSaveEffect,
     UnprovenEffect, RevertUndoEffect, RevertRecordEffect, RecoveryEffect, RevertEndEffect DEF Aside
<1>7. CASE DrainRetirements \/ (\E p \in Proc : Exit(p))
  BY <1>7, DrainEffect, ExitEffect
<1>8. CASE UNCHANGED fvars
  BY <1>8 DEF fvars
<1>9. Steps \/ UNCHANGED fvars
  BY NextIs
<1> QED BY <1>1, <1>2, <1>3, <1>4, <1>5, <1>6, <1>7, <1>8, <1>9 DEF Steps

VisitPc == {"pass", "roll", "rollGate", "rollStop", "rollDrain"}

LEMMA VisitingNext ==
  ASSUME TypeOK, Placed, Visiting, [Next]_fvars
  PROVE  Visiting'
<1>1. CASE pc' \notin VisitPc
  BY <1>1 DEF Visiting, VisitPc
<1>2. CASE BeginPass
  BY <1>2, BeginPassEffect DEF Opened, Visiting
<1>3. CASE PassLive \/ PassProbe \/ PassUnhealthy \/ (\E reaped \in BOOLEAN : PassExit(reaped))
           \/ (\E reaped \in BOOLEAN : PassRelaunch(reaped))
           \/ (\E reaped, live \in BOOLEAN : PassOver(reaped, live))
  <2>1. pc = "pass" /\ loc'.todo = loc.todo \ {Cur} /\ mem'.on = mem.on
    BY <1>3, PassLiveEffect, PassProbeEffect, PassUnhealthyEffect, PassExitEffect,
       PassRelaunchEffect, PassOverEffect DEF PassKeeps, Onward, Visits, Rewritten, Only
  <2> QED BY <2>1 DEF Visiting
<1>4. CASE RollSlot \/ RollCommit \/ RollUnproven \/ RollDrain
  <2>1. pc \in {"roll", "rollGate", "rollDrain"} /\ loc'.todo \subseteq loc.todo /\ mem.on \subseteq mem'.on
    BY <1>4, RollSlotEffect, RollCommitEffect, UnprovenEffect, RollDrainEffect DEF Over, Visits, Relaunched
  <2> QED BY <2>1 DEF Visiting
<1>5. CASE \E v \in Ver \ {0} : Build(v)
  <2>1. pc' = "idle" \/ (mem'.on = mem.on /\ loc'.todo = mem.on)
    BY <1>5, BuildEffect DEF SameSlots, Ended
  <2> QED BY <2>1 DEF Visiting
<1>6. CASE MonitorRestart
  <2>1. pc' \in {"revert", "idle"} \/ (pc' = pc /\ mem' = mem /\ loc' = loc)
    BY <1>6, MonitorEffect DEF Ended
  <2> QED BY <2>1 DEF Visiting
<1>7. CASE (\E p \in Proc : Exit(p)) \/ UNCHANGED fvars
  <2>1. pc' = pc /\ mem' = mem /\ loc' = loc
    BY <1>7, ExitEffect DEF fvars
  <2> QED BY <2>1 DEF Visiting
<1>8. CASE BeginStart \/ BeginStop \/ BeginRestart \/ BeginDeploy
           \/ (\E n \in 1 .. MaxReplicas : BeginGrow(n)) \/ (\E n \in 1 .. MaxReplicas : BeginShrink(n))
  BY <1>1, <1>8, BeginLoopEffect, BeginDeployEffect, BeginGrowEffect, BeginShrinkEffect DEF Opened, VisitPc
<1>9. CASE StartSlot \/ StartWait \/ StopSlot \/ StopSave \/ StopEnd \/ RestartSlot \/ Relaunch \/ Restarted
           \/ GrowSlot \/ Grown \/ ShrinkStop \/ ShrinkEnd \/ CommandEnd \/ PassEnd
  <2>1. pc' \notin VisitPc
    BY <1>9, StartSlotEffect, StartWaitEffect, StopSlotEffect, StopSaveEffect, StopEndEffect,
       RestartSlotEffect, RelaunchEffect, RestartedEffect, GrowSlotEffect, GrownEffect, ShrinkStopEffect,
       ShrinkEndEffect, CommandEndEffect, PassEndEffect DEF Over, Ended, VisitPc
  <2> QED BY <1>1, <2>1
<1>10. CASE DeployLoad \/ Prepare \/ RollStop \/ RollBack \/ RollRetire \/ Undo \/ Promote \/ ClassicMark
            \/ ClassicStop \/ ClassicSave \/ ClassicLaunch \/ ClassicCommit \/ ClassicUnproven
            \/ ClassicUnlaunch
  <2>1. pc' \notin VisitPc
    BY <1>10, DeployLoadEffect, PrepareEffect, RollStopEffect, RollBackEffect, RollRetireEffect, UndoEffect,
       PromoteEffect, ClassicMarkEffect, ClassicStopEffect, ClassicSaveEffect, ClassicLaunchEffect,
       ClassicCommitEffect, UnprovenEffect, ClassicUnlaunchEffect DEF Over, Ended, Drained, VisitPc
  <2> QED BY <1>1, <2>1
<1>11. CASE RevertBegin \/ RevertSkip \/ RevertStop \/ RevertLaunch \/ RevertProven \/ RevertSave
            \/ RevertUnproven \/ RevertUndo \/ RevertRecord \/ RecoveryRequired \/ RevertEnd
            \/ DrainRetirements \/ Killed
  <2>1. pc' \notin VisitPc
    BY <1>11, RevertBeginEffect, RevertSkipEffect, RevertStopEffect, RevertLaunchEffect, RevertProvenEffect,
       RevertSaveEffect, UnprovenEffect, RevertUndoEffect, RevertRecordEffect, RecoveryEffect, RevertEndEffect,
       DrainEffect, KilledEffect DEF Over, Ended, WentBack, GaveUp, VisitPc
  <2> QED BY <1>1, <2>1
<1>12. Steps \/ UNCHANGED fvars
  BY NextIs
<1> QED BY <1>2, <1>3, <1>4, <1>5, <1>6, <1>7, <1>8, <1>9, <1>10, <1>11, <1>12 DEF Steps

LEMMA CoveredStep ==
  ASSUME TypeOK, Placed, Machine, Visiting, Covered, [Next]_fvars
  PROVE  Covered'
<1> SUFFICES ASSUME lostHolder' = FALSE
             PROVE  MemCovered' /\ DiskCovered' /\ Shrinking'
  BY DEF Covered
<1>1. CASE RevertBegin \/ Killed \/ MonitorRestart
  BY <1>1, CoveredRevertBegin, CoveredElse
<1>2. CASE lostHolder' = lostHolder
  <2>1. lostHolder = FALSE
    BY <1>2
  <2>2. CASE BeginPass \/ BeginStart \/ BeginStop \/ BeginRestart \/ BeginDeploy
             \/ (\E n \in 1 .. MaxReplicas : BeginGrow(n))
    <3>1. \E to \in {"pass", "start", "stop", "restart", "deploy", "grow"} : Opened(to)
      BY <2>2, BeginPassEffect, BeginLoopEffect, BeginDeployEffect, BeginGrowEffect
    <3> QED BY <2>1, <3>1, CoveredOpened
  <2>3. CASE \E n \in 1 .. MaxReplicas : BeginShrink(n)
    BY <2>1, <2>3, BeginShrinkEffect, ShrinkBegun, CoveredOpened
  <2>4. CASE PassLive \/ PassProbe \/ (\E reaped \in BOOLEAN : PassExit(reaped))
             \/ (\E reaped, live \in BOOLEAN : PassOver(reaped, live))
    BY <2>1, <2>4, PassLiveEffect, PassProbeEffect, PassExitEffect, PassOverEffect, CoveredPass
  <2>5. CASE UNCHANGED fvars
    <3>1. running' = running /\ state' = state /\ pc' = pc /\ mem' = mem /\ loc' = loc /\ astray' = astray
          /\ unsaved' = unsaved
      BY <2>5 DEF fvars
    <3> QED BY <2>1, <3>1 DEF Covered, MemCovered, DiskCovered, Shrinking, Covers, Beside, BesideDisk
  <2>6. Steps \/ UNCHANGED fvars
    BY NextIs
  <2> QED BY <1>1, <2>1, <2>2, <2>3, <2>4, <2>5, <2>6, CoveredPass, CoveredCommand, CoveredScale, CoveredPrepare,
             CoveredRoll, CoveredClassic, CoveredRevert, CoveredElse DEF Steps
<1> QED BY <1>1, <1>2, HolderKept

LEMMA CoveredInit ==
  ASSUME Init
  PROVE  Covered /\ Visiting
<1>1. PICK n \in 0 .. MaxReplicas :
        /\ running = 1 .. n /\ pc = "idle"
        /\ state = IF n = 0 THEN NoFleet
                   ELSE [NoFleet EXCEPT !.on = 0 .. n - 1, !.active = 1, !.roll = "done",
                           !.slots = [s \in Slot |-> IF s < n THEN [pid |-> s + 1, ver |-> 1,
                                        status |-> "running", count |-> 0] ELSE NoRec]]
  BY DEF Init
<1>2. n \in Nat /\ n <= MaxReplicas /\ MaxReplicas \in Nat
  BY BoundsAssumption
<1>3. ASSUME NEW p \in running PROVE p \in Recorded(state)
  <2>1. p \in 1 .. n /\ n # 0 /\ p - 1 \in 0 .. n - 1 /\ p - 1 < n /\ p - 1 \in Slot /\ (p - 1) + 1 = p
    BY <1>1, <1>2, <1>3 DEF Slot
  <2>2. state.on = 0 .. n - 1
    BY <1>1, <2>1 DEF NoFleet
  <2> DEFINE r(s) == [pid |-> s + 1, ver |-> 1, status |-> "running", count |-> 0]
  <2>3. r(p - 1).pid = p
    BY <2>1
  <2>4. \A s \in Slot : state.slots[s] = IF s < n THEN r(s) ELSE NoRec
    BY <1>1, <2>1 DEF NoFleet
  <2> HIDE DEF r
  <2>5. state.slots[p - 1].pid = p
    BY <2>1, <2>3, <2>4
  <2> QED BY <2>1, <2>2, <2>5 DEF Recorded
<1>4. Covers(state, running, astray \cup BesideDisk(pc, loc))
  BY <1>3 DEF Covers
<1> QED BY <1>1, <1>4 DEF Covered, MemCovered, DiskCovered, Shrinking, Visiting

\* Between operations every live process is in deploy.json, unless its stop could not be
\* confirmed, a scale up overwrote its record, or the operation that launched it was killed
\* or could record neither its undo nor its revert (launchWorkerReplica stops a process it
\* cannot record; a rolling replacement records, stops and forgets in this order).
THEOREM OrphanFree == Spec => []NoOrphans
<1>1. Init => TypeOK /\ Placed /\ Machine /\ Visiting /\ Covered
  BY TypesInit, MachineInit, CoveredInit
<1>2. TypeOK /\ Placed /\ Machine /\ Visiting /\ Covered /\ [Next]_fvars
        => (TypeOK /\ Placed /\ Machine /\ Visiting /\ Covered)'
  BY TypesNext, MachineNext, VisitingNext, CoveredStep
<1>3. TypeOK /\ Covered => NoOrphans
  <2> SUFFICES ASSUME TypeOK, Covered, pc = "idle", ~lostHolder
               PROVE  running \subseteq Recorded(state) \cup astray
    BY DEF NoOrphans
  <2>1. lostHolder = FALSE
    BY TypesNow
  <2> QED BY <2>1 DEF Covered, DiskCovered, BesideDisk, Covers
<1> QED BY <1>1, <1>2, <1>3, PTL DEF Spec

-----------------------------------------------------------------------------
(* A failed deploy that says it went back did.                             *)

\* What HonestFailure says of slot s when its record is r.
Served(s, r) == before[s] # 0 => /\ r.pid # 0 /\ r.pid \in running \cup died
                                 /\ builtAs[r.pid] = before[s]

\* The record the slot had, or will have once an unproven replacement is undone.
Slotted(s) == IF pc \in {"rollGate", "rollStop"} /\ s = Cur THEN loc.old ELSE mem.slots[s]

\* The deploy has begun to change replicas.
Failing == loc.after = "fail"

RollsOut == pc = "build" \/ (Failing /\ pc \notin RevertPc)

FailedHonest == pc = "idle" /\ outcome = "failed" => \A s \in state.on : Served(s, state.slots[s])

\* A slot the journal does not name serves what it served.
Spared == \A s \in Slot \ mem.touched :
            Served(s, Slotted(s)) /\ (before[s] # 0 => Slotted(s).ver = before[s])

Untouched == RollsOut => Spared

\* A slot the journal names goes back to the version it had.
Truthful == \A s \in mem.touched : before[s] # 0 => mem.from[s] = before[s]

Journal == RollsOut \/ Failing => Truthful

\* The journal names the slots the loop has passed; the classic deploy relaunches only once
\* it names them all.
Progress ==
  /\ pc = "build" => mem.touched = {} /\ \A s \in Slot : before[s] # 0 => s \in mem.on
  /\ pc \in {"roll", "rollGate", "rollStop", "drain"} => loc.todo \cap mem.touched = {}
  /\ pc \in {"rollDrain", "drainStop", "drainSave"} => loc.todo \cap mem.touched \subseteq {Cur}
  /\ pc \in {"drainStop", "drainSave"} => Cur \in mem.touched
  /\ pc \in {"drain", "drainStop", "drainSave"} =>
       \A s \in Slot : before[s] # 0 => s \in mem.touched \cup loc.todo
  /\ pc \in {"launch", "gate", "gateStop"} => \A s \in Slot : before[s] # 0 => s \in mem.touched

\* The slots outside T serve what they served.
ServedBut(T) == \A s \in Slot \ T : Served(s, mem.slots[s])

\* So do the slots the revert has passed.
GoingBack ==
  Failing =>
    /\ pc = "revert" => ServedBut(mem.touched)
    /\ pc \in RevertPc \ {"revert"} => loc.todo \subseteq mem.touched /\ ServedBut(loc.todo)
    /\ pc = "revertEnd" => loc.todo = {}
    /\ pc = "revertGate" => Rec.ver = mem.from[Cur]
    /\ pc = "revertSave" => Served(Cur, Rec)

\* What is retired is a replacement that could not be recorded, and no slot's.
Retired ==
  /\ mem.retiring # {} => Failing /\ pc \in {"rollBack", "rollRetire"} \cup RevertPc
  /\ pc \in {"rollBack", "rollRetire"} => \A s \in Slot : mem.slots[s].pid \notin mem.retiring
  /\ pc = "rollDrain" => \A s \in Slot : loc.old.pid # 0 => mem.slots[s].pid # loc.old.pid

Honest == FailedHonest /\ Untouched /\ Journal /\ Progress /\ GoingBack /\ Retired

\* The step ends no process but p, unless it exits by itself.
Spares(p) == died \subseteq died' /\ running \ {p} \subseteq running' \cup died'

LEMMA SparesFacts ==
  ASSUME TypeOK
  PROVE  /\ \A p : Ends({p}) \/ Strays(p) => Spares(p)
         /\ Still \/ (running' = running /\ died' = died) => \A p : Spares(p)
         /\ \A v : Starts(v) => \A p : Spares(p)
BY DEF Ends, Strays, Still, Starts, Spares

LEMMA ServedSpared ==
  ASSUME TypeOK, Moved, before' = before, NEW p, Spares(p), NEW s, NEW r, Served(s, r),
         r.pid \in 0 .. launched, r.pid # 0 => r.pid # p
  PROVE  Served(s, r)'
<1>1. /\ launched \in Nat /\ running \subseteq 1 .. launched
      /\ \A q \in 1 .. launched : builtAs'[q] = builtAs[q]
  BY TypesNow, BoundsAssumption DEF Moved
<1>2. r.pid # 0 => r.pid \in 1 .. launched
  BY <1>1
<1>3. r.pid # 0 /\ r.pid \in running \cup died => r.pid \in running' \cup died'
  BY DEF Spares
<1> QED BY <1>1, <1>2, <1>3 DEF Served

LEMMA SlotKnown ==
  ASSUME Machine, NEW s \in Slot
  PROVE  mem.slots[s].pid \in 0 .. launched
BY DEF Machine, Sounds, Sound, RecOK

LEMMA SlottedKnown ==
  ASSUME TypeOK, Placed, Machine, NEW s \in Slot
  PROVE  Slotted(s).pid \in 0 .. launched
BY SlotKnown DEF Slotted, Machine, Replacing, RecOK

LEMMA ServedKept ==
  ASSUME TypeOK, Moved, before' = before, NEW p, Spares(p), NEW s, NEW r, NEW r2, r2 = r,
         before[s] # 0 => Served(s, r) /\ r.pid \in 0 .. launched /\ (r.pid # 0 => r.pid # p)
  PROVE  Served(s, r2)'
<1>1. CASE before[s] = 0
  BY <1>1 DEF Served
<1>2. CASE before[s] # 0
  BY <1>2, ServedSpared
<1> QED BY <1>1, <1>2

\* Served of the next state, of a record r of any state.
ServedNext(s, r) == before'[s] # 0 => /\ r.pid # 0 /\ r.pid \in running' \cup died'
                                      /\ builtAs'[r.pid] = before'[s]

LEMMA ServedStays ==
  ASSUME TypeOK, Moved, before' = before, NEW p, Spares(p), NEW s, NEW r,
         before[s] # 0 => Served(s, r) /\ r.pid \in 0 .. launched /\ (r.pid # 0 => r.pid # p)
  PROVE  ServedNext(s, r)
BY ServedKept DEF Served, ServedNext

LEMMA SparedStep ==
  ASSUME TypeOK, Placed, Machine, Spared, Moved, before' = before, NEW p, Spares(p),
         mem.touched \subseteq mem'.touched,
         \A s \in Slot \ mem'.touched :
           before[s] # 0 => Slotted(s)' = Slotted(s) /\ (Slotted(s).pid # 0 => Slotted(s).pid # p)
  PROVE  Spared'
<1>1. \A s \in Slot \ mem'.touched : ServedNext(s, Slotted(s)')
                                     /\ (before'[s] # 0 => Slotted(s)'.ver = before'[s])
  <2> SUFFICES ASSUME NEW s \in Slot \ mem'.touched
               PROVE  ServedNext(s, Slotted(s)') /\ (before'[s] # 0 => Slotted(s)'.ver = before'[s])
    OBVIOUS
  <2>1. CASE before[s] = 0
    BY <2>1 DEF ServedNext
  <2>2. CASE before[s] # 0
    <3>1. s \in Slot \ mem.touched
      OBVIOUS
    <3>2. Served(s, Slotted(s)) /\ Slotted(s).ver = before[s] /\ Slotted(s).pid \in 0 .. launched
      BY <2>2, <3>1, SlottedKnown DEF Spared
    <3>3. Slotted(s)' = Slotted(s) /\ (Slotted(s).pid # 0 => Slotted(s).pid # p)
      BY <2>2
    <3>4. ServedNext(s, Slotted(s))
      BY <3>2, <3>3, ServedStays
    <3>5. ServedNext(s, Slotted(s)')
      BY <3>3, <3>4 DEF ServedNext
    <3> QED BY <3>2, <3>3, <3>5
  <2> QED BY <2>1, <2>2
<1> QED BY <1>1 DEF Spared, Served, ServedNext

LEMMA SparedStill ==
  ASSUME TypeOK, Placed, Machine, Spared, Moved, before' = before, \A p : Spares(p),
         mem.touched \subseteq mem'.touched,
         \A s \in Slot \ mem'.touched : Slotted(s)' = Slotted(s)
  PROVE  Spared'
<1>1. \A s \in Slot : Slotted(s).pid \in 0 .. launched
  BY SlottedKnown
<1>2. launched \in Nat
  BY TypesNow, BoundsAssumption
<1>3. \A s \in Slot : Slotted(s).pid # launched + 1
  BY <1>1, <1>2
<1> QED BY <1>3, SparedStep

LEMMA SparedAll ==
  ASSUME before' = before, \A s \in Slot : before[s] # 0 => s \in mem'.touched
  PROVE  Spared'
BY DEF Spared, Served

LEMMA ServedButStep ==
  ASSUME TypeOK, Machine, NEW T, NEW T2, T \subseteq T2, ServedBut(T), Moved, before' = before,
         NEW p, Spares(p),
         \A s \in Slot \ T2 : /\ mem'.slots[s] = mem.slots[s]
                              /\ mem.slots[s].pid # 0 => mem.slots[s].pid # p
  PROVE  \A s \in Slot \ T2 : ServedNext(s, mem'.slots[s])
<1> SUFFICES ASSUME NEW s \in Slot \ T2
             PROVE  ServedNext(s, mem'.slots[s])
  OBVIOUS
<1>1. Served(s, mem.slots[s]) /\ mem.slots[s].pid \in 0 .. launched
  BY SlotKnown DEF ServedBut
<1>2. ServedNext(s, mem.slots[s])
  BY <1>1, ServedStays
<1> QED BY <1>2

LEMMA ServedButStill ==
  ASSUME TypeOK, Machine, NEW T, NEW T2, T \subseteq T2, ServedBut(T), Moved, before' = before,
         \A p : Spares(p), \A s \in Slot \ T2 : mem'.slots[s] = mem.slots[s]
  PROVE  \A s \in Slot \ T2 : ServedNext(s, mem'.slots[s])
<1>1. \A s \in Slot : mem.slots[s].pid \in 0 .. launched
  BY SlotKnown
<1>2. launched \in Nat
  BY TypesNow, BoundsAssumption
<1>3. \A s \in Slot : mem.slots[s].pid # launched + 1
  BY <1>1, <1>2
<1> QED BY <1>3, ServedButStep

\* While nothing fails, or once a deploy has ended otherwise, there is nothing to keep.
LEMMA HonestCalm ==
  ASSUME Placed', mem'.retiring = {},
         \/ pc' \in {"pass", "passed", "deploy", "prepare"} \cup CommandPc
         \/ pc' = "idle" /\ outcome' # "failed"
         \/ pc' \in RevertPc /\ loc'.after # "fail"
  PROVE  Honest'
<1>1. ~Failing' /\ ~RollsOut'
  BY NoLocFacts DEF Placed, Failing, RollsOut, CommandPc, RevertPc
<1>2. pc' \notin {"build", "roll", "rollGate", "rollStop", "drain", "rollDrain", "drainStop", "drainSave",
                  "launch", "gate", "gateStop", "rollBack", "rollRetire"}
  BY DEF CommandPc, RevertPc
<1>3. FailedHonest'
  BY DEF FailedHonest, CommandPc, RevertPc
<1> QED BY <1>1, <1>2, <1>3 DEF Honest, Untouched, Journal, Progress, GoingBack, Retired

LEMMA HonestPrepare ==
  ASSUME TypeOK, Placed, Machine, Honest, Prepare
  PROVE  Honest'
<1>1. /\ Placed' /\ pc = "prepare" /\ pc' = "build" /\ loc' = loc /\ builtAs' = builtAs
      /\ mem'.on = 0 .. loc.n - 1 /\ mem'.touched = {} /\ mem'.retiring = mem.retiring
      /\ \A s \in Slot : s < loc.n /\ Live(mem.slots[s]) => mem'.slots[s] = mem.slots[s]
      /\ \A s \in Slot : before'[s] = IF s < loc.n /\ Live(mem.slots[s]) THEN mem.slots[s].ver ELSE 0
  BY PrepareEffect DEF Prepared
<1>2. PICK P : /\ \A p \in P : \E s \in mem.on : s >= loc.n /\ p = mem.slots[s].pid
               /\ running \ P \subseteq running'
  BY PrepareEffect DEF Extra
<1>3. mem.retiring = {} /\ loc.after = "prepare" /\ loc.n \in Nat /\ mem.on \in SUBSET Slot
  BY <1>1, TypesNow, LocalFields, FleetFields, BoundsAssumption DEF Honest, Retired, Failing, Placed
<1>4. ASSUME NEW s \in Slot, before'[s] # 0
      PROVE  /\ s \in mem'.on /\ ServedNext(s, mem'.slots[s]) /\ mem'.slots[s].ver = before'[s]
  <2>1. s < loc.n /\ Live(mem.slots[s])
    BY <1>1, <1>4
  <2>2. mem'.slots[s] = mem.slots[s] /\ mem.slots[s].ver = before'[s]
    BY <1>1, <2>1
  <2>3. mem.slots[s].pid # 0 /\ mem.slots[s].pid \in running
    BY <2>1, Zero DEF Live
  <2>4. mem.slots[s].pid \notin P
    <3> SUFFICES ASSUME mem.slots[s].pid \in P
                 PROVE  FALSE
      OBVIOUS
    <3>1. PICK t \in mem.on : t >= loc.n /\ mem.slots[t].pid = mem.slots[s].pid
      BY <1>2
    <3>2. t \in Slot /\ t # s
      BY <1>3, <2>1, <3>1 DEF Slot
    <3>3. Apart(mem, s, mem.slots[s])
      BY DEF Machine, Sounds, Sound
    <3> QED BY <2>3, <3>1, <3>2, <3>3 DEF Apart
  <2>5. builtAs[mem.slots[s].pid] = mem.slots[s].ver
    BY <2>3 DEF Machine, Sounds, Sound, RecOK
  <2>6. s \in mem'.on
    BY <1>1, <1>3, <2>1 DEF Slot
  <2> QED BY <1>1, <1>2, <2>2, <2>3, <2>4, <2>5, <2>6 DEF ServedNext
<1>5. Spared'
  <2>1. \A s \in Slot : ServedNext(s, mem'.slots[s]) /\ (before'[s] # 0 => mem'.slots[s].ver = before'[s])
    BY <1>4 DEF ServedNext
  <2> QED BY <1>1, <2>1 DEF Spared, Served, ServedNext, Slotted
<1>6. Truthful'
  BY <1>1 DEF Truthful
<1> QED BY <1>1, <1>3, <1>4, <1>5, <1>6
        DEF Honest, FailedHonest, Untouched, Journal, Progress, GoingBack, Retired, Failing, RevertPc

LEMMA HonestBuild ==
  ASSUME TypeOK, Placed, Machine, Honest, NEW v \in Ver \ {0}, Build(v)
  PROVE  Honest'
<1>1. /\ Placed' /\ pc = "build" /\ Still /\ Moved /\ before' = before
      /\ \/ /\ SameSlots(mem', mem) /\ SameJournal(mem', mem) /\ loc'.todo = mem.on
            /\ loc'.after = "fail" /\ pc' \in {"roll", "drain"}
         \/ Ended("refused")
  BY BuildEffect DEF Aside
<1>2. loc.after # "fail" /\ mem.retiring = {} /\ mem.touched = {} /\ Spared
      /\ \A s \in Slot : before[s] # 0 => s \in mem.on
  BY <1>1 DEF Honest, Retired, Failing, Placed, Progress, Untouched, RollsOut
<1>3. CASE Ended("refused")
  BY <1>1, <1>3, NoFleetFacts, HonestCalm DEF Ended
<1>4. CASE /\ SameSlots(mem', mem) /\ SameJournal(mem', mem) /\ loc'.todo = mem.on
           /\ loc'.after = "fail" /\ pc' \in {"roll", "drain"}
  <2>1. mem'.slots = mem.slots /\ mem'.retiring = {} /\ mem'.touched = {}
    BY <1>2, <1>4 DEF SameSlots, SameJournal
  <2>2. Spared'
    <3>1. \A s \in Slot : Slotted(s)' = Slotted(s)
      BY <1>1, <1>4, <2>1 DEF Slotted
    <3>2. \A p : Spares(p)
      BY <1>1, SparesFacts
    <3> QED BY <1>1, <1>2, <2>1, <3>1, <3>2, SparedStill
  <2>3. Truthful'
    BY <2>1 DEF Truthful
  <2> QED BY <1>1, <1>2, <1>4, <2>1, <2>2, <2>3
          DEF Honest, FailedHonest, Untouched, Journal, Progress, GoingBack, Retired, Failing, RevertPc
<1> QED BY <1>1, <1>3, <1>4

LEMMA HonestOnward ==
  ASSUME pc' \notin {"idle"} \cup RevertPc, Spared', Truthful', Progress', Retired'
  PROVE  Honest'
BY DEF Honest, FailedHonest, Untouched, Journal, GoingBack, RevertPc

LEMMA HonestToRevert ==
  ASSUME pc' = "revert", loc'.after = "fail", Spared', Truthful'
  PROVE  Honest'
<1>1. ServedBut(mem.touched)'
  BY DEF Spared, Slotted, ServedBut, Served
<1> QED BY <1>1 DEF Honest, FailedHonest, Untouched, Journal, GoingBack, Failing, Progress, Retired, RevertPc

LEMMA TruthfulSame ==
  ASSUME Truthful, before' = before, SameJournal(mem', mem)
  PROVE  Truthful'
BY DEF Truthful, SameJournal

LEMMA TruthfulMore ==
  ASSUME TypeOK, loc.todo # {}, Truthful, before' = before, NEW v, OneMore(mem', mem, v),
         before[Cur] # 0 => v = before[Cur]
  PROVE  Truthful'
<1>1. mem.touched \in SUBSET Slot /\ Cur \in Slot
  BY TypesNow, FleetFields, CurIn
<1> QED BY <1>1 DEF Truthful, OneMore

\* What the roll's steps know of the failing deploy.
LEMMA RollKnows ==
  ASSUME TypeOK, Placed, Honest, pc \in RollPc \cup ClassicPc \cup {"undo"}
  PROVE  Spared /\ Truthful /\ loc.after = "fail" /\ Progress /\ Retired
BY DEF Honest, Untouched, Journal, RollsOut, Failing, Placed, RollPc, ClassicPc, RevertPc

LEMMA HonestRollSlot ==
  ASSUME TypeOK, Placed, Machine, Honest, RollSlot
  PROVE  Honest'
<1>1. /\ pc = "roll" /\ Moved /\ before' = before /\ Placed' /\ loc.todo # {}
      /\ \/ Still /\ Over("roll", "promote") /\ mem' = mem
         \/ /\ Starts(loc.target) /\ Relaunched(mem', mem, Cur, loc.target)
            /\ Visits(loc', loc, loc.todo, Rec) /\ pc' = "rollGate"
         \/ running' = running /\ died' = died /\ mem' = mem /\ loc' = loc /\ pc' = "undo"
  BY RollSlotEffect DEF Aside, Placed, AtSlot
<1>2. /\ Spared /\ Truthful /\ loc.after = "fail" /\ loc.todo \cap mem.touched = {} /\ mem.retiring = {}
      /\ Cur \in Slot /\ Cur \in loc.todo
  BY <1>1, RollKnows, CurIn DEF RollPc, Progress, Retired, RevertPc
<1>3. SameJournal(mem', mem) /\ mem'.retiring = {}
  BY <1>1, <1>2 DEF Relaunched, SameJournal
<1>4. \A s \in Slot : Slotted(s)' = Slotted(s)
  <2>1. \A s \in Slot : Slotted(s) = mem.slots[s]
    BY <1>1 DEF Slotted
  <2>2. CASE mem' = mem /\ pc' \in {"roll", "promote", "undo"}
    BY <2>1, <2>2 DEF Slotted
  <2>3. CASE /\ Relaunched(mem', mem, Cur, loc.target) /\ Visits(loc', loc, loc.todo, Rec) /\ pc' = "rollGate"
    <3>1. Cur' = Cur /\ loc'.old = mem.slots[Cur] /\ \A t \in Slot : t # Cur => mem'.slots[t] = mem.slots[t]
      BY <2>3, CurKept DEF Visits, Rec, Relaunched
    <3> QED BY <2>1, <2>3, <3>1 DEF Slotted
  <2> QED BY <1>1, <2>2, <2>3 DEF Over
<1>5. \A p : Spares(p)
  BY <1>1, SparesFacts
<1>6. Spared' /\ Truthful'
  BY <1>1, <1>2, <1>3, <1>4, <1>5, SparedStill, TruthfulSame DEF SameJournal
<1>7. pc' \in {"roll", "promote", "rollGate", "undo"} /\ loc'.todo \cap mem'.touched = {}
  BY <1>1, <1>2, <1>3 DEF Over, Visits, SameJournal
<1>8. Progress' /\ Retired'
  BY <1>3, <1>7 DEF Progress, Retired
<1> QED BY <1>6, <1>7, <1>8, HonestOnward DEF RevertPc

LEMMA HonestRollCommit ==
  ASSUME TypeOK, Placed, Machine, Honest, RollCommit
  PROVE  Honest'
<1>1. /\ pc = "rollGate" /\ Moved /\ Still /\ before' = before /\ Placed' /\ loc.todo # {} /\ loc' = loc
      /\ OneMore(mem', mem, loc.old.ver)
      /\ \/ /\ mem'.slots[Cur].pid = Rec.pid /\ PutBack(mem'.slots[Cur])
            /\ mem'.retiring = mem.retiring /\ pc' = "rollDrain"
         \/ PutBack(loc.old) /\ mem'.retiring = mem.retiring \cup {Rec.pid} /\ pc' = "rollBack"
  BY RollCommitEffect DEF Aside, Placed, AtSlot
<1>2. /\ Spared /\ Truthful /\ loc.after = "fail" /\ loc.todo \cap mem.touched = {} /\ mem.retiring = {}
      /\ Cur \in Slot /\ Cur \in loc.todo /\ Cur' = Cur
  BY <1>1, RollKnows, CurIn, CurKept DEF RollPc, Progress, Retired, RevertPc
<1>3. /\ mem'.touched = mem.touched \cup {Cur}
      /\ \A t \in Slot : t # Cur => mem'.slots[t] = mem.slots[t]
  BY <1>1 DEF OneMore, PutBack
<1>4. \A s \in Slot \ mem'.touched : Slotted(s)' = Slotted(s)
  BY <1>1, <1>2, <1>3 DEF Slotted
<1>5. before[Cur] # 0 => loc.old.ver = before[Cur]
  BY <1>1, <1>2 DEF Spared, Slotted
<1>6. Spared' /\ Truthful'
  BY <1>1, <1>2, <1>3, <1>4, <1>5, SparesFacts, SparedStill, TruthfulMore
<1>7. Progress'
  BY <1>1, <1>2, <1>3 DEF Progress
<1>8. /\ Rec.pid # 0 /\ Rec.pid # loc.old.pid /\ Apart(mem, Cur, loc.old) /\ Apart(mem, Cur, Rec)
  BY <1>1, <1>2 DEF Machine, Replacing, Sounds, Sound, Rec
<1>9. \A t \in Slot : t # Cur => /\ mem'.slots[t].pid # Rec.pid
                                 /\ loc.old.pid # 0 => mem'.slots[t].pid # loc.old.pid
  BY <1>3, <1>8 DEF Apart
<1>10. Retired'
  <2>1. CASE /\ mem'.slots[Cur].pid = Rec.pid /\ PutBack(mem'.slots[Cur])
             /\ mem'.retiring = mem.retiring /\ pc' = "rollDrain"
    BY <1>1, <1>2, <1>8, <1>9, <2>1 DEF Retired
  <2>2. CASE PutBack(loc.old) /\ mem'.retiring = mem.retiring \cup {Rec.pid} /\ pc' = "rollBack"
    <3>1. \A s \in Slot : mem'.slots[s].pid \notin mem'.retiring
      BY <1>2, <1>8, <1>9, <2>2 DEF PutBack
    <3> QED BY <1>1, <1>2, <2>2, <3>1 DEF Retired, Failing
  <2> QED BY <1>1, <2>1, <2>2
<1> QED BY <1>1, <1>6, <1>7, <1>10, HonestOnward DEF RevertPc

LEMMA HonestRollUnproven ==
  ASSUME TypeOK, Placed, Machine, Honest, RollUnproven
  PROVE  Honest'
<1>1. /\ pc = "rollGate" /\ pc' = "rollStop" /\ Moved /\ Still /\ before' = before /\ loc.todo # {}
      /\ loc' = loc /\ mem' = mem
  BY UnprovenEffect DEF Aside, Placed, AtSlot
<1>2. Spared /\ Truthful /\ loc.todo \cap mem.touched = {} /\ mem.retiring = {} /\ Cur' = Cur
  BY <1>1, RollKnows, CurKept DEF RollPc, Progress, Retired, RevertPc
<1>3. \A s \in Slot : Slotted(s)' = Slotted(s)
  BY <1>1, <1>2 DEF Slotted
<1>4. Spared' /\ Truthful'
  BY <1>1, <1>2, <1>3, SparesFacts, SparedStill, TruthfulSame DEF SameJournal
<1>5. Progress' /\ Retired'
  BY <1>1, <1>2 DEF Progress, Retired
<1> QED BY <1>1, <1>4, <1>5, HonestOnward DEF RevertPc

LEMMA HonestRollStop ==
  ASSUME TypeOK, Placed, Machine, Honest, RollStop
  PROVE  Honest'
<1>1. /\ pc = "rollStop" /\ pc' = "undo" /\ Moved /\ before' = before /\ loc.todo # {} /\ loc' = loc
      /\ Spares(Rec.pid) /\ SameJournal(mem', mem) /\ mem'.retiring = mem.retiring /\ PutBack(loc.old)
  BY RollStopEffect, SparesFacts DEF Aside, Placed, AtSlot, Only, SameJournal
<1>2. Spared /\ Truthful /\ mem.retiring = {} /\ Cur \in Slot
  BY <1>1, RollKnows, CurIn DEF RollPc, Retired, RevertPc
<1>3. \A s \in Slot : Slotted(s)' = Slotted(s)
  BY <1>1 DEF Slotted, PutBack
<1>4. \A s \in Slot : Slotted(s).pid # 0 => Slotted(s).pid # Rec.pid
  <2>1. Rec.pid # loc.old.pid /\ Apart(mem, Cur, Rec) /\ Rec.pid # 0
    BY <1>1, <1>2 DEF Machine, Replacing, Sounds, Sound, Rec
  <2>2. \A s \in Slot : s # Cur => Slotted(s) = mem.slots[s]
    BY DEF Slotted
  <2>3. Slotted(Cur) = loc.old
    BY <1>1 DEF Slotted
  <2> QED BY <2>1, <2>2, <2>3 DEF Apart
<1>5. Spared' /\ Truthful'
  BY <1>1, <1>2, <1>3, <1>4, SparedStep, TruthfulSame DEF SameJournal
<1>6. Progress' /\ Retired'
  BY <1>1, <1>2 DEF Progress, Retired
<1> QED BY <1>1, <1>5, <1>6, HonestOnward DEF RevertPc

LEMMA HonestRollBack ==
  ASSUME TypeOK, Placed, Machine, Honest, RollBack \/ Undo
  PROVE  Honest'
<1>1. /\ pc \in {"rollBack", "undo"} /\ pc' \in {"rollRetire", "revert"} /\ (pc' = "rollRetire" => pc = "rollBack")
      /\ Moved /\ Still /\ before' = before /\ loc' = loc /\ mem' = mem
  BY RollBackEffect, UndoEffect DEF Aside
<1>2. Spared /\ Truthful /\ Retired /\ loc.after = "fail"
  BY <1>1, RollKnows DEF RollPc
<1>3. \A s \in Slot : Slotted(s)' = Slotted(s)
  BY <1>1 DEF Slotted
<1>4. Spared' /\ Truthful'
  BY <1>1, <1>2, <1>3, SparesFacts, SparedStill, TruthfulSame DEF SameJournal
<1>5. CASE pc' = "revert"
  BY <1>1, <1>2, <1>4, <1>5, HonestToRevert
<1>6. CASE pc' = "rollRetire"
  <2>1. Progress' /\ Retired'
    BY <1>1, <1>2, <1>6 DEF Progress, Retired, Failing
  <2> QED BY <1>4, <1>6, <2>1, HonestOnward DEF RevertPc
<1> QED BY <1>1, <1>5, <1>6

LEMMA HonestRollRetire ==
  ASSUME TypeOK, Placed, Machine, Honest, RollRetire
  PROVE  Honest'
<1>1. PICK p \in mem.retiring : Spares(p)
  BY RollRetireEffect, SparesFacts
<1>2. /\ pc = "rollRetire" /\ pc' = "revert" /\ Moved /\ before' = before /\ loc' = loc /\ mem' = mem
  BY RollRetireEffect DEF Aside
<1>3. /\ Spared /\ Truthful /\ loc.after = "fail"
      /\ \A s \in Slot : mem.slots[s].pid \notin mem.retiring
  BY <1>2, RollKnows DEF RollPc, Retired
<1>4. \A s \in Slot : Slotted(s)' = Slotted(s) /\ Slotted(s) = mem.slots[s]
  BY <1>2 DEF Slotted
<1>5. Spared' /\ Truthful'
  BY <1>1, <1>2, <1>3, <1>4, SparedStep, TruthfulSame DEF SameJournal
<1> QED BY <1>2, <1>3, <1>5, HonestToRevert

LEMMA HonestRollDrain ==
  ASSUME TypeOK, Placed, Machine, Honest, RollDrain
  PROVE  Honest'
<1>1. /\ pc = "rollDrain" /\ Moved /\ before' = before /\ mem' = mem /\ loc.todo # {} /\ Spares(loc.old.pid)
      /\ pc' \in {"roll", "promote"} /\ loc'.todo = loc.todo \ {Cur}
  BY RollDrainEffect, SparesFacts DEF Aside, Over, Visits, Placed, AtSlot
<1>2. /\ Spared /\ Truthful /\ loc.todo \cap mem.touched \subseteq {Cur} /\ mem.retiring = {}
      /\ \A s \in Slot : loc.old.pid # 0 => mem.slots[s].pid # loc.old.pid
  BY <1>1, RollKnows DEF RollPc, Progress, Retired, RevertPc
<1>3. \A s \in Slot : Slotted(s)' = Slotted(s) /\ Slotted(s) = mem.slots[s]
  BY <1>1 DEF Slotted
<1>4. Spared' /\ Truthful'
  BY <1>1, <1>2, <1>3, SparedStep, TruthfulSame DEF SameJournal
<1>5. Progress' /\ Retired'
  BY <1>1, <1>2 DEF Progress, Retired
<1> QED BY <1>1, <1>4, <1>5, HonestOnward DEF RevertPc

LEMMA HonestDrained ==
  ASSUME TypeOK, Placed, Honest, pc \in {"drainStop", "drainSave"}, Drained, before' = before,
         SameJournal(mem', mem), mem'.retiring = mem.retiring, Spared'
  PROVE  Honest'
<1>1. /\ Truthful /\ mem.retiring = {} /\ loc.todo \cap mem.touched \subseteq {Cur} /\ Cur \in mem.touched
      /\ \A s \in Slot : before[s] # 0 => s \in mem.touched \cup loc.todo
  BY RollKnows DEF Progress, Retired, RevertPc, ClassicPc
<1>2. Truthful' /\ mem'.touched = mem.touched
  BY <1>1, TruthfulSame DEF SameJournal
<1>3. CASE loc.todo = {Cur}
  <2>1. pc' = "launch" /\ \A s \in Slot : before'[s] # 0 => s \in mem'.touched
    BY <1>1, <1>2, <1>3 DEF Drained
  <2>2. Progress' /\ Retired'
    BY <1>1, <2>1 DEF Progress, Retired
  <2> QED BY <1>2, <2>1, <2>2, HonestOnward DEF RevertPc
<1>4. CASE loc.todo # {Cur}
  <2>1. pc' = "drain" /\ loc'.todo = loc.todo \ {Cur}
    BY <1>4 DEF Drained, Visits
  <2>2. loc'.todo \cap mem'.touched = {} /\ \A s \in Slot : before'[s] # 0 => s \in mem'.touched \cup loc'.todo
    BY <1>1, <1>2, <2>1
  <2>3. Progress' /\ Retired'
    BY <1>1, <2>1, <2>2 DEF Progress, Retired
  <2> QED BY <1>2, <2>1, <2>3, HonestOnward DEF RevertPc
<1> QED BY <1>3, <1>4

LEMMA HonestClassicMark ==
  ASSUME TypeOK, Placed, Machine, Honest, ClassicMark
  PROVE  Honest'
<1>1. /\ pc = "drain" /\ pc' \in {"drainStop", "revert"} /\ Moved /\ Still /\ before' = before /\ loc' = loc
      /\ loc.todo # {} /\ mem'.slots = mem.slots /\ mem'.retiring = mem.retiring /\ OneMore(mem', mem, Rec.ver)
  BY ClassicMarkEffect DEF Aside, SameSlots, Placed, AtSlot
<1>2. /\ Spared /\ Truthful /\ loc.after = "fail" /\ mem.retiring = {} /\ loc.todo \cap mem.touched = {}
      /\ Cur \in Slot /\ Cur \in loc.todo /\ Cur' = Cur
      /\ \A s \in Slot : before[s] # 0 => s \in mem.touched \cup loc.todo
  BY <1>1, RollKnows, CurIn, CurKept DEF Progress, Retired, RevertPc, ClassicPc
<1>3. mem'.touched = mem.touched \cup {Cur}
  BY <1>1 DEF OneMore
<1>4. \A s \in Slot : Slotted(s)' = Slotted(s) /\ Slotted(s) = mem.slots[s]
  BY <1>1 DEF Slotted
<1>5. before[Cur] # 0 => Rec.ver = before[Cur]
  BY <1>2, <1>4 DEF Spared, Rec
<1>6. Spared' /\ Truthful'
  BY <1>1, <1>2, <1>3, <1>4, <1>5, SparesFacts, SparedStill, TruthfulMore
<1>7. CASE pc' = "revert"
  BY <1>1, <1>2, <1>6, <1>7, HonestToRevert
<1>8. CASE pc' = "drainStop"
  <2>1. Progress' /\ Retired'
    BY <1>1, <1>2, <1>3, <1>8 DEF Progress, Retired
  <2> QED BY <1>6, <1>8, <2>1, HonestOnward DEF RevertPc
<1> QED BY <1>1, <1>7, <1>8

LEMMA HonestClassicStop ==
  ASSUME TypeOK, Placed, Machine, Honest, ClassicStop \/ ClassicSave
  PROVE  Honest'
<1>1. /\ pc \in {"drainStop", "drainSave"} /\ Moved /\ before' = before /\ loc.todo # {} /\ Spares(Rec.pid)
      /\ SameJournal(mem', mem) /\ mem'.retiring = mem.retiring
      /\ \A t \in Slot : t # Cur => mem'.slots[t] = mem.slots[t]
      /\ \/ loc' = loc /\ pc' = "drainSave"
         \/ Drained
  <2>1. CASE ClassicStop
    BY <2>1, ClassicStopEffect, SparesFacts DEF Aside, Rewritten, Only, SameJournal, Placed, AtSlot
  <2>2. CASE ClassicSave
    BY <2>2, ClassicSaveEffect, SparesFacts DEF Aside, SameJournal, Placed, AtSlot
  <2> QED BY <2>1, <2>2
<1>2. /\ Spared /\ Truthful /\ mem.retiring = {} /\ Cur \in mem.touched /\ Cur \in Slot
      /\ loc.todo \cap mem.touched \subseteq {Cur}
      /\ \A s \in Slot : before[s] # 0 => s \in mem.touched \cup loc.todo
  BY <1>1, RollKnows, CurIn DEF Progress, Retired, RevertPc, ClassicPc
<1>3. \A s \in Slot \ mem'.touched : Slotted(s)' = Slotted(s) /\ (Slotted(s).pid # 0 => Slotted(s).pid # Rec.pid)
  <2>1. Apart(mem, Cur, Rec)
    BY <1>2 DEF Machine, Sounds, Sound, Rec
  <2>2. pc' \notin {"rollGate", "rollStop"}
    BY <1>1 DEF Drained
  <2>3. \A s \in Slot \ mem'.touched : s # Cur
    BY <1>1, <1>2 DEF SameJournal
  <2> QED BY <1>1, <2>1, <2>2, <2>3 DEF Slotted, Apart
<1>4. Spared'
  BY <1>1, <1>2, <1>3, SparedStep DEF SameJournal
<1>5. CASE Drained
  BY <1>1, <1>4, <1>5, HonestDrained
<1>6. CASE loc' = loc /\ pc' = "drainSave"
  <2>1. Cur' = Cur /\ Truthful' /\ mem'.touched = mem.touched
    BY <1>1, <1>2, <1>6, CurKept, TruthfulSame DEF SameJournal
  <2>2. Progress' /\ Retired'
    BY <1>1, <1>2, <1>6, <2>1 DEF Progress, Retired
  <2> QED BY <1>4, <1>6, <2>1, <2>2, HonestOnward DEF RevertPc
<1> QED BY <1>1, <1>5, <1>6

LEMMA HonestClassicLaunch ==
  ASSUME TypeOK, Placed, Machine, Honest,
         ClassicLaunch \/ ClassicCommit \/ ClassicUnproven \/ ClassicUnlaunch
  PROVE  Honest'
<1>1. /\ pc \in {"launch", "gate", "gateStop"} /\ before' = before
      /\ SameJournal(mem', mem) /\ mem'.retiring = mem.retiring
      /\ \/ pc' \in {"launch", "promote"}
         \/ loc' = loc /\ pc' \in {"gate", "gateStop", "undo", "revert"}
  <2>1. CASE ClassicLaunch
    BY <2>1, ClassicLaunchEffect DEF Aside, Only, Relaunched, SameJournal
  <2>2. CASE ClassicCommit
    BY <2>2, ClassicCommitEffect DEF Aside, Rewritten, Only, SameJournal, Over
  <2>3. CASE ClassicUnproven
    BY <2>3, UnprovenEffect DEF Aside, SameJournal
  <2>4. CASE ClassicUnlaunch
    BY <2>4, ClassicUnlaunchEffect DEF Aside, Rewritten, Only, SameJournal
  <2> QED BY <2>1, <2>2, <2>3, <2>4
<1>2. /\ Truthful /\ loc.after = "fail" /\ mem.retiring = {}
      /\ \A s \in Slot : before[s] # 0 => s \in mem.touched
  BY <1>1, RollKnows DEF Progress, Retired, RevertPc, ClassicPc
<1>3. Spared' /\ Truthful' /\ \A s \in Slot : before'[s] # 0 => s \in mem'.touched
  BY <1>1, <1>2, SparedAll, TruthfulSame DEF SameJournal
<1>4. CASE pc' = "revert"
  BY <1>1, <1>2, <1>3, <1>4, HonestToRevert
<1>5. CASE pc' \in {"launch", "promote", "gate", "gateStop", "undo"}
  <2>1. Progress' /\ Retired'
    BY <1>1, <1>2, <1>3, <1>5 DEF Progress, Retired
  <2> QED BY <1>3, <1>5, <2>1, HonestOnward DEF RevertPc
<1> QED BY <1>1, <1>4, <1>5

LEMMA HonestElsewhere ==
  ASSUME TypeOK, Placed, Honest, loc.after # "fail",
         RevertBegin \/ RevertSkip \/ RevertStop \/ RevertLaunch \/ RevertProven \/ RevertSave
           \/ RevertUnproven \/ RevertUndo \/ RevertRecord \/ RecoveryRequired \/ RevertEnd
  PROVE  Honest'
<1>1. mem.retiring = {}
  BY DEF Honest, Retired, Failing, Placed,
         RevertBegin, RevertSkip, RevertStop, RevertLaunch, RevertProven, RevertSave, RevertUnproven,
         RevertUndo, RevertRecord, RecoveryRequired, RevertEnd
<1>2. CASE WentBack /\ state'.retiring = mem.retiring /\ Placed'
  <2>1. mem'.retiring = {}
    BY <1>1, <1>2, NoFleetFacts DEF WentBack, Ended
  <2>2. pc' = "prepare" \/ (pc' = "idle" /\ outcome' # "failed")
    BY <1>2 DEF WentBack, Ended
  <2> QED BY <1>2, <2>1, <2>2, HonestCalm
<1>3. CASE GaveUp /\ Placed'
  <2>1. mem'.retiring = {} /\ pc' = "idle" /\ outcome' # "failed"
    BY <1>3, NoFleetFacts DEF GaveUp, Ended
  <2> QED BY <1>3, <2>1, HonestCalm
<1>4. CASE pc' \in RevertPc /\ loc'.after = loc.after /\ mem'.retiring = mem.retiring /\ Placed'
  BY <1>1, <1>4, HonestCalm
<1>5. CASE RevertBegin
  BY <1>2, <1>3, <1>4, <1>5, RevertBeginEffect DEF SameSlots, Visits, RevertPc
<1>6. CASE RevertSkip
  BY <1>4, <1>6, RevertSkipEffect DEF Over, Visits, RevertPc
<1>7. CASE RevertStop
  BY <1>3, <1>4, <1>7, RevertStopEffect DEF Rewritten, Only, RevertPc
<1>8. CASE RevertLaunch
  BY <1>4, <1>8, RevertLaunchEffect DEF Relaunched, Only, RevertPc
<1>9. CASE RevertProven \/ RevertUndo
  BY <1>4, <1>9, RevertProvenEffect, RevertUndoEffect DEF Rewritten, Only, RevertPc
<1>10. CASE RevertSave
  BY <1>3, <1>4, <1>10, RevertSaveEffect DEF Over, Visits, RevertPc
<1>11. CASE RevertUnproven
  BY <1>4, <1>11, UnprovenEffect DEF RevertPc
<1>12. CASE RevertRecord
  BY <1>3, <1>4, <1>12, RevertRecordEffect DEF RevertPc
<1>13. CASE RecoveryRequired
  BY <1>3, <1>13, RecoveryEffect
<1>14. CASE RevertEnd
  BY <1>2, <1>3, <1>14, RevertEndEffect DEF SameSlots
<1> QED BY <1>5, <1>6, <1>7, <1>8, <1>9, <1>10, <1>11, <1>12, <1>13, <1>14

LEMMA HonestReverting ==
  ASSUME pc' \in RevertPc \ {"revert"}, loc'.after = "fail", Truthful', loc'.todo \subseteq mem'.touched,
         \A s \in Slot \ loc'.todo : ServedNext(s, mem'.slots[s]),
         pc' = "revertEnd" => loc'.todo = {},
         pc' = "revertGate" => Rec'.ver = mem'.from[Cur'],
         pc' = "revertSave" => ServedNext(Cur', Rec')
  PROVE  Honest'
<1>1. ServedBut(loc.todo)' /\ (pc' = "revertSave" => Served(Cur, Rec)')
  BY DEF ServedBut, Served, ServedNext
<1>2. pc' \in RevertPc /\ pc' \notin {"revert", "rollBack", "rollRetire", "build"}
  BY DEF RevertPc
<1> QED BY <1>1, <1>2
        DEF Honest, FailedHonest, Untouched, Journal, GoingBack, Failing, RollsOut, Progress, Retired, RevertPc

LEMMA HonestFailed ==
  ASSUME Ended("failed"), state' \in Fleet, \A s \in Slot : ServedNext(s, state'.slots[s])
  PROVE  Honest'
<1>1. FailedHonest'
  <2>1. state'.on \in SUBSET Slot
    BY FleetFields
  <2> QED BY <2>1 DEF FailedHonest, Served, ServedNext
<1>2. mem' = NoFleet /\ loc' = NoLoc /\ pc' = "idle" /\ mem'.retiring = {} /\ ~Failing' /\ ~RollsOut'
  BY NoFleetFacts, NoLocFacts DEF Ended, Failing, RollsOut
<1> QED BY <1>1, <1>2 DEF Honest, Untouched, Journal, Progress, GoingBack, Retired

\* What the revert's steps know.
LEMMA RevertKnows ==
  ASSUME TypeOK, Placed, Honest, pc \in RevertPc \ {"revert"}, loc.after = "fail"
  PROVE  /\ Truthful /\ loc.todo \subseteq mem.touched /\ ServedBut(loc.todo)
         /\ pc = "revertEnd" => loc.todo = {}
         /\ pc = "revertGate" => Rec.ver = mem.from[Cur]
         /\ pc = "revertSave" => Served(Cur, Rec)
BY DEF Honest, GoingBack, Journal, Failing

LEMMA HonestGaveUp ==
  ASSUME GaveUp, Placed', loc.after = "fail"
  PROVE  Honest'
<1>1. mem'.retiring = {} /\ pc' = "idle" /\ outcome' # "failed"
  BY NoFleetFacts DEF GaveUp, Ended
<1> QED BY <1>1, HonestCalm

LEMMA HonestRevertBegin ==
  ASSUME TypeOK, Placed, Machine, Honest, RevertBegin, loc.after = "fail"
  PROVE  Honest'
<1>1. /\ pc = "revert" /\ Placed' /\ Still /\ Moved /\ before' = before /\ TypeOK'
      /\ \/ mem.touched = {} /\ SameSlots(state', mem) /\ WentBack
         \/ /\ SameSlots(mem', mem) /\ SameJournal(mem', mem) /\ pc' = "revertSlot"
            /\ Visits(loc', loc, mem.touched, loc.old)
         \/ GaveUp
  BY RevertBeginEffect
<1>2. Truthful /\ ServedBut(mem.touched) /\ \A p : Spares(p)
  BY <1>1, SparesFacts DEF Honest, GoingBack, Journal, Failing
<1>3. CASE mem.touched = {} /\ SameSlots(state', mem) /\ WentBack
  <2>1. \A s \in Slot : ServedNext(s, mem.slots[s])
    <3>1. \A s \in Slot : mem.slots[s].pid \in 0 .. launched /\ Served(s, mem.slots[s])
      BY <1>2, <1>3, SlotKnown DEF ServedBut
    <3>2. launched \in Nat
      BY TypesNow, BoundsAssumption
    <3>3. \A s \in Slot : mem.slots[s].pid # launched + 1
      BY <3>1, <3>2
    <3> QED BY <1>1, <1>2, <3>1, <3>3, ServedStays
  <2>2. Ended("failed") /\ state' \in Fleet /\ state'.slots = mem.slots
    BY <1>3 DEF WentBack, SameSlots
  <2> QED BY <2>1, <2>2, HonestFailed
<1>4. CASE /\ SameSlots(mem', mem) /\ SameJournal(mem', mem) /\ pc' = "revertSlot"
           /\ Visits(loc', loc, mem.touched, loc.old)
  <2>1. loc'.todo = mem.touched /\ mem'.touched = mem.touched /\ mem'.slots = mem.slots /\ loc'.after = "fail"
    BY <1>4 DEF Visits, SameSlots, SameJournal
  <2>2. \A s \in Slot \ loc'.todo : ServedNext(s, mem'.slots[s])
    BY <1>1, <1>2, <2>1, ServedButStill
  <2>3. Truthful'
    BY <1>1, <1>2, <1>4, TruthfulSame
  <2> QED BY <1>4, <2>1, <2>2, <2>3, HonestReverting DEF RevertPc
<1>5. CASE GaveUp
  BY <1>1, <1>5, HonestGaveUp
<1> QED BY <1>1, <1>3, <1>4, <1>5

LEMMA HonestRevertSkip ==
  ASSUME TypeOK, Placed, Machine, Honest, RevertSkip, loc.after = "fail"
  PROVE  Honest'
<1>1. /\ pc = "revertSlot" /\ Still /\ Moved /\ before' = before /\ mem' = mem /\ loc.todo # {}
      /\ loc'.todo = loc.todo \ {Cur} /\ loc'.after = "fail"
      /\ pc' = (IF loc.todo \ {Cur} = {} THEN "revertEnd" ELSE "revertSlot")
      /\ (Rec.ver = mem.from[Cur] /\ Live(Rec)) \/ mem.from[Cur] = 0
  BY RevertSkipEffect DEF Aside, Over, Visits, Placed, AtSlot
<1>2. /\ Truthful /\ loc.todo \subseteq mem.touched /\ ServedBut(loc.todo)
      /\ Cur \in Slot /\ Cur \in loc.todo /\ \A p : Spares(p)
  BY <1>1, RevertKnows, CurIn, SparesFacts DEF RevertPc
<1>3. Served(Cur, mem.slots[Cur])
  <2>1. before[Cur] # 0 => mem.from[Cur] = before[Cur]
    BY <1>2 DEF Truthful
  <2>2. Live(Rec) => builtAs[Rec.pid] = Rec.ver /\ Rec.pid # 0 /\ Rec.pid \in running
    BY <1>2, Zero DEF Machine, Sounds, Sound, RecOK, Rec, Live
  <2> QED BY <1>1, <2>1, <2>2 DEF Served, Rec
<1>4. ServedBut(loc.todo \ {Cur})
  BY <1>2, <1>3 DEF ServedBut
<1>5. \A s \in Slot \ loc'.todo : ServedNext(s, mem'.slots[s])
  BY <1>1, <1>2, <1>4, ServedButStill
<1>6. Truthful' /\ loc'.todo \subseteq mem'.touched
  BY <1>1, <1>2, TruthfulSame DEF SameJournal
<1> QED BY <1>1, <1>5, <1>6, HonestReverting DEF RevertPc

LEMMA HonestRevertSlot ==
  ASSUME TypeOK, Placed, Machine, Honest, loc.after = "fail", pc \in RevertPc \ {"revert", "revertEnd"},
         loc.todo # {}, Moved, before' = before, NEW p, Spares(p), p = Rec.pid \/ (\A q : Spares(q)),
         loc' = loc, SameJournal(mem', mem),
         \A t \in Slot : t # Cur => mem'.slots[t] = mem.slots[t],
         pc' \in {"revertSave", "revertLaunch", "revertGate", "revertUndo", "revertRecord", "recovery"},
         pc' = "revertGate" => mem'.slots[Cur].ver = mem.from[Cur],
         pc' = "revertSave" => ServedNext(Cur, mem'.slots[Cur])
  PROVE  Honest'
<1>1. /\ Truthful /\ loc.todo \subseteq mem.touched /\ ServedBut(loc.todo)
      /\ Cur \in Slot /\ Cur \in loc.todo /\ Cur' = Cur
  BY RevertKnows, CurIn, CurKept
<1>2. \A s \in Slot \ loc.todo : mem'.slots[s] = mem.slots[s]
  BY <1>1
<1>3. \A s \in Slot \ loc.todo : ServedNext(s, mem'.slots[s])
  <2>1. CASE \A q : Spares(q)
    BY <1>1, <1>2, <2>1, ServedButStill
  <2>2. CASE p = Rec.pid
    <3>1. Apart(mem, Cur, Rec)
      BY <1>1 DEF Machine, Sounds, Sound, Rec
    <3>2. \A s \in Slot \ loc.todo : mem.slots[s].pid # 0 => mem.slots[s].pid # p
      BY <1>1, <2>2, <3>1 DEF Apart
    <3> QED BY <1>1, <1>2, <3>2, ServedButStep
  <2> QED BY <2>1, <2>2
<1>4. Truthful' /\ loc'.todo \subseteq mem'.touched /\ mem'.from = mem.from
  BY <1>1, TruthfulSame DEF SameJournal
<1>5. Rec' = mem'.slots[Cur]
  BY <1>1 DEF Rec
<1> QED BY <1>1, <1>3, <1>4, <1>5, HonestReverting DEF RevertPc

LEMMA HonestRevertStop ==
  ASSUME TypeOK, Placed, Machine, Honest, RevertStop, loc.after = "fail"
  PROVE  Honest'
<1>1. /\ pc = "revertSlot" /\ Placed' /\ Moved /\ before' = before /\ loc.todo # {} /\ Spares(Rec.pid)
      /\ \/ /\ loc' = loc /\ SameJournal(mem', mem)
            /\ \A t \in Slot : t # Cur => mem'.slots[t] = mem.slots[t]
            /\ \/ mem.from[Cur] = 0 /\ pc' = "revertSave"
               \/ pc' \in {"revertLaunch", "recovery"}
         \/ GaveUp
  BY RevertStopEffect, SparesFacts DEF Aside, Rewritten, Only, SameJournal, Placed, AtSlot
<1>2. mem.from[Cur] = 0 => before'[Cur] = 0
  BY <1>1, RevertKnows, CurIn DEF RevertPc, Truthful
<1>3. CASE GaveUp
  BY <1>1, <1>3, HonestGaveUp
<1>4. CASE /\ loc' = loc /\ SameJournal(mem', mem)
           /\ \A t \in Slot : t # Cur => mem'.slots[t] = mem.slots[t]
           /\ \/ mem.from[Cur] = 0 /\ pc' = "revertSave"
              \/ pc' \in {"revertLaunch", "recovery"}
  <2>1. pc' = "revertSave" => ServedNext(Cur, mem'.slots[Cur])
    BY <1>2, <1>4 DEF ServedNext
  <2> QED BY <1>1, <1>4, <2>1, HonestRevertSlot DEF RevertPc
<1> QED BY <1>1, <1>3, <1>4

LEMMA HonestRevertLaunch ==
  ASSUME TypeOK, Placed, Machine, Honest, loc.after = "fail",
         RevertLaunch \/ RevertProven \/ RevertUnproven \/ RevertUndo
  PROVE  Honest'
<1>1. CASE RevertLaunch
  <2>1. /\ pc = "revertLaunch" /\ Moved /\ before' = before /\ loc' = loc /\ loc.todo # {}
        /\ \A t \in Slot : t # Cur => mem'.slots[t] = mem.slots[t]
        /\ SameJournal(mem', mem) /\ \A p : Spares(p)
        /\ (mem'.slots[Cur].ver = mem.from[Cur] /\ pc' = "revertGate") \/ pc' = "recovery"
    BY <1>1, RevertLaunchEffect, SparesFacts
       DEF Aside, Relaunched, PutBack, Only, SameJournal, Fizzled, Placed, AtSlot
  <2>2. Spares(Rec.pid)
    BY <2>1
  <2> QED BY <2>1, <2>2, HonestRevertSlot DEF RevertPc
<1>2. CASE RevertProven
  <2>1. /\ pc = "revertGate" /\ pc' = "revertSave" /\ Still /\ Moved /\ before' = before /\ loc' = loc
        /\ loc.todo # {} /\ \A t \in Slot : t # Cur => mem'.slots[t] = mem.slots[t]
        /\ SameJournal(mem', mem) /\ mem'.slots[Cur].pid = Rec.pid /\ Live(Rec) /\ \A p : Spares(p)
    BY <1>2, RevertProvenEffect, SparesFacts DEF Aside, Rewritten, Only, SameJournal, Placed, AtSlot
  <2>2. /\ Cur \in Slot /\ Rec.ver = mem.from[Cur] /\ (before[Cur] # 0 => mem.from[Cur] = before[Cur])
    BY <2>1, RevertKnows, CurIn DEF RevertPc, Truthful
  <2>3. builtAs[Rec.pid] = Rec.ver /\ Rec.pid # 0 /\ Rec.pid \in running
    BY <2>1, <2>2, Zero DEF Machine, Sounds, Sound, RecOK, Rec, Live
  <2>4. ServedNext(Cur, mem'.slots[Cur])
    BY <2>1, <2>2, <2>3 DEF ServedNext, Still
  <2>5. Spares(Rec.pid)
    BY <2>1
  <2> QED BY <2>1, <2>4, <2>5, HonestRevertSlot DEF RevertPc
<1>3. CASE RevertUnproven
  <2>1. /\ pc = "revertGate" /\ pc' = "revertUndo" /\ Moved /\ before' = before /\ loc' = loc
        /\ loc.todo # {} /\ mem' = mem /\ \A p : Spares(p)
    BY <1>3, UnprovenEffect, SparesFacts DEF Aside, Placed, AtSlot
  <2>2. Spares(Rec.pid) /\ SameJournal(mem', mem)
    BY <2>1 DEF SameJournal
  <2> QED BY <2>1, <2>2, HonestRevertSlot DEF RevertPc
<1>4. CASE RevertUndo
  <2>1. /\ pc = "revertUndo" /\ pc' = "revertRecord" /\ Moved /\ before' = before /\ loc' = loc
        /\ loc.todo # {} /\ Spares(Rec.pid) /\ SameJournal(mem', mem)
        /\ \A t \in Slot : t # Cur => mem'.slots[t] = mem.slots[t]
    BY <1>4, RevertUndoEffect, SparesFacts DEF Aside, Rewritten, Only, SameJournal, Placed, AtSlot
  <2> QED BY <2>1, HonestRevertSlot DEF RevertPc
<1> QED BY <1>1, <1>2, <1>3, <1>4

LEMMA HonestRevertSave ==
  ASSUME TypeOK, Placed, Machine, Honest, loc.after = "fail",
         RevertSave \/ RevertRecord \/ RecoveryRequired \/ RevertEnd
  PROVE  Honest'
<1>1. CASE GaveUp /\ Placed'
  BY <1>1, HonestGaveUp
<1>2. CASE RevertSave
  <2>1. /\ pc = "revertSave" /\ Placed' /\ Moved /\ before' = before /\ loc.todo # {} /\ \A p : Spares(p)
        /\ \/ Over("revertSlot", "revertEnd") /\ mem' = mem
           \/ GaveUp
    BY <1>2, RevertSaveEffect, SparesFacts DEF Aside, Placed, AtSlot
  <2>2. CASE Over("revertSlot", "revertEnd") /\ mem' = mem
    <3>1. /\ loc'.todo = loc.todo \ {Cur} /\ loc'.after = "fail"
          /\ pc' = (IF loc.todo \ {Cur} = {} THEN "revertEnd" ELSE "revertSlot")
      BY <2>2 DEF Over, Visits
    <3>2. /\ Truthful /\ loc.todo \subseteq mem.touched /\ ServedBut(loc.todo) /\ Served(Cur, Rec)
      BY <2>1, RevertKnows DEF RevertPc
    <3>3. ServedBut(loc.todo \ {Cur})
      BY <3>2 DEF ServedBut, Rec
    <3>4. \A s \in Slot \ loc'.todo : ServedNext(s, mem'.slots[s])
      BY <2>1, <2>2, <3>1, <3>3, ServedButStill
    <3>5. Truthful' /\ loc'.todo \subseteq mem'.touched
      BY <2>1, <2>2, <3>1, <3>2, TruthfulSame DEF SameJournal
    <3> QED BY <3>1, <3>4, <3>5, HonestReverting DEF RevertPc
  <2> QED BY <1>1, <2>1, <2>2
<1>3. CASE RevertRecord
  <2>1. /\ pc = "revertRecord" /\ Placed' /\ Moved /\ before' = before /\ loc.todo # {} /\ \A p : Spares(p)
        /\ \/ mem' = mem /\ loc' = loc /\ pc' = "recovery"
           \/ GaveUp
    BY <1>3, RevertRecordEffect, SparesFacts DEF Aside, Placed, AtSlot
  <2>2. CASE mem' = mem /\ loc' = loc /\ pc' = "recovery"
    <3>1. Spares(Rec.pid) /\ SameJournal(mem', mem)
      BY <2>1, <2>2 DEF SameJournal
    <3> QED BY <2>1, <2>2, <3>1, HonestRevertSlot DEF RevertPc
  <2> QED BY <1>1, <2>1, <2>2
<1>4. CASE RecoveryRequired
  BY <1>1, <1>4, RecoveryEffect
<1>5. CASE RevertEnd
  <2>1. /\ pc = "revertEnd" /\ Placed' /\ Moved /\ before' = before /\ \A p : Spares(p)
        /\ \/ SameSlots(state', mem) /\ WentBack
           \/ GaveUp
    BY <1>5, RevertEndEffect, SparesFacts DEF Aside
  <2>2. CASE SameSlots(state', mem) /\ WentBack
    <3>1. ServedBut({})
      BY <2>1, RevertKnows DEF RevertPc
    <3>2. \A s \in Slot : ServedNext(s, mem.slots[s])
      <4>1. \A s \in Slot : mem.slots[s].pid \in 0 .. launched /\ Served(s, mem.slots[s])
        BY <3>1, SlotKnown DEF ServedBut
      <4>2. launched \in Nat
        BY TypesNow, BoundsAssumption
      <4>3. \A s \in Slot : mem.slots[s].pid # launched + 1
        BY <4>1, <4>2
      <4> QED BY <2>1, <4>1, <4>3, ServedStays
    <3>3. Ended("failed") /\ state' \in Fleet /\ state'.slots = mem.slots
      BY <2>2 DEF WentBack, SameSlots
    <3> QED BY <3>2, <3>3, HonestFailed
  <2> QED BY <1>1, <2>1, <2>2
<1> QED BY <1>2, <1>3, <1>4, <1>5

LEMMA HonestOpened ==
  ASSUME TypeOK, Placed', NEW to \in {"pass", "start", "stop", "restart", "deploy", "grow", "shrink"}, Opened(to)
  PROVE  Honest'
BY HonestCalm DEF Opened, CommandPc

\* The supervisor's steps, the commands' and the start of a deploy.
LEMMA HonestCommand ==
  ASSUME TypeOK, Placed, Honest, pc \in {"pass", "passed", "deploy"} \cup CommandPc, Placed',
         \/ mem'.retiring = mem.retiring /\ pc' \in {"pass", "passed", "prepare"} \cup CommandPc
         \/ mem'.retiring = mem.retiring /\ pc' = "revert" /\ loc'.after # "fail"
         \/ \E r \in {"error", "stopped", "done", "pass"} : Ended(r)
  PROVE  Honest'
<1>1. mem.retiring = {}
  BY DEF Honest, Retired, Failing, Placed, CommandPc
<1>2. CASE \E r \in {"error", "stopped", "done", "pass"} : Ended(r)
  BY <1>2, NoFleetFacts, HonestCalm DEF Ended
<1> QED BY <1>1, <1>2, HonestCalm DEF RevertPc

LEMMA HonestCommands ==
  ASSUME TypeOK, Placed, Honest,
         StartSlot \/ StartWait \/ StopSlot \/ StopSave \/ StopEnd \/ RestartSlot \/ Relaunch \/ Restarted
           \/ GrowSlot \/ Grown \/ ShrinkStop \/ ShrinkEnd \/ CommandEnd \/ DeployLoad
  PROVE  Honest'
<1>1. CASE StartSlot \/ StartWait
  BY <1>1, StartSlotEffect, StartWaitEffect, HonestCommand DEF Over, Rewritten, Only, Relaunched, CommandPc
<1>2. CASE StopSlot \/ StopSave
  BY <1>2, StopSlotEffect, StopSaveEffect, HonestCommand DEF Over, Rewritten, Only, CommandPc
<1>3. CASE StopEnd \/ CommandEnd
  BY <1>3, StopEndEffect, CommandEndEffect, HonestCommand DEF CommandPc
<1>4. CASE RestartSlot \/ Relaunch \/ Restarted
  BY <1>4, RestartSlotEffect, RelaunchEffect, RestartedEffect, HonestCommand
     DEF Over, Rewritten, Only, Relaunched, CommandPc
<1>5. CASE GrowSlot \/ Grown
  BY <1>5, GrowSlotEffect, GrownEffect, HonestCommand DEF Over, Rewritten, Only, GrownTo, CommandPc
<1>6. CASE ShrinkStop \/ ShrinkEnd
  BY <1>6, ShrinkStopEffect, ShrinkEndEffect, HonestCommand DEF CommandPc
<1>7. CASE DeployLoad
  <2>1. pc = "deploy" /\ pc' \in {"revert", "prepare"} /\ loc' = loc /\ mem' = mem /\ loc.after = "prepare" /\ Placed'
    BY <1>7, DeployLoadEffect DEF Placed
  <2> QED BY <2>1, HonestCommand
<1> QED BY <1>1, <1>2, <1>3, <1>4, <1>5, <1>6, <1>7

LEMMA HonestPass ==
  ASSUME TypeOK, Placed, Honest,
         PassKeeps \/ PassUnhealthy \/ PassEnd \/ (\E reaped \in BOOLEAN : PassRelaunch(reaped))
  PROVE  Honest'
<1>1. CASE PassKeeps
  BY <1>1, HonestCommand DEF PassKeeps, Onward, Rewritten, Only
<1>2. CASE PassUnhealthy
  BY <1>2, PassUnhealthyEffect, HonestCommand DEF Onward, Rewritten, Only
<1>3. CASE PassEnd
  BY <1>3, PassEndEffect, HonestCommand
<1>4. CASE \E reaped \in BOOLEAN : PassRelaunch(reaped)
  <2>1. /\ pc = "pass" /\ Placed' /\ mem'.retiring = mem.retiring /\ pc' \in {"pass", "passed"}
    BY <1>4, PassRelaunchEffect DEF Onward, Rewritten, Only
  <2> QED BY <2>1, HonestCommand
<1> QED BY <1>1, <1>2, <1>3, <1>4

\* Nothing happens but that processes exit by themselves.
LEMMA HonestStill ==
  ASSUME TypeOK, Placed, Machine, Honest, Moved, \A p : Spares(p), before' = before, state' = state,
         pc' = pc, mem' = mem, loc' = loc, outcome' = outcome
  PROVE  Honest'
<1>1. Cur' = Cur /\ Rec' = Rec
  BY RecKept
<1>2. launched \in Nat
  BY TypesNow, BoundsAssumption
<1>3. ASSUME NEW s, NEW r, r.pid \in 0 .. launched, Served(s, r) PROVE Served(s, r)'
  <2>1. r.pid # launched + 1
    BY <1>2, <1>3
  <2> QED BY <1>3, <2>1, ServedSpared
<1>4. \A s \in Slot : /\ mem.slots[s].pid \in 0 .. launched /\ state.slots[s].pid \in 0 .. launched
                      /\ Slotted(s).pid \in 0 .. launched /\ Slotted(s)' = Slotted(s)
  BY <1>1, SlottedKnown DEF Machine, Sounds, Sound, RecOK, Slotted
<1>5. FailedHonest'
  <2>1. state.on \in SUBSET Slot
    BY TypesNow, FleetFields
  <2> QED BY <1>3, <1>4, <2>1 DEF Honest, FailedHonest, Served
<1>6. Untouched'
  <2>1. Spared => Spared'
    BY <1>4, SparedStill
  <2> QED BY <2>1 DEF Honest, Untouched, RollsOut, Failing
<1>7. \A T : ServedBut(T) => ServedBut(T)'
  BY <1>3, <1>4 DEF ServedBut, Served
<1>8. GoingBack'
  <2>1. pc = "revertSave" /\ Failing /\ Served(Cur, Rec) => Served(Cur, Rec)'
    <3> SUFFICES ASSUME pc = "revertSave", Served(Cur, Rec)
                 PROVE  Served(Cur, Rec)'
      OBVIOUS
    <3>1. Cur \in Slot
      BY CurIn DEF Placed, AtSlot
    <3>2. Rec.pid \in 0 .. launched
      BY <1>4, <3>1 DEF Rec
    <3> QED BY <1>1, <1>3, <3>2 DEF Served
  <2>2. ServedBut(mem.touched) => ServedBut(mem.touched)'
    BY <1>7 DEF ServedBut
  <2>3. ServedBut(loc.todo) => ServedBut(loc.todo)'
    BY <1>7 DEF ServedBut
  <2> QED BY <1>1, <2>1, <2>2, <2>3 DEF Honest, GoingBack, Failing
<1>9. Journal' /\ Progress' /\ Retired'
  BY <1>1 DEF Honest, Journal, Truthful, Progress, Retired, Failing, RollsOut
<1> QED BY <1>5, <1>6, <1>8, <1>9 DEF Honest

LEMMA HonestDrain ==
  ASSUME TypeOK, Placed, Machine, Honest, DrainRetirements
  PROVE  Honest'
<1>1. /\ pc = "idle" /\ pc' = "idle" /\ mem' = mem /\ loc' = loc /\ outcome' = outcome /\ Moved
      /\ before' = before /\ state'.on = state.on /\ state'.slots = state.slots /\ died' = died
      /\ running \ (state.retiring \ {state.slots[s].pid : s \in state.on}) \subseteq running'
  BY DrainEffect DEF Ends, Strays, Still
<1>2. mem = NoFleet /\ loc = NoLoc /\ mem.retiring = {} /\ ~Failing /\ ~RollsOut
  BY <1>1, NoFleetFacts, NoLocFacts DEF Placed, Failing, RollsOut
<1>3. launched \in Nat /\ running \subseteq 1 .. launched /\ \A p \in 1 .. launched : builtAs'[p] = builtAs[p]
  BY <1>1, TypesNow, BoundsAssumption DEF Moved
<1>4. ASSUME NEW s \in state.on, Served(s, state.slots[s])
      PROVE  ServedNext(s, state.slots[s])
  <2>1. s \in Slot
    BY TypesNow, FleetFields
  <2>2. state.slots[s].pid \in 0 .. launched
    BY <2>1 DEF Machine, Sounds, Sound, RecOK
  <2>3. state.slots[s].pid \in running \cup died => state.slots[s].pid \in running' \cup died'
    BY <1>1
  <2>4. state.slots[s].pid # 0 => state.slots[s].pid \in 1 .. launched
    BY <1>3, <2>2
  <2> QED BY <1>1, <1>3, <1>4, <2>3, <2>4 DEF Served, ServedNext
<1>5. FailedHonest'
  BY <1>1, <1>4 DEF Honest, FailedHonest, Served, ServedNext
<1> QED BY <1>1, <1>2, <1>5 DEF Honest, Untouched, Journal, Progress, GoingBack, Retired, Failing, RollsOut

LEMMA HonestElse ==
  ASSUME TypeOK, Placed, Machine, Honest,
         Promote \/ Killed \/ MonitorRestart \/ (\E p \in Proc : Exit(p)) \/ UNCHANGED fvars
  PROVE  Honest'
<1>1. CASE Placed' /\ \E r \in {"deployed", "unsettled", "killed", "none"} : Ended(r)
  BY <1>1, NoFleetFacts, HonestCalm DEF Ended
<1>2. CASE Promote
  BY <1>1, <1>2, PromoteEffect
<1>3. CASE Killed
  BY <1>1, <1>3, KilledEffect
<1>4. CASE MonitorRestart
  <2>1. /\ Placed' /\ Still /\ Moved /\ state' = state /\ before' = before
        /\ \/ state.retiring = {} /\ pc' = "revert" /\ mem' = state /\ loc'.after = "boot"
           \/ Ended("none")
           \/ pc' = pc /\ mem' = mem /\ loc' = loc /\ outcome' = outcome
    BY <1>4, MonitorEffect
  <2>2. CASE state.retiring = {} /\ pc' = "revert" /\ mem' = state /\ loc'.after = "boot"
    BY <2>1, <2>2, HonestCalm DEF RevertPc
  <2>3. CASE pc' = pc /\ mem' = mem /\ loc' = loc /\ outcome' = outcome
    BY <2>1, <2>3, SparesFacts, HonestStill
  <2> QED BY <1>1, <2>1, <2>2, <2>3
<1>5. CASE \E p \in Proc : Exit(p)
  <2>1. /\ Moved /\ before' = before /\ state' = state /\ pc' = pc /\ mem' = mem /\ loc' = loc
        /\ outcome' = outcome /\ running \cup died \subseteq running' \cup died' /\ died \subseteq died'
    BY <1>5, ExitEffect
  <2>2. \A p : Spares(p)
    BY <2>1 DEF Spares
  <2> QED BY <2>1, <2>2, HonestStill
<1>6. CASE UNCHANGED fvars
  <2>1. UNCHANGED Procs /\ before' = before /\ state' = state /\ pc' = pc /\ mem' = mem /\ loc' = loc
        /\ outcome' = outcome
    BY <1>6 DEF fvars, Procs
  <2>2. Still /\ Moved
    BY <2>1, ProcsStill
  <2> QED BY <2>1, <2>2, SparesFacts, HonestStill
<1> QED BY <1>2, <1>3, <1>4, <1>5, <1>6

LEMMA HonestRevert ==
  ASSUME TypeOK, Placed, Machine, Honest,
         RevertBegin \/ RevertSkip \/ RevertStop \/ RevertLaunch \/ RevertProven \/ RevertSave
           \/ RevertUnproven \/ RevertUndo \/ RevertRecord \/ RecoveryRequired \/ RevertEnd
  PROVE  Honest'
<1>1. CASE loc.after = "fail"
  BY <1>1, HonestRevertBegin, HonestRevertSkip, HonestRevertStop, HonestRevertLaunch, HonestRevertSave
<1>2. CASE loc.after # "fail"
  BY <1>2, HonestElsewhere
<1> QED BY <1>1, <1>2

LEMMA HonestNext ==
  ASSUME TypeOK, Placed, Machine, Honest, [Next]_fvars
  PROVE  Honest'
<1>1. CASE BeginPass \/ BeginStart \/ BeginStop \/ BeginRestart \/ BeginDeploy
           \/ (\E n \in 1 .. MaxReplicas : BeginGrow(n)) \/ (\E n \in 1 .. MaxReplicas : BeginShrink(n))
  <2>1. Placed' /\ \E to \in {"pass", "start", "stop", "restart", "deploy", "grow", "shrink"} : Opened(to)
    BY <1>1, BeginPassEffect, BeginLoopEffect, BeginDeployEffect, BeginGrowEffect, BeginShrinkEffect
  <2> QED BY <2>1, HonestOpened
<1>2. CASE PassLive \/ PassProbe \/ (\E reaped \in BOOLEAN : PassExit(reaped))
           \/ (\E reaped, live \in BOOLEAN : PassOver(reaped, live))
  BY <1>2, PassLiveEffect, PassProbeEffect, PassExitEffect, PassOverEffect, HonestPass
<1>3. Steps \/ UNCHANGED fvars
  BY NextIs
<1> QED BY <1>1, <1>2, <1>3, HonestPass, HonestCommands, HonestPrepare, HonestBuild, HonestRollSlot,
           HonestRollCommit, HonestRollUnproven, HonestRollStop, HonestRollBack, HonestRollRetire,
           HonestRollDrain, HonestClassicMark, HonestClassicStop, HonestClassicLaunch, HonestRevert,
           HonestDrain, HonestElse DEF Steps

LEMMA HonestInit ==
  ASSUME Init
  PROVE  Honest
<1>1. pc = "idle" /\ outcome = "none" /\ mem = NoFleet /\ loc = NoLoc
  BY DEF Init
<1>2. mem.retiring = {} /\ ~Failing /\ ~RollsOut
  BY <1>1, NoFleetFacts, NoLocFacts DEF Failing, RollsOut
<1> QED BY <1>1, <1>2 DEF Honest, FailedHonest, Untouched, Journal, Progress, GoingBack, Retired

\* "The returned error always describes the fleet state truthfully" (worker.go): when a deploy
\* fails and its revert reports success, every slot that ran a version before the deploy has a
\* process of that version again, unless that process exited by itself.  Whatever the deploy's
\* strategy, and whichever stop, launch, probe or Store failed on the way.
THEOREM FailureIsHonest == Spec => []HonestFailure
<1>1. Init => TypeOK /\ Placed /\ Machine /\ Honest
  BY TypesInit, MachineInit, HonestInit
<1>2. TypeOK /\ Placed /\ Machine /\ Honest /\ [Next]_fvars => (TypeOK /\ Placed /\ Machine /\ Honest)'
  BY TypesNext, MachineNext, HonestNext
<1>3. Honest => HonestFailure
  BY DEF Honest, FailedHonest, Served, HonestFailure
<1> QED BY <1>1, <1>2, <1>3, PTL DEF Spec

-----------------------------------------------------------------------------
(* A rolling deploy ends what a slot ran only once its replacement is recorded. *)

\* The process of the record put aside is slot s's again only with the version the journal has.
SameAgain(s) == loc.old.pid # 0 /\ mem.slots[s].pid = loc.old.pid => mem.slots[s].ver = mem.from[s]

\* The steps after a replacement has failed.
UndoPc == {"undo", "rollBack", "rollRetire"} \cup RevertPc

\* What the steps know of the record put aside.
PutAside ==
  /\ pc \in {"deploy", "prepare", "build", "roll", "promote"} \cup ClassicPc => loc.old.pid = 0
  /\ pc \in RevertPc /\ ~Failing => loc.old.pid = 0
  /\ pc = "rollDrain" => state.slots[Cur].status = "running" /\ state.slots[Cur].pid # loc.old.pid
  /\ pc \in UndoPc => loc.old.pid \in 0 .. launched /\ \A s \in mem.touched : SameAgain(s)
  /\ pc \in {"rollBack", "rollRetire"} => loc.old.pid \notin mem.retiring
  /\ pc \in {"revertGate", "revertUndo"} => Rec.pid # loc.old.pid

LEMMA AsideNone ==
  ASSUME TypeOK', loc'.old.pid = 0,
         pc' \notin {"rollDrain", "rollBack", "rollRetire", "revertGate", "revertUndo"}
  PROVE  PutAside'
<1>1. 0 \in 0 .. launched'
  BY BoundsAssumption DEF TypeOK
<1> QED BY <1>1 DEF PutAside, SameAgain

LEMMA AsideElse ==
  ASSUME pc' \notin {"deploy", "prepare", "build", "roll", "promote", "rollDrain"} \cup ClassicPc \cup UndoPc
  PROVE  PutAside'
BY DEF PutAside, UndoPc, RevertPc

LEMMA AsideKept ==
  ASSUME TypeOK, Placed, PutAside, Moved, mem' = mem, loc' = loc,
         \/ pc' = pc /\ state' = state
         \/ pc \in UndoPc \ {"revertGate", "revertUndo"} /\ pc' \in UndoPc \ {"revertGate", "revertUndo", "rollBack"}
            /\ (pc' = "rollRetire" => pc = "rollBack") /\ (pc \in RevertPc \/ loc.after = "fail")
         \/ pc = "revertGate" /\ pc' = "revertUndo"
  PROVE  PutAside'
<1>1. Cur' = Cur /\ Rec' = Rec
  BY RecKept
<1>2. \A n \in 0 .. launched : n \in 0 .. launched'
  BY TypesNow, BoundsAssumption DEF Moved
<1>3. \A s : SameAgain(s)' = SameAgain(s)
  BY DEF SameAgain
<1>4. CASE pc' = pc /\ state' = state
  BY <1>1, <1>2, <1>3, <1>4 DEF PutAside, SameAgain, Failing
<1>5. CASE pc \in UndoPc \ {"revertGate", "revertUndo"} /\ pc' \in UndoPc \ {"revertGate", "revertUndo", "rollBack"}
           /\ (pc' = "rollRetire" => pc = "rollBack") /\ (pc \in RevertPc \/ loc.after = "fail")
  <2>1. pc' \notin {"deploy", "prepare", "build", "roll", "promote", "rollDrain", "revertGate", "revertUndo"} \cup ClassicPc
    BY <1>5 DEF UndoPc, RevertPc, ClassicPc
  <2> QED BY <1>1, <1>2, <1>5, <2>1 DEF PutAside, SameAgain, Failing
<1>6. CASE pc = "revertGate" /\ pc' = "revertUndo"
  BY <1>1, <1>2, <1>6 DEF PutAside, SameAgain, Failing, UndoPc, RevertPc, ClassicPc
<1> QED BY <1>4, <1>5, <1>6

LEMMA AsideRollCommit ==
  ASSUME TypeOK, Placed, Machine, Honest, RollCommit
  PROVE  PutAside'
<1>1. /\ pc = "rollGate" /\ Moved /\ Placed' /\ loc.todo # {} /\ loc' = loc /\ OneMore(mem', mem, loc.old.ver)
      /\ \/ /\ mem'.slots[Cur].pid = Rec.pid /\ mem'.slots[Cur].status = "running"
            /\ state' = mem' /\ pc' = "rollDrain"
         \/ PutBack(loc.old) /\ mem'.retiring = mem.retiring \cup {Rec.pid} /\ pc' = "rollBack"
  BY RollCommitEffect DEF Aside, Placed, AtSlot
<1>2. /\ mem.retiring = {} /\ Cur \in Slot /\ Cur' = Cur /\ mem.touched \in SUBSET Slot
  BY <1>1, RollKnows, CurIn, CurKept, TypesNow, FleetFields DEF RollPc, Retired, RevertPc
<1>3. Rec.pid # loc.old.pid /\ loc.old.pid \in 0 .. launched /\ Apart(mem, Cur, loc.old)
  BY <1>1 DEF Machine, Replacing, RecOK
<1>4. CASE /\ mem'.slots[Cur].pid = Rec.pid /\ mem'.slots[Cur].status = "running"
           /\ state' = mem' /\ pc' = "rollDrain"
  BY <1>1, <1>2, <1>3, <1>4 DEF PutAside, ClassicPc, UndoPc, RevertPc
<1>5. CASE PutBack(loc.old) /\ mem'.retiring = mem.retiring \cup {Rec.pid} /\ pc' = "rollBack"
  <2>1. \A s \in mem'.touched : SameAgain(s)'
    <3> SUFFICES ASSUME NEW s \in mem'.touched PROVE SameAgain(s)'
      OBVIOUS
    <3>1. CASE s = Cur
      BY <1>1, <1>2, <1>5, <3>1 DEF OneMore, PutBack, SameAgain
    <3>2. CASE s # Cur
      <4>1. s \in Slot \ {Cur} /\ mem'.slots[s] = mem.slots[s]
        BY <1>1, <1>2, <1>5, <3>2 DEF OneMore, PutBack
      <4> QED BY <1>1, <1>3, <4>1 DEF Apart, SameAgain
    <3> QED BY <3>1, <3>2
  <2>2. loc'.old.pid \in 0 .. launched' /\ loc'.old.pid \notin mem'.retiring
    BY <1>1, <1>2, <1>3, <1>5, TypesNow, BoundsAssumption DEF Moved
  <2> QED BY <1>5, <2>1, <2>2 DEF PutAside, ClassicPc, RevertPc
<1> QED BY <1>1, <1>4, <1>5

LEMMA AsideRollStop ==
  ASSUME TypeOK, Placed, Machine, Honest, RollStop
  PROVE  PutAside'
<1>1. /\ pc = "rollStop" /\ pc' = "undo" /\ Moved /\ loc.todo # {} /\ loc' = loc
      /\ mem'.touched = mem.touched /\ mem'.from = mem.from /\ PutBack(loc.old)
  BY RollStopEffect DEF Only, Placed, AtSlot
<1>2. loc.todo \cap mem.touched = {} /\ Cur \in loc.todo /\ mem.touched \in SUBSET Slot
  BY <1>1, RollKnows, CurIn, TypesNow, FleetFields DEF RollPc, Progress
<1>3. loc.old.pid \in 0 .. launched /\ Apart(mem, Cur, loc.old)
  BY <1>1 DEF Machine, Replacing, RecOK
<1>4. \A s \in mem'.touched : SameAgain(s)'
  <2> SUFFICES ASSUME NEW s \in mem'.touched PROVE SameAgain(s)'
    OBVIOUS
  <2>1. s \in Slot \ {Cur} /\ mem'.slots[s] = mem.slots[s]
    BY <1>1, <1>2 DEF PutBack
  <2> QED BY <1>1, <1>3, <2>1 DEF Apart, SameAgain
<1>5. loc'.old.pid \in 0 .. launched'
  BY <1>1, <1>3, TypesNow, BoundsAssumption DEF Moved
<1> QED BY <1>1, <1>4, <1>5 DEF PutAside, ClassicPc, RevertPc

LEMMA AsideDeploy ==
  ASSUME TypeOK, Placed, Machine, Honest, PutAside,
         \/ BeginDeploy \/ DeployLoad \/ Prepare \/ (\E v \in Ver \ {0} : Build(v)) \/ Promote
         \/ RollSlot \/ RollCommit \/ RollUnproven \/ RollStop \/ RollBack \/ RollRetire \/ RollDrain \/ Undo
  PROVE  PutAside'
<1>1. CASE BeginDeploy
  <2>1. TypeOK' /\ pc' = "deploy" /\ loc'.old.pid = 0
    BY <1>1, BeginDeployEffect, NoRecFacts DEF Opened
  <2> QED BY <2>1, AsideNone
<1>2. CASE DeployLoad \/ Prepare
  <2>1. TypeOK' /\ pc \in {"deploy", "prepare"} /\ pc' \in {"revert", "prepare", "build"} /\ loc' = loc
    BY <1>2, DeployLoadEffect, PrepareEffect
  <2>2. loc'.old.pid = 0
    BY <2>1 DEF PutAside
  <2> QED BY <2>1, <2>2, AsideNone
<1>3. CASE \E v \in Ver \ {0} : Build(v)
  <2>1. TypeOK' /\ pc = "build" /\ (pc' = "idle" \/ (pc' \in {"roll", "drain"} /\ loc'.old = loc.old))
    BY <1>3, BuildEffect DEF Ended
  <2>2. pc' = "idle" \/ (pc' \in {"roll", "drain"} /\ loc'.old.pid = 0)
    BY <2>1 DEF PutAside
  <2> QED BY <2>1, <2>2, AsideNone, AsideElse DEF UndoPc, RevertPc, ClassicPc
<1>4. CASE Promote \/ RollUnproven
  <2>1. pc' \in {"idle", "rollStop"}
    BY <1>4, PromoteEffect, UnprovenEffect DEF Ended
  <2> QED BY <2>1, AsideElse DEF UndoPc, RevertPc, ClassicPc
<1>5. CASE RollSlot
  <2>1. /\ TypeOK' /\ pc = "roll"
        /\ \/ pc' \in {"roll", "promote"} /\ loc'.old = NoRec
           \/ pc' = "rollGate"
           \/ pc' = "undo" /\ loc' = loc
    BY <1>5, RollSlotEffect DEF Over, Visits
  <2>2. pc' = "rollGate" \/ (pc' \in {"roll", "promote", "undo"} /\ loc'.old.pid = 0)
    BY <2>1, NoRecFacts DEF PutAside
  <2> QED BY <2>1, <2>2, AsideNone, AsideElse DEF UndoPc, RevertPc, ClassicPc
<1>6. CASE RollDrain
  <2>1. TypeOK' /\ pc' \in {"roll", "promote"} /\ loc'.old.pid = 0
    BY <1>6, RollDrainEffect, NoRecFacts DEF Over, Visits
  <2> QED BY <2>1, AsideNone
<1>7. CASE RollBack \/ RollRetire \/ Undo
  <2>1. /\ Moved /\ mem' = mem /\ loc' = loc /\ pc \in {"rollBack", "rollRetire", "undo"}
        /\ pc' \in {"rollRetire", "revert"} /\ (pc' = "rollRetire" => pc = "rollBack") /\ loc.after = "fail"
    BY <1>7, RollBackEffect, RollRetireEffect, UndoEffect DEF Placed, RollPc
  <2> QED BY <2>1, AsideKept DEF UndoPc, RevertPc
<1> QED BY <1>1, <1>2, <1>3, <1>4, <1>5, <1>6, <1>7, AsideRollCommit, AsideRollStop

LEMMA AsideClassic ==
  ASSUME TypeOK, Placed, PutAside,
         ClassicMark \/ ClassicStop \/ ClassicSave \/ ClassicLaunch \/ ClassicCommit \/ ClassicUnproven
           \/ ClassicUnlaunch
  PROVE  PutAside'
<1>1. /\ TypeOK' /\ pc \in ClassicPc /\ loc'.old \in {loc.old, NoRec}
      /\ pc' \in ClassicPc \cup {"undo", "promote", "revert"}
  <2>1. CASE ClassicMark \/ ClassicStop \/ ClassicSave
    BY <2>1, ClassicMarkEffect, ClassicStopEffect, ClassicSaveEffect DEF Drained, Visits, ClassicPc
  <2>2. CASE ClassicLaunch \/ ClassicCommit \/ ClassicUnproven \/ ClassicUnlaunch
    BY <2>2, ClassicLaunchEffect, ClassicCommitEffect, UnprovenEffect, ClassicUnlaunchEffect
       DEF Over, Visits, ClassicPc
  <2> QED BY <2>1, <2>2
<1>2. loc'.old.pid = 0
  BY <1>1, NoRecFacts DEF PutAside
<1> QED BY <1>1, <1>2, AsideNone DEF ClassicPc

\* The revert changes at most the record of the slot it is at.
LEMMA AsideReverting ==
  ASSUME TypeOK, Placed, PutAside, Moved, pc \in RevertPc, pc' \in RevertPc, loc'.after = loc.after,
         loc'.old = loc.old, SameJournal(mem', mem),
         \A t \in Slot : t # Cur => mem'.slots[t] = mem.slots[t],
         loc.old.pid \in 0 .. launched /\ loc.old.pid # 0 /\ mem'.slots[Cur].pid = loc.old.pid
           => \/ mem'.slots[Cur].ver = mem.from[Cur]
              \/ mem'.slots[Cur].pid = mem.slots[Cur].pid /\ mem'.slots[Cur].ver = mem.slots[Cur].ver,
         pc' \in {"revertGate", "revertUndo"} => Rec'.pid # loc.old.pid
  PROVE  PutAside'
<1>1. loc.old.pid \in 0 .. launched /\ (\A s \in mem.touched : SameAgain(s)) /\ mem.touched \in SUBSET Slot
  BY TypesNow, FleetFields DEF PutAside, UndoPc
<1>2. loc'.old.pid \in 0 .. launched'
  BY <1>1, TypesNow, BoundsAssumption DEF Moved
<1>3. \A s \in mem'.touched : SameAgain(s)'
  <2> SUFFICES ASSUME NEW s \in mem'.touched PROVE SameAgain(s)'
    OBVIOUS
  <2>1. s \in mem.touched /\ s \in Slot /\ mem'.from[s] = mem.from[s] /\ SameAgain(s)
    BY <1>1 DEF SameJournal
  <2>2. CASE s = Cur
    BY <1>1, <2>1, <2>2 DEF SameAgain
  <2>3. CASE s # Cur
    BY <2>1, <2>3 DEF SameAgain
  <2> QED BY <2>2, <2>3
<1>4. ~Failing => loc'.old.pid = 0 /\ ~Failing'
  BY DEF PutAside, Failing
<1>5. Failing => Failing'
  BY DEF Failing
<1>6. pc' \notin {"deploy", "prepare", "build", "roll", "promote", "rollDrain", "rollBack", "rollRetire"} \cup ClassicPc
  BY DEF RevertPc, ClassicPc
<1> QED BY <1>2, <1>3, <1>4, <1>5, <1>6 DEF PutAside

LEMMA AsideRevert ==
  ASSUME TypeOK, Placed, PutAside,
         RevertBegin \/ RevertSkip \/ RevertStop \/ RevertLaunch \/ RevertProven \/ RevertSave
           \/ RevertUnproven \/ RevertUndo \/ RevertRecord \/ RecoveryRequired \/ RevertEnd
  PROVE  PutAside'
<1>1. CASE GaveUp
  BY <1>1, AsideElse DEF GaveUp, Ended, UndoPc, RevertPc, ClassicPc
<1>2. CASE WentBack /\ TypeOK' /\ pc \in RevertPc
  <2>1. CASE pc' = "idle"
    BY <2>1, AsideElse DEF UndoPc, RevertPc, ClassicPc
  <2>2. CASE pc' # "idle"
    <3>1. pc' = "prepare" /\ loc' = loc /\ loc.after = "prepare"
      BY <1>2, <2>2 DEF WentBack, Ended
    <3>2. loc'.old.pid = 0
      BY <1>2, <3>1 DEF PutAside, Failing
    <3> QED BY <1>2, <3>1, <3>2, AsideNone
  <2> QED BY <2>1, <2>2
<1>3. CASE RevertBegin
  <2>1. /\ TypeOK' /\ Moved /\ pc = "revert"
        /\ \/ WentBack
           \/ /\ SameSlots(mem', mem) /\ SameJournal(mem', mem) /\ pc' = "revertSlot"
              /\ Visits(loc', loc, mem.touched, loc.old)
           \/ GaveUp
    BY <1>3, RevertBeginEffect
  <2>2. CASE /\ SameSlots(mem', mem) /\ SameJournal(mem', mem) /\ pc' = "revertSlot"
             /\ Visits(loc', loc, mem.touched, loc.old)
    <3>1. mem'.slots = mem.slots /\ loc'.after = loc.after /\ loc'.old = loc.old
      BY <2>2 DEF SameSlots, Visits
    <3> QED BY <2>1, <2>2, <3>1, AsideReverting DEF RevertPc
  <2> QED BY <1>1, <1>2, <2>1, <2>2 DEF RevertPc
<1>4. CASE RevertSkip \/ RevertSave
  <2>1. TypeOK' /\ (GaveUp \/ Over("revertSlot", "revertEnd"))
    BY <1>4, RevertSkipEffect, RevertSaveEffect
  <2>2. CASE Over("revertSlot", "revertEnd")
    <3>1. pc' \in {"revertSlot", "revertEnd"} /\ loc'.old.pid = 0
      BY <2>2, NoRecFacts DEF Over, Visits
    <3> QED BY <2>1, <3>1, AsideNone
  <2> QED BY <1>1, <2>1, <2>2
<1>5. CASE RevertStop
  <2>1. /\ Moved /\ pc = "revertSlot"
        /\ \/ /\ loc' = loc /\ pc' \in {"revertSave", "revertLaunch", "recovery"} /\ SameJournal(mem', mem)
              /\ \A t \in Slot : t # Cur => mem'.slots[t] = mem.slots[t]
              /\ mem'.slots[Cur].pid = 0 \/ mem' = mem
           \/ GaveUp
    BY <1>5, RevertStopEffect DEF Rewritten, Only, SameJournal
  <2>2. CASE /\ loc' = loc /\ pc' \in {"revertSave", "revertLaunch", "recovery"} /\ SameJournal(mem', mem)
             /\ \A t \in Slot : t # Cur => mem'.slots[t] = mem.slots[t]
             /\ mem'.slots[Cur].pid = 0 \/ mem' = mem
    BY <2>1, <2>2, AsideReverting DEF RevertPc
  <2> QED BY <1>1, <2>1, <2>2
<1>6. CASE RevertLaunch
  <2>1. /\ Moved /\ pc = "revertLaunch" /\ loc' = loc /\ SameJournal(mem', mem) /\ loc.todo # {}
        /\ \A t \in Slot : t # Cur => mem'.slots[t] = mem.slots[t]
        /\ mem'.slots[Cur].ver = mem.from[Cur]
        /\ \/ pc' = "revertGate" /\ mem'.slots[Cur].pid = launched + 1
           \/ pc' = "recovery"
    BY <1>6, RevertLaunchEffect DEF Relaunched, Fizzled, PutBack, Only, SameJournal, Placed, AtSlot
  <2>2. loc.old.pid \in 0 .. launched
    BY <2>1 DEF PutAside, UndoPc, RevertPc
  <2>3. pc' = "revertGate" => Rec'.pid # loc.old.pid
    <3>1. Rec' = mem'.slots[Cur]
      BY <2>1, CurKept DEF Rec
    <3>2. launched + 1 \notin 0 .. launched
      BY TypesNow, BoundsAssumption
    <3> QED BY <2>1, <2>2, <3>1, <3>2
  <2> QED BY <2>1, <2>3, AsideReverting DEF RevertPc
<1>7. CASE RevertProven \/ RevertUndo
  <2>1. /\ Moved /\ pc \in {"revertGate", "revertUndo"} /\ pc' \in {"revertSave", "revertRecord"} /\ loc' = loc
        /\ SameJournal(mem', mem) /\ \A t \in Slot : t # Cur => mem'.slots[t] = mem.slots[t]
        /\ mem'.slots[Cur].ver = Rec.ver /\ mem'.slots[Cur].pid \in {0, Rec.pid}
    BY <1>7, RevertProvenEffect, RevertUndoEffect DEF Rewritten, Only, SameJournal
  <2> QED BY <2>1, AsideReverting DEF RevertPc, Rec
<1>8. CASE RevertUnproven
  <2>1. Moved /\ mem' = mem /\ loc' = loc /\ pc = "revertGate" /\ pc' = "revertUndo"
    BY <1>8, UnprovenEffect
  <2> QED BY <2>1, AsideKept
<1>9. CASE RevertRecord
  <2>1. \/ GaveUp
        \/ Moved /\ mem' = mem /\ loc' = loc /\ pc = "revertRecord" /\ pc' = "recovery"
    BY <1>9, RevertRecordEffect
  <2> QED BY <1>1, <2>1, AsideKept DEF UndoPc, RevertPc
<1>10. CASE RecoveryRequired \/ RevertEnd
  BY <1>1, <1>2, <1>10, RecoveryEffect, RevertEndEffect DEF RevertPc
<1> QED BY <1>3, <1>4, <1>5, <1>6, <1>7, <1>8, <1>9, <1>10

LEMMA AsideCommands ==
  ASSUME TypeOK, Placed,
         StartSlot \/ StartWait \/ StopSlot \/ StopSave \/ StopEnd \/ RestartSlot \/ Relaunch \/ Restarted
           \/ GrowSlot \/ Grown \/ ShrinkStop \/ ShrinkEnd \/ CommandEnd \/ PassKeeps \/ PassUnhealthy
           \/ PassEnd \/ (\E reaped \in BOOLEAN : PassRelaunch(reaped)) \/ DrainRetirements \/ Killed
           \/ (\E to \in {"pass", "start", "stop", "restart", "grow", "shrink"} : Opened(to))
  PROVE  PutAside'
<1>1. CASE StartSlot \/ StartWait \/ StopSlot \/ StopSave \/ StopEnd \/ RestartSlot \/ Relaunch \/ Restarted
  <2>1. pc' \in {"start", "done", "startWait", "idle", "stop", "halted", "stopSave", "relaunch", "restarted",
                 "restart"}
    BY <1>1, StartSlotEffect, StartWaitEffect, StopSlotEffect, StopSaveEffect, StopEndEffect,
       RestartSlotEffect, RelaunchEffect, RestartedEffect DEF Over, Ended
  <2> QED BY <2>1, AsideElse DEF ClassicPc, UndoPc, RevertPc
<1>2. CASE GrowSlot \/ Grown \/ ShrinkStop \/ ShrinkEnd \/ CommandEnd \/ DrainRetirements \/ Killed
  <2>1. pc' \in {"grown", "idle", "grow", "done", "shrink"}
    BY <1>2, GrowSlotEffect, GrownEffect, ShrinkStopEffect, ShrinkEndEffect, CommandEndEffect,
       DrainEffect, KilledEffect DEF Over, Ended
  <2> QED BY <2>1, AsideElse DEF ClassicPc, UndoPc, RevertPc
<1>3. CASE PassKeeps \/ PassUnhealthy \/ PassEnd \/ (\E reaped \in BOOLEAN : PassRelaunch(reaped))
  <2>1. pc' \in {"pass", "passed", "idle"}
    BY <1>3, PassUnhealthyEffect, PassEndEffect, PassRelaunchEffect DEF PassKeeps, Onward, Ended
  <2> QED BY <2>1, AsideElse DEF ClassicPc, UndoPc, RevertPc
<1>4. CASE \E to \in {"pass", "start", "stop", "restart", "grow", "shrink"} : Opened(to)
  BY <1>4, AsideElse DEF Opened, ClassicPc, UndoPc, RevertPc
<1> QED BY <1>1, <1>2, <1>3, <1>4

LEMMA AsideEnvironment ==
  ASSUME TypeOK, Placed, PutAside, MonitorRestart \/ (\E p \in Proc : Exit(p)) \/ UNCHANGED fvars
  PROVE  PutAside'
<1>1. CASE MonitorRestart
  <2>1. /\ TypeOK' /\ Moved /\ state' = state
        /\ \/ pc' = "revert" /\ loc'.old = NoRec
           \/ Ended("none")
           \/ pc' = pc /\ mem' = mem /\ loc' = loc
    BY <1>1, MonitorEffect
  <2>2. CASE pc' = "revert" /\ loc'.old = NoRec
    <3>1. loc'.old.pid = 0
      BY <2>2, NoRecFacts
    <3> QED BY <2>1, <2>2, <3>1, AsideNone
  <2>3. CASE Ended("none")
    BY <2>3, AsideElse DEF Ended, ClassicPc, UndoPc, RevertPc
  <2>4. CASE pc' = pc /\ mem' = mem /\ loc' = loc
    BY <2>1, <2>4, AsideKept
  <2> QED BY <2>1, <2>2, <2>3, <2>4
<1>2. CASE \E p \in Proc : Exit(p)
  BY <1>2, ExitEffect, AsideKept
<1>3. CASE UNCHANGED fvars
  <2>1. UNCHANGED Procs /\ pc' = pc /\ mem' = mem /\ loc' = loc /\ state' = state
    BY <1>3 DEF fvars, Procs
  <2> QED BY <2>1, ProcsStill, AsideKept
<1> QED BY <1>1, <1>2, <1>3

LEMMA AsideNext ==
  ASSUME TypeOK, Placed, Machine, Honest, PutAside, [Next]_fvars
  PROVE  PutAside'
<1>1. CASE BeginPass \/ BeginStart \/ BeginStop \/ BeginRestart
           \/ (\E n \in 1 .. MaxReplicas : BeginGrow(n)) \/ (\E n \in 1 .. MaxReplicas : BeginShrink(n))
  <2>1. \E to \in {"pass", "start", "stop", "restart", "grow", "shrink"} : Opened(to)
    BY <1>1, BeginPassEffect, BeginLoopEffect, BeginGrowEffect, BeginShrinkEffect
  <2> QED BY <2>1, AsideCommands
<1>2. CASE PassLive \/ PassProbe \/ (\E reaped \in BOOLEAN : PassExit(reaped))
           \/ (\E reaped, live \in BOOLEAN : PassOver(reaped, live))
  BY <1>2, PassLiveEffect, PassProbeEffect, PassExitEffect, PassOverEffect, AsideCommands
<1>3. Steps \/ UNCHANGED fvars
  BY NextIs
<1> QED BY <1>1, <1>2, <1>3, AsideCommands, AsideDeploy, AsideClassic, AsideRevert, AsideEnvironment DEF Steps

LEMMA AsideInit ==
  ASSUME Init
  PROVE  PutAside
BY DEF Init, PutAside, UndoPc, RevertPc, ClassicPc

\* OldOutlivesGate of one step.
Outlives ==
  loc.kind = "deploy" /\ loc.strategy = "rolling" /\ loc.after = "fail" =>
    \A p \in (running \ running') \ died' :
      loc.todo # {} /\ p = loc.old.pid =>
        state.slots[Cur].pid # p /\ state.slots[Cur].status = "running"

\* Nothing ends but what exits by itself.
LEMMA OutlivesSpared ==
  ASSUME running \subseteq running' \cup died'
  PROVE  Outlives
BY DEF Outlives

LEMMA OutlivesEnded ==
  ASSUME NEW P, Ends(P) \/ (\E p \in P : Strays(p)), loc.old.pid \notin P
  PROVE  Outlives
BY DEF Ends, Strays, Still, Outlives

LEMMA OutlivesRoll ==
  ASSUME TypeOK, Placed, Machine, Honest, PutAside,
         RollSlot \/ RollCommit \/ RollUnproven \/ RollStop \/ RollBack \/ RollRetire \/ RollDrain \/ Undo
  PROVE  Outlives
<1>1. CASE RollSlot \/ RollCommit \/ RollUnproven \/ RollBack \/ Undo
  BY <1>1, RollSlotEffect, RollCommitEffect, UnprovenEffect, RollBackEffect, UndoEffect, OutlivesSpared
     DEF Still, Starts
<1>2. CASE RollStop
  <2>1. pc = "rollStop" /\ (Ends({Rec.pid}) \/ Strays(Rec.pid))
    BY <1>2, RollStopEffect
  <2>2. loc.old.pid \notin {Rec.pid}
    BY <2>1 DEF Machine, Replacing
  <2> QED BY <2>1, <2>2, OutlivesEnded
<1>3. CASE RollRetire
  <2>1. PICK p \in mem.retiring : Ends({p}) \/ Strays(p)
    BY <1>3, RollRetireEffect
  <2>2. pc = "rollRetire"
    BY <1>3, RollRetireEffect
  <2>3. loc.old.pid \notin {p}
    BY <2>2 DEF PutAside
  <2> QED BY <2>1, <2>3, OutlivesEnded
<1>4. CASE RollDrain
  <2>1. pc = "rollDrain"
    BY <1>4, RollDrainEffect
  <2> QED BY <2>1 DEF PutAside, Outlives
<1> QED BY <1>1, <1>2, <1>3, <1>4

LEMMA OutlivesClassic ==
  ASSUME TypeOK, Placed, PutAside,
         ClassicMark \/ ClassicStop \/ ClassicSave \/ ClassicLaunch \/ ClassicCommit \/ ClassicUnproven
           \/ ClassicUnlaunch
  PROVE  Outlives
<1>1. pc \in ClassicPc
  BY ClassicMarkEffect, ClassicStopEffect, ClassicSaveEffect, ClassicLaunchEffect, ClassicCommitEffect,
     UnprovenEffect, ClassicUnlaunchEffect DEF ClassicPc
<1>2. loc.old.pid \notin running
  BY <1>1, Zero DEF PutAside
<1> QED BY <1>2 DEF Outlives

LEMMA OutlivesRevert ==
  ASSUME TypeOK, Placed, Machine, Honest, PutAside,
         RevertBegin \/ RevertSkip \/ RevertStop \/ RevertLaunch \/ RevertProven \/ RevertSave
           \/ RevertUnproven \/ RevertUndo \/ RevertRecord \/ RecoveryRequired \/ RevertEnd
  PROVE  Outlives
<1>1. CASE RevertBegin \/ RevertSkip \/ RevertLaunch \/ RevertProven \/ RevertSave
           \/ RevertUnproven \/ RevertRecord \/ RecoveryRequired \/ RevertEnd
  <2>1. Still \/ running \subseteq running'
    BY <1>1, RevertBeginEffect, RevertSkipEffect, RevertLaunchEffect, RevertProvenEffect, RevertSaveEffect,
       UnprovenEffect, RevertRecordEffect, RecoveryEffect, RevertEndEffect DEF Starts, Fizzled
  <2> QED BY <2>1, OutlivesSpared DEF Still
<1>2. CASE RevertUndo
  <2>1. pc = "revertUndo" /\ (Ends({Rec.pid}) \/ Strays(Rec.pid))
    BY <1>2, RevertUndoEffect
  <2>2. loc.old.pid \notin {Rec.pid}
    BY <2>1 DEF PutAside
  <2> QED BY <2>1, <2>2, OutlivesEnded
<1>3. CASE RevertStop
  <2>1. /\ pc = "revertSlot" /\ loc.todo # {} /\ ~(Rec.ver = mem.from[Cur] /\ Live(Rec))
        /\ Ends({Rec.pid}) \/ Still
    BY <1>3, RevertStopEffect DEF Strays, Placed, AtSlot
  <2>2. CASE Still
    BY <2>2, OutlivesSpared DEF Still
  <2>3. CASE loc.after # "fail"
    BY <2>3 DEF Outlives
  <2>4. CASE Ends({Rec.pid}) /\ loc.after = "fail"
    <3>1. Cur \in mem.touched
      BY <2>1, <2>4, RevertKnows, CurIn DEF RevertPc
    <3>2. SameAgain(Cur)
      BY <2>1, <3>1 DEF PutAside, UndoPc, RevertPc
    <3>3. loc.old.pid = Rec.pid => Rec.pid \notin running
      <4> SUFFICES ASSUME loc.old.pid = Rec.pid, Rec.pid \in running
                   PROVE  FALSE
        OBVIOUS
      <4>1. loc.old.pid # 0
        BY Zero
      <4> QED BY <2>1, <3>2, <4>1 DEF SameAgain, Rec, Live
    <3> QED BY <2>4, <3>3 DEF Outlives, Ends
  <2> QED BY <2>1, <2>2, <2>3, <2>4
<1> QED BY <1>1, <1>2, <1>3

LEMMA OutlivesNext ==
  ASSUME TypeOK, Placed, Machine, Honest, PutAside, [Next]_fvars
  PROVE  Outlives
<1>1. CASE pc \in {"idle", "pass", "passed", "deploy", "prepare", "build"} \cup CommandPc
  BY <1>1, NoLocFacts DEF Outlives, Placed
<1>2. CASE BeginPass \/ BeginStart \/ BeginStop \/ BeginRestart \/ BeginDeploy \/ DrainRetirements
           \/ (\E n \in 1 .. MaxReplicas : BeginGrow(n)) \/ (\E n \in 1 .. MaxReplicas : BeginShrink(n))
  BY <1>1, <1>2, BeginPassEffect, BeginLoopEffect, BeginDeployEffect, BeginGrowEffect, BeginShrinkEffect,
     DrainEffect DEF Opened
<1>3. CASE PassLive \/ PassProbe \/ PassUnhealthy \/ PassEnd \/ (\E reaped \in BOOLEAN : PassExit(reaped))
           \/ (\E reaped \in BOOLEAN : PassRelaunch(reaped))
           \/ (\E reaped, live \in BOOLEAN : PassOver(reaped, live))
  BY <1>1, <1>3, PassLiveEffect, PassProbeEffect, PassUnhealthyEffect, PassEndEffect, PassExitEffect,
     PassRelaunchEffect, PassOverEffect DEF PassKeeps
<1>4. CASE StartSlot \/ StartWait \/ StopSlot \/ StopSave \/ StopEnd \/ RestartSlot \/ Relaunch \/ Restarted
           \/ GrowSlot \/ Grown \/ ShrinkStop \/ ShrinkEnd \/ CommandEnd
  BY <1>1, <1>4, StartSlotEffect, StartWaitEffect, StopSlotEffect, StopSaveEffect, StopEndEffect,
     RestartSlotEffect, RelaunchEffect, RestartedEffect, GrowSlotEffect, GrownEffect, ShrinkStopEffect,
     ShrinkEndEffect, CommandEndEffect DEF CommandPc
<1>5. CASE DeployLoad \/ Prepare \/ (\E v \in Ver \ {0} : Build(v))
  BY <1>1, <1>5, DeployLoadEffect, PrepareEffect, BuildEffect
<1>6. CASE Promote \/ Killed \/ MonitorRestart
  BY <1>6, PromoteEffect, KilledEffect, MonitorEffect, OutlivesSpared DEF Still
<1>7. CASE (\E p \in Proc : Exit(p)) \/ UNCHANGED fvars
  <2>1. running \subseteq running' \cup died'
    BY <1>7, ExitEffect DEF fvars
  <2> QED BY <2>1, OutlivesSpared
<1>8. Steps \/ UNCHANGED fvars
  BY NextIs
<1> QED BY <1>2, <1>3, <1>4, <1>5, <1>6, <1>7, <1>8, OutlivesRoll, OutlivesClassic, OutlivesRevert DEF Steps

\* A rolling deploy stops the process a slot ran before only when deploy.json names another
\* process for the slot that passed its gate: not while the replacement is being proven, not
\* in the undo of one that failed, nor in the revert (deployRolling, revertRollout).
THEOREM OldOutlives == Spec => OldOutlivesGate
<1>1. Init => TypeOK /\ Placed /\ Machine /\ Honest /\ PutAside
  BY TypesInit, MachineInit, HonestInit, AsideInit
<1>2. TypeOK /\ Placed /\ Machine /\ Honest /\ PutAside /\ [Next]_fvars
        => (TypeOK /\ Placed /\ Machine /\ Honest /\ PutAside)'
  BY TypesNext, MachineNext, HonestNext, AsideNext
<1>3. TypeOK /\ Placed /\ Machine /\ Honest /\ PutAside /\ [Next]_fvars
        => [loc.kind = "deploy" /\ loc.strategy = "rolling" /\ loc.after = "fail" =>
              \A p \in (running \ running') \ died' :
                loc.todo # {} /\ p = loc.old.pid =>
                  state.slots[Cur].pid # p /\ state.slots[Cur].status = "running"]_fvars
  BY OutlivesNext DEF Outlives
<1> QED BY <1>1, <1>2, <1>3, PTL DEF Spec, OldOutlivesGate

=============================================================================
