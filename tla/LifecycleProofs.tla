---------------------------- MODULE LifecycleProofs ----------------------------
(***************************************************************************)
(* The lives of project instances (ProjectRegistry) and of the watcher     *)
(* each of them runs (WatcherLifecycle).  No instance of a project is      *)
(* forgotten and no more than MaxActive are in the map; a watcher's        *)
(* WaitGroup counts exactly what runs, so that nothing does once Stop has  *)
(* returned.                                                               *)
(***************************************************************************)
EXTENDS ProjectRegistry, WatcherLifecycle, FiniteSetTheorems, TLAPS

Flight == [pc: FlightPcs, inst: Instances \cup {None}]
Caller == [pc: CallerPcs, project: Projects \cup {NoProject},
           inst: Instances \cup {None}, reindex: BOOLEAN]
Instance == [project: Projects \cup {NoProject}, state: InstanceStates]

\* What the leader of a flight holds: an instance of its project, in the state its
\* program counter says, while the project is not in the map.
FlightOK(p) ==
    /\ flight[p].pc \in {"idle", "recheck", "done"} => flight[p].inst = None
    /\ flight[p].pc \in {"init", "store"} => projects[p] = None
    /\ flight[p].pc = "init" /\ flight[p].inst # None =>
          /\ instance[flight[p].inst].project = p
          /\ instance[flight[p].inst].state = "opening"
    /\ flight[p].pc = "store" =>
          /\ flight[p].inst # None
          /\ instance[flight[p].inst].project = p
          /\ instance[flight[p].inst].state = "open"

\* A caller that closes an instance is the only one to do so.
CallerOK(c) ==
    /\ caller[c].pc \in {"flight", "wait", "close"} => caller[c].project \in Projects
    /\ caller[c].pc = "close" =>
          /\ caller[c].inst \in Instances
          /\ instance[caller[c].inst].state = "closing"
          /\ \A d \in Callers : caller[d].pc = "close" /\ caller[d].inst = caller[c].inst => d = c

\* The inductive invariant.
IInv ==
    /\ RegistryTypeOK
    /\ \A p \in Projects : FlightOK(p)
    /\ \A c \in Callers : CallerOK(c)
    /\ \A i \in Instances : instance[i].state # "unused" => instance[i].project \in Projects
    /\ NoneForgotten
    /\ IsFiniteSet(Registered) /\ CapHolds

LEMMA Typed ==
  ASSUME RegistryTypeOK
  PROVE  /\ projects \in [Projects -> Instances \cup {None}]
         /\ instance \in [Instances -> Instance]
         /\ flight \in [Projects -> Flight]
         /\ caller \in [Callers -> Caller]
         /\ \A i \in Instances : instance[i] \in Instance
         /\ \A p \in Projects : flight[p] \in Flight
         /\ \A c \in Callers : caller[c] \in Caller
         /\ None \notin Instances
         /\ \A p \in Projects : projects[p] # None =>
               /\ projects[p] \in Instances
               /\ instance[projects[p]].project = p
               /\ instance[projects[p]].state = "open"
BY DEF Registered, RegistryTypeOK, Flight, Caller, Instance, Instances, None

\* Fewer projects in the map are no more than the cap.
LEMMA FewerRegistered ==
  ASSUME IsFiniteSet(Registered), CapHolds, Registered' \subseteq Registered
  PROVE  IsFiniteSet(Registered') /\ CapHolds'
<1>1. IsFiniteSet(Registered') /\ Cardinality(Registered') <= Cardinality(Registered)
  BY FS_Subset
<1>2. Cardinality(Registered) \in Nat /\ Cardinality(Registered') \in Nat
  BY <1>1, FS_CardinalityType
<1> QED BY <1>1, <1>2, RegistryAssumption DEF CapHolds

LEMMA InitIInv == RegistryInit => IInv
<1> SUFFICES ASSUME RegistryInit PROVE IInv
  OBVIOUS
<1>1. Registered = {}
  BY DEF RegistryInit, Registered
<1>2. IsFiniteSet(Registered) /\ Cardinality(Registered) = 0
  BY <1>1, FS_EmptySet
<1>3. CapHolds
  BY <1>2, RegistryAssumption DEF CapHolds
<1>4. RegistryTypeOK
  BY <1>1 DEF RegistryInit, RegistryTypeOK, Grounded, AtRest, FlightPcs, CallerPcs,
     InstanceStates, None
<1>5. NoneForgotten
  BY DEF RegistryInit, NoneForgotten
<1> QED BY <1>2, <1>3, <1>4, <1>5 DEF RegistryInit, IInv, FlightOK, CallerOK, Grounded,
           AtRest

\* Steps that neither change the map nor an instance nor what a flight or a closer holds.
LEMMA Misses_IInv ==
  ASSUME IInv, NEW c \in Callers, NEW p \in Projects, Misses(c, p)
  PROVE  IInv'
<1> USE DEF IInv
<1>1. caller' \in [Callers -> Caller] /\ \A d \in Callers \ {c} : caller'[d] = caller[d]
  BY Typed DEF Misses, Caller, AtRest, CallerPcs
<1>2. caller'[c] = [AtRest EXCEPT !.pc = "flight", !.project = p]
  BY DEF Misses, RegistryTypeOK
<1>3. caller'[c].pc = "flight" /\ caller'[c].project = p
  BY <1>2 DEF AtRest
<1>4. UNCHANGED <<projects, instance, flight, daemon>> /\ caller[c].pc = "idle"
  BY DEF Misses
<1>5. RegistryTypeOK'
  BY <1>1, <1>4 DEF RegistryTypeOK, Caller, Registered
<1>6. \A d \in Callers : CallerOK(d)'
  BY <1>1, <1>3, <1>4 DEF CallerOK
<1>7. NoneForgotten'
  <2>1. \A d \in Callers : caller[d].pc = "close" => caller'[d] = caller[d]
    BY <1>1, <1>4
  <2>2. \A i \in Instances : ClosedBy(i) => ClosedBy(i)'
    BY <2>1 DEF ClosedBy
  <2> QED BY <1>4, <2>2 DEF NoneForgotten
<1>8. (IsFiniteSet(Registered) /\ CapHolds)'
  BY <1>4 DEF Registered, CapHolds
<1> QED BY <1>4, <1>5, <1>6, <1>7, <1>8 DEF FlightOK

LEMMA JoinsFlight_IInv ==
  ASSUME IInv, NEW c \in Callers, JoinsFlight(c)
  PROVE  IInv'
<1> USE DEF IInv
<1> DEFINE p == caller[c].project
<1>1. p \in Projects /\ UNCHANGED <<projects, instance, daemon>>
  BY DEF JoinsFlight, CallerOK
<1>2. caller' \in [Callers -> Caller] /\ \A d \in Callers \ {c} : caller'[d] = caller[d]
  <2>1. caller' = [caller EXCEPT ![c].pc = "wait"]
    BY DEF JoinsFlight
  <2>2. [caller[c] EXCEPT !.pc = "wait"] \in Caller
    BY Typed DEF Caller, CallerPcs
  <2> QED BY <2>1, <2>2, Typed
<1>3. caller'[c].pc = "wait" /\ caller'[c].project = p
  BY Typed DEF JoinsFlight, Caller
<1>4. flight' \in [Projects -> Flight] /\ \A q \in Projects \ {p} : flight'[q] = flight[q]
  BY <1>1, Typed DEF JoinsFlight, Flight, FlightPcs
<1>5. /\ flight'[p].inst = flight[p].inst
      /\ \/ flight'[p].pc = flight[p].pc
         \/ flight[p].pc = "idle" /\ flight'[p].pc = "recheck"
  BY <1>1, Typed DEF JoinsFlight, Flight
<1>6. RegistryTypeOK'
  BY <1>1, <1>2, <1>4 DEF RegistryTypeOK, Caller, Flight, Registered
<1>7. \A q \in Projects : FlightOK(q)'
  BY <1>1, <1>4, <1>5 DEF FlightOK
<1>8. \A d \in Callers : CallerOK(d)'
  BY <1>1, <1>2, <1>3 DEF CallerOK, JoinsFlight
<1>9. NoneForgotten'
  <2>1. \A d \in Callers : caller[d].pc = "close" => caller'[d] = caller[d]
    BY <1>2 DEF JoinsFlight
  <2>2. \A i \in Instances : ClosedBy(i) => ClosedBy(i)'
    BY <2>1 DEF ClosedBy
  <2>3. \A q \in Projects, i \in Instances :
           flight[q].pc \in {"init", "store"} => flight'[q] = flight[q]
    BY <1>4, <1>1, Typed DEF JoinsFlight, Flight
  <2>4. \A q \in Projects : flight'[q].inst = flight[q].inst
    BY <1>4, <1>5
  <2> QED BY <1>1, <2>2, <2>3, <2>4 DEF NoneForgotten
<1>10. (IsFiniteSet(Registered) /\ CapHolds)'
  BY <1>1 DEF Registered, CapHolds
<1> QED BY <1>1, <1>6, <1>7, <1>8, <1>9, <1>10

LEMMA Rechecks_IInv ==
  ASSUME IInv, NEW p \in Projects, Rechecks(p)
  PROVE  IInv'
<1> USE DEF IInv
<1>1. UNCHANGED <<projects, instance, caller, daemon>> /\ flight[p].pc = "recheck"
  BY DEF Rechecks
<1>2. flight' \in [Projects -> Flight] /\ \A q \in Projects \ {p} : flight'[q] = flight[q]
  BY Typed DEF Rechecks, Flight, FlightPcs
<1>3. /\ flight'[p].inst = None
      /\ \/ flight'[p].pc = "done"
         \/ flight'[p].pc = "init" /\ projects[p] = None
  BY <1>1, Typed DEF Rechecks, Flight, FlightOK
<1>4. RegistryTypeOK'
  BY <1>1, <1>2 DEF RegistryTypeOK, Flight, Registered
<1>5. \A q \in Projects : FlightOK(q)'
  BY <1>1, <1>2, <1>3 DEF FlightOK
<1>6. \A d \in Callers : CallerOK(d)'
  BY <1>1 DEF CallerOK
<1>7. NoneForgotten'
  <2>1. \A i \in Instances : flight[p].inst # i
    BY <1>1, Typed DEF FlightOK
  <2>2. flight[p].pc \notin {"init", "store"}
    BY <1>1
  <2>3. \A i \in Instances : ClosedBy(i) => ClosedBy(i)'
    BY <1>1 DEF ClosedBy
  <2>4. ASSUME NEW i \in Instances, instance[i].state \in {"opening", "open"}
        PROVE  instance[i].project \in Projects
    BY <2>4
  <2> QED BY <1>1, <1>2, <2>1, <2>2, <2>3, <2>4 DEF NoneForgotten
<1>8. (IsFiniteSet(Registered) /\ CapHolds)'
  BY <1>1 DEF Registered, CapHolds
<1> QED BY <1>1, <1>4, <1>5, <1>6, <1>7, <1>8

LEMMA Opens_IInv ==
  ASSUME IInv, NEW p \in Projects, Opens(p)
  PROVE  IInv'
<1> USE DEF IInv
<1>1. PICK i \in Instances :
        /\ instance[i].state = "unused"
        /\ instance' = [instance EXCEPT ![i] = [project |-> p, state |-> "opening"]]
        /\ flight' = [flight EXCEPT ![p].inst = i]
  BY DEF Opens
<1>2. UNCHANGED <<projects, caller, daemon>> /\ flight[p].pc = "init" /\ flight[p].inst = None
  BY DEF Opens
<1>3. flight' \in [Projects -> Flight] /\ \A q \in Projects \ {p} : flight'[q] = flight[q]
  BY <1>1, Typed DEF Flight
<1>4. flight'[p].pc = "init" /\ flight'[p].inst = i
  BY <1>1, <1>2, Typed DEF Flight
<1>5. instance' \in [Instances -> Instance] /\ \A j \in Instances \ {i} : instance'[j] = instance[j]
  BY <1>1, Typed DEF Instance, InstanceStates
<1>6. instance'[i] = [project |-> p, state |-> "opening"]
  BY <1>1, Typed
<1>7. RegistryTypeOK'
  <2>1. \A q \in Projects : projects[q] # i
    BY <1>1 DEF RegistryTypeOK, Registered, None, Instances
  <2> QED BY <1>2, <1>3, <1>5, <2>1 DEF RegistryTypeOK, Flight, Instance, Registered
<1>8. \A q \in Projects : FlightOK(q)'
  <2>1. FlightOK(p)'
    BY <1>2, <1>4, <1>6 DEF FlightOK
  <2>2. ASSUME NEW q \in Projects \ {p} PROVE FlightOK(q)'
    <3>1. flight[q].inst # i \/ flight[q].pc \notin {"init", "store"}
      BY <1>1, Typed DEF FlightOK
    <3>2. flight[q].inst \in Instances \/ flight[q].inst = None
      BY Typed DEF Flight
    <3> QED BY <1>2, <1>3, <1>5, <3>1, <3>2 DEF FlightOK
  <2> QED BY <2>1, <2>2
<1>9. \A d \in Callers : CallerOK(d)'
  BY <1>1, <1>2, <1>5 DEF CallerOK
<1>10. NoneForgotten'
  <2>1. \A j \in Instances : ClosedBy(j) => ClosedBy(j)'
    BY <1>2 DEF ClosedBy
  <2>2. ASSUME NEW j \in Instances \ {i}, instance[j].state \in {"opening", "open"}
        PROVE  instance[j].project \in Projects
    BY <2>2
  <2>3. \A j \in Instances : flight[p].inst # j
    BY <1>2, Typed
  <2> QED BY <1>2, <1>3, <1>4, <1>5, <1>6, <2>1, <2>2, <2>3 DEF NoneForgotten
<1>11. (IsFiniteSet(Registered) /\ CapHolds)'
  BY <1>2 DEF Registered, CapHolds
<1>12. \A j \in Instances : instance'[j].state # "unused" => instance'[j].project \in Projects
  BY <1>5, <1>6
<1> QED BY <1>7, <1>8, <1>9, <1>10, <1>11, <1>12

\* The flight of p gets rid of its instance: it fails, is refused or is stored.
LEMMA InstanceMoves ==
  ASSUME RegistryTypeOK, NEW i \in Instances, NEW s \in InstanceStates, Moves(i, s)
  PROVE  /\ instance' \in [Instances -> Instance]
         /\ \A j \in Instances \ {i} : instance'[j] = instance[j]
         /\ instance'[i] = [project |-> instance[i].project, state |-> s]
<1>1. [project |-> instance[i].project, state |-> s] \in Instance
  BY Typed DEF Instance
<1>2. [instance[i] EXCEPT !.state = s] = [project |-> instance[i].project, state |-> s]
  BY Typed DEF Instance
<1> QED BY <1>1, <1>2, Typed DEF Moves

LEMMA Discards_IInv ==
  ASSUME IInv, NEW p \in Projects,
         flight[p].pc \in {"init", "store"}, flight[p].inst # None,
         Moves(flight[p].inst, "closed"),
         flight' = [flight EXCEPT ![p] = [pc |-> "done", inst |-> None]],
         UNCHANGED <<projects, caller, daemon>>
  PROVE  IInv'
<1> USE DEF IInv
<1> DEFINE i == flight[p].inst
<1>1. i \in Instances /\ instance[i].project = p /\ instance[i].state \in {"opening", "open"}
  BY Typed DEF FlightOK, Flight
<1> HIDE DEF i
<1>2. /\ instance' \in [Instances -> Instance]
      /\ \A j \in Instances \ {i} : instance'[j] = instance[j]
      /\ instance'[i] = [project |-> p, state |-> "closed"]
  BY <1>1, InstanceMoves DEF InstanceStates, i
<1>3. /\ flight' \in [Projects -> Flight] /\ \A q \in Projects \ {p} : flight'[q] = flight[q]
      /\ flight'[p] = [pc |-> "done", inst |-> None]
  BY Typed DEF Flight, FlightPcs
<1>4. \A q \in Projects : projects[q] # i
  <2>1. projects[p] = None
    BY DEF FlightOK
  <2> QED BY <1>1, <2>1, Typed DEF RegistryTypeOK, Registered
<1>5. RegistryTypeOK'
  BY <1>2, <1>3, <1>4 DEF RegistryTypeOK, Flight, Instance, Registered
<1>6. \A q \in Projects : FlightOK(q)'
  <2>1. FlightOK(p)'
    BY <1>3 DEF FlightOK
  <2>2. ASSUME NEW q \in Projects \ {p} PROVE FlightOK(q)'
    <3>1. flight[q].inst # i \/ flight[q].pc \notin {"init", "store"}
      BY <1>1, Typed DEF FlightOK
    <3>2. flight[q].inst \in Instances \/ flight[q].inst = None
      BY Typed DEF Flight
    <3> QED BY <1>2, <1>3, <3>1, <3>2 DEF FlightOK
  <2> QED BY <2>1, <2>2
<1>7. \A d \in Callers : CallerOK(d)'
  BY <1>1, <1>2 DEF CallerOK
<1>8. NoneForgotten'
  <2>1. \A j \in Instances : ClosedBy(j) => ClosedBy(j)'
    BY DEF ClosedBy
  <2>2. ASSUME NEW j \in Instances \ {i}, instance[j].state \in {"opening", "open"}
        PROVE  instance[j].project \in Projects
    BY <2>2
  <2>3. \A j \in Instances \ {i} : flight[p].inst # j
    BY Typed DEF i
  <2> QED BY <1>2, <1>3, <2>1, <2>2, <2>3 DEF NoneForgotten
<1>9. (IsFiniteSet(Registered) /\ CapHolds)'
  BY DEF Registered, CapHolds
<1>10. \A j \in Instances : instance'[j].state # "unused" => instance'[j].project \in Projects
  BY <1>2
<1> QED BY <1>5, <1>6, <1>7, <1>8, <1>9, <1>10

LEMMA InitEnds_IInv ==
  ASSUME IInv, NEW p \in Projects, InitEnds(p)
  PROVE  IInv'
<1> USE DEF IInv
<1>1. flight[p].pc = "init" /\ flight[p].inst # None /\ UNCHANGED <<projects, caller, daemon>>
  BY DEF InitEnds
<1>2. CASE /\ Moves(flight[p].inst, "closed")
           /\ flight' = [flight EXCEPT ![p] = [pc |-> "done", inst |-> None]]
  BY <1>1, <1>2, Discards_IInv
<1>3. CASE /\ Moves(flight[p].inst, "open")
           /\ flight' = [flight EXCEPT ![p].pc = "store"]
  <2> DEFINE i == flight[p].inst
  <2>1. i \in Instances /\ instance[i].project = p /\ instance[i].state = "opening"
    BY <1>1, Typed DEF FlightOK, Flight
  <2> HIDE DEF i
  <2>2. /\ instance' \in [Instances -> Instance]
        /\ \A j \in Instances \ {i} : instance'[j] = instance[j]
        /\ instance'[i] = [project |-> p, state |-> "open"]
    BY <1>3, <2>1, InstanceMoves DEF InstanceStates, i
  <2>3. /\ flight' \in [Projects -> Flight] /\ \A q \in Projects \ {p} : flight'[q] = flight[q]
        /\ flight'[p].pc = "store" /\ flight'[p].inst = i
    <3>1. [flight[p] EXCEPT !.pc = "store"] \in Flight
      BY Typed DEF Flight, FlightPcs
    <3> QED BY <1>3, <3>1, Typed DEF Flight, i
  <2>4. \A q \in Projects : projects[q] # i
    BY <2>1, Typed
  <2>5. RegistryTypeOK'
    BY <1>1, <2>2, <2>3, <2>4 DEF RegistryTypeOK, Flight, Instance, Registered
  <2>6. \A q \in Projects : FlightOK(q)'
    <3>1. FlightOK(p)'
      BY <1>1, <2>1, <2>2, <2>3, Typed DEF FlightOK
    <3>2. ASSUME NEW q \in Projects \ {p} PROVE FlightOK(q)'
      <4>1. flight[q].inst # i \/ flight[q].pc \notin {"init", "store"}
        BY <2>1, Typed DEF FlightOK
      <4>2. flight[q].inst \in Instances \/ flight[q].inst = None
        BY Typed DEF Flight
      <4> QED BY <1>1, <2>2, <2>3, <4>1, <4>2 DEF FlightOK
    <3> QED BY <3>1, <3>2
  <2>7. \A d \in Callers : CallerOK(d)'
    BY <1>1, <2>1, <2>2 DEF CallerOK
  <2>8. NoneForgotten'
    <3>1. \A j \in Instances : ClosedBy(j) => ClosedBy(j)'
      BY <1>1 DEF ClosedBy
    <3>2. ASSUME NEW j \in Instances \ {i}, instance[j].state \in {"opening", "open"}
          PROVE  instance[j].project \in Projects
      BY <3>2
    <3>3. \A j \in Instances \ {i} : flight[p].inst # j
      BY Typed DEF i
    <3> QED BY <1>1, <2>2, <2>3, <3>1, <3>2, <3>3 DEF NoneForgotten
  <2>9. (IsFiniteSet(Registered) /\ CapHolds)'
    BY <1>1 DEF Registered, CapHolds
  <2>10. \A j \in Instances : instance'[j].state # "unused" => instance'[j].project \in Projects
    BY <2>2
  <2> QED BY <2>5, <2>6, <2>7, <2>8, <2>9, <2>10
<1> QED BY <1>2, <1>3 DEF InitEnds

\* A flight that holds nothing moves between states in which it may.
LEMMA EmptyFlight_IInv ==
  ASSUME IInv, NEW p \in Projects,
         flight[p].inst = None, flight'[p].inst = None, flight'[p].pc \in {"idle", "done"},
         flight' \in [Projects -> Flight],
         \A q \in Projects \ {p} : flight'[q] = flight[q],
         caller' \in [Callers -> Caller],
         \A c \in Callers : \/ caller'[c] = caller[c]
                            \/ caller[c].pc = "wait" /\ caller'[c] = AtRest,
         UNCHANGED <<projects, instance, daemon>>
  PROVE  IInv'
<1> USE DEF IInv
<1>1. RegistryTypeOK'
  BY DEF RegistryTypeOK, Flight, Caller, Registered
<1>2. \A q \in Projects : FlightOK(q)'
  BY DEF FlightOK
<1>3. \A d \in Callers : CallerOK(d)'
  BY DEF CallerOK, AtRest
<1>4. NoneForgotten'
  <2>1. \A d \in Callers : caller[d].pc = "close" => caller'[d] = caller[d]
    OBVIOUS
  <2>2. \A i \in Instances : ClosedBy(i) => ClosedBy(i)'
    BY <2>1 DEF ClosedBy
  <2>3. ASSUME NEW j \in Instances, instance[j].state \in {"opening", "open"}
        PROVE  instance[j].project \in Projects
    BY <2>3
  <2>4. \A j \in Instances : flight[p].inst # j
    BY Typed
  <2> QED BY <2>2, <2>3, <2>4 DEF NoneForgotten
<1>5. (IsFiniteSet(Registered) /\ CapHolds)'
  BY DEF Registered, CapHolds
<1> QED BY <1>1, <1>2, <1>3, <1>4, <1>5

LEMMA InitFails_IInv ==
  ASSUME IInv, NEW p \in Projects, InitFails(p)
  PROVE  IInv'
<1>1. [flight[p] EXCEPT !.pc = "done"] \in Flight
  BY Typed DEF Flight, FlightPcs, IInv
<1>2. /\ flight' \in [Projects -> Flight] /\ \A q \in Projects \ {p} : flight'[q] = flight[q]
      /\ flight'[p].pc = "done" /\ flight'[p].inst = None
  BY <1>1, Typed DEF InitFails, IInv, Flight
<1> QED BY <1>2, EmptyFlight_IInv, Typed DEF InitFails, IInv

LEMMA Lands_IInv ==
  ASSUME IInv, NEW p \in Projects, Lands(p)
  PROVE  IInv'
<1>1. /\ flight' \in [Projects -> Flight] /\ \A q \in Projects \ {p} : flight'[q] = flight[q]
      /\ flight'[p].pc = "idle" /\ flight'[p].inst = None
  BY Typed DEF Lands, IInv, Flight, Grounded, FlightPcs
<1>2. AtRest \in Caller
  BY DEF AtRest, Caller, CallerPcs
<1>3. /\ caller' \in [Callers -> Caller]
      /\ \A c \in Callers : \/ caller'[c] = caller[c]
                            \/ caller[c].pc = "wait" /\ caller'[c] = AtRest
  BY <1>2, Typed DEF Lands, IInv
<1>4. flight[p].inst = None
  BY DEF Lands, IInv, FlightOK
<1> QED BY <1>1, <1>3, <1>4, EmptyFlight_IInv DEF Lands

LEMMA Stores_IInv ==
  ASSUME IInv, NEW p \in Projects, Stores(p)
  PROVE  IInv'
<1> USE DEF IInv
<1>1. /\ flight[p].pc = "store" /\ UNCHANGED <<caller, daemon>>
      /\ flight' = [flight EXCEPT ![p] = [pc |-> "done", inst |-> None]]
  BY DEF Stores
<1>2. flight[p].inst # None
  BY <1>1 DEF FlightOK
<1>3. CASE Refuses(p)
  BY <1>1, <1>2, <1>3, Discards_IInv DEF Refuses
<1>4. CASE Admits(p)
  <2> DEFINE i == flight[p].inst
  <2>1. /\ i \in Instances /\ instance[i].project = p /\ instance[i].state = "open"
        /\ projects[p] = None
    BY <1>1, Typed DEF FlightOK, Flight
  <2> HIDE DEF i
  <2>2. /\ projects' \in [Projects -> Instances \cup {None}]
        /\ projects'[p] = i
        /\ \A q \in Projects \ {p} : projects'[q] = projects[q]
        /\ UNCHANGED instance
    BY <1>4, <2>1, Typed DEF Admits, i
  <2>3. /\ flight' \in [Projects -> Flight] /\ \A q \in Projects \ {p} : flight'[q] = flight[q]
        /\ flight'[p].pc = "done" /\ flight'[p].inst = None
    BY <1>1, Typed DEF Flight, FlightPcs
  <2>4. Registered' = Registered \cup {p} /\ p \notin Registered
    BY <2>1, <2>2, Typed DEF Registered
  <2>5. (IsFiniteSet(Registered) /\ CapHolds)'
    <3>1. IsFiniteSet(Registered') /\ Cardinality(Registered') = Cardinality(Registered) + 1
      BY <2>4, FS_AddElement
    <3>2. Cardinality(Registered) \in Nat /\ Cardinality(Registered) < MaxActive
      BY <1>4, FS_CardinalityType DEF Admits
    <3> QED BY <3>1, <3>2, RegistryAssumption DEF CapHolds
  <2>6. RegistryTypeOK'
    BY <1>1, <2>1, <2>2, <2>3, Typed DEF RegistryTypeOK, Flight, Registered
  <2>7. \A q \in Projects : FlightOK(q)'
    BY <2>2, <2>3 DEF FlightOK
  <2>8. \A d \in Callers : CallerOK(d)'
    BY <1>1, <2>2 DEF CallerOK
  <2>9. NoneForgotten'
    <3>1. \A j \in Instances : ClosedBy(j) => ClosedBy(j)'
      BY <1>1 DEF ClosedBy
    <3>2. ASSUME NEW j \in Instances, instance[j].state \in {"opening", "open"}
          PROVE  instance[j].project \in Projects
      BY <3>2
    <3>3. \A j \in Instances \ {i} : flight[p].inst # j /\ projects[p] # j
      BY <2>1, Typed DEF i
    <3> QED BY <1>1, <2>1, <2>2, <2>3, <3>1, <3>2, <3>3 DEF NoneForgotten
  <2> QED BY <2>2, <2>5, <2>6, <2>7, <2>8, <2>9
<1> QED BY <1>3, <1>4 DEF Stores

LEMMA Delete_IInv ==
  ASSUME IInv, NEW c \in Callers, NEW p \in Projects, NEW reindex \in BOOLEAN,
         Delete(c, p, reindex)
  PROVE  IInv'
<1> USE DEF IInv
<1>0. PICK i \in Instances : i = projects[p]
  BY Typed DEF Delete
<1>1. /\ i \in Instances /\ instance[i].project = p /\ instance[i].state = "open"
      /\ i # None /\ caller[c].pc = "idle" /\ UNCHANGED <<flight, daemon>>
  BY <1>0, Typed DEF Delete
<1>2. /\ projects' \in [Projects -> Instances \cup {None}]
      /\ projects'[p] = None
      /\ \A q \in Projects \ {p} : projects'[q] = projects[q]
  BY Typed DEF Delete
<1>3. /\ instance' \in [Instances -> Instance]
      /\ \A j \in Instances \ {i} : instance'[j] = instance[j]
      /\ instance'[i] = [project |-> p, state |-> "closing"]
  BY <1>0, <1>1, InstanceMoves DEF InstanceStates, Delete
<1>4. /\ caller' \in [Callers -> Caller]
      /\ \A d \in Callers \ {c} : caller'[d] = caller[d]
      /\ caller'[c] = [pc |-> "close", project |-> p, inst |-> i, reindex |-> reindex]
  <2>1. [pc |-> "close", project |-> p, inst |-> i, reindex |-> reindex] \in Caller
    BY <1>1 DEF Caller, CallerPcs
  <2> QED BY <1>0, <2>1, Typed DEF Delete
<1>5. \A q \in Projects \ {p} : projects[q] # i
  BY <1>0, <1>1, Typed
<1>6. (IsFiniteSet(Registered) /\ CapHolds)'
  <2>1. Registered' \subseteq Registered
    BY <1>2 DEF Registered
  <2> QED BY <2>1, FewerRegistered
<1>7. RegistryTypeOK'
  BY <1>1, <1>2, <1>3, <1>4, <1>5, Typed DEF RegistryTypeOK, Instance, Caller, Registered
<1>8. \A q \in Projects : FlightOK(q)'
  <2>1. ASSUME NEW q \in Projects, flight[q].pc \in {"init", "store"} PROVE q # p
    BY <2>1, <1>0, <1>1, Typed DEF FlightOK
  <2>2. ASSUME NEW q \in Projects PROVE FlightOK(q)'
    <3>1. flight[q].pc \in {"init", "store"} => flight[q].inst # i
      BY <1>1, <2>1 DEF FlightOK
    <3>2. flight[q].inst \in Instances \/ flight[q].inst = None
      BY Typed DEF Flight
    <3> QED BY <1>1, <1>2, <1>3, <2>1, <3>1, <3>2 DEF FlightOK
  <2> QED BY <2>2
<1>9. \A d \in Callers : CallerOK(d)'
  BY <1>1, <1>3, <1>4 DEF CallerOK
<1>10. NoneForgotten'
  <2>1. ClosedBy(i)'
    BY <1>4 DEF ClosedBy
  <2>2. \A j \in Instances : ClosedBy(j) => ClosedBy(j)'
    BY <1>1, <1>4 DEF ClosedBy
  <2>3. ASSUME NEW j \in Instances, instance[j].state \in {"opening", "open"}
        PROVE  instance[j].project \in Projects
    BY <2>3
  <2>4. \A j \in Instances \ {i} : projects[p] # j
    BY <1>0
  <2> QED BY <1>1, <1>2, <1>3, <2>1, <2>2, <2>3, <2>4 DEF NoneForgotten
<1>11. \A j \in Instances : instance'[j].state # "unused" => instance'[j].project \in Projects
  BY <1>3
<1> QED BY <1>6, <1>7, <1>8, <1>9, <1>10, <1>11

\* An instance that is being closed is closed.
LEMMA ClosedEnd_IInv ==
  ASSUME IInv, NEW i \in Instances, instance[i].state = "closing", Moves(i, "closed"),
         caller' \in [Callers -> Caller],
         \A d \in Callers :
            \/ caller'[d] = caller[d] /\ ~(caller[d].pc = "close" /\ caller[d].inst = i)
            \/ /\ caller[d].pc = "close" /\ caller[d].inst = i
               /\ caller'[d].pc \in {"idle", "flight"}
               /\ caller'[d].project \in Projects \/ caller'[d].pc = "idle",
         UNCHANGED <<projects, flight, daemon>>
  PROVE  IInv'
<1> USE DEF IInv
<1>1. /\ instance' \in [Instances -> Instance]
      /\ \A j \in Instances \ {i} : instance'[j] = instance[j]
      /\ instance'[i] = [project |-> instance[i].project, state |-> "closed"]
  BY InstanceMoves DEF InstanceStates
<1>2. \A q \in Projects : projects[q] # i
  BY Typed
<1>3. RegistryTypeOK'
  BY <1>1, <1>2, Typed DEF RegistryTypeOK, Instance, Caller, Registered
<1>4. \A q \in Projects : FlightOK(q)'
  <2>1. ASSUME NEW q \in Projects PROVE FlightOK(q)'
    <3>1. flight[q].pc \in {"init", "store"} => flight[q].inst # i
      BY Typed DEF FlightOK
    <3>2. flight[q].inst \in Instances \/ flight[q].inst = None
      BY Typed DEF Flight
    <3> QED BY <1>1, <3>1, <3>2 DEF FlightOK
  <2> QED BY <2>1
<1>5. \A d \in Callers : CallerOK(d)'
  BY <1>1 DEF CallerOK
<1>6. NoneForgotten'
  <2>1. \A j \in Instances \ {i} : ClosedBy(j) => ClosedBy(j)'
    BY DEF ClosedBy
  <2> QED BY <1>1, <2>1 DEF NoneForgotten
<1>7. (IsFiniteSet(Registered) /\ CapHolds)'
  BY DEF Registered, CapHolds
<1>8. \A j \in Instances : instance'[j].state # "unused" => instance'[j].project \in Projects
  BY <1>1
<1> QED BY <1>3, <1>4, <1>5, <1>6, <1>7, <1>8

LEMMA Closes_IInv ==
  ASSUME IInv, NEW c \in Callers, Closes(c)
  PROVE  IInv'
<1> DEFINE i == caller[c].inst
           next == IF caller[c].reindex /\ projects[caller[c].project] = None
                   THEN [AtRest EXCEPT !.pc = "flight", !.project = caller[c].project]
                   ELSE AtRest
<1>1. i \in Instances /\ instance[i].state = "closing" /\ caller[c].project \in Projects
  BY DEF Closes, IInv, CallerOK
<1>2. next \in Caller /\ next.pc \in {"idle", "flight"}
      /\ (next.project = caller[c].project \/ next.pc = "idle")
  BY <1>1 DEF AtRest, Caller, CallerPcs
<1>3. caller' = [caller EXCEPT ![c] = next]
  BY DEF Closes
<1> HIDE DEF next
<1>4. /\ caller' \in [Callers -> Caller] /\ caller'[c] = next
      /\ \A d \in Callers \ {c} : caller'[d] = caller[d]
  BY <1>2, <1>3, Typed DEF IInv
<1>5. \A d \in Callers \ {c} : ~(caller[d].pc = "close" /\ caller[d].inst = i)
  BY DEF Closes, IInv, CallerOK
<1> QED BY <1>1, <1>2, <1>4, <1>5, ClosedEnd_IInv DEF Closes

LEMMA ClosesOne_IInv ==
  ASSUME IInv, ClosesOne
  PROVE  IInv'
<1>1. PICK i \in Instances : instance[i].state = "closing" /\ ~ClosedBy(i) /\ Moves(i, "closed")
  BY DEF ClosesOne
<1>2. caller' \in [Callers -> Caller]
  BY Typed DEF ClosesOne, IInv
<1>3. \A d \in Callers : caller'[d] = caller[d] /\ ~(caller[d].pc = "close" /\ caller[d].inst = i)
  BY <1>1 DEF ClosesOne, ClosedBy
<1> QED BY <1>1, <1>2, <1>3, ClosedEnd_IInv DEF ClosesOne

LEMMA CloseRegistry_IInv ==
  ASSUME IInv, CloseRegistry
  PROVE  IInv'
<1> USE DEF IInv
<1> DEFINE Mapped(i) == \E p \in Registered : projects[p] = i
<1>1. daemon' = "closing" /\ UNCHANGED <<flight, caller>> /\ projects' = [p \in Projects |-> None]
  BY DEF CloseRegistry
<1>2. \A i \in Instances : Mapped(i) => instance[i].state = "open"
  BY DEF RegistryTypeOK
<1>3. \A i \in Instances :
         /\ instance'[i].project = instance[i].project
         /\ instance'[i].state = IF Mapped(i) THEN "closing" ELSE instance[i].state
         /\ instance'[i] \in Instance
  <2>1. ASSUME NEW i \in Instances
        PROVE  /\ [instance[i] EXCEPT !.state = "closing"] \in Instance
               /\ [instance[i] EXCEPT !.state = "closing"].project = instance[i].project
               /\ [instance[i] EXCEPT !.state = "closing"].state = "closing"
    BY Typed DEF Instance, InstanceStates
  <2> QED BY <2>1, Typed DEF CloseRegistry
<1>4. instance' \in [Instances -> Instance]
  BY <1>3 DEF CloseRegistry
<1> HIDE DEF Mapped
<1>5. (IsFiniteSet(Registered) /\ CapHolds)' /\ Registered' = {}
  <2>1. Registered' = {}
    BY <1>1 DEF Registered
  <2> QED BY <2>1, FewerRegistered
<1>6. RegistryTypeOK'
  BY <1>1, <1>4, <1>5 DEF RegistryTypeOK, Instance
<1>7. \A q \in Projects : FlightOK(q)'
  <2>1. ASSUME NEW q \in Projects PROVE FlightOK(q)'
    <3>1. flight[q].pc \in {"init", "store"} /\ flight[q].inst # None => ~Mapped(flight[q].inst)
      BY Typed DEF FlightOK, Mapped, Registered
    <3>2. flight[q].inst \in Instances \/ flight[q].inst = None
      BY Typed DEF Flight
    <3> QED BY <1>1, <1>3, <3>1, <3>2 DEF FlightOK
  <2> QED BY <2>1
<1>8. \A d \in Callers : CallerOK(d)'
  <2>1. \A d \in Callers : caller[d].pc = "close" => ~Mapped(caller[d].inst)
    BY <1>2 DEF CallerOK
  <2> QED BY <1>1, <1>3, <2>1 DEF CallerOK
<1>9. NoneForgotten'
  <2>1. ASSUME NEW i \in Instances, instance'[i].state \in {"opening", "open"}
        PROVE  ~Mapped(i) /\ instance[i].state = instance'[i].state
               /\ instance[i].project \in Projects
    BY <2>1, <1>3
  <2>2. \A i \in Instances : ~Mapped(i) /\ instance[i].state = "open"
           => projects[instance[i].project] # i
    BY Typed DEF Mapped, Registered
  <2> QED BY <1>1, <1>3, <2>1, <2>2 DEF NoneForgotten
<1>10. \A j \in Instances : instance'[j].state # "unused" => instance'[j].project \in Projects
  BY <1>2, <1>3
<1> QED BY <1>5, <1>6, <1>7, <1>8, <1>9, <1>10

LEMMA RegistryClosed_IInv ==
  ASSUME IInv, RegistryClosed
  PROVE  IInv'
<1> USE DEF IInv, RegistryClosed
<1>1. RegistryTypeOK'
  BY DEF RegistryTypeOK, Registered
<1>2. NoneForgotten'
  BY DEF NoneForgotten, ClosedBy
<1>3. (IsFiniteSet(Registered) /\ CapHolds)'
  BY DEF Registered, CapHolds
<1> QED BY <1>1, <1>2, <1>3 DEF FlightOK, CallerOK

LEMMA StepIInv == IInv /\ [RegistryNext]_registryVars => IInv'
<1> SUFFICES ASSUME IInv, [RegistryNext]_registryVars PROVE IInv'
  OBVIOUS
<1>1. CASE UNCHANGED registryVars
  <2>1. RegistryTypeOK'
    BY <1>1 DEF IInv, RegistryTypeOK, Registered, registryVars
  <2>2. NoneForgotten'
    BY <1>1 DEF IInv, NoneForgotten, ClosedBy, registryVars
  <2>3. (IsFiniteSet(Registered) /\ CapHolds)'
    BY <1>1 DEF IInv, Registered, CapHolds, registryVars
  <2> QED BY <1>1, <2>1, <2>2, <2>3 DEF IInv, FlightOK, CallerOK, registryVars
<1>2. ASSUME NEW c \in Callers, NEW p \in Projects, Misses(c, p) PROVE IInv'
  BY <1>2, Misses_IInv
<1>3. ASSUME NEW c \in Callers, NEW p \in Projects, NEW r \in BOOLEAN, Delete(c, p, r) PROVE IInv'
  BY <1>3, Delete_IInv
<1>4. ASSUME NEW c \in Callers, JoinsFlight(c) \/ Closes(c) PROVE IInv'
  BY <1>4, JoinsFlight_IInv, Closes_IInv
<1>5. ASSUME NEW p \in Projects, FlightStep(p) PROVE IInv'
  BY <1>5, Rechecks_IInv, Opens_IInv, InitEnds_IInv, InitFails_IInv, Stores_IInv,
     Lands_IInv
     DEF FlightStep
<1>6. CASE CloseRegistry \/ ClosesOne \/ RegistryClosed
  BY <1>6, CloseRegistry_IInv, ClosesOne_IInv, RegistryClosed_IInv
<1> QED BY <1>1, <1>2, <1>3, <1>4, <1>5, <1>6 DEF RegistryNext

LEMMA Inductive == RegistrySpec => []IInv
BY InitIInv, StepIInv, PTL DEF RegistrySpec

\* Every reachable state has the declared types, and the map holds open instances.
THEOREM RegistryTypeCorrect == RegistrySpec => []RegistryTypeOK
<1>1. IInv => RegistryTypeOK
  BY DEF IInv
<1> QED BY <1>1, Inductive, PTL

\* Whatever callers, flights and the exit do, an open instance is in the map, in the
\* one flight of its project or being closed (registry.go:107-163, 185-193).
THEOREM NoneForgottenEver == RegistrySpec => []NoneForgotten
<1>1. IInv => NoneForgotten
  BY DEF IInv
<1> QED BY <1>1, Inductive, PTL

\* The map never holds more than MaxActive projects (registry.go:135-142).
THEOREM CapHoldsEver == RegistrySpec => []CapHolds
<1>1. IInv => CapHolds
  BY DEF IInv
<1> QED BY <1>1, Inductive, PTL

\* Who waits in singleflight waits for a flight that is under way.
WaitersFly == \A c \in Callers : caller[c].pc = "wait" => flight[caller[c].project].pc # "idle"

\* No caller ever waits for a flight that has landed, however GetOrSet, Delete and
\* reindexing interleave: whoever enters singleflight starts a flight or joins one
\* that has not given out its result (registry.go:117-148).
THEOREM NobodyMissesTheFlight == RegistrySpec => []WaitersFly
<1>1. RegistryInit => WaitersFly
  BY DEF RegistryInit, WaitersFly, AtRest
<1>2. ASSUME IInv, WaitersFly, [RegistryNext]_registryVars PROVE WaitersFly'
  <2>0. /\ caller \in [Callers -> Caller] /\ flight \in [Projects -> Flight]
        /\ \A c \in Callers : caller[c].pc = "wait" => caller[c].project \in Projects
    BY <1>2, Typed DEF IInv, CallerOK
  <2>1. ASSUME \A p \in Projects : flight[p].pc # "idle" => flight'[p].pc # "idle",
               \A c \in Callers : caller'[c].pc = "wait" => caller'[c] = caller[c]
        PROVE  WaitersFly'
    BY <1>2, <2>0, <2>1 DEF WaitersFly
  <2>2. ASSUME NEW c \in Callers, NEW p \in Projects,
               Misses(c, p) \/ \E r \in BOOLEAN : Delete(c, p, r)
        PROVE  WaitersFly'
    <3>1. CASE Misses(c, p)
      <4>1. caller'[c].pc = "flight" /\ \A d \in Callers : d # c => caller'[d] = caller[d]
        BY <2>0, <3>1 DEF Misses, AtRest
      <4> QED BY <2>1, <3>1, <4>1 DEF Misses
    <3>2. ASSUME NEW r \in BOOLEAN, Delete(c, p, r) PROVE WaitersFly'
      <4>1. caller'[c].pc = "close" /\ \A d \in Callers : d # c => caller'[d] = caller[d]
        BY <2>0, <3>2 DEF Delete
      <4> QED BY <2>1, <3>2, <4>1 DEF Delete
    <3> QED BY <2>2, <3>1, <3>2
  <2>3. ASSUME NEW c \in Callers, JoinsFlight(c) PROVE WaitersFly'
    <3> DEFINE p == caller[c].project
    <3>1. caller[c].project \in Projects
      BY <1>2, <2>3 DEF IInv, CallerOK, JoinsFlight
    <3>2. /\ flight'[p].pc # "idle"
          /\ \A q \in Projects : flight[q].pc # "idle" => flight'[q].pc # "idle"
      BY <2>0, <2>3, <3>1 DEF JoinsFlight
    <3>3. /\ caller'[c].project = p
          /\ \A d \in Callers : d # c => caller'[d] = caller[d]
      BY <2>0, <2>3 DEF JoinsFlight
    <3> QED BY <1>2, <2>0, <3>2, <3>3 DEF WaitersFly
  <2>4. ASSUME NEW c \in Callers, Closes(c) PROVE WaitersFly'
    BY <2>0, <2>1, <2>4 DEF Closes, AtRest
  <2>5. ASSUME NEW p \in Projects,
               Rechecks(p) \/ Opens(p) \/ InitEnds(p) \/ InitFails(p) \/ Stores(p)
        PROVE  WaitersFly'
    <3>1. caller' = caller
      BY <2>5 DEF Rechecks, Opens, InitEnds, InitFails, Stores
    <3>2. \A q \in Projects : flight[q].pc # "idle" => flight'[q].pc # "idle"
      <4>1. CASE Rechecks(p)
        BY <2>0, <4>1 DEF Rechecks
      <4>2. CASE Opens(p)
        <5>1. PICK i \in Instances : flight' = [flight EXCEPT ![p].inst = i]
          BY <4>2 DEF Opens
        <5>2. \A q \in Projects : flight'[q].pc = flight[q].pc
          BY <2>0, <5>1 DEF Flight
        <5> QED BY <5>2
      <4>3. CASE InitEnds(p)
        <5>1. \/ flight' = [flight EXCEPT ![p].pc = "store"]
              \/ flight' = [flight EXCEPT ![p] = [pc |-> "done", inst |-> None]]
          BY <4>3 DEF InitEnds
        <5>2. flight[p] \in Flight
          BY <2>0
        <5>3. flight'[p].pc \in {"store", "done"}
          BY <2>0, <5>1, <5>2 DEF Flight
        <5>4. \A q \in Projects : q # p => flight'[q] = flight[q]
          BY <2>0, <5>1
        <5> QED BY <5>3, <5>4
      <4>4. CASE InitFails(p)
        BY <2>0, <4>4 DEF InitFails
      <4>5. CASE Stores(p)
        <5>1. flight' = [flight EXCEPT ![p] = [pc |-> "done", inst |-> None]]
          BY <4>5 DEF Stores
        <5>2. \A q \in Projects : flight'[q] = flight[q] \/ flight'[q].pc = "done"
          BY <2>0, <5>1
        <5> QED BY <5>2
      <4> QED BY <2>5, <4>1, <4>2, <4>3, <4>4, <4>5
    <3> QED BY <2>1, <3>1, <3>2
  <2>6. ASSUME NEW p \in Projects, Lands(p) PROVE WaitersFly'
    <3>1. /\ \A q \in Projects : q # p => flight'[q] = flight[q]
          /\ \A c \in Callers : caller'[c] = IF caller[c].pc = "wait" /\ caller[c].project = p
                                             THEN AtRest ELSE caller[c]
      BY <2>0, <2>6 DEF Lands
    <3>2. \A c \in Callers : caller'[c].pc = "wait" =>
             caller'[c] = caller[c] /\ caller[c].project # p
      BY <3>1 DEF AtRest
    <3> QED BY <1>2, <2>0, <3>1, <3>2 DEF WaitersFly
  <2>7. CASE CloseRegistry \/ ClosesOne \/ RegistryClosed \/ UNCHANGED registryVars
    BY <2>1, <2>7 DEF CloseRegistry, ClosesOne, RegistryClosed, registryVars
  <2> QED BY <1>2, <2>2, <2>3, <2>4, <2>5, <2>6, <2>7 DEF RegistryNext, FlightStep
<1> QED BY <1>1, <1>2, Inductive, PTL DEF RegistrySpec

-----------------------------------------------------------------------------
\* The watcher that every open project has.

\* A path's count, drawn as pairs of the path and a number.
Units(f) == UNION {{p} \X (1..f[p]) : p \in Paths}

LEMMA TotalIs == \A f : Total(f) = Cardinality(Units(f))
BY DEF Total, Units

LEMMA UnitsAre ==
    ASSUME NEW f, NEW p, NEW i
    PROVE  <<p, i>> \in Units(f) <=> p \in Paths /\ i \in 1..f[p]
BY DEF Units

LEMMA UnitsArePairs ==
    ASSUME NEW f, NEW u \in Units(f)
    PROVE  \E p \in Paths : \E i \in 1..f[p] : u = <<p, i>>
BY DEF Units

\* Finitely many paths have finitely many units.
LEMMA UnitsFinite ==
    ASSUME NEW f \in [Paths -> Nat]
    PROVE  IsFiniteSet(Units(f)) /\ Total(f) \in Nat
<1> DEFINE Parts == {{p} \X (1..f[p]) : p \in Paths}
           part  == [p \in Paths |-> {p} \X (1..f[p])]
<1>1. IsFiniteSet(Paths)
  BY LifecycleAssumption
<1>2. part \in Surjection(Paths, Parts)
  BY DEF Surjection
<1>3. IsFiniteSet(Parts)
  <2> HIDE DEF Parts, part
  <2> QED BY <1>1, <1>2, FS_Surjection
<1>4. ASSUME NEW p \in Paths PROVE IsFiniteSet({p} \X (1..f[p]))
  <2>1. f[p] \in Int /\ 1 \in Int
    OBVIOUS
  <2>2. IsFiniteSet(1..f[p])
    BY <2>1, FS_Interval
  <2>3. IsFiniteSet({p})
    BY FS_Singleton
  <2> QED BY <2>2, <2>3, FS_Product
<1>5. \A T \in Parts : IsFiniteSet(T)
  BY <1>4
<1>6. IsFiniteSet(UNION Parts)
  <2> HIDE DEF Parts
  <2> QED BY <1>3, <1>5, FS_UNION
<1>7. IsFiniteSet(Units(f))
  BY <1>6 DEF Units
<1> QED BY <1>7, FS_CardinalityType, TotalIs

\* No unit at all: no path has one.
LEMMA TotalZero ==
    ASSUME NEW f \in [Paths -> Nat]
    PROVE  Total(f) = 0 <=> \A p \in Paths : f[p] = 0
<1>1. Total(f) = 0 <=> Units(f) = {}
  BY UnitsFinite, FS_EmptySet, TotalIs
<1>2. ASSUME Units(f) = {}, NEW p \in Paths PROVE f[p] = 0
  <2>1. 1 \notin 1..f[p]
    BY <1>2, UnitsAre
  <2> QED BY <2>1
<1>3. ASSUME \A p \in Paths : f[p] = 0 PROVE Units(f) = {}
  BY <1>3, UnitsArePairs
<1> QED BY <1>1, <1>2, <1>3

\* One more for a path is one more in all.
LEMMA TotalPlus ==
    ASSUME NEW f \in [Paths -> Nat], NEW p \in Paths
    PROVE  /\ [f EXCEPT ![p] = @ + 1] \in [Paths -> Nat]
           /\ Total([f EXCEPT ![p] = @ + 1]) = Total(f) + 1
<1> DEFINE g == [f EXCEPT ![p] = @ + 1]
           new == <<p, f[p] + 1>>
<1>1. g \in [Paths -> Nat] /\ g[p] = f[p] + 1 /\ \A q \in Paths : q # p => g[q] = f[q]
  OBVIOUS
<1>2. new \notin Units(f)
  <2>1. f[p] + 1 \notin 1..f[p]
    OBVIOUS
  <2> QED BY <2>1, UnitsAre
<1>3. Units(g) = Units(f) \cup {new}
  <2> HIDE DEF g
  <2>1. ASSUME NEW u \in Units(g) PROVE u \in Units(f) \cup {new}
    <3>0. PICK q \in Paths : \E i \in 1..g[q] : u = <<q, i>>
      BY <2>1, UnitsArePairs
    <3>1. PICK i \in 1..g[q] : u = <<q, i>>
      BY <3>0
    <3>2. (q = p /\ i = f[p] + 1) \/ i \in 1..f[q]
      BY <1>1, <3>1
    <3> QED BY <3>1, <3>2, UnitsAre
  <2>2. ASSUME NEW u \in Units(f) PROVE u \in Units(g)
    <3>0. PICK q \in Paths : \E i \in 1..f[q] : u = <<q, i>>
      BY <2>2, UnitsArePairs
    <3>1. PICK i \in 1..f[q] : u = <<q, i>>
      BY <3>0
    <3>2. i \in 1..g[q]
      BY <1>1, <3>1
    <3> QED BY <3>1, <3>2, UnitsAre
  <2>3. new \in Units(g)
    <3>1. f[p] + 1 \in 1..g[p]
      BY <1>1
    <3> QED BY <3>1, UnitsAre
  <2> QED BY <2>1, <2>2, <2>3
<1>4. IsFiniteSet(Units(f)) /\ Cardinality(Units(f)) \in Nat
  BY UnitsFinite, FS_CardinalityType
<1>5. Cardinality(Units(g)) = Cardinality(Units(f)) + 1
  <2> HIDE DEF g, new
  <2> QED BY <1>2, <1>3, <1>4, FS_AddElement
<1> QED BY <1>1, <1>5, TotalIs

\* One less for a path is one less in all.
LEMMA TotalMinus ==
    ASSUME NEW f \in [Paths -> Nat], NEW p \in Paths, f[p] > 0
    PROVE  /\ [f EXCEPT ![p] = @ - 1] \in [Paths -> Nat]
           /\ Total([f EXCEPT ![p] = @ - 1]) = Total(f) - 1
<1> DEFINE g == [f EXCEPT ![p] = @ - 1]
<1>1. g \in [Paths -> Nat]
  OBVIOUS
<1>2. [g EXCEPT ![p] = @ + 1] = f
  <2>1. \A q \in Paths : [g EXCEPT ![p] = @ + 1][q] = f[q]
    OBVIOUS
  <2> QED BY <2>1
<1>3. Total(f) = Total(g) + 1
  <2> HIDE DEF g
  <2> QED BY <1>1, <1>2, TotalPlus
<1>4. Total(g) \in Nat
  BY <1>1, UnitsFinite
<1> QED BY <1>1, <1>3, <1>4

-----------------------------------------------------------------------------
\* Every reachable state of the watcher has the declared types: no count of timers,
\* callbacks or goroutines below zero, no channel beyond its capacity.
LEMMA WatcherInitTyped == Init => TypeOK
<1>1. Cardinality(Workers) \in Nat
  BY FS_CardinalityType, LifecycleAssumption
<1> QED BY <1>1, LifecycleAssumption DEF Init, TypeOK

\* What the steps of Stop, Done and trackGo keep.
LEMMA AddTyped ==
    ASSUME TypeOK, NEW n \in Int, Add(n)
    PROVE  wg' \in Int /\ stop' \in {"no", "waiting", "returned"}
BY DEF TypeOK, Add

LEMMA TrackGoTyped ==
    ASSUME TypeOK, TrackGo
    PROVE  wg' \in Int /\ stop' \in {"no", "waiting", "returned"} /\ jobs' \in Nat
BY AddTyped DEF TypeOK, TrackGo, waitVars

LEMMA WatcherStepTyped ==
    ASSUME TypeOK, [Next]_vars
    PROVE  TypeOK'
<1> USE DEF TypeOK, waitVars, loopVars, timerVars, poolVars
<1>0. -1 \in Int /\ 1 \in Int
  OBVIOUS
<1>1. /\ Cardinality(Armed) \in Nat
      /\ Cardinality(Armed) = Cardinality(Armed)
  <2>1. IsFiniteSet(Paths) /\ Armed \subseteq Paths
    BY LifecycleAssumption DEF Armed
  <2> QED BY <2>1, FS_Subset, FS_CardinalityType
<1>2. CASE Start
  BY <1>2, <1>0, AddTyped DEF Start
<1>3. CASE Stop
  <2>1. timer' \in [Paths -> {"none", "armed", "fired", "cancelled"}]
    BY <1>3 DEF Stop
  <2>2. wg' \in Int
    BY <1>1, <1>3 DEF Stop
  <2> QED BY <1>3, <2>1, <2>2 DEF Stop
<1>4. CASE HandleRemove
  BY <1>4, LifecycleAssumption DEF HandleRemove, HandlesEvent
<1>5. CASE LoopPanics
  <2>1. wg' \in Int /\ stop' \in {"no", "waiting", "returned"}
    BY <1>5, <1>0, AddTyped DEF LoopPanics
  <2> QED BY <1>5, <2>1, LifecycleAssumption DEF LoopPanics
<1>6. ASSUME NEW p \in Paths, HandleWrite(p) PROVE TypeOK'
  <2>1. events' \in 0..MaxEvents
    BY <1>6, LifecycleAssumption DEF HandleWrite, HandlesEvent
  <2>2. /\ timer' \in [Paths -> {"none", "armed", "fired", "cancelled"}]
        /\ wg' \in Int /\ stop' \in {"no", "waiting", "returned"}
        /\ jobs' \in Nat /\ miscount' \in Nat
    <3>1. CASE Rearm(p)
      BY <3>1 DEF Rearm
    <3>2. CASE NewTimer(p)
      BY <3>2, <1>0, AddTyped DEF NewTimer
    <3>3. CASE FullRewalk(p)
      <4>1. 1 - Cardinality(Armed) \in Int
        BY <1>1
      <4>2. wg' \in Int /\ stop' \in {"no", "waiting", "returned"}
        BY <1>1, <3>3, <4>1, AddTyped DEF FullRewalk
      <4> QED BY <3>3, <4>2 DEF FullRewalk
    <3> QED BY <1>6, <3>1, <3>2, <3>3 DEF HandleWrite
  <2> QED BY <1>6, <2>1, <2>2 DEF HandleWrite, HandlesEvent
<1>7. CASE RemoveLocks \/ RemoveUnlocks \/ LoopRestarts
  BY <1>7 DEF RemoveLocks, RemoveUnlocks, LoopRestarts
<1>8. CASE RemoveEnds
  BY <1>8, TrackGoTyped DEF RemoveEnds
<1>9. CASE LoopLeaves
  BY <1>9, <1>0, AddTyped DEF LoopLeaves
<1>10. ASSUME NEW p \in Paths, TimerFires(p) PROVE TypeOK'
  <2>1. timer' \in [Paths -> {"none", "armed", "fired", "cancelled"}] /\ stray' \in [Paths -> Nat]
    BY <1>10 DEF TimerFires
  <2>2. due' \in [Paths -> Nat]
    BY <1>10 DEF TimerFires
  <2> QED BY <1>10, <2>1, <2>2 DEF TimerFires
<1>11. ASSUME NEW p \in Paths, CallbackRuns(p) PROVE TypeOK'
  <2>1. timer' \in [Paths -> {"none", "armed", "fired", "cancelled"}]
    BY <1>11 DEF CallbackRuns
  <2>2. due' \in [Paths -> Nat]
    BY <1>11 DEF CallbackRuns
  <2>3. stray' \in [Paths -> Nat] /\ calling' \in [Paths -> Nat]
    BY <1>11 DEF CallbackRuns
  <2> QED BY <1>11, <2>1, <2>2, <2>3 DEF CallbackRuns
<1>12. ASSUME NEW p \in Paths, CallbackEnds(p)
       PROVE  calling' \in [Paths -> Nat] /\ wg' \in Int /\ stop' \in {"no", "waiting", "returned"}
  BY <1>12, <1>0, AddTyped DEF CallbackEnds
<1>13. ASSUME NEW p \in Paths, SendWork(p) PROVE TypeOK'
  <2>1. CallbackEnds(p) /\ work' \in 0..WorkCap
    BY <1>13, LifecycleAssumption DEF SendWork
  <2> QED BY <1>12, <2>1 DEF CallbackEnds
<1>14. ASSUME NEW p \in Paths, GiveUp(p) PROVE TypeOK'
  BY <1>12, <1>14 DEF GiveUp, CallbackEnds
<1>15. CASE Reload
  <2>1. ConfigPath \in Paths
    BY LifecycleAssumption
  <2> QED BY <1>12, <1>15, <2>1 DEF Reload, CallbackEnds
<1>16. ASSUME NEW w \in Workers, TakeWork(w) \/ Parses(w) \/ HandsOver(w) \/ WorkerDrains(w)
       PROVE  TypeOK'
  BY <1>16, LifecycleAssumption DEF TakeWork, Parses, HandsOver, WorkerDrains
<1>17. ASSUME NEW w \in Workers, WorkerLeaves(w) PROVE TypeOK'
  BY <1>17, <1>0, AddTyped DEF WorkerLeaves
<1>18. ASSUME NEW w \in Workers, DrainsOne(w) PROVE TypeOK'
  BY <1>18, LifecycleAssumption DEF DrainsOne
<1>19. CASE MergeTakes \/ MergeCollects \/ CoalesceEnds \/ CollectEnds
  <2>1. CASE MergeTakes
    BY <2>1, LifecycleAssumption DEF MergeTakes, MergeTo
  <2>2. CASE MergeCollects
    BY <2>2, LifecycleAssumption DEF MergeCollects, MergeTo
  <2>3. CASE CoalesceEnds \/ CollectEnds
    BY <2>3 DEF CoalesceEnds, CollectEnds, MergeTo
  <2> QED BY <1>19, <2>1, <2>2, <2>3
<1>20. CASE SnapshotLocks \/ SnapshotUnlocks \/ ApplyLocks \/ MergeStops \/ MergeDrains
  <2>1. CASE SnapshotLocks \/ SnapshotUnlocks \/ ApplyLocks
    BY <2>1 DEF SnapshotLocks, SnapshotUnlocks, ApplyLocks, MergeTo
  <2>2. CASE MergeStops
    BY <2>2 DEF MergeStops, MergeTo
  <2>3. CASE MergeDrains
    BY <2>3, LifecycleAssumption DEF MergeDrains, MergeTo
  <2> QED BY <1>20, <2>1, <2>2, <2>3
<1>21. CASE ApplyUnlocks
  BY <1>21, TrackGoTyped DEF ApplyUnlocks, MayTrackGo, MergeTo
<1>22. CASE ApplyEnds
  <2>1. wg' \in Int /\ stop' \in {"no", "waiting", "returned"} /\ jobs' \in Nat
    BY <1>22, <1>0, AddTyped, TrackGoTyped DEF ApplyEnds, MayTrackGo
  <2> QED BY <1>22, <2>1 DEF ApplyEnds, MergeTo
<1>23. CASE MergeLeaves
  BY <1>23, <1>0, AddTyped DEF MergeLeaves, MergeTo
<1>24. CASE JobEnds
  BY <1>24, <1>0, AddTyped DEF JobEnds
<1>25. CASE WaitPasses \/ UNCHANGED vars
  BY <1>25 DEF WaitPasses, vars
<1> QED BY <1>2, <1>3, <1>4, <1>5, <1>6, <1>7, <1>8, <1>9, <1>10, <1>11, <1>13, <1>14,
           <1>15,
           <1>16, <1>17, <1>18, <1>19, <1>20, <1>21, <1>22, <1>23, <1>24, <1>25
        DEF Next, Environment, LoopSteps, TimerSteps, WorkerSteps, MergeSteps

THEOREM WatcherTypeCorrect == Spec => []TypeOK
BY WatcherInitTyped, WatcherStepTyped, PTL DEF Spec

-----------------------------------------------------------------------------
\* How the sets that Running counts change with one timer or one worker.
ArmedIn(t) == {p \in Paths : t[p] = "armed"}
AliveIn(k) == {w \in Workers : k[w] # "gone"}

LEMMA ArmedFinite ==
    ASSUME NEW t
    PROVE  IsFiniteSet(ArmedIn(t)) /\ Cardinality(ArmedIn(t)) \in Nat
<1>1. IsFiniteSet(Paths) /\ ArmedIn(t) \subseteq Paths
  BY LifecycleAssumption DEF ArmedIn
<1> QED BY <1>1, FS_Subset, FS_CardinalityType

LEMMA AliveFinite ==
    ASSUME NEW k
    PROVE  IsFiniteSet(AliveIn(k)) /\ Cardinality(AliveIn(k)) \in Nat
<1>1. IsFiniteSet(Workers) /\ AliveIn(k) \subseteq Workers
  BY LifecycleAssumption DEF AliveIn
<1> QED BY <1>1, FS_Subset, FS_CardinalityType

LEMMA ArmedChanges ==
    ASSUME NEW S, NEW t \in [Paths -> S], NEW p \in Paths, NEW x
    PROVE  LET before == Cardinality(ArmedIn(t))
               after  == Cardinality(ArmedIn([t EXCEPT ![p] = x]))
           IN  /\ x = "armed" /\ t[p] # "armed" => after = before + 1
               /\ x # "armed" /\ t[p] = "armed" => after = before - 1
               /\ x # "armed" /\ t[p] # "armed" => after = before
               /\ x = "armed" /\ t[p] = "armed" => after = before
<1>1. IsFiniteSet(ArmedIn(t)) /\ Cardinality(ArmedIn(t)) \in Nat
  BY ArmedFinite
<1>2. p \in ArmedIn(t) <=> t[p] = "armed"
  BY DEF ArmedIn
<1>3. CASE x = "armed"
  <2>1. ArmedIn([t EXCEPT ![p] = x]) = ArmedIn(t) \cup {p}
    BY <1>3 DEF ArmedIn
  <2>2. Cardinality(ArmedIn([t EXCEPT ![p] = x])) =
           IF p \in ArmedIn(t) THEN Cardinality(ArmedIn(t)) ELSE Cardinality(ArmedIn(t)) + 1
    BY <1>1, <2>1, FS_AddElement
  <2> QED BY <1>1, <1>2, <1>3, <2>2
<1>4. CASE x # "armed"
  <2>1. ArmedIn([t EXCEPT ![p] = x]) = ArmedIn(t) \ {p}
    BY <1>4 DEF ArmedIn
  <2>2. Cardinality(ArmedIn([t EXCEPT ![p] = x])) =
           IF p \in ArmedIn(t) THEN Cardinality(ArmedIn(t)) - 1 ELSE Cardinality(ArmedIn(t))
    BY <1>1, <2>1, FS_RemoveElement
  <2> QED BY <1>1, <1>2, <1>4, <2>2
<1> QED BY <1>3, <1>4

LEMMA AliveChanges ==
    ASSUME NEW S, NEW k \in [Workers -> S], NEW w \in Workers,
           NEW x, k[w] # "gone"
    PROVE  Cardinality(AliveIn([k EXCEPT ![w] = x])) =
              IF x = "gone" THEN Cardinality(AliveIn(k)) - 1 ELSE Cardinality(AliveIn(k))
<1>1. IsFiniteSet(AliveIn(k)) /\ w \in AliveIn(k)
  BY AliveFinite DEF AliveIn
<1>2. CASE x # "gone"
  <2>1. AliveIn([k EXCEPT ![w] = x]) = AliveIn(k)
    BY <1>2 DEF AliveIn
  <2> QED BY <1>2, <2>1
<1>3. CASE x = "gone"
  <2>1. AliveIn([k EXCEPT ![w] = x]) = AliveIn(k) \ {w}
    BY <1>3 DEF AliveIn
  <2> QED BY <1>1, <1>3, <2>1, FS_RemoveElement
<1> QED BY <1>2, <1>3

\* The parts of Running, before and after a step, and that they are numbers.
LEMMA RunningIs ==
    /\ Running = Cardinality(ArmedIn(timer)) + Total(stray) + Total(due)
                     + Total(calling) + Cardinality(AliveIn(worker))
                     + One(merge.pc # "gone") + One(loop \notin {"off", "gone"}) + jobs
    /\ Running' = Cardinality(ArmedIn(timer')) + Total(stray') + Total(due')
                     + Total(calling') + Cardinality(AliveIn(worker'))
                     + One(merge'.pc # "gone") + One(loop' \notin {"off", "gone"}) + jobs'
<1>1. Armed = ArmedIn(timer) /\ Armed' = ArmedIn(timer')
  BY DEF Armed, ArmedIn
<1>2. Alive = AliveIn(worker) /\ Alive' = AliveIn(worker')
  BY DEF Alive, AliveIn
<1> QED BY <1>1, <1>2 DEF Running

LEMMA PartsAreNumbers ==
    ASSUME TypeOK, TypeOK'
    PROVE  /\ Cardinality(ArmedIn(timer)) \in Nat /\ Cardinality(ArmedIn(timer')) \in Nat
           /\ Total(stray) \in Nat /\ Total(stray') \in Nat
           /\ Total(due) \in Nat /\ Total(due') \in Nat
           /\ Total(calling) \in Nat /\ Total(calling') \in Nat
           /\ Cardinality(AliveIn(worker)) \in Nat /\ Cardinality(AliveIn(worker')) \in Nat
           /\ wg \in Int /\ wg' \in Int /\ jobs \in Nat /\ jobs' \in Nat
           /\ miscount \in Nat /\ miscount' \in Nat
<1>1. /\ stray \in [Paths -> Nat] /\ due \in [Paths -> Nat] /\ calling \in [Paths -> Nat]
      /\ stray' \in [Paths -> Nat] /\ due' \in [Paths -> Nat] /\ calling' \in [Paths -> Nat]
      /\ wg \in Int /\ wg' \in Int /\ jobs \in Nat /\ jobs' \in Nat
      /\ miscount \in Nat /\ miscount' \in Nat
  BY DEF TypeOK
<1> QED BY <1>1, UnitsFinite, ArmedFinite, AliveFinite

\* What runs, in groups: what timers have in store, and the four kinds of goroutines.
TimerCount  == Cardinality(ArmedIn(timer)) + Total(stray) + Total(due) + Total(calling)
WorkerCount == Cardinality(AliveIn(worker))
MergeCount  == IF merge.pc = "gone" THEN 0 ELSE 1
LoopCount   == IF loop \in {"off", "gone"} THEN 0 ELSE 1

LEMMA GroupsAreNumbers ==
    ASSUME TypeOK, TypeOK'
    PROVE  /\ TimerCount \in Int /\ TimerCount' \in Int
           /\ WorkerCount \in Int /\ WorkerCount' \in Int
           /\ MergeCount \in Int /\ MergeCount' \in Int
           /\ LoopCount \in Int /\ LoopCount' \in Int
           /\ wg \in Int /\ wg' \in Int /\ jobs \in Int /\ jobs' \in Int
           /\ miscount \in Int /\ miscount' \in Int
<1>1. /\ Cardinality(ArmedIn(timer)) \in Int /\ Cardinality(ArmedIn(timer')) \in Int
      /\ Total(stray) \in Int /\ Total(stray') \in Int
      /\ Total(due) \in Int /\ Total(due') \in Int
      /\ Total(calling) \in Int /\ Total(calling') \in Int
  BY PartsAreNumbers
<1>2. TimerCount \in Int /\ TimerCount' \in Int
  BY <1>1 DEF TimerCount
<1>3. /\ MergeCount \in Int /\ MergeCount' \in Int
      /\ LoopCount \in Int /\ LoopCount' \in Int
  BY DEF MergeCount, LoopCount
<1> QED BY <1>2, <1>3, PartsAreNumbers DEF WorkerCount

LEMMA RunningInGroups ==
    ASSUME TypeOK, TypeOK'
    PROVE  /\ Running = TimerCount + WorkerCount + MergeCount + LoopCount + jobs
           /\ Running' = TimerCount' + WorkerCount' + MergeCount' + LoopCount' + jobs'
<1>1. /\ One(merge.pc # "gone") = MergeCount /\ One(merge'.pc # "gone") = MergeCount'
      /\ One(loop \notin {"off", "gone"}) = LoopCount
      /\ One(loop' \notin {"off", "gone"}) = LoopCount'
  BY DEF One, MergeCount, LoopCount
<1>2. /\ Running = TimerCount + WorkerCount + One(merge.pc # "gone")
                       + One(loop \notin {"off", "gone"}) + jobs
      /\ Running' = TimerCount' + WorkerCount' + One(merge'.pc # "gone")
                       + One(loop' \notin {"off", "gone"}) + jobs'
  BY RunningIs DEF TimerCount, WorkerCount
<1> QED BY <1>1, <1>2

\* The count is kept by a step that changes both sides by the same number.
LEMMA Balanced ==
    ASSUME TypeOK, TypeOK', WaitGroupCounts,
           (wg' + miscount') - (wg + miscount) =
               (TimerCount' - TimerCount) + (WorkerCount' - WorkerCount)
                 + (MergeCount' - MergeCount) + (LoopCount' - LoopCount) + (jobs' - jobs)
    PROVE  WaitGroupCounts'
<1>1. wg + miscount = TimerCount + WorkerCount + MergeCount + LoopCount + jobs
  BY RunningInGroups DEF WaitGroupCounts
<1>2. wg' + miscount' = TimerCount' + WorkerCount' + MergeCount' + LoopCount' + jobs'
  <2>1. \A a, a2, b, b2 \in Int : (a2 - a) + (b2 - b) = (a2 + b2) - (a + b)
    OBVIOUS
  <2> DEFINE s1 == TimerCount + WorkerCount
             s2 == s1 + MergeCount
             s3 == s2 + LoopCount
             s4 == s3 + jobs
             z1 == TimerCount' + WorkerCount'
             z2 == z1 + MergeCount'
             z3 == z2 + LoopCount'
             z4 == z3 + jobs'
  <2>2. /\ s1 \in Int /\ s2 \in Int /\ s3 \in Int /\ s4 \in Int
        /\ z1 \in Int /\ z2 \in Int /\ z3 \in Int /\ z4 \in Int
    BY GroupsAreNumbers
  <2>3. (TimerCount' - TimerCount) + (WorkerCount' - WorkerCount) = z1 - s1
    BY <2>1, GroupsAreNumbers
  <2>4. (z1 - s1) + (MergeCount' - MergeCount) = z2 - s2
    <3> HIDE DEF s1, z1
    <3> QED BY <2>1, <2>2, GroupsAreNumbers
  <2>5. (z2 - s2) + (LoopCount' - LoopCount) = z3 - s3
    <3> HIDE DEF s2, z2
    <3> QED BY <2>1, <2>2, GroupsAreNumbers
  <2>6. (z3 - s3) + (jobs' - jobs) = z4 - s4
    <3> HIDE DEF s3, z3
    <3> QED BY <2>1, <2>2, GroupsAreNumbers
  <2>7. wg + miscount = s4
    BY <1>1
  <2>8. (wg' + miscount') - (wg + miscount) = z4 - s4
    <3> HIDE DEF s1, s2, s3, s4, z1, z2, z3, z4
    <3> QED BY <2>3, <2>4, <2>5, <2>6
  <2>9. wg' + miscount' = z4
    <3>1. \A a, b, c, d \in Int : a = b /\ c - a = d - b => c = d
      OBVIOUS
    <3>2. wg + miscount \in Int /\ wg' + miscount' \in Int
      BY GroupsAreNumbers
    <3> HIDE DEF s4, z4
    <3> QED BY <2>2, <2>7, <2>8, <3>1, <3>2
  <2> QED BY <2>9
<1> QED BY <1>2, RunningInGroups DEF WaitGroupCounts

\* The same for steps of one kind of goroutine.
LEMMA TimersBalanced ==
    ASSUME TypeOK, TypeOK', WaitGroupCounts,
           UNCHANGED <<worker, merge, loop, jobs>>,
           (wg' + miscount') - (wg + miscount) = TimerCount' - TimerCount
    PROVE  WaitGroupCounts'
<1>1. WorkerCount' = WorkerCount /\ MergeCount' = MergeCount /\ LoopCount' = LoopCount
  BY DEF WorkerCount, MergeCount, LoopCount
<1> QED BY <1>1, GroupsAreNumbers, Balanced

LEMMA WorkersBalanced ==
    ASSUME TypeOK, TypeOK', WaitGroupCounts,
           UNCHANGED <<timer, stray, due, calling, merge, loop, jobs, miscount>>,
           wg' - wg = WorkerCount' - WorkerCount
    PROVE  WaitGroupCounts'
<1>1. TimerCount' = TimerCount /\ MergeCount' = MergeCount /\ LoopCount' = LoopCount
  BY DEF TimerCount, MergeCount, LoopCount
<1> QED BY <1>1, GroupsAreNumbers, Balanced

LEMMA LoopBalanced ==
    ASSUME TypeOK, TypeOK', WaitGroupCounts,
           UNCHANGED <<timer, stray, due, calling, worker, merge, miscount>>,
           wg' - wg = (LoopCount' - LoopCount) + (jobs' - jobs)
    PROVE  WaitGroupCounts'
<1>1. TimerCount' = TimerCount /\ WorkerCount' = WorkerCount /\ MergeCount' = MergeCount
  BY DEF TimerCount, WorkerCount, MergeCount
<1> QED BY <1>1, GroupsAreNumbers, Balanced

LEMMA MergeBalanced ==
    ASSUME TypeOK, TypeOK', WaitGroupCounts,
           UNCHANGED <<timer, stray, due, calling, worker, loop, miscount>>,
           wg' - wg = (MergeCount' - MergeCount) + (jobs' - jobs)
    PROVE  WaitGroupCounts'
<1>1. TimerCount' = TimerCount /\ WorkerCount' = WorkerCount /\ LoopCount' = LoopCount
  BY DEF TimerCount, WorkerCount, LoopCount
<1> QED BY <1>1, GroupsAreNumbers, Balanced

-----------------------------------------------------------------------------
\* What a step may do to what runs, by the number of goroutines that it starts
\* and of Done calls that it makes.
LEMMA AddIs == ASSUME NEW n, Add(n) PROVE wg' = wg + n
BY DEF Add

LEMMA TrackGoCounts ==
    ASSUME TypeOK, TrackGo \/ MayTrackGo
    PROVE  wg' - wg = jobs' - jobs
<1>1. wg \in Int /\ jobs \in Nat
  BY DEF TypeOK
<1>2. CASE UNCHANGED <<waitVars, jobs>>
  BY <1>1, <1>2 DEF waitVars
<1>3. CASE jobs' = jobs + 1 /\ Add(1)
  <2>1. wg' = wg + 1
    BY <1>3, AddIs
  <2> QED BY <1>1, <1>3, <2>1
<1> QED BY <1>2, <1>3 DEF TrackGo, MayTrackGo

LEMMA WatcherStepCounts ==
    ASSUME TypeOK, TypeOK', WaitGroupCounts, [Next]_vars
    PROVE  WaitGroupCounts'
<1>0. /\ timer \in [Paths -> {"none", "armed", "fired", "cancelled"}]
      /\ stray \in [Paths -> Nat] /\ due \in [Paths -> Nat] /\ calling \in [Paths -> Nat]
      /\ worker \in [Workers -> {"idle", "parse", "send", "drain", "gone"}]
  BY DEF TypeOK
<1>1. Armed = ArmedIn(timer) /\ Cardinality(Armed) = Cardinality(ArmedIn(timer))
  BY DEF Armed, ArmedIn
<1>2. Cardinality({}) = 0
  BY FS_EmptySet
<1> DEFINE Still == UNCHANGED <<wg, timer, stray, due, calling, worker, merge, loop, jobs, miscount>>
<1>3. CASE Start
  <2>1. wg' = wg + 1 /\ LoopCount = 0 /\ LoopCount' = 1
    BY <1>3, AddIs DEF Start, LoopCount
  <2>2. UNCHANGED <<timer, stray, due, calling, worker, merge, jobs, miscount>>
    BY <1>3 DEF Start, timerVars, poolVars
  <2> QED BY <2>1, <2>2, GroupsAreNumbers, LoopBalanced
<1>4. CASE Stop
  <2>1. Cardinality(ArmedIn(timer')) = 0
    <3>1. ArmedIn(timer') = {}
      BY <1>1, <1>4 DEF Stop, ArmedIn
    <3> QED BY <1>2, <3>1
  <2>2. wg' = wg - Cardinality(ArmedIn(timer))
    BY <1>1, <1>4 DEF Stop
  <2>3. UNCHANGED <<loop, stray, due, calling, worker, merge, jobs, miscount>>
    BY <1>4 DEF Stop, loopVars, poolVars
  <2>4. TimerCount' - TimerCount = -Cardinality(ArmedIn(timer))
    BY <2>1, <2>3, PartsAreNumbers DEF TimerCount
  <2> QED BY <2>2, <2>3, <2>4, GroupsAreNumbers, PartsAreNumbers, TimersBalanced
<1>5. CASE HandleRemove
  <2>1. LoopCount = 1 /\ LoopCount' = 1
    BY <1>5 DEF HandleRemove, HandlesEvent, LoopCount
  <2>2. UNCHANGED <<wg, timer, stray, due, calling, worker, merge, jobs, miscount>>
    BY <1>5 DEF HandleRemove, waitVars, timerVars, poolVars
  <2> QED BY <2>1, <2>2, GroupsAreNumbers, LoopBalanced
<1>6. CASE LoopPanics
  <2>1. UNCHANGED <<timer, stray, due, calling, worker, merge, jobs, miscount>> /\ LoopCount = 1
    BY <1>6 DEF LoopPanics, timerVars, poolVars, LoopCount
  <2>2. CASE loop' = "gone" /\ Add(-1)
    <3>1. wg' = wg - 1 /\ LoopCount' = 0
      BY <2>2, AddIs, GroupsAreNumbers DEF LoopCount
    <3> QED BY <2>1, <3>1, GroupsAreNumbers, LoopBalanced
  <2>3. CASE loop' = "backoff" /\ UNCHANGED waitVars
    <3>1. wg' = wg /\ LoopCount' = 1
      BY <2>3 DEF LoopCount, waitVars
    <3> QED BY <2>1, <3>1, GroupsAreNumbers, LoopBalanced
  <2> QED BY <1>6, <2>2, <2>3 DEF LoopPanics
<1>7. ASSUME NEW p \in Paths, HandleWrite(p) PROVE WaitGroupCounts'
  <2>1. UNCHANGED <<loop, stray, due, calling, worker, merge>>
    BY <1>7 DEF HandleWrite, poolVars
  <2>2. TimerCount' - TimerCount = Cardinality(ArmedIn(timer')) - Cardinality(ArmedIn(timer))
    BY <2>1, PartsAreNumbers DEF TimerCount
  <2>3. CASE Rearm(p)
    \* A timer that had fired or been cancelled runs again, and is miscounted.
    <3>1. Cardinality(ArmedIn(timer')) = IF timer[p] = "armed" THEN Cardinality(ArmedIn(timer))
                                         ELSE Cardinality(ArmedIn(timer)) + 1
      BY <1>0, <2>3, ArmedChanges DEF Rearm
    <3>2. wg' = wg /\ jobs' = jobs
      BY <2>3 DEF Rearm, waitVars
    <3>3. miscount' = IF timer[p] = "armed" THEN miscount ELSE miscount + 1
      BY <2>3 DEF Rearm
    <3>4. (wg' + miscount') - (wg + miscount) = TimerCount' - TimerCount
      BY <2>2, <3>1, <3>2, <3>3, PartsAreNumbers
    <3> QED BY <2>1, <3>2, <3>4, TimersBalanced
  <2>4. CASE NewTimer(p)
    <3>1. Cardinality(ArmedIn(timer')) = Cardinality(ArmedIn(timer)) + 1
      BY <1>0, <2>4, ArmedChanges DEF NewTimer
    <3>2. wg' = wg + 1 /\ jobs' = jobs /\ miscount' = miscount
      BY <2>4, AddIs DEF NewTimer
    <3>3. (wg' + miscount') - (wg + miscount) = TimerCount' - TimerCount
      BY <2>2, <3>1, <3>2, PartsAreNumbers
    <3> QED BY <2>1, <3>2, <3>3, TimersBalanced
  <2>5. CASE FullRewalk(p)
    <3>1. Cardinality(ArmedIn(timer')) = 0
      <4>1. ArmedIn(timer') = {}
        BY <2>5 DEF FullRewalk, ArmedIn
      <4> QED BY <1>2, <4>1
    <3>2. wg' = wg + (1 - Cardinality(ArmedIn(timer))) /\ jobs' = jobs + 1 /\ miscount' = miscount
      BY <1>1, <2>5, AddIs DEF FullRewalk
    <3>3. WorkerCount' = WorkerCount /\ MergeCount' = MergeCount /\ LoopCount' = LoopCount
      BY <2>1 DEF WorkerCount, MergeCount, LoopCount
    <3>4. TimerCount' - TimerCount = -Cardinality(ArmedIn(timer))
      BY <2>2, <3>1, PartsAreNumbers
    <3>5. (wg' + miscount') - (wg + miscount) = (TimerCount' - TimerCount) + (jobs' - jobs)
      BY <3>2, <3>4, PartsAreNumbers
    <3> QED BY <3>3, <3>5, GroupsAreNumbers, Balanced
  <2> QED BY <1>7, <2>3, <2>4, <2>5 DEF HandleWrite
<1>8. CASE RemoveLocks \/ RemoveUnlocks \/ LoopRestarts
  <2>1. LoopCount = 1 /\ LoopCount' = 1
    BY <1>8 DEF RemoveLocks, RemoveUnlocks, LoopRestarts, LoopCount
  <2>2. UNCHANGED <<wg, timer, stray, due, calling, worker, merge, jobs, miscount>>
    BY <1>8 DEF RemoveLocks, RemoveUnlocks, LoopRestarts, waitVars, timerVars, poolVars
  <2> QED BY <2>1, <2>2, GroupsAreNumbers, LoopBalanced
<1>9. CASE RemoveEnds
  <2>1. wg' - wg = jobs' - jobs /\ LoopCount = 1 /\ LoopCount' = 1
    BY <1>9, TrackGoCounts DEF RemoveEnds, LoopCount
  <2>2. UNCHANGED <<timer, stray, due, calling, worker, merge, miscount>>
    BY <1>9 DEF RemoveEnds, timerVars, poolVars
  <2> QED BY <2>1, <2>2, GroupsAreNumbers, LoopBalanced
<1>10. CASE LoopLeaves
  <2>1. wg' = wg - 1 /\ LoopCount = 1 /\ LoopCount' = 0
    BY <1>10, AddIs, GroupsAreNumbers DEF LoopLeaves, LoopCount
  <2>2. UNCHANGED <<timer, stray, due, calling, worker, merge, jobs, miscount>>
    BY <1>10 DEF LoopLeaves, timerVars, poolVars
  <2> QED BY <2>1, <2>2, GroupsAreNumbers, LoopBalanced
<1>11. ASSUME NEW p \in Paths, TimerFires(p) PROVE WaitGroupCounts'
  <2>1. UNCHANGED <<wg, loop, calling, worker, merge, jobs, miscount>>
    BY <1>11 DEF TimerFires, waitVars, loopVars, poolVars
  <2>2. Total(due') = Total(due) + 1
    BY <1>0, <1>11, TotalPlus DEF TimerFires
  <2>3. CASE timer[p] = "armed" /\ timer' = [timer EXCEPT ![p] = "fired"] /\ UNCHANGED stray
    <3>1. Cardinality(ArmedIn(timer')) = Cardinality(ArmedIn(timer)) - 1
      BY <1>0, <2>3, ArmedChanges
    <3>2. TimerCount' = TimerCount
      BY <2>1, <2>2, <2>3, <3>1, PartsAreNumbers DEF TimerCount
    <3> QED BY <2>1, <3>2, GroupsAreNumbers, TimersBalanced
  <2>4. CASE stray[p] > 0 /\ stray' = [stray EXCEPT ![p] = @ - 1] /\ UNCHANGED timer
    <3>1. Total(stray') = Total(stray) - 1
      BY <1>0, <2>4, TotalMinus
    <3>2. TimerCount' = TimerCount
      BY <2>1, <2>2, <2>4, <3>1, PartsAreNumbers DEF TimerCount
    <3> QED BY <2>1, <3>2, GroupsAreNumbers, TimersBalanced
  <2> QED BY <1>11, <2>3, <2>4 DEF TimerFires
<1>12. ASSUME NEW p \in Paths, CallbackRuns(p) PROVE WaitGroupCounts'
  <2>1. UNCHANGED <<wg, loop, worker, merge, jobs, miscount>>
    BY <1>12 DEF CallbackRuns, waitVars, loopVars, poolVars
  <2>2. Total(due') = Total(due) - 1
    BY <1>0, <1>12, TotalMinus DEF CallbackRuns
  <2>3. Total(calling') = Total(calling) + 1
    BY <1>0, <1>12, TotalPlus DEF CallbackRuns
  <2>4. timer' = [timer EXCEPT ![p] = "none"]
    BY <1>12 DEF CallbackRuns
  <2>5. TimerCount' = TimerCount
    <3>1. CASE timer[p] = "armed"
      <4>1. Total(stray') = Total(stray) + 1
        BY <1>0, <1>12, <3>1, TotalPlus DEF CallbackRuns
      <4>2. Cardinality(ArmedIn(timer')) = Cardinality(ArmedIn(timer)) - 1
        BY <1>0, <2>4, <3>1, ArmedChanges
      <4> QED BY <2>2, <2>3, <4>1, <4>2, PartsAreNumbers DEF TimerCount
    <3>2. CASE timer[p] # "armed"
      <4>1. stray' = stray
        BY <1>0, <1>12, <3>2 DEF CallbackRuns
      <4>2. ArmedIn(timer') = ArmedIn(timer)
        BY <1>0, <2>4, <3>2 DEF ArmedIn
      <4> QED BY <2>2, <2>3, <4>1, <4>2, PartsAreNumbers DEF TimerCount
    <3> QED BY <3>1, <3>2
  <2> QED BY <2>1, <2>5, GroupsAreNumbers, TimersBalanced
<1>13. ASSUME NEW p \in Paths, CallbackEnds(p) PROVE WaitGroupCounts'
  <2>1. UNCHANGED <<loop, timer, stray, due, worker, merge, jobs, miscount>>
    BY <1>13 DEF CallbackEnds, loopVars
  <2>2. Total(calling') = Total(calling) - 1
    BY <1>0, <1>13, TotalMinus DEF CallbackEnds
  <2>3. wg' = wg - 1
    BY <1>13, AddIs, GroupsAreNumbers DEF CallbackEnds
  <2>4. TimerCount' = TimerCount - 1
    BY <2>1, <2>2, PartsAreNumbers DEF TimerCount
  <2> QED BY <2>1, <2>3, <2>4, GroupsAreNumbers, TimersBalanced
<1>14. ASSUME NEW p \in Paths, SendWork(p) \/ GiveUp(p) PROVE WaitGroupCounts'
  BY <1>13, <1>14 DEF SendWork, GiveUp
<1>15. CASE Reload
  BY <1>13, <1>15, LifecycleAssumption DEF Reload
<1>16. ASSUME NEW w \in Workers, TakeWork(w) \/ Parses(w) \/ HandsOver(w) \/ WorkerDrains(w)
       PROVE  WaitGroupCounts'
  <2>1. UNCHANGED <<wg, loop, timer, stray, due, calling, merge, jobs, miscount>>
    BY <1>16 DEF TakeWork, Parses, HandsOver, WorkerDrains, waitVars, loopVars, timerVars
  <2>2. WorkerCount' = WorkerCount
    <3>1. PICK x \in {"idle", "parse", "send", "drain"} : worker' = [worker EXCEPT ![w] = x]
      BY <1>16 DEF TakeWork, Parses, HandsOver, WorkerDrains
    <3>2. worker[w] # "gone"
      BY <1>16 DEF TakeWork, Parses, HandsOver, WorkerDrains
    <3>3. x # "gone"
      OBVIOUS
    <3> QED BY <1>0, <3>1, <3>2, <3>3, AliveChanges DEF WorkerCount
  <2> QED BY <2>1, <2>2, GroupsAreNumbers, WorkersBalanced
<1>17. ASSUME NEW w \in Workers, WorkerLeaves(w) PROVE WaitGroupCounts'
  <2>1. UNCHANGED <<loop, timer, stray, due, calling, merge, jobs, miscount>>
    BY <1>17 DEF WorkerLeaves, loopVars, timerVars
  <2>2. WorkerCount' = WorkerCount - 1
    BY <1>0, <1>17, AliveChanges DEF WorkerLeaves, WorkerCount
  <2>3. wg' = wg - 1
    BY <1>17, AddIs, GroupsAreNumbers DEF WorkerLeaves
  <2> QED BY <2>1, <2>2, <2>3, GroupsAreNumbers, WorkersBalanced
<1>18. ASSUME NEW w \in Workers, DrainsOne(w) PROVE Still
  BY <1>18 DEF DrainsOne, waitVars, loopVars, timerVars
<1>19. CASE MergeTakes \/ MergeCollects \/ CoalesceEnds \/ CollectEnds
  <2>1. UNCHANGED <<wg, loop, timer, stray, due, calling, worker, jobs, miscount>>
    BY <1>19, LifecycleAssumption DEF MergeTakes, MergeCollects, CoalesceEnds,
       CollectEnds, MergeTo,
       waitVars, loopVars, timerVars
  <2>2. MergeCount = 1 /\ MergeCount' = 1
    BY <1>19, LifecycleAssumption DEF MergeTakes, MergeCollects, CoalesceEnds,
       CollectEnds, MergeTo, MergeCount
  <2> QED BY <2>1, <2>2, GroupsAreNumbers, MergeBalanced
<1>20. CASE SnapshotLocks \/ SnapshotUnlocks \/ ApplyLocks \/ MergeStops \/ MergeDrains
  <2>1. UNCHANGED <<wg, loop, timer, stray, due, calling, worker, jobs, miscount>>
    BY <1>20 DEF SnapshotLocks, SnapshotUnlocks, ApplyLocks, MergeStops, MergeDrains,
       MergeTo, waitVars, loopVars, timerVars
  <2>2. MergeCount = 1 /\ MergeCount' = 1
    BY <1>20 DEF SnapshotLocks, SnapshotUnlocks, ApplyLocks, MergeStops, MergeDrains,
       MergeTo, MergeCount
  <2> QED BY <2>1, <2>2, GroupsAreNumbers, MergeBalanced
<1>21. CASE ApplyUnlocks
  <2>1. wg' - wg = jobs' - jobs
    BY <1>21, TrackGoCounts DEF ApplyUnlocks
  <2>2. UNCHANGED <<loop, timer, stray, due, calling, worker, miscount>>
    BY <1>21 DEF ApplyUnlocks, MergeTo, loopVars, timerVars
  <2>3. MergeCount = 1 /\ MergeCount' = 1
    BY <1>21 DEF ApplyUnlocks, MergeTo, MergeCount
  <2> QED BY <2>1, <2>2, <2>3, GroupsAreNumbers, MergeBalanced
<1>22. CASE ApplyEnds
  <2>1. UNCHANGED <<loop, timer, stray, due, calling, worker, miscount>>
    BY <1>22 DEF ApplyEnds, MergeTo, loopVars, timerVars
  <2>2. MergeCount = 1 /\ merge'.pc = merge.next
    BY <1>22 DEF ApplyEnds, MergeTo, MergeCount
  <2>3. CASE merge.next = "gone"
    <3>1. wg' = wg - 1 /\ jobs' = jobs /\ MergeCount' = 0
      BY <1>22, <2>2, <2>3, AddIs, GroupsAreNumbers DEF ApplyEnds, MergeCount
    <3> QED BY <2>1, <2>2, <3>1, GroupsAreNumbers, MergeBalanced
  <2>4. CASE merge.next # "gone"
    <3>1. wg' - wg = jobs' - jobs
      BY <1>22, <2>4, TrackGoCounts DEF ApplyEnds
    <3>2. MergeCount' = 1
      BY <2>2, <2>4 DEF MergeCount
    <3> QED BY <2>1, <2>2, <3>1, <3>2, GroupsAreNumbers, MergeBalanced
  <2> QED BY <2>3, <2>4
<1>23. CASE MergeLeaves
  <2>1. wg' = wg - 1 /\ MergeCount = 1 /\ MergeCount' = 0
    BY <1>23, AddIs, GroupsAreNumbers DEF MergeLeaves, MergeTo, MergeCount
  <2>2. UNCHANGED <<loop, timer, stray, due, calling, worker, jobs, miscount>>
    BY <1>23 DEF MergeLeaves, MergeTo, loopVars, timerVars
  <2> QED BY <2>1, <2>2, GroupsAreNumbers, MergeBalanced
<1>24. CASE JobEnds
  <2>1. wg' = wg - 1 /\ jobs' = jobs - 1
    BY <1>24, AddIs, GroupsAreNumbers DEF JobEnds
  <2>2. UNCHANGED <<loop, timer, stray, due, calling, worker, merge, miscount>>
    BY <1>24 DEF JobEnds, loopVars, timerVars, poolVars
  <2>3. LoopCount' = LoopCount
    BY <2>2 DEF LoopCount
  <2> QED BY <2>1, <2>2, <2>3, GroupsAreNumbers, LoopBalanced
<1>25. ASSUME WaitPasses \/ UNCHANGED vars PROVE Still
  BY <1>25 DEF WaitPasses, vars, waitVars, loopVars, timerVars, poolVars
<1>26. Still => WaitGroupCounts'
  <2>1. Still => TimerCount' = TimerCount
    BY DEF TimerCount
  <2> QED BY <2>1, GroupsAreNumbers, TimersBalanced
<1> HIDE DEF Still
<1> QED BY <1>3, <1>4, <1>5, <1>6, <1>7, <1>8, <1>9, <1>10, <1>11, <1>12, <1>14, <1>15,
           <1>16, <1>17, <1>18, <1>19, <1>20, <1>21, <1>22, <1>23, <1>24, <1>25, <1>26
        DEF Next, Environment, LoopSteps, TimerSteps, WorkerSteps, MergeSteps

\* On every path through trackGo, debounce, the herd protection, panics and shutdown
\* the WaitGroup counts exactly what runs, short of one for each timer that was armed
\* again after it fired or was cancelled.
THEOREM WaitGroupCountsWhatRuns == Spec => []WaitGroupCounts
<1>1. Init => WaitGroupCounts
  <2> SUFFICES ASSUME Init PROVE WaitGroupCounts
    OBVIOUS
  <2>1. TypeOK
    BY WatcherInitTyped
  <2>2. ArmedIn(timer) = {} /\ AliveIn(worker) = Workers
    BY DEF Init, ArmedIn, AliveIn
  <2>3. Cardinality(ArmedIn(timer)) = 0
    BY <2>2, FS_EmptySet
  <2>4. Total(stray) = 0 /\ Total(due) = 0 /\ Total(calling) = 0
    <3>1. \A f \in [Paths -> Nat] : (\A p \in Paths : f[p] = 0) => Total(f) = 0
      BY TotalZero
    <3> QED BY <2>1, <3>1 DEF Init, TypeOK
  <2>5. Cardinality(Workers) \in Nat /\ wg = Cardinality(AliveIn(worker)) + 1
    BY <2>2, FS_CardinalityType, LifecycleAssumption DEF Init
  <2> QED BY <2>2, <2>3, <2>4, <2>5, RunningIs DEF Init, WaitGroupCounts, One
<1>2. TypeOK /\ TypeOK' /\ WaitGroupCounts /\ [Next]_vars => WaitGroupCounts'
  BY WatcherStepCounts
<1> QED BY <1>1, <1>2, WatcherTypeCorrect, PTL DEF Spec

\* The counter never falls below zero, the panic of sync.WaitGroup that ends the
\* daemon, unless a timer was armed again without its Add.
COROLLARY CounterNotNegative == Spec => [](miscount = 0 => wg >= 0)
<1>1. TypeOK /\ WaitGroupCounts => (miscount = 0 => wg >= 0)
  <2> SUFFICES ASSUME TypeOK, WaitGroupCounts, miscount = 0 PROVE wg >= 0
    OBVIOUS
  <2>1. /\ Total(stray) \in Nat /\ Total(due) \in Nat /\ Total(calling) \in Nat
        /\ jobs \in Nat /\ wg \in Int
    BY UnitsFinite DEF TypeOK
  <2>2. Cardinality(ArmedIn(timer)) \in Nat /\ Cardinality(AliveIn(worker)) \in Nat
    BY ArmedFinite, AliveFinite
  <2> QED BY <2>1, <2>2, RunningIs DEF WaitGroupCounts, One
<1> QED BY <1>1, WatcherTypeCorrect, WaitGroupCountsWhatRuns, PTL

-----------------------------------------------------------------------------
\* When nothing runs, no part of it does.
LEMMA NothingRuns ==
    ASSUME TypeOK, Running = 0
    PROVE  /\ \A p \in Paths : /\ timer[p] # "armed" /\ stray[p] = 0
                               /\ due[p] = 0 /\ calling[p] = 0
           /\ \A w \in Workers : worker[w] = "gone"
           /\ merge.pc = "gone" /\ loop \in {"off", "gone"} /\ jobs = 0
<1>1. /\ stray \in [Paths -> Nat] /\ due \in [Paths -> Nat] /\ calling \in [Paths -> Nat]
      /\ jobs \in Nat
  BY DEF TypeOK
<1>2. Total(stray) \in Nat /\ Total(due) \in Nat /\ Total(calling) \in Nat
  BY <1>1, UnitsFinite
<1>3. /\ IsFiniteSet(ArmedIn(timer)) /\ Cardinality(ArmedIn(timer)) \in Nat
      /\ IsFiniteSet(AliveIn(worker)) /\ Cardinality(AliveIn(worker)) \in Nat
  BY ArmedFinite, AliveFinite
<1>4. /\ Total(stray) = 0 /\ Total(due) = 0 /\ Total(calling) = 0
      /\ Cardinality(ArmedIn(timer)) = 0 /\ Cardinality(AliveIn(worker)) = 0
      /\ merge.pc = "gone" /\ loop \in {"off", "gone"} /\ jobs = 0
  <2>1. CASE merge.pc # "gone"
    BY <1>1, <1>2, <1>3, <2>1, RunningIs DEF One
  <2>2. CASE merge.pc = "gone" /\ loop \notin {"off", "gone"}
    BY <1>1, <1>2, <1>3, <2>2, RunningIs DEF One
  <2>3. CASE merge.pc = "gone" /\ loop \in {"off", "gone"}
    <3>1. /\ Cardinality(ArmedIn(timer)) \in Nat /\ Cardinality(AliveIn(worker)) \in Nat
          /\ Total(stray) \in Nat /\ Total(due) \in Nat /\ Total(calling) \in Nat
          /\ jobs \in Nat
      BY <1>1, <1>2, <1>3
    <3>2. 0 = Cardinality(ArmedIn(timer)) + Total(stray) + Total(due) + Total(calling)
                + Cardinality(AliveIn(worker)) + 0 + 0 + jobs
      BY <2>3, RunningIs DEF One
    <3>3. 0 = Cardinality(ArmedIn(timer)) + Total(stray) + Total(due) + Total(calling)
                + Cardinality(AliveIn(worker)) + jobs
      BY <3>1, <3>2
    <3>4. \A a, b \in Nat : 0 = a + b => a = 0 /\ b = 0
      OBVIOUS
    <3> DEFINE s2 == Cardinality(ArmedIn(timer)) + Total(stray)
               s3 == s2 + Total(due)
               s4 == s3 + Total(calling)
               s5 == s4 + Cardinality(AliveIn(worker))
    <3>5. s2 \in Nat /\ s3 \in Nat /\ s4 \in Nat /\ s5 \in Nat
      BY <3>1
    <3>6. s5 = 0 /\ jobs = 0
      <4> HIDE DEF s5
      <4>1. 0 = s5 + jobs
        BY <3>3 DEF s5
      <4> QED BY <3>1, <3>4, <3>5, <4>1
    <3>7. s4 = 0 /\ Cardinality(AliveIn(worker)) = 0
      <4> HIDE DEF s4
      <4> QED BY <3>1, <3>4, <3>5, <3>6
    <3>8. s3 = 0 /\ Total(calling) = 0
      <4> HIDE DEF s3
      <4> QED BY <3>1, <3>4, <3>5, <3>7
    <3>9. s2 = 0 /\ Total(due) = 0
      <4> HIDE DEF s2
      <4> QED BY <3>1, <3>4, <3>5, <3>8
    <3>10. Cardinality(ArmedIn(timer)) = 0 /\ Total(stray) = 0
      BY <3>1, <3>4, <3>9
    <3> QED BY <2>3, <3>6, <3>7, <3>8, <3>9, <3>10
  <2> QED BY <2>1, <2>2, <2>3
<1>5. ArmedIn(timer) = {} /\ AliveIn(worker) = {}
  BY <1>3, <1>4, FS_EmptySet
<1>6. \A p \in Paths : timer[p] # "armed"
  BY <1>5 DEF ArmedIn
<1>7. \A w \in Workers : worker[w] = "gone"
  BY <1>5 DEF AliveIn
<1>8. \A p \in Paths : stray[p] = 0 /\ due[p] = 0 /\ calling[p] = 0
  BY <1>1, <1>4, TotalZero
<1> QED BY <1>4, <1>6, <1>7, <1>8

\* A stopped watcher for which nothing runs takes no step but the end of the Wait.
LEMMA OnlyTheWaitEnds ==
    ASSUME TypeOK, stopped, Running = 0, [Next]_vars
    PROVE  WaitPasses \/ UNCHANGED vars
<1>1. /\ \A p \in Paths : /\ timer[p] # "armed" /\ stray[p] = 0
                          /\ due[p] = 0 /\ calling[p] = 0
      /\ \A w \in Workers : worker[w] = "gone"
      /\ merge.pc = "gone" /\ loop \in {"off", "gone"} /\ jobs = 0
  BY NothingRuns
<1>2. ~Start /\ ~Stop
  BY DEF Start, Stop
<1>3. ~HandleRemove /\ ~LoopPanics /\ ~LoopSteps
  BY <1>1 DEF HandleRemove, HandlesEvent, LoopPanics, LoopSteps, RemoveLocks,
     RemoveUnlocks, RemoveEnds, LoopRestarts, LoopLeaves
<1>4. \A p \in Paths : ~HandleWrite(p)
  BY <1>1 DEF HandleWrite, HandlesEvent
<1>5. \A p \in Paths : ~TimerFires(p) /\ ~CallbackRuns(p) /\ ~CallbackEnds(p)
  BY <1>1 DEF TimerFires, CallbackRuns, CallbackEnds
<1>6. (\A p \in Paths : ~TimerSteps(p)) /\ ~Reload
  BY <1>5, LifecycleAssumption DEF TimerSteps, SendWork, GiveUp, Reload
<1>7. \A w \in Workers : ~WorkerSteps(w)
  BY <1>1 DEF WorkerSteps, TakeWork, Parses, HandsOver, WorkerLeaves, WorkerDrains,
     DrainsOne
<1>8. ~MergeSteps
  BY <1>1 DEF MergeSteps, MergeTakes, MergeCollects, CoalesceEnds, CollectEnds,
     SnapshotLocks, SnapshotUnlocks, ApplyLocks,
     ApplyUnlocks, ApplyEnds, MergeStops, MergeDrains, MergeLeaves
<1>9. ~JobEnds
  BY <1>1 DEF JobEnds
<1> QED BY <1>2, <1>3, <1>4, <1>6, <1>7, <1>8, <1>9 DEF Next, Environment

LEMMA StoppedForGood ==
    ASSUME TypeOK, stopped, Running = 0, [Next]_vars
    PROVE  UNCHANGED <<timer, stray, due, calling, worker, merge, loop, jobs, miscount, wg>>
BY OnlyTheWaitEnds DEF WaitPasses, vars, waitVars, loopVars, timerVars, poolVars

\* Wait is released only with the counter at zero.
LEMMA ReleasedAtZero ==
    ASSUME TypeOK, [Next]_vars, stop # "returned", stop' = "returned"
    PROVE  wg' = 0
<1>1. \A n : Add(n) => wg' = 0
  BY DEF Add
<1>2. ~TrackGo \/ wg' = 0
  BY <1>1 DEF TrackGo, waitVars
<1> USE DEF waitVars
<1>3. CASE Environment
  BY <1>1, <1>3 DEF Environment, Start, Stop, HandleRemove, LoopPanics, HandleWrite,
     Rearm, NewTimer, FullRewalk
<1>4. CASE LoopSteps
  BY <1>1, <1>2, <1>4 DEF LoopSteps, RemoveLocks, RemoveUnlocks, RemoveEnds,
     LoopRestarts, LoopLeaves
<1>5. ASSUME NEW p \in Paths, TimerSteps(p) PROVE wg' = 0
  BY <1>1, <1>5 DEF TimerSteps, TimerFires, CallbackRuns, SendWork, GiveUp, CallbackEnds
<1>6. CASE Reload
  BY <1>1, <1>6 DEF Reload, CallbackEnds
<1>7. ASSUME NEW w \in Workers, WorkerSteps(w) PROVE wg' = 0
  BY <1>1, <1>7 DEF WorkerSteps, TakeWork, Parses, HandsOver, WorkerLeaves,
     WorkerDrains, DrainsOne
<1>8. CASE MergeSteps
  BY <1>1, <1>2, <1>8 DEF MergeSteps, MergeTakes, MergeCollects, CoalesceEnds,
     CollectEnds, SnapshotLocks, SnapshotUnlocks, ApplyLocks,
     ApplyUnlocks, ApplyEnds, MergeStops, MergeDrains,
     MergeLeaves, MayTrackGo
<1>9. CASE JobEnds \/ WaitPasses \/ UNCHANGED vars
  BY <1>1, <1>9 DEF JobEnds, WaitPasses, vars
<1> QED BY <1>3, <1>4, <1>5, <1>6, <1>7, <1>8, <1>9 DEF Next

\* A timer armed again without its wg.Add stays on record.
LEMMA MiscountsStay ==
    ASSUME TypeOK, [Next]_vars
    PROVE  miscount' = 0 => miscount = 0
<1>1. miscount \in Nat
  BY DEF TypeOK
<1>2. CASE Environment
  <2>1. miscount' = miscount \/ miscount' = miscount + 1
    BY <1>2 DEF Environment, Start, Stop, HandleRemove, LoopPanics, HandleWrite, Rearm,
       NewTimer, FullRewalk
  <2> QED BY <1>1, <2>1
<1>3. CASE LoopSteps
  BY <1>3 DEF LoopSteps, RemoveLocks, RemoveUnlocks, RemoveEnds, LoopRestarts, LoopLeaves
<1>4. ASSUME NEW p \in Paths, TimerSteps(p) PROVE miscount' = miscount
  BY <1>4 DEF TimerSteps, TimerFires, CallbackRuns, SendWork, GiveUp, CallbackEnds
<1>5. CASE Reload \/ JobEnds \/ WaitPasses \/ UNCHANGED vars
  BY <1>5 DEF Reload, CallbackEnds, JobEnds, WaitPasses, vars
<1>6. ASSUME NEW w \in Workers, WorkerSteps(w) PROVE miscount' = miscount
  BY <1>6 DEF WorkerSteps, TakeWork, Parses, HandsOver, WorkerLeaves, WorkerDrains,
     DrainsOne
<1>7. CASE MergeSteps
  BY <1>7 DEF MergeSteps, MergeTakes, MergeCollects, CoalesceEnds, CollectEnds,
     SnapshotLocks, SnapshotUnlocks, ApplyLocks,
     ApplyUnlocks, ApplyEnds, MergeStops, MergeDrains, MergeLeaves, MergeTo
<1> QED BY <1>2, <1>3, <1>4, <1>5, <1>6, <1>7 DEF Next

\* Unless a re-armed timer spoilt the count, nothing of the watcher runs or is
\* scheduled once Stop has returned, so nothing writes to the closed store.
THEOREM StopDrainsAll == Spec => []StopDrains
<1>1. Init => StopDrains
  BY DEF Init, StopDrains
<1>2. ASSUME TypeOK, TypeOK', WaitGroupCounts, WaitGroupCounts', StopDrains,
             [Next]_vars
      PROVE  StopDrains'
  <2> SUFFICES ASSUME stop' = "returned", miscount' = 0 PROVE Running' = 0
    BY DEF StopDrains
  <2>1. miscount = 0
    BY <1>2, MiscountsStay
  <2>2. CASE stop = "returned"
    <3>1. Running = 0 /\ stopped
      BY <1>2, <2>1, <2>2 DEF StopDrains, stopped
    <3>2. UNCHANGED <<timer, stray, due, calling, worker, merge, loop, jobs, miscount, wg>>
      BY <1>2, <3>1, StoppedForGood
    <3> QED BY <3>1, <3>2, RunningIs
  <2>3. CASE stop # "returned"
    <3>1. wg' = 0
      BY <1>2, <2>3, ReleasedAtZero
    <3> QED BY <1>2, <3>1 DEF WaitGroupCounts
  <2> QED BY <2>2, <2>3
<1> QED BY <1>1, <1>2, WatcherTypeCorrect, WaitGroupCountsWhatRuns, PTL DEF Spec

\* With an exact count, a watcher whose Stop has returned takes no step any more: no
\* event, callback, parse, merge or job (watcher.go:697-723).
THEOREM StoppedIsFinal == Spec => [][~(stop = "returned" /\ miscount = 0)]_vars
<1>1. ASSUME TypeOK, StopDrains, [Next]_vars, stop = "returned", miscount = 0
      PROVE  UNCHANGED vars
  <2>1. Running = 0 /\ stopped
    BY <1>1 DEF StopDrains, stopped
  <2>2. WaitPasses \/ UNCHANGED vars
    BY <1>1, <2>1, OnlyTheWaitEnds
  <2> QED BY <1>1, <2>2 DEF WaitPasses
<1> QED BY <1>1, WatcherTypeCorrect, StopDrainsAll, PTL DEF Spec

\* For any paths, workers and capacities: with an exact count nobody adds to the
\* WaitGroup when it stands at zero and Stop was called (watcher.go:678, 729-742, 952-985).
THEOREM NoAddAfterTheEnd == Spec => NoAddFromZero
<1>1. ASSUME TypeOK, WaitGroupCounts, [Next]_vars, stopped, wg = 0, miscount = 0
      PROVE  wg' = 0
  <2>1. Running = 0
    BY <1>1 DEF WaitGroupCounts
  <2>2. WaitPasses \/ UNCHANGED vars
    BY <1>1, <2>1, OnlyTheWaitEnds
  <2> QED BY <1>1, <2>2 DEF WaitPasses, vars, waitVars
<1> QED BY <1>1, WatcherTypeCorrect, WaitGroupCountsWhatRuns, PTL DEF Spec, NoAddFromZero

-----------------------------------------------------------------------------
\* Nobody waits for ever on reparseMu or on a channel.

\* Whoever is recorded as the holder of reparseMu is between its Lock and its Unlock.
MutexHeld ==
    /\ reparse = "loop" => loop = "remove"
    /\ reparse = "merge" => merge.pc \in {"copy", "apply"}

\* Before Stop every worker and the merge goroutine serve their channels.
ServesUntilStop ==
    stop = "no" =>
        /\ \A w \in Workers : worker[w] \in {"idle", "parse", "send"}
        /\ merge.pc \notin {"gone", "drain"} /\ merge.next = "idle"

\* Stop is never taken back.
LEMMA StopStays ==
    ASSUME TypeOK, [Next]_vars, stop' = "no"
    PROVE  stop = "no"
<1>1. \A n : Add(n) => stop = "no"
  BY DEF Add
<1>2. TrackGo \/ MayTrackGo => stop = "no"
  BY <1>1 DEF TrackGo, MayTrackGo, waitVars
<1> USE DEF waitVars
<1>3. CASE Environment
  BY <1>1, <1>3 DEF Environment, Start, Stop, HandleRemove, LoopPanics, HandleWrite,
     Rearm, NewTimer, FullRewalk
<1>4. CASE LoopSteps
  BY <1>1, <1>2, <1>4 DEF LoopSteps, RemoveLocks, RemoveUnlocks, RemoveEnds,
     LoopRestarts, LoopLeaves
<1>5. ASSUME NEW p \in Paths, TimerSteps(p) PROVE stop = "no"
  BY <1>1, <1>5 DEF TimerSteps, TimerFires, CallbackRuns, SendWork, GiveUp, CallbackEnds
<1>6. CASE Reload
  BY <1>1, <1>6 DEF Reload, CallbackEnds
<1>7. ASSUME NEW w \in Workers, WorkerSteps(w) PROVE stop = "no"
  BY <1>1, <1>7 DEF WorkerSteps, TakeWork, Parses, HandsOver, WorkerLeaves,
     WorkerDrains, DrainsOne
<1>8. CASE MergeSteps
  BY <1>1, <1>2, <1>8 DEF MergeSteps, MergeTakes, MergeCollects, CoalesceEnds,
     CollectEnds, SnapshotLocks, SnapshotUnlocks, ApplyLocks,
     ApplyUnlocks, ApplyEnds, MergeStops, MergeDrains,
     MergeLeaves
<1>9. CASE JobEnds \/ WaitPasses \/ UNCHANGED vars
  BY <1>1, <1>9 DEF JobEnds, WaitPasses, vars
<1> QED BY <1>3, <1>4, <1>5, <1>6, <1>7, <1>8, <1>9 DEF Next

LEMMA MutexHeldStep ==
    ASSUME TypeOK, MutexHeld, [Next]_vars
    PROVE  MutexHeld'
<1> USE DEF MutexHeld
<1>1. CASE Environment
  <2>1. CASE LoopPanics
    BY <1>1, <2>1 DEF LoopPanics
  <2>2. CASE Start \/ HandleRemove
    BY <2>2 DEF Start, HandleRemove, HandlesEvent
  <2>3. CASE Stop \/ \E p \in Paths : HandleWrite(p)
    BY <2>3 DEF Stop, HandleWrite, loopVars
  <2> QED BY <1>1, <2>1, <2>2, <2>3 DEF Environment
<1>2. CASE LoopSteps
  BY <1>2 DEF LoopSteps, RemoveLocks, RemoveUnlocks, RemoveEnds, LoopRestarts, LoopLeaves
<1>3. ASSUME NEW p \in Paths, TimerSteps(p) PROVE UNCHANGED <<loop, merge, reparse>>
  BY <1>3 DEF TimerSteps, TimerFires, CallbackRuns, SendWork, GiveUp, CallbackEnds,
     loopVars
<1>4. ASSUME NEW w \in Workers, WorkerSteps(w) PROVE UNCHANGED <<loop, merge, reparse>>
  BY <1>4 DEF WorkerSteps, TakeWork, Parses, HandsOver, WorkerLeaves, WorkerDrains,
     DrainsOne, loopVars
<1>5. CASE MergeSteps
  <2>1. loop' = loop
    BY <1>5 DEF MergeSteps, MergeTakes, MergeCollects, CoalesceEnds, CollectEnds,
       SnapshotLocks, SnapshotUnlocks, ApplyLocks,
     ApplyUnlocks, ApplyEnds, MergeStops, MergeDrains, MergeLeaves,
       MergeTo, loopVars
  <2>2. CASE SnapshotLocks \/ SnapshotUnlocks \/ ApplyLocks \/ ApplyUnlocks
    BY <2>1, <2>2 DEF SnapshotLocks, SnapshotUnlocks, ApplyLocks, ApplyUnlocks, MergeTo
  <2>3. CASE ~(SnapshotLocks \/ SnapshotUnlocks \/ ApplyLocks \/ ApplyUnlocks)
    <3>1. reparse' = reparse /\ merge.pc \notin {"copy", "apply"}
      BY <1>5, <2>3 DEF MergeSteps, MergeTakes, MergeCollects, CoalesceEnds,
         CollectEnds, ApplyEnds, MergeStops, MergeDrains, MergeLeaves
    <3> QED BY <2>1, <3>1
  <2> QED BY <2>2, <2>3
<1>6. CASE Reload \/ JobEnds \/ WaitPasses \/ UNCHANGED vars
  BY <1>6 DEF Reload, CallbackEnds, JobEnds, WaitPasses, vars, loopVars
<1> QED BY <1>1, <1>2, <1>3, <1>4, <1>5, <1>6 DEF Next

LEMMA ServesStep ==
    ASSUME TypeOK, ServesUntilStop, [Next]_vars
    PROVE  ServesUntilStop'
<1> SUFFICES ASSUME stop' = "no"
             PROVE  /\ \A w \in Workers : worker'[w] \in {"idle", "parse", "send"}
                    /\ merge'.pc \notin {"gone", "drain"} /\ merge'.next = "idle"
  BY DEF ServesUntilStop
<1>1. stop = "no"
  BY StopStays
<1>2. /\ \A w \in Workers : worker[w] \in {"idle", "parse", "send"}
      /\ merge.pc \notin {"gone", "drain"} /\ merge.next = "idle"
      /\ ~stopped
  BY <1>1 DEF ServesUntilStop, stopped
<1>3. worker \in [Workers -> {"idle", "parse", "send", "drain", "gone"}]
  BY DEF TypeOK
<1>4. CASE Environment
  BY <1>2, <1>4 DEF Environment, Start, Stop, HandleRemove, LoopPanics, HandleWrite,
     poolVars
<1>5. CASE LoopSteps
  BY <1>2, <1>5 DEF LoopSteps, RemoveLocks, RemoveUnlocks, RemoveEnds, LoopRestarts,
     LoopLeaves, poolVars
<1>6. ASSUME NEW p \in Paths, TimerSteps(p) PROVE UNCHANGED <<worker, merge>>
  BY <1>6 DEF TimerSteps, TimerFires, CallbackRuns, SendWork, GiveUp, CallbackEnds,
     poolVars
<1>7. CASE Reload \/ JobEnds \/ WaitPasses \/ UNCHANGED vars
  BY <1>2, <1>7 DEF Reload, CallbackEnds, JobEnds, WaitPasses, vars, poolVars
<1>8. ASSUME NEW w \in Workers, WorkerSteps(w)
      PROVE  /\ \A v \in Workers : worker'[v] \in {"idle", "parse", "send"}
             /\ merge' = merge
  BY <1>2, <1>3, <1>8 DEF WorkerSteps, TakeWork, Parses, HandsOver, WorkerLeaves,
     WorkerDrains, DrainsOne
<1>9. CASE MergeSteps
  BY <1>2, <1>9 DEF MergeSteps, MergeTakes, MergeCollects, CoalesceEnds, CollectEnds,
     SnapshotLocks, SnapshotUnlocks, ApplyLocks,
     ApplyUnlocks, ApplyEnds, MergeStops, MergeDrains, MergeLeaves, MergeTo
<1> QED BY <1>2, <1>4, <1>5, <1>6, <1>7, <1>8, <1>9 DEF Next

LEMMA SomeUnit ==
    ASSUME NEW f \in [Paths -> Nat], Total(f) # 0
    PROVE  \E p \in Paths : f[p] > 0
<1> SUFFICES ASSUME \A p \in Paths : f[p] = 0 PROVE FALSE
  OBVIOUS
<1>1. \A u : u \notin Units(f)
  BY UnitsArePairs
<1>2. Units(f) = {}
  BY <1>1
<1> QED BY <1>2, TotalIs, FS_EmptySet

\* With the mutex held by one who moves and the channels served, somebody moves.
LEMMA Unstuck ==
    ASSUME TypeOK, WaitGroupCounts, MutexHeld, ServesUntilStop
    PROVE  NobodyStuck
<1> SUFFICES ASSUME reparse # "lost",
                    (stop = "no" /\ Unfinished) \/ (stop = "waiting" /\ wg > 0),
                    ~SomebodyMoves
             PROVE  FALSE
  BY DEF NobodyStuck
<1>1. /\ ~LoopMoves /\ ~MergeMoves /\ ~(jobs > 0)
      /\ \A p \in Paths : ~TimerMoves(p)
      /\ \A w \in Workers : ~WorkerMoves(w)
  BY DEF SomebodyMoves
<1>2. /\ reparse \in {"free", "loop", "merge", "lost"}
      /\ work \in 0..WorkCap /\ parsed \in 0..ParseCap
      /\ calling \in [Paths -> Nat] /\ stray \in [Paths -> Nat] /\ due \in [Paths -> Nat]
      /\ jobs \in Nat /\ miscount \in Nat /\ wg \in Int
      /\ merge.pc \in {"idle", "coalesce", "collect", "snapshot", "copy", "lock", "apply",
                      "store", "drain", "gone"}
      /\ loop \in {"off", "run", "lock", "remove", "persist", "backoff", "gone"}
      /\ worker \in [Workers -> {"idle", "parse", "send", "drain", "gone"}]
  BY DEF TypeOK
<1>3. reparse = "free"
  <2>1. CASE reparse = "loop"
    BY <1>1, <2>1 DEF MutexHeld, LoopMoves
  <2>2. CASE reparse = "merge"
    BY <1>1, <2>2 DEF MutexHeld, MergeMoves
  <2> QED BY <1>2, <2>1, <2>2
<1>4. loop # "lock" /\ merge.pc \notin {"snapshot", "lock"}
  BY <1>1, <1>3 DEF LoopMoves, MergeMoves
<1>5. CASE stop = "no" /\ Unfinished
  <2>1. merge.pc = "idle" /\ \A w \in Workers : worker[w] \in {"idle", "parse", "send"}
    BY <1>1, <1>2, <1>4, <1>5 DEF ServesUntilStop, MergeMoves
  <2>2. parsed = 0
    BY <1>1, <1>2, <2>1 DEF MergeMoves
  <2>3. work = 0
    <3>1. PICK w \in Workers : TRUE
      BY LifecycleAssumption
    <3>2. 0 < ParseCap
      BY LifecycleAssumption
    <3> QED BY <1>1, <1>2, <2>1, <2>2, <3>1, <3>2 DEF WorkerMoves
  <2>4. Total(calling) = 0
    <3> SUFFICES ASSUME Total(calling) # 0 PROVE FALSE
      OBVIOUS
    <3>1. PICK p \in Paths : calling[p] > 0
      BY <1>2, SomeUnit
    <3>2. 0 < WorkCap
      BY LifecycleAssumption
    <3> QED BY <1>1, <2>3, <3>1, <3>2 DEF TimerMoves
  <2> QED BY <1>4, <1>5, <2>1, <2>2, <2>3, <2>4 DEF Unfinished, Backlog
<1>6. CASE stop = "waiting" /\ wg > 0
  <2>1. stopped
    BY <1>6 DEF stopped
  <2>2. Running = 0
    <3>1. loop \in {"off", "gone"} /\ merge.pc = "gone" /\ jobs = 0
      BY <1>1, <1>2, <1>4, <2>1 DEF LoopMoves, MergeMoves
    <3>2. \A w \in Workers : worker[w] = "gone"
      BY <1>1, <1>2, <2>1 DEF WorkerMoves
    <3>3. \A p \in Paths : timer[p] # "armed" /\ stray[p] = 0 /\ due[p] = 0 /\ calling[p] = 0
      BY <1>1, <1>2, <2>1 DEF TimerMoves
    <3>4. Cardinality(ArmedIn(timer)) = 0 /\ Cardinality(AliveIn(worker)) = 0
      <4>1. ArmedIn(timer) = {} /\ AliveIn(worker) = {}
        BY <3>2, <3>3 DEF ArmedIn, AliveIn
      <4> QED BY <4>1, FS_EmptySet
    <3>5. Total(stray) = 0 /\ Total(due) = 0 /\ Total(calling) = 0
      BY <1>2, <3>3, SomeUnit
    <3> QED BY <3>1, <3>4, <3>5, RunningIs DEF One
  <2> QED BY <1>2, <1>6, <2>2 DEF WaitGroupCounts
<1> QED BY <1>5, <1>6

\* Whatever events, panics, callbacks and batches interleave, for any number of paths and
\* workers and any capacities: no deadlock over reparseMu and the channels, before Stop or
\* in it, unless a panic lost the mutex (watcher.go:277-281, 858, 1231-1243).
THEOREM NobodyIsStuck == Spec => []NobodyStuck
<1>1. Init => MutexHeld /\ ServesUntilStop
  BY DEF Init, MutexHeld, ServesUntilStop
<1>2. ASSUME TypeOK, MutexHeld, ServesUntilStop, [Next]_vars
      PROVE  MutexHeld' /\ ServesUntilStop'
  BY <1>2, MutexHeldStep, ServesStep
<1>3. Spec => [](MutexHeld /\ ServesUntilStop)
  BY <1>1, <1>2, WatcherTypeCorrect, PTL DEF Spec
<1>4. ASSUME TypeOK, WaitGroupCounts, MutexHeld, ServesUntilStop
      PROVE  NobodyStuck
  BY <1>4, Unstuck
<1> QED BY <1>3, <1>4, WatcherTypeCorrect, WaitGroupCountsWhatRuns, PTL
================================================================================
