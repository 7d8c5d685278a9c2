---------------------------- MODULE ProjectRegistry ----------------------------
(***************************************************************************)
(* The daemon's registry of project instances (cmd/synapses/registry.go)   *)
(* with the callers that open, delete and reindex projects and the         *)
(* daemon's exit.  An instance owns a store, a watcher and a server; a     *)
(* singleflight group lets one caller initialise a project while the       *)
(* others wait for its result.                                             *)
(***************************************************************************)
EXTENDS Naturals, FiniteSets

CONSTANTS
    Projects,      \* canonical paths
    Callers,       \* HTTP handlers and the warming goroutine
    MaxActive,     \* maxActiveProjects (64)
    MaxInstances   \* bound: instances of a behaviour

ASSUME RegistryAssumption ==
    /\ MaxActive \in Nat \ {0}
    /\ MaxInstances \in Nat

VARIABLES
    projects,    \* projectRegistry.projects: project -> instance
    instance,    \* the instances: whose they are and in which state
    flight,      \* singleflight: project -> where its leader is
    caller,      \* caller -> what it does
    daemon       \* running, closing, closed

registryVars == <<projects, instance, flight, caller, daemon>>

NoProject == "none"
Instances == 1..MaxInstances
None == 0
InstanceStates == {"unused", "opening", "open", "closing", "closed"}
FlightPcs == {"idle", "recheck", "init", "store", "done"}
CallerPcs == {"idle", "flight", "wait", "close"}
Grounded == [pc |-> "idle", inst |-> None]
AtRest == [pc |-> "idle", project |-> NoProject, inst |-> None, reindex |-> FALSE]

RegistryInit ==
    /\ projects = [p \in Projects |-> None]
    /\ instance = [i \in Instances |-> [project |-> NoProject, state |-> "unused"]]
    /\ flight = [p \in Projects |-> Grounded]
    /\ caller = [c \in Callers |-> AtRest]
    /\ daemon = "running"

Registered == {p \in Projects : projects[p] # None}
Moves(i, s) == instance' = [instance EXCEPT ![i].state = s]

-----------------------------------------------------------------------------
\* GetOrSet: a project that is in the map is answered at once; one that is not
\* goes to singleflight.
Misses(c, p) ==
    /\ caller[c].pc = "idle"
    /\ projects[p] = None
    /\ caller' = [caller EXCEPT ![c] = [AtRest EXCEPT !.pc = "flight", !.project = p]]
    /\ UNCHANGED <<projects, instance, flight, daemon>>

\* sf.Do: the first caller leads, the others wait for the same result.
JoinsFlight(c) ==
    LET p == caller[c].project
    IN /\ caller[c].pc = "flight"
       /\ flight[p].pc # "done"
       /\ caller' = [caller EXCEPT ![c].pc = "wait"]
       /\ flight' = IF flight[p].pc = "idle"
                    THEN [flight EXCEPT ![p].pc = "recheck"] ELSE flight
       /\ UNCHANGED <<projects, instance, daemon>>

-----------------------------------------------------------------------------
\* The leader.

\* Mutant: the leader does not look again.
RechecksNothing(p) ==
    /\ flight[p].pc = "recheck"
    /\ flight' = [flight EXCEPT ![p].pc = "init"]
    /\ UNCHANGED <<projects, instance, caller, daemon>>

\* The double check under the lock.
Rechecks(p) ==
    /\ flight[p].pc = "recheck"
    /\ flight' = [flight EXCEPT ![p].pc = IF projects[p] # None THEN "done" ELSE "init"]
    /\ UNCHANGED <<projects, instance, caller, daemon>>

\* init() starts to open the resources of an instance.
Opens(p) ==
    /\ flight[p].pc = "init"
    /\ flight[p].inst = None
    /\ \E i \in Instances :
        /\ instance[i].state = "unused"
        /\ \A j \in Instances : instance[j].state = "unused" => i <= j
        /\ instance' = [instance EXCEPT ![i] = [project |-> p, state |-> "opening"]]
        /\ flight' = [flight EXCEPT ![p].inst = i]
    /\ UNCHANGED <<projects, caller, daemon>>

\* init() returns an instance, or an error after releasing what it opened.
InitEnds(p) ==
    /\ flight[p].pc = "init"
    /\ flight[p].inst # None
    /\ \/ /\ Moves(flight[p].inst, "open")
          /\ flight' = [flight EXCEPT ![p].pc = "store"]
       \/ /\ Moves(flight[p].inst, "closed")
          /\ flight' = [flight EXCEPT ![p] = [pc |-> "done", inst |-> None]]
    /\ UNCHANGED <<projects, caller, daemon>>

\* No instance is left to a behaviour: init() fails.
InitFails(p) ==
    /\ flight[p].pc = "init"
    /\ flight[p].inst = None
    /\ \A i \in Instances : instance[i].state # "unused"
    /\ flight' = [flight EXCEPT ![p].pc = "done"]
    /\ UNCHANGED <<projects, instance, caller, daemon>>

\* At the cap: close the new instance.
Refuses(p) ==
    /\ Cardinality(Registered) >= MaxActive
    /\ Moves(flight[p].inst, "closed")
    /\ UNCHANGED projects

\* Mutant: one project too many.
AdmitsOneMore(p) ==
    /\ Cardinality(Registered) <= MaxActive
    /\ projects' = [projects EXCEPT ![p] = flight[p].inst]
    /\ UNCHANGED instance

Admits(p) ==
    /\ Cardinality(Registered) < MaxActive
    /\ projects' = [projects EXCEPT ![p] = flight[p].inst]
    /\ UNCHANGED instance

Stores(p) ==
    /\ flight[p].pc = "store"
    /\ Refuses(p) \/ Admits(p)
    /\ flight' = [flight EXCEPT ![p] = [pc |-> "done", inst |-> None]]
    /\ UNCHANGED <<caller, daemon>>

\* Mutant: only the leader gets the result.
LandsForOne(p) ==
    /\ flight[p].pc = "done"
    /\ flight' = [flight EXCEPT ![p] = Grounded]
    /\ \E c \in Callers :
        /\ caller[c].pc = "wait" /\ caller[c].project = p
        /\ caller' = [caller EXCEPT ![c] = AtRest]
    /\ UNCHANGED <<projects, instance, daemon>>

\* The flight ends: everyone who waits gets its result.
Lands(p) ==
    /\ flight[p].pc = "done"
    /\ flight' = [flight EXCEPT ![p] = Grounded]
    /\ caller' = [c \in Callers |-> IF caller[c].pc = "wait" /\ caller[c].project = p
                                    THEN AtRest ELSE caller[c]]
    /\ UNCHANGED <<projects, instance, daemon>>

-----------------------------------------------------------------------------
\* Delete: out of the map under the lock, closed after it.  A reindex deletes and
\* then opens the project again.
Delete(c, p, reindex) ==
    /\ daemon = "running"
    /\ caller[c].pc = "idle"
    /\ projects[p] # None
    /\ projects' = [projects EXCEPT ![p] = None]
    /\ Moves(projects[p], "closing")
    /\ caller' = [caller EXCEPT ![c] = [pc |-> "close", project |-> p,
                                        inst |-> projects[p], reindex |-> reindex]]
    /\ UNCHANGED <<flight, daemon>>

\* pi.Close returns.  A reindex goes on to GetOrSet: back to singleflight, unless
\* another caller was faster.
Closes(c) ==
    /\ caller[c].pc = "close"
    /\ Moves(caller[c].inst, "closed")
    /\ caller' = [caller EXCEPT ![c] =
          IF caller[c].reindex /\ projects[caller[c].project] = None
          THEN [AtRest EXCEPT !.pc = "flight", !.project = caller[c].project]
          ELSE AtRest]
    /\ UNCHANGED <<projects, flight, daemon>>

\* projectRegistry.Close: swap the map, then close what was in it.
CloseRegistry ==
    /\ daemon = "running"
    /\ daemon' = "closing"
    /\ instance' = [i \in Instances |->
          IF \E p \in Registered : projects[p] = i
          THEN [instance[i] EXCEPT !.state = "closing"] ELSE instance[i]]
    /\ projects' = [p \in Projects |-> None]
    /\ UNCHANGED <<flight, caller>>

ClosedBy(i) == \E c \in Callers : caller[c].pc = "close" /\ caller[c].inst = i

ClosesOne ==
    /\ daemon = "closing"
    /\ \E i \in Instances :
        /\ instance[i].state = "closing"
        /\ ~ClosedBy(i)
        /\ Moves(i, "closed")
    /\ UNCHANGED <<projects, flight, caller, daemon>>

RegistryClosed ==
    /\ daemon = "closing"
    /\ \A i \in Instances : instance[i].state = "closing" => ClosedBy(i)
    /\ daemon' = "closed"
    /\ UNCHANGED <<projects, instance, flight, caller>>

-----------------------------------------------------------------------------
FlightStep(p) == \/ Rechecks(p) \/ Opens(p) \/ InitEnds(p) \/ InitFails(p)
                 \/ Stores(p) \/ Lands(p)

RegistryNext ==
    \/ \E c \in Callers :
        \/ \E p \in Projects : \/ Misses(c, p)
                               \/ \E reindex \in BOOLEAN : Delete(c, p, reindex)
        \/ JoinsFlight(c) \/ Closes(c)
    \/ \E p \in Projects : FlightStep(p)
    \/ CloseRegistry \/ ClosesOne \/ RegistryClosed

\* Initialisation and Close end; the scheduler runs everyone.
RegistryFairness ==
    /\ \A p \in Projects : WF_registryVars(FlightStep(p))
    /\ \A c \in Callers : SF_registryVars(JoinsFlight(c)) /\ WF_registryVars(Closes(c))
    /\ WF_registryVars(ClosesOne) /\ WF_registryVars(RegistryClosed)

RegistrySpec == RegistryInit /\ [][RegistryNext]_registryVars /\ RegistryFairness

-----------------------------------------------------------------------------
\* Every variable has its type, and the map holds open instances of its projects only.
RegistryTypeOK ==
    /\ projects \in [Projects -> Instances \cup {None}]
    /\ instance \in [Instances -> [project: Projects \cup {NoProject}, state: InstanceStates]]
    /\ flight \in [Projects -> [pc: FlightPcs, inst: Instances \cup {None}]]
    /\ caller \in [Callers -> [pc: CallerPcs, project: Projects \cup {NoProject},
                               inst: Instances \cup {None}, reindex: BOOLEAN]]
    /\ daemon \in {"running", "closing", "closed"}
    /\ \A p \in Registered : /\ instance[projects[p]].project = p
                             /\ instance[projects[p]].state = "open"

\* However requests, deletions, reindexing and the exit interleave, an instance that has
\* resources open is in the map, in the hands of the one flight of its project, or being
\* closed: none is forgotten, and no project has two (registry.go:110-161, 182-190).
NoneForgotten ==
    \A i \in Instances :
        LET p == instance[i].project
        IN
        /\ instance[i].state = "opening" => flight[p].pc = "init" /\ flight[p].inst = i
        /\ instance[i].state = "open" =>
              \/ projects[p] = i
              \/ flight[p].pc = "store" /\ flight[p].inst = i
        /\ instance[i].state = "closing" => ClosedBy(i) \/ daemon = "closing"

\* The cap on active projects holds although it is checked after the initialisation,
\* with other flights about to store (registry.go:135-142).
CapHolds == Cardinality(Registered) <= MaxActive

\* A caller gets an answer: it never waits on a flight that has landed
\* (registry.go:117-146).
CallsReturn == \A c \in Callers : caller[c].pc # "idle" ~> caller[c].pc = "idle"
=============================================================================
