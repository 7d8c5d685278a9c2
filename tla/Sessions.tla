------------------------------- MODULE Sessions -------------------------------
(***************************************************************************)
(* The session records of the agents: GetOrResumeSession and its fellows   *)
(* (internal/store/sessions.go), the map from connections to sessions      *)
(* (internal/mcp/server.go) and the handlers that use both.                *)
(*                                                                         *)
(* A connection of the Unix socket has a key of its own and handles one    *)
(* request after the other (serveMCPConn).  All requests over HTTP have    *)
(* the key Stdio and run side by side; a client stands for one of them at  *)
(* a time.  A transaction or a critical section of the map is one step; a  *)
(* handler is several.  Time is the age of last_seen_at.                   *)
(***************************************************************************)
EXTENDS Integers, FiniteSets

CONSTANTS
    Clients,      \* where requests come from
    Keys,         \* keys of the map: connection ids of the socket, and Stdio
    KeyOf,        \* client -> its key
    Stdio,        \* "stdio", the key of every request over HTTP
    Agents,       \* agent ids
    Rows,         \* bound: rows of the sessions table
    Reconnect,    \* reconnect window (300 s)
    Hibernate,    \* hibernate window (4 h); at most Reconnect disables phase 2
    Stale,        \* stale threshold (30 min)
    Retention,    \* age at which PruneOldSessions deletes (90 days)
    Oldest        \* bound: ages count up to here; beyond all windows

NoRow == "none"

ASSUME SessionsAssumption ==
    /\ KeyOf \in [Clients -> Keys]
    /\ Stdio \in Keys
    /\ \A c, d \in Clients : KeyOf[c] = KeyOf[d] => c = d \/ KeyOf[c] = Stdio
    /\ Reconnect \in Nat \ {0}
    /\ Hibernate \in Int
    /\ Stale \in Nat
    /\ Retention \in Nat
    /\ Oldest \in Nat
    /\ \A window \in {Reconnect, Hibernate - 1, Stale, Retention} : window < Oldest
    /\ NoRow \notin Rows

VARIABLES
    session,    \* row -> its agent, connection, age and state
    entry,      \* synapsesSessions: key -> row
    handler,    \* client -> where its request is, and the row it holds
    taken,      \* history: rows resumed under another key while in use
    quiet       \* history: which key used which row while it was idle

vars == <<session, entry, handler, taken, quiet>>

Ages == 0..Oldest
States == {"gone", "active", "hibernated", "closed"}
Session == [agent: Agents \cup {NoRow}, conn: Keys \cup {NoRow}, age: Ages, state: States]
Gone == [agent |-> NoRow, conn |-> NoRow, age |-> 0, state |-> "gone"]
AtRest == [pc |-> "idle", row |-> NoRow, resumed |-> FALSE]
Handler == [pc: {"idle", "register", "stale", "touch", "end", "clear"},
            row: Rows \cup {NoRow}, resumed: BOOLEAN]

Init ==
    /\ session = [s \in Rows |-> Gone]
    /\ entry = [k \in Keys |-> NoRow]
    /\ handler = [c \in Clients |-> AtRest]
    /\ taken = {}
    /\ quiet = {}

-----------------------------------------------------------------------------
Unclosed(s) == session[s].state \in {"active", "hibernated"}

\* last_seen_at > cutoff.
Recent(s) == session[s].age < Reconnect

\* Mutant: the cutoff is taken at the present.
IdleAlways(s) == session[s].age >= 0

\* last_seen_at < cutoff.
Idle(s) == session[s].age > Reconnect

\* A key uses the row it is mapped to, and those its requests are at work on.
Uses(k, s) == entry[k] = s \/ \E c \in Clients : KeyOf[c] = k /\ handler[c].row = s
Users(s) == {k \in Keys : Uses(k, s)}

\* quiet, without the keys that use the row no more.
Forgets == quiet' = {p \in quiet : Uses(p[1], p[2])'}

Youngest(set) == {s \in set : \A r \in set : session[s].age <= session[r].age}

-----------------------------------------------------------------------------
\* GetOrResumeSession, one transaction.

\* Mutant: no row is ever resumed on its own connection.
ResumableNever(k, a) == {s \in Rows : FALSE}

\* Phase 1: sessions of this connection.
Resumable(k, a) == {s \in Rows : /\ session[s].agent = a
                                 /\ session[s].conn = k
                                 /\ Unclosed(s)
                                 /\ Recent(s)}

Phase2 == Hibernate > Reconnect

\* Phase 2 first marks the idle sessions of the agent.
Promoted(a) == {s \in Rows : /\ Phase2
                             /\ session[s].agent = a
                             /\ session[s].state = "active"
                             /\ Idle(s)}

\* Phase 2: sessions of the agent on any connection, after the promotion.
Hibernated(a) == {s \in Rows : /\ Phase2
                               /\ session[s].agent = a
                               /\ session[s].state = "hibernated" \/ s \in Promoted(a)
                               /\ session[s].age < Hibernate
                               /\ Idle(s)}

\* Mutant: sessions of every connection are superseded.
SupersededEverywhere(k, a) == {s \in Rows : session[s].agent = a /\ Unclosed(s)}

\* Phase 3: what is left open on this connection.
Superseded(k, a) == {s \in Rows : /\ session[s].agent = a
                                  /\ session[s].conn = k
                                  /\ Unclosed(s)}

Goes(c, pc, s, resumed) ==
    handler' = [handler EXCEPT ![c] = [pc |-> pc, row |-> s, resumed |-> resumed]]

ResumesOwn(k, a, s) ==
    /\ s \in Youngest(Resumable(k, a))
    /\ session' = [session EXCEPT ![s].age = 0, ![s].state = "active"]
    /\ UNCHANGED taken

ResumesHibernated(k, a, s) ==
    /\ Resumable(k, a) = {}
    /\ s \in Youngest(Hibernated(a))
    /\ session' = [r \in Rows |->
          IF r = s THEN [session[r] EXCEPT !.conn = k, !.age = 0, !.state = "active"]
          ELSE IF r \in Promoted(a) THEN [session[r] EXCEPT !.state = "hibernated"]
          ELSE session[r]]
    /\ taken' = IF Users(s) \subseteq {k} THEN taken ELSE taken \cup {s}

Creates(k, a, s) ==
    /\ Resumable(k, a) = {}
    /\ Hibernated(a) = {}
    /\ session[s].state = "gone"
    /\ Users(s) = {}
    /\ session' = [r \in Rows |->
          IF r = s THEN [agent |-> a, conn |-> k, age |-> 0, state |-> "active"]
          ELSE IF r \in Superseded(k, a) THEN [session[r] EXCEPT !.state = "closed"]
          ELSE IF r \in Promoted(a) THEN [session[r] EXCEPT !.state = "hibernated"]
          ELSE session[r]]
    /\ taken' = taken \ {s}

GetOrResumeSession(c, a, s) ==
    /\ handler[c].pc = "idle"
    /\ \/ ResumesOwn(KeyOf[c], a, s) /\ Goes(c, "register", s, TRUE)
       \/ /\ ResumesHibernated(KeyOf[c], a, s) \/ Creates(KeyOf[c], a, s)
          /\ Goes(c, "register", s, FALSE)
    /\ UNCHANGED <<entry, quiet>>

\* registerSynapseSession.
Registers(c) ==
    /\ handler[c].pc = "register"
    /\ entry' = [entry EXCEPT ![KeyOf[c]] = handler[c].row]
    /\ handler' = [handler EXCEPT ![c] =
                     IF handler[c].resumed THEN AtRest ELSE [@ EXCEPT !.pc = "stale"]]
    /\ UNCHANGED <<session, taken>>
    /\ Forgets

\* GetStaleSessions, unless the session was resumed on its own connection.
FindsStale(c) ==
    /\ handler[c].pc = "stale"
    /\ session' = [s \in Rows |->
          IF session[s].state = "active" /\ session[s].age > Stale
          THEN [session[s] EXCEPT !.state = "hibernated"] ELSE session[s]]
    /\ handler' = [handler EXCEPT ![c] = AtRest]
    /\ UNCHANGED <<entry, taken>>
    /\ Forgets

-----------------------------------------------------------------------------
\* A request reads the entry of its key and goes on with the row.
Looks(c, pc) ==
    /\ handler[c].pc = "idle"
    /\ entry[KeyOf[c]] # NoRow
    /\ Goes(c, pc, entry[KeyOf[c]], FALSE)
    /\ UNCHANGED <<session, entry, taken, quiet>>

\* The hook after every tool call, session_init included.
ToolCall(c) == Looks(c, "touch")

\* TouchSession.
Touches(c) ==
    LET s == handler[c].row
    IN /\ handler[c].pc = "touch"
       /\ session' = IF Unclosed(s)
                     THEN [session EXCEPT ![s].age = 0, ![s].state = "active"] ELSE session
       /\ handler' = [handler EXCEPT ![c] = AtRest]
       /\ UNCHANGED <<entry, taken>>
       /\ Forgets

\* end_session.
EndSession(c) == Looks(c, "end")

\* Store.EndSession closes the row.
Ends(c) ==
    LET s == handler[c].row
    IN /\ handler[c].pc = "end"
       /\ session' = IF session[s].state = "gone" THEN session
                     ELSE [session EXCEPT ![s].state = "closed"]
       /\ handler' = [handler EXCEPT ![c].pc = "clear"]
       /\ UNCHANGED <<entry, taken, quiet>>

\* ClearSynapseSession clears whatever the key is mapped to by now.
Clears(c) ==
    /\ handler[c].pc = "clear"
    /\ entry' = [entry EXCEPT ![KeyOf[c]] = NoRow]
    /\ handler' = [handler EXCEPT ![c] = AtRest]
    /\ UNCHANGED <<session, taken>>
    /\ Forgets

\* A connection of the socket ends: ClearSynapseSession.  Its row stays as it is.
Disconnect(c) ==
    /\ KeyOf[c] # Stdio
    /\ handler[c].pc = "idle"
    /\ entry' = [entry EXCEPT ![KeyOf[c]] = NoRow]
    /\ UNCHANGED <<session, handler, taken>>
    /\ Forgets

\* The daemon ends, or crashes in the middle of handlers, and starts again.  The
\* new one gives its connections the same ids again.
DaemonRestart ==
    /\ entry' = [k \in Keys |-> NoRow]
    /\ handler' = [c \in Clients |-> AtRest]
    /\ UNCHANGED <<session, taken>>
    /\ Forgets

PruneOldSessions ==
    LET old == {s \in Rows : /\ session[s].state \in {"closed", "hibernated"}
                             /\ session[s].age > Retention}
    IN /\ old # {}
       /\ session' = [s \in Rows |-> IF s \in old THEN Gone ELSE session[s]]
       /\ taken' = taken \ old
       /\ UNCHANGED <<entry, handler, quiet>>

Tick ==
    LET older == [s \in Rows |->
                    IF session[s].state = "gone" \/ session[s].age >= Oldest THEN session[s]
                    ELSE [session[s] EXCEPT !.age = @ + 1]]
    IN /\ session' = older
       /\ quiet' = quiet \cup {p \in Keys \X Rows :
                                  Uses(p[1], p[2]) /\ older[p[2]].age > Reconnect}
       /\ UNCHANGED <<entry, handler, taken>>

-----------------------------------------------------------------------------
Next ==
    \/ \E c \in Clients :
        \/ \E a \in Agents, s \in Rows : GetOrResumeSession(c, a, s)
        \/ Registers(c) \/ FindsStale(c)
        \/ ToolCall(c) \/ Touches(c)
        \/ EndSession(c) \/ Ends(c) \/ Clears(c)
        \/ Disconnect(c)
    \/ DaemonRestart
    \/ PruneOldSessions
    \/ Tick

Spec == Init /\ [][Next]_vars

-----------------------------------------------------------------------------
\* Every variable has its type; a request that is under way holds a row.
TypeOK ==
    /\ session \in [Rows -> Session]
    /\ entry \in [Keys -> Rows \cup {NoRow}]
    /\ handler \in [Clients -> Handler]
    /\ taken \subseteq Rows
    /\ quiet \subseteq Keys \X Rows
    /\ \A p \in quiet : Uses(p[1], p[2])
    /\ \A c \in Clients : \/ handler[c] = AtRest
                          \/ handler[c].pc # "idle" /\ handler[c].row \in Rows

\* Two keys have the same session only if one of them has left it idle for longer
\* than the reconnect window: an editor window on the socket that keeps working never
\* finds another connection, or the clients of HTTP, in its session, in whatever order
\* their requests, timeouts and restarts come (sessions.go:171-201, 203-267).
SharedOnlyAfterIdling ==
    \A s \in Rows : session[s].state # "gone" =>
        \A k, l \in Users(s) : k # l => <<k, s>> \in quiet \/ <<l, s>> \in quiet

\* A connection of the socket has one live session per agent, however its requests are
\* ordered with those of others, with restarts and with idle times
\* (sessions.go:148-152).  Excepted are sessions taken over while in use.  Of the key
\* that HTTP clients share it is false.
OneLiveSession ==
    \A s, r \in Rows \ taken :
        /\ Unclosed(s) /\ Unclosed(r)
        /\ Recent(s) /\ Recent(r)
        /\ session[s].agent = session[r].agent
        /\ session[s].conn = session[r].conn
        /\ session[s].conn # Stdio
        => s = r

\* Seen within the reconnect window and both thresholds of the sweeps.
Live(s) == /\ Unclosed(s)
           /\ Recent(s)
           /\ session[s].age <= Stale
           /\ session[s].age <= Retention

\* No step moves, closes, hibernates or deletes a session that is live, but an
\* end_session that found it as the session of its own key (sessions.go:214-221,
\* 269-291, 349-372, 574-614).
LiveSessionsKept ==
    [][\A s \in Rows :
        Live(s) =>
            \/ /\ session'[s].conn = session[s].conn
               /\ session'[s].state \in {session[s].state, "active"}
            \/ \E c \in Clients : /\ handler[c].pc = "end" /\ handler[c].row = s
                                  /\ handler'[c].pc = "clear"]_vars
=============================================================================
