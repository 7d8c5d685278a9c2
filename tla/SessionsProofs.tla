----------------------------- MODULE SessionsProofs -----------------------------
(***************************************************************************)
(* For any clients, keys, agents, rows and windows: who shares a session,  *)
(* how many live ones a connection has, and what happens to a live one.    *)
(***************************************************************************)
EXTENDS Sessions, TLAPS

\* The connections of the socket, which handle one request after the other.
Sockets == {c \in Clients : KeyOf[c] # Stdio}

\* The row a connection will touch once its session_init, if any, has registered.
Current(c) == IF handler[c].pc = "register" THEN handler[c].row ELSE entry[KeyOf[c]]

\* What a connection's request holds is what its key is mapped to, but for a
\* session_init that has not registered.
HeldIsRegistered ==
  \A c \in Sockets : handler[c].pc \notin {"idle", "register"} => entry[KeyOf[c]] = handler[c].row

\* Time that passes over a session in use is noticed.
IdleIsQuiet ==
  \A k \in Keys, s \in Rows :
    Uses(k, s) /\ session[s].age > Reconnect => <<k, s>> \in quiet

\* A session that is not the key's any more had been left idle by it.
MovedIsQuiet ==
  \A k \in Keys, s \in Rows :
    Uses(k, s) /\ session[s].state # "gone" /\ session[s].conn # k => <<k, s>> \in quiet

\* A session that left a key while in use was taken.
MovedIsTaken ==
  \A k \in Keys, s \in Rows :
    Uses(k, s) /\ session[s].state # "gone" /\ session[s].conn # k => s \in taken

\* The session a connection goes on with has no live rival.
CurrentIsOnly ==
  \A c \in Sockets, s, r \in Rows \ taken :
    /\ Current(c) = s
    /\ session[s].conn = KeyOf[c] /\ session[r].conn = KeyOf[c]
    /\ session[s].agent = session[r].agent
    /\ Unclosed(s) /\ Unclosed(r)
    /\ Recent(r)
    => s = r

\* What the statements on a row do to its type.
LEMMA RowsStayTyped ==
  ASSUME NEW x \in Session
  PROVE  /\ \A st \in States : [x EXCEPT !.state = st] \in Session
         /\ [x EXCEPT !.age = 0, !.state = "active"] \in Session
         /\ \A k \in Keys : [x EXCEPT !.conn = k, !.age = 0, !.state = "active"] \in Session
<1>1. 0 \in Ages /\ "active" \in States
  BY SessionsAssumption DEF Ages, States
<1> QED BY <1>1 DEF Session

-----------------------------------------------------------------------------
\* The rows in use after a request got, kept or gave up a row.
LEMMA UsesAfter ==
  ASSUME TypeOK, NEW c \in Clients, UNCHANGED entry, NEW new,
         \A d \in Clients : handler'[d] = IF d = c THEN new ELSE handler[d]
  PROVE  /\ new.row = handler[c].row =>
              \A k \in Keys, s \in Rows : Uses(k, s)' <=> Uses(k, s)
         /\ new.row = NoRow => \A k \in Keys, s \in Rows : Uses(k, s)' => Uses(k, s)
         /\ handler[c].pc = "idle" => \A k \in Keys, s \in Rows :
              Uses(k, s)' <=> Uses(k, s) \/ (k = KeyOf[c] /\ s = new.row)
<1>0. NoRow \notin Rows /\ KeyOf[c] \in Keys
  BY SessionsAssumption
<1>1. ASSUME new.row = handler[c].row, NEW k \in Keys, NEW s \in Rows
      PROVE  Uses(k, s)' <=> Uses(k, s)
  <2>1. \A d \in Clients : handler'[d].row = handler[d].row
    BY <1>1
  <2> QED BY <2>1 DEF Uses
<1>2. ASSUME new.row = NoRow, NEW k \in Keys, NEW s \in Rows, Uses(k, s)'
      PROVE  Uses(k, s)
  <2>1. CASE entry[k] = s
    BY <2>1 DEF Uses
  <2>2. CASE \E d \in Clients : KeyOf[d] = k /\ handler'[d].row = s
    <3>1. PICK d \in Clients : KeyOf[d] = k /\ handler'[d].row = s
      BY <2>2
    <3>2. d # c
      BY <1>0, <1>2, <3>1
    <3> QED BY <3>1, <3>2 DEF Uses
  <2> QED BY <1>2, <2>1, <2>2 DEF Uses
<1>3. ASSUME handler[c].pc = "idle", NEW k \in Keys, NEW s \in Rows
      PROVE  Uses(k, s)' <=> Uses(k, s) \/ (k = KeyOf[c] /\ s = new.row)
  <2>1. handler[c].row = NoRow
    BY <1>3 DEF TypeOK, AtRest
  <2>2. \A d \in Clients : handler[d].row = s => d # c /\ handler'[d].row = s
    BY <1>0, <2>1
  <2>3. \A d \in Clients : handler'[d].row = s => handler[d].row = s \/ (d = c /\ s = new.row)
    OBVIOUS
  <2>4. handler'[c].row = new.row
    OBVIOUS
  <2> QED BY <2>2, <2>3, <2>4 DEF Uses
<1> QED BY <1>1, <1>2, <1>3

\* Registering a row in hand puts no row in use.
LEMMA UsesRegistered ==
  ASSUME TypeOK, NEW c \in Clients, Registers(c)
  PROVE  /\ \A k \in Keys, s \in Rows : Uses(k, s)' => Uses(k, s)
         /\ \A k \in Keys : entry'[k] = IF k = KeyOf[c] THEN handler[c].row ELSE entry[k]
         /\ \A d \in Clients : d # c => handler'[d] = handler[d]
         /\ \/ handler'[c] = AtRest
            \/ /\ handler'[c] = [handler[c] EXCEPT !.pc = "stale"]
               /\ handler'[c].pc = "stale" /\ handler'[c].row = handler[c].row
<1> USE SessionsAssumption
<1>0. /\ handler \in [Clients -> Handler] /\ entry \in [Keys -> Rows \cup {NoRow}]
      /\ handler[c] \in Handler
  BY DEF TypeOK
<1>1. /\ \A k \in Keys : entry'[k] = IF k = KeyOf[c] THEN handler[c].row ELSE entry[k]
      /\ \A d \in Clients : d # c => handler'[d] = handler[d]
      /\ handler'[c] = IF handler[c].resumed THEN AtRest ELSE [handler[c] EXCEPT !.pc = "stale"]
  BY <1>0 DEF Registers
<1>2. /\ [handler[c] EXCEPT !.pc = "stale"].pc = "stale"
      /\ [handler[c] EXCEPT !.pc = "stale"].row = handler[c].row
  BY <1>0 DEF Handler
<1>3. \/ handler'[c] = AtRest
      \/ /\ handler'[c] = [handler[c] EXCEPT !.pc = "stale"]
         /\ handler'[c].pc = "stale" /\ handler'[c].row = handler[c].row
  BY <1>1, <1>2
<1>4. \A d \in Clients, s \in Rows : handler'[d].row = s => handler[d].row = s
  <2> SUFFICES ASSUME NEW d \in Clients, NEW s \in Rows, handler'[d].row = s
               PROVE  handler[d].row = s
    OBVIOUS
  <2>1. AtRest.row = NoRow /\ NoRow # s
    BY DEF AtRest
  <2>2. CASE d = c
    BY <1>3, <2>1, <2>2
  <2>3. CASE d # c
    BY <1>1, <2>3
  <2> QED BY <2>2, <2>3
<1>5. \A k \in Keys, s \in Rows : Uses(k, s)' => Uses(k, s)
  BY <1>1, <1>4 DEF Uses
<1> QED BY <1>1, <1>3, <1>5

\* Clearing entries and dropping requests puts no row in use.
LEMMA UsesCleared ==
  ASSUME NEW cleared, NEW dropped,
         \A k \in Keys : entry'[k] = IF k \in cleared THEN NoRow ELSE entry[k],
         \A d \in Clients : handler'[d] = IF d \in dropped THEN AtRest ELSE handler[d]
  PROVE  \A k \in Keys, s \in Rows : Uses(k, s)' => Uses(k, s)
<1> SUFFICES ASSUME NEW k \in Keys, NEW s \in Rows, Uses(k, s)' PROVE Uses(k, s)
  OBVIOUS
<1>0. s # NoRow
  BY SessionsAssumption
<1>1. entry'[k] = s => entry[k] = s
  BY <1>0
<1>2. \A d \in Clients : handler'[d].row = s => handler[d].row = s
  BY <1>0 DEF AtRest
<1> QED BY <1>1, <1>2 DEF Uses

-----------------------------------------------------------------------------
\* Every reachable state is well typed; requests hold rows, connections of the socket
\* those of their own key, and the sessions left idle are in use.
THEOREM TypeCorrect == Spec => [](TypeOK /\ HeldIsRegistered)
<1> DEFINE Typed == TypeOK /\ HeldIsRegistered
<1> USE SessionsAssumption
<1>1. Init => Typed
  BY DEF Init, TypeOK, HeldIsRegistered, Session, Gone, Ages, States, Handler, AtRest, Sockets
<1>2. Typed /\ [Next]_vars => Typed'
  <2> SUFFICES ASSUME Typed, [Next]_vars PROVE Typed'
    OBVIOUS
  <2>0. /\ session \in [Rows -> Session] /\ entry \in [Keys -> Rows \cup {NoRow}]
        /\ handler \in [Clients -> Handler] /\ AtRest \in Handler
        /\ \A c \in Clients : handler[c].pc # "idle" => handler[c].row \in Rows
        /\ \A c, d \in Clients : KeyOf[c] = KeyOf[d] => c = d \/ c \notin Sockets
        /\ \A c \in Clients : KeyOf[c] \in Keys
    BY DEF TypeOK, AtRest, Handler, Sockets
  <2>forgets. ASSUME Forgets PROVE quiet' \subseteq quiet /\ \A p \in quiet' : Uses(p[1], p[2])'
    BY <2>forgets DEF Forgets
  <2>uses. ASSUME \A k \in Keys, s \in Rows : Uses(k, s) => Uses(k, s)', UNCHANGED quiet
           PROVE  \A p \in quiet' : Uses(p[1], p[2])'
    <3> SUFFICES ASSUME NEW p \in quiet PROVE Uses(p[1], p[2])'
      BY <2>uses
    <3>1. p[1] \in Keys /\ p[2] \in Rows /\ Uses(p[1], p[2])
      BY DEF TypeOK
    <3> QED BY <2>uses, <3>1
  \* A request goes on with a new state; those of other clients stay.
  <2>goes. ASSUME NEW c \in Clients, NEW new \in Handler,
                  handler' = [handler EXCEPT ![c] = new],
                  new = AtRest \/ (new.pc # "idle" /\ new.row \in Rows)
           PROVE  /\ handler' \in [Clients -> Handler]
                  /\ \A d \in Clients : handler'[d] = IF d = c THEN new ELSE handler[d]
                  /\ \A d \in Clients : \/ handler'[d] = AtRest
                                        \/ handler'[d].pc # "idle" /\ handler'[d].row \in Rows
    <3>1. /\ handler' \in [Clients -> Handler]
          /\ \A d \in Clients : handler'[d] = IF d = c THEN new ELSE handler[d]
      BY <2>0, <2>goes
    <3> QED BY <2>goes, <3>1 DEF TypeOK
  <2>1. ASSUME NEW c \in Clients, NEW a \in Agents, NEW s \in Rows, GetOrResumeSession(c, a, s)
        PROVE  Typed'
    <3> DEFINE got(resumed) == [pc |-> "register", row |-> s, resumed |-> resumed]
    <3>1. handler[c].pc = "idle" /\ UNCHANGED <<entry, quiet>>
      BY <2>1 DEF GetOrResumeSession
    <3>2. PICK resumed \in BOOLEAN : handler' = [handler EXCEPT ![c] = got(resumed)]
      BY <2>1 DEF GetOrResumeSession, Goes
    <3>3. got(resumed) \in Handler
      BY DEF Handler
    <3>4. /\ handler' \in [Clients -> Handler]
          /\ \A d \in Clients : handler'[d] = IF d = c THEN got(resumed) ELSE handler[d]
          /\ \A d \in Clients : \/ handler'[d] = AtRest
                                \/ handler'[d].pc # "idle" /\ handler'[d].row \in Rows
      BY <2>goes, <3>2, <3>3
    <3>5. session' \in [Rows -> Session] /\ taken' \subseteq Rows
      <4>0. KeyOf[c] \in Keys
        OBVIOUS
      <4> DEFINE k == KeyOf[c]
      <4>1. CASE ResumesOwn(k, a, s)
        <5>1. [session[s] EXCEPT !.age = 0, !.state = "active"] \in Session
          BY <2>0, RowsStayTyped
        <5> QED BY <2>0, <4>1, <5>1 DEF ResumesOwn, TypeOK
      <4>2. CASE ResumesHibernated(k, a, s)
        <5>1. \A q \in Rows :
                 /\ [session[q] EXCEPT !.conn = k, !.age = 0, !.state = "active"] \in Session
                 /\ [session[q] EXCEPT !.state = "hibernated"] \in Session
          BY <2>0, <4>0, RowsStayTyped DEF States
        <5> HIDE DEF k
        <5> QED BY <2>0, <4>2, <5>1 DEF ResumesHibernated, TypeOK
      <4>3. CASE Creates(k, a, s)
        <5>1. \A q \in Rows :
                 /\ [session[q] EXCEPT !.state = "closed"] \in Session
                 /\ [session[q] EXCEPT !.state = "hibernated"] \in Session
          BY <2>0 DEF Session, States
        <5>2. [agent |-> a, conn |-> k, age |-> 0, state |-> "active"] \in Session
          BY <4>0 DEF Session, Ages, States
        <5> HIDE DEF k
        <5> QED BY <2>0, <4>3, <5>1, <5>2 DEF Creates, TypeOK
      <4> QED BY <2>1, <4>1, <4>2, <4>3 DEF GetOrResumeSession
    <3>6. \A k \in Keys, r \in Rows : Uses(k, r) => Uses(k, r)'
      <4> DEFINE new == got(resumed)
      <4>1. \A d \in Clients : handler'[d] = IF d = c THEN new ELSE handler[d]
        BY <3>4
      <4> HIDE DEF new
      <4> QED BY <3>1, <4>1, UsesAfter
    <3>7. HeldIsRegistered'
      BY <3>1, <3>4 DEF HeldIsRegistered, Sockets
    <3> QED BY <2>0, <2>uses, <3>1, <3>4, <3>5, <3>6, <3>7 DEF TypeOK
  <2>2. ASSUME NEW c \in Clients, Registers(c) PROVE Typed'
    <3>1. /\ handler[c].pc = "register" /\ handler[c].row \in Rows /\ handler[c] \in Handler
          /\ entry' = [entry EXCEPT ![KeyOf[c]] = handler[c].row]
          /\ UNCHANGED <<session, taken>> /\ Forgets
      BY <2>0, <2>2 DEF Registers
    <3>2. /\ \A d \in Clients : d # c => handler'[d] = handler[d]
          /\ \/ handler'[c] = AtRest
             \/ handler'[c].pc = "stale" /\ handler'[c].row = handler[c].row
          /\ \A k \in Keys : entry'[k] = IF k = KeyOf[c] THEN handler[c].row ELSE entry[k]
      BY <2>2, UsesRegistered
    <3>3. [handler[c] EXCEPT !.pc = "stale"] \in Handler
      BY <3>1 DEF Handler
    <3>4. handler' \in [Clients -> Handler] /\ entry' \in [Keys -> Rows \cup {NoRow}]
      BY <2>0, <2>2, <3>1, <3>3 DEF Registers
    <3>5. HeldIsRegistered'
      <4> SUFFICES ASSUME NEW d \in Sockets, handler'[d].pc \notin {"idle", "register"}
                   PROVE  entry'[KeyOf[d]] = handler'[d].row
        BY DEF HeldIsRegistered
      <4>0. d \in Clients /\ KeyOf[d] \in Keys
        BY DEF Sockets
      <4>1. CASE d = c
        BY <3>2, <4>0, <4>1 DEF AtRest
      <4>2. CASE d # c
        <5>1. KeyOf[d] # KeyOf[c]
          BY <2>0, <4>0, <4>2
        <5> QED BY <3>2, <4>0, <4>2, <5>1 DEF HeldIsRegistered
      <4> QED BY <4>1, <4>2
    <3>6. \A d \in Clients : \/ handler'[d] = AtRest
                             \/ handler'[d].pc # "idle" /\ handler'[d].row \in Rows
      <4> SUFFICES ASSUME NEW d \in Clients
                   PROVE  \/ handler'[d] = AtRest
                          \/ handler'[d].pc # "idle" /\ handler'[d].row \in Rows
        OBVIOUS
      <4>1. CASE d = c
        BY <3>1, <3>2, <4>1
      <4>2. CASE d # c
        BY <3>2, <4>2 DEF TypeOK
      <4> QED BY <4>1, <4>2
    <3> QED BY <2>forgets, <3>1, <3>4, <3>5, <3>6 DEF TypeOK
  <2>3. ASSUME NEW c \in Clients, FindsStale(c) \/ Touches(c) PROVE Typed'
    <3>1. /\ handler' = [handler EXCEPT ![c] = AtRest] /\ UNCHANGED <<entry, taken>> /\ Forgets
      BY <2>3 DEF FindsStale, Touches
    <3>2. session' \in [Rows -> Session]
      <4>1. CASE FindsStale(c)
        <5>1. \A s \in Rows : [session[s] EXCEPT !.state = "hibernated"] \in Session
          BY <2>0 DEF Session, States
        <5> QED BY <2>0, <4>1, <5>1 DEF FindsStale
      <4>2. CASE Touches(c)
        <5>1. handler[c].row \in Rows
          BY <2>0, <4>2 DEF Touches
        <5>2. [session[handler[c].row] EXCEPT !.age = 0, !.state = "active"] \in Session
          BY <2>0, <5>1, RowsStayTyped
        <5> QED BY <2>0, <4>2, <5>1, <5>2 DEF Touches
      <4> QED BY <2>3, <4>1, <4>2
    <3>3. /\ handler' \in [Clients -> Handler]
          /\ \A d \in Clients : handler'[d] = IF d = c THEN AtRest ELSE handler[d]
          /\ \A d \in Clients : \/ handler'[d] = AtRest
                                \/ handler'[d].pc # "idle" /\ handler'[d].row \in Rows
      BY <2>0, <2>goes, <3>1
    <3>4. HeldIsRegistered'
      BY <3>1, <3>3 DEF HeldIsRegistered, AtRest, Sockets
    <3> QED BY <2>0, <2>forgets, <3>1, <3>2, <3>3, <3>4 DEF TypeOK
  <2>4. ASSUME NEW c \in Clients, ToolCall(c) \/ EndSession(c) PROVE Typed'
    <3> DEFINE got(pc) == [pc |-> pc, row |-> entry[KeyOf[c]], resumed |-> FALSE]
    <3>1. /\ handler[c].pc = "idle" /\ entry[KeyOf[c]] \in Rows
          /\ UNCHANGED <<session, entry, taken, quiet>>
      BY <2>0, <2>4 DEF ToolCall, EndSession, Looks
    <3>2. PICK pc \in {"touch", "end"} : handler' = [handler EXCEPT ![c] = got(pc)]
      BY <2>4 DEF ToolCall, EndSession, Looks, Goes
    <3>3. got(pc) \in Handler
      BY <3>1 DEF Handler
    <3>4. /\ handler' \in [Clients -> Handler]
          /\ \A d \in Clients : handler'[d] = IF d = c THEN got(pc) ELSE handler[d]
          /\ \A d \in Clients : \/ handler'[d] = AtRest
                                \/ handler'[d].pc # "idle" /\ handler'[d].row \in Rows
      BY <2>goes, <3>1, <3>2, <3>3
    <3>5. \A k \in Keys, s \in Rows : Uses(k, s) => Uses(k, s)'
      BY <3>1, <3>4, UsesAfter
    <3>6. HeldIsRegistered'
      BY <3>1, <3>4 DEF HeldIsRegistered, Sockets
    <3> QED BY <2>0, <2>uses, <3>1, <3>4, <3>5, <3>6 DEF TypeOK
  <2>5. ASSUME NEW c \in Clients, Ends(c) PROVE Typed'
    <3> DEFINE new == [handler[c] EXCEPT !.pc = "clear"]
    <3>1. /\ handler[c].pc = "end" /\ handler[c].row \in Rows /\ handler[c] \in Handler
          /\ UNCHANGED <<entry, taken, quiet>>
      BY <2>0, <2>5 DEF Ends
    <3>2. new \in Handler /\ new.pc = "clear" /\ new.row = handler[c].row
      BY <3>1 DEF Handler
    <3>3. handler' = [handler EXCEPT ![c] = new]
      BY <2>0, <2>5 DEF Ends
    <3> HIDE DEF new
    <3>4. /\ handler' \in [Clients -> Handler]
          /\ \A d \in Clients : handler'[d] = IF d = c THEN new ELSE handler[d]
          /\ \A d \in Clients : \/ handler'[d] = AtRest
                                \/ handler'[d].pc # "idle" /\ handler'[d].row \in Rows
      BY <2>goes, <3>1, <3>2, <3>3
    <3>5. session' \in [Rows -> Session]
      <4>1. [session[handler[c].row] EXCEPT !.state = "closed"] \in Session
        BY <2>0, <3>1, RowsStayTyped DEF States
      <4> QED BY <2>0, <2>5, <3>1, <4>1 DEF Ends
    <3>6. \A k \in Keys, s \in Rows : Uses(k, s) => Uses(k, s)'
      BY <3>1, <3>2, <3>4, UsesAfter
    <3>7. HeldIsRegistered'
      BY <3>1, <3>2, <3>4 DEF HeldIsRegistered, Sockets
    <3> QED BY <2>0, <2>uses, <3>1, <3>4, <3>5, <3>6, <3>7 DEF TypeOK
  <2>6. ASSUME NEW c \in Clients, Clears(c) \/ Disconnect(c) PROVE Typed'
    <3>1. /\ entry' = [entry EXCEPT ![KeyOf[c]] = NoRow]
          /\ UNCHANGED <<session, taken>> /\ Forgets
          /\ handler' = [handler EXCEPT ![c] = AtRest]
      <4>1. Disconnect(c) => handler' = [handler EXCEPT ![c] = AtRest]
        BY <2>0 DEF Disconnect, TypeOK
      <4> QED BY <2>6, <4>1 DEF Clears, Disconnect
    <3>2. /\ handler' \in [Clients -> Handler]
          /\ \A d \in Clients : handler'[d] = IF d = c THEN AtRest ELSE handler[d]
          /\ \A d \in Clients : \/ handler'[d] = AtRest
                                \/ handler'[d].pc # "idle" /\ handler'[d].row \in Rows
      BY <2>0, <2>goes, <3>1
    <3>3. /\ entry' \in [Keys -> Rows \cup {NoRow}]
          /\ \A k \in Keys : k # KeyOf[c] => entry'[k] = entry[k]
      BY <2>0, <3>1
    <3>4. HeldIsRegistered'
      <4> SUFFICES ASSUME NEW d \in Sockets, handler'[d].pc \notin {"idle", "register"}
                   PROVE  entry'[KeyOf[d]] = handler'[d].row
        BY DEF HeldIsRegistered
      <4>1. d \in Clients /\ d # c /\ KeyOf[d] \in Keys
        BY <3>2 DEF Sockets, AtRest
      <4>2. KeyOf[d] # KeyOf[c]
        BY <2>0, <4>1
      <4> QED BY <3>2, <3>3, <4>1, <4>2 DEF HeldIsRegistered
    <3> QED BY <2>0, <2>forgets, <3>1, <3>2, <3>3, <3>4 DEF TypeOK
  <2>7. CASE DaemonRestart
    <3>1. /\ entry' \in [Keys -> Rows \cup {NoRow}] /\ handler' \in [Clients -> Handler]
          /\ \A d \in Clients : handler'[d] = AtRest
          /\ UNCHANGED <<session, taken>> /\ Forgets
      BY <2>0, <2>7 DEF DaemonRestart
    <3>2. HeldIsRegistered'
      BY <3>1 DEF HeldIsRegistered, Sockets, AtRest
    <3> QED BY <2>0, <2>forgets, <3>1, <3>2 DEF TypeOK
  <2>8. CASE PruneOldSessions
    <3>1. Gone \in Session
      BY DEF Gone, Session, Ages, States
    <3>2. session' \in [Rows -> Session] /\ taken' \subseteq taken
      BY <2>0, <2>8, <3>1 DEF PruneOldSessions
    <3> QED BY <2>0, <2>8, <3>2 DEF PruneOldSessions, TypeOK, HeldIsRegistered, Uses
  <2>9. CASE Tick
    <3>1. \A s \in Rows : ~(session[s].age >= Oldest)
                             => [session[s] EXCEPT !.age = @ + 1] \in Session
      BY <2>0 DEF Session, Ages
    <3>2. session' \in [Rows -> Session]
      BY <2>0, <2>9, <3>1 DEF Tick
    <3>3. \A p \in quiet' : p \in Keys \X Rows /\ Uses(p[1], p[2])'
      BY <2>9 DEF Tick, TypeOK, Uses
    <3> QED BY <2>0, <2>9, <3>2, <3>3 DEF Tick, TypeOK, HeldIsRegistered
  <2>10. CASE UNCHANGED vars
    BY <2>0, <2>10 DEF vars, TypeOK, HeldIsRegistered, Uses
  <2> QED BY <2>1, <2>2, <2>3, <2>4, <2>5, <2>6, <2>7, <2>8, <2>9, <2>10 DEF Next
<1> QED BY <1>1, <1>2, PTL DEF Spec

-----------------------------------------------------------------------------
\* What a session_init does to the rows and to who uses them, whichever phase answers.
LEMMA ResumeEffects ==
  ASSUME TypeOK, NEW c \in Clients, NEW a \in Agents, NEW t \in Rows,
         GetOrResumeSession(c, a, t)
  PROVE  /\ \A k \in Keys, s \in Rows :
               Uses(k, s)' <=> Uses(k, s) \/ (k = KeyOf[c] /\ s = t)
         /\ \A d \in Clients : Current(d)' = IF d = c THEN t ELSE Current(d)
         /\ session'[t].agent = a /\ session'[t].conn = KeyOf[c]
         /\ session'[t].age = 0 /\ session'[t].state = "active"
         /\ \A s \in Rows \ {t} : /\ session'[s].agent = session[s].agent
                                  /\ session'[s].conn = session[s].conn
                                  /\ session'[s].age = session[s].age
                                  /\ Unclosed(s)' => Unclosed(s)
                                  /\ session[s].state = "gone" <=> session'[s].state = "gone"
                                  /\ Unclosed(s) /\ Recent(s) => session'[s] = session[s]
         /\ \/ t \in Resumable(KeyOf[c], a) /\ UNCHANGED taken
            \/ /\ t \in Hibernated(a) /\ Resumable(KeyOf[c], a) = {}
               /\ taken' = IF Users(t) \subseteq {KeyOf[c]} THEN taken ELSE taken \cup {t}
            \/ /\ session[t].state = "gone" /\ Users(t) = {}
               /\ Resumable(KeyOf[c], a) = {}
               /\ taken' = taken \ {t}
<1> DEFINE k == KeyOf[c]
<1>0. /\ handler[c].pc = "idle" /\ UNCHANGED entry
      /\ session \in [Rows -> Session] /\ handler \in [Clients -> Handler]
      /\ \A s \in Rows : session[s] \in Session
  BY DEF GetOrResumeSession, TypeOK
<1>uses. /\ \A l \in Keys, s \in Rows : Uses(l, s)' <=> Uses(l, s) \/ (l = k /\ s = t)
         /\ \A d \in Clients : Current(d)' = IF d = c THEN t ELSE Current(d)
  <2>1. PICK resumed \in BOOLEAN :
           handler' = [handler EXCEPT ![c] = [pc |-> "register", row |-> t, resumed |-> resumed]]
    BY DEF GetOrResumeSession, Goes
  <2> DEFINE new == [pc |-> "register", row |-> t, resumed |-> resumed]
  <2>2. /\ \A d \in Clients : handler'[d] = IF d = c THEN new ELSE handler[d]
        /\ new.pc = "register" /\ new.row = t
    BY <1>0, <2>1
  <2> HIDE DEF new
  <2>3. \A l \in Keys, s \in Rows : Uses(l, s)' <=> Uses(l, s) \/ (l = KeyOf[c] /\ s = new.row)
    BY <1>0, <2>2, UsesAfter
  <2> QED BY <1>0, <2>2, <2>3 DEF Current
<1>1. CASE ResumesOwn(k, a, t)
  <2>1. t \in Resumable(k, a) /\ session[t].agent = a /\ session[t].conn = k /\ Unclosed(t)
    BY <1>1 DEF ResumesOwn, Youngest, Resumable
  <2>2. /\ session'[t] = [session[t] EXCEPT !.age = 0, !.state = "active"]
        /\ \A s \in Rows \ {t} : session'[s] = session[s]
    BY <1>0, <1>1 DEF ResumesOwn
  <2> HIDE DEF k
  <2>3. /\ session'[t].agent = a /\ session'[t].conn = k
        /\ session'[t].age = 0 /\ session'[t].state = "active"
    BY <1>0, <2>1, <2>2 DEF Session
  <2> QED BY <1>1, <1>uses, <2>1, <2>2, <2>3 DEF ResumesOwn, Unclosed, k
<1>2. CASE ResumesHibernated(k, a, t)
  <2>1. t \in Hibernated(a) /\ session[t].agent = a
    BY <1>2 DEF ResumesHibernated, Youngest, Hibernated
  <2>2. /\ session'[t] = [session[t] EXCEPT !.conn = k, !.age = 0, !.state = "active"]
        /\ \A s \in Rows \ {t} :
              session'[s] = IF s \in Promoted(a) THEN [session[s] EXCEPT !.state = "hibernated"]
                            ELSE session[s]
    BY <1>2 DEF ResumesHibernated
  <2> HIDE DEF k
  <2>3. /\ session'[t].agent = a /\ session'[t].conn = k
        /\ session'[t].age = 0 /\ session'[t].state = "active"
    BY <1>0, <2>1, <2>2 DEF Session
  <2>4. \A s \in Rows \ {t} : /\ session'[s].agent = session[s].agent
                              /\ session'[s].conn = session[s].conn
                              /\ session'[s].age = session[s].age
                              /\ Unclosed(s)' => Unclosed(s)
                              /\ session[s].state = "gone" <=> session'[s].state = "gone"
                              /\ Unclosed(s) /\ Recent(s) => session'[s] = session[s]
    <3> SUFFICES ASSUME NEW s \in Rows \ {t}
                 PROVE  /\ session'[s].agent = session[s].agent
                        /\ session'[s].conn = session[s].conn
                        /\ session'[s].age = session[s].age
                        /\ Unclosed(s)' => Unclosed(s)
                        /\ session[s].state = "gone" <=> session'[s].state = "gone"
                        /\ Unclosed(s) /\ Recent(s) => session'[s] = session[s]
      OBVIOUS
    <3>1. session[s] \in Session
      BY <1>0
    <3>2. s \in Promoted(a) => session[s].state = "active" /\ ~Recent(s)
      BY <3>1, SessionsAssumption DEF Promoted, Idle, Recent, Session, Ages
    <3>3. CASE s \in Promoted(a)
      BY <2>2, <3>1, <3>2, <3>3 DEF Session, Unclosed
    <3>4. CASE s \notin Promoted(a)
      BY <2>2, <3>4 DEF Unclosed
    <3> QED BY <3>3, <3>4
  <2> QED BY <1>2, <1>uses, <2>1, <2>3, <2>4 DEF ResumesHibernated, k
<1>3. CASE Creates(k, a, t)
  <2>1. /\ session'[t] = [agent |-> a, conn |-> k, age |-> 0, state |-> "active"]
        /\ \A s \in Rows \ {t} :
              session'[s] = IF s \in Superseded(k, a) THEN [session[s] EXCEPT !.state = "closed"]
                            ELSE IF s \in Promoted(a) THEN [session[s] EXCEPT !.state = "hibernated"]
                            ELSE session[s]
    BY <1>3 DEF Creates
  <2>2. \A s \in Rows \ {t} : /\ session'[s].agent = session[s].agent
                              /\ session'[s].conn = session[s].conn
                              /\ session'[s].age = session[s].age
                              /\ Unclosed(s)' => Unclosed(s)
                              /\ session[s].state = "gone" <=> session'[s].state = "gone"
                              /\ Unclosed(s) /\ Recent(s) => session'[s] = session[s]
    <3> SUFFICES ASSUME NEW s \in Rows \ {t}
                 PROVE  /\ session'[s].agent = session[s].agent
                        /\ session'[s].conn = session[s].conn
                        /\ session'[s].age = session[s].age
                        /\ Unclosed(s)' => Unclosed(s)
                        /\ session[s].state = "gone" <=> session'[s].state = "gone"
                        /\ Unclosed(s) /\ Recent(s) => session'[s] = session[s]
      OBVIOUS
    <3>1. session[s] \in Session
      BY <1>0
    <3>2. /\ s \in Promoted(a) => session[s].state = "active" /\ ~Recent(s)
          /\ s \in Superseded(k, a) => Unclosed(s) /\ ~Recent(s)
      BY <1>3, <3>1, SessionsAssumption
         DEF Promoted, Superseded, Idle, Recent, Session, Ages, Creates, Resumable
    <3> HIDE DEF k
    <3>3. CASE s \in Superseded(k, a)
      BY <2>1, <3>1, <3>2, <3>3 DEF Session, Unclosed
    <3>4. CASE s \notin Superseded(k, a) /\ s \in Promoted(a)
      BY <2>1, <3>1, <3>2, <3>4 DEF Session, Unclosed
    <3>5. CASE s \notin Superseded(k, a) /\ s \notin Promoted(a)
      BY <2>1, <3>5 DEF Unclosed
    <3> QED BY <3>3, <3>4, <3>5
  <2> HIDE DEF k
  <2>3. /\ session'[t].agent = a /\ session'[t].conn = k
        /\ session'[t].age = 0 /\ session'[t].state = "active"
    BY <2>1
  <2> QED BY <1>3, <1>uses, <2>2, <2>3 DEF Creates, k
<1> QED BY <1>1, <1>2, <1>3 DEF GetOrResumeSession

\* What the other steps do to them, TouchSession excepted.
Other == \/ \E c \in Clients : \/ Registers(c) \/ FindsStale(c)
                               \/ ToolCall(c) \/ EndSession(c)
                               \/ Ends(c) \/ Clears(c) \/ Disconnect(c)
         \/ DaemonRestart \/ PruneOldSessions \/ Tick
         \/ UNCHANGED vars

\* They put no row in use and give no connection another session.
LEMMA OtherKeepUses ==
  ASSUME TypeOK, TypeOK', HeldIsRegistered, Other
  PROVE  /\ \A k \in Keys, s \in Rows : Uses(k, s)' => Uses(k, s)
         /\ \A d \in Sockets : Current(d)' \in {Current(d), NoRow}
<1> DEFINE Kept == /\ \A k \in Keys, s \in Rows : Uses(k, s)' => Uses(k, s)
                   /\ \A d \in Sockets : Current(d)' \in {Current(d), NoRow}
<1> USE SessionsAssumption
<1>0. /\ entry \in [Keys -> Rows \cup {NoRow}] /\ handler \in [Clients -> Handler]
      /\ \A d \in Sockets : d \in Clients /\ KeyOf[d] \in Keys
      /\ \A d \in Sockets, c \in Clients : KeyOf[d] = KeyOf[c] => d = c
      /\ \A c \in Clients : KeyOf[c] \in Keys
      /\ AtRest.pc = "idle" /\ AtRest.row = NoRow
  BY DEF TypeOK, Sockets, AtRest
<1>1. ASSUME NEW c \in Clients, Registers(c) PROVE Kept
  <2>1. /\ \A k \in Keys, s \in Rows : Uses(k, s)' => Uses(k, s)
        /\ \A k \in Keys : entry'[k] = IF k = KeyOf[c] THEN handler[c].row ELSE entry[k]
        /\ \A d \in Clients : d # c => handler'[d] = handler[d]
        /\ handler'[c] = AtRest \/ handler'[c].pc = "stale"
    BY <1>1, UsesRegistered
  <2>2. handler[c].pc = "register"
    BY <1>1 DEF Registers
  <2>3. \A d \in Sockets : Current(d)' = Current(d)
    <3> SUFFICES ASSUME NEW d \in Sockets PROVE Current(d)' = Current(d)
      OBVIOUS
    <3>1. CASE d = c
      <4>1. handler'[c].pc # "register" /\ entry'[KeyOf[c]] = handler[c].row
        BY <1>0, <2>1
      <4> QED BY <2>2, <3>1, <4>1 DEF Current
    <3>2. CASE d # c
      <4>1. handler'[d] = handler[d] /\ entry'[KeyOf[d]] = entry[KeyOf[d]]
        BY <1>0, <2>1, <3>2
      <4> QED BY <4>1 DEF Current
    <3> QED BY <3>1, <3>2
  <2> QED BY <2>1, <2>3
<1>2. ASSUME NEW c \in Clients, FindsStale(c) PROVE Kept
  <2>1. /\ \A d \in Clients : handler'[d] = IF d = c THEN AtRest ELSE handler[d]
        /\ UNCHANGED entry /\ handler[c].pc = "stale"
    BY <1>0, <1>2 DEF FindsStale
  <2>2. \A k \in Keys, s \in Rows : Uses(k, s)' => Uses(k, s)
    BY <1>0, <2>1, UsesAfter
  <2>3. \A d \in Sockets : Current(d)' = Current(d)
    BY <1>0, <2>1 DEF Current
  <2> QED BY <2>2, <2>3
<1>3. ASSUME NEW c \in Clients, ToolCall(c) \/ EndSession(c) PROVE Kept
  <2>1. PICK pc \in {"touch", "end"} :
           /\ handler[c].pc = "idle" /\ UNCHANGED entry
           /\ handler' = [handler EXCEPT
                            ![c] = [pc |-> pc, row |-> entry[KeyOf[c]], resumed |-> FALSE]]
    BY <1>3 DEF ToolCall, EndSession, Looks, Goes
  <2> DEFINE new == [pc |-> pc, row |-> entry[KeyOf[c]], resumed |-> FALSE]
  <2>2. /\ \A d \in Clients : handler'[d] = IF d = c THEN new ELSE handler[d]
        /\ new.pc # "register" /\ new.row = entry[KeyOf[c]]
    BY <1>0, <2>1
  <2> HIDE DEF new
  <2>3. \A k \in Keys, s \in Rows : Uses(k, s)' <=> Uses(k, s) \/ (k = KeyOf[c] /\ s = new.row)
    BY <2>1, <2>2, UsesAfter
  <2>4. \A s \in Rows : s = new.row => Uses(KeyOf[c], s)
    BY <2>2 DEF Uses
  <2>5. \A d \in Sockets : Current(d)' = Current(d)
    BY <1>0, <2>1, <2>2 DEF Current
  <2> QED BY <2>3, <2>4, <2>5
<1>4. ASSUME NEW c \in Clients, Ends(c) PROVE Kept
  <2> DEFINE new == [handler[c] EXCEPT !.pc = "clear"]
  <2>1. /\ \A d \in Clients : handler'[d] = IF d = c THEN new ELSE handler[d]
        /\ UNCHANGED entry /\ handler[c].pc = "end"
    BY <1>0, <1>4 DEF Ends
  <2>2. new.pc = "clear" /\ new.row = handler[c].row
    BY <1>0 DEF Handler
  <2> HIDE DEF new
  <2>3. \A k \in Keys, s \in Rows : Uses(k, s)' => Uses(k, s)
    BY <2>1, <2>2, UsesAfter
  <2>4. \A d \in Sockets : Current(d)' = Current(d)
    BY <1>0, <2>1, <2>2 DEF Current
  <2> QED BY <2>3, <2>4
<1>5. ASSUME NEW c \in Clients, Clears(c) \/ Disconnect(c) PROVE Kept
  <2>1. /\ \A k \in Keys : entry'[k] = IF k = KeyOf[c] THEN NoRow ELSE entry[k]
        /\ \A d \in Clients : handler'[d] = IF d = c THEN AtRest ELSE handler[d]
        /\ handler[c].pc # "register"
    <3>1. CASE Clears(c)
      BY <1>0, <3>1 DEF Clears
    <3>2. CASE Disconnect(c)
      <4>1. handler[c] = AtRest
        BY <3>2 DEF Disconnect, TypeOK
      <4> QED BY <1>0, <3>2, <4>1 DEF Disconnect
    <3> QED BY <1>5, <3>1, <3>2
  <2> DEFINE cleared == {KeyOf[c]}  dropped == {c}
  <2>2. /\ \A k \in Keys : entry'[k] = IF k \in cleared THEN NoRow ELSE entry[k]
        /\ \A d \in Clients : handler'[d] = IF d \in dropped THEN AtRest ELSE handler[d]
    BY <2>1
  <2> HIDE DEF cleared, dropped
  <2>3. \A k \in Keys, s \in Rows : Uses(k, s)' => Uses(k, s)
    BY <2>2, UsesCleared
  <2>4. \A d \in Sockets : Current(d)' \in {Current(d), NoRow}
    BY <1>0, <2>1 DEF Current
  <2> QED BY <2>3, <2>4
<1>6. CASE DaemonRestart
  <2>1. /\ \A k \in Keys : entry'[k] = IF k \in Keys THEN NoRow ELSE entry[k]
        /\ \A d \in Clients : handler'[d] = IF d \in Clients THEN AtRest ELSE handler[d]
    BY <1>6 DEF DaemonRestart
  <2>2. \A k \in Keys, s \in Rows : Uses(k, s)' => Uses(k, s)
    BY <2>1, UsesCleared
  <2>3. \A d \in Sockets : Current(d)' = NoRow
    BY <1>0, <2>1 DEF Current
  <2> QED BY <2>2, <2>3
<1>7. CASE UNCHANGED <<entry, handler>>
  BY <1>7 DEF Uses, Current
<1> QED
  BY <1>1, <1>2, <1>3, <1>4, <1>5, <1>6, <1>7 DEF Other, PruneOldSessions, Tick, vars

\* They leave rows on their connections, make none younger and open none, and forget
\* no key that uses a row it had left idle.
LEMMA OtherKeepRows ==
  ASSUME TypeOK, Other
  PROVE  /\ \A s \in Rows :
              /\ \/ /\ session'[s].agent = session[s].agent
                    /\ session'[s].conn = session[s].conn
                    /\ session'[s].age >= session[s].age
                 \/ session'[s] = Gone
              /\ Unclosed(s)' => Unclosed(s)
              /\ session[s].state = "gone" => session'[s].state = "gone"
              /\ s \in taken => s \in taken' \/ session'[s] = Gone
         /\ taken' \subseteq taken
         /\ \A k \in Keys, s \in Rows :
              /\ Uses(k, s)'
              /\ \/ <<k, s>> \in quiet
                 \/ session'[s].age > Reconnect /\ session'[s].age # session[s].age
              => <<k, s>> \in quiet'
<1> DEFINE Kept ==
         /\ \A s \in Rows :
              /\ \/ /\ session'[s].agent = session[s].agent
                    /\ session'[s].conn = session[s].conn
                    /\ session'[s].age >= session[s].age
                 \/ session'[s] = Gone
              /\ Unclosed(s)' => Unclosed(s)
              /\ session[s].state = "gone" => session'[s].state = "gone"
              /\ s \in taken => s \in taken' \/ session'[s] = Gone
         /\ taken' \subseteq taken
         /\ \A k \in Keys, s \in Rows :
              /\ Uses(k, s)'
              /\ \/ <<k, s>> \in quiet
                 \/ session'[s].age > Reconnect /\ session'[s].age # session[s].age
              => <<k, s>> \in quiet'
<1> USE SessionsAssumption
<1>0. /\ session \in [Rows -> Session]
      /\ \A s \in Rows : session[s] \in Session /\ session[s].age \in Int
  BY DEF TypeOK, Session, Ages
<1>1. Forgets \/ UNCHANGED quiet =>
         \A k \in Keys, s \in Rows : Uses(k, s)' /\ <<k, s>> \in quiet => <<k, s>> \in quiet'
  BY DEF Forgets
\* The statements set the state of rows, at most.
<1>states. ASSUME UNCHANGED taken, Forgets \/ UNCHANGED quiet,
                  \A s \in Rows :
                     \/ session'[s] = session[s]
                     \/ \E st \in States : /\ session'[s] = [session[s] EXCEPT !.state = st]
                                           /\ st \in {"hibernated"} => session[s].state = "active"
                                           /\ st \in {"hibernated", "closed"}
                                           /\ session[s].state # "gone"
           PROVE  Kept
  <2>1. \A s \in Rows : /\ session'[s].agent = session[s].agent
                        /\ session'[s].conn = session[s].conn
                        /\ session'[s].age = session[s].age
                        /\ Unclosed(s)' => Unclosed(s)
                        /\ session[s].state = "gone" => session'[s].state = "gone"
    <3> SUFFICES ASSUME NEW s \in Rows
                 PROVE  /\ session'[s].agent = session[s].agent
                        /\ session'[s].conn = session[s].conn
                        /\ session'[s].age = session[s].age
                        /\ Unclosed(s)' => Unclosed(s)
                        /\ session[s].state = "gone" => session'[s].state = "gone"
      OBVIOUS
    <3>1. CASE session'[s] = session[s]
      BY <3>1 DEF Unclosed
    <3>2. ASSUME NEW st \in {"hibernated", "closed"},
                 session'[s] = [session[s] EXCEPT !.state = st],
                 st = "hibernated" => session[s].state = "active",
                 session[s].state # "gone"
          PROVE  /\ session'[s].agent = session[s].agent
                 /\ session'[s].conn = session[s].conn
                 /\ session'[s].age = session[s].age
                 /\ Unclosed(s)' => Unclosed(s)
                 /\ session[s].state = "gone" => session'[s].state = "gone"
      BY <1>0, <3>2 DEF Unclosed, Session
    <3> QED BY <1>states, <3>1, <3>2
  <2> QED BY <1>0, <1>1, <1>states, <2>1
<1>2. ASSUME NEW c \in Clients, FindsStale(c) PROVE Kept
  <2>1. UNCHANGED taken /\ Forgets
    BY <1>2 DEF FindsStale
  <2>2. \A s \in Rows : \/ session'[s] = session[s]
                        \/ /\ session[s].state = "active"
                           /\ session'[s] = [session[s] EXCEPT !.state = "hibernated"]
    BY <1>2 DEF FindsStale
  <2> QED BY <1>states, <2>1, <2>2 DEF States
<1>3. ASSUME NEW c \in Clients, Ends(c) PROVE Kept
  <2>1. UNCHANGED <<taken, quiet>>
    BY <1>3 DEF Ends
  <2>2. \A s \in Rows : \/ session'[s] = session[s]
                        \/ /\ session[s].state # "gone"
                           /\ session'[s] = [session[s] EXCEPT !.state = "closed"]
    BY <1>0, <1>3 DEF Ends
  <2> QED BY <1>states, <2>1, <2>2 DEF States
<1>4. CASE /\ UNCHANGED <<session, taken>>
           /\ Forgets \/ UNCHANGED quiet
  <2>1. \A s \in Rows : session'[s] = session[s]
    BY <1>4
  <2> QED BY <1>4, <1>states, <2>1
<1>5. CASE PruneOldSessions
  <2> DEFINE old == {s \in Rows : /\ session[s].state \in {"closed", "hibernated"}
                                  /\ session[s].age > Retention}
  <2>1. /\ \A s \in Rows : session'[s] = IF s \in old THEN Gone ELSE session[s]
        /\ taken' = taken \ old /\ UNCHANGED quiet
    BY <1>5 DEF PruneOldSessions
  <2> HIDE DEF old
  <2>2. \A s \in Rows : \/ session'[s] = Gone
                        \/ session'[s] = session[s] /\ s \notin old
    BY <2>1
  <2>3. Gone.state = "gone" /\ Gone.age = 0
    BY DEF Gone
  <2> QED BY <1>0, <2>1, <2>2, <2>3 DEF Unclosed
<1>6. CASE Tick
  <2> DEFINE older == [s \in Rows |->
                         IF session[s].state = "gone" \/ session[s].age >= Oldest THEN session[s]
                         ELSE [session[s] EXCEPT !.age = @ + 1]]
  <2>1. /\ session' = older /\ UNCHANGED <<entry, handler, taken>>
        /\ quiet' = quiet \cup {p \in Keys \X Rows :
                                   Uses(p[1], p[2]) /\ older[p[2]].age > Reconnect}
    BY <1>6 DEF Tick
  <2>2. \A s \in Rows : /\ session'[s].agent = session[s].agent
                        /\ session'[s].conn = session[s].conn
                        /\ session'[s].state = session[s].state
                        /\ session'[s].age >= session[s].age
    BY <1>0, <2>1 DEF Session
  <2> HIDE DEF older
  <2>3. \A k \in Keys, s \in Rows : Uses(k, s)' <=> Uses(k, s)
    BY <2>1 DEF Uses
  <2>4. \A k \in Keys, s \in Rows :
           Uses(k, s) /\ session'[s].age > Reconnect => <<k, s>> \in quiet'
    BY <2>1
  <2> QED BY <2>1, <2>2, <2>3, <2>4 DEF Unclosed
<1>7. ASSUME NEW c \in Clients, Registers(c) \/ Clears(c) \/ Disconnect(c)
      PROVE  UNCHANGED <<session, taken>> /\ Forgets
  BY <1>7 DEF Registers, Clears, Disconnect
<1>8. ASSUME NEW c \in Clients, ToolCall(c) \/ EndSession(c)
      PROVE  UNCHANGED <<session, taken, quiet>>
  BY <1>8 DEF ToolCall, EndSession, Looks
<1>9. DaemonRestart => UNCHANGED <<session, taken>> /\ Forgets
  BY DEF DaemonRestart
<1>10. UNCHANGED vars => UNCHANGED <<session, taken, quiet>>
  BY DEF vars
<1> QED BY <1>2, <1>3, <1>4, <1>5, <1>6, <1>7, <1>8, <1>9, <1>10 DEF Other

\* What a touch does: its row, if it is open, is seen now.
LEMMA TouchEffects ==
  ASSUME TypeOK, NEW c \in Clients, Touches(c)
  PROVE  /\ handler[c].row \in Rows /\ Uses(KeyOf[c], handler[c].row)
         /\ \A k \in Keys, s \in Rows : Uses(k, s)' => Uses(k, s)
         /\ \A d \in Clients : Current(d)' = Current(d)
         /\ UNCHANGED taken
         /\ \A s \in Rows : /\ session'[s].agent = session[s].agent
                            /\ session'[s].conn = session[s].conn
                            /\ session'[s].age \in {0, session[s].age}
                            /\ Unclosed(s)' => Unclosed(s)
                            /\ session[s].state = "gone" <=> session'[s].state = "gone"
                            /\ session'[s].state \in {session[s].state, "active"}
         /\ \A s \in Rows : s # handler[c].row => session'[s] = session[s]
         /\ \A k \in Keys, s \in Rows :
              Uses(k, s)' /\ <<k, s>> \in quiet => <<k, s>> \in quiet'
<1> USE SessionsAssumption
<1> DEFINE t == handler[c].row
<1>1. /\ session \in [Rows -> Session] /\ handler \in [Clients -> Handler]
      /\ handler[c].pc = "touch" /\ t \in Rows
      /\ \A d \in Clients : handler'[d] = IF d = c THEN AtRest ELSE handler[d]
      /\ AtRest.pc = "idle" /\ AtRest.row = NoRow
      /\ UNCHANGED <<entry, taken>> /\ Forgets
  BY DEF Touches, TypeOK, AtRest
<1>2. Uses(KeyOf[c], t)
  BY DEF Uses
<1>3. \A k \in Keys, s \in Rows : Uses(k, s)' => Uses(k, s)
  BY <1>1, UsesAfter
<1>4. \A d \in Clients : Current(d)' = Current(d)
  BY <1>1 DEF Current
<1>5. \A s \in Rows : s # t => session'[s] = session[s]
  BY <1>1 DEF Touches
<1>6. \/ session'[t] = session[t]
      \/ Unclosed(t) /\ session'[t] = [session[t] EXCEPT !.age = 0, !.state = "active"]
  BY <1>1 DEF Touches
<1>7. \A s \in Rows : /\ session'[s].agent = session[s].agent
                      /\ session'[s].conn = session[s].conn
                      /\ session'[s].age \in {0, session[s].age}
                      /\ Unclosed(s)' => Unclosed(s)
                      /\ session[s].state = "gone" <=> session'[s].state = "gone"
                      /\ session'[s].state \in {session[s].state, "active"}
  <2> SUFFICES ASSUME NEW s \in Rows
               PROVE  /\ session'[s].agent = session[s].agent
                      /\ session'[s].conn = session[s].conn
                      /\ session'[s].age \in {0, session[s].age}
                      /\ Unclosed(s)' => Unclosed(s)
                      /\ session[s].state = "gone" <=> session'[s].state = "gone"
                      /\ session'[s].state \in {session[s].state, "active"}
    OBVIOUS
  <2> HIDE DEF t
  <2>1. CASE session'[s] = session[s]
    BY <2>1 DEF Unclosed
  <2>2. CASE Unclosed(s) /\ session'[s] = [session[s] EXCEPT !.age = 0, !.state = "active"]
    BY <1>1, <2>2 DEF Unclosed, Session
  <2> QED BY <1>5, <1>6, <2>1, <2>2
<1>8. \A k \in Keys, s \in Rows : Uses(k, s)' /\ <<k, s>> \in quiet => <<k, s>> \in quiet'
  BY <1>1 DEF Forgets
<1> QED BY <1>1, <1>2, <1>3, <1>4, <1>5, <1>7, <1>8

-----------------------------------------------------------------------------
\* For any clients, agents and windows: of two keys that have the same session, one had
\* left it idle for longer than the reconnect window when the other got it, or has
\* since (sessions.go:171-201, 203-267).
THEOREM SharingNeedsIdleness == Spec => []SharedOnlyAfterIdling
<1> USE SessionsAssumption
<1>1. Init => IdleIsQuiet /\ MovedIsQuiet
  BY DEF Init, IdleIsQuiet, MovedIsQuiet, Uses, Gone, AtRest
<1>2. /\ TypeOK /\ TypeOK' /\ HeldIsRegistered
      /\ IdleIsQuiet /\ MovedIsQuiet
      /\ [Next]_vars
      => (IdleIsQuiet /\ MovedIsQuiet)'
  <2> SUFFICES ASSUME TypeOK, TypeOK', HeldIsRegistered, IdleIsQuiet, MovedIsQuiet, [Next]_vars,
                      NEW k \in Keys, NEW s \in Rows, Uses(k, s)',
                      \/ session'[s].age > Reconnect
                      \/ session'[s].state # "gone" /\ session'[s].conn # k
               PROVE  <<k, s>> \in quiet'
    BY DEF IdleIsQuiet, MovedIsQuiet
  <2>0. session \in [Rows -> Session] /\ session[s].age \in Int
    BY DEF TypeOK, Session, Ages
  <2>1. ASSUME NEW c \in Clients, NEW a \in Agents, NEW t \in Rows, GetOrResumeSession(c, a, t)
        PROVE  <<k, s>> \in quiet'
    <3>1. quiet' = quiet /\ KeyOf[c] \in Keys
      BY <2>1 DEF GetOrResumeSession
    <3>2. /\ Uses(k, s) \/ (k = KeyOf[c] /\ s = t)
          /\ session'[t].conn = KeyOf[c] /\ session'[t].age = 0
          /\ \A r \in Rows \ {t} : /\ session'[r].conn = session[r].conn
                                   /\ session'[r].age = session[r].age
                                   /\ session[r].state = "gone" <=> session'[r].state = "gone"
          /\ \/ t \in Resumable(KeyOf[c], a)
             \/ t \in Hibernated(a)
             \/ Users(t) = {}
      BY <2>1, ResumeEffects
    <3>3. CASE s # t
      BY <3>1, <3>2, <3>3 DEF IdleIsQuiet, MovedIsQuiet
    <3>4. CASE s = t
      <4>1. k # KeyOf[c] /\ Uses(k, t)
        BY <3>2, <3>4
      <4>2. \/ session[t].conn = KeyOf[c] /\ session[t].state # "gone"
            \/ session[t].age > Reconnect
        BY <3>2, <4>1 DEF Resumable, Unclosed, Hibernated, Idle, Users
      <4> QED BY <3>1, <3>4, <4>1, <4>2 DEF IdleIsQuiet, MovedIsQuiet
    <3> QED BY <3>3, <3>4
  <2>2. ASSUME NEW c \in Clients, Touches(c) PROVE <<k, s>> \in quiet'
    <3>1. /\ Uses(k, s) /\ session'[s].conn = session[s].conn
          /\ session'[s].age \in {0, session[s].age}
          /\ session[s].state = "gone" <=> session'[s].state = "gone"
          /\ <<k, s>> \in quiet => <<k, s>> \in quiet'
      BY <2>2, TouchEffects
    <3> QED BY <3>1 DEF IdleIsQuiet, MovedIsQuiet
  <2>3. ASSUME Other PROVE <<k, s>> \in quiet'
    <3>1. Uses(k, s)
      BY <2>3, OtherKeepUses
    <3>2. /\ \/ session'[s].conn = session[s].conn
             \/ session'[s] = Gone
          /\ session[s].state = "gone" => session'[s].state = "gone"
          /\ \/ <<k, s>> \in quiet
             \/ session'[s].age > Reconnect /\ session'[s].age # session[s].age
             => <<k, s>> \in quiet'
      BY <2>3, OtherKeepRows
    <3>3. Gone.state = "gone" /\ Gone.age = 0
      BY DEF Gone
    <3> QED BY <3>1, <3>2, <3>3 DEF IdleIsQuiet, MovedIsQuiet
  <2> QED BY <2>1, <2>2, <2>3 DEF Next, Other
<1>3. MovedIsQuiet => SharedOnlyAfterIdling
  BY DEF MovedIsQuiet, SharedOnlyAfterIdling, Users
<1> QED BY <1>1, <1>2, <1>3, TypeCorrect, PTL DEF Spec

\* For any clients, agents and windows: a connection of the socket has one live session
\* per agent, sessions taken over while in use excepted (sessions.go:148-152).
THEOREM OneLiveSessionEver == Spec => []OneLiveSession
<1> DEFINE Rivals == MovedIsTaken /\ CurrentIsOnly /\ OneLiveSession
<1> USE SessionsAssumption
<1>1. Init => Rivals
  BY DEF Init, MovedIsTaken, CurrentIsOnly, OneLiveSession, Uses, Unclosed, Gone, AtRest
<1>2. TypeOK /\ TypeOK' /\ HeldIsRegistered /\ Rivals /\ [Next]_vars => Rivals'
  <2> SUFFICES ASSUME TypeOK, TypeOK', HeldIsRegistered, Rivals, [Next]_vars PROVE Rivals'
    OBVIOUS
  <2>0. /\ session \in [Rows -> Session]
        /\ \A s \in Rows : session[s].age \in Int
        /\ \A c \in Clients : KeyOf[c] \in Keys
        /\ \A d \in Sockets : d \in Clients /\ KeyOf[d] # Stdio
        /\ \A d \in Sockets, c \in Clients : KeyOf[d] = KeyOf[c] => d = c
    BY DEF TypeOK, Session, Ages, Sockets
  <2>1. ASSUME NEW c \in Clients, NEW a \in Agents, NEW t \in Rows, GetOrResumeSession(c, a, t)
        PROVE  Rivals'
    <3> DEFINE k == KeyOf[c]
    <3>1. /\ \A l \in Keys, s \in Rows : Uses(l, s)' <=> Uses(l, s) \/ (l = k /\ s = t)
          /\ \A d \in Clients : Current(d)' = IF d = c THEN t ELSE Current(d)
          /\ session'[t].agent = a /\ session'[t].conn = k
          /\ \A s \in Rows \ {t} : /\ session'[s].agent = session[s].agent
                                   /\ session'[s].conn = session[s].conn
                                   /\ session'[s].age = session[s].age
                                   /\ Unclosed(s)' => Unclosed(s)
                                   /\ session[s].state = "gone" <=> session'[s].state = "gone"
          /\ \/ t \in Resumable(k, a) /\ taken' = taken
             \/ /\ Resumable(k, a) = {}
                /\ taken' = IF Users(t) \subseteq {k} THEN taken ELSE taken \cup {t}
             \/ /\ Users(t) = {} /\ Resumable(k, a) = {}
                /\ taken' = taken \ {t}
      BY <2>1, ResumeEffects
    <3>2. /\ \A s \in Rows \ {t} : s \in taken <=> s \in taken'
          /\ \A s \in Rows \ {t} : Recent(s)' <=> Recent(s)
      BY <3>1 DEF Recent
    <3> HIDE DEF k
    <3>3. MovedIsTaken'
      <4> SUFFICES ASSUME NEW l \in Keys, NEW s \in Rows, Uses(l, s)',
                          session'[s].state # "gone", session'[s].conn # l
                   PROVE  s \in taken'
        BY DEF MovedIsTaken
      <4>1. CASE s # t
        BY <3>1, <3>2, <4>1 DEF MovedIsTaken
      <4>2. CASE s = t
        <5>1. l # k /\ Uses(l, t) /\ l \in Users(t)
          BY <3>1, <4>2 DEF Users
        <5>2. CASE t \in Resumable(k, a) /\ taken' = taken
          BY <4>2, <5>1, <5>2 DEF MovedIsTaken, Resumable, Unclosed
        <5> QED BY <3>1, <4>2, <5>1, <5>2
      <4> QED BY <4>1, <4>2
    <3>4. ASSUME k # Stdio
          PROVE  \A r \in Rows \ taken' : /\ session'[r].agent = a /\ session'[r].conn = k
                                          /\ Unclosed(r)' /\ Recent(r)'
                                          => r = t \/ t \in taken'
      <4> SUFFICES ASSUME NEW r \in Rows \ taken', r # t,
                          session'[r].agent = a, session'[r].conn = k,
                          Unclosed(r)', Recent(r)'
                   PROVE  t \in taken'
        OBVIOUS
      <4>1. r \in Resumable(k, a) /\ r \notin taken
        BY <3>1, <3>2 DEF Resumable
      <4>2. t \in Resumable(k, a) /\ taken' = taken
        BY <3>1, <4>1
      <4> QED BY <3>4, <4>1, <4>2 DEF OneLiveSession, Resumable
    <3>5. CurrentIsOnly'
      <4> SUFFICES ASSUME NEW d \in Sockets, NEW s \in Rows \ taken', NEW r \in Rows \ taken',
                          Current(d)' = s, session'[s].conn = KeyOf[d], session'[r].conn = KeyOf[d],
                          session'[s].agent = session'[r].agent,
                          Unclosed(s)', Unclosed(r)', Recent(r)'
                   PROVE  s = r
        BY DEF CurrentIsOnly
      <4>1. CASE d = c
        <5>1. k # Stdio /\ KeyOf[d] = k /\ s = t
          BY <2>0, <3>1, <4>1 DEF k
        <5> QED BY <3>1, <3>4, <5>1
      <4>2. CASE d # c
        <5>1. KeyOf[d] # k
          BY <2>0, <4>2 DEF k
        <5>2. Current(d) = s /\ s # t /\ r # t
          BY <2>0, <3>1, <4>2, <5>1
        <5> QED BY <3>1, <3>2, <5>2 DEF CurrentIsOnly
      <4> QED BY <4>1, <4>2
    <3>6. OneLiveSession'
      <4> SUFFICES ASSUME NEW s \in Rows \ taken', NEW r \in Rows \ taken',
                          Unclosed(s)', Unclosed(r)', Recent(s)', Recent(r)',
                          session'[s].agent = session'[r].agent,
                          session'[s].conn = session'[r].conn,
                          session'[s].conn # Stdio
                   PROVE  s = r
        BY DEF OneLiveSession
      <4>1. CASE s # t /\ r # t
        BY <3>1, <3>2, <4>1 DEF OneLiveSession
      <4>2. CASE s = t \/ r = t
        BY <3>1, <3>4, <4>2
      <4> QED BY <4>1, <4>2
    <3> QED BY <3>3, <3>5, <3>6
  <2>2. ASSUME NEW c \in Clients, Touches(c) PROVE Rivals'
    <3> DEFINE t == handler[c].row
    <3>1. /\ t \in Rows /\ Uses(KeyOf[c], t)
          /\ \A k \in Keys, s \in Rows : Uses(k, s)' => Uses(k, s)
          /\ \A d \in Clients : Current(d)' = Current(d)
          /\ UNCHANGED taken
          /\ \A s \in Rows : /\ session'[s].agent = session[s].agent
                             /\ session'[s].conn = session[s].conn
                             /\ Unclosed(s)' => Unclosed(s)
                             /\ session[s].state = "gone" <=> session'[s].state = "gone"
          /\ \A s \in Rows : s # t => session'[s] = session[s]
      BY <2>2, TouchEffects
    <3>2. c \in Sockets => Current(c) = t
      BY <2>2 DEF Touches, HeldIsRegistered, Current
    <3> HIDE DEF t
    <3>3. \A s \in Rows : s # t /\ Recent(s)' => Recent(s)
      BY <3>1 DEF Recent
    <3>4. Unclosed(t) => session[t].conn = KeyOf[c] \/ t \in taken
      BY <2>0, <3>1 DEF MovedIsTaken, Unclosed
    <3>5. MovedIsTaken'
      BY <3>1 DEF MovedIsTaken
    \* The touched row is the session its connection goes on with.
    <3>6. ASSUME t \notin taken, Unclosed(t), session[t].conn # Stdio
          PROVE  c \in Sockets /\ session[t].conn = KeyOf[c] /\ Current(c) = t
      BY <3>2, <3>4, <3>6 DEF Sockets
    <3>7. CurrentIsOnly'
      <4> SUFFICES ASSUME NEW d \in Sockets, NEW s \in Rows \ taken, NEW r \in Rows \ taken,
                          Current(d) = s, session[s].conn = KeyOf[d], session[r].conn = KeyOf[d],
                          session[s].agent = session[r].agent,
                          Unclosed(s), Unclosed(r), Recent(r)'
                   PROVE  s = r
        BY <2>0, <3>1 DEF CurrentIsOnly
      <4>1. CASE r = t
        <5>1. c \in Sockets /\ KeyOf[d] = KeyOf[c] /\ Current(c) = t
          BY <2>0, <3>6, <4>1
        <5>2. d = c
          BY <2>0, <5>1
        <5> QED BY <4>1, <5>1, <5>2
      <4>2. CASE r # t
        BY <3>3, <4>2 DEF CurrentIsOnly
      <4> QED BY <4>1, <4>2
    <3>8. OneLiveSession'
      <4> SUFFICES ASSUME NEW s \in Rows \ taken, NEW r \in Rows \ taken,
                          Unclosed(s), Unclosed(r), Recent(s)', Recent(r)',
                          session[s].agent = session[r].agent,
                          session[s].conn = session[r].conn,
                          session[s].conn # Stdio
                   PROVE  s = r
        BY <3>1 DEF OneLiveSession
      <4>1. CASE s # t /\ r # t
        BY <3>3, <4>1 DEF OneLiveSession
      <4>2. CASE s = t /\ r # t
        BY <3>3, <3>6, <4>2 DEF CurrentIsOnly
      <4>3. CASE s # t /\ r = t
        BY <3>3, <3>6, <4>3 DEF CurrentIsOnly
      <4> QED BY <4>1, <4>2, <4>3
    <3> QED BY <3>5, <3>7, <3>8
  <2>3. ASSUME Other PROVE Rivals'
    <3>1. /\ \A k \in Keys, s \in Rows : Uses(k, s)' => Uses(k, s)
          /\ \A d \in Sockets : Current(d)' \in {Current(d), NoRow}
      BY <2>3, OtherKeepUses
    <3>2. /\ \A s \in Rows :
               /\ \/ /\ session'[s].agent = session[s].agent
                     /\ session'[s].conn = session[s].conn
                     /\ session'[s].age >= session[s].age
                  \/ session'[s] = Gone
               /\ Unclosed(s)' => Unclosed(s)
               /\ session[s].state = "gone" => session'[s].state = "gone"
               /\ s \in taken => s \in taken' \/ session'[s] = Gone
          /\ taken' \subseteq taken
      BY <2>3, OtherKeepRows
    <3>3. Gone.state = "gone"
      BY DEF Gone
    <3>4. \A s \in Rows : Unclosed(s)' \/ session'[s].state # "gone" =>
             /\ session'[s].agent = session[s].agent
             /\ session'[s].conn = session[s].conn
             /\ session'[s].age >= session[s].age
             /\ s \in taken' <=> s \in taken
      BY <3>2, <3>3 DEF Unclosed
    <3>5. \A s \in Rows : Unclosed(s)' /\ Recent(s)' => Recent(s)
      <4> SUFFICES ASSUME NEW s \in Rows, session'[s].age >= session[s].age,
                          session'[s].age < Reconnect
                   PROVE  session[s].age < Reconnect
        BY <3>4 DEF Recent
      <4>1. session'[s].age \in Int
        BY DEF TypeOK, Session, Ages
      <4> QED BY <2>0, <4>1
    <3>6. MovedIsTaken'
      BY <3>1, <3>2, <3>4 DEF MovedIsTaken
    <3>7. CurrentIsOnly'
      BY <3>1, <3>2, <3>4, <3>5 DEF CurrentIsOnly
    <3>8. OneLiveSession'
      BY <3>2, <3>4, <3>5 DEF OneLiveSession
    <3> QED BY <3>6, <3>7, <3>8
  <2> QED BY <2>1, <2>2, <2>3 DEF Next, Other
<1> QED BY <1>1, <1>2, TypeCorrect, PTL DEF Spec

\* For any clients, agents, windows and thresholds: whatever was seen within all of them
\* keeps its connection and stays open, unless an end_session of its own key ends it
\* (sessions.go:214-221, 269-291, 349-372, 574-614).
THEOREM LiveSessionsKeptEver == Spec => LiveSessionsKept
<1> USE SessionsAssumption
<1> DEFINE Kept(s) ==
      \/ session'[s].conn = session[s].conn /\ session'[s].state \in {session[s].state, "active"}
      \/ \E c \in Clients : /\ handler[c].pc = "end" /\ handler[c].row = s
                            /\ handler'[c].pc = "clear"
<1>1. TypeOK /\ [Next]_vars =>
        [\A s \in Rows :
            Live(s) =>
                \/ /\ session'[s].conn = session[s].conn
                   /\ session'[s].state \in {session[s].state, "active"}
                \/ \E c \in Clients : /\ handler[c].pc = "end" /\ handler[c].row = s
                                      /\ handler'[c].pc = "clear"]_vars
  <2> SUFFICES ASSUME TypeOK, [Next]_vars, NEW s \in Rows, Live(s)
               PROVE  Kept(s)
    OBVIOUS
  <2>0. /\ session \in [Rows -> Session] /\ session[s] \in Session /\ session[s].age \in Int
        /\ Unclosed(s) /\ Recent(s)
    BY DEF TypeOK, Session, Ages, Live
  <2>1. ASSUME NEW c \in Clients, NEW a \in Agents, NEW t \in Rows, GetOrResumeSession(c, a, t)
        PROVE  Kept(s)
    <3>1. /\ session'[t].conn = KeyOf[c] /\ session'[t].state = "active"
          /\ \A r \in Rows \ {t} : Unclosed(r) /\ Recent(r) => session'[r] = session[r]
          /\ \/ t \in Resumable(KeyOf[c], a)
             \/ t \in Hibernated(a)
             \/ session[t].state = "gone"
      BY <2>1, ResumeEffects
    <3>2. CASE s # t
      BY <2>0, <3>1, <3>2
    <3>3. CASE s = t
      <4>1. session[t].conn = KeyOf[c]
        BY <2>0, <3>1, <3>3 DEF Resumable, Hibernated, Idle, Recent, Unclosed
      <4> QED BY <3>1, <3>3, <4>1
    <3> QED BY <3>2, <3>3
  <2>2. ASSUME NEW c \in Clients, FindsStale(c) PROVE Kept(s)
    <3>1. session'[s] = session[s]
      BY <2>0, <2>2 DEF FindsStale, Live
    <3> QED BY <3>1
  <2>3. ASSUME NEW c \in Clients, Touches(c) PROVE Kept(s)
    BY <2>3, TouchEffects
  <2>4. ASSUME NEW c \in Clients, Ends(c) PROVE Kept(s)
    <3>1. CASE handler[c].row = s
      <4>1. handler[c].pc = "end" /\ handler'[c].pc = "clear"
        <5>1. handler \in [Clients -> Handler] /\ handler[c] \in Handler
          BY DEF TypeOK
        <5> QED BY <2>4, <5>1 DEF Ends, Handler
      <4> QED BY <3>1, <4>1
    <3>2. CASE handler[c].row # s
      BY <2>0, <2>4, <3>2 DEF Ends
    <3> QED BY <3>1, <3>2
  <2>5. CASE PruneOldSessions
    <3>1. session'[s] = session[s]
      BY <2>0, <2>5 DEF PruneOldSessions, Live
    <3> QED BY <3>1
  <2>6. CASE Tick
    <3>1. session'[s] = session[s] \/ session'[s] = [session[s] EXCEPT !.age = @ + 1]
      BY <2>6 DEF Tick
    <3> QED BY <2>0, <3>1 DEF Session
  <2>7. ASSUME \/ \E c \in Clients : \/ Registers(c) \/ ToolCall(c) \/ EndSession(c)
                                     \/ Clears(c) \/ Disconnect(c)
               \/ DaemonRestart
               \/ UNCHANGED vars
        PROVE  Kept(s)
    <3>1. session' = session
      BY <2>7 DEF Registers, ToolCall, EndSession, Looks, Clears, Disconnect, DaemonRestart, vars
    <3> QED BY <3>1
  <2> QED BY <2>1, <2>2, <2>3, <2>4, <2>5, <2>6, <2>7 DEF Next
<1> QED BY <1>1, TypeCorrect, PTL DEF Spec, LiveSessionsKept
=============================================================================
