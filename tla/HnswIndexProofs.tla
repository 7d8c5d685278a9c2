----------------------------- MODULE HnswIndexProofs -----------------------------
(***************************************************************************)
(* For any memories, clients, rebuilds, queue length and faults: an        *)
(* installed index finds what it should and nothing that was deleted.      *)
(***************************************************************************)
EXTENDS HnswIndex, WellFoundedInduction, TLAPS

\* A rebuild has one deletion of each memory to reckon with: memories do not come back.
DeletedAreGone ==
  /\ \A i \in told \cup dels : memory[i] = "gone"
  /\ \A c \in Clients : client[c].op \in {"delete", "expire"} =>
        \A i \in client[c].ids : memory[i] = "gone"

\* But for the overlaps, one rebuild is between its critical sections at most, and
\* while it is there it holds the flag and there is no index.
LoneRebuild ==
  ~suspect =>
    /\ rebuilding => index = NoIndex
    /\ \A b \in Builders : Building(b) => rebuilding
    /\ \A b, x \in Builders : Building(b) /\ Building(x) => b = x

Queued(i) == \E n \in DOMAIN adds : adds[n].id = i

\* A deletion made while a queued add or a finished graph holds the memory is queued.
DeletionsQueued ==
  /\ \A i \in told : Queued(i) => i \in dels
  /\ ~suspect => \A b \in Builders : builder[b].pc = "built" =>
        \A i \in told : builder[b].graph[i] # None => i \in dels

Covered(i) == memory[i] = "live" /\ row[i] # None /\ i \notin missed /\ ~Owing(i)

\* What a finished graph misses is queued.
GraphCovers ==
  ~suspect => \A b \in Builders : builder[b].pc = "built" =>
    \A i \in Ids : Covered(i) => builder[b].graph[i] # None \/ Queued(i)

-----------------------------------------------------------------------------
\* A queue that has adds of a memory has a last one.
LEMMA LastExists ==
  ASSUME NEW L \in Nat, NEW mine, mine \subseteq 1..L, mine # {}
  PROVE  \E n \in mine : \A k \in mine : k <= n
<1> DEFINE Back == {L - n : n \in mine}
<1>0. \A n \in mine : L - n \in Back /\ L - n \in Nat
  OBVIOUS
<1>1. Back \subseteq Nat /\ Back # {}
  BY <1>0
<1>2. PICK m \in Back : \A k \in Back : <<k, m>> \notin OpToRel(<, Nat)
  BY <1>1, WFMin, NatLessThanWellFounded, Zenon
<1>3. \A k \in Back : ~(k < m)
  BY <1>1, <1>2, Zenon DEF OpToRel
<1>4. PICK n \in mine : m = L - n
  OBVIOUS
<1>5. \A k \in mine : k <= n
  BY <1>0, <1>3, <1>4
<1> QED BY <1>5

\* What a queue is, and what appending to it does.
LEMMA QueueFacts ==
  ASSUME NEW S
  PROVE  /\ <<>> \in Seq(S) /\ Len(<<>>) = 0
         /\ \A q \in Seq(S) :
              /\ DOMAIN q = 1..Len(q)
              /\ \A n \in 1..Len(q) : q[n] \in S
              /\ \A x \in S : /\ Append(q, x) \in Seq(S)
                              /\ Len(Append(q, x)) = Len(q) + 1
                              /\ \A n \in 1..Len(q) : Append(q, x)[n] = q[n]
                              /\ Append(q, x)[Len(q) + 1] = x
  OBVIOUS

\* The replay of a queue within its cap: the queued deletes are gone, what was queued
\* for a memory or is in the graph is there, and nothing else is, but for the entries
\* whose replay panicked.
LEMMA ReplayIs ==
  ASSUME adds \in Seq(Entry), Len(adds) <= PendingCap, NEW graph \in Graph, NEW lost, NEW kept
  PROVE  /\ Replay(graph, lost, kept) \in Graph
         /\ \A i \in (dels \ kept) \cap Ids : Replay(graph, lost, kept)[i] = None
         /\ \A i \in Ids : Replay(graph, lost, kept)[i] # None => Queued(i) \/ graph[i] # None
         /\ \A i \in Ids \ (dels \cup lost) :
              Queued(i) \/ graph[i] # None => Replay(graph, lost, kept)[i] # None
<1> USE HnswAssumption
<1>1. Replayed = adds
  BY DEF Replayed
<1>2. /\ None \notin Models
      /\ \A n \in 1..Len(adds) : adds[n].vec \in Models
  <2>1. \A n \in 1..Len(adds) : adds[n] \in Entry
    BY QueueFacts
  <2> QED BY <2>1 DEF None, Models, Entry
<1>3. ASSUME NEW i \in Ids
      PROVE  /\ WithAdds(graph)[i] \in Models \cup {None}
             /\ WithAdds(graph)[i] # None <=> Queued(i) \/ graph[i] # None
  <2> DEFINE mine == {n \in DOMAIN adds : adds[n].id = i}
  <2>1. WithAdds(graph)[i] = IF mine = {} THEN graph[i]
                             ELSE adds[CHOOSE n \in mine : \A k \in mine : k <= n].vec
    BY <1>1 DEF WithAdds
  <2>2. CASE mine = {}
    <3>1. WithAdds(graph)[i] = graph[i] /\ ~Queued(i)
      BY <2>1, <2>2 DEF Queued
    <3> QED BY <3>1 DEF Graph
  <2>3. CASE mine # {}
    <3>1. mine \subseteq 1..Len(adds) /\ Len(adds) \in Nat
      OBVIOUS
    <3> DEFINE last == CHOOSE n \in mine : \A k \in mine : k <= n
    <3> HIDE DEF mine
    <3>2. last \in mine
      BY <2>3, <3>1, LastExists
    <3>3. adds[last].vec \in Models
      BY <1>2, <3>1, <3>2
    <3>4. Queued(i)
      BY <2>3 DEF Queued, mine
    <3> QED BY <1>2, <2>1, <2>3, <3>3, <3>4
  <2> QED BY <2>2, <2>3
<1>4. \A i \in Ids : Replay(graph, lost, kept)[i] =
         IF i \in (dels \ kept) \cup lost THEN None ELSE WithAdds(graph)[i]
  BY DEF Replay, Without
<1>5. Replay(graph, lost, kept) \in Graph
  <2>1. \A i \in Ids : (IF i \in dels \ kept THEN None ELSE
                       IF i \in lost THEN None ELSE WithAdds(graph)[i]) \in Models \cup {None}
    BY <1>3
  <2> QED BY <2>1 DEF Replay, Without, Graph
<1> QED BY <1>3, <1>4, <1>5
-----------------------------------------------------------------------------
\* Every reachable state is well typed: the queues keep their bound, and are empty
\* while no rebuild owns the flag.
THEOREM TypeCorrect == Spec => []TypeOK
<1> USE HnswAssumption
<1>0. /\ Empty \in Graph /\ [i \in Ids |-> "old"] \in Graph
      /\ \A g \in Graph : \A s : Without(g, s) \in Graph
  BY DEF Empty, Graph, Models, Without
<1>1. Init => TypeOK
  <2> SUFFICES ASSUME Init PROVE TypeOK
    OBVIOUS
  <2>1. builder \in [Builders -> Builder]
    <3>1. AtRest \in Builder /\ [AtRest EXCEPT !.pc = "called"] \in Builder
      BY <1>0 DEF AtRest, Builder, BuilderPcs
    <3> QED BY <3>1 DEF Init
  <2>2. client \in [Clients -> Owed] /\ faults \in [writes: 0..MaxWrites,
           panics: 0..MaxPanics, restarts: 0..MaxRestarts, migrated: BOOLEAN]
    BY DEF Init, Owed
  <2>3. adds \in Seq(Entry) /\ Len(adds) <= PendingCap /\ adds = <<>>
    BY QueueFacts DEF Init
  <2>4. row \in Graph /\ index \in Graph \cup {NoIndex} /\ file \in Graph \cup {NoIndex}
    BY <1>0 DEF Init
  <2> QED BY <2>1, <2>2, <2>3, <2>4 DEF Init, TypeOK, Models
<1>2. TypeOK /\ [Next]_vars => TypeOK'
  <2> SUFFICES ASSUME TypeOK, [Next]_vars PROVE TypeOK'
    OBVIOUS
  <2> USE DEF db, mem, hist
  <2>0. /\ client \in [Clients -> Owed] /\ builder \in [Builders -> Builder]
        /\ faults \in [writes: 0..MaxWrites, panics: 0..MaxPanics,
                       restarts: 0..MaxRestarts, migrated: BOOLEAN]
        /\ memory \in [Ids -> {"live", "hidden", "gone"}] /\ row \in Graph
        /\ model \in Models /\ index \in Graph \cup {NoIndex}
        /\ [op |-> "nothing"] \in Owed
    BY DEF TypeOK, Owed
  <2>writes. ASSUME Writes
             PROVE  faults' \in [writes: 0..MaxWrites, panics: 0..MaxPanics,
                                 restarts: 0..MaxRestarts, migrated: BOOLEAN]
    BY <2>0, <2>writes DEF Writes
  <2>panics. ASSUME NEW lost, Panics \/ Loses(lost)
             PROVE  faults' \in [writes: 0..MaxWrites, panics: 0..MaxPanics,
                                 restarts: 0..MaxRestarts, migrated: BOOLEAN]
    <3>1. Panics => faults' \in [writes: 0..MaxWrites, panics: 0..MaxPanics,
                                 restarts: 0..MaxRestarts, migrated: BOOLEAN]
      BY <2>0 DEF Panics
    <3> QED BY <2>0, <2>panics, <3>1 DEF Loses
  <2>owes. ASSUME NEW c \in Clients, NEW call \in Owed, Owes(c, call)
           PROVE  client' \in [Clients -> Owed]
    BY <2>0, <2>owes DEF Owes
  <2>paid. ASSUME NEW c \in Clients, Owes(c, [op |-> "nothing"])
           PROVE  client' \in [Clients -> Owed]
    BY <2>0, <2>owes, <2>paid
  <2>deletes. ASSUME NEW doomed, DeleteRows(doomed)
              PROVE  memory' \in [Ids -> {"live", "hidden", "gone"}] /\ row' \in Graph
    <3>1. \A i \in Ids : /\ (IF i \in doomed THEN "gone" ELSE memory[i]) \in {"live", "hidden", "gone"}
                         /\ (IF i \in doomed THEN None ELSE row[i]) \in Models \cup {None}
      BY <2>0 DEF Graph
    <3> QED BY <2>deletes, <3>1 DEF DeleteRows, Graph
  <2>goto. ASSUME NEW b \in Builders, NEW pc \in BuilderPcs, Goto(b, pc)
           PROVE  builder' \in [Builders -> Builder]
    <3>1. [builder[b] EXCEPT !.pc = pc] \in Builder
      BY <2>0 DEF Builder
    <3> QED BY <2>0, <2>goto, <3>1 DEF Goto
  <2>empty. <<>> \in Seq(Entry) /\ Len(<<>>) <= PendingCap
    BY QueueFacts
  <2>rest. AtRest \in Builder /\ [AtRest EXCEPT !.pc = "called"] \in Builder
    BY <1>0 DEF AtRest, Builder, BuilderPcs
  <2>1. ASSUME NEW c \in Clients, NEW i \in Ids, UpsertRow(c, i) PROVE TypeOK'
    <3>1. [op |-> "add", id |-> i, vec |-> model] \in Owed
      BY <2>0 DEF Owed
    <3>2. client' \in [Clients -> Owed]
      BY <2>1, <2>owes, <3>1 DEF UpsertRow
    <3>3. row' \in Graph
      BY <2>0, <2>1 DEF UpsertRow, Graph
    <3> QED BY <2>0, <2>1, <2>writes, <3>2, <3>3 DEF UpsertRow, TypeOK
  <2>2. ASSUME NEW c \in Clients, NEW i \in Ids, DeleteMemoryByID(c, i) PROVE TypeOK'
    <3>1. [op |-> "delete", ids |-> {i}] \in Owed
      BY DEF Owed
    <3>2. client' \in [Clients -> Owed]
      BY <2>2, <2>owes, <3>1 DEF DeleteMemoryByID
    <3> QED BY <2>2, <2>writes, <2>deletes, <3>2 DEF DeleteMemoryByID, TypeOK
  <2>3. ASSUME NEW c \in Clients, NEW doomed \in SUBSET Ids, NEW collected \in SUBSET Ids,
               ExpireMemories(c, doomed, collected)
        PROVE  TypeOK'
    <3>1. [op |-> "expire", ids |-> collected] \in Owed
      BY DEF Owed
    <3>2. client' \in [Clients -> Owed]
      BY <2>3, <2>owes, <3>1 DEF ExpireMemories
    <3> QED BY <2>3, <2>writes, <2>deletes, <3>2 DEF ExpireMemories, TypeOK
  <2>4. ASSUME NEW c \in Clients, HnswAdd(c) PROVE TypeOK'
    <3>1. client[c].id \in Ids /\ client[c].vec \in Models
      BY <2>0, <2>4 DEF HnswAdd, Owed
    <3>2. client' \in [Clients -> Owed]
      BY <2>4, <2>paid DEF HnswAdd
    <3>3. CASE AddQueued(c)
      <4>1. adds' \in Seq(Entry) /\ Len(adds') <= PendingCap
        <5>1. [id |-> client[c].id, vec |-> client[c].vec] \in Entry
          BY <3>1 DEF Entry
        <5>2. adds \in Seq(Entry) /\ Len(adds) <= PendingCap /\ Len(adds) \in Nat
          BY QueueFacts DEF TypeOK
        <5> QED BY <3>3, <5>1, <5>2, QueueFacts DEF AddQueued
      <4>2. missed' \subseteq Ids
        BY <3>1, <3>3 DEF AddQueued, TypeOK
      <4> QED BY <2>4, <3>2, <3>3, <4>1, <4>2 DEF HnswAdd, AddQueued, TypeOK
    <3>4. CASE AddDirect(c)
      <4>1. index' \in Graph \cup {NoIndex}
        BY <2>0, <3>1, <3>4 DEF AddDirect, Graph
      <4> QED BY <2>4, <3>2, <3>4, <4>1 DEF HnswAdd, AddDirect, TypeOK
    <3> QED BY <2>4, <3>3, <3>4 DEF HnswAdd
  <2>5. ASSUME NEW c \in Clients, NEW b \in Builders, HnswAddPanics(c, b) PROVE TypeOK'
    <3>1. client' \in [Clients -> Owed]
      BY <2>5, <2>paid DEF HnswAddPanics
    <3>2. [builder[b] EXCEPT !.pc = "called"] \in Builder
      BY <2>0 DEF Builder, BuilderPcs
    <3>3. builder' \in [Builders -> Builder]
      BY <2>0, <2>5, <3>2 DEF HnswAddPanics
    <3>4. faults' \in [writes: 0..MaxWrites, panics: 0..MaxPanics,
                       restarts: 0..MaxRestarts, migrated: BOOLEAN]
      BY <2>5, <2>panics DEF HnswAddPanics
    <3> QED BY <2>5, <3>1, <3>3, <3>4 DEF HnswAddPanics, TypeOK
  <2>6. ASSUME NEW c \in Clients, HnswDelete(c) PROVE TypeOK'
    <3>1. client[c].ids \subseteq Ids
      BY <2>0, <2>6 DEF HnswDelete, Owed
    <3>2. client' \in [Clients -> Owed]
      BY <2>6, <2>paid DEF HnswDelete
    <3>3. index' \in Graph \cup {NoIndex}
      BY <1>0, <2>0, <2>6 DEF HnswDelete, DeleteFrom
    <3>4. dels' \subseteq Ids /\ (~rebuilding => dels' = {})
      BY <2>6, <3>1 DEF HnswDelete, DeleteFrom, TypeOK
    <3> QED BY <2>6, <3>1, <3>2, <3>3, <3>4 DEF HnswDelete, TypeOK
  <2>7. ASSUME NEW c \in Clients, NEW kept \in SUBSET Ids, HnswDeletePanics(c, kept)
        PROVE  TypeOK'
    <3>1. client[c].ids \subseteq Ids
      BY <2>0, <2>7 DEF HnswDeletePanics, Owed
    <3>2. client' \in [Clients -> Owed]
      BY <2>7, <2>paid DEF HnswDeletePanics
    <3>3. index' \in Graph \cup {NoIndex} /\ dels' = dels
      BY <1>0, <2>0, <2>7 DEF HnswDeletePanics, DeleteFrom
    <3>4. faults' \in [writes: 0..MaxWrites, panics: 0..MaxPanics,
                       restarts: 0..MaxRestarts, migrated: BOOLEAN]
      BY <2>7, <2>panics DEF HnswDeletePanics
    <3> QED BY <2>7, <3>1, <3>2, <3>3, <3>4 DEF HnswDeletePanics, TypeOK
  <2>8. ASSUME NEW i \in Ids, Hide(i) \/ TouchMemory(i) PROVE TypeOK'
    <3>1. memory' \in [Ids -> {"live", "hidden", "gone"}]
      BY <2>0, <2>8 DEF Hide, TouchMemory, Turns
    <3> QED BY <2>8, <2>writes, <3>1 DEF Hide, TouchMemory, Turns, TypeOK
  <2>9. ASSUME NEW i \in Ids, PruneMemories(i) PROVE TypeOK'
    BY <2>9, <2>writes, <2>deletes DEF PruneMemories, TypeOK
  <2>10. ASSUME NEW b \in Builders, Begins(b) PROVE TypeOK'
    <3>1. builder' \in [Builders -> Builder]
      BY <2>10, <2>goto DEF Begins, BuilderPcs
    <3> QED BY <2>10, <3>1 DEF Begins, TypeOK
  <2>11. ASSUME NEW b \in Builders, NEW skipped \in SUBSET Ids, Queries(b, skipped)
         PROVE  TypeOK'
    <3>1. Rows \in Graph
      BY <2>0 DEF Rows, Graph
    <3>2. [pc |-> "built", graph |-> Without(Rows, skipped), again |-> FALSE] \in Builder
      BY <1>0, <3>1 DEF Builder, BuilderPcs
    <3>3. builder' \in [Builders -> Builder]
      BY <2>0, <2>11, <3>2 DEF Queries
    <3>4. faults' \in [writes: 0..MaxWrites, panics: 0..MaxPanics,
                       restarts: 0..MaxRestarts, migrated: BOOLEAN]
      BY <2>11, <2>panics DEF Queries
    <3> QED BY <2>11, <3>3, <3>4 DEF Queries, TypeOK
  <2>12. ASSUME NEW b \in Builders, Fails(b) PROVE TypeOK'
    <3>1. builder' \in [Builders -> Builder]
      BY <2>0, <2>12, <2>rest DEF Fails
    <3> QED BY <2>12, <2>empty, <3>1 DEF Fails, TypeOK
  <2>13. ASSUME NEW b \in Builders, NEW lost \in SUBSET Ids, NEW kept \in SUBSET Ids,
                Installs(b, lost, kept)
         PROVE  TypeOK'
    <3>1. [pc |-> "save", graph |-> Empty, again |-> Len(adds) > PendingCap] \in Builder
      BY <1>0 DEF Builder, BuilderPcs
    <3>2. builder' \in [Builders -> Builder]
      BY <2>0, <2>13, <3>1 DEF Installs
    <3>3. index' \in Graph
      BY <2>0, <2>13, ReplayIs DEF Installs, TypeOK, Builder
    <3>4. faults' \in [writes: 0..MaxWrites, panics: 0..MaxPanics,
                       restarts: 0..MaxRestarts, migrated: BOOLEAN]
      BY <2>13, <2>panics DEF Installs
    <3> QED BY <2>13, <2>empty, <3>2, <3>3, <3>4 DEF Installs, TypeOK
  <2>14. ASSUME NEW b \in Builders, Saves(b) PROVE TypeOK'
    <3>1. builder' \in [Builders -> Builder]
      BY <2>0, <2>14, <2>rest DEF Saves
    <3>2. file' \in Graph \cup {NoIndex}
      BY <2>14 DEF Saves, SavesIndex, TypeOK
    <3> QED BY <2>14, <3>1, <3>2 DEF Saves, TypeOK
  <2>15. ASSUME NEW b \in Builders, Migrates(b) PROVE TypeOK'
    <3>1. builder' \in [Builders -> Builder]
      BY <2>15, <2>goto DEF Migrates, BuilderPcs
    <3>2. faults' \in [writes: 0..MaxWrites, panics: 0..MaxPanics,
                       restarts: 0..MaxRestarts, migrated: BOOLEAN]
      BY <2>0, <2>15 DEF Migrates
    <3> QED BY <2>15, <3>1, <3>2 DEF Migrates, TypeOK
  <2>16. ASSUME NEW b \in Builders, NEW f \in {file, index}, NEW n \in Counts,
                NEW m \in {model, "new"}, Restart(b, f, n, m)
         PROVE  TypeOK'
    <3>1. f \in Graph \cup {NoIndex} /\ m \in Models
      BY <2>0 DEF TypeOK, Models
    <3>2. builder' \in [Builders -> Builder]
      BY <2>16, <2>rest DEF Restart, LoadOrRebuild
    <3>3. client' \in [Clients -> Owed]
      BY <2>0, <2>16 DEF Restart
    <3>4. faults' \in [writes: 0..MaxWrites, panics: 0..MaxPanics,
                       restarts: 0..MaxRestarts, migrated: BOOLEAN]
      <4>1. /\ faults.restarts + 1 \in 0..MaxRestarts
            /\ faults' = [faults EXCEPT !.restarts = @ + 1, !.migrated = FALSE]
        BY <2>0, <2>16 DEF Restart
      <4> QED BY <2>0, <4>1
    <3>5. index' \in Graph \cup {NoIndex} /\ opening' \in BOOLEAN /\ suspect' \in BOOLEAN
      BY <2>16, <3>1 DEF Restart, LoadOrRebuild
    <3> QED BY <2>16, <2>empty, <3>1, <3>2, <3>3, <3>4, <3>5
            DEF Restart, CloseOrCrash, TypeOK
  <2>17. CASE UNCHANGED vars
    BY <2>17 DEF vars, TypeOK
  <2> QED BY <2>1, <2>2, <2>3, <2>4, <2>5, <2>6, <2>7, <2>8, <2>9, <2>10, <2>11, <2>12,
             <2>13, <2>14, <2>15, <2>16, <2>17 DEF Next, ClientStep, BuilderStep
<1> QED BY <1>1, <1>2, PTL DEF Spec
-----------------------------------------------------------------------------
\* What the steps of the clients and of the database leave alone; HnswAddPanics is
\* not among them.
LEMMA ClientEffects ==
  ASSUME TypeOK,
         \/ \E c \in Clients :
              \/ \E i \in Ids : UpsertRow(c, i) \/ DeleteMemoryByID(c, i)
              \/ \E doomed, collected \in SUBSET Ids : ExpireMemories(c, doomed, collected)
              \/ HnswAdd(c) \/ HnswDelete(c)
              \/ \E kept \in SUBSET Ids : HnswDeletePanics(c, kept)
         \/ \E i \in Ids : Hide(i) \/ TouchMemory(i) \/ PruneMemories(i)
         \/ UNCHANGED vars
  PROVE  /\ UNCHANGED <<rebuilding, builder, suspect>>
         /\ \A i \in Ids : memory[i] = "gone" => memory'[i] = "gone"
         /\ rebuilding => index' = index
<1> USE DEF db, mem, hist
<1>0. memory \in [Ids -> {"live", "hidden", "gone"}]
  BY DEF TypeOK
<1>1. ASSUME NEW doomed, DeleteRows(doomed)
      PROVE  \A i \in Ids : memory[i] = "gone" => memory'[i] = "gone"
  BY <1>0, <1>1 DEF DeleteRows
<1>2. CASE \E c \in Clients, i \in Ids : UpsertRow(c, i)
  BY <1>2 DEF UpsertRow
<1>3. CASE \E c \in Clients, i \in Ids : DeleteMemoryByID(c, i)
  BY <1>1, <1>3 DEF DeleteMemoryByID
<1>4. CASE \E c \in Clients : \E doomed, collected \in SUBSET Ids :
              ExpireMemories(c, doomed, collected)
  BY <1>1, <1>4 DEF ExpireMemories
<1>5. CASE \E c \in Clients : HnswAdd(c)
  BY <1>5 DEF HnswAdd, AddQueued, AddDirect
<1>6. CASE \E c \in Clients : HnswDelete(c)
  BY <1>6 DEF HnswDelete, DeleteFrom
<1>7. CASE \E c \in Clients : \E kept \in SUBSET Ids : HnswDeletePanics(c, kept)
  BY <1>7 DEF HnswDeletePanics, DeleteFrom
<1>8. CASE \E i \in Ids : Hide(i) \/ TouchMemory(i)
  BY <1>0, <1>8 DEF Hide, TouchMemory, Turns
<1>9. CASE \E i \in Ids : PruneMemories(i)
  BY <1>1, <1>9 DEF PruneMemories
<1>10. CASE UNCHANGED vars
  BY <1>10 DEF vars
<1> QED BY <1>2, <1>3, <1>4, <1>5, <1>6, <1>7, <1>8, <1>9, <1>10

\* A rebuild that fails or installs goes away; one that reads the rows, is called or
\* saves does not touch the flag or the index.
LEMMA BuilderMoves ==
  ASSUME TypeOK, NEW b \in Builders
  PROVE  /\ \A pc \in BuilderPcs : Goto(b, pc) =>
              \A x \in Builders : /\ builder'[x].pc = IF x = b THEN pc ELSE builder[x].pc
                                  /\ builder'[x].graph = builder[x].graph
         /\ \A skipped : Queries(b, skipped) => \A x \in Builders : builder'[x] =
              IF x = b THEN [pc |-> "built", graph |-> Without(Rows, skipped), again |-> FALSE]
              ELSE builder[x]
         /\ Fails(b) => \A x \in Builders : builder'[x] = IF x = b THEN AtRest ELSE builder[x]
         /\ \A lost, kept : Installs(b, lost, kept) => \A x \in Builders :
              builder'[x].pc = (IF x = b THEN "save" ELSE builder[x].pc)
              /\ (x # b => builder'[x] = builder[x])
         /\ Saves(b) => \A x \in Builders :
              /\ x # b => builder'[x] = builder[x]
              /\ x = b => builder'[x].pc \in {"idle", "called"}
<1>0. builder \in [Builders -> Builder] /\ \A x \in Builders : builder[x] \in Builder
  BY DEF TypeOK
<1>1. ASSUME NEW pc \in BuilderPcs, Goto(b, pc)
      PROVE  \A x \in Builders : /\ builder'[x].pc = IF x = b THEN pc ELSE builder[x].pc
                                 /\ builder'[x].graph = builder[x].graph
  <2>1. \A x \in Builders : builder'[x] = IF x = b THEN [builder[b] EXCEPT !.pc = pc]
                                          ELSE builder[x]
    BY <1>0, <1>1 DEF Goto
  <2>2. /\ [builder[b] EXCEPT !.pc = pc].pc = pc
        /\ [builder[b] EXCEPT !.pc = pc].graph = builder[b].graph
    BY <1>0 DEF Builder
  <2> QED BY <2>1, <2>2
<1>2. \A skipped : Queries(b, skipped) => \A x \in Builders : builder'[x] =
         IF x = b THEN [pc |-> "built", graph |-> Without(Rows, skipped), again |-> FALSE]
         ELSE builder[x]
  BY <1>0 DEF Queries
<1>3. Fails(b) => \A x \in Builders : builder'[x] = IF x = b THEN AtRest ELSE builder[x]
  BY <1>0 DEF Fails
<1>4. \A lost, kept : Installs(b, lost, kept) => \A x \in Builders :
         builder'[x].pc = (IF x = b THEN "save" ELSE builder[x].pc)
         /\ (x # b => builder'[x] = builder[x])
  BY <1>0 DEF Installs
<1>5. Saves(b) => \A x \in Builders :
         /\ x # b => builder'[x] = builder[x]
         /\ x = b => builder'[x].pc \in {"idle", "called"}
  BY <1>0 DEF Saves, AtRest
<1> QED BY <1>1, <1>2, <1>3, <1>4, <1>5

\* Memories that were deleted do not come back, and a rebuild is alone unless noticed.
THEOREM RebuildsAreLone == Spec => [](TypeOK /\ DeletedAreGone /\ LoneRebuild)
<1>1. Init => DeletedAreGone /\ LoneRebuild
  <2> SUFFICES ASSUME Init PROVE DeletedAreGone /\ LoneRebuild
    OBVIOUS
  <2>1. DeletedAreGone
    BY DEF Init, DeletedAreGone
  <2>2. \A b \in Builders : ~Building(b)
    BY DEF Init, Building, AtRest
  <2> QED BY <2>1, <2>2 DEF Init, LoneRebuild
<1>2. TypeOK /\ DeletedAreGone /\ LoneRebuild /\ [Next]_vars => (DeletedAreGone /\ LoneRebuild)'
  <2> SUFFICES ASSUME TypeOK, DeletedAreGone, LoneRebuild, [Next]_vars
               PROVE  DeletedAreGone' /\ LoneRebuild'
    OBVIOUS
  <2> USE DEF db, mem, hist
  <2>0. /\ client \in [Clients -> Owed] /\ told \subseteq Ids /\ dels \subseteq Ids
        /\ memory \in [Ids -> {"live", "hidden", "gone"}]
        /\ \A c \in Clients : client[c].op \in {"delete", "expire"} => client[c].ids \subseteq Ids
    BY DEF TypeOK, Owed
  <2>gone. ASSUME \A i \in Ids : memory[i] = "gone" => memory'[i] = "gone",
                  \A i \in told' \cup dels' : i \in told \cup dels,
                  \A c \in Clients : \/ client'[c] = client[c]
                                     \/ client'[c].op \in {"nothing", "add"}
           PROVE  DeletedAreGone'
    BY <2>0, <2>gone DEF DeletedAreGone
  <2>owes. ASSUME NEW c \in Clients, NEW call, Owes(c, call)
           PROVE  \A d \in Clients : client'[d] = IF d = c THEN call ELSE client[d]
    BY <2>0, <2>owes DEF Owes
  <2>lone. ASSUME UNCHANGED <<rebuilding, builder, suspect>>, rebuilding => index' = index
           PROVE  LoneRebuild'
    BY <2>lone DEF LoneRebuild, Building
  <2>1. ASSUME \/ \E c \in Clients, i \in Ids : UpsertRow(c, i)
               \/ \E c \in Clients : HnswAdd(c)
               \/ \E i \in Ids : Hide(i) \/ TouchMemory(i) \/ PruneMemories(i)
               \/ UNCHANGED vars
        PROVE  DeletedAreGone' /\ LoneRebuild'
    <3>1. /\ \A i \in Ids : memory[i] = "gone" => memory'[i] = "gone"
          /\ LoneRebuild'
      BY <2>1, <2>lone, ClientEffects
    <3>2. \A i \in told' \cup dels' : i \in told \cup dels
      BY <2>1 DEF UpsertRow, HnswAdd, AddQueued, AddDirect, Hide, TouchMemory,
                  Turns, PruneMemories, vars
    <3>3. \A c \in Clients : client'[c] = client[c] \/ client'[c].op \in {"nothing", "add"}
      <4>1. CASE \E c \in Clients, i \in Ids : UpsertRow(c, i)
        <5>1. PICK c \in Clients, i \in Ids : UpsertRow(c, i)
          BY <4>1
        <5>2. \A d \in Clients : client'[d] = IF d = c THEN [op |-> "add", id |-> i, vec |-> model]
                                              ELSE client[d]
          BY <2>owes, <5>1 DEF UpsertRow
        <5> QED BY <5>2
      <4>2. CASE \E c \in Clients : HnswAdd(c)
        <5>1. PICK c \in Clients : HnswAdd(c)
          BY <4>2
        <5>2. \A d \in Clients : client'[d] = IF d = c THEN [op |-> "nothing"] ELSE client[d]
          BY <2>owes, <5>1 DEF HnswAdd
        <5> QED BY <5>2
      <4>3. CASE \/ \E i \in Ids : Hide(i) \/ TouchMemory(i) \/ PruneMemories(i)
                 \/ UNCHANGED vars
        BY <4>3 DEF Hide, TouchMemory, Turns, PruneMemories, vars
      <4> QED BY <2>1, <4>1, <4>2, <4>3
    <3> QED BY <2>gone, <3>1, <3>2, <3>3
  <2>2. ASSUME NEW c \in Clients, NEW i \in Ids, DeleteMemoryByID(c, i)
        PROVE  DeletedAreGone' /\ LoneRebuild'
    <3>1. /\ \A j \in Ids : memory[j] = "gone" => memory'[j] = "gone"
          /\ LoneRebuild'
      BY <2>2, <2>lone, ClientEffects
    <3>2. memory'[i] = "gone"
      BY <2>2 DEF DeleteMemoryByID, DeleteRows
    <3>3. \A d \in Clients : client'[d] = IF d = c THEN [op |-> "delete", ids |-> {i}] ELSE client[d]
      BY <2>2, <2>owes DEF DeleteMemoryByID
    <3> QED BY <2>0, <2>2, <3>1, <3>2, <3>3 DEF DeleteMemoryByID, DeletedAreGone
  <2>3. ASSUME NEW c \in Clients, NEW doomed \in SUBSET Ids, NEW collected \in SUBSET Ids,
               ExpireMemories(c, doomed, collected)
        PROVE  DeletedAreGone' /\ LoneRebuild'
    <3>1. /\ \A j \in Ids : memory[j] = "gone" => memory'[j] = "gone"
          /\ LoneRebuild'
      BY <2>3, <2>lone, ClientEffects
    <3>2. \A i \in collected : memory'[i] = "gone"
      BY <2>3 DEF ExpireMemories, DeleteRows
    <3>3. \A d \in Clients : client'[d] = IF d = c THEN [op |-> "expire", ids |-> collected]
                                          ELSE client[d]
      BY <2>3, <2>owes DEF ExpireMemories
    <3> QED BY <2>0, <2>3, <3>1, <3>2, <3>3 DEF ExpireMemories, DeletedAreGone
  <2>4. ASSUME NEW c \in Clients, NEW kept \in SUBSET Ids,
               HnswDelete(c) \/ HnswDeletePanics(c, kept)
        PROVE  DeletedAreGone' /\ LoneRebuild'
    <3>1. LoneRebuild'
      BY <2>4, <2>lone, ClientEffects
    <3>2. /\ told' \cup dels' \subseteq told \cup dels \cup client[c].ids
          /\ \A i \in client[c].ids : memory[i] = "gone"
          /\ memory' = memory
      BY <2>4 DEF HnswDelete, HnswDeletePanics, DeleteFrom, DeletedAreGone
    <3>3. \A d \in Clients : client'[d] = IF d = c THEN [op |-> "nothing"] ELSE client[d]
      BY <2>4, <2>owes DEF HnswDelete, HnswDeletePanics
    <3> QED BY <3>1, <3>2, <3>3 DEF DeletedAreGone
  <2>5. ASSUME NEW c \in Clients, NEW b \in Builders, HnswAddPanics(c, b)
        PROVE  DeletedAreGone' /\ LoneRebuild'
    <3>1. \A d \in Clients : client'[d] = IF d = c THEN [op |-> "nothing"] ELSE client[d]
      BY <2>5, <2>owes DEF HnswAddPanics
    <3>2. DeletedAreGone'
      BY <2>5, <2>gone, <3>1 DEF HnswAddPanics
    <3>3. Goto(b, "called")
      BY <2>5 DEF HnswAddPanics, Goto
    <3>4. \A x \in Builders : Building(x)' => Building(x)
      BY <3>3, BuilderMoves DEF Building, BuilderPcs
    <3>5. LoneRebuild'
      BY <2>5, <3>4 DEF HnswAddPanics, LoneRebuild
    <3> QED BY <3>2, <3>5
  <2>6. ASSUME NEW b \in Builders, NEW lost \in SUBSET Ids, NEW kept \in SUBSET Ids,
               \/ Begins(b) \/ Queries(b, lost) \/ Fails(b) \/ Installs(b, lost, kept)
               \/ Saves(b) \/ Migrates(b)
        PROVE  DeletedAreGone' /\ LoneRebuild'
    <3>1. DeletedAreGone'
      <4>1. /\ UNCHANGED <<memory, client>>
            /\ told' \subseteq told /\ dels' \subseteq dels
        BY <2>6 DEF Begins, Queries, Fails, Installs, Saves, Migrates
      <4> QED BY <2>gone, <4>1
    <3>2. CASE Begins(b)
      <4>1. /\ \A x \in Builders : builder'[x].pc = IF x = b THEN "begun" ELSE builder[x].pc
            /\ ~Building(b)
        BY <3>2, BuilderMoves DEF Begins, BuilderPcs, Building
      <4>2. ~suspect' => \A x \in Builders : Building(x)' => x = b
        BY <3>2, <4>1 DEF Begins, Building
      <4> QED BY <3>1, <3>2, <4>2 DEF Begins, LoneRebuild
    <3>3. CASE Queries(b, lost)
      <4>1. \A x \in Builders : Building(x)' => Building(x)
        BY <3>3, BuilderMoves DEF Queries, Building
      <4> QED BY <3>1, <3>3, <4>1 DEF Queries, LoneRebuild
    <3>4. CASE Fails(b) \/ Installs(b, lost, kept)
      <4>0. Building(b)
        BY <3>4 DEF Fails, Installs, Building
      <4>1. \A x \in Builders : /\ x # b => builder'[x] = builder[x]
                                /\ x = b => builder'[x].pc \in {"idle", "save"}
        <5>1. CASE Fails(b)
          BY <5>1, BuilderMoves DEF AtRest
        <5>2. CASE Installs(b, lost, kept)
          BY <5>2, BuilderMoves
        <5> QED BY <3>4, <5>1, <5>2
      <4>2. ~suspect => \A x \in Builders : ~Building(x)'
        BY <4>0, <4>1 DEF LoneRebuild, Building
      <4> QED BY <3>1, <3>4, <4>2 DEF Fails, Installs, LoneRebuild
    <3>5. CASE Saves(b)
      <4>1. \A x \in Builders : Building(x)' => Building(x)
        BY <3>5, BuilderMoves DEF Building
      <4> QED BY <3>1, <3>5, <4>1 DEF Saves, LoneRebuild
    <3>6. CASE Migrates(b)
      <4>1. \A x \in Builders : Building(x)' => Building(x)
        BY <3>6, BuilderMoves DEF Migrates, Building, BuilderPcs
      <4> QED BY <3>1, <3>6, <4>1 DEF Migrates, LoneRebuild
    <3> QED BY <2>6, <3>2, <3>3, <3>4, <3>5, <3>6
  <2>7. ASSUME NEW b \in Builders, NEW f \in {file, index}, NEW n \in Counts,
               NEW m \in {model, "new"}, Restart(b, f, n, m)
        PROVE  DeletedAreGone' /\ LoneRebuild'
    <3>1. DeletedAreGone'
      BY <2>7 DEF Restart, DeletedAreGone
    <3>2. \A x \in Builders : ~Building(x)'
      BY <2>7 DEF Restart, LoadOrRebuild, Building, AtRest
    <3> QED BY <2>7, <3>1, <3>2 DEF Restart, LoadOrRebuild, LoneRebuild
  <2> QED BY <2>1, <2>2, <2>3, <2>4, <2>5, <2>6, <2>7 DEF Next, ClientStep, BuilderStep
<1> QED BY <1>1, <1>2, TypeCorrect, PTL DEF Spec
-----------------------------------------------------------------------------
\* For any memories, clients and overlaps of their calls with rebuilds, failures and
\* restarts: a memory whose deletion reached the index does not come back to it
\* (hnsw_index.go:178-191, 263-280).
THEOREM DeletedStaysOutEver == Spec => []DeletedStaysOut
<1> DEFINE Out == DeletionsQueued /\ DeletedStaysOut
<1>1. Init => Out
  BY DEF Init, DeletionsQueued, DeletedStaysOut
<1>2. TypeOK /\ DeletedAreGone /\ LoneRebuild /\ Out /\ [Next]_vars => Out'
  <2> SUFFICES ASSUME TypeOK, DeletedAreGone, LoneRebuild, Out, [Next]_vars
               PROVE  Out'
    OBVIOUS
  <2> USE DEF db, mem, hist
  <2>0. /\ told \subseteq Ids /\ builder \in [Builders -> Builder]
        /\ index \in Graph \cup {NoIndex}
        /\ \A c \in Clients : /\ client[c].op = "add" => client[c].id \in Ids
                              /\ client[c].op \in {"delete", "expire"} => client[c].ids \subseteq Ids
        /\ ~rebuilding => adds = <<>> /\ dels = {}
    BY DEF TypeOK, Owed
  <2>1. CASE \/ \E c \in Clients :
                  \/ \E i \in Ids : UpsertRow(c, i) \/ DeleteMemoryByID(c, i)
                  \/ \E doomed, collected \in SUBSET Ids : ExpireMemories(c, doomed, collected)
             \/ \E i \in Ids : Hide(i) \/ TouchMemory(i) \/ PruneMemories(i)
             \/ UNCHANGED vars
    <3>1. UNCHANGED <<index, rebuilding, adds, dels, builder, suspect, told>>
      BY <2>1 DEF UpsertRow, DeleteMemoryByID, ExpireMemories, Hide,
                  TouchMemory, Turns, PruneMemories, vars
    <3> QED BY <3>1 DEF DeletionsQueued, DeletedStaysOut, Queued, Installed
  <2>2. ASSUME NEW c \in Clients, HnswAdd(c) PROVE Out'
    <3>1. /\ told' = told \ {client[c].id} /\ client[c].id \in Ids
          /\ UNCHANGED <<dels, builder, suspect, rebuilding>>
      BY <2>0, <2>2 DEF HnswAdd, AddQueued, AddDirect
    <3>2. \A i \in told' : Queued(i)' => Queued(i)
      <4>1. CASE AddQueued(c)
        <5>1. adds \in Seq(Entry) /\ [id |-> client[c].id, vec |-> client[c].vec] \in Entry
          BY <2>2 DEF HnswAdd, TypeOK, Owed, Entry
        <5>2. CASE adds' = Append(adds, [id |-> client[c].id, vec |-> client[c].vec])
          BY <3>1, <5>1, <5>2, QueueFacts DEF Queued
        <5> QED BY <4>1, <5>2 DEF AddQueued, Queued
      <4>2. CASE AddDirect(c)
        BY <4>2 DEF AddDirect, Queued
      <4> QED BY <2>2, <4>1, <4>2 DEF HnswAdd
    <3>3. DeletionsQueued'
      BY <3>1, <3>2 DEF DeletionsQueued
    <3>4. DeletedStaysOut'
      <4>1. CASE AddQueued(c)
        BY <3>1, <4>1 DEF AddQueued, DeletedStaysOut, Installed
      <4>2. CASE AddDirect(c)
        BY <2>0, <3>1, <4>2 DEF AddDirect, DeletedStaysOut, Installed, Graph
      <4> QED BY <2>2, <4>1, <4>2 DEF HnswAdd
    <3> QED BY <3>3, <3>4
  <2>3. ASSUME NEW c \in Clients, NEW b \in Builders, HnswAddPanics(c, b) PROVE Out'
    <3>1. Goto(b, "called")
      BY <2>3 DEF HnswAddPanics, Goto
    <3>2. \A x \in Builders : builder'[x].pc = "built" => builder[x].pc = "built"
                              /\ builder'[x].graph = builder[x].graph
      BY <3>1, BuilderMoves DEF BuilderPcs
    <3> QED BY <2>3, <3>2 DEF HnswAddPanics, DeletionsQueued, DeletedStaysOut, Queued, Installed
  <2>4. ASSUME NEW c \in Clients, NEW kept \in SUBSET Ids,
               HnswDelete(c) \/ HnswDeletePanics(c, kept)
        PROVE  Out'
    <3>1. PICK gone \in SUBSET Ids : DeleteFrom(gone) /\ told' = told \cup gone
      <4>1. HnswDelete(c) => DeleteFrom(client[c].ids) /\ told' = told \cup client[c].ids
        BY DEF HnswDelete
      <4>2. HnswDeletePanics(c, kept) => /\ DeleteFrom(client[c].ids \ kept)
                                         /\ told' = told \cup (client[c].ids \ kept)
        BY DEF HnswDeletePanics
      <4>3. client[c].ids \subseteq Ids
        BY <2>0, <2>4 DEF HnswDelete, HnswDeletePanics
      <4> QED BY <2>4, <4>1, <4>2, <4>3
    <3>2. UNCHANGED <<rebuilding, adds, builder, suspect>>
      BY <2>4 DEF HnswDelete, HnswDeletePanics
    <3>3. CASE rebuilding
      BY <3>1, <3>2, <3>3 DEF DeleteFrom, DeletionsQueued, DeletedStaysOut, Queued, Installed
    <3>4. CASE ~rebuilding
      <4>1. \A i : ~Queued(i)'
        BY <2>0, <3>2, <3>4 DEF Queued
      <4>2. ~suspect => \A b \in Builders : builder[b].pc # "built"
        BY <3>4 DEF LoneRebuild, Building
      <4>3. index' = IF index = NoIndex THEN index ELSE Without(index, gone)
        BY <3>1, <3>4 DEF DeleteFrom
      <4>4. DeletedStaysOut'
        BY <2>0, <3>1, <3>2, <3>4, <4>3 DEF DeletedStaysOut, Installed, Without
      <4> QED BY <3>2, <4>1, <4>2, <4>4 DEF DeletionsQueued
    <3> QED BY <3>3, <3>4
  <2>5. ASSUME NEW b \in Builders, Begins(b) PROVE Out'
    <3>1. ~suspect' => \A x \in Builders : builder'[x].pc # "built"
      BY <2>5, BuilderMoves DEF Begins, Building, BuilderPcs
    <3> QED BY <2>5, <3>1 DEF Begins, DeletionsQueued, DeletedStaysOut, Queued, Installed
  <2>6. ASSUME NEW b \in Builders, NEW skipped \in SUBSET Ids, Queries(b, skipped)
        PROVE  Out'
    <3>0. \A x \in Builders : builder'[x] =
             IF x = b THEN [pc |-> "built", graph |-> Without(Rows, skipped), again |-> FALSE]
             ELSE builder[x]
      BY <2>6, BuilderMoves
    <3>1. \A x \in Builders : \/ builder'[x] = builder[x]
                              \/ builder'[x].graph = Without(Rows, skipped)
      BY <3>0
    <3>2. \A i \in told : Without(Rows, skipped)[i] = None
      BY <2>0 DEF Rows, Without, DeletedAreGone
    <3> QED BY <2>6, <3>1, <3>2 DEF Queries, DeletionsQueued, DeletedStaysOut, Queued, Installed
  <2>7. ASSUME NEW b \in Builders, NEW lost \in SUBSET Ids, NEW kept \in SUBSET Ids,
               Fails(b) \/ Installs(b, lost, kept)
        PROVE  Out'
    <3>1. /\ Building(b) /\ adds' = <<>> /\ UNCHANGED suspect
          /\ told' \subseteq told /\ Installs(b, lost, kept) => told' = told \ kept
      BY <2>7 DEF Fails, Installs, Building
    <3>2. \A i : ~Queued(i)'
      BY <3>1 DEF Queued
    <3>3. ~suspect => \A x \in Builders : builder'[x].pc # "built"
      <4>1. \A x \in Builders : /\ x # b => builder'[x] = builder[x]
                                /\ x = b => builder'[x].pc # "built"
        <5>1. CASE Fails(b)
          BY <5>1, BuilderMoves DEF AtRest
        <5>2. CASE Installs(b, lost, kept)
          BY <5>2, BuilderMoves
        <5> QED BY <2>7, <5>1, <5>2
      <4> QED BY <3>1, <4>1 DEF LoneRebuild, Building
    <3>4. DeletionsQueued'
      BY <3>1, <3>2, <3>3 DEF DeletionsQueued
    <3>5. ~suspect => \A i \in told' : Installed' => index'[i] = None
      <4>1. CASE Fails(b)
        BY <3>1, <4>1 DEF Fails, LoneRebuild, Installed
      <4>2. CASE Installs(b, lost, kept)
        <5> DEFINE graph == builder[b].graph
        <5>1. graph \in Graph /\ adds \in Seq(Entry) /\ Len(adds) <= PendingCap
          BY <2>0 DEF Builder, TypeOK
        <5>2. \A i \in told : i \in dels \/ (~Queued(i) /\ (~suspect => graph[i] = None))
          BY <4>2 DEF Installs, DeletionsQueued
        <5>3. \A i \in told \ kept : ~suspect => Replay(graph, lost, kept)[i] = None
          BY <2>0, <5>1, <5>2, ReplayIs
        <5> QED BY <3>1, <4>2, <5>3 DEF Installs
      <4> QED BY <2>7, <4>1, <4>2
    <3> QED BY <3>1, <3>4, <3>5 DEF DeletedStaysOut
  <2>8. ASSUME NEW b \in Builders, Saves(b) \/ Migrates(b) PROVE Out'
    <3>1. \A x \in Builders : builder'[x].pc = "built" =>
             builder[x].pc = "built" /\ builder'[x].graph = builder[x].graph
      <4>1. CASE Saves(b)
        BY <4>1, BuilderMoves
      <4>2. CASE Migrates(b)
        BY <4>2, BuilderMoves DEF Migrates, BuilderPcs
      <4> QED BY <2>8, <4>1, <4>2
    <3> QED BY <2>8, <3>1 DEF Saves, Migrates, DeletionsQueued, DeletedStaysOut, Queued, Installed
  <2>9. ASSUME NEW b \in Builders, NEW f \in {file, index}, NEW n \in Counts,
               NEW m \in {model, "new"}, Restart(b, f, n, m)
        PROVE  Out'
    BY <2>9 DEF Restart, DeletionsQueued, DeletedStaysOut
  <2> QED BY <2>1, <2>2, <2>3, <2>4, <2>5, <2>6, <2>7, <2>8, <2>9
          DEF Next, ClientStep, BuilderStep
<1> QED BY <1>1, <1>2, RebuildsAreLone, PTL DEF Spec
\* For any memories, clients and overlaps of their calls with rebuilds, failures and
\* restarts: an installed index finds every live memory that has an embedding and no
\* call in flight, with the exceptions IndexCoversRows names (hnsw_index.go:83-209,
\* 220-258).
THEOREM IndexCoversRowsEver == Spec => []IndexCoversRows
<1> DEFINE Cover == GraphCovers /\ IndexCoversRows
<1>1. Init => Cover
  BY DEF Init, GraphCovers, IndexCoversRows, Installed, AtRest
<1>2. TypeOK /\ DeletedAreGone /\ LoneRebuild /\ Cover /\ [Next]_vars => Cover'
  <2> SUFFICES ASSUME TypeOK, DeletedAreGone, LoneRebuild, Cover, [Next]_vars
               PROVE  Cover'
    OBVIOUS
  <2> USE DEF db, mem, hist
  <2>0. /\ builder \in [Builders -> Builder] /\ client \in [Clients -> Owed]
        /\ index \in Graph \cup {NoIndex} /\ row \in Graph
        /\ memory \in [Ids -> {"live", "hidden", "gone"}]
        /\ \A c \in Clients : /\ client[c].op = "add" => client[c].id \in Ids /\ client[c].vec # None
                              /\ client[c].op \in {"delete", "expire"} => client[c].ids \subseteq Ids
        /\ ~rebuilding => adds = <<>> /\ dels = {}
    BY DEF TypeOK, Owed, Models, None
  <2>frame. ASSUME \A i \in Ids : Covered(i)' => Covered(i),
                   UNCHANGED <<rebuilding, builder, suspect, adds>>,
                   index' # NoIndex => index # NoIndex,
                   \A i \in Ids : Covered(i)' => index'[i] = index[i]
            PROVE  Cover'
    <3>1. \A i \in Ids : Queued(i)' <=> Queued(i)
      BY <2>frame DEF Queued
    <3>2. GraphCovers'
      BY <2>frame, <3>1 DEF GraphCovers
    <3>3. IndexCoversRows'
      <4> SUFFICES ASSUME Installed', ~suspect', NEW i \in Ids, Covered(i)'
                   PROVE  index'[i] # None
        BY DEF IndexCoversRows, Covered
      <4> QED BY <2>frame DEF IndexCoversRows, Covered, Installed
    <3> QED BY <3>2, <3>3
  <2>owes. ASSUME NEW c \in Clients, NEW call, Owes(c, call)
           PROVE  \A d \in Clients : client'[d] = IF d = c THEN call ELSE client[d]
    BY <2>0, <2>owes DEF Owes
  <2>1. ASSUME NEW c \in Clients, NEW i \in Ids, UpsertRow(c, i) PROVE Cover'
    <3>1. \A d \in Clients : client'[d] = IF d = c THEN [op |-> "add", id |-> i, vec |-> model]
                                          ELSE client[d]
      BY <2>1, <2>owes DEF UpsertRow
    <3>2. Owing(i)'
      BY <3>1 DEF Owing
    <3>3. client[c].op = "nothing" /\ UNCHANGED <<memory, missed>>
          /\ \A j \in Ids \ {i} : row'[j] = row[j]
      BY <2>0, <2>1 DEF UpsertRow, Idle, Graph
    <3>4. \A j \in Ids : Owing(j) => Owing(j)'
      BY <3>1, <3>3 DEF Owing
    <3>5. \A j \in Ids : Covered(j)' => Covered(j)
      BY <3>2, <3>3, <3>4 DEF Covered
    <3> QED BY <2>1, <2>frame, <3>5 DEF UpsertRow
  <2>2. ASSUME NEW c \in Clients, NEW doomed \in SUBSET Ids, NEW call,
               DeleteRows(doomed), Owes(c, call), client[c].op = "nothing",
               UNCHANGED <<mem, file, builder, model, opening, hist>>
        PROVE  Cover'
    <3>1. \A d \in Clients : client'[d] = IF d = c THEN call ELSE client[d]
      BY <2>2, <2>owes
    <3>2. \A j \in Ids : /\ j \in doomed => memory'[j] = "gone"
                         /\ j \notin doomed => memory'[j] = memory[j] /\ row'[j] = row[j]
      BY <2>2 DEF DeleteRows
    <3>3. \A j \in Ids : Owing(j) => Owing(j)'
      BY <2>2, <3>1 DEF Owing
    <3>4. \A j \in Ids : Covered(j)' => Covered(j)
      BY <2>2, <3>2, <3>3 DEF Covered
    <3> QED BY <2>2, <2>frame, <3>4
  <2>3. ASSUME NEW c \in Clients, NEW i \in Ids, DeleteMemoryByID(c, i) PROVE Cover'
    BY <2>2, <2>3 DEF DeleteMemoryByID, Idle
  <2>4. ASSUME NEW c \in Clients, NEW doomed \in SUBSET Ids, NEW collected \in SUBSET Ids,
               ExpireMemories(c, doomed, collected)
        PROVE  Cover'
    BY <2>2, <2>4 DEF ExpireMemories, Idle
  <2>5. ASSUME NEW i \in Ids, Hide(i) \/ TouchMemory(i) PROVE Cover'
    <3>1. /\ UNCHANGED <<row, client, rebuilding, builder, suspect, adds, index>>
          /\ \A j \in Ids \ {i} : memory'[j] = memory[j]
          /\ memory'[i] = "hidden" \/ i \in missed'
          /\ missed \subseteq missed'
      BY <2>0, <2>5 DEF Hide, TouchMemory, Turns
    <3>2. \A j \in Ids : Covered(j)' => Covered(j)
      BY <3>1 DEF Covered, Owing
    <3> QED BY <2>frame, <3>1, <3>2
  <2>6. ASSUME NEW i \in Ids, PruneMemories(i) PROVE Cover'
    <3>1. \A j \in Ids : /\ j = i => memory'[j] = "gone"
                         /\ j # i => memory'[j] = memory[j] /\ row'[j] = row[j]
      BY <2>6 DEF PruneMemories, DeleteRows
    <3>2. \A j \in Ids : Covered(j)' => Covered(j)
      BY <2>6, <3>1 DEF PruneMemories, Covered, Owing
    <3> QED BY <2>6, <2>frame, <3>2 DEF PruneMemories
  <2>7. ASSUME NEW c \in Clients, NEW kept \in SUBSET Ids,
               HnswDelete(c) \/ HnswDeletePanics(c, kept)
        PROVE  Cover'
    <3>1. \A d \in Clients : client'[d] = IF d = c THEN [op |-> "nothing"] ELSE client[d]
      BY <2>7, <2>owes DEF HnswDelete, HnswDeletePanics
    <3>2. /\ client[c].op \in {"delete", "expire"}
          /\ \A i \in client[c].ids : memory[i] = "gone"
          /\ UNCHANGED <<memory, row, missed, rebuilding, builder, suspect, adds>>
          /\ \/ index' = index
             \/ index # NoIndex /\ index' = Without(index, client[c].ids)
             \/ index # NoIndex /\ index' = Without(index, client[c].ids \ kept)
      BY <2>7 DEF HnswDelete, HnswDeletePanics, DeleteFrom, DeletedAreGone
    <3>3. \A j \in Ids \ client[c].ids : Owing(j) => Owing(j)'
      BY <3>1, <3>2 DEF Owing
    <3>4. \A j \in Ids : Covered(j)' => Covered(j) /\ j \notin client[c].ids
      BY <3>2, <3>3 DEF Covered
    <3>5. \A j \in Ids : Covered(j)' => index'[j] = index[j]
      BY <3>2, <3>4 DEF Without
    <3> QED BY <2>frame, <3>2, <3>4, <3>5
  <2>8. ASSUME NEW c \in Clients, HnswAdd(c) PROVE Cover'
    <3>1. \A d \in Clients : client'[d] = IF d = c THEN [op |-> "nothing"] ELSE client[d]
      BY <2>8, <2>owes DEF HnswAdd
    <3>0. PICK id \in Ids : id = client[c].id
      BY <2>0, <2>8 DEF HnswAdd
    <3>2. /\ client[c].op = "add" /\ id \in Ids /\ client[c].vec # None
          /\ UNCHANGED <<memory, row, rebuilding, builder, suspect>>
          /\ missed \ {id} \subseteq missed'
      BY <2>0, <2>8, <3>0 DEF HnswAdd, AddQueued, AddDirect
    <3>3. \A j \in Ids \ {id} : Owing(j) => Owing(j)'
      BY <3>0, <3>1, <3>2 DEF Owing
    <3>4. \A j \in Ids \ {id} : Covered(j)' => Covered(j)
      BY <3>2, <3>3 DEF Covered
    <3>5. CASE AddQueued(c)
      <4>1. \A j \in Ids : Queued(j) => Queued(j)'
        <5>1. adds \in Seq(Entry) /\ [id |-> id, vec |-> client[c].vec] \in Entry
          BY <2>8, <3>0 DEF HnswAdd, TypeOK, Owed, Entry
        <5>2. CASE adds' = Append(adds, [id |-> id, vec |-> client[c].vec])
          <6>1. \A n \in DOMAIN adds : n \in DOMAIN adds' /\ adds'[n] = adds[n]
            BY <5>1, <5>2, QueueFacts
          <6> QED BY <6>1 DEF Queued
        <5>3. CASE UNCHANGED adds
          BY <5>3 DEF Queued
        <5> QED BY <3>0, <3>5, <5>2, <5>3 DEF AddQueued
      <4>2. Covered(id)' => Queued(id)'
        <5>1. adds \in Seq(Entry) /\ [id |-> id, vec |-> client[c].vec] \in Entry
          BY <2>8, <3>0 DEF HnswAdd, TypeOK, Owed, Entry
        <5>2. CASE adds' = Append(adds, [id |-> id, vec |-> client[c].vec])
          <6>1. /\ Len(adds) + 1 \in DOMAIN adds'
                /\ adds'[Len(adds) + 1] = [id |-> id, vec |-> client[c].vec]
            <7>1. Len(adds) \in Nat
              BY <5>1
            <7> QED BY <5>1, <5>2, <7>1, QueueFacts
          <6> QED BY <6>1 DEF Queued
        <5>3. CASE id \in missed'
          BY <5>3 DEF Covered
        <5> QED BY <3>0, <3>5, <5>2, <5>3 DEF AddQueued
      <4>3. GraphCovers'
        BY <3>2, <3>4, <4>1, <4>2 DEF GraphCovers
      <4>4. ~Installed'
        BY <3>2, <3>5 DEF AddQueued, Installed
      <4> QED BY <4>3, <4>4 DEF IndexCoversRows
    <3>6. CASE AddDirect(c)
      <4>1. ~suspect' => \A b \in Builders : builder'[b].pc # "built"
        BY <3>2, <3>6 DEF AddDirect, LoneRebuild, Building
      <4>2. ASSUME Installed', ~suspect', NEW j \in Ids, Covered(j)' PROVE index'[j] # None
        <5>1. index # NoIndex /\ index \in Graph /\ index' = [index EXCEPT ![id] = client[c].vec]
          BY <2>0, <3>0, <3>6, <4>2 DEF AddDirect, Installed
        <5>2. CASE j = id
          BY <3>2, <5>1, <5>2 DEF Graph
        <5>3. CASE j # id
          BY <3>2, <3>4, <3>6, <4>2, <5>1, <5>3
             DEF AddDirect, IndexCoversRows, Installed, Covered, Graph
        <5> QED BY <5>2, <5>3
      <4> QED BY <4>1, <4>2 DEF GraphCovers, IndexCoversRows, Covered
    <3> QED BY <2>8, <3>5, <3>6 DEF HnswAdd
  <2>9. ASSUME NEW c \in Clients, NEW b \in Builders, HnswAddPanics(c, b) PROVE Cover'
    <3>1. Goto(b, "called") /\ ~rebuilding /\ suspect' = suspect /\ index' = NoIndex
      BY <2>9 DEF HnswAddPanics, Goto
    <3>2. ~suspect => \A x \in Builders : builder'[x].pc # "built"
      BY <3>1, BuilderMoves DEF BuilderPcs, LoneRebuild, Building
    <3> QED BY <3>1, <3>2 DEF GraphCovers, IndexCoversRows, Installed
  <2>10. ASSUME NEW b \in Builders, Begins(b) PROVE Cover'
    <3>1. ~suspect' => \A x \in Builders : builder'[x].pc # "built"
      BY <2>10, BuilderMoves DEF Begins, Building, BuilderPcs
    <3> QED BY <2>10, <3>1 DEF Begins, GraphCovers, IndexCoversRows, Installed
  <2>11. ASSUME NEW b \in Builders, NEW skipped \in SUBSET Ids, Queries(b, skipped)
         PROVE  Cover'
    <3>1. /\ UNCHANGED <<index, rebuilding, adds, suspect>>
          /\ \A i \in Ids : /\ Covered(i)' => Covered(i) /\ i \notin skipped
                            /\ Queued(i)' <=> Queued(i)
      BY <2>11 DEF Queries, Covered, Owing, Queued
    <3>2. \A x \in Builders : builder'[x] =
             IF x = b THEN [pc |-> "built", graph |-> Without(Rows, skipped), again |-> FALSE]
             ELSE builder[x]
      BY <2>11, BuilderMoves
    <3>3. \A i \in Ids : Covered(i)' => Without(Rows, skipped)[i] # None
      BY <3>1 DEF Covered, Rows, Without
    <3>4. GraphCovers'
      BY <3>1, <3>2, <3>3 DEF GraphCovers
    <3>5. IndexCoversRows'
      BY <3>1 DEF IndexCoversRows, Installed, Covered
    <3> QED BY <3>4, <3>5
  <2>12. ASSUME NEW b \in Builders, NEW lost \in SUBSET Ids, NEW kept \in SUBSET Ids,
                Fails(b) \/ Installs(b, lost, kept)
         PROVE  Cover'
    <3>1. /\ Building(b) /\ UNCHANGED suspect
          /\ \A i \in Ids : Covered(i)' => Covered(i) /\ (Installs(b, lost, kept) => i \notin lost)
      BY <2>12 DEF Fails, Installs, Building, Covered, Owing
    <3>2. ~suspect => \A x \in Builders : builder'[x].pc # "built"
      <4>1. \A x \in Builders : /\ x # b => builder'[x] = builder[x]
                                /\ x = b => builder'[x].pc # "built"
        <5>1. CASE Fails(b)
          BY <5>1, BuilderMoves DEF AtRest
        <5>2. CASE Installs(b, lost, kept)
          BY <5>2, BuilderMoves
        <5> QED BY <2>12, <5>1, <5>2
      <4> QED BY <3>1, <4>1 DEF LoneRebuild, Building
    <3>3. IndexCoversRows'
      <4> SUFFICES ASSUME Installed', ~suspect, NEW i \in Ids, Covered(i)'
                   PROVE  index'[i] # None
        BY <3>1 DEF IndexCoversRows, Covered
      <4>1. CASE Fails(b)
        BY <3>1, <4>1 DEF Fails, LoneRebuild, Installed
      <4>2. CASE Installs(b, lost, kept)
        <5>1. builder[b].graph \in Graph /\ adds \in Seq(Entry) /\ Len(adds) <= PendingCap
          BY <2>0 DEF Builder, TypeOK
        <5>2. i \notin dels /\ i \notin lost /\ Covered(i)
          BY <3>1, <4>2 DEF Covered, DeletedAreGone
        <5>3. builder[b].graph[i] # None \/ Queued(i)
          BY <4>2, <5>2 DEF Installs, GraphCovers
        <5> QED BY <4>2, <5>1, <5>2, <5>3, ReplayIs DEF Installs
      <4> QED BY <2>12, <4>1, <4>2
    <3> QED BY <3>1, <3>2, <3>3 DEF GraphCovers
  <2>13. ASSUME NEW b \in Builders, Saves(b) \/ Migrates(b) PROVE Cover'
    <3>1. \A x \in Builders : builder'[x].pc = "built" =>
             builder[x].pc = "built" /\ builder'[x].graph = builder[x].graph
      <4>1. CASE Saves(b)
        BY <4>1, BuilderMoves
      <4>2. CASE Migrates(b)
        BY <4>2, BuilderMoves DEF Migrates, BuilderPcs
      <4> QED BY <2>13, <4>1, <4>2
    <3>2. /\ UNCHANGED <<index, rebuilding, adds, suspect>>
          /\ \A i \in Ids : /\ Covered(i)' <=> Covered(i)
                            /\ Queued(i)' <=> Queued(i)
      BY <2>13 DEF Saves, Migrates, Covered, Owing, Queued
    <3>3. GraphCovers'
      BY <3>1, <3>2 DEF GraphCovers
    <3>4. IndexCoversRows'
      BY <2>13 DEF Saves, Migrates, IndexCoversRows, Installed, Owing
    <3> QED BY <3>3, <3>4
  <2>14. ASSUME NEW b \in Builders, NEW f \in {file, index}, NEW n \in Counts,
                NEW m \in {model, "new"}, Restart(b, f, n, m)
         PROVE  Cover'
    <3>1. \A x \in Builders : builder'[x].pc # "built"
      BY <2>14 DEF Restart, LoadOrRebuild, AtRest
    <3> QED BY <2>14, <3>1 DEF Restart, LoadOrRebuild, GraphCovers, IndexCoversRows, Installed
  <2>15. CASE UNCHANGED vars
    BY <2>15, <2>frame DEF vars, Covered, Owing
  <2> QED BY <2>1, <2>3, <2>4, <2>5, <2>6, <2>7, <2>8, <2>9, <2>10, <2>11, <2>12, <2>13,
             <2>14, <2>15 DEF Next, ClientStep, BuilderStep
<1> QED BY <1>1, <1>2, RebuildsAreLone, PTL DEF Spec

-----------------------------------------------------------------------------
\* The flag is somebody's: a rebuild that was called or runs will clear it.
Owner(b) == builder[b].pc \in {"called", "begun", "built"}
FlagOwned == rebuilding => \E b \in Builders : Owner(b)

\* The part of RebuildEnds that is not about fairness: whatever fails, panics or
\* overlaps, the flag is never set without a rebuild that is still to clear it, so adds
\* are not queued for a replay that does not come (hnsw_index.go:84-97, 113-121, 190).
THEOREM FlagIsOwned == Spec => []FlagOwned
<1>1. Init => FlagOwned
  BY DEF Init, FlagOwned
<1>2. TypeOK /\ FlagOwned /\ [Next]_vars => FlagOwned'
  <2> SUFFICES ASSUME TypeOK, FlagOwned, [Next]_vars, rebuilding'
               PROVE  \E b \in Builders : Owner(b)'
    BY DEF FlagOwned
  <2>1. CASE UNCHANGED <<rebuilding, builder>>
    BY <2>1 DEF FlagOwned, Owner
  <2>2. ASSUME NEW c \in Clients, NEW b \in Builders, HnswAddPanics(c, b)
        PROVE  Owner(b)'
    BY <2>2 DEF HnswAddPanics, TypeOK, Owner
  <2>3. ASSUME NEW b \in Builders, NEW skipped, Begins(b) \/ Queries(b, skipped)
        PROVE  Owner(b)'
    <3>1. CASE Begins(b)
      <4>1. "begun" \in BuilderPcs /\ Goto(b, "begun")
        BY <3>1 DEF Begins, BuilderPcs
      <4> QED BY <4>1, BuilderMoves DEF Owner
    <3>2. CASE Queries(b, skipped)
      <4>1. builder'[b] = [pc |-> "built", graph |-> Without(Rows, skipped), again |-> FALSE]
        BY <3>2, BuilderMoves
      <4> QED BY <4>1 DEF Owner
    <3> QED BY <2>3, <3>1, <3>2
  <2>4. ASSUME NEW b \in Builders, NEW lost, NEW kept
        PROVE  ~Fails(b) /\ ~Installs(b, lost, kept)
    BY DEF Fails, Installs
  <2>5. ASSUME NEW b \in Builders, Saves(b) PROVE \E x \in Builders : Owner(x)'
    <3>1. rebuilding /\ builder[b].pc = "save"
      BY <2>5 DEF Saves, mem
    <3>2. PICK x \in Builders : Owner(x)
      BY <3>1 DEF FlagOwned
    <3>3. x # b
      BY <3>1, <3>2 DEF Owner
    <3>4. builder'[x] = builder[x]
      BY <2>5, <3>3, BuilderMoves
    <3> QED BY <3>2, <3>4 DEF Owner
  <2>6. ASSUME NEW b \in Builders, Migrates(b) PROVE Owner(b)'
    BY <2>6 DEF Migrates, Goto, TypeOK, Owner
  <2>7. ASSUME NEW b \in Builders, NEW f, NEW n, NEW m
        PROVE  ~Restart(b, f, n, m)
    BY DEF Restart
  <2>8. ASSUME \/ \E c \in Clients :
                    \/ \E i \in Ids : UpsertRow(c, i) \/ DeleteMemoryByID(c, i)
                    \/ \E doomed, collected \in SUBSET Ids : ExpireMemories(c, doomed, collected)
                    \/ HnswAdd(c) \/ HnswDelete(c)
                    \/ \E kept \in SUBSET Ids : HnswDeletePanics(c, kept)
               \/ \E i \in Ids : Hide(i) \/ TouchMemory(i) \/ PruneMemories(i)
               \/ UNCHANGED vars
        PROVE  \E b \in Builders : Owner(b)'
    BY <2>1, <2>8, ClientEffects
  <2> QED BY <2>2, <2>3, <2>4, <2>5, <2>6, <2>7, <2>8 DEF Next, ClientStep, BuilderStep
<1> QED BY <1>1, <1>2, RebuildsAreLone, PTL DEF Spec
=============================================================================
