------------------------------- MODULE HnswIndex -------------------------------
(***************************************************************************)
(* The in-memory vector index over memory embeddings                       *)
(* (internal/store/hnsw_index.go).  SQLite is authoritative; the index is  *)
(* derived from it and follows it by calls made after each write.  While a *)
(* rebuild runs, the calls are queued and replayed when it installs its    *)
(* graph.  The index is saved to a file after a rebuild and on Close and   *)
(* loaded from it on Open when its size is near the number of rows.        *)
(*                                                                         *)
(* A vector is the embedding model it came from; a graph maps every id to  *)
(* its vector or None.  One write to SQLite is one step, and so is one     *)
(* critical section of hnswMemMu; the two are different steps.  The hnsw   *)
(* library may panic and a row may be unreadable; the code recovers and    *)
(* goes on without the entry.                                              *)
(***************************************************************************)
EXTENDS Integers, FiniteSets, Sequences

CONSTANTS
    Ids,          \* memory ids
    Clients,      \* goroutines that embed, delete or expire memories
    Builders,     \* bound: rebuilds that may be in flight at once
    PendingCap,   \* 10000: the queue of adds, and how much of it is replayed
    ExpireCap,    \* 1000: expiring memories reported to the index by one pass
    Tolerance,    \* |file - rows| accepted by loadHNSW
    MaxWrites,    \* bound: writes to SQLite
    MaxPanics,    \* bound: calls and rebuilds that lose entries to panics or bad rows
    MaxRestarts   \* bound: restarts

ASSUME HnswAssumption ==
    /\ IsFiniteSet(Ids)
    /\ PendingCap \in Nat \ {0}
    /\ ExpireCap \in Nat
    /\ Tolerance \in Nat
    /\ MaxWrites \in Nat
    /\ MaxPanics \in Nat
    /\ MaxRestarts \in Nat

VARIABLES
    memory,      \* id -> its row of memories: live, hidden (stale or expired), gone
    row,         \* id -> its row of memory_embeddings
    index,       \* hnswMemIndex
    rebuilding,  \* hnswRebuilding
    adds,        \* hnswPendingAdds
    dels,        \* hnswPendingDeletes
    file,        \* hnsw_memory.bin
    client,      \* goroutine -> the index call it still owes for a write it made
    builder,     \* rebuild -> where it is and the graph it has built
    model,       \* the embedder's model
    opening,     \* Open has not returned
    faults,      \* writes, panics and restarts so far; whether this start has migrated
    missed,      \* history: ids refused by a full queue, back from expiry, or lost to a
                 \* panic or a bad row, since the last rebuild began and their last add
    suspect,     \* history: the index was loaded from the file, or rebuilds overlapped
    told         \* history: ids whose last index call was a delete that did not panic

vars == <<memory, row, index, rebuilding, adds, dels, file, client, builder, model,
          opening, faults, missed, suspect, told>>
db == <<memory, row>>
mem == <<index, rebuilding, adds, dels>>
hist == <<missed, suspect, told>>

Models == {"old", "new"}
None == "none"
Graph == [Ids -> Models \cup {None}]
NoIndex == [i \in {} |-> None]
Empty == [i \in Ids |-> None]
Entry == [id: Ids, vec: Models]
Keys(g) == {i \in DOMAIN g : g[i] # None}

Owed == {[op |-> "nothing"]}
        \cup [op: {"add"}, id: Ids, vec: Models]
        \cup [op: {"delete", "expire"}, ids: SUBSET Ids]
BuilderPcs == {"idle", "called", "begun", "built", "save"}
Builder == [pc: BuilderPcs, graph: Graph, again: BOOLEAN]
AtRest == [pc |-> "idle", graph |-> Empty, again |-> FALSE]

\* The rows of memory_embeddings joined with their live memories.
Rows == [i \in Ids |-> IF memory[i] = "live" THEN row[i] ELSE None]

Init ==
    /\ memory = [i \in Ids |-> "live"]
    /\ row \in {Empty, [i \in Ids |-> "old"]}
    /\ index = NoIndex
    /\ rebuilding = FALSE
    /\ adds = <<>>
    /\ dels = {}
    /\ file = NoIndex
    /\ client = [c \in Clients |-> [op |-> "nothing"]]
    /\ \E b \in Builders : builder = [x \in Builders |->
          IF x = b THEN [AtRest EXCEPT !.pc = "called"] ELSE AtRest]
    /\ model = "old"
    /\ opening = TRUE
    /\ faults = [writes |-> 0, panics |-> 0, restarts |-> 0, migrated |-> FALSE]
    /\ missed = {}
    /\ suspect = FALSE
    /\ told = {}

-----------------------------------------------------------------------------
\* Writes to SQLite by the clients; each leaves the client owing an index call.

Writes == /\ faults.writes < MaxWrites
          /\ faults' = [faults EXCEPT !.writes = @ + 1]

Idle(c) == /\ ~opening
           /\ client[c].op = "nothing"

Owes(c, call) == client' = [client EXCEPT ![c] = call]

\* Bound on what is lost to panics and bad rows.
Panics == /\ faults.panics < MaxPanics
          /\ faults' = [faults EXCEPT !.panics = @ + 1]

Loses(lost) == \/ lost = {} /\ UNCHANGED faults
               \/ lost # {} /\ Panics

\* UpsertMemoryEmbedding: the row, also of a memory that went away while the embedder
\* was at work.  Bound: one embedding per model and row.
UpsertRow(c, i) ==
    /\ Idle(c)
    /\ Writes
    /\ row[i] # model
    /\ row' = [row EXCEPT ![i] = model]
    /\ Owes(c, [op |-> "add", id |-> i, vec |-> model])
    /\ UNCHANGED <<memory, mem, file, builder, model, opening, hist>>

Turns(i, from, to) ==
    /\ Writes
    /\ memory[i] = from
    /\ memory' = [memory EXCEPT ![i] = to]
    /\ UNCHANGED <<row, mem, file, client, builder, model, opening, suspect, told>>

\* A memory becomes stale or passes its expiry; the index is not told.
Hide(i) == Turns(i, "live", "hidden") /\ UNCHANGED missed

\* TouchMemory extends the expiry, also of a memory that is past it and not yet
\* deleted.  An index that was built meanwhile goes without it.
TouchMemory(i) == Turns(i, "hidden", "live") /\ missed' = missed \cup {i}

\* The rows of the memories in "doomed" go in one transaction.
DeleteRows(doomed) ==
    /\ memory' = [i \in Ids |-> IF i \in doomed THEN "gone" ELSE memory[i]]
    /\ row' = [i \in Ids |-> IF i \in doomed THEN None ELSE row[i]]

DeleteMemoryByID(c, i) ==
    /\ Idle(c)
    /\ Writes
    /\ memory[i] # "gone"
    /\ DeleteRows({i})
    /\ Owes(c, [op |-> "delete", ids |-> {i}])
    /\ UNCHANGED <<mem, file, builder, model, opening, hist>>

\* memoryPruneMu, which ExpireMemories holds until its index call is done.
PruneMuFree == \A c \in Clients : client[c].op # "expire"

\* ExpireMemories deletes every expired memory and collects ExpireCap of them.
ExpireMemories(c, doomed, collected) ==
    /\ Idle(c)
    /\ Writes
    /\ PruneMuFree
    /\ doomed # {}
    /\ \A i \in doomed : memory[i] = "hidden"
    /\ collected \subseteq doomed
    /\ \/ collected = doomed /\ Cardinality(doomed) <= ExpireCap
       \/ Cardinality(doomed) > ExpireCap /\ Cardinality(collected) = ExpireCap
    /\ DeleteRows(doomed)
    /\ Owes(c, [op |-> "expire", ids |-> collected])
    /\ UNCHANGED <<mem, file, builder, model, opening, hist>>

\* PruneStale deletes expired memories and old session logs and tells the index nothing.
PruneMemories(i) ==
    /\ ~opening
    /\ Writes
    /\ PruneMuFree
    /\ memory[i] # "gone"
    /\ DeleteRows({i})
    /\ UNCHANGED <<mem, file, client, builder, model, opening, hist>>

-----------------------------------------------------------------------------
\* The index calls.

\* hnswAdd while a rebuild runs: queue, unless the queue is full.
AddQueued(c) ==
    /\ rebuilding
    /\ \/ /\ Len(adds) < PendingCap
          /\ adds' = Append(adds, [id |-> client[c].id, vec |-> client[c].vec])
          /\ missed' = missed \ {client[c].id}
       \/ /\ Len(adds) >= PendingCap
          /\ missed' = missed \cup {client[c].id}
          /\ UNCHANGED adds
    /\ UNCHANGED <<index, rebuilding, dels>>

\* Mutant: hnswAdd does not look at the flag.
AddIgnoringFlag(c) ==
    /\ index' = IF index = NoIndex THEN index
                ELSE [index EXCEPT ![client[c].id] = client[c].vec]
    /\ missed' = missed \ {client[c].id}
    /\ UNCHANGED <<rebuilding, adds, dels>>

\* hnswAdd otherwise; without an index there is nothing to add to.
AddDirect(c) ==
    /\ ~rebuilding
    /\ index' = IF index = NoIndex THEN index
                ELSE [index EXCEPT ![client[c].id] = client[c].vec]
    /\ missed' = missed \ {client[c].id}
    /\ UNCHANGED <<rebuilding, adds, dels>>

HnswAdd(c) ==
    /\ client[c].op = "add"
    /\ AddQueued(c) \/ AddDirect(c)
    /\ told' = told \ {client[c].id}
    /\ Owes(c, [op |-> "nothing"])
    /\ UNCHANGED <<db, file, builder, model, opening, faults, suspect>>

\* The library panics while adding: drop the index and rebuild it.
HnswAddPanics(c, b) ==
    /\ client[c].op = "add"
    /\ ~rebuilding
    /\ index # NoIndex
    /\ builder[b].pc = "idle"
    /\ Panics
    /\ index' = NoIndex
    /\ rebuilding' = TRUE
    /\ builder' = [builder EXCEPT ![b].pc = "called"]
    /\ told' = told \ {client[c].id}
    /\ Owes(c, [op |-> "nothing"])
    /\ UNCHANGED <<db, adds, dels, file, model, opening, missed, suspect>>

Without(graph, gone) == [i \in Ids |-> IF i \in gone THEN None ELSE graph[i]]

DeleteFrom(gone) ==
    /\ dels' = IF rebuilding THEN dels \cup gone ELSE dels
    /\ index' = IF rebuilding \/ index = NoIndex THEN index
                ELSE Without(index, gone)

\* hnswDelete and hnswDeleteBatch.
HnswDelete(c) ==
    /\ client[c].op \in {"delete", "expire"}
    /\ DeleteFrom(client[c].ids)
    /\ told' = told \cup client[c].ids
    /\ Owes(c, [op |-> "nothing"])
    /\ UNCHANGED <<db, rebuilding, adds, file, builder, model, opening, faults,
                   missed, suspect>>

\* The library panics while deleting some of the ids: they may stay, the others go.
HnswDeletePanics(c, kept) ==
    /\ client[c].op \in {"delete", "expire"}
    /\ kept # {} /\ kept \subseteq client[c].ids
    /\ ~rebuilding
    /\ index # NoIndex
    /\ Panics
    /\ DeleteFrom(client[c].ids \ kept)
    /\ told' = told \cup (client[c].ids \ kept)
    /\ Owes(c, [op |-> "nothing"])
    /\ UNCHANGED <<db, rebuilding, adds, file, builder, model, opening, missed, suspect>>

-----------------------------------------------------------------------------
\* RebuildMemoryHNSW.

Building(b) == builder[b].pc \in {"begun", "built"}
Goto(b, pc) == builder' = [builder EXCEPT ![b].pc = pc]

\* The first critical section.
Begins(b) ==
    /\ builder[b].pc = "called"
    /\ Goto(b, "begun")
    /\ rebuilding' = TRUE
    /\ index' = NoIndex
    /\ suspect' = \E x \in Builders : Building(x)
    /\ missed' = {}
    /\ UNCHANGED <<db, adds, dels, file, client, model, opening, faults, told>>

\* Read the rows and build the graph, without the rows that cannot be read or added
\* and those behind an error that ends the reading.
Queries(b, skipped) ==
    /\ builder[b].pc = "begun"
    /\ skipped \subseteq Keys(Rows)
    /\ Loses(skipped)
    /\ missed' = missed \cup skipped
    /\ builder' = [builder EXCEPT ![b] =
          [pc |-> "built", graph |-> Without(Rows, skipped), again |-> FALSE]]
    /\ UNCHANGED <<db, mem, file, client, model, opening, suspect, told>>

\* Mutant: an error leaves the flag set.
FailsKeepingFlag(b) ==
    /\ builder[b].pc = "begun"
    /\ builder' = [builder EXCEPT ![b] = AtRest]
    /\ adds' = <<>>
    /\ dels' = {}
    /\ opening' = FALSE
    /\ UNCHANGED <<db, index, rebuilding, file, client, model, faults, hist>>

\* The query fails (or the rebuild panics): no index, no queue, no flag.
Fails(b) ==
    /\ builder[b].pc = "begun"
    /\ builder' = [builder EXCEPT ![b] = AtRest]
    /\ rebuilding' = FALSE
    /\ adds' = <<>>
    /\ dels' = {}
    /\ opening' = FALSE
    /\ UNCHANGED <<db, index, file, client, model, faults, hist>>

\* The adds that are replayed: the last PendingCap of the queue.
Replayed ==
    LET extra == Len(adds) - PendingCap
    IN IF extra > 0 THEN SubSeq(adds, extra + 1, Len(adds)) ELSE adds

\* The graph after the replay of the queued adds, in order.
WithAdds(graph) ==
    [i \in Ids |->
        LET mine == {n \in DOMAIN Replayed : Replayed[n].id = i}
        IN IF mine = {} THEN graph[i]
           ELSE Replayed[CHOOSE n \in mine : \A k \in mine : k <= n].vec]

\* Mutant: the queued deletes are replayed before the adds.
DeletesFirst(graph, lost, kept) == Without(WithAdds(Without(graph, dels \ kept)), lost)

\* The adds are replayed first, then the deletes.  An add that panics ("lost") has
\* removed the old vector; a delete that panics leaves it ("kept").
Replay(graph, lost, kept) == Without(Without(WithAdds(graph), lost), dels \ kept)

\* The last critical section: replay the queues and install the graph.
Installs(b, lost, kept) ==
    /\ builder[b].pc = "built"
    /\ lost \subseteq {Replayed[n].id : n \in DOMAIN Replayed}
    /\ kept \subseteq dels
    /\ Loses(lost \cup kept)
    /\ missed' = missed \cup lost
    /\ told' = told \ kept
    /\ index' = Replay(builder[b].graph, lost, kept)
    /\ adds' = <<>>
    /\ dels' = {}
    /\ rebuilding' = FALSE
    /\ builder' = [builder EXCEPT ![b] = [pc |-> "save", graph |-> Empty,
                                          again |-> Len(adds) > PendingCap]]
    /\ UNCHANGED <<db, file, client, model, opening, suspect>>

\* saveHNSWToFile; an error leaves the previous file.
SavesIndex == file' \in {file, IF Keys(index) = {} THEN file ELSE index}

\* Save, and rebuild once more if the replay was capped.
Saves(b) ==
    /\ builder[b].pc = "save"
    /\ SavesIndex
    /\ builder' = [builder EXCEPT ![b] = IF @.again THEN [AtRest EXCEPT !.pc = "called"]
                                         ELSE AtRest]
    /\ opening' = FALSE
    /\ UNCHANGED <<db, mem, client, model, faults, hist>>

\* EmbedAllMemories once per start: if rows of another model were marked, rebuild.
Migrates(b) ==
    /\ ~opening
    /\ ~faults.migrated
    /\ builder[b].pc = "idle"
    /\ \E i \in Ids : row[i] \notin {None, model}
    /\ faults' = [faults EXCEPT !.migrated = TRUE]
    /\ Goto(b, "called")
    /\ UNCHANGED <<db, mem, file, client, model, opening, hist>>

-----------------------------------------------------------------------------
\* Close or a crash, then Open.

Abs(n) == IF n < 0 THEN -n ELSE n

\* countMemoryEmbeddings; -1 if the query fails.
Counts == {Cardinality(Keys(Rows)), -1}

\* loadHNSW accepts the file; it compares nothing with a count that failed.
FileAccepted(f, expected) ==
    LET loaded == Cardinality(Keys(f))
    IN /\ f # NoIndex
       /\ expected = 0 => loaded = 0
       /\ expected > 0 => Abs(loaded - expected) <= Tolerance

\* loadOrRebuildMemoryHNSW, with the file as it was left.
LoadOrRebuild(b, f, expected) ==
    \/ /\ FileAccepted(f, expected)
       /\ index' = f
       /\ opening' = FALSE
       /\ suspect' = TRUE
       /\ builder' = [x \in Builders |-> AtRest]
    \/ /\ ~FileAccepted(f, expected)
       /\ index' = NoIndex
       /\ opening' = TRUE
       /\ suspect' = FALSE
       /\ builder' = [x \in Builders |->
             IF x = b THEN [AtRest EXCEPT !.pc = "called"] ELSE AtRest]

\* Close saves the index; a crash does not.
CloseOrCrash(f) == SavesIndex /\ file' = f

Restart(b, f, expected, newModel) ==
    /\ ~opening
    /\ faults.restarts < MaxRestarts
    /\ faults' = [faults EXCEPT !.restarts = @ + 1, !.migrated = FALSE]
    /\ CloseOrCrash(f)
    /\ LoadOrRebuild(b, f, expected)
    /\ model' = newModel
    /\ client' = [c \in Clients |-> [op |-> "nothing"]]
    /\ rebuilding' = FALSE
    /\ adds' = <<>>
    /\ dels' = {}
    /\ missed' = {}
    /\ told' = {}
    /\ UNCHANGED db

-----------------------------------------------------------------------------
ClientStep ==
    \E c \in Clients :
        \/ \E i \in Ids : UpsertRow(c, i) \/ DeleteMemoryByID(c, i)
        \/ \E doomed, collected \in SUBSET Ids : ExpireMemories(c, doomed, collected)
        \/ HnswAdd(c)
        \/ \E b \in Builders : HnswAddPanics(c, b)
        \/ HnswDelete(c)
        \/ \E kept \in SUBSET Ids : HnswDeletePanics(c, kept)

BuilderStep(b) ==
    \/ Begins(b)
    \/ \E skipped \in SUBSET Ids : Queries(b, skipped)
    \/ Fails(b)
    \/ \E lost, kept \in SUBSET Ids : Installs(b, lost, kept)
    \/ Saves(b)

Next ==
    \/ ClientStep
    \/ \E i \in Ids : Hide(i) \/ TouchMemory(i) \/ PruneMemories(i)
    \/ \E b \in Builders : BuilderStep(b) \/ Migrates(b)
    \/ \E b \in Builders, f \in {file, index}, n \in Counts, m \in {model, "new"} :
          Restart(b, f, n, m)

\* A rebuild that was called runs to its end.
Fairness == \A b \in Builders : WF_vars(BuilderStep(b))

Spec == Init /\ [][Next]_vars /\ Fairness

-----------------------------------------------------------------------------
\* Every variable has its type: a queue is never longer than its cap, and while
\* no rebuild owns the flag the queues are empty.
TypeOK ==
    /\ memory \in [Ids -> {"live", "hidden", "gone"}]
    /\ row \in Graph
    /\ index \in Graph \cup {NoIndex}
    /\ rebuilding \in BOOLEAN
    /\ adds \in Seq(Entry)
    /\ Len(adds) <= PendingCap
    /\ dels \subseteq Ids
    /\ file \in Graph \cup {NoIndex}
    /\ client \in [Clients -> Owed]
    /\ builder \in [Builders -> Builder]
    /\ model \in Models
    /\ opening \in BOOLEAN
    /\ faults \in [writes: 0..MaxWrites, panics: 0..MaxPanics, restarts: 0..MaxRestarts,
                    migrated: BOOLEAN]
    /\ missed \subseteq Ids
    /\ suspect \in BOOLEAN
    /\ told \subseteq Ids
    /\ ~rebuilding => adds = <<>> /\ dels = {}

Installed == index # NoIndex /\ ~rebuilding
Owing(i) == \E c \in Clients : \/ client[c].op = "add" /\ client[c].id = i
                               \/ client[c].op \in {"delete", "expire"} /\ i \in client[c].ids

\* An installed index finds every live memory that has an embedding and no call in
\* flight, whatever was added, deleted or rebuilt meanwhile: a search on the index
\* misses nothing that the brute-force scan would find.  Excepted, until a rebuild
\* begins, are memories whose last add a full queue or a panic swallowed, rows a rebuild
\* could not read, memories touched after they had expired, and an index that was loaded
\* from the file or built by overlapping rebuilds (hnsw_index.go:83-209, 220-258).
IndexCoversRows ==
    Installed /\ ~suspect =>
        \A i \in Ids \ missed :
            memory[i] = "live" /\ row[i] # None /\ ~Owing(i) => index[i] # None

\* A memory whose deletion reached the index does not come back to it with the graph
\* of a rebuild that read the rows before the deletion, unless the replay of the
\* deletion panicked (hnsw_index.go:178-191, 263-280).
DeletedStaysOut ==
    Installed /\ ~suspect => \A i \in told : index[i] = None

\* A rebuild never leaves the flag set for good, on success, on error or after a panic
\* of the library: the adds queued behind it are not queued for ever
\* (hnsw_index.go:84-97, 113-121, 190).
RebuildEnds == rebuilding ~> ~rebuilding
=============================================================================
