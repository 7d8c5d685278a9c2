---------------------------- MODULE ProjectCache ----------------------------
(***************************************************************************)
(* The SQLite cache of a project's graph across runs of the daemon:        *)
(* loadOrBuildGraphWithStore and smartReindex at start, persistAsync while *)
(* the watcher runs, crashes and shutdowns in between.                     *)
(*                                                                         *)
(* A file's content is abstracted to a version number (0: no such file),   *)
(* which also stands for its mtime: no two contents share one.  The nodes  *)
(* of a file are the version they were parsed from.  The watcher pipeline  *)
(* is ideal here (WatcherPipeline has its interleavings): it merges a      *)
(* file's current version in one step.  Edges and call sites follow nodes. *)
(* A walk may fail to read or to parse a file, and every write to SQLite    *)
(* may fail: all of this is only logged.                                    *)
(***************************************************************************)
EXTENDS Naturals, FiniteSets, Functions

CONSTANTS
    Files,     \* source files of the project
    MaxEdits,  \* bound: contents a file can have over a behaviour
    MaxTotalEdits,  \* bound: contents all files have together
    MaxBoots   \* bound: starts of the daemon

ASSUME CacheAssumption ==
    /\ IsFiniteSet(Files)
    /\ MaxEdits \in Nat
    /\ MaxBoots \in Nat

VARIABLES
    disk,     \* file -> its version (and mtime), 0 when absent
    edits,    \* file -> contents it has had so far
    proc,     \* the daemon: down, walking, hashing, saving, running, stopping
    boots,    \* starts so far
    how,      \* how the running daemon got its graph: smart, full or cached
    todo,     \* files the walk has not visited
    fresh,    \* file -> mtime the walk recorded, 0 when none
    graph,    \* file -> version of its nodes in memory, 0 when none
    seen,     \* file -> version the watcher last heard of
    jobs,     \* persistAsync goroutines
    rows,     \* SQLite: file -> version of its rows in nodes, 0 when none
    hashes,   \* SQLite: file_hashes, file -> mtime, 0 when there is no row
    saved,    \* SQLite: meta holds a repo_id, so LoadGraph returns a graph
    missed,   \* history: files that changed after the walk and before the watcher
    torn,     \* history: files whose hash row and node rows a crash or error split
    unread    \* history: present files that the last walk to re-parse them, or to
              \* look for them, could not read or parse

memory == <<proc, boots, how, todo, fresh, graph, seen, jobs>>
sqlite == <<rows, hashes, saved>>
history == <<missed, torn, unread>>
vars == <<disk, edits, memory, sqlite, history>>

Versions == 0..MaxEdits

\* persistAsync stores time.Now(), which is no file's mtime.
ByClock == MaxEdits + 1

\* A persistAsync goroutine, named by the version it was started for (0: the
\* removal of a file, a full save) and the boot it belongs to is the current one.
Job == [file: Files, id: Versions, st: {"start", "read", "committed"}, nodes: Versions]

NoFiles == [f \in Files |-> 0]

Init ==
    /\ disk \in [Files -> {0, 1} \cap Versions]
    /\ edits = disk
    /\ proc = "down"
    /\ boots = 0
    /\ how = "full"
    /\ todo = {}
    /\ fresh = NoFiles
    /\ graph = NoFiles
    /\ seen = NoFiles
    /\ jobs = {}
    /\ rows = NoFiles
    /\ hashes = NoFiles
    /\ saved = FALSE
    /\ missed = {} /\ torn = {} /\ unread = {}

-----------------------------------------------------------------------------
\* The environment: files change at any time.

Changes(f) == missed' = IF proc \in {"hashing", "saving"} \/ (proc = "walking" /\ f \notin todo)
                        THEN missed \cup {f} ELSE missed

TotalEdits == FoldFunction(LAMBDA m, n : m + n, 0, edits)

Edit(f) ==
    /\ edits[f] < MaxEdits
    /\ TotalEdits < MaxTotalEdits
    /\ edits' = [edits EXCEPT ![f] = @ + 1]
    /\ disk' = [disk EXCEPT ![f] = edits[f] + 1]
    /\ Changes(f)
    /\ UNCHANGED <<memory, sqlite, torn, unread>>

Unlink(f) ==
    /\ disk[f] # 0
    /\ disk' = [disk EXCEPT ![f] = 0]
    /\ Changes(f)
    /\ UNCHANGED <<edits, memory, sqlite, torn, unread>>

-----------------------------------------------------------------------------
\* Start: smartReindex, or one of its two fallbacks.

\* The cached graph and the stored mtimes; every file is to be compared.
BootSmart ==
    /\ saved /\ hashes # NoFiles
    /\ how' = "smart"
    /\ graph' = rows
    /\ proc' = "walking"
    /\ todo' = Files

\* A cached graph without a single stored mtime is taken as it is.
BootCached ==
    /\ saved /\ hashes = NoFiles
    /\ how' = "cached"
    /\ graph' = rows
    /\ proc' = "running"
    /\ todo' = {}

BootFull ==
    /\ ~saved
    /\ how' = "full"
    /\ graph' = NoFiles
    /\ proc' = "walking"
    /\ todo' = Files

\* The watcher of a daemon that starts running hears of later changes only.
Boot ==
    /\ proc = "down"
    /\ boots < MaxBoots
    /\ boots' = boots + 1
    /\ BootSmart \/ BootCached \/ BootFull
    /\ fresh' = NoFiles
    /\ seen' = disk
    /\ jobs' = {}
    /\ missed' = {}
    /\ UNCHANGED <<disk, edits, sqlite, torn, unread>>

\* Mutant: a file on disk that has any hash row is taken as unchanged.
UnchangedByName(f) == how = "smart" /\ hashes[f] # 0

\* The walk skips a file whose stored mtime is the file's.
Unchanged(f) == how = "smart" /\ hashes[f] # 0 /\ hashes[f] = disk[f]

\* WalkDir or IncrementalReindex visits a file that exists: skip or re-parse.
WalkVisits(f) ==
    /\ proc = "walking"
    /\ f \in todo /\ disk[f] # 0
    /\ todo' = todo \ {f}
    /\ fresh' = [fresh EXCEPT ![f] = disk[f]]
    /\ IF Unchanged(f) THEN UNCHANGED <<graph, torn, unread>>
       ELSE /\ graph' = [graph EXCEPT ![f] = disk[f]]
            /\ torn' = torn \ {f}
            /\ unread' = unread \ {f}
    /\ UNCHANGED <<disk, edits, proc, boots, how, seen, jobs, sqlite, missed>>

\* Reading or parsing it fails, after IncrementalReindex removed its old nodes.
\* The mtime is recorded all the same, except for an IncrementalReindex that
\* could not read the file.
WalkFailsToRead(f) ==
    /\ proc = "walking"
    /\ f \in todo /\ disk[f] # 0 /\ ~Unchanged(f)
    /\ todo' = todo \ {f}
    /\ \/ fresh' = [fresh EXCEPT ![f] = disk[f]]
       \/ how = "smart" /\ fresh' = fresh
    /\ graph' = [graph EXCEPT ![f] = 0]
    /\ torn' = torn \ {f}
    /\ unread' = unread \cup {f}
    /\ UNCHANGED <<disk, edits, proc, boots, how, seen, jobs, sqlite, missed>>

\* The walk does not come across a file that does not exist, or to whose entry
\* it cannot come.  (Where a full build cannot read a directory, it gives up,
\* and the project is not opened: as if the daemon crashed.)
WalkMisses(f) ==
    /\ proc = "walking"
    /\ f \in todo
    /\ todo' = todo \ {f}
    /\ unread' = IF disk[f] = 0 THEN unread \ {f} ELSE unread \cup {f}
    /\ UNCHANGED <<disk, edits, proc, boots, how, fresh, graph, seen, jobs, sqlite, missed, torn>>

\* Mutant: files that disappeared are not removed from the cached graph.
WalkEndsKeepingGhosts ==
    /\ proc = "walking"
    /\ todo = {}
    /\ proc' = "hashing"
    /\ UNCHANGED <<disk, edits, boots, how, todo, fresh, graph, seen, jobs, sqlite, history>>

\* Files with a stored mtime that the walk did not meet are removed.
WalkEnds ==
    /\ proc = "walking"
    /\ todo = {}
    /\ LET gone == {f \in Files : hashes[f] # 0 /\ fresh[f] = 0} IN
          /\ graph' = [f \in Files |-> IF f \in gone THEN 0 ELSE graph[f]]
          /\ torn' = torn \ {f \in gone : disk[f] = 0}
    /\ proc' = "hashing"
    /\ UNCHANGED <<disk, edits, boots, how, todo, fresh, seen, jobs, sqlite, missed, unread>>

\* SaveFileMtimes replaces the table in one transaction; its error is logged.
\* The full build skips an empty map, smartReindex does not.
SavesMtimes ==
    /\ proc = "hashing"
    /\ hashes' \in {fresh, hashes}
    /\ how = "full" /\ fresh = NoFiles => hashes' = hashes
    /\ proc' = "saving"
    /\ UNCHANGED <<disk, edits, boots, how, todo, fresh, graph, seen, jobs, rows, saved,
                   history>>

\* Files whose stored mtime was renewed although their rows are older.
Split == {f \in Files : rows[f] # graph[f]}

\* Rows of a file without a hash row: a new file that persistAsync is half way
\* with, or what a failed SaveFileMtimes leaves.
Unhashed(nodes) == {f \in Files : nodes[f] # 0 /\ hashes[f] = 0}

\* SaveGraph replaces the rows in one transaction; its error is logged.  The
\* watcher starts afterwards.
SavesGraph ==
    /\ proc = "saving"
    /\ \/ rows' = graph /\ saved' = TRUE /\ torn' = torn \cup Unhashed(graph)
       \/ UNCHANGED <<rows, saved>> /\ torn' = torn \cup Split
    /\ proc' = "running"
    /\ seen' = disk
    /\ UNCHANGED <<disk, edits, boots, how, todo, fresh, graph, jobs, hashes, missed, unread>>

-----------------------------------------------------------------------------
\* While the daemon runs: merges, removals, and persistAsync.

WatcherMerges(f) ==
    /\ proc = "running"
    /\ disk[f] # seen[f] /\ disk[f] # 0
    /\ graph' = [graph EXCEPT ![f] = disk[f]]
    /\ seen' = [seen EXCEPT ![f] = disk[f]]
    /\ jobs' = jobs \cup {[file |-> f, id |-> disk[f], st |-> "start", nodes |-> 0]}
    /\ missed' = missed \ {f}
    /\ torn' = torn \ {f}
    /\ unread' = unread \ {f}
    /\ UNCHANGED <<disk, edits, proc, boots, how, todo, fresh, sqlite>>

WatcherRemoves(f) ==
    /\ proc = "running"
    /\ disk[f] # seen[f] /\ disk[f] = 0
    /\ graph' = [graph EXCEPT ![f] = 0]
    /\ seen' = [seen EXCEPT ![f] = 0]
    /\ jobs' = jobs \cup {[file |-> f, id |-> 0, st |-> "start", nodes |-> 0]}
    /\ missed' = missed \ {f}
    /\ torn' = torn \ {f}
    /\ unread' = unread \ {f}
    /\ UNCHANGED <<disk, edits, proc, boots, how, todo, fresh, sqlite>>

JobMoves(j, k) == jobs' = (jobs \ {j}) \cup {k}

\* SaveGraphDelta takes the file's nodes from the graph, without a lock that
\* would hold until its transaction.
JobReads(j) ==
    /\ j.id # 0 /\ j.st = "start"
    /\ JobMoves(j, [j EXCEPT !.st = "read", !.nodes = graph[j.file]])
    /\ UNCHANGED <<disk, edits, proc, boots, how, todo, fresh, graph, seen, sqlite, history>>

\* Its transaction, with the meta rows, commits, or fails and is logged.
JobCommits(j) ==
    /\ j.st = "read"
    /\ \/ rows' = [rows EXCEPT ![j.file] = j.nodes] /\ saved' = TRUE
       \/ UNCHANGED <<rows, saved>>
    /\ JobMoves(j, [j EXCEPT !.st = "committed"])
    /\ UNCHANGED <<disk, edits, proc, boots, how, todo, fresh, graph, seen, hashes, history>>

\* Mutant: the stored time is in another unit than ByClock's.
StampsTwoClocks(j) == hashes' = [hashes EXCEPT ![j.file] = ByClock + 1]

\* Mutant: the file's own mtime is stored, as the comment has it.
StampsOwnMtime(j) == hashes' = [hashes EXCEPT ![j.file] = j.id]

\* UpsertFileMtime with the time at which the goroutine was launched.
Stamps(j) == hashes' = [hashes EXCEPT ![j.file] = ByClock]

\* An error is logged.
JobStamps(j) ==
    /\ j.st = "committed"
    /\ Stamps(j) \/ UNCHANGED hashes
    /\ jobs' = jobs \ {j}
    /\ UNCHANGED <<disk, edits, proc, boots, how, todo, fresh, graph, seen, rows, saved,
                   history>>

\* After a removal: SaveGraph with the whole graph.
JobSavesAll(j) ==
    /\ j.id = 0
    /\ \/ rows' = graph /\ saved' = TRUE
       \/ UNCHANGED <<rows, saved>>
    /\ jobs' = jobs \ {j}
    /\ UNCHANGED <<disk, edits, proc, boots, how, todo, fresh, graph, seen, hashes, history>>

-----------------------------------------------------------------------------
\* The end of a run.

\* Watcher.Stop waits for the persistAsync goroutines.
Stop ==
    /\ proc = "running"
    /\ proc' = "stopping"
    /\ UNCHANGED <<disk, edits, boots, how, todo, fresh, graph, seen, jobs, sqlite, history>>

Stopped ==
    /\ proc = "stopping"
    /\ jobs = {}
    /\ proc' = "down"
    /\ torn' = torn \cup Unhashed(rows)
    /\ UNCHANGED <<disk, edits, boots, how, todo, fresh, graph, seen, jobs, sqlite, missed, unread>>

Crash ==
    /\ proc # "down"
    /\ proc' = "down"
    /\ jobs' = {}
    /\ torn' = torn \cup Unhashed(rows) \cup (IF proc = "saving" THEN Split ELSE {})
    /\ UNCHANGED <<disk, edits, boots, how, todo, fresh, graph, seen, sqlite, missed,
                   unread>>

-----------------------------------------------------------------------------
Environment == \E f \in Files : Edit(f) \/ Unlink(f)

Load == \/ Boot
        \/ \E f \in Files : WalkVisits(f) \/ WalkFailsToRead(f) \/ WalkMisses(f)
        \/ WalkEnds \/ SavesMtimes \/ SavesGraph

Running == \/ \E f \in Files : WatcherMerges(f) \/ WatcherRemoves(f)
           \/ \E j \in jobs : JobReads(j) \/ JobCommits(j) \/ JobStamps(j) \/ JobSavesAll(j)

Next == Environment \/ Load \/ Running \/ Stop \/ Stopped \/ Crash

Spec == Init /\ [][Next]_vars

-----------------------------------------------------------------------------
TypeOK ==
    /\ disk \in [Files -> Versions]
    /\ edits \in [Files -> Versions]
    /\ proc \in {"down", "walking", "hashing", "saving", "running", "stopping"}
    /\ boots \in 0..MaxBoots
    /\ how \in {"smart", "full", "cached"}
    /\ todo \in SUBSET Files
    /\ fresh \in [Files -> Versions]
    /\ graph \in [Files -> Versions]
    /\ seen \in [Files -> Versions]
    /\ jobs \in SUBSET Job
    /\ rows \in [Files -> Versions]
    /\ hashes \in [Files -> 0..ByClock]
    /\ saved \in BOOLEAN
    /\ missed \in SUBSET Files
    /\ torn \in SUBSET Files
    /\ unread \in SUBSET Files

\* Nodes of a file that mirror its content: parsed from it or, when it could not
\* be read or parsed, none rather than older ones.
Mirror(f, nodes) == nodes = disk[f] \/ (f \in unread /\ nodes = 0)

\* Whatever was edited offline, and wherever earlier runs crashed: a daemon
\* that has loaded its graph through a walk holds every file as the disk has
\* it, or without any nodes if it could not be read, but for changes the watcher
\* is about to process, those made between the walk and the start of the watcher
\* (missed: till the next start), and the files a crash or a failed save split
\* (torn: till they are parsed again).
LoadMirrorsDisk ==
    (proc = "running" /\ how # "cached") =>
        \A f \in Files \ (torn \cup missed) : disk[f] = seen[f] => Mirror(f, graph[f])

\* A stored mtime that would make the next start skip a file goes with rows
\* parsed from that very content, or with none if that content could not be
\* parsed, though the goroutines that write both run in any order, fail and are
\* cut by crashes; unless the file is torn.
SkipIsSound ==
    (proc = "down" /\ saved) =>
        \A f \in Files \ torn : (hashes[f] # 0 /\ hashes[f] = disk[f]) => Mirror(f, rows[f])
=============================================================================
