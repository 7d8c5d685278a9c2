-------------------------- MODULE WatcherPipeline --------------------------
(***************************************************************************)
(* The incremental re-parse pipeline of internal/watcher: how a change of  *)
(* a file on disk reaches the in-memory code graph.                        *)
(*                                                                         *)
(*   disk --fsnotify--> loop/handleEvent --debounce timers--> workCh       *)
(*        --parse workers--> parseCh --mergeLoop/applyBatch--> graph       *)
(*                                                                         *)
(* A file's content is abstracted to a version number, 0 when the file is  *)
(* absent; the n-th content a file ever has is version n.  The nodes the   *)
(* graph holds for a file are abstracted to the set of versions they were  *)
(* parsed from: {} (no node), {v} (exactly version v), or a mixture.       *)
(* Stored call sites, the columnar index and the SQLite copy of the graph  *)
(* are not part of this module's state.                                    *)
(***************************************************************************)
EXTENDS Naturals, Sequences, FiniteSets, SequencesExt

CONSTANTS
    Files,            \* paths the watcher follows
    Workers,          \* parse worker goroutines (4 in the code)
    MaxEdits,         \* bound: contents a file can have over a behaviour
    MaxTotalEdits,    \* bound: contents all files have together
    WorkCap,          \* reparseWorkChanSize
    ParseCap,         \* parseChanSize
    BacklogThreshold, \* reparseBacklogThreshold
    MaxIOErrors,      \* bound: reads and listings of present files that fail
    Quality,          \* how the parser takes a version: see Qualities
    NoFile            \* the file field of an idle worker

Qualities == {"clean", "errors", "fails"}

ASSUME PipelineAssumption ==
    /\ IsFiniteSet(Files)
    /\ NoFile \notin Files
    /\ MaxEdits \in Nat /\ MaxIOErrors \in Nat
    /\ WorkCap \in Nat \ {0}
    /\ ParseCap \in Nat \ {0}
    /\ BacklogThreshold \in Nat \ {0}
    /\ Quality \in [1..MaxEdits -> Qualities]

VARIABLES
    disk,       \* file -> its content version and inode (0 when absent)
    edits,      \* file -> contents it has had so far
    events,     \* fw.Events: pending fsnotify events, oldest first
    timer,      \* file -> entry of w.timers: none, armed, or fired but still listed
    stray,      \* file -> armed timers that are no longer in w.timers
    due,        \* file -> timer callbacks that started and wait for w.mu
    sending,    \* file -> timer callbacks waiting for room in workCh
    workCh,     \* w.workCh
    worker,     \* parse worker -> what it is doing
    parseCh,    \* w.parseCh
    phase,      \* mergeLoop: idle, collect, prepare, or apply (reparseMu held)
    batch,      \* mergeLoop's batch, results not applied yet
    graph,      \* file -> versions its nodes in the graph come from
    hadErrors,  \* w.fileHadParseErrors
    walks,      \* full re-walks that have not listed the tree yet
    walkTodo,   \* file -> full re-walks that listed it and have not read it yet
    walkRead,   \* file -> versions a full re-walk has read and not added yet
    ioErrors,   \* reads and listings of present files that failed so far
    delivered,  \* history: file -> its current version went through the pipeline, and
                \* no removal was handled since
    tainted,    \* history: file -> two results, or a result and a removal, overlapped,
                \* or a full re-walk added nodes
    relies,     \* history: files whose pending re-parse was left to a walk in walks
    dropped,    \* history: file -> an I/O error ended a re-parse of its current version
    erring      \* history: file -> results with syntax errors in a row, 2 for more

diskVars   == <<disk, edits>>
timerVars  == <<timer, stray, due, sending>>
workerVars == <<workCh, worker, parseCh>>
mergeVars  == <<phase, batch>>
graphVars  == <<graph, hadErrors>>
walkVars   == <<walks, walkTodo, walkRead>>
lossVars   == <<ioErrors, relies, dropped>>
history    == <<delivered, tainted, erring>>
vars == <<diskVars, events, timerVars, workerVars, mergeVars, graphVars,
          walkVars, lossVars, history>>

Versions == 0..MaxEdits
Content  == [ver: Versions, ino: Versions]
Event    == [file: Files, op: {"write", "remove"}]
\* parseFileResult: ver = 0 stands for a result that carries an error.
Result   == [file: Files, ver: Versions]
Gone       == [ver |-> 0, ino |-> 0]
IdleWorker == [st |-> "idle", file |-> NoFile, ino |-> 0, ver |-> 0]
WorkerState == [st: {"reading", "parsed"}, file: Files, ino: Versions, ver: Versions]
                  \cup {IdleWorker}
Present(f) == disk[f].ver # 0
\* The parser gets nodes out of the file.
Readable(f) == Present(f) /\ Quality[disk[f].ver] # "fails"

\* A result of f carrying a version is between a worker's read and applyBatch.
Carried(f) ==
    \/ \E w \in Workers : worker[w].st = "parsed" /\ worker[w].file = f /\ worker[w].ver # 0
    \/ \E r \in Range(parseCh) \cup Range(batch) : r.file = f /\ r.ver # 0

\* Some worker has taken f and not handed its result over.
BeingParsed(f) == \E w \in Workers : worker[w].file = f

Init ==
    /\ \E present \in SUBSET Files :
          /\ disk  = [f \in Files |-> IF f \in present /\ MaxEdits > 0
                                      THEN [ver |-> 1, ino |-> 1] ELSE Gone]
          /\ edits = [f \in Files |-> disk[f].ver]
          /\ graph = [f \in Files |-> IF Readable(f) THEN {disk[f].ver} ELSE {}]
    /\ events = <<>>
    /\ timer   = [f \in Files |-> "none"]
    /\ stray   = [f \in Files |-> 0]
    /\ due     = [f \in Files |-> 0]
    /\ sending = [f \in Files |-> 0]
    /\ workCh = <<>>
    /\ worker = [w \in Workers |-> IdleWorker]
    /\ parseCh = <<>>
    /\ phase = "idle"
    /\ batch = <<>>
    /\ hadErrors = [f \in Files |-> FALSE]
    /\ walks = 0
    /\ walkTodo = [f \in Files |-> 0]
    /\ walkRead = [f \in Files |-> {}]
    /\ ioErrors = 0
    /\ delivered = [f \in Files |-> TRUE]
    /\ tainted   = [f \in Files |-> FALSE]
    /\ relies = {}
    /\ dropped = [f \in Files |-> FALSE]
    /\ erring  = [f \in Files |-> 0]

-----------------------------------------------------------------------------
\* The environment: editors and tools that change the project's files.

TotalEdits == FoldFunction(LAMBDA m, n : m + n, 0, edits)

\* A file gets new content, in place or by renaming a temporary file over it;
\* either way fsnotify reports it as Write or Create.
Edit(f) ==
    /\ edits[f] < MaxEdits
    /\ TotalEdits < MaxTotalEdits
    /\ edits' = [edits EXCEPT ![f] = @ + 1]
    /\ \E ino \in {disk[f].ino, edits[f] + 1} \ {0} :
          disk' = [disk EXCEPT ![f] = [ver |-> edits[f] + 1, ino |-> ino]]
    /\ events' = Append(events, [file |-> f, op |-> "write"])
    /\ delivered' = [delivered EXCEPT ![f] = FALSE]
    /\ dropped' = [dropped EXCEPT ![f] = FALSE]
    /\ UNCHANGED <<timerVars, workerVars, mergeVars, graphVars, walkVars, ioErrors,
                   relies, tainted, erring>>

\* A file is deleted or renamed away.
Unlink(f) ==
    /\ Present(f)
    /\ disk' = [disk EXCEPT ![f] = Gone]
    /\ events' = Append(events, [file |-> f, op |-> "remove"])
    /\ delivered' = [delivered EXCEPT ![f] = FALSE]
    /\ dropped' = [dropped EXCEPT ![f] = FALSE]
    /\ UNCHANGED <<edits, timerVars, workerVars, mergeVars, graphVars, walkVars, ioErrors,
                   relies, tainted, erring>>

-----------------------------------------------------------------------------
\* loop, handleEvent and debounce.

\* What the histories of f are once its nodes are removed.
Forgets(f) ==
    /\ tainted' = [tainted EXCEPT ![f] = Carried(f) \/ (@ /\ BeingParsed(f))]
    /\ erring' = [erring EXCEPT ![f] = 0]
    /\ delivered' = [delivered EXCEPT ![f] = FALSE]

\* Mutant: the remove path forgets RemoveFile.
HandleRemoveKeepsNodes ==
    /\ events # <<>>
    /\ Head(events).op = "remove"
    /\ phase # "apply"
    /\ hadErrors' = [hadErrors EXCEPT ![Head(events).file] = FALSE]
    /\ Forgets(Head(events).file)
    /\ events' = Tail(events)
    /\ UNCHANGED <<diskVars, timerVars, workerVars, mergeVars, graph, walkVars, lossVars>>

\* handleEvent for Remove and Rename.  It waits for reparseMu, so it never runs
\* while a batch is being applied; results already read are not withdrawn.
HandleRemove ==
    /\ events # <<>>
    /\ Head(events).op = "remove"
    /\ phase # "apply"
    /\ LET f == Head(events).file IN
          /\ graph' = [graph EXCEPT ![f] = {}]
          /\ hadErrors' = [hadErrors EXCEPT ![f] = FALSE]
          /\ Forgets(f)
    /\ events' = Tail(events)
    /\ UNCHANGED <<diskVars, timerVars, workerVars, mergeVars, walkVars, lossVars>>

Listed == {f \in Files : timer[f] # "none"}

\* debounce finds a timer for the path: Stop it and Reset it.  A timer that has
\* already fired is armed again although its callback is on its way.
Rearm(f) ==
    /\ timer[f] # "none"
    /\ timer' = [timer EXCEPT ![f] = "armed"]
    /\ UNCHANGED <<stray, due, sending, walks, relies>>

NewTimer(f) ==
    /\ timer[f] = "none"
    /\ Cardinality(Listed) < BacklogThreshold
    /\ timer' = [timer EXCEPT ![f] = "armed"]
    /\ UNCHANGED <<stray, due, sending, walks, relies>>

\* Thundering herd protection: every listed timer is cancelled (a callback that
\* already started is not) and one full re-walk of the tree is launched.
FullRewalk(f) ==
    /\ timer[f] = "none"
    /\ Cardinality(Listed) >= BacklogThreshold
    /\ timer' = [g \in Files |-> "none"]
    /\ walks' = walks + 1
    /\ relies' = relies \cup {f} \cup {g \in Files : timer[g] = "armed"}
    /\ UNCHANGED <<stray, due, sending>>

HandleWrite ==
    /\ events # <<>>
    /\ Head(events).op = "write"
    /\ LET f == Head(events).file IN Rearm(f) \/ NewTimer(f) \/ FullRewalk(f)
    /\ events' = Tail(events)
    /\ UNCHANGED <<diskVars, workerVars, mergeVars, graphVars, walkTodo, walkRead,
                   ioErrors, dropped, history>>

TimerFires(f) ==
    /\ \/ /\ timer[f] = "armed"
          /\ timer' = [timer EXCEPT ![f] = "fired"]
          /\ UNCHANGED stray
       \/ /\ stray[f] > 0
          /\ stray' = [stray EXCEPT ![f] = @ - 1]
          /\ UNCHANGED timer
    /\ due' = [due EXCEPT ![f] = @ + 1]
    /\ UNCHANGED <<diskVars, events, sending, workerVars, mergeVars, graphVars,
                   walkVars, lossVars, history>>

\* The callback takes w.mu and deletes the path's entry, whichever timer is
\* listed there; an entry that was armed again keeps running unlisted.
CallbackRuns(f) ==
    /\ due[f] > 0
    /\ due' = [due EXCEPT ![f] = @ - 1]
    /\ stray' = [stray EXCEPT ![f] = IF timer[f] = "armed" THEN @ + 1 ELSE @]
    /\ timer' = [timer EXCEPT ![f] = "none"]
    /\ sending' = [sending EXCEPT ![f] = @ + 1]
    /\ UNCHANGED <<diskVars, events, workerVars, mergeVars, graphVars, walkVars,
                   lossVars, history>>

\* Mutant: a callback that finds workCh full gives up (select with default).
SendWorkOrDrop(f) ==
    /\ sending[f] > 0
    /\ sending' = [sending EXCEPT ![f] = @ - 1]
    /\ workCh' = IF Len(workCh) < WorkCap THEN Append(workCh, f) ELSE workCh
    /\ UNCHANGED <<diskVars, events, timer, stray, due, worker, parseCh, mergeVars,
                   graphVars, walkVars, lossVars, history>>

SendWork(f) ==
    /\ sending[f] > 0
    /\ Len(workCh) < WorkCap
    /\ sending' = [sending EXCEPT ![f] = @ - 1]
    /\ workCh' = Append(workCh, f)
    /\ UNCHANGED <<diskVars, events, timer, stray, due, worker, parseCh, mergeVars,
                   graphVars, walkVars, lossVars, history>>

-----------------------------------------------------------------------------
\* Parse workers: prepareParseResult, without any lock.

\* Take the next path and Lstat it.
StartRead(w) ==
    /\ worker[w].st = "idle"
    /\ workCh # <<>>
    /\ LET f == Head(workCh) IN
          /\ worker' = [worker EXCEPT ![w] = [st |-> "reading", file |-> f,
                                              ino |-> disk[f].ino, ver |-> 0]]
          /\ tainted' = [tainted EXCEPT ![f] = @ \/ BeingParsed(f) \/ Carried(f)]
    /\ workCh' = Tail(workCh)
    /\ UNCHANGED <<diskVars, events, timerVars, parseCh, mergeVars, graphVars,
                   walkVars, lossVars, delivered, erring>>

\* Mutant: the inode comparison is inverted.
ReadResultInverted(w) ==
    LET d == disk[worker[w].file] IN
    IF d.ver = 0 \/ worker[w].ino = d.ino THEN 0 ELSE d.ver

\* What ReadFile, the second Lstat and the parser make of the path: no version
\* when the file is gone, was replaced since the first Lstat, or does not parse.
ReadResult(w) ==
    LET d == disk[worker[w].file] IN
    IF \/ d.ver = 0
       \/ worker[w].ino # 0 /\ worker[w].ino # d.ino
       \/ Quality[d.ver] = "fails"
    THEN 0
    ELSE d.ver

\* A version the parser fails on has gone as far as it ever will.
ParserFails(w) ==
    LET d == disk[worker[w].file] IN
    /\ d.ver # 0
    /\ worker[w].ino # 0 => worker[w].ino = d.ino
    /\ Quality[d.ver] = "fails"

FinishRead(w) ==
    /\ worker[w].st = "reading"
    /\ worker' = [worker EXCEPT ![w] = [st |-> "parsed", file |-> worker[w].file,
                                        ino |-> worker[w].ino, ver |-> ReadResult(w)]]
    /\ delivered' = [delivered EXCEPT ![worker[w].file] = @ \/ ParserFails(w)]
    /\ UNCHANGED <<diskVars, events, timerVars, workCh, parseCh, mergeVars, graphVars,
                   walkVars, lossVars, tainted, erring>>

IOError == ioErrors < MaxIOErrors /\ ioErrors' = ioErrors + 1

\* ReadFile fails on a file that is there; the result carries the error and
\* nobody tries again.
ReadFails(w) ==
    /\ IOError
    /\ worker[w].st = "reading"
    /\ Present(worker[w].file)
    /\ worker' = [worker EXCEPT ![w] = [st |-> "parsed", file |-> worker[w].file,
                                        ino |-> worker[w].ino, ver |-> 0]]
    /\ dropped' = [dropped EXCEPT ![worker[w].file] = TRUE]
    /\ UNCHANGED <<diskVars, events, timerVars, workCh, parseCh, mergeVars, graphVars,
                   walkVars, relies, history>>

SendResult(w) ==
    /\ worker[w].st = "parsed"
    /\ Len(parseCh) < ParseCap
    /\ parseCh' = Append(parseCh, [file |-> worker[w].file, ver |-> worker[w].ver])
    /\ worker' = [worker EXCEPT ![w] = IdleWorker]
    /\ UNCHANGED <<diskVars, events, timerVars, workCh, mergeVars, graphVars, walkVars,
                   lossVars, history>>

-----------------------------------------------------------------------------
\* mergeLoop and applyBatch.

\* The loop takes a first result and then everything it can get without waiting.
Collect ==
    /\ phase \in {"idle", "collect"}
    /\ parseCh # <<>>
    /\ batch' = Append(batch, Head(parseCh))
    /\ parseCh' = Tail(parseCh)
    /\ phase' = "collect"
    /\ UNCHANGED <<diskVars, events, timerVars, workCh, worker, graphVars, walkVars,
                   lossVars, history>>

EndCollect ==
    /\ phase = "collect"
    /\ parseCh = <<>>
    /\ phase' = "prepare"
    /\ UNCHANGED <<diskVars, events, timerVars, workerVars, batch, graphVars, walkVars,
                   lossVars, history>>

\* applyBatch, its call sites read, takes reparseMu.
BeginApply ==
    /\ phase = "prepare"
    /\ phase' = "apply"
    /\ UNCHANGED <<diskVars, events, timerVars, workerVars, batch, graphVars, walkVars,
                   lossVars, history>>

HasErrors(r) == Quality[r.ver] = "errors"

\* The first parse of a file with syntax errors is skipped and remembered.
Skipped(r) == HasErrors(r) /\ ~hadErrors[r.file]

\* Mutant: a clean result does not take the file's flag away.
FlagStays(r) == hadErrors[r.file] \/ HasErrors(r)

\* What fileHadParseErrors says of the file from now on.
FlagAfter(r) == HasErrors(r)

\* No other result of the file is on its way.
Alone(f) ==
    /\ ~BeingParsed(f)
    /\ \A r \in Range(parseCh) \cup Range(Tail(batch)) : r.file # f

\* One result of the batch: dropped when it carries an error, skipped, or merged
\* in place of the file's nodes.  No version is compared with the one merged before.
ApplyOne ==
    /\ phase = "apply"
    /\ batch # <<>>
    /\ LET r == Head(batch)
           f == r.file IN
          IF r.ver = 0 THEN UNCHANGED <<graphVars, history>>
          ELSE /\ hadErrors' = [hadErrors EXCEPT ![f] = FlagAfter(r)]
               /\ graph' = [graph EXCEPT ![f] = IF Skipped(r) THEN @ ELSE {r.ver}]
               /\ delivered' = [delivered EXCEPT ![f] = @ \/ r.ver = disk[f].ver]
               /\ tainted' = [tainted EXCEPT ![f] =
                      @ /\ (Skipped(r) \/ ~Alone(f) \/ r.ver # disk[f].ver)]
               /\ erring' = [erring EXCEPT ![f] = IF ~HasErrors(r) THEN 0
                                                  ELSE IF @ = 0 THEN 1 ELSE 2]
    /\ batch' = Tail(batch)
    /\ UNCHANGED <<diskVars, events, timerVars, workerVars, phase, walkVars, lossVars>>

EndApply ==
    /\ phase = "apply"
    /\ batch = <<>>
    /\ phase' = "idle"
    /\ UNCHANGED <<diskVars, events, timerVars, workerVars, batch, graphVars, walkVars,
                   lossVars, history>>

-----------------------------------------------------------------------------
\* The full re-walk (Walker.WalkDir on the live graph, no reparseMu).

\* The tree is listed, in one step here; then the listed files are read.
WalkLists ==
    /\ walks > 0
    /\ walks' = walks - 1
    /\ walkTodo' = [f \in Files |-> IF Present(f) THEN walkTodo[f] + 1 ELSE walkTodo[f]]
    /\ relies' = {}
    /\ UNCHANGED <<diskVars, events, timerVars, workerVars, mergeVars, graphVars, walkRead,
                   ioErrors, dropped, history>>

\* A directory that vanishes or cannot be read ends the walk before it has read
\* a file.  debounce logs the error: the timers it cancelled are not armed again.
WalkAborts ==
    /\ IOError
    /\ walks > 0
    /\ walks' = walks - 1
    /\ IF walks = 1
       THEN /\ dropped' = [f \in Files |-> dropped[f] \/ f \in relies]
            /\ relies' = {}
       ELSE UNCHANGED <<dropped, relies>>
    /\ UNCHANGED <<diskVars, events, timerVars, workerVars, mergeVars, graphVars, walkTodo,
                   walkRead, history>>

WalkReads(f) ==
    /\ walkTodo[f] > 0
    /\ walkTodo' = [walkTodo EXCEPT ![f] = @ - 1]
    /\ walkRead' = [walkRead EXCEPT ![f] =
                       IF Readable(f) THEN @ \cup {disk[f].ver} ELSE @]
    /\ delivered' = [delivered EXCEPT ![f] = @ \/ (Present(f) /\ ~Readable(f))]
    /\ UNCHANGED <<diskVars, events, timerVars, workerVars, mergeVars, graphVars, walks,
                   lossVars, tainted, erring>>

\* A file of the tree cannot be stat'ed or read; at most the error is logged.
WalkReadFails(f) ==
    /\ IOError
    /\ walkTodo[f] > 0
    /\ Present(f)
    /\ walkTodo' = [walkTodo EXCEPT ![f] = @ - 1]
    /\ dropped' = [dropped EXCEPT ![f] = TRUE]
    /\ UNCHANGED <<diskVars, events, timerVars, workerVars, mergeVars, graphVars, walks,
                   walkRead, relies, history>>

\* Parsed nodes are added over whatever the graph holds; nothing is removed.
WalkAdds(f) ==
    /\ \E v \in walkRead[f] :
          /\ graph' = [graph EXCEPT ![f] = @ \cup {v}]
          /\ walkRead' = [walkRead EXCEPT ![f] = @ \ {v}]
          /\ delivered' = [delivered EXCEPT ![f] = @ \/ v = disk[f].ver]
    /\ tainted' = [tainted EXCEPT ![f] = TRUE]
    /\ UNCHANGED <<diskVars, events, timerVars, workerVars, mergeVars, hadErrors, walks,
                   walkTodo, lossVars, erring>>

-----------------------------------------------------------------------------
Environment == \E f \in Files : Edit(f) \/ Unlink(f)

Failures ==
    \/ WalkAborts
    \/ \E f \in Files : WalkReadFails(f)
    \/ \E w \in Workers : ReadFails(w)

Daemon ==
    \/ HandleRemove
    \/ HandleWrite
    \/ \E f \in Files : TimerFires(f) \/ CallbackRuns(f) \/ SendWork(f)
    \/ \E w \in Workers : StartRead(w) \/ FinishRead(w) \/ SendResult(w)
    \/ Collect \/ EndCollect \/ BeginApply \/ ApplyOne \/ EndApply
    \/ WalkLists
    \/ \E f \in Files : WalkReads(f) \/ WalkAdds(f)

Next == Environment \/ Failures \/ Daemon

Spec == Init /\ [][Next]_vars

\* Goroutines that can run do run, timers fire, channels are served; nobody
\* has to edit files and no read has to fail.  A callback blocked on a full workCh is one of several
\* senders of that channel, which Go serves in arrival order: hence SF.
Fairness ==
    /\ WF_vars(HandleRemove) /\ WF_vars(HandleWrite)
    /\ \A f \in Files : /\ WF_vars(TimerFires(f)) /\ WF_vars(CallbackRuns(f))
                        /\ SF_vars(SendWork(f))
                        /\ WF_vars(WalkReads(f)) /\ WF_vars(WalkAdds(f))
    /\ \A w \in Workers : /\ WF_vars(StartRead(w)) /\ WF_vars(FinishRead(w))
                          /\ SF_vars(SendResult(w))
    /\ WF_vars(WalkLists)
    /\ WF_vars(Collect) /\ WF_vars(EndCollect) /\ WF_vars(BeginApply)
    /\ WF_vars(ApplyOne) /\ WF_vars(EndApply)

FairSpec == Spec /\ Fairness

-----------------------------------------------------------------------------
TypeOK ==
    /\ disk \in [Files -> Content]
    /\ edits \in [Files -> Versions]
    /\ events \in Seq(Event)
    /\ timer \in [Files -> {"none", "armed", "fired"}]
    /\ stray \in [Files -> Nat]
    /\ due \in [Files -> Nat]
    /\ sending \in [Files -> Nat]
    /\ workCh \in Seq(Files)
    /\ worker \in [Workers -> WorkerState]
    /\ parseCh \in Seq(Result)
    /\ phase \in {"idle", "collect", "prepare", "apply"}
    /\ batch \in Seq(Result)
    /\ graph \in [Files -> SUBSET (1..MaxEdits)]
    /\ hadErrors \in [Files -> BOOLEAN]
    /\ walks \in Nat
    /\ walkTodo \in [Files -> Nat]
    /\ walkRead \in [Files -> SUBSET (1..MaxEdits)]
    /\ ioErrors \in 0..MaxIOErrors
    /\ delivered \in [Files -> BOOLEAN]
    /\ tainted \in [Files -> BOOLEAN]
    /\ relies \in SUBSET Files
    /\ dropped \in [Files -> BOOLEAN]
    /\ erring \in [Files -> 0..2]

\* A stage that will still read f's content from the disk, so that it cannot
\* miss the current version.
WillRead(f) ==
    \/ \E e \in Range(events) : e = [file |-> f, op |-> "write"]
    \/ timer[f] = "armed" \/ stray[f] > 0
    \/ due[f] > 0
    \/ sending[f] > 0
    \/ f \in Range(workCh)
    \/ \E w \in Workers : /\ worker[w].st = "reading" /\ worker[w].file = f
                          /\ worker[w].ino \in {0, disk[f].ino}
    \/ walks > 0 /\ f \in relies
    \/ walkTodo[f] > 0

\* A result that carries f's current version is on its way to the graph.
OnItsWay(f) ==
    \/ \E w \in Workers : /\ worker[w].st = "parsed" /\ worker[w].file = f
                          /\ worker[w].ver = disk[f].ver
    \/ \E r \in Range(parseCh) \cup Range(batch) : r = [file |-> f, ver |-> disk[f].ver]
    \/ disk[f].ver \in walkRead[f]

\* No change is lost between the disk and the merge goroutine: whatever the
\* order of events, timer callbacks, re-armed and cancelled timers, discarded
\* reads, re-walks and full channels, a present file whose current content has not
\* been handed to applyBatch (or to a full re-walk) still has a stage of the
\* pipeline holding it, unless an I/O error ended one of its re-parses
\* (debounce's "prevents silent drops that would leave files permanently stale").
NoLostUpdate ==
    \A f \in Files : Present(f) /\ ~delivered[f] => WillRead(f) \/ OnItsWay(f) \/ dropped[f]

Quiet(f) ==
    /\ \A e \in Range(events) : e.file # f
    /\ timer[f] = "none" /\ stray[f] = 0 /\ due[f] = 0 /\ sending[f] = 0
    /\ f \notin Range(workCh)
    /\ ~BeingParsed(f)
    /\ \A r \in Range(parseCh) \cup Range(batch) : r.file # f
    /\ walks = 0 /\ walkTodo[f] = 0 /\ walkRead[f] = {}

\* What the graph should hold for f: the nodes of its current content.  A content
\* with syntax errors is held back when the result before it had none, and only
\* then.  (Version 1 may be in the graph since the index was built.)
GraphCurrent(f) ==
    LET v == disk[f].ver IN
    /\ ~Present(f) => graph[f] = {}
    /\ Present(f) /\ Quality[v] = "clean" => graph[f] = {v}
    /\ Present(f) /\ Quality[v] = "errors" =>
           IF erring[f] = 1 THEN graph[f] # {v} \/ v = 1 ELSE graph[f] = {v}

\* An I/O error took f's current version away and no other re-parse brought it.
Lost(f) == Present(f) /\ dropped[f] /\ ~delivered[f]

\* Once nothing is pending for a file, the graph mirrors it exactly, unless
\* two of its results (or a result and its removal, or a full re-walk)
\* overlapped since it was last merged or removed alone, or an I/O error took its
\* content away.  So those are the only ways the watcher can leave a stale, ghost
\* or mixed file behind; and a content with errors waits for a second one in a row,
\* whatever was merged and removed in between.
MirrorAtRest == \A f \in Files : Quiet(f) /\ ~tainted[f] /\ ~Lost(f) => GraphCurrent(f)

\* Every content of a file that stays in place is eventually handed to the
\* merge goroutine, unless an I/O error takes it away: no full channel, re-armed
\* timer or herd cancellation starves a file.
EventuallyDelivered ==
    \A f \in Files : Present(f) ~> (delivered[f] \/ dropped[f] \/ ~Present(f))

-----------------------------------------------------------------------------
\* What the source's comments say of the watcher, and the code does not do.

\* watcher.go:118 "keeps a Graph current as files change": a file that exists
\* and has nothing pending is in the graph as it is on disk.
PresentFilesCurrent == \A f \in Files : Quiet(f) /\ Present(f) => GraphCurrent(f)
=============================================================================
