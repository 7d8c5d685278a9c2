---------------------------- MODULE ProjectCacheProofs ----------------------------
(***************************************************************************)
(* For any files, edits and starts: what the daemon loads is what is on    *)
(* disk, whatever earlier runs left in the cache.                          *)
(***************************************************************************)
EXTENDS ProjectCache, TLAPS

\* The next start would skip the file.
Matches(f) == hashes[f] # 0 /\ hashes[f] = disk[f]

\* A content never comes back: what was heard or stored of a file is not newer than it.
PastOnly ==
  \A f \in Files : /\ disk[f] <= edits[f] /\ seen[f] <= edits[f] /\ fresh[f] <= edits[f]
                   /\ hashes[f] <= edits[f] \/ hashes[f] = ByClock

IdleJobs == proc \notin {"running", "stopping"} => jobs = {}

\* Between two runs.
Resting ==
  proc = "down" /\ saved => \A f \in Files \ torn :
    /\ Matches(f) => Mirror(f, rows[f])
    /\ hashes[f] = 0 => rows[f] = 0

\* Nodes that agree with a recorded version, or are missing for want of a parse.
Recorded(f, version) == graph[f] = version \/ (f \in unread /\ graph[f] = 0)

\* While the graph is loaded: what the walk knows of the files it has passed.
Loading ==
  proc \in {"walking", "hashing", "saving"} =>
    /\ how \in {"smart", "full"} /\ (how = "smart" <=> saved)
    /\ proc # "walking" => todo = {}
    /\ \A f \in todo : fresh[f] = 0
    /\ \A f \in Files \ todo : \/ fresh[f] = disk[f]
                               \/ f \in missed /\ ~Matches(f)
                               \/ f \in unread /\ fresh[f] = 0

Walking ==
  proc = "walking" => \A f \in Files \ torn :
    /\ fresh[f] = 0 /\ (how = "full" \/ hashes[f] = 0) => graph[f] = 0
    /\ fresh[f] # 0 => Recorded(f, fresh[f])
    /\ how = "smart" => /\ Matches(f) => Mirror(f, rows[f])
                        /\ f \in todo => graph[f] = rows[f]

Walked ==
  /\ proc \in {"hashing", "saving"} => \A f \in Files \ torn : Recorded(f, fresh[f])
  /\ proc = "hashing" /\ how = "smart" =>
        \A f \in Files \ torn : Matches(f) => Mirror(f, rows[f])

\* While the watcher runs and until its goroutines have ended.
Live ==
  proc \in {"running", "stopping"} =>
    /\ \A f \in Files \ torn : Matches(f) => Mirror(f, rows[f]) /\ Mirror(f, graph[f])
    /\ \A j \in jobs : ~Matches(j.file)
    /\ proc = "running" => \A f \in Files :
         /\ Matches(f) => seen[f] = disk[f]
         /\ how # "cached" /\ f \notin torn \cup missed => Recorded(f, seen[f])

-----------------------------------------------------------------------------
\* Every reachable state is well typed: versions stay within the bound, and no stored
\* mtime is one but ByClock that is not a version.
THEOREM TypeCorrect == Spec => []TypeOK
<1> USE CacheAssumption
<1>0. NoFiles \in [Files -> Versions] /\ NoFiles \in [Files -> 0..ByClock]
  <2>1. 0 \in Versions /\ 0 \in 0..ByClock
    BY DEF Versions, ByClock
  <2> QED BY <2>1 DEF NoFiles
<1>1. Init => TypeOK
  <2> SUFFICES ASSUME Init PROVE TypeOK
    OBVIOUS
  <2>1. disk \in [Files -> Versions] /\ edits \in [Files -> Versions]
    BY DEF Init
  <2>2. boots \in 0..MaxBoots
    BY DEF Init
  <2> QED BY <1>0, <2>1, <2>2 DEF Init, TypeOK
<1>2. TypeOK /\ [Next]_vars => TypeOK'
  <2> SUFFICES ASSUME TypeOK, [Next]_vars PROVE TypeOK'
    OBVIOUS
  <2> USE DEF TypeOK, memory, sqlite, history
  <2>0. \A x \in Versions : x \in 0..ByClock
    BY DEF Versions, ByClock
  <2>job. \A j \in jobs : /\ j \in Job /\ j.file \in Files /\ j.id \in Versions
                          /\ j.nodes \in Versions
    BY DEF Job
  <2>moves. ASSUME NEW j, NEW k \in Job, JobMoves(j, k) PROVE jobs' \subseteq Job
    BY <2>moves DEF JobMoves
  <2>1. ASSUME NEW f \in Files, Edit(f) \/ Unlink(f) PROVE TypeOK'
    <3>1. missed' \subseteq Files
      BY <2>1 DEF Edit, Unlink, Changes
    <3>2. disk' \in [Files -> Versions] /\ edits' \in [Files -> Versions]
      <4>1. CASE Edit(f)
        <5>1. edits[f] + 1 \in Versions
          BY <4>1 DEF Edit, Versions
        <5> QED BY <4>1, <5>1 DEF Edit
      <4>2. CASE Unlink(f)
        BY <4>2 DEF Unlink, Versions
      <4> QED BY <2>1, <4>1, <4>2
    <3> QED BY <2>1, <3>1, <3>2 DEF Edit, Unlink
  <2>2. CASE Boot
    <3>1. boots' \in 0..MaxBoots
      BY <2>2 DEF Boot
    <3>2. /\ graph' \in [Files -> Versions] /\ how' \in {"smart", "full", "cached"}
          /\ proc' \in {"walking", "running"} /\ todo' \subseteq Files
      BY <1>0, <2>2 DEF Boot, BootSmart, BootCached, BootFull
    <3> QED BY <1>0, <2>2, <3>1, <3>2 DEF Boot
  <2>3. ASSUME NEW f \in Files, WalkVisits(f) \/ WalkFailsToRead(f) \/ WalkMisses(f) PROVE TypeOK'
    <3>1. 0 \in Versions
      BY DEF Versions
    <3> QED BY <2>3, <3>1 DEF WalkVisits, WalkFailsToRead, WalkMisses
  <2>4. CASE WalkEnds
    <3>1. graph' \in [Files -> Versions] /\ torn' \subseteq Files
      BY <2>4 DEF WalkEnds, Versions
    <3> QED BY <2>4, <3>1 DEF WalkEnds
  <2>5. CASE SavesMtimes
    <3>1. fresh \in [Files -> 0..ByClock]
      BY <2>0
    <3> QED BY <2>5, <3>1 DEF SavesMtimes
  <2>6. CASE SavesGraph
    <3>1. torn' \subseteq Files /\ rows' \in [Files -> Versions] /\ saved' \in BOOLEAN
      BY <2>6 DEF SavesGraph, Unhashed, Split
    <3> QED BY <2>6, <3>1 DEF SavesGraph
  <2>7. ASSUME NEW f \in Files, WatcherMerges(f) \/ WatcherRemoves(f) PROVE TypeOK'
    <3>1. \A x \in Versions : [file |-> f, id |-> x, st |-> "start", nodes |-> 0] \in Job
      BY DEF Job, Versions
    <3>2. 0 \in Versions
      BY DEF Versions
    <3>3. jobs' \subseteq Job
      BY <2>7, <3>1, <3>2 DEF WatcherMerges, WatcherRemoves
    <3> QED BY <2>7, <3>2, <3>3 DEF WatcherMerges, WatcherRemoves
  <2>8. ASSUME NEW j \in jobs, JobReads(j) \/ JobCommits(j) PROVE TypeOK'
    <3>1. /\ \A x \in Versions : [j EXCEPT !.st = "read", !.nodes = x] \in Job
          /\ [j EXCEPT !.st = "committed"] \in Job
      BY <2>job DEF Job
    <3>2. jobs' \subseteq Job
      BY <2>8, <2>job, <2>moves, <3>1 DEF JobReads, JobCommits
    <3>3. rows' \in [Files -> Versions]
      BY <2>8, <2>job DEF JobReads, JobCommits
    <3> QED BY <2>8, <3>2, <3>3 DEF JobReads, JobCommits
  <2>9. ASSUME NEW j \in jobs, JobStamps(j) PROVE TypeOK'
    <3>1. ByClock \in 0..ByClock
      BY DEF ByClock
    <3>2. hashes' \in [Files -> 0..ByClock]
      BY <2>9, <2>job, <3>1 DEF JobStamps, Stamps
    <3> QED BY <2>9, <3>2 DEF JobStamps
  <2>10. ASSUME NEW j \in jobs, JobSavesAll(j) PROVE TypeOK'
    BY <2>10 DEF JobSavesAll
  <2>11. CASE Stop \/ Stopped \/ Crash
    <3>1. torn' \subseteq Files
      BY <2>11 DEF Stop, Stopped, Crash, Unhashed, Split
    <3> QED BY <2>11, <3>1 DEF Stop, Stopped, Crash
  <2>12. CASE UNCHANGED vars
    BY <2>12 DEF vars
  <2> QED BY <2>1, <2>2, <2>3, <2>4, <2>5, <2>6, <2>7, <2>8, <2>9, <2>10, <2>11, <2>12
          DEF Next, Environment, Load, Running
<1> QED BY <1>1, <1>2, PTL DEF Spec

-----------------------------------------------------------------------------
\* The state of the cache, in each phase of a run.
CacheKept == PastOnly /\ IdleJobs /\ Resting /\ Loading /\ Walking /\ Walked /\ Live

\* A change makes every stored mtime of the file obsolete, and touches no other file.
LEMMA ChangeUnmatches ==
  ASSUME TypeOK, PastOnly, NEW f \in Files, Edit(f) \/ Unlink(f)
  PROVE  /\ ~Matches(f)' /\ PastOnly'
         /\ \A g \in Files \ {f} : disk'[g] = disk[g]
         /\ missed \subseteq missed'
         /\ proc \in {"walking", "hashing", "saving"} /\ f \notin todo => f \in missed'
<1> USE CacheAssumption DEF TypeOK, memory, sqlite
<1>1. CASE Edit(f)
  <2>1. hashes[f] # edits[f] + 1
    BY <1>1 DEF Edit, PastOnly, ByClock, Versions
  <2>2. disk' = [disk EXCEPT ![f] = edits[f] + 1] /\ hashes' = hashes
    BY <1>1 DEF Edit
  <2>3. ~Matches(f)'
    BY <2>1, <2>2 DEF Matches
  <2>4. PastOnly'
    <3>1. \A g \in Files : edits'[g] = IF g = f THEN edits[g] + 1 ELSE edits[g]
      BY <1>1 DEF Edit
    <3>2. \A g \in Files : disk'[g] = IF g = f THEN edits[g] + 1 ELSE disk[g]
      BY <2>2
    <3>3. \A g \in Files : edits[g] \in Nat /\ seen[g] \in Nat /\ fresh[g] \in Nat /\ disk[g] \in Nat
                           /\ hashes[g] \in Nat
      BY DEF Versions, ByClock
    <3>4. seen' = seen /\ fresh' = fresh /\ hashes' = hashes
      BY <1>1 DEF Edit
    <3> QED BY <3>1, <3>2, <3>3, <3>4 DEF PastOnly
  <2> QED BY <1>1, <2>2, <2>3, <2>4 DEF Edit, Changes
<1>2. CASE Unlink(f)
  <2>1. ~Matches(f)'
    BY <1>2 DEF Unlink, Matches
  <2>2. PastOnly'
    BY <1>2 DEF Unlink, PastOnly, Versions
  <2> QED BY <1>2, <2>1, <2>2 DEF Unlink, Changes
<1> QED BY <1>1, <1>2

\* What a walk that comes across a file, or does not, leaves of the invariant.
LEMMA WalkSteps ==
  ASSUME TypeOK, CacheKept, NEW f \in Files,
         WalkVisits(f) \/ WalkFailsToRead(f) \/ WalkMisses(f)
  PROVE  CacheKept'
<1> USE DEF TypeOK, sqlite
<1>1. /\ proc = "walking" /\ proc' = "walking" /\ f \in todo /\ todo' = todo \ {f}
      /\ UNCHANGED <<disk, edits, how, seen, jobs, rows, hashes, saved, missed>>
      /\ torn' \subseteq torn
  BY DEF WalkVisits, WalkFailsToRead, WalkMisses
<1>2. \A g \in Files : g # f => /\ fresh'[g] = fresh[g] /\ graph'[g] = graph[g]
                                /\ (g \in torn' <=> g \in torn) /\ (g \in unread' <=> g \in unread)
  BY DEF WalkVisits, WalkFailsToRead, WalkMisses
<1>3. fresh[f] = 0 /\ (fresh'[f] = disk[f] \/ (f \in unread' /\ fresh'[f] = 0))
  BY <1>1 DEF WalkVisits, WalkFailsToRead, WalkMisses, CacheKept, Loading
<1>4. \A g \in Files : /\ Matches(g)' = Matches(g)
                       /\ g # f => /\ Mirror(g, rows[g])' = Mirror(g, rows[g])
                                   /\ Recorded(g, fresh[g])' = Recorded(g, fresh[g])
  BY <1>1, <1>2 DEF Matches, Mirror, Recorded
<1>5. PastOnly' /\ IdleJobs'
  BY <1>1, <1>2, <1>3 DEF CacheKept, PastOnly, IdleJobs
<1>6. Loading'
  BY <1>1, <1>2, <1>3, <1>4 DEF CacheKept, Loading
<1>7. Walking'
  <2>1. ASSUME NEW g \in Files \ torn', g # f
        PROVE  /\ fresh'[g] = 0 /\ (how' = "full" \/ hashes'[g] = 0) => graph'[g] = 0
               /\ fresh'[g] # 0 => Recorded(g, fresh[g])'
               /\ how' = "smart" => /\ Matches(g)' => Mirror(g, rows[g])'
                                    /\ g \in todo' => graph'[g] = rows'[g]
    BY <1>1, <1>2, <1>4, <2>1 DEF CacheKept, Walking
  <2>2. ASSUME f \notin torn'
        PROVE  /\ fresh'[f] = 0 /\ (how' = "full" \/ hashes'[f] = 0) => graph'[f] = 0
               /\ fresh'[f] # 0 => Recorded(f, fresh[f])'
               /\ how' = "smart" => /\ Matches(f)' => Mirror(f, rows[f])'
                                    /\ f \in todo' => graph'[f] = rows'[f]
    <3>1. CASE WalkVisits(f) /\ Unchanged(f)
      <4>1. Mirror(f, rows[f]) /\ f \notin torn /\ unread' = unread /\ graph' = graph
        BY <2>2, <3>1, <1>1 DEF WalkVisits, Unchanged, Matches, CacheKept, Walking
      <4>2. fresh'[f] = disk[f] /\ fresh'[f] # 0 /\ how = "smart"
        BY <3>1 DEF WalkVisits, Unchanged
      <4>3. graph[f] = rows[f]
        BY <1>1, <4>1, <4>2 DEF CacheKept, Walking
      <4> QED BY <1>1, <4>1, <4>2, <4>3 DEF Mirror, Recorded
    <3>2. CASE WalkVisits(f) /\ ~Unchanged(f)
      BY <1>1, <1>4, <3>2 DEF WalkVisits, Unchanged, Matches, Recorded
    <3>3. CASE WalkFailsToRead(f)
      <4>1. graph'[f] = 0 /\ f \in unread' /\ (how = "smart" => ~Matches(f))
        BY <3>3 DEF WalkFailsToRead, Unchanged, Matches
      <4> QED BY <1>1, <1>4, <4>1 DEF Recorded
    <3>4. CASE WalkMisses(f)
      <4>1. /\ f \notin torn /\ fresh' = fresh /\ graph' = graph
            /\ Matches(f) => unread \subseteq unread'
        BY <2>2, <3>4 DEF WalkMisses, Matches
      <4> QED BY <1>1, <1>3, <1>4, <4>1 DEF CacheKept, Walking, Mirror
    <3> QED BY <3>1, <3>2, <3>3, <3>4
  <2> QED BY <2>1, <2>2 DEF Walking
<1>8. Resting' /\ Walked' /\ Live'
  BY <1>1 DEF Resting, Walked, Live
<1> QED BY <1>5, <1>6, <1>7, <1>8 DEF CacheKept

\* A goroutine of persistAsync writes for a file that the next start re-parses anyway.
LEMMA JobSteps ==
  ASSUME TypeOK, CacheKept, NEW j \in jobs,
         JobReads(j) \/ JobCommits(j) \/ JobStamps(j) \/ JobSavesAll(j)
  PROVE  CacheKept'
<1> USE DEF TypeOK, sqlite, history
<1>1. /\ proc \in {"running", "stopping"} /\ j.file \in Files /\ ~Matches(j.file)
      /\ UNCHANGED <<disk, edits, proc, how, todo, fresh, graph, seen, history>>
  <2>1. j.file \in Files
    BY DEF Job
  <2>2. proc \in {"running", "stopping"}
    BY DEF CacheKept, IdleJobs
  <2> QED BY <2>1, <2>2 DEF CacheKept, Live, JobReads, JobCommits, JobStamps, JobSavesAll
<1>2. \A f \in Files : f # j.file => hashes'[f] = hashes[f]
  BY <1>1 DEF JobReads, JobCommits, JobStamps, Stamps, JobSavesAll
<1>3. hashes'[j.file] = hashes[j.file] \/ hashes'[j.file] = ByClock
  BY <1>1 DEF JobReads, JobCommits, JobStamps, Stamps, JobSavesAll
<1>4. \A f \in Files : Matches(f)' = Matches(f)
  <2>1. disk[j.file] # ByClock
    BY <1>1, CacheAssumption DEF ByClock, Versions
  <2> QED BY <1>1, <1>2, <1>3, <2>1 DEF Matches
<1>5. PastOnly'
  BY <1>1, <1>2, <1>3 DEF CacheKept, PastOnly
<1>6. \A k \in jobs' : k.file \in Files /\ ~Matches(k.file)
  <2>1. \A k \in jobs : k \in Job /\ k.file \in Files /\ ~Matches(k.file)
    BY <1>1 DEF CacheKept, Live, Job
  <2>2. CASE JobReads(j)
    <3>1. [j EXCEPT !.st = "read", !.nodes = graph[j.file]].file = j.file
      BY <2>1 DEF Job
    <3> QED BY <1>1, <2>1, <2>2, <3>1 DEF JobReads, JobMoves
  <2>3. CASE JobCommits(j)
    <3>1. [j EXCEPT !.st = "committed"].file = j.file
      BY <2>1 DEF Job
    <3> QED BY <1>1, <2>1, <2>3, <3>1 DEF JobCommits, JobMoves
  <2>4. CASE JobStamps(j) \/ JobSavesAll(j)
    BY <2>1, <2>4 DEF JobStamps, JobSavesAll
  <2> QED BY <2>2, <2>3, <2>4
<1>7. \A f \in Files \ torn : Matches(f) => Mirror(f, rows'[f]) /\ Mirror(f, graph[f])
  <2>1. \A f \in Files \ torn : Matches(f) => Mirror(f, rows[f]) /\ Mirror(f, graph[f])
    BY <1>1 DEF CacheKept, Live
  <2>2. CASE JobCommits(j)
    BY <1>1, <2>1, <2>2 DEF JobCommits
  <2>3. CASE JobSavesAll(j)
    BY <2>1, <2>3 DEF JobSavesAll
  <2>4. CASE JobReads(j) \/ JobStamps(j)
    BY <2>1, <2>4 DEF JobReads, JobStamps
  <2> QED BY <2>2, <2>3, <2>4, <2>1
<1>8. Live'
  <2>1. \A k \in jobs' : ~Matches(k.file)'
    BY <1>4, <1>6
  <2>2. \A f \in Files \ torn' : Matches(f)' => Mirror(f, rows[f])' /\ Mirror(f, graph[f])'
    BY <1>1, <1>4, <1>7 DEF Mirror
  <2>3. proc' = "running" => \A f \in Files :
          /\ Matches(f)' => seen'[f] = disk'[f]
          /\ how' # "cached" /\ f \notin torn' \cup missed' => Recorded(f, seen[f])'
    BY <1>1, <1>4 DEF CacheKept, Live, Recorded
  <2> QED BY <2>1, <2>2, <2>3 DEF Live
<1>9. IdleJobs' /\ Resting' /\ Loading' /\ Walking' /\ Walked'
  BY <1>1 DEF IdleJobs, Resting, Loading, Walking, Walked
<1> QED BY <1>5, <1>8, <1>9 DEF CacheKept

THEOREM CacheIsKept == Spec => []CacheKept
<1> USE DEF memory, sqlite, history
<1>1. Init => CacheKept
  BY DEF Init, NoFiles, Versions, CacheKept, PastOnly, IdleJobs, Resting, Loading, Walking, Walked, Live
<1>2. TypeOK /\ CacheKept /\ [Next]_vars => CacheKept'
  <2> SUFFICES ASSUME TypeOK, CacheKept, [Next]_vars PROVE CacheKept'
    OBVIOUS
  <2> USE DEF TypeOK, CacheKept, Mirror, Recorded
  <2>1. ASSUME NEW f \in Files, Edit(f) \/ Unlink(f) PROVE CacheKept'
    <3>1. /\ ~Matches(f)' /\ PastOnly'
          /\ \A g \in Files \ {f} : disk'[g] = disk[g]
          /\ missed \subseteq missed'
          /\ proc \in {"walking", "hashing", "saving"} /\ f \notin todo => f \in missed'
      BY <2>1, ChangeUnmatches
    <3>2. UNCHANGED <<memory, sqlite, torn, unread>>
      BY <2>1 DEF Edit, Unlink
    <3>3. \A g \in Files : Matches(g)' => g # f /\ Matches(g) /\ disk'[g] = disk[g]
      BY <3>1, <3>2 DEF Matches
    <3>4. Loading'
      BY <3>1, <3>2, <3>3 DEF Loading
    <3>5. IdleJobs' /\ Resting' /\ Walking' /\ Walked'
      BY <3>2, <3>3 DEF IdleJobs, Resting, Walking, Walked
    <3>6. Live'
      <4>1. \A j \in jobs : j.file \in Files
        BY DEF Job
      <4> QED BY <3>1, <3>2, <3>3, <4>1 DEF Live
    <3> QED BY <3>1, <3>4, <3>5, <3>6
  <2>2. CASE Boot
    <3>1. PastOnly'
      BY <2>2 DEF Boot, PastOnly, NoFiles, Versions
    <3>2. /\ proc = "down" /\ jobs' = {} /\ missed' = {} /\ fresh' = NoFiles
          /\ UNCHANGED <<disk, rows, hashes, saved, torn, unread>>
      BY <2>2 DEF Boot
    <3>3. CASE BootSmart
      <4>1. Walking'
        BY <3>2, <3>3 DEF BootSmart, NoFiles, Walking, Resting, Matches
      <4>2. Loading'
        BY <3>2, <3>3 DEF BootSmart, NoFiles, Loading
      <4> QED BY <3>1, <3>2, <3>3, <4>1, <4>2 DEF BootSmart, IdleJobs, Resting, Walked, Live
    <3>4. CASE BootCached
      <4>1. \A f \in Files : ~Matches(f)'
        BY <3>2, <3>4 DEF BootCached, NoFiles, Matches
      <4> QED BY <3>1, <3>2, <3>4, <4>1
              DEF BootCached, IdleJobs, Resting, Loading, Walking, Walked, Live
    <3>5. CASE BootFull
      <4>1. Walking' /\ Loading'
        BY <3>2, <3>5 DEF BootFull, NoFiles, Walking, Loading
      <4> QED BY <3>1, <3>2, <3>5, <4>1 DEF BootFull, IdleJobs, Resting, Walked, Live
    <3> QED BY <2>2, <3>3, <3>4, <3>5 DEF Boot
  <2>3. ASSUME NEW f \in Files, WalkVisits(f) \/ WalkFailsToRead(f) \/ WalkMisses(f) PROVE CacheKept'
    BY <2>3, WalkSteps
  <2>4. CASE WalkEnds
    <3>1. /\ proc = "walking" /\ proc' = "hashing" /\ todo = {} /\ todo' = {}
          /\ UNCHANGED <<disk, edits, how, fresh, seen, jobs, rows, hashes, saved, missed, unread>>
      BY <2>4 DEF WalkEnds
    <3>2. \A f \in Files : Matches(f)' = Matches(f)
      BY <3>1 DEF Matches
    <3>3. ASSUME NEW f \in Files \ torn'
          PROVE  /\ graph'[f] = fresh[f] \/ (f \in unread /\ graph'[f] = 0)
                 /\ how = "smart" /\ Matches(f) => Mirror(f, rows[f])
      <4>1. CASE hashes[f] # 0 /\ fresh[f] = 0
        <5>1. graph'[f] = 0 /\ (f \in torn => disk[f] = 0)
          BY <2>4, <3>3, <4>1 DEF WalkEnds
        <5>2. how = "smart" /\ Matches(f) => Mirror(f, rows[f])
          BY <3>1, <5>1 DEF Walking, Matches
        <5> QED BY <4>1, <5>1, <5>2
      <4>2. CASE hashes[f] = 0 \/ fresh[f] # 0
        <5>1. graph'[f] = graph[f] /\ f \notin torn
          BY <2>4, <3>3, <4>2 DEF WalkEnds
        <5> QED BY <3>1, <4>2, <5>1 DEF Walking
      <4> QED BY <4>1, <4>2
    <3>4. Walked'
      BY <3>1, <3>2, <3>3 DEF Walked
    <3>5. Loading'
      BY <3>1, <3>2 DEF Loading
    <3> QED BY <3>1, <3>4, <3>5 DEF PastOnly, IdleJobs, Resting, Walking, Live
  <2>5. CASE SavesMtimes
    <3>1. /\ proc = "hashing" /\ proc' = "saving" /\ hashes' \in {fresh, hashes}
          /\ UNCHANGED <<disk, edits, how, todo, fresh, graph, seen, jobs, rows, saved, history>>
      BY <2>5 DEF SavesMtimes
    <3>2. PastOnly'
      BY <3>1 DEF PastOnly
    <3>3. Loading'
      <4>1. \A f \in Files : Matches(f)' => fresh[f] = disk[f] \/ Matches(f)
        BY <3>1 DEF Matches
      <4> QED BY <3>1, <4>1 DEF Loading
    <3>4. IdleJobs' /\ Walked'
      BY <3>1 DEF IdleJobs, Walked
    <3> QED BY <3>1, <3>2, <3>3, <3>4 DEF Resting, Walking, Live
  <2>6. CASE SavesGraph
    <3>1. /\ proc = "saving" /\ proc' = "running" /\ seen' = disk
          /\ UNCHANGED <<disk, edits, how, todo, fresh, graph, jobs, hashes, missed, unread>>
      BY <2>6 DEF SavesGraph
    <3>2. jobs = {} /\ todo = {} /\ \A f \in Files : Matches(f)' = Matches(f)
      BY <3>1 DEF IdleJobs, Loading, Matches
    <3>3. torn \subseteq torn' /\ \A f \in Files \ torn' : rows'[f] = graph[f]
      BY <2>6 DEF SavesGraph, Split
    <3>4. ASSUME NEW f \in Files \ torn'
          PROVE  /\ Matches(f) => Mirror(f, rows'[f]) /\ Mirror(f, graph[f])
                 /\ f \notin missed => Mirror(f, graph[f])
      BY <3>1, <3>2, <3>3 DEF Walked, Loading
    <3>5. Live'
      BY <3>1, <3>2, <3>4 DEF Live
    <3>6. PastOnly'
      BY <3>1 DEF PastOnly
    <3> QED BY <3>1, <3>5, <3>6 DEF IdleJobs, Resting, Loading, Walking, Walked
  <2>7. ASSUME NEW f \in Files, WatcherMerges(f) \/ WatcherRemoves(f) PROVE CacheKept'
    <3>1. /\ proc = "running" /\ proc' = "running" /\ disk[f] # seen[f]
          /\ graph' = [graph EXCEPT ![f] = disk[f]] /\ seen' = [seen EXCEPT ![f] = disk[f]]
          /\ missed' = missed \ {f} /\ torn' = torn \ {f} /\ unread' = unread \ {f}
          /\ UNCHANGED <<disk, edits, how, todo, fresh, rows, hashes, saved>>
          /\ \A j \in jobs' : j \in jobs \/ j.file = f
      BY <2>7 DEF WatcherMerges, WatcherRemoves
    <3>2. ~Matches(f) /\ \A g \in Files : Matches(g)' = Matches(g)
      BY <3>1 DEF Live, Matches
    <3>3. PastOnly'
      BY <3>1 DEF PastOnly
    <3>4. Live'
      <4>1. \A j \in jobs' : ~Matches(j.file)'
        <5>1. \A j \in jobs : j.file \in Files /\ ~Matches(j.file)
          BY <3>1 DEF Live, Job
        <5> QED BY <3>1, <3>2, <5>1
      <4>2. ASSUME NEW g \in Files
            PROVE  /\ g \notin torn' /\ Matches(g)' => Mirror(g, rows[g])' /\ Mirror(g, graph[g])'
                   /\ Matches(g)' => seen'[g] = disk'[g]
                   /\ how' # "cached" /\ g \notin torn' \cup missed' => Recorded(g, seen[g])'
        BY <3>1, <3>2 DEF Live
      <4> QED BY <4>1, <4>2 DEF Live
    <3> QED BY <3>1, <3>3, <3>4 DEF IdleJobs, Resting, Loading, Walking, Walked
  <2>8. ASSUME NEW j \in jobs, JobReads(j) \/ JobCommits(j) \/ JobStamps(j) \/ JobSavesAll(j)
        PROVE  CacheKept'
    BY <2>8, JobSteps
  <2>9. CASE Stop
    BY <2>9 DEF Stop, PastOnly, IdleJobs, Resting, Loading, Walking, Walked, Live, Matches
  <2>10. CASE Stopped
    <3>1. Resting'
      BY <2>10 DEF Stopped, Resting, Live, Matches, Unhashed
    <3> QED BY <2>10, <3>1 DEF Stopped, PastOnly, IdleJobs, Loading, Walking, Walked, Live
  <2>11. CASE Crash
    <3>1. /\ proc' = "down" /\ jobs' = {} /\ torn \cup Unhashed(rows) \subseteq torn'
          /\ proc = "saving" => Split \subseteq torn'
          /\ UNCHANGED <<disk, edits, how, todo, fresh, graph, seen, rows, hashes, saved, missed,
                         unread>>
      BY <2>11 DEF Crash
    <3>2. ASSUME saved, NEW f \in Files \ torn', Matches(f) PROVE Mirror(f, rows[f])
      <4>1. CASE proc \in {"walking", "hashing"}
        BY <3>1, <3>2, <4>1 DEF Walking, Walked, Loading
      <4>2. CASE proc = "saving"
        <5>1. rows[f] = graph[f]
          BY <3>1, <3>2, <4>2 DEF Split
        <5> QED BY <3>1, <3>2, <4>2, <5>1 DEF Walked, Loading
      <4>3. CASE proc \in {"running", "stopping"}
        BY <3>1, <3>2, <4>3 DEF Live
      <4>4. CASE proc = "down"
        BY <3>1, <3>2, <4>4 DEF Resting
      <4> QED BY <4>1, <4>2, <4>3, <4>4
    <3>3. Resting'
      BY <3>1, <3>2 DEF Resting, Matches, Unhashed
    <3> QED BY <3>1, <3>3 DEF PastOnly, IdleJobs, Loading, Walking, Walked, Live
  <2>12. CASE UNCHANGED vars
    BY <2>12 DEF vars, PastOnly, IdleJobs, Resting, Loading, Walking, Walked, Live, Matches
  <2> QED BY <2>1, <2>2, <2>3, <2>4, <2>5, <2>6, <2>7, <2>8, <2>9, <2>10, <2>11, <2>12
          DEF Next, Environment, Load, Running
<1> QED BY <1>1, <1>2, TypeCorrect, PTL DEF Spec

\* Between two runs, a stored mtime that would make the next start skip a file goes with
\* rows parsed from the file's content, wherever the runs before were cut.
THEOREM SkipsAreSound == Spec => []SkipIsSound
<1>1. CacheKept => SkipIsSound
  BY DEF CacheKept, Resting, SkipIsSound, Matches
<1> QED BY <1>1, CacheIsKept, PTL

\* A daemon that loaded its graph through a walk holds every file as it is on disk.
THEOREM LoadedGraphMirrorsDisk == Spec => []LoadMirrorsDisk
<1>1. CacheKept => LoadMirrorsDisk
  BY DEF CacheKept, Live, Recorded, Mirror, LoadMirrorsDisk
<1> QED BY <1>1, CacheIsKept, PTL
=============================================================================
