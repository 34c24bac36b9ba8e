--------------------------- MODULE WorkspaceProofs ---------------------------
(***************************************************************************)
(* Proofs about Workspace for any folders, files and bounds: what is bound *)
(* belongs to the conversation on screen, and no answer passes for fresh   *)
(* that is not.                                                            *)
(***************************************************************************)
EXTENDS Workspace, TLAPS

\* A request that may still bind a repository is the last one, and the window
\* is busy with it for this conversation; meanwhile no turn runs.
Requests ==
  /\ \A g \in Gens : g = gen /\ job[g].state \in {"asking", "scanning"} =>
       busy /\ job[g].epoch = epoch
  /\ BusyIsServed
  /\ busy => active = 0

\* As long as nothing was left out, a scan holds what is in the folder.
Snapshots ==
  \A g \in Gens : job[g].state \in {"scanning", "bound"} =>
    /\ job[g].root \in Roots /\ job[g].id \in Gens
    /\ job[g].state = "bound" => job[g].todo = {}
    /\ job[g].whole /\ edits = 0 =>
         \A f \in Scanned(job[g].root) \ job[g].todo :
           job[g].image[f] = disk[job[g].root][f]

Binding ==
  /\ repo # 0 => job[repo].state = "bound"
  /\ AttachedByThisConversation /\ ConsentIsForThis /\ RowAgrees

\* Only the active turn has a worker that was not told to stop; a worker reads a
\* snapshot that was bound.
Workers ==
  /\ active # 0 => stream = active
  /\ \A t \in Turns :
       /\ task[t].snap # 0 => job[task[t].snap].state = "bound"
       /\ task[t].state = "running" /\ ~task[t].cancelled => active = t
  /\ TurnIsWatched

\* An answer on screen is one of this conversation, and was stored unless there
\* was no storage when its turn began.
Answers ==
  /\ \A t \in Turns :
       /\ shown[t] # "none" => task[t].state # "none" /\ task[t].snap # 0
       /\ shown[t] # "none" \/ active = t => ~empty /\ (durable \/ dbFresh[t] = "none")
  /\ FreshnessAgrees

\* What the turns of the bound snapshot read under the watcher is as it was, or
\* the watcher knows better, or has said so.
Watches ==
  repo # 0 => \A t \in Turns : task[t].snap = repo =>
    /\ watch # "on" => task[t].watched = {}
    /\ repo \notin stale => \A f \in task[t].watched \cap Watched :
         f \in events \/ signal \/ disk[RootOf(repo)][f] = job[repo].image[f]

IInv == TypeOK /\ Requests /\ Snapshots /\ Binding /\ Workers /\ Answers /\ Watches

-----------------------------------------------------------------------------
(* Types.                                                                   *)

WorldOK ==
  disk \in [Roots -> [Files -> Versions]] /\ edits \in 0..MaxEdits /\ faults \in 0..MaxFaults
RowsOK ==
  /\ DOMAIN stored \subseteq 1..convs /\ \A c \in DOMAIN stored : stored[c] \in 0..gen
  /\ recent \subseteq [id : Gens, root : Roots, opened : Gens]
MarksOK == dbFresh \in [Turns -> Freshness] /\ shown \in [Turns -> Freshness]
TalkOK ==
  /\ conv \in 1..convs /\ convs \in 1..MaxConvs /\ binding \in 0..gen /\ epoch \in Nat
  /\ durable \in BOOLEAN /\ empty \in BOOLEAN
AskedOK ==
  /\ gen \in 0..MaxGens /\ token \in 0..gen /\ approved \in 0..gen /\ repo \in 0..gen
  /\ busy \in BOOLEAN /\ scope \in BOOLEAN
ActiveOK == active \in 0..MaxTurns /\ stream \in 0..MaxTurns
WatchOK ==
  /\ watch \in {"none", "starting", "on", "dead"} /\ events \subseteq Files
  /\ signal \in BOOLEAN /\ stale \subseteq 1..gen /\ unmarked \subseteq stale
JobsOK == job \in [Gens -> Job] /\ \A g \in Gens : g > gen => job[g] = NoJob
TasksOK == task \in [Turns -> Task]

\* TypeOK, split into groups the actions change together.
LEMMA TypeParts ==
  TypeOK <=> /\ WorldOK /\ RowsOK /\ MarksOK /\ TalkOK /\ AskedOK /\ ActiveOK
             /\ WatchOK /\ JobsOK /\ TasksOK
BY DEF TypeOK, WorldOK, RowsOK, MarksOK, TalkOK, AskedOK, ActiveOK, WatchOK, JobsOK, TasksOK

\* The bounds are natural numbers.
LEMMA BoundsAreNat ==
  MaxGens \in Nat /\ MaxConvs \in Nat /\ MaxTurns \in Nat /\ MaxEdits \in Nat
  /\ MaxVersion \in Nat /\ MaxFaults \in Nat /\ None \notin Files /\ None \notin Roots
BY WorkspaceAssumption

\* The record a request starts from, and a task.
LEMMA NoJobOK == NoJob \in Job
BY BoundsAreNat DEF NoJob, Job, Nothing, Versions

\* Telling a scan to stop changes its flag and nothing else.
LEMMA CancelledScan ==
  ASSUME JobsOK, gen \in 0..MaxGens, NEW n \in 0..gen
  PROVE  /\ CancelScan(job, n) \in [Gens -> Job]
         /\ \A g \in Gens :
              LET j == CancelScan(job, n)[g]
              IN  /\ j.state = job[g].state /\ j.conv = job[g].conv /\ j.epoch = job[g].epoch
                  /\ j.root = job[g].root /\ j.id = job[g].id /\ j.todo = job[g].todo
                  /\ j.image = job[g].image /\ j.whole = job[g].whole
                  /\ g > gen => j = NoJob
<1>1. CASE n = 0
  BY <1>1 DEF CancelScan, JobsOK
<1>2. CASE n # 0
  <2>1. CancelScan(job, n) = [job EXCEPT ![n].cancelled = TRUE]
    BY <1>2 DEF CancelScan
  <2>2. n \in Gens /\ ~(n > gen)
    BY <1>2, BoundsAreNat DEF Gens
  <2>3. job[n] \in Job
    BY <2>2 DEF JobsOK
  <2>4. [job[n] EXCEPT !.cancelled = TRUE] \in Job
    BY <2>3 DEF Job
  <2>5. CancelScan(job, n) = [job EXCEPT ![n] = [job[n] EXCEPT !.cancelled = TRUE]]
    BY <2>1
  <2>6. CancelScan(job, n) \in [Gens -> Job]
    BY <2>2, <2>4, <2>5 DEF JobsOK
  <2>7. ASSUME NEW g \in Gens, g # n PROVE CancelScan(job, n)[g] = job[g]
    BY <2>5, <2>7 DEF JobsOK
  <2>8. CancelScan(job, n)[n] = [job[n] EXCEPT !.cancelled = TRUE]
    BY <2>2, <2>5 DEF JobsOK
  <2>9. /\ CancelScan(job, n)[n].state = job[n].state /\ CancelScan(job, n)[n].conv = job[n].conv
        /\ CancelScan(job, n)[n].epoch = job[n].epoch /\ CancelScan(job, n)[n].root = job[n].root
        /\ CancelScan(job, n)[n].id = job[n].id /\ CancelScan(job, n)[n].todo = job[n].todo
        /\ CancelScan(job, n)[n].image = job[n].image /\ CancelScan(job, n)[n].whole = job[n].whole
    BY <2>3, <2>8 DEF Job
  <2>10. \A g \in Gens : g > gen => job[g] = NoJob
    BY DEF JobsOK
  <2>11. QED
    BY <2>2, <2>6, <2>7, <2>9, <2>10
<1>3. QED
  BY <1>1, <1>2

\* Telling a turn to stop changes its flag and nothing else.
LEMMA CancelledTask ==
  ASSUME TasksOK, NEW n \in 0..MaxTurns
  PROVE  /\ CancelTask(task, n) \in [Turns -> Task]
         /\ \A t \in Turns :
              LET u == CancelTask(task, n)[t]
              IN  /\ u.state = task[t].state /\ u.snap = task[t].snap /\ u.conv = task[t].conv
                  /\ u.reading = task[t].reading /\ u.watched = task[t].watched
                  /\ task[t].cancelled => u.cancelled
                  /\ t = n => u.cancelled
<1>1. CASE n = 0
  BY <1>1, BoundsAreNat DEF CancelTask, TasksOK, Turns
<1>2. CASE n # 0
  <2>1. CancelTask(task, n) = [task EXCEPT ![n] = [task[n] EXCEPT !.cancelled = TRUE]]
    BY <1>2 DEF CancelTask
  <2>2. n \in Turns
    BY <1>2, BoundsAreNat DEF Turns
  <2>3. task[n] \in Task
    BY <2>2 DEF TasksOK
  <2>4. [task[n] EXCEPT !.cancelled = TRUE] \in Task
    BY <2>3 DEF Task
  <2>5. CancelTask(task, n) \in [Turns -> Task]
    BY <2>1, <2>2, <2>4 DEF TasksOK
  <2>6. ASSUME NEW t \in Turns, t # n PROVE CancelTask(task, n)[t] = task[t]
    BY <2>1, <2>6 DEF TasksOK
  <2>7. CancelTask(task, n)[n] = [task[n] EXCEPT !.cancelled = TRUE]
    BY <2>1, <2>2 DEF TasksOK
  <2>8. QED
    BY <2>3, <2>5, <2>6, <2>7 DEF Task
<1>3. QED
  BY <1>1, <1>2

\* A new row of conversations, without a snapshot.
LEMMA NewRow ==
  ASSUME NEW rows, NEW n \in Nat, NEW k \in Nat, DOMAIN rows \subseteq 1..n,
         \A c \in DOMAIN rows : rows[c] \in 0..k
  PROVE  /\ DOMAIN WithRow(rows, n + 1) \subseteq 1..n + 1
         /\ n + 1 \in DOMAIN WithRow(rows, n + 1) /\ WithRow(rows, n + 1)[n + 1] = 0
         /\ \A c \in DOMAIN WithRow(rows, n + 1) : WithRow(rows, n + 1)[c] \in 0..k
<1>1. DOMAIN WithRow(rows, n + 1) = DOMAIN rows \cup {n + 1}
  BY DEF WithRow
<1>2. \A c \in DOMAIN rows \cup {n + 1} :
        WithRow(rows, n + 1)[c] = IF c = n + 1 THEN 0 ELSE rows[c]
  BY DEF WithRow
<1>3. \A c \in DOMAIN rows \cup {n + 1} : c \in 1..n + 1
  OBVIOUS
<1>4. \A c \in DOMAIN rows \cup {n + 1} : WithRow(rows, n + 1)[c] \in 0..k
  BY <1>2
<1>5. QED
  BY <1>1, <1>2, <1>3, <1>4

\* ensure_durable_conversation keeps the types and, unless it replaces an empty
\* conversation, changes nothing; it never gives storage back.
LEMMA EnsuredRow ==
  ASSUME RowsOK, TalkOK, gen \in 0..MaxGens, NEW e \in 0..1, EnsureIfEmpty(e), UNCHANGED epoch
  PROVE  /\ conv' \in 1..convs' /\ convs' \in 1..MaxConvs /\ binding' \in 0..gen
         /\ durable' \in BOOLEAN /\ convs \in 1..convs'
         /\ DOMAIN stored' \subseteq 1..convs' /\ \A c \in DOMAIN stored' : stored'[c] \in 0..gen
         /\ durable' => durable
         /\ \/ UNCHANGED <<conv, convs, binding, stored, durable>>
            \/ empty /\ UNCHANGED <<conv, convs, binding, stored>> /\ ~durable'
            \/ empty /\ UNCHANGED durable /\ binding' = 0 /\ stored'[conv'] = 0
<1>1. /\ convs \in Nat /\ gen \in Nat /\ conv \in 1..convs /\ convs \in 1..MaxConvs /\ binding \in 0..gen
      /\ durable \in BOOLEAN /\ DOMAIN stored \subseteq 1..convs
      /\ \A c \in DOMAIN stored : stored[c] \in 0..gen
  BY BoundsAreNat DEF RowsOK, TalkOK
<1>2. CASE UNCHANGED <<conv, convs, binding, stored>> /\ durable' = FALSE /\ empty
  <2>1. durable' \in BOOLEAN /\ ~durable'
    BY <1>2
  <2>2. convs \in 1..convs'
    BY <1>1, <1>2
  <2>3. QED
    BY <1>1, <1>2, <2>1, <2>2
<1>3. CASE UNCHANGED <<conv, convs, binding, stored, durable>>
  BY <1>1, <1>3
<1>4. CASE /\ empty /\ convs < MaxConvs /\ convs' = convs + 1 /\ conv' = convs + 1
           /\ binding' = 0 /\ stored' = WithRow(stored, convs + 1) /\ UNCHANGED durable
  <2>1. /\ DOMAIN stored' \subseteq 1..convs' /\ stored'[conv'] = 0
        /\ \A c \in DOMAIN stored' : stored'[c] \in 0..gen
    BY <1>1, <1>4, NewRow
  <2>2. conv' \in 1..convs' /\ convs' \in 1..MaxConvs /\ binding' \in 0..gen /\ convs \in 1..convs'
    BY <1>1, <1>4, BoundsAreNat
  <2>3. QED
    BY <1>1, <1>4, <2>1, <2>2
<1>5. QED
  BY <1>2, <1>3, <1>4 DEF EnsureIfEmpty
\* start_new_conversation, from any rows: a new conversation that has no snapshot, no
\* repository, no approval and nothing on screen.
LEMMA Replaced ==
  ASSUME RowsOK, TalkOK, AskedOK, JobsOK, NEW rows, DOMAIN rows \subseteq 1..convs,
         \A c \in DOMAIN rows : rows[c] \in 0..gen, Replace(rows)
  PROVE  /\ gen' = gen + 1 /\ gen' \in 0..MaxGens /\ conv' = convs' /\ convs' = convs + 1
         /\ convs' \in 1..MaxConvs /\ durable' \in BOOLEAN /\ (durable' => durable)
         /\ DOMAIN stored' \subseteq 1..convs' /\ \A c \in DOMAIN stored' : stored'[c] \in 0..gen
         /\ durable' => stored'[conv'] = 0
         /\ job' \in [Gens -> Job] /\ job' = CancelScan(job, token)
         /\ \A g \in Gens : g > gen => job'[g] = NoJob
         /\ token' = 0 /\ ~busy' /\ repo' = 0 /\ watch' = "none" /\ events' = {} /\ ~signal'
         /\ approved' = 0 /\ stream' = 0 /\ shown' = [t \in Turns |-> "none"]
         /\ binding' = 0 /\ empty' /\ epoch' = epoch + 1
<1>1. /\ convs \in Nat /\ gen \in 0..MaxGens /\ convs \in 1..MaxConvs /\ token \in 0..gen
      /\ durable \in BOOLEAN /\ MaxConvs \in Nat /\ MaxGens \in Nat
  BY BoundsAreNat DEF RowsOK, TalkOK, AskedOK
<1>2. /\ gen < MaxGens /\ gen' = gen + 1 /\ token' = 0 /\ busy' = FALSE
      /\ job' = CancelScan(job, token)
      /\ repo' = 0 /\ watch' = "none" /\ events' = {} /\ signal' = FALSE
      /\ approved' = 0 /\ stream' = 0 /\ shown' = [t \in Turns |-> "none"]
      /\ convs < MaxConvs /\ convs' = convs + 1 /\ conv' = convs + 1
      /\ binding' = 0 /\ empty' = TRUE /\ epoch' = epoch + 1
  BY DEF Replace
<1>3. gen' \in 0..MaxGens /\ convs' \in 1..MaxConvs /\ conv' = convs'
  BY <1>1, <1>2
<1>4. /\ job' \in [Gens -> Job] /\ \A g \in Gens : g > gen => job'[g] = NoJob
  BY <1>1, <1>2, CancelledScan
<1>5. \/ durable /\ stored' = WithRow(rows, convs + 1) /\ durable' = durable
      \/ durable' = FALSE /\ stored' = rows
  BY DEF Replace
<1>6. durable' \in BOOLEAN /\ (durable' => durable)
  BY <1>1, <1>5
<1>7. /\ DOMAIN stored' \subseteq 1..convs' /\ \A c \in DOMAIN stored' : stored'[c] \in 0..gen
      /\ durable' => stored'[conv'] = 0
  <2>1. CASE stored' = WithRow(rows, convs + 1)
    <3>1. gen \in Nat
      BY <1>1
    <3>2. /\ DOMAIN WithRow(rows, convs + 1) \subseteq 1..convs + 1
          /\ WithRow(rows, convs + 1)[convs + 1] = 0
          /\ \A c \in DOMAIN WithRow(rows, convs + 1) : WithRow(rows, convs + 1)[c] \in 0..gen
      BY <1>1, <3>1, NewRow
    <3>3. QED
      BY <1>2, <2>1, <3>2
  <2>2. CASE durable' = FALSE /\ stored' = rows
    <3>1. \A c \in DOMAIN rows : c \in 1..convs'
      BY <1>1, <1>2
    <3>2. QED
      BY <2>2, <3>1
  <2>3. QED
    BY <1>5, <2>1, <2>2
<1>8. ~busy' /\ ~signal' /\ empty'
  BY <1>2
<1>9. QED
  BY <1>2, <1>3, <1>4, <1>6, <1>7, <1>8

\* What is left of the rows when one is deleted.
LEMMA WithoutRow ==
  ASSUME RowsOK, NEW c
  PROVE  /\ DOMAIN Without(c) \subseteq 1..convs /\ c \notin DOMAIN Without(c)
         /\ \A d \in DOMAIN Without(c) : Without(c)[d] \in 0..gen
BY DEF RowsOK, Without

\* Every step keeps the types of the folders and of the failures.
LEMMA NextWorldOK ==
  ASSUME WorldOK, [Next]_vars
  PROVE  WorldOK'
<1> USE BoundsAreNat
<1>1. CASE UNCHANGED files /\ UNCHANGED faults
  BY <1>1 DEF WorldOK, files
<1>2. ASSUME UNCHANGED files, NEW n \in 0..2, Fails(n) PROVE WorldOK'
  BY <1>2 DEF WorldOK, files, Fails
<1>3. ASSUME NEW r \in Roots, NEW f \in Files, NEW v \in Versions, Edit(r, f, v)
      PROVE  WorldOK'
  <2>1. disk' \in [Roots -> [Files -> Versions]]
    BY <1>3 DEF WorldOK, Edit
  <2>2. edits' \in 0..MaxEdits /\ UNCHANGED faults
    BY <1>3 DEF WorldOK, Edit
  <2>3. QED
    BY <2>1, <2>2 DEF WorldOK
<1>4. ASSUME NEW g \in Gens, NEW r \in Roots, FolderChosen(g, r) PROVE WorldOK'
  <2>1. PICK e \in 0..1, missed \in 0..1 : Fails(e + missed)
    BY <1>4 DEF FolderChosen
  <2>2. e + missed \in 0..2
    OBVIOUS
  <2>3. QED
    BY <1>2, <1>4, <2>1, <2>2 DEF FolderChosen
<1>5. ASSUME NEW t \in Turns, NEW grounded \in BOOLEAN, NEW cloud \in BOOLEAN,
             Submit(t, grounded, cloud)
      PROVE  WorldOK'
  <2>1. PICK e \in 0..1, failed \in 0..1 : Fails(e + failed)
    BY <1>5 DEF Submit
  <2>2. e + failed \in 0..2
    OBVIOUS
  <2>3. QED
    BY <1>2, <1>5, <2>1, <2>2 DEF Submit
<1>6. CASE Scan
  <2>1. ASSUME NEW g \in Gens, NEW f \in Files, ScanFile(g, f) PROVE WorldOK'
    <3>1. PICK left \in 0..1 : Fails(left)
      BY <2>1 DEF ScanFile
    <3>2. UNCHANGED files
      BY <2>1 DEF ScanFile
    <3>3. left \in 0..2
      OBVIOUS
    <3>4. QED
      BY <1>2, <3>1, <3>2, <3>3
  <2>2. QED
    BY <1>1, <1>6, <2>1 DEF Scan, ScanCancelled, world, files
<1>7. CASE Messages
  BY <1>1, <1>2, <1>7
    
        DEF Messages, FolderDropped, FolderRefused, ScanDropped, ScanNotKept, Attach, Finish,
        PollTop,
         PollWatch, world, files
<1>8. CASE NewConversation \/ Delete
  BY <1>1, <1>2, <1>8 DEF NewConversation, Delete, Replace
<1>9. CASE Working \/ UNCHANGED vars
  BY <1>1, <1>9 DEF Working, BeginRead, EndRead, TaskEnds, world, files, vars
<1>10. CASE Watching
  BY <1>1, <1>2, <1>10 DEF Watching, WatchStarts, HandleEvent, world, files
<1>11. CASE User
  BY <1>1, <1>2, <1>5, <1>8, <1>11
     DEF User, AskFolder, StopScan, DeleteOnlyStops, Approve, Disapprove, Escape, world, files
<1>12. CASE Outside
  BY <1>2, <1>3, <1>4, <1>12 DEF Outside, EventsLost
<1>13. QED
  BY <1>6, <1>7, <1>9, <1>10, <1>11, <1>12 DEF Next

\* Every step keeps the types of the freshness marks.
LEMMA NextMarksOK ==
  ASSUME MarksOK, [Next]_vars
  PROVE  MarksOK'
<1> USE DEF Freshness
<1>1. CASE UNCHANGED <<dbFresh, shown>>
  BY <1>1 DEF MarksOK
<1>2. CASE NewConversation
  BY <1>2 DEF NewConversation, Replace, MarksOK, store, turns
<1>3. CASE Delete
  BY <1>3 DEF Delete, Replace, MarksOK
<1>4. CASE PollWatch
  BY <1>4 DEF PollWatch, MarksOK
<1>5. ASSUME NEW t \in Turns, NEW grounded \in BOOLEAN, NEW cloud \in BOOLEAN,
             Submit(t, grounded, cloud)
      PROVE  MarksOK'
  BY <1>5 DEF Submit, MarksOK
<1>6. ASSUME NEW t \in Turns, Finish(t) PROVE MarksOK'
  <2>1. PICK now \in Freshness : /\ dbFresh' \in {dbFresh, [dbFresh EXCEPT ![t] = now]}
                                /\ shown' \in {shown, [shown EXCEPT ![t] = now]}
    BY <1>6 DEF Finish
  <2>2. QED
    BY <2>1 DEF MarksOK
<1>7. CASE Messages
  BY <1>1, <1>4, <1>6, <1>7
    
        DEF Messages, FolderDropped, FolderRefused, ScanDropped, ScanNotKept, Attach, PollTop,
        store, turns
<1>8. QED
  BY <1>1, <1>2, <1>3, <1>5, <1>7
    
        DEF Next, User, Outside, Scan, ScanFile, ScanCancelled, Edit, FolderChosen, Watching,
        Working,
         AskFolder, StopScan, DeleteOnlyStops, Approve, Disapprove, Escape, EventsLost, WatchStarts,
         HandleEvent, BeginRead, EndRead, TaskEnds, store, turns, vars
\* A request is one of those given out.
LEMMA Requested ==
  ASSUME JobsOK, NEW g \in Gens, job[g].state # "none", gen \in 0..MaxGens
  PROVE  g \in 1..gen
<1>1. job[g] # NoJob
  BY DEF NoJob
<1>2. ~(g > gen)
  BY <1>1 DEF JobsOK
<1>3. QED
  BY <1>2, BoundsAreNat DEF Gens

\* The rows of recent repositories after a scan.
LEMMA OpenedOK ==
  ASSUME RowsOK, NEW g \in Gens, job[g].id \in Gens, job[g].root \in Roots
  PROVE  OpenedLast(g) \subseteq [id : Gens, root : Roots, opened : Gens]
BY DEF RowsOK, OpenedLast

\* Every step keeps the types of the stored rows.
LEMMA NextRowsOK ==
  ASSUME RowsOK, TalkOK, AskedOK, JobsOK, Snapshots, [Next]_vars
  PROVE  RowsOK'
<1>1. gen \in 0..MaxGens /\ MaxGens \in Nat /\ gen \in Nat /\ convs \in Nat /\ conv \in 1..convs
  BY BoundsAreNat DEF AskedOK, TalkOK
<1>2. CASE UNCHANGED <<stored, recent, convs, gen>>
  BY <1>2 DEF RowsOK
<1>3. CASE UNCHANGED <<stored, recent, convs>> /\ gen' = gen + 1
  BY <1>1, <1>3 DEF RowsOK
<1>4. CASE NewConversation
  <2>1. CASE Replace(stored) /\ UNCHANGED recent
    <3>1. DOMAIN stored \subseteq 1..convs /\ \A c \in DOMAIN stored : stored[c] \in 0..gen
      BY DEF RowsOK
    <3>2. /\ DOMAIN stored' \subseteq 1..convs' /\ \A c \in DOMAIN stored' : stored'[c] \in 0..gen
          /\ gen' = gen + 1
      BY <2>1, <3>1, Replaced
    <3>3. \A c \in DOMAIN stored' : stored'[c] \in 0..gen'
      BY <1>1, <3>2
    <3>4. QED
      BY <2>1, <3>2, <3>3 DEF RowsOK
  <2>2. QED
    BY <1>2, <1>4, <2>1 DEF NewConversation, store, talk, asked
<1>5. CASE Delete
  <2>1. CASE Replace(IF durable THEN Without(conv) ELSE stored) /\ UNCHANGED recent
    <3>1. PICK rows : /\ Replace(rows) /\ DOMAIN rows \subseteq 1..convs
                      /\ \A c \in DOMAIN rows : rows[c] \in 0..gen
      BY <2>1, WithoutRow DEF RowsOK
    <3>2. /\ DOMAIN stored' \subseteq 1..convs' /\ \A c \in DOMAIN stored' : stored'[c] \in 0..gen
          /\ gen' = gen + 1
      BY <3>1, Replaced
    <3>3. \A c \in DOMAIN stored' : stored'[c] \in 0..gen'
      BY <1>1, <3>2
    <3>4. QED
      BY <2>1, <3>2, <3>3 DEF RowsOK
  <2>2. CASE stored' = Without(conv) /\ UNCHANGED <<recent, convs, gen>>
    <3>1. /\ DOMAIN stored' \subseteq 1..convs' /\ \A c \in DOMAIN stored' : stored'[c] \in 0..gen'
      BY <2>2, WithoutRow
    <3>2. QED
      BY <2>2, <3>1 DEF RowsOK
  <2>3. QED
    BY <1>5, <2>1, <2>2 DEF Delete, talk, asked
<1>6. ASSUME NEW e \in 0..1, EnsureIfEmpty(e), UNCHANGED <<recent, epoch>>, gen' \in {gen, gen + 1}
      PROVE  RowsOK'
  <2>1. /\ DOMAIN stored' \subseteq 1..convs' /\ \A c \in DOMAIN stored' : stored'[c] \in 0..gen
    BY <1>1, <1>6, EnsuredRow
  <2>2. \A c \in DOMAIN stored' : stored'[c] \in 0..gen'
    BY <1>1, <1>6, <2>1
  <2>3. QED
    BY <1>6, <2>1, <2>2 DEF RowsOK
<1>7. ASSUME NEW g \in Gens, NEW r \in Roots, FolderChosen(g, r) PROVE RowsOK'
  <2>1. /\ UNCHANGED <<recent, epoch>> /\ gen' = gen + 1
        /\ \E e \in 0..1 : EnsureIfEmpty(e)
    BY <1>7 DEF FolderChosen
  <2>2. QED
    BY <1>6, <2>1
<1>8. ASSUME NEW t \in Turns, NEW grounded \in BOOLEAN, NEW cloud \in BOOLEAN,
             Submit(t, grounded, cloud)
      PROVE  RowsOK'
  <2>1. /\ UNCHANGED <<recent, epoch>> /\ gen' = gen
        /\ \E e \in 0..1 : EnsureIfEmpty(e)
    BY <1>8 DEF Submit, asked
  <2>2. QED
    BY <1>6, <2>1
<1>9. ASSUME NEW g \in Gens, ScanNotKept(g) \/ Attach(g) PROVE RowsOK'
  <2>1. /\ g = gen /\ g \in 0..gen /\ UNCHANGED <<convs, gen>>
        /\ recent' = recent \/ recent' = OpenedLast(g)
        /\ stored' = stored \/ stored' = [stored EXCEPT ![conv] = g]
        /\ job[g].state = "scanning"
    BY <1>1, <1>9 DEF ScanNotKept, Attach, Finished, Current, talk
  <2>2. recent' \subseteq [id : Gens, root : Roots, opened : Gens]
    BY <2>1, OpenedOK DEF RowsOK, Snapshots
  <2>3. /\ DOMAIN stored' \subseteq 1..convs' /\ \A c \in DOMAIN stored' : stored'[c] \in 0..gen'
    BY <2>1 DEF RowsOK
  <2>4. QED
    BY <2>2, <2>3 DEF RowsOK
<1>10. CASE Messages
  BY <1>2, <1>9, <1>10
    
        DEF Messages, FolderDropped, FolderRefused, ScanDropped, Finish, PollTop, PollWatch,
        talk, asked, store
<1>11. CASE User
  BY <1>2, <1>3, <1>4, <1>5, <1>8, <1>11
    
        DEF User, AskFolder, StopScan, DeleteOnlyStops, Approve, Disapprove, Escape, talk,
        asked, store
<1>12. CASE Outside
  BY <1>2, <1>7, <1>12 DEF Outside, Edit, EventsLost, talk, asked, store
<1>13. QED
  BY <1>2, <1>10, <1>11, <1>12
    
        DEF Next, Scan, ScanFile, ScanCancelled, Watching, Working, WatchStarts, HandleEvent,
        BeginRead,
         EndRead, TaskEnds, talk, asked, store, vars

\* Every step keeps the types of the conversation on screen.
LEMMA NextTalkOK ==
  ASSUME RowsOK, TalkOK, AskedOK, JobsOK, [Next]_vars
  PROVE  TalkOK'
<1>1. gen \in 0..MaxGens /\ MaxGens \in Nat /\ gen \in Nat /\ convs \in Nat /\ conv \in 1..convs
      /\ epoch \in Nat /\ empty \in BOOLEAN /\ binding \in 0..gen /\ durable \in BOOLEAN
      /\ convs \in 1..MaxConvs
  BY BoundsAreNat DEF AskedOK, TalkOK
<1>2. CASE UNCHANGED <<conv, convs, binding, epoch, durable, empty>> /\ gen' \in {gen, gen + 1}
  <2>1. binding' \in 0..gen'
    BY <1>1, <1>2
  <2>2. QED
    BY <1>1, <1>2, <2>1 DEF TalkOK
<1>3. ASSUME NEW rows, DOMAIN rows \subseteq 1..convs, \A c \in DOMAIN rows : rows[c] \in 0..gen,
             Replace(rows)
      PROVE  TalkOK'
  <2>1. /\ gen' = gen + 1 /\ conv' = convs' /\ convs' = convs + 1 /\ convs' \in 1..MaxConvs
        /\ durable' \in BOOLEAN /\ binding' = 0 /\ epoch' = epoch + 1
    BY <1>3, Replaced
  <2>2. empty' \in BOOLEAN
    BY <1>3 DEF Replace
  <2>3. conv' \in 1..convs' /\ binding' \in 0..gen' /\ epoch' \in Nat
    BY <1>1, <2>1
  <2>4. QED
    BY <2>1, <2>2, <2>3 DEF TalkOK
<1>4. CASE NewConversation
  <2>1. DOMAIN stored \subseteq 1..convs /\ \A c \in DOMAIN stored : stored[c] \in 0..gen
    BY DEF RowsOK
  <2>2. QED
    BY <1>2, <1>3, <1>4, <2>1 DEF NewConversation, talk, asked
<1>5. CASE Delete
  <2>1. CASE Replace(IF durable THEN Without(conv) ELSE stored)
    BY <1>3, <2>1, WithoutRow DEF RowsOK
  <2>2. QED
    BY <1>2, <1>5, <2>1 DEF Delete, talk, asked
<1>6. ASSUME NEW e \in 0..1, EnsureIfEmpty(e), UNCHANGED epoch, gen' \in {gen, gen + 1},
             empty' \in BOOLEAN
      PROVE  TalkOK'
  <2>1. /\ conv' \in 1..convs' /\ convs' \in 1..MaxConvs /\ binding' \in 0..gen /\ durable' \in BOOLEAN
    BY <1>1, <1>6, EnsuredRow
  <2>2. binding' \in 0..gen'
    BY <1>1, <1>6, <2>1
  <2>3. QED
    BY <1>1, <1>6, <2>1, <2>2 DEF TalkOK
<1>7. ASSUME NEW g \in Gens, NEW r \in Roots, FolderChosen(g, r) PROVE TalkOK'
  <2>1. /\ UNCHANGED <<epoch, empty>> /\ gen' = gen + 1
        /\ \E e \in 0..1 : EnsureIfEmpty(e)
    BY <1>7 DEF FolderChosen
  <2>2. empty' \in BOOLEAN
    BY <1>1, <2>1
  <2>3. QED
    BY <1>6, <2>1, <2>2
<1>8. ASSUME NEW t \in Turns, NEW grounded \in BOOLEAN, NEW cloud \in BOOLEAN,
             Submit(t, grounded, cloud)
      PROVE  TalkOK'
  <2>1. /\ UNCHANGED epoch /\ gen' = gen
        /\ \E e \in 0..1 : EnsureIfEmpty(e)
    BY <1>8 DEF Submit, asked
  <2>2. empty' = empty \/ empty' = FALSE
    BY <1>8 DEF Submit
  <2>3. empty' \in BOOLEAN
    BY <1>1, <2>2
  <2>4. QED
    BY <1>6, <2>1, <2>3
<1>9. ASSUME NEW g \in Gens, Attach(g) PROVE TalkOK'
  <2>1. /\ g = gen /\ binding' = g /\ gen' = gen
        /\ UNCHANGED <<conv, convs, epoch, durable, empty>>
    BY <1>9 DEF Attach, Current
  <2>2. binding' \in 0..gen'
    BY <1>1, <2>1
  <2>3. QED
    BY <1>1, <2>1, <2>2 DEF TalkOK
<1>10. CASE Messages
  BY <1>2, <1>9, <1>10
    
        DEF Messages, FolderDropped, FolderRefused, ScanDropped, ScanNotKept, Finish, PollTop,
        PollWatch,
         talk, asked
<1>11. CASE User
  BY <1>2, <1>4, <1>5, <1>8, <1>11
     DEF User, AskFolder, StopScan, DeleteOnlyStops, Approve, Disapprove, Escape, talk, asked
<1>12. CASE Outside
  BY <1>2, <1>7, <1>12 DEF Outside, Edit, EventsLost, talk, asked
<1>13. QED
  BY <1>2, <1>10, <1>11, <1>12
    
        DEF Next, Scan, ScanFile, ScanCancelled, Watching, Working, WatchStarts, HandleEvent,
        BeginRead,
         EndRead, TaskEnds, talk, asked, vars
\* Every step keeps the types of the request and of what the repository is asked for.
LEMMA NextAskedOK ==
  ASSUME RowsOK, TalkOK, AskedOK, JobsOK, [Next]_vars
  PROVE  AskedOK'
<1>1. /\ gen \in 0..MaxGens /\ MaxGens \in Nat /\ gen \in Nat /\ token \in 0..gen
      /\ approved \in 0..gen /\ repo \in 0..gen /\ busy \in BOOLEAN /\ scope \in BOOLEAN
  BY BoundsAreNat DEF AskedOK
<1>2. CASE UNCHANGED gen /\ token' \in {token, 0} /\ approved' \in {approved, 0, repo}
           /\ repo' \in {repo, 0} /\ busy' \in BOOLEAN /\ scope' \in BOOLEAN
  <2>1. token' \in 0..gen /\ approved' \in 0..gen /\ repo' \in 0..gen
    BY <1>1, <1>2
  <2>2. QED
    BY <1>1, <1>2, <2>1 DEF AskedOK
<1>3. ASSUME NEW rows, DOMAIN rows \subseteq 1..convs, \A c \in DOMAIN rows : rows[c] \in 0..gen,
             Replace(rows), scope' \in BOOLEAN
      PROVE  AskedOK'
  <2>1. gen' \in 0..MaxGens /\ token' = 0 /\ approved' = 0 /\ repo' = 0
    BY <1>3, Replaced
  <2>2. busy' \in BOOLEAN
    BY <1>3 DEF Replace
  <2>3. token' \in 0..gen' /\ approved' \in 0..gen' /\ repo' \in 0..gen'
    BY <1>1, <2>1
  <2>4. QED
    BY <1>3, <2>1, <2>2, <2>3 DEF AskedOK
<1>4. CASE NewConversation
  <2>1. DOMAIN stored \subseteq 1..convs /\ \A c \in DOMAIN stored : stored[c] \in 0..gen
    BY DEF RowsOK
  <2>2. scope' \in BOOLEAN
    BY <1>4 DEF NewConversation
  <2>3. CASE ~Replace(stored)
    BY <1>1, <1>2, <1>4, <2>2, <2>3 DEF NewConversation, asked, bound
  <2>4. QED
    BY <1>3, <2>1, <2>2, <2>3
<1>5. CASE Delete
  <2>1. scope' \in BOOLEAN
    BY <1>5 DEF Delete
  <2>2. CASE Replace(IF durable THEN Without(conv) ELSE stored)
    BY <1>3, <2>1, <2>2, WithoutRow DEF RowsOK
  <2>3. CASE ~Replace(IF durable THEN Without(conv) ELSE stored)
    BY <1>1, <1>2, <1>5, <2>1, <2>3 DEF Delete, asked
  <2>4. QED
    BY <2>2, <2>3
<1>6. CASE AskFolder
  <2>1. /\ gen' = gen + 1 /\ gen < MaxGens /\ busy' = TRUE
        /\ UNCHANGED <<token, approved, scope, repo>>
    BY <1>6 DEF AskFolder, consent, bound
  <2>2. gen' \in 0..MaxGens /\ token' \in 0..gen' /\ approved' \in 0..gen' /\ repo' \in 0..gen'
    BY <1>1, <2>1
  <2>3. QED
    BY <1>1, <2>1, <2>2 DEF AskedOK
<1>7. ASSUME NEW g \in Gens, NEW r \in Roots, FolderChosen(g, r) PROVE AskedOK'
  <2>1. /\ gen' = gen + 1 /\ gen < MaxGens /\ busy' = TRUE /\ token' = gen + 1
        /\ UNCHANGED <<approved, scope, repo>>
    BY <1>7 DEF FolderChosen, consent, bound
  <2>2. gen' \in 0..MaxGens /\ token' \in 0..gen' /\ approved' \in 0..gen' /\ repo' \in 0..gen'
    BY <1>1, <2>1
  <2>3. QED
    BY <1>1, <2>1, <2>2 DEF AskedOK
<1>8. ASSUME NEW t \in Turns, NEW grounded \in BOOLEAN, NEW cloud \in BOOLEAN,
             Submit(t, grounded, cloud)
      PROVE  AskedOK'
  <2>1. /\ UNCHANGED <<gen, token, busy, approved, repo>>
        /\ scope' = scope \/ scope' = (scope \/ (grounded /\ cloud))
    BY <1>8 DEF Submit, asked, bound
  <2>2. scope' \in BOOLEAN
    BY <1>1, <2>1
  <2>3. QED
    BY <1>1, <1>2, <2>1, <2>2
<1>9. ASSUME NEW g \in Gens, Attach(g) PROVE AskedOK'
  <2>1. /\ g = gen /\ repo' = g /\ token' = 0 /\ approved' = 0 /\ busy' = FALSE
        /\ UNCHANGED <<gen, scope>>
    BY <1>9 DEF Attach, Current
  <2>2. token' \in 0..gen' /\ approved' \in 0..gen' /\ repo' \in 0..gen'
    BY <1>1, <2>1
  <2>3. QED
    BY <1>1, <2>1, <2>2 DEF AskedOK
<1>10. CASE PollTop
  BY <1>1, <1>2, <1>10 DEF PollTop, asked, bound
<1>11. CASE PollWatch
  BY <1>1, <1>2, <1>11 DEF PollWatch, asked, bound
<1>12. ASSUME NEW g \in Gens, FolderRefused(g) \/ ScanNotKept(g) PROVE AskedOK'
  <2>1. /\ UNCHANGED <<gen, approved, scope, repo>> /\ busy' = FALSE
        /\ token' \in {token, 0}
    BY <1>12 DEF FolderRefused, ScanNotKept, consent, bound
  <2>2. QED
    BY <1>1, <1>2, <2>1
<1>13. CASE UNCHANGED <<gen, token, busy, approved, scope, repo>>
  BY <1>1, <1>2, <1>13
<1>14. CASE Messages
  BY <1>9, <1>10, <1>11, <1>12, <1>13, <1>14
     DEF Messages, FolderDropped, ScanDropped, Finish, asked, consent, bound
<1>15. CASE Approve
  BY <1>1, <1>2, <1>15 DEF Approve, asked, bound
<1>16. CASE Disapprove
  BY <1>1, <1>2, <1>16 DEF Disapprove, asked, bound
<1>17. CASE User
  BY <1>4, <1>5, <1>6, <1>8, <1>13, <1>15, <1>16, <1>17
     DEF User, StopScan, DeleteOnlyStops, Escape, asked, consent, bound
<1>18. CASE Outside
  BY <1>7, <1>13, <1>18 DEF Outside, Edit, EventsLost, asked, consent, bound
<1>19. QED
  BY <1>13, <1>14, <1>17, <1>18
    
        DEF Next, Scan, ScanFile, ScanCancelled, Watching, Working, WatchStarts, HandleEvent,
        BeginRead,
         EndRead, TaskEnds, asked, consent, bound, vars

\* Every step keeps the types of the active turn and of its token.
LEMMA NextActiveOK ==
  ASSUME ActiveOK, [Next]_vars
  PROVE  ActiveOK'
<1>1. active \in 0..MaxTurns /\ stream \in 0..MaxTurns /\ 0 \in 0..MaxTurns
  BY BoundsAreNat DEF ActiveOK
<1>2. CASE active' \in {active, 0} /\ stream' \in {stream, 0}
  BY <1>1, <1>2 DEF ActiveOK
<1>3. ASSUME NEW t \in Turns, NEW grounded \in BOOLEAN, NEW cloud \in BOOLEAN,
             Submit(t, grounded, cloud)
      PROVE  ActiveOK'
  <2>1. t \in 0..MaxTurns
    BY BoundsAreNat DEF Turns
  <2>2. QED
    BY <1>1, <1>3, <2>1 DEF Submit, ActiveOK
<1>4. CASE Messages
  BY <1>2, <1>4
    
        DEF Messages, FolderDropped, FolderRefused, ScanDropped, ScanNotKept, Attach, Finish,
        PollTop,
         PollWatch, turns
<1>5. CASE User
  BY <1>2, <1>3, <1>5
     DEF User, AskFolder, StopScan, NewConversation, DeleteOnlyStops, Delete, Replace, Approve,
         Disapprove, Escape, turns
<1>6. QED
  BY <1>2, <1>4, <1>5
     DEF Next, Outside, Edit, EventsLost, FolderChosen, Scan, ScanFile, ScanCancelled, Watching,
         Working, WatchStarts, HandleEvent, BeginRead, EndRead, TaskEnds, turns, vars

\* Every step keeps the types of the watcher and of the marks on snapshots.
LEMMA NextWatchOK ==
  ASSUME RowsOK, TalkOK, AskedOK, JobsOK, WatchOK, [Next]_vars
  PROVE  WatchOK'
<1>1. /\ watch \in {"none", "starting", "on", "dead"} /\ events \subseteq Files
      /\ signal \in BOOLEAN /\ stale \subseteq 1..gen /\ unmarked \subseteq stale
      /\ gen \in Nat /\ repo \in 0..gen
  BY BoundsAreNat DEF WatchOK, AskedOK
<1>2. CASE /\ watch' \in {"none", "starting", "on", "dead"} /\ events' \subseteq Files
           /\ signal' \in BOOLEAN /\ UNCHANGED <<stale, unmarked>> /\ gen' \in {gen, gen + 1}
  <2>1. stale' \subseteq 1..gen'
    BY <1>1, <1>2
  <2>2. QED
    BY <1>1, <1>2, <2>1 DEF WatchOK
<1>3. CASE UNCHANGED <<watch, events, signal, stale, unmarked>> /\ gen' \in {gen, gen + 1}
  BY <1>1, <1>2, <1>3
<1>4. ASSUME NEW rows, DOMAIN rows \subseteq 1..convs, \A c \in DOMAIN rows : rows[c] \in 0..gen,
             Replace(rows), UNCHANGED <<stale, unmarked>>
      PROVE  WatchOK'
  BY <1>2, <1>4 DEF Replace
<1>5. CASE NewConversation
  <2>1. DOMAIN stored \subseteq 1..convs /\ \A c \in DOMAIN stored : stored[c] \in 0..gen
    BY DEF RowsOK
  <2>2. QED
    BY <1>3, <1>4, <1>5, <2>1 DEF NewConversation, watcher, bound, asked
<1>6. CASE Delete
  <2>1. UNCHANGED <<stale, unmarked>>
    BY <1>6 DEF Delete
  <2>2. CASE Replace(IF durable THEN Without(conv) ELSE stored)
    BY <1>4, <2>1, <2>2, WithoutRow DEF RowsOK
  <2>3. CASE ~Replace(IF durable THEN Without(conv) ELSE stored)
    BY <1>1, <1>2, <1>6, <2>1, <2>3 DEF Delete, asked
  <2>4. QED
    BY <2>2, <2>3
<1>7. ASSUME NEW g \in Gens, Attach(g) PROVE WatchOK'
  BY <1>1, <1>2, <1>7 DEF Attach
<1>8. CASE PollWatch
  <2>1. /\ signal' = FALSE /\ UNCHANGED <<watch, events, gen>> /\ repo # 0
        /\ \/ UNCHANGED <<stale, unmarked>>
           \/ stale' = stale \cup {repo} /\ unmarked' \in {unmarked, unmarked \cup {repo}}
    BY <1>8 DEF PollWatch, asked
  <2>2. CASE UNCHANGED <<stale, unmarked>>
    BY <1>1, <1>2, <2>1, <2>2
  <2>3. CASE stale' = stale \cup {repo} /\ unmarked' \in {unmarked, unmarked \cup {repo}}
    <3>1. repo \in 1..gen
      BY <1>1, <2>1
    <3>2. stale' \subseteq 1..gen /\ unmarked' \subseteq stale'
      BY <1>1, <2>3, <3>1
    <3>3. QED
      BY <1>1, <2>1, <3>2 DEF WatchOK
  <2>4. QED
    BY <2>1, <2>2, <2>3
<1>9. ASSUME NEW r \in Roots, NEW f \in Files, NEW v \in Versions, Edit(r, f, v) PROVE WatchOK'
  BY <1>1, <1>2, <1>9 DEF Edit, bound, asked
<1>10. CASE WatchStarts
  BY <1>1, <1>2, <1>10 DEF WatchStarts, bound, asked
<1>11. ASSUME NEW f \in Files, HandleEvent(f) PROVE WatchOK'
  <2>1. signal' \in BOOLEAN
    <3>1. signal' = (signal \/ f \in Watched)
      BY <1>11 DEF HandleEvent
    <3>2. QED
      BY <3>1
  <2>2. QED
    BY <1>1, <1>2, <1>11, <2>1 DEF HandleEvent, bound, asked
<1>12. CASE EventsLost
  BY <1>1, <1>2, <1>12 DEF EventsLost, bound, asked
<1>13. CASE Messages
  BY <1>3, <1>7, <1>8, <1>13
    
        DEF Messages, FolderDropped, FolderRefused, ScanDropped, ScanNotKept, Finish, PollTop,
        watcher,
         bound, asked
<1>14. CASE User
  BY <1>3, <1>5, <1>6, <1>14
     DEF User, AskFolder, StopScan, DeleteOnlyStops, Approve, Disapprove, Escape, Submit, watcher,
         bound, asked
<1>15. CASE Outside
  BY <1>3, <1>9, <1>12, <1>15 DEF Outside, FolderChosen, watcher, bound
<1>16. QED
  BY <1>3, <1>10, <1>11, <1>13, <1>14, <1>15
     DEF Next, Scan, ScanFile, ScanCancelled, Watching, Working, BeginRead, EndRead, TaskEnds,
         watcher, bound, asked, vars
\* The id of a folder that is scanned: that of a row, or the new generation.
LEMMA KnownId ==
  ASSUME RowsOK, gen + 1 \in Gens, NEW root, NEW missed, NEW id \in KnownIds(root, missed)
  PROVE  id \in Gens
<1>1. \A r \in Recent : r.id \in Gens
  BY DEF RowsOK, Recent
<1>2. QED
  BY <1>1 DEF KnownIds

\* Every step keeps the types of the requests.
LEMMA NextJobsOK ==
  ASSUME WorldOK, RowsOK, TalkOK, AskedOK, JobsOK, Snapshots, [Next]_vars
  PROVE  JobsOK'
<1>1. /\ gen \in 0..MaxGens /\ MaxGens \in Nat /\ gen \in Nat /\ token \in 0..gen
      /\ conv \in 0..MaxConvs /\ epoch \in Nat /\ job \in [Gens -> Job]
      /\ \A g \in Gens : g > gen => job[g] = NoJob
  BY BoundsAreNat DEF AskedOK, TalkOK, JobsOK
<1>2. CASE UNCHANGED job /\ gen' \in {gen, gen + 1}
  BY <1>1, <1>2 DEF JobsOK, Gens
<1>3. CASE job' = CancelScan(job, token) /\ gen' \in {gen, gen + 1}
  BY <1>1, <1>3, CancelledScan DEF JobsOK, Gens
<1>4. CASE AskFolder
  <2>1. gen + 1 \in Gens /\ gen' = gen + 1
    BY <1>1, <1>4 DEF AskFolder, Gens
  <2>2. [NoJob EXCEPT !.state = "asking", !.conv = conv, !.epoch = epoch] \in Job
    BY <1>1, NoJobOK DEF Job
  <2>3. job' = [job EXCEPT ![gen + 1] =
                  [NoJob EXCEPT !.state = "asking", !.conv = conv, !.epoch = epoch]]
    BY <1>4 DEF AskFolder
  <2>4. QED
    BY <1>1, <2>1, <2>2, <2>3 DEF JobsOK, Gens
<1>5. ASSUME NEW g \in Gens, job' = [job EXCEPT ![g] = NoJob], UNCHANGED gen PROVE JobsOK'
  BY <1>1, <1>5, NoJobOK DEF JobsOK
<1>6. ASSUME NEW g \in Gens, NEW r \in Roots, FolderChosen(g, r) PROVE JobsOK'
  <2>1. gen + 1 \in Gens /\ gen' = gen + 1
    BY <1>1, <1>6 DEF FolderChosen, Gens
  <2>2. PICK e \in 0..1, missed \in 0..1 : \E id \in KnownIds(r, missed) :
          /\ EnsureIfEmpty(e)
          /\ job' = [CancelScan(job, token) EXCEPT
               ![g] = NoJob,
               ![gen + 1] = [NoJob EXCEPT
                  !.state = "scanning", !.conv = conv', !.epoch = epoch,
                  !.root = r, !.id = id, !.todo = Scanned(r), !.whole = TRUE]]
    BY <1>6 DEF FolderChosen
  <2>3. PICK id \in KnownIds(r, missed) :
          job' = [CancelScan(job, token) EXCEPT
               ![g] = NoJob,
               ![gen + 1] = [NoJob EXCEPT
                  !.state = "scanning", !.conv = conv', !.epoch = epoch,
                  !.root = r, !.id = id, !.todo = Scanned(r), !.whole = TRUE]]
    BY <2>2
  <2>4. id \in 0..MaxGens
    BY <1>1, <2>1, KnownId DEF Gens
  <2>5. conv' \in 0..MaxConvs
    <3>1. conv' \in 1..convs' /\ convs' \in 1..MaxConvs
      BY <1>1, <1>6, <2>2, EnsuredRow DEF FolderChosen
    <3>2. QED
      BY <3>1, BoundsAreNat
  <2>6. [NoJob EXCEPT !.state = "scanning", !.conv = conv', !.epoch = epoch,
                  !.root = r, !.id = id, !.todo = Scanned(r), !.whole = TRUE] \in Job
    BY <1>1, <2>4, <2>5, NoJobOK DEF Job, Scanned
  <2>7. CancelScan(job, token) \in [Gens -> Job]
        /\ \A h \in Gens : h > gen => CancelScan(job, token)[h] = NoJob
    BY <1>1, CancelledScan
  <2>8. QED
    BY <1>1, <2>1, <2>3, <2>6, <2>7, NoJobOK DEF JobsOK, Gens
<1>7. ASSUME NEW g \in Gens, NEW f \in Files, ScanFile(g, f) PROVE JobsOK'
  <2>1. PICK left \in 0..1 :
          job' = [job EXCEPT ![g].todo = @ \ {f}, ![g].whole = @ /\ left = 0,
                    ![g].image[f] = IF left = 0 THEN disk[RootOf(g)][f] ELSE 0]
    BY <1>7 DEF ScanFile
  <2>2. job[g] \in Job /\ job[g].state = "scanning" /\ job[g].root = RootOf(g) /\ gen' = gen
    BY <1>1, <1>7 DEF ScanFile, asked, RootOf
  <2>3. (IF left = 0 THEN disk[RootOf(g)][f] ELSE 0) \in Versions
    BY <2>2, BoundsAreNat DEF Snapshots, WorldOK, Versions
  <2>4. [job[g] EXCEPT !.todo = @ \ {f}, !.whole = @ /\ left = 0,
             !.image[f] = IF left = 0 THEN disk[RootOf(g)][f] ELSE 0] \in Job
    BY <2>2, <2>3 DEF Job
  <2>5. g \in 1..gen
    BY <1>1, <2>2, Requested
  <2>6. QED
    BY <1>1, <2>1, <2>2, <2>4, <2>5 DEF JobsOK
<1>8. ASSUME NEW g \in Gens, ScanCancelled(g) PROVE JobsOK'
  <2>1. job' = [job EXCEPT ![g] = [job[g] EXCEPT !.todo = {}, !.whole = FALSE]] /\ gen' = gen
    BY <1>8 DEF ScanCancelled, asked
  <2>2. job[g] \in Job /\ g \in 1..gen
    BY <1>1, <1>8, Requested DEF ScanCancelled
  <2>3. [job[g] EXCEPT !.todo = {}, !.whole = FALSE] \in Job
    BY <2>2 DEF Job
  <2>4. QED
    BY <1>1, <2>1, <2>2, <2>3 DEF JobsOK
<1>9. ASSUME NEW g \in Gens, Attach(g) PROVE JobsOK'
  <2>1. job' = [job EXCEPT ![g] = [job[g] EXCEPT !.state = "bound"]] /\ gen' = gen
    BY <1>9 DEF Attach
  <2>2. job[g] \in Job /\ g \in 1..gen
    BY <1>1, <1>9, Requested DEF Attach, Finished
  <2>3. [job[g] EXCEPT !.state = "bound"] \in Job
    BY <2>2 DEF Job
  <2>4. QED
    BY <1>1, <2>1, <2>2, <2>3 DEF JobsOK
<1>10. ASSUME NEW g \in Gens, FolderDropped(g) \/ FolderRefused(g) \/ ScanDropped(g) \/ ScanNotKept(g)
       PROVE  JobsOK'
  BY <1>5, <1>10 DEF FolderDropped, FolderRefused, ScanDropped, ScanNotKept, asked
<1>11. CASE Messages
  BY <1>2, <1>9, <1>10, <1>11 DEF Messages, Finish, PollTop, PollWatch, asked
<1>12. CASE NewConversation \/ Delete \/ DeleteOnlyStops \/ StopScan
  BY <1>2, <1>3, <1>12
     DEF NewConversation, Delete, Replace, DeleteOnlyStops, StopScan, asked, talk
<1>13. CASE User
  BY <1>2, <1>4, <1>12, <1>13 DEF User, Approve, Disapprove, Escape, Submit, asked
<1>14. CASE Outside
  BY <1>2, <1>6, <1>14 DEF Outside, Edit, EventsLost, asked
<1>15. CASE Scan
  BY <1>7, <1>8, <1>15 DEF Scan
<1>16. QED
  BY <1>2, <1>11, <1>13, <1>14, <1>15
    
        DEF Next, Watching, Working, WatchStarts, HandleEvent, BeginRead, EndRead, TaskEnds,
        asked, vars

\* A task that starts to work.
LEMMA NewTaskOK ==
  ASSUME NEW c \in 0..MaxConvs, NEW s \in 0..MaxGens
  PROVE  /\ NoTask \in Task
         /\ [NoTask EXCEPT !.state = "running", !.conv = c, !.snap = s] \in Task
         /\ [NoTask EXCEPT !.state = "running", !.conv = c] \in Task
<1>1. NoTask \in Task
  BY BoundsAreNat DEF NoTask, Task
<1>2. QED
  BY <1>1 DEF Task

\* Every step keeps the types of the workers.
LEMMA NextTasksOK ==
  ASSUME RowsOK, TalkOK, AskedOK, ActiveOK, TasksOK, [Next]_vars
  PROVE  TasksOK'
<1>1. /\ repo \in 0..MaxGens /\ stream \in 0..MaxTurns /\ task \in [Turns -> Task]
      /\ gen \in 0..MaxGens /\ conv \in 0..MaxConvs
  BY BoundsAreNat DEF AskedOK, TalkOK, ActiveOK, TasksOK
<1>2. CASE UNCHANGED task
  BY <1>1, <1>2 DEF TasksOK
<1>3. CASE task' = CancelTask(task, stream)
  BY <1>1, <1>3, CancelledTask DEF TasksOK
<1>4. ASSUME NEW t \in Turns, NEW w \in Task, task' = [task EXCEPT ![t] = w] PROVE TasksOK'
  BY <1>1, <1>4 DEF TasksOK
<1>5. ASSUME NEW t \in Turns, NEW grounded \in BOOLEAN, NEW cloud \in BOOLEAN,
             Submit(t, grounded, cloud)
      PROVE  TasksOK'
  <2>1. \/ UNCHANGED task
        \/ task' = [task EXCEPT ![t] = GroundedTask] \/ task' = [task EXCEPT ![t] = PlainTask]
    BY <1>5 DEF Submit
  <2>2. conv' \in 0..MaxConvs
    <3>1. conv' \in 1..convs' /\ convs' \in 1..MaxConvs
      BY <1>1, <1>5, EnsuredRow DEF Submit
    <3>2. QED
      BY <3>1, BoundsAreNat
  <2>3. GroundedTask \in Task /\ PlainTask \in Task
    BY <1>1, <2>2, NewTaskOK DEF GroundedTask, PlainTask
  <2>4. QED
    BY <1>2, <1>4, <2>1, <2>3
<1>6. ASSUME NEW t \in Turns, NEW f \in Files, BeginRead(t, f) PROVE TasksOK'
  <2>1. task' = [task EXCEPT ![t] = [task[t] EXCEPT !.reading = f]]
    BY <1>6 DEF BeginRead
  <2>2. [task[t] EXCEPT !.reading = f] \in Task
    BY <1>1 DEF Task
  <2>3. QED
    BY <1>4, <2>1, <2>2
<1>7. ASSUME NEW t \in Turns, EndRead(t) PROVE TasksOK'
  <2>1. PICK w : /\ w \in {task[t].watched, task[t].watched \cup {task[t].reading}}
                 /\ task' = [task EXCEPT ![t] = [task[t] EXCEPT !.reading = None, !.watched = w]]
    BY <1>7 DEF EndRead
  <2>2. task[t] \in Task /\ task[t].reading # None
    BY <1>1, <1>7 DEF EndRead
  <2>3. w \subseteq Files
    BY <2>1, <2>2 DEF Task
  <2>4. [task[t] EXCEPT !.reading = None, !.watched = w] \in Task
    BY <2>2, <2>3 DEF Task
  <2>5. QED
    BY <1>4, <2>1, <2>4
<1>8. ASSUME NEW t \in Turns, NEW how \in {"completed", "failed"}, TaskEnds(t, how) PROVE TasksOK'
  <2>1. task' = [task EXCEPT ![t] = [task[t] EXCEPT !.state = how]]
    BY <1>8 DEF TaskEnds
  <2>2. [task[t] EXCEPT !.state = how] \in Task
    BY <1>1 DEF Task
  <2>3. QED
    BY <1>4, <2>1, <2>2
<1>9. CASE Messages
  BY <1>2, <1>3, <1>9
    
        DEF Messages, FolderDropped, FolderRefused, ScanDropped, ScanNotKept, Attach, Finish,
        PollTop,
         PollWatch, turns
<1>10. CASE User
  BY <1>2, <1>3, <1>5, <1>10
     DEF User, AskFolder, StopScan, NewConversation, DeleteOnlyStops, Delete, Approve, Disapprove,
         Escape, turns
<1>11. QED
  BY <1>2, <1>6, <1>7, <1>8, <1>9, <1>10
     DEF Next, Outside, Edit, EventsLost, FolderChosen, Scan, ScanFile, ScanCancelled, Watching,
         Working, WatchStarts, HandleEvent, turns, vars
\* The facts about a request that the actions leave alone.
SameRequest(g) ==
  /\ job'[g].state = job[g].state /\ job'[g].epoch = job[g].epoch /\ job'[g].conv = job[g].conv

\* Telling a scan to stop, one step of it, or a step of another part leaves the requests
\* what they were.
LEMMA RequestsStay ==
  ASSUME AskedOK, JobsOK,
         \/ UNCHANGED job
         \/ job' = CancelScan(job, token)
         \/ \E g \in Gens : ScanCancelled(g) \/ \E f \in Files : ScanFile(g, f)
  PROVE  \A g \in Gens : SameRequest(g)
<1>1. gen \in 0..MaxGens /\ token \in 0..gen /\ job \in [Gens -> Job]
  BY DEF AskedOK, JobsOK
<1>2. CASE UNCHANGED job
  BY <1>2 DEF SameRequest
<1>3. CASE job' = CancelScan(job, token)
  BY <1>1, <1>3, CancelledScan DEF SameRequest
<1>4. ASSUME NEW n \in Gens, ScanCancelled(n) PROVE \A g \in Gens : SameRequest(g)
  BY <1>1, <1>4 DEF SameRequest, Job, ScanCancelled
<1>5. ASSUME NEW n \in Gens, NEW f \in Files, ScanFile(n, f) PROVE \A g \in Gens : SameRequest(g)
  <2>1. PICK left \in 0..1 :
          job' = [job EXCEPT ![n].todo = @ \ {f}, ![n].whole = @ /\ left = 0,
                    ![n].image[f] = IF left = 0 THEN disk[RootOf(n)][f] ELSE 0]
    BY <1>5 DEF ScanFile
  <2>2. job'[n] = [job[n] EXCEPT !.todo = @ \ {f}, !.whole = @ /\ left = 0,
                     !.image[f] = IF left = 0 THEN disk[RootOf(n)][f] ELSE 0]
    BY <1>1, <2>1
  <2>3. job[n] \in Job /\ \A g \in Gens : g # n => job'[g] = job[g]
    BY <1>1, <2>1
  <2>4. SameRequest(n)
    BY <2>2, <2>3 DEF SameRequest, Job
  <2>5. QED
    BY <2>3, <2>4 DEF SameRequest
<1>6. QED
  BY <1>2, <1>3, <1>4, <1>5

\* Every step keeps Requests.
LEMMA NextRequests ==
  ASSUME RowsOK, TalkOK, AskedOK, ActiveOK, JobsOK, Requests, [Next]_vars
  PROVE  Requests'
<1>1. /\ gen \in 0..MaxGens /\ MaxGens \in Nat /\ gen \in Nat /\ token \in 0..gen
      /\ job \in [Gens -> Job]
      /\ \A g \in Gens : g > gen => job[g] = NoJob
  BY BoundsAreNat DEF AskedOK, JobsOK
<1>2. /\ \A g \in Gens : g = gen /\ job[g].state \in {"asking", "scanning"} =>
           busy /\ job[g].epoch = epoch
      /\ busy => gen # 0 /\ job[gen].state \in {"asking", "scanning"} /\ job[gen].conv = conv
      /\ busy => active = 0
      /\ busy => gen \in Gens
  BY <1>1 DEF Requests, BusyIsServed, Gens
<1>3. ASSUME UNCHANGED <<busy, gen, epoch>>, busy => UNCHANGED conv,
             busy => active' \in {active, 0}, \A g \in Gens : g = gen => SameRequest(g)
      PROVE  Requests'
  BY <1>1, <1>2, <1>3 DEF Requests, BusyIsServed, SameRequest
<1>4. ASSUME UNCHANGED <<busy, gen, epoch, conv>>, active' \in {active, 0},
             \A g \in Gens : SameRequest(g)
      PROVE  Requests'
  BY <1>3, <1>4
<1>5. ASSUME NEW rows, DOMAIN rows \subseteq 1..convs, \A c \in DOMAIN rows : rows[c] \in 0..gen,
             Replace(rows)
      PROVE  Requests'
  <2>1. gen' = gen + 1 /\ ~busy' /\ \A g \in Gens : g > gen => job'[g] = NoJob
    BY <1>5, Replaced
  <2>2. \A g \in Gens : g = gen' => job'[g].state = "none"
    BY <1>1, <2>1 DEF Gens, NoJob
  <2>3. QED
    BY <2>1, <2>2 DEF Requests, BusyIsServed
<1>6. CASE NewConversation
  <2>1. DOMAIN stored \subseteq 1..convs /\ \A c \in DOMAIN stored : stored[c] \in 0..gen
    BY DEF RowsOK
  <2>2. CASE ~Replace(stored)
    <3>1. /\ UNCHANGED <<busy, gen, epoch, conv, job>> /\ active' \in {active, 0}
      BY <1>6, <2>2 DEF NewConversation, asked, talk, turns
    <3>2. QED
      BY <1>4, <3>1, RequestsStay
  <2>3. QED
    BY <1>5, <2>1, <2>2
<1>7. CASE Delete
  <2>1. CASE Replace(IF durable THEN Without(conv) ELSE stored)
    BY <1>5, <2>1, WithoutRow DEF RowsOK
  <2>2. CASE ~Replace(IF durable THEN Without(conv) ELSE stored)
    <3>1. /\ UNCHANGED <<busy, gen, epoch, conv, active>> /\ job' = CancelScan(job, token)
      BY <1>7, <2>2 DEF Delete, asked, talk
    <3>2. QED
      BY <1>4, <3>1, RequestsStay
  <2>3. QED
    BY <2>1, <2>2
<1>8. CASE AskFolder
  <2>1. gen + 1 \in Gens /\ gen' = gen + 1
    BY <1>1, <1>8 DEF AskFolder, Gens
  <2>2. /\ job'[gen + 1] = [NoJob EXCEPT !.state = "asking", !.conv = conv, !.epoch = epoch]
    BY <1>1, <1>8, <2>1 DEF AskFolder
  <2>3. job'[gen'].state = "asking" /\ job'[gen'].conv = conv /\ job'[gen'].epoch = epoch
    BY <2>1, <2>2 DEF NoJob
  <2>4. busy' /\ active' = 0 /\ conv' = conv /\ epoch' = epoch
    BY <1>8 DEF AskFolder, turns, talk
  <2>5. QED
    BY <1>1, <2>1, <2>3, <2>4 DEF Requests, BusyIsServed
<1>9. ASSUME NEW g \in Gens, NEW r \in Roots, FolderChosen(g, r) PROVE Requests'
  <2>1. gen + 1 \in Gens /\ gen' = gen + 1 /\ gen + 1 # g /\ gen # 0
    BY <1>1, <1>9 DEF FolderChosen, Current, Gens
  <2>2. /\ busy' /\ UNCHANGED <<epoch, active>> /\ active = 0
    BY <1>2, <1>9 DEF FolderChosen, Current, turns
  <2>3. PICK id : job' = [CancelScan(job, token) EXCEPT
               ![g] = NoJob,
               ![gen + 1] = [NoJob EXCEPT
                  !.state = "scanning", !.conv = conv', !.epoch = epoch,
                  !.root = r, !.id = id, !.todo = Scanned(r), !.whole = TRUE]]
    BY <1>9 DEF FolderChosen
  <2>4. CancelScan(job, token) \in [Gens -> Job]
    BY <1>1, CancelledScan
  <2>5. job'[gen + 1] = [NoJob EXCEPT
                  !.state = "scanning", !.conv = conv', !.epoch = epoch,
                  !.root = r, !.id = id, !.todo = Scanned(r), !.whole = TRUE]
    BY <2>1, <2>3, <2>4
  <2>6. job'[gen'].state = "scanning" /\ job'[gen'].conv = conv' /\ job'[gen'].epoch = epoch
    BY <2>1, <2>5 DEF NoJob
  <2>7. QED
    BY <1>1, <2>1, <2>2, <2>6 DEF Requests, BusyIsServed
<1>10. ASSUME NEW t \in Turns, NEW grounded \in BOOLEAN, NEW cloud \in BOOLEAN,
             Submit(t, grounded, cloud)
      PROVE  Requests'
  <2>1. UNCHANGED <<busy, gen, epoch, job>> /\ ~busy
    BY <1>10 DEF Submit, asked
  <2>2. \A g \in Gens : g = gen => SameRequest(g)
    BY <2>1 DEF SameRequest
  <2>3. QED
    BY <1>3, <2>1, <2>2
<1>11. ASSUME NEW g \in Gens, g # gen, job' = [job EXCEPT ![g] = NoJob],
              UNCHANGED <<busy, gen, epoch, conv, active>>
       PROVE  Requests'
  <2>1. \A h \in Gens : h = gen => SameRequest(h)
    BY <1>1, <1>11 DEF SameRequest
  <2>2. QED
    BY <1>3, <1>11, <2>1
<1>12. ASSUME NEW g \in Gens, FolderDropped(g) \/ ScanDropped(g) PROVE Requests'
  <2>1. /\ ~Current(g) /\ job' = [job EXCEPT ![g] = NoJob]
        /\ UNCHANGED <<busy, gen, epoch, conv, active>> /\ job[g].state \in {"asking", "scanning"}
    BY <1>12 DEF FolderDropped, ScanDropped, Finished, asked, talk, turns
  <2>2. g # gen
    BY <1>2, <2>1 DEF Current
  <2>3. QED
    BY <1>11, <2>1, <2>2
<1>13. ASSUME NEW g \in Gens, FolderRefused(g) \/ ScanNotKept(g) PROVE Requests'
  <2>1. /\ g = gen /\ job' = [job EXCEPT ![g] = NoJob] /\ ~busy' /\ gen' = gen
    BY <1>13 DEF FolderRefused, ScanNotKept, Current
  <2>2. job'[gen'].state = "none"
    BY <1>1, <2>1 DEF NoJob
  <2>3. QED
    BY <2>1, <2>2 DEF Requests, BusyIsServed
<1>14. ASSUME NEW g \in Gens, Attach(g) PROVE Requests'
  <2>1. /\ g = gen /\ job' = [job EXCEPT ![g].state = "bound"] /\ ~busy' /\ gen' = gen
    BY <1>14 DEF Attach, Current
  <2>2. job'[gen'].state = "bound"
    BY <1>1, <2>1 DEF Job
  <2>3. QED
    BY <2>1, <2>2 DEF Requests, BusyIsServed
<1>15. ASSUME UNCHANGED <<busy, gen, epoch, conv, job>>, active' \in {active, 0} PROVE Requests'
  BY <1>4, <1>15, RequestsStay
<1>16. CASE Messages
  BY <1>12, <1>13, <1>14, <1>15, <1>16
     DEF Messages, Finish, PollTop, PollWatch, asked, talk, turns
<1>17. CASE StopScan \/ DeleteOnlyStops
  BY <1>4, <1>17, RequestsStay DEF StopScan, DeleteOnlyStops, asked, talk, turns
<1>18. CASE User
  BY <1>6, <1>7, <1>8, <1>10, <1>15, <1>17, <1>18
     DEF User, Approve, Disapprove, Escape, asked, talk, turns
<1>19. CASE Outside
  BY <1>9, <1>15, <1>19 DEF Outside, Edit, EventsLost, asked, talk, turns
<1>20. CASE Scan
  <2>1. UNCHANGED <<busy, gen, epoch, conv, active>>
    BY <1>20 DEF Scan, ScanFile, ScanCancelled, asked, talk, turns
  <2>2. QED
    BY <1>4, <1>20, <2>1, RequestsStay DEF Scan
<1>21. QED
  BY <1>15, <1>16, <1>18, <1>19, <1>20
    
        DEF Next, Watching, Working, WatchStarts, HandleEvent, BeginRead, EndRead, TaskEnds,
        asked, talk,
         turns, vars
\* What the actions leave alone of a scan or of a bound snapshot.
SameScan(g) ==
  /\ job'[g].state = job[g].state /\ job'[g].root = job[g].root /\ job'[g].id = job[g].id
  /\ job'[g].todo = job[g].todo /\ job'[g].image = job[g].image /\ job'[g].whole = job[g].whole

\* In a folder nobody changed, Snapshots is kept when each scan is the same, or is none, or
\* is a new one of which it is true.
LEMMA SnapshotsStay ==
  ASSUME JobsOK, Snapshots, UNCHANGED files, NEW n,
         \A g \in Gens : g # n => SameScan(g) \/ job'[g] = NoJob,
         n \in Gens /\ job'[n].state \in {"scanning", "bound"} =>
           /\ job'[n].root \in Roots /\ job'[n].id \in Gens
           /\ job'[n].state = "bound" => job'[n].todo = {}
           /\ job'[n].whole /\ edits = 0 =>
                \A f \in Scanned(job'[n].root) \ job'[n].todo :
                  job'[n].image[f] = disk[job'[n].root][f]
  PROVE  Snapshots'
<1>1. disk' = disk /\ edits' = edits
  BY DEF files
<1>2. SUFFICES ASSUME NEW g \in Gens, job'[g].state \in {"scanning", "bound"}
      PROVE  /\ job'[g].root \in Roots /\ job'[g].id \in Gens
             /\ job'[g].state = "bound" => job'[g].todo = {}
             /\ job'[g].whole /\ edits = 0 =>
                  \A f \in Scanned(job'[g].root) \ job'[g].todo :
                    job'[g].image[f] = disk[job'[g].root][f]
  BY <1>1 DEF Snapshots, Scanned
<1>3. CASE g = n
  BY <1>2, <1>3
<1>4. CASE g # n
  <2>1. SameScan(g)
    BY <1>2, <1>4 DEF NoJob
  <2>2. QED
    BY <1>2, <2>1 DEF SameScan, Snapshots
<1>5. QED
  BY <1>3, <1>4

\* Every step keeps Snapshots.
LEMMA NextSnapshots ==
  ASSUME WorldOK, RowsOK, TalkOK, AskedOK, JobsOK, Snapshots, [Next]_vars
  PROVE  Snapshots'
<1>1. /\ gen \in 0..MaxGens /\ MaxGens \in Nat /\ gen \in Nat /\ token \in 0..gen
      /\ job \in [Gens -> Job]
  BY BoundsAreNat DEF AskedOK, JobsOK
<1>2. ASSUME UNCHANGED files, UNCHANGED job \/ job' = CancelScan(job, token) PROVE Snapshots'
  <2>1. \A g \in Gens : SameScan(g)
    BY <1>1, <1>2, CancelledScan DEF SameScan
  <2>2. PICK n : n \notin Gens
    <3>1. 0 \notin Gens
      BY <1>1 DEF Gens
    <3>2. QED
      BY <3>1
  <2>3. QED
    BY <1>2, <2>1, <2>2, SnapshotsStay
<1>3. ASSUME UNCHANGED files, NEW g \in Gens, job' = [job EXCEPT ![g] = NoJob] PROVE Snapshots'
  <2>1. \A h \in Gens : SameScan(h) \/ job'[h] = NoJob
    BY <1>1, <1>3 DEF SameScan
  <2>2. PICK n : n \notin Gens
    <3>1. 0 \notin Gens
      BY <1>1 DEF Gens
    <3>2. QED
      BY <3>1
  <2>3. QED
    BY <1>3, <2>1, <2>2, SnapshotsStay
<1>4. ASSUME NEW r \in Roots, NEW f \in Files, NEW v \in Versions, Edit(r, f, v)
      PROVE  Snapshots'
  <2>1. edits' # 0 /\ UNCHANGED job
    BY <1>4 DEF Edit, WorldOK
  <2>2. QED
    BY <2>1 DEF Snapshots
<1>5. CASE AskFolder
  <2>1. UNCHANGED files
    BY <1>5 DEF AskFolder, world, files
  <2>2. gen + 1 \in Gens
    BY <1>1, <1>5 DEF AskFolder, Gens
  <2>3. job'[gen + 1] = [NoJob EXCEPT !.state = "asking", !.conv = conv, !.epoch = epoch]
    BY <1>1, <1>5, <2>2 DEF AskFolder
  <2>4. job'[gen + 1].state = "asking"
    BY <2>3 DEF NoJob
  <2>5. \A h \in Gens : h # gen + 1 => SameScan(h)
    BY <1>1, <1>5 DEF AskFolder, SameScan
  <2>6. QED
    BY <2>1, <2>4, <2>5, SnapshotsStay
<1>6. ASSUME NEW g \in Gens, NEW r \in Roots, FolderChosen(g, r) PROVE Snapshots'
  <2>1. gen + 1 \in Gens /\ UNCHANGED files
    BY <1>1, <1>6 DEF FolderChosen, Gens
  <2>2. PICK missed \in 0..1 : \E id \in KnownIds(r, missed) : job' = [CancelScan(job, token) EXCEPT
               ![g] = NoJob,
               ![gen + 1] = [NoJob EXCEPT
                  !.state = "scanning", !.conv = conv', !.epoch = epoch,
                  !.root = r, !.id = id, !.todo = Scanned(r), !.whole = TRUE]]
    BY <1>6 DEF FolderChosen
  <2>3. PICK id \in KnownIds(r, missed) :
          job' = [CancelScan(job, token) EXCEPT
               ![g] = NoJob,
               ![gen + 1] = [NoJob EXCEPT
                  !.state = "scanning", !.conv = conv', !.epoch = epoch,
                  !.root = r, !.id = id, !.todo = Scanned(r), !.whole = TRUE]]
    BY <2>2
  <2>4. CancelScan(job, token) \in [Gens -> Job] /\ id \in Gens
    BY <1>1, <2>1, CancelledScan, KnownId
  <2>5. job'[gen + 1] = [NoJob EXCEPT
                  !.state = "scanning", !.conv = conv', !.epoch = epoch,
                  !.root = r, !.id = id, !.todo = Scanned(r), !.whole = TRUE]
    BY <2>1, <2>3, <2>4
  <2>6. job'[gen + 1].state = "scanning" /\ job'[gen + 1].root = r /\ job'[gen + 1].id = id
        /\ job'[gen + 1].todo = Scanned(r)
    BY <2>5 DEF NoJob
  <2>7. \A h \in Gens : h # gen + 1 => SameScan(h) \/ job'[h] = NoJob
    <3>1. \A h \in Gens : h # gen + 1 => job'[h] = CancelScan(job, token)[h] \/ job'[h] = NoJob
      BY <2>3, <2>4
    <3>2. QED
      BY <1>1, <3>1, CancelledScan DEF SameScan
  <2>8. QED
    BY <2>1, <2>4, <2>6, <2>7, SnapshotsStay
<1>7. ASSUME NEW g \in Gens, NEW f \in Files, ScanFile(g, f) PROVE Snapshots'
  <2>1. PICK left \in 0..1 :
          job' = [job EXCEPT ![g].todo = @ \ {f}, ![g].whole = @ /\ left = 0,
                    ![g].image[f] = IF left = 0 THEN disk[RootOf(g)][f] ELSE 0]
    BY <1>7 DEF ScanFile
  <2>2. job'[g] = [job[g] EXCEPT !.todo = @ \ {f}, !.whole = @ /\ left = 0,
                     !.image[f] = IF left = 0 THEN disk[RootOf(g)][f] ELSE 0]
    BY <1>1, <2>1
  <2>3. job[g] \in Job /\ \A h \in Gens : h # g => SameScan(h)
    BY <1>1, <2>1 DEF SameScan
  <2>4. /\ job'[g].state = job[g].state /\ job'[g].root = job[g].root /\ job'[g].id = job[g].id
        /\ job'[g].todo = job[g].todo \ {f} /\ job'[g].whole = (job[g].whole /\ left = 0)
        /\ job'[g].image = [job[g].image EXCEPT ![f] = IF left = 0 THEN disk[RootOf(g)][f] ELSE 0]
    BY <2>2, <2>3 DEF Job
  <2>5. job[g].image \in [Files -> Versions]
    BY <2>3 DEF Job
  <2>6. \A h \in Files : job'[g].image[h] =
          IF h = f THEN IF left = 0 THEN disk[RootOf(g)][f] ELSE 0 ELSE job[g].image[h]
    BY <2>4, <2>5
  <2>7. job[g].state = "scanning" /\ UNCHANGED files
    BY <1>7 DEF ScanFile
  <2>8. ASSUME job'[g].whole, edits = 0, NEW h \in Scanned(job'[g].root) \ job'[g].todo
        PROVE  job'[g].image[h] = disk[job'[g].root][h]
    <3>1. job[g].whole /\ left = 0
      BY <2>4, <2>8
    <3>2. h \in Files /\ (h = f \/ h \in Scanned(job[g].root) \ job[g].todo)
      BY <2>4, <2>8 DEF Scanned
    <3>3. h # f => job[g].image[h] = disk[job[g].root][h]
      BY <2>7, <2>8, <3>1, <3>2 DEF Snapshots
    <3>4. QED
      BY <2>4, <2>6, <3>1, <3>2, <3>3 DEF RootOf
  <2>9. job'[g].root \in Roots /\ job'[g].id \in Gens /\ job'[g].state = "scanning"
    BY <2>4, <2>7 DEF Snapshots
  <2>10. QED
    BY <2>3, <2>7, <2>8, <2>9, SnapshotsStay
<1>8. ASSUME NEW g \in Gens, ScanCancelled(g) PROVE Snapshots'
  <2>1. job'[g] = [job[g] EXCEPT !.todo = {}, !.whole = FALSE] /\ job[g] \in Job
    BY <1>1, <1>8 DEF ScanCancelled
  <2>2. /\ job'[g].state = job[g].state /\ job'[g].root = job[g].root /\ job'[g].id = job[g].id
        /\ ~job'[g].whole
    BY <2>1 DEF Job
  <2>3. job[g].state = "scanning" /\ UNCHANGED files
    BY <1>8 DEF ScanCancelled, world, files
  <2>4. \A h \in Gens : h # g => SameScan(h)
    BY <1>1, <1>8 DEF ScanCancelled, SameScan
  <2>5. job'[g].root \in Roots /\ job'[g].id \in Gens /\ job'[g].state = "scanning"
    BY <2>2, <2>3 DEF Snapshots
  <2>6. QED
    BY <2>2, <2>3, <2>4, <2>5, SnapshotsStay
<1>9. ASSUME NEW g \in Gens, Attach(g) PROVE Snapshots'
  <2>1. job'[g] = [job[g] EXCEPT !.state = "bound"] /\ job[g] \in Job
    BY <1>1, <1>9 DEF Attach
  <2>2. /\ job'[g].root = job[g].root /\ job'[g].id = job[g].id
        /\ job'[g].todo = job[g].todo /\ job'[g].image = job[g].image
        /\ job'[g].whole = job[g].whole
    BY <2>1 DEF Job
  <2>3. job[g].state = "scanning" /\ job[g].todo = {} /\ UNCHANGED files
    BY <1>9 DEF Attach, Finished, world, files
  <2>4. \A h \in Gens : h # g => SameScan(h)
    BY <1>1, <1>9 DEF Attach, SameScan
  <2>5. /\ job[g].root \in Roots /\ job[g].id \in Gens
        /\ job[g].whole /\ edits = 0 =>
             \A f \in Scanned(job[g].root) \ job[g].todo :
               job[g].image[f] = disk[job[g].root][f]
    BY <2>3 DEF Snapshots
  <2>6. QED
    BY <2>2, <2>3, <2>4, <2>5, SnapshotsStay
<1>10. ASSUME NEW g \in Gens, FolderDropped(g) \/ FolderRefused(g) \/ ScanDropped(g) \/ ScanNotKept(g)
       PROVE  Snapshots'
  BY <1>3, <1>10 DEF FolderDropped, FolderRefused, ScanDropped, ScanNotKept, world, files
<1>11. CASE Messages
  BY <1>2, <1>9, <1>10, <1>11 DEF Messages, Finish, PollTop, PollWatch, world, files
<1>12. CASE NewConversation \/ Delete \/ DeleteOnlyStops \/ StopScan
  BY <1>2, <1>12 DEF NewConversation, Delete, Replace, DeleteOnlyStops, StopScan, world, files
<1>13. CASE User
  BY <1>2, <1>5, <1>12, <1>13 DEF User, Approve, Disapprove, Escape, Submit, world, files
<1>14. CASE Outside
  BY <1>2, <1>4, <1>6, <1>14 DEF Outside, EventsLost
<1>15. CASE Scan
  BY <1>7, <1>8, <1>15 DEF Scan
<1>16. QED
  BY <1>2, <1>11, <1>13, <1>14, <1>15
     DEF Next, Watching, Working, WatchStarts, HandleEvent, BeginRead, EndRead, TaskEnds, world,
         files, vars
\* What a step leaves alone of a bound snapshot.
SameSnapshot(g) ==
  /\ job'[g].state = job[g].state /\ job'[g].epoch = job[g].epoch /\ job'[g].root = job[g].root
  /\ job'[g].image = job[g].image /\ job'[g].whole = job[g].whole

\* A bound snapshot never changes.
LEMMA BoundStays ==
  ASSUME RowsOK, TalkOK, AskedOK, JobsOK, [Next]_vars, NEW g \in Gens, job[g].state = "bound"
  PROVE  SameSnapshot(g)
<1>1. /\ gen \in 0..MaxGens /\ MaxGens \in Nat /\ gen \in Nat /\ token \in 0..gen
      /\ job \in [Gens -> Job] /\ \A h \in Gens : h > gen => job[h] = NoJob
  BY BoundsAreNat DEF AskedOK, JobsOK
<1>2. CASE UNCHANGED job
  BY <1>2 DEF SameSnapshot
<1>3. CASE job' = CancelScan(job, token)
  BY <1>1, <1>3, CancelledScan DEF SameSnapshot
<1>4. ASSUME job'[g] = job[g] PROVE SameSnapshot(g)
  BY <1>4 DEF SameSnapshot
<1>5. CASE AskFolder
  <2>1. job[gen + 1].state # "bound"
    BY <1>1, <1>5 DEF AskFolder, NoJob, Gens
  <2>2. QED
    BY <1>1, <1>4, <1>5, <2>1 DEF AskFolder
<1>6. ASSUME NEW h \in Gens, NEW r \in Roots, FolderChosen(h, r) PROVE SameSnapshot(g)
  <2>1. job[gen + 1].state # "bound" /\ job[h].state # "bound"
    BY <1>1, <1>6 DEF FolderChosen, NoJob, Gens
  <2>2. CancelScan(job, token) \in [Gens -> Job]
    BY <1>1, CancelledScan
  <2>3. \E id : job' = [CancelScan(job, token) EXCEPT
               ![h] = NoJob,
               ![gen + 1] = [NoJob EXCEPT
                  !.state = "scanning", !.conv = conv', !.epoch = epoch,
                  !.root = r, !.id = id, !.todo = Scanned(r), !.whole = TRUE]]
    BY <1>6 DEF FolderChosen
  <2>4. job'[g] = CancelScan(job, token)[g]
    BY <2>1, <2>2, <2>3
  <2>5. QED
    BY <1>1, <2>4, CancelledScan DEF SameSnapshot
<1>7. ASSUME NEW h \in Gens, h # g, \A k \in Gens : k # h => job'[k] = job[k]
      PROVE  SameSnapshot(g)
  BY <1>4, <1>7
<1>8. ASSUME NEW h \in Gens, NEW f \in Files, ScanFile(h, f) PROVE SameSnapshot(g)
  <2>1. h # g /\ \A k \in Gens : k # h => job'[k] = job[k]
    BY <1>1, <1>8 DEF ScanFile
  <2>2. QED
    BY <1>7, <2>1
<1>9. ASSUME NEW h \in Gens,
             \/ FolderDropped(h) \/ FolderRefused(h) \/ ScanDropped(h) \/ ScanNotKept(h)
             \/ Attach(h)
      PROVE  SameSnapshot(g)
  <2>1. h # g /\ \A k \in Gens : k # h => job'[k] = job[k]
    BY <1>1, <1>9
       DEF FolderDropped, FolderRefused, ScanDropped, ScanNotKept, Attach, Finished
  <2>2. QED
    BY <1>7, <2>1
<1>10. CASE Messages
  BY <1>2, <1>9, <1>10 DEF Messages, Finish, PollTop, PollWatch
<1>11. CASE NewConversation \/ Delete \/ DeleteOnlyStops \/ StopScan
  BY <1>2, <1>3, <1>11 DEF NewConversation, Delete, Replace, DeleteOnlyStops, StopScan
<1>12. CASE User
  BY <1>2, <1>5, <1>11, <1>12 DEF User, Approve, Disapprove, Escape, Submit
<1>13. CASE Outside
  BY <1>2, <1>6, <1>13 DEF Outside, Edit, EventsLost
<1>14. ASSUME NEW h \in Gens, ScanCancelled(h) PROVE SameSnapshot(g)
  <2>1. h # g /\ \A k \in Gens : k # h => job'[k] = job[k]
    BY <1>1, <1>14 DEF ScanCancelled
  <2>2. QED
    BY <1>7, <2>1
<1>15. CASE Scan
  BY <1>8, <1>14, <1>15 DEF Scan
<1>16. QED
  BY <1>2, <1>10, <1>12, <1>13, <1>15
     DEF Next, Watching, Working, WatchStarts, HandleEvent, BeginRead, EndRead, TaskEnds, vars

\* Every step keeps Binding.
LEMMA NextBinding ==
  ASSUME RowsOK, TalkOK, AskedOK, JobsOK, Requests, Binding, [Next]_vars
  PROVE  Binding'
<1>1. /\ gen \in 0..MaxGens /\ MaxGens \in Nat /\ gen \in Nat /\ repo \in 0..gen
      /\ job \in [Gens -> Job] /\ conv \in 1..convs /\ DOMAIN stored \subseteq 1..convs
  BY BoundsAreNat DEF AskedOK, JobsOK, TalkOK, RowsOK
<1>2. /\ repo # 0 => job[repo].state = "bound" /\ job[repo].epoch = epoch /\ repo \in Gens
      /\ repo # 0 /\ approved # 0 => approved = repo
      /\ durable /\ conv \in DOMAIN stored => stored[conv] = binding
  BY <1>1 DEF Binding, AttachedByThisConversation, ConsentIsForThis, RowAgrees, Gens
<1>3. repo # 0 => job'[repo].state = "bound" /\ job'[repo].epoch = job[repo].epoch
  BY <1>2, BoundStays DEF SameSnapshot
<1>4. ASSUME UNCHANGED epoch, repo' \in {repo, 0}, approved' \in {approved, 0, repo},
             durable' /\ conv' \in DOMAIN stored' => stored'[conv'] = binding'
      PROVE  Binding'
  BY <1>2, <1>3, <1>4 DEF Binding, AttachedByThisConversation, ConsentIsForThis, RowAgrees
<1>5. ASSUME NEW rows, DOMAIN rows \subseteq 1..convs, \A c \in DOMAIN rows : rows[c] \in 0..gen,
             Replace(rows)
      PROVE  Binding'
  <2>1. repo' = 0 /\ (durable' => stored'[conv'] = 0) /\ binding' = 0
    BY <1>5, Replaced
  <2>2. QED
    BY <2>1 DEF Binding, AttachedByThisConversation, ConsentIsForThis, RowAgrees
<1>6. ASSUME UNCHANGED <<epoch, durable, conv, binding, stored>>, repo' \in {repo, 0},
             approved' \in {approved, 0, repo}
      PROVE  Binding'
  BY <1>2, <1>4, <1>6
<1>7. CASE NewConversation
  <2>1. DOMAIN stored \subseteq 1..convs /\ \A c \in DOMAIN stored : stored[c] \in 0..gen
    BY DEF RowsOK
  <2>2. CASE ~Replace(stored)
    BY <1>6, <1>7, <2>2 DEF NewConversation, talk, store, bound
  <2>3. QED
    BY <1>5, <2>1, <2>2
<1>8. CASE Delete
  <2>1. CASE Replace(IF durable THEN Without(conv) ELSE stored)
    BY <1>5, <2>1, WithoutRow DEF RowsOK
  <2>2. CASE ~Replace(IF durable THEN Without(conv) ELSE stored)
    <3>1. /\ UNCHANGED <<epoch, conv, approved>> /\ repo' = 0 /\ stored' = Without(conv)
      BY <1>8, <2>2 DEF Delete, talk
    <3>2. conv \notin DOMAIN Without(conv)
      BY WithoutRow
    <3>3. QED
      BY <1>4, <3>1, <3>2
  <2>3. QED
    BY <2>1, <2>2
<1>9. ASSUME NEW e \in 0..1, EnsureIfEmpty(e), UNCHANGED <<epoch, repo, approved>>
      PROVE  Binding'
  <2>1. \/ UNCHANGED <<conv, convs, binding, stored, durable>>
        \/ UNCHANGED <<conv, convs, binding, stored>> /\ ~durable'
        \/ UNCHANGED durable /\ binding' = 0 /\ stored'[conv'] = 0
    BY <1>1, <1>9, EnsuredRow
  <2>2. QED
    BY <1>2, <1>4, <1>9, <2>1
<1>10. ASSUME NEW g \in Gens, Attach(g) PROVE Binding'
  <2>1. /\ repo' = g /\ approved' = 0 /\ binding' = g /\ UNCHANGED <<epoch, conv, durable>>
        /\ job' = [job EXCEPT ![g].state = "bound"]
        /\ durable => conv \in DOMAIN stored /\ stored' = [stored EXCEPT ![conv] = g]
        /\ g = gen /\ job[g].state = "scanning"
    BY <1>10 DEF Attach, Current, Finished
  <2>2. job[g].epoch = epoch
    BY <2>1 DEF Requests
  <2>3. job'[g].state = "bound" /\ job'[g].epoch = epoch
    BY <1>1, <2>1, <2>2 DEF Job
  <2>4. durable' /\ conv' \in DOMAIN stored' => stored'[conv'] = binding'
    BY <2>1
  <2>5. QED
    BY <2>1, <2>3, <2>4 DEF Binding, AttachedByThisConversation, ConsentIsForThis, RowAgrees
<1>11. CASE Messages
  BY <1>6, <1>10, <1>11
    
        DEF Messages, FolderDropped, FolderRefused, ScanDropped, ScanNotKept, Finish, PollTop,
        PollWatch,
         talk, store, consent, bound
<1>12. ASSUME NEW t \in Turns, NEW grounded \in BOOLEAN, NEW cloud \in BOOLEAN,
             Submit(t, grounded, cloud)
      PROVE  Binding'
  BY <1>9, <1>12 DEF Submit, bound
<1>13. CASE User
  BY <1>6, <1>7, <1>8, <1>12, <1>13
     DEF User, AskFolder, StopScan, DeleteOnlyStops, Approve, Disapprove, Escape, talk, store,
         consent, bound
<1>14. ASSUME NEW g \in Gens, NEW r \in Roots, FolderChosen(g, r) PROVE Binding'
  BY <1>9, <1>14 DEF FolderChosen, consent, bound
<1>15. CASE Outside
  BY <1>6, <1>14, <1>15 DEF Outside, Edit, EventsLost, talk, store, consent, bound
<1>16. QED
  BY <1>6, <1>11, <1>13, <1>15
    
        DEF Next, Scan, ScanFile, ScanCancelled, Watching, Working, WatchStarts, HandleEvent,
        BeginRead,
         EndRead, TaskEnds, talk, store, consent, bound, vars
\* A turn keeps its snapshot, does not start again, and stays told to stop.
SameTurn(t) ==
  /\ task'[t].snap = task[t].snap /\ (task[t].cancelled => task'[t].cancelled)
  /\ task'[t].state = "running" => task[t].state = "running"
  /\ task'[t].state = "none" <=> task[t].state = "none"

\* A turn that begins works on what is bound, or without a repository.
Begins(t) ==
  /\ active = 0 /\ active' = t /\ stream' = t /\ ~empty' /\ Unused(t)
  /\ task'[t].snap \in {0, repo} /\ task'[t].state # "none" /\ task'[t].watched = {}
  /\ UNCHANGED <<bound, shown, watcher>>
  /\ dbFresh' = [dbFresh EXCEPT ![t] = IF task'[t].snap # 0 /\ durable' THEN "fresh" ELSE "none"]
  /\ task'[t].snap # 0 => repo \notin stale
  /\ ~empty => durable' = durable
  /\ \A u \in Turns : u # t => task'[u] = task[u]

\* submit_chat begins its turn or leaves the turns as they were.
LEMMA SubmitBegins ==
  ASSUME AskedOK, TasksOK, ActiveOK, NEW t \in Turns, NEW grounded \in BOOLEAN, NEW cloud \in BOOLEAN,
         Submit(t, grounded, cloud)
  PROVE  \/ Begins(t)
         \/ /\ UNCHANGED <<active, stream, task, dbFresh, empty, scope, shown, watcher, bound>>
            /\ ~empty => durable' = durable
<1>1. /\ active = 0 /\ Unused(t) /\ UNCHANGED <<shown, watcher, bound>>
      /\ grounded => repo # 0 /\ repo \notin stale
      /\ ~empty => durable' = durable
  BY DEF Submit, Ready, EnsureIfEmpty
<1>2. CASE /\ empty' = FALSE /\ active' = t /\ stream' = t
           /\ task' = [task EXCEPT ![t] = IF grounded THEN GroundedTask ELSE PlainTask]
           /\ dbFresh' = [dbFresh EXCEPT ![t] =
                            IF grounded /\ durable' THEN "fresh" ELSE "none"]
  <2>1. /\ task'[t] = IF grounded THEN GroundedTask ELSE PlainTask
        /\ \A u \in Turns : u # t => task'[u] = task[u]
    BY <1>2 DEF TasksOK
  <2>2. /\ task'[t].snap = IF grounded THEN repo ELSE 0
        /\ task'[t].state = "running" /\ task'[t].watched = {}
    BY <2>1 DEF GroundedTask, PlainTask, NoTask
  <2>3. task'[t].snap \in {0, repo} /\ (task'[t].snap # 0 <=> grounded)
    BY <1>1, <2>2
  <2>4. dbFresh' = [dbFresh EXCEPT ![t] =
                      IF task'[t].snap # 0 /\ durable' THEN "fresh" ELSE "none"]
    BY <1>2, <2>3
  <2>5. task'[t].snap # 0 => repo \notin stale
    BY <1>1, <2>3
  <2>6. QED
    BY <1>1, <1>2, <2>1, <2>2, <2>3, <2>4, <2>5 DEF Begins
<1>3. \/ /\ empty' = FALSE /\ active' = t /\ stream' = t
         /\ task' = [task EXCEPT ![t] = IF grounded THEN GroundedTask ELSE PlainTask]
         /\ dbFresh' = [dbFresh EXCEPT ![t] =
                          IF grounded /\ durable' THEN "fresh" ELSE "none"]
      \/ UNCHANGED <<empty, scope, active, stream, task, dbFresh>>
  BY DEF Submit
<1>4. QED
  BY <1>1, <1>2, <1>3

\* A step leaves a turn what it is, or begins it.
LEMMA TurnsStay ==
  ASSUME AskedOK, TasksOK, ActiveOK, [Next]_vars
  PROVE  (\A t \in Turns : SameTurn(t)) \/ (\E t \in Turns : Begins(t))
<1>1. stream \in 0..MaxTurns /\ task \in [Turns -> Task]
  BY DEF ActiveOK, TasksOK
<1>2. CASE UNCHANGED task
  BY <1>2 DEF SameTurn
<1>3. CASE task' = CancelTask(task, stream)
  BY <1>1, <1>3, CancelledTask DEF SameTurn
<1>4. ASSUME NEW t \in Turns, \A u \in Turns : u # t => task'[u] = task[u], SameTurn(t)
      PROVE  \A u \in Turns : SameTurn(u)
  BY <1>4 DEF SameTurn
<1>5. ASSUME NEW t \in Turns, NEW f \in Files, BeginRead(t, f) PROVE \A u \in Turns : SameTurn(u)
  <2>1. task'[t] = [task[t] EXCEPT !.reading = f] /\ task[t] \in Task
        /\ \A u \in Turns : u # t => task'[u] = task[u]
    BY <1>1, <1>5 DEF BeginRead
  <2>2. SameTurn(t)
    BY <2>1 DEF SameTurn, Task
  <2>3. QED
    BY <1>4, <2>1, <2>2
<1>6. ASSUME NEW t \in Turns, EndRead(t) PROVE \A u \in Turns : SameTurn(u)
  <2>1. PICK w : task' = [task EXCEPT ![t] = [task[t] EXCEPT !.reading = None, !.watched = w]]
    BY <1>6 DEF EndRead
  <2>2. /\ task'[t] = [task[t] EXCEPT !.reading = None, !.watched = w] /\ task[t] \in Task
        /\ \A u \in Turns : u # t => task'[u] = task[u]
    BY <1>1, <2>1
  <2>3. SameTurn(t)
    BY <2>2 DEF SameTurn, Task
  <2>4. QED
    BY <1>4, <2>2, <2>3
<1>7. ASSUME NEW t \in Turns, NEW how \in {"completed", "failed"}, TaskEnds(t, how)
      PROVE  \A u \in Turns : SameTurn(u)
  <2>1. task'[t] = [task[t] EXCEPT !.state = how] /\ task[t] \in Task /\ task[t].state = "running"
        /\ \A u \in Turns : u # t => task'[u] = task[u]
    BY <1>1, <1>7 DEF TaskEnds
  <2>2. SameTurn(t)
    BY <2>1 DEF SameTurn, Task
  <2>3. QED
    BY <1>4, <2>1, <2>2
<1>8. CASE Messages
  BY <1>2, <1>3, <1>8
    
        DEF Messages, FolderDropped, FolderRefused, ScanDropped, ScanNotKept, Attach, Finish,
        PollTop,
         PollWatch, turns
<1>9. CASE User
  BY <1>2, <1>3, <1>9, SubmitBegins
     DEF User, AskFolder, StopScan, NewConversation, DeleteOnlyStops, Delete, Approve, Disapprove,
         Escape, turns
<1>10. QED
  BY <1>2, <1>5, <1>6, <1>7, <1>8, <1>9
     DEF Next, Outside, Edit, EventsLost, FolderChosen, Scan, ScanFile, ScanCancelled, Watching,
         Working, WatchStarts, HandleEvent, turns, vars

\* When every turn stays what it is, none has begun.
LEMMA NoneBegins ==
  ASSUME \A t \in Turns : SameTurn(t), NEW t \in Turns
  PROVE  ~Begins(t)
<1>1. Begins(t) => task[t].state = "none" /\ task'[t].state # "none"
  BY BoundsAreNat DEF Begins, Unused, Turns
<1>2. QED
  BY <1>1 DEF SameTurn

\* The turn on screen ends only with its worker done or told to stop; what is bound
\* changes only while no turn is on screen.
LEMMA ActiveStays ==
  ASSUME AskedOK, JobsOK, TasksOK, ActiveOK, Requests, Workers, [Next]_vars,
         \A t \in Turns : SameTurn(t)
  PROVE  /\ active' \in {active, 0} /\ (active' # 0 => stream' = stream /\ repo' = repo)
         /\ active # 0 /\ active' = 0 =>
              task'[active].state # "running" \/ task'[active].cancelled
<1>1. /\ active # 0 => stream = active /\ active \in Turns
      /\ stream \in 0..MaxTurns
  BY BoundsAreNat DEF Workers, ActiveOK, Turns
<1>2. CASE UNCHANGED <<active, stream, repo>>
  BY <1>2
<1>3. CASE active' = 0 /\ active = 0
  BY <1>3
<1>4. CASE active' = 0 /\ task' = CancelTask(task, stream)
  BY <1>1, <1>4, CancelledTask
<1>5. ASSUME NEW t \in Turns, Finish(t)
      PROVE  active' = 0 /\ active = t /\ task'[t].state # "running"
  BY <1>5 DEF Finish
<1>6. ASSUME NEW g \in Gens, Attach(g) PROVE active' = 0 /\ active = 0
  <2>1. g = gen /\ job[g].state = "scanning" /\ active' = active
    BY <1>6 DEF Attach, Current, Finished, turns
  <2>2. QED
    BY <1>6, <2>1 DEF Requests
<1>7. ASSUME NEW t \in Turns, NEW grounded \in BOOLEAN, NEW cloud \in BOOLEAN,
             Submit(t, grounded, cloud)
      PROVE  UNCHANGED <<active, stream, repo>>
  <2>1. ~Begins(t)
    BY NoneBegins
  <2>2. QED
    BY <1>7, <2>1, SubmitBegins DEF bound
<1>8. CASE Messages
  BY <1>2, <1>3, <1>5, <1>6, <1>8
     DEF Messages, FolderDropped, FolderRefused, ScanDropped, ScanNotKept, PollTop, PollWatch,
         turns, bound
<1>9. CASE NewConversation
  BY <1>2, <1>4, <1>9 DEF NewConversation, turns, bound
<1>10. CASE Delete
  BY <1>3, <1>10 DEF Delete
<1>11. CASE User
  BY <1>2, <1>7, <1>9, <1>10, <1>11
     DEF User, AskFolder, StopScan, DeleteOnlyStops, Approve, Disapprove, Escape, turns, bound
<1>12. QED
  BY <1>2, <1>8, <1>11
     DEF Next, Outside, Edit, EventsLost, FolderChosen, Scan, ScanFile, ScanCancelled, Watching,
         Working, WatchStarts, HandleEvent, BeginRead, EndRead, TaskEnds, turns, bound, vars

\* Every step keeps Workers.
LEMMA NextWorkers ==
  ASSUME RowsOK, TalkOK, AskedOK, ActiveOK, JobsOK, TasksOK, Requests, Binding, Workers, [Next]_vars
  PROVE  Workers'
<1>1. /\ 0 \notin Turns /\ active \in 0..MaxTurns /\ repo \in 0..gen /\ gen \in 0..MaxGens
      /\ MaxTurns \in Nat /\ MaxGens \in Nat
      /\ task \in [Turns -> Task]
  BY BoundsAreNat DEF ActiveOK, AskedOK, TasksOK, Turns
<1>2. /\ active # 0 => stream = active
      /\ \A t \in Turns :
           /\ task[t].snap # 0 => job[task[t].snap].state = "bound"
           /\ task[t].state = "running" /\ ~task[t].cancelled => active = t
           /\ task[t].snap # 0 /\ active = t => repo = task[t].snap
  BY DEF Workers, TurnIsWatched
<1>3. SUFFICES /\ active' # 0 => stream' = active'
               /\ \A t \in Turns :
                    /\ task'[t].snap # 0 => job'[task'[t].snap].state = "bound"
                    /\ task'[t].state = "running" /\ ~task'[t].cancelled => active' = t
                    /\ task'[t].snap # 0 /\ active' = t => repo' = task'[t].snap
  BY DEF Workers, TurnIsWatched
<1>4. \A g \in Gens : job[g].state = "bound" => job'[g].state = "bound"
  BY BoundStays DEF SameSnapshot
<1>5. \A t \in Turns : task[t].snap # 0 => job'[task[t].snap].state = "bound"
  <2>1. \A t \in Turns : task[t].snap # 0 => task[t].snap \in Gens
    BY <1>1 DEF Task, Gens
  <2>2. QED
    BY <1>2, <1>4, <2>1
<1>6. CASE \A t \in Turns : SameTurn(t)
  <2>1. /\ active' \in {active, 0} /\ (active' # 0 => stream' = stream /\ repo' = repo)
        /\ active # 0 /\ active' = 0 =>
             task'[active].state # "running" \/ task'[active].cancelled
    BY <1>6, ActiveStays
  <2>2. ASSUME NEW t \in Turns
        PROVE  /\ task'[t].snap = task[t].snap
               /\ task'[t].state = "running" /\ ~task'[t].cancelled =>
                    task[t].state = "running" /\ ~task[t].cancelled
    BY <1>6 DEF SameTurn
  <2>3. QED
    BY <1>1, <1>2, <1>5, <2>1, <2>2
<1>7. CASE \E t \in Turns : Begins(t)
  <2>1. PICK t \in Turns : Begins(t)
    BY <1>7
  <2>2. /\ active = 0 /\ active' = t /\ stream' = t /\ repo' = repo /\ task'[t].snap \in {0, repo}
        /\ \A u \in Turns : u # t => task'[u] = task[u]
    BY <2>1 DEF Begins, bound
  <2>3. repo # 0 => job'[repo].state = "bound"
    <3>1. repo # 0 => repo \in Gens /\ job[repo].state = "bound"
      BY <1>1 DEF Binding, Gens
    <3>2. QED
      BY <1>4, <3>1
  <2>4. ASSUME NEW u \in Turns, u # t
        PROVE  task'[u] = task[u] /\ ~(task[u].state = "running" /\ ~task[u].cancelled)
    BY <1>1, <1>2, <2>2, <2>4
  <2>5. QED
    BY <1>1, <1>5, <2>2, <2>3, <2>4
<1>8. QED
  BY <1>6, <1>7, TurnsStay
\* What Answers says of one turn.
Answer(t) ==
  /\ shown[t] # "none" =>
       /\ task[t].state # "none" /\ task[t].snap # 0
       /\ task[t].snap \in stale => shown[t] = "changed"
       /\ dbFresh[t] # "none" => shown[t] = dbFresh[t] \/ task[t].snap \in unmarked
  /\ shown[t] # "none" \/ active = t => ~empty /\ (durable \/ dbFresh[t] = "none")

\* Answers is that of every turn.
LEMMA AnswersOfTurns == Answers <=> \A t \in Turns : Answer(t)
BY DEF Answers, FreshnessAgrees, Answer

\* The same, after a step.
LEMMA AnswersOfTurnsNext == Answers' <=> (\A t \in Turns : Answer(t))'
BY AnswersOfTurns, PTL

\* Every step keeps Answers.
LEMMA NextAnswers ==
  ASSUME MarksOK, TalkOK, AskedOK, ActiveOK, JobsOK, TasksOK, Requests, Workers, Answers,
         [Next]_vars
  PROVE  Answers'
<1>1. /\ task \in [Turns -> Task] /\ dbFresh \in [Turns -> Freshness]
      /\ shown \in [Turns -> Freshness] /\ 0 \notin Turns /\ active \in 0..MaxTurns
      /\ durable \in BOOLEAN /\ empty \in BOOLEAN
  BY BoundsAreNat DEF TasksOK, MarksOK, ActiveOK, TalkOK, Turns
<1>2. \A t \in Turns : Answer(t)
  BY AnswersOfTurns
<1>3. SUFFICES \A u \in Turns : Answer(u)'
  BY AnswersOfTurnsNext
<1>4. CASE \E t \in Turns : Begins(t)
  <2>1. PICK t \in Turns : Begins(t)
    BY <1>4
  <2>2. /\ active = 0 /\ active' = t /\ ~empty' /\ task'[t].snap \in {0, repo}
        /\ UNCHANGED <<stale, unmarked, shown>> /\ (~empty => durable' = durable)
        /\ dbFresh' = [dbFresh EXCEPT ![t] = IF task'[t].snap # 0 /\ durable' THEN "fresh" ELSE "none"]
        /\ \A u \in Turns : u # t => task'[u] = task[u]
    BY <2>1 DEF Begins, bound
  <2>3. shown[t] = "none"
    <3>1. task[t].state = "none"
      BY <2>1, BoundsAreNat DEF Begins, Unused, Turns
    <3>2. QED
      BY <1>2, <3>1 DEF Answer
  <2>4. /\ dbFresh'[t] # "none" => durable'
        /\ \A u \in Turns : u # t => dbFresh'[u] = dbFresh[u]
    BY <1>1, <2>2
  <2>5. QED
    BY <1>1, <1>2, <2>2, <2>3, <2>4 DEF Answer
<1>5. CASE \A t \in Turns : SameTurn(t)
  <2>1. /\ active' \in {active, 0}
        /\ \A t \in Turns : /\ task'[t].snap = task[t].snap
                            /\ task[t].state # "none" => task'[t].state # "none"
    BY <1>5, ActiveStays DEF SameTurn
  <2>2. ASSUME UNCHANGED <<shown, stale, unmarked>>, ~empty => ~empty' /\ durable' = durable,
               \A t \in Turns : dbFresh'[t] \in {dbFresh[t], "none"}
        PROVE  \A u \in Turns : Answer(u)'
    <3>1. SUFFICES ASSUME NEW u \in Turns PROVE Answer(u)'
      OBVIOUS
    <3>2. /\ shown'[u] = shown[u] /\ (dbFresh'[u] = dbFresh[u] \/ dbFresh'[u] = "none")
          /\ task'[u].snap = task[u].snap /\ (task[u].state # "none" => task'[u].state # "none")
          /\ (~empty => durable' = durable) /\ stale' = stale /\ unmarked' = unmarked
      BY <2>1, <2>2
    <3>3. active' = u => active = u
      BY <1>1, <2>1
    <3>4. ~empty => ~empty'
      BY <2>2
    <3>5. Answer(u)
      BY <1>2
    <3>6. QED
      BY <3>2, <3>5, <3>3, <3>4 DEF Answer
  <2>3. ASSUME UNCHANGED <<shown, stale, unmarked, empty, durable, dbFresh>>
        PROVE  \A u \in Turns : Answer(u)'
    BY <2>2, <2>3
  <2>4. ASSUME shown' = [t \in Turns |-> "none"], active' = 0 PROVE \A u \in Turns : Answer(u)'
    BY <1>1, <2>4 DEF Answer
  <2>5. CASE NewConversation
    <3>1. \/ shown' = [t \in Turns |-> "none"] /\ active' = 0
          \/ UNCHANGED <<shown, stale, unmarked, empty, durable, dbFresh>>
      BY <2>5 DEF NewConversation, Replace, store, talk, bound, turns
    <3>2. QED
      BY <2>3, <2>4, <3>1
  <2>6. CASE Delete
    <3>1. active' = 0 /\ \A t \in Turns : dbFresh'[t] \in {dbFresh[t], "none"}
      BY <2>6 DEF Delete
    <3>2. CASE Replace(IF durable THEN Without(conv) ELSE stored)
      BY <2>4, <3>1, <3>2 DEF Replace
    <3>3. CASE ~Replace(IF durable THEN Without(conv) ELSE stored)
      BY <2>2, <2>6, <3>1, <3>3 DEF Delete, talk
    <3>4. QED
      BY <3>2, <3>3
  <2>7. ASSUME NEW t \in Turns, NEW grounded \in BOOLEAN, NEW cloud \in BOOLEAN,
               Submit(t, grounded, cloud)
        PROVE  \A u \in Turns : Answer(u)'
    <3>1. /\ UNCHANGED <<dbFresh, empty, shown, bound>> /\ (~empty => durable' = durable)
      BY <1>5, <2>7, SubmitBegins, NoneBegins
    <3>2. QED
      BY <2>2, <3>1 DEF bound
  <2>8. ASSUME NEW g \in Gens, NEW r \in Roots, FolderChosen(g, r)
        PROVE  \A u \in Turns : Answer(u)'
    <3>1. /\ UNCHANGED <<dbFresh, empty, shown, bound>> /\ (~empty => durable' = durable)
      BY <2>8 DEF FolderChosen, EnsureIfEmpty, turns
    <3>2. QED
      BY <2>2, <3>1 DEF bound
  <2>9. CASE PollWatch
    <3>1. /\ UNCHANGED <<active, empty, durable>> /\ repo # 0
      BY <2>9 DEF PollWatch, talk
    <3>2. CASE UNCHANGED <<stale, shown, dbFresh, unmarked>>
      BY <2>3, <3>1, <3>2
    <3>3. ASSUME stale' = stale \cup {repo},
                 shown' = [t \in Turns |->
                   IF task[t].snap = repo /\ shown[t] # "none" THEN "changed" ELSE shown[t]],
                 \/ /\ dbFresh' = [t \in Turns |->
                         IF durable /\ task[t].snap = repo /\ dbFresh[t] # "none"
                           THEN "changed" ELSE dbFresh[t]]
                    /\ unmarked' = unmarked
                 \/ unmarked' = unmarked \cup {repo} /\ dbFresh' = dbFresh
          PROVE  \A u \in Turns : Answer(u)'
      <4>1. SUFFICES ASSUME NEW t \in Turns PROVE Answer(t)'
        OBVIOUS
      <4>2. shown'[t] = IF task[t].snap = repo /\ shown[t] # "none" THEN "changed" ELSE shown[t]
        BY <3>3
      <4>3. \/ /\ dbFresh'[t] = IF durable /\ task[t].snap = repo /\ dbFresh[t] # "none"
                                  THEN "changed" ELSE dbFresh[t]
               /\ unmarked' = unmarked
            \/ unmarked' = unmarked \cup {repo} /\ dbFresh'[t] = dbFresh[t]
        BY <3>3
      <4>4. /\ shown'[t] # "none" => shown[t] # "none"
            /\ dbFresh'[t] # "none" => dbFresh[t] # "none"
        BY <4>2, <4>3
      <4>5. /\ task'[t].snap = task[t].snap /\ (task[t].state # "none" => task'[t].state # "none")
            /\ empty' = empty /\ durable' = durable /\ stale' = stale \cup {repo}
        BY <2>1, <3>1, <3>3
      <4>6. Answer(t) /\ (active' = t => active = t)
        BY <1>1, <1>2, <2>1
      <4>7. CASE task[t].snap = repo
        BY <4>2, <4>3, <4>4, <4>7, <4>5, <4>6 DEF Answer
      <4>8. CASE task[t].snap # repo
        BY <4>2, <4>3, <4>4, <4>8, <4>5, <4>6 DEF Answer
      <4>9. QED
        BY <4>7, <4>8
    <3>4. QED
      BY <2>9, <3>2, <3>3 DEF PollWatch
  <2>10. ASSUME NEW t \in Turns, Finish(t) PROVE \A u \in Turns : Answer(u)'
    <3>1. /\ UNCHANGED <<stale, unmarked, repo, empty, durable, task>> /\ active = t /\ active' = 0
          /\ task[t].state # "none"
      BY <2>10 DEF Finish, talk, bound
    <3>2. CASE UNCHANGED <<shown, dbFresh>>
      BY <2>3, <3>1, <3>2
    <3>3. PICK now : /\ now = IF repo # 0 /\ repo \in stale THEN "changed" ELSE "fresh"
                     /\ \/ UNCHANGED <<shown, dbFresh>>
                        \/ /\ task[t].snap # 0 /\ shown' = [shown EXCEPT ![t] = now]
                           /\ dbFresh' = IF durable THEN [dbFresh EXCEPT ![t] = now] ELSE dbFresh
      BY <2>10 DEF Finish
    <3>4. ASSUME task[t].snap # 0, shown' = [shown EXCEPT ![t] = now],
                 dbFresh' = IF durable THEN [dbFresh EXCEPT ![t] = now] ELSE dbFresh
          PROVE  \A u \in Turns : Answer(u)'
      <4>1. repo = task[t].snap
        BY <3>1, <3>4 DEF Workers, TurnIsWatched
      <4>2. /\ shown'[t] = now /\ (task[t].snap \in stale => now = "changed")
            /\ \A u \in Turns : u # t => shown'[u] = shown[u] /\ dbFresh'[u] = dbFresh[u]
        BY <1>1, <3>3, <3>4, <4>1
      <4>3. dbFresh'[t] = now \/ dbFresh'[t] = "none"
        BY <1>1, <1>2, <3>1, <3>4 DEF Answer
      <4>4. ~empty /\ (durable \/ dbFresh'[t] = "none")
        BY <1>1, <1>2, <3>1, <3>4 DEF Answer
      <4>5. QED
        BY <1>1, <1>2, <3>1, <3>4, <4>2, <4>3, <4>4 DEF Answer
    <3>5. QED
      BY <3>2, <3>3, <3>4
  <2>11. CASE Messages
    BY <2>3, <2>9, <2>10, <2>11
      
          DEF Messages, FolderDropped, FolderRefused, ScanDropped, ScanNotKept, Attach,
          PollTop, store,
           talk, turns, bound
  <2>12. CASE User
    BY <2>3, <2>5, <2>6, <2>7, <2>12
       DEF User, AskFolder, StopScan, DeleteOnlyStops, Approve, Disapprove, Escape, store, talk,
           turns, bound
  <2>13. CASE Outside
    BY <2>3, <2>8, <2>13 DEF Outside, Edit, EventsLost, store, talk, turns, bound
  <2>14. QED
    BY <2>3, <2>11, <2>12, <2>13
      
          DEF Next, Scan, ScanFile, ScanCancelled, Watching, Working, WatchStarts, HandleEvent,
          BeginRead,
           EndRead, TaskEnds, store, talk, turns, bound, vars
<1>6. QED
  BY <1>4, <1>5, TurnsStay
\* A snapshot marked stale stays so.
LEMMA StaleStays ==
  ASSUME [Next]_vars
  PROVE  stale \subseteq stale'
<1>1. CASE UNCHANGED stale
  BY <1>1
<1>2. CASE PollWatch
  BY <1>2 DEF PollWatch
<1>3. CASE Messages
  BY <1>1, <1>2, <1>3
     DEF Messages, FolderDropped, FolderRefused, ScanDropped, ScanNotKept, Attach,
                           Finish, PollTop, bound
<1>4. CASE User
  BY <1>1, <1>4 DEF User, AskFolder, StopScan, NewConversation, DeleteOnlyStops, Delete, Approve,
              Disapprove, Escape, Submit, bound
<1>5. QED
  BY <1>1, <1>3, <1>4
     DEF Next, Outside, Edit, EventsLost, FolderChosen, Scan, ScanFile, ScanCancelled, Watching,
         Working, WatchStarts, HandleEvent, BeginRead, EndRead, TaskEnds, bound, vars
\* Only the end of a read adds to the files a turn read.
LEMMA WatchedStay ==
  ASSUME AskedOK, TasksOK, ActiveOK, [Next]_vars, NEW t \in Turns
  PROVE  task'[t].watched = task[t].watched \/ Begins(t) \/ EndRead(t)
<1>1. stream \in 0..MaxTurns /\ task \in [Turns -> Task]
  BY DEF ActiveOK, TasksOK
<1>2. CASE UNCHANGED task
  BY <1>2
<1>3. CASE task' = CancelTask(task, stream)
  BY <1>1, <1>3, CancelledTask
<1>4. ASSUME NEW u \in Turns, NEW f \in Files, BeginRead(u, f)
      PROVE  task'[t].watched = task[t].watched
  BY <1>1, <1>4 DEF BeginRead, Task
<1>5. ASSUME NEW u \in Turns, EndRead(u), u # t PROVE task'[t].watched = task[t].watched
  BY <1>1, <1>5 DEF EndRead
<1>6. ASSUME NEW u \in Turns, NEW how \in {"completed", "failed"}, TaskEnds(u, how)
      PROVE  task'[t].watched = task[t].watched
  BY <1>1, <1>6 DEF TaskEnds, Task
<1>7. ASSUME NEW u \in Turns, NEW grounded \in BOOLEAN, NEW cloud \in BOOLEAN,
             Submit(u, grounded, cloud)
      PROVE  task'[t].watched = task[t].watched \/ Begins(t)
  <2>1. Begins(u) \/ UNCHANGED task
    BY <1>7, SubmitBegins
  <2>2. Begins(u) /\ u # t => task'[t] = task[t]
    BY DEF Begins
  <2>3. QED
    BY <2>1, <2>2
<1>8. CASE Messages
  BY <1>2, <1>3, <1>8
    
        DEF Messages, FolderDropped, FolderRefused, ScanDropped, ScanNotKept, Attach, Finish,
        PollTop,
         PollWatch, turns
<1>9. CASE User
  BY <1>2, <1>3, <1>7, <1>9
     DEF User, AskFolder, StopScan, NewConversation, DeleteOnlyStops, Delete, Approve, Disapprove,
         Escape, turns
<1>10. CASE Working
  BY <1>4, <1>5, <1>6, <1>10 DEF Working
<1>11. QED
  BY <1>2, <1>8, <1>9, <1>10
     DEF Next, Outside, Edit, EventsLost, FolderChosen, Scan, ScanFile, ScanCancelled, Watching,
         WatchStarts, HandleEvent, turns, vars

\* While the same repository stays bound, its watcher does not go away, and the folder and
\* the reports change in four ways only.
LEMMA WatcherStep ==
  ASSUME AskedOK, Binding, [Next]_vars, repo # 0, repo' = repo
  PROVE  /\ watch' # "on" => watch # "on"
         /\ \/ UNCHANGED <<disk, events>> /\ (signal => signal')
            \/ \E r \in Roots, f \in Files, v \in Versions : Edit(r, f, v)
            \/ \E f \in Files : HandleEvent(f)
            \/ EventsLost \/ PollWatch
<1> DEFINE Same == UNCHANGED <<watch, disk, events, signal>>
<1>1. CASE Same
  BY <1>1
<1>2. ASSUME NEW g \in Gens, Attach(g) PROVE FALSE
  <2>1. repo = g /\ job[g].state = "scanning"
    BY <1>2 DEF Attach, Finished
  <2>2. QED
    BY <2>1 DEF Binding
<1>3. CASE NewConversation
  BY <1>1, <1>3 DEF NewConversation, Replace, files, watcher
<1>4. CASE Delete
  BY <1>4 DEF Delete, Replace
<1>5. CASE PollWatch
  BY <1>5 DEF PollWatch
<1>6. CASE Messages
  BY <1>1, <1>2, <1>5, <1>6
     DEF Messages, FolderDropped, FolderRefused, ScanDropped, ScanNotKept, Finish, PollTop, world,
         files, watcher
<1>7. CASE User
  BY <1>1, <1>3, <1>4, <1>7
     DEF User, AskFolder, StopScan, DeleteOnlyStops, Approve, Disapprove, Escape, Submit, world,
         files, watcher
<1>8. CASE Outside
  BY <1>1, <1>8 DEF Outside, Edit, EventsLost, FolderChosen, files, watcher
<1>9. CASE Watching
  BY <1>1, <1>9 DEF Watching, WatchStarts, HandleEvent, files
<1>10. QED
  BY <1>1, <1>6, <1>7, <1>8, <1>9
     DEF Next, Scan, ScanFile, ScanCancelled, Working, BeginRead, EndRead, TaskEnds, world, files,
         watcher, vars

\* The repository that is bound is replaced by none, or by a scan that has ended.
LEMMA RepoStep ==
  ASSUME [Next]_vars
  PROVE  repo' = repo \/ repo' = 0 \/ \E g \in Gens : Attach(g)
<1>1. CASE Messages
  BY <1>1 DEF Messages, FolderDropped, FolderRefused, ScanDropped, ScanNotKept, Finish, PollTop,
              PollWatch, bound
<1>2. CASE User
  BY <1>2
     DEF User, AskFolder, StopScan, NewConversation, DeleteOnlyStops, Delete, Replace, Approve,
              Disapprove, Escape, Submit, bound
<1>3. QED
  BY <1>1, <1>2
     DEF Next, Outside, Edit, EventsLost, FolderChosen, Scan, ScanFile, ScanCancelled, Watching,
         Working, WatchStarts, HandleEvent, BeginRead, EndRead, TaskEnds, bound, vars

\* What Watches says of one turn of the bound snapshot.
Watch(t) ==
  /\ watch # "on" => task[t].watched = {}
  /\ repo \notin stale => \A f \in task[t].watched \cap Watched :
       f \in events \/ signal \/ disk[RootOf(repo)][f] = job[repo].image[f]

\* Every step keeps Watches.
LEMMA NextWatches ==
  ASSUME WorldOK, RowsOK, TalkOK, AskedOK, ActiveOK, JobsOK, TasksOK, Snapshots, Binding, Workers,
         Watches, [Next]_vars
  PROVE  Watches'
<1>1. SUFFICES ASSUME repo' # 0, NEW t \in Turns, task'[t].snap = repo' PROVE Watch(t)'
  BY DEF Watches, Watch
<1>2. /\ gen \in 0..MaxGens /\ MaxGens \in Nat /\ repo \in 0..gen /\ job \in [Gens -> Job]
      /\ disk \in [Roots -> [Files -> Versions]] /\ task \in [Turns -> Task]
  BY BoundsAreNat DEF AskedOK, JobsOK, WorldOK, TasksOK
<1>3. CASE Begins(t)
  BY <1>3 DEF Begins, Watch
<1>4. ~Begins(t) => task'[t].snap = task[t].snap
  BY TurnsStay DEF SameTurn, Begins
<1>5. ~Begins(t) => repo' = repo
  <2>1. ASSUME NEW g \in Gens, Attach(g), ~Begins(t) PROVE FALSE
    <3>1. repo' = g /\ job[g].state = "scanning"
      BY <2>1 DEF Attach, Finished
    <3>2. task[t].snap = g /\ g # 0
      BY <1>1, <1>4, <2>1, <3>1
    <3>3. QED
      BY <3>1, <3>2 DEF Workers
  <2>2. QED
    BY <1>1, <2>1, RepoStep
<1>6. ASSUME ~Begins(t)
      PROVE  /\ repo' = repo /\ repo # 0 /\ task[t].snap = repo /\ Watch(t) /\ repo \in Gens
             /\ job'[repo].root = job[repo].root /\ job'[repo].image = job[repo].image
             /\ job[repo].root \in Roots
  <2>1. repo' = repo /\ repo # 0 /\ task[t].snap = repo /\ repo \in Gens
    BY <1>1, <1>2, <1>4, <1>5, <1>6 DEF Gens
  <2>2. Watch(t) /\ job[repo].state = "bound"
    BY <2>1 DEF Watches, Watch, Binding
  <2>3. SameSnapshot(repo)
    BY <2>1, <2>2, BoundStays
  <2>4. job[repo].root \in Roots
    BY <2>1, <2>2 DEF Snapshots
  <2>5. QED
    BY <2>1, <2>2, <2>3, <2>4 DEF SameSnapshot
<1>7. CASE ~Begins(t) /\ EndRead(t)
  <2>1. /\ UNCHANGED <<watch, events, signal, stale, disk, repo, job>>
    BY <1>7 DEF EndRead, watcher, bound, world
  <2>2. PICK w : /\ task' = [task EXCEPT ![t] = [task[t] EXCEPT !.reading = None, !.watched = w]]
                 /\ w \subseteq task[t].watched \cup {task[t].reading}
                 /\ ~(disk[RootOf(repo)][task[t].reading] = job[repo].image[task[t].reading]
                        /\ watch = "on") => w = task[t].watched
    BY <1>6, <1>7 DEF EndRead
  <2>3. task'[t].watched = w
    BY <1>2, <2>2 DEF Task
  <2>4. QED
    BY <1>6, <1>7, <2>1, <2>2, <2>3 DEF Watch, RootOf
<1>8. CASE ~Begins(t) /\ task'[t].watched = task[t].watched
  <2>1. watch' # "on" => task'[t].watched = {}
    BY <1>6, <1>8, WatcherStep DEF Watch
  <2>2. SUFFICES ASSUME repo \notin stale', NEW f \in task[t].watched \cap Watched
        PROVE  f \in events' \/ signal' \/ disk'[job[repo].root][f] = job[repo].image[f]
    BY <1>6, <1>8, <2>1 DEF Watch, RootOf
  <2>3. repo \notin stale /\ watch = "on"
    <3>1. stale \subseteq stale'
      BY StaleStays
    <3>2. QED
      BY <1>6, <1>8, <2>2, <3>1 DEF Watch
  <2>4. f \in events \/ signal \/ disk[job[repo].root][f] = job[repo].image[f]
    BY <1>6, <1>8, <2>2, <2>3 DEF Watch, RootOf
  <2>5. CASE UNCHANGED <<disk, events>> /\ (signal => signal')
    BY <2>4, <2>5
  <2>6. ASSUME NEW r \in Roots, NEW h \in Files, NEW v \in Versions, Edit(r, h, v)
        PROVE  f \in events' \/ signal' \/ disk'[job[repo].root][f] = job[repo].image[f]
    <3>1. /\ disk' = [disk EXCEPT ![r] = [disk[r] EXCEPT ![h] = v]] /\ signal' = signal
          /\ events' = IF job[repo].root = r THEN events \cup {h} ELSE events
      BY <1>6, <1>8, <2>3, <2>6 DEF Edit, watcher, RootOf
    <3>2. CASE job[repo].root = r
      <4>1. f # h => disk'[r][f] = disk[r][f]
        BY <1>2, <3>1
      <4>2. QED
        BY <2>4, <3>1, <3>2, <4>1
    <3>3. CASE job[repo].root # r
      BY <1>2, <1>6, <1>8, <2>4, <3>1, <3>3
    <3>4. QED
      BY <3>2, <3>3
  <2>7. ASSUME NEW h \in Files, HandleEvent(h)
        PROVE  f \in events' \/ signal' \/ disk'[job[repo].root][f] = job[repo].image[f]
    BY <2>2, <2>4, <2>7 DEF HandleEvent, world
  <2>8. CASE EventsLost
    BY <2>8 DEF EventsLost
  <2>9. CASE PollWatch
    BY <1>6, <1>8, <2>2, <2>9 DEF PollWatch
  <2>10. QED
    BY <1>6, <1>8, <2>5, <2>6, <2>7, <2>8, <2>9, WatcherStep
<1>9. QED
  BY <1>3, <1>7, <1>8, WatchedStay
-----------------------------------------------------------------------------
(* The invariant.                                                           *)

\* The first window: no folder, one conversation with its row.
LEMMA InitTypes ==
  ASSUME Init
  PROVE  TypeOK
<1> USE BoundsAreNat DEF Init
<1>1. MaxConvs >= 1 /\ MaxVersion >= 1
  BY WorkspaceAssumption
<1>2. WorldOK
  <2>1. [f \in Files |-> 1] \in [Files -> Versions]
    BY <1>1 DEF Versions
  <2>2. QED
    BY <2>1 DEF WorldOK
<1>3. RowsOK
  <2>1. DOMAIN stored = {1} /\ stored[1] = 0 /\ recent = {} /\ convs = 1 /\ gen = 0
    OBVIOUS
  <2>2. QED
    BY <2>1 DEF RowsOK
<1>4. MarksOK /\ ActiveOK
  BY DEF MarksOK, ActiveOK, Freshness
<1>5. TalkOK /\ AskedOK
  <2>1. conv = 1 /\ convs = 1 /\ binding = 0 /\ epoch = 0 /\ durable \in BOOLEAN /\ empty \in BOOLEAN
    OBVIOUS
  <2>2. /\ gen = 0 /\ token = 0 /\ approved = 0 /\ repo = 0 /\ busy \in BOOLEAN /\ scope \in BOOLEAN
    OBVIOUS
  <2>3. TalkOK
    BY <1>1, <2>1, <2>2 DEF TalkOK
  <2>4. AskedOK
    BY <2>2 DEF AskedOK
  <2>5. QED
    BY <2>3, <2>4
<1>6. WatchOK
  BY DEF WatchOK
<1>7. JobsOK
  BY NoJobOK DEF JobsOK
<1>8. TasksOK
  <2>1. NoTask \in Task
    <3>1. 0 \in 0..MaxConvs /\ 0 \in 0..MaxGens
      OBVIOUS
    <3>2. QED
      BY <3>1, NewTaskOK
  <2>2. QED
    BY <2>1 DEF TasksOK
<1>9. QED
  BY <1>2, <1>3, <1>4, <1>5, <1>6, <1>7, <1>8, TypeParts

\* The invariant holds there.
LEMMA InitIInv ==
  ASSUME Init
  PROVE  IInv
<1>1. /\ \A g \in Gens : job[g].state = "none"
      /\ \A t \in Turns : task[t].state = "none" /\ task[t].snap = 0 /\ shown[t] = "none"
      /\ ~busy /\ active = 0 /\ repo = 0 /\ conv = 1 /\ stored[conv] = 0 /\ binding = 0
      /\ 0 \notin Turns
  BY BoundsAreNat DEF Init, NoJob, NoTask, Turns
<1>2. Requests /\ Snapshots
  BY <1>1 DEF Requests, BusyIsServed, Snapshots
<1>3. Binding
  BY <1>1 DEF Binding, AttachedByThisConversation, ConsentIsForThis, RowAgrees
<1>4. Workers
  BY <1>1 DEF Workers, TurnIsWatched
<1>5. Answers
  <2>1. \A t \in Turns : shown[t] = "none" /\ active # t
    BY <1>1
  <2>2. QED
    BY <2>1 DEF Answers, FreshnessAgrees
<1>6. Watches
  BY <1>1 DEF Watches
<1>7. QED
  BY <1>2, <1>3, <1>4, <1>5, <1>6, InitTypes DEF IInv

\* The same parts, after a step.
LEMMA TypePartsNext ==
  TypeOK' <=> (/\ WorldOK /\ RowsOK /\ MarksOK /\ TalkOK /\ AskedOK /\ ActiveOK
               /\ WatchOK /\ JobsOK /\ TasksOK)'
BY TypeParts, PTL

\* Every step keeps the types.
LEMMA NextTypes ==
  ASSUME TypeOK, Snapshots, [Next]_vars
  PROVE  TypeOK'
<1>1. /\ WorldOK /\ RowsOK /\ MarksOK /\ TalkOK /\ AskedOK /\ ActiveOK /\ WatchOK /\ JobsOK
      /\ TasksOK
  BY TypeParts
<1>2. WorldOK' /\ MarksOK' /\ ActiveOK'
  BY <1>1, NextWorldOK, NextMarksOK, NextActiveOK
<1>3. RowsOK' /\ TalkOK' /\ AskedOK' /\ WatchOK'
  BY <1>1, NextRowsOK, NextTalkOK, NextAskedOK, NextWatchOK
<1>4. JobsOK' /\ TasksOK'
  BY <1>1, NextJobsOK, NextTasksOK
<1>5. QED
  BY <1>2, <1>3, <1>4, TypePartsNext

\* Every step keeps the invariant.
LEMMA NextIInv ==
  ASSUME IInv, [Next]_vars
  PROVE  IInv'
<1>1. /\ WorldOK /\ RowsOK /\ MarksOK /\ TalkOK /\ AskedOK /\ ActiveOK /\ WatchOK /\ JobsOK
      /\ TasksOK
      /\ TypeOK /\ Requests /\ Snapshots /\ Binding /\ Workers /\ Answers /\ Watches
  BY TypeParts DEF IInv
<1>2. TypeOK'
  BY <1>1, NextTypes
<1>3. Requests' /\ Snapshots' /\ Binding'
  BY <1>1, NextRequests, NextSnapshots, NextBinding
<1>4. Workers'
  BY <1>1, NextWorkers
<1>5. Answers'
  BY <1>1, NextAnswers
<1>6. Watches'
  BY <1>1, NextWatches
<1>7. QED
  BY <1>2, <1>3, <1>4, <1>5, <1>6 DEF IInv

\* The invariant holds in every state the window can reach.
THEOREM Invariance == Spec => []IInv
<1>1. Init => IInv
  BY InitIInv
<1>2. IInv /\ [Next]_vars => IInv'
  BY NextIInv
<1>3. QED
  BY <1>1, <1>2, PTL DEF Spec

\* Every variable keeps its type, for any folders and bounds; a request names a generation
\* that was given out.
THEOREM WorkspaceTypes == Spec => []TypeOK
<1>1. IInv => TypeOK
  BY DEF IInv
<1>2. QED
  BY <1>1, Invariance, PTL

\* chat_app.rs:1845.  Whatever is chosen, cancelled, deleted or late: the bound repository
\* was asked for in this conversation and its scan left nothing out, its row and the consent
\* are about it, and the window is busy only while the request that ends that is under way.
THEOREM WhatIsBoundIsCurrent == Spec => []BindingIsCurrent
<1>1. ASSUME IInv PROVE BindingIsCurrent
  <2>1. ReadyIsWhole
    <3>1. Snapshots
      BY <1>1 DEF IInv
    <3>2. ASSUME NEW g \in Gens, job[g].state = "bound", Ready(g), edits = 0,
                 NEW f \in Scanned(RootOf(g))
          PROVE  job[g].image[f] = disk[RootOf(g)][f]
      BY <3>1, <3>2 DEF Snapshots, Ready, RootOf
    <3>3. QED
      BY <3>2 DEF ReadyIsWhole
  <2>2. AttachedByThisConversation /\ ConsentIsForThis /\ RowAgrees /\ BusyIsServed
    BY <1>1 DEF IInv, Binding, Requests
  <2>3. QED
    BY <2>1, <2>2 DEF BindingIsCurrent
<1>2. QED
  BY <1>1, Invariance, PTL

\* chat_app.rs:1752, watcher.rs:83.  A turn that may still answer works on the bound
\* snapshot; an answer shown as fresh rests on files that are as they were, when the watcher
\* has nothing left to report; screen and store agree on what is fresh.
THEOREM FreshnessIsTrue == Spec => []FreshnessHolds
<1>1. ASSUME IInv PROVE FreshnessHolds
  <2>1. Workers /\ Answers /\ Watches
    BY <1>1 DEF IInv
  <2>2. TurnIsWatched /\ FreshnessAgrees
    BY <2>1 DEF Workers, Answers
  <2>3. ASSUME NEW t \in Turns, shown[t] = "fresh", task[t].snap = repo, watch = "on",
               events = {}, ~signal, NEW f \in task[t].watched \cap Watched
        PROVE  disk[RootOf(repo)][f] = job[repo].image[f]
    <3>1. repo # 0 /\ repo \notin stale
      BY <2>1, <2>2, <2>3 DEF Answers, FreshnessAgrees
    <3>2. QED
      BY <2>1, <2>3, <3>1 DEF Watches
  <2>4. FreshAnswersHold
    BY <2>3 DEF FreshAnswersHold
  <2>5. QED
    BY <2>2, <2>4 DEF FreshnessHolds
<1>2. QED
  BY <1>1, Invariance, PTL

\* session.rs:61, chat_app.rs:1746.  A bound snapshot is never altered, and one that was
\* marked stale is never trusted again, by no step of any thread.
THEOREM SnapshotsAreFinal ==
  Spec => [][/\ stale \subseteq stale'
             /\ \A g \in Gens : job[g].state = "bound" => SameSnapshot(g)]_vars
<1>1. ASSUME IInv, [Next]_vars
      PROVE  /\ stale \subseteq stale'
             /\ \A g \in Gens : job[g].state = "bound" => SameSnapshot(g)
  <2>1. RowsOK /\ TalkOK /\ AskedOK /\ JobsOK
    BY <1>1, TypeParts DEF IInv
  <2>2. QED
    BY <1>1, <2>1, BoundStays, StaleStays
<1>2. QED
  BY <1>1, Invariance, PTL DEF Spec
=============================================================================
