------------------------- MODULE UpdateDataProofs -------------------------
(* What the supervisor does to the data, for every installation and every   *)
(* number of operations, failures and crashes: no write that a server       *)
(* admitted is overwritten, whoever writes reads the format of the data,    *)
(* and the journal refers to what is there.                                 *)
EXTENDS UpdateSupervisorProofs

(* A server admits writes.                                                  *)
Open == owner.kind = "server" /\ owner.active

(* No admitted write is missing in the backup of an operation.              *)
Fresh(op) == \A g \in Groups : <<op, g>> \notin stale

(* A journal whose data are to be put back.                                 *)
Changed(st) == st.dataChanged /\ ~st.writesOpened

(* Such a journal says that it must be recovered, and can be: nobody writes *)
(* and nobody wrote.                                                        *)
Bounded(st) ==
    Changed(st) => st.recovery /\ st.stage \notin Terminal /\ ~Open /\ Fresh(st.backup)

Before   == {"preparing", "downloading", "verifying", "inspecting", "preparing_backup",
             "stopping", "stopped", "backing_up"}
Trying   == {"installing", "restarting", "checking"}
Restoring == {"recover", "restore", "recover_start", "recover_health"}
Returning == {"undo", "undo_health", "undo_commit"}
Opening  == {"activating", "undo_commit", "recover_commit"}

(* What a failure at work may rely on.                                      *)
Prudent(t) ==
    /\ t.st.dataChanged \/ t.changed => t.stopped
    /\ t.stopped /\ ~t.st.writesOpened => ~Open /\ Fresh(t.st.backup)

(* An operation opens for writes only what is no longer to be put back.     *)
Careful(t) ==
    /\ Prudent(t)
    /\ t.step \in Before \cup Trying \cup Restoring => ~t.st.writesOpened
    /\ t.step \in {"stopped", "backing_up"} \cup Trying \cup Restoring => t.stopped
    /\ t.step \in {"backing_up", "installing"} \/ (t.step = "stopped" /\ t.phase = "work")
          => t.st.recovery
    /\ t.step = "activating" /\ t.phase = "emit" => t.stopped /\ ~t.st.writesOpened
    /\ t.step \in Returning => t.st.writesOpened
    /\ t.step \in Opening /\ t.phase = "work" => t.st.writesOpened /\ ~Changed(disk)

Safe(t) ==
    /\ Bounded(t.st)
    /\ t.step \in Works => Careful(t)
    /\ t.step = "boot_start" => ~Changed(t.st) /\ ~Changed(disk)

(* Operations are numbered, and so are their backups.                       *)
Numbered ==
    /\ disk.operation \in Nat
    /\ launcher # "down" => mem.operation = disk.operation
    /\ task.step # "none" => task.st.operation = disk.operation
    /\ \A o \in DOMAIN backups : o \in Nat \ {0} /\ o <= disk.operation
    /\ launcher \in Serving /\ task.step \in Before =>
          /\ task.st.operation # 0 /\ task.st.operation \notin DOMAIN backups
          /\ task.st.backup = 0
    /\ \A o, g : <<o, g>> \in stale => o \in DOMAIN backups

(* The main loop has what is on disk while no operation runs.               *)
Idle == launcher \in Serving /\ task.step = "none" => mem = disk

Whole == lost = {}

DInv == Numbered /\ Idle /\ Whole /\ Bounded(disk) /\ (launcher # "down" => Safe(task))

-----------------------------------------------------------------------------
(* A step of the operation that leaves the journal and the store alone.     *)
LEMMA OperationSafe ==
    ASSUME DInv, launcher \in Serving, task.step # "none", UNCHANGED disk, UNCHANGED mem,
           UNCHANGED launcher, UNCHANGED lost, UNCHANGED stale, UNCHANGED backups,
           Open' => Open \/ ~Changed(disk),
           task'.step # "none", task'.st.operation = task.st.operation,
           task'.step \in Before => task.step \in Before /\ task'.st.backup = task.st.backup,
           Safe(task)'
    PROVE  DInv'
<1>1. Numbered'
  BY DEF DInv, Numbered
<1>2. Idle' /\ Whole'
  BY DEF DInv, Idle, Whole
<1>3. Bounded(disk)'
  BY DEF DInv, Bounded, Changed, Fresh
<1> QED
  BY <1>1, <1>2, <1>3 DEF DInv

(* An operation that fails at work: what it returns or recovers is safe.    *)
LEMMA FailSafe ==
    ASSUME NEW t, TaskOK(t), Live(t.st), task' \in {Fail(t), GiveUp(t)},
           t.st.dataChanged \/ t.changed => t.stopped,
           t.stopped /\ ~t.st.writesOpened =>
               ~Open' /\ \A g \in Groups : <<t.st.backup, g>> \notin stale',
           Changed(t.st) => t.st.recovery
    PROVE  /\ Safe(task)' /\ task'.st.operation = t.st.operation
           /\ task'.step \in {"reopen", "settle", "undo", "recover"}
<1> DEFINE x == task'
           gone(st) == /\ st.dataChanged = t.st.dataChanged
                       /\ st.writesOpened = t.st.writesOpened
                       /\ st.backup = t.st.backup /\ st.operation = t.st.operation
           left(st) == [t.st EXCEPT !.recovery = t.stopped /\ ~t.st.writesOpened,
                                    !.stage = "interrupted"]
<1>1. \A st : DOMAIN st = JournalFields =>
          LET r == Return(t, st)
          IN  /\ r.step \in {"reopen", "settle"} /\ r.st.stage = st.stage
              /\ r.st.recovery = st.recovery /\ r.st.dataChanged = st.dataChanged
              /\ r.st.writesOpened = st.writesOpened /\ r.st.backup = st.backup
              /\ r.st.operation = st.operation
  BY DEF Return, Go, TaskOK, TaskFields, JournalFields
<1>2. /\ DOMAIN [t.st EXCEPT !.stage = "failed"] = JournalFields
      /\ gone([t.st EXCEPT !.stage = "failed"])
      /\ [t.st EXCEPT !.stage = "failed"].stage \notin Terminal
      /\ [t.st EXCEPT !.stage = "failed"].recovery = t.st.recovery
  BY DEF TaskOK, JournalFields, Terminal
<1>3. \A st : st = [t.st EXCEPT !.recovery = t.stopped /\ ~t.st.writesOpened,
                                !.stage = "interrupted"]
          => /\ DOMAIN st = JournalFields /\ gone(st) /\ st.stage \notin Terminal
             /\ st.recovery = (t.stopped /\ ~t.st.writesOpened)
  BY DEF TaskOK, JournalFields, Terminal
<1>4. \A step : LET g == Go(t, step, "emit")
                IN  /\ g.step = step /\ g.phase = "emit" /\ g.st = t.st
                    /\ g.stopped = t.stopped /\ g.changed = t.changed
  BY DEF Go, TaskOK, TaskFields
<1>5. \/ /\ x.step \in {"reopen", "settle"} /\ gone(x.st) /\ x.st.stage \notin Terminal
         /\ x.st.recovery \in {t.st.recovery, t.stopped /\ ~t.st.writesOpened}
      \/ /\ x.step = "undo" /\ x.phase = "emit" /\ x.st = t.st /\ t.st.writesOpened
         /\ x.stopped = t.stopped /\ x.changed = t.changed
      \/ /\ x.step = "recover" /\ x.phase = "emit" /\ x.st = t.st
         /\ t.stopped /\ ~t.st.writesOpened
         /\ x.stopped = t.stopped /\ x.changed = t.changed
  <2>1. CASE x = GiveUp(t)
    BY <1>1, <1>2, <2>1 DEF GiveUp
  <2>2. CASE x = Fail(t)
    <3>1. CASE launcher = "stopping"
      BY <1>1, <1>3, <2>2, <3>1 DEF Fail
    <3>2. CASE launcher # "stopping"
      BY <1>1, <1>2, <1>4, <2>2, <3>2 DEF Fail, GiveUp, MayRestore
    <3> QED
      BY <3>1, <3>2
  <2> QED
    BY <2>1, <2>2
<1>6. CASE x.step \in {"reopen", "settle"}
  BY <1>5, <1>6 DEF Safe, Bounded, Changed, Fresh, Works, Announces
<1>7. CASE x.step \in {"undo", "recover"}
  BY <1>5, <1>7 DEF Safe, Bounded, Changed, Fresh, Careful, Prudent, Before, Trying, Restoring,
     Returning, Opening, Live
<1> QED
  BY <1>5, <1>6, <1>7

(* What is known of an operation at work.                                   *)
LEMMA AtSafe ==
    ASSUME IInv, DInv, NEW step \in Works, NEW phase, At(step, phase)
    PROVE  /\ launcher \in Serving /\ task.step = step /\ task.phase = phase
           /\ TaskOK(task) /\ Live(task.st) /\ Careful(task) /\ Bounded(task.st)
           /\ (Changed(task.st) => task.st.recovery)
           /\ (task.st.dataChanged \/ task.changed => task.stopped)
           /\ (task.stopped /\ ~task.st.writesOpened => ~Open /\ Fresh(task.st.backup))
<1>1. launcher # "down"
  BY DEF At
<1> QED
  BY <1>1, AtFacts DEF At, DInv, Safe, Careful, Prudent, Bounded

(* The goroutine fails beside a server that does not open.                  *)
LEMMA FailKeeps ==
    ASSUME IInv, DInv, launcher \in Serving, task.step \in Works,
           task' \in {Fail(task), GiveUp(task)},
           UNCHANGED disk, UNCHANGED mem, UNCHANGED launcher, UNCHANGED lost, UNCHANGED stale,
           UNCHANGED backups, Open' => Open
    PROVE  DInv'
<1>1. /\ TaskOK(task) /\ Live(task.st) /\ (Changed(task.st) => task.st.recovery)
      /\ (task.st.dataChanged \/ task.changed => task.stopped)
      /\ (task.stopped /\ ~task.st.writesOpened => ~Open /\ Fresh(task.st.backup))
      /\ task.step # "none"
  <2>1. At(task.step, task.phase)
    BY DEF At, Serving
  <2> QED
    BY <2>1, AtSafe DEF Works, Announces
<1>2. task.stopped /\ ~task.st.writesOpened =>
          ~Open' /\ \A g \in Groups : <<task.st.backup, g>> \notin stale'
  BY <1>1 DEF Fresh
<1>3. /\ Safe(task)' /\ task'.st.operation = task.st.operation
      /\ task'.step \in {"reopen", "settle", "undo", "recover"}
  BY <1>1, <1>2, FailSafe
<1> QED
  BY <1>1, <1>3, OperationSafe DEF Before

(* The goroutine announces its next step.                                   *)
LEMMA NextSafe ==
    ASSUME IInv, DInv, launcher \in Serving, task.phase = "work",
           task.step \in Before \cup Trying, task.step \notin {"stopping", "backing_up"},
           UNCHANGED disk, UNCHANGED mem, UNCHANGED launcher, UNCHANGED lost, UNCHANGED stale,
           UNCHANGED backups, Open' => Open,
           NEW c, task' \in {Next_(task), Next_([task EXCEPT !.st.candidate = c])}
    PROVE  DInv'
<1>1. TaskOK(task) /\ Live(task.st) /\ Careful(task) /\ Bounded(task.st)
  <2>1. At(task.step, task.phase) /\ task.step \in Works
    BY DEF At, Serving, Works, Announces, Before, Trying
  <2> QED
    BY <2>1, AtSafe
<1>2. /\ task'.step = Then(task.step) /\ task'.phase = "emit"
      /\ task'.stopped = task.stopped /\ task'.changed = task.changed
      /\ task'.st.dataChanged = task.st.dataChanged
      /\ task'.st.writesOpened = task.st.writesOpened
      /\ task'.st.recovery = task.st.recovery /\ task'.st.backup = task.st.backup
      /\ task'.st.stage = task.st.stage /\ task'.st.operation = task.st.operation
  <2> DEFINE u == [task EXCEPT !.st.candidate = c]
             same(t) == /\ t.step = task.step /\ t.stopped = task.stopped
                        /\ t.changed = task.changed
                        /\ t.st.dataChanged = task.st.dataChanged
                        /\ t.st.writesOpened = task.st.writesOpened
                        /\ t.st.recovery = task.st.recovery /\ t.st.backup = task.st.backup
                        /\ t.st.stage = task.st.stage /\ t.st.operation = task.st.operation
  <2>1. TaskOK(u) /\ same(u)
    BY <1>1 DEF TaskOK, TaskFields, JournalFields
  <2>2. ASSUME NEW t, TaskOK(t), same(t), task' = Next_(t)
        PROVE  /\ task'.step = Then(t.step) /\ task'.phase = "emit" /\ task'.st = t.st
               /\ task'.stopped = t.stopped /\ task'.changed = t.changed
    BY <2>2 DEF Next_, Go, TaskOK, TaskFields
  <2>3. CASE task' = Next_(task)
    BY <1>1, <2>2, <2>3
  <2>4. CASE task' = Next_(u)
    <3> HIDE DEF u
    <3> QED
      BY <2>1, <2>2, <2>4
  <2> QED
    BY <2>3, <2>4
<1>3. /\ Then(task.step) \in {"downloading", "verifying", "inspecting", "preparing_backup",
                              "stopping", "backing_up", "installing", "restarting", "checking",
                              "activating"}
      /\ Then(task.step) \in {"backing_up", "installing"} => task.step = "stopped"
      /\ Then(task.step) \in {"restarting", "checking", "activating"} <=> task.step \in Trying
  BY DEF Then, Before, Trying
<1>4. task'.step \in Before => task.step \in Before
  BY <1>2, <1>3 DEF Before, Trying
<1>5. Safe(task)'
  BY <1>1, <1>2, <1>3 DEF Safe, Bounded, Changed, Fresh, Careful, Prudent, Before, Trying,
     Restoring, Returning, Opening
<1>6. task.step # "none" /\ task'.step # "none"
  BY <1>2, <1>3 DEF Before, Trying
<1> QED
  BY <1>2, <1>4, <1>5, <1>6, OperationSafe

(* The steps before the server stops.                                       *)
LEMMA PreparingSafe ==
    ASSUME IInv, DInv,
           Prepare \/ Download \/ Verify \/ Inspect \/ \E step \in Fallible : StepFails(step)
    PROVE  DInv'
<1>1. /\ launcher \in Serving /\ task.phase = "work" /\ task.step \in Works
      /\ task.step \in Before \cup Trying
  BY AtFacts DEF Prepare, Download, Verify, Inspect, StepFails, Fallible, Works, Announces, At,
     Before, Trying, Serving
<1>2. UNCHANGED <<disk, mem, launcher, lost, stale, backups>> /\ (Open' => Open)
  BY DEF Prepare, Download, Verify, Inspect, StepFails, Quiet, StepFrame, store, ghosts, Open
<1>3. CASE Prepare
  <2>1. CASE task' \in {Fail(task), Next_(task), Next_([task EXCEPT !.st.candidate =
                                                            task.st.previous])}
    BY <1>1, <1>2, <1>3, <2>1, FailKeeps, NextSafe DEF Prepare, At
  <2>2. CASE task' = Return(task, [task.st EXCEPT !.stage = "current"])
    <3>1. TaskOK(task) /\ Careful(task) /\ Bounded(task.st) /\ task.step = "preparing"
      BY <1>3, AtSafe DEF Prepare, Works
    <3>2. /\ task'.step \in {"reopen", "settle"}
          /\ task'.st.dataChanged = task.st.dataChanged
          /\ task'.st.writesOpened = task.st.writesOpened
          /\ task'.st.recovery = task.st.recovery /\ task'.st.backup = task.st.backup
          /\ task'.st.stage = "current" /\ task'.st.operation = task.st.operation
      BY <2>2, <3>1 DEF Return, Go, TaskOK, TaskFields, JournalFields
    <3>3. Safe(task)'
      BY <1>2, <3>1, <3>2 DEF Safe, Bounded, Changed, Fresh, Terminal, Works, Announces
    <3> QED
      BY <1>1, <1>2, <3>1, <3>2, <3>3, OperationSafe DEF Before
  <2> QED
    BY <1>3, <2>1, <2>2 DEF Prepare
<1>4. CASE Download \/ Inspect
  <2>1. task' = Next_(task) /\ task.step \notin {"stopping", "backing_up"}
    BY <1>4 DEF Download, Inspect, At
  <2> QED
    BY <1>1, <1>2, <2>1, NextSafe
<1>5. CASE Verify
  <2>1. /\ task.step = "verifying"
        /\ \/ task' = Fail(task)
           \/ \E c : task' = Next_([task EXCEPT !.st.candidate = c])
    BY <1>5 DEF Verify, At
  <2>2. CASE task' = Fail(task)
    BY <1>1, <1>2, <2>2, FailKeeps
  <2>3. ASSUME NEW c, task' = Next_([task EXCEPT !.st.candidate = c])
        PROVE  DInv'
    BY <1>1, <1>2, <2>1, <2>3, NextSafe
  <2> QED
    BY <2>1, <2>2, <2>3
<1>6. CASE \E step \in Fallible : StepFails(step)
  BY <1>1, <1>2, <1>6, FailKeeps DEF StepFails
<1> QED
  BY <1>3, <1>4, <1>5, <1>6

(* The server stops: whatever it admitted is in the data now.               *)
LEMMA StopServerSafe == ASSUME IInv, DInv, StopServer PROVE DInv'
<1>1. /\ launcher \in Serving /\ task.step = "stopping" /\ task.phase = "work"
      /\ TaskOK(task) /\ Live(task.st) /\ Careful(task) /\ Bounded(task.st)
  BY AtSafe DEF StopServer, Works, Announces
<1>2. UNCHANGED <<disk, mem, launcher, lost, stale, backups>>
  BY DEF StopServer, StepFrame, store, ghosts
<1>3. CASE task' = Fail(task) /\ UNCHANGED owner
  BY <1>1, <1>2, <1>3, FailKeeps DEF Works, Announces, Open
<1>4. CASE task' = [Next_(task) EXCEPT !.stopped = TRUE] /\ owner' = NoOwner
  <2>1. /\ task'.step = "stopped" /\ task'.phase = "emit" /\ task'.st = task.st
        /\ task'.stopped = TRUE
    BY <1>1, <1>4 DEF Next_, Go, Then, TaskOK, TaskFields
  <2>2. ~Open'
    BY <1>4 DEF Open, NoOwner
  <2>3. task.st.backup = 0 /\ Fresh(0)
    BY <1>1 DEF DInv, Numbered, Fresh, Before
  <2>4. Safe(task)'
    BY <1>1, <1>2, <2>1, <2>2, <2>3 DEF Safe, Bounded, Changed, Fresh, Careful, Prudent, Before,
       Trying, Restoring, Returning, Opening
  <2> QED
    BY <1>1, <1>2, <2>1, <2>2, <2>4, OperationSafe DEF Before
<1> QED
  BY <1>3, <1>4 DEF StopServer

(* The data are copied while nobody writes.                                 *)
LEMMA BackUpSafe == ASSUME IInv, DInv, BackUp PROVE DInv'
<1> DEFINE op == task.st.operation
<1>1. /\ launcher \in Serving /\ task.step = "backing_up" /\ task.phase = "work"
      /\ TaskOK(task) /\ Live(task.st) /\ Careful(task) /\ Bounded(task.st)
  BY AtSafe DEF BackUp, Works, Announces
<1>2. /\ UNCHANGED <<disk, mem, launcher, owner, lost, stale>>
      /\ DOMAIN backups' = DOMAIN backups \cup {op}
      /\ task' = [Next_(task) EXCEPT !.st.backup = op]
  BY DEF BackUp, StepFrame, ghosts
<1>3. /\ task'.step = "installing" /\ task'.phase = "emit"
      /\ task'.stopped = task.stopped /\ task'.changed = task.changed
      /\ task'.st.dataChanged = task.st.dataChanged
      /\ task'.st.writesOpened = task.st.writesOpened
      /\ task'.st.recovery = task.st.recovery /\ task'.st.backup = op
      /\ task'.st.stage = task.st.stage /\ task'.st.operation = op
  BY <1>1, <1>2 DEF Next_, Go, Then, TaskOK, TaskFields, JournalFields
<1>4. /\ op = disk.operation /\ op # 0 /\ op \notin DOMAIN backups /\ disk.operation \in Nat
      /\ launcher # "down" /\ mem.operation = disk.operation
      /\ \A o \in DOMAIN backups : o \in Nat \ {0} /\ o <= disk.operation
      /\ \A o, g : <<o, g>> \in stale => o \in DOMAIN backups
  BY <1>1 DEF DInv, Numbered, Before, Serving
<1>5. Fresh(op)
  BY <1>4 DEF Fresh
<1>6. Numbered'
  <2>1. \A o \in DOMAIN backups' : o \in Nat \ {0} /\ o <= disk.operation
    BY <1>2, <1>4
  <2> QED
    BY <1>2, <1>3, <1>4, <2>1 DEF Numbered, Before
<1>7. Idle' /\ Whole' /\ Bounded(disk)'
  BY <1>2, <1>3 DEF DInv, Idle, Whole, Bounded, Changed, Fresh, Open
<1>8. Safe(task)'
  BY <1>1, <1>2, <1>3, <1>5 DEF Safe, Bounded, Changed, Fresh, Open, Careful, Prudent, Before,
     Trying, Restoring, Returning, Opening
<1> QED
  BY <1>6, <1>7, <1>8 DEF DInv

(* The data migrate, and the candidate is tried in probation.               *)
LEMMA TryingSafe ==
    ASSUME IInv, DInv,
           \/ StartMigration \/ FinishMigration \/ MigrationFails
           \/ StartCandidate \/ CheckCandidate
    PROVE  DInv'
<1>1. /\ launcher \in Serving /\ task.step \in Trying /\ task.phase = "work"
      /\ task.step \in Works /\ task.step # "none"
  BY DEF StartMigration, FinishMigration, MigrationFails, StartCandidate, CheckCandidate, At,
     Serving, Trying, Works, Announces
<1>2. UNCHANGED <<disk, mem, launcher, lost, stale, backups>>
  BY DEF StartMigration, FinishMigration, MigrationFails, StartCandidate, CheckCandidate, Quiet,
     StepFrame, store, ghosts
<1>3. Open' => Open
  <2>1. CASE StartMigration
    BY <2>1 DEF StartMigration, NoOwner, Open
  <2>2. CASE FinishMigration \/ MigrationFails
    BY <2>2 DEF FinishMigration, MigrationFails, NoOwner, Open
  <2>3. CASE StartCandidate
    BY <2>3 DEF StartCandidate, Serve, NoOwner, Open
  <2>4. CASE CheckCandidate
    BY <2>4 DEF CheckCandidate, Quiet, Open
  <2> QED
    BY <2>1, <2>2, <2>3, <2>4
<1>4. CASE StartMigration
  <2>1. UNCHANGED task
    BY <1>4 DEF StartMigration
  <2>2. Safe(task)
    BY <1>1 DEF DInv, Serving
  <2>3. Safe(task)'
    BY <1>2, <1>3, <2>1, <2>2 DEF Safe, Careful, Prudent, Bounded, Changed, Fresh
  <2> QED
    BY <1>1, <1>2, <1>3, <2>1, <2>3, OperationSafe
<1>5. CASE task' = Fail(task)
  BY <1>1, <1>2, <1>3, <1>5, FailKeeps
<1>6. CASE task' = Next_(task)
  BY <1>1, <1>2, <1>3, <1>6, NextSafe DEF Trying
<1> QED
  BY <1>4, <1>5, <1>6 DEF FinishMigration, MigrationFails, StartCandidate, CheckCandidate

(* An operation that returns a result.                                      *)
LEMMA ReturnSafe ==
    ASSUME IInv, DInv, launcher \in Serving, task.step # "none",
           UNCHANGED disk, UNCHANGED mem, UNCHANGED launcher, UNCHANGED lost, UNCHANGED stale,
           UNCHANGED backups, Open' => Open \/ ~Changed(disk),
           NEW st, DOMAIN st = JournalFields, ~Changed(st), st.operation = task.st.operation,
           NEW t, TaskOK(t), task' = Return(t, st)
    PROVE  DInv'
<1>1. /\ task'.step \in {"reopen", "settle"} /\ task'.st.dataChanged = st.dataChanged
      /\ task'.st.writesOpened = st.writesOpened /\ task'.st.operation = st.operation
  BY DEF Return, Go, TaskOK, TaskFields, JournalFields
<1>2. Safe(task)'
  BY <1>1 DEF Safe, Bounded, Changed, Works, Announces
<1> QED
  BY <1>1, <1>2, OperationSafe DEF Before

(* What the two results say.                                                *)
LEMMA ResultFacts ==
    ASSUME NEW t, TaskOK(t), ~Changed(t.st)
    PROVE  /\ LET st == [t.st EXCEPT !.candidate = NoBinary, !.dataChanged = FALSE,
                             !.recovery = FALSE,
                             !.stage = IF t.action = "rollback" THEN "rolled_back"
                                       ELSE "completed"]
              IN DOMAIN st = JournalFields /\ ~Changed(st) /\ st.operation = t.st.operation
           /\ LET st == [t.st EXCEPT !.stage = "rolled_back"]
              IN DOMAIN st = JournalFields /\ ~Changed(st) /\ st.operation = t.st.operation
BY DEF TaskOK, JournalFields, Changed

(* The server opens only once the journal on disk says so.                  *)
LEMMA CommitSafe ==
    ASSUME IInv, DInv, NEW step \in Opening, At(step, "work"),
           UNCHANGED disk, UNCHANGED mem, UNCHANGED launcher, UNCHANGED lost, UNCHANGED stale,
           UNCHANGED backups, task' \in {Completed, RolledBack(task), Fail(task), GiveUp(task)}
    PROVE  DInv'
<1>1. /\ launcher \in Serving /\ task.step \in Opening /\ task.phase = "work"
      /\ TaskOK(task) /\ Live(task.st) /\ Careful(task) /\ task.step # "none"
      /\ (task.st.dataChanged \/ task.changed => task.stopped)
  BY AtSafe DEF Opening, Works, Announces
<1>2. task.st.writesOpened /\ ~Changed(disk) /\ ~Changed(task.st)
  BY <1>1 DEF Careful, Changed
<1>3. CASE task' \in {Fail(task), GiveUp(task)}
  <2>1. /\ Safe(task)' /\ task'.st.operation = task.st.operation
        /\ task'.step \in {"reopen", "settle", "undo", "recover"}
    BY <1>1, <1>2, <1>3, FailSafe
  <2> QED
    BY <1>1, <1>2, <2>1, OperationSafe DEF Before
<1>4. CASE task' \in {Completed, RolledBack(task)}
  BY <1>1, <1>2, <1>4, ResultFacts, ReturnSafe DEF Completed, RolledBack
<1> QED
  BY <1>3, <1>4

(* The goroutine goes from one step of the way back to the next.            *)
LEMMA WaySafe ==
    ASSUME IInv, DInv, launcher \in Serving, task.step \in Works,
           UNCHANGED disk, UNCHANGED mem, UNCHANGED launcher, UNCHANGED lost, UNCHANGED stale,
           UNCHANGED backups, Open' => Open,
           NEW to, NEW phase, task' = Go(task, to, phase),
           \/ task.step \in Returning /\ to \in Returning
           \/ task.step \in Restoring /\ to \in Restoring \cup {"recover_commit"},
           to \in Opening => phase = "emit"
    PROVE  DInv'
<1>1. /\ TaskOK(task) /\ Live(task.st) /\ Careful(task) /\ Bounded(task.st)
      /\ task.step # "none"
  <2>1. At(task.step, task.phase)
    BY DEF At, Serving
  <2> QED
    BY <2>1, AtSafe DEF Works, Announces
<1>2. /\ task'.step = to /\ task'.phase = phase /\ task'.st = task.st
      /\ task'.stopped = task.stopped /\ task'.changed = task.changed
  BY <1>1 DEF Go, TaskOK, TaskFields
<1>3. to \notin Before \cup Trying \cup {"none", "stopped", "backing_up", "activating", "boot_start"}
  BY DEF Before, Trying, Returning, Restoring
<1>4. Safe(task)'
  <2>1. Prudent(task)' /\ Bounded(task.st)'
    BY <1>1, <1>2 DEF Careful, Prudent, Bounded, Changed, Fresh
  <2>2. Careful(task)'
    BY <1>1, <1>2, <1>3, <2>1 DEF Careful, Trying, Restoring, Returning, Opening
  <2> QED
    BY <1>2, <1>3, <2>1, <2>2 DEF Safe
<1> QED
  BY <1>1, <1>2, <1>3, <1>4, OperationSafe

(* The data are put back, and the predecessor is tried.                     *)
LEMMA RecoverySafe == ASSUME IInv, DInv, BeginRecovery \/ FinishRecovery PROVE DInv'
<1>1. /\ launcher \in Serving /\ task.step \in {"recover", "restore"} /\ task.phase = "work"
      /\ task.step \in Works /\ task.step # "none"
      /\ TaskOK(task) /\ Live(task.st) /\ Careful(task) /\ Bounded(task.st)
      /\ task.stopped /\ ~task.st.writesOpened /\ ~Open /\ Fresh(task.st.backup)
  <2>1. \E step \in {"recover", "restore"} : At(step, "work")
    BY DEF BeginRecovery, FinishRecovery
  <2> QED
    BY <2>1, AtSafe DEF Careful, Restoring, Works, Announces
<1>2. UNCHANGED <<disk, mem, launcher, lost, stale, backups>> /\ ~Open'
  BY <1>1 DEF BeginRecovery, FinishRecovery, Quiet, StepFrame, store, ghosts, Open, NoOwner
<1>3. CASE BeginRecovery
  <2>1. /\ task'.step = "restore" /\ task'.phase = "work" /\ task'.stopped = task.stopped
        /\ task'.changed = task.changed /\ task'.st.recovery = TRUE
        /\ task'.st.dataChanged = task.changed
        /\ task'.st.writesOpened = task.st.writesOpened /\ task'.st.backup = task.st.backup
        /\ task'.st.stage = task.st.stage /\ task'.st.operation = task.st.operation
    BY <1>1, <1>3 DEF BeginRecovery, Go, TaskOK, TaskFields, JournalFields
  <2>2. Safe(task)'
    BY <1>1, <1>2, <2>1 DEF Safe, Bounded, Changed, Fresh, Careful, Prudent, Live, Before,
       Trying, Restoring, Returning, Opening
  <2> QED
    BY <1>1, <1>2, <2>1, <2>2, OperationSafe DEF Before
<1>4. CASE FinishRecovery
  <2> DEFINE t == [task EXCEPT !.st = Recovered(task.st)]
  <2>1. /\ TaskOK(t) /\ ~t.st.dataChanged /\ ~Changed(t.st)
        /\ t.st.operation = task.st.operation /\ t.st.writesOpened = task.st.writesOpened
        /\ t.stopped = task.stopped /\ t.changed = task.changed /\ t.st.backup = task.st.backup
    BY <1>1 DEF TaskOK, TaskFields, JournalFields, Recovered, Changed
  <2>2. task' \in {GiveUp(task), RolledBack(t), Go(t, "recover_start", "work")}
    BY <1>4 DEF FinishRecovery
  <2> HIDE DEF t
  <2>3. CASE task' = GiveUp(task)
    BY <1>1, <1>2, <2>3, FailKeeps
  <2>4. CASE task' = RolledBack(t)
    BY <1>1, <1>2, <2>1, <2>4, ResultFacts, ReturnSafe DEF RolledBack
  <2>5. CASE task' = Go(t, "recover_start", "work")
    <3>1. /\ task'.step = "recover_start" /\ task'.phase = "work" /\ task'.st = t.st
          /\ task'.stopped = task.stopped /\ task'.changed = task.changed
      BY <2>1, <2>5 DEF Go, TaskOK, TaskFields
    <3>2. Safe(task)'
      BY <1>1, <1>2, <2>1, <3>1 DEF Safe, Bounded, Changed, Fresh, Careful, Prudent, Before,
         Trying, Restoring, Returning, Opening
    <3> QED
      BY <1>1, <1>2, <2>1, <3>1, <3>2, OperationSafe DEF Before
  <2> QED
    BY <2>2, <2>3, <2>4, <2>5
<1> QED
  BY <1>3, <1>4

(* The activation, and the ways back to the predecessor.                    *)
LEMMA EndingSafe == ASSUME IInv, DInv, Activate \/ GoBack PROVE DInv'
<1>1. UNCHANGED <<disk, mem, launcher, lost, stale, backups>>
  BY DEF Activate, GoBack, Commit, StartOld, CheckOld, BeginRecovery, FinishRecovery, Quiet,
     StepFrame, store, ghosts
<1>2. CASE Activate
  <2>1. At("activating", "work") /\ task' \in {Completed, Fail(task)}
    BY <1>2 DEF Activate, Commit
  <2> QED
    BY <1>1, <2>1, CommitSafe DEF Opening
<1>3. CASE \/ Commit("undo_commit", RolledBack(task), GiveUp(task))
           \/ Commit("recover_commit", RolledBack(task), GiveUp(task))
  <2>1. \E step \in Opening : At(step, "work")
    BY <1>3 DEF Commit, Opening
  <2>2. task' \in {RolledBack(task), GiveUp(task)}
    BY <1>3 DEF Commit
  <2> QED
    BY <1>1, <2>1, <2>2, CommitSafe
<1>4. CASE BeginRecovery \/ FinishRecovery
  BY <1>4, RecoverySafe
<1>5. ASSUME NEW from, NEW to, StartOld(from, to) \/ CheckOld(from, to),
             \/ from \in {"undo", "undo_health"} /\ to \in Returning
             \/ /\ from \in {"recover_start", "recover_health"}
                /\ to \in Restoring \cup {"recover_commit"},
             to \in Opening => CheckOld(from, to)
      PROVE  DInv'
  <2>1. launcher \in Serving /\ task.step = from /\ task.step \in Works
    BY <1>5 DEF StartOld, CheckOld, At, Serving, Works, Announces
  <2>2. Open' => Open
    <3>1. CASE StartOld(from, to)
      <4>1. \E b : owner' \in {Serve(b, FALSE), NoOwner}
        BY <3>1 DEF StartOld
      <4> QED
        <5>1. \A b : ~Serve(b, FALSE).active
          BY DEF Serve, NoOwner
        <5>2. ~NoOwner.active
          BY DEF NoOwner
        <5> QED
          BY <4>1, <5>1, <5>2 DEF Open
    <3>2. CASE CheckOld(from, to)
      BY <3>2 DEF CheckOld, Quiet, Open
    <3> QED
      BY <1>5, <3>1, <3>2
  <2>3. CASE task' = GiveUp(task)
    BY <1>1, <2>1, <2>2, <2>3, FailKeeps
  <2>4. CASE task' = Go(task, to, "emit") \/ (to \notin Opening /\ task' = Go(task, to, "work"))
    BY <1>1, <1>5, <2>1, <2>2, <2>4, WaySafe DEF Returning, Restoring
  <2> QED
    BY <1>5, <2>3, <2>4 DEF StartOld, CheckOld
<1>6. CASE \/ StartOld("undo", "undo_health") \/ StartOld("recover_start", "recover_health")
           \/ CheckOld("undo_health", "undo_commit")
           \/ CheckOld("recover_health", "recover_commit")
  BY <1>5, <1>6 DEF Returning, Restoring, Opening
<1> QED
  BY <1>2, <1>3, <1>4, <1>6 DEF GoBack

-----------------------------------------------------------------------------
(* What an entry says of the data, compared with the operation's journal.   *)
LEMMA AnnouncedData ==
    ASSUME TaskOK(task), task.step \in Announces
    PROVE  /\ Announced.operation = task.st.operation /\ Announced.backup = task.st.backup
           /\ Announced.dataChanged <=> task.st.dataChanged \/ task.step = "installing"
           /\ Announced.writesOpened <=>
                  task.st.writesOpened \/ task.step \in {"activating", "recover_commit"}
           /\ task.step # "activating" =>
                  (Announced.recovery <=> task.st.recovery \/ task.step = "stopped")
<1>1. CASE task.step \in {"undo", "recover"}
  BY <1>1 DEF Announced, TaskOK, JournalFields
<1>2. CASE task.step = "stopped"
  BY <1>2 DEF Announced, TaskOK, JournalFields
<1>3. CASE task.step = "installing"
  BY <1>3 DEF Announced, Installing, TaskOK, JournalFields
<1>4. CASE task.step = "activating"
  BY <1>4 DEF Announced, Activating, TaskOK, JournalFields
<1>5. CASE task.step = "undo_commit"
  BY <1>5 DEF Announced, TaskOK, JournalFields
<1>6. CASE task.step = "recover_commit"
  BY <1>6 DEF Announced, TaskOK, JournalFields
<1>7. CASE task.step \notin {"undo", "recover", "stopped", "installing", "activating",
                             "undo_commit", "recover_commit"}
  BY <1>7 DEF Announced, TaskOK, JournalFields
<1> QED
  BY <1>1, <1>2, <1>3, <1>4, <1>5, <1>6, <1>7

(* And what the operation keeps in hand of an entry it could not write.     *)
LEMMA WithdrawnData ==
    ASSUME NEW a, DOMAIN a = JournalFields
    PROVE  LET w == Withdrawn(a)
           IN  /\ w.operation = a.operation /\ w.backup = a.backup
               /\ w.dataChanged <=> a.dataChanged /\ task.step # "installing"
               /\ w.writesOpened <=> a.writesOpened /\ task.step # "activating"
               /\ w.recovery <=> a.recovery \/ task.step = "activating"
BY DEF Withdrawn, JournalFields

(* A journal entry on its way: what it says of the data is true already, or *)
(* becomes true only once it is written.                                    *)
LEMMA EmitSafe == ASSUME IInv, DInv, Emit PROVE DInv'
<1> DEFINE a == Announced
           w == Withdrawn(a)
           works == [Go(task, task.step, "work") EXCEPT !.st = a,
                         !.changed = @ \/ task.step = "installing"]
           left == [task EXCEPT !.st = w]
<1>1. /\ launcher \in Serving /\ task.step \in Announces /\ task.step \in Works
      /\ task.phase = "emit" /\ task.step # "none" /\ launcher # "down"
      /\ TaskOK(task) /\ Live(task.st) /\ Careful(task) /\ Bounded(task.st)
      /\ (task.st.dataChanged \/ task.changed => task.stopped)
      /\ (task.stopped /\ ~task.st.writesOpened => ~Open /\ Fresh(task.st.backup))
  <2>1. task.step \in Announces /\ task.step \in Works /\ task.phase = "emit"
        /\ launcher \in Serving
    BY DEF Emit, IInv, Phases, Serving, Works
  <2>2. At(task.step, "emit")
    BY <2>1 DEF At, Serving
  <2> QED
    BY <2>1, <2>2, AtSafe DEF Works, Announces, Serving
<1>2. UNCHANGED <<launcher, owner, lost, stale, backups>>
  BY DEF Emit, store, ghosts
<1>3. /\ DOMAIN a = JournalFields /\ Live(a) /\ Live(w) /\ DOMAIN w = JournalFields
      /\ a.operation = task.st.operation /\ a.backup = task.st.backup
      /\ a.dataChanged <=> task.st.dataChanged \/ task.step = "installing"
      /\ a.writesOpened <=>
             task.st.writesOpened \/ task.step \in {"activating", "recover_commit"}
      /\ task.step # "activating" => (a.recovery <=> task.st.recovery \/ task.step = "stopped")
  BY <1>1, AnnouncedFacts, AnnouncedData
<1>4. /\ w.operation = a.operation /\ w.backup = a.backup
      /\ w.dataChanged <=> a.dataChanged /\ task.step # "installing"
      /\ w.writesOpened <=> a.writesOpened /\ task.step # "activating"
      /\ w.recovery <=> a.recovery \/ task.step = "activating"
  <2> HIDE DEF a
  <2> QED
    BY <1>3, WithdrawnData
<1>5. /\ disk' \in {disk, a} /\ mem' \in {mem, a}
      /\ \/ task' = works /\ disk' = a
         \/ task' \in {Fail(left), GiveUp(left)}
  BY DEF Emit, Save, Heard
<1> HIDE DEF a, w
<1>6. /\ DOMAIN works = TaskFields /\ works.step = task.step /\ works.phase = "work"
      /\ works.st = a /\ works.stopped = task.stopped
      /\ works.changed <=> task.changed \/ task.step = "installing"
  BY <1>1 DEF Go, TaskOK, TaskFields
<1>7. TaskOK(left) /\ left.st = w /\ left.stopped = task.stopped /\ left.changed = task.changed
  BY <1>1, <1>3 DEF TaskOK, TaskFields
<1> HIDE DEF works, left
<1>8. /\ task.step = "installing" => task.stopped /\ task.st.recovery
      /\ task.step = "activating" => task.stopped /\ ~task.st.writesOpened
  BY <1>1 DEF Careful, Trying
<1>9. Bounded(a) /\ (Open' <=> Open)
  BY <1>1, <1>2, <1>3, <1>8 DEF Bounded, Changed, Live, Open
<1>10. Bounded(disk)'
  <2>1. Bounded(disk)
    BY DEF DInv
  <2> QED
    BY <1>2, <1>5, <1>9, <2>1 DEF Bounded, Changed, Fresh
<1>11. /\ Safe(task)' /\ task'.st.operation = task.st.operation /\ task'.step # "none"
       /\ task'.step \in Before => task'.step = task.step /\ task'.st.backup = task.st.backup
  <2>1. CASE task' = works /\ disk' = a
    <3>1. Careful(task)'
      BY <1>1, <1>2, <1>3, <1>6, <1>9, <2>1 DEF Careful, Prudent, Changed, Fresh, Before, Trying,
         Restoring, Returning, Opening
    <3>2. Bounded(task.st)'
      BY <1>2, <1>6, <1>9, <2>1 DEF Bounded, Changed, Fresh
    <3> QED
      BY <1>1, <1>3, <1>6, <2>1, <3>1, <3>2 DEF Safe, Announces
  <2>2. CASE task' \in {Fail(left), GiveUp(left)}
    <3>1. /\ left.st.dataChanged \/ left.changed => left.stopped
          /\ left.stopped /\ ~left.st.writesOpened =>
                 ~Open' /\ \A g \in Groups : <<left.st.backup, g>> \notin stale'
          /\ Changed(left.st) => left.st.recovery
      BY <1>1, <1>2, <1>3, <1>4, <1>7, <1>8, <1>9 DEF Changed, Bounded, Fresh
    <3>2. /\ Safe(task)' /\ task'.st.operation = left.st.operation
          /\ task'.step \in {"reopen", "settle", "undo", "recover"}
      BY <1>3, <1>7, <2>2, <3>1, FailSafe
    <3> QED
      BY <1>3, <1>4, <1>7, <3>2 DEF Before
  <2> QED
    BY <1>5, <2>1, <2>2
<1>12. Numbered'
  <2>1. /\ task.st.operation = disk.operation /\ mem.operation = disk.operation
        /\ disk'.operation = disk.operation /\ mem'.operation = disk.operation
    BY <1>1, <1>3, <1>5 DEF DInv, Numbered
  <2> QED
    BY <1>1, <1>2, <1>11, <2>1 DEF DInv, Numbered
<1> QED
  BY <1>1, <1>2, <1>10, <1>11, <1>12 DEF DInv, Idle, Whole

-----------------------------------------------------------------------------
(* A launcher that leaves: what it left on disk can be recovered.           *)
LEMMA DownSafe ==
    ASSUME DInv, launcher' = "down", task'.step = "none", UNCHANGED lost, UNCHANGED stale,
           UNCHANGED backups, disk'.operation \in Nat, disk'.operation >= disk.operation,
           Bounded(disk)'
    PROVE  DInv'
<1>1. Numbered'
  <2>1. /\ disk.operation \in Nat /\ \A o \in DOMAIN backups : o \in Nat \ {0} /\ o <= disk.operation
        /\ \A o, g : <<o, g>> \in stale => o \in DOMAIN backups
    BY DEF DInv, Numbered
  <2>2. \A o \in DOMAIN backups : o \in Nat \ {0} /\ o <= disk'.operation
    BY <2>1
  <2> QED
    BY <2>1, <2>2 DEF Numbered, Serving
<1> QED
  BY <1>1 DEF DInv, Idle, Whole, Serving

(* A launcher that leaves by itself stops its server before.                *)
LEMMA ExitSafe ==
    ASSUME DInv, Exit, UNCHANGED lost, UNCHANGED stale, UNCHANGED backups,
           disk'.operation \in Nat, disk'.operation >= disk.operation,
           Changed(disk') => /\ disk'.recovery /\ disk'.stage \notin Terminal
                             /\ Fresh(disk'.backup)
    PROVE  DInv'
<1>1. ~Open' /\ task'.step = "none" /\ launcher' = "down"
  BY DEF Exit, Open, NoOwner, NoTask
<1>2. Bounded(disk)'
  BY <1>1 DEF Bounded, Changed, Fresh
<1> QED
  BY <1>1, <1>2, DownSafe

(* A journal that differs from a bounded one in nothing that matters here.  *)
Alike(st, of) ==
    /\ st.dataChanged = of.dataChanged /\ st.writesOpened = of.writesOpened
    /\ st.recovery = of.recovery /\ st.stage = of.stage
    /\ st.backup = of.backup /\ st.operation = of.operation

(* What is known of the goroutine that ends an operation.                   *)
LEMMA ClosingSafe ==
    ASSUME IInv, DInv, NEW step \in {"reopen", "settle", "prune", "finish"}, At(step, "work")
    PROVE  /\ launcher \in Serving /\ launcher # "down" /\ task.step = step /\ TaskOK(task)
           /\ Bounded(task.st) /\ Bounded(disk) /\ disk.operation \in Nat
           /\ task.st.operation = disk.operation /\ mem.operation = disk.operation
BY DEF At, Serving, IInv, Shape, TaskOK, DInv, Safe, Numbered

(* Public edits are taken again, the result is journaled, artifacts are     *)
(* deleted.                                                                 *)
LEMMA SettlingSafe == ASSUME IInv, DInv, Reopen \/ Settle \/ Prune PROVE DInv'
<1>1. /\ launcher \in Serving /\ launcher # "down" /\ TaskOK(task)
      /\ Bounded(task.st) /\ Bounded(disk) /\ disk.operation \in Nat
      /\ task.st.operation = disk.operation /\ mem.operation = disk.operation
      /\ task.step \notin {"none", "boot_start"}
  BY ClosingSafe DEF Reopen, Settle, Prune, At
<1>2. UNCHANGED <<launcher, owner, lost>> /\ (Open' <=> Open)
  BY DEF Reopen, Settle, Prune, StepFrame, ghosts, Open
<1>3. CASE Reopen
  <2>1. UNCHANGED <<disk, mem, stale, backups>>
    BY <1>3 DEF Reopen, StepFrame, store, ghosts
  <2>2. /\ task'.step = "settle" /\ task'.st.dataChanged = task.st.dataChanged
        /\ task'.st.writesOpened = task.st.writesOpened /\ task'.st.backup = task.st.backup
        /\ task'.st.operation = task.st.operation
        /\ task'.st = task.st \/ (task'.st.recovery /\ task'.st.stage = "failed")
    <3> DEFINE x == [Go(task, "settle", "work") EXCEPT !.st.recovery = TRUE,
                                                       !.st.stage = "failed"]
    <3>1. /\ Go(task, "settle", "work").step = "settle" /\ Go(task, "settle", "work").st = task.st
          /\ x.step = "settle" /\ x.st.dataChanged = task.st.dataChanged
          /\ x.st.writesOpened = task.st.writesOpened /\ x.st.backup = task.st.backup
          /\ x.st.operation = task.st.operation /\ x.st.recovery = TRUE /\ x.st.stage = "failed"
      BY <1>1 DEF Go, TaskOK, TaskFields, JournalFields
    <3>2. task' \in {Go(task, "settle", "work"), x}
      BY <1>3 DEF Reopen
    <3> HIDE DEF x
    <3> QED
      BY <3>1, <3>2
  <2>3. Safe(task)'
    BY <1>1, <1>2, <2>1, <2>2 DEF Safe, Bounded, Changed, Fresh, Terminal, Works, Announces
  <2> QED
    BY <1>1, <1>2, <2>1, <2>2, <2>3, OperationSafe DEF Before
<1>4. CASE Settle
  <2> DEFINE st == Settled(task.st)
  <2>1. DOMAIN st = JournalFields /\ Alike(st, task.st)
    BY <1>1 DEF Settled, TaskOK, JournalFields, Alike
  <2>2. /\ disk' \in {disk, st} /\ mem' \in {mem, st}
        /\ \E step \in Closes : task' = [Go(task, step, "work") EXCEPT !.st = st]
        /\ UNCHANGED <<stale, backups>>
    BY <1>4 DEF Settle, Save, Heard, Closes, store, ghosts
  <2> HIDE DEF st
  <2>3. task'.st = st /\ task'.step \in Closes
    BY <1>1, <2>2 DEF Go, TaskOK, TaskFields
  <2>4. Bounded(st)
    BY <1>1, <2>1 DEF Bounded, Changed, Alike
  <2>5. Safe(task)' /\ Bounded(disk)'
    BY <1>1, <1>2, <2>2, <2>3, <2>4 DEF Safe, Bounded, Changed, Fresh, Works, Announces, Closes
  <2>6. Numbered'
    BY <1>1, <1>2, <2>1, <2>2, <2>3 DEF DInv, Numbered, Alike, Closes, Before
  <2> QED
    BY <1>2, <2>3, <2>5, <2>6 DEF DInv, Idle, Whole, Closes
<1>5. CASE Prune
  <2>1. /\ UNCHANGED <<disk, mem>> /\ task' = Go(task, "finish", "work")
        /\ stale' = {m \in stale : m[1] \in DOMAIN backups'}
        /\ \A o \in DOMAIN backups' : o \in DOMAIN backups
    BY <1>5 DEF Prune, Without
  <2>2. task'.st = task.st /\ task'.step = "finish"
    BY <1>1, <2>1 DEF Go, TaskOK, TaskFields
  <2>3. \A o, g : <<o, g>> \in stale' => <<o, g>> \in stale /\ o \in DOMAIN backups'
    BY <2>1
  <2>4. Safe(task)' /\ Bounded(disk)'
    BY <1>1, <1>2, <2>1, <2>2, <2>3 DEF Safe, Bounded, Changed, Fresh, Works, Announces
  <2>5. Numbered'
    BY <1>1, <1>2, <2>1, <2>2, <2>3 DEF DInv, Numbered, Before
  <2> QED
    BY <1>2, <2>2, <2>4, <2>5 DEF DInv, Idle, Whole
<1> QED
  BY <1>3, <1>4, <1>5

(* The main loop takes the result, or leaves.                               *)
LEMMA FinishSafe == ASSUME IInv, DInv, Finish PROVE DInv'
<1>1. /\ launcher \in Serving /\ launcher # "down" /\ TaskOK(task)
      /\ Bounded(task.st) /\ Bounded(disk) /\ disk.operation \in Nat
      /\ task.st.operation = disk.operation /\ mem.operation = disk.operation
  BY ClosingSafe DEF Finish, At
<1> DEFINE ended == [task.st EXCEPT !.busy = FALSE]
           st == IF launcher = "stopping" THEN ended ELSE Restrict(ended)
<1>2. Alike(st, task.st)
  BY <1>1 DEF Restrict, TaskOK, JournalFields, Alike
<1>3. /\ disk' \in {disk, st} /\ UNCHANGED <<lost, stale, backups>>
      /\ \/ Exit
         \/ disk' = st /\ mem' = st /\ task' = NoTask /\ UNCHANGED <<launcher, owner>>
  BY DEF Finish, Save, store, ghosts
<1> HIDE DEF st, ended
<1>4. disk'.operation = disk.operation /\ Bounded(disk')
  BY <1>1, <1>2, <1>3 DEF Bounded, Changed, Alike
<1>5. CASE Exit
  BY <1>1, <1>3, <1>4, <1>5, ExitSafe DEF Bounded
<1>6. CASE disk' = st /\ mem' = st /\ task' = NoTask /\ UNCHANGED <<launcher, owner>>
  <2>1. task'.step = "none" /\ ~Changed(task'.st)
    BY <1>6 DEF NoTask, Bootstrap, Changed
  <2>2. Numbered'
    BY <1>1, <1>3, <1>4, <1>6, <2>1 DEF DInv, Numbered, Before
  <2>3. Bounded(disk)' /\ Safe(task)'
    BY <1>3, <1>4, <1>6, <2>1 DEF Bounded, Changed, Fresh, Open, Safe, Works, Announces
  <2> QED
    BY <1>3, <1>6, <2>2, <2>3 DEF DInv, Idle, Whole
<1> QED
  BY <1>3, <1>5, <1>6

-----------------------------------------------------------------------------
(* A group is migrated, or restored from a copy that misses no write.       *)
LEMMA DataSafe == ASSUME IInv, DInv, DataStep PROVE DInv'
<1>1. UNCHANGED <<disk, mem, task, launcher, owner, backups, stale>>
  BY DEF DataStep, MigrateGroup, RestoreGroup, store, ghosts
<1>2. UNCHANGED lost
  <2>1. CASE \E g \in Groups : MigrateGroup(g)
    BY <2>1 DEF MigrateGroup, ghosts
  <2>2. ASSUME NEW g \in Groups, RestoreGroup(g) PROVE UNCHANGED lost
    <3>1. task.st.dataChanged
      BY <2>2 DEF RestoreGroup, Outstanding, Saved
    <3>2. Fresh(task.st.backup)
      <4>1. CASE At("restore", "work")
        <5>1. Careful(task) /\ (task.stopped /\ ~task.st.writesOpened => Fresh(task.st.backup))
          BY <4>1, AtSafe DEF Works
        <5> QED
          BY <4>1, <5>1 DEF Careful, Restoring, At
      <4>2. CASE launcher = "booting" /\ task.step = "boot_recover" /\ MustRecover(task.st)
        <5>1. task.st = disk /\ ~disk.writesOpened
          BY <4>2 DEF IInv, Phases, MustRecover
        <5> QED
          BY <3>1, <5>1 DEF DInv, Bounded, Changed
      <4> QED
        BY <2>2, <4>1, <4>2 DEF RestoreGroup, Recovering
    <3>3. ~Misses(task.st.backup, g)
      BY <3>2 DEF Fresh, Misses
    <3> QED
      BY <2>2, <3>3 DEF RestoreGroup
  <2> QED
    BY <2>1, <2>2 DEF DataStep
<1>3. Numbered' /\ Idle' /\ Whole'
  BY <1>1, <1>2 DEF DInv, Numbered, Idle, Whole
<1>4. Bounded(disk)' /\ (launcher # "down" => Safe(task)')
  BY <1>1 DEF DInv, Bounded, Changed, Fresh, Open, Safe, Careful, Prudent
<1> QED
  BY <1>1, <1>3, <1>4 DEF DInv

(* A step that leaves the journal, the goroutine and the store alone.       *)
LEMMA OutsideSafe ==
    ASSUME DInv, UNCHANGED disk, UNCHANGED mem, UNCHANGED task, UNCHANGED launcher,
           UNCHANGED lost, UNCHANGED stale, UNCHANGED backups, Open' => Open
    PROVE  DInv'
<1>1. Numbered' /\ Idle' /\ Whole'
  BY DEF DInv, Numbered, Idle, Whole
<1>2. Bounded(disk)'
  BY DEF DInv, Bounded, Changed, Fresh
<1>3. launcher # "down" => Safe(task)'
  BY DEF DInv, Safe, Careful, Prudent, Bounded, Changed, Fresh
<1> QED
  BY <1>1, <1>2, <1>3 DEF DInv

(* An admitted write makes older copies stale: none of them is to be put    *)
(* back.                                                                    *)
LEMMA WriteSafe == ASSUME DInv, NEW g \in Groups, AcceptWrite(g) PROVE DInv'
<1>1. /\ Open /\ Open' /\ UNCHANGED <<disk, mem, task, launcher, lost, backups>>
      /\ stale' = stale \cup {m \in {<<o, g>> : o \in DOMAIN backups} : g \in DOMAIN backups[m[1]]}
  BY DEF AcceptWrite, Open, store
<1>2. \A o, h : <<o, h>> \in stale' => <<o, h>> \in stale \/ o \in DOMAIN backups
  BY <1>1
<1>3. Numbered' /\ Idle' /\ Whole'
  BY <1>1, <1>2 DEF DInv, Numbered, Idle, Whole
<1>4. Bounded(disk)'
  BY <1>1 DEF DInv, Bounded, Changed
<1>5. launcher # "down" => Safe(task)'
  BY <1>1 DEF DInv, Safe, Careful, Prudent, Bounded, Changed
<1> QED
  BY <1>1, <1>3, <1>4, <1>5 DEF DInv

(* The processes and the machine.                                           *)
LEMMA OutsideStepSafe == ASSUME IInv, DInv, OutsideStep PROVE DInv'
<1>1. CASE \E g \in Groups : AcceptWrite(g)
  BY <1>1, WriteSafe
<1>2. CASE ServerDies \/ OrphanExits
  BY <1>2, OutsideSafe DEF ServerDies, OrphanExits, Open, NoOwner, store, ghosts
<1>3. CASE Crash
  <2>1. Open' => Open
    <3>1. [owner EXCEPT !.orphan = TRUE].kind = owner.kind
          /\ [owner EXCEPT !.orphan = TRUE].active = owner.active
          /\ NoOwner.kind = "none"
      BY DEF IInv, Shape, OwnerFields, NoOwner
    <3> QED
      BY <1>3, <3>1 DEF Crash, Open
  <2>2. /\ launcher' = "down" /\ task'.step = "none"
        /\ UNCHANGED <<disk, lost, stale, backups>>
    BY <1>3 DEF Crash, NoTask, store, ghosts
  <2>3. Bounded(disk)' /\ disk'.operation \in Nat /\ disk'.operation >= disk.operation
    BY <2>1, <2>2 DEF DInv, Numbered, Bounded, Changed, Fresh
  <2> QED
    BY <2>2, <2>3, DownSafe
<1> QED
  BY <1>1, <1>2, <1>3 DEF OutsideStep

-----------------------------------------------------------------------------
(* Startup reads the journal.                                               *)
LEMMA LaunchSafe == ASSUME IInv, DInv, Launch PROVE DInv'
<1>1. /\ mem' = disk /\ launcher' = "booting" /\ ~Open'
      /\ task' = [NoTask EXCEPT !.step = "boot_recover", !.st = disk]
      /\ UNCHANGED <<disk, lost, stale, backups>>
  BY DEF Launch, Open, NoOwner, store, ghosts
<1>2. task'.step = "boot_recover" /\ task'.st = disk
  BY <1>1 DEF NoTask
<1>3. Bounded(disk)' /\ Safe(task)'
  BY <1>1, <1>2 DEF DInv, Bounded, Changed, Fresh, Safe, Works, Announces
<1> QED
  BY <1>1, <1>2, <1>3 DEF DInv, Numbered, Idle, Whole, Serving

(* What startup does not have to recover may be served.                     *)
LEMMA BootRecoverSafe == ASSUME IInv, DInv, BootRecover PROVE DInv'
<1> DEFINE result == IF MustRecover(task.st) THEN Recovered(task.st) ELSE task.st
           entry == [result EXCEPT !.stage = IF Interrupts(task.st) THEN "failed" ELSE @,
                                   !.busy = FALSE]
<1>1. /\ launcher = "booting" /\ task.step = "boot_recover" /\ task.st = disk /\ TaskOK(task)
      /\ Bounded(disk) /\ disk.operation \in Nat /\ mem.operation = disk.operation
  BY DEF BootRecover, Booting, IInv, Shape, Phases, TaskOK, DInv, Numbered
<1>2. /\ DOMAIN result = JournalFields /\ result.operation = disk.operation
      /\ ~Changed(result)
  <2>1. CASE MustRecover(disk)
    BY <1>1, <2>1 DEF TaskOK, Recovered, JournalFields, Changed
  <2>2. CASE ~MustRecover(disk)
    BY <1>1, <2>2 DEF TaskOK, MustRecover, Interrupts, Bounded, Changed
  <2> QED
    BY <2>1, <2>2
<1>3. ~Changed(entry) /\ entry.operation = disk.operation
  <2> HIDE DEF result
  <2> QED
    BY <1>2 DEF Changed, JournalFields
<1>4. /\ UNCHANGED <<lost, stale, backups>>
      /\ \/ disk' \in {disk, entry} /\ Exit
         \/ /\ disk' = entry \/ (disk' = disk /\ ~disk.recovery)
            /\ task' = [task EXCEPT !.step = "boot_start", !.st = entry]
            /\ UNCHANGED <<mem, launcher, owner>>
  BY <1>1 DEF BootRecover, BootFrame, Save, store, ghosts
<1> HIDE DEF entry, result
<1>5. CASE disk' \in {disk, entry} /\ Exit
  BY <1>1, <1>3, <1>4, <1>5, ExitSafe DEF Bounded
<1>6. CASE /\ disk' = entry \/ (disk' = disk /\ ~disk.recovery)
           /\ task' = [task EXCEPT !.step = "boot_start", !.st = entry]
           /\ UNCHANGED <<mem, launcher, owner>>
  <2>1. task'.step = "boot_start" /\ task'.st = entry
    BY <1>1, <1>6 DEF TaskOK, TaskFields
  <2>2. ~Changed(disk') /\ disk'.operation = disk.operation
    BY <1>1, <1>3, <1>6 DEF Bounded
  <2>3. Bounded(disk)' /\ Safe(task)'
    BY <1>3, <2>1, <2>2 DEF Safe, Bounded, Changed, Works, Announces
  <2> QED
    BY <1>1, <1>3, <1>4, <1>6, <2>1, <2>2, <2>3 DEF DInv, Numbered, Idle, Whole, Serving
<1> QED
  BY <1>4, <1>5, <1>6

(* The server that startup starts admits writes at once.                    *)
LEMMA BootStartSafe == ASSUME IInv, DInv, BootStart PROVE DInv'
<1> DEFINE st == Restrict(task.st)
           m == [st EXCEPT !.busy = TRUE]
<1>1. /\ launcher = "booting" /\ launcher # "down" /\ task.step = "boot_start" /\ TaskOK(task)
      /\ Bounded(disk) /\ disk.operation \in Nat /\ mem.operation = disk.operation
      /\ task.st.operation = disk.operation /\ ~Changed(task.st) /\ ~Changed(disk)
  BY DEF BootStart, Booting, IInv, Shape, Phases, TaskOK, DInv, Numbered, Safe
<1>2. /\ DOMAIN st = JournalFields /\ ~Changed(st) /\ st.operation = disk.operation
  BY <1>1 DEF Restrict, TaskOK, JournalFields, Changed
<1>3. ~Changed(m) /\ m.operation = disk.operation
  <2> HIDE DEF st
  <2> QED
    BY <1>2 DEF Changed, JournalFields
<1>4. /\ UNCHANGED <<lost, stale, backups>>
      /\ \/ disk' \in {disk, st} /\ Exit
         \/ /\ disk' = st /\ launcher' = "running" /\ mem' = m
            /\ task' = [task EXCEPT !.step = "settle", !.st = mem']
  BY DEF BootStart, BootFrame, Save, store, ghosts
<1> HIDE DEF st, m
<1>5. CASE disk' \in {disk, st} /\ Exit
  BY <1>1, <1>2, <1>4, <1>5, ExitSafe
<1>6. CASE /\ disk' = st /\ launcher' = "running" /\ mem' = m
           /\ task' = [task EXCEPT !.step = "settle", !.st = mem']
  <2>1. task'.step = "settle" /\ task'.st = m
    BY <1>1, <1>6 DEF TaskOK, TaskFields
  <2>2. Bounded(disk)' /\ Safe(task)'
    BY <1>2, <1>3, <1>6, <2>1 DEF Safe, Bounded, Changed, Works, Announces
  <2> QED
    BY <1>1, <1>2, <1>3, <1>4, <1>6, <2>1, <2>2 DEF DInv, Numbered, Idle, Whole, Serving, Before
<1> QED
  BY <1>4, <1>5, <1>6

-----------------------------------------------------------------------------
(* The handlers of the main loop write what they hold, or more cautious.    *)
LEMMA HandlerSafe ==
    ASSUME IInv, DInv, launcher = "running", task.step = "none",
           UNCHANGED lost, UNCHANGED stale, UNCHANGED backups,
           NEW entry, disk' \in {disk, entry}, entry.operation = mem.operation,
           Changed(entry) => /\ entry.recovery /\ entry.stage \notin Terminal
                             /\ ~Open /\ Fresh(entry.backup),
           Exit \/ (disk' = entry /\ mem' = entry /\ UNCHANGED <<task, launcher, owner>>)
    PROVE  DInv'
<1>1. /\ mem = disk /\ Bounded(disk) /\ disk.operation \in Nat /\ mem.operation = disk.operation
      /\ Safe(task)
  BY DEF DInv, Idle, Numbered, Serving
<1>2. Bounded(disk') /\ disk'.operation = disk.operation
  BY <1>1 DEF Bounded
<1>3. CASE Exit
  BY <1>1, <1>2, <1>3, ExitSafe DEF Bounded
<1>4. CASE disk' = entry /\ mem' = entry /\ UNCHANGED <<task, launcher, owner>>
  <2>1. Bounded(disk)' /\ Safe(task)'
    BY <1>1, <1>2, <1>4 DEF Bounded, Changed, Fresh, Open, Safe, Works, Announces
  <2> QED
    BY <1>1, <1>4, <2>1 DEF DInv, Numbered, Idle, Whole, Before
<1> QED
  BY <1>3, <1>4

(* A check.                                                                 *)
LEMMA CheckResultSafe ==
    ASSUME IInv, DInv, NEW sequence \in Releases \cup {0}, CheckResult(sequence)
    PROVE  DInv'
<1> DEFINE raised == [mem EXCEPT !.highest = sequence,
                                 !.stage = IF sequence > mem.current.version
                                           THEN "available" ELSE "current"]
           entry == IF sequence = 0 \/ sequence < mem.highest THEN mem ELSE raised
<1>1. launcher = "running" /\ task.step = "none" /\ DOMAIN mem = JournalFields
  BY IdleFacts DEF CheckResult
<1>2. mem = disk /\ Bounded(disk)
  BY <1>1 DEF DInv, Idle, Serving
<1>3. /\ raised.operation = mem.operation /\ raised.dataChanged = mem.dataChanged
      /\ raised.writesOpened = mem.writesOpened /\ raised.recovery = mem.recovery
      /\ raised.backup = mem.backup /\ raised.stage \notin Terminal
  BY <1>1 DEF JournalFields, Terminal
<1>4. /\ disk' \in {disk, entry} /\ UNCHANGED <<lost, stale, backups>>
      /\ Exit \/ (disk' = entry /\ mem' = entry /\ UNCHANGED <<task, launcher, owner>>)
  BY DEF CheckResult, Save, store, ghosts
<1> HIDE DEF raised
<1>5. /\ entry.operation = mem.operation
      /\ Changed(entry) => /\ entry.recovery /\ entry.stage \notin Terminal
                           /\ ~Open /\ Fresh(entry.backup)
  BY <1>2, <1>3 DEF Bounded, Changed
<1> HIDE DEF entry
<1> QED
  BY <1>1, <1>4, <1>5, HandlerSafe

(* The public server failed.                                                *)
LEMMA HandleFailureSafe == ASSUME IInv, DInv, HandleFailure PROVE DInv'
<1> DEFINE entry == [mem EXCEPT !.recovery = TRUE, !.stage = "failed"]
<1>1. /\ launcher = "running" /\ DOMAIN mem = JournalFields
      /\ UNCHANGED <<lost, stale, backups>>
  BY DEF HandleFailure, IInv, Shape, store, ghosts
<1>2. /\ entry.operation = mem.operation /\ entry.dataChanged = mem.dataChanged
      /\ entry.writesOpened = mem.writesOpened /\ entry.recovery = TRUE
      /\ entry.backup = mem.backup /\ entry.stage \notin Terminal
  BY <1>1 DEF JournalFields, Terminal
<1>3. \/ UNCHANGED <<disk, mem, task, launcher, owner>>
      \/ /\ ~mem.busy
         /\ UNCHANGED disk /\ Exit
      \/ /\ ~mem.busy /\ disk' \in {disk, entry}
         /\ Exit \/ (disk' = entry /\ mem' = entry /\ UNCHANGED <<task, launcher, owner>>)
  BY DEF HandleFailure, Save
<1> HIDE DEF entry
<1>4. CASE UNCHANGED <<disk, mem, task, launcher, owner>>
  BY <1>1, <1>4, OutsideSafe DEF Open
<1>5. CASE UNCHANGED disk /\ Exit
  BY <1>1, <1>5, ExitSafe DEF DInv, Numbered, Bounded
<1>6. CASE /\ ~mem.busy /\ disk' \in {disk, entry}
           /\ Exit \/ (disk' = entry /\ mem' = entry /\ UNCHANGED <<task, launcher, owner>>)
  <2>1. task.step = "none"
    BY <1>1, <1>6, IdleFacts
  <2>2. mem = disk /\ Bounded(disk)
    BY <1>1, <2>1 DEF DInv, Idle, Serving
  <2>3. Changed(entry) => /\ entry.recovery /\ entry.stage \notin Terminal
                          /\ ~Open /\ Fresh(entry.backup)
    BY <1>2, <2>2 DEF Bounded, Changed
  <2> QED
    BY <1>1, <1>2, <1>6, <2>1, <2>3, HandlerSafe
<1> QED
  BY <1>3, <1>4, <1>5, <1>6

(* An operation is accepted under a new number.                             *)
LEMMA AcceptSafe ==
    ASSUME IInv, DInv, NEW action, NEW policy, Accept(action, policy) PROVE DInv'
<1> DEFINE entry == Accepted(policy)
           t == [NoTask EXCEPT !.step = "preparing", !.st = entry, !.before = mem.previous,
                               !.action = action]
<1>1. /\ launcher = "running" /\ launcher # "down" /\ task.step = "none"
      /\ DOMAIN mem = JournalFields /\ UNCHANGED <<lost, stale, backups>>
  BY IdleFacts DEF Accept, Acceptable, store, ghosts
<1>2. mem = disk /\ Bounded(disk) /\ disk.operation \in Nat
  BY <1>1 DEF DInv, Idle, Serving, Numbered
<1>3. /\ ~entry.dataChanged /\ ~entry.writesOpened /\ entry.backup = 0
      /\ entry.operation = disk.operation + 1
  BY <1>1, <1>2 DEF Accepted, JournalFields
<1>4. /\ disk' \in {disk, entry}
      /\ \/ Exit
         \/ disk' = entry /\ mem' = entry /\ task' = t /\ UNCHANGED <<launcher, owner>>
  BY DEF Accept, Save
<1>5. /\ t.st = entry /\ t.step = "preparing" /\ t.phase = "work" /\ ~t.stopped /\ ~t.changed
  BY DEF NoTask
<1> HIDE DEF entry, t
<1>6. disk'.operation \in Nat /\ disk'.operation >= disk.operation
  BY <1>2, <1>3, <1>4
<1>7. CASE Exit
  BY <1>1, <1>2, <1>3, <1>4, <1>6, <1>7, ExitSafe DEF Bounded, Changed
<1>8. CASE disk' = entry /\ mem' = entry /\ task' = t /\ UNCHANGED <<launcher, owner>>
  <2>1. Bounded(disk)' /\ Safe(task)'
    BY <1>3, <1>5, <1>8 DEF Bounded, Changed, Safe, Careful, Prudent, Trying, Restoring, Returning,
       Opening
  <2>2. Numbered'
    <3>1. \A o \in DOMAIN backups : o \in Nat \ {0} /\ o <= disk.operation
      BY DEF DInv, Numbered
    <3>2. disk.operation + 1 # 0 /\ disk.operation + 1 \notin DOMAIN backups
          /\ \A o \in DOMAIN backups : o <= disk.operation + 1
      BY <1>2, <3>1
    <3>3. \A o, g : <<o, g>> \in stale => o \in DOMAIN backups
      BY DEF DInv, Numbered
    <3> QED
      BY <1>1, <1>3, <1>5, <1>6, <1>8, <3>1, <3>2, <3>3 DEF Numbered
  <2> QED
    BY <1>1, <1>5, <1>8, <2>1, <2>2 DEF DInv, Idle, Whole
<1> QED
  BY <1>4, <1>7, <1>8

(* The handlers of the launcher.                                            *)
LEMMA LauncherSafe == ASSUME IInv, DInv, LauncherStep PROVE DInv'
<1>1. CASE Launch \/ BootRecover \/ BootStart \/ HandleFailure
  BY <1>1, LaunchSafe, BootRecoverSafe, BootStartSafe, HandleFailureSafe
<1>2. CASE \E sequence \in Releases \cup {0} : CheckResult(sequence)
  BY <1>2, CheckResultSafe
<1>3. CASE \E action \in {"upgrade", "rollback"}, policy \in Policies : Accept(action, policy)
  BY <1>3, AcceptSafe
<1>4. CASE StartCheck \/ ServerReady
  BY <1>4, OutsideSafe DEF StartCheck, ServerReady, Open, store, ghosts
<1>5. CASE BootFails
  BY <1>5, ExitSafe DEF BootFails, BootFrame, store, ghosts, DInv, Numbered, Bounded
<1>6. CASE Stop
  <2>1. CASE Exit /\ UNCHANGED disk
    BY <1>6, <2>1, ExitSafe DEF Stop, store, ghosts, DInv, Numbered, Bounded
  <2>2. CASE /\ launcher = "running" /\ mem.busy /\ launcher' = "stopping"
             /\ UNCHANGED <<disk, mem, task, owner>>
    <3>1. task.step # "none"
      BY <2>2 DEF IInv, Phases, Serving
    <3>2. UNCHANGED <<lost, stale, backups>>
      BY <1>6 DEF Stop, store, ghosts
    <3>3. Safe(task)' /\ Bounded(disk)'
      BY <2>2, <3>2 DEF DInv, Safe, Careful, Prudent, Bounded, Changed, Fresh, Open
    <3>4. Numbered' /\ Idle' /\ Whole'
      BY <2>2, <3>1, <3>2 DEF DInv, Numbered, Idle, Whole, Serving
    <3> QED
      BY <3>3, <3>4 DEF DInv
  <2> QED
    BY <1>6, <2>1, <2>2 DEF Stop
<1> QED
  BY <1>1, <1>2, <1>3, <1>4, <1>5, <1>6 DEF LauncherStep

(* The steps of the operation.                                              *)
LEMMA TaskSafe == ASSUME IInv, DInv, TaskStep PROVE DInv'
BY PreparingSafe, StopServerSafe, BackUpSafe, TryingSafe, EndingSafe, EmitSafe, SettlingSafe,
   FinishSafe DEF TaskStep

-----------------------------------------------------------------------------
(* An installation starts with nothing to put back.                         *)
LEMMA InitDInv == Init => DInv
<1> SUFFICES ASSUME Init PROVE DInv
  OBVIOUS
<1>1. /\ disk.operation = 0 /\ ~Changed(disk) /\ task.step = "none" /\ launcher = "down"
      /\ DOMAIN backups = {} /\ stale = {} /\ lost = {}
  BY DEF Init, NoTask, Bootstrap, Changed
<1> QED
  BY <1>1 DEF DInv, Numbered, Idle, Whole, Bounded, Serving

(* No step makes something to be put back that misses a write.              *)
LEMMA NextDInv == IInv /\ DInv /\ [Next]_vars => DInv'
<1> SUFFICES ASSUME IInv, DInv, [Next]_vars PROVE DInv'
  OBVIOUS
<1>1. CASE UNCHANGED vars
  BY <1>1, OutsideSafe DEF vars, store, ghosts, Open
<1> QED
  BY <1>1, TaskSafe, DataSafe, LauncherSafe, OutsideStepSafe DEF Next

(* What is to be put back, in the journal on disk or in the hands of an     *)
(* operation, never misses a write.                                         *)
THEOREM DataInvariant == Spec => []DInv
BY InitDInv, NextDInv, InductiveInvariant, PTL DEF Spec

(* No write a server admitted is ever overwritten by a backup, for any      *)
(* number of operations, failed steps, lost journal writes and crashes.     *)
THEOREM NoAcceptedWriteLostAlways == Spec => []NoAcceptedWriteLost
<1>1. DInv => NoAcceptedWriteLost
  BY DEF DInv, Whole, NoAcceptedWriteLost
<1> QED
  BY <1>1, DataInvariant, PTL

-----------------------------------------------------------------------------
(* What the journal refers to *)

(* A version that can start.                                                *)
Real(b, bin) == b.version \in Releases /\ b.op \in bin

(* A journal st, with the binaries bin and the backups bk: its versions can *)
(* start, its backup is there, and the version to go back to is one of them.*)
Stored(st, bin, bk) ==
    /\ Real(st.current, bin) /\ (st.previous = NoBinary \/ Real(st.previous, bin))
    /\ st.backup = 0 \/ st.backup \in DOMAIN bk
    /\ st.dataChanged =>
          Real(st.recoveryVersion, bin) /\ st.recoveryVersion \in {st.current, st.previous}

-----------------------------------------------------------------------------
(* Who reads the data *)

(* Version v reads format n, or the data d, under the contracts c.          *)
InRange(v, n, c) == c[v].from <= n /\ n <= c[v].through
Reads(v, d, c)   == \A g \in Groups : InRange(v, d[g], c)

(* The backup of a journal, which its old version reads.                    *)
BackedUp(st, bk, c) ==
    /\ st.backup = 0 => st.policy = {}
    /\ st.backup \in DOMAIN bk =>
          /\ DOMAIN bk[st.backup] = st.policy
          /\ \A g \in st.policy : InRange(st.recoveryVersion.version, bk[st.backup][g], c)

(* A journal that must be recovered: what is not as the old version left it *)
(* is as the candidate leaves it.  Any other selects who reads the data.    *)
Sound(st, d, bk, c) ==
    IF Changed(st)
    THEN /\ BackedUp(st, bk, c)
         /\ \A g \in Groups : \/ InRange(st.recoveryVersion.version, d[g], c)
                              \/ d[g] = c[st.candidate.version].generation
    ELSE /\ Reads(st.current.version, d, c)
         /\ ~st.writesOpened => st.recoveryVersion = st.current

(* Whoever starts with this journal finds what it needs.                    *)
Fit(st, bin, bk, d, c) == Stored(st, bin, bk) /\ Sound(st, d, bk, c)

-----------------------------------------------------------------------------
(* An operation at work *)

Resuming == {"recover_start", "recover_health", "recover_commit"}
Chosen   == {"inspecting", "preparing_backup", "stopping", "stopped", "backing_up",
             "installing", "restarting", "checking", "activating"}

(* The data may have changed: from the announced installation on.           *)
Migrated(t) == \/ t.step \in {"restarting", "checking", "activating"}
               \/ t.step = "installing" /\ t.phase = "work"

(* What it may still turn to.                                               *)
Reaches(t, bin) ==
    /\ Real(t.st.recoveryVersion, bin) /\ (t.before = NoBinary \/ Real(t.before, bin))
    /\ t.step \in Before \cup Trying \cup Resuming => t.st.current = t.st.recoveryVersion
    /\ t.step = "preparing" => IF t.action = "upgrade" THEN t.st.highest # 0
                               ELSE t.st.previous # NoBinary
    /\ t.step \in {"downloading", "verifying"} => t.st.highest # 0
    /\ t.step = "verifying" => t.st.operation \in bin
    /\ t.step \in Chosen => Real(t.st.candidate, bin)
    /\ t.step \notin Resuming => t.changed = t.st.dataChanged
    /\ t.step \in Before \cup Trying \cup Resuming \cup {"activating"} =>
          (t.st.dataChanged <=> Migrated(t))

(* What it found out, and what is on disk, entry, by then.                  *)
Trusted(t, entry, d, bk, c) ==
    /\ t.step = "installing" => BackedUp(t.st, bk, c)
    /\ t.step = "activating" /\ t.phase = "emit" => Reads(t.st.candidate.version, d, c)
    /\ t.step = "undo_commit" /\ t.phase = "emit" => Reads(t.st.recoveryVersion.version, d, c)
    /\ t.step \in {"installing", "recover"} /\ t.phase = "work" => entry = t.st
    /\ t.step = "restore" => /\ entry.recoveryVersion = t.st.recoveryVersion
                             /\ t.st.dataChanged => Changed(entry)

(* Which version serves beside it.                                          *)
Selected(t, own) ==
    /\ own.active => own.binary = t.st.current
    /\ t.step = "checking" \/ (t.step = "activating" /\ t.phase = "emit")
          => own.binary = t.st.candidate
    /\ t.step = "undo_health" \/ (t.step = "undo_commit" /\ t.phase = "emit")
          => ~own.active /\ own.binary = t.st.recoveryVersion
    /\ t.step \in {"recover_health", "recover_commit"} => own.binary = t.st.current
    /\ t.step \in {"activating", "undo_commit"} /\ t.phase = "work"
          => own.binary = t.st.current

Engaged(t, own, entry, bin, bk, d, c) ==
    /\ Fit(t.st, bin, bk, d, c)
    /\ t.step \in Works => Reaches(t, bin) /\ Trusted(t, entry, d, bk, c)
    /\ own.kind = "server" => Selected(t, own)

(* The process that holds the data, beside the journal entry on disk.       *)
Holds(own, entry, d, c) ==
    /\ own.kind = "server" /\ own.active => Reads(own.binary.version, d, c)
    /\ own.kind = "migrate" =>
          Changed(entry) /\ own.binary = entry.candidate /\ own.binary # NoBinary

VInv ==
    /\ TypeOK
    /\ Fit(disk, binaries, backups, data, Compat)
    /\ Holds(owner, disk, data, Compat)
    /\ launcher = "booting" => Fit(task.st, binaries, backups, data, Compat)
    /\ launcher \in Serving =>
          IF task.step = "none" THEN Open => owner.binary = mem.current
          ELSE Engaged(task, owner, disk, binaries, backups, data, Compat)
    /\ task.step = "prune" => disk = task.st

-----------------------------------------------------------------------------
(* Types *)

TaskTyped(t) ==
    /\ DOMAIN t = TaskFields /\ t.st \in Journal /\ t.phase \in {"emit", "work"}
    /\ t.before \in Binary /\ t.stopped \in BOOLEAN /\ t.changed \in BOOLEAN

JournalStages == Stages \cup Terminal \cup
    {"current", "available", "preparing", "rolling_back", "failed", "interrupted"}

(* Journals keep their type when fields are written.                        *)
LEMMA Entries ==
    ASSUME NEW st \in Journal
    PROVE  /\ \A s \in JournalStages : [st EXCEPT !.stage = s] \in Journal
           /\ \A b \in BOOLEAN : /\ [st EXCEPT !.busy = b] \in Journal
                                 /\ [st EXCEPT !.recovery = b] \in Journal
                                 /\ [st EXCEPT !.rollback = b] \in Journal
                                 /\ [st EXCEPT !.dataChanged = b] \in Journal
                                 /\ [st EXCEPT !.writesOpened = b] \in Journal
           /\ \A b \in Binary : /\ [st EXCEPT !.current = b] \in Journal
                                /\ [st EXCEPT !.previous = b] \in Journal
                                /\ [st EXCEPT !.candidate = b] \in Journal
           /\ \A o \in 0..MaxOperations : /\ [st EXCEPT !.backup = o] \in Journal
                                          /\ [st EXCEPT !.retained = o] \in Journal
           /\ \A h \in Releases \cup {0} : [st EXCEPT !.highest = h] \in Journal
           /\ DOMAIN st = JournalFields
BY DEF Journal, JournalStages, JournalFields

(* A record whose fields are typed is a journal.                            *)
LEMMA JournalTyped ==
    ASSUME NEW e, e = [f \in JournalFields |-> e[f]], e.stage \in JournalStages,
           e.busy \in BOOLEAN, e.current \in Binary, e.previous \in Binary,
           e.candidate \in Binary, e.recoveryVersion \in Binary,
           e.highest \in Releases \cup {0}, e.operation \in 0..MaxOperations,
           e.backup \in 0..MaxOperations, e.retained \in 0..MaxOperations,
           e.policy \subseteq Groups, e.dataChanged \in BOOLEAN,
           e.writesOpened \in BOOLEAN, e.recovery \in BOOLEAN, e.rollback \in BOOLEAN
    PROVE  e \in Journal
BY DEF Journal, JournalStages, JournalFields

(* What an operation returns, or fails with, has the type.                  *)
LEMMA TypedReturn ==
    ASSUME NEW t, TaskTyped(t), NEW st \in Journal PROVE TaskTyped(Return(t, st))
<1>1. [st EXCEPT !.busy = FALSE] \in Journal BY Entries
<1> QED BY <1>1 DEF TaskTyped, TaskFields, Return, Go

(* So has the task that goes to another step.                               *)
LEMMA TypedGo ==
    ASSUME NEW t, TaskTyped(t), NEW step, NEW phase \in {"emit", "work"}
    PROVE  TaskTyped(Go(t, step, phase))
BY DEF TaskTyped, TaskFields, Go

(* And the one that fails or gives up.                                      *)
LEMMA TypedFail ==
    ASSUME NEW t, TaskTyped(t) PROVE TaskTyped(Fail(t)) /\ TaskTyped(GiveUp(t))
<1> DEFINE left == [t.st EXCEPT !.recovery = t.stopped /\ ~t.st.writesOpened,
                                !.stage = "interrupted"]
<1>1. [t.st EXCEPT !.stage = "failed"] \in Journal BY Entries DEF TaskTyped, JournalStages
<1>2. left \in Journal BY DEF TaskTyped, Journal
<1>3. TaskTyped(GiveUp(t)) BY <1>1, TypedReturn DEF GiveUp
<1>4. TaskTyped(Return(t, left)) BY <1>2, TypedReturn
<1>5. TaskTyped(Go(t, "undo", "emit")) /\ TaskTyped(Go(t, "recover", "emit")) BY TypedGo
<1> QED BY <1>3, <1>4, <1>5 DEF Fail

(* What a step leaves as it is.                                             *)
Stores   == <<data, binaries, backups, stale, lost>>
Typed    == /\ disk \in Journal /\ mem \in Journal /\ TaskTyped(task)
            /\ launcher \in {"down", "booting", "running", "stopping"}
            /\ checking \in BOOLEAN /\ failure \in BOOLEAN /\ paused \in BOOLEAN
            /\ contact \in {"none", "known", "done"}
OwnerTyped(o) == o \in [kind : {"none", "launcher", "server", "migrate"}, binary : Binary,
                        active : BOOLEAN, orphan : BOOLEAN]
StoreTyped == /\ data \in [Groups -> Nat] /\ binaries \subseteq 0..MaxOperations
              /\ DOMAIN backups \subseteq Operations
              /\ \A o \in DOMAIN backups : /\ DOMAIN backups[o] \subseteq Groups
                                           /\ \A g \in DOMAIN backups[o] : backups[o][g] \in Nat
              /\ stale \subseteq Operations \X Groups /\ lost \subseteq Groups

(* The invariant of types in its parts.                                     *)
LEMMA TypeParts ==
    ASSUME IInv PROVE TypeOK <=> setup \in Setups /\ Typed /\ OwnerTyped(owner) /\ StoreTyped
                                 /\ faults \in 0..MaxFaults
BY DEF TypeOK, Typed, TaskTyped, OwnerTyped, StoreTyped, IInv, Shape

(* The servers and processes that may hold the data.                        *)
LEMMA Owners ==
    /\ OwnerTyped(NoOwner) /\ NoBinary \in Binary
    /\ \A b \in Binary : \A a \in BOOLEAN : OwnerTyped(Serve(b, a))
    /\ \A b \in Binary : OwnerTyped([NoOwner EXCEPT !.kind = "migrate", !.binary = b])
    /\ OwnerTyped([NoOwner EXCEPT !.kind = "launcher"])
    /\ \A o : OwnerTyped(o) => \A b \in BOOLEAN : /\ OwnerTyped([o EXCEPT !.active = b])
                                                  /\ OwnerTyped([o EXCEPT !.orphan = b])
BY DEF OwnerTyped, NoOwner, Serve, Binary, NoBinary

(* A journal whose data were put back is typed.                             *)
LEMMA RecoveredTyped == ASSUME NEW st \in Journal PROVE Recovered(st) \in Journal
<1> DEFINE e == Recovered(st)
<1>1. /\ st.stage \in JournalStages /\ st.busy \in BOOLEAN /\ st.previous \in Binary
      /\ st.recoveryVersion \in Binary /\ st.highest \in Releases \cup {0}
      /\ st.operation \in 0..MaxOperations /\ st.backup \in 0..MaxOperations
      /\ st.retained \in 0..MaxOperations /\ st.policy \subseteq Groups
      /\ st.writesOpened \in BOOLEAN /\ st.rollback \in BOOLEAN
  BY DEF Journal, JournalStages
<1>2. NoBinary \in Binary BY Owners
<1>3. DOMAIN st = JournalFields BY Entries
<1>4. /\ e = [f \in JournalFields |-> e[f]] /\ e.current = st.recoveryVersion
      /\ e.candidate = NoBinary /\ e.dataChanged = FALSE /\ e.recovery = FALSE
      /\ \A f \in JournalFields \ {"current", "candidate", "dataChanged", "recovery"} :
            e[f] = st[f]
  BY <1>3 DEF Recovered, JournalFields
<1>5. /\ e.stage = st.stage /\ e.busy = st.busy /\ e.previous = st.previous
      /\ e.recoveryVersion = st.recoveryVersion /\ e.highest = st.highest
      /\ e.operation = st.operation /\ e.backup = st.backup /\ e.retained = st.retained
      /\ e.policy = st.policy /\ e.writesOpened = st.writesOpened /\ e.rollback = st.rollback
  BY <1>4 DEF JournalFields
<1> HIDE DEF e
<1>6. e \in Journal BY <1>1, <1>2, <1>4, <1>5, JournalTyped
<1> QED BY <1>6 DEF e

(* A step is a failure or not.                                              *)
LEMMA Faults ==
    ASSUME TypeOK, UNCHANGED setup, UNCHANGED faults \/ Fault PROVE faults' \in 0..MaxFaults'
<1>1. MaxFaults \in Nat BY SupervisorAssumption DEF TypeOK, Setup, MaxFaults
<1> QED BY <1>1 DEF TypeOK, Fault, MaxFaults

(* A step of the operation that only goes on to another one.                *)
LEMMA TypedStep ==
    ASSUME IInv, IInv', TypeOK, UNCHANGED setup, UNCHANGED faults \/ Fault,
           UNCHANGED <<disk, mem, launcher, checking, failure, contact>>,
           UNCHANGED Stores, TaskTyped(task'), OwnerTyped(owner'), paused' \in BOOLEAN
    PROVE  TypeOK'
<1>1. Typed /\ StoreTyped /\ setup \in Setups BY TypeParts
<1>2. Typed' BY <1>1 DEF Typed
<1>3. StoreTyped' BY <1>1 DEF StoreTyped, Stores
<1>4. OwnerTyped(owner)' BY DEF OwnerTyped
<1>5. (faults \in 0..MaxFaults)' BY Faults DEF MaxFaults
<1> QED BY <1>1, <1>2, <1>3, <1>4, <1>5, TypeParts DEF TypeOK, Typed, TaskTyped, OwnerTyped, StoreTyped

-----------------------------------------------------------------------------

(* What the types say of an operation.                                      *)
LEMMA TypedTask ==
    ASSUME IInv, TypeOK
    PROVE  /\ TaskTyped(task) /\ task.st \in Journal /\ DOMAIN task.st = JournalFields
           /\ DOMAIN task = TaskFields
           /\ task.st.current \in Binary /\ task.st.previous \in Binary
           /\ task.st.candidate \in Binary /\ task.st.recoveryVersion \in Binary
           /\ task.before \in Binary /\ task.st.operation \in 0..MaxOperations
           /\ task.st.highest \in Releases \cup {0}
           /\ OwnerTyped(owner) /\ paused \in BOOLEAN /\ Public \in BOOLEAN
           /\ task.st.backup \in 0..MaxOperations
           /\ task.st.retained \in 0..MaxOperations
           /\ task.st.policy \subseteq Groups
<1>1. Public \in BOOLEAN BY SupervisorAssumption DEF TypeOK, Setup, Public
<1>2. task.st \in Journal BY DEF TypeOK
<1>3. /\ task.st.current \in Binary /\ task.st.previous \in Binary
      /\ task.st.candidate \in Binary /\ task.st.recoveryVersion \in Binary
      /\ task.st.operation \in 0..MaxOperations /\ task.st.highest \in Releases \cup {0}
      /\ task.st.backup \in 0..MaxOperations /\ task.st.retained \in 0..MaxOperations
      /\ task.st.policy \subseteq Groups
  BY <1>2 DEF Journal
<1>4. Typed /\ OwnerTyped(owner) BY TypeParts
<1> QED BY <1>1, <1>2, <1>3, <1>4, Entries DEF Typed, TaskTyped

(* A server that is opened, or stays as it is.                              *)
LEMMA OpenedTyped ==
    ASSUME NEW o, OwnerTyped(o), NEW b \in BOOLEAN PROVE OwnerTyped([o EXCEPT !.active = @ \/ b])
<1>1. o.active \in BOOLEAN BY DEF OwnerTyped
<1>2. (o.active \/ b) \in BOOLEAN BY <1>1
<1> QED BY <1>2, Owners

(* The steps before the server stops.                                       *)
LEMMA PreparingTyped ==
    ASSUME IInv, IInv', DInv, VInv, UNCHANGED setup,
           Prepare \/ Verify \/ Inspect \/ \E step \in Fallible : StepFails(step)
    PROVE  TypeOK'
<1>1. /\ UNCHANGED <<disk, mem, launcher, checking, failure, contact, owner, paused>>
      /\ UNCHANGED Stores /\ (UNCHANGED faults \/ Fault)
  BY DEF Prepare, Verify, Inspect, StepFails, Quiet, StepFrame, Stores, store, ghosts, Success,
         Interrupted
<1>2. TypeOK BY DEF VInv
<1>3. \A t : TaskTyped(t) => TaskTyped(Next_(t)) BY TypedGo DEF Next_
<1>4. TaskTyped(Fail(task)) /\ TaskTyped(Next_(task)) BY <1>2, <1>3, TypedTask, TypedFail
<1>5. ASSUME NEW c \in Binary PROVE TaskTyped(Next_([task EXCEPT !.st.candidate = c]))
  <2>1. TaskTyped([task EXCEPT !.st.candidate = c])
    BY <1>2, TypedTask, Entries DEF TaskTyped, TaskFields
  <2> QED BY <2>1, <1>3
<1>6. TaskTyped(task')
  <2>1. CASE Prepare
    <3>1. TaskTyped(Return(task, [task.st EXCEPT !.stage = "current"]))
      BY <1>2, TypedTask, TypedReturn, Entries DEF JournalStages
    <3> QED BY <1>2, <1>4, <1>5, <2>1, <3>1, TypedTask DEF Prepare
  <2>2. CASE Verify
    <3>1. task.step = "verifying" /\ launcher \in Serving BY <2>2 DEF Verify, At, Serving
    <3>2. task.st.highest # 0 BY <3>1 DEF VInv, Engaged, Reaches, Works, Announces
    <3>3. [version |-> task.st.highest, op |-> task.st.operation] \in Binary
      BY <1>2, <3>2, TypedTask DEF Binary
    <3> QED BY <1>4, <1>5, <2>2, <3>3 DEF Verify
  <2>3. CASE Inspect BY <1>4, <2>3 DEF Inspect
  <2>4. CASE \E step \in Fallible : StepFails(step) BY <1>4, <2>4 DEF StepFails
  <2> QED BY <2>1, <2>2, <2>3, <2>4
<1> QED BY <1>1, <1>2, <1>6, TypedTask, TypedStep

(* The server stops, the candidate migrates the data and is tried.          *)
LEMMA TryingTyped ==
    ASSUME IInv, IInv', TypeOK, UNCHANGED setup,
           \/ StopServer \/ StartMigration \/ FinishMigration \/ MigrationFails
           \/ StartCandidate \/ CheckCandidate
    PROVE  TypeOK'
<1>1. /\ UNCHANGED <<disk, mem, launcher, checking, failure, contact>>
      /\ UNCHANGED Stores /\ (UNCHANGED faults \/ Fault) /\ paused' \in {paused, Public}
  BY DEF StopServer, StartMigration, FinishMigration, MigrationFails, StartCandidate,
         CheckCandidate, Quiet, StepFrame, Stores, store, ghosts, Success, Interrupted
<1>2. TaskTyped(Fail(task)) /\ TaskTyped(Next_(task)) /\ TaskTyped(task)
  BY TypedTask, TypedFail, TypedGo DEF Next_
<1>3. TaskTyped([Next_(task) EXCEPT !.stopped = TRUE]) BY <1>2 DEF TaskTyped, TaskFields
<1>4. TaskTyped(task')
  BY <1>2, <1>3 DEF StopServer, StartMigration, FinishMigration, MigrationFails, StartCandidate,
                    CheckCandidate, Quiet
<1>5. owner' \in {owner, NoOwner, Serve(task.st.candidate, FALSE),
                  [NoOwner EXCEPT !.kind = "migrate", !.binary = task.st.candidate]}
  BY DEF StopServer, StartMigration, FinishMigration, MigrationFails, StartCandidate,
         CheckCandidate, Quiet
<1>6. OwnerTyped(owner') BY <1>5, TypedTask, Owners
<1> QED BY <1>1, <1>4, <1>6, TypedTask, TypedStep

(* The operation goes back, opens or ends.                                  *)
LEMMA EndingTyped ==
    ASSUME IInv, IInv', TypeOK, UNCHANGED setup, Activate \/ GoBack \/ Reopen
    PROVE  TypeOK'
<1> DEFINE returns(st) == Return(task, st)
           old == Serve(task.st.recoveryVersion, FALSE)
           open(b) == [owner EXCEPT !.active = b]
<1>1. /\ TaskTyped(task) /\ TaskTyped(GiveUp(task)) /\ TaskTyped(Fail(task))
      /\ \A step : TaskTyped(Go(task, step, "work")) /\ TaskTyped(Go(task, step, "emit"))
  BY TypedTask, TypedFail, TypedGo
<1>2. TaskTyped(Completed)
  <2> DEFINE st == [task.st EXCEPT !.candidate = NoBinary, !.dataChanged = FALSE,
                                   !.recovery = FALSE,
                                   !.stage = IF task.action = "rollback" THEN "rolled_back"
                                             ELSE "completed"]
  <2>1. st \in Journal BY TypedTask, Owners DEF Journal, Terminal
  <2> HIDE DEF st
  <2>2. TaskTyped(Return(task, st)) BY <1>1, <2>1, TypedReturn
  <2> QED BY <2>2 DEF Completed, st
<1>3. \A t : TaskTyped(t) => TaskTyped(RolledBack(t))
  <2> SUFFICES ASSUME NEW t, TaskTyped(t) PROVE TaskTyped(RolledBack(t)) OBVIOUS
  <2>1. [t.st EXCEPT !.stage = "rolled_back"] \in Journal
    BY Entries DEF TaskTyped, JournalStages, Terminal
  <2> QED BY <2>1, TypedReturn DEF RolledBack
<1>4. CASE Activate
  <2>1. /\ UNCHANGED <<disk, mem, launcher, checking, failure, contact, paused>>
        /\ UNCHANGED Stores /\ (UNCHANGED faults \/ Fault)
        /\ task' \in {Completed, Fail(task)}
        /\ owner' = NoOwner \/ \E b \in BOOLEAN : owner' = [owner EXCEPT !.active = @ \/ b]
    BY <1>4 DEF Activate, Commit, StepFrame, Stores, store, ghosts, Success
  <2>2. OwnerTyped(owner')
    BY <2>1, TypedTask, Owners, OpenedTyped
  <2>3. TaskTyped(task') BY <1>1, <1>2, <2>1
  <2>4. paused' \in BOOLEAN BY <2>1, TypedTask
  <2> QED BY <2>1, <2>2, <2>3, <2>4, TypedStep
<1>5. CASE GoBack
  <2> DEFINE begun == [Go(task, "restore", "work") EXCEPT !.st.recovery = TRUE,
                                                         !.st.dataChanged = task.changed]
             done == [task EXCEPT !.st = Recovered(task.st)]
  <2>1. TaskTyped(begun)
    <3>1. TaskTyped(Go(task, "restore", "work")) /\ task.changed \in BOOLEAN
      BY <1>1 DEF TaskTyped
    <3>2. \A t : TaskTyped(t) => TaskTyped([t EXCEPT !.st.recovery = TRUE,
                                                    !.st.dataChanged = task.changed])
      <4>1. \A st \in Journal : [st EXCEPT !.recovery = TRUE, !.dataChanged = task.changed]
                                   \in Journal
        BY <3>1 DEF Journal
      <4> QED BY <4>1 DEF TaskTyped, TaskFields
    <3> QED BY <3>1, <3>2
  <2>2. TaskTyped(done)
    <3>1. Recovered(task.st) \in Journal BY TypedTask, RecoveredTyped
    <3> QED BY <1>1, <3>1 DEF TaskTyped, TaskFields
  <2>3. /\ TaskTyped(RolledBack(done)) /\ TaskTyped(Go(done, "recover_start", "work"))
        /\ TaskTyped(RolledBack(task))
    BY <1>1, <1>3, <2>2, TypedGo
  <2> HIDE DEF begun, done
  <2>4. /\ UNCHANGED <<disk, mem, launcher, checking, failure, contact, paused>>
        /\ UNCHANGED Stores /\ (UNCHANGED faults \/ Fault)
    <3>1. CASE BeginRecovery \/ FinishRecovery
      BY <3>1 DEF BeginRecovery, FinishRecovery, StepFrame, Quiet, Stores, store, ghosts, Success
    <3>2. ASSUME NEW a, NEW b, StartOld(a, b) \/ CheckOld(a, b)
          PROVE  /\ UNCHANGED <<disk, mem, launcher, checking, failure, contact, paused>>
                 /\ UNCHANGED Stores /\ (UNCHANGED faults \/ Fault)
      BY <3>2 DEF StartOld, CheckOld, StepFrame, Quiet, Stores, store, ghosts, Success, Interrupted
    <3>3. ASSUME NEW a, NEW b, NEW c, Commit(a, b, c)
          PROVE  /\ UNCHANGED <<disk, mem, launcher, checking, failure, contact, paused>>
                 /\ UNCHANGED Stores /\ (UNCHANGED faults \/ Fault)
      BY <3>3 DEF Commit, StepFrame, Stores, store, ghosts, Success
    <3> QED BY <1>5, <3>1, <3>2, <3>3 DEF GoBack
  <2>5. /\ task' \in {begun, GiveUp(task), RolledBack(task), RolledBack(done),
                      Go(done, "recover_start", "work")}
           \/ \E step : task' \in {Go(task, step, "work"), Go(task, step, "emit")}
        /\ \/ owner' \in {owner, NoOwner, old}
           \/ \E b \in BOOLEAN : owner' = [owner EXCEPT !.active = @ \/ b]
    <3>1. CASE BeginRecovery BY <3>1 DEF BeginRecovery, begun
    <3>2. CASE FinishRecovery BY <3>2 DEF FinishRecovery, Quiet, done
    <3>3. ASSUME NEW a, NEW b, StartOld(a, b) \/ CheckOld(a, b)
          PROVE  /\ \/ task' = GiveUp(task)
                    \/ \E step : task' \in {Go(task, step, "work"), Go(task, step, "emit")}
                 /\ owner' \in {owner, NoOwner, old}
      BY <3>3 DEF StartOld, CheckOld, Quiet
    <3>4. ASSUME NEW a, Commit(a, RolledBack(task), GiveUp(task))
          PROVE  /\ task' \in {GiveUp(task), RolledBack(task)}
                 /\ \E b \in BOOLEAN : owner' = [owner EXCEPT !.active = @ \/ b]
      BY <3>4 DEF Commit
    <3> QED BY <1>5, <3>1, <3>2, <3>3, <3>4 DEF GoBack
  <2>6. TaskTyped(task') BY <1>1, <2>1, <2>3, <2>5
  <2>7. OwnerTyped(owner')
    <3>1. OwnerTyped(owner) /\ OwnerTyped(NoOwner) /\ OwnerTyped(old) BY TypedTask, Owners
    <3> HIDE DEF old
    <3> QED BY <2>5, <3>1, OpenedTyped
  <2>8. paused' \in BOOLEAN BY <2>4, TypedTask
  <2> QED BY <2>4, <2>6, <2>7, <2>8, TypedStep
<1>6. CASE Reopen
  <2>1. /\ UNCHANGED <<disk, mem, launcher, checking, failure, contact, owner>>
        /\ UNCHANGED Stores /\ (UNCHANGED faults \/ Fault) /\ paused' \in {FALSE, paused}
        /\ task' \in {Go(task, "settle", "work"),
                      [Go(task, "settle", "work") EXCEPT !.st.recovery = TRUE,
                                                         !.st.stage = "failed"]}
    BY <1>6 DEF Reopen, StepFrame, Stores, store, ghosts, Success
  <2>2. \A t : TaskTyped(t) => TaskTyped([t EXCEPT !.st.recovery = TRUE, !.st.stage = "failed"])
    <3>1. \A st \in Journal : [st EXCEPT !.recovery = TRUE, !.stage = "failed"] \in Journal
      BY DEF Journal
    <3> QED BY <3>1 DEF TaskTyped, TaskFields
  <2>3. TaskTyped(task') BY <1>1, <2>1, <2>2
  <2> QED BY <2>1, <2>3, TypedTask, TypedStep
<1> QED BY <1>4, <1>5, <1>6

(* The store grows: a binary, or a backup of the present data.              *)
LEMMA StoringTyped ==
    ASSUME IInv, IInv', DInv, VInv, UNCHANGED setup, Download \/ BackUp PROVE TypeOK'
<1>1. TypeOK BY DEF VInv
<1>2. /\ UNCHANGED <<disk, mem, launcher, checking, failure, contact, paused, owner, data, stale, lost>>
      /\ UNCHANGED faults
  BY DEF Download, BackUp, StepFrame, ghosts, Success
<1>3. /\ task.st.operation \in Operations /\ launcher \in Serving
  <2>1. launcher \in Serving /\ task.step \in Before
    BY DEF Download, BackUp, At, Serving, Before
  <2>2. task.st.operation # 0 BY <2>1 DEF DInv, Numbered
  <2> QED BY <1>1, <2>1, <2>2, TypedTask, SupervisorAssumption DEF Operations
<1>4. TaskTyped(task')
  <2>1. TaskTyped(Next_(task)) BY <1>1, TypedTask, TypedGo DEF Next_
  <2>2. \A t : TaskTyped(t) => TaskTyped([t EXCEPT !.st.backup = task.st.operation])
    BY <1>3, SupervisorAssumption DEF TaskTyped, TaskFields, Journal, Operations
  <2> QED BY <2>1, <2>2 DEF Download, BackUp
<1>5. StoreTyped /\ Typed /\ OwnerTyped(owner) /\ setup \in Setups BY <1>1, TypeParts
<1>6. StoreTyped'
  <2>1. CASE Download
    <3>1. binaries' = binaries \cup {task.st.operation} /\ UNCHANGED backups
      BY <2>1 DEF Download, StepFrame
    <3>2. task.st.operation \in 0..MaxOperations BY <1>1, TypedTask
    <3> QED BY <1>2, <1>5, <3>1, <3>2 DEF StoreTyped
  <2>2. CASE BackUp
    <3> DEFINE op == task.st.operation
    <3>1. /\ backups' = [o \in DOMAIN backups \cup {op} |->
                            IF o = op THEN [g \in task.st.policy |-> data[g]] ELSE backups[o]]
          /\ UNCHANGED binaries
      BY <2>2 DEF BackUp
    <3>2. task.st.policy \subseteq Groups BY <1>1, TypedTask
    <3> QED BY <1>2, <1>3, <1>5, <3>1, <3>2 DEF StoreTyped
  <2> QED BY <2>1, <2>2
<1>7. Typed' BY <1>2, <1>4, <1>5 DEF Typed
<1>8. OwnerTyped(owner)' BY <1>2, <1>5 DEF OwnerTyped
<1>9. (faults \in 0..MaxFaults)' BY <1>1, <1>2, Faults DEF MaxFaults
<1> QED BY <1>5, <1>6, <1>7, <1>8, <1>9, TypeParts DEF TypeOK, Typed, TaskTyped, OwnerTyped, StoreTyped

-----------------------------------------------------------------------------

(* The entry of an announced step has the type of a journal.                *)
LEMMA TypedEntry ==
    ASSUME IInv, TypeOK, task.phase = "emit", launcher \in Serving
    PROVE  Announced \in Journal /\ Withdrawn(Announced) \in Journal
<1>1. /\ task.st \in Journal /\ task.before \in Binary /\ task.step \in Announces
      /\ task.st.candidate \in Binary /\ task.st.recoveryVersion \in Binary
      /\ TaskTyped(task)
  BY TypedTask DEF IInv, Phases
<1>2. /\ "rolling_back" \in JournalStages /\ "installing" \in JournalStages
      /\ "activating" \in JournalStages
      /\ task.step \notin {"undo", "recover", "stopped", "installing", "activating",
                           "undo_commit", "recover_commit"} => task.step \in JournalStages
  BY <1>1 DEF Announces, JournalStages, Stages
<1>3. \A p, q \in Binary : CanRollback(p, q) \in BOOLEAN BY DEF CanRollback
<1>4. Announced \in Journal
  <2>1. CASE task.step \in {"undo", "recover"} BY <1>1, <1>2, <2>1, Entries DEF Announced
  <2>2. CASE task.step = "stopped" BY <1>1, <2>2, Entries DEF Announced
  <2>3. CASE task.step = "installing"
    BY <1>1, <2>3 DEF Announced, Installing, Journal, Stages
  <2>4. CASE task.step = "activating"
    <3> DEFINE st == task.st
               a == Activating(st)
    <3>1. CanRollback(st.recoveryVersion, st.candidate) \in BOOLEAN BY <1>1, <1>3
    <3>2. DOMAIN st = JournalFields BY <1>1, Entries
    <3>3. /\ a = [f \in JournalFields |-> a[f]] /\ a.stage = "activating"
          /\ a.previous = st.recoveryVersion /\ a.current = st.candidate
          /\ a.writesOpened = TRUE /\ a.recovery = FALSE
          /\ a.rollback = CanRollback(st.recoveryVersion, st.candidate)
          /\ \A f \in JournalFields \ {"stage", "previous", "current", "writesOpened",
                                        "recovery", "rollback"} : a[f] = st[f]
      BY <3>2 DEF Activating, JournalFields
    <3>4. /\ a.busy = st.busy /\ a.candidate = st.candidate /\ a.highest = st.highest
          /\ a.recoveryVersion = st.recoveryVersion /\ a.operation = st.operation
          /\ a.backup = st.backup /\ a.retained = st.retained /\ a.policy = st.policy
          /\ a.dataChanged = st.dataChanged
      BY <3>3 DEF JournalFields
    <3>5. /\ st.busy \in BOOLEAN /\ st.highest \in Releases \cup {0}
          /\ st.operation \in 0..MaxOperations /\ st.backup \in 0..MaxOperations
          /\ st.retained \in 0..MaxOperations /\ st.policy \subseteq Groups
          /\ st.dataChanged \in BOOLEAN
      BY <1>1 DEF Journal
    <3>6. Announced = a BY <2>4 DEF Announced
    <3> HIDE DEF a
    <3> QED BY <1>1, <1>2, <3>1, <3>3, <3>4, <3>5, <3>6, JournalTyped
  <2>5. CASE task.step = "undo_commit"
    BY <1>1, <1>3, <2>5, Owners DEF Announced, Journal
  <2>6. CASE task.step = "recover_commit" BY <1>1, <2>6 DEF Announced, Journal
  <2>7. CASE task.step \notin {"undo", "recover", "stopped", "installing", "activating",
                               "undo_commit", "recover_commit"}
    BY <1>1, <1>2, <2>7, Entries DEF Announced
  <2> QED BY <2>1, <2>2, <2>3, <2>4, <2>5, <2>6, <2>7
<1>5. Withdrawn(Announced) \in Journal
  <2> DEFINE e == Announced
  <2>1. e \in Journal BY <1>4
  <2> HIDE DEF e
  <2>2. [e EXCEPT !.dataChanged = FALSE] \in Journal
        /\ [e EXCEPT !.writesOpened = FALSE, !.recovery = TRUE] \in Journal
    BY <2>1 DEF Journal
  <2> QED BY <2>1, <2>2 DEF Withdrawn, e
<1> QED BY <1>4, <1>5

(* Everything but journals and the goroutine stays.                         *)
LEMMA TypedWriting ==
    ASSUME IInv, IInv', TypeOK, UNCHANGED setup, UNCHANGED faults \/ Fault,
           UNCHANGED Stores, disk' \in Journal, mem' \in Journal, TaskTyped(task'),
           launcher' \in {"down", "booting", "running", "stopping"},
           checking' \in BOOLEAN, failure' \in BOOLEAN, paused' \in BOOLEAN,
           contact' \in {"none", "known", "done"}, OwnerTyped(owner')
    PROVE  TypeOK'
<1>1. StoreTyped /\ setup \in Setups BY TypeParts
<1>2. Typed' BY DEF Typed
<1>3. StoreTyped' BY <1>1 DEF StoreTyped, Stores
<1>4. OwnerTyped(owner)' BY DEF OwnerTyped
<1>5. (faults \in 0..MaxFaults)' BY Faults DEF MaxFaults
<1> QED BY <1>1, <1>2, <1>3, <1>4, <1>5, TypeParts DEF TypeOK, Typed, TaskTyped, OwnerTyped, StoreTyped

(* The launcher is down: what it held is gone.                              *)
LEMMA TypedDown ==
    ASSUME TypeOK
    PROVE  /\ TaskTyped(NoTask) /\ Unknown \in {"none", "known", "done"} /\ Public \in BOOLEAN
           /\ Bootstrap \in Journal
<1>1. Public \in BOOLEAN BY SupervisorAssumption DEF TypeOK, Setup, Public
<1>2. NoBinary \in Binary /\ [version |-> Installed, op |-> 0] \in Binary
  BY SupervisorAssumption DEF Binary
<1>3. Bootstrap \in Journal BY <1>2, SupervisorAssumption DEF Bootstrap, Journal
<1>4. TaskTyped(NoTask) BY <1>2, <1>3 DEF NoTask, TaskTyped, TaskFields
<1> QED BY <1>1, <1>3, <1>4 DEF Unknown

(* Run returns.                                                             *)
LEMMA ExitTyped ==
    ASSUME IInv, IInv', TypeOK, UNCHANGED setup, UNCHANGED faults \/ Fault,
           UNCHANGED Stores, disk' \in Journal, Exit
    PROVE  TypeOK'
<1>1. /\ TaskTyped(task') /\ OwnerTyped(owner') /\ mem' \in Journal /\ launcher' = "down"
      /\ checking' \in BOOLEAN /\ failure' \in BOOLEAN /\ paused' \in BOOLEAN
      /\ contact' \in {"none", "known", "done"}
  BY TypedDown, Owners DEF Exit
<1> QED BY <1>1, TypedWriting

(* The main loop writes what it is handed.                                  *)
LEMMA SavingTyped ==
    ASSUME IInv, TypeOK, NEW entry \in Journal, NEW good, Save(entry, good)
    PROVE  /\ disk' \in Journal /\ (UNCHANGED faults \/ Fault) /\ (good => disk' = entry)
           /\ disk' \in {disk, entry}
BY DEF Save, TypeOK, Success

(* An entry is announced.                                                   *)
LEMMA EmitTyped == ASSUME IInv, IInv', TypeOK, UNCHANGED setup, Emit PROVE TypeOK'
<1>1. task.phase = "emit" /\ launcher \in Serving BY DEF Emit, Serving
<1>2. Announced \in Journal /\ Withdrawn(Announced) \in Journal BY <1>1, TypedEntry
<1>3. /\ UNCHANGED <<launcher, checking, failure, paused, contact, owner>> /\ UNCHANGED Stores
  BY DEF Emit, Stores, store, ghosts
<1>4. TaskTyped(task) /\ mem \in Journal BY TypedTask, TypeParts DEF Typed
<1>5. PICK good \in BOOLEAN :
         /\ Save(Announced, good)
         /\ IF good
            THEN /\ mem' = Heard(Announced)
                 /\ task' = [Go(task, task.step, "work") EXCEPT
                                !.st = Announced,
                                !.changed = @ \/ task.step = "installing"]
            ELSE LET t == [task EXCEPT !.st = Withdrawn(Announced)] IN
                 /\ task' = IF task.step \in Undoing THEN GiveUp(t) ELSE Fail(t)
                 /\ UNCHANGED mem
  BY DEF Emit
<1>6. disk' \in Journal /\ (UNCHANGED faults \/ Fault) BY <1>2, <1>5, SavingTyped
<1>7. mem' \in Journal BY <1>2, <1>4, <1>5 DEF Heard
<1>8. TaskTyped(task')
  <2>1. \A t, st, b : TaskTyped(t) /\ st \in Journal /\ b \in BOOLEAN =>
            TaskTyped([t EXCEPT !.st = st]) /\ TaskTyped([t EXCEPT !.st = st, !.changed = b])
    BY DEF TaskTyped, TaskFields
  <2>2. CASE good
    <3> DEFINE t == Go(task, task.step, "work")
               b == t.changed \/ task.step = "installing"
    <3>1. TaskTyped(t) /\ b \in BOOLEAN BY <1>4, TypedGo
    <3>2. task' = [t EXCEPT !.st = Announced, !.changed = b] BY <1>5, <2>2
    <3> HIDE DEF t, b
    <3> QED BY <1>2, <2>1, <3>1, <3>2
  <2>3. CASE ~good
    <3>1. TaskTyped([task EXCEPT !.st = Withdrawn(Announced)]) BY <1>2, <1>4, <2>1
    <3> QED BY <1>5, <2>3, <3>1, TypedFail
  <2> QED BY <2>2, <2>3
<1> QED BY <1>3, <1>6, <1>7, <1>8, TypedTask, TypedWriting DEF TypeOK

(* The operation is settled, its garbage deleted, its end taken.            *)
LEMMA ClosingTyped ==
    ASSUME IInv, IInv', TypeOK, UNCHANGED setup, Settle \/ Prune \/ Finish PROVE TypeOK'
<1>1. TaskTyped(task) /\ mem \in Journal /\ task.st \in Journal /\ OwnerTyped(owner)
      /\ paused \in BOOLEAN
  BY TypedTask, TypeParts DEF Typed
<1>2. \A t, st, step : TaskTyped(t) /\ st \in Journal =>
          TaskTyped([Go(t, step, "work") EXCEPT !.st = st])
  BY DEF TaskTyped, TaskFields, Go
<1>3. CASE Settle
  <2>1. Settled(task.st) \in Journal
    <3>1. \A st \in Journal : \A r \in 0..MaxOperations :
              [st EXCEPT !.busy = TRUE, !.retained = r] \in Journal
      BY DEF Journal
    <3>2. 0 \in 0..MaxOperations BY SupervisorAssumption
    <3> QED BY <1>1, <3>1, <3>2, TypedTask DEF Settled
  <2>2. PICK good \in BOOLEAN :
           /\ Save(Settled(task.st), good)
           /\ mem' = IF good THEN Heard(Settled(task.st)) ELSE mem
           /\ task' = [Go(task, IF good /\ launcher # "stopping" THEN "prune" ELSE "finish",
                          "work") EXCEPT !.st = Settled(task.st)]
    BY <1>3 DEF Settle
  <2>3. disk' \in Journal /\ (UNCHANGED faults \/ Fault) BY <2>1, <2>2, SavingTyped
  <2>4. mem' \in Journal /\ TaskTyped(task') BY <1>1, <1>2, <2>1, <2>2 DEF Heard
  <2>5. UNCHANGED <<launcher, checking, failure, paused, contact, owner>> /\ UNCHANGED Stores
    BY <1>3 DEF Settle, Stores, store, ghosts
  <2> QED BY <1>1, <2>3, <2>4, <2>5, TypedWriting DEF TypeOK
<1>4. CASE Prune
  <2>1. /\ UNCHANGED <<disk, mem, launcher, checking, owner, data, failure, paused, contact, lost>>
        /\ binaries' \subseteq binaries /\ stale' \subseteq stale
        /\ task' = Go(task, "finish", "work") /\ (UNCHANGED faults \/ Fault)
    BY <1>4 DEF Prune, Success, Interrupted
  <2>2. DOMAIN backups' \subseteq DOMAIN backups /\ \A o \in DOMAIN backups' : backups'[o] = backups[o]
    BY <1>4 DEF Prune, Without
  <2>3. StoreTyped /\ Typed /\ setup \in Setups BY TypeParts
  <2>4. TaskTyped(task') BY <1>1, <2>1, TypedGo
  <2>5. StoreTyped' BY <2>1, <2>2, <2>3 DEF StoreTyped
  <2>6. Typed' BY <2>1, <2>3, <2>4 DEF Typed
  <2>7. OwnerTyped(owner)' BY <1>1, <2>1 DEF OwnerTyped
  <2>8. (faults \in 0..MaxFaults)' BY <2>1, Faults DEF MaxFaults
  <2> QED BY <2>3, <2>5, <2>6, <2>7, <2>8, TypeParts DEF TypeOK, Typed, TaskTyped, OwnerTyped, StoreTyped
<1>5. CASE Finish
  <2> DEFINE ended == [task.st EXCEPT !.busy = FALSE]
             st == IF launcher = "stopping" THEN ended ELSE Restrict(ended)
  <2>1. st \in Journal
    <3>1. ended \in Journal BY <1>1, Entries
    <3>2. \A x \in Journal : Restrict(x) \in Journal BY Entries DEF Restrict
    <3> QED BY <3>1, <3>2
  <2>2. PICK good \in BOOLEAN :
           /\ Save(st, good)
           /\ \/ Exit
              \/ /\ mem' = st /\ task' = NoTask /\ paused' \in {paused, FALSE} /\ contact' = "done"
                 /\ UNCHANGED <<launcher, owner, checking, failure>>
    BY <1>1, <1>5 DEF Finish
  <2>3. disk' \in Journal /\ (UNCHANGED faults \/ Fault) BY <2>1, <2>2, SavingTyped
  <2>4. UNCHANGED Stores BY <1>5 DEF Finish, Stores, store, ghosts
  <2>5. CASE Exit BY <2>3, <2>4, <2>5, ExitTyped
  <2>6. CASE ~Exit
    <3>1. /\ mem' \in Journal /\ TaskTyped(task') /\ paused' \in BOOLEAN
          /\ contact' \in {"none", "known", "done"} /\ UNCHANGED <<launcher, owner, checking, failure>>
      BY <1>1, <2>1, <2>2, <2>6, TypedDown
    <3> QED BY <1>1, <2>3, <2>4, <3>1, TypedWriting DEF TypeOK
  <2> QED BY <2>5, <2>6
<1> QED BY <1>3, <1>4, <1>5

-----------------------------------------------------------------------------
(* The operation before it is settled *)

(* The fields that say what a journal needs.                                *)
Kin(a, b) ==
    /\ a.current = b.current /\ a.previous = b.previous /\ a.candidate = b.candidate
    /\ a.recoveryVersion = b.recoveryVersion /\ a.backup = b.backup /\ a.policy = b.policy
    /\ a.dataChanged = b.dataChanged /\ a.writesOpened = b.writesOpened

(* Journals that agree on them fit alike.                                   *)
LEMMA FitKin ==
    ASSUME NEW a, NEW b, Kin(a, b), NEW bin, NEW bk, NEW d, NEW c, Fit(a, bin, bk, d, c)
    PROVE  Fit(b, bin, bk, d, c)
<1>1. Stored(b, bin, bk) BY DEF Kin, Fit, Stored
<1>2. Sound(b, d, bk, c) BY DEF Kin, Fit, Sound, BackedUp, Changed
<1> QED BY <1>1, <1>2 DEF Fit

(* What an operation is after it failed.                                    *)
LEMMA FailKin ==
    ASSUME NEW t, TaskOK(t), NEW x \in {Fail(t), GiveUp(t)}
    PROVE  /\ Kin(t.st, x.st)
           /\ \/ x.step \in {"reopen", "settle"}
              \/ /\ x \in {Go(t, "undo", "emit"), Go(t, "recover", "emit")}
                 /\ x.step \in {"undo", "recover"} /\ x.phase = "emit" /\ x.st = t.st
                 /\ x.before = t.before /\ x.changed = t.changed /\ x # GiveUp(t)
<1> DEFINE left == [t.st EXCEPT !.recovery = t.stopped /\ ~t.st.writesOpened,
                                !.stage = "interrupted"]
           failed == [t.st EXCEPT !.stage = "failed"]
<1>1. \A st : DOMAIN st = JournalFields =>
          Return(t, st).step \in {"reopen", "settle"} /\ Kin(st, Return(t, st).st)
  BY DEF Return, Go, TaskOK, TaskFields, JournalFields, Kin
<1>2. DOMAIN left = JournalFields /\ Kin(t.st, left)
      /\ DOMAIN failed = JournalFields /\ Kin(t.st, failed)
  BY DEF TaskOK, JournalFields, Kin
<1>3. GiveUp(t).step \in {"reopen", "settle"} /\ Kin(t.st, GiveUp(t).st)
  <2>1. GiveUp(t) = Return(t, failed) BY DEF GiveUp
  <2> HIDE DEF failed
  <2> QED BY <1>1, <1>2, <2>1 DEF Kin
<1>4. Return(t, left).step \in {"reopen", "settle"} /\ Kin(t.st, Return(t, left).st)
  <2> HIDE DEF left
  <2> QED BY <1>1, <1>2 DEF Kin
<1>5. \A step \in {"undo", "recover"} : LET g == Go(t, step, "emit") IN
          /\ g.step = step /\ g.phase = "emit" /\ g.st = t.st
          /\ g.before = t.before /\ g.changed = t.changed
  BY DEF Go, TaskOK, TaskFields
<1>6. Fail(t) \in {Return(t, left), Go(t, "undo", "emit"), Go(t, "recover", "emit"), GiveUp(t)}
  BY DEF Fail
<1>7. ASSUME NEW step \in {"undo", "recover"}, x = Go(t, step, "emit")
      PROVE  /\ Kin(t.st, x.st) /\ x.step = step /\ x.phase = "emit" /\ x.st = t.st
             /\ x.before = t.before /\ x.changed = t.changed /\ x # GiveUp(t)
  BY <1>3, <1>5, <1>7 DEF Kin
<1> QED BY <1>3, <1>4, <1>6, <1>7

(* An operation that gives up still has what its journal needs.             *)
LEMMA GiveUpEngaged ==
    ASSUME NEW t, TaskOK(t), NEW own, NEW entry, NEW bin, NEW bk, NEW d, NEW c,
           Fit(t.st, bin, bk, d, c), own.kind = "server" /\ own.active => own.binary = t.st.current
    PROVE  Engaged(GiveUp(t), own, entry, bin, bk, d, c) /\ GiveUp(t).step \notin {"none", "prune"}
<1> DEFINE x == GiveUp(t)
<1>1. Kin(t.st, x.st) /\ x.step \in {"reopen", "settle"} BY FailKin
<1>2. Fit(x.st, bin, bk, d, c) BY <1>1, FitKin
<1>3. own.kind = "server" => Selected(x, own) BY <1>1 DEF Selected, Kin
<1> QED BY <1>1, <1>2, <1>3 DEF Engaged, Works, Announces

(* So does one that goes back or recovers.                                  *)
LEMMA FailEngaged ==
    ASSUME NEW t, TaskOK(t), NEW own, NEW entry, NEW bin, NEW bk, NEW d, NEW c,
           Fit(t.st, bin, bk, d, c), own.kind = "server" /\ own.active => own.binary = t.st.current,
           Real(t.st.recoveryVersion, bin), t.before = NoBinary \/ Real(t.before, bin),
           t.changed = t.st.dataChanged
    PROVE  Engaged(Fail(t), own, entry, bin, bk, d, c) /\ Fail(t).step \notin {"none", "prune"}
<1> DEFINE x == Fail(t)
<1>1. Kin(t.st, x.st) BY FailKin
<1>2. Fit(x.st, bin, bk, d, c) BY <1>1, FitKin
<1>3. CASE x.step \in {"reopen", "settle"}
  <2>1. own.kind = "server" => Selected(x, own) BY <1>1, <1>3 DEF Selected, Kin
  <2> QED BY <1>2, <1>3, <2>1 DEF Engaged, Works, Announces
<1>4. CASE x.step \notin {"reopen", "settle"}
  <2>1. /\ x.step \in {"undo", "recover"} /\ x.phase = "emit" /\ x.st = t.st
        /\ x.before = t.before /\ x.changed = t.changed
    BY <1>4, FailKin
  <2> HIDE DEF x
  <2>2. own.kind = "server" => Selected(x, own) BY <2>1 DEF Selected
  <2>3. Reaches(x, bin)
    BY <2>1 DEF Reaches, Before, Trying, Resuming, Chosen
  <2>4. Trusted(x, entry, d, bk, c) BY <2>1 DEF Trusted
  <2> QED BY <1>2, <2>1, <2>2, <2>3, <2>4 DEF Engaged, x
<1> QED BY <1>3, <1>4

(* The goroutine announces the next stage.                                  *)
LEMMA NextEngaged ==
    ASSUME NEW u, TaskOK(u), u.phase = "work", u.step \in Before \cup Trying,
           NEW own, NEW entry, NEW bin, NEW bk, NEW d, NEW c,
           Fit(u.st, bin, bk, d, c), Real(u.st.recoveryVersion, bin),
           u.before = NoBinary \/ Real(u.before, bin), u.st.current = u.st.recoveryVersion,
           u.changed = u.st.dataChanged, u.st.dataChanged <=> Migrated(u),
           Next_(u).step \in {"downloading", "verifying"} => u.st.highest # 0,
           Next_(u).step = "verifying" => u.st.operation \in bin,
           Next_(u).step \in Chosen => Real(u.st.candidate, bin),
           Next_(u).step = "installing" => BackedUp(u.st, bk, c),
           Next_(u).step = "activating" => Reads(u.st.candidate.version, d, c),
           own.kind = "server" =>
               /\ own.active => own.binary = u.st.current
               /\ Next_(u).step \in {"checking", "activating"} => own.binary = u.st.candidate
    PROVE  Engaged(Next_(u), own, entry, bin, bk, d, c) /\ Next_(u).step \notin {"none", "prune"}
<1> DEFINE x == Next_(u)
<1>1. /\ x.phase = "emit" /\ x.st = u.st /\ x.before = u.before /\ x.changed = u.changed
      /\ x.step = Then(u.step)
  BY DEF Next_, Go, TaskOK, TaskFields
<1>2. /\ x.step \in {"downloading", "verifying", "inspecting", "preparing_backup", "stopping",
                     "stopped", "backing_up", "installing", "restarting", "checking", "activating"}
      /\ x.step \in {"restarting", "checking", "activating"} <=> u.step \in Trying
  BY <1>1 DEF Then, Before, Trying
<1> HIDE DEF x
<1>3. Migrated(x) <=> Migrated(u) BY <1>1, <1>2 DEF Migrated, Before, Trying
<1>4. Reaches(x, bin)
  BY <1>1, <1>2, <1>3 DEF Reaches, Resuming, x
<1>5. Trusted(x, entry, d, bk, c) BY <1>1, <1>2 DEF Trusted, x
<1>6. own.kind = "server" => Selected(x, own) BY <1>1, <1>2 DEF Selected, x
<1> QED BY <1>1, <1>2, <1>4, <1>5, <1>6 DEF Engaged, x

(* A step of the operation that leaves the journal on disk alone.           *)
LEMMA WorkFits ==
    ASSUME VInv, TypeOK', UNCHANGED setup, UNCHANGED disk, UNCHANGED launcher,
           launcher \in Serving, task'.step \notin {"none", "prune"},
           Fit(disk, binaries', backups', data', Compat), Holds(owner', disk, data', Compat),
           Engaged(task', owner', disk, binaries', backups', data', Compat)
    PROVE  VInv'
<1>1. Compat' = Compat BY DEF Compat
<1>2. launcher # "booting" BY DEF Serving
<1> QED BY <1>1, <1>2 DEF VInv

(* What is known of an operation at work.                                   *)
LEMMA AtFits ==
    ASSUME IInv, DInv, VInv, NEW step \in Works, NEW phase, At(step, phase)
    PROVE  /\ launcher \in Serving /\ task.step = step /\ task.phase = phase /\ TaskOK(task)
           /\ Engaged(task, owner, disk, binaries, backups, data, Compat)
           /\ Fit(task.st, binaries, backups, data, Compat)
           /\ Fit(disk, binaries, backups, data, Compat)
           /\ Holds(owner, disk, data, Compat)
           /\ Reaches(task, binaries) /\ Trusted(task, disk, data, backups, Compat)
           /\ (owner.kind = "server" => Selected(task, owner))
           /\ (owner.kind = "server" /\ owner.active => owner.binary = task.st.current)
           /\ (owner.kind = "migrate" => step = "installing" /\ phase = "work")
           /\ Careful(task) /\ TypeOK
<1>1. launcher \in Serving /\ task.step = step /\ task.phase = phase /\ TaskOK(task)
      /\ Careful(task)
  BY AtSafe
<1>2. task.step # "none" BY <1>1 DEF Works, Announces
<1>3. Engaged(task, owner, disk, binaries, backups, data, Compat)
  BY <1>1, <1>2 DEF VInv
<1>4. owner.kind = "migrate" => step = "installing" /\ phase = "work"
  BY <1>1 DEF IInv, Closed, Serving
<1> QED BY <1>1, <1>3, <1>4 DEF VInv, Engaged, Selected

(* An operation that fails or gives up at work, beside the server own.      *)
LEMMA FailFits ==
    ASSUME IInv, DInv, VInv, launcher \in Serving, task.step \in Works \ Resuming,
           NEW own, own.kind = "server" /\ own.active => own.binary = task.st.current
    PROVE  /\ Engaged(Fail(task), own, disk, binaries, backups, data, Compat)
           /\ Fail(task).step \notin {"none", "prune"}
<1>1. At(task.step, task.phase) BY DEF At, Serving
<1>2. /\ TaskOK(task) /\ Fit(task.st, binaries, backups, data, Compat)
      /\ Reaches(task, binaries)
  BY <1>1, AtFits
<1> QED BY <1>2, FailEngaged DEF Reaches

-----------------------------------------------------------------------------

(* A journal in hand whose data have not changed may name any candidate.    *)
LEMMA CandidateFits ==
    ASSUME TaskOK(task), ~task.st.dataChanged, Fit(task.st, binaries, backups, data, Compat),
           NEW b, NEW u, u = [task EXCEPT !.st.candidate = b]
    PROVE  /\ TaskOK(u) /\ Fit(u.st, binaries, backups, data, Compat)
           /\ u.step = task.step /\ u.phase = task.phase /\ u.before = task.before
           /\ u.changed = task.changed /\ u.st.candidate = b
           /\ u.st.current = task.st.current /\ u.st.recoveryVersion = task.st.recoveryVersion
           /\ u.st.dataChanged = task.st.dataChanged /\ u.st.policy = task.st.policy
           /\ u.st.backup = task.st.backup /\ u.action = task.action
<1>1. /\ TaskOK(u) /\ u.st = [task.st EXCEPT !.candidate = b]
      /\ u.step = task.step /\ u.phase = task.phase /\ u.before = task.before
      /\ u.changed = task.changed /\ u.action = task.action
  BY DEF TaskOK, TaskFields, JournalFields
<1>2. /\ u.st.candidate = b /\ u.st.current = task.st.current /\ u.st.previous = task.st.previous
      /\ u.st.recoveryVersion = task.st.recoveryVersion /\ u.st.dataChanged = task.st.dataChanged
      /\ u.st.policy = task.st.policy /\ u.st.backup = task.st.backup
      /\ u.st.writesOpened = task.st.writesOpened
  BY <1>1 DEF TaskOK, JournalFields
<1>3. Stored(u.st, binaries, backups) BY <1>2 DEF Fit, Stored
<1>4. Sound(u.st, data, backups, Compat) BY <1>2 DEF Fit, Sound, Changed
<1> QED BY <1>1, <1>2, <1>3, <1>4 DEF Fit

(* The steps before the server stops, and any that fails.                   *)
LEMMA PreparingFits ==
    ASSUME IInv, IInv', DInv, VInv, UNCHANGED setup,
           Prepare \/ Verify \/ Inspect \/ \E step \in Fallible : StepFails(step)
    PROVE  VInv'
<1> DEFINE Works_(x) == /\ Engaged(x, owner, disk, binaries, backups, data, Compat)
                       /\ x.step \notin {"none", "prune"}
<1>1. TypeOK' BY PreparingTyped
<1>2. UNCHANGED <<disk, launcher, owner, data, binaries, backups>>
  BY DEF Prepare, Verify, Inspect, StepFails, Quiet, StepFrame, store
<1>3. /\ launcher \in Serving /\ task.step \in Works \ Resuming /\ TaskOK(task)
      /\ Fit(task.st, binaries, backups, data, Compat)
      /\ Fit(disk, binaries, backups, data, Compat) /\ Holds(owner, disk, data, Compat)
      /\ Reaches(task, binaries) /\ task.phase = "work"
      /\ (owner.kind = "server" /\ owner.active => owner.binary = task.st.current)
  <2>1. /\ \E step \in Works : At(step, "work")
        /\ task.step \in Works \ Resuming
    BY DEF Prepare, Verify, Inspect, StepFails, Fallible, Works, Announces, At, Resuming
  <2> QED BY <2>1, AtFits
<1>4. Works_(Fail(task)) BY <1>3, FailFits
<1>5. \A u : Next_(u).step = Then(u.step) \/ ~TaskOK(u) BY DEF Next_, Go, TaskOK, TaskFields
<1>6. task.st.previous = NoBinary \/ Real(task.st.previous, binaries) BY <1>3 DEF Fit, Stored
<1>7. ASSUME NEW u, TaskOK(u), u.phase = "work",
             Fit(u.st, binaries, backups, data, Compat),
             u.step = task.step, u.before = task.before, u.changed = task.changed,
             u.st.current = task.st.current, u.st.dataChanged = task.st.dataChanged,
             u.st.recoveryVersion = task.st.recoveryVersion,
             task.step \in {"preparing", "verifying", "inspecting", "preparing_backup", "stopped"},
             Next_(u).step = "downloading" => u.st.highest # 0,
             Next_(u).step \in Chosen => Real(u.st.candidate, binaries),
             task.step = "stopped" => u.st.policy = task.st.policy /\ u.st.backup = task.st.backup
      PROVE  Works_(Next_(u))
  <2>1. u.step \in Before \cup Trying BY <1>7 DEF Before
  <2>2. /\ u.st.current = u.st.recoveryVersion /\ u.changed = u.st.dataChanged
        /\ Real(u.st.recoveryVersion, binaries) /\ (u.before = NoBinary \/ Real(u.before, binaries))
        /\ u.st.dataChanged <=> Migrated(u)
    BY <1>3, <1>7, <2>1 DEF Reaches, Resuming, Before, Trying, Migrated
  <2>3. /\ Next_(u).step \notin {"verifying", "activating", "checking"}
        /\ Next_(u).step = "installing" => task.step = "stopped" /\ u.st.policy = {}
    <3>1. Next_(u).step = Then(u.step) BY <1>5, <1>7
    <3>2. Then(task.step) = "installing" => task.step = "stopped" /\ task.st.policy = {}
      BY <1>7 DEF Then
    <3>3. Then(task.step) \notin {"verifying", "activating", "checking"} BY <1>7 DEF Then
    <3> QED BY <1>7, <3>1, <3>2, <3>3
  <2>4. Next_(u).step = "installing" => BackedUp(u.st, backups, Compat)
    <3> SUFFICES ASSUME Next_(u).step = "installing" PROVE BackedUp(u.st, backups, Compat) OBVIOUS
    <3>1. task.step = "stopped" /\ u.st.policy = {} BY <2>3
    <3>2. u.st.backup = 0 /\ 0 \notin DOMAIN backups
      BY <1>3, <1>7, <3>1 DEF DInv, Numbered, Before
    <3> QED BY <3>1, <3>2 DEF BackedUp
  <2> QED BY <1>3, <1>7, <2>1, <2>2, <2>3, <2>4, NextEngaged
<1>8. ASSUME task.step \in {"preparing", "verifying", "inspecting", "preparing_backup", "stopped"},
             Then(task.step) = "downloading" => task.st.highest # 0,
             Then(task.step) \in Chosen => Real(task.st.candidate, binaries)
      PROVE  Works_(Next_(task))
  BY <1>3, <1>5, <1>7, <1>8
<1>9. ASSUME NEW b, Real(b, binaries), task.step \in {"preparing", "verifying"},
             task.step = "preparing" => task.action # "upgrade"
      PROVE  Works_(Next_([task EXCEPT !.st.candidate = b]))
  <2> DEFINE u == [task EXCEPT !.st.candidate = b]
  <2>1. ~task.st.dataChanged
    BY <1>3, <1>9 DEF Reaches, Before, Migrated
  <2>2. /\ TaskOK(u) /\ Fit(u.st, binaries, backups, data, Compat)
        /\ u.step = task.step /\ u.phase = task.phase /\ u.before = task.before
        /\ u.changed = task.changed /\ u.st.candidate = b
        /\ u.st.current = task.st.current /\ u.st.recoveryVersion = task.st.recoveryVersion
        /\ u.st.dataChanged = task.st.dataChanged /\ u.st.policy = task.st.policy
        /\ u.st.backup = task.st.backup /\ u.action = task.action
    <3>1. TaskOK(task) /\ Fit(task.st, binaries, backups, data, Compat) BY <1>3
    <3>2. u = [task EXCEPT !.st.candidate = b] OBVIOUS
    <3> HIDE DEF u
    <3> QED BY <2>1, <3>1, <3>2, CandidateFits
  <2>3. Next_(u).step # "downloading"
    <3>1. Next_(u).step = Then(u.step) BY <1>5, <2>2
    <3>2. Then(task.step) # "downloading" BY <1>9 DEF Then
    <3> QED BY <2>2, <3>1, <3>2
  <2> HIDE DEF u
  <2>4. Works_(Next_(u)) BY <1>3, <1>7, <1>9, <2>2, <2>3
  <2> QED BY <2>4 DEF u
<1>10. ASSUME Prepare PROVE Works_(task')
  <2> DEFINE returned == Return(task, [task.st EXCEPT !.stage = "current"])
  <2>1. task.step = "preparing" BY <1>10 DEF Prepare, At
  <2>2. Works_(returned)
    <3> DEFINE st == [task.st EXCEPT !.stage = "current"]
    <3>1. DOMAIN st = JournalFields /\ Kin(task.st, st) BY <1>3 DEF TaskOK, JournalFields, Kin
    <3>2. returned.step \in {"reopen", "settle"} /\ Kin(task.st, returned.st)
      <4> HIDE DEF st
      <4>1. Return(task, st).step \in {"reopen", "settle"} /\ Kin(st, Return(task, st).st)
        BY <1>3, <3>1 DEF Return, Go, TaskOK, TaskFields, JournalFields, Kin
      <4> QED BY <3>1, <4>1 DEF Kin, st
    <3> HIDE DEF returned
    <3>3. Fit(returned.st, binaries, backups, data, Compat) BY <1>3, <3>2, FitKin
    <3>4. owner.kind = "server" => Selected(returned, owner)
      BY <1>3, <3>2 DEF Selected, Kin
    <3> QED BY <3>2, <3>3, <3>4 DEF Engaged, Works, Announces
  <2>3. task.action = "upgrade" => Works_(Next_(task))
    <3>1. task.action = "upgrade" => Then(task.step) = "downloading" /\ task.st.highest # 0
      BY <1>3, <2>1 DEF Then, Reaches
    <3> QED BY <1>8, <2>1, <3>1 DEF Chosen
  <2>4. task.action # "upgrade" => Works_(Next_([task EXCEPT !.st.candidate = task.st.previous]))
    <3>1. task.action # "upgrade" => Real(task.st.previous, binaries)
      BY <1>3, <1>6, <2>1 DEF Reaches
    <3> QED BY <1>9, <2>1, <3>1
  <2>5. \/ task' \in {Fail(task), returned}
        \/ task.action = "upgrade" /\ task' = Next_(task)
        \/ /\ task.action # "upgrade"
           /\ task' = Next_([task EXCEPT !.st.candidate = task.st.previous])
    BY <1>10 DEF Prepare
  <2> HIDE DEF returned
  <2> QED BY <1>4, <2>2, <2>3, <2>4, <2>5
<1>11. ASSUME Verify PROVE Works_(task')
  <2> DEFINE b == [version |-> task.st.highest, op |-> task.st.operation]
  <2>1. task.step = "verifying" BY <1>11 DEF Verify, At
  <2>2. Real(b, binaries)
    <3>1. task.st.highest # 0 /\ task.st.operation \in binaries BY <1>3, <2>1 DEF Reaches
    <3>2. task.st.highest \in Releases \cup {0} BY TypedTask DEF VInv
    <3> QED BY <3>1, <3>2 DEF Real
  <2>3. task' \in {Fail(task), Next_([task EXCEPT !.st.candidate = b])} BY <1>11 DEF Verify
  <2> HIDE DEF b
  <2> QED BY <1>4, <1>9, <2>1, <2>2, <2>3
<1>12. ASSUME Inspect PROVE Works_(task')
  <2>1. /\ task.step \in {"inspecting", "preparing_backup", "stopped"}
        /\ task' = Next_(task)
    BY <1>12 DEF Inspect, At
  <2>2. Real(task.st.candidate, binaries) BY <1>3, <2>1 DEF Reaches, Chosen
  <2>3. Then(task.step) # "downloading" BY <2>1 DEF Then
  <2> QED BY <1>8, <2>1, <2>2, <2>3
<1>13. ASSUME \E step \in Fallible : StepFails(step) PROVE Works_(task')
  BY <1>4, <1>13 DEF StepFails
<1>14. Works_(task') BY <1>10, <1>11, <1>12, <1>13
<1> QED BY <1>1, <1>2, <1>3, <1>14, WorkFits

-----------------------------------------------------------------------------

(* What fits still fits when the store grows.                               *)
LEMMA GrownFits ==
    ASSUME NEW st, NEW bin, NEW bin2, bin \subseteq bin2, NEW bk, NEW bk2,
           DOMAIN bk \subseteq DOMAIN bk2, \A o \in DOMAIN bk : bk2[o] = bk[o],
           0 \notin DOMAIN bk2, NEW d, NEW c, Fit(st, bin, bk, d, c)
    PROVE  Fit(st, bin2, bk2, d, c)
<1>1. Stored(st, bin2, bk2) BY DEF Fit, Stored, Real
<1>2. BackedUp(st, bk, c) => BackedUp(st, bk2, c)
  BY DEF BackedUp, Fit, Stored
<1>3. Sound(st, d, bk2, c) BY <1>2 DEF Fit, Sound
<1> QED BY <1>1, <1>3 DEF Fit

(* The release is downloaded.                                               *)
LEMMA DownloadFits ==
    ASSUME IInv, IInv', DInv, VInv, UNCHANGED setup, Download PROVE VInv'
<1>1. TypeOK' BY StoringTyped
<1>2. /\ UNCHANGED <<disk, launcher, owner, data, backups>>
      /\ binaries' = binaries \cup {task.st.operation} /\ task' = Next_(task)
  BY DEF Download, StepFrame
<1>3. /\ launcher \in Serving /\ task.step = "downloading" /\ task.phase = "work" /\ TaskOK(task)
      /\ Fit(task.st, binaries, backups, data, Compat)
      /\ Fit(disk, binaries, backups, data, Compat) /\ Holds(owner, disk, data, Compat)
      /\ Reaches(task, binaries)
      /\ (owner.kind = "server" /\ owner.active => owner.binary = task.st.current)
  BY AtFits DEF Download, Works, Announces
<1>4. 0 \notin DOMAIN backups BY DEF DInv, Numbered
<1>5. /\ Fit(disk, binaries', backups, data, Compat)
      /\ Fit(task.st, binaries', backups, data, Compat)
  BY <1>2, <1>3, <1>4, GrownFits
<1>6. /\ Next_(task).step = "verifying"
  BY <1>3 DEF Next_, Go, Then, TaskOK, TaskFields
<1>7. /\ Real(task.st.recoveryVersion, binaries')
      /\ (task.before = NoBinary \/ Real(task.before, binaries'))
      /\ task.st.current = task.st.recoveryVersion /\ task.changed = task.st.dataChanged
      /\ task.st.dataChanged <=> Migrated(task)
      /\ task.st.highest # 0 /\ task.st.operation \in binaries'
  BY <1>2, <1>3 DEF Reaches, Real, Before, Resuming
<1>8. /\ Engaged(Next_(task), owner, disk, binaries', backups, data, Compat)
      /\ Next_(task).step \notin {"none", "prune"}
  BY <1>3, <1>5, <1>6, <1>7, NextEngaged DEF Before, Chosen
<1> QED BY <1>1, <1>2, <1>3, <1>5, <1>8, WorkFits

(* The present data, which the old version reads, are saved.                *)
LEMMA BackUpFits ==
    ASSUME IInv, IInv', DInv, VInv, UNCHANGED setup, BackUp PROVE VInv'
<1> DEFINE op == task.st.operation
           u == [task EXCEPT !.st.backup = op]
<1>1. TypeOK' BY StoringTyped
<1>2. /\ UNCHANGED <<disk, launcher, owner, data, binaries>>
      /\ backups' = [o \in DOMAIN backups \cup {op} |->
                        IF o = op THEN [g \in task.st.policy |-> data[g]] ELSE backups[o]]
      /\ task' = [Next_(task) EXCEPT !.st.backup = op]
  BY DEF BackUp, StepFrame
<1>3. /\ launcher \in Serving /\ task.step = "backing_up" /\ task.phase = "work" /\ TaskOK(task)
      /\ Fit(task.st, binaries, backups, data, Compat)
      /\ Fit(disk, binaries, backups, data, Compat) /\ Holds(owner, disk, data, Compat)
      /\ Reaches(task, binaries)
      /\ (owner.kind = "server" /\ owner.active => owner.binary = task.st.current)
  BY AtFits DEF BackUp, Works, Announces
<1>4. 0 \notin DOMAIN backups /\ op # 0 /\ op \notin DOMAIN backups
  BY <1>3 DEF DInv, Numbered, Before
<1>5. /\ DOMAIN backups \subseteq DOMAIN backups' /\ \A o \in DOMAIN backups : backups'[o] = backups[o]
      /\ 0 \notin DOMAIN backups' /\ op \in DOMAIN backups'
      /\ backups'[op] = [g \in task.st.policy |-> data[g]]
  BY <1>2, <1>4
<1>6. /\ Fit(disk, binaries, backups', data, Compat)
      /\ Fit(task.st, binaries, backups', data, Compat)
  BY <1>3, <1>5, GrownFits
<1>7. /\ Real(task.st.recoveryVersion, binaries) /\ Real(task.st.candidate, binaries)
      /\ (task.before = NoBinary \/ Real(task.before, binaries))
      /\ task.st.current = task.st.recoveryVersion /\ task.changed = task.st.dataChanged
      /\ ~task.st.dataChanged /\ ~Migrated(task)
  BY <1>3 DEF Reaches, Before, Resuming, Migrated, Chosen
<1>8. /\ TaskOK(u) /\ u.step = task.step /\ u.phase = task.phase /\ u.before = task.before
      /\ u.changed = task.changed /\ u.st = [task.st EXCEPT !.backup = op]
      /\ u.st.backup = op /\ u.st.current = task.st.current /\ u.st.previous = task.st.previous
      /\ u.st.candidate = task.st.candidate /\ u.st.policy = task.st.policy
      /\ u.st.recoveryVersion = task.st.recoveryVersion
      /\ u.st.dataChanged = task.st.dataChanged /\ u.st.writesOpened = task.st.writesOpened
  BY <1>3 DEF TaskOK, TaskFields, JournalFields
<1>9. task' = Next_(u)
  <2>1. Then("backing_up") = "installing" BY DEF Then
  <2>2. Then(task.step) = "installing" /\ Then(u.step) = "installing"
    BY <1>3, <1>8, <2>1 DEF Then
  <2> QED BY <1>2, <1>3, <2>2 DEF Next_, Go, TaskOK, TaskFields, JournalFields
<1>10. Next_(u).step = "installing"
  <2>1. Then(u.step) = "installing" BY <1>3, <1>8 DEF Then
  <2> HIDE DEF u
  <2> QED BY <1>8, <2>1 DEF Next_, Go, TaskOK, TaskFields
<1> HIDE DEF u, op
<1>11. Fit(u.st, binaries, backups', data, Compat)
  <2>1. Stored(u.st, binaries, backups') BY <1>5, <1>6, <1>8 DEF Fit, Stored
  <2>2. Sound(u.st, data, backups', Compat) BY <1>6, <1>7, <1>8 DEF Fit, Sound, Changed
  <2> QED BY <2>1, <2>2 DEF Fit
<1>12. BackedUp(u.st, backups', Compat)
  <2>1. Reads(task.st.recoveryVersion.version, data, Compat)
    BY <1>3, <1>7 DEF Fit, Sound, Changed
  <2>2. task.st.policy \subseteq Groups BY TypedTask DEF VInv
  <2> QED BY <1>4, <1>5, <1>8, <2>1, <2>2 DEF BackedUp, Reads
<1>13. /\ Engaged(Next_(u), owner, disk, binaries, backups', data, Compat)
       /\ Next_(u).step \notin {"none", "prune"}
  <2>1. u.step \in Before \cup Trying /\ (u.st.dataChanged <=> Migrated(u))
    BY <1>3, <1>7, <1>8 DEF Before, Migrated
  <2> QED BY <1>3, <1>7, <1>8, <1>10, <1>11, <1>12, <2>1, NextEngaged
<1> QED BY <1>1, <1>2, <1>3, <1>6, <1>9, <1>13, WorkFits

(* The server stops.                                                        *)
LEMMA StopServerFits ==
    ASSUME IInv, IInv', DInv, VInv, UNCHANGED setup, StopServer PROVE VInv'
<1>1. TypeOK' BY TryingTyped DEF VInv
<1>2. UNCHANGED <<disk, launcher, data, binaries, backups>>
  BY DEF StopServer, StepFrame, store
<1>3. /\ launcher \in Serving /\ task.step = "stopping" /\ task.phase = "work" /\ TaskOK(task)
      /\ Fit(task.st, binaries, backups, data, Compat)
      /\ Fit(disk, binaries, backups, data, Compat) /\ Holds(owner, disk, data, Compat)
      /\ Reaches(task, binaries)
      /\ (owner.kind = "server" /\ owner.active => owner.binary = task.st.current)
  BY AtFits DEF StopServer, Works, Announces
<1>4. CASE task' = Fail(task) /\ UNCHANGED owner
  <2>1. /\ Engaged(Fail(task), owner, disk, binaries, backups, data, Compat)
        /\ Fail(task).step \notin {"none", "prune"}
    BY <1>3, FailFits DEF Works, Announces, Resuming
  <2> QED BY <1>1, <1>2, <1>3, <1>4, <2>1, WorkFits
<1>5. CASE task' = [Next_(task) EXCEPT !.stopped = TRUE] /\ owner' = NoOwner
  <2> DEFINE x == Next_(task)
  <2>1. x.step = "stopped" /\ TaskOK(x)
    BY <1>3 DEF Next_, Go, Then, TaskOK, TaskFields
  <2>2. /\ Real(task.st.recoveryVersion, binaries) /\ Real(task.st.candidate, binaries)
        /\ (task.before = NoBinary \/ Real(task.before, binaries))
        /\ task.st.current = task.st.recoveryVersion /\ task.changed = task.st.dataChanged
        /\ task.st.dataChanged <=> Migrated(task)
    BY <1>3 DEF Reaches, Before, Resuming, Chosen
  <2>3. NoOwner.kind = "none" BY DEF NoOwner
  <2>4. Engaged(x, NoOwner, disk, binaries, backups, data, Compat)
    BY <1>3, <2>1, <2>2, <2>3, NextEngaged DEF Before
  <2> HIDE DEF x
  <2>5. /\ task'.step = x.step /\ task'.phase = x.phase /\ task'.st = x.st
        /\ task'.before = x.before /\ task'.changed = x.changed /\ task'.action = x.action
    <3>1. task' = [x EXCEPT !.stopped = TRUE] BY <1>5 DEF x
    <3> QED BY <2>1, <3>1 DEF TaskOK, TaskFields
  <2>6. Engaged(task', NoOwner, disk, binaries, backups, data, Compat)
    <3>1. Reaches(x, binaries) => Reaches(task', binaries) BY <2>5 DEF Reaches, Migrated
    <3>2. Trusted(x, disk, data, backups, Compat) => Trusted(task', disk, data, backups, Compat)
      BY <2>5 DEF Trusted
    <3> QED BY <2>3, <2>4, <2>5, <3>1, <3>2 DEF Engaged
  <2>7. Holds(owner', disk, data, Compat) BY <1>5, <2>3 DEF Holds
  <2> QED BY <1>1, <1>2, <1>3, <1>5, <2>1, <2>5, <2>6, <2>7, WorkFits
<1> QED BY <1>4, <1>5 DEF StopServer

-----------------------------------------------------------------------------

(* The candidate migrates the data, and is tried.                           *)
LEMMA TryingFits ==
    ASSUME IInv, IInv', DInv, VInv, UNCHANGED setup,
           StartMigration \/ FinishMigration \/ MigrationFails \/ StartCandidate \/ CheckCandidate
    PROVE  VInv'
<1> DEFINE Works_(x, own) == /\ Engaged(x, own, disk, binaries, backups, data, Compat)
                             /\ x.step \notin {"none", "prune"}
<1>1. TypeOK' BY TryingTyped DEF VInv
<1>2. UNCHANGED <<disk, launcher, data, binaries, backups>>
  BY DEF StartMigration, FinishMigration, MigrationFails, StartCandidate, CheckCandidate, Quiet,
         StepFrame, store
<1>3. /\ launcher \in Serving /\ task.step \in Trying /\ task.phase = "work" /\ TaskOK(task)
      /\ Engaged(task, owner, disk, binaries, backups, data, Compat)
      /\ Fit(task.st, binaries, backups, data, Compat)
      /\ Fit(disk, binaries, backups, data, Compat) /\ Holds(owner, disk, data, Compat)
      /\ Reaches(task, binaries) /\ Trusted(task, disk, data, backups, Compat)
      /\ (owner.kind = "server" => Selected(task, owner))
      /\ (owner.kind = "server" /\ owner.active => owner.binary = task.st.current)
      /\ Careful(task) /\ task.step \in Works \ Resuming /\ task.step \notin {"none", "prune"}
  <2>1. /\ \E step \in Works : At(step, "work")
        /\ task.step \in Trying
    BY DEF StartMigration, FinishMigration, MigrationFails, StartCandidate, CheckCandidate, At,
           Trying, Works, Announces
  <2> QED BY <2>1, AtFits DEF Trying, Works, Announces, Resuming
<1>4. NoOwner.kind = "none" /\ \A b : /\ Serve(b, FALSE).kind = "server" /\ ~Serve(b, FALSE).active
                                      /\ Serve(b, FALSE).binary = b
  BY DEF NoOwner, Serve
<1>5. /\ Real(task.st.recoveryVersion, binaries) /\ Real(task.st.candidate, binaries)
      /\ (task.before = NoBinary \/ Real(task.before, binaries))
      /\ task.st.current = task.st.recoveryVersion /\ task.changed = task.st.dataChanged
      /\ task.st.dataChanged /\ Migrated(task)
  BY <1>3 DEF Reaches, Trying, Resuming, Chosen, Migrated
<1>6. Works_(Fail(task), owner) /\ Works_(Fail(task), NoOwner)
  BY <1>3, <1>4, FailFits
<1>7. Next_(task).step = Then(task.step)
  BY <1>3 DEF Next_, Go, TaskOK, TaskFields
<1>8. Holds(NoOwner, disk, data, Compat) BY <1>4 DEF Holds
<1> HIDE DEF Works_
<1>9. /\ Works_(task', owner') /\ Holds(owner', disk, data, Compat)
  <2>1. CASE StartMigration
    <3> DEFINE own == [NoOwner EXCEPT !.kind = "migrate", !.binary = task.st.candidate]
    <3>1. task.step = "installing" /\ task' = task /\ owner' = own BY <2>1 DEF StartMigration, At
    <3>2. own.kind = "migrate" /\ own.binary = task.st.candidate BY DEF NoOwner
    <3>3. disk = task.st /\ ~task.st.writesOpened
      BY <1>3, <3>1 DEF Trusted, Careful, Trying
    <3>4. task.st.candidate # NoBinary
      BY <1>5, SupervisorAssumption DEF Real, NoBinary
    <3> HIDE DEF own
    <3> QED BY <1>3, <1>5, <3>1, <3>2, <3>3, <3>4 DEF Works_, Engaged, Holds, Changed
  <2>2. CASE FinishMigration
    <3>1. task.step = "installing" /\ task' \in {Next_(task), Fail(task)} /\ owner' = NoOwner
      BY <2>2 DEF FinishMigration, At
    <3>2. Next_(task).step = "restarting" BY <1>7, <3>1 DEF Then
    <3>3. Works_(Next_(task), NoOwner)
      BY <1>3, <1>4, <1>5, <3>2, NextEngaged DEF Works_
    <3> QED BY <1>6, <1>8, <3>1, <3>3
  <2>3. CASE MigrationFails
    BY <1>6, <1>8, <2>3 DEF MigrationFails
  <2>4. CASE StartCandidate
    <3> DEFINE own == Serve(task.st.candidate, FALSE)
    <3>1. task.step = "restarting" /\ task' = Next_(task) /\ owner' = own
      BY <2>4 DEF StartCandidate, At
    <3>2. Next_(task).step = "checking" BY <1>7, <3>1 DEF Then
    <3>3. own.kind = "server" /\ ~own.active /\ own.binary = task.st.candidate BY <1>4
    <3> HIDE DEF own
    <3>4. Works_(Next_(task), own)
      BY <1>3, <1>5, <3>2, <3>3, NextEngaged DEF Works_
    <3>5. Holds(own, disk, data, Compat) BY <3>3 DEF Holds
    <3> QED BY <3>1, <3>4, <3>5
  <2>5. CASE CheckCandidate
    <3>1. /\ task.step = "checking" /\ owner' = owner
          /\ \/ task' = Fail(task)
             \/ Alive /\ Healthy(owner.binary.version) /\ task' = Next_(task)
      BY <2>5 DEF CheckCandidate, At, Quiet
    <3>2. Next_(task).step = "activating" BY <1>7, <3>1 DEF Then
    <3>3. ASSUME Alive, Healthy(owner.binary.version) PROVE Works_(Next_(task), owner)
      <4>1. owner.kind = "server" /\ owner.binary = task.st.candidate
        BY <1>3, <3>1, <3>3 DEF Alive, Selected
      <4>2. Reads(task.st.candidate.version, data, Compat)
        BY <3>3, <4>1 DEF Healthy, Readable, Reads, InRange
      <4> QED BY <1>3, <1>5, <3>2, <4>1, <4>2, NextEngaged DEF Works_
    <3> QED BY <1>3, <1>6, <3>1, <3>3
  <2> QED BY <2>1, <2>2, <2>3, <2>4, <2>5
<1>10. /\ Engaged(task', owner', disk, binaries, backups, data, Compat)
       /\ task'.step \notin {"none", "prune"}
  BY <1>9 DEF Works_
<1> QED BY <1>1, <1>2, <1>3, <1>9, <1>10, WorkFits

-----------------------------------------------------------------------------

(* An operation that returns a journal which fits.                          *)
LEMMA ReturnEngaged ==
    ASSUME NEW t, TaskOK(t), NEW st, DOMAIN st = JournalFields,
           NEW own, NEW entry, NEW bin, NEW bk, NEW d, NEW c,
           Fit(st, bin, bk, d, c), own.kind = "server" /\ own.active => own.binary = st.current
    PROVE  /\ Engaged(Return(t, st), own, entry, bin, bk, d, c)
           /\ Return(t, st).step \notin {"none", "prune"}
<1> DEFINE x == Return(t, st)
<1>1. x.step \in {"reopen", "settle"} /\ Kin(st, x.st)
  BY DEF Return, Go, TaskOK, TaskFields, JournalFields, Kin
<1> HIDE DEF x
<1>2. Fit(x.st, bin, bk, d, c) BY <1>1, FitKin
<1>3. own.kind = "server" => Selected(x, own) BY <1>1 DEF Selected, Kin
<1> QED BY <1>1, <1>2, <1>3 DEF Engaged, Works, Announces, x

(* So does one that has gone back.                                          *)
LEMMA RolledBackEngaged ==
    ASSUME NEW t, TaskOK(t), NEW own, NEW entry, NEW bin, NEW bk, NEW d, NEW c,
           Fit(t.st, bin, bk, d, c), own.kind = "server" /\ own.active => own.binary = t.st.current
    PROVE  /\ Engaged(RolledBack(t), own, entry, bin, bk, d, c)
           /\ RolledBack(t).step \notin {"none", "prune"}
<1> DEFINE st == [t.st EXCEPT !.stage = "rolled_back"]
<1>1. DOMAIN st = JournalFields /\ Kin(t.st, st) BY DEF TaskOK, JournalFields, Kin
<1>2. RolledBack(t) = Return(t, st) BY DEF RolledBack
<1> HIDE DEF st
<1>3. Fit(st, bin, bk, d, c) BY <1>1, FitKin
<1>4. own.kind = "server" /\ own.active => own.binary = st.current BY <1>1 DEF Kin
<1> QED BY <1>1, <1>2, <1>3, <1>4, ReturnEngaged

(* What a child that is asked to admit writes becomes.                      *)
LEMMA CommitFits ==
    ASSUME IInv, DInv, VInv, NEW step \in Works, NEW done, NEW failed, Commit(step, done, failed),
           ~Changed(task.st), owner.kind = "server" => owner.binary = task.st.current
    PROVE  /\ UNCHANGED <<disk, launcher, data, binaries, backups>> /\ task' \in {done, failed}
           /\ (owner'.kind = "server" /\ owner'.active => owner'.binary = task.st.current)
           /\ Holds(owner', disk, data, Compat)
<1>1. owner' = owner \/ \E b : owner' = [owner EXCEPT !.active = b] BY DEF Commit
<1>2. At(step, "work") /\ UNCHANGED <<disk, launcher, data, binaries, backups>>
      /\ task' \in {done, failed}
  BY DEF Commit, StepFrame, store
<1>3. Fit(task.st, binaries, backups, data, Compat) /\ Holds(owner, disk, data, Compat)
  BY <1>2, AtFits
<1>4. Reads(task.st.current.version, data, Compat) BY <1>3 DEF Fit, Sound
<1>5. /\ owner'.kind = owner.kind /\ owner'.binary = owner.binary
  <2>1. DOMAIN owner = OwnerFields BY DEF IInv, Shape
  <2> QED BY <1>1, <2>1 DEF OwnerFields
<1> QED BY <1>2, <1>3, <1>4, <1>5 DEF Holds

(* The candidate opens, or the maintenance launcher stops.                  *)
LEMMA ActivateFits ==
    ASSUME IInv, IInv', DInv, VInv, UNCHANGED setup, Activate PROVE VInv'
<1>1. TypeOK' BY EndingTyped DEF VInv
<1>2. /\ launcher \in Serving /\ task.step = "activating" /\ task.phase = "work" /\ TaskOK(task)
      /\ Fit(task.st, binaries, backups, data, Compat)
      /\ Fit(disk, binaries, backups, data, Compat)
      /\ (owner.kind = "server" => Selected(task, owner)) /\ Careful(task)
  BY AtFits DEF Activate, Commit, Works, Announces
<1>3. task.st.writesOpened /\ (owner.kind = "server" => owner.binary = task.st.current)
  BY <1>2 DEF Careful, Opening, Selected
<1>4. /\ UNCHANGED <<disk, launcher, data, binaries, backups>> /\ task' \in {Completed, Fail(task)}
      /\ (owner'.kind = "server" /\ owner'.active => owner'.binary = task.st.current)
      /\ Holds(owner', disk, data, Compat)
  <2>1. CASE Offline
    BY <2>1 DEF Activate, StepFrame, store, NoOwner, Holds
  <2>2. CASE ~Offline
    BY <1>3, <2>2, CommitFits DEF Activate, Changed, Works, Announces
  <2> QED BY <2>1, <2>2
<1>5. /\ Engaged(Completed, owner', disk, binaries, backups, data, Compat)
      /\ Completed.step \notin {"none", "prune"}
  <2> DEFINE st == [task.st EXCEPT !.candidate = NoBinary, !.dataChanged = FALSE,
                                   !.recovery = FALSE,
                                   !.stage = IF task.action = "rollback" THEN "rolled_back"
                                             ELSE "completed"]
  <2>1. /\ DOMAIN st = JournalFields /\ st.current = task.st.current
        /\ st.previous = task.st.previous /\ st.backup = task.st.backup
        /\ ~st.dataChanged /\ st.writesOpened
    BY <1>2, <1>3 DEF TaskOK, JournalFields
  <2>2. Completed = Return(task, st) BY DEF Completed
  <2> HIDE DEF st
  <2>3. Fit(st, binaries, backups, data, Compat)
    BY <1>2, <1>3, <2>1 DEF Fit, Stored, Sound, Changed
  <2> QED BY <1>2, <1>4, <2>1, <2>2, <2>3, ReturnEngaged
<1>6. /\ Engaged(Fail(task), owner', disk, binaries, backups, data, Compat)
      /\ Fail(task).step \notin {"none", "prune"}
  BY <1>2, <1>4, FailFits DEF Works, Announces, Resuming
<1> QED BY <1>1, <1>2, <1>4, <1>5, <1>6, WorkFits

(* The old version is started, and checked.                                 *)
LEMMA OldFits ==
    ASSUME IInv, IInv', DInv, VInv, UNCHANGED setup,
           \/ StartOld("undo", "undo_health") \/ CheckOld("undo_health", "undo_commit")
           \/ StartOld("recover_start", "recover_health")
           \/ CheckOld("recover_health", "recover_commit")
    PROVE  VInv'
<1> DEFINE Works_(x, own) == /\ Engaged(x, own, disk, binaries, backups, data, Compat)
                             /\ x.step \notin {"none", "prune"}
<1>1. TypeOK'
  <2>1. GoBack BY DEF GoBack
  <2> QED BY <2>1, EndingTyped DEF VInv
<1>2. UNCHANGED <<disk, launcher, data, binaries, backups>>
  BY DEF StartOld, CheckOld, Quiet, StepFrame, store
<1>3. /\ launcher \in Serving /\ task.phase = "work" /\ TaskOK(task)
      /\ task.step \in {"undo", "undo_health", "recover_start", "recover_health"}
      /\ Fit(task.st, binaries, backups, data, Compat)
      /\ Fit(disk, binaries, backups, data, Compat) /\ Holds(owner, disk, data, Compat)
      /\ Reaches(task, binaries)
      /\ (owner.kind = "server" => Selected(task, owner))
      /\ (owner.kind = "server" /\ owner.active => owner.binary = task.st.current)
  BY AtFits DEF StartOld, CheckOld, Works, Announces, At
<1>4. NoOwner.kind = "none" /\ \A b : /\ Serve(b, FALSE).kind = "server" /\ ~Serve(b, FALSE).active
                                      /\ Serve(b, FALSE).binary = b
  BY DEF NoOwner, Serve
<1>5. Works_(GiveUp(task), owner) /\ Works_(GiveUp(task), NoOwner) BY <1>3, <1>4, GiveUpEngaged
<1>6. Holds(NoOwner, disk, data, Compat) BY <1>4 DEF Holds
<1>7. \A step, phase : LET x == Go(task, step, phase) IN
          /\ x.step = step /\ x.phase = phase /\ x.st = task.st /\ x.before = task.before
          /\ x.changed = task.changed /\ x.action = task.action
  BY <1>3 DEF Go, TaskOK, TaskFields
<1>8. ASSUME NEW x, x.st = task.st, x.before = task.before, x.changed = task.changed,
             x.step \in {"undo_health", "undo_commit"}, task.step \in {"undo", "undo_health"}
      PROVE  Reaches(x, binaries)
  BY <1>3, <1>8 DEF Reaches, Before, Trying, Resuming, Chosen, Migrated
<1>9. ASSUME NEW x, x.st = task.st, x.before = task.before, x.changed = task.changed,
             x.step \in {"recover_health", "recover_commit"},
             task.step \in {"recover_start", "recover_health"}
      PROVE  Reaches(x, binaries) /\ x.st.current = x.st.recoveryVersion
  BY <1>3, <1>9 DEF Reaches, Before, Trying, Resuming, Chosen, Migrated
<1>10. ASSUME NEW from, NEW to, StartOld(from, to),
              <<from, to>> \in {<<"undo", "undo_health">>, <<"recover_start", "recover_health">>}
       PROVE  Works_(task', owner') /\ Holds(owner', disk, data, Compat)
  <2> DEFINE own == Serve(task.st.recoveryVersion, FALSE)
             x == Go(task, to, "work")
  <2>1. /\ task.step = from
        /\ \/ owner' = own /\ task' = x
           \/ owner' = NoOwner /\ task' = GiveUp(task)
    BY <1>10 DEF StartOld, At
  <2>2. own.kind = "server" /\ ~own.active /\ own.binary = task.st.recoveryVersion BY <1>4
  <2>3. /\ x.step = to /\ x.phase = "work" /\ x.st = task.st /\ x.before = task.before
        /\ x.changed = task.changed
    BY <1>7
  <2> HIDE DEF own, x
  <2>4. Works_(x, own)
    <3>1. CASE from = "undo" /\ to = "undo_health"
      <4>1. Reaches(x, binaries) BY <1>8, <2>1, <2>3, <3>1
      <4>2. Trusted(x, disk, data, backups, Compat) BY <2>3, <3>1 DEF Trusted
      <4>3. Selected(x, own) BY <2>2, <2>3, <3>1 DEF Selected
      <4> QED BY <1>3, <2>3, <3>1, <4>1, <4>2, <4>3 DEF Engaged
    <3>2. CASE from = "recover_start" /\ to = "recover_health"
      <4>1. Reaches(x, binaries) /\ x.st.current = x.st.recoveryVersion BY <1>9, <2>1, <2>3, <3>2
      <4>2. Trusted(x, disk, data, backups, Compat) BY <2>3, <3>2 DEF Trusted
      <4>3. Selected(x, own) BY <2>2, <2>3, <3>2, <4>1 DEF Selected
      <4> QED BY <1>3, <2>3, <3>2, <4>1, <4>2, <4>3 DEF Engaged
    <3> QED BY <1>10, <3>1, <3>2
  <2>5. Holds(own, disk, data, Compat) BY <2>2 DEF Holds
  <2> QED BY <1>5, <1>6, <2>1, <2>4, <2>5
<1>11. ASSUME NEW from, NEW to, CheckOld(from, to),
              <<from, to>> \in {<<"undo_health", "undo_commit">>,
                                <<"recover_health", "recover_commit">>}
       PROVE  Works_(task', owner') /\ owner' = owner
  <2> DEFINE x == Go(task, to, "emit")
  <2>1. /\ task.step = from /\ owner' = owner
        /\ \/ task' = GiveUp(task)
           \/ Alive /\ Healthy(owner.binary.version) /\ task' = x
    BY <1>11 DEF CheckOld, At, Quiet
  <2>2. /\ x.step = to /\ x.phase = "emit" /\ x.st = task.st /\ x.before = task.before
        /\ x.changed = task.changed
    BY <1>7
  <2> HIDE DEF x
  <2>3. ASSUME Alive, Healthy(owner.binary.version) PROVE Works_(x, owner)
    <3>1. owner.kind = "server" /\ Selected(task, owner)
          /\ Reads(owner.binary.version, data, Compat)
      BY <1>3, <2>3 DEF Alive, Healthy, Readable, Reads, InRange
    <3>2. CASE from = "undo_health" /\ to = "undo_commit"
      <4>1. Reaches(x, binaries) BY <1>8, <2>1, <2>2, <3>2
      <4>2. ~owner.active /\ owner.binary = task.st.recoveryVersion
        BY <2>1, <3>1, <3>2 DEF Selected
      <4>3. Trusted(x, disk, data, backups, Compat) BY <2>2, <3>1, <3>2, <4>2 DEF Trusted
      <4>4. Selected(x, owner) BY <2>2, <3>2, <4>2 DEF Selected
      <4> QED BY <1>3, <2>2, <3>2, <4>1, <4>3, <4>4 DEF Engaged
    <3>3. CASE from = "recover_health" /\ to = "recover_commit"
      <4>1. Reaches(x, binaries) BY <1>9, <2>1, <2>2, <3>3
      <4>2. owner.binary = task.st.current BY <2>1, <3>1, <3>3 DEF Selected
      <4>3. Trusted(x, disk, data, backups, Compat) BY <2>2, <3>3 DEF Trusted
      <4>4. Selected(x, owner) BY <2>2, <3>3, <4>2 DEF Selected
      <4> QED BY <1>3, <2>2, <3>3, <4>1, <4>3, <4>4 DEF Engaged
    <3> QED BY <1>11, <3>2, <3>3
  <2> QED BY <1>5, <2>1, <2>3
<1>12. Works_(task', owner') /\ Holds(owner', disk, data, Compat)
  <2>1. CASE StartOld("undo", "undo_health") \/ StartOld("recover_start", "recover_health")
    BY <1>10, <2>1
  <2>2. CASE CheckOld("undo_health", "undo_commit") \/ CheckOld("recover_health", "recover_commit")
    BY <1>3, <1>11, <2>2
  <2> QED BY <2>1, <2>2
<1> QED BY <1>1, <1>2, <1>3, <1>12, WorkFits

(* The old version opens.                                                   *)
LEMMA ReturnedFits ==
    ASSUME IInv, IInv', DInv, VInv, UNCHANGED setup,
           \/ Commit("undo_commit", RolledBack(task), GiveUp(task))
           \/ Commit("recover_commit", RolledBack(task), GiveUp(task))
    PROVE  VInv'
<1>1. TypeOK'
  <2>1. GoBack BY DEF GoBack
  <2> QED BY <2>1, EndingTyped DEF VInv
<1>2. /\ launcher \in Serving /\ task.step \in {"undo_commit", "recover_commit"}
      /\ task.phase = "work" /\ TaskOK(task)
      /\ Fit(task.st, binaries, backups, data, Compat)
      /\ Fit(disk, binaries, backups, data, Compat)
      /\ (owner.kind = "server" => Selected(task, owner)) /\ Careful(task)
  BY AtFits DEF Commit, Works, Announces
<1>3. task.st.writesOpened /\ (owner.kind = "server" => owner.binary = task.st.current)
  BY <1>2 DEF Careful, Opening, Selected
<1>4. /\ UNCHANGED <<disk, launcher, data, binaries, backups>>
      /\ task' \in {RolledBack(task), GiveUp(task)}
      /\ (owner'.kind = "server" /\ owner'.active => owner'.binary = task.st.current)
      /\ Holds(owner', disk, data, Compat)
  BY <1>3, CommitFits DEF Changed, Works, Announces
<1>5. /\ Engaged(task', owner', disk, binaries, backups, data, Compat)
      /\ task'.step \notin {"none", "prune"}
  BY <1>2, <1>4, RolledBackEngaged, GiveUpEngaged
<1> QED BY <1>1, <1>2, <1>4, <1>5, WorkFits

-----------------------------------------------------------------------------

(* Once everything that was saved is back, the old version reads the data:  *)
(* by its contract, what was not saved and the candidate migrated.          *)
LEMMA RecoveredFits ==
    ASSUME NEW st, DOMAIN st = JournalFields, ~st.writesOpened, 0 \notin DOMAIN backups,
           st.policy \subseteq Groups,
           Fit(st, binaries, backups, data, Compat), Outstanding(st) = {}, Recoverable(st)
    PROVE  Fit(Recovered(st), binaries, backups, data, Compat)
<1> DEFINE r == Recovered(st)
           old == st.recoveryVersion
<1>1. /\ r.current = old /\ r.recoveryVersion = old /\ r.previous = st.previous
      /\ r.backup = st.backup /\ ~r.dataChanged /\ ~r.writesOpened
  BY DEF Recovered, JournalFields
<1>2. Stored(r, binaries, backups)
  BY <1>1 DEF Fit, Stored, Sound, Changed
<1>3. Reads(old.version, data, Compat)
  <2>1. CASE ~st.dataChanged BY <2>1 DEF Fit, Sound, Changed
  <2>2. CASE st.dataChanged
    <3>1. /\ BackedUp(st, backups, Compat) /\ (st.backup = 0 \/ st.backup \in DOMAIN backups)
          /\ \A g \in Groups : \/ InRange(old.version, data[g], Compat)
                               \/ data[g] = Compat[st.candidate.version].generation
      BY <2>2 DEF Fit, Stored, Sound, Changed
    <3>2. ASSUME NEW g \in Groups, g \in st.policy PROVE InRange(old.version, data[g], Compat)
      <4>1. /\ st.backup \in DOMAIN backups /\ g \in DOMAIN backups[st.backup]
            /\ InRange(old.version, backups[st.backup][g], Compat)
        BY <3>1, <3>2 DEF BackedUp
      <4>2. data[g] = backups[st.backup][g] BY <2>2, <4>1 DEF Outstanding, Saved
      <4> QED BY <4>1, <4>2
    <3>3. ASSUME NEW g \in Groups, g \notin st.policy PROVE InRange(old.version, data[g], Compat)
      <4>1. CanRollback(old, st.candidate) BY <2>2, <3>3 DEF Recoverable
      <4>2. InRange(old.version, Compat[st.candidate.version].generation, Compat)
        BY <4>1 DEF CanRollback, InRange
      <4> QED BY <3>1, <4>2
    <3> QED BY <3>2, <3>3 DEF Reads
  <2> QED BY <2>1, <2>2
<1>4. Sound(r, data, backups, Compat) BY <1>1, <1>3 DEF Sound, Changed
<1> QED BY <1>2, <1>4 DEF Fit

(* The operation turns to the recovery, and ends it.                        *)
LEMMA RecoveryFits ==
    ASSUME IInv, IInv', DInv, VInv, UNCHANGED setup, BeginRecovery \/ FinishRecovery PROVE VInv'
<1> DEFINE Works_(x, own) == /\ Engaged(x, own, disk, binaries, backups, data, Compat)
                             /\ x.step \notin {"none", "prune"}
<1>1. TypeOK'
  <2>1. GoBack BY DEF GoBack
  <2> QED BY <2>1, EndingTyped DEF VInv
<1>2. UNCHANGED <<disk, launcher, data, binaries, backups>>
  BY DEF BeginRecovery, FinishRecovery, Quiet, StepFrame, store
<1>3. /\ launcher \in Serving /\ task.step \in {"recover", "restore"} /\ task.phase = "work"
      /\ TaskOK(task) /\ Fit(task.st, binaries, backups, data, Compat)
      /\ Fit(disk, binaries, backups, data, Compat) /\ Holds(owner, disk, data, Compat)
      /\ Reaches(task, binaries) /\ Trusted(task, disk, data, backups, Compat)
      /\ (owner.kind = "server" /\ owner.active => owner.binary = task.st.current)
      /\ ~task.st.writesOpened /\ ~Open
  <2>1. \E step \in {"recover", "restore"} : At(step, "work")
    BY DEF BeginRecovery, FinishRecovery
  <2>2. /\ launcher \in Serving /\ task.step \in {"recover", "restore"} /\ task.phase = "work"
        /\ TaskOK(task) /\ Fit(task.st, binaries, backups, data, Compat)
        /\ Fit(disk, binaries, backups, data, Compat) /\ Holds(owner, disk, data, Compat)
        /\ Reaches(task, binaries) /\ Trusted(task, disk, data, backups, Compat)
        /\ (owner.kind = "server" /\ owner.active => owner.binary = task.st.current)
        /\ Careful(task)
    BY <2>1, AtFits DEF Works, Announces
  <2> QED BY <2>2 DEF Careful, Prudent, Restoring
<1>4. /\ Real(task.st.recoveryVersion, binaries)
      /\ (task.before = NoBinary \/ Real(task.before, binaries))
      /\ task.changed = task.st.dataChanged
  BY <1>3 DEF Reaches, Resuming
<1>5. CASE BeginRecovery
  <2> DEFINE x == [Go(task, "restore", "work") EXCEPT !.st.recovery = TRUE,
                                                      !.st.dataChanged = task.changed]
  <2>1. task.step = "recover" /\ disk = task.st /\ owner' = NoOwner /\ task' = x
    BY <1>3, <1>5 DEF BeginRecovery, At, Trusted
  <2>2. /\ x.step = "restore" /\ x.phase = "work" /\ x.before = task.before
        /\ x.changed = task.changed
        /\ x.st = [task.st EXCEPT !.recovery = TRUE, !.dataChanged = task.changed]
    BY <1>3 DEF Go, TaskOK, TaskFields
  <2>3. Kin(task.st, x.st)
    <3>1. \A st, b : DOMAIN st = JournalFields /\ b = st.dataChanged =>
              Kin(st, [st EXCEPT !.recovery = TRUE, !.dataChanged = b])
      BY DEF Kin, JournalFields
    <3>2. Kin(task.st, [task.st EXCEPT !.recovery = TRUE, !.dataChanged = task.changed])
      BY <1>3, <1>4, <3>1 DEF TaskOK
    <3> HIDE DEF x
    <3> QED BY <2>2, <3>2
  <2> HIDE DEF x
  <2>4. Fit(x.st, binaries, backups, data, Compat) BY <1>3, <2>3, FitKin
  <2>5. Reaches(x, binaries)
    BY <1>4, <2>2, <2>3 DEF Reaches, Kin, Before, Trying, Resuming, Chosen
  <2>6. Trusted(x, disk, data, backups, Compat)
    BY <1>3, <2>1, <2>2, <2>3 DEF Trusted, Kin, Changed
  <2>7. NoOwner.kind = "none" BY DEF NoOwner
  <2>8. Holds(owner', disk, data, Compat) BY <2>1, <2>7 DEF Holds
  <2>9. Works_(x, owner') BY <2>1, <2>2, <2>4, <2>5, <2>6, <2>7 DEF Engaged
  <2> QED BY <1>1, <1>2, <1>3, <2>1, <2>8, <2>9, WorkFits
<1>6. CASE FinishRecovery
  <2> DEFINE t == [task EXCEPT !.st = Recovered(task.st)]
             y == Go(t, "recover_start", "work")
  <2>1. /\ owner' = owner
        /\ \/ task' = GiveUp(task)
           \/ /\ Outstanding(task.st) = {} /\ Recoverable(task.st)
              /\ task' \in {RolledBack(t), y}
    BY <1>6 DEF FinishRecovery, Quiet
  <2>2. Works_(GiveUp(task), owner) BY <1>3, GiveUpEngaged
  <2>3. ASSUME Outstanding(task.st) = {}, Recoverable(task.st)
        PROVE  Works_(RolledBack(t), owner) /\ Works_(y, owner)
    <3>1. /\ TaskOK(t) /\ t.st = Recovered(task.st) /\ t.before = task.before
          /\ t.st.current = task.st.recoveryVersion
          /\ t.st.recoveryVersion = task.st.recoveryVersion /\ ~t.st.dataChanged
      BY <1>3 DEF TaskOK, TaskFields, JournalFields, Recovered
    <3>2. Fit(t.st, binaries, backups, data, Compat)
      <4>1. 0 \notin DOMAIN backups BY DEF DInv, Numbered
      <4>2. task.st.policy \subseteq Groups /\ DOMAIN task.st = JournalFields
        BY TypedTask DEF VInv
      <4> QED BY <1>3, <2>3, <3>1, <4>1, <4>2, RecoveredFits
    <3>3. /\ y.step = "recover_start" /\ y.phase = "work" /\ y.st = t.st
          /\ y.before = t.before /\ y.changed = t.changed
      <4> HIDE DEF t
      <4> QED BY <3>1 DEF Go, TaskOK, TaskFields
    <3> HIDE DEF t, y
    <3>4. Works_(RolledBack(t), owner) BY <1>3, <3>1, <3>2, RolledBackEngaged DEF Open
    <3>5. Works_(y, owner)
      <4>1. Reaches(y, binaries)
        BY <1>4, <3>1, <3>3 DEF Reaches, Before, Trying, Resuming, Chosen, Migrated
      <4>2. Trusted(y, disk, data, backups, Compat) BY <3>3 DEF Trusted
      <4>3. owner.kind = "server" => Selected(y, owner) BY <1>3, <3>3 DEF Selected, Open
      <4> QED BY <3>2, <3>3, <4>1, <4>2, <4>3 DEF Engaged
    <3> QED BY <3>4, <3>5
  <2> HIDE DEF t, y
  <2>4. Works_(task', owner) BY <2>1, <2>2, <2>3
  <2> QED BY <1>1, <1>2, <1>3, <2>1, <2>4, WorkFits
<1> QED BY <1>5, <1>6

(* The public side is asked to open again.                                  *)
LEMMA ReopenFits ==
    ASSUME IInv, IInv', DInv, VInv, UNCHANGED setup, Reopen PROVE VInv'
<1>1. TypeOK' BY EndingTyped DEF VInv
<1>2. /\ launcher \in Serving /\ task.step = "reopen" /\ TaskOK(task)
      /\ UNCHANGED <<disk, launcher, owner, data, binaries, backups>>
  BY DEF Reopen, At, Serving, StepFrame, store, IInv, Shape, TaskOK
<1>3. /\ Engaged(task, owner, disk, binaries, backups, data, Compat)
      /\ Fit(disk, binaries, backups, data, Compat) /\ Holds(owner, disk, data, Compat)
  BY <1>2 DEF VInv
<1>4. task'.step = "settle" /\ Kin(task.st, task'.st)
  <2> DEFINE x == Go(task, "settle", "work")
  <2>1. x.step = "settle" /\ x.st = task.st /\ TaskOK(x) BY <1>2 DEF Go, TaskOK, TaskFields
  <2>2. \A st : DOMAIN st = JournalFields => Kin(st, [st EXCEPT !.recovery = TRUE, !.stage = "failed"])
    BY DEF Kin, JournalFields
  <2>3. task' \in {x, [x EXCEPT !.st.recovery = TRUE, !.st.stage = "failed"]} BY DEF Reopen
  <2> HIDE DEF x
  <2>4. \A f : [x EXCEPT !.st.recovery = TRUE, !.st.stage = "failed"] = f =>
            f.step = x.step /\ f.st = [x.st EXCEPT !.recovery = TRUE, !.stage = "failed"]
    BY <2>1 DEF TaskOK, TaskFields
  <2>5. Kin(task.st, task.st) BY DEF Kin
  <2>6. Kin(task.st, [task.st EXCEPT !.recovery = TRUE, !.stage = "failed"])
    BY <1>2, <2>2 DEF TaskOK
  <2> QED BY <2>1, <2>3, <2>4, <2>5, <2>6
<1>5. Fit(task'.st, binaries, backups, data, Compat)
  BY <1>3, <1>4, FitKin DEF Engaged
<1>6. owner.kind = "server" => Selected(task', owner)
  BY <1>3, <1>4 DEF Engaged, Selected, Kin
<1>7. Engaged(task', owner, disk, binaries, backups, data, Compat)
  BY <1>4, <1>5, <1>6 DEF Engaged, Works, Announces
<1> QED BY <1>1, <1>2, <1>3, <1>4, <1>7, WorkFits

-----------------------------------------------------------------------------
(* Journal entries on their way *)

(* An entry that can be written: the operation goes on with it.             *)
Writable ==
    /\ Fit(Announced, binaries, backups, data, Compat)
    /\ \A x : x.step = task.step /\ x.phase = "work" /\ x.st = Announced
              /\ x.before = task.before /\ x.action = task.action
              /\ x.changed = (task.changed \/ task.step = "installing")
                => Engaged(x, owner, Announced, binaries, backups, data, Compat)

(* And what the operation keeps in hand when it was not.                    *)
Revocable ==
    LET w == Withdrawn(Announced) IN
    /\ Fit(w, binaries, backups, data, Compat)
    /\ owner.kind = "server" /\ owner.active => owner.binary = w.current
    /\ task.step \notin Undoing => /\ w.recoveryVersion = task.st.recoveryVersion
                                   /\ w.dataChanged = task.st.dataChanged

(* What is known of an operation that announces a step.                     *)
LEMMA EmitFacts ==
    ASSUME IInv, DInv, VInv, Emit
    PROVE  /\ task.step \in Announces \cap Works /\ task.phase = "emit" /\ launcher \in Serving
           /\ TaskOK(task) /\ DOMAIN task.st = JournalFields
           /\ Fit(task.st, binaries, backups, data, Compat)
           /\ Fit(disk, binaries, backups, data, Compat)
           /\ Holds(owner, disk, data, Compat) /\ owner.kind # "migrate"
           /\ Reaches(task, binaries) /\ Trusted(task, disk, data, backups, Compat)
           /\ (owner.kind = "server" => Selected(task, owner))
           /\ (owner.kind = "server" /\ owner.active => owner.binary = task.st.current)
           /\ Careful(task) /\ task.changed \in BOOLEAN
<1>1. task.step \in Announces \cap Works /\ task.phase = "emit" /\ launcher \in Serving
  BY DEF Emit, IInv, Phases, Serving, Works
<1>2. At(task.step, "emit") BY <1>1 DEF At, Serving
<1>3. task.changed \in BOOLEAN BY DEF VInv, TypeOK
<1> QED BY <1>1, <1>2, <1>3, AtFits DEF TaskOK

(* The stages that only tell what is going on.                              *)
LEMMA PlainEntry ==
    ASSUME IInv, DInv, VInv, Emit,
           task.step \notin {"installing", "activating", "undo_commit", "recover_commit"}
    PROVE  Writable /\ Revocable
<1> DEFINE a == Announced
<1>1. Kin(task.st, a) /\ a.highest = task.st.highest /\ a.operation = task.st.operation
  <2>1. DOMAIN task.st = JournalFields BY EmitFacts
  <2>2. CASE task.step \in {"undo", "recover"}
    BY <2>1, <2>2 DEF Announced, JournalFields, Kin
  <2>3. CASE task.step = "stopped"
    BY <2>1, <2>3 DEF Announced, JournalFields, Kin
  <2>4. CASE task.step \notin {"undo", "recover", "stopped"}
    BY <2>1, <2>4 DEF Announced, JournalFields, Kin
  <2> QED BY <2>2, <2>3, <2>4
<1>2. Withdrawn(a) = a BY DEF Withdrawn
<1> HIDE DEF a
<1>3. Fit(a, binaries, backups, data, Compat) BY <1>1, EmitFacts, FitKin
<1>4. ASSUME NEW x, x.step = task.step, x.phase = "work", x.st = a,
             x.before = task.before, x.action = task.action,
             x.changed = (task.changed \/ task.step = "installing")
      PROVE  Engaged(x, owner, a, binaries, backups, data, Compat)
  <2>1. x.changed = task.changed BY <1>4, EmitFacts
  <2>2. Reaches(x, binaries)
    <3>1. /\ Reaches(task, binaries)
          /\ task.step \in Announces
          /\ (task.st.previous = a.previous) /\ (task.st.candidate = a.candidate)
          /\ (task.st.current = a.current) /\ (task.st.recoveryVersion = a.recoveryVersion)
          /\ (task.st.dataChanged = a.dataChanged)
      BY <1>1, EmitFacts DEF Kin
    <3> QED BY <1>1, <1>4, <2>1, <3>1 DEF Reaches, Migrated
  <2>3. Trusted(x, a, data, backups, Compat)
    <3>1. task.step # "restore" BY EmitFacts DEF Announces
    <3> QED BY <1>4, <3>1 DEF Trusted
  <2>4. owner.kind = "server" => Selected(x, owner)
    <3>1. owner.kind = "server" => Selected(task, owner) BY EmitFacts
    <3> QED BY <1>1, <1>4, <3>1, EmitFacts DEF Selected, Kin, Announces
  <2> QED BY <1>3, <1>4, <2>2, <2>3, <2>4 DEF Engaged
<1>5. Writable BY <1>3, <1>4 DEF Writable, a
<1>6. Revocable BY <1>1, <1>2, <1>3, EmitFacts DEF Revocable, Kin, a
<1> QED BY <1>5, <1>6

(* The data may change from here on.                                        *)
LEMMA InstallingEntry ==
    ASSUME IInv, DInv, VInv, Emit, task.step = "installing"
    PROVE  Writable /\ Revocable
<1> DEFINE a == Announced
           w == Withdrawn(a)
           st == task.st
<1>1. /\ a.current = st.current /\ a.previous = st.previous /\ a.candidate = st.candidate
      /\ a.recoveryVersion = st.recoveryVersion /\ a.backup = st.backup /\ a.policy = st.policy
      /\ a.dataChanged = TRUE /\ a.writesOpened = st.writesOpened /\ DOMAIN a = JournalFields
      /\ a.highest = st.highest /\ a.operation = st.operation
  BY EmitFacts DEF Announced, Installing, JournalFields
<1>2. /\ w.current = a.current /\ w.previous = a.previous /\ w.candidate = a.candidate
      /\ w.recoveryVersion = a.recoveryVersion /\ w.backup = a.backup /\ w.policy = a.policy
      /\ w.dataChanged = FALSE /\ w.writesOpened = a.writesOpened
  <2> HIDE DEF a
  <2> QED BY <1>1 DEF Withdrawn, JournalFields
<1> HIDE DEF a, w
<1>3. /\ ~st.dataChanged /\ st.current = st.recoveryVersion /\ ~st.writesOpened
      /\ st.dataChanged = FALSE
      /\ Real(st.candidate, binaries) /\ Real(st.recoveryVersion, binaries)
      /\ (task.before = NoBinary \/ Real(task.before, binaries))
      /\ BackedUp(st, backups, Compat) /\ st.dataChanged = task.changed
  <2>1. ~Migrated(task) BY EmitFacts DEF Migrated
  <2>2. st.dataChanged \in BOOLEAN BY DEF VInv, TypeOK, Journal
  <2> QED BY <2>1, <2>2, EmitFacts DEF Reaches, Careful, Trusted, Trying, Chosen, Resuming
<1>4. Fit(st, binaries, backups, data, Compat) BY EmitFacts
<1>5. Reads(st.current.version, data, Compat) BY <1>3, <1>4 DEF Fit, Sound, Changed
<1>6. BackedUp(a, backups, Compat) BY <1>1, <1>3 DEF BackedUp
<1>7. Fit(a, binaries, backups, data, Compat)
  <2>1. Stored(a, binaries, backups) BY <1>1, <1>3, <1>4 DEF Fit, Stored
  <2>2. Sound(a, data, backups, Compat)
    BY <1>1, <1>3, <1>5, <1>6 DEF Sound, Changed, Reads
  <2> QED BY <2>1, <2>2 DEF Fit
<1>8. Fit(w, binaries, backups, data, Compat)
  <2>1. Kin(st, w) BY <1>1, <1>2, <1>3 DEF Kin
  <2> QED BY <1>4, <2>1, FitKin
<1>9. ASSUME NEW x, x.step = task.step, x.phase = "work", x.st = a,
             x.before = task.before, x.action = task.action,
             x.changed = (task.changed \/ task.step = "installing")
      PROVE  Engaged(x, owner, a, binaries, backups, data, Compat)
  <2>1. Reaches(x, binaries)
    BY <1>1, <1>3, <1>9 DEF Reaches, Migrated, Resuming
  <2>2. Trusted(x, a, data, backups, Compat) BY <1>6, <1>9 DEF Trusted
  <2>3. owner.kind = "server" => Selected(x, owner) BY <1>1, <1>9, EmitFacts DEF Selected
  <2> QED BY <1>7, <1>9, <2>1, <2>2, <2>3 DEF Engaged
<1>10. Writable BY <1>7, <1>9 DEF Writable, a
<1>11. Revocable BY <1>1, <1>2, <1>3, <1>8, EmitFacts DEF Revocable, a, w
<1> QED BY <1>10, <1>11

(* The candidate is selected for good.                                      *)
LEMMA ActivatingEntry ==
    ASSUME IInv, DInv, VInv, Emit, task.step = "activating"
    PROVE  Writable /\ Revocable
<1> DEFINE a == Announced
           w == Withdrawn(a)
           st == task.st
<1>1. /\ a.current = st.candidate /\ a.previous = st.recoveryVersion
      /\ a.candidate = st.candidate
      /\ a.recoveryVersion = st.recoveryVersion /\ a.backup = st.backup /\ a.policy = st.policy
      /\ a.dataChanged = st.dataChanged /\ a.writesOpened = TRUE /\ DOMAIN a = JournalFields
  BY EmitFacts DEF Announced, Activating, JournalFields
<1>2. /\ w.current = a.current /\ w.previous = a.previous /\ w.candidate = a.candidate
      /\ w.recoveryVersion = a.recoveryVersion /\ w.backup = a.backup /\ w.policy = a.policy
      /\ w.dataChanged = a.dataChanged /\ w.writesOpened = FALSE
  <2> HIDE DEF a
  <2> QED BY <1>1 DEF Withdrawn, JournalFields
<1> HIDE DEF a, w
<1>3. /\ st.dataChanged /\ ~st.writesOpened /\ ~Open
      /\ Real(st.candidate, binaries) /\ Real(st.recoveryVersion, binaries)
      /\ (task.before = NoBinary \/ Real(task.before, binaries))
      /\ Reads(st.candidate.version, data, Compat) /\ st.dataChanged = task.changed
      /\ (owner.kind = "server" => owner.binary = st.candidate)
  <2>1. Migrated(task) BY DEF Migrated
  <2> QED BY <2>1, EmitFacts DEF Reaches, Careful, Prudent, Trusted, Chosen, Resuming, Selected
<1>4. Fit(st, binaries, backups, data, Compat) BY EmitFacts
<1>5. Fit(a, binaries, backups, data, Compat)
  <2>1. Stored(a, binaries, backups) BY <1>1, <1>3, <1>4 DEF Fit, Stored
  <2>2. Sound(a, data, backups, Compat) BY <1>1, <1>3 DEF Sound, Changed
  <2> QED BY <2>1, <2>2 DEF Fit
<1>6. Fit(w, binaries, backups, data, Compat)
  <2>1. Stored(w, binaries, backups) BY <1>1, <1>2, <1>3, <1>4 DEF Fit, Stored
  <2>2. Sound(w, data, backups, Compat)
    BY <1>1, <1>2, <1>3, <1>4 DEF Fit, Sound, Changed, BackedUp
  <2> QED BY <2>1, <2>2 DEF Fit
<1>7. ASSUME NEW x, x.step = task.step, x.phase = "work", x.st = a,
             x.before = task.before, x.action = task.action,
             x.changed = (task.changed \/ task.step = "installing")
      PROVE  Engaged(x, owner, a, binaries, backups, data, Compat)
  <2>1. x.changed = task.changed BY <1>7, EmitFacts
  <2>2. Reaches(x, binaries)
    BY <1>1, <1>3, <1>7, <2>1 DEF Reaches, Migrated, Resuming, Before, Trying
  <2>3. Trusted(x, a, data, backups, Compat) BY <1>7 DEF Trusted
  <2>4. owner.kind = "server" => Selected(x, owner) BY <1>1, <1>3, <1>7 DEF Selected
  <2> QED BY <1>5, <1>7, <2>2, <2>3, <2>4 DEF Engaged
<1>8. Writable BY <1>5, <1>7 DEF Writable, a
<1>9. Revocable BY <1>1, <1>2, <1>3, <1>6 DEF Revocable, a, w, Open
<1> QED BY <1>8, <1>9

(* The old version is selected again, behind what it was tried with, or     *)
(* after the data were put back.                                            *)
LEMMA OldEntry ==
    ASSUME IInv, DInv, VInv, Emit, task.step \in {"undo_commit", "recover_commit"}
    PROVE  Writable /\ Revocable
<1> DEFINE a == Announced
           st == task.st
<1>1. Withdrawn(a) = a BY DEF Withdrawn
<1>2. CASE task.step = "undo_commit"
  <2>1. /\ a.current = st.recoveryVersion /\ a.previous = task.before
        /\ a.recoveryVersion = st.recoveryVersion /\ a.backup = st.backup
        /\ a.dataChanged = st.dataChanged /\ a.writesOpened = st.writesOpened
    BY <1>2, EmitFacts DEF Announced, JournalFields
  <2> HIDE DEF a
  <2>2. /\ st.writesOpened /\ Real(st.recoveryVersion, binaries)
        /\ (task.before = NoBinary \/ Real(task.before, binaries))
        /\ Reads(st.recoveryVersion.version, data, Compat) /\ st.dataChanged = task.changed
        /\ (owner.kind = "server" => ~owner.active /\ owner.binary = st.recoveryVersion)
    BY <1>2, EmitFacts DEF Reaches, Careful, Returning, Trusted, Resuming, Selected
  <2>3. Fit(a, binaries, backups, data, Compat)
    <3>1. Stored(a, binaries, backups) BY <2>1, <2>2, EmitFacts DEF Fit, Stored
    <3>2. Sound(a, data, backups, Compat) BY <2>1, <2>2 DEF Sound, Changed
    <3> QED BY <3>1, <3>2 DEF Fit
  <2>4. ASSUME NEW x, x.step = task.step, x.phase = "work", x.st = a,
               x.before = task.before, x.action = task.action,
               x.changed = (task.changed \/ task.step = "installing")
        PROVE  Engaged(x, owner, a, binaries, backups, data, Compat)
    <3>1. x.changed = task.changed BY <1>2, <2>4, EmitFacts
    <3>2. Reaches(x, binaries)
      BY <1>2, <2>1, <2>2, <2>4, <3>1 DEF Reaches, Chosen, Resuming, Before, Trying
    <3>3. Trusted(x, a, data, backups, Compat) BY <1>2, <2>4 DEF Trusted
    <3>4. owner.kind = "server" => Selected(x, owner) BY <1>2, <2>1, <2>2, <2>4 DEF Selected
    <3> QED BY <2>3, <2>4, <3>2, <3>3, <3>4 DEF Engaged
  <2>5. Writable BY <2>3, <2>4 DEF Writable, a
  <2>6. Revocable BY <1>1, <1>2, <2>2, <2>3 DEF Revocable, Undoing, a
  <2> QED BY <2>5, <2>6
<1>3. CASE task.step = "recover_commit"
  <2>1. /\ a.current = st.current /\ a.previous = st.previous
        /\ a.recoveryVersion = st.recoveryVersion /\ a.backup = st.backup
        /\ a.dataChanged = st.dataChanged /\ a.writesOpened = TRUE
    BY <1>3, EmitFacts DEF Announced, JournalFields
  <2> HIDE DEF a
  <2>2. /\ ~st.dataChanged /\ Real(st.recoveryVersion, binaries)
        /\ st.current = st.recoveryVersion
        /\ (task.before = NoBinary \/ Real(task.before, binaries))
        /\ (owner.kind = "server" => owner.binary = st.current)
    <3>1. ~Migrated(task) BY <1>3 DEF Migrated
    <3> QED BY <1>3, <3>1, EmitFacts DEF Reaches, Resuming, Selected
  <2>3. Fit(a, binaries, backups, data, Compat)
    <3>1. Stored(a, binaries, backups) BY <2>1, EmitFacts DEF Fit, Stored
    <3>2. Sound(a, data, backups, Compat) BY <2>1, <2>2, EmitFacts DEF Fit, Sound, Changed
    <3> QED BY <3>1, <3>2 DEF Fit
  <2>4. ASSUME NEW x, x.step = task.step, x.phase = "work", x.st = a,
               x.before = task.before, x.action = task.action,
               x.changed = (task.changed \/ task.step = "installing")
        PROVE  Engaged(x, owner, a, binaries, backups, data, Compat)
    <3>1. Reaches(x, binaries)
      BY <1>3, <2>1, <2>2, <2>4 DEF Reaches, Chosen, Resuming, Before, Trying, Migrated
    <3>2. Trusted(x, a, data, backups, Compat) BY <1>3, <2>4 DEF Trusted
    <3>3. owner.kind = "server" => Selected(x, owner) BY <1>3, <2>1, <2>2, <2>4 DEF Selected
    <3> QED BY <2>3, <2>4, <3>1, <3>2, <3>3 DEF Engaged
  <2>5. Writable BY <2>3, <2>4 DEF Writable, a
  <2>6. Revocable BY <1>1, <1>3, <2>1, <2>2, <2>3 DEF Revocable, Undoing, a
  <2> QED BY <2>5, <2>6
<1> QED BY <1>2, <1>3

(* The main loop writes an entry, or fails to.                              *)
LEMMA EmitFits ==
    ASSUME IInv, IInv', DInv, VInv, UNCHANGED setup, Emit PROVE VInv'
<1> DEFINE a == Announced
           w == Withdrawn(a)
           works == [Go(task, task.step, "work") EXCEPT !.st = a,
                         !.changed = @ \/ task.step = "installing"]
           left == [task EXCEPT !.st = w]
<1>1. TypeOK' BY EmitTyped DEF VInv
<1>2. UNCHANGED <<launcher, owner, data, binaries, backups>> BY DEF Emit, store
<1>3. Writable /\ Revocable BY PlainEntry, InstallingEntry, ActivatingEntry, OldEntry
<1>4. /\ disk' \in {disk, a}
      /\ \/ task' = works /\ disk' = a
         \/ task' = GiveUp(left)
         \/ task' = Fail(left) /\ task.step \notin Undoing
  BY DEF Emit, Save
<1>5. /\ works.step = task.step /\ works.phase = "work" /\ works.st = a
      /\ works.before = task.before /\ works.action = task.action
      /\ works.changed = (task.changed \/ task.step = "installing")
  <2> HIDE DEF a
  <2> QED BY EmitFacts DEF Go, TaskOK, TaskFields
<1>6. TaskOK(left) /\ left.st = w /\ left.before = task.before /\ left.changed = task.changed
  <2>1. DOMAIN w = JournalFields
    <3>1. Withdrawn(Announced) \in Journal BY EmitFacts, TypedEntry DEF VInv
    <3> QED BY <3>1, Entries
  <2> HIDE DEF w
  <2> QED BY <2>1, EmitFacts DEF TaskOK, TaskFields
<1>7. Fit(disk', binaries, backups, data, Compat) /\ Holds(owner, disk', data, Compat)
  BY <1>3, <1>4, EmitFacts DEF Writable, Holds
<1>8. /\ Engaged(task', owner, disk', binaries, backups, data, Compat)
      /\ task'.step \notin {"none", "prune"}
  <2> HIDE DEF works, left
  <2>1. CASE task' = works /\ disk' = a
    <3>1. Engaged(works, owner, a, binaries, backups, data, Compat)
      BY <1>3, <1>5 DEF Writable
    <3>2. task.step \notin {"none", "prune"} BY EmitFacts DEF Announces
    <3> QED BY <1>5, <2>1, <3>1, <3>2
  <2>2. /\ Fit(left.st, binaries, backups, data, Compat)
        /\ (owner.kind = "server" /\ owner.active => owner.binary = left.st.current)
        /\ task.step \notin Undoing => /\ left.st.recoveryVersion = task.st.recoveryVersion
                                       /\ left.st.dataChanged = task.st.dataChanged
    BY <1>3, <1>6 DEF Revocable
  <2>3. CASE task' = GiveUp(left)
    BY <1>6, <2>2, <2>3, GiveUpEngaged
  <2>4. CASE task' = Fail(left) /\ task.step \notin Undoing
    <3>1. /\ Real(left.st.recoveryVersion, binaries)
          /\ (left.before = NoBinary \/ Real(left.before, binaries))
          /\ left.changed = left.st.dataChanged
      BY <1>6, <2>2, <2>4, EmitFacts DEF Reaches, Resuming, Undoing, Announces
    <3> QED BY <1>6, <2>2, <2>4, <3>1, FailEngaged
  <2> QED BY <1>4, <2>1, <2>3, <2>4
<1>9. Compat' = Compat BY DEF Compat
<1>10. launcher \in Serving /\ launcher # "booting" BY EmitFacts DEF Serving
<1> HIDE DEF a, w, works, left
<1> QED BY <1>1, <1>2, <1>7, <1>8, <1>9, <1>10 DEF VInv

-----------------------------------------------------------------------------
(* The operation is closed *)

(* Run returns with a journal on disk that fits.                            *)
LEMMA ExitFits ==
    ASSUME TypeOK', UNCHANGED setup, Exit, UNCHANGED data, UNCHANGED binaries, UNCHANGED backups,
           Fit(disk', binaries, backups, data, Compat)
    PROVE  VInv'
<1>1. Compat' = Compat BY DEF Compat
<1>2. launcher' = "down" /\ task'.step = "none" /\ owner'.kind = "none"
  BY DEF Exit, NoTask, NoOwner
<1> QED BY <1>1, <1>2 DEF VInv, Serving, Holds

(* What is known of an operation that is settled, pruned, or finished.      *)
LEMMA ClosingParts ==
    ASSUME IInv, DInv, VInv, NEW step \in {"settle", "prune", "finish"}, At(step, "work")
    PROVE  /\ launcher \in Serving /\ task.step = step /\ TaskOK(task)
           /\ DOMAIN task.st = JournalFields
           /\ Fit(task.st, binaries, backups, data, Compat)
           /\ Fit(disk, binaries, backups, data, Compat)
           /\ Holds(owner, disk, data, Compat) /\ owner.kind # "migrate"
           /\ (owner.kind = "server" /\ owner.active => owner.binary = task.st.current)
<1>1. launcher \in Serving /\ task.step = step /\ TaskOK(task) /\ task.step # "none"
      /\ DOMAIN task.st = JournalFields
  BY DEF At, Serving, IInv, Shape, TaskOK
<1>2. Engaged(task, owner, disk, binaries, backups, data, Compat) BY <1>1 DEF VInv
<1>3. owner.kind # "migrate" BY <1>1 DEF IInv, Closed, Serving
<1> QED BY <1>1, <1>2, <1>3 DEF VInv, Engaged, Selected

(* An operation past its work, with a journal that fits.                    *)
LEMMA ClosedEngaged ==
    ASSUME NEW x, x.step \in {"settle", "prune", "finish"},
           NEW own, NEW entry, NEW bin, NEW bk, NEW d, NEW c, Fit(x.st, bin, bk, d, c),
           own.kind = "server" /\ own.active => own.binary = x.st.current
    PROVE  Engaged(x, own, entry, bin, bk, d, c)
BY DEF Engaged, Selected, Works, Announces

(* The result is journaled.                                                 *)
LEMMA SettleFits ==
    ASSUME IInv, IInv', DInv, VInv, UNCHANGED setup, Settle PROVE VInv'
<1> DEFINE st == Settled(task.st)
           next(good) == [Go(task, IF good /\ launcher # "stopping" THEN "prune" ELSE "finish",
                             "work") EXCEPT !.st = st]
<1>1. TypeOK' BY ClosingTyped DEF VInv
<1>2. UNCHANGED <<launcher, owner, data, binaries, backups>> BY DEF Settle, store
<1>3. At("settle", "work") BY DEF Settle
<1>4. Kin(task.st, st)
  <2>1. \A x, r : DOMAIN x = JournalFields => Kin(x, [x EXCEPT !.busy = TRUE, !.retained = r])
    BY DEF JournalFields, Kin
  <2> QED BY <1>3, <2>1, ClosingParts DEF Settled
<1>5. PICK good \in BOOLEAN :
         /\ Save(st, good) /\ task' = next(good)
  BY DEF Settle
<1> HIDE DEF st
<1>6. Fit(st, binaries, backups, data, Compat) BY <1>3, <1>4, ClosingParts, FitKin
<1>7. /\ task'.st = st /\ task'.step \in {"prune", "finish"}
      /\ task'.step = "prune" => disk' = st
      /\ disk' \in {disk, st}
  BY <1>3, <1>5, ClosingParts DEF Go, TaskOK, TaskFields, Save
<1>8. Fit(disk', binaries, backups, data, Compat) /\ Holds(owner, disk', data, Compat)
  BY <1>3, <1>6, <1>7, ClosingParts DEF Holds
<1>9. Engaged(task', owner, disk', binaries, backups, data, Compat)
  <2>1. owner.kind = "server" /\ owner.active => owner.binary = st.current
    BY <1>3, <1>4, ClosingParts DEF Kin
  <2> QED BY <1>6, <1>7, <2>1, ClosedEngaged
<1>10. Compat' = Compat BY DEF Compat
<1>11. launcher \in Serving /\ launcher # "booting" BY <1>3, ClosingParts DEF Serving
<1> QED BY <1>1, <1>2, <1>7, <1>8, <1>9, <1>10, <1>11 DEF VInv

(* What a journal refers to is kept.                                        *)
LEMMA PruneFits ==
    ASSUME IInv, IInv', DInv, VInv, UNCHANGED setup, Prune PROVE VInv'
<1> DEFINE st == task.st
<1>1. TypeOK' BY ClosingTyped DEF VInv
<1>2. /\ UNCHANGED <<disk, launcher, owner, data>> /\ task' = Go(task, "finish", "work")
      /\ At("prune", "work")
  BY DEF Prune
<1>3. disk = st BY <1>2 DEF VInv, At
<1>4. /\ binaries \cap Kept(st) \subseteq binaries'
      /\ \A o \in DOMAIN backups : o = st.backup => o \in DOMAIN backups'
      /\ \A o \in DOMAIN backups' : o \in DOMAIN backups /\ backups'[o] = backups[o]
  BY DEF Prune, Without, KeptBackups
<1>5. Stored(st, binaries', backups')
  <2>1. Stored(st, binaries, backups) BY <1>2, ClosingParts DEF Fit
  <2>2. st.current.op \in Kept(st) /\ (st.previous # NoBinary => st.previous.op \in Kept(st))
    BY DEF Kept
  <2>3. ~Real(NoBinary, binaries) BY SupervisorAssumption DEF Real, NoBinary
  <2>4. Real(st.current, binaries') BY <1>4, <2>1, <2>2 DEF Stored, Real
  <2>5. st.previous # NoBinary => Real(st.previous, binaries')
    BY <1>4, <2>1, <2>2 DEF Stored, Real
  <2> QED BY <1>4, <2>1, <2>3, <2>4, <2>5 DEF Stored
<1>6. Sound(st, data, backups', Compat)
  <2>1. BackedUp(st, backups, Compat) => BackedUp(st, backups', Compat)
    BY <1>4 DEF BackedUp
  <2> QED BY <1>2, <2>1, ClosingParts DEF Fit, Sound
<1>7. task'.step = "finish" /\ task'.st = st
  BY <1>2, ClosingParts DEF Go, TaskOK, TaskFields
<1>8. Engaged(task', owner, disk, binaries', backups', data, Compat)
  BY <1>2, <1>5, <1>6, <1>7, ClosingParts, ClosedEngaged DEF Fit
<1> QED BY <1>1, <1>2, <1>3, <1>5, <1>6, <1>7, <1>8, ClosingParts, WorkFits DEF Fit

(* The main loop takes the result.                                          *)
LEMMA FinishFits ==
    ASSUME IInv, IInv', DInv, VInv, UNCHANGED setup, Finish PROVE VInv'
<1> DEFINE ended == [task.st EXCEPT !.busy = FALSE]
           st == IF launcher = "stopping" THEN ended ELSE Restrict(ended)
<1>1. TypeOK' BY ClosingTyped DEF VInv
<1>2. UNCHANGED <<data, binaries, backups>> BY DEF Finish, store
<1>3. At("finish", "work") BY DEF Finish
<1>4. Kin(task.st, st)
  <2>1. DOMAIN ended = JournalFields /\ Kin(task.st, ended)
    BY <1>3, ClosingParts DEF JournalFields, Kin
  <2>2. \A x : DOMAIN x = JournalFields => Kin(x, [x EXCEPT !.rollback = FALSE]) /\ Kin(x, x)
    BY DEF JournalFields, Kin
  <2> HIDE DEF ended
  <2>3. Kin(ended, Restrict(ended)) BY <2>1, <2>2 DEF Restrict
  <2> QED BY <2>1, <2>3 DEF Kin
<1>5. PICK good \in BOOLEAN :
         /\ Save(st, good)
         /\ \/ Exit
            \/ /\ good /\ mem' = st /\ task' = NoTask /\ UNCHANGED <<launcher, owner>>
  BY DEF Finish
<1> HIDE DEF st
<1>6. Fit(st, binaries, backups, data, Compat) BY <1>3, <1>4, ClosingParts, FitKin
<1>7. disk' \in {disk, st} /\ Fit(disk', binaries, backups, data, Compat)
      /\ Holds(owner, disk', data, Compat)
  BY <1>3, <1>5, <1>6, ClosingParts DEF Save, Holds
<1>8. CASE Exit BY <1>1, <1>2, <1>7, <1>8, ExitFits
<1>9. CASE ~Exit
  <2>1. mem' = st /\ task' = NoTask /\ UNCHANGED <<launcher, owner>> BY <1>5, <1>9
  <2>2. owner.kind = "server" /\ owner.active => owner.binary = st.current
    BY <1>3, <1>4, ClosingParts DEF Kin
  <2>3. launcher \in Serving /\ launcher # "booting" BY <1>3, ClosingParts DEF Serving
  <2>4. Compat' = Compat BY DEF Compat
  <2>5. task'.step = "none" BY <2>1 DEF NoTask
  <2> QED BY <1>1, <1>2, <1>7, <2>1, <2>2, <2>3, <2>4, <2>5 DEF VInv, Open
<1> QED BY <1>8, <1>9

-----------------------------------------------------------------------------
(* The data *)

(* The candidate or the recovery writes a group; nobody else reads it.      *)
LEMMA WrittenFits ==
    ASSUME NEW st, NEW g \in Groups, NEW d, DOMAIN d = Groups, NEW n, NEW bin, NEW bk, NEW c,
           Changed(st), Fit(st, bin, bk, d, c),
           InRange(st.recoveryVersion.version, n, c) \/ n = c[st.candidate.version].generation
    PROVE  Fit(st, bin, bk, [d EXCEPT ![g] = n], c)
<1>1. \A h \in Groups : [d EXCEPT ![g] = n][h] = IF h = g THEN n ELSE d[h] OBVIOUS
<1> QED BY <1>1 DEF Fit, Sound

(* The candidate migrates a group.                                          *)
LEMMA MigrateFits ==
    ASSUME IInv, IInv', DInv, VInv, UNCHANGED setup, NEW g \in Groups, MigrateGroup(g)
    PROVE  VInv'
<1> DEFINE n == Compat[owner.binary.version].generation
<1>1. /\ UNCHANGED <<disk, mem, task, launcher, checking, owner, binaries, backups, failure, paused,
                     contact, faults, stale, lost>>
      /\ data' = [data EXCEPT ![g] = n] /\ owner.kind = "migrate"
  BY DEF MigrateGroup, store, ghosts
<1>2. /\ Changed(disk) /\ owner.binary = disk.candidate /\ owner.binary # NoBinary
      /\ Fit(disk, binaries, backups, data, Compat) /\ data \in [Groups -> Nat]
  BY <1>1 DEF VInv, Holds, TypeOK
<1>3. n \in Nat
  <2>1. owner.binary \in Binary BY <1>2 DEF VInv, TypeOK
  <2>2. owner.binary.version \in Releases BY <1>2, <2>1 DEF Binary, NoBinary
  <2>3. Compat \in [Releases -> [generation : Nat, from : Nat, through : Nat, migrates : Nat,
                                 writes : BOOLEAN]]
    BY SupervisorAssumption DEF VInv, TypeOK, Setup, Compat
  <2> QED BY <2>2, <2>3
<1>4. TypeOK'
  <2>1. data' \in [Groups -> Nat] BY <1>1, <1>2, <1>3
  <2>2. TypeOK BY DEF VInv
  <2> QED BY <1>1, <2>1, <2>2 DEF TypeOK, MaxFaults
<1>5. Fit(disk, binaries, backups, data', Compat)
  <2> HIDE DEF n
  <2>1. n = Compat[disk.candidate.version].generation BY <1>2 DEF n
  <2> QED BY <1>1, <1>2, <2>1, WrittenFits
<1>6. launcher \in Serving => Engaged(task, owner, disk, binaries, backups, data', Compat)
                              /\ task.step \notin {"none", "prune"}
  <2> SUFFICES ASSUME launcher \in Serving
               PROVE  Engaged(task, owner, disk, binaries, backups, data', Compat)
                      /\ task.step \notin {"none", "prune"}
    OBVIOUS
  <2>1. task.step = "installing" /\ task.phase = "work"
    BY <1>1 DEF IInv, Closed, Serving
  <2>2. Engaged(task, owner, disk, binaries, backups, data, Compat) BY <2>1 DEF VInv
  <2>3. disk = task.st /\ Reaches(task, binaries) /\ Trusted(task, disk, data, backups, Compat)
    BY <2>1, <2>2 DEF Engaged, Trusted, Works, Announces
  <2>4. Trusted(task, disk, data', backups, Compat) BY <2>1, <2>3 DEF Trusted
  <2> QED BY <1>1, <1>5, <2>1, <2>3, <2>4 DEF Engaged
<1>7. launcher # "booting" /\ (launcher \notin Serving => task.step = "none")
  BY <1>1 DEF IInv, Closed, Phases, Shape, Serving
<1>8. Compat' = Compat BY DEF Compat
<1>9. Holds(owner, disk, data', Compat) BY <1>1, <1>2 DEF Holds
<1> QED BY <1>1, <1>4, <1>5, <1>6, <1>7, <1>8, <1>9 DEF VInv

(* A group is put back.                                                     *)
LEMMA RestoreFits ==
    ASSUME IInv, IInv', DInv, VInv, UNCHANGED setup, NEW g \in Groups, RestoreGroup(g)
    PROVE  VInv'
<1> DEFINE st == task.st
           n == backups[st.backup][g]
<1>1. /\ UNCHANGED <<disk, mem, task, launcher, checking, owner, binaries, backups, failure, paused,
                     contact, faults, stale>>
      /\ data' = [data EXCEPT ![g] = n] /\ lost' \in {lost, lost \cup {g}}
      /\ Recovering /\ g \in Outstanding(st)
  BY DEF RestoreGroup, store
<1>2. /\ st.dataChanged /\ st.backup \in DOMAIN backups /\ g \in DOMAIN backups[st.backup]
  BY <1>1 DEF Outstanding, Saved
<1>3. data \in [Groups -> Nat] /\ n \in Nat /\ lost \subseteq Groups /\ TypeOK
  BY <1>2 DEF VInv, TypeOK
<1>4. TypeOK'
  <2>1. data' \in [Groups -> Nat] /\ lost' \subseteq Groups BY <1>1, <1>3
  <2> QED BY <1>1, <1>3, <2>1 DEF TypeOK, MaxFaults
<1>5. Compat' = Compat BY DEF Compat
<1>6. Fit(disk, binaries, backups, data, Compat) BY DEF VInv
<1> HIDE DEF n
<1>7. CASE At("restore", "work")
  <2>1. /\ launcher \in Serving /\ task.step = "restore"
        /\ Engaged(task, owner, disk, binaries, backups, data, Compat)
        /\ Fit(task.st, binaries, backups, data, Compat)
        /\ Reaches(task, binaries) /\ Trusted(task, disk, data, backups, Compat)
        /\ Holds(owner, disk, data, Compat) /\ owner.kind # "migrate" /\ Careful(task)
    BY <1>7, AtFits DEF Works, Announces
  <2>2. /\ ~st.writesOpened /\ ~Open /\ Changed(st) /\ Changed(disk)
        /\ disk.recoveryVersion = st.recoveryVersion
    BY <1>2, <2>1 DEF Careful, Prudent, Restoring, Trusted, Changed
  <2>3. InRange(st.recoveryVersion.version, n, Compat)
    BY <1>2, <2>1, <2>2 DEF Fit, Sound, BackedUp, n
  <2>4. /\ Fit(disk, binaries, backups, data', Compat)
        /\ Fit(task.st, binaries, backups, data', Compat)
    BY <1>1, <1>3, <1>6, <2>1, <2>2, <2>3, WrittenFits
  <2>5. Trusted(task, disk, data', backups, Compat) BY <2>1 DEF Trusted
  <2>6. Engaged(task, owner, disk, binaries, backups, data', Compat)
    BY <2>1, <2>4, <2>5 DEF Engaged
  <2>7. Holds(owner, disk, data', Compat) BY <2>1, <2>2 DEF Holds, Open
  <2> QED BY <1>1, <1>4, <2>1, <2>4, <2>6, <2>7, WorkFits
<1>8. CASE launcher = "booting" /\ task.step = "boot_recover" /\ MustRecover(st)
  <2>1. st = disk /\ Changed(disk)
    BY <1>2, <1>8 DEF IInv, Phases, MustRecover, Changed
  <2>2. InRange(st.recoveryVersion.version, n, Compat)
    BY <1>2, <1>6, <2>1 DEF Fit, Sound, BackedUp, n
  <2>3. Fit(disk, binaries, backups, data', Compat)
    BY <1>1, <1>3, <1>6, <2>1, <2>2, WrittenFits
  <2>4. Holds(owner, disk, data', Compat)
    <3>1. ~Open BY <2>1 DEF DInv, Bounded
    <3>2. owner.kind # "migrate" BY <1>8 DEF IInv, Closed, Serving
    <3> QED BY <3>1, <3>2 DEF Holds, Open
  <2> QED BY <1>1, <1>4, <1>5, <1>8, <2>1, <2>3, <2>4 DEF VInv, Serving
<1> QED BY <1>1, <1>7, <1>8 DEF Recovering

-----------------------------------------------------------------------------
(* The processes and the machine *)

(* A server writes into the groups it has open; a process ends; the machine *)
(* stops.                                                                   *)
LEMMA OutsideFits == ASSUME IInv, IInv', DInv, VInv, OutsideStep PROVE VInv'
<1>1. /\ UNCHANGED setup /\ UNCHANGED <<disk, data, binaries, backups>> /\ Compat' = Compat
      /\ TypeOK /\ Typed /\ OwnerTyped(owner) /\ StoreTyped /\ (UNCHANGED faults \/ Fault)
  <2>1. TypeOK BY DEF VInv
  <2>2. Typed /\ OwnerTyped(owner) /\ StoreTyped BY <2>1, TypeParts
  <2>3. UNCHANGED faults \/ Fault
    BY DEF OutsideStep, AcceptWrite, ServerDies, Crash, OrphanExits
  <2> QED
    BY <2>1, <2>2, <2>3 DEF OutsideStep, AcceptWrite, ServerDies, Crash, OrphanExits, store, Compat
<1>2. ASSUME NEW g \in Groups, AcceptWrite(g) PROVE VInv'
  <2>1. /\ UNCHANGED <<mem, task, launcher, checking, owner, failure, paused, contact, faults, lost>>
        /\ stale' = stale \cup {m \in {<<o, g>> : o \in DOMAIN backups} :
                                   g \in DOMAIN backups[m[1]]}
    BY <1>2 DEF AcceptWrite
  <2>2. stale' \subseteq Operations \X Groups BY <1>1, <2>1 DEF StoreTyped
  <2>3. TypeOK' BY <1>1, <2>1, <2>2 DEF TypeOK, MaxFaults
  <2> QED BY <1>1, <2>1, <2>3 DEF VInv, Open
<1>3. ASSUME UNCHANGED <<mem, task, launcher, checking, paused, contact, stale, lost>>,
             owner' = NoOwner, failure' \in BOOLEAN
      PROVE  VInv'
  <2>1. TypeOK' BY <1>1, <1>3, Owners, TypedWriting DEF Stores, Typed, TypeOK
  <2>2. NoOwner.kind = "none" BY DEF NoOwner
  <2>3. Engaged(task, owner, disk, binaries, backups, data, Compat)
           => Engaged(task, NoOwner, disk, binaries, backups, data, Compat)
    BY <2>2 DEF Engaged
  <2>4. Holds(NoOwner, disk, data, Compat) BY <2>2 DEF Holds
  <2> QED BY <1>1, <1>3, <2>1, <2>2, <2>3, <2>4 DEF VInv, Open
<1>4. CASE Crash
  <2>1. /\ launcher' = "down" /\ mem' = disk /\ task' = NoTask /\ checking' = FALSE
        /\ failure' = FALSE /\ paused' = Public /\ contact' = Unknown /\ UNCHANGED Stores
        /\ owner' \in {NoOwner, [owner EXCEPT !.orphan = TRUE]}
    BY <1>4 DEF Crash, Stores, store, ghosts
  <2>2. OwnerTyped(owner') BY <1>1, <2>1, Owners
  <2>3. TypeOK' BY <1>1, <2>1, <2>2, TypedDown, TypedWriting DEF TypeOK
  <2>4. Holds(owner', disk, data, Compat)
    <3>1. DOMAIN owner = OwnerFields BY DEF IInv, Shape
    <3>2. LET o == [owner EXCEPT !.orphan = TRUE]
          IN o.kind = owner.kind /\ o.active = owner.active /\ o.binary = owner.binary
      BY <3>1 DEF OwnerFields
    <3>3. NoOwner.kind = "none" BY DEF NoOwner
    <3> QED BY <2>1, <3>2, <3>3 DEF VInv, Holds
  <2>5. task'.step = "none" BY <2>1 DEF NoTask
  <2> QED BY <1>1, <2>1, <2>3, <2>4, <2>5 DEF VInv, Serving
<1>5. CASE ServerDies \/ OrphanExits
  <2>1. /\ UNCHANGED <<mem, task, launcher, checking, paused, contact, stale, lost>>
        /\ owner' = NoOwner /\ failure' \in BOOLEAN
    BY <1>1, <1>5 DEF ServerDies, OrphanExits, ghosts, Typed
  <2> QED BY <1>3, <2>1
<1> QED BY <1>2, <1>4, <1>5 DEF OutsideStep

-----------------------------------------------------------------------------
(* Startup *)

(* The launcher starts with what is on disk.                                *)
LEMMA LaunchFits == ASSUME IInv, IInv', DInv, VInv, UNCHANGED setup, Launch PROVE VInv'
<1>1. /\ launcher' = "booting" /\ owner' = [NoOwner EXCEPT !.kind = "launcher"] /\ mem' = disk
      /\ task' = [NoTask EXCEPT !.step = "boot_recover", !.st = disk]
      /\ UNCHANGED <<disk, checking, data, binaries, backups, failure, paused, contact, faults>>
      /\ UNCHANGED Stores
  BY DEF Launch, Stores, store, ghosts
<1>2. TypeOK /\ Typed BY TypeParts DEF VInv
<1>3. /\ task'.step = "boot_recover" /\ task'.st = disk /\ owner'.kind = "launcher"
      /\ TaskTyped(task')
  <2>1. /\ task'.step = "boot_recover" /\ task'.st = disk /\ owner'.kind = "launcher"
    BY <1>1 DEF NoTask, NoOwner
  <2>2. \A st \in Journal :
           TaskTyped(NoTask) => TaskTyped([NoTask EXCEPT !.step = "boot_recover", !.st = st])
    BY DEF TaskTyped, TaskFields
  <2>3. TaskTyped(NoTask) /\ disk \in Journal BY <1>2, TypedDown DEF Typed
  <2> QED BY <1>1, <2>1, <2>2, <2>3
<1>4. TypeOK' BY <1>1, <1>2, <1>3, Owners, TypedWriting DEF Typed, TypeOK
<1>5. Compat' = Compat BY DEF Compat
<1> QED BY <1>1, <1>3, <1>4, <1>5 DEF VInv, Holds, Serving

(* What startup recovers or leaves as it is fits.                           *)
LEMMA BootRecoverFits ==
    ASSUME IInv, IInv', DInv, VInv, UNCHANGED setup, BootRecover PROVE VInv'
<1> DEFINE result == IF MustRecover(task.st) THEN Recovered(task.st) ELSE task.st
           entry == [result EXCEPT !.stage = IF Interrupts(task.st) THEN "failed" ELSE @,
                                   !.busy = FALSE]
<1>1. /\ launcher = "booting" /\ task.step = "boot_recover" /\ task.st = disk /\ TaskOK(task)
      /\ Fit(disk, binaries, backups, data, Compat) /\ Holds(owner, disk, data, Compat)
      /\ TypeOK /\ Typed /\ disk \in Journal /\ TaskTyped(task) /\ owner.kind # "migrate"
      /\ ~(Open /\ Changed(disk))
  <2>1. TypeOK /\ Typed BY TypeParts DEF VInv
  <2>2. launcher = "booting" /\ task.step = "boot_recover" BY DEF BootRecover, Booting
  <2>3. ~(Open /\ Changed(disk)) BY DEF DInv, Bounded
  <2> QED BY <2>1, <2>2, <2>3 DEF IInv, Shape, Phases, Closed, Serving, TaskOK, VInv, Typed
<1>2. CASE Exit /\ UNCHANGED disk /\ UNCHANGED faults
  <2>1. UNCHANGED Stores /\ UNCHANGED <<data, binaries, backups>>
    BY DEF BootRecover, BootFrame, Stores, store, ghosts
  <2>2. TypeOK' BY <1>1, <1>2, <2>1, ExitTyped
  <2> QED BY <1>1, <1>2, <2>1, <2>2, ExitFits
<1>3. CASE ~(Exit /\ UNCHANGED disk /\ UNCHANGED faults)
  <2>1. MustRecover(disk) => Outstanding(disk) = {} /\ Recoverable(disk) /\ ~disk.writesOpened
    BY <1>1, <1>3 DEF BootRecover, MustRecover, Success
  <2>2. Fit(result, binaries, backups, data, Compat) /\ result \in Journal
    <3>1. CASE MustRecover(disk)
      <4>1. 0 \notin DOMAIN backups BY DEF DInv, Numbered
      <4>2. disk.policy \subseteq Groups /\ DOMAIN disk = JournalFields
        BY <1>1, Entries DEF Journal
      <4>3. Fit(Recovered(disk), binaries, backups, data, Compat)
        BY <1>1, <2>1, <3>1, <4>1, <4>2, RecoveredFits
      <4>4. Recovered(disk) \in Journal BY <1>1, RecoveredTyped
      <4> QED BY <1>1, <3>1, <4>3, <4>4
    <3>2. CASE ~MustRecover(disk) BY <1>1, <3>2
    <3> QED BY <3>1, <3>2
  <2> HIDE DEF result
  <2>3. Kin(result, entry) /\ entry \in Journal
    <3>1. \A s : Kin(result, [result EXCEPT !.stage = s, !.busy = FALSE])
      BY <2>2, Entries DEF Kin, JournalFields
    <3>2. \A s \in JournalStages : [result EXCEPT !.stage = s, !.busy = FALSE] \in Journal
      BY <2>2 DEF Journal, JournalStages
    <3>3. "failed" \in JournalStages /\ result.stage \in JournalStages
      BY <2>2 DEF Journal, JournalStages
    <3> QED BY <3>1, <3>2, <3>3
  <2> HIDE DEF entry
  <2>4. Fit(entry, binaries, backups, data, Compat) BY <2>2, <2>3, FitKin
  <2>5. /\ UNCHANGED Stores /\ UNCHANGED <<data, binaries, backups>>
        /\ disk' \in {disk, entry} /\ (UNCHANGED faults \/ Fault)
        /\ \/ Exit
           \/ /\ task' = [task EXCEPT !.step = "boot_start", !.st = entry]
              /\ UNCHANGED <<mem, launcher, owner, checking, failure, paused, contact>>
    <3>1. UNCHANGED Stores /\ UNCHANGED <<data, binaries, backups>>
      BY DEF BootRecover, BootFrame, Stores, store, ghosts
    <3> QED BY <1>1, <1>3, <3>1 DEF BootRecover, Save, Success, entry, result
  <2>6. disk' \in Journal /\ Fit(disk', binaries, backups, data, Compat)
    BY <1>1, <2>3, <2>4, <2>5
  <2>7. CASE Exit
    <3>1. TypeOK' BY <1>1, <2>5, <2>6, <2>7, ExitTyped
    <3> QED BY <2>5, <2>6, <2>7, <3>1, ExitFits
  <2>8. CASE /\ task' = [task EXCEPT !.step = "boot_start", !.st = entry]
             /\ UNCHANGED <<mem, launcher, owner, checking, failure, paused, contact>>
    <3>1. /\ task'.step = "boot_start" /\ task'.st = entry /\ TaskTyped(task')
      BY <1>1, <2>3, <2>8 DEF TaskTyped, TaskFields
    <3>2. TypeOK'
      BY <1>1, <2>5, <2>6, <2>8, <3>1, TypeParts, TypedWriting DEF Typed, TypeOK, OwnerTyped
    <3>3. Compat' = Compat BY DEF Compat
    <3>4. Holds(owner, disk', data, Compat) BY <1>1 DEF Holds
    <3> QED BY <1>1, <2>4, <2>5, <2>6, <2>8, <3>1, <3>2, <3>3, <3>4 DEF VInv, Serving
  <2> QED BY <2>5, <2>7, <2>8
<1> QED BY <1>2, <1>3

(* The server that startup starts is the one the journal selects.           *)
LEMMA BootStartFits ==
    ASSUME IInv, IInv', DInv, VInv, UNCHANGED setup, BootStart PROVE VInv'
<1> DEFINE st == Restrict(task.st)
           m == [st EXCEPT !.busy = TRUE]
<1>1. /\ launcher = "booting" /\ task.step = "boot_start" /\ TaskOK(task)
      /\ Fit(task.st, binaries, backups, data, Compat)
      /\ Fit(disk, binaries, backups, data, Compat)
      /\ TypeOK /\ Typed /\ task.st \in Journal /\ TaskTyped(task) /\ ~Changed(task.st)
      /\ DOMAIN task.st = JournalFields /\ disk \in Journal
  <2>1. TypeOK /\ Typed BY TypeParts DEF VInv
  <2>2. launcher = "booting" /\ task.step = "boot_start" BY DEF BootStart, Booting
  <2>3. ~Changed(task.st) BY <2>2 DEF DInv, Safe
  <2> QED BY <2>1, <2>2, <2>3, TypedTask DEF IInv, Shape, TaskOK, VInv, Typed
<1>2. Kin(task.st, st) /\ st \in Journal
  <2>1. Kin(task.st, [task.st EXCEPT !.rollback = FALSE]) /\ Kin(task.st, task.st)
    BY <1>1 DEF Kin, JournalFields
  <2>2. [task.st EXCEPT !.rollback = FALSE] \in Journal BY <1>1, Entries
  <2> QED BY <1>1, <2>1, <2>2 DEF Restrict
<1>3. UNCHANGED Stores /\ UNCHANGED <<data, binaries, backups>>
  BY DEF BootStart, BootFrame, Stores, store, ghosts
<1> HIDE DEF st
<1>4. Kin(st, m) /\ m \in Journal
  BY <1>2, Entries DEF Kin, JournalFields
<1> HIDE DEF m
<1>5. Fit(st, binaries, backups, data, Compat) /\ Fit(m, binaries, backups, data, Compat)
  BY <1>1, <1>2, <1>4, FitKin
<1>6. \/ disk' \in {disk, st} /\ Exit /\ Fault
      \/ /\ disk' = st /\ launcher' = "running" /\ mem' = m /\ UNCHANGED faults
         /\ task' = [task EXCEPT !.step = "settle", !.st = m]
         /\ owner' = IF Offline THEN NoOwner ELSE Serve(st.current, TRUE)
         /\ UNCHANGED <<checking, failure, paused, contact>>
  BY DEF BootStart, Save, Success, st, m
<1>7. CASE disk' \in {disk, st} /\ Exit /\ Fault
  <2>1. disk' \in Journal /\ Fit(disk', binaries, backups, data, Compat)
    BY <1>1, <1>2, <1>5, <1>7
  <2>2. TypeOK' BY <1>1, <1>3, <1>7, <2>1, ExitTyped
  <2> QED BY <1>3, <1>7, <2>1, <2>2, ExitFits
<1>8. CASE /\ disk' = st /\ launcher' = "running" /\ mem' = m /\ UNCHANGED faults
           /\ task' = [task EXCEPT !.step = "settle", !.st = m]
           /\ owner' = IF Offline THEN NoOwner ELSE Serve(st.current, TRUE)
           /\ UNCHANGED <<checking, failure, paused, contact>>
  <2>1. task'.step = "settle" /\ task'.st = m /\ TaskTyped(task')
    BY <1>1, <1>4, <1>8 DEF TaskTyped, TaskFields
  <2>2. /\ OwnerTyped(owner') /\ owner'.kind # "migrate"
        /\ owner'.kind = "server" => owner'.binary = st.current
    <3>1. st.current \in Binary BY <1>2 DEF Journal
    <3>2. OwnerTyped(NoOwner) /\ OwnerTyped(Serve(st.current, TRUE)) BY <3>1, Owners
    <3>3. NoOwner.kind = "none" /\ Serve(st.current, TRUE).kind = "server"
          /\ Serve(st.current, TRUE).binary = st.current
      BY DEF NoOwner, Serve
    <3> QED BY <1>8, <3>2, <3>3
  <2>3. TypeOK' BY <1>1, <1>2, <1>3, <1>4, <1>8, <2>1, <2>2, TypedWriting DEF Typed, TypeOK
  <2>4. Reads(st.current.version, data, Compat)
    BY <1>1, <1>2 DEF Fit, Sound, Kin
  <2>5. Holds(owner', disk', data, Compat) BY <2>2, <2>4 DEF Holds
  <2>6. Engaged(task', owner', disk', binaries, backups, data, Compat)
    BY <1>4, <1>5, <2>1, <2>2, ClosedEngaged DEF Kin
  <2>7. Compat' = Compat BY DEF Compat
  <2> QED BY <1>3, <1>5, <1>8, <2>1, <2>3, <2>5, <2>6, <2>7 DEF VInv
<1> QED BY <1>6, <1>7, <1>8

-----------------------------------------------------------------------------
(* The main loop *)

(* A handler that writes an entry which selects the same versions.          *)
LEMMA HandlerFits ==
    ASSUME IInv, IInv', DInv, VInv, UNCHANGED setup, UNCHANGED faults \/ Fault,
           launcher = "running", task.step = "none", UNCHANGED Stores,
           NEW entry \in Journal, Kin(mem, entry), disk' \in {disk, entry},
           \/ Exit
           \/ /\ disk' = entry /\ mem' = entry /\ UNCHANGED <<task, launcher, owner>>
              /\ checking' \in BOOLEAN /\ failure' \in BOOLEAN /\ paused' \in BOOLEAN
              /\ contact' \in {"none", "known", "done"}
    PROVE  VInv'
<1>1. /\ TypeOK /\ Typed /\ disk \in Journal /\ mem = disk /\ launcher \in Serving
      /\ Fit(disk, binaries, backups, data, Compat) /\ Holds(owner, disk, data, Compat)
      /\ (Open => owner.binary = mem.current) /\ owner.kind # "migrate"
      /\ UNCHANGED <<data, binaries, backups>> /\ Compat' = Compat
  <2>1. TypeOK /\ Typed BY TypeParts DEF VInv
  <2>2. launcher \in Serving BY DEF Serving
  <2>3. owner.kind # "migrate" BY <2>2 DEF IInv, Closed
  <2>4. mem = disk BY <2>2 DEF DInv, Idle
  <2>5. UNCHANGED <<data, binaries, backups>> BY DEF Stores
  <2> QED BY <2>1, <2>2, <2>3, <2>4, <2>5 DEF VInv, Typed, Compat
<1>2. Fit(entry, binaries, backups, data, Compat) BY <1>1, FitKin
<1>3. disk' \in Journal /\ Fit(disk', binaries, backups, data, Compat) BY <1>1, <1>2
<1>4. CASE Exit
  <2>1. TypeOK' BY <1>1, <1>3, <1>4, ExitTyped
  <2> QED BY <1>1, <1>3, <1>4, <2>1, ExitFits
<1>5. CASE /\ disk' = entry /\ mem' = entry /\ UNCHANGED <<task, launcher, owner>>
           /\ checking' \in BOOLEAN /\ failure' \in BOOLEAN /\ paused' \in BOOLEAN
           /\ contact' \in {"none", "known", "done"}
  <2>1. TypeOK' BY <1>1, <1>5, TypeParts, TypedWriting DEF Typed, OwnerTyped
  <2>2. Holds(owner, entry, data, Compat) BY <1>1 DEF Holds
  <2>3. entry.current = mem.current BY DEF Kin
  <2> QED BY <1>1, <1>2, <1>5, <2>1, <2>2, <2>3 DEF VInv, Open, Serving
<1> QED BY <1>4, <1>5

(* A check that raises the sequence.                                        *)
LEMMA CheckResultFits ==
    ASSUME IInv, IInv', DInv, VInv, UNCHANGED setup,
           NEW sequence \in Releases \cup {0}, CheckResult(sequence)
    PROVE  VInv'
<1> DEFINE raised == [mem EXCEPT !.highest = sequence,
                                 !.stage = IF sequence > mem.current.version
                                           THEN "available" ELSE "current"]
           entry == IF sequence = 0 \/ sequence < mem.highest THEN mem ELSE raised
<1>1. /\ launcher = "running" /\ checking /\ task.step = "none" /\ TypeOK /\ Typed
      /\ DOMAIN mem = JournalFields
  <2>1. TypeOK /\ Typed BY TypeParts DEF VInv
  <2>2. launcher = "running" /\ checking BY DEF CheckResult
  <2> QED BY <2>1, <2>2, IdleFacts
<1>2. entry \in Journal /\ Kin(mem, entry)
  <2>1. Kin(mem, mem) /\ Kin(mem, raised) BY <1>1 DEF Kin, JournalFields
  <2>2. mem \in Journal /\ raised \in Journal BY <1>1 DEF Typed, Journal
  <2> QED BY <2>1, <2>2
<1>3. /\ UNCHANGED Stores /\ (UNCHANGED faults \/ Fault) /\ disk' \in {disk, entry}
      /\ \/ Exit
         \/ /\ disk' = entry /\ mem' = entry /\ checking' = FALSE
            /\ UNCHANGED <<task, launcher, owner, failure, paused, contact>>
  <2> HIDE DEF entry
  <2>1. \E good \in BOOLEAN :
          /\ Save(entry, good)
          /\ IF good THEN /\ mem' = entry /\ checking' = FALSE
                          /\ UNCHANGED <<task, launcher, owner, failure, paused, contact>>
             ELSE Exit
    BY DEF CheckResult, entry
  <2>2. UNCHANGED Stores BY DEF CheckResult, Stores, store, ghosts
  <2> QED BY <2>1, <2>2 DEF Save, Success
<1>4. failure \in BOOLEAN /\ paused \in BOOLEAN /\ contact \in {"none", "known", "done"}
  BY <1>1 DEF TypeOK
<1> HIDE DEF entry
<1> QED BY <1>1, <1>2, <1>3, <1>4, HandlerFits

(* The exit of a server that the main loop learns of.                       *)
LEMMA HandleFailureFits ==
    ASSUME IInv, IInv', DInv, VInv, UNCHANGED setup, HandleFailure PROVE VInv'
<1> DEFINE entry == [mem EXCEPT !.recovery = TRUE, !.stage = "failed"]
<1>1. TypeOK /\ Typed /\ launcher = "running" /\ UNCHANGED Stores
      /\ DOMAIN mem = JournalFields /\ mem \in Journal
  BY TypeParts DEF VInv, HandleFailure, Stores, store, ghosts, Typed, IInv, Shape
<1>2. CASE UNCHANGED <<disk, mem, task, launcher, owner, checking, paused, contact>>
           /\ failure' = FALSE /\ UNCHANGED faults
  <2>1. TypeOK' BY <1>1, <1>2, TypeParts, TypedWriting DEF Typed, TypeOK, OwnerTyped
  <2>2. UNCHANGED <<data, binaries, backups>> /\ Compat' = Compat BY <1>1 DEF Stores, Compat
  <2> QED BY <1>2, <2>1, <2>2 DEF VInv, Open
<1>3. CASE /\ ~mem.busy /\ disk' \in {disk, entry} /\ (UNCHANGED faults \/ Fault)
           /\ \/ Exit
              \/ /\ disk' = entry /\ mem' = entry /\ failure' = FALSE /\ paused' = TRUE
                 /\ UNCHANGED <<task, launcher, owner, checking, contact>>
  <2>1. Kin(mem, entry) /\ entry \in Journal
    <3>1. Kin(mem, entry) BY <1>1 DEF Kin, JournalFields
    <3>2. entry \in Journal BY <1>1 DEF Journal
    <3> QED BY <3>1, <3>2
  <2>2. task.step = "none" BY <1>1, <1>3, IdleFacts
  <2>3. checking \in BOOLEAN /\ contact \in {"none", "known", "done"} BY <1>1 DEF TypeOK
  <2> HIDE DEF entry
  <2> QED BY <1>1, <1>3, <2>1, <2>2, <2>3, HandlerFits
<1>4. \/ UNCHANGED <<disk, mem, task, launcher, owner, checking, paused, contact>>
         /\ failure' = FALSE /\ UNCHANGED faults
      \/ /\ ~mem.busy /\ disk' \in {disk, entry} /\ (UNCHANGED faults \/ Fault)
         /\ \/ Exit
            \/ /\ disk' = entry /\ mem' = entry /\ failure' = FALSE /\ paused' = TRUE
               /\ UNCHANGED <<task, launcher, owner, checking, contact>>
  <2>1. CASE mem.busy \/ Offline BY <2>1 DEF HandleFailure, Success
  <2>2. CASE ~(mem.busy \/ Offline) /\ Public
    <3> HIDE DEF entry
    <3>1. \E good \in BOOLEAN :
               /\ Save(entry, good)
               /\ IF good THEN /\ mem' = entry /\ failure' = FALSE /\ paused' = TRUE
                               /\ UNCHANGED <<task, launcher, owner, checking, contact>>
                  ELSE Exit
      BY <2>2 DEF HandleFailure, entry
    <3> QED BY <2>2, <3>1 DEF Save, Success
  <2>3. CASE ~(mem.busy \/ Offline) /\ ~Public BY <2>3 DEF HandleFailure, Success
  <2> QED BY <2>1, <2>2, <2>3
<1> QED BY <1>2, <1>3, <1>4

(* An operation is accepted: the version that serves is the one to go back  *)
(* to.                                                                      *)
LEMMA AcceptFits ==
    ASSUME IInv, IInv', DInv, VInv, UNCHANGED setup,
           NEW action \in {"upgrade", "rollback"}, NEW policy \in Policies, Accept(action, policy)
    PROVE  VInv'
<1> DEFINE entry == Accepted(policy)
           t == [NoTask EXCEPT !.step = "preparing", !.st = entry,
                               !.before = mem.previous, !.action = action]
<1>1. /\ launcher = "running" /\ launcher \in Serving /\ task.step = "none" /\ TypeOK /\ Typed
      /\ DOMAIN mem = JournalFields /\ mem = disk /\ mem \in Journal /\ ~mem.recovery
      /\ IF action = "upgrade" THEN mem.highest # 0 ELSE mem.previous # NoBinary
      /\ Fit(mem, binaries, backups, data, Compat) /\ owner.kind # "migrate"
      /\ Holds(owner, disk, data, Compat) /\ (Open => owner.binary = mem.current)
  <2>1. TypeOK /\ Typed BY TypeParts DEF VInv
  <2>2. /\ launcher = "running" /\ ~mem.recovery /\ ~mem.busy
        /\ IF action = "upgrade" THEN mem.highest # 0 ELSE mem.previous # NoBinary
    BY DEF Accept, Acceptable
  <2>3. task.step = "none" /\ owner.kind # "migrate" /\ DOMAIN mem = JournalFields
    BY <2>2, IdleFacts
  <2>4. launcher \in Serving BY <2>2 DEF Serving
  <2>5. mem = disk BY <2>3, <2>4 DEF DInv, Idle
  <2> QED BY <2>1, <2>2, <2>3, <2>4, <2>5 DEF VInv, Typed
<1>2. /\ entry.current = mem.current /\ entry.previous = mem.previous /\ entry.backup = 0
      /\ entry.recoveryVersion = mem.current /\ entry.dataChanged = FALSE /\ ~Changed(entry)
      /\ entry.highest = mem.highest
  BY <1>1 DEF Accepted, Changed, JournalFields
<1>3. entry \in Journal
  <2>1. policy \subseteq Groups BY <1>1, SupervisorAssumption DEF TypeOK, Setup, Policies
  <2>2. mem.operation + 1 \in 0..MaxOperations
    BY <1>1, SupervisorAssumption DEF Accept, Journal
  <2>3. NoBinary \in Binary BY Owners
  <2>4. /\ DOMAIN entry = JournalFields /\ entry.busy = TRUE /\ entry.stage = "preparing"
        /\ entry.operation = mem.operation + 1 /\ entry.policy = policy
        /\ entry.retained \in {mem.backup, mem.retained} /\ entry.candidate = NoBinary
        /\ entry.writesOpened = FALSE /\ entry.recovery = mem.recovery
        /\ entry.rollback = mem.rollback
    BY <1>1 DEF Accepted, JournalFields
  <2>5. /\ mem.current \in Binary /\ mem.previous \in Binary /\ mem.highest \in Releases \cup {0}
        /\ {0, mem.backup, mem.retained} \subseteq 0..MaxOperations
        /\ mem.recovery \in BOOLEAN /\ mem.rollback \in BOOLEAN
    BY <1>1, SupervisorAssumption DEF Journal
  <2>6. entry = [f \in JournalFields |-> entry[f]] BY <1>1, <2>4 DEF Accepted
  <2> HIDE DEF entry
  <2> QED BY <1>2, <2>1, <2>2, <2>3, <2>4, <2>5, <2>6, JournalTyped DEF JournalStages
<1>4. Fit(entry, binaries, backups, data, Compat)
  <2>1. ~Changed(mem) BY <1>1 DEF DInv, Bounded
  <2>2. Reads(mem.current.version, data, Compat) BY <1>1, <2>1 DEF Fit, Sound
  <2>3. /\ Real(mem.current, binaries)
        /\ (mem.previous = NoBinary \/ Real(mem.previous, binaries))
    BY <1>1 DEF Fit, Stored
  <2>4. Stored(entry, binaries, backups) BY <1>2, <2>3 DEF Stored
  <2> HIDE DEF entry
  <2>5. Sound(entry, data, backups, Compat) BY <1>2, <2>2 DEF Sound
  <2> QED BY <2>4, <2>5 DEF Fit
<1>5. /\ t.step = "preparing" /\ t.phase = "work" /\ t.st = entry /\ t.before = mem.previous
      /\ t.action = action /\ t.changed = FALSE /\ TaskTyped(t)
  <2> HIDE DEF entry
  <2>1. TaskTyped(NoTask) BY <1>1, TypedDown
  <2>2. mem.previous \in Binary BY <1>1 DEF Journal
  <2>3. /\ t.step = "preparing" /\ t.phase = "work" /\ t.st = entry /\ t.before = mem.previous
        /\ t.action = action /\ t.changed = FALSE
    BY DEF NoTask
  <2>4. DOMAIN t = TaskFields /\ t.stopped \in BOOLEAN BY DEF NoTask, TaskFields
  <2> HIDE DEF t
  <2> QED BY <1>3, <2>2, <2>3, <2>4 DEF TaskTyped
<1>6. /\ UNCHANGED Stores /\ UNCHANGED <<data, binaries, backups>> /\ Compat' = Compat
      /\ (UNCHANGED faults \/ Fault) /\ disk' \in {disk, entry}
      /\ \/ Exit
         \/ /\ disk' = entry /\ mem' = entry /\ task' = t /\ paused' = Public
            /\ UNCHANGED <<launcher, owner, checking, failure, contact>>
  <2>1. UNCHANGED Stores /\ UNCHANGED <<data, binaries, backups>>
    BY DEF Accept, Stores, store, ghosts
  <2>2. /\ (UNCHANGED faults \/ Fault) /\ disk' \in {disk, entry}
        /\ \/ Exit
           \/ /\ disk' = entry /\ mem' = entry /\ task' = t /\ paused' = Public
              /\ UNCHANGED <<launcher, owner, checking, failure, contact>>
    <3>1. \E good \in BOOLEAN :
             /\ Save(entry, good)
             /\ IF good
                THEN /\ mem' = entry
                     /\ task' = [NoTask EXCEPT !.step = "preparing", !.st = mem',
                                               !.before = mem.previous, !.action = action]
                     /\ paused' = Public
                     /\ UNCHANGED <<launcher, owner, checking, failure, contact>>
                ELSE Exit
      BY DEF Accept
    <3> HIDE DEF entry
    <3> QED BY <3>1 DEF Save, Success
  <2> QED BY <2>1, <2>2 DEF Compat
<1> HIDE DEF entry, t
<1>7. disk' \in Journal /\ Fit(disk', binaries, backups, data, Compat) BY <1>1, <1>3, <1>4, <1>6
<1>8. CASE Exit
  <2>1. TypeOK' BY <1>1, <1>6, <1>7, <1>8, ExitTyped
  <2> QED BY <1>6, <1>7, <1>8, <2>1, ExitFits
<1>9. CASE /\ disk' = entry /\ mem' = entry /\ task' = t /\ paused' = Public
           /\ UNCHANGED <<launcher, owner, checking, failure, contact>>
  <2>1. TypeOK'
    BY <1>1, <1>3, <1>5, <1>6, <1>9, TypeParts, TypedDown, TypedWriting DEF Typed, OwnerTyped
  <2>2. Holds(owner, entry, data, Compat) BY <1>1 DEF Holds
  <2>3. Reaches(t, binaries)
    <3>1. Real(mem.current, binaries) /\ (mem.previous = NoBinary \/ Real(mem.previous, binaries))
      BY <1>1 DEF Fit, Stored
    <3>2. Migrated(t) = FALSE BY <1>5 DEF Migrated
    <3> QED BY <1>1, <1>2, <1>5, <3>1, <3>2 DEF Reaches, Chosen, Resuming
  <2>4. Trusted(t, entry, data, backups, Compat) BY <1>5 DEF Trusted
  <2>5. owner.kind = "server" => Selected(t, owner) BY <1>1, <1>2, <1>5 DEF Selected, Open
  <2>6. Engaged(t, owner, entry, binaries, backups, data, Compat)
    BY <1>4, <1>5, <2>3, <2>4, <2>5 DEF Engaged
  <2> QED BY <1>1, <1>4, <1>5, <1>6, <1>9, <2>1, <2>2, <2>6 DEF VInv, Serving
<1> QED BY <1>6, <1>8, <1>9

(* The handlers that write nothing, or end the launcher.                    *)
LEMMA QuietFits ==
    ASSUME IInv, IInv', DInv, VInv, UNCHANGED setup, BootFails \/ StartCheck \/ ServerReady \/ Stop
    PROVE  VInv'
<1>1. /\ TypeOK /\ Typed /\ disk \in Journal /\ Fit(disk, binaries, backups, data, Compat)
      /\ UNCHANGED Stores /\ UNCHANGED <<data, binaries, backups>> /\ Compat' = Compat
      /\ UNCHANGED disk /\ (UNCHANGED faults \/ Fault) /\ paused \in BOOLEAN /\ mem.busy \in BOOLEAN
      /\ OwnerTyped(owner)
  <2>1. TypeOK /\ Typed /\ OwnerTyped(owner) BY TypeParts DEF VInv
  <2>2. /\ UNCHANGED Stores /\ UNCHANGED <<data, binaries, backups>>
        /\ UNCHANGED disk /\ (UNCHANGED faults \/ Fault)
    BY DEF BootFails, StartCheck, ServerReady, Stop, Exit, BootFrame, Stores, store, ghosts, Success
  <2>3. mem.busy \in BOOLEAN BY <2>1 DEF Typed, Journal
  <2> QED BY <2>1, <2>2, <2>3 DEF VInv, Typed, Compat
<1>2. CASE Exit
  <2>1. TypeOK' BY <1>1, <1>2, ExitTyped
  <2> QED BY <1>1, <1>2, <2>1, ExitFits
<1>3. CASE /\ UNCHANGED <<mem, task, launcher, owner, failure>> /\ checking' \in BOOLEAN
           /\ contact' \in {"none", "known", "done"} /\ paused' \in BOOLEAN
  <2>1. TypeOK' BY <1>1, <1>3, TypedWriting DEF Typed
  <2> QED BY <1>1, <1>3, <2>1 DEF VInv, Open
<1>4. CASE /\ mem.busy /\ launcher = "running" /\ launcher' = "stopping"
           /\ UNCHANGED <<mem, task, owner, checking, failure, paused, contact>>
  <2>1. TypeOK' BY <1>1, <1>4, TypedWriting DEF Typed
  <2>2. task.step # "none" /\ launcher \in Serving BY <1>4 DEF IInv, Phases, Serving
  <2> QED BY <1>1, <1>4, <2>1, <2>2 DEF VInv, Open, Serving
<1>5. CASE BootFails BY <1>2, <1>5 DEF BootFails
<1>6. CASE StartCheck BY <1>1, <1>3, <1>6 DEF StartCheck, Typed
<1>7. CASE ServerReady
  <2>1. /\ UNCHANGED <<mem, task, launcher, owner, failure, checking>>
        /\ contact' = IF contact = "none" THEN "known" ELSE contact
        /\ paused' = (mem.busy /\ paused)
    BY <1>7 DEF ServerReady
  <2>2. paused' \in BOOLEAN BY <2>1
  <2>3. contact' \in {"none", "known", "done"} /\ checking' \in BOOLEAN BY <1>1, <2>1 DEF Typed
  <2> QED BY <1>3, <2>1, <2>2, <2>3
<1>8. CASE Stop BY <1>2, <1>4, <1>8 DEF Stop
<1> QED BY <1>5, <1>6, <1>7, <1>8

-----------------------------------------------------------------------------
(* Every step *)

(* The launcher's own.                                                      *)
LEMMA LauncherFits == ASSUME IInv, IInv', DInv, VInv, LauncherStep PROVE VInv'
BY LaunchFits, BootRecoverFits, BootStartFits, CheckResultFits, AcceptFits, HandleFailureFits,
   QuietFits DEF LauncherStep

(* A group is migrated or put back.                                         *)
LEMMA DataFits == ASSUME IInv, IInv', DInv, VInv, DataStep PROVE VInv'
BY MigrateFits, RestoreFits DEF DataStep

(* The steps of the operation.                                              *)
LEMMA TaskFits == ASSUME IInv, IInv', DInv, VInv, TaskStep PROVE VInv'
<1>1. CASE GoBack BY <1>1, OldFits, ReturnedFits, RecoveryFits DEF GoBack, TaskStep
<1>2. CASE Prepare \/ Verify \/ Inspect \/ \E step \in Fallible : StepFails(step)
  BY <1>2, PreparingFits DEF TaskStep
<1>3. CASE \/ StartMigration \/ FinishMigration \/ MigrationFails
           \/ StartCandidate \/ CheckCandidate
  BY <1>3, TryingFits DEF TaskStep
<1>4. UNCHANGED setup BY DEF TaskStep
<1> QED
  BY <1>1, <1>2, <1>3, <1>4, EmitFits, DownloadFits, StopServerFits, BackUpFits, ActivateFits,
     ReopenFits, SettleFits, PruneFits, FinishFits DEF TaskStep

(* The installation starts with the release it was bootstrapped with.       *)
LEMMA InitVInv == Init => VInv
<1> SUFFICES ASSUME Init PROVE VInv
  OBVIOUS
<1>1. Installed \in Releases /\ MaxOperations \in Nat /\ setup \in Setups /\ setup \in Setup
  BY SupervisorAssumption DEF Init
<1>2. /\ Compat[Installed].generation \in Nat /\ MaxFaults \in Nat /\ Public \in BOOLEAN
      /\ Compat[Installed].from <= Compat[Installed].generation
      /\ Compat[Installed].generation <= Compat[Installed].through
  <2>1. Compat[Installed].generation \in Nat /\ MaxFaults \in Nat /\ Public \in BOOLEAN
    BY <1>1 DEF Setup, Compat, MaxFaults, Public
  <2>2. \A v \in Releases : /\ setup.compat[v].from <= setup.compat[v].generation
                            /\ setup.compat[v].generation <= setup.compat[v].through
    BY <1>1, SupervisorAssumption
  <2> QED BY <1>1, <2>1, <2>2 DEF Compat
<1>3. Bootstrap \in Journal /\ NoTask.st = Bootstrap /\ TaskTyped(NoTask)
  <2>1. NoBinary \in Binary /\ [version |-> Installed, op |-> 0] \in Binary
    BY <1>1 DEF NoBinary, Binary
  <2>2. Bootstrap \in Journal
    BY <1>1, <2>1 DEF Bootstrap, Journal, Stages, Terminal
  <2> QED BY <2>1, <2>2 DEF NoTask, TaskTyped, TaskFields
<1>4. /\ setup \in Setups /\ disk = Bootstrap /\ mem = Bootstrap /\ task = NoTask
      /\ launcher = "down" /\ checking = FALSE /\ owner = NoOwner
      /\ data = [g \in Groups |-> Compat[Installed].generation]
      /\ binaries = {0} /\ backups = << >> /\ failure = FALSE /\ paused = Public
      /\ contact = Unknown /\ faults = 0 /\ stale = {} /\ lost = {}
  BY DEF Init
<1>5. IInv BY InitIInv
<1>6. TypeOK
  <2>1. OwnerTyped(NoOwner) BY Owners
  <2>2. Unknown \in {"none", "known", "done"} BY DEF Unknown
  <2>3. Typed BY <1>2, <1>3, <1>4, <2>2 DEF Typed
  <2>4. data \in [Groups -> Nat] BY <1>2, <1>4
  <2>5. StoreTyped BY <1>1, <1>4, <2>4 DEF StoreTyped
  <2> QED BY <1>1, <1>2, <1>4, <1>5, <2>1, <2>3, <2>5, TypeParts
<1>7. Fit(disk, binaries, backups, data, Compat)
  <2>1. /\ disk.current = [version |-> Installed, op |-> 0] /\ disk.previous = NoBinary
        /\ disk.backup = 0 /\ ~disk.dataChanged /\ disk.writesOpened
    BY <1>4 DEF Bootstrap
  <2>2. Stored(disk, binaries, backups) BY <1>1, <1>4, <2>1 DEF Stored, Real
  <2>3. Reads(Installed, data, Compat) BY <1>2, <1>4 DEF Reads, InRange
  <2>4. Sound(disk, data, backups, Compat) BY <2>1, <2>3 DEF Sound, Changed
  <2> QED BY <2>2, <2>4 DEF Fit
<1>8. Holds(owner, disk, data, Compat) BY <1>4 DEF NoOwner, Holds
<1>9. task.step # "prune" BY <1>4 DEF NoTask
<1> QED BY <1>4, <1>6, <1>7, <1>8, <1>9 DEF VInv, Serving

(* No step makes a journal refer to what is not there.                      *)
LEMMA NextVInv == IInv /\ DInv /\ VInv /\ [Next]_vars => VInv'
<1> SUFFICES ASSUME IInv, DInv, VInv, [Next]_vars PROVE VInv'
  OBVIOUS
<1>1. IInv' BY NextIInv
<1>2. CASE UNCHANGED vars
  <2>1. /\ UNCHANGED <<setup, disk, mem, task, launcher, checking, owner, data, binaries, backups>>
        /\ UNCHANGED <<failure, paused, contact, faults, stale, lost>>
    BY <1>2 DEF vars, store, ghosts
  <2>2. TypeOK' BY <2>1 DEF VInv, TypeOK, MaxFaults
  <2> QED BY <2>1, <2>2 DEF VInv, Open, Compat
<1> QED BY <1>1, <1>2, TaskFits, DataFits, LauncherFits, OutsideFits DEF Next

(* Whatever journal is on disk, in memory or in the hands of an operation,  *)
(* the versions it may start are installed and read the data it leaves.     *)
THEOREM VersionInvariant == Spec => []VInv
BY InitVInv, NextVInv, InductiveInvariant, DataInvariant, PTL DEF Spec

(* No pruning deletes a binary or a backup that the journal on disk refers  *)
(* to, whatever was journaled, lost or interrupted before.                  *)
THEOREM ReferencedArtifactsExistAlways == Spec => []ReferencedArtifactsExist
<1>1. VInv => ReferencedArtifactsExist
  <2> SUFFICES ASSUME VInv PROVE ReferencedArtifactsExist
    OBVIOUS
  <2>1. TypeOK /\ Stored(disk, binaries, backups) BY DEF VInv, Fit
  <2> QED BY <2>1 DEF ReferencedArtifactsExist, Stored, Real
<1> QED BY <1>1, VersionInvariant, PTL

(* Between operations the server that writes is the version the journal     *)
(* selects, in memory and on disk.                                          *)
THEOREM ServesSelectedVersionAlways == Spec => []ServesSelectedVersion
<1>1. IInv /\ DInv /\ VInv => ServesSelectedVersion
  <2> SUFFICES ASSUME IInv, DInv, VInv, launcher = "running", ~mem.busy, Alive, owner.active
               PROVE  owner.binary = mem.current /\ disk.current = mem.current
    BY DEF ServesSelectedVersion
  <2>1. launcher \in Serving /\ task.step = "none" BY IdleFacts DEF Serving
  <2>2. mem = disk BY <2>1 DEF DInv, Idle
  <2>3. Open BY DEF Open, Alive
  <2> QED BY <2>1, <2>2, <2>3 DEF VInv
<1> QED BY <1>1, InductiveInvariant, DataInvariant, VersionInvariant, PTL

(* Wherever the machine stops, the journal on disk selects a version that   *)
(* reads the data or marks them for recovery.                               *)
THEOREM RecoverableBoundaryAlways == Spec => []RecoverableBoundary
<1>1. DInv /\ VInv => RecoverableBoundary
  <2> SUFFICES ASSUME DInv, VInv PROVE RecoverableBoundary
    OBVIOUS
  <2>1. Sound(disk, data, backups, Compat) BY DEF VInv, Fit
  <2>2. CASE Changed(disk) BY <2>2 DEF DInv, Bounded, Changed, RecoverableBoundary
  <2>3. CASE ~Changed(disk)
    <3>1. Reads(disk.current.version, data, Compat) BY <2>1, <2>3 DEF Sound
    <3> QED BY <3>1 DEF Reads, InRange, Healthy, Readable, RecoverableBoundary
  <2> QED BY <2>2, <2>3
<1> QED BY <1>1, DataInvariant, VersionInvariant, PTL

(* A server that writes reads the format of every group as it is.           *)
THEOREM WriterReadsDataAlways == Spec => []WriterReadsData
<1>1. VInv => WriterReadsData
  BY DEF VInv, Holds, Reads, InRange, WriterReadsData, Healthy, Readable
<1> QED BY <1>1, VersionInvariant, PTL
=============================================================================
