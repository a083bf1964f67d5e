------------------------- MODULE UpdateSupervisorProofs -------------------------
(* What the journal of UpdateSupervisor never does, for every installation, *)
(* every set of releases and backup groups, and every number of failures.   *)
EXTENDS UpdateSupervisor, TLAPS

JournalFields == {"stage", "busy", "current", "previous", "candidate", "recoveryVersion",
                  "highest", "operation", "backup", "retained", "policy", "dataChanged",
                  "writesOpened", "recovery", "rollback"}
TaskFields    == {"step", "phase", "st", "before", "action", "stopped", "changed"}
OwnerFields   == {"kind", "binary", "active", "orphan"}

Serving   == {"running", "stopping"}
Announces == {"downloading", "verifying", "inspecting", "preparing_backup", "stopping",
              "stopped", "backing_up", "installing", "restarting", "checking", "activating",
              "undo", "undo_commit", "recover", "recover_commit"}
Works     == Announces \cup {"preparing", "undo_health", "restore", "recover_start",
                             "recover_health"}
Boots     == {"boot_recover", "boot_start"}
Closes    == {"prune", "finish"}

(* Journals and tasks are records of their fields.                          *)
Shape ==
    /\ DOMAIN disk = JournalFields /\ DOMAIN mem = JournalFields
    /\ DOMAIN task = TaskFields /\ DOMAIN task.st = JournalFields
    /\ DOMAIN owner = OwnerFields /\ disk.highest \in Nat
    /\ launcher \in {"down", "booting"} \cup Serving

(* The main loop and an operation carry the sequence that is on disk: a     *)
(* check, which alone raises it, runs beside no task.                       *)
Sequence ==
    /\ launcher # "down" => mem.highest = disk.highest
    /\ task.step # "none" => task.st.highest = disk.highest
    /\ checking => launcher = "running" /\ task.step = "none"

(* An operation at work: its journal is marked as busy, with no result.     *)
Live(st) == st.busy /\ st.stage \notin Terminal

(* Who may be at which step.                                                *)
Phases ==
    /\ launcher = "down" => task.step = "none"
    /\ launcher = "booting" =>
          /\ task.step \in Boots /\ task.phase = "work"
          /\ task.step = "boot_recover" => task.st = disk
          /\ task.step = "boot_start" => ~task.st.busy /\ ~disk.busy
    /\ launcher \in Serving =>
          /\ task.step \in Works \cup Closes \cup {"none", "reopen", "settle"}
          /\ task.step # "none" => mem.busy
          /\ task.step = "none" => ~mem.busy
          /\ task.step \in Works => Live(task.st)
          /\ task.phase = "emit" => task.step \in Announces

(* A result that is on disk is in the hands of the goroutine that deletes   *)
(* what it needs no more, or of the next startup.                           *)
Committed ==
    disk.busy /\ disk.stage \in Terminal =>
        \/ launcher = "down"
        \/ /\ task.step \in Closes \cup {"boot_recover"}
           /\ task.st.stage = disk.stage /\ task.st.current = disk.current

(* The public listeners are paused as long as an operation works.           *)
Closed ==
    /\ Public /\ launcher \in Serving /\ task.step \in Works => paused
    /\ owner.kind = "migrate" /\ launcher # "down" =>
          launcher \in Serving /\ task.step = "installing" /\ task.phase = "work"

IInv == Shape /\ Sequence /\ Phases /\ Committed /\ Closed

(* What the journal on disk keeps from one step to the next.                *)
Stays ==
    /\ disk'.highest >= disk.highest
    /\ disk.busy /\ disk.stage \in Terminal =>
          disk'.stage = disk.stage /\ disk'.current = disk.current

-----------------------------------------------------------------------------
(* How an operation may go on: it works on, or it returns.                  *)
Ongoing(t, next) ==
    /\ DOMAIN next = TaskFields /\ DOMAIN next.st = JournalFields
    /\ next.st.highest = t.st.highest
    /\ \/ next.step \in {"reopen", "settle"} /\ next.phase = "work"
       \/ next.step \in Announces /\ next.phase = "emit" /\ Live(next.st)
       \/ next.step \in Works /\ next.phase = "work" /\ Live(next.st)

TaskOK(t) == DOMAIN t = TaskFields /\ DOMAIN t.st = JournalFields

(* An operation that returns keeps the sequence it carries.                 *)
LEMMA ReturnOngoing ==
    ASSUME NEW t, TaskOK(t), NEW st, DOMAIN st = JournalFields, st.highest = t.st.highest
    PROVE  Ongoing(t, Return(t, st))
BY DEF Return, Go, Ongoing, TaskOK, TaskFields, JournalFields

(* So does one that gives up, goes back or recovers.                        *)
LEMMA FailOngoing ==
    ASSUME NEW t, TaskOK(t), Live(t.st)
    PROVE  Ongoing(t, Fail(t)) /\ Ongoing(t, GiveUp(t))
<1>1. \A st : st = [t.st EXCEPT !.stage = "failed"]
                  \/ st = [t.st EXCEPT !.recovery = t.stopped /\ ~t.st.writesOpened,
                                       !.stage = "interrupted"]
              => DOMAIN st = JournalFields /\ st.highest = t.st.highest
  BY DEF TaskOK, JournalFields
<1>2. Ongoing(t, GiveUp(t))
  BY <1>1, ReturnOngoing DEF GiveUp
<1>3. \A step \in {"undo", "recover"} : Ongoing(t, Go(t, step, "emit"))
  BY DEF Go, Ongoing, TaskOK, TaskFields, Announces
<1>4. Ongoing(t, Return(t, [t.st EXCEPT !.recovery = t.stopped /\ ~t.st.writesOpened,
                                        !.stage = "interrupted"]))
  BY <1>1, ReturnOngoing
<1> QED
  BY <1>2, <1>3, <1>4 DEF Fail

(* A step of the operation that leaves the journal alone.                   *)
LEMMA OperationKeeps ==
    ASSUME IInv, launcher \in Serving, task.step \notin Closes \cup {"none"},
           UNCHANGED setup, UNCHANGED disk, UNCHANGED mem, UNCHANGED launcher,
           UNCHANGED checking, Ongoing(task, task'), DOMAIN owner' = OwnerFields,
           owner'.kind = "migrate" => task'.step = "installing" /\ task'.phase = "work",
           Public /\ task'.step \in Works => paused'
    PROVE  IInv'
<1>1. /\ DOMAIN task' = TaskFields /\ DOMAIN task'.st = JournalFields
      /\ task'.st.highest = task.st.highest
      /\ task'.step \in Works \cup {"reopen", "settle"}
      /\ task'.step \in Works => Live(task'.st)
      /\ task'.phase = "emit" => task'.step \in Announces
  BY DEF Ongoing, Works, Announces
<1>2. launcher # "down" /\ launcher # "booting" /\ task.step \notin Boots /\ mem.busy
      /\ task.step # "none" /\ ~checking
  BY DEF IInv, Phases, Sequence, Serving, Boots, Works, Closes, Announces
<1>3. Shape'
  BY <1>1 DEF IInv, Shape
<1>4. Sequence'
  BY <1>1, <1>2 DEF IInv, Sequence
<1>5. Phases'
  BY <1>1, <1>2 DEF IInv, Phases, Serving, Works, Announces
<1>6. Committed'
  BY <1>2 DEF IInv, Committed, Boots
<1>7. Closed'
  BY <1>2 DEF Closed, Public
<1> QED
  BY <1>3, <1>4, <1>5, <1>6, <1>7 DEF IInv

(* What is known of an operation at work.                                   *)
LEMMA AtFacts ==
    ASSUME IInv, NEW step \in Works, NEW phase, At(step, phase)
    PROVE  /\ launcher \in Serving /\ task.step = step /\ task.step \notin Closes \cup {"none"}
           /\ TaskOK(task) /\ Live(task.st) /\ (Public => paused)
           /\ (owner.kind = "migrate" => step = "installing")
           /\ DOMAIN owner = OwnerFields
           /\ \A b, a : DOMAIN Serve(b, a) = OwnerFields /\ Serve(b, a).kind = "server"
           /\ DOMAIN NoOwner = OwnerFields /\ NoOwner.kind = "none"
BY DEF At, IInv, Shape, Phases, Closed, Serving, Works, Closes, Announces, TaskOK, Serve, NoOwner,
       OwnerFields

(* The steps before the server stops.                                       *)
LEMMA PreparingKeeps ==
    ASSUME IInv, UNCHANGED setup,
           Prepare \/ Download \/ Verify \/ Inspect \/ \E step \in Fallible : StepFails(step)
    PROVE  IInv'
<1>1. /\ launcher \in Serving /\ task.step \in Works /\ task.step \notin Closes \cup {"none"}
      /\ TaskOK(task) /\ Live(task.st) /\ (Public => paused)
      /\ owner.kind # "migrate" /\ DOMAIN owner = OwnerFields
      /\ task.step \in {"preparing", "downloading", "verifying", "inspecting", "preparing_backup",
                        "stopped", "stopping", "backing_up", "restarting", "checking"}
  BY AtFacts DEF Prepare, Download, Verify, Inspect, StepFails, Fallible, Works, Announces, At
<1>2. UNCHANGED <<disk, mem, launcher, checking, owner, paused>>
  BY DEF Prepare, Download, Verify, Inspect, StepFails, Quiet, StepFrame
<1>3. task.step \in {"preparing", "downloading", "verifying", "inspecting", "preparing_backup",
                     "stopped"} => Then(task.step) \in Announces
  BY DEF Then, Announces
<1>4. ASSUME NEW c, task.step \in {"preparing", "downloading", "verifying", "inspecting",
                                   "preparing_backup", "stopped"}
      PROVE  /\ Ongoing(task, Next_(task))
             /\ Ongoing(task, Next_([task EXCEPT !.st.candidate = c]))
  <2>1. Then([task EXCEPT !.st.candidate = c].step) \in Announces
    BY <1>1, <1>3, <1>4 DEF TaskOK, TaskFields
  <2>2. Then(task.step) \in Announces
    BY <1>3, <1>4
  <2>3. \A next \in Announces : Ongoing(task, Go(task, next, "emit"))
             /\ Ongoing(task, Go([task EXCEPT !.st.candidate = c], next, "emit"))
    BY <1>1 DEF Go, Ongoing, TaskOK, TaskFields, JournalFields, Live
  <2> QED
    BY <2>1, <2>2, <2>3 DEF Next_
<1>5. Ongoing(task, Fail(task)) /\ Ongoing(task, Return(task, [task.st EXCEPT !.stage = "current"]))
  <2>1. LET st == [task.st EXCEPT !.stage = "current"]
        IN DOMAIN st = JournalFields /\ st.highest = task.st.highest
    BY <1>1 DEF TaskOK, JournalFields
  <2> QED
    BY <1>1, <2>1, FailOngoing, ReturnOngoing
<1>6. Ongoing(task, task')
  <2>1. CASE Prepare
    BY <1>4, <1>5, <2>1 DEF Prepare, At
  <2>2. CASE Download
    BY <1>4, <2>2 DEF Download, At
  <2>3. CASE Verify
    BY <1>4, <1>5, <2>3 DEF Verify, At
  <2>4. CASE Inspect
    BY <1>4, <2>4 DEF Inspect, At
  <2>5. CASE \E step \in Fallible : StepFails(step)
    BY <1>5, <2>5 DEF StepFails
  <2> QED
    BY <2>1, <2>2, <2>3, <2>4, <2>5
<1> QED
  BY <1>1, <1>2, <1>6, OperationKeeps DEF IInv, Shape

(* The steps while the server is stopped, the data migrate, and the         *)
(* candidate is tried.                                                      *)
LEMMA ReplacingKeeps ==
    ASSUME IInv, UNCHANGED setup,
           \/ StopServer \/ BackUp \/ StartMigration \/ FinishMigration \/ MigrationFails
           \/ StartCandidate \/ CheckCandidate
    PROVE  IInv'
<1>1. /\ launcher \in Serving /\ task.step \in Works /\ task.step \notin Closes \cup {"none"}
      /\ TaskOK(task) /\ Live(task.st) /\ (Public => paused)
      /\ DOMAIN owner = OwnerFields /\ (owner.kind = "migrate" => task.step = "installing")
      /\ \A b, a : DOMAIN Serve(b, a) = OwnerFields /\ Serve(b, a).kind = "server"
      /\ DOMAIN NoOwner = OwnerFields /\ NoOwner.kind = "none"
      /\ task.step \in {"stopping", "backing_up", "installing", "restarting", "checking"}
      /\ task.phase = "work"
  BY AtFacts DEF StopServer, BackUp, StartMigration, FinishMigration, MigrationFails, StartCandidate,
                 CheckCandidate, Works, Announces, At
<1>2. UNCHANGED <<disk, mem, launcher, checking>> /\ (UNCHANGED paused \/ paused' = Public)
  BY DEF StopServer, BackUp, StartMigration, FinishMigration, MigrationFails, StartCandidate,
         CheckCandidate, Quiet, StepFrame
<1>3. Then(task.step) \in Announces
  BY <1>1 DEF Then, Announces
<1>4. Ongoing(task, Next_(task)) /\ Ongoing(task, [Next_(task) EXCEPT !.stopped = TRUE])
      /\ \A op : Ongoing(task, [Next_(task) EXCEPT !.st.backup = op])
  <2>1. \A next \in Announces :
            LET t == Go(task, next, "emit")
            IN /\ Ongoing(task, t) /\ Ongoing(task, [t EXCEPT !.stopped = TRUE])
               /\ \A op : Ongoing(task, [t EXCEPT !.st.backup = op])
    BY <1>1 DEF Go, Ongoing, TaskOK, TaskFields, JournalFields, Live
  <2> QED
    BY <1>3, <2>1 DEF Next_
<1>5. Ongoing(task, Fail(task)) /\ Ongoing(task, task)
  BY <1>1, FailOngoing DEF Ongoing, TaskOK
<1>6. Ongoing(task, task')
  <2>1. CASE StopServer
    BY <1>4, <1>5, <2>1 DEF StopServer
  <2>2. CASE BackUp
    BY <1>4, <2>2 DEF BackUp
  <2>3. CASE StartMigration
    BY <1>5, <2>3 DEF StartMigration
  <2>4. CASE FinishMigration \/ MigrationFails
    BY <1>4, <1>5, <2>4 DEF FinishMigration, MigrationFails
  <2>5. CASE StartCandidate \/ CheckCandidate
    BY <1>4, <1>5, <2>5 DEF StartCandidate, CheckCandidate
  <2> QED
    BY <2>1, <2>2, <2>3, <2>4, <2>5
<1>7. /\ DOMAIN owner' = OwnerFields
      /\ owner'.kind = "migrate" => task'.step = "installing" /\ task'.phase = "work"
  <2>1. CASE StartMigration
    BY <1>1, <2>1 DEF StartMigration, NoOwner, OwnerFields, At
  <2>2. CASE StopServer
    BY <1>1, <2>2 DEF StopServer, At
  <2>3. CASE BackUp \/ CheckCandidate
    BY <1>1, <2>3 DEF BackUp, CheckCandidate, Quiet, At
  <2>4. CASE FinishMigration \/ MigrationFails
    BY <1>1, <2>4 DEF FinishMigration, MigrationFails
  <2>5. CASE StartCandidate
    BY <1>1, <2>5 DEF StartCandidate
  <2> QED
    BY <2>1, <2>2, <2>3, <2>4, <2>5
<1>8. Public => paused'
  BY <1>1, <1>2
<1> QED
  BY <1>1, <1>2, <1>6, <1>7, <1>8, OperationKeeps

(* The activation, and the ways back to the predecessor.                    *)
LEMMA EndingKeeps ==
    ASSUME IInv, UNCHANGED setup, Activate \/ GoBack PROVE IInv'
<1>1. /\ launcher \in Serving /\ task.step \in Works /\ task.step \notin Closes \cup {"none"}
      /\ TaskOK(task) /\ Live(task.st) /\ (Public => paused)
      /\ DOMAIN owner = OwnerFields /\ owner.kind # "migrate"
      /\ \A b, a : DOMAIN Serve(b, a) = OwnerFields /\ Serve(b, a).kind = "server"
      /\ DOMAIN NoOwner = OwnerFields /\ NoOwner.kind = "none"
  <2>1. \E step \in Works \ {"installing"} : At(step, "work")
    BY DEF Activate, GoBack, Commit, StartOld, CheckOld, BeginRecovery, FinishRecovery, Works,
           Announces
  <2> QED
    BY <2>1, AtFacts
<1>2. UNCHANGED <<disk, mem, launcher, checking, paused>>
  BY DEF Activate, GoBack, Commit, StartOld, CheckOld, BeginRecovery, FinishRecovery, Quiet, StepFrame
<1>3. \A step \in Works, phase \in {"emit", "work"} :
          (phase = "emit" => step \in Announces) => Ongoing(task, Go(task, step, phase))
  BY <1>1 DEF Go, Ongoing, TaskOK, TaskFields
<1>4. Ongoing(task, GiveUp(task)) /\ Ongoing(task, Fail(task))
  BY <1>1, FailOngoing
<1>5. Ongoing(task, Completed)
  <2> DEFINE st == [task.st EXCEPT !.candidate = NoBinary, !.dataChanged = FALSE,
                        !.recovery = FALSE,
                        !.stage = IF task.action = "rollback" THEN "rolled_back" ELSE "completed"]
  <2>1. DOMAIN st = JournalFields /\ st.highest = task.st.highest
    BY <1>1 DEF TaskOK, JournalFields
  <2> QED
    BY <1>1, <2>1, ReturnOngoing DEF Completed
<1>6. ASSUME NEW t, TaskOK(t), t.st.highest = task.st.highest PROVE Ongoing(task, RolledBack(t))
  <2>1. DOMAIN [t.st EXCEPT !.stage = "rolled_back"] = JournalFields
        /\ [t.st EXCEPT !.stage = "rolled_back"].highest = t.st.highest
    BY <1>6 DEF TaskOK, JournalFields
  <2> QED
    BY <1>6, <2>1, ReturnOngoing DEF RolledBack, Ongoing
<1>7. Ongoing(task, RolledBack(task))
  BY <1>1, <1>6
<1> DEFINE begun == [Go(task, "restore", "work") EXCEPT !.st.recovery = TRUE,
                                                        !.st.dataChanged = task.changed]
           t == [task EXCEPT !.st = Recovered(task.st)]
<1>8. Ongoing(task, begun)
  BY <1>1 DEF Go, Ongoing, TaskOK, TaskFields, JournalFields, Live, Works
<1>9. TaskOK(t) /\ t.st.highest = task.st.highest /\ Live(t.st)
  BY <1>1 DEF TaskOK, TaskFields, JournalFields, Recovered, Live
<1>10. Ongoing(task, RolledBack(t)) /\ Ongoing(task, Go(t, "recover_start", "work"))
  <2>1. Ongoing(task, RolledBack(t))
    <3> HIDE DEF t
    <3> QED
      BY <1>6, <1>9
  <2>2. Ongoing(task, Go(t, "recover_start", "work"))
    <3> HIDE DEF t
    <3> QED
      BY <1>9 DEF Go, Ongoing, TaskOK, TaskFields, Works
  <2> QED
    BY <2>1, <2>2
<1>11. CASE Activate
  <2>1. task' \in {Completed, Fail(task)}
    BY <1>11 DEF Activate, Commit
  <2>2. DOMAIN owner' = OwnerFields /\ owner'.kind # "migrate"
    BY <1>1, <1>11 DEF Activate, Commit, OwnerFields
  <2>3. Ongoing(task, task')
    BY <1>4, <1>5, <2>1
  <2> QED
    BY <1>1, <1>2, <2>2, <2>3, OperationKeeps
<1>12. CASE GoBack
  <2>1. Ongoing(task, task')
    <3>1. CASE BeginRecovery \/ FinishRecovery
      BY <1>4, <1>8, <1>10, <3>1 DEF BeginRecovery, FinishRecovery
    <3>2. CASE StartOld("undo", "undo_health") \/ StartOld("recover_start", "recover_health")
      BY <1>3, <1>4, <3>2 DEF StartOld, Works
    <3>3. CASE CheckOld("undo_health", "undo_commit") \/ CheckOld("recover_health", "recover_commit")
      BY <1>3, <1>4, <3>3 DEF CheckOld, Works, Announces
    <3>4. CASE \/ Commit("undo_commit", RolledBack(task), GiveUp(task))
               \/ Commit("recover_commit", RolledBack(task), GiveUp(task))
      BY <1>4, <1>7, <3>4 DEF Commit
    <3> QED
      BY <1>12, <3>1, <3>2, <3>3, <3>4 DEF GoBack
  <2>2. DOMAIN owner' = OwnerFields /\ owner'.kind # "migrate"
    <3>1. CASE BeginRecovery \/ FinishRecovery
      BY <1>1, <3>1 DEF BeginRecovery, FinishRecovery, Quiet
    <3>2. CASE StartOld("undo", "undo_health") \/ StartOld("recover_start", "recover_health")
      BY <1>1, <3>2 DEF StartOld
    <3>3. CASE CheckOld("undo_health", "undo_commit") \/ CheckOld("recover_health", "recover_commit")
      BY <1>1, <3>3 DEF CheckOld, Quiet
    <3>4. CASE \/ Commit("undo_commit", RolledBack(task), GiveUp(task))
               \/ Commit("recover_commit", RolledBack(task), GiveUp(task))
      BY <1>1, <3>4 DEF Commit, OwnerFields
    <3> QED
      BY <1>12, <3>1, <3>2, <3>3, <3>4 DEF GoBack
  <2> QED
    BY <1>1, <1>2, <2>1, <2>2, OperationKeeps
<1> QED
  BY <1>11, <1>12

(* Public edits are taken again once the operation has returned.            *)
LEMMA ReopenKeeps == ASSUME IInv, UNCHANGED setup, Reopen PROVE IInv'
<1>1. /\ launcher \in Serving /\ task.step = "reopen" /\ TaskOK(task)
      /\ owner.kind # "migrate" /\ UNCHANGED <<disk, mem, launcher, checking, owner>>
  BY DEF Reopen, At, IInv, Shape, Closed, Serving, TaskOK, StepFrame
<1> DEFINE returned == Go(task, "settle", "work")
           failed == [returned EXCEPT !.st.recovery = TRUE, !.st.stage = "failed"]
<1>2. /\ Ongoing(task, returned) /\ returned.step = "settle"
      /\ Ongoing(task, failed) /\ failed.step = "settle"
  BY <1>1 DEF Go, Ongoing, TaskOK, TaskFields, JournalFields
<1>3. task' \in {returned, failed}
  BY DEF Reopen
<1>4. Ongoing(task, task') /\ task'.step = "settle"
  <2> HIDE DEF returned, failed
  <2> QED
    BY <1>2, <1>3
<1> QED
  BY <1>1, <1>4, OperationKeeps DEF Works, Announces, Closes, IInv, Shape

(* What an entry announces, and what is left of it when it is not written.  *)
LEMMA AnnouncedFacts ==
    ASSUME TaskOK(task), Live(task.st), task.step \in Announces
    PROVE  /\ DOMAIN Announced = JournalFields /\ Announced.highest = task.st.highest
           /\ Live(Announced)
           /\ DOMAIN Withdrawn(Announced) = JournalFields
           /\ Withdrawn(Announced).highest = task.st.highest /\ Live(Withdrawn(Announced))
<1>1. task.step \notin Terminal /\ {"rolling_back", "installing", "activating"} \cap Terminal = {}
  BY DEF Announces, Terminal
<1>2. /\ DOMAIN Announced = JournalFields /\ Announced.highest = task.st.highest
      /\ Announced.busy = task.st.busy /\ Announced.stage \notin Terminal
  <2>1. CASE task.step \in {"undo", "recover"}
    BY <1>1, <2>1 DEF Announced, TaskOK, JournalFields
  <2>2. CASE task.step = "stopped"
    BY <1>1, <2>2 DEF Announced, TaskOK, JournalFields, Live
  <2>3. CASE task.step = "installing"
    BY <1>1, <2>3 DEF Announced, Installing, TaskOK, JournalFields
  <2>4. CASE task.step = "activating"
    BY <1>1, <2>4 DEF Announced, Activating, TaskOK, JournalFields
  <2>5. CASE task.step = "undo_commit"
    BY <1>1, <2>5 DEF Announced, TaskOK, JournalFields
  <2>6. CASE task.step = "recover_commit"
    BY <1>1, <2>6 DEF Announced, TaskOK, JournalFields
  <2>7. CASE task.step \notin {"undo", "recover", "stopped", "installing", "activating",
                               "undo_commit", "recover_commit"}
    BY <1>1, <2>7 DEF Announced, TaskOK, JournalFields
  <2> QED
    BY <2>1, <2>2, <2>3, <2>4, <2>5, <2>6, <2>7
<1>3. \A entry : /\ DOMAIN entry = JournalFields
                 => /\ DOMAIN Withdrawn(entry) = JournalFields
                    /\ Withdrawn(entry).highest = entry.highest
                    /\ Withdrawn(entry).busy = entry.busy /\ Withdrawn(entry).stage = entry.stage
  BY DEF Withdrawn, JournalFields
<1> QED
  BY <1>2, <1>3 DEF Live

(* A journal entry on its way: written, or in doubt.                        *)
LEMMA EmitKeeps == ASSUME IInv, UNCHANGED setup, Emit PROVE IInv' /\ Stays
<1>1. /\ launcher \in Serving /\ task.step \in Announces /\ task.step \in Works
      /\ TaskOK(task) /\ Live(task.st) /\ (Public => paused) /\ owner.kind # "migrate"
      /\ task.st.highest = disk.highest /\ mem.highest = disk.highest /\ ~checking /\ mem.busy
      /\ disk.highest \in Nat
  BY DEF Emit, IInv, Shape, Phases, Closed, Sequence, Serving, TaskOK, Works, Announces
<1>2. UNCHANGED <<launcher, checking, owner, paused>>
  BY DEF Emit
<1> DEFINE entry == Announced
           kept == Withdrawn(entry)
           works == [Go(task, task.step, "work") EXCEPT !.st = entry,
                         !.changed = @ \/ task.step = "installing"]
           left == [task EXCEPT !.st = kept]
<1>3. /\ DOMAIN entry = JournalFields /\ entry.highest = task.st.highest /\ Live(entry)
      /\ DOMAIN kept = JournalFields /\ kept.highest = task.st.highest /\ Live(kept)
  BY <1>1, AnnouncedFacts
<1>4. /\ disk' \in {disk, entry} /\ mem' \in {mem, entry}
      /\ \/ task' = works /\ disk' = entry
         \/ task' \in {GiveUp(left), Fail(left)} /\ mem' = mem
  BY DEF Emit, Save, Heard
<1>5. TaskOK(left) /\ left.st.highest = task.st.highest /\ Live(left.st)
  <2> HIDE DEF kept
  <2> QED
    BY <1>1, <1>3 DEF TaskOK, TaskFields
<1>6. Ongoing(left, GiveUp(left)) /\ Ongoing(left, Fail(left))
  <2> HIDE DEF left
  <2> QED
    BY <1>5, FailOngoing
<1>7. Ongoing(task, works)
  <2> HIDE DEF entry
  <2> QED
    BY <1>1, <1>3 DEF Go, Ongoing, TaskOK, TaskFields
<1>8. Ongoing(task, task')
  <2> HIDE DEF left, works
  <2> QED
    BY <1>4, <1>5, <1>6, <1>7 DEF Ongoing
<1> HIDE DEF entry, kept, works, left
<1>9. /\ DOMAIN task' = TaskFields /\ DOMAIN task'.st = JournalFields
      /\ task'.st.highest = task.st.highest
      /\ task'.step \in Works \cup {"reopen", "settle"}
      /\ task'.step \in Works => Live(task'.st)
      /\ task'.phase = "emit" => task'.step \in Announces
  BY <1>8 DEF Ongoing, Works, Announces
<1>10. launcher # "down" /\ launcher # "booting" /\ task.step # "none"
       /\ disk'.highest = disk.highest /\ mem'.highest = mem.highest /\ mem'.busy
  BY <1>1, <1>3, <1>4 DEF Serving, Works, Announces, Live
<1>11. Shape'
  BY <1>1, <1>2, <1>3, <1>4, <1>9, <1>10 DEF IInv, Shape
<1>12. Sequence'
  BY <1>1, <1>2, <1>9, <1>10 DEF Sequence
<1>13. Phases'
  BY <1>1, <1>2, <1>9, <1>10 DEF Phases, Serving, Works, Announces
<1>14. Committed'
  BY <1>1, <1>3, <1>4, <1>10 DEF IInv, Committed, Live, Works, Announces, Closes
<1>15. Closed'
  BY <1>1, <1>2 DEF Closed, Public
<1>16. Stays
  BY <1>1, <1>10 DEF IInv, Committed, Serving, Works, Announces, Closes, Stays
<1> QED
  BY <1>11, <1>12, <1>13, <1>14, <1>15, <1>16 DEF IInv

-----------------------------------------------------------------------------
(* A launcher that leaves, by itself or killed, hands the journal on disk   *)
(* to the next one.                                                         *)
LEMMA DownKeeps ==
    ASSUME DOMAIN disk' = JournalFields, disk'.highest \in Nat, mem' = disk', task' = NoTask,
           launcher' = "down", checking' = FALSE, DOMAIN owner' = OwnerFields
    PROVE  IInv'
BY DEF IInv, Shape, Sequence, Phases, Committed, Closed, NoTask, Bootstrap, TaskFields,
       JournalFields, Serving

(* So does one whose main loop returns.                                     *)
LEMMA ExitKeeps ==
    ASSUME Exit, DOMAIN disk' = JournalFields, disk'.highest \in Nat
    PROVE  IInv'
BY DownKeeps DEF Exit, NoOwner, OwnerFields

(* The offer of a rollback is all that is withdrawn.                        *)
LEMMA RestrictFacts ==
    ASSUME NEW st, DOMAIN st = JournalFields
    PROVE  /\ DOMAIN Restrict(st) = JournalFields
           /\ Restrict(st).highest = st.highest /\ Restrict(st).busy = st.busy
           /\ Restrict(st).stage = st.stage /\ Restrict(st).current = st.current
BY DEF Restrict, JournalFields

(* What is known of the goroutine that ends an operation.                   *)
LEMMA ClosingFacts ==
    ASSUME IInv, NEW step \in {"settle", "prune", "finish"}, At(step, "work")
    PROVE  /\ launcher \in Serving /\ task.step = step /\ TaskOK(task) /\ mem.busy
           /\ ~checking /\ task.st.highest = disk.highest /\ mem.highest = disk.highest
           /\ disk.highest \in Nat /\ owner.kind # "migrate" /\ DOMAIN owner = OwnerFields
           /\ DOMAIN disk = JournalFields /\ DOMAIN mem = JournalFields
BY DEF At, IInv, Shape, Sequence, Phases, Closed, Serving, TaskOK

(* The result is journaled, still busy.                                     *)
LEMMA SettleKeeps == ASSUME IInv, UNCHANGED setup, Settle PROVE IInv' /\ Stays
<1>1. /\ launcher \in Serving /\ task.step = "settle" /\ TaskOK(task) /\ mem.busy
      /\ ~checking /\ task.st.highest = disk.highest /\ mem.highest = disk.highest
      /\ disk.highest \in Nat /\ owner.kind # "migrate" /\ DOMAIN owner = OwnerFields
      /\ DOMAIN disk = JournalFields /\ DOMAIN mem = JournalFields
  BY ClosingFacts DEF Settle, At
<1>2. UNCHANGED <<launcher, checking, owner, paused>>
  BY DEF Settle
<1> DEFINE st == Settled(task.st)
<1>3. DOMAIN st = JournalFields /\ st.highest = task.st.highest /\ st.busy
  BY <1>1 DEF Settled, TaskOK, JournalFields
<1>4. /\ disk' \in {disk, st} /\ mem' \in {mem, st}
      /\ \E step \in Closes : task' = [Go(task, step, "work") EXCEPT !.st = st]
  BY DEF Settle, Save, Heard, Closes
<1> HIDE DEF st
<1>5. /\ DOMAIN task' = TaskFields /\ task'.st = st /\ task'.step \in Closes
      /\ task'.phase = "work"
  BY <1>1, <1>4 DEF Go, TaskOK, TaskFields
<1>6. Shape'
  BY <1>1, <1>2, <1>3, <1>4, <1>5 DEF Shape, Serving
<1>7. Sequence'
  BY <1>1, <1>2, <1>3, <1>4, <1>5 DEF Sequence
<1>8. Phases'
  BY <1>1, <1>2, <1>3, <1>4, <1>5 DEF Phases, Serving, Closes, Works, Announces
<1>9. ~(disk.busy /\ disk.stage \in Terminal)
  BY <1>1 DEF IInv, Committed, Closes, Serving
<1>10. Committed'
  BY <1>4, <1>5, <1>9 DEF Committed
<1>11. Closed'
  BY <1>1, <1>2, <1>5 DEF Closed, Closes, Works, Announces
<1>12. Stays
  BY <1>1, <1>3, <1>4, <1>9 DEF Stays
<1> QED
  BY <1>6, <1>7, <1>8, <1>10, <1>11, <1>12 DEF IInv

(* Artifacts are deleted.                                                   *)
LEMMA PruneKeeps == ASSUME IInv, UNCHANGED setup, Prune PROVE IInv'
<1>1. /\ launcher \in Serving /\ task.step = "prune" /\ TaskOK(task) /\ mem.busy
      /\ ~checking /\ owner.kind # "migrate"
  BY ClosingFacts DEF Prune, At
<1>2. /\ UNCHANGED <<disk, mem, launcher, checking, owner, paused>>
      /\ task' = Go(task, "finish", "work")
  BY DEF Prune
<1>3. /\ DOMAIN task' = TaskFields /\ task'.st = task.st /\ task'.step = "finish"
      /\ task'.phase = "work"
  BY <1>1, <1>2 DEF Go, TaskOK, TaskFields
<1>4. Shape'
  BY <1>1, <1>2, <1>3 DEF IInv, Shape, TaskOK
<1>5. Sequence'
  BY <1>1, <1>2, <1>3 DEF IInv, Sequence
<1>6. Phases'
  BY <1>1, <1>2, <1>3 DEF Phases, Serving, Closes, Works, Announces
<1>7. Committed'
  BY <1>1, <1>2, <1>3 DEF IInv, Committed, Closes
<1>8. Closed'
  BY <1>1, <1>2, <1>3 DEF Closed, Works, Announces
<1> QED
  BY <1>4, <1>5, <1>6, <1>7, <1>8 DEF IInv

(* The main loop takes the result, or leaves.                               *)
LEMMA FinishKeeps == ASSUME IInv, UNCHANGED setup, Finish PROVE IInv' /\ Stays
<1>1. /\ launcher \in Serving /\ task.step = "finish" /\ TaskOK(task) /\ mem.busy
      /\ ~checking /\ task.st.highest = disk.highest /\ mem.highest = disk.highest
      /\ disk.highest \in Nat /\ owner.kind # "migrate" /\ DOMAIN owner = OwnerFields
      /\ DOMAIN disk = JournalFields /\ DOMAIN mem = JournalFields
  BY ClosingFacts DEF Finish, At
<1> DEFINE ended == [task.st EXCEPT !.busy = FALSE]
           st == IF launcher = "stopping" THEN ended ELSE Restrict(ended)
<1>2. DOMAIN ended = JournalFields /\ ended.highest = task.st.highest /\ ended.busy = FALSE
      /\ ended.stage = task.st.stage /\ ended.current = task.st.current
  BY <1>1 DEF TaskOK, JournalFields
<1>3. DOMAIN st = JournalFields /\ st.highest = task.st.highest /\ st.busy = FALSE
      /\ st.stage = task.st.stage /\ st.current = task.st.current
  <2> HIDE DEF ended
  <2> QED
    BY <1>2, RestrictFacts
<1>4. /\ disk' \in {disk, st}
      /\ \/ Exit
         \/ disk' = st /\ mem' = st /\ task' = NoTask /\ UNCHANGED <<launcher, owner, checking>>
  BY DEF Finish, Save
<1> HIDE DEF st, ended
<1>5. DOMAIN disk' = JournalFields /\ disk'.highest = disk.highest
  BY <1>1, <1>3, <1>4
<1>6. ASSUME Exit
      PROVE  IInv'
  BY <1>1, <1>5, <1>6, ExitKeeps
<1>7. ASSUME disk' = st /\ mem' = st /\ task' = NoTask /\ UNCHANGED <<launcher, owner, checking>>
      PROVE  IInv'
  BY <1>1, <1>3, <1>5, <1>7 DEF IInv, Shape, Sequence, Phases, Committed, Closed, NoTask, Bootstrap,
     TaskFields, JournalFields, Serving, Works, Announces
<1>8. Stays
  <2>1. disk.busy /\ disk.stage \in Terminal =>
            task.st.stage = disk.stage /\ task.st.current = disk.current
    BY <1>1 DEF IInv, Committed, Serving
  <2> QED
    BY <1>1, <1>3, <1>4, <1>5, <2>1 DEF Stays
<1> QED
  BY <1>4, <1>6, <1>7, <1>8

-----------------------------------------------------------------------------
(* A step that leaves the journal, the launcher and the goroutine alone.    *)
LEMMA OutsideKeeps ==
    ASSUME IInv, UNCHANGED setup, UNCHANGED disk, UNCHANGED mem, UNCHANGED task,
           UNCHANGED launcher, DOMAIN owner' = OwnerFields,
           checking' => checking \/ (launcher = "running" /\ task.step = "none"),
           paused => paused' \/ ~(launcher \in Serving /\ task.step \in Works),
           owner'.kind = "migrate" => owner.kind = "migrate"
    PROVE  IInv'
<1>1. Shape'
  BY DEF IInv, Shape
<1>2. Sequence'
  BY DEF IInv, Sequence
<1>3. Phases'
  BY DEF IInv, Phases
<1>4. Committed'
  BY DEF IInv, Committed
<1>5. Closed'
  BY DEF IInv, Closed, Public
<1> QED
  BY <1>1, <1>2, <1>3, <1>4, <1>5 DEF IInv

(* A step that leaves the journal on disk alone.                            *)
LEMMA UntouchedStays == ASSUME IInv, UNCHANGED disk PROVE Stays
BY DEF IInv, Shape, Stays

(* A group is migrated or restored.                                         *)
LEMMA DataKeeps == ASSUME IInv, DataStep PROVE IInv'
BY OutsideKeeps DEF DataStep, MigrateGroup, RestoreGroup, IInv, Shape

(* The launcher comes up and reads its journal.                             *)
LEMMA LaunchKeeps == ASSUME IInv, UNCHANGED setup, Launch PROVE IInv'
<1> DEFINE t == [NoTask EXCEPT !.step = "boot_recover", !.st = disk]
           o == [NoOwner EXCEPT !.kind = "launcher"]
<1>1. /\ DOMAIN t = TaskFields /\ t.st = disk /\ t.step = "boot_recover" /\ t.phase = "work"
      /\ DOMAIN o = OwnerFields /\ o.kind = "launcher"
  BY DEF NoTask, NoOwner, TaskFields, OwnerFields
<1>2. /\ launcher = "down" /\ launcher' = "booting" /\ owner' = o /\ mem' = disk /\ task' = t
      /\ UNCHANGED <<disk, checking>>
  BY DEF Launch
<1> HIDE DEF t, o
<1> QED
  BY <1>1, <1>2 DEF IInv, Shape, Sequence, Phases, Committed, Closed, Serving, Boots

(* Startup recovers what it must, and journals that it did.                 *)
LEMMA BootRecoverKeeps == ASSUME IInv, UNCHANGED setup, BootRecover PROVE IInv' /\ Stays
<1>1. /\ launcher = "booting" /\ task.step = "boot_recover" /\ task.st = disk /\ TaskOK(task)
      /\ task.phase = "work" /\ DOMAIN disk = JournalFields /\ disk.highest \in Nat
  BY DEF BootRecover, Booting, IInv, Shape, Phases, TaskOK
<1> DEFINE result == IF MustRecover(task.st) THEN Recovered(task.st) ELSE task.st
           entry == [result EXCEPT !.stage = IF Interrupts(task.st) THEN "failed" ELSE @,
                                   !.busy = FALSE]
<1>2. /\ DOMAIN entry = JournalFields /\ entry.highest = disk.highest /\ entry.busy = FALSE
      /\ disk.stage \in Terminal => entry.stage = disk.stage /\ entry.current = disk.current
  <2>1. /\ DOMAIN result = JournalFields /\ result.highest = disk.highest
        /\ disk.stage \in Terminal => result = disk /\ ~Interrupts(task.st)
    BY <1>1 DEF Recovered, JournalFields, MustRecover, Interrupts
  <2> HIDE DEF result
  <2> QED
    BY <2>1 DEF JournalFields
<1>3. \/ disk' \in {disk, entry} /\ Exit
      \/ /\ disk' \in {disk, entry} /\ (~disk.busy \/ disk' = entry)
         /\ task' = [task EXCEPT !.step = "boot_start", !.st = entry]
         /\ UNCHANGED <<mem, launcher, owner, checking>>
  BY <1>1 DEF BootRecover, Save
<1> HIDE DEF entry, result
<1>4. ASSUME disk' \in {disk, entry} /\ Exit
      PROVE  IInv'
  BY <1>1, <1>2, <1>4, ExitKeeps
<1>5. ASSUME /\ disk' \in {disk, entry} /\ (~disk.busy \/ disk' = entry)
             /\ task' = [task EXCEPT !.step = "boot_start", !.st = entry]
             /\ UNCHANGED <<mem, launcher, owner, checking>>
      PROVE  IInv'
  <2>1. /\ DOMAIN task' = TaskFields /\ task'.st = entry /\ task'.step = "boot_start"
        /\ task'.phase = "work" /\ disk'.highest = disk.highest /\ ~disk'.busy
        /\ DOMAIN disk' = JournalFields
    BY <1>1, <1>2, <1>5 DEF TaskOK, TaskFields
  <2> QED
    BY <1>1, <1>2, <1>5, <2>1 DEF IInv, Shape, Sequence, Phases, Committed, Closed, Serving, Boots
<1>6. Stays
  BY <1>1, <1>2, <1>3 DEF Stays
<1> QED
  BY <1>3, <1>4, <1>5, <1>6

(* The server starts, and the store is settled beside the main loop.        *)
LEMMA BootStartKeeps == ASSUME IInv, UNCHANGED setup, BootStart PROVE IInv' /\ Stays
<1>1. /\ launcher = "booting" /\ task.step = "boot_start" /\ TaskOK(task) /\ ~task.st.busy
      /\ task.phase = "work" /\ DOMAIN disk = JournalFields /\ disk.highest \in Nat
      /\ task.st.highest = disk.highest /\ ~checking
  BY DEF BootStart, Booting, IInv, Shape, Sequence, Phases, TaskOK
<1> DEFINE st == Restrict(task.st)
           m == [st EXCEPT !.busy = TRUE]
<1>2. /\ DOMAIN st = JournalFields /\ st.highest = disk.highest /\ ~st.busy
  BY <1>1, RestrictFacts DEF TaskOK
<1>3. DOMAIN m = JournalFields /\ m.highest = disk.highest /\ m.busy
  <2> HIDE DEF st
  <2> QED
    BY <1>2 DEF JournalFields
<1>4. \/ disk' \in {disk, st} /\ Exit
      \/ /\ disk' = st /\ launcher' = "running" /\ mem' = m
         /\ task' = [task EXCEPT !.step = "settle", !.st = mem']
         /\ owner' = (IF Offline THEN NoOwner ELSE Serve(st.current, TRUE))
         /\ UNCHANGED checking
  BY DEF BootStart, Save
<1>5. /\ DOMAIN NoOwner = OwnerFields /\ NoOwner.kind = "none"
      /\ \A b, a : DOMAIN Serve(b, a) = OwnerFields /\ Serve(b, a).kind = "server"
  BY DEF Serve, NoOwner, OwnerFields
<1> HIDE DEF st, m
<1>6. ASSUME disk' \in {disk, st} /\ Exit
      PROVE  IInv'
  BY <1>1, <1>2, <1>6, ExitKeeps
<1>7. ASSUME /\ disk' = st /\ launcher' = "running" /\ mem' = m
             /\ task' = [task EXCEPT !.step = "settle", !.st = mem']
             /\ owner' = (IF Offline THEN NoOwner ELSE Serve(st.current, TRUE))
             /\ UNCHANGED checking
      PROVE  IInv'
  <2>1. /\ DOMAIN task' = TaskFields /\ task'.st = m /\ task'.step = "settle"
        /\ task'.phase = "work" /\ DOMAIN owner' = OwnerFields /\ owner'.kind # "migrate"
    BY <1>1, <1>5, <1>7 DEF TaskOK, TaskFields
  <2> QED
    BY <1>1, <1>2, <1>3, <1>7, <2>1
       DEF IInv, Shape, Sequence, Phases, Committed, Closed, Serving, Works, Announces
<1>8. Stays
  <2>1. ~disk.busy
    BY <1>1 DEF IInv, Phases
  <2>2. disk' \in {disk, st}
    BY <1>4
  <2>3. disk'.highest = disk.highest
    BY <1>1, <1>2, <2>2
  <2> QED
    BY <1>1, <2>1, <2>3 DEF Stays
<1> QED
  BY <1>4, <1>6, <1>7, <1>8

-----------------------------------------------------------------------------
(* What is known while no operation runs.                                   *)
LEMMA IdleFacts ==
    ASSUME IInv, launcher = "running", ~mem.busy \/ checking
    PROVE  /\ task.step = "none" /\ TaskOK(task) /\ mem.highest = disk.highest /\ ~mem.busy
           /\ DOMAIN mem = JournalFields /\ DOMAIN disk = JournalFields
           /\ DOMAIN owner = OwnerFields /\ disk.highest \in Nat /\ owner.kind # "migrate"
           /\ ~(disk.busy /\ disk.stage \in Terminal)
BY DEF IInv, Shape, Sequence, Phases, Committed, Closed, Serving, TaskOK, Closes

(* A check alone raises the sequence, and never lowers it.                  *)
LEMMA CheckResultKeeps ==
    ASSUME IInv, UNCHANGED setup, NEW sequence \in Releases \cup {0}, CheckResult(sequence)
    PROVE  IInv' /\ Stays
<1> DEFINE raised == [mem EXCEPT !.highest = sequence,
                                 !.stage = IF sequence > mem.current.version
                                           THEN "available" ELSE "current"]
           entry == IF sequence = 0 \/ sequence < mem.highest THEN mem ELSE raised
<1>1. /\ launcher = "running" /\ task.step = "none" /\ TaskOK(task) /\ ~mem.busy
      /\ DOMAIN mem = JournalFields /\ DOMAIN disk = JournalFields
      /\ DOMAIN owner = OwnerFields /\ disk.highest \in Nat /\ mem.highest = disk.highest
      /\ owner.kind # "migrate" /\ ~(disk.busy /\ disk.stage \in Terminal)
  BY IdleFacts DEF CheckResult
<1>2. sequence \in Nat
  <2>1. Releases \subseteq Nat \ {0}
    BY Zenon, SupervisorAssumption
  <2> QED
    BY <2>1
<1>3. /\ DOMAIN entry = JournalFields /\ entry.highest \in Nat /\ entry.highest >= mem.highest
      /\ ~entry.busy
  <2>1. DOMAIN raised = JournalFields /\ raised.highest = sequence /\ ~raised.busy
    BY <1>1 DEF JournalFields
  <2>2. mem.highest \in Nat /\ (~(sequence < mem.highest) => sequence >= mem.highest)
    BY <1>1, <1>2
  <2> HIDE DEF raised
  <2> QED
    BY <1>1, <1>2, <2>1, <2>2
<1>4. /\ disk' \in {disk, entry}
      /\ \/ Exit
         \/ /\ disk' = entry /\ mem' = entry /\ checking' = FALSE
            /\ UNCHANGED <<task, launcher, owner>>
  BY DEF CheckResult, Save
<1> HIDE DEF entry, raised
<1>5. DOMAIN disk' = JournalFields /\ disk'.highest \in Nat /\ disk'.highest >= disk.highest
  BY <1>1, <1>3, <1>4
<1>6. ASSUME Exit
      PROVE  IInv'
  BY <1>5, <1>6, ExitKeeps
<1>7. ASSUME /\ disk' = entry /\ mem' = entry /\ checking' = FALSE
             /\ UNCHANGED <<task, launcher, owner>>
      PROVE  IInv'
  BY <1>1, <1>3, <1>5, <1>7
     DEF IInv, Shape, Sequence, Phases, Committed, Closed, Serving, Works, Announces, TaskOK
<1>8. Stays
  BY <1>1, <1>5 DEF Stays
<1> QED
  BY <1>4, <1>6, <1>7, <1>8

(* An operation is accepted, and the public listeners are paused first.     *)
LEMMA AcceptKeeps ==
    ASSUME IInv, UNCHANGED setup, NEW action, NEW policy, Accept(action, policy)
    PROVE  IInv' /\ Stays
<1> DEFINE entry == Accepted(policy)
           t == [NoTask EXCEPT !.step = "preparing", !.st = entry, !.before = mem.previous,
                               !.action = action]
<1>1. /\ launcher = "running" /\ task.step = "none" /\ TaskOK(task) /\ ~mem.busy
      /\ DOMAIN mem = JournalFields /\ DOMAIN disk = JournalFields
      /\ DOMAIN owner = OwnerFields /\ disk.highest \in Nat /\ mem.highest = disk.highest
      /\ owner.kind # "migrate" /\ ~(disk.busy /\ disk.stage \in Terminal) /\ ~checking
  BY IdleFacts DEF Accept, Acceptable
<1>2. /\ DOMAIN entry = JournalFields /\ entry.highest = mem.highest /\ Live(entry)
  BY <1>1 DEF Accepted, JournalFields, Live, Terminal
<1>3. /\ disk' \in {disk, entry}
      /\ \/ Exit
         \/ /\ disk' = entry /\ mem' = entry /\ task' = t /\ paused' = Public
            /\ UNCHANGED <<launcher, owner, checking>>
  BY DEF Accept, Save
<1>4. /\ DOMAIN t = TaskFields /\ t.st = entry /\ t.step = "preparing" /\ t.phase = "work"
  BY DEF NoTask, TaskFields
<1> HIDE DEF entry, t
<1>5. DOMAIN disk' = JournalFields /\ disk'.highest = disk.highest
  BY <1>1, <1>2, <1>3
<1>6. ASSUME Exit
      PROVE  IInv'
  BY <1>1, <1>5, <1>6, ExitKeeps
<1>7. ASSUME /\ disk' = entry /\ mem' = entry /\ task' = t /\ paused' = Public
             /\ UNCHANGED <<launcher, owner, checking>>
      PROVE  IInv'
  <2>1. Shape' /\ Sequence'
    BY <1>1, <1>2, <1>4, <1>5, <1>7 DEF IInv, Shape, Sequence
  <2>2. Phases' /\ Committed'
    BY <1>1, <1>2, <1>4, <1>5, <1>7 DEF Phases, Committed, Serving, Works, Announces, Live
  <2>3. Closed'
    BY <1>1, <1>7 DEF Closed, Public
  <2> QED
    BY <2>1, <2>2, <2>3 DEF IInv
<1>8. Stays
  BY <1>1, <1>5 DEF Stays
<1> QED
  BY <1>3, <1>6, <1>7, <1>8

(* The public server failed: the journal asks for a recovery.               *)
LEMMA HandleFailureKeeps == ASSUME IInv, UNCHANGED setup, HandleFailure PROVE IInv' /\ Stays
<1> DEFINE entry == [mem EXCEPT !.recovery = TRUE, !.stage = "failed"]
<1>1. /\ launcher = "running" /\ DOMAIN disk = JournalFields /\ DOMAIN mem = JournalFields
      /\ mem.highest = disk.highest /\ disk.highest \in Nat
  BY DEF HandleFailure, IInv, Shape, Sequence
<1>2. /\ DOMAIN entry = JournalFields /\ entry.highest = mem.highest /\ entry.busy = mem.busy
      /\ entry.stage \notin Terminal
  BY <1>1 DEF JournalFields, Terminal
<1>3. \/ UNCHANGED <<disk, mem, task, launcher, owner, checking, paused>>
      \/ ~mem.busy /\ disk' \in {disk, entry} /\ Exit
      \/ /\ ~mem.busy /\ disk' = entry /\ mem' = entry /\ paused' = TRUE
         /\ UNCHANGED <<task, launcher, owner, checking>>
  BY DEF HandleFailure, Save
<1> HIDE DEF entry
<1>4. ASSUME UNCHANGED <<disk, mem, task, launcher, owner, checking, paused>>
      PROVE  IInv'
  BY <1>4, OutsideKeeps DEF IInv, Shape
<1>5. ASSUME disk' \in {disk, entry} /\ Exit
      PROVE  IInv'
  BY <1>1, <1>2, <1>5, ExitKeeps
<1>6. ASSUME /\ ~mem.busy /\ disk' = entry /\ mem' = entry /\ paused' = TRUE
             /\ UNCHANGED <<task, launcher, owner, checking>>
      PROVE  IInv'
  BY <1>1, <1>2, <1>6
     DEF IInv, Shape, Sequence, Phases, Committed, Closed, Serving, Works, Announces, TaskOK
<1>7. Stays
  <2>1. CASE UNCHANGED disk
    BY <1>1, <2>1 DEF Stays
  <2>2. CASE ~mem.busy /\ disk' \in {disk, entry}
    <3>1. ~(disk.busy /\ disk.stage \in Terminal)
      BY <1>1, <2>2, IdleFacts
    <3> QED
      BY <1>1, <1>2, <2>2, <3>1 DEF Stays
  <2> QED
    BY <1>3, <2>1, <2>2
<1> QED
  BY <1>3, <1>4, <1>5, <1>6, <1>7

(* The remaining handlers of the launcher.                                  *)
LEMMA LauncherKeeps == ASSUME IInv, LauncherStep PROVE IInv' /\ Stays
<1>1. UNCHANGED setup
  BY DEF LauncherStep
<1>2. CASE BootRecover \/ BootStart \/ HandleFailure
  BY <1>1, <1>2, BootRecoverKeeps, BootStartKeeps, HandleFailureKeeps
<1>3. CASE Launch
  BY <1>1, <1>3, LaunchKeeps, UntouchedStays DEF Launch
<1>4. CASE BootFails
  BY <1>4, ExitKeeps, UntouchedStays DEF BootFails, IInv, Shape
<1>5. CASE StartCheck
  <2>1. task.step = "none"
    BY <1>5 DEF StartCheck, IInv, Phases, Serving
  <2> QED
    BY <1>1, <1>5, <2>1, OutsideKeeps, UntouchedStays DEF StartCheck, IInv, Shape
<1>6. CASE \E sequence \in Releases \cup {0} : CheckResult(sequence)
  BY <1>1, <1>6, CheckResultKeeps
<1>7. CASE \E action \in {"upgrade", "rollback"}, policy \in Policies : Accept(action, policy)
  BY <1>1, <1>7, AcceptKeeps
<1>8. CASE ServerReady
  <2>1. paused => paused' \/ ~(launcher \in Serving /\ task.step \in Works)
    BY <1>8 DEF ServerReady, IInv, Phases, Serving, Works, Announces
  <2> QED
    BY <1>1, <1>8, <2>1, OutsideKeeps, UntouchedStays DEF ServerReady, IInv, Shape
<1>9. CASE Stop
  <2>1. CASE Exit /\ UNCHANGED disk
    BY <2>1, ExitKeeps, UntouchedStays DEF IInv, Shape
  <2>2. CASE /\ launcher = "running" /\ mem.busy /\ launcher' = "stopping"
             /\ UNCHANGED <<disk, mem, task, owner, checking, paused>>
    <3>1. task.step # "none"
      BY <2>2 DEF IInv, Phases, Serving
    <3> QED
      BY <1>1, <2>2, <3>1, UntouchedStays
         DEF IInv, Shape, Sequence, Phases, Committed, Closed, Serving, Public
  <2> QED
    BY <1>9, <2>1, <2>2 DEF Stop
<1> QED
  BY <1>2, <1>3, <1>4, <1>5, <1>6, <1>7, <1>8, <1>9 DEF LauncherStep

(* The processes and the machine.                                           *)
LEMMA OutsideStepKeeps == ASSUME IInv, OutsideStep PROVE IInv'
<1>1. UNCHANGED setup
  BY DEF OutsideStep
<1>2. DOMAIN NoOwner = OwnerFields /\ NoOwner.kind = "none" /\ DOMAIN owner = OwnerFields
  BY DEF NoOwner, OwnerFields, IInv, Shape
<1>3. CASE \E g \in Groups : AcceptWrite(g)
  BY <1>1, <1>2, <1>3, OutsideKeeps DEF AcceptWrite
<1>4. CASE ServerDies
  BY <1>1, <1>2, <1>4, OutsideKeeps DEF ServerDies
<1>5. CASE OrphanExits
  BY <1>1, <1>2, <1>5, OutsideKeeps DEF OrphanExits
<1>6. CASE Crash
  <2>1. DOMAIN owner' = OwnerFields
    BY <1>2, <1>6 DEF Crash, OwnerFields
  <2> QED
    BY <1>6, <2>1, DownKeeps DEF Crash, IInv, Shape
<1> QED
  BY <1>3, <1>4, <1>5, <1>6 DEF OutsideStep

(* The steps of the operation.                                              *)
LEMMA TaskKeeps == ASSUME IInv, TaskStep PROVE IInv' /\ Stays
<1>1. UNCHANGED setup
  BY DEF TaskStep
<1>2. CASE Emit \/ Settle \/ Finish
  BY <1>1, <1>2, EmitKeeps, SettleKeeps, FinishKeeps
<1>3. CASE Prepare \/ Download \/ Verify \/ Inspect \/ \E step \in Fallible : StepFails(step)
  <2>1. UNCHANGED disk
    BY <1>3 DEF Prepare, Download, Verify, Inspect, StepFails, Quiet, StepFrame
  <2> QED
    BY <1>1, <1>3, <2>1, PreparingKeeps, UntouchedStays
<1>4. CASE \/ StopServer \/ BackUp \/ StartMigration \/ FinishMigration \/ MigrationFails
           \/ StartCandidate \/ CheckCandidate
  <2>1. UNCHANGED disk
    BY <1>4 DEF StopServer, BackUp, StartMigration, FinishMigration, MigrationFails,
                StartCandidate, CheckCandidate, Quiet, StepFrame
  <2> QED
    BY <1>1, <1>4, <2>1, ReplacingKeeps, UntouchedStays
<1>5. CASE Activate \/ GoBack
  <2>1. UNCHANGED disk
    BY <1>5 DEF Activate, GoBack, Commit, StartOld, CheckOld, BeginRecovery, FinishRecovery, Quiet,
                StepFrame
  <2> QED
    BY <1>1, <1>5, <2>1, EndingKeeps, UntouchedStays
<1>6. CASE Reopen \/ Prune
  BY <1>1, <1>6, ReopenKeeps, PruneKeeps, UntouchedStays DEF Reopen, Prune, StepFrame
<1> QED
  BY <1>2, <1>3, <1>4, <1>5, <1>6 DEF TaskStep

-----------------------------------------------------------------------------
(* The installation starts with the journal of bootstrap.                   *)
LEMMA InitIInv == Init => IInv
BY DEF Init, IInv, Shape, Sequence, Phases, Committed, Closed, NoTask, Bootstrap, NoOwner,
       TaskFields, JournalFields, OwnerFields, Serving, Terminal

(* No step disturbs the invariant or takes back what is on disk.            *)
LEMMA NextIInv == IInv /\ [Next]_vars => IInv' /\ Stays
<1> SUFFICES ASSUME IInv, [Next]_vars PROVE IInv' /\ Stays
  OBVIOUS
<1>1. CASE TaskStep \/ LauncherStep
  BY <1>1, TaskKeeps, LauncherKeeps
<1>2. CASE DataStep
  BY <1>2, DataKeeps, UntouchedStays DEF DataStep, MigrateGroup, RestoreGroup
<1>3. CASE OutsideStep
  BY <1>3, OutsideStepKeeps, UntouchedStays
     DEF OutsideStep, AcceptWrite, ServerDies, Crash, OrphanExits
<1>4. CASE UNCHANGED vars
  BY <1>4, OutsideKeeps, UntouchedStays DEF vars, IInv, Shape
<1> QED
  BY <1>1, <1>2, <1>3, <1>4 DEF Next

(* In every state the goroutine, the main loop and the disk agree as far as *)
(* the following theorems need.                                             *)
THEOREM InductiveInvariant == Spec => []IInv
BY InitIInv, NextIInv, PTL DEF Spec

(* Edits of the public site are refused while a migration or a restoration  *)
(* replaces the data, whatever the server reports meanwhile.                *)
THEOREM ClosedDuringMigrationAlways == Spec => []ClosedDuringMigration
<1>1. IInv => ClosedDuringMigration
  BY DEF IInv, Phases, Closed, ClosedDuringMigration, Serving, Works, Announces, Shape, Boots
<1> QED
  BY <1>1, InductiveInvariant, PTL

(* The official sequence on disk never goes back: a replayed older manifest *)
(* is refused whatever checks, operations, failed writes and crashes did.   *)
THEOREM SequenceNeverDropsAlways == Spec => SequenceNeverDrops
<1>1. IInv /\ [Next]_vars => [disk'.highest >= disk.highest]_vars
  BY NextIInv DEF Stays
<1> QED
  BY <1>1, InductiveInvariant, PTL DEF Spec, SequenceNeverDrops

(* A result on disk is never judged again, neither by the goroutine that    *)
(* cleans up nor by any number of restarts.                                 *)
THEOREM CommittedStaysAlways == Spec => CommittedStays
<1>1. IInv /\ [Next]_vars =>
          [disk.busy /\ disk.stage \in Terminal
              => disk'.stage = disk.stage /\ disk'.current = disk.current]_vars
  BY NextIInv DEF Stays
<1> QED
  BY <1>1, InductiveInvariant, PTL DEF Spec, CommittedStays
=============================================================================
