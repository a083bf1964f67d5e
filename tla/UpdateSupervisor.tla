--------------------------- MODULE UpdateSupervisor ---------------------------
(***************************************************************************)
(* The version supervisor of an installation: pkg/appupdate.               *)
(*                                                                         *)
(* The launcher (Run) owns a journal (state.json), the store of installed  *)
(* binaries and backups, and one server process.  An operation (perform)   *)
(* runs beside the main loop and hands every journal entry to it; it stops *)
(* the server, saves the data, lets the candidate migrate them, tries it   *)
(* in probation and opens it for writes.  Any step may fail, any journal   *)
(* write may fail before or after it reached the disk, the server may die, *)
(* and the launcher may crash: the next one recovers from the journal.     *)
(*                                                                         *)
(* The data are abstracted to one format generation per backup group; the  *)
(* ghosts stale and lost say which copies miss a write a server accepted.  *)
(***************************************************************************)
EXTENDS Naturals, FiniteSets

CONSTANTS
    Groups,         \* backup groups: databases, analytics, files, settings
    Releases,       \* official releases by their sequence number
    Installed,      \* the release the installation was bootstrapped with
    Capable,        \* releases known to work behind the public listeners
    Setups,         \* the installations considered, see Setup
    MaxOperations

(* An installation: the Compatibility each release declares, options.Stopped*)
(* (offline: a maintenance launcher, no server), options.PublicState is set *)
(* (public: the launcher serves the site), the backup policies an operator  *)
(* may choose, and how many failures are considered.                        *)
Setup ==
    [compat : [Releases -> [generation : Nat, from : Nat, through : Nat,
                            migrates : Nat, writes : BOOLEAN]],
     offline : BOOLEAN, public : BOOLEAN,
     policies : SUBSET SUBSET Groups, faults : Nat]

ASSUME SupervisorAssumption ==
    /\ IsFiniteSet(Groups)
    /\ Releases \subseteq Nat \ {0}
    /\ Installed \in Releases
    /\ Capable \subseteq Releases
    /\ Setups \subseteq Setup
    \* what a release author owes: a release reads its own format, and
    \* formats only move forward
    /\ \A s \in Setups :
          /\ \A v \in Releases : /\ s.compat[v].from <= s.compat[v].generation
                                 /\ s.compat[v].generation <= s.compat[v].through
                                 /\ s.compat[v].migrates <= s.compat[v].from
          /\ \A v, w \in Releases :
                v <= w => s.compat[v].generation <= s.compat[w].generation
    /\ MaxOperations \in Nat

VARIABLES
    setup,      \* the installation, which never changes
    disk,       \* state.json
    mem,        \* the main loop's copy
    task,       \* the goroutine beside it: perform, settleOperation, or startup
    launcher,   \* down, booting, running, or stopping (stop is closed)
    checking,   \* a release check is under way
    owner,      \* who holds the data: a process with the ServerSession
    data,       \* data[g]: the format generation of group g
    binaries, backups,      \* what the store holds
    failure,    \* worker.failures holds the exit of a server
    paused,     \* the public listeners refuse edits
    contact,    \* startup: none, known (server_ready arrived), done
    faults,     \* failures so far, at most MaxFaults
    stale, lost \* ghosts: copies without an accepted write; groups that lost one

store   == <<binaries, backups>>
ghosts  == <<stale, lost>>
vars == <<setup, disk, mem, task, launcher, checking, owner, data, store, failure,
          paused, contact, faults, ghosts>>

Compat    == setup.compat
Offline   == setup.offline
Public    == setup.public
Policies  == setup.policies
MaxFaults == setup.faults

Operations == 1..MaxOperations

NoBinary == [version |-> 0, op |-> 0]
Binary   == [version : Releases, op : 0..MaxOperations] \cup {NoBinary}

Terminal == {"completed", "rolled_back"}
Stages   == {"downloading", "verifying", "inspecting", "preparing_backup", "stopping",
             "backing_up", "installing", "restarting", "checking", "activating"}
Journal ==
    [stage : Stages \cup Terminal \cup
             {"current", "available", "preparing", "rolling_back", "failed", "interrupted"},
     busy : BOOLEAN, current : Binary, previous : Binary, candidate : Binary,
     recoveryVersion : Binary, highest : Releases \cup {0},
     operation : 0..MaxOperations, backup : 0..MaxOperations,
     retained : 0..MaxOperations, policy : SUBSET Groups,
     dataChanged : BOOLEAN, writesOpened : BOOLEAN, recovery : BOOLEAN,
     rollback : BOOLEAN]

NoOwner == [kind |-> "none", binary |-> NoBinary, active |-> FALSE, orphan |-> FALSE]
Serve(b, active) == [NoOwner EXCEPT !.kind = "server", !.binary = b, !.active = active]

(* bootstrap: the installed release, never updated.                         *)
Bootstrap ==
    [stage |-> "current", busy |-> FALSE,
     current |-> [version |-> Installed, op |-> 0],
     previous |-> NoBinary, candidate |-> NoBinary, recoveryVersion |-> NoBinary,
     highest |-> 0, operation |-> 0, backup |-> 0, retained |-> 0, policy |-> {},
     dataChanged |-> FALSE, writesOpened |-> TRUE, recovery |-> FALSE, rollback |-> FALSE]

(* phase emit: about to journal step; work: doing it.                       *)
NoTask == [step |-> "none", phase |-> "work", st |-> Bootstrap, before |-> NoBinary,
           action |-> "none", stopped |-> FALSE, changed |-> FALSE]

(* Without public listeners nobody waits for the server's address.          *)
Unknown == IF Public THEN "none" ELSE "done"

Init ==
    /\ setup \in Setups
    /\ disk = Bootstrap /\ mem = Bootstrap /\ task = NoTask
    /\ launcher = "down" /\ checking = FALSE /\ owner = NoOwner
    /\ data = [g \in Groups |-> Compat[Installed].generation]
    /\ binaries = {0} /\ backups = << >>
    /\ failure = FALSE /\ paused = Public /\ contact = Unknown /\ faults = 0
    /\ stale = {} /\ lost = {}

-----------------------------------------------------------------------------
(* Compatibility *)

(* canRollback: p may run again on data that c has written.                 *)
CanRollback(p, c) ==
    /\ Compat[c.version].writes
    /\ Compat[p.version].from <= Compat[c.version].generation
    /\ Compat[c.version].generation <= Compat[p.version].through

(* -update-preflight and -update-migrate refuse a source that is too old or *)
(* newer than what they know; health wants data that are fully migrated.    *)
CanMigrate(v, g) == Compat[v].migrates <= data[g] /\ data[g] <= Compat[v].through
Readable(v, g)   == Compat[v].from <= data[g] /\ data[g] <= Compat[v].through

Preflight(v) == \A g \in Groups : CanMigrate(v, g)
Healthy(v)   == \A g \in Groups : Readable(v, g)

(* restrictPublicRollback                                                   *)
Restrict(st) ==
    IF Public /\ st.previous # NoBinary /\ st.previous.version \notin Capable
    THEN [st EXCEPT !.rollback = FALSE] ELSE st

-----------------------------------------------------------------------------
(* Failures *)

Fault   == faults < MaxFaults /\ faults' = faults + 1
Success == UNCHANGED faults

(* A step that waits for the operation's session fails when the service     *)
(* stops; otherwise a failure is a fault.                                   *)
Interrupted == IF launcher = "stopping" THEN UNCHANGED faults ELSE Fault

(* atomicJSON: renamed, then the directory is synced.  An error leaves the  *)
(* old journal or the new one on disk.                                      *)
Save(entry, good) ==
    IF good THEN disk' = entry /\ Success ELSE Fault /\ disk' \in {disk, entry}

(* Run returns: the process controller stops the server and waits for it.   *)
Exit ==
    /\ launcher' = "down"
    /\ mem' = disk' /\ task' = NoTask
    /\ owner' = NoOwner
    /\ checking' = FALSE /\ failure' = FALSE /\ paused' = Public /\ contact' = Unknown

(* A stopping launcher writes what it is handed and forgets it.             *)
Heard(entry) == IF launcher = "stopping" THEN mem ELSE entry

-----------------------------------------------------------------------------
(* The operation: helpers on task *)

At(step, phase) ==
    /\ launcher \in {"running", "stopping"}
    /\ task.step = step /\ task.phase = phase

Go(t, step, phase) == [t EXCEPT !.step = step, !.phase = phase]

(* perform returns st: with public listeners and nothing to recover they    *)
(* are opened again first, then settleOperation takes over.                 *)
Return(t, st) ==
    LET reopen == Public /\ ~st.recovery /\ launcher # "stopping"
    IN  [Go(t, IF reopen THEN "reopen" ELSE "settle", "work")
           EXCEPT !.st = [st EXCEPT !.busy = FALSE]]

GiveUp(t) == Return(t, [t.st EXCEPT !.stage = "failed"])

\* mutant: the snapshot is put back whatever was written since
RestoreWhenStopped(t) == t.stopped

(* Only data nobody has written to since the stop may be put back.          *)
MayRestore(t) == t.stopped /\ ~t.st.writesOpened

(* fail(cause): on shutdown leave the boundary to the next launcher; after  *)
(* activation return to a compatible predecessor without touching the data; *)
(* before it, restore the data.                                             *)
Fail(t) ==
    LET st == t.st
        old == st.recoveryVersion
    IN  IF launcher = "stopping"
        THEN Return(t, [st EXCEPT !.recovery = t.stopped /\ ~st.writesOpened,
                                  !.stage = "interrupted"])
        ELSE IF /\ t.stopped /\ st.writesOpened /\ ~Offline
                /\ st.current # old /\ CanRollback(old, st.current)
        THEN Go(t, "undo", "emit")
        ELSE IF MayRestore(t) THEN Go(t, "recover", "emit")
        ELSE GiveUp(t)

\* mutants: migration not journaled before it starts, candidate not selected
InstallingSilently(st) == [st EXCEPT !.stage = "installing"]
ActivatingUnselected(st) ==
    [st EXCEPT !.stage = "activating", !.writesOpened = TRUE, !.recovery = FALSE]

(* The two entries that move the recovery boundary: from here on the data   *)
(* are no longer those of the old version, and from here on they are the    *)
(* candidate's for good.                                                    *)
Installing(st) == [st EXCEPT !.stage = "installing", !.dataChanged = TRUE]

Activating(st) ==
    [st EXCEPT !.stage = "activating", !.previous = st.recoveryVersion,
               !.current = st.candidate, !.writesOpened = TRUE,
               !.rollback = CanRollback(st.recoveryVersion, st.candidate),
               !.recovery = FALSE]

(* The journal entry a step is announced with.                              *)
Announced ==
    LET st == task.st
        old == st.recoveryVersion
    IN CASE task.step \in {"undo", "recover"} -> [st EXCEPT !.stage = "rolling_back"]
         [] task.step = "stopped" -> [st EXCEPT !.recovery = TRUE]
         [] task.step = "installing" -> Installing(st)
         [] task.step = "activating" -> Activating(st)
         [] task.step = "undo_commit" ->
                [st EXCEPT !.stage = "rolling_back", !.previous = task.before,
                           !.current = old, !.candidate = NoBinary,
                           !.rollback = task.before # NoBinary /\ CanRollback(task.before, old)]
         [] task.step = "recover_commit" ->
                [st EXCEPT !.stage = "rolling_back", !.writesOpened = TRUE]
         [] OTHER -> [st EXCEPT !.stage = task.step]

(* What the operation keeps in hand when that entry could not be written.   *)
Withdrawn(entry) ==
    CASE task.step = "installing" -> [entry EXCEPT !.dataChanged = FALSE]
      [] task.step = "activating" ->
             [entry EXCEPT !.writesOpened = FALSE, !.recovery = TRUE]
      [] OTHER -> entry

Undoing == {"undo", "undo_commit", "recover", "recover_commit"}

(* emit and persist: the main loop writes the entry and answers.            *)
Emit ==
    /\ launcher \in {"running", "stopping"} /\ task.phase = "emit"
    /\ \E good \in BOOLEAN :
          /\ Save(Announced, good)
          /\ IF good
             THEN /\ mem' = Heard(Announced)
                  /\ task' = [Go(task, task.step, "work") EXCEPT
                                 !.st = Announced,
                                 !.changed = @ \/ task.step = "installing"]
             ELSE LET t == [task EXCEPT !.st = Withdrawn(Announced)] IN
                  /\ task' = IF task.step \in Undoing THEN GiveUp(t) ELSE Fail(t)
                  /\ UNCHANGED mem
    /\ UNCHANGED <<launcher, checking, owner, data, store, failure, paused,
                   contact, ghosts>>

-----------------------------------------------------------------------------
(* The operation: its steps.  Each either succeeds or ends in fail.         *)

Alive == owner.kind = "server" /\ ~owner.orphan

(* What a step leaves alone; it may replace task, owner, data and faults.   *)
StepFrame == UNCHANGED <<disk, mem, launcher, checking, failure, contact>>
Quiet     == StepFrame /\ UNCHANGED <<owner, data, store, paused, ghosts>>

StepFails(step) == At(step, "work") /\ Interrupted /\ task' = Fail(task) /\ Quiet

(* The order of the stages; without a backup group nothing is copied.       *)
Then(step) ==
    LET backup == task.st.policy # {} IN
    CASE step = "preparing"        -> IF task.action = "upgrade" THEN "downloading"
                                      ELSE IF backup THEN "inspecting" ELSE "stopping"
      [] step = "downloading"      -> "verifying"
      [] step = "verifying"        -> IF backup THEN "inspecting" ELSE "stopping"
      [] step = "inspecting"       -> "preparing_backup"
      [] step = "preparing_backup" -> "stopping"
      [] step = "stopping"         -> "stopped"
      [] step = "stopped"          -> IF backup THEN "backing_up" ELSE "installing"
      [] step = "backing_up"       -> "installing"
      [] step = "installing"       -> "restarting"
      [] step = "restarting"       -> "checking"
      [] step = "checking"         -> "activating"

Next_(t) == Go(t, Then(t.step), "emit")

(* The server contact, the release that was confirmed, and the contract     *)
(* between it and the installed generation.                                 *)
Prepare ==
    LET st == task.st
        old == st.current
        c == Compat[st.highest]
        refused == IF task.action = "upgrade"
                   THEN \/ c.migrates > Compat[old.version].generation
                        \/ c.through < Compat[old.version].generation
                   ELSE ~CanRollback(st.previous, old)
    IN
    /\ At("preparing", "work") /\ Success
    /\ task' =
          IF ~Offline /\ ~Alive THEN Fail(task)
          ELSE IF task.action = "upgrade" /\ st.highest <= old.version
          THEN Return(task, [st EXCEPT !.stage = "current"])
          ELSE IF refused THEN Fail(task)
          ELSE IF task.action = "upgrade" THEN Next_(task)
          ELSE Next_([task EXCEPT !.st.candidate = st.previous])
    /\ Quiet

Download ==
    /\ At("downloading", "work") /\ Success
    /\ binaries' = binaries \cup {task.st.operation}
    /\ task' = Next_(task)
    /\ StepFrame /\ UNCHANGED <<owner, data, backups, paused, ghosts>>

Verify ==
    LET candidate == [version |-> task.st.highest, op |-> task.st.operation] IN
    /\ At("verifying", "work") /\ Success
    /\ task' = IF Preflight(candidate.version)
               THEN Next_([task EXCEPT !.st.candidate = candidate])
               ELSE Fail(task)
    /\ Quiet

Inspect == \E step \in {"inspecting", "preparing_backup", "stopped"} :
    At(step, "work") /\ Success /\ task' = Next_(task) /\ Quiet

(* The public side takes a last snapshot, then the server closes its        *)
(* databases and releases the session.                                      *)
StopServer ==
    /\ At("stopping", "work") /\ Success
    /\ IF Public /\ ~Alive
       THEN task' = Fail(task) /\ UNCHANGED <<owner, paused>>
       ELSE /\ task' = [Next_(task) EXCEPT !.stopped = TRUE]
            /\ owner' = NoOwner
            /\ paused' = Public
    /\ StepFrame /\ UNCHANGED <<data, store, ghosts>>

BackUp ==
    LET op == task.st.operation IN
    /\ At("backing_up", "work") /\ Success
    /\ backups' = [o \in DOMAIN backups \cup {op} |->
                      IF o = op THEN [g \in task.st.policy |-> data[g]] ELSE backups[o]]
    /\ task' = [Next_(task) EXCEPT !.st.backup = op]
    /\ StepFrame /\ UNCHANGED <<owner, data, binaries, paused, ghosts>>

(* The candidate's -update-migrate process takes the session and migrates   *)
(* one group after the other; what it did stays when it is killed.  The one *)
(* of a crashed launcher may run on for a while.                            *)
StartMigration ==
    /\ At("installing", "work") /\ owner.kind # "migrate" /\ Success
    /\ owner' = [NoOwner EXCEPT !.kind = "migrate", !.binary = task.st.candidate]
    /\ UNCHANGED task
    /\ StepFrame /\ UNCHANGED <<data, store, paused, ghosts>>

MigrateGroup(g) ==
    LET v == owner.binary.version IN
    /\ owner.kind = "migrate"
    /\ CanMigrate(v, g)
    /\ data[g] < Compat[v].generation
    /\ data' = [data EXCEPT ![g] = Compat[v].generation]
    /\ UNCHANGED <<disk, mem, task, launcher, checking, owner, store, failure,
                   paused, contact, faults, ghosts>>

FinishMigration ==
    /\ At("installing", "work") /\ owner.kind = "migrate" /\ Success
    /\ \A g \in Groups : CanMigrate(owner.binary.version, g)
                            => data[g] >= Compat[owner.binary.version].generation
    /\ task' = IF Preflight(owner.binary.version) THEN Next_(task) ELSE Fail(task)
    /\ owner' = NoOwner
    /\ StepFrame /\ UNCHANGED <<data, store, paused, ghosts>>

(* Killed on a timeout or a cancellation, or failing by itself.             *)
MigrationFails ==
    /\ At("installing", "work") /\ Interrupted
    /\ task' = Fail(task)
    /\ owner' = NoOwner
    /\ StepFrame /\ UNCHANGED <<data, store, paused, ghosts>>

(* verifiedStart(candidate) in probation: no write is admitted yet.         *)
StartCandidate ==
    /\ At("restarting", "work") /\ Success
    /\ owner' = Serve(task.st.candidate, FALSE)
    /\ task' = Next_(task)
    /\ StepFrame /\ UNCHANGED <<data, store, paused, ghosts>>

\* mutant: health waits for a server that may have died
CheckCandidateWaits ==
    /\ At("checking", "work") /\ Success
    /\ Alive
    /\ task' = IF Healthy(owner.binary.version) THEN Next_(task) ELSE Fail(task)
    /\ Quiet

CheckCandidate ==
    /\ At("checking", "work") /\ Success
    /\ task' = IF Alive /\ Healthy(owner.binary.version) THEN Next_(task) ELSE Fail(task)
    /\ Quiet

(* The child's commit: it admits writes and answers.  The answer may be     *)
(* lost, or an error although the child has opened.                         *)
Commit(step, done, failed) ==
    /\ At(step, "work")
    /\ \/ Alive /\ Success /\ owner' = [owner EXCEPT !.active = TRUE] /\ task' = done
       \/ /\ IF Alive THEN Fault ELSE Success
          /\ \E opened \in (IF Alive THEN BOOLEAN ELSE {FALSE}) :
                owner' = [owner EXCEPT !.active = @ \/ opened]
          /\ task' = failed
    /\ StepFrame /\ UNCHANGED <<data, store, paused, ghosts>>

Completed ==
    Return(task, [task.st EXCEPT !.candidate = NoBinary, !.dataChanged = FALSE,
                                 !.recovery = FALSE,
                                 !.stage = IF task.action = "rollback" THEN "rolled_back"
                                           ELSE "completed"])

RolledBack(t) == Return(t, [t.st EXCEPT !.stage = "rolled_back"])

(* A maintenance launcher leaves the installation stopped.                  *)
Activate ==
    IF Offline
    THEN /\ At("activating", "work") /\ Success
         /\ owner' = NoOwner /\ task' = Completed
         /\ StepFrame /\ UNCHANGED <<data, store, paused, ghosts>>
    ELSE Commit("activating", Completed, Fail(task))

-----------------------------------------------------------------------------
(* fail: back to the predecessor *)

(* verifiedStart(old) in probation, once the running child is stopped.      *)
StartOld(from, to) ==
    /\ At(from, "work")
    /\ \/ Success /\ owner' = Serve(task.st.recoveryVersion, FALSE)
                  /\ task' = Go(task, to, "work")
       \/ Interrupted /\ owner' = NoOwner /\ task' = GiveUp(task)
    /\ StepFrame /\ UNCHANGED <<data, store, paused, ghosts>>

CheckOld(from, to) ==
    /\ At(from, "work")
    /\ \/ Success /\ task' = IF Alive /\ Healthy(owner.binary.version)
                             THEN Go(task, to, "emit") ELSE GiveUp(task)
       \/ Interrupted /\ task' = GiveUp(task)
    /\ Quiet

(* recoverOperationData, on behalf of the operation or of the next launcher.*)
(* Each group of the backup is put back; whoever crashed in between starts  *)
(* over.                                                                    *)
Saved(st) == IF st.dataChanged /\ st.backup \in DOMAIN backups
             THEN DOMAIN backups[st.backup] ELSE {}

Misses(op, g) == <<op, g>> \in stale

Outstanding(st) ==
    {g \in Saved(st) : \/ data[g] # backups[st.backup][g]
                       \/ Misses(st.backup, g) /\ g \notin lost}

\* mutants: startup looks only at Busy, or forgets the terminal stages
InterruptsBusy(st)     == st.busy /\ st.stage \notin Terminal
InterruptsAnyStage(st) == st.busy \/ st.recovery

Interrupts(st)  == (st.busy \/ st.recovery) /\ st.stage \notin Terminal
MustRecover(st) == Interrupts(st) /\ st.recovery /\ ~st.writesOpened

Recovering ==
    \/ At("restore", "work")
    \/ launcher = "booting" /\ task.step = "boot_recover" /\ MustRecover(task.st)

RestoreGroup(g) ==
    LET st == task.st IN
    /\ Recovering
    /\ g \in Outstanding(st)
    /\ data' = [data EXCEPT ![g] = backups[st.backup][g]]
    /\ lost' = IF Misses(st.backup, g) THEN lost \cup {g} ELSE lost
    /\ UNCHANGED <<disk, mem, task, launcher, checking, owner, store, failure,
                   paused, contact, faults, stale>>

(* After the restoration: what was not backed up must be readable by        *)
(* contract, and the predecessor's preflight must pass.                     *)
Recoverable(st) ==
    st.dataChanged =>
        /\ st.backup # 0 => st.backup \in DOMAIN backups
        /\ \/ st.policy = Groups
           \/ st.candidate # NoBinary /\ CanRollback(st.recoveryVersion, st.candidate)
        /\ st.recoveryVersion.op \in binaries
        /\ Preflight(st.recoveryVersion.version)

Recovered(st) == [st EXCEPT !.current = st.recoveryVersion, !.candidate = NoBinary,
                            !.dataChanged = FALSE, !.recovery = FALSE]

(* The server is stopped, and the task notes what it has to recover.        *)
BeginRecovery ==
    /\ At("recover", "work") /\ Success
    /\ owner' = NoOwner
    /\ task' = [Go(task, "restore", "work") EXCEPT !.st.recovery = TRUE,
                                                  !.st.dataChanged = task.changed]
    /\ StepFrame /\ UNCHANGED <<data, store, paused, ghosts>>

FinishRecovery ==
    LET st == task.st
        restored == launcher # "stopping" /\ Outstanding(st) = {} /\ Recoverable(st)
        t == [task EXCEPT !.st = Recovered(st)]
    IN
    /\ At("restore", "work")
    /\ \/ /\ Success
          /\ task' = IF ~restored THEN GiveUp(task)
                     ELSE IF Offline THEN RolledBack(t)
                     ELSE Go(t, "recover_start", "work")
          /\ restored \/ launcher = "stopping" \/ Outstanding(st) = {}
       \/ Fault /\ task' = GiveUp(task)
    /\ Quiet

GoBack ==
    \/ StartOld("undo", "undo_health")
    \/ CheckOld("undo_health", "undo_commit")
    \/ Commit("undo_commit", RolledBack(task), GiveUp(task))
    \/ BeginRecovery \/ FinishRecovery
    \/ StartOld("recover_start", "recover_health")
    \/ CheckOld("recover_health", "recover_commit")
    \/ Commit("recover_commit", RolledBack(task), GiveUp(task))

-----------------------------------------------------------------------------
(* After the operation *)

(* perform's deferred public activation, with whatever server there is.     *)
Reopen ==
    /\ At("reopen", "work")
    /\ \/ /\ Alive /\ Success
          /\ paused' = FALSE
          /\ task' = Go(task, "settle", "work")
       \/ /\ IF Alive THEN Fault ELSE Success
          /\ task' = [Go(task, "settle", "work") EXCEPT !.st.recovery = TRUE,
                                                        !.st.stage = "failed"]
          /\ UNCHANGED paused
    /\ StepFrame /\ UNCHANGED <<owner, data, store, ghosts>>

(* settleOperation journals the result, still busy, before it deletes.      *)
Settled(st) ==
    [st EXCEPT !.busy = TRUE,
               !.retained = IF st.backup # 0 /\ st.stage \in Terminal THEN 0 ELSE @]

Settle ==
    LET st == Settled(task.st) IN
    /\ At("settle", "work")
    /\ \E good \in BOOLEAN :
          /\ Save(st, good)
          /\ mem' = IF good THEN Heard(st) ELSE mem
          /\ task' = [Go(task, IF good /\ launcher # "stopping" THEN "prune" ELSE "finish",
                         "work") EXCEPT !.st = st]
    /\ UNCHANGED <<launcher, checking, owner, data, store, failure, paused,
                   contact, ghosts>>

\* mutant: the predecessor is not kept
KeptCurrent(st) == {st.current.op} \cup {b.op : b \in {st.candidate} \ {NoBinary}}

(* pruneArtifacts: only what the acknowledged journal refers to is kept.    *)
Kept(st)        == {st.current.op} \cup {b.op : b \in {st.previous, st.candidate} \ {NoBinary}}
KeptBackups(st) == {st.backup, st.retained}

Without(o) == [p \in DOMAIN backups \ o |-> backups[p]]

Prune ==
    LET garbage == DOMAIN backups \ KeptBackups(task.st) IN
    /\ At("prune", "work")
    /\ \/ /\ Success
          /\ backups' = Without(garbage)
          /\ binaries' = binaries \cap Kept(task.st)
       \/ /\ Interrupted
          /\ \E some \in SUBSET garbage : backups' = Without(some)
          /\ UNCHANGED binaries
    /\ stale' = {m \in stale : m[1] \in DOMAIN backups'}
    /\ task' = Go(task, "finish", "work")
    /\ UNCHANGED <<disk, mem, launcher, checking, owner, data, failure, paused,
                   contact, lost>>

(* The main loop takes the result.  An installation that should serve must  *)
(* have a server process now; a stopping launcher leaves.                   *)
Finish ==
    LET ended == [task.st EXCEPT !.busy = FALSE]
        st == IF launcher = "stopping" THEN ended ELSE Restrict(ended)
    IN
    /\ At("finish", "work")
    /\ \E good \in BOOLEAN :
          /\ Save(st, good)
          /\ IF ~good \/ launcher = "stopping" \/ (~Offline /\ ~st.recovery /\ ~Alive)
             THEN Exit
             ELSE /\ mem' = st /\ task' = NoTask
                  /\ paused' = (paused /\ contact # "known")
                  /\ contact' = "done"
                  /\ UNCHANGED <<launcher, owner, checking, failure>>
    /\ UNCHANGED <<data, store, ghosts>>

-----------------------------------------------------------------------------
(* Startup *)

(* The launcher waits for the session: a server of a crashed launcher must  *)
(* have closed its databases.                                               *)
Launch ==
    /\ launcher = "down" /\ owner = NoOwner
    /\ launcher' = "booting"
    /\ owner' = [NoOwner EXCEPT !.kind = "launcher"]
    /\ mem' = disk
    /\ task' = [NoTask EXCEPT !.step = "boot_recover", !.st = disk]
    /\ UNCHANGED <<disk, checking, data, store, failure, paused, contact, faults, ghosts>>

Booting(step) == launcher = "booting" /\ task.step = step

BootFrame == UNCHANGED <<data, store, ghosts>>

(* Startup fails: Run returns and the session is closed.                    *)
BootFails == Booting("boot_recover") /\ Fault /\ UNCHANGED disk /\ Exit /\ BootFrame

(* The part of Run before the server starts: an interrupted operation is    *)
(* recovered unless its end was already decided.                            *)
BootRecover ==
    LET st == task.st
        result == IF MustRecover(st) THEN Recovered(st) ELSE st
        entry == [result EXCEPT !.stage = IF Interrupts(st) THEN "failed" ELSE @,
                                !.busy = FALSE]
    IN
    /\ Booting("boot_recover")
    /\ MustRecover(st) => Outstanding(st) = {}
    /\ IF MustRecover(st) /\ ~Recoverable(st)
       THEN Success /\ UNCHANGED disk /\ Exit
       ELSE \E good \in BOOLEAN :
               /\ IF st.busy \/ st.recovery THEN Save(entry, good)
                  ELSE good /\ Success /\ UNCHANGED disk
               /\ IF good
                  THEN /\ task' = [task EXCEPT !.step = "boot_start", !.st = entry]
                       /\ UNCHANGED <<mem, launcher, owner, checking, failure,
                                      paused, contact>>
                  ELSE Exit
    /\ BootFrame

(* The session is handed to the server of the current version, which admits *)
(* writes at once, and the store is settled beside the main loop.           *)
BootStart ==
    LET st == Restrict(task.st) IN
    /\ Booting("boot_start")
    /\ \/ /\ Save(st, TRUE)
          /\ launcher' = "running"
          /\ mem' = [st EXCEPT !.busy = TRUE]
          /\ task' = [task EXCEPT !.step = "settle", !.st = mem']
          /\ owner' = IF Offline THEN NoOwner ELSE Serve(st.current, TRUE)
          /\ UNCHANGED <<checking, failure, paused, contact>>
       \/ Fault /\ disk' \in {disk, st} /\ Exit
    /\ BootFrame

-----------------------------------------------------------------------------
(* The main loop's other handlers *)

StartCheck ==
    /\ launcher = "running" /\ ~checking /\ ~mem.busy
    /\ checking' = TRUE
    /\ UNCHANGED <<disk, mem, task, launcher, owner, data, store, failure,
                   paused, contact, faults, ghosts>>

(* The signed manifest of some release, or none (0); its sequence may not   *)
(* move backwards.                                                          *)
CheckResult(sequence) ==
    LET entry == IF sequence = 0 \/ sequence < mem.highest THEN mem
                 ELSE [mem EXCEPT !.highest = sequence,
                                  !.stage = IF sequence > mem.current.version
                                            THEN "available" ELSE "current"]
    IN
    /\ launcher = "running" /\ checking
    /\ \E good \in BOOLEAN :
          /\ Save(entry, good)
          /\ IF good THEN /\ mem' = entry /\ checking' = FALSE
                          /\ UNCHANGED <<task, launcher, owner, failure, paused, contact>>
             ELSE Exit
    /\ UNCHANGED <<data, store, ghosts>>

(* An accepted operation: perform is its goroutine.                         *)
Accepted(policy) ==
    [mem EXCEPT !.busy = TRUE, !.operation = @ + 1, !.stage = "preparing",
                !.policy = policy, !.dataChanged = FALSE,
                !.recoveryVersion = mem.current, !.backup = 0,
                !.retained = IF mem.backup # 0 THEN mem.backup ELSE @,
                !.candidate = NoBinary, !.writesOpened = FALSE]

\* mutant: an operation starts beside a release check
AcceptableWhileChecking(action) ==
    /\ ~mem.recovery /\ ~mem.busy
    /\ IF action = "upgrade" THEN mem.highest # 0
       ELSE mem.rollback /\ mem.previous # NoBinary

Acceptable(action) ==
    /\ ~mem.recovery
    /\ ~mem.busy /\ ~checking
    /\ IF action = "upgrade" THEN mem.highest # 0
       ELSE mem.rollback /\ mem.previous # NoBinary

Accept(action, policy) ==
    /\ launcher = "running" /\ Acceptable(action)
    /\ mem.operation < MaxOperations
    /\ \E good \in BOOLEAN :
          /\ Save(Accepted(policy), good)
          /\ IF good
             THEN /\ mem' = Accepted(policy)
                  /\ task' = [NoTask EXCEPT !.step = "preparing", !.st = mem',
                                            !.before = mem.previous, !.action = action]
                  /\ paused' = Public
                  /\ UNCHANGED <<launcher, owner, checking, failure, contact>>
             ELSE Exit
    /\ UNCHANGED <<data, store, ghosts>>

(* worker.failures: during an operation, and by a maintenance launcher, the *)
(* exit of a server is read and forgotten.                                  *)
HandleFailure ==
    LET entry == [mem EXCEPT !.recovery = TRUE, !.stage = "failed"] IN
    /\ launcher = "running" /\ failure
    /\ IF mem.busy \/ Offline
       THEN /\ failure' = FALSE /\ Success
            /\ UNCHANGED <<disk, mem, task, launcher, owner, checking, paused, contact>>
       ELSE IF Public
       THEN \E good \in BOOLEAN :
               /\ Save(entry, good)
               /\ IF good THEN /\ mem' = entry /\ failure' = FALSE /\ paused' = TRUE
                               /\ UNCHANGED <<task, launcher, owner, checking, contact>>
                  ELSE Exit
       ELSE Success /\ UNCHANGED disk /\ Exit
    /\ UNCHANGED <<data, store, ghosts>>

\* mutant: the report opens the public listeners in the middle of an operation
ServerReadyOpens ==
    /\ Public /\ launcher = "running" /\ Alive
    /\ contact' = IF contact = "none" THEN "known" ELSE contact
    /\ paused' = FALSE
    /\ UNCHANGED <<disk, mem, task, launcher, checking, owner, data, store,
                   failure, faults, ghosts>>

(* A server that listens reports its address, whenever the main loop comes  *)
(* to read it; public listeners open for it unless an operation runs.       *)
ServerReady ==
    /\ Public /\ launcher = "running" /\ Alive
    /\ contact' = IF contact = "none" THEN "known" ELSE contact
    /\ paused' = (mem.busy /\ paused)
    /\ UNCHANGED <<disk, mem, task, launcher, checking, owner, data, store,
                   failure, faults, ghosts>>

(* stop: without an operation Run returns, otherwise it waits for the end.  *)
Stop ==
    /\ launcher = "running"
    /\ IF mem.busy
       THEN /\ launcher' = "stopping"
            /\ UNCHANGED <<disk, mem, task, owner, checking, failure, paused, contact>>
       ELSE UNCHANGED disk /\ Exit
    /\ Success
    /\ UNCHANGED <<data, store, ghosts>>

-----------------------------------------------------------------------------
(* The processes and the machine *)

(* A server that admits writes writes: every copy of the group is older now.*)
AcceptWrite(g) ==
    /\ owner.kind = "server" /\ owner.active
    /\ stale' = stale \cup {m \in {<<o, g>> : o \in DOMAIN backups} :
                               g \in DOMAIN backups[m[1]]}
    /\ UNCHANGED <<disk, mem, task, launcher, checking, owner, data, store,
                   failure, paused, contact, faults, lost>>

ServerDies ==
    /\ Alive /\ Fault
    /\ owner' = NoOwner
    /\ failure' = TRUE
    /\ UNCHANGED <<disk, mem, task, launcher, checking, data, store, paused,
                   contact, ghosts>>

(* The launcher dies.  Its children see their lifeline close and drain; they*)
(* own the session until they exit.                                         *)
Crash ==
    /\ launcher # "down" /\ Fault
    /\ launcher' = "down"
    /\ mem' = disk /\ task' = NoTask
    /\ owner' = IF owner.kind \in {"server", "migrate"}
                THEN [owner EXCEPT !.orphan = TRUE] ELSE NoOwner
    /\ checking' = FALSE /\ failure' = FALSE /\ paused' = Public /\ contact' = Unknown
    /\ UNCHANGED <<disk, data, store, ghosts>>

OrphanExits ==
    /\ owner.orphan
    /\ owner' = NoOwner
    /\ UNCHANGED <<disk, mem, task, launcher, checking, data, store, failure,
                   paused, contact, faults, ghosts>>

-----------------------------------------------------------------------------
Fallible == {"preparing", "downloading", "verifying", "inspecting", "preparing_backup",
             "stopping", "backing_up", "restarting", "checking"}

TaskStep ==
    /\ UNCHANGED setup
    /\ \/ Emit \/ Prepare \/ Download \/ Verify \/ Inspect \/ StopServer \/ BackUp
       \/ StartMigration \/ FinishMigration \/ MigrationFails
       \/ StartCandidate \/ CheckCandidate \/ Activate \/ GoBack
       \/ Reopen \/ Settle \/ Prune \/ Finish
       \/ \E step \in Fallible : StepFails(step)

DataStep == UNCHANGED setup /\ \E g \in Groups : MigrateGroup(g) \/ RestoreGroup(g)

LauncherStep ==
    /\ UNCHANGED setup
    /\ \/ Launch \/ BootFails \/ BootRecover \/ BootStart
       \/ StartCheck \/ \E sequence \in Releases \cup {0} : CheckResult(sequence)
       \/ \E action \in {"upgrade", "rollback"}, policy \in Policies : Accept(action, policy)
       \/ HandleFailure \/ ServerReady \/ Stop

OutsideStep ==
    /\ UNCHANGED setup
    /\ \/ \E g \in Groups : AcceptWrite(g)
       \/ ServerDies \/ Crash \/ OrphanExits

Next == TaskStep \/ DataStep \/ LauncherStep \/ OutsideStep

Spec == Init /\ [][Next]_vars

(* The goroutines of the operation and of the main loop are scheduled, and  *)
(* every wait in them has a deadline; external processes finish or are      *)
(* killed.                                                                  *)
FairSpec == Spec /\ WF_vars(TaskStep) /\ WF_vars(DataStep)

-----------------------------------------------------------------------------
(* Properties *)

TypeOK ==
    /\ setup \in Setups
    /\ disk \in Journal /\ mem \in Journal /\ task.st \in Journal
    /\ task.phase \in {"emit", "work"} /\ task.before \in Binary
    /\ task.stopped \in BOOLEAN /\ task.changed \in BOOLEAN
    /\ launcher \in {"down", "booting", "running", "stopping"}
    /\ checking \in BOOLEAN /\ failure \in BOOLEAN /\ paused \in BOOLEAN
    /\ owner \in [kind : {"none", "launcher", "server", "migrate"}, binary : Binary,
                  active : BOOLEAN, orphan : BOOLEAN]
    /\ data \in [Groups -> Nat]
    /\ binaries \subseteq 0..MaxOperations
    /\ DOMAIN backups \subseteq Operations
    /\ \A o \in DOMAIN backups : /\ DOMAIN backups[o] \subseteq Groups
                                 /\ \A g \in DOMAIN backups[o] : backups[o][g] \in Nat
    /\ contact \in {"none", "known", "done"}
    /\ faults \in 0..MaxFaults
    /\ stale \subseteq Operations \X Groups /\ lost \subseteq Groups

(* No write a server admitted is ever overwritten by a restored backup, by  *)
(* whichever failed step, crash, or recovery (fail, recoverOperationData    *)
(* and the startup of Run).                                                 *)
NoAcceptedWriteLost == lost = {}

(* A server that admits writes can read the data as they are: an operation  *)
(* opens only what passed its health check, and startup only what the       *)
(* journal may select.                                                      *)
WriterReadsData == owner.kind = "server" /\ owner.active => Healthy(owner.binary.version)

(* Whenever the machine stops, the journal on disk leads back: it selects a *)
(* version that reads the data, or it marks them for recovery.              *)
RecoverableBoundary ==
    \/ Healthy(disk.current.version)
    \/ disk.recovery /\ ~disk.writesOpened /\ disk.dataChanged /\ disk.stage \notin Terminal

(* The journal on disk never refers to an artifact that was pruned: the     *)
(* versions it names can start, the backup it would restore is there.       *)
ReferencedArtifactsExist ==
    /\ TypeOK
    /\ {b.op : b \in {disk.current, disk.previous} \ {NoBinary}} \subseteq binaries
    /\ disk.recovery /\ disk.dataChanged =>
          /\ disk.recoveryVersion.op \in binaries
          /\ disk.backup # 0 => disk.backup \in DOMAIN backups

(* While no operation runs, the server of this launcher is the version its  *)
(* journal selects.                                                         *)
ServesSelectedVersion ==
    launcher = "running" /\ ~mem.busy /\ Alive /\ owner.active
        => owner.binary = mem.current /\ disk.current = mem.current

(* The public listeners refuse edits while the data change hands.           *)
ClosedDuringMigration ==
    Public /\ launcher # "down" /\ (owner.kind = "migrate" \/ task.step = "restore") => paused

(* The official sequence on disk never goes back, across checks, operations *)
(* that carry their own copy of the journal, and crashes.                   *)
SequenceNeverDrops == [][disk'.highest >= disk.highest]_vars

(* An operation whose end is on disk is not judged again: no interrupted    *)
(* cleanup and no restart turns a committed update into a failed one, or    *)
(* selects another version (supervisor.go: "An interrupted cleanup must not *)
(* turn a committed update into a failed version operation").               *)
CommittedStays ==
    [][disk.busy /\ disk.stage \in Terminal
          => disk'.stage = disk.stage /\ disk'.current = disk.current]_vars

(* A launcher that got an operation ends it: done, failed, or gone.         *)
OperationEnds ==
    (launcher \in {"running", "stopping"} /\ mem.busy) ~> (~mem.busy \/ launcher = "down")

(* A rollback the supervisor offers can read the data (perform refuses any  *)
(* other: "previous release cannot safely read current data").  It does not *)
(* hold: fail computes the offer from the contract of the version it went   *)
(* back to, while the data keep the format of the version it left.          *)
OfferedRollbackReadsData ==
    launcher = "running" /\ ~mem.busy /\ mem.rollback => Healthy(mem.previous.version)

(* Startup says that an interrupted operation was "recovered before         *)
(* startup"; nothing is left to recover then.  It does not hold: the flag   *)
(* set when the public server failed is neither recovered nor cleared.      *)
StartupRecovers ==
    Booting("boot_start") /\ task.st.stage = "failed" => ~task.st.recovery
=============================================================================
